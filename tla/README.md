# TLA+ models of KataGo for the web

This directory holds specifications of the program under `src/`, KataGo, a Go engine
in C++, in a fork that also runs in the browser: of its concurrent core, and of the
core of its game logic.  The specifications are checked with TLC on small instances.
The central one, the batching neural-net evaluator, is proved with TLAPS for every
number of threads, positions and every batch size.  So are the safety properties of every
other concurrent part that the runs check: among others that the visits and virtual losses of a
search tree add up whatever its threads do, that no neural net goes while a game has it and
no finished game is lost, and that the verdict of a
gatekeeper match is the one all its games would have given.

Names in the specifications are those of the source where TLA+ allows it.  The
entry of each definition in `PROJECT.json`, under `map`, names the lines it
stands for.

## 1. The system

### 1.1 Components, their state and how they interact

| Component | State it keeps | Operations | Talks to |
|---|---|---|---|
| Neural-net evaluator (`neuralnet/nneval`) | ring of batches with two indices and a length, kill flag, server threads, cache table, one `NNResultBuf` per caller | `evaluate`, `serve`, `spawnServerThreads`, `killServerThreads`, `setNumThreads`, `clearCache` | called by every search thread; calls the backend's `getOutput` |
| Thread-safe queue (`core/threadsafequeue.h`) | vector with a dead prefix, `closed`, `readOnly`, two condition variables | `waitPush`, `forcePush`, `waitPop`, `tryPop`, `size`, `close`, `setReadOnly` | hands work between threads of analysis, self-play, contribution, gatekeeper |
| Asynchronous bot (`search/asyncbot`) | `isRunning`, `isKilled`, `shouldStopNow`, the queued search, a search thread, perhaps a callback thread | `genMoveAsync[Analyze]`, `genMoveSynchronous[Analyze]`, `analyzeAsync`, `ponder`, `stopAndWait`, `stopWithoutWait`, `setKilled`, setters | runs a `Search`; used by the GTP engine, the analysis engine, the match tools |
| Tree search (`search/search`) | tree of nodes, each with a lock from a pool, visits and virtual losses; playout counts and the stop flag | `beginSearch`, `runWholeSearch`, `runSinglePlayout`, `makeMove`, `clearSearch` | several threads per search, each calls the evaluator and plays on its own board |
| Subtree value bias table (`search/subtreevaluebiastable`) | weight and utility sums for each local pattern, shared by nodes | get an entry, add to it and take back, drop unused entries | nodes of the tree search |
| Analysis engine (`command/analysis.cpp`) | table of open requests, each with an atomic status; priority queue of requests; queue of lines to write | read a request, analyze, terminate, quit | one asynchronous bot per analysis thread |
| GTP engine (`command/gtp.cpp`) | command queue (web build), `genmoveExpectedId`, `currentlyAnalyzing`, position | one command per turn of the main loop | one asynchronous bot |
| Model manager (`program/selfplaymanager`) | loaded models with acquire counts, a queue of finished games and a data-writing loop each | load, acquire, release, `enqueueDataToWrite`, cleanup, destructor | self-play and contribution game threads |
| Self-play command (`command/selfplay.cpp`) | game threads, a thread that loads new nets, number of games started | play a game, switch nets, load a net, stop | model manager |
| Contribution client (`command/contribute.cpp`) | task loops under a priority mutex, game task queue, count of rating games | get task, download models, hand out games, upload, stop | model managers, HTTP client |
| Gatekeeper command (`command/gatekeeper.cpp`) | the match (games started, tallied, points of both sides, queue of finished games), game threads, a data-writing thread, directories of models | look for a model to test, load it, play, tally, stop early, accept or reject | training, which exports models |
| Priority mutex (`core/prioritymutex.h`) | a mutex and a count of high-priority threads | lock and unlock with two priorities | contribution client |
| TensorFlow.js backend (`neuralnet/tfjsbackend.cpp`, `pre.js`, `tfjs_api.js`) | tf.js model and backend, start-up status | `initBackend_async`, `downloadModel_async`, `predict_async` | the evaluator's server thread; the web page |
| Board (`game/board`) | stones, chains as circular lists with a head, their stones and liberties, ko point, hash, captures | play, play recorded, undo, edit, forecasts of a move, pass-alive area | history, search, ladder reading |
| History and rules (`game/boardhistory`, `game/rules`) | hashes of past positions, ring of recent boards, superko bans, passes, phase, encore blocks, score and result | legality, make a move, what a pass would end, end and score, komi, resignation | every component that plays a game |
| Time controls; SGF; training data; numeric backends; commands; Python training code | sequential | | |

A search thread calls `evaluate`, which looks in the cache, appends the caller's
`NNResultBuf` to the batch being filled and sleeps; a server thread takes the
oldest batch, runs the net and wakes each caller with its row.  Search threads
belong to a `Search`; a `Search` belongs to an `AsyncBot`, whose own thread runs
it while the user's thread goes on reading commands.  The engines on top (GTP,
analysis, contribution) hand work to bots and to each other through thread-safe
queues.

### 1.2 What is hard, and what correctness means

* **Evaluator.**  Producers and consumers share one ring; a consumer may take a
  batch producers are still filling; only the first row of a batch wakes a
  server; rows are cleared and answers posted without the ring's lock; the cache
  is replaced and cleared under callers' feet; the servers can be killed and
  respawned on the same ring.  *Correct* means: each request is answered once, with the
  answer to that request; the ring never wraps; servers do not sleep on work.
* **Queue.**  Two condition variables that are notified only at the boundary
  (became non-empty, was exactly full), `forcePush` beyond the bound, closing and
  making read-only with threads asleep inside.  *Correct* means: it is a bounded
  first-in first-out queue, no wakeup is lost, everyone gets out after `close`.
* **Asynchronous bot.**  A stop flag outside the mutex that is set by the user, by other
  threads and by the search itself, and reset by the next search; a callback
  thread that reads the search with no lock held; kills between queueing a
  search and starting it.  *Correct* means: nobody touches the search while it
  runs; each accepted move request is answered, with its own id, unless the bot
  is killed; stopping and killing come to an end.
* **Analysis engine.**  Requests are terminated in any of four stages, by the
  index of the thread that has them.  *Correct* means: one answer per request,
  and terminating one request never stops another.
* **Model manager, self-play and contribution.**  Nets freed by their data-writing
  threads, by a release or by a clean-up while game threads switch between them;
  games pushed to a net without the lock; admission checks made under a lock that is
  then dropped; threads joined one after the other when the command stops.  *Correct*
  means: no net goes while a game has it, no finished game is lost, no more rating games are
  played than the evaluators are made for (more are: see the disagreements in section 3),
  a command that is told to stop ends.
* **Gatekeeper.**  Games still being played when the tally has decided the match are
  stopped and dropped, games are popped and tallied by one thread and judged by another,
  and a signal may come anywhere.  *Correct* means: a model is accepted or
  rejected as it would have been had all games been played, or it stays where it is.
* **Tree search.**  Threads meet at one node between an unlock and the next lock; virtual
  losses are added and taken back by different critical sections; a playout may end
  early at a node that another thread is evaluating; one bias entry is shared by nodes under
  different locks; parts of the tree are kept from one search to the next.  *Correct*
  means: each playout is counted once along its path, nothing temporary is left in the
  tree, bias weights belong to nodes that exist, a search ends when it should.
* **Board and history.**  Everything is updated incrementally.  Captures, suicide, undo and
  edits split and merge chains; superko is looked up through shortcuts; four ko rules,
  two scoring rules, a button and two encore phases interact in the end of a game.
  *Correct* means: the board is what the rules of Go say of the stones, what is
  foreseen of a move is what the move does, and every game ends.
* **Web back end.**  Promises that are rejected while C++ waits for them.

`PROJECT.json` lists these points, each at the line where it bites, under
`hazards`, with the properties that cover it or the reason none does yet.

## 2. The modules

| Module | What it is |
|---|---|
| `NNEvaluator` | the evaluator: callers, servers, owner, ring, cache table |
| `EvalService` | what `evaluate` promises a caller; `NNEvaluator` implements it |
| `MCNNEvaluator` | values and symmetry for TLC |
| `NNEvaluatorProofs` | the inductive invariant of `NNEvaluator` and the theorems |
| `ThreadSafeQueue` | the queue: mutex, condition variables, vector with a dead prefix |
| `BoundedQueue` | the bounded FIFO queue it implements |
| `ThreadSafeQueueProofs` | the invariant of `ThreadSafeQueue`, that it implements `BoundedQueue` |
| `AsyncBot` | user, search thread, callback thread, other threads |
| `AsyncBotProofs` | the inductive invariant of `AsyncBot` and the theorems |
| `AnalysisEngine` | main thread, analysis threads, writer |
| `AnalysisEngineProofs` | the inductive invariant of `AnalysisEngine` and the theorems |
| `GoRules` | what a board promises: stones, ko point, captures, undo; no data structures |
| `Board` | the incremental board as a record: chains, hash, moves, undo, edits, forecasts |
| `BoardArea` | pass-alive area and independent life on a `Board` |
| `BoardHistory` | history, ko rules, end of phases and games, scoring |
| `GoGame` | a board and a history in use; implements `GoRules` |
| `GoGameProofs` | the inductive invariants of the board and of the history, and their theorems |
| `TreeSearch` | search threads on a shared tree, the bias table, tree reuse |
| `TreeSearchProofs` | the inductive invariant of `TreeSearch` and the theorems |
| `SelfplayManager` | the methods of the model manager and its data writing threads |
| `SelfplayCommand` | the selfplay command over a manager |
| `Contribute` | the contribute command over two managers |
| `Gatekeeper` | the gatekeeper command: match, tally, verdict |
| `Command` | what the commands share: which runs, the stop flag, the main thread |
| `Training` | one of the three commands, with the signal handler |
| `ContributeProofs` | the inductive invariant of `Contribute` and the theorems |
| `TrainingProofs` | the inductive invariants of `SelfplayCommand` and `Gatekeeper`, and the theorems about `Training` |
| `MCThreadSafeQueue`, `MCAsyncBot`, `MCAnalysisEngine`, `MCGoGame`, `MCTreeSearch` | modules the TLC configurations run |

Definitions whose name has a suffix after an underscore (`LeftInRing_Copied`,
`MustWait_NoRecheck`, ...) are not part of the model.  Each is the definition it
is named after with a plausible bug in it; `PROJECT.json`, `mutants`, says which
property finds which bug.

### 2.1 NNEvaluator

One action is one critical section: of `bufferMutex` (`Enqueue`, `WaitForBatch`,
`TakeBatch`, `ExitServer`, `KillServerThreads`), of a caller's `resultMutex`
((`PostRow`) or of a cache mutex (`LookupHit`, `LookupWithoutOwnerMap`, `LookupMiss`,
`ClearCacheEntry`),
with the thread-local code around it.  `FinishEvaluate` covers the caller's wakeup, the
postprocessing (`Finished`) and the insertion in the cache table: a result that is set stays
until its caller takes it, so nothing can come between that another thread would
notice except the moment at which the entry changes, and that is the action.

* A caller goes through `clientPc`: idle, lookup, enqueue, waiting, returned.
* `resultBufss[i][r]` is the caller whose `NNResultBuf` stands in row `r` of
  batch `i`; rows are numbered from 1.  `NULL` is the null pointer.
* A position is a member of `Keys`, standing for its 128-bit hash (two positions
  with one hash are the same to the program).  Of an output the model keeps the
  position it was computed from, whether it has an owner map and whose
  perspective it is in: these decide whether an answer is the right one.
* A hit that lacks only the owner map asked for is kept (`resultWithoutOwnerMap`, a local
  variable of `evaluate`): the caller queues for the owner map, and its answer has the old policy
  and values, which are in White's perspective already.  Such a caller does not look at the new
  policy, so only the others may throw on it (`FailEvaluate`).
* A board too large for the net, or a buffer used before with another size, makes `evaluate`
  throw before the row is queued (`RefuseEvaluate`).
* A server with an empty array swaps it for the oldest batch (`TakeBatch`),
  computes (`GetOutput`) and posts row after row (`PostRow`), clearing each row
  of its array as it goes.  That the array is empty again when it is swapped
  back into the ring is not assumed; it is part of what is proved.
* The assertions of the code are properties here (`NeverOverlooped`,
  `ServerAsserts`).  The assertion at the head of `evaluate`, that the servers
  are not being killed, is a guard: in the repository only the destructor and
  `setNumThreads` of the benchmark kill servers, between searches.
* `KillServerThreads` sets the flag, `NotifyAllServers` notifies after the mutex
  is released, `JoinServers` joins the threads.  Server threads can be respawned, in another
  number, on the ring as it was left.
* Condition variables may wake up without cause (`SpuriousWakeup`); a caller
  that wakes up without a result only goes back to sleep, so it is not an action.
* `MaxConcurrentEvals` is the constructor's argument, and the assumption
  `Cardinality(Clients) <= MaxConcurrentEvals` is its contract.  `RingAssumption`
  bounds the ring by the range in which the doubling loop of the constructor
  does not overflow (2^20 batches; the configurations use a few hundred).

### 2.2 ThreadSafeQueue

A blocking call is `CallWaitPush` or `CallWaitPop`, then one `WaitPush` or
`WaitPop` per attempt under the mutex, which returns or goes to sleep.  The other
operations are one critical section each.  `pc` says which condition variable a
thread sleeps on; `Woken` is the effect of `notify_all`.  The vector and
`headIdx` are kept as they are in the code, compaction included.  A thread asks for the
size only of an open queue, as the program does: `close` empties the vector and keeps
`headIdx`, so the assertion of a later `size` would fail.

### 2.3 AsyncBot

The user is one thread, as the header demands; `stopWithoutWait` and `setKilled`
come from any other thread at any time, as they do in the analysis engine.
`userPc` is where the user is in the API; the calls that change the search object
(`setPosition`, `makeMove`, ...) are `CallStopAndWait`, `WaitForSearchToEnd` and
then `ChangeSearch` with no lock held.  `queued` is what the search thread will
find: id, whether there is an `onMove`, whether the search calls back.  The code asks twice: it
starts the callback thread if there is a callback and its period is in range, and joins it if the
period is in range.  Every caller that gives a period in range gives a callback, so one flag
says both; a period of 10000000 seconds or more, GTP's way to ask for no reports, is an
`analyzeAsync` with that flag down.
`owed` is a history variable: the accepted `genMove` whose `onMove` is still to
be called.  A search may end by its own limits at any time after it has begun, and
need not.  `FinishSearch` is one critical section with the next turn of the loop,
which goes back to sleep or exits without releasing the mutex.  After the
destructor the constructor may make a new bot, so that destruction is checked at
any point of a bot's life and the state space has no end state.

### 2.4 AnalysisEngine

The actions of the main thread follow `apiPc` through `requestLoop` and the quitting
code behind it, those of an analysis thread follow `threadPc` through
`analysisLoop`, those of the writer are `WriteMessage` and `ExitWriter`.  A request
is its internal id; `request` holds what was asked, `status` the atomic of the
code (-1, -2, -3 or the index of a thread).

* A terminate action is `ReadTerminate`, which takes `openRequestsMutex`, then
  for each request that matches `TerminateRequest` (the exchange of the status)
  and `ActOnTerminate` (the dummy answer or the stop), then `EchoTerminate`.  The
  other critical sections of the mutex are one action each, so its holder
  needs no variable: it is held in `Terminating`.
* The queues and bots are used by their promises, which `ThreadSafeQueue` and
  `AsyncBot` establish: a call of `genMoveSynchronous` comes back after the search
  it queued has ended, its stop flag is reset once, at queueing, its callbacks
  have returned, and a killed bot comes back at once or when its search thread
  finds out.  The search itself is `OnSearchBegun`, `EvaluateRoot`,
  `ReportDuringSearch`, and `SeeShouldStop` or `ReachLimits`.
* Setting up and clearing a search touches only the thread's own bot, so it is
  part of the neighbouring step (`GenMove`, `EraseRequest`).
* The parsing of a query is abstracted to its outcome: a query that is accepted
  (`ReadQuery`) or one with an illegal move (`ReadIllegalMoves`), which uses up
  internal ids.  A query that is rejected for another reason, or `query_version`, is one
  line of output and no other change; it is left out.
* Whether the cap on visits is zero is chosen for each turn of a query: it depends on the passes
  before that turn.
* `quitWithoutWaiting` is an option of the command line that is first read when the
  input ends, so the model chooses it there.
* `freed` and `printed` are history variables.

### 2.5 Board, BoardArea, BoardHistory, GoGame

A board is a record and each method of `Board` an operator that returns the board
after it; so is a history.  `GoGame` holds one of each and turns the methods into actions:
moves that are recorded and taken back as on the stack of the ladder search, edits
(`setStone`), then a game under some rules, move by move, with the early end of
self-play games, resignation, forced scoring and changes of komi.

* Chains are kept as the code keeps them: `chain_head`, `next_in_chain`, and at the head
  the counts.  `mergeChains`, `removeChain`, `rebuildChain` and the rest follow the code
  list by list, because the order in which lists are spliced is where a mistake would be.
  What `board.h` declares undefined (data of a chain away from its head, links of empty
  points) is reset after each operation, so that two boards the code cannot tell apart
  are equal.
* The two flood fills that build a chain are recursive in the code.  Here they are loops
  over the stack of the calls that are still to come (`addChainHelper`,
  `rebuildChainHelper`): a call at a point where there is nothing to do returns at once.
* A Zobrist hash is the set of what was xor-ed into it.  Two positions with one
  hash are one position; collisions of 128-bit hashes are out of scope.
* Pass-alive area follows `calculateAreaForPla`; what the code marks in arrays while it
  floods regions is stated as sets.
* Scores count half points.
* `positions` and `past` are history variables: the positions of the game, and those
  that recorded moves were made in.
* `GoRules` knows only stones.  A group is what adjacency makes it, a move takes the groups left
  without liberties, a ko is the capture of one stone by one stone with one liberty, an
  undo restores the position.  `RefinesRules` says that `GoGame` implements it.

### 2.6 TreeSearch

A node is named by the moves of the game up to it, so the tree is a function on sequences
of moves.  A thread is in `runSinglePlayout`; one action of it is what it does in
one hold of the lock of its node (`HitLeaf`, `SelectChild`, `ReadChildren`,
`WriteStats`), or of the entry of the bias table (`UpdateBias`), or one access to an
atomic.  Between them every other thread may move.

* The code descends by recursion and updates on the way back.  Here a thread has its
  node `at`, and coming back is `Return`, which also subtracts the virtual losses.
* Which child is best depends on real numbers, so any may be chosen, and any new move
  tried.
* What the board says of a sequence of moves is a constant, any function of it: whether the game is
  over (`isGameFinished`: passes, cycles without a result, spight endings), whether a pass would end
  it, and the stones, ataris and ko around the last move that the key of a bias entry includes
  (`LocalPattern`).
* `leaf`, in a node, is not in the code: the number of times a value was added to it as a
  leaf or a finished game.
* Between searches, `makeMove` keeps the subtree of the move and deletes the rest,
  `clearSearch` deletes everything, and `beginSearch` drops the root's children that are
  no longer allowed.  The bias weights of nodes that go are taken back as the code does.
* A limit of time may strike whenever the code looks at the clock; visits and playouts are
  counted, each against its own limit.

### 2.7 Command, SelfplayManager, SelfplayCommand, Contribute, Gatekeeper, Training

Each method of the manager is one critical section of its mutex, so it is an operator here,
and the commands that extend the module make actions of them.  A net is known
by the order of loading; the last is the latest.  `net[n]` has the acquire count, the
number of finished games in its queue, and where its data-writing thread is.

* In `SelfplayCommand` each game thread goes through one turn of `gameLoop`:
  acquire, count, play, perhaps switch, push, release.  `CheckForNewNNEval` and `SwitchNet`
  are two critical sections of the manager with a window between them, and so are
  `FindQueue` and `PushData`.
* In `Contribute` a task loop holds `taskLoopMutex` from the admission of a task to the
  last of its games, save for downloads.  `UnlockToDownload`, `Download` and `LockTasks`
  are that window.  A game of training data is uploaded with the mutex of its manager held
  (`withDataWriters`): `UploadGame` ends that, and until then whoever needs the manager waits
  (`MutexFree`); a rating game is uploaded without a lock.  The mutex of the task loops is the plain one that the code has in effect:
  `PriorityLock::lockLowPriority` locks with high priority.
* Which unused nets are old enough to unload, and which model files to delete, depends
  on the clock: any may be, also files just wanted (`deleteUnusedModelsAfterDays` may be 0).  The managers of `Contribute` are made without automatic
  clean-up, as the code makes them; its task loops unload nets themselves.
* `SelfplaySpec` and `ContributeSpec` are one command by itself, with the signal that may come at
  any time.  The proofs are about them.
* In `Gatekeeper`, `netAndStuff` is the match, with its queue of finished games, a sequence here
  (it is `ThreadSafeQueue`, without a bound that could be reached, made read-only when the
  game threads have been joined: `isDraining`).  A game thread goes through one turn of
  `gameLoop`: look at the stop conditions, take a pairing, play, push.  The data-writing thread
  pops and tallies in two steps.  A game is worth two points, so a draw, or a game without a result,
  which the configuration may divide in any way, is any division of two.  A model is known by
  its modification time, which is what the code compares.  When no net was loaded, be it that there is
  none to test or that the candidate was too old, the command polls again or, with
  `--quit-if-no-nets-to-test`, stops (`NothingLoaded`).
* `Training` runs one of the three commands, as `main.cpp` does, and adds the signal that sets
  `shouldStop` at any point.
* `finished` and `written`, games of each net, are history variables.

## 3. The runs

| Run | Instance | Checks |
|---|---|---|
| `nneval_safety` | 3 callers, 2 servers, 2 positions on one cache entry, batches of 2, ring of 4 | `TypeOK`, `NeverOverlooped`, `QueuedExactlyOnce`, `RingShape`, `ServerAsserts`, `NoLostWakeup`, `ResultMatches` |
| `nneval_live` | 2 callers, 2 servers, 1 position, batches of 1 | `ServiceRefined` (refinement with fairness), `KillCompletes` |
| `queue` | 3 threads, 2 values, room for 1, forced up to 2 | `SleepersHaveReason`, `QueueRefined` (refinement with fairness), `SizeAssertHolds` |
| `asyncbot` | 2 search ids, any calls, stops and kills | `SearchUndisturbed`, `MoveOwed`, `StopReturns`, `KillEndsAll` |
| `asyncbot_search_throws` | 1 search id, searches may throw | violation of `StopReturns` |
| `analysis_safety` | 2 threads, 2 requests with 2 turns and 2 priorities, 2 terminate actions or rejected queries | `OneFinalAnswer`, `StopHitsTarget`, `NoUseAfterFree`, `NoOvertaking`, `AssertsHold`, `QuitLeavesNothing` |
| `analysis_live` | the same with 1 turn, 1 priority, 1 terminate action, and reports during searches | `FinalAnswerIsLast`, `TerminatedIsAnswered`, `QuickQuitEnds`, `EveryRequestAnswered` |
| `analysis_zero_visits` | 1 thread, 1 request, searches of zero visits | violation of `NoResultsOnlyWhenQuitting` |
| `go_game` | ten positions of up to 9 points: edits with an undo stack, games of up to 8 moves under eight sets of rules, and games to the end on 2 points under six | `ChainsAreGroups`, `RefinesRules` (refinement), `ForecastsRight`, `HistoryTellsGame`, `PassAliveStays`, `EveryGameEnds` |
| `tree_search` | 2 threads, 2 searches of up to 3 visits, the first with room for 3 playouts and the second for 2, 2 moves, 2 mutexes | `VisitsAddUp`, `BiasConserved`, `SearchEnds` |
| `training` | selfplay: 2 game threads, 2 games, 3 nets, data queues of 1; contribute: 2 task loops, 1 game thread, 2 models, 2 tasks of 2 games; gatekeeper: 2 game threads, matches of 4 games, 2 models | `HeldNetsStay`, `GamesKept`, `GamesHaveNets`, `CommandEnds`, `VerdictStands` |
| `contribute_rating_sized` | 2 task loops, 3 game threads, room for one chunk of 2 rating games | violation of `RatingGamesAsSized` |

**Bounds.**  Three callers and batches of two give a full batch behind which a
partial one is being filled; two servers give a batch taken while another is
being evaluated, and servers that race for one wakeup.  Both positions share one
entry of the table, so every insertion of one evicts the other.  In the liveness
run batches of one make every batch full at once, so the second batch is queued
without a wakeup, which is where a lost wakeup would hide.  For the queue, room for one and two
by force reaches "exactly full", "past full" and "non-empty" from both sides with one
thread each pushing, popping and closing.  `MaxForced` is the only bound that is not a
parameter of the code; it stops `forcePush` from growing the queue for ever.
The bot needs no bound: its state is finite, and two ids tell a move from another's.
In the analysis engine two threads and two requests give a thread that goes on
to the next request while the first is being terminated, and a request that
waits behind another; two terminate actions hit one request twice.  `MaxRequests`
bounds the internal ids, `MaxOthers` the other lines of input; because the latter are
finitely many, the model does not say whether terminate actions without end could keep an
analysis thread from the mutex.  A second report during a search waits for the
first to be written.

Boards have one to three rows.  3x3 with a ko in the corner has captures of one stone and
of several, suicide, chains that merge and fall apart; the ring of eight stones gives a
chain whose loss of any one stone leaves one piece, and of two leaves two; a row of four has a
ko and, with two eyes, a pass-alive group.  Full games are played on two points: under simple ko
with area and with territory scoring (the latter with its encores), and with area scoring under positional
superko with and without the button, situational superko with it and spight superko without.  The longest is
shorter than the bound of 30 moves that `EveryGameEnds` is about; on larger boards, and under superko
with territory scoring or spight superko with the button, games are not followed to their end.  The ring of recent boards
has three places instead of six, so that it wraps.  Rules that allow suicide, each ko
rule, the three tax rules, both scoring rules and the button all occur, though not in
every combination.

Two threads meet at every node of the tree, at a leaf being evaluated and in a bias entry;
sequences of two moves share an entry when they end alike, with the same pattern around every
move; two passes end a game, and so do three stones in a row, as a cycle would; two searches give
a tree that is cut and kept, and each of the two limits comes first in one of them.  `MaxMoves` ends a game after one move between the searches.  Siblings
share a mutex, as in the pool.

Three nets give a net that is replaced while one thread plays with it and another
switches to the third; `MaxNets` bounds those that are loaded.  Data queues of one make game
threads wait for the disk.  `MaxTasks` bounds the tasks the server hands out.  The three commands
together have about 746,000 states.  In a match of four games one side can have
won after two or three, with the next game under way or waiting to be tallied.  Two models, either of which
may be the accepted one or be exported late, give a match, a candidate that is too old, and
a directory with nothing in it; `MaxCandidates` bounds what training exports.

**Symmetry** (callers, servers, positions) is used in the safety run only.

**Fairness.**  Evaluator: a caller that has called `evaluate` runs on, a server
thread runs its loop, an owner that has begun to kill the servers finishes
(threads of the operating system, blocking only where the model blocks).  Nobody
is obliged to call `evaluate`, to clear the cache or to kill the servers, and
nobody relies on spurious wakeups.  Queue: a thread inside a blocking call makes
its next attempt when it is awake; no thread is obliged to call anything.  Bot:
the user finishes the call it is in, the search thread and the callback thread
run, callbacks return; a search is not assumed to end unless it is told to.

Analysis engine: the main thread, the analysis threads and the writer run; no
line of input need come, the input need not end, and a search need not reach its limits.
`EveryRequestAnswered` has the assumption that no search goes on for ever in
front; `TerminatedIsAnswered` and `QuickQuitEnds` do without it.

Tree search: the operating system runs every search thread and the thread that joins them;
nobody need stop a search, play a move or begin another search.  Training: some thread of the
process that can go on does (`WF` on the whole of a command's steps, which asks less than
fairness for each thread), and a game comes to an end however often its thread asks for
a newer net (`SF`: the question is asked between moves).  `CommandEnds` also relies on a
server that does not answer each request for a task with a rating task that was
not asked for: `getNextTask` would ask again for ever, with the task lock, and never look at
`shouldStop`.  Board and history are sequential; no fairness is assumed.

**Refinements.**  `NNEvaluator` implements `EvalService`: a request is asked,
answered by something that fits it or refused by an exception, and consumed; all
the rest stutters.  `ThreadSafeQueue` implements `BoundedQueue`: the queue is the
live part of the vector (nothing once it is closed), and a thread is in the call
whether it is about to try or asleep.  `GoGame` implements `GoRules`: every operation on the
incremental board is a move, a pass, an undo or an edit of the bare stones.

**Disagreements found.**

* An exception out of a search ends the bot's search thread with `isRunning`
  still set: `stopAndWait`, every call that begins with it, the destructor and
  anyone in `genMoveSynchronous` wait for ever.  The evaluator throws when the
  net's output is not finite, and `search.cpp` rethrows it.
* The analysis engine says that a search without results, not terminated, is
  "only possible if we're just shutting down" and does not answer it.  A search
  factor of 0 after a pass, which the configuration allows, makes the visit limit
  zero, and such a search ends without results at any time.
* The contribution client sizes the evaluators and the data queues of rating games for
  `maxSimultaneousRatingGamesPossible`, the smaller of `taskRepFactor * maxRatingMatches` and the number
  of game threads (`contribute.cpp:560`), and admits a rating task only when there is room "for a whole new chunk of
  games".  It looks at the number of rating games before it drops the task lock to download models, and
  counts the games afterwards.  So several of the four task loops can be admitted on the same number, and
  more rating games are played than that: `contribute_rating_sized` shows three where two are possible.
  What does hold is `RatingGamesBounded`, which is proved (section 4).

One more is a remark, with no caller that meets it: `ThreadSafeQueue::close()` empties the vector
and keeps `headIdx`, so `size()` of a closed queue would fail its own assertion, or wrap around in a
build without assertions.  No caller asks a closed queue for its size; `SizeAssertHolds` is checked and
proved for callers that do not.

## 4. The proofs

`NNEvaluatorProofs` proves, for any finite set of callers no larger than
`MaxConcurrentEvals`, any servers, positions, cache and batch size:

| Theorem | Statement |
|---|---|
| `Invariance` | `Spec => []IInv` |
| `TypeCorrect` | `Spec => []TypeOK` |
| `RingNeverOverlooped` | `Spec => []NeverOverlooped` |
| `EachRequestQueuedOnce` | `Spec => []QueuedExactlyOnce` |
| `RingKeepsShape` | `Spec => []RingShape` |
| `ServersNeverAssert` | `Spec => []ServerAsserts` |
| `WakeupsSuffice` | `Spec => []NoLostWakeup` |
| `ResultsMatch` | `Spec => []ResultMatches` |
| `ImplementsService` | `Spec => Service!Spec` |

None of the properties is inductive by itself, and the invariant `IInv` that
carries them has these parts:

* `RingOK`: there is a number of full batches between the oldest batch and the
  one being filled, smaller than the ring; the rows in use are theirs and the
  first rows of the current batch.  The modular arithmetic of the indices is
  confined to a few lemmas about `NextIdx` and distances on the ring.
* `PlacesOK`: a row of the ring or of a server's array that is not `NULL` points
  to a caller that waits without a result, no two rows point to one caller, and
  every caller that waits stands somewhere.
* `BatchesOK`: the rows of a server that has taken a batch are `row .. numRows`,
  and its array is empty when it has none.  That is why the array it swaps into
  the ring is empty.
* `OutputsOK`, `ClientsOK`, `CacheOK`, `KeptResultsOK`: what is computed, posted, stored, and kept
  for want of an owner map, belongs to the position it is for, in the right perspective.
* `OwnerOK` and `NoLostWakeup`: where server threads can be in each phase of
  their owner's life.

The step that is not local is that the ring is never full.  If the batch a
caller fills were to run into the oldest, the ring would hold
`NumResultBufss - 1` full batches and one more row, each row another waiting
caller: more than `MaxConcurrentEvals` callers, because the ring has at least
`MaxConcurrentEvals \div MaxBatchSize + 3` batches.  The counting is an injection
from the occupied rows into the callers (`FiniteSetTheorems`).

Each part has a lemma for the initial states and one for each action that can
disturb it; `IInvStep` puts them together.  `QueuedExactlyOnce` counts rows with
`Cardinality`, which `PlacesCounted` derives from the quantified `PlacesOK`.

`AsyncBotProofs` proves, for any set of search ids:

| Theorem | Statement |
|---|---|
| `TypeCorrect` | `Spec => []TypeOK` |
| `UserUndisturbed` | `Spec => []SearchUndisturbed` |
| `EachMoveAnswered` | `Spec => []MoveOwed` |

Its `IInv` follows the user through a call, where the properties look only at its ends:

* `CallbacksInside`: a callback thread lives inside the search that has a callback;
* `NothingQueued`: once a stopping call has seen that nothing runs, nothing is queued until
  the user is idle again, although other threads stop and kill meanwhile, and the search
  thread ends only when the bot is killed;
* `InItsCall`: which calls can be at which place;
* `MoveAwaited`: while `genMoveSynchronous` waits, the search of its own id is queued or
  running, or its move has been written.

The step that needs them together is `WaitForSearchToEnd`: that the user finds nothing
running says, through the last conjunct of `TypeOK` (a search under way is the queued one)
and `CallbacksInside`, that both other threads are done with the search object, and through
`MoveAwaited` that the answer is there.

`ThreadSafeQueueProofs` proves, for any sets of threads and elements, any capacity and any
cap on the elements pushed:

| Theorem | Statement |
|---|---|
| `NoWakeupLost` | `Spec => []SleepersHaveReason` |
| `ImplementsQueue` | `Spec => Abstract!Spec` |
| `SizeAssertHoldsWhileOpen` | `Spec => SizeAssertHolds` |

`IInv` is `VectorOK /\ ThreadsOK /\ SleepersHaveReason`: the dead prefix lies inside the vector
while the queue is open, and which calls sleep on which condition variable.
`RestPop` and `RestAppend` say what a pop, with or without the compaction of the
vector, and a push do to the part of the vector that is the queue.  With them each action is a
step of `BoundedQueue` or changes nothing that it shows: `NextStep` has one step per action.
A notification that the code leaves out (a push to a queue that was not empty, a pop from
one that was not full) is right because of `SleepersHaveReason` before
the step: nobody sleeps there with that reason.
The assertion in `size` needs that only an open queue is asked, since `close` empties the vector
and keeps `headIdx`; for an open queue it is the part `VectorOK`.

`AnalysisEngineProofs` proves, for any number of analysis threads, any ids, turns and integer
priorities, and any caps on requests and other input:

| Theorem | Statement |
|---|---|
| `RequestsOutliveUse` | `Spec => []NoUseAfterFree` |
| `StatusAssertsHold` | `Spec => []AssertsHold` |
| `TerminateStopsTarget` | `Spec => []StopHitsTarget` |
| `AnsweredAtMostOnce` | `Spec => []OneFinalAnswer` |
| `AnswerComesLast` | `Spec => []FinalAnswerIsLast` |
| `PriorityRespected` | `Spec => []NoOvertaking` |
| `QuittingIsClean` | `Spec => []QuitLeavesNothing`, if `TRUE \notin ZeroCaps` |

All but the last follow from one invariant of sixteen parts, with a lemma for each action
(`ReadQueryKeeps`, ..., `ExitWriterKeeps`) that has a step for each part the action can disturb.
The parts that are not types or the properties themselves:

* `QueuedOnce`, `HeldOnce`: a live request is in one place: about to be queued, in the queue, or
  with one thread, which alone erases and deletes it;
* `StatusTells`, `IndexTells`: the atomic status tells where the request is, unless it says
  terminated, and an index of a thread in it, or read from it by a terminate action that is not
  finished, is the index of the thread that has the request.  The second half is true only
  because erasing waits for `openRequestsMutex`, which the terminate action holds;
* `AnsweredInTurn`: whoever may still answer a request (nobody has claimed or terminated it,
  the main thread has read `STATUS_IN_QUEUE` from it, or a thread is between its claim and its
  report) finds it without an answer, and the main thread and a thread never owe it both;
* `AnsweredOnce`, `ReportsFirst`: how final answers and reports stand in the output queue;
* `QueueInOrder`: the tie breakers in the queue fall as the internal ids grow.

The step that is not local is `terminateRequest`, two steps of the main thread with any steps of the
threads in between: what it read from the status must still say, when it acts, who owes the
answer and whose bot to stop.

`QuittingIsClean` needs a second invariant, `QInv`, on top of the first, which says that
nothing falls between two places:

* `Placed`: an open request is about to be queued, queued, or with a thread; one that is no longer
  open is deleted or with the thread that is about to delete it;
* `Answered`: a request that was accepted has its answer, printed or queued, or somebody is on the
  way to answer it, or it waits for its turn, unless the engine quits without waiting;
* `StopsWithReason`: with the same exception, a search that is stopped, and one without
  results, has been terminated;
* `EndsInOrder`: the order in which the queues are closed and the threads end.  A thread ends when
  its queue is closed and empty, and an engine that waits keeps the output open until they have.

The hypothesis that no query asks for a search of zero visits is needed in one step: such a
search ends without results and without having been told to, and then its request may stay
without an answer, as the run `analysis_zero_visits` shows.

`TrainingProofs` proves, for any finite set of game threads, any number of nets and games
and any size of the data queues:

| Theorem | Statement |
|---|---|
| `SelfplayKeepsHeldNets` | `SelfplaySpec => []HeldNetsStay` |
| `SelfplayKeepsGames` | `SelfplaySpec => []GamesKept` |

`HeldNetsStay` is not inductive: nothing in it says that a net that
is not in the manager is free, or where the main thread finds the manager empty.
The invariant `SelfplayInv` adds

* `NetsHeld`: a net that a game thread has is in the manager, open, and loaded;
* `HoldersCounted`: the acquire count of a net is the number of fields `nnEval` and
  `newNNEval` of game threads that have it;
* `NetsKept`: the nets of the manager are open and have a data-writing thread that runs, and
  the numbers of free nets are not among them;
* `SelfplayPhases`: there is a latest net while game threads or the loader may ask for it, and when
  the main thread has joined the game threads they have no net.

The step that is not local is a clean-up: it drops every unused net at once, when some other
thread releases or loads one.  `CleanupKeepsHeld` shows that a net with a holder is
counted, so it is not unused, so it stays (`HoldersCounted` before the step, and the
cardinality of a set with a member is not zero).  `CleanupSpares` shows that the latest net
stays, so the manager is never empty.  The latest net exists because the order of the nets has a least
element on every set that is not empty (`Least`, from the well-foundedness of the naturals).

`GamesKept` needs `GInv`, which is `SelfplayInv` with the books of the finished games:

* `Conserved`: the games finished with a net are those in the hands of their threads, those
  queued for it and those written.  It is the first half of `GamesKept`;
* `Written`: a data-writing thread comes to its end only with an empty queue, and the
  manager's counter of data-writing threads, which its destructor waits for, is the number of those that run.

For a net that is deleted nothing is counted as queued.  A game pushed after that would
be lost without a trace in the manager; that there is none is `NetsHeld` and `HoldersCounted` of `SelfplayInv`, since
the thread with the game still has the net.  When the command has ended the counter is zero, so no
net has a writing thread, none has a game queued, and what was finished is written.

`ContributeProofs` proves, for any finite number of task loops, any number of game threads that
is not zero, any nets, tasks and repetitions of a task, and any `maxRatingMatches`:

| Theorem | Statement |
|---|---|
| `ContributeGamesHaveNets` | `ContributeSpec => []GamesHaveNets` |
| `ContributeBoundsRatingGames` | `ContributeSpec => []RatingGamesBounded` |

A game goes from a task loop through the queue to a game thread, and its two nets with it; it
releases them one after the other.  The proof counts games as a set of places with a game in
them (`Games`), so that a step adds one, removes one, or moves one, and three lemmas about such
sets say what that does to the uses of a net and to the number of rating games.  The parts of `IInv`:

* `Counted`: the acquire count of a net is the number of sides that play with it, and
  `numRatingGamesActive` the number of rating games;
* `Held`, of a task loop, of the queue and of a game thread: the nets of a game are in the managers that
  the game names, and which of the two it still has;
* `Kept`: the nets of a manager are alive, and no model is in it twice;
* `Locked` and `Tasks`: a task loop past its admission has the lock, and the models that it has
  loaded are still there.  Whoever unloads models has the lock as well, which is why a task loop that
  has loaded both nets, with no game to hold them yet, can acquire them;
* `Phases`: the queue is closed, and the managers are destroyed, after all that use them;
* `Bounded`: the rating games, together with those still owed to admitted rating tasks, are no more than
  there is room for, where the task loop that has the lock is forgiven those it has already pushed.

`Bounded` is what makes `RatingGamesBounded` inductive.  The admission looks at the number of
games once, then drops the lock to download; by the time the games exist every other task
loop may have been admitted on the same number.  A task is admitted while at most
`maxRatingMatches - 1` chunks of games exist, so each task loop can add one chunk to these and no
task loop two: hence `maxRatingMatches - 1` chunks and one for each task loop.  This is more than
line 560 of the source allows for, and the run `contribute_rating_sized` shows that line 560 is exceeded.
That the number of task loops is finite is the code's `numTaskLoopThreads`, 4; there is at least one
game thread because `maxSimultaneousGames` is at least 1.

`TreeSearchProofs` proves, for any finite set of threads, any moves, any virtual losses, any way for
games to end, any patterns in the keys, any number of searches with any limits of visits and of
playouts, stopped at any time:

| Theorem | Statement |
|---|---|
| `Invariance` | `Spec => []IInv` |
| `VisitsAddUpAlways` | `Spec => []VisitsAddUp` |
| `BiasConservedAlways` | `Spec => []BiasConserved` |

The tree is unbounded here, in depth and in width, and kept, cut and extended from one search
to the next.  The parts of `IInv`:

* `Shape`: every node of the tree lies below the game, and every node between them is in the tree;
* `Positions`: a thread in a playout is at a node of the tree, and at rest between searches;
* `NodesAddUp`: at each node the visits and the threads that are coming back with one more are
  the leaves counted there and the visits of the children; the virtual losses are those of the
  threads inside; a node without visits is new and has a thread in it;
* `RootAddsUp`: the visits of the root are those it had, the playouts that were counted, and those about to be;
* `LimitKept`: the threads that have not yet seen a limit reached, each of which may count one
  more playout, are few enough.  The two limits come down to one, the playouts both allow
  (`PlayoutsAllowed`);
* `Weighed`: an entry of the bias table has the weights of the nodes that share it, and during a search there is no
  entry that no node has.

The visits of children and the weights of nodes are sums over sets (`VisitsOf`, `WeightsOf`, folds).  Folds
are defined by recursion over sets, and the induction theorems of the library are out of reach,
so the lemmas about sums, that a sum changes by what one member changes, that it
splits, that it depends only on what is summed, go from set to set along a least
counterexample: `WFMin` on the proper subsets of a finite set.  The steps that are not local are
`makeMove`, where the tree below the move is kept and the weights of all other nodes are
taken back at once, and `Return`, where a thread steps from a node to its parent between two
locks and is counted at both by different terms.

`TrainingProofs` also proves, for any finite set of game threads, any number of games in a match and
any number of models:

| Theorem | Statement |
|---|---|
| `VerdictFinal` | `GatekeeperSpec => VerdictStands` |

`GatekeeperSpec` is the command alone, with the signal and with training that exports models.
`VerdictStands` is about one step, the verdict, and needs what all steps before it have kept,
the invariant `GatekeeperInv` (theorem `AccountsHold`):

* `GamesCounted`: a game that was started is being played, waits to be tallied or is tallied, each
  once; some are lost only when threads are being stopped;
* `GamesUsedUp`: a game thread has ended only because there are no games left, or to stop;
* `TerminatedWhenDecided`: a match that the tally has ended is decided, and each game
  tallied afterwards leaves it decided;
* `DataPushed`, `ThreadsJoined`, `DrainedAndWritten`: the verdict comes after the game threads
  have been joined, the queue closed and all that was in it tallied.

So at the verdict, without a signal, either the tally has ended the match, and then games that were
not played could not have turned it, or all `numGamesPerGating` games are tallied, and nothing
is left to turn it.  `DecidedRemains` is the arithmetic of one game, with the candidate winning ties.

`Training` is a process that runs one of the three commands, with everything the others have
in one state, and the runs check the properties of the commands on it.  `TrainingProofs` carries
the theorems over to it, for any values of the constants of all three:

| Theorem | Statement |
|---|---|
| `HeldNetsStayAlways` | `Spec => []HeldNetsStay` |
| `GamesKeptAlways` | `Spec => []GamesKept` |
| `GamesHaveNetsAlways` | `Spec => []GamesHaveNets` |
| `RatingGamesBoundedAlways` | `Spec => []RatingGamesBounded` |
| `VerdictStandsAlways` | `Spec => VerdictStands` |

The command of a process never changes (`CommandKept`), so a behaviour belongs to one command
from its first state on (the lemmas `RunsSelfplay`, `RunsContribute` and `RunsGatekeeper`), and the
theorem of that command applies.  For the processes of the other
commands a property is not always void: `GamesKept` counts games per net, and a contributing process
loads and unloads nets in the same managers.  What holds there is `Unplayed`, that no net has a game
queued or written and no player is past its start.  It is inductive only together with the
invariant of `Contribute`, whose types and tasks say which nets that command loads.

`GoGameProofs` proves, for boards of any size, games of any length under any rules, and a ring of
recent boards of any size:

| Theorem | Statement |
|---|---|
| `ChainsAreGroupsUnlessUndone` | `Spec /\ [][~UndoMove]_vars => []ChainsAreGroups` |
| `RefinesRulesUnlessUndone` | `Spec /\ [][~UndoMove]_vars => RefinesRules` |
| `HistoryTellsGameAlways` | `Spec => []HistoryTellsGame` |

*The board.*  `GoodBoard(b)` is what every operation finds and leaves:

* `HeadsOK`: the head of a stone is a stone of its colour that is its own head;
* `ListsOK`: the links of a chain stay in the chain, and no proper part of it is closed under
  them, so a walk from any stone goes once around the whole chain;
* `ConnectedOK`: no proper part of a chain is closed under adjacency, and `MaximalBut`:
  neighbours of one colour have one head.  The two make a chain a group;
* `CountsOK`: the head counts the stones of its chain and its liberties;
* `HashOK`: the hash is that of the stones.

Both ways to say "whole" (no part is closed) are quantified over sets, not over paths: an
induction over a chain is then an instance of the definition, with the set of the stones reached.
`ChainsAreGroups` is not inductive by itself: it follows from a walk that the code can make, and
says nothing in the middle of a move.  There, `BoardOK(b, loc, Y, U)` holds: as `GoodBoard`, but
the stone at `loc` has not been joined to the chains of its colour at the points of `Y`, and the
chains whose heads are in `U` still count `loc` as a liberty.  `playMoveAssumeLegal` goes around
the four neighbours in an order in which anything may have happened to the next one: it has been
joined through another one, or captured with another one.  `Met` is the invariant of that loop:
the neighbours met so far are in the chain of the stone or their heads are in `seen`, and
`NeighbourIsMet` has a step for each branch (`JoinedIsMet`, `EatenIsMet`, `CapturedIsMet`).  Then
`AllMet` gives `GoodBoard` back, and suicide (`SuicideDies`), the ko point, the captures and
the reset of unused entries (`KoAndCapturesAreFree`, `TidyIsOK`) keep it.  `removeSingleStone` and
`setStones` are iterations of moves and edits (`ApproximationsExist` and `ByInduction`: recursive
functions exist and are followed; `WellFoundedInduction` gives the one for natural numbers).

*The rules.*  That a move leaves a good board does not say which stones it takes.  `Plays` says it
of the chains of the board before: the opponent's chains with no liberty but the point go, then
the stone's own chain if it has none left; and it says what becomes of the ko point and of
the captures.  `PlayIsExact` proves it of `playMoveAssumeLegal`: around the
four neighbours, `ExactBoard` adds to `Met` which stones are gone, and `NeighbourIsExact` has again
a step for each branch.  A chain counted down to nothing is captured, so the argument needs that
the count was right, and that it was not zero before: `Living`, every chain has a liberty, is the
invariant (`PlayLives`), kept by edits as well: a stone is
taken away by removing its chain and playing the others again, which takes nothing
(`ReplayIsQuiet`, `SingleStoneIsRemoved`), and the test of the four neighbours that comes before a
replacement agrees with what the move would do (`SuicideForeseen`).  `BoardInv` adds to it
`KoOK`: in an encore the board has no ko ban.  Of the rules, `GroupIsChain` says that what `GoRules`
grows from a stone, point by point, is its chain, and `LibertiesOfChain` that its liberties are
those of the chain; `PlayIsMove` then computes the move of `GoRules` from `Plays`, and
`PlayRefines`, `PassRefines` and `EditRefines` map the operations to `Play`, `Pass` and `SetStone`.
`StepIsOK` has a step for each action: it keeps `BoardInv`, and it is a step of `GoRules` or none.

Both theorems of the board have a hypothesis, that no step is an `UndoMove`: `undo` fills captured
chains back in and rebuilds chains that fall apart by flood fills, and is right only because of
what its record says of the board the move was made on.  What `undo` does is model-checked.

*The history.*  `IInv` says that a position is edited or `HistOK` holds of the history, the board and the
positions of the game (`positions`, a history variable of the model):

* `NumbersOK`: there are as many hashes as positions since the last time the history of
  hashes was cut, and it was cut at a move of the game;
* `RingOK`: the entry of the ring for `k` moves ago is the board of `k` moves ago, or the first one.
  The modular arithmetic is in three lemmas (`Wraps`, `Slot`, `SlotMoves`);
* `BlocksOK`: blocked stones are stones of the board, their hash is theirs, and there are
  none before the encore;
* `ButtonOK`: while the button is there nobody has passed in this phase.  `passWouldEndPhase`
  does not look at the button, although a pass that takes it ends nothing; this is why it is right.

`makeBoardMoveAssumeLegal` has one lemma for each of its parts in their order (`PassCounted`,
`PlayedOnBoard`, `Remembers`, `Banned`, `Chilled`, `PhaseEnded`, `CycleBroken`), which says what
the part does to these and what it leaves alone; `MoveByParts` puts the parts together.  The
board is opaque in this proof: nothing depends on how it keeps its chains.  The board's proof
needs of the history that a legal move that does not lift a block (`BoardPlayed`) is a pass or on
an empty point: `isPassForKo` and `passForKoLoc`, which decide it with different tests, agree.

**Only model-checked:**

* Liveness: the liveness parts of `ServiceRefined` and `QueueRefined`, `KillCompletes`,
  `StopReturns`, `KillEndsAll`, `SearchEnds`, `CommandEnds`, `TerminatedIsAnswered`,
  `QuickQuitEnds` and `EveryRequestAnswered`.  Liveness under fairness is out of the prover's reach.
* The rest of the board and the game: `ChainsAreGroups` and `RefinesRules` after an undo,
  `ForecastsRight`, `PassAliveStays` and `EveryGameEnds`.  An undo needs that its flood fills compute
  groups and that the records fit the positions they were made in; the forecasts need the exact
  account of a move for each of the tests that replace one, and the pass-alive area a fixed point
  over regions.  `EveryGameEnds` is about the bound on the moves of the instance.

## 5. What is not modelled

* The arithmetic of the net, of its inputs and of its postprocessing, and the GPU, CPU and
  browser back ends: numerical kernels that the evaluator sees as one call, `getOutput`.
  They are close to a third of the source, with the tuner of the OpenCL kernels.
* The formulas of the search (selection, utilities, policies, noise, time management) and
  the formatting of its results: real numbers.  The search is modelled with every choice
  they could make.
* The ladder search of the board, apart from the moves and undos it makes.
* The GTP loop and the parsing of commands, queries, configurations, SGF and model files: one
  thread, text in and text out.  The bot that GTP drives is modelled.
* The promises of the browser that the web build waits for; the hazard they
  are is listed.
* The match commands: game threads that take pairings and write games, with less to go wrong
  than the three commands that are modelled.  Of the gatekeeper, a test directory without a
  model file and a rename that fails (an exception, which ends the process).
* Training-data files, HTTP, logging, statistics counters, and the Python training code.

The map covers the part of the source in which state is shared, kept consistent or handed from
one party to another.  Most lines of the repository are numerical, textual or tests; to
model those would be to transcribe them.

## 6. What could follow

* `WebBackend`: start-up and prediction with promises that may be rejected.
* `GatekeeperSpec` over `ThreadSafeQueue` in the place of a sequence.
