-------------------------- MODULE SelfplayManager --------------------------
(***************************************************************************)
(* SelfplayManager of program/selfplaymanager.cpp: the neural nets that a  *)
(* data generating command has loaded, counted by their users, and for the *)
(* selfplay command one thread per net that writes its finished games.     *)
(*                                                                         *)
(* Every method is one critical section of managerMutex, and so one        *)
(* operator here, which the commands that EXTEND this module make actions  *)
(* of.  A ModelData (and its NNEvaluator) is known by its number in the    *)
(* order of loading, so modelDatas is a set whose back() is the greatest; a *)
(* net that is deleted at once leaves its number (its address) to another. *)
(* Left out: row counts, caches and logs.  Finished games are only counted.*)
(***************************************************************************)
EXTENDS Command, Integers, FiniteSets

CONSTANTS
  Managers,           \* the SelfplayManager objects a command may create
  MaxNets,            \* bound: nets that may be loaded
  maxDataQueueSize

ASSUME SelfplayManagerAssumption ==
  MaxNets \in Nat /\ maxDataQueueSize \in Nat \ {0}

Nets == 1 .. MaxNets

VARIABLES
  modelDatas,   \* manager -> the nets it keeps
  net,          \* number -> ModelData; deleted without a loop: free for the next one
  numDataWriteLoopsActive,  \* manager -> number
  written       \* net -> its games on disk (not in the code)

managerVars == <<command, modelDatas, net, numDataWriteLoopsActive, written>>

\* The constructors' autoCleanupAllButLatestIfUnused, and which load method is called.
autoCleanup == command = "selfplay"

\* queued is the size of finishedGameQueue; loop where the data writing thread is.
ModelData(name, manager, loop) ==
  [name |-> name, manager |-> manager, acquireCount |-> 0, queued |-> 0, readOnly |-> FALSE,
   loop |-> loop, deleted |-> FALSE]

NoNet == [ModelData(0, 0, "none") EXCEPT !.deleted = TRUE]

NewerThan(n, i) == i < n
Latest(S) == CHOOSE n \in S : \A i \in S : i = n \/ NewerThan(n, i)
FreeNets == {n \in Nets : net[n].deleted /\ net[n].loop = "none"}
IsNextNet(n) == n \in FreeNets /\ \A i \in FreeNets : i = n \/ NewerThan(i, n)

\* The constructor.
NewManagers ==
  /\ modelDatas = [m \in Managers |-> {}]
  /\ net = [n \in Nets |-> NoNet]
  /\ numDataWriteLoopsActive = [m \in Managers |-> 0]
  /\ written = [n \in Nets |-> 0]

-----------------------------------------------------------------------------
(* The methods                                                             *)

hasModel(manager, name) == \E n \in modelDatas[manager] : net[n].name = name
Named(S, ns, name) == CHOOSE n \in S : ns[n].name = name

acquired(ns, n) == [ns EXCEPT ![n].acquireCount = @ + 1]

\* Mutant: their queues are left open.
Dropped_LeavesOpen(ns, S) ==
  [n \in Nets |-> IF n \in S THEN [ns[n] EXCEPT !.deleted = @ \/ ns[n].loop = "none"] ELSE ns[n]]

\* Nets leave the manager: their queues are closed, and those without a data writing
\* thread are deleted at once.
Dropped(ns, S) ==
  [n \in Nets |-> IF n \in S THEN [ns[n] EXCEPT !.readOnly = TRUE,
                                                !.deleted = @ \/ ns[n].loop = "none"]
                  ELSE ns[n]]

\* Mutant: a net that one user still has is cleaned up.
UnusedIn_ButOne(S, ns) == {n \in S : ns[n].acquireCount <= 1}

UnusedIn(S, ns) == {n \in S : ns[n].acquireCount <= 0}

\* maybeAutoCleanupAlreadyLocked, for a manager that keeps S.
AutoUnused(S, ns) ==
  IF autoCleanup THEN {n \in UnusedIn(S, ns) : \E m \in S : NewerThan(m, n)} ELSE {}

\* What load and release leave to the manager: the nets S and their data ns, cleaned up.
MaybeAutoCleanup(manager, S, ns) ==
  /\ modelDatas' = [modelDatas EXCEPT ![manager] = S \ AutoUnused(S, ns)]
  /\ net' = Dropped(ns, AutoUnused(S, ns))

\* release(nnEval); a net that the manager has forgotten is ignored.
release(manager, n) ==
  /\ IF n \in modelDatas[manager]
     THEN MaybeAutoCleanup(manager, modelDatas[manager],
                           [net EXCEPT ![n].acquireCount = @ - 1])
     ELSE UNCHANGED <<modelDatas, net>>
  /\ UNCHANGED <<command, numDataWriteLoopsActive, written>>

\* loadModelNoDataWritingLoop.
loadModelNoDataWritingLoop(manager, n, name) ==
  /\ IsNextNet(n)
  /\ MaybeAutoCleanup(manager, modelDatas[manager] \cup {n},
                      [net EXCEPT ![n] = ModelData(name, manager, "none")])
  /\ UNCHANGED <<command, numDataWriteLoopsActive, written>>

\* loadModelAndStartDataWriting.
loadModelAndStartDataWriting(manager, n, name) ==
  /\ IsNextNet(n)
  /\ MaybeAutoCleanup(manager, modelDatas[manager] \cup {n},
                      [net EXCEPT ![n] = ModelData(name, manager, "running")])
  /\ numDataWriteLoopsActive' = [numDataWriteLoopsActive EXCEPT ![manager] = @ + 1]
  /\ UNCHANGED <<command, written>>

\* cleanupUnusedModelsOlderThan; which of the unused nets are old is up to the clock.
cleanupUnusedModelsOlderThan(manager, old) ==
  /\ old \in SUBSET UnusedIn(modelDatas[manager], net)
  /\ modelDatas' = [modelDatas EXCEPT ![manager] = @ \ old]
  /\ net' = Dropped(net, old)
  /\ UNCHANGED <<command, numDataWriteLoopsActive, written>>

\* The destructor, up to its wait for the data writing threads, and after.
Destroy(manager) ==
  /\ modelDatas' = [modelDatas EXCEPT ![manager] = {}]
  /\ net' = Dropped(net, modelDatas[manager])
  /\ UNCHANGED <<command, numDataWriteLoopsActive, written>>

Destroyed(manager) == modelDatas[manager] = {} /\ numDataWriteLoopsActive[manager] = 0

-----------------------------------------------------------------------------
(* The data writing thread of a net: runDataWriteLoopImpl                  *)

WriteGame(n) ==
  /\ net[n].loop = "running" /\ net[n].queued > 0
  /\ net' = [net EXCEPT ![n].queued = @ - 1]
  /\ written' = [written EXCEPT ![n] = @ + 1]
  /\ UNCHANGED <<command, modelDatas, numDataWriteLoopsActive>>

\* Mutant: the thread ends when its queue is closed, whatever is left in it.
NoMoreGames_Closed(n) == net[n].readOnly

NoMoreGames(n) == net[n].readOnly /\ net[n].queued = 0

EndWriting(n) ==
  /\ net[n].loop = "running" /\ NoMoreGames(n)
  /\ net' = [net EXCEPT ![n].loop = "ending"]
  /\ UNCHANGED <<command, modelDatas, numDataWriteLoopsActive, written>>

\* The manager's lock is taken and dropped, then the ModelData is deleted.
DeleteModelData(n) ==
  /\ net[n].loop = "ending"
  /\ net' = [net EXCEPT ![n].loop = "deleted", ![n].deleted = TRUE]
  /\ UNCHANGED <<command, modelDatas, numDataWriteLoopsActive, written>>

CheckIn(n) ==
  /\ net[n].loop = "deleted"
  /\ net' = [net EXCEPT ![n].loop = "ended"]
  /\ numDataWriteLoopsActive' = [numDataWriteLoopsActive EXCEPT ![net[n].manager] = @ - 1]
  /\ UNCHANGED <<command, modelDatas, written>>

DataWriteLoop(n) == WriteGame(n) \/ EndWriting(n) \/ DeleteModelData(n) \/ CheckIn(n)

\* The assertions of the data writing threads: a net whose queue is closed is used by
\* nobody and forgotten by its manager, and the last thread to end leaves an empty one.
LoopAsserts ==
  /\ \A n \in Nets : net[n].loop = "ending" =>
       net[n].acquireCount = 0 /\ n \notin modelDatas[net[n].manager]
  /\ \A m \in Managers : \A n \in modelDatas[m] : net[n].loop \in {"none", "running"}
=============================================================================
