------------------------------ MODULE AsyncBot ------------------------------
(***************************************************************************)
(* The asynchronous bot (cpp/search/asyncbot.{h,cpp}): one thread that     *)
(* runs searches in the background for one user thread.  The header asks   *)
(* for single-threaded use; only stopWithoutWait and setKilled come from   *)
(* other threads (cpp/command/analysis.cpp), at any time.  A search with   *)
(* an analyze callback has a second thread that reports every so often.    *)
(*                                                                         *)
(* One action is one critical section of controlMutex or one access of the *)
(* atomic shouldStopNow outside it.  Of a search the model keeps that it   *)
(* begins, may end by its own limits at any time after that, and ends once *)
(* it sees shouldStopNow.                                                  *)
(*                                                                         *)
(* An operator Op_Bug is not part of the model: it is the definition Op    *)
(* with a bug in it, which the properties are tested against.              *)
(***************************************************************************)
EXTENDS Naturals

CONSTANTS
  SearchIds,   \* ids the user gives its genMoves
  NULL         \* no id, NULL_LOC

ASSUME BotAssumption == NULL \notin SearchIds

VARIABLES
  isRunning,      \* a search is queued or being done
  isKilled,
  shouldStopNow,  \* atomic, not guarded by controlMutex
  queued,         \* queuedSearchId, whether there is a queuedOnMove, a callback period
  searchPc,       \* where the search thread is in internalSearchThreadLoop
  analyzing,      \* its local copy: this search calls back
  callbackPc,     \* where the callback thread is, "none" if there is none
  callbackLoopShouldStop,
  userPc,         \* where the user is inside the API
  userCall,       \* the call it is making
  owed,           \* history: the accepted genMove whose onMove has not been called
  moveLoc         \* genMoveSynchronous: what onMove has written

botVars      == <<isRunning, isKilled, queued>>
callbackVars == <<callbackPc, callbackLoopShouldStop>>
userVars     == <<userPc, userCall>>
moveVars     == <<owed, moveLoc>>
vars == <<botVars, shouldStopNow, searchPc, analyzing, callbackVars, userVars, moveVars>>

\* What a search is queued with.  analyze: its period has it call back, that is, it is
\* neither negative nor 10000000 seconds or more.  Every caller that gives a period
\* gives a callback with it, so that the test before the callback thread is made
\* (both are there) and the one before it is joined (the period alone) agree.
Search(id, onMove, analyze) == [id |-> id, onMove |-> onMove, analyze |-> analyze]
NoSearch == Search(NULL, FALSE, FALSE)

\* Calls that stop the ongoing search and queue another; genMoveAsync stands for
\* genMoveAsyncAnalyze too, and genMoveSynchronous for genMoveSynchronousAnalyze.
QueueCalls == [op : {"genMoveAsync", "genMoveSynchronous"}, id : SearchIds, analyze : BOOLEAN]
                \cup [op : {"analyzeAsync"}, id : {NULL}, analyze : BOOLEAN]

\* Calls that stop the ongoing search: stopAndWait; setPosition, setParams, makeMove,
\* getSearchStopAndWait and the like, which then touch the search; the destructor.
StopCall(op) == [op |-> op, id |-> NULL, analyze |-> FALSE]
StopCalls == {StopCall(op) : op \in {"stopAndWait", "change", "destroy"}}

NoCall == StopCall("none")

Init ==
  /\ isRunning = FALSE
  /\ isKilled = FALSE
  /\ shouldStopNow = FALSE
  /\ queued = NoSearch
  /\ searchPc = "lock"
  /\ analyzing = FALSE
  /\ callbackPc = "none"
  /\ callbackLoopShouldStop = FALSE
  /\ userPc = "idle"
  /\ userCall = NoCall
  /\ owed = NULL
  /\ moveLoc = NULL

-----------------------------------------------------------------------------
(* The condition variables.                                                 *)

\* threadWaitingToSearch.notify_all
NotifySearchThread == searchPc' = IF searchPc = "asleep" THEN "lock" ELSE searchPc

\* userWaitingForStop.notify_all
NotifyUser == userPc' = IF userPc = "queueAsleep" THEN "queueWoken"
                        ELSE IF userPc = "waitAsleep" THEN "wait" ELSE userPc

-----------------------------------------------------------------------------
(* The user.                                                                *)

\* A search is accepted: the fields every queueing call writes under the mutex.
Accept(search) ==
  /\ queued' = search
  /\ isRunning' = TRUE
  /\ shouldStopNow' = FALSE
  /\ owed' = IF search.onMove THEN search.id ELSE owed
  /\ NotifySearchThread

CallQueueSearch ==
  /\ userPc = "idle"
  /\ userPc' = "queue"
  /\ userCall' \in QueueCalls
  /\ moveLoc' = NULL
  /\ UNCHANGED <<botVars, shouldStopNow, searchPc, analyzing, callbackVars, owed>>

\* genMoveSynchronous goes on to wait for the search, also if none was queued.
AfterQueueing == IF userCall.op = "genMoveSynchronous" THEN "wait" ELSE "idle"

\* The loop around the condition variable.
MustWait_NoRecheck == isRunning /\ userPc = "queue"
MustWait == isRunning

RefusesSearch_Never == FALSE
RefusesSearch == isKilled

\* genMoveAsync, genMoveAsyncAnalyze, analyzeAsync, under the mutex: set the stop
\* flag (once), sleep as long as a search is running, then queue the new search
\* unless the bot is killed.
QueueSearch ==
  LET stopped == userPc = "queue" \/ shouldStopNow IN
  /\ userPc \in {"queue", "queueWoken"}
  /\ \/ /\ MustWait
        /\ userPc' = "queueAsleep"
        /\ shouldStopNow' = stopped
        /\ UNCHANGED <<isRunning, queued, owed, searchPc>>
     \/ /\ ~MustWait /\ RefusesSearch
        /\ userPc' = AfterQueueing
        /\ shouldStopNow' = stopped
        /\ UNCHANGED <<isRunning, queued, owed, searchPc>>
     \/ /\ ~MustWait /\ ~RefusesSearch
        /\ userPc' = AfterQueueing
        /\ Accept(Search(userCall.id, userCall.id # NULL, userCall.analyze))
  /\ UNCHANGED <<isKilled, analyzing, callbackVars, userCall, moveLoc>>

\* ponder never stops a search: it returns if one is running.
PonderAllowed == ~isRunning /\ ~isKilled

Ponder ==
  /\ userPc = "idle"
  /\ PonderAllowed
  /\ Accept(NoSearch)
  /\ UNCHANGED <<isKilled, analyzing, callbackVars, userVars, moveLoc>>

\* stopAndWait sets the flag before it takes the mutex.
CallStopAndWait ==
  /\ userPc = "idle"
  /\ userPc' = "wait"
  /\ userCall' \in StopCalls
  /\ shouldStopNow' = TRUE
  /\ UNCHANGED <<botVars, searchPc, analyzing, callbackVars, moveVars>>

AfterWaiting == IF userCall.op = "change" THEN "changing"
                ELSE IF userCall.op = "destroy" THEN "killing" ELSE "idle"

\* waitForSearchToEnd, one check of isRunning.
WaitForSearchToEnd ==
  /\ userPc = "wait"
  /\ userPc' = IF isRunning THEN "waitAsleep" ELSE AfterWaiting
  /\ UNCHANGED <<botVars, shouldStopNow, searchPc, analyzing, callbackVars, userCall, moveVars>>

\* The user works on the search object, no lock held.
ChangeSearch ==
  /\ userPc = "changing"
  /\ userPc' = "idle"
  /\ UNCHANGED <<botVars, shouldStopNow, searchPc, analyzing, callbackVars, userCall, moveVars>>

SpuriousUserWakeup ==
  /\ userPc \in {"queueAsleep", "waitAsleep"}
  /\ NotifyUser
  /\ UNCHANGED <<botVars, shouldStopNow, searchPc, analyzing, callbackVars, userCall, moveVars>>

\* The rest of the destructor.
DestroyKill ==
  /\ userPc = "killing"
  /\ userPc' = "joining"
  /\ isKilled' = TRUE
  /\ NotifySearchThread
  /\ UNCHANGED <<isRunning, queued, shouldStopNow, analyzing, callbackVars, userCall, moveVars>>

DestroyJoin ==
  /\ userPc = "joining"
  /\ searchPc = "exited"
  /\ userPc' = "gone"
  /\ UNCHANGED <<botVars, shouldStopNow, searchPc, analyzing, callbackVars, userCall, moveVars>>

\* The constructor, for the next bot.
Construct ==
  /\ userPc = "gone"
  /\ isRunning' = FALSE
  /\ isKilled' = FALSE
  /\ shouldStopNow' = FALSE
  /\ queued' = NoSearch
  /\ searchPc' = "lock"
  /\ userPc' = "idle"
  /\ userCall' = NoCall
  /\ owed' = NULL
  /\ moveLoc' = NULL
  /\ UNCHANGED <<analyzing, callbackVars>>

-----------------------------------------------------------------------------
(* Other threads.                                                           *)

\* Also called from onSearchBegun and from analyze callbacks.
StopWithoutWait ==
  /\ userPc # "gone"
  /\ shouldStopNow' = TRUE
  /\ UNCHANGED <<botVars, searchPc, analyzing, callbackVars, userVars, moveVars>>

FlagAfterKill_Kept == shouldStopNow
FlagAfterKill == TRUE

SetKilled ==
  /\ userPc # "gone"
  /\ isKilled' = TRUE
  /\ shouldStopNow' = FlagAfterKill
  /\ NotifySearchThread
  /\ UNCHANGED <<isRunning, queued, analyzing, callbackVars, userVars, moveVars>>

-----------------------------------------------------------------------------
(* The search thread: internalSearchThreadLoop.                             *)

SearchThreadWait ==
  /\ searchPc = "lock"
  /\ ~isRunning /\ ~isKilled
  /\ searchPc' = "asleep"
  /\ UNCHANGED <<botVars, shouldStopNow, analyzing, callbackVars, userVars, moveVars>>

SearchThreadSpuriousWakeup ==
  /\ searchPc = "asleep"
  /\ searchPc' = "lock"
  /\ UNCHANGED <<botVars, shouldStopNow, analyzing, callbackVars, userVars, moveVars>>

\* Killed, perhaps with a search queued that nobody will do.
SearchThreadExit ==
  /\ searchPc = "lock"
  /\ isKilled
  /\ searchPc' = "exited"
  /\ isRunning' = FALSE
  /\ NotifyUser
  /\ UNCHANGED <<isKilled, queued, shouldStopNow, analyzing, callbackVars, userCall, moveVars>>

\* Local copies under the mutex, then the callback thread if the search calls back.
StartSearch ==
  /\ searchPc = "lock"
  /\ isRunning /\ ~isKilled
  /\ searchPc' = "starting"
  /\ analyzing' = queued.analyze
  /\ callbackPc' = IF queued.analyze THEN "waiting" ELSE "none"
  /\ callbackLoopShouldStop' = FALSE
  /\ UNCHANGED <<botVars, shouldStopNow, userVars, moveVars>>

\* runWholeSearch has set up the tree and calls searchBegun.
SearchBegun ==
  /\ searchPc = "starting"
  /\ searchPc' = "searching"
  /\ UNCHANGED <<botVars, shouldStopNow, analyzing, callbackVars, userVars, moveVars>>

\* The search threads stop one another through the same flag.
SearchEnds ==
  /\ searchPc = "searching"
  /\ searchPc' = "ended"
  /\ shouldStopNow' = TRUE
  /\ UNCHANGED <<botVars, analyzing, callbackVars, userVars, moveVars>>

SeeShouldStop == shouldStopNow /\ SearchEnds

\* An exception leaves internalSearchThreadLoop; searchThreadLoop logs it.  (With a
\* callback thread to be joined the program is terminated instead.)
SearchThrows ==
  /\ searchPc = "searching"
  /\ ~analyzing
  /\ searchPc' = "exited"
  /\ UNCHANGED <<botVars, shouldStopNow, analyzing, callbackVars, userVars, moveVars>>

JoinsCallbacks_Skipped == FALSE
JoinsCallbacks == analyzing

StopCallbacks ==
  /\ searchPc = "ended"
  /\ IF JoinsCallbacks
     THEN searchPc' = "joining" /\ callbackLoopShouldStop' = TRUE
     ELSE searchPc' = "finishing" /\ UNCHANGED callbackLoopShouldStop
  /\ UNCHANGED <<botVars, shouldStopNow, analyzing, callbackPc, userVars, moveVars>>

JoinCallbacks ==
  /\ searchPc = "joining"
  /\ callbackPc = "none"
  /\ searchPc' = "finishing"
  /\ UNCHANGED <<botVars, shouldStopNow, analyzing, callbackVars, userVars, moveVars>>

\* Under the mutex: onMove, then the waiting user is told, and, the mutex still
\* held, the next turn of the loop goes to sleep or exits.
FinishSearch ==
  /\ searchPc = "finishing"
  /\ IF queued.onMove
     THEN owed' = NULL /\ moveLoc' = queued.id
     ELSE UNCHANGED moveVars
  /\ isRunning' = FALSE
  /\ NotifyUser
  /\ searchPc' = IF isKilled THEN "exited" ELSE "asleep"
  /\ UNCHANGED <<isKilled, queued, shouldStopNow, analyzing, callbackVars, userCall>>

-----------------------------------------------------------------------------
(* The callback thread.                                                     *)

\* The period is over and the search has begun: call back, mutex released.
CallbackTimeout ==
  /\ callbackPc = "waiting"
  /\ ~callbackLoopShouldStop
  /\ searchPc # "starting"
  /\ callbackPc' = "calling"
  /\ UNCHANGED <<botVars, shouldStopNow, searchPc, analyzing, callbackLoopShouldStop,
                 userVars, moveVars>>

CallbackReturns ==
  /\ callbackPc = "calling"
  /\ callbackPc' = "waiting"
  /\ UNCHANGED <<botVars, shouldStopNow, searchPc, analyzing, callbackLoopShouldStop,
                 userVars, moveVars>>

CallbackThreadExit ==
  /\ callbackPc = "waiting"
  /\ callbackLoopShouldStop
  /\ callbackPc' = "none"
  /\ UNCHANGED <<botVars, shouldStopNow, searchPc, analyzing, callbackLoopShouldStop,
                 userVars, moveVars>>

-----------------------------------------------------------------------------

\* What the user does inside a call, which runs to its end.
InCall == QueueSearch \/ WaitForSearchToEnd \/ ChangeSearch \/ DestroyKill \/ DestroyJoin

SearchThreadStep ==
  SearchThreadWait \/ SearchThreadExit \/ StartSearch \/ SearchBegun \/ SeeShouldStop
    \/ StopCallbacks \/ JoinCallbacks \/ FinishSearch

CallbackThreadStep == CallbackReturns \/ CallbackThreadExit

Next ==
  \/ CallQueueSearch \/ Ponder \/ CallStopAndWait \/ InCall \/ SpuriousUserWakeup \/ Construct
  \/ StopWithoutWait \/ SetKilled
  \/ SearchThreadStep \/ SearchThreadSpuriousWakeup \/ SearchEnds
  \/ CallbackThreadStep \/ CallbackTimeout

Spec == Init /\ [][Next]_vars

\* Every thread runs; callbacks return.  A search need not end before it is told to:
\* visits and time may be unlimited.
Fairness == WF_vars(InCall) /\ WF_vars(SearchThreadStep) /\ WF_vars(CallbackThreadStep)

FairSpec == Spec /\ Fairness

\* The same with searches that may throw: the net gave a value that is not finite.
FairSpecThrowing == Init /\ [][Next \/ SearchThrows]_vars /\ Fairness

-----------------------------------------------------------------------------
(* Properties.                                                              *)

SearchUnderWay == searchPc \in {"starting", "searching", "ended", "joining", "finishing"}

\* Types, and that the search being done is the one that was queued: isRunning keeps
\* every call from queueing over it.
TypeOK ==
  /\ isRunning \in BOOLEAN
  /\ isKilled \in BOOLEAN
  /\ shouldStopNow \in BOOLEAN
  /\ queued \in [id : SearchIds \cup {NULL}, onMove : BOOLEAN, analyze : BOOLEAN]
  /\ searchPc \in {"lock", "asleep", "starting", "searching", "ended", "joining",
                   "finishing", "exited"}
  /\ analyzing \in BOOLEAN
  /\ callbackPc \in {"none", "waiting", "calling"}
  /\ callbackLoopShouldStop \in BOOLEAN
  /\ userPc \in {"idle", "queue", "queueAsleep", "queueWoken", "wait", "waitAsleep",
                 "changing", "killing", "joining", "gone"}
  /\ userCall \in QueueCalls \cup StopCalls \cup {NoCall}
  /\ owed \in SearchIds \cup {NULL}
  /\ moveLoc \in SearchIds \cup {NULL}
  /\ SearchUnderWay => isRunning /\ analyzing = queued.analyze

\* While the user works on the search object, or destroys the bot, no search is
\* running and no analyze callback is reading it: stopAndWait really waited for
\* both, whatever setKilled and stopWithoutWait did meanwhile.
SearchUndisturbed ==
  userPc \in {"changing", "killing", "gone"} =>
    /\ searchPc \in {"lock", "asleep", "exited"}
    /\ callbackPc = "none"
    /\ ~isRunning

\* Unless the bot is killed, the onMove of an accepted genMove is pending exactly
\* as long as its search is: no search of another call, no ponder and no stop
\* drops it, and it is called with the id it was given.  So genMoveSynchronous never
\* returns NULL_LOC, which its callers report as an error.
MoveOwed ==
  ~isKilled =>
    /\ owed = IF isRunning /\ queued.onMove THEN queued.id ELSE NULL
    /\ (userPc = "idle" /\ userCall.op = "genMoveSynchronous") => moveLoc = userCall.id

\* A call that stops the ongoing search returns ("wait for the stop to happen",
\* asyncbot.h), also when searches have no limits and the bot is killed meanwhile.
Stopping ==
  \/ userPc \in {"queue", "queueAsleep", "queueWoken"}
  \/ userPc \in {"wait", "waitAsleep"} /\ userCall.op # "genMoveSynchronous"
StopReturns == Stopping ~> ~Stopping

\* setKilled ends the search thread and lets the user out of whatever it waits for,
\* whether a search was queued, running or being stopped.
KillEndsAll ==
  isKilled ~> (searchPc = "exited" /\ userPc \notin {"queueAsleep", "waitAsleep"})
=============================================================================
