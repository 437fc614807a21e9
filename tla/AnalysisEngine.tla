--------------------------- MODULE AnalysisEngine ---------------------------
(***************************************************************************)
(* The parallel analysis engine (cpp/command/analysis.cpp): the main       *)
(* thread reads lines of JSON, makes requests of them, and terminates them *)
(* or quits; analysis threads, each with a bot of its own, search the      *)
(* requests; a writer prints the answers.                                  *)
(*                                                                         *)
(* A step is one access of shared state: an atomic operation on the status *)
(* of a request, a call of a queue, a call of a bot, or a critical section *)
(* of openRequestsMutex.  Only the terminate action keeps that mutex over  *)
(* several steps.  Bots and queues are used by what AsyncBot and           *)
(* ThreadSafeQueue promise.                                                *)
(*                                                                         *)
(* An operator Op_Bug is not part of the model: it is the definition Op    *)
(* with a bug in it, which the properties are tested against.              *)
(***************************************************************************)
EXTENDS Integers, Sequences, FiniteSetsExt

CONSTANTS
  NumAnalysisThreads,
  Ids, Turns, Priorities,  \* what queries and terminate actions name
  Reporting,               \* values of reportDuringSearch
  ZeroCaps,                \* may the search of a turn be capped at zero visits?
  MaxRequests,             \* bound: internal ids
  MaxOthers                \* bound: terminate actions and rejected queries

ASSUME AnalysisAssumption ==
  /\ NumAnalysisThreads \in Nat \ {0}
  /\ Turns \subseteq Nat
  /\ Priorities \subseteq Int
  /\ Reporting \subseteq BOOLEAN
  /\ ZeroCaps \subseteq BOOLEAN
  /\ MaxRequests \in Nat
  /\ MaxOthers \in Nat

Threads     == 0 .. NumAnalysisThreads - 1
InternalIds == 0 .. MaxRequests - 1

STATUS_IN_QUEUE   == -1
STATUS_POPPED     == -2
STATUS_TERMINATED == -3

VARIABLES
  (* The main thread. *)
  quitWithoutWaiting,
  apiPc,              \* where it stands; "read" is the head of requestLoop
  todo,               \* what its current loop has left: requests, or threads
  target,             \* terminateRequest: the request and its previous status
  internalIdCounter, numRequestsSoFar, others,
  (* The requests. *)
  request,            \* internal id -> what was asked
  status,
  openRequests,
  freed,              \* history: requests deleted
  (* toAnalyzeQueue and toWriteQueue. *)
  toAnalyzeQueue, analyzeReadOnly,
  toWriteQueue, writeReadOnly,
  (* The analysis threads and their bots. *)
  threadPc, job,
  shouldStopNow, isKilled,
  hasRoot,            \* has the search a root with a net output, so results?
  (* The writer. *)
  writerPc,
  printed             \* history: how many final answers of a request were written

counters    == <<internalIdCounter, numRequestsSoFar, others>>
requestVars == <<request, status, openRequests, freed>>
analyzeVars == <<toAnalyzeQueue, analyzeReadOnly>>
writeVars   == <<toWriteQueue, writeReadOnly>>
botVars     == <<shouldStopNow, isKilled, hasRoot>>
threadVars  == <<threadPc, job>>
writerVars  == <<writerPc, printed>>
apiVars     == <<quitWithoutWaiting, apiPc, todo, target, counters>>
vars == <<apiVars, requestVars, analyzeVars, writeVars, threadVars, botVars, writerVars>>

Requests == [id : Ids, turnNumber : Turns, priority : Priorities,
             reportDuringSearch : Reporting, zeroCap : ZeroCaps]

\* Not allocated yet.
NoRequest == [id |-> ""]
NoTarget  == <<-1, STATUS_TERMINATED>>

\* A line of output: a final answer, noResults (final too), a report during the
\* search, or the response to a line that is not a query.
Message(kind, r) == [kind |-> kind, request |-> r]
Final(m) == m.kind \in {"analysis", "noResults"}

Init ==
  /\ quitWithoutWaiting = FALSE
  /\ apiPc = "read"
  /\ todo = {}
  /\ target = NoTarget
  /\ internalIdCounter = 0
  /\ numRequestsSoFar = 0
  /\ others = 0
  /\ request = [r \in InternalIds |-> NoRequest]
  /\ status = [r \in InternalIds |-> STATUS_IN_QUEUE]
  /\ openRequests = {}
  /\ freed = {}
  /\ toAnalyzeQueue = {}
  /\ analyzeReadOnly = FALSE
  /\ toWriteQueue = <<>>
  /\ writeReadOnly = FALSE
  /\ threadPc = [t \in Threads |-> "pop"]
  /\ job = [t \in Threads |-> -1]
  /\ shouldStopNow = [t \in Threads |-> FALSE]
  /\ isKilled = [t \in Threads |-> FALSE]
  /\ hasRoot = [t \in Threads |-> FALSE]
  /\ writerPc = "pop"
  /\ printed = [r \in InternalIds |-> 0]

\* pushToWrite: a message that the queue refuses is dropped.
PushToWrite(m) ==
  /\ toWriteQueue' = IF writeReadOnly THEN toWriteQueue ELSE Append(toWriteQueue, m)
  /\ UNCHANGED writeReadOnly

\* The terminate action holds openRequestsMutex while it goes through the requests.
Terminating == apiPc \in {"terminate", "act"}

-----------------------------------------------------------------------------
(* The main thread: requestLoop.                                            *)

\* internalIdCounter++ for each request made.
CounterAfter(n) == internalIdCounter + n

\* A query: one request for each turn to analyze, all entered into openRequests under
\* the mutex before the first is queued.  Whether the cap on visits comes out as zero
\* is each turn's own: it depends on the passes just before it.
ReadQuery ==
  /\ apiPc = "read"
  /\ \E n \in 1 .. MaxRequests - internalIdCounter :
       LET new == internalIdCounter .. internalIdCounter + n - 1 IN
       \E asked \in [new -> Requests] :
         /\ \A r, s \in new :
              /\ asked[r].id = asked[s].id
              /\ asked[r].reportDuringSearch = asked[s].reportDuringSearch
              /\ r < s => asked[r].turnNumber < asked[s].turnNumber
         /\ request' = [r \in InternalIds |-> IF r \in new THEN asked[r] ELSE request[r]]
         /\ status' = [r \in InternalIds |-> IF r \in new THEN STATUS_IN_QUEUE ELSE status[r]]
         /\ openRequests' = openRequests \cup new
         /\ todo' = new
         /\ internalIdCounter' = CounterAfter(n)
  /\ apiPc' = "push"
  /\ UNCHANGED <<quitWithoutWaiting, target, numRequestsSoFar, others, freed, analyzeVars,
                 writeVars, threadVars, botVars, writerVars>>

\* A query with an illegal move: the requests made before it was found are deleted
\* unseen, but their internal ids are used up.
ReadIllegalMoves ==
  /\ apiPc = "read"
  /\ others < MaxOthers
  /\ others' = others + 1
  /\ \E n \in 0 .. MaxRequests - internalIdCounter :
       /\ internalIdCounter' = CounterAfter(n)
       /\ freed' = freed \cup (internalIdCounter .. internalIdCounter + n - 1)
  /\ PushToWrite(Message("other", -1))
  /\ UNCHANGED <<quitWithoutWaiting, apiPc, todo, target, numRequestsSoFar, request, status,
                 openRequests, analyzeVars, threadVars, botVars, writerVars>>

\* The queue gives out the greatest key first: the priority, then the tie breaker.
PriorityKey_NewestFirst(r) == <<request[r].priority, numRequestsSoFar>>
PriorityKey(r) == <<request[r].priority, -numRequestsSoFar>>

PushRequest ==
  /\ apiPc = "push"
  /\ LET r == Min(todo) IN
       /\ toAnalyzeQueue' = IF analyzeReadOnly THEN toAnalyzeQueue
                            ELSE toAnalyzeQueue \cup {<<PriorityKey(r), r>>}
       /\ todo' = todo \ {r}
       /\ apiPc' = IF todo = {r} THEN "read" ELSE "push"
  /\ numRequestsSoFar' = numRequestsSoFar + 1
  /\ UNCHANGED <<quitWithoutWaiting, target, internalIdCounter, others, requestVars,
                 analyzeReadOnly, writeVars, threadVars, botVars, writerVars>>

\* An action "terminate" for an id, perhaps only for some turns of it.
ReadTerminate ==
  /\ apiPc = "read"
  /\ others < MaxOthers
  /\ others' = others + 1
  /\ \E id \in Ids, turns \in SUBSET Turns :
       todo' = {r \in openRequests : request[r].id = id /\ request[r].turnNumber \in turns}
  /\ apiPc' = "terminate"
  /\ UNCHANGED <<quitWithoutWaiting, target, internalIdCounter, numRequestsSoFar, requestVars,
                 analyzeVars, writeVars, threadVars, botVars, writerVars>>

\* terminateRequest, first half: status.exchange.
TerminateRequest ==
  /\ apiPc = "terminate"
  /\ todo # {}
  /\ LET r == Min(todo) IN
       /\ target' = <<r, status[r]>>
       /\ status' = [status EXCEPT ![r] = STATUS_TERMINATED]
       /\ todo' = todo \ {r}
  /\ apiPc' = "act"
  /\ UNCHANGED <<quitWithoutWaiting, counters, request, openRequests, freed, analyzeVars,
                 writeVars, threadVars, botVars, writerVars>>

\* Second half: what is left to do depends on how far the request had got.
AnswersInPlaceOf_Popped(prevStatus) == prevStatus \in {STATUS_IN_QUEUE, STATUS_POPPED}
AnswersInPlaceOf(prevStatus) == prevStatus = STATUS_IN_QUEUE

ActOnTerminate ==
  /\ apiPc = "act"
  /\ LET r == target[1]
         prevStatus == target[2]
     IN /\ IF AnswersInPlaceOf(prevStatus)
           THEN PushToWrite(Message("noResults", r))
           ELSE UNCHANGED writeVars
        /\ IF prevStatus \in Threads
           THEN shouldStopNow' = [shouldStopNow EXCEPT ![prevStatus] = TRUE]
           ELSE UNCHANGED shouldStopNow
  /\ apiPc' = "terminate"
  /\ target' = NoTarget
  /\ UNCHANGED <<quitWithoutWaiting, todo, counters, requestVars, analyzeVars, threadVars,
                 isKilled, hasRoot, writerVars>>

\* The mutex is released and the action is echoed.
EchoTerminate ==
  /\ apiPc = "terminate"
  /\ todo = {}
  /\ apiPc' = "read"
  /\ PushToWrite(Message("other", -1))
  /\ UNCHANGED <<quitWithoutWaiting, todo, target, counters, requestVars, analyzeVars,
                 threadVars, botVars, writerVars>>

-----------------------------------------------------------------------------
(* The main thread: quitting.  Each setReadOnly and each join is a step.    *)

\* What is closed first: the output, or the queue of requests.
FirstClosed_Output(quick) == "closeWrite"
FirstClosed(quick) == IF quick THEN "closeWrite" ELSE "closeAnalyze"

\* The option is first looked at when the input ends, so it is chosen then.
EndOfInput ==
  /\ apiPc = "read"
  /\ quitWithoutWaiting' \in BOOLEAN
  /\ apiPc' = FirstClosed(quitWithoutWaiting')
  /\ UNCHANGED <<todo, target, counters, requestVars, analyzeVars,
                 writeVars, threadVars, botVars, writerVars>>

CloseWriteQueue ==
  /\ apiPc = "closeWrite"
  /\ writeReadOnly' = TRUE
  /\ apiPc' = IF quitWithoutWaiting THEN "closeAnalyze" ELSE "joinWriter"
  /\ UNCHANGED <<quitWithoutWaiting, todo, target, counters, requestVars, analyzeVars,
                 toWriteQueue, threadVars, botVars, writerVars>>

CloseAnalyzeQueue ==
  /\ apiPc = "closeAnalyze"
  /\ analyzeReadOnly' = TRUE
  /\ IF quitWithoutWaiting
     THEN apiPc' = "stopBots" /\ todo' = Threads
     ELSE apiPc' = "joinThreads" /\ UNCHANGED todo
  /\ UNCHANGED <<quitWithoutWaiting, target, counters, requestVars, toAnalyzeQueue, writeVars,
                 threadVars, botVars, writerVars>>

StopBot ==
  /\ apiPc = "stopBots"
  /\ LET t == Min(todo) IN
       /\ shouldStopNow' = [shouldStopNow EXCEPT ![t] = TRUE]
       /\ IF todo = {t}
          THEN apiPc' = "killBots" /\ todo' = Threads
          ELSE todo' = todo \ {t} /\ UNCHANGED apiPc
  /\ UNCHANGED <<quitWithoutWaiting, target, counters, requestVars, analyzeVars, writeVars,
                 threadVars, isKilled, hasRoot, writerVars>>

\* setKilled sets the stop flag as well.
FlagWhenKilled_Kept(t) == shouldStopNow[t]
FlagWhenKilled(t) == TRUE

KillBot ==
  /\ apiPc = "killBots"
  /\ LET t == Min(todo) IN
       /\ isKilled' = [isKilled EXCEPT ![t] = TRUE]
       /\ shouldStopNow' = [shouldStopNow EXCEPT ![t] = FlagWhenKilled(t)]
       /\ todo' = todo \ {t}
       /\ apiPc' = IF todo = {t} THEN "joinThreads" ELSE "killBots"
  /\ UNCHANGED <<quitWithoutWaiting, target, counters, requestVars, analyzeVars, writeVars,
                 threadVars, hasRoot, writerVars>>

JoinThreads ==
  /\ apiPc = "joinThreads"
  /\ \A t \in Threads : threadPc[t] = "exited"
  /\ apiPc' = IF quitWithoutWaiting THEN "joinWriter" ELSE "closeWrite"
  /\ UNCHANGED <<quitWithoutWaiting, todo, target, counters, requestVars, analyzeVars,
                 writeVars, threadVars, botVars, writerVars>>

JoinWriter ==
  /\ apiPc = "joinWriter"
  /\ writerPc = "exited"
  /\ apiPc' = "done"
  /\ UNCHANGED <<quitWithoutWaiting, todo, target, counters, requestVars, analyzeVars,
                 writeVars, threadVars, botVars, writerVars>>

-----------------------------------------------------------------------------
(* An analysis thread: analysisLoop.                                        *)

Goto(t, place) == threadPc' = [threadPc EXCEPT ![t] = place]

\* Order on the entries of the queue.
Before(x, y) == x[1][1] > y[1][1] \/ (x[1][1] = y[1][1] /\ x[1][2] >= y[1][2])

PopRequest(t) ==
  /\ threadPc[t] = "pop"
  /\ \E top \in toAnalyzeQueue :
       /\ \A x \in toAnalyzeQueue : Before(top, x)
       /\ toAnalyzeQueue' = toAnalyzeQueue \ {top}
       /\ job' = [job EXCEPT ![t] = top[2]]
  /\ Goto(t, "claim")
  /\ UNCHANGED <<apiVars, requestVars, analyzeReadOnly, writeVars, botVars, writerVars>>

ExitThread(t) ==
  /\ threadPc[t] = "pop"
  /\ toAnalyzeQueue = {}
  /\ analyzeReadOnly
  /\ Goto(t, "exited")
  /\ UNCHANGED <<apiVars, requestVars, analyzeVars, writeVars, job, botVars, writerVars>>

\* compare_exchange from IN_QUEUE to POPPED.  If it fails the request is already
\* answered.
StatusOfClaimed_Unmarked(r) == status[r]
StatusOfClaimed(r) == STATUS_POPPED

Claim(t) ==
  /\ threadPc[t] = "claim"
  /\ LET r == job[t] IN
     IF status[r] = STATUS_IN_QUEUE
     THEN status' = [status EXCEPT ![r] = StatusOfClaimed(r)] /\ Goto(t, "genMove")
     ELSE UNCHANGED status /\ Goto(t, "erase")
  /\ UNCHANGED <<apiVars, request, openRequests, freed, analyzeVars, writeVars, job, botVars,
                 writerVars>>

\* The bot gets the position, which clears its tree, and genMoveSynchronous or
\* genMoveSynchronousAnalyze is called: a killed bot returns at once, else the stop
\* flag is reset and the search is queued for the bot's own thread.
GenMove(t) ==
  /\ threadPc[t] = "genMove"
  /\ hasRoot' = [hasRoot EXCEPT ![t] = FALSE]
  /\ shouldStopNow' = [shouldStopNow EXCEPT ![t] = isKilled[t]]
  /\ Goto(t, IF isKilled[t] THEN "report" ELSE "queued")
  /\ UNCHANGED <<apiVars, requestVars, analyzeVars, writeVars, job, isKilled, writerVars>>

\* The bot was killed before its thread took the search up.
DropSearch(t) ==
  /\ threadPc[t] = "queued"
  /\ isKilled[t]
  /\ Goto(t, "report")
  /\ UNCHANGED <<apiVars, requestVars, analyzeVars, writeVars, job, botVars, writerVars>>

\* The search begins.  compare_exchange from POPPED to the index of the thread; a
\* request terminated meanwhile stops its own search.  (A bot may also be killed
\* between taking the search up and this.)
StopsOwnSearch_Dropped(r) == FALSE
StopsOwnSearch(r) == status[r] # STATUS_POPPED

OnSearchBegun(t) ==
  /\ threadPc[t] = "queued"
  /\ LET r == job[t] IN
       /\ status' = [status EXCEPT ![r] = IF @ = STATUS_POPPED THEN t ELSE @]
       /\ shouldStopNow' = [shouldStopNow EXCEPT ![t] = @ \/ StopsOwnSearch(r)]
  /\ Goto(t, "searching")
  /\ UNCHANGED <<apiVars, request, openRequests, freed, analyzeVars, writeVars, job, isKilled,
                 hasRoot, writerVars>>

\* The first playout gives the root its net output.
EvaluateRoot(t) ==
  /\ threadPc[t] = "searching"
  /\ ~hasRoot[t]
  /\ ~request[job[t]].zeroCap
  /\ hasRoot' = [hasRoot EXCEPT ![t] = TRUE]
  /\ UNCHANGED <<apiVars, requestVars, analyzeVars, writeVars, threadVars, shouldStopNow,
                 isKilled, writerVars>>

\* The analyze callback.  Bound: one report waits in the queue.
ReportDuringSearch(t) ==
  LET m == Message("duringSearch", job[t]) IN
  /\ threadPc[t] = "searching"
  /\ request[job[t]].reportDuringSearch
  /\ hasRoot[t]
  /\ \A i \in DOMAIN toWriteQueue : toWriteQueue[i] # m
  /\ PushToWrite(m)
  /\ UNCHANGED <<apiVars, requestVars, analyzeVars, threadVars, botVars, writerVars>>

EndSearch(t) ==
  /\ threadPc[t] = "searching"
  /\ shouldStopNow' = [shouldStopNow EXCEPT ![t] = TRUE]
  /\ Goto(t, "report")
  /\ UNCHANGED <<apiVars, requestVars, analyzeVars, writeVars, job, isKilled, hasRoot, writerVars>>

SeeShouldStop(t) == shouldStopNow[t] /\ EndSearch(t)

\* The search reaches its visits or its time, not before two playouts, unless the
\* search factor after a pass has made its visits zero.
ReachLimits(t) == EndSearch(t) /\ (hasRoot[t] \/ request[job[t]].zeroCap)

ReportAnalysis(t) ==
  /\ threadPc[t] = "report"
  /\ IF hasRoot[t]
     THEN PushToWrite(Message("analysis", job[t])) /\ Goto(t, "erase")
     ELSE UNCHANGED writeVars /\ Goto(t, "reportFailed")
  /\ UNCHANGED <<apiVars, requestVars, analyzeVars, job, botVars, writerVars>>

\* The dummy answer for a terminated request; otherwise only a line in the log.
ReportNoAnalysis(t) ==
  /\ threadPc[t] = "reportFailed"
  /\ IF status[job[t]] = STATUS_TERMINATED
     THEN PushToWrite(Message("noResults", job[t]))
     ELSE UNCHANGED writeVars
  /\ Goto(t, "erase")
  /\ UNCHANGED <<apiVars, requestVars, analyzeVars, job, botVars, writerVars>>

\* bot->clearSearch, then the erasing, which waits for a terminate action to finish
\* with the table.
MayErase_AnyTime == TRUE
MayErase == ~Terminating

EraseRequest(t) ==
  /\ threadPc[t] = "erase"
  /\ MayErase
  /\ openRequests' = openRequests \ {job[t]}
  /\ shouldStopNow' = [shouldStopNow EXCEPT ![t] = TRUE]
  /\ hasRoot' = [hasRoot EXCEPT ![t] = FALSE]
  /\ Goto(t, "delete")
  /\ UNCHANGED <<apiVars, request, status, freed, analyzeVars, writeVars, job, isKilled,
                 writerVars>>

DeleteRequest(t) ==
  /\ threadPc[t] = "delete"
  /\ freed' = freed \cup {job[t]}
  /\ job' = [job EXCEPT ![t] = -1]
  /\ Goto(t, "pop")
  /\ UNCHANGED <<apiVars, request, status, openRequests, analyzeVars, writeVars, botVars, writerVars>>

-----------------------------------------------------------------------------
(* The writer: writeLoop.                                                   *)

WriteMessage ==
  /\ writerPc = "pop"
  /\ toWriteQueue # <<>>
  /\ toWriteQueue' = Tail(toWriteQueue)
  /\ printed' = IF Final(Head(toWriteQueue))
                THEN [printed EXCEPT ![Head(toWriteQueue).request] = @ + 1] ELSE printed
  /\ UNCHANGED <<apiVars, requestVars, analyzeVars, writeReadOnly, threadVars, botVars, writerPc>>

ExitWriter ==
  /\ writerPc = "pop"
  /\ toWriteQueue = <<>>
  /\ writeReadOnly
  /\ writerPc' = "exited"
  /\ UNCHANGED <<apiVars, requestVars, analyzeVars, writeVars, threadVars, botVars, printed>>

-----------------------------------------------------------------------------

\* What the main thread does without waiting for more input.
MainStep ==
  PushRequest \/ TerminateRequest \/ ActOnTerminate \/ EchoTerminate \/ CloseWriteQueue
    \/ CloseAnalyzeQueue \/ StopBot \/ KillBot \/ JoinThreads \/ JoinWriter

Input == ReadQuery \/ ReadIllegalMoves \/ ReadTerminate \/ EndOfInput

ThreadStep(t) ==
  PopRequest(t) \/ ExitThread(t) \/ Claim(t) \/ GenMove(t) \/ DropSearch(t)
    \/ OnSearchBegun(t) \/ SeeShouldStop(t) \/ ReportAnalysis(t) \/ ReportNoAnalysis(t)
    \/ EraseRequest(t) \/ DeleteRequest(t)

WriterStep == WriteMessage \/ ExitWriter

Next ==
  \/ Input \/ MainStep \/ WriterStep
  \/ \E t \in Threads :
       ThreadStep(t) \/ EvaluateRoot(t) \/ ReportDuringSearch(t) \/ ReachLimits(t)

Spec == Init /\ [][Next]_vars

\* The threads run and notice a stop; nothing says that input comes or ends, or that a
\* search has limits it will reach.
Fairness ==
  /\ WF_vars(MainStep)
  /\ WF_vars(WriterStep)
  /\ \A t \in Threads : WF_vars(ThreadStep(t))

FairSpec == Spec /\ Fairness

-----------------------------------------------------------------------------
(* Properties.                                                              *)

Accepted == {r \in InternalIds : request[r] # NoRequest}
Quitting == apiPc \in {"closeWrite", "closeAnalyze", "stopBots", "killBots", "joinThreads",
                       "joinWriter", "done"}
Searching(t) == threadPc[t] \in {"queued", "searching"}

\* A request gets one final answer at most, whoever writes it, the main thread or the
\* thread that searched.
FinalAnswers(r) == {i \in DOMAIN toWriteQueue : toWriteQueue[i].request = r /\ Final(toWriteQueue[i])}
OneFinalAnswer == \A r \in Accepted : printed[r] + Cardinality(FinalAnswers(r)) <= 1

\* No report during the search comes after the final answer of the request, which the
\* main thread may write while another thread holds the request.
FinalAnswerIsLast ==
  \A i \in DOMAIN toWriteQueue : toWriteQueue[i].kind = "duringSearch" =>
    LET r == toWriteQueue[i].request IN
    printed[r] = 0 /\ \A j \in FinalAnswers(r) : i < j

\* A terminate action stops the search of the requests it names and no other: a bot
\* told to stop by thread index is still at the request that the index was read from.
StopHitsTarget ==
  ~Quitting => \A t \in Threads :
    /\ Searching(t) /\ shouldStopNow[t] => status[job[t]] = STATUS_TERMINATED
    /\ apiPc = "act" /\ target[2] = t => job[t] = target[1]

\* Nobody holds a pointer to a request that has been deleted, and every live request
\* can be terminated until its thread has erased it.
NoUseAfterFree ==
  /\ openRequests \cap freed = {}
  /\ \A x \in toAnalyzeQueue : x[2] \in openRequests
  /\ Terminating => todo \subseteq openRequests
  /\ apiPc = "act" => target[1] \in openRequests
  /\ \A t \in Threads :
       /\ threadPc[t] \notin {"pop", "exited", "delete"} => job[t] \in openRequests
       /\ threadPc[t] = "delete" => job[t] \notin freed
       /\ \A u \in Threads \ {t} : job[t] = job[u] => job[t] = -1

\* A request that a thread has taken was not preceded in the queue: none with the
\* same or a higher priority that came earlier is still waiting.
NoOvertaking ==
  \A t \in Threads : job[t] # -1 =>
    \A x \in toAnalyzeQueue :
      x[2] < job[t] => request[x[2]].priority < request[job[t]].priority

\* The assertions of the two compare_exchanges and of forcePush.
AssertsHold ==
  /\ \A t \in Threads :
       /\ threadPc[t] = "claim" => status[job[t]] \in {STATUS_IN_QUEUE, STATUS_TERMINATED}
       /\ threadPc[t] = "queued" => status[job[t]] \in {STATUS_POPPED, STATUS_TERMINATED}
  /\ apiPc = "push" => ~analyzeReadOnly

\* At the end no request is left over, and if the engine was to wait for its tasks
\* then each of them has been answered on the output.
QuitLeavesNothing ==
  apiPc = "done" =>
    /\ toWriteQueue = <<>>
    /\ openRequests = {}
    /\ Accepted \subseteq freed
    /\ ~quitWithoutWaiting => \A r \in Accepted : printed[r] = 1

\* A terminated request is answered though searches have no limits, in whatever state
\* the terminate action found it ("we always write something").
TerminatedIsAnswered ==
  \A r \in InternalIds :
    (r \in Accepted /\ status[r] = STATUS_TERMINATED)
      ~> (printed[r] = 1 \/ (Quitting /\ quitWithoutWaiting))

\* Quitting without waiting ends though searches have no limits and requests are queued.
QuickQuitEnds == (Quitting /\ quitWithoutWaiting) ~> apiPc = "done"

\* If no search goes on for ever, every request is answered unless the engine quits
\* without waiting, and quitting ends.
SearchesEnd == \A t \in Threads : []<>(threadPc[t] # "searching")
EveryRequestAnswered ==
  SearchesEnd =>
    /\ \A r \in InternalIds :
         r \in Accepted ~> (printed[r] = 1 \/ (Quitting /\ quitWithoutWaiting))
    /\ Quitting ~> apiPc = "done"

\* A search without any result is "only possible if we're just shutting down"
\* (analysis.cpp:325), when its request has not been terminated.
NoResultsOnlyWhenQuitting ==
  \A t \in Threads :
    threadPc[t] = "reportFailed" => Quitting \/ status[job[t]] = STATUS_TERMINATED
=============================================================================
