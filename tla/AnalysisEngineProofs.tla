------------------------ MODULE AnalysisEngineProofs ------------------------
(***************************************************************************)
(* The safety properties of AnalysisEngine, for any number of analysis     *)
(* threads and any requests.                                               *)
(***************************************************************************)
EXTENDS AnalysisEngine, FiniteSetTheorems, SequenceTheorems, NaturalsInduction,
        WellFoundedInduction, TLAPS

-----------------------------------------------------------------------------
(* The inductive invariant                                                 *)

ApiPcs == {"read", "push", "terminate", "act", "closeWrite", "closeAnalyze", "stopBots",
           "killBots", "joinThreads", "joinWriter", "done"}
ThreadPcs == {"pop", "claim", "genMove", "queued", "searching", "report", "reportFailed",
              "erase", "delete", "exited"}

\* Where a thread that has a request owes it an answer, or may have to.
AnswerOwed   == {"genMove", "queued", "searching", "report", "reportFailed"}
SearchedHere == {"searching", "report", "reportFailed", "erase"}

Statuses == {STATUS_IN_QUEUE, STATUS_POPPED, STATUS_TERMINATED} \cup Threads
Messages == [kind : {"analysis", "noResults", "duringSearch", "other"},
             request : InternalIds \cup {-1}]

ApiTypes ==
  /\ apiPc \in ApiPcs
  /\ quitWithoutWaiting \in BOOLEAN
  /\ internalIdCounter \in 0 .. MaxRequests
  /\ numRequestsSoFar \in Nat
  /\ target \in (InternalIds \cup {-1}) \X Statuses
  /\ apiPc \in {"push", "terminate", "act"} => todo \subseteq InternalIds
  /\ apiPc \in {"stopBots", "killBots"} => todo \subseteq Threads
  /\ apiPc \in {"push", "stopBots", "killBots"} => todo # {}

RequestTypes ==
  /\ status \in [InternalIds -> Statuses]
  /\ openRequests \subseteq 0 .. internalIdCounter - 1
  /\ freed \subseteq 0 .. internalIdCounter - 1
  /\ toAnalyzeQueue \subseteq (Int \X Int) \X InternalIds
  /\ analyzeReadOnly \in BOOLEAN

ThreadTypes ==
  /\ threadPc \in [Threads -> ThreadPcs]
  /\ job \in [Threads -> InternalIds \cup {-1}]
  /\ \A t \in Threads : job[t] < internalIdCounter
  /\ shouldStopNow \in [Threads -> BOOLEAN]
  /\ isKilled \in [Threads -> BOOLEAN]

WriteTypes ==
  /\ toWriteQueue \in Seq(Messages)
  /\ writeReadOnly \in BOOLEAN
  /\ printed \in [InternalIds -> Nat]

\* Nothing is closed and nobody is killed before the engine quits.
QuitsLast ==
  /\ analyzeReadOnly => Quitting
  /\ \A t \in Threads : isKilled[t] => Quitting

\* A live request is in one place at most: about to be queued, queued, with a thread.
QueuedOnce ==
  /\ \A x \in toAnalyzeQueue :
       /\ x[2] \in openRequests
       /\ \A y \in toAnalyzeQueue : x[2] = y[2] => x = y
       /\ \A t \in Threads : x[2] # job[t]
  /\ apiPc = "push" =>
       /\ todo \subseteq openRequests
       /\ \A r \in todo : /\ \A x \in toAnalyzeQueue : x[2] < r
                          /\ \A t \in Threads : job[t] < r

HeldOnce ==
  /\ openRequests \cap freed = {}
  /\ \A t \in Threads :
       /\ threadPc[t] \in {"pop", "exited"} => job[t] = -1
       /\ threadPc[t] = "delete" => job[t] \in InternalIds \ (openRequests \cup freed)
       /\ threadPc[t] \notin {"pop", "exited", "delete"} => job[t] \in openRequests
       /\ \A u \in Threads \ {t} : job[t] = job[u] => job[t] = -1

Terminated ==
  /\ Terminating => todo \subseteq openRequests
  /\ apiPc = "act" => target[1] \in openRequests /\ status[target[1]] = STATUS_TERMINATED

\* The status of a request tells where it is, unless it says that it is terminated.
StatusTells ==
  /\ \A x \in toAnalyzeQueue : status[x[2]] \in {STATUS_IN_QUEUE, STATUS_TERMINATED}
  /\ apiPc = "push" => \A r \in todo : status[r] \in {STATUS_IN_QUEUE, STATUS_TERMINATED}
  /\ \A t \in Threads :
       /\ threadPc[t] = "claim" => status[job[t]] \in {STATUS_IN_QUEUE, STATUS_TERMINATED}
       /\ threadPc[t] \in {"genMove", "queued"} =>
            status[job[t]] \in {STATUS_POPPED, STATUS_TERMINATED}
       /\ threadPc[t] = "searching" => status[job[t]] \in {t, STATUS_TERMINATED}
       /\ threadPc[t] \in {"report", "reportFailed", "erase"} =>
            status[job[t]] \in {STATUS_POPPED, t, STATUS_TERMINATED}

\* An index of a thread, as a status or read from one by a terminate action, is the
\* index of the thread that has the request.
IndexTells ==
  /\ \A r \in openRequests : status[r] \in Threads =>
       job[status[r]] = r /\ threadPc[status[r]] \in SearchedHere
  /\ apiPc = "act" /\ target[2] \in Threads =>
       job[target[2]] = target[1] /\ threadPc[target[2]] \in SearchedHere

StopsOnlyTerminated ==
  ~Quitting => \A t \in Threads :
    Searching(t) /\ shouldStopNow[t] => status[job[t]] = STATUS_TERMINATED

\* No final answer has been queued or printed for r.
NoAnswerYet(r) ==
  /\ printed[r] = 0
  /\ \A i \in DOMAIN toWriteQueue : Final(toWriteQueue[i]) => toWriteQueue[i].request # r

\* The terminate action is about to answer r.
MainOwes(r) == apiPc = "act" /\ target = <<r, STATUS_IN_QUEUE>>
ThreadOwes(r) == \E t \in Threads : job[t] = r /\ threadPc[t] \in AnswerOwed

\* Nobody can have answered r: it is not made yet, nobody has claimed or terminated it,
\* or somebody is on the way to answer it, and only one.
Unanswered(r) ==
  \/ r >= internalIdCounter
  \/ r \in openRequests /\ status[r] = STATUS_IN_QUEUE
  \/ MainOwes(r)
  \/ ThreadOwes(r)

AnsweredInTurn ==
  /\ \A r \in InternalIds : Unanswered(r) => NoAnswerYet(r)
  /\ \A r \in InternalIds : ~(MainOwes(r) /\ ThreadOwes(r))

AnsweredOnce ==
  /\ \A r \in InternalIds : printed[r] \in {0, 1}
  /\ \A i \in DOMAIN toWriteQueue : Final(toWriteQueue[i]) =>
       /\ toWriteQueue[i].request \in InternalIds
       /\ printed[toWriteQueue[i].request] = 0
       /\ \A j \in DOMAIN toWriteQueue :
            Final(toWriteQueue[j]) /\ toWriteQueue[j].request = toWriteQueue[i].request => i = j

\* The reports during a search come before the answer.
ReportsFirst ==
  \A i \in DOMAIN toWriteQueue : toWriteQueue[i].kind = "duringSearch" =>
    /\ toWriteQueue[i].request \in InternalIds
    /\ printed[toWriteQueue[i].request] = 0
    /\ \A j \in DOMAIN toWriteQueue :
         Final(toWriteQueue[j]) /\ toWriteQueue[j].request = toWriteQueue[i].request => i < j

\* The tie breakers of the queue are in the order of the internal ids.
QueueInOrder ==
  /\ \A x \in toAnalyzeQueue :
       /\ x[1][1] = request[x[2]].priority
       /\ x[1][2] > -numRequestsSoFar
       /\ \A y \in toAnalyzeQueue : x[2] < y[2] => y[1][2] < x[1][2]
  /\ apiPc = "push" => \A r \in todo : request[r].priority \in Int
  /\ \A t \in Threads : job[t] # -1 => request[job[t]].priority \in Int

IInv ==
  /\ ApiTypes /\ RequestTypes /\ ThreadTypes /\ WriteTypes
  /\ QuitsLast /\ QueuedOnce /\ HeldOnce /\ Terminated
  /\ StatusTells /\ IndexTells /\ StopsOnlyTerminated
  /\ AnsweredInTurn /\ AnsweredOnce /\ ReportsFirst
  /\ QueueInOrder /\ NoOvertaking

-----------------------------------------------------------------------------
(* Constants, and the least of what a loop has left                        *)

LEMMA Constants ==
  /\ NumAnalysisThreads \in Nat /\ MaxRequests \in Nat /\ Priorities \subseteq Int
  /\ 0 \in Threads
  /\ STATUS_IN_QUEUE \notin Threads /\ STATUS_POPPED \notin Threads
  /\ STATUS_TERMINATED \notin Threads
  /\ STATUS_IN_QUEUE # STATUS_POPPED /\ STATUS_IN_QUEUE # STATUS_TERMINATED
  /\ STATUS_POPPED # STATUS_TERMINATED
  /\ InternalIds \subseteq Nat /\ Threads \subseteq Nat /\ -1 \notin InternalIds
BY AnalysisAssumption DEF Threads, InternalIds, STATUS_IN_QUEUE, STATUS_POPPED, STATUS_TERMINATED

NatLess == {ss \in Nat \X Nat : ss[1] < ss[2]}

LEMMA MinFound ==
  ASSUME NEW S \in SUBSET Nat, S # {}
  PROVE  Min(S) \in S /\ \A i \in S : Min(S) <= i
<1>1. IsWellFoundedOn(OpToRel(<, Nat), Nat)
  BY NatLessThanWellFounded
<1>2. OpToRel(<, Nat) = NatLess
  BY DEF OpToRel, NatLess
<1>3. IsWellFoundedOn(NatLess, Nat)
  BY <1>1, <1>2
<1>4. \E x \in S : \A y \in S : ~ (<<y, x>> \in NatLess)
  BY <1>3, WFMin
<1>5. PICK x \in S : \A y \in S : ~ (<<y, x>> \in NatLess)
  BY <1>4
<1>6. \A y \in S : x \in Nat /\ y \in Nat /\ ~(y < x)
  BY <1>5 DEF NatLess
<1>7. \A y \in S : x <= y
  BY <1>6
<1> QED
  BY <1>7 DEF Min

-----------------------------------------------------------------------------
(* What a message does to the queue of the writer                          *)

LEMMA Pushed ==
  ASSUME WriteTypes, NEW m \in Messages, PushToWrite(m), printed' = printed
  PROVE  /\ WriteTypes'
         /\ \/ toWriteQueue' = toWriteQueue
            \/ /\ DOMAIN toWriteQueue' = 1 .. Len(toWriteQueue) + 1
               /\ DOMAIN toWriteQueue = 1 .. Len(toWriteQueue)
               /\ Len(toWriteQueue) \in Nat
               /\ toWriteQueue'[Len(toWriteQueue) + 1] = m
               /\ \A i \in 1 .. Len(toWriteQueue) : toWriteQueue'[i] = toWriteQueue[i]
<1>1. CASE writeReadOnly
  BY <1>1 DEF WriteTypes, PushToWrite
<1>2. CASE ~writeReadOnly
  <2>1. toWriteQueue' = Append(toWriteQueue, m) /\ writeReadOnly' = writeReadOnly
    BY <1>2 DEF PushToWrite
  <2>2. toWriteQueue' \in Seq(Messages) /\ Len(toWriteQueue') = Len(toWriteQueue) + 1
    BY <2>1, AppendProperties DEF WriteTypes
  <2>3. /\ DOMAIN toWriteQueue' = 1 .. Len(toWriteQueue')
        /\ DOMAIN toWriteQueue = 1 .. Len(toWriteQueue)
        /\ Len(toWriteQueue) \in Nat
    BY <2>2, LenProperties DEF WriteTypes
  <2>4. /\ toWriteQueue'[Len(toWriteQueue) + 1] = m
        /\ \A i \in 1 .. Len(toWriteQueue) : toWriteQueue'[i] = toWriteQueue[i]
    BY <2>1, AppendProperties DEF WriteTypes
  <2> QED
    BY <2>1, <2>2, <2>3, <2>4 DEF WriteTypes
<1> QED
  BY <1>1, <1>2

\* The answer of a request that has none yet.
LEMMA AnswerPushed ==
  ASSUME WriteTypes, AnsweredOnce, ReportsFirst, NEW r \in InternalIds, NoAnswerYet(r),
         NEW kind \in {"analysis", "noResults"}, PushToWrite(Message(kind, r)),
         printed' = printed
  PROVE  /\ WriteTypes' /\ AnsweredOnce' /\ ReportsFirst'
         /\ \A s \in InternalIds \ {r} : NoAnswerYet(s) => NoAnswerYet(s)'
<1> DEFINE m == Message(kind, r)
           n == Len(toWriteQueue) + 1
<1>1. m \in Messages /\ Final(m) /\ m.request = r /\ m.kind # "duringSearch"
  BY DEF Messages, Message, Final
<1>2. CASE toWriteQueue' = toWriteQueue
  BY <1>1, <1>2, Pushed DEF AnsweredOnce, ReportsFirst, NoAnswerYet
<1>3. CASE toWriteQueue' # toWriteQueue
  <2>1. /\ DOMAIN toWriteQueue' = 1 .. n /\ DOMAIN toWriteQueue = 1 .. n - 1 /\ n \in Nat
        /\ toWriteQueue'[n] = m
        /\ \A i \in 1 .. n - 1 : toWriteQueue'[i] = toWriteQueue[i]
        /\ WriteTypes'
    BY <1>1, <1>3, Pushed
  <2> HIDE DEF m, n
  <2>2. AnsweredOnce'
    BY <1>1, <2>1 DEF AnsweredOnce, NoAnswerYet
  <2>3. ReportsFirst'
    BY <1>1, <2>1 DEF ReportsFirst, NoAnswerYet
  <2>4. \A s \in InternalIds \ {r} : NoAnswerYet(s) => NoAnswerYet(s)'
    BY <1>1, <2>1 DEF NoAnswerYet
  <2> QED
    BY <2>1, <2>2, <2>3, <2>4
<1> QED
  BY <1>2, <1>3

\* A line that is no answer: the response to a terminate action or to an illegal query,
\* or a report of a request that has no answer yet.
LEMMA LinePushed ==
  ASSUME WriteTypes, AnsweredOnce, ReportsFirst, NEW m \in Messages, ~Final(m),
         m.kind = "duringSearch" => m.request \in InternalIds /\ NoAnswerYet(m.request),
         PushToWrite(m), printed' = printed
  PROVE  /\ WriteTypes' /\ AnsweredOnce' /\ ReportsFirst'
         /\ \A s \in InternalIds : NoAnswerYet(s) => NoAnswerYet(s)'
<1> DEFINE n == Len(toWriteQueue) + 1
<1>2. CASE toWriteQueue' = toWriteQueue
  BY <1>2, Pushed DEF AnsweredOnce, ReportsFirst, NoAnswerYet
<1>3. CASE toWriteQueue' # toWriteQueue
  <2>1. /\ DOMAIN toWriteQueue' = 1 .. n /\ DOMAIN toWriteQueue = 1 .. n - 1 /\ n \in Nat
        /\ toWriteQueue'[n] = m
        /\ \A i \in 1 .. n - 1 : toWriteQueue'[i] = toWriteQueue[i]
        /\ WriteTypes'
    BY <1>3, Pushed
  <2> HIDE DEF n
  <2>2. AnsweredOnce'
    BY <2>1 DEF AnsweredOnce
  <2>3. ReportsFirst'
    BY <2>1 DEF ReportsFirst, NoAnswerYet
  <2>4. \A s \in InternalIds : NoAnswerYet(s) => NoAnswerYet(s)'
    BY <2>1 DEF NoAnswerYet
  <2> QED
    BY <2>1, <2>2, <2>3, <2>4
<1> QED
  BY <1>2, <1>3

\* The writer prints the oldest line.
LEMMA LinePrinted ==
  ASSUME WriteTypes, AnsweredOnce, ReportsFirst, WriteMessage
  PROVE  /\ WriteTypes' /\ AnsweredOnce' /\ ReportsFirst'
         /\ \A s \in InternalIds : NoAnswerYet(s) => NoAnswerYet(s)'
<1> DEFINE m == Head(toWriteQueue)
           n == Len(toWriteQueue)
<1>1. /\ toWriteQueue' = Tail(toWriteQueue) /\ writeReadOnly' = writeReadOnly
      /\ toWriteQueue' \in Seq(Messages)
      /\ n \in Nat \ {0} /\ DOMAIN toWriteQueue = 1 .. n /\ DOMAIN toWriteQueue' = 1 .. n - 1
      /\ m = toWriteQueue[1] /\ m \in Messages
      /\ \A i \in 1 .. n - 1 : toWriteQueue'[i] = toWriteQueue[i + 1]
  <2>1. toWriteQueue \in Seq(Messages) /\ toWriteQueue # <<>> /\ toWriteQueue' = Tail(toWriteQueue)
    BY DEF WriteTypes, WriteMessage
  <2>2. /\ Tail(toWriteQueue) \in Seq(Messages) /\ Len(Tail(toWriteQueue)) = n - 1
        /\ \A i \in 1 .. Len(Tail(toWriteQueue)) : Tail(toWriteQueue)[i] = toWriteQueue[i + 1]
        /\ m \in Messages
    BY <2>1, HeadTailProperties
  <2>3. n \in Nat \ {0} /\ m = toWriteQueue[1]
    BY <2>1, EmptySeq
  <2>4. DOMAIN toWriteQueue = 1 .. n /\ DOMAIN Tail(toWriteQueue) = 1 .. n - 1
    BY <2>1, <2>2, LenProperties
  <2> QED
    BY <2>1, <2>2, <2>3, <2>4 DEF WriteMessage
<1>2. printed' = IF Final(m) THEN [printed EXCEPT ![m.request] = @ + 1] ELSE printed
  BY DEF WriteMessage
<1> HIDE DEF m, n
<1>3. CASE Final(m)
  <2>1. m.request \in InternalIds /\ printed[m.request] = 0
    BY <1>1, <1>3 DEF AnsweredOnce
  <2>2. /\ printed' \in [InternalIds -> Nat] /\ printed'[m.request] = 1
        /\ \A s \in InternalIds \ {m.request} : printed'[s] = printed[s]
    BY <1>2, <1>3, <2>1 DEF WriteTypes
  <2>3. \A i \in 2 .. n : Final(toWriteQueue[i]) => toWriteQueue[i].request # m.request
    BY <1>1, <1>3 DEF AnsweredOnce
  <2>4. \A i \in 1 .. n :
          toWriteQueue[i].kind = "duringSearch" => toWriteQueue[i].request # m.request
    BY <1>1, <1>3 DEF ReportsFirst
  <2>5. AnsweredOnce'
    BY <1>1, <2>1, <2>2, <2>3 DEF AnsweredOnce
  <2>6. ReportsFirst'
    BY <1>1, <2>1, <2>2, <2>3, <2>4 DEF ReportsFirst
  <2>7. \A s \in InternalIds : NoAnswerYet(s) => NoAnswerYet(s)'
    BY <1>1, <1>3, <2>1, <2>2 DEF NoAnswerYet
  <2> QED
    BY <1>1, <2>2, <2>5, <2>6, <2>7 DEF WriteTypes
<1>4. CASE ~Final(m)
  <2>1. printed' = printed
    BY <1>2, <1>4
  <2>2. AnsweredOnce'
    BY <1>1, <2>1 DEF AnsweredOnce
  <2>3. ReportsFirst'
    BY <1>1, <2>1 DEF ReportsFirst
  <2>4. \A s \in InternalIds : NoAnswerYet(s) => NoAnswerYet(s)'
    BY <1>1, <2>1 DEF NoAnswerYet
  <2> QED
    BY <1>1, <2>1, <2>2, <2>3, <2>4 DEF WriteTypes
<1> QED
  BY <1>3, <1>4

-----------------------------------------------------------------------------
(* Where the requests are                                                  *)

LEMMA Places ==
  ASSUME IInv
  PROVE  /\ internalIdCounter \in Nat /\ internalIdCounter <= MaxRequests
         /\ openRequests \cap freed = {}
         /\ \A r \in openRequests \cup freed :
              r \in InternalIds /\ r \in Nat /\ r # -1 /\ r < internalIdCounter
         /\ \A t \in Threads : job[t] \in Int /\ job[t] < internalIdCounter
         /\ \A x \in toAnalyzeQueue : /\ x[2] \in openRequests /\ x[2] \in InternalIds
                                      /\ x[2] \in Nat /\ x[2] < internalIdCounter
                                      /\ x[1][1] \in Int /\ x[1][2] \in Int
         /\ apiPc = "push" => todo \subseteq InternalIds /\ todo \subseteq openRequests
         /\ \A t \in Threads : threadPc[t] \notin {"pop", "exited", "delete"} =>
              /\ job[t] \in openRequests /\ job[t] \in InternalIds /\ job[t] # -1
              /\ \A u \in Threads \ {t} : job[u] # job[t]
              /\ \A x \in toAnalyzeQueue : x[2] # job[t]
              /\ apiPc = "push" => job[t] \notin todo
<1>1. /\ internalIdCounter \in Nat /\ internalIdCounter <= MaxRequests
      /\ openRequests \cap freed = {}
      /\ apiPc = "push" => todo \subseteq InternalIds /\ todo \subseteq openRequests
  BY Constants DEF IInv, ApiTypes, QueuedOnce, HeldOnce
<1>2. \A r \in openRequests \cup freed :
        r \in InternalIds /\ r \in Nat /\ r # -1 /\ r < internalIdCounter
  <2> SUFFICES ASSUME NEW r \in openRequests \cup freed
               PROVE  r \in InternalIds /\ r \in Nat /\ r # -1 /\ r < internalIdCounter
    OBVIOUS
  <2>1. r \in 0 .. internalIdCounter - 1
    BY DEF IInv, RequestTypes
  <2>2. MaxRequests \in Nat /\ -1 \notin InternalIds
    BY Constants
  <2>3. r \in InternalIds /\ r \in Nat /\ r < internalIdCounter
    BY <1>1, <2>1, <2>2 DEF InternalIds
  <2> QED
    BY <2>2, <2>3
<1>3. \A t \in Threads : job[t] \in Int /\ job[t] < internalIdCounter
  <2> SUFFICES ASSUME NEW t \in Threads PROVE job[t] \in Int /\ job[t] < internalIdCounter
    OBVIOUS
  <2>1. job[t] \in InternalIds \cup {-1} /\ job[t] < internalIdCounter
    BY DEF IInv, ThreadTypes
  <2>2. CASE job[t] \in InternalIds
    <3>1. InternalIds \subseteq Nat
      BY Constants
    <3>2. job[t] \in Nat
      BY <2>2, <3>1
    <3> QED
      BY <2>1, <3>2
  <2>3. CASE job[t] = -1
    BY <2>1, <2>3
  <2> QED
    BY <2>1, <2>2, <2>3
<1>4. \A x \in toAnalyzeQueue : x[2] \in openRequests /\ x[1][1] \in Int /\ x[1][2] \in Int
  BY DEF IInv, QueuedOnce, RequestTypes
<1>5. \A t \in Threads : threadPc[t] \notin {"pop", "exited", "delete"} =>
        /\ job[t] \in openRequests
        /\ \A u \in Threads \ {t} : job[u] = job[t] => job[t] = -1
        /\ \A x \in toAnalyzeQueue : x[2] # job[t]
  BY DEF IInv, HeldOnce, QueuedOnce
<1>6. \A t \in Threads : apiPc = "push" /\ job[t] \in Int => job[t] \notin todo
  <2>1. apiPc = "push" => \A r \in todo : \A t \in Threads : job[t] < r
    BY DEF IInv, QueuedOnce
  <2> QED
    BY <2>1, <1>1, Constants
<1> QED
  BY <1>1, <1>2, <1>3, <1>4, <1>5, <1>6

-----------------------------------------------------------------------------
(* Every step keeps the invariant                                          *)

-----------------------------------------------------------------------------
(* The main thread reads and acts                                          *)

LEMMA ReadQueryKeeps ==
  ASSUME IInv, ReadQuery
  PROVE  IInv'
<1>1. UNCHANGED <<quitWithoutWaiting, target, numRequestsSoFar, others, freed, toAnalyzeQueue,
   analyzeReadOnly, toWriteQueue, writeReadOnly, threadPc, job, shouldStopNow, isKilled,
   hasRoot, writerPc, printed>>
  BY DEF ReadQuery, counters, requestVars, analyzeVars, writeVars, botVars, threadVars,
     writerVars, apiVars
<1>n. PICK n \in 1 .. MaxRequests - internalIdCounter :
        \E asked \in [internalIdCounter .. internalIdCounter + n - 1 -> Requests] :
          /\ request' = [r \in InternalIds |->
               IF r \in internalIdCounter .. internalIdCounter + n - 1
               THEN asked[r] ELSE request[r]]
          /\ status' = [r \in InternalIds |->
               IF r \in internalIdCounter .. internalIdCounter + n - 1
               THEN STATUS_IN_QUEUE ELSE status[r]]
          /\ openRequests' = openRequests \cup internalIdCounter .. internalIdCounter + n - 1
          /\ todo' = internalIdCounter .. internalIdCounter + n - 1
          /\ internalIdCounter' = internalIdCounter + n
  BY DEF ReadQuery, CounterAfter
<1>a. PICK asked \in [internalIdCounter .. internalIdCounter + n - 1 -> Requests] :
        /\ request' = [r \in InternalIds |->
             IF r \in internalIdCounter .. internalIdCounter + n - 1
             THEN asked[r] ELSE request[r]]
        /\ status' = [r \in InternalIds |->
             IF r \in internalIdCounter .. internalIdCounter + n - 1
             THEN STATUS_IN_QUEUE ELSE status[r]]
        /\ openRequests' = openRequests \cup internalIdCounter .. internalIdCounter + n - 1
        /\ todo' = internalIdCounter .. internalIdCounter + n - 1
        /\ internalIdCounter' = internalIdCounter + n
  BY <1>n
<1>b. /\ apiPc = "read" /\ apiPc' = "push"
      /\ internalIdCounter \in Nat /\ internalIdCounter' \in 0 .. MaxRequests
      /\ internalIdCounter < internalIdCounter'
      /\ todo' = internalIdCounter .. internalIdCounter' - 1
      /\ todo' \subseteq InternalIds /\ todo' # {}
      /\ openRequests' = openRequests \cup todo'
      /\ \A r \in todo' : r \in Nat /\ r >= internalIdCounter /\ status'[r] = STATUS_IN_QUEUE
                           /\ request'[r].priority \in Int
      /\ \A r \in InternalIds \ todo' : status'[r] = status[r] /\ request'[r] = request[r]
      /\ status' \in [InternalIds -> Statuses]
      /\ \A r \in openRequests \cup freed :
           r \in InternalIds /\ r \in Nat /\ r < internalIdCounter /\ r \notin todo'
      /\ \A t \in Threads : job[t] < internalIdCounter /\ job[t] \notin todo' /\ job[t] \in Int
      /\ \A x \in toAnalyzeQueue :
           x[2] \in openRequests /\ x[2] < internalIdCounter /\ x[2] \in Nat
  <2>1. internalIdCounter \in 0 .. MaxRequests /\ MaxRequests \in Nat /\ n \in Nat \ {0}
    BY Constants DEF IInv, ApiTypes
  <2>2. /\ apiPc = "read" /\ apiPc' = "push"
        /\ internalIdCounter' = internalIdCounter + n /\ internalIdCounter' \in 0 .. MaxRequests
        /\ todo' = internalIdCounter .. internalIdCounter' - 1
        /\ openRequests' = openRequests \cup todo'
    BY <1>a, <2>1 DEF ReadQuery
  <2>3. todo' \subseteq InternalIds /\ internalIdCounter \in todo'
    BY <2>1, <2>2 DEF InternalIds
  <2>4. \A r \in todo' : /\ r \in Nat /\ r >= internalIdCounter /\ status'[r] = STATUS_IN_QUEUE
                          /\ request'[r] \in Requests
    BY <1>a, <2>1, <2>2, <2>3
  <2>5. /\ \A r \in InternalIds \ todo' : status'[r] = status[r] /\ request'[r] = request[r]
        /\ status' \in [InternalIds -> Statuses]
    BY <1>a, <2>2, <2>3 DEF IInv, RequestTypes, Statuses
  <2>6. \A r \in openRequests \cup freed :
          r \in InternalIds /\ r \in Nat /\ r < internalIdCounter /\ r \notin todo'
    BY <2>2, Places
  <2>7. \A t \in Threads : job[t] < internalIdCounter /\ job[t] \notin todo' /\ job[t] \in Int
    BY <2>1, <2>2, Places
  <2>8. \A x \in toAnalyzeQueue : x[2] \in openRequests
    BY DEF IInv, QueuedOnce
  <2>9. \A r \in todo' : request'[r].priority \in Int
    BY <2>4, Constants DEF Requests
  <2> QED
    BY <2>1, <2>2, <2>3, <2>4, <2>5, <2>6, <2>7, <2>8, <2>9
<1>2. WriteTypes' /\ AnsweredOnce' /\ ReportsFirst'
  BY <1>1 DEF IInv, WriteTypes, AnsweredOnce, ReportsFirst
<1>3. ApiTypes'
  BY <1>1, <1>a, <1>b, Constants DEF IInv, ApiTypes, ApiPcs
<1>4. RequestTypes'
  BY <1>1, <1>a, <1>b, Constants DEF IInv, RequestTypes, Statuses
<1>5. ThreadTypes'
  BY <1>1, <1>a, <1>b, Constants DEF IInv, ThreadTypes, ThreadPcs
<1>6. QuitsLast'
  BY <1>1, <1>a, <1>b, Constants DEF IInv, QuitsLast, Quitting
<1>7. QueuedOnce'
  BY <1>1, <1>a, <1>b, Constants DEF IInv, QueuedOnce, HeldOnce
<1>8. HeldOnce'
  BY <1>1, <1>a, <1>b, Constants DEF IInv, HeldOnce
<1>9. Terminated'
  BY <1>1, <1>a, <1>b, Constants DEF IInv, Terminated, Terminating
<1>10. StatusTells'
  BY <1>1, <1>a, <1>b, Constants DEF IInv, StatusTells, HeldOnce, ThreadTypes
<1>11. IndexTells'
  BY <1>1, <1>a, <1>b, Constants DEF IInv, IndexTells, HeldOnce, ThreadTypes, SearchedHere,
     StatusTells
<1>12. StopsOnlyTerminated'
  BY <1>1, <1>a, <1>b, Constants DEF IInv, StopsOnlyTerminated, Quitting, Searching, HeldOnce,
     StatusTells
<1>13. AnsweredInTurn'
  BY <1>1, <1>a, <1>b, Constants DEF IInv, AnsweredInTurn, Unanswered, NoAnswerYet, MainOwes,
     ThreadOwes, HeldOnce, AnswerOwed, StatusTells
<1>14. QueueInOrder'
  <2>1. \A x \in toAnalyzeQueue : request'[x[2]] = request[x[2]]
    BY <1>b
  <2>2. \A t \in Threads : job[t] # -1 => request'[job[t]] = request[job[t]]
    BY <1>b DEF IInv, ThreadTypes
  <2> QED
    BY <1>1, <1>b, <2>1, <2>2 DEF IInv, QueueInOrder
<1>15. NoOvertaking'
  <2>1. \A x \in toAnalyzeQueue : request'[x[2]] = request[x[2]]
    BY <1>b
  <2>2. \A t \in Threads : job[t] # -1 => request'[job[t]] = request[job[t]]
    BY <1>b DEF IInv, ThreadTypes
  <2> QED
    BY <1>1, <2>1, <2>2 DEF IInv, NoOvertaking
<1> QED
  BY <1>2, <1>3, <1>4, <1>5, <1>6, <1>7, <1>8, <1>9, <1>10, <1>11, <1>12, <1>13, <1>14, <1>15
     DEF IInv

LEMMA ReadIllegalMovesKeeps ==
  ASSUME IInv, ReadIllegalMoves
  PROVE  IInv'
<1>1. UNCHANGED <<quitWithoutWaiting, apiPc, todo, target, numRequestsSoFar, request, status,
   openRequests, toAnalyzeQueue, analyzeReadOnly, threadPc, job, shouldStopNow, isKilled,
   hasRoot, writerPc, printed>>
  BY DEF ReadIllegalMoves, counters, requestVars, analyzeVars, writeVars, botVars, threadVars,
     writerVars, apiVars
<1>a. PICK n \in 0 .. MaxRequests - internalIdCounter :
        /\ internalIdCounter' = internalIdCounter + n
        /\ freed' = freed \cup (internalIdCounter .. internalIdCounter + n - 1)
  BY DEF ReadIllegalMoves, CounterAfter
<1>b. /\ internalIdCounter \in Nat /\ internalIdCounter' \in 0 .. MaxRequests
      /\ internalIdCounter <= internalIdCounter'
      /\ freed \subseteq freed' /\ freed' \subseteq 0 .. internalIdCounter' - 1
      /\ \A r \in freed' \ freed : r >= internalIdCounter
      /\ openRequests \subseteq 0 .. internalIdCounter - 1
      /\ \A t \in Threads : job[t] < internalIdCounter /\ job[t] \in Int
  BY <1>a, Constants, Places
<1>c. /\ WriteTypes' /\ AnsweredOnce' /\ ReportsFirst'
      /\ \A s \in InternalIds : NoAnswerYet(s) => NoAnswerYet(s)'
  <2>1. /\ Message("other", -1) \in Messages /\ ~Final(Message("other", -1))
        /\ Message("other", -1).kind # "duringSearch"
    BY DEF Messages, Message, Final
  <2> QED
    BY <1>1, <2>1, LinePushed DEF IInv, ReadIllegalMoves
<1>2. QuitsLast' /\ QueuedOnce' /\ Terminated' /\ StatusTells' /\ IndexTells' /\
   StopsOnlyTerminated'
  BY <1>1 DEF IInv, QuitsLast, QueuedOnce, Terminated, StatusTells, IndexTells,
     StopsOnlyTerminated, Quitting, Terminating, Searching
<1>3. QueueInOrder' /\ NoOvertaking'
  BY <1>1 DEF IInv, QueueInOrder, NoOvertaking
<1>4. ApiTypes'
  BY <1>1, <1>a, <1>b, Constants DEF IInv, ApiTypes, ApiPcs
<1>5. RequestTypes'
  BY <1>1, <1>a, <1>b, Constants DEF IInv, RequestTypes, Statuses
<1>6. ThreadTypes'
  BY <1>1, <1>a, <1>b, Constants DEF IInv, ThreadTypes, ThreadPcs
<1>7. WriteTypes'
  BY <1>c
<1>8. HeldOnce'
  BY <1>1, <1>a, <1>b, Constants DEF IInv, HeldOnce
<1>9. AnsweredInTurn'
  BY <1>1, <1>b, <1>c, Constants DEF IInv, AnsweredInTurn, Unanswered, MainOwes, ThreadOwes
<1>10. AnsweredOnce'
  BY <1>c
<1>11. ReportsFirst'
  BY <1>c
<1> QED
  BY <1>2, <1>3, <1>4, <1>5, <1>6, <1>7, <1>8, <1>9, <1>10, <1>11 DEF IInv

LEMMA PushRequestKeeps ==
  ASSUME IInv, PushRequest
  PROVE  IInv'
<1>1. UNCHANGED <<quitWithoutWaiting, target, internalIdCounter, others, request, status,
   openRequests, freed, analyzeReadOnly, toWriteQueue, writeReadOnly, threadPc, job,
   shouldStopNow, isKilled, hasRoot, writerPc, printed>>
  BY DEF PushRequest, counters, requestVars, analyzeVars, writeVars, botVars, threadVars,
     writerVars, apiVars
<1>a. PICK r \in todo :
        /\ \A y \in todo : r <= y
        /\ todo' = todo \ {r}
        /\ toAnalyzeQueue' = toAnalyzeQueue \cup {<<PriorityKey(r), r>>}
        /\ apiPc = "push" /\ apiPc' = IF todo = {r} THEN "read" ELSE "push"
        /\ numRequestsSoFar' = numRequestsSoFar + 1
  <2>1. ~analyzeReadOnly
    BY DEF PushRequest, IInv, QuitsLast, Quitting
  <2>2. todo \in SUBSET Nat /\ todo # {}
    BY Constants DEF PushRequest, IInv, ApiTypes
  <2> QED
    BY <2>1, <2>2, MinFound DEF PushRequest
<1>b. PICK e \in (Int \X Int) \X InternalIds :
        /\ toAnalyzeQueue' = toAnalyzeQueue \cup {e}
        /\ e[2] = r /\ e[1][1] = request[r].priority /\ e[1][2] = -numRequestsSoFar
        /\ r \in openRequests /\ r \in InternalIds /\ numRequestsSoFar \in Nat
        /\ todo \subseteq InternalIds /\ InternalIds \subseteq Nat
        /\ \A x \in toAnalyzeQueue : x[2] < r /\ x[2] \in Nat /\ x[1][2] \in Int
        /\ \A t \in Threads : job[t] < r /\ job[t] \in Int
  <2>1. /\ r \in openRequests /\ r \in InternalIds /\ numRequestsSoFar \in Nat
        /\ request[r].priority \in Int /\ todo \subseteq InternalIds
    BY <1>a DEF IInv, QueuedOnce, QueueInOrder, ApiTypes
  <2>2. /\ \A x \in toAnalyzeQueue : x[2] < r /\ x[2] \in Nat /\ x[1][2] \in Int
        /\ \A t \in Threads : job[t] < r /\ job[t] \in Int
    BY <1>a, Places DEF IInv, QueuedOnce
  <2>3. <<PriorityKey(r), r>> \in (Int \X Int) \X InternalIds
    BY <2>1 DEF PriorityKey
  <2> QED
    BY <1>a, <2>1, <2>2, <2>3, Constants DEF PriorityKey
<1>2. ThreadTypes' /\ WriteTypes' /\ HeldOnce' /\ AnsweredOnce' /\ ReportsFirst'
  BY <1>1 DEF IInv, ThreadTypes, WriteTypes, HeldOnce, AnsweredOnce, ReportsFirst
<1>3. ApiTypes'
  BY <1>1, <1>a, <1>b, Constants DEF IInv, ApiTypes, ApiPcs
<1>4. RequestTypes'
  BY <1>1, <1>a, <1>b, Constants DEF IInv, RequestTypes, Statuses
<1>5. QuitsLast'
  BY <1>1, <1>a, <1>b, Constants DEF IInv, QuitsLast, Quitting
<1>6. QueuedOnce'
  BY <1>1, <1>a, <1>b, Constants DEF IInv, QueuedOnce, HeldOnce
<1>7. Terminated'
  BY <1>1, <1>a, <1>b, Constants DEF IInv, Terminated, Terminating
<1>8. StatusTells'
  BY <1>1, <1>a, <1>b, Constants DEF IInv, StatusTells, HeldOnce, ThreadTypes
<1>9. IndexTells'
  BY <1>1, <1>a, <1>b, Constants DEF IInv, IndexTells, HeldOnce, ThreadTypes, SearchedHere,
     StatusTells
<1>10. StopsOnlyTerminated'
  BY <1>1, <1>a, <1>b, Constants DEF IInv, StopsOnlyTerminated, Quitting, Searching, HeldOnce,
     StatusTells
<1>11. AnsweredInTurn'
  BY <1>1, <1>a, <1>b, Constants DEF IInv, AnsweredInTurn, Unanswered, NoAnswerYet, MainOwes,
     ThreadOwes, HeldOnce, AnswerOwed, StatusTells
<1>12. QueueInOrder'
  BY <1>1, <1>a, <1>b, Constants DEF IInv, QueueInOrder, QueuedOnce
<1>13. NoOvertaking'
  BY <1>1, <1>a, <1>b, Constants DEF IInv, NoOvertaking
<1> QED
  BY <1>2, <1>3, <1>4, <1>5, <1>6, <1>7, <1>8, <1>9, <1>10, <1>11, <1>12, <1>13 DEF IInv

LEMMA ReadTerminateKeeps ==
  ASSUME IInv, ReadTerminate
  PROVE  IInv'
<1>1. UNCHANGED <<quitWithoutWaiting, target, internalIdCounter, numRequestsSoFar, request,
   status, openRequests, freed, toAnalyzeQueue, analyzeReadOnly, toWriteQueue, writeReadOnly,
   threadPc, job, shouldStopNow, isKilled, hasRoot, writerPc, printed>>
  BY DEF ReadTerminate, counters, requestVars, analyzeVars, writeVars, botVars, threadVars,
     writerVars, apiVars
<1>a. apiPc = "read" /\ apiPc' = "terminate" /\ todo' \subseteq openRequests
      /\ openRequests \subseteq InternalIds
  BY Constants DEF ReadTerminate, IInv, RequestTypes, ApiTypes, InternalIds
<1>2. RequestTypes' /\ ThreadTypes' /\ WriteTypes' /\ HeldOnce' /\ AnsweredOnce' /\
   ReportsFirst'
  BY <1>1 DEF IInv, RequestTypes, ThreadTypes, WriteTypes, HeldOnce, AnsweredOnce, ReportsFirst
<1>3. NoOvertaking'
  BY <1>1 DEF IInv, NoOvertaking
<1>4. ApiTypes'
  BY <1>1, <1>a DEF IInv, ApiTypes, ApiPcs
<1>5. QuitsLast'
  BY <1>1, <1>a DEF IInv, QuitsLast, Quitting
<1>6. QueuedOnce'
  BY <1>1, <1>a DEF IInv, QueuedOnce, HeldOnce
<1>7. Terminated'
  BY <1>1, <1>a DEF IInv, Terminated, Terminating
<1>8. StatusTells'
  BY <1>1, <1>a DEF IInv, StatusTells, HeldOnce, ThreadTypes
<1>9. IndexTells'
  BY <1>1, <1>a DEF IInv, IndexTells, HeldOnce, ThreadTypes, SearchedHere, StatusTells
<1>10. StopsOnlyTerminated'
  BY <1>1, <1>a DEF IInv, StopsOnlyTerminated, Quitting, Searching, HeldOnce, StatusTells
<1>11. AnsweredInTurn'
  BY <1>1, <1>a DEF IInv, AnsweredInTurn, Unanswered, NoAnswerYet, MainOwes, ThreadOwes,
     HeldOnce, AnswerOwed, StatusTells
<1>12. QueueInOrder'
  BY <1>1, <1>a DEF IInv, QueueInOrder, QueuedOnce
<1> QED
  BY <1>2, <1>3, <1>4, <1>5, <1>6, <1>7, <1>8, <1>9, <1>10, <1>11, <1>12 DEF IInv

LEMMA TerminateRequestKeeps ==
  ASSUME IInv, TerminateRequest
  PROVE  IInv'
<1>1. UNCHANGED <<quitWithoutWaiting, internalIdCounter, numRequestsSoFar, others, request,
   openRequests, freed, toAnalyzeQueue, analyzeReadOnly, toWriteQueue, writeReadOnly, threadPc,
   job, shouldStopNow, isKilled, hasRoot, writerPc, printed>>
  BY DEF TerminateRequest, counters, requestVars, analyzeVars, writeVars, botVars, threadVars,
     writerVars, apiVars
<1>a. PICK r \in todo :
        /\ target' = <<r, status[r]>>
        /\ status' = [status EXCEPT ![r] = STATUS_TERMINATED]
        /\ todo' = todo \ {r}
        /\ apiPc = "terminate" /\ apiPc' = "act"
  <2>1. todo \in SUBSET Nat /\ todo # {}
    BY Constants DEF TerminateRequest, IInv, ApiTypes
  <2> QED
    BY <2>1, MinFound DEF TerminateRequest
<1>b. /\ r \in InternalIds /\ r \in openRequests /\ status[r] \in Statuses
      /\ target'[1] = r /\ target'[2] = status[r]
      /\ todo' \subseteq openRequests /\ todo' \subseteq InternalIds
      /\ status' \in [InternalIds -> Statuses] /\ status'[r] = STATUS_TERMINATED
      /\ \A s \in InternalIds \ {r} : status'[s] = status[s]
      /\ openRequests \subseteq InternalIds
      /\ \A t \in Threads : threadPc[t] \notin {"pop", "exited", "delete"} => job[t] \in InternalIds
      /\ \A x \in toAnalyzeQueue : x[2] \in InternalIds
  <2>1. todo \subseteq openRequests /\ todo \subseteq InternalIds
    BY <1>a DEF IInv, ApiTypes, Terminated, Terminating
  <2>2. r \in InternalIds /\ status \in [InternalIds -> Statuses]
    BY <1>a, <2>1 DEF IInv, RequestTypes
  <2>3. /\ status' \in [InternalIds -> Statuses] /\ status'[r] = STATUS_TERMINATED
        /\ \A s \in InternalIds \ {r} : status'[s] = status[s]
    BY <1>a, <2>2 DEF Statuses
  <2> QED
    BY <1>a, <2>1, <2>2, <2>3, Places
<1>2. ThreadTypes' /\ WriteTypes' /\ HeldOnce' /\ AnsweredOnce' /\ ReportsFirst' /\
   NoOvertaking'
  BY <1>1 DEF IInv, ThreadTypes, WriteTypes, HeldOnce, AnsweredOnce, ReportsFirst, NoOvertaking
<1>3. ApiTypes'
  BY <1>1, <1>a, <1>b, Constants DEF IInv, ApiTypes, ApiPcs
<1>4. RequestTypes'
  BY <1>1, <1>a, <1>b, Constants DEF IInv, RequestTypes, Statuses
<1>5. QuitsLast'
  BY <1>1, <1>a, <1>b, Constants DEF IInv, QuitsLast, Quitting
<1>6. QueuedOnce'
  BY <1>1, <1>a, <1>b, Constants DEF IInv, QueuedOnce, HeldOnce
<1>7. Terminated'
  BY <1>1, <1>a, <1>b, Constants DEF IInv, Terminated, Terminating
<1>8. StatusTells'
  BY <1>1, <1>a, <1>b, Constants DEF IInv, StatusTells, HeldOnce, ThreadTypes
<1>9. IndexTells'
  BY <1>1, <1>a, <1>b, Constants DEF IInv, IndexTells, HeldOnce, ThreadTypes, SearchedHere,
     StatusTells
<1>10. StopsOnlyTerminated'
  BY <1>1, <1>a, <1>b, Constants DEF IInv, StopsOnlyTerminated, Quitting, Searching, HeldOnce,
     StatusTells
<1>11. AnsweredInTurn'
  BY <1>1, <1>a, <1>b, Constants DEF IInv, AnsweredInTurn, Unanswered, NoAnswerYet, MainOwes,
     ThreadOwes, HeldOnce, AnswerOwed, StatusTells
<1>12. QueueInOrder'
  BY <1>1, <1>a, <1>b, Constants DEF IInv, QueueInOrder, QueuedOnce
<1> QED
  BY <1>2, <1>3, <1>4, <1>5, <1>6, <1>7, <1>8, <1>9, <1>10, <1>11, <1>12 DEF IInv

LEMMA ActOnTerminateKeeps ==
  ASSUME IInv, ActOnTerminate
  PROVE  IInv'
<1>1. UNCHANGED <<quitWithoutWaiting, todo, internalIdCounter, numRequestsSoFar, others,
   request, status, openRequests, freed, toAnalyzeQueue, analyzeReadOnly, threadPc, job,
   isKilled, hasRoot, writerPc, printed>>
  BY DEF ActOnTerminate, counters, requestVars, analyzeVars, writeVars, botVars, threadVars,
     writerVars, apiVars
<1>a. /\ apiPc = "act" /\ apiPc' = "terminate" /\ target' = NoTarget
      /\ target[1] \in InternalIds /\ target[1] \in openRequests
      /\ target = <<target[1], target[2]>> /\ target[2] \in Statuses
      /\ status[target[1]] = STATUS_TERMINATED
      /\ IF target[2] = STATUS_IN_QUEUE
         THEN PushToWrite(Message("noResults", target[1])) ELSE UNCHANGED writeVars
      /\ IF target[2] \in Threads
         THEN shouldStopNow' = [shouldStopNow EXCEPT ![target[2]] = TRUE]
         ELSE UNCHANGED shouldStopNow
  BY Constants DEF ActOnTerminate, AnswersInPlaceOf, IInv, ApiTypes, RequestTypes, Terminated,
     InternalIds
<1>b. target[2] = STATUS_IN_QUEUE => MainOwes(target[1]) /\ NoAnswerYet(target[1])
  BY <1>a DEF IInv, AnsweredInTurn, Unanswered, MainOwes
<1>c. /\ WriteTypes' /\ AnsweredOnce' /\ ReportsFirst'
      /\ \A s \in InternalIds : NoAnswerYet(s) /\ ~MainOwes(s) => NoAnswerYet(s)'
  <2>1. CASE target[2] = STATUS_IN_QUEUE
    BY <1>1, <1>a, <1>b, <2>1, AnswerPushed DEF IInv
  <2>2. CASE target[2] # STATUS_IN_QUEUE
    <3>1. UNCHANGED <<toWriteQueue, writeReadOnly>>
      BY <1>a, <2>2 DEF writeVars
    <3> QED
      BY <1>1, <3>1 DEF IInv, WriteTypes, AnsweredOnce, ReportsFirst, NoAnswerYet
  <2> QED
    BY <2>1, <2>2
<1>2. RequestTypes' /\ HeldOnce' /\ NoOvertaking'
  BY <1>1 DEF IInv, RequestTypes, HeldOnce, NoOvertaking
<1>3. ApiTypes'
  BY <1>1, <1>a, Constants DEF IInv, ApiTypes, ApiPcs, NoTarget, Statuses
<1>4. ThreadTypes'
  BY <1>1 DEF IInv, ActOnTerminate, ThreadTypes, ThreadPcs, ApiTypes, RequestTypes
<1>5. WriteTypes'
  BY <1>c
<1>6. QuitsLast'
  BY <1>1 DEF IInv, ActOnTerminate, QuitsLast, Quitting
<1>7. QueuedOnce'
  BY <1>1 DEF IInv, ActOnTerminate, QueuedOnce, HeldOnce, ApiTypes
<1>8. Terminated'
  BY <1>1 DEF IInv, ActOnTerminate, Terminated, Terminating, ApiTypes
<1>9. StatusTells'
  BY <1>1 DEF IInv, ActOnTerminate, StatusTells, HeldOnce, ThreadTypes, RequestTypes
<1>10. IndexTells'
  BY <1>1 DEF IInv, ActOnTerminate, IndexTells, HeldOnce, ThreadTypes, RequestTypes,
     SearchedHere
<1>11. StopsOnlyTerminated'
  BY <1>1, <1>a DEF IInv, StopsOnlyTerminated, Searching, IndexTells, ThreadTypes, Quitting
<1>12. AnsweredInTurn'
  <2>1. \A s \in InternalIds : ~MainOwes(s)' /\ (ThreadOwes(s)' => ThreadOwes(s))
    BY <1>1, <1>a DEF MainOwes, ThreadOwes
  <2>2. \A s \in InternalIds : Unanswered(s)' => Unanswered(s) /\ ~MainOwes(s)
    <3> SUFFICES ASSUME NEW s \in InternalIds, Unanswered(s)' PROVE Unanswered(s) /\ ~MainOwes(s)
      OBVIOUS
    <3>1. CASE s = target[1]
      BY <1>1, <1>a, <2>1, <3>1, Constants DEF Unanswered, IInv, AnsweredInTurn,
         RequestTypes, ApiTypes
    <3>2. CASE s # target[1]
      BY <1>1, <1>a, <2>1, <3>2 DEF Unanswered, MainOwes
    <3> QED
      BY <3>1, <3>2
  <2> QED
    BY <1>c, <2>1, <2>2 DEF IInv, AnsweredInTurn
<1>13. AnsweredOnce'
  BY <1>c
<1>14. ReportsFirst'
  BY <1>c
<1>15. QueueInOrder'
  BY <1>1 DEF IInv, ActOnTerminate, QueueInOrder, QueuedOnce
<1> QED
  BY <1>2, <1>3, <1>4, <1>5, <1>6, <1>7, <1>8, <1>9, <1>10, <1>11, <1>12, <1>13, <1>14, <1>15
     DEF IInv

LEMMA EchoTerminateKeeps ==
  ASSUME IInv, EchoTerminate
  PROVE  IInv'
<1>1. UNCHANGED <<quitWithoutWaiting, todo, target, internalIdCounter, numRequestsSoFar, others,
   request, status, openRequests, freed, toAnalyzeQueue, analyzeReadOnly, threadPc, job,
   shouldStopNow, isKilled, hasRoot, writerPc, printed>>
  BY DEF EchoTerminate, counters, requestVars, analyzeVars, writeVars, botVars, threadVars,
     writerVars, apiVars
<1>a. apiPc = "terminate" /\ apiPc' = "read"
  BY DEF EchoTerminate
<1>c. /\ WriteTypes' /\ AnsweredOnce' /\ ReportsFirst'
      /\ \A s \in InternalIds : NoAnswerYet(s) => NoAnswerYet(s)'
  <2>1. /\ Message("other", -1) \in Messages /\ ~Final(Message("other", -1))
        /\ Message("other", -1).kind # "duringSearch"
    BY DEF Messages, Message, Final
  <2> QED
    BY <1>1, <2>1, LinePushed DEF IInv, EchoTerminate
<1>2. RequestTypes' /\ ThreadTypes' /\ HeldOnce' /\ NoOvertaking'
  BY <1>1 DEF IInv, RequestTypes, ThreadTypes, HeldOnce, NoOvertaking
<1>3. ApiTypes'
  BY <1>1 DEF IInv, EchoTerminate, ApiTypes, ApiPcs
<1>4. WriteTypes'
  BY <1>c
<1>5. QuitsLast'
  BY <1>1 DEF IInv, EchoTerminate, QuitsLast, Quitting
<1>6. QueuedOnce'
  BY <1>1 DEF IInv, EchoTerminate, QueuedOnce, HeldOnce, ApiTypes
<1>7. Terminated'
  BY <1>1 DEF IInv, EchoTerminate, Terminated, Terminating, ApiTypes
<1>8. StatusTells'
  BY <1>1 DEF IInv, EchoTerminate, StatusTells, HeldOnce, ThreadTypes, RequestTypes
<1>9. IndexTells'
  BY <1>1 DEF IInv, EchoTerminate, IndexTells, HeldOnce, ThreadTypes, RequestTypes, SearchedHere
<1>10. StopsOnlyTerminated'
  BY <1>1 DEF IInv, EchoTerminate, StopsOnlyTerminated, Quitting, Searching, HeldOnce,
     ThreadTypes
<1>11. AnsweredInTurn'
  BY <1>1, <1>a, <1>c DEF IInv, AnsweredInTurn, Unanswered, MainOwes, ThreadOwes
<1>12. AnsweredOnce'
  BY <1>c
<1>13. ReportsFirst'
  BY <1>c
<1>14. QueueInOrder'
  BY <1>1 DEF IInv, EchoTerminate, QueueInOrder, QueuedOnce
<1> QED
  BY <1>2, <1>3, <1>4, <1>5, <1>6, <1>7, <1>8, <1>9, <1>10, <1>11, <1>12, <1>13, <1>14 DEF IInv

-----------------------------------------------------------------------------
(* The main thread quits                                                   *)

LEMMA EndOfInputKeeps ==
  ASSUME IInv, EndOfInput
  PROVE  IInv'
<1>1. UNCHANGED <<todo, target, internalIdCounter, numRequestsSoFar, others, request, status,
   openRequests, freed, toAnalyzeQueue, analyzeReadOnly, toWriteQueue, writeReadOnly, threadPc,
   job, shouldStopNow, isKilled, hasRoot, writerPc, printed>>
  BY DEF EndOfInput, counters, requestVars, analyzeVars, writeVars, botVars, threadVars,
     writerVars, apiVars
<1>a. apiPc = "read" /\ apiPc' \in {"closeWrite", "closeAnalyze"}
      /\ quitWithoutWaiting' \in BOOLEAN
  BY DEF EndOfInput, FirstClosed
<1>2. RequestTypes' /\ ThreadTypes' /\ WriteTypes' /\ HeldOnce' /\ AnsweredOnce' /\
   ReportsFirst'
  BY <1>1 DEF IInv, RequestTypes, ThreadTypes, WriteTypes, HeldOnce, AnsweredOnce, ReportsFirst
<1>3. NoOvertaking'
  BY <1>1 DEF IInv, NoOvertaking
<1>4. ApiTypes'
  BY <1>1, <1>a DEF IInv, ApiTypes, ApiPcs
<1>5. QuitsLast'
  BY <1>1, <1>a DEF IInv, QuitsLast, Quitting
<1>6. QueuedOnce'
  BY <1>1, <1>a DEF IInv, QueuedOnce, HeldOnce
<1>7. Terminated'
  BY <1>1, <1>a DEF IInv, Terminated, Terminating
<1>8. StatusTells'
  BY <1>1, <1>a DEF IInv, StatusTells, HeldOnce, ThreadTypes
<1>9. IndexTells'
  BY <1>1, <1>a DEF IInv, IndexTells, HeldOnce, ThreadTypes, SearchedHere, StatusTells
<1>10. StopsOnlyTerminated'
  BY <1>1, <1>a DEF IInv, StopsOnlyTerminated, Quitting, Searching, HeldOnce, StatusTells
<1>11. AnsweredInTurn'
  BY <1>1, <1>a DEF IInv, AnsweredInTurn, Unanswered, NoAnswerYet, MainOwes, ThreadOwes,
     HeldOnce, AnswerOwed, StatusTells
<1>12. QueueInOrder'
  BY <1>1, <1>a DEF IInv, QueueInOrder, QueuedOnce
<1> QED
  BY <1>2, <1>3, <1>4, <1>5, <1>6, <1>7, <1>8, <1>9, <1>10, <1>11, <1>12 DEF IInv

LEMMA CloseWriteQueueKeeps ==
  ASSUME IInv, CloseWriteQueue
  PROVE  IInv'
<1>1. UNCHANGED <<quitWithoutWaiting, todo, target, internalIdCounter, numRequestsSoFar, others,
   request, status, openRequests, freed, toAnalyzeQueue, analyzeReadOnly, toWriteQueue,
   threadPc, job, shouldStopNow, isKilled, hasRoot, writerPc, printed>>
  BY DEF CloseWriteQueue, counters, requestVars, analyzeVars, writeVars, botVars, threadVars,
     writerVars, apiVars
<1>2. RequestTypes' /\ ThreadTypes' /\ HeldOnce' /\ AnsweredOnce' /\ ReportsFirst' /\
   NoOvertaking'
  BY <1>1 DEF IInv, RequestTypes, ThreadTypes, HeldOnce, AnsweredOnce, ReportsFirst,
     NoOvertaking
<1>3. ApiTypes'
  BY <1>1 DEF IInv, CloseWriteQueue, ApiTypes, ApiPcs
<1>4. WriteTypes'
  BY <1>1 DEF IInv, CloseWriteQueue, WriteTypes
<1>5. QuitsLast'
  BY <1>1 DEF IInv, CloseWriteQueue, QuitsLast, Quitting
<1>6. QueuedOnce'
  BY <1>1 DEF IInv, CloseWriteQueue, QueuedOnce, HeldOnce, ApiTypes
<1>7. Terminated'
  BY <1>1 DEF IInv, CloseWriteQueue, Terminated, Terminating, ApiTypes
<1>8. StatusTells'
  BY <1>1 DEF IInv, CloseWriteQueue, StatusTells, HeldOnce, ThreadTypes, RequestTypes
<1>9. IndexTells'
  BY <1>1 DEF IInv, CloseWriteQueue, IndexTells, HeldOnce, ThreadTypes, RequestTypes,
     SearchedHere
<1>10. StopsOnlyTerminated'
  BY <1>1 DEF IInv, CloseWriteQueue, StopsOnlyTerminated, Quitting, Searching, HeldOnce,
     ThreadTypes
<1>11. AnsweredInTurn'
  BY <1>1 DEF IInv, CloseWriteQueue, AnsweredInTurn, Unanswered, NoAnswerYet, MainOwes,
     ThreadOwes, HeldOnce, ThreadTypes, AnswerOwed
<1>12. QueueInOrder'
  BY <1>1 DEF IInv, CloseWriteQueue, QueueInOrder, QueuedOnce
<1> QED
  BY <1>2, <1>3, <1>4, <1>5, <1>6, <1>7, <1>8, <1>9, <1>10, <1>11, <1>12 DEF IInv

LEMMA CloseAnalyzeQueueKeeps ==
  ASSUME IInv, CloseAnalyzeQueue
  PROVE  IInv'
<1>1. UNCHANGED <<quitWithoutWaiting, target, internalIdCounter, numRequestsSoFar, others,
   request, status, openRequests, freed, toAnalyzeQueue, toWriteQueue, writeReadOnly, threadPc,
   job, shouldStopNow, isKilled, hasRoot, writerPc, printed>>
  BY DEF CloseAnalyzeQueue, counters, requestVars, analyzeVars, writeVars, botVars, threadVars,
     writerVars, apiVars
<1>2. ThreadTypes' /\ WriteTypes' /\ HeldOnce' /\ AnsweredOnce' /\ ReportsFirst' /\
   NoOvertaking'
  BY <1>1 DEF IInv, ThreadTypes, WriteTypes, HeldOnce, AnsweredOnce, ReportsFirst, NoOvertaking
<1>3. ApiTypes'
  BY <1>1, Constants DEF IInv, CloseAnalyzeQueue, ApiTypes, ApiPcs
<1>4. RequestTypes'
  BY <1>1, Constants DEF IInv, CloseAnalyzeQueue, RequestTypes, ApiTypes
<1>5. QuitsLast'
  BY <1>1, Constants DEF IInv, CloseAnalyzeQueue, QuitsLast, Quitting
<1>6. QueuedOnce'
  BY <1>1, Constants DEF IInv, CloseAnalyzeQueue, QueuedOnce, HeldOnce, ApiTypes
<1>7. Terminated'
  BY <1>1, Constants DEF IInv, CloseAnalyzeQueue, Terminated, Terminating, ApiTypes
<1>8. StatusTells'
  BY <1>1, Constants DEF IInv, CloseAnalyzeQueue, StatusTells, HeldOnce, ThreadTypes,
     RequestTypes
<1>9. IndexTells'
  BY <1>1, Constants DEF IInv, CloseAnalyzeQueue, IndexTells, HeldOnce, ThreadTypes,
     RequestTypes, SearchedHere
<1>10. StopsOnlyTerminated'
  BY <1>1, Constants DEF IInv, CloseAnalyzeQueue, StopsOnlyTerminated, Quitting, Searching,
     HeldOnce, ThreadTypes
<1>11. AnsweredInTurn'
  BY <1>1, Constants DEF IInv, CloseAnalyzeQueue, AnsweredInTurn, Unanswered, NoAnswerYet,
     MainOwes, ThreadOwes, HeldOnce, ThreadTypes, AnswerOwed
<1>12. QueueInOrder'
  BY <1>1, Constants DEF IInv, CloseAnalyzeQueue, QueueInOrder, QueuedOnce
<1> QED
  BY <1>2, <1>3, <1>4, <1>5, <1>6, <1>7, <1>8, <1>9, <1>10, <1>11, <1>12 DEF IInv

LEMMA StopBotKeeps ==
  ASSUME IInv, StopBot
  PROVE  IInv'
<1>1. UNCHANGED <<quitWithoutWaiting, target, internalIdCounter, numRequestsSoFar, others,
   request, status, openRequests, freed, toAnalyzeQueue, analyzeReadOnly, toWriteQueue,
   writeReadOnly, threadPc, job, isKilled, hasRoot, writerPc, printed>>
  BY DEF StopBot, counters, requestVars, analyzeVars, writeVars, botVars, threadVars,
     writerVars, apiVars
<1>2. RequestTypes' /\ WriteTypes' /\ HeldOnce' /\ AnsweredOnce' /\ ReportsFirst' /\
   NoOvertaking'
  BY <1>1 DEF IInv, RequestTypes, WriteTypes, HeldOnce, AnsweredOnce, ReportsFirst, NoOvertaking
<1>3. ApiTypes'
  BY <1>1 DEF IInv, StopBot, ApiTypes, ApiPcs
<1>4. ThreadTypes'
  BY <1>1 DEF IInv, StopBot, ThreadTypes, ThreadPcs, ApiTypes, RequestTypes
<1>5. QuitsLast'
  BY <1>1 DEF IInv, StopBot, QuitsLast, Quitting
<1>6. QueuedOnce'
  BY <1>1 DEF IInv, StopBot, QueuedOnce, HeldOnce, ApiTypes
<1>7. Terminated'
  BY <1>1 DEF IInv, StopBot, Terminated, Terminating, ApiTypes
<1>8. StatusTells'
  BY <1>1 DEF IInv, StopBot, StatusTells, HeldOnce, ThreadTypes, RequestTypes
<1>9. IndexTells'
  BY <1>1 DEF IInv, StopBot, IndexTells, HeldOnce, ThreadTypes, RequestTypes, SearchedHere
<1>10. StopsOnlyTerminated'
  BY <1>1 DEF IInv, StopBot, StopsOnlyTerminated, Quitting, Searching, HeldOnce, ThreadTypes
<1>11. AnsweredInTurn'
  BY <1>1 DEF IInv, StopBot, AnsweredInTurn, Unanswered, NoAnswerYet, MainOwes, ThreadOwes,
     HeldOnce, ThreadTypes, AnswerOwed
<1>12. QueueInOrder'
  BY <1>1 DEF IInv, StopBot, QueueInOrder, QueuedOnce
<1> QED
  BY <1>2, <1>3, <1>4, <1>5, <1>6, <1>7, <1>8, <1>9, <1>10, <1>11, <1>12 DEF IInv

LEMMA KillBotKeeps ==
  ASSUME IInv, KillBot
  PROVE  IInv'
<1>1. UNCHANGED <<quitWithoutWaiting, target, internalIdCounter, numRequestsSoFar, others,
   request, status, openRequests, freed, toAnalyzeQueue, analyzeReadOnly, toWriteQueue,
   writeReadOnly, threadPc, job, hasRoot, writerPc, printed>>
  BY DEF KillBot, counters, requestVars, analyzeVars, writeVars, botVars, threadVars,
     writerVars, apiVars
<1>2. RequestTypes' /\ WriteTypes' /\ HeldOnce' /\ AnsweredOnce' /\ ReportsFirst' /\
   NoOvertaking'
  BY <1>1 DEF IInv, RequestTypes, WriteTypes, HeldOnce, AnsweredOnce, ReportsFirst, NoOvertaking
<1>3. ApiTypes'
  BY <1>1 DEF IInv, KillBot, ApiTypes, ApiPcs, FlagWhenKilled
<1>4. ThreadTypes'
  BY <1>1 DEF IInv, KillBot, ThreadTypes, ThreadPcs, ApiTypes, RequestTypes, FlagWhenKilled
<1>5. QuitsLast'
  BY <1>1 DEF IInv, KillBot, QuitsLast, Quitting, FlagWhenKilled
<1>6. QueuedOnce'
  BY <1>1 DEF IInv, KillBot, QueuedOnce, HeldOnce, ApiTypes, FlagWhenKilled
<1>7. Terminated'
  BY <1>1 DEF IInv, KillBot, Terminated, Terminating, ApiTypes, FlagWhenKilled
<1>8. StatusTells'
  BY <1>1 DEF IInv, KillBot, StatusTells, HeldOnce, ThreadTypes, RequestTypes, FlagWhenKilled
<1>9. IndexTells'
  BY <1>1 DEF IInv, KillBot, IndexTells, HeldOnce, ThreadTypes, RequestTypes, SearchedHere,
     FlagWhenKilled
<1>10. StopsOnlyTerminated'
  BY <1>1 DEF IInv, KillBot, StopsOnlyTerminated, Quitting, Searching, HeldOnce, ThreadTypes,
     FlagWhenKilled
<1>11. AnsweredInTurn'
  BY <1>1 DEF IInv, KillBot, AnsweredInTurn, Unanswered, NoAnswerYet, MainOwes, ThreadOwes,
     HeldOnce, ThreadTypes, AnswerOwed, FlagWhenKilled
<1>12. QueueInOrder'
  BY <1>1 DEF IInv, KillBot, QueueInOrder, QueuedOnce, FlagWhenKilled
<1> QED
  BY <1>2, <1>3, <1>4, <1>5, <1>6, <1>7, <1>8, <1>9, <1>10, <1>11, <1>12 DEF IInv

LEMMA JoinThreadsKeeps ==
  ASSUME IInv, JoinThreads
  PROVE  IInv'
<1>1. UNCHANGED <<quitWithoutWaiting, todo, target, internalIdCounter, numRequestsSoFar, others,
   request, status, openRequests, freed, toAnalyzeQueue, analyzeReadOnly, toWriteQueue,
   writeReadOnly, threadPc, job, shouldStopNow, isKilled, hasRoot, writerPc, printed>>
  BY DEF JoinThreads, counters, requestVars, analyzeVars, writeVars, botVars, threadVars,
     writerVars, apiVars
<1>2. RequestTypes' /\ ThreadTypes' /\ WriteTypes' /\ HeldOnce' /\ AnsweredOnce' /\
   ReportsFirst'
  BY <1>1 DEF IInv, RequestTypes, ThreadTypes, WriteTypes, HeldOnce, AnsweredOnce, ReportsFirst
<1>3. NoOvertaking'
  BY <1>1 DEF IInv, NoOvertaking
<1>4. ApiTypes'
  BY <1>1 DEF IInv, JoinThreads, ApiTypes, ApiPcs
<1>5. QuitsLast'
  BY <1>1 DEF IInv, JoinThreads, QuitsLast, Quitting
<1>6. QueuedOnce'
  BY <1>1 DEF IInv, JoinThreads, QueuedOnce, HeldOnce, ApiTypes
<1>7. Terminated'
  BY <1>1 DEF IInv, JoinThreads, Terminated, Terminating, ApiTypes
<1>8. StatusTells'
  BY <1>1 DEF IInv, JoinThreads, StatusTells, HeldOnce, ThreadTypes, RequestTypes
<1>9. IndexTells'
  BY <1>1 DEF IInv, JoinThreads, IndexTells, HeldOnce, ThreadTypes, RequestTypes, SearchedHere
<1>10. StopsOnlyTerminated'
  BY <1>1 DEF IInv, JoinThreads, StopsOnlyTerminated, Quitting, Searching, HeldOnce, ThreadTypes
<1>11. AnsweredInTurn'
  BY <1>1 DEF IInv, JoinThreads, AnsweredInTurn, Unanswered, NoAnswerYet, MainOwes, ThreadOwes,
     HeldOnce, ThreadTypes, AnswerOwed
<1>12. QueueInOrder'
  BY <1>1 DEF IInv, JoinThreads, QueueInOrder, QueuedOnce
<1> QED
  BY <1>2, <1>3, <1>4, <1>5, <1>6, <1>7, <1>8, <1>9, <1>10, <1>11, <1>12 DEF IInv

LEMMA JoinWriterKeeps ==
  ASSUME IInv, JoinWriter
  PROVE  IInv'
<1>1. UNCHANGED <<quitWithoutWaiting, todo, target, internalIdCounter, numRequestsSoFar, others,
   request, status, openRequests, freed, toAnalyzeQueue, analyzeReadOnly, toWriteQueue,
   writeReadOnly, threadPc, job, shouldStopNow, isKilled, hasRoot, writerPc, printed>>
  BY DEF JoinWriter, counters, requestVars, analyzeVars, writeVars, botVars, threadVars,
     writerVars, apiVars
<1>2. RequestTypes' /\ ThreadTypes' /\ WriteTypes' /\ HeldOnce' /\ AnsweredOnce' /\
   ReportsFirst'
  BY <1>1 DEF IInv, RequestTypes, ThreadTypes, WriteTypes, HeldOnce, AnsweredOnce, ReportsFirst
<1>3. NoOvertaking'
  BY <1>1 DEF IInv, NoOvertaking
<1>4. ApiTypes'
  BY <1>1 DEF IInv, JoinWriter, ApiTypes, ApiPcs
<1>5. QuitsLast'
  BY <1>1 DEF IInv, JoinWriter, QuitsLast, Quitting
<1>6. QueuedOnce'
  BY <1>1 DEF IInv, JoinWriter, QueuedOnce, HeldOnce, ApiTypes
<1>7. Terminated'
  BY <1>1 DEF IInv, JoinWriter, Terminated, Terminating, ApiTypes
<1>8. StatusTells'
  BY <1>1 DEF IInv, JoinWriter, StatusTells, HeldOnce, ThreadTypes, RequestTypes
<1>9. IndexTells'
  BY <1>1 DEF IInv, JoinWriter, IndexTells, HeldOnce, ThreadTypes, RequestTypes, SearchedHere
<1>10. StopsOnlyTerminated'
  BY <1>1 DEF IInv, JoinWriter, StopsOnlyTerminated, Quitting, Searching, HeldOnce, ThreadTypes
<1>11. AnsweredInTurn'
  BY <1>1 DEF IInv, JoinWriter, AnsweredInTurn, Unanswered, NoAnswerYet, MainOwes, ThreadOwes,
     HeldOnce, ThreadTypes, AnswerOwed
<1>12. QueueInOrder'
  BY <1>1 DEF IInv, JoinWriter, QueueInOrder, QueuedOnce
<1> QED
  BY <1>2, <1>3, <1>4, <1>5, <1>6, <1>7, <1>8, <1>9, <1>10, <1>11, <1>12 DEF IInv

-----------------------------------------------------------------------------
(* An analysis thread                                                      *)

LEMMA PopRequestKeeps ==
  ASSUME IInv, NEW t \in Threads, PopRequest(t)
  PROVE  IInv'
<1>1. UNCHANGED <<quitWithoutWaiting, apiPc, todo, target, internalIdCounter, numRequestsSoFar,
   others, request, status, openRequests, freed, analyzeReadOnly, toWriteQueue, writeReadOnly,
   shouldStopNow, isKilled, hasRoot, writerPc, printed>>
  BY DEF PopRequest, counters, requestVars, analyzeVars, writeVars, botVars, threadVars,
     writerVars, apiVars, Goto
<1>a. PICK top \in toAnalyzeQueue :
        /\ \A x \in toAnalyzeQueue : Before(top, x)
        /\ toAnalyzeQueue' = toAnalyzeQueue \ {top}
        /\ job' = [job EXCEPT ![t] = top[2]]
  BY DEF PopRequest
<1>b. /\ threadPc[t] = "pop" /\ job[t] = -1
      /\ job'[t] = top[2] /\ threadPc'[t] = "claim"
      /\ \A u \in Threads \ {t} : job'[u] = job[u] /\ threadPc'[u] = threadPc[u]
      /\ job' \in [Threads -> InternalIds \cup {-1}] /\ threadPc' \in [Threads -> ThreadPcs]
      /\ top[2] \in openRequests /\ top[2] \in Nat /\ top[2] < internalIdCounter
      /\ \A u \in Threads : job[u] # top[2]
      /\ top[2] # -1
  <2>1. /\ threadPc[t] = "pop" /\ threadPc' = [threadPc EXCEPT ![t] = "claim"]
        /\ job[t] = -1 /\ top \in (Int \X Int) \X InternalIds /\ top[2] \in openRequests
        /\ \A u \in Threads : job[u] # top[2]
    BY <1>a DEF PopRequest, Goto, IInv, HeldOnce, QueuedOnce, RequestTypes
  <2>2. top[2] \in Nat /\ top[2] < internalIdCounter
    BY <1>a, Places
  <2>3. job' \in [Threads -> InternalIds \cup {-1}] /\ threadPc' \in [Threads -> ThreadPcs]
    BY <1>a, <2>1 DEF IInv, ThreadTypes, ThreadPcs
  <2> QED
    BY <1>a, <2>1, <2>2, <2>3 DEF IInv, ThreadTypes
<1>2. ApiTypes' /\ WriteTypes' /\ QuitsLast' /\ Terminated' /\ AnsweredOnce' /\ ReportsFirst'
  BY <1>1 DEF IInv, ApiTypes, WriteTypes, QuitsLast, Terminated, AnsweredOnce, ReportsFirst,
     Quitting, Terminating
<1>3. RequestTypes'
  BY <1>1, <1>a, <1>b, Constants DEF IInv, RequestTypes, Statuses
<1>4. ThreadTypes'
  BY <1>1, <1>a, <1>b, Constants DEF IInv, ThreadTypes, ThreadPcs
<1>5. QueuedOnce'
  BY <1>1, <1>a, <1>b, Constants DEF IInv, QueuedOnce, HeldOnce
<1>6. HeldOnce'
  BY <1>1, <1>a, <1>b, Constants DEF IInv, HeldOnce
<1>7. StatusTells'
  BY <1>1, <1>a, <1>b, Constants DEF IInv, StatusTells, HeldOnce, ThreadTypes
<1>8. IndexTells'
  <2>1. \A u \in Threads : threadPc[u] \in SearchedHere =>
          job'[u] = job[u] /\ threadPc'[u] = threadPc[u]
    BY <1>b DEF SearchedHere
  <2> QED
    BY <1>1, <2>1, Constants DEF IInv, IndexTells, RequestTypes
<1>9. StopsOnlyTerminated'
  BY <1>1, <1>a, <1>b, Constants DEF IInv, StopsOnlyTerminated, Quitting, Searching, HeldOnce,
     StatusTells
<1>10. AnsweredInTurn'
  <2>1. \A s \in InternalIds : ThreadOwes(s)' => ThreadOwes(s)
    BY <1>b DEF ThreadOwes, AnswerOwed
  <2>2. \A s \in InternalIds : Unanswered(s)' => Unanswered(s)
    BY <1>1, <2>1 DEF Unanswered, MainOwes
  <2>3. \A s \in InternalIds : MainOwes(s)' => MainOwes(s)
    BY <1>1 DEF MainOwes
  <2> QED
    BY <1>1, <2>1, <2>2, <2>3 DEF IInv, AnsweredInTurn, NoAnswerYet
<1>11. QueueInOrder'
  <2>1. request[top[2]].priority \in Int
    <3>1. request[top[2]].priority = top[1][1]
      BY <1>a DEF IInv, QueueInOrder
    <3> QED
      BY <1>a, <3>1, Places
  <2>2. toAnalyzeQueue' \subseteq toAnalyzeQueue
    BY <1>a
  <2>3. \A u \in Threads : job'[u] = job[u] \/ job'[u] = top[2]
    BY <1>b
  <2> QED
    BY <1>1, <2>1, <2>2, <2>3, <1>b DEF IInv, QueueInOrder
<1>12. NoOvertaking'
  <2>1. toAnalyzeQueue' \subseteq toAnalyzeQueue
    BY <1>a
  <2>2. ASSUME NEW x \in toAnalyzeQueue, x[2] < top[2]
        PROVE  request[x[2]].priority < request[top[2]].priority
    <3>1. /\ request[x[2]].priority = x[1][1] /\ request[top[2]].priority = top[1][1]
          /\ top[1][2] < x[1][2]
      BY <1>a, <2>2 DEF IInv, QueueInOrder
    <3>2. Before(top, x)
      BY <1>a
    <3>3. x[1][1] \in Int /\ x[1][2] \in Int /\ top[1][1] \in Int /\ top[1][2] \in Int
      BY <1>a, Places
    <3>4. x[1][1] < top[1][1]
      BY <3>1, <3>2, <3>3 DEF Before
    <3> QED
      BY <3>1, <3>4
  <2>3. \A u \in Threads : job'[u] = job[u] \/ job'[u] = top[2]
    BY <1>b
  <2> QED
    BY <1>1, <2>1, <2>2, <2>3 DEF IInv, NoOvertaking
<1> QED
  BY <1>2, <1>3, <1>4, <1>5, <1>6, <1>7, <1>8, <1>9, <1>10, <1>11, <1>12 DEF IInv

LEMMA ExitThreadKeeps ==
  ASSUME IInv, NEW t \in Threads, ExitThread(t)
  PROVE  IInv'
<1>1. UNCHANGED <<quitWithoutWaiting, apiPc, todo, target, internalIdCounter, numRequestsSoFar,
   others, request, status, openRequests, freed, toAnalyzeQueue, analyzeReadOnly, toWriteQueue,
   writeReadOnly, job, shouldStopNow, isKilled, hasRoot, writerPc, printed>>
  BY DEF ExitThread, counters, requestVars, analyzeVars, writeVars, botVars, threadVars,
     writerVars, apiVars, Goto
<1>2. ApiTypes' /\ RequestTypes' /\ WriteTypes' /\ QuitsLast' /\ QueuedOnce' /\ Terminated'
  BY <1>1 DEF IInv, ApiTypes, RequestTypes, WriteTypes, QuitsLast, QueuedOnce, Terminated,
     Quitting, Terminating
<1>3. AnsweredOnce' /\ ReportsFirst' /\ QueueInOrder' /\ NoOvertaking'
  BY <1>1 DEF IInv, AnsweredOnce, ReportsFirst, QueueInOrder, NoOvertaking
<1>4. ThreadTypes'
  BY <1>1 DEF IInv, ExitThread, ThreadTypes, ThreadPcs, ApiTypes, RequestTypes, Goto
<1>5. HeldOnce'
  BY <1>1 DEF IInv, ExitThread, HeldOnce, ThreadTypes, ThreadPcs, Goto
<1>6. StatusTells'
  BY <1>1 DEF IInv, ExitThread, StatusTells, HeldOnce, ThreadTypes, RequestTypes, Goto
<1>7. IndexTells'
  BY <1>1 DEF IInv, ExitThread, IndexTells, HeldOnce, ThreadTypes, RequestTypes, SearchedHere,
     Goto
<1>8. StopsOnlyTerminated'
  BY <1>1 DEF IInv, ExitThread, StopsOnlyTerminated, Quitting, Searching, HeldOnce, ThreadTypes,
     Goto
<1>9. AnsweredInTurn'
  BY <1>1 DEF IInv, ExitThread, AnsweredInTurn, Unanswered, NoAnswerYet, MainOwes, ThreadOwes,
     HeldOnce, ThreadTypes, AnswerOwed, Goto
<1> QED
  BY <1>2, <1>3, <1>4, <1>5, <1>6, <1>7, <1>8, <1>9 DEF IInv

LEMMA ClaimKeeps ==
  ASSUME IInv, NEW t \in Threads, Claim(t)
  PROVE  IInv'
<1>1. UNCHANGED <<quitWithoutWaiting, apiPc, todo, target, internalIdCounter, numRequestsSoFar,
   others, request, openRequests, freed, toAnalyzeQueue, analyzeReadOnly, toWriteQueue,
   writeReadOnly, job, shouldStopNow, isKilled, hasRoot, writerPc, printed>>
  BY DEF Claim, counters, requestVars, analyzeVars, writeVars, botVars, threadVars, writerVars,
     apiVars, Goto
<1>a. /\ job[t] \in openRequests /\ job[t] \in InternalIds
      /\ threadPc[t] = "claim" /\ threadPc' \in [Threads -> ThreadPcs]
      /\ \A u \in Threads \ {t} : /\ threadPc'[u] = threadPc[u]
                                  /\ job[u] # job[t]
      /\ \A x \in toAnalyzeQueue : x[2] # job[t] /\ x[2] \in InternalIds
      /\ openRequests \subseteq InternalIds
      /\ apiPc = "push" => todo \subseteq InternalIds /\ job[t] \notin todo
  BY Places DEF Claim, Goto, IInv, ThreadTypes, ThreadPcs, RequestTypes
<1>b. \/ /\ status[job[t]] = STATUS_IN_QUEUE /\ threadPc'[t] = "genMove"
         /\ status' \in [InternalIds -> Statuses] /\ status'[job[t]] = STATUS_POPPED
         /\ \A s \in InternalIds \ {job[t]} : status'[s] = status[s]
      \/ status[job[t]] = STATUS_TERMINATED /\ status' = status /\ threadPc'[t] = "erase"
  BY <1>a DEF Claim, Goto, StatusOfClaimed, IInv, ThreadTypes, RequestTypes, Statuses, StatusTells
<1>2. ApiTypes' /\ WriteTypes' /\ QuitsLast' /\ QueuedOnce' /\ AnsweredOnce' /\ ReportsFirst'
  BY <1>1 DEF IInv, ApiTypes, WriteTypes, QuitsLast, QueuedOnce, AnsweredOnce, ReportsFirst,
     Quitting
<1>3. QueueInOrder' /\ NoOvertaking'
  BY <1>1 DEF IInv, QueueInOrder, NoOvertaking
<1>4. RequestTypes'
  BY <1>1, <1>a, <1>b, Constants DEF IInv, RequestTypes, Statuses
<1>5. ThreadTypes'
  BY <1>1, <1>a, <1>b, Constants DEF IInv, ThreadTypes, ThreadPcs
<1>6. HeldOnce'
  BY <1>1, <1>a, <1>b, Constants DEF IInv, HeldOnce
<1>7. Terminated'
  BY <1>1, <1>a, <1>b, Constants DEF IInv, Terminated, Terminating
<1>8. StatusTells'
  <2>1. \A x \in toAnalyzeQueue : status'[x[2]] = status[x[2]]
    BY <1>a, <1>b
  <2>2. apiPc = "push" => \A r \in todo : status'[r] = status[r]
    BY <1>a, <1>b
  <2>3. ASSUME NEW u \in Threads \ {t}, threadPc[u] \notin {"pop", "exited", "delete"}
        PROVE  status'[job[u]] = status[job[u]]
    BY <1>a, <1>b, <2>3, Places
  <2>4. \/ threadPc'[t] = "genMove" /\ status'[job[t]] = STATUS_POPPED
        \/ threadPc'[t] = "erase" /\ status'[job[t]] = STATUS_TERMINATED
    BY <1>b
  <2> QED
    BY <1>1, <1>a, <2>1, <2>2, <2>3, <2>4 DEF IInv, StatusTells
<1>9. IndexTells'
  <2>1. \A u \in Threads : threadPc[u] \in SearchedHere => threadPc'[u] = threadPc[u]
    BY <1>a DEF SearchedHere
  <2>2. \A r \in openRequests : status'[r] \in Threads =>
          status[r] \in Threads /\ status'[r] = status[r]
    BY <1>a, <1>b, Constants
  <2> QED
    BY <1>1, <2>1, <2>2 DEF IInv, IndexTells
<1>10. StopsOnlyTerminated'
  <2>1. \A u \in Threads : Searching(u)' => Searching(u) /\ u # t
    BY <1>a, <1>b DEF Searching
  <2>2. \A u \in Threads \ {t} : Searching(u) => status'[job[u]] = status[job[u]]
    BY <1>a, <1>b, Places DEF Searching
  <2> QED
    BY <1>1, <2>1, <2>2 DEF IInv, StopsOnlyTerminated, Quitting
<1>11. AnsweredInTurn'
  <2>1. \A s \in InternalIds \ {job[t]} : ThreadOwes(s)' => ThreadOwes(s)
    BY <1>1, <1>a DEF ThreadOwes, AnswerOwed
  <2>2. \A s \in InternalIds \ {job[t]} : Unanswered(s)' => Unanswered(s)
    BY <1>1, <1>a, <1>b, <2>1 DEF Unanswered, MainOwes
  <2>3. \A s \in InternalIds : MainOwes(s)' <=> MainOwes(s)
    BY <1>1 DEF MainOwes
  <2>4. CASE status[job[t]] = STATUS_IN_QUEUE
    <3>1. Unanswered(job[t])
      BY <1>a, <2>4 DEF Unanswered
    <3>2. ~MainOwes(job[t])
      BY <2>4, Constants DEF IInv, Terminated, MainOwes
    <3> QED
      BY <1>1, <2>1, <2>2, <2>3, <3>1, <3>2 DEF IInv, AnsweredInTurn, NoAnswerYet
  <2>5. CASE status[job[t]] # STATUS_IN_QUEUE
    <3>1. status' = status /\ threadPc'[t] = "erase"
      BY <1>b, <2>5
    <3>2. ~ThreadOwes(job[t])'
      BY <1>1, <1>a, <3>1 DEF ThreadOwes, AnswerOwed
    <3>3. Unanswered(job[t])' => Unanswered(job[t])
      BY <1>1, <3>1, <3>2 DEF Unanswered, MainOwes
    <3> QED
      BY <1>1, <2>1, <2>2, <2>3, <3>2, <3>3 DEF IInv, AnsweredInTurn, NoAnswerYet
  <2> QED
    BY <2>4, <2>5
<1> QED
  BY <1>2, <1>3, <1>4, <1>5, <1>6, <1>7, <1>8, <1>9, <1>10, <1>11 DEF IInv

LEMMA GenMoveKeeps ==
  ASSUME IInv, NEW t \in Threads, GenMove(t)
  PROVE  IInv'
<1>1. UNCHANGED <<quitWithoutWaiting, apiPc, todo, target, internalIdCounter, numRequestsSoFar,
   others, request, status, openRequests, freed, toAnalyzeQueue, analyzeReadOnly, toWriteQueue,
   writeReadOnly, job, isKilled, writerPc, printed>>
  BY DEF GenMove, counters, requestVars, analyzeVars, writeVars, botVars, threadVars,
     writerVars, apiVars, Goto
<1>2. ApiTypes' /\ RequestTypes' /\ WriteTypes' /\ QuitsLast' /\ QueuedOnce' /\ Terminated'
  BY <1>1 DEF IInv, ApiTypes, RequestTypes, WriteTypes, QuitsLast, QueuedOnce, Terminated,
     Quitting, Terminating
<1>3. AnsweredOnce' /\ ReportsFirst' /\ QueueInOrder' /\ NoOvertaking'
  BY <1>1 DEF IInv, AnsweredOnce, ReportsFirst, QueueInOrder, NoOvertaking
<1>4. ThreadTypes'
  BY <1>1 DEF IInv, GenMove, ThreadTypes, ThreadPcs, ApiTypes, RequestTypes, Goto
<1>5. HeldOnce'
  BY <1>1 DEF IInv, GenMove, HeldOnce, ThreadTypes, ThreadPcs, Goto
<1>6. StatusTells'
  BY <1>1 DEF IInv, GenMove, StatusTells, HeldOnce, ThreadTypes, RequestTypes, Goto
<1>7. IndexTells'
  BY <1>1 DEF IInv, GenMove, IndexTells, HeldOnce, ThreadTypes, RequestTypes, SearchedHere, Goto
<1>8. StopsOnlyTerminated'
  BY <1>1 DEF IInv, GenMove, StopsOnlyTerminated, Quitting, Searching, HeldOnce, ThreadTypes,
     Goto
<1>9. AnsweredInTurn'
  BY <1>1 DEF IInv, GenMove, AnsweredInTurn, Unanswered, NoAnswerYet, MainOwes, ThreadOwes,
     HeldOnce, ThreadTypes, AnswerOwed, Goto
<1> QED
  BY <1>2, <1>3, <1>4, <1>5, <1>6, <1>7, <1>8, <1>9 DEF IInv

LEMMA DropSearchKeeps ==
  ASSUME IInv, NEW t \in Threads, DropSearch(t)
  PROVE  IInv'
<1>1. UNCHANGED <<quitWithoutWaiting, apiPc, todo, target, internalIdCounter, numRequestsSoFar,
   others, request, status, openRequests, freed, toAnalyzeQueue, analyzeReadOnly, toWriteQueue,
   writeReadOnly, job, shouldStopNow, isKilled, hasRoot, writerPc, printed>>
  BY DEF DropSearch, counters, requestVars, analyzeVars, writeVars, botVars, threadVars,
     writerVars, apiVars, Goto
<1>2. ApiTypes' /\ RequestTypes' /\ WriteTypes' /\ QuitsLast' /\ QueuedOnce' /\ Terminated'
  BY <1>1 DEF IInv, ApiTypes, RequestTypes, WriteTypes, QuitsLast, QueuedOnce, Terminated,
     Quitting, Terminating
<1>3. AnsweredOnce' /\ ReportsFirst' /\ QueueInOrder' /\ NoOvertaking'
  BY <1>1 DEF IInv, AnsweredOnce, ReportsFirst, QueueInOrder, NoOvertaking
<1>4. ThreadTypes'
  BY <1>1 DEF IInv, DropSearch, ThreadTypes, ThreadPcs, ApiTypes, RequestTypes, Goto
<1>5. HeldOnce'
  BY <1>1 DEF IInv, DropSearch, HeldOnce, ThreadTypes, ThreadPcs, Goto
<1>6. StatusTells'
  BY <1>1 DEF IInv, DropSearch, StatusTells, HeldOnce, ThreadTypes, RequestTypes, Goto
<1>7. IndexTells'
  BY <1>1 DEF IInv, DropSearch, IndexTells, HeldOnce, ThreadTypes, RequestTypes, SearchedHere,
     Goto
<1>8. StopsOnlyTerminated'
  BY <1>1 DEF IInv, DropSearch, StopsOnlyTerminated, Quitting, Searching, HeldOnce, ThreadTypes,
     Goto
<1>9. AnsweredInTurn'
  BY <1>1 DEF IInv, DropSearch, AnsweredInTurn, Unanswered, NoAnswerYet, MainOwes, ThreadOwes,
     HeldOnce, ThreadTypes, AnswerOwed, Goto
<1> QED
  BY <1>2, <1>3, <1>4, <1>5, <1>6, <1>7, <1>8, <1>9 DEF IInv

LEMMA OnSearchBegunKeeps ==
  ASSUME IInv, NEW t \in Threads, OnSearchBegun(t)
  PROVE  IInv'
<1>1. UNCHANGED <<quitWithoutWaiting, apiPc, todo, target, internalIdCounter, numRequestsSoFar,
   others, request, openRequests, freed, toAnalyzeQueue, analyzeReadOnly, toWriteQueue,
   writeReadOnly, job, isKilled, hasRoot, writerPc, printed>>
  BY DEF OnSearchBegun, counters, requestVars, analyzeVars, writeVars, botVars, threadVars,
     writerVars, apiVars, Goto
<1>a. /\ job[t] \in openRequests /\ job[t] \in InternalIds
      /\ threadPc[t] = "queued" /\ threadPc' \in [Threads -> ThreadPcs]
      /\ threadPc'[t] = "searching"
      /\ \A u \in Threads \ {t} : /\ threadPc'[u] = threadPc[u]
                                  /\ job[u] # job[t]
                                  /\ shouldStopNow'[u] = shouldStopNow[u]
      /\ \A x \in toAnalyzeQueue : x[2] # job[t] /\ x[2] \in InternalIds
      /\ openRequests \subseteq InternalIds
      /\ apiPc = "push" => todo \subseteq InternalIds /\ job[t] \notin todo
      /\ status' \in [InternalIds -> Statuses]
      /\ \A s \in InternalIds \ {job[t]} : status'[s] = status[s]
      /\ shouldStopNow' \in [Threads -> BOOLEAN]
  BY Places DEF OnSearchBegun, Goto, StopsOwnSearch, IInv, ThreadTypes, ThreadPcs,
     RequestTypes, Statuses
<1>b. \/ status[job[t]] = STATUS_POPPED /\ status'[job[t]] = t
         /\ (shouldStopNow'[t] => shouldStopNow[t])
      \/ status[job[t]] = STATUS_TERMINATED /\ status'[job[t]] = STATUS_TERMINATED
  BY <1>a DEF OnSearchBegun, StopsOwnSearch, IInv, ThreadTypes, RequestTypes, StatusTells
<1>2. ApiTypes' /\ WriteTypes' /\ QuitsLast' /\ QueuedOnce' /\ AnsweredOnce' /\ ReportsFirst'
  BY <1>1 DEF IInv, ApiTypes, WriteTypes, QuitsLast, QueuedOnce, AnsweredOnce, ReportsFirst,
     Quitting
<1>3. QueueInOrder' /\ NoOvertaking'
  BY <1>1 DEF IInv, QueueInOrder, NoOvertaking
<1>4. RequestTypes'
  BY <1>1, <1>a, <1>b, Constants DEF IInv, RequestTypes, Statuses
<1>5. ThreadTypes'
  BY <1>1, <1>a, <1>b, Constants DEF IInv, ThreadTypes, ThreadPcs
<1>6. HeldOnce'
  BY <1>1, <1>a, <1>b, Constants DEF IInv, HeldOnce
<1>7. Terminated'
  BY <1>1, <1>a, <1>b, Constants DEF IInv, Terminated, Terminating
<1>8. StatusTells'
  <2>1. \A x \in toAnalyzeQueue : status'[x[2]] = status[x[2]]
    BY <1>a
  <2>2. apiPc = "push" => \A r \in todo : status'[r] = status[r]
    BY <1>a
  <2>3. ASSUME NEW u \in Threads \ {t}, threadPc[u] \notin {"pop", "exited", "delete"}
        PROVE  status'[job[u]] = status[job[u]]
    BY <1>a, <2>3, Places
  <2>4. status'[job[t]] \in {t, STATUS_TERMINATED}
    BY <1>b
  <2> QED
    BY <1>1, <1>a, <2>1, <2>2, <2>3, <2>4 DEF IInv, StatusTells
<1>9. IndexTells'
  <2>1. /\ \A u \in Threads : threadPc[u] \in SearchedHere => threadPc'[u] = threadPc[u]
        /\ threadPc'[t] \in SearchedHere
    BY <1>a DEF SearchedHere
  <2>2. \A r \in openRequests : status'[r] \in Threads =>
          \/ status[r] \in Threads /\ status'[r] = status[r]
          \/ r = job[t] /\ status'[r] = t
    BY <1>a, <1>b, Constants
  <2> QED
    BY <1>1, <2>1, <2>2 DEF IInv, IndexTells
<1>10. StopsOnlyTerminated'
  <2> SUFFICES ASSUME ~Quitting', NEW u \in Threads, Searching(u)', shouldStopNow'[u]
               PROVE  status'[job[u]] = STATUS_TERMINATED
    BY <1>1 DEF StopsOnlyTerminated
  <2>1. ~Quitting
    BY <1>1 DEF Quitting
  <2>2. CASE u = t
    <3>1. status'[job[t]] = t => shouldStopNow[t] /\ Searching(t) /\ status[job[t]] = STATUS_POPPED
      BY <1>a, <1>b, <2>2, Constants DEF Searching
    <3> QED
      BY <1>b, <2>1, <2>2, <3>1, Constants DEF IInv, StopsOnlyTerminated
  <2>3. CASE u # t
    <3>1. Searching(u) /\ shouldStopNow[u] /\ job[u] # job[t] /\ job[u] \in InternalIds
      BY <1>a, <2>3, Places DEF Searching
    <3> QED
      BY <1>a, <2>1, <3>1 DEF IInv, StopsOnlyTerminated
  <2> QED
    BY <2>2, <2>3
<1>11. AnsweredInTurn'
  <2>1. \A s \in InternalIds : ThreadOwes(s)' => ThreadOwes(s)
    BY <1>1, <1>a DEF ThreadOwes, AnswerOwed
  <2>2. \A s \in InternalIds : Unanswered(s)' => Unanswered(s)
    <3>1. \A s \in InternalIds : status'[s] = STATUS_IN_QUEUE => status[s] = STATUS_IN_QUEUE
      BY <1>a, <1>b, Constants
    <3> QED
      BY <1>1, <2>1, <3>1 DEF Unanswered, MainOwes
  <2>3. \A s \in InternalIds : MainOwes(s)' => MainOwes(s)
    BY <1>1 DEF MainOwes
  <2> QED
    BY <1>1, <2>1, <2>2, <2>3 DEF IInv, AnsweredInTurn, NoAnswerYet
<1> QED
  BY <1>2, <1>3, <1>4, <1>5, <1>6, <1>7, <1>8, <1>9, <1>10, <1>11 DEF IInv

LEMMA EvaluateRootKeeps ==
  ASSUME IInv, NEW t \in Threads, EvaluateRoot(t)
  PROVE  IInv'
<1>1. UNCHANGED <<quitWithoutWaiting, apiPc, todo, target, internalIdCounter, numRequestsSoFar,
   others, request, status, openRequests, freed, toAnalyzeQueue, analyzeReadOnly, toWriteQueue,
   writeReadOnly, threadPc, job, shouldStopNow, isKilled, writerPc, printed>>
  BY DEF EvaluateRoot, counters, requestVars, analyzeVars, writeVars, botVars, threadVars,
     writerVars, apiVars, Goto
<1>2. ApiTypes' /\ RequestTypes' /\ ThreadTypes' /\ WriteTypes' /\ QuitsLast' /\ QueuedOnce'
  BY <1>1 DEF IInv, ApiTypes, RequestTypes, ThreadTypes, WriteTypes, QuitsLast, QueuedOnce,
     Quitting
<1>3. HeldOnce' /\ Terminated' /\ StatusTells' /\ IndexTells' /\ StopsOnlyTerminated' /\
   AnsweredInTurn'
  BY <1>1 DEF IInv, HeldOnce, Terminated, StatusTells, IndexTells, StopsOnlyTerminated,
     AnsweredInTurn, Terminating, Quitting, Searching, Unanswered, NoAnswerYet, MainOwes,
     ThreadOwes
<1>4. AnsweredOnce' /\ ReportsFirst' /\ QueueInOrder' /\ NoOvertaking'
  BY <1>1 DEF IInv, AnsweredOnce, ReportsFirst, QueueInOrder, NoOvertaking
<1> QED
  BY <1>2, <1>3, <1>4 DEF IInv

LEMMA ReportDuringSearchKeeps ==
  ASSUME IInv, NEW t \in Threads, ReportDuringSearch(t)
  PROVE  IInv'
<1>1. UNCHANGED <<quitWithoutWaiting, apiPc, todo, target, internalIdCounter, numRequestsSoFar,
   others, request, status, openRequests, freed, toAnalyzeQueue, analyzeReadOnly, threadPc, job,
   shouldStopNow, isKilled, hasRoot, writerPc, printed>>
  BY DEF ReportDuringSearch, counters, requestVars, analyzeVars, writeVars, botVars,
     threadVars, writerVars, apiVars, Goto
<1>a. /\ job[t] \in InternalIds /\ threadPc[t] = "searching"
      /\ NoAnswerYet(job[t])
  <2>1. threadPc[t] = "searching" /\ job[t] \in InternalIds
    BY Places DEF ReportDuringSearch
  <2>2. Unanswered(job[t])
    BY <2>1 DEF Unanswered, ThreadOwes, AnswerOwed
  <2> QED
    BY <2>1, <2>2 DEF IInv, AnsweredInTurn
<1>c. /\ WriteTypes' /\ AnsweredOnce' /\ ReportsFirst'
      /\ \A s \in InternalIds : NoAnswerYet(s) => NoAnswerYet(s)'
  <2>1. /\ Message("duringSearch", job[t]) \in Messages
        /\ ~Final(Message("duringSearch", job[t]))
        /\ Message("duringSearch", job[t]).request = job[t]
    BY <1>a DEF Messages, Message, Final
  <2> QED
    BY <1>1, <1>a, <2>1, LinePushed DEF IInv, ReportDuringSearch
<1>2. ApiTypes' /\ RequestTypes' /\ ThreadTypes' /\ QuitsLast' /\ QueuedOnce' /\ HeldOnce'
  BY <1>1 DEF IInv, ApiTypes, RequestTypes, ThreadTypes, QuitsLast, QueuedOnce, HeldOnce,
     Quitting
<1>3. Terminated' /\ StatusTells' /\ IndexTells' /\ StopsOnlyTerminated' /\ QueueInOrder' /\
   NoOvertaking'
  BY <1>1 DEF IInv, Terminated, StatusTells, IndexTells, StopsOnlyTerminated, QueueInOrder,
     NoOvertaking, Terminating, Quitting, Searching
<1>4. WriteTypes'
  BY <1>c
<1>5. AnsweredInTurn'
  BY <1>1, <1>c DEF IInv, AnsweredInTurn, Unanswered, MainOwes, ThreadOwes
<1>6. AnsweredOnce'
  BY <1>c
<1>7. ReportsFirst'
  BY <1>c
<1> QED
  BY <1>2, <1>3, <1>4, <1>5, <1>6, <1>7 DEF IInv

LEMMA EndSearchKeeps ==
  ASSUME IInv, NEW t \in Threads, EndSearch(t)
  PROVE  IInv'
<1>1. UNCHANGED <<quitWithoutWaiting, apiPc, todo, target, internalIdCounter, numRequestsSoFar,
   others, request, status, openRequests, freed, toAnalyzeQueue, analyzeReadOnly, toWriteQueue,
   writeReadOnly, job, isKilled, hasRoot, writerPc, printed>>
  BY DEF EndSearch, counters, requestVars, analyzeVars, writeVars, botVars, threadVars,
     writerVars, apiVars, Goto
<1>2. ApiTypes' /\ RequestTypes' /\ WriteTypes' /\ QuitsLast' /\ QueuedOnce' /\ Terminated'
  BY <1>1 DEF IInv, ApiTypes, RequestTypes, WriteTypes, QuitsLast, QueuedOnce, Terminated,
     Quitting, Terminating
<1>3. AnsweredOnce' /\ ReportsFirst' /\ QueueInOrder' /\ NoOvertaking'
  BY <1>1 DEF IInv, AnsweredOnce, ReportsFirst, QueueInOrder, NoOvertaking
<1>4. ThreadTypes'
  BY <1>1 DEF IInv, EndSearch, ThreadTypes, ThreadPcs, ApiTypes, RequestTypes, Goto
<1>5. HeldOnce'
  BY <1>1 DEF IInv, EndSearch, HeldOnce, ThreadTypes, ThreadPcs, Goto
<1>6. StatusTells'
  BY <1>1 DEF IInv, EndSearch, StatusTells, HeldOnce, ThreadTypes, RequestTypes, Goto
<1>7. IndexTells'
  BY <1>1 DEF IInv, EndSearch, IndexTells, HeldOnce, ThreadTypes, RequestTypes, SearchedHere,
     Goto
<1>8. StopsOnlyTerminated'
  BY <1>1 DEF IInv, EndSearch, StopsOnlyTerminated, Quitting, Searching, HeldOnce, ThreadTypes,
     Goto
<1>9. AnsweredInTurn'
  BY <1>1 DEF IInv, EndSearch, AnsweredInTurn, Unanswered, NoAnswerYet, MainOwes, ThreadOwes,
     HeldOnce, ThreadTypes, AnswerOwed, Goto
<1> QED
  BY <1>2, <1>3, <1>4, <1>5, <1>6, <1>7, <1>8, <1>9 DEF IInv

LEMMA ReportAnalysisKeeps ==
  ASSUME IInv, NEW t \in Threads, ReportAnalysis(t)
  PROVE  IInv'
<1>1. UNCHANGED <<quitWithoutWaiting, apiPc, todo, target, internalIdCounter, numRequestsSoFar,
   others, request, status, openRequests, freed, toAnalyzeQueue, analyzeReadOnly, job,
   shouldStopNow, isKilled, hasRoot, writerPc, printed>>
  BY DEF ReportAnalysis, counters, requestVars, analyzeVars, writeVars, botVars, threadVars,
     writerVars, apiVars, Goto
<1>a. /\ job[t] \in InternalIds /\ job[t] \in openRequests /\ threadPc[t] = "report"
      /\ threadPc' \in [Threads -> ThreadPcs]
      /\ \A u \in Threads \ {t} : threadPc'[u] = threadPc[u] /\ job[u] # job[t]
      /\ \/ PushToWrite(Message("analysis", job[t])) /\ threadPc'[t] = "erase"
         \/ UNCHANGED writeVars /\ threadPc'[t] = "reportFailed"
      /\ status[job[t]] # STATUS_IN_QUEUE /\ job[t] < internalIdCounter
      /\ internalIdCounter \in Nat
  BY Constants DEF ReportAnalysis, Goto, IInv, ThreadTypes, ThreadPcs, HeldOnce, RequestTypes,
     StatusTells, ApiTypes
<1>b. NoAnswerYet(job[t]) /\ ~MainOwes(job[t]) /\ ThreadOwes(job[t])
  BY <1>a DEF IInv, AnsweredInTurn, Unanswered, ThreadOwes, AnswerOwed
<1>c. /\ WriteTypes' /\ AnsweredOnce' /\ ReportsFirst'
      /\ \A s \in InternalIds \ {job[t]} : NoAnswerYet(s) => NoAnswerYet(s)'
  <2>1. CASE PushToWrite(Message("analysis", job[t]))
    BY <1>1, <1>a, <1>b, <2>1, AnswerPushed DEF IInv
  <2>2. CASE UNCHANGED writeVars
    BY <1>1, <2>2 DEF IInv, writeVars, WriteTypes, AnsweredOnce, ReportsFirst, NoAnswerYet
  <2> QED
    BY <1>a, <2>1, <2>2
<1>2. ApiTypes' /\ RequestTypes' /\ QuitsLast' /\ QueuedOnce' /\ Terminated' /\ QueueInOrder'
  BY <1>1 DEF IInv, ApiTypes, RequestTypes, QuitsLast, QueuedOnce, Terminated, QueueInOrder,
     Quitting, Terminating
<1>3. NoOvertaking'
  BY <1>1 DEF IInv, NoOvertaking
<1>4. ThreadTypes'
  BY <1>1 DEF IInv, ReportAnalysis, ThreadTypes, ThreadPcs, ApiTypes, RequestTypes, Goto
<1>5. WriteTypes'
  BY <1>c
<1>6. HeldOnce'
  BY <1>1 DEF IInv, ReportAnalysis, HeldOnce, ThreadTypes, ThreadPcs, Goto
<1>7. StatusTells'
  BY <1>1 DEF IInv, ReportAnalysis, StatusTells, HeldOnce, ThreadTypes, RequestTypes, Goto
<1>8. IndexTells'
  BY <1>1 DEF IInv, ReportAnalysis, IndexTells, HeldOnce, ThreadTypes, RequestTypes,
     SearchedHere, Goto
<1>9. StopsOnlyTerminated'
  BY <1>1 DEF IInv, ReportAnalysis, StopsOnlyTerminated, Quitting, Searching, HeldOnce,
     ThreadTypes, Goto
<1>10. AnsweredInTurn'
  <2>1. ASSUME NEW s \in InternalIds \ {job[t]}
        PROVE  (Unanswered(s)' => Unanswered(s)) /\ (ThreadOwes(s)' => ThreadOwes(s))
    BY <1>1, <1>a DEF Unanswered, MainOwes, ThreadOwes, AnswerOwed
  <2>2. /\ ThreadOwes(job[t])' => threadPc'[t] = "reportFailed"
        /\ ~MainOwes(job[t])' /\ job'[t] = job[t]
    BY <1>1, <1>a, <1>b DEF MainOwes, ThreadOwes, AnswerOwed
  <2>3. Unanswered(job[t])' => threadPc'[t] = "reportFailed"
    <3>1. ~(job'[t] >= internalIdCounter')
      BY <1>1, Places
    <3> QED
      BY <1>1, <1>a, <2>2, <3>1 DEF Unanswered
  <2>4. threadPc'[t] = "reportFailed" => NoAnswerYet(job[t])'
    BY <1>1, <1>a, <1>b DEF NoAnswerYet, writeVars
  <2>5. \A s \in InternalIds : MainOwes(s)' => MainOwes(s)
    BY <1>1 DEF MainOwes
  <2> QED
    <3>1. \A s \in InternalIds : Unanswered(s)' => NoAnswerYet(s)'
      BY <1>1, <1>a, <1>c, <2>1, <2>3, <2>4 DEF IInv, AnsweredInTurn
    <3>2. \A s \in InternalIds : ~(MainOwes(s)' /\ ThreadOwes(s)')
      BY <1>1, <2>1, <2>2, <2>5, <1>b DEF IInv, AnsweredInTurn
    <3> QED
      BY <1>1, <3>1, <3>2 DEF AnsweredInTurn
<1>11. AnsweredOnce'
  BY <1>c
<1>12. ReportsFirst'
  BY <1>c
<1> QED
  BY <1>2, <1>3, <1>4, <1>5, <1>6, <1>7, <1>8, <1>9, <1>10, <1>11, <1>12 DEF IInv

LEMMA ReportNoAnalysisKeeps ==
  ASSUME IInv, NEW t \in Threads, ReportNoAnalysis(t)
  PROVE  IInv'
<1>1. UNCHANGED <<quitWithoutWaiting, apiPc, todo, target, internalIdCounter, numRequestsSoFar,
   others, request, status, openRequests, freed, toAnalyzeQueue, analyzeReadOnly, job,
   shouldStopNow, isKilled, hasRoot, writerPc, printed>>
  BY DEF ReportNoAnalysis, counters, requestVars, analyzeVars, writeVars, botVars, threadVars,
     writerVars, apiVars, Goto
<1>a. /\ job[t] \in InternalIds /\ job[t] \in openRequests /\ threadPc[t] = "reportFailed"
      /\ threadPc' \in [Threads -> ThreadPcs]
      /\ \A u \in Threads \ {t} : threadPc'[u] = threadPc[u] /\ job[u] # job[t]
      /\ threadPc'[t] = "erase"
      /\ \/ PushToWrite(Message("noResults", job[t]))
         \/ UNCHANGED writeVars
      /\ status[job[t]] # STATUS_IN_QUEUE /\ job[t] < internalIdCounter
      /\ internalIdCounter \in Nat
  BY Constants DEF ReportNoAnalysis, Goto, IInv, ThreadTypes, ThreadPcs, HeldOnce, RequestTypes,
     StatusTells, ApiTypes
<1>b. NoAnswerYet(job[t]) /\ ~MainOwes(job[t]) /\ ThreadOwes(job[t])
  BY <1>a DEF IInv, AnsweredInTurn, Unanswered, ThreadOwes, AnswerOwed
<1>c. /\ WriteTypes' /\ AnsweredOnce' /\ ReportsFirst'
      /\ \A s \in InternalIds \ {job[t]} : NoAnswerYet(s) => NoAnswerYet(s)'
  <2>1. CASE PushToWrite(Message("noResults", job[t]))
    BY <1>1, <1>a, <1>b, <2>1, AnswerPushed DEF IInv
  <2>2. CASE UNCHANGED writeVars
    BY <1>1, <2>2 DEF IInv, writeVars, WriteTypes, AnsweredOnce, ReportsFirst, NoAnswerYet
  <2> QED
    BY <1>a, <2>1, <2>2
<1>2. ApiTypes' /\ RequestTypes' /\ QuitsLast' /\ QueuedOnce' /\ Terminated' /\ QueueInOrder'
  BY <1>1 DEF IInv, ApiTypes, RequestTypes, QuitsLast, QueuedOnce, Terminated, QueueInOrder,
     Quitting, Terminating
<1>3. NoOvertaking'
  BY <1>1 DEF IInv, NoOvertaking
<1>4. ThreadTypes'
  BY <1>1 DEF IInv, ReportNoAnalysis, ThreadTypes, ThreadPcs, ApiTypes, RequestTypes, Goto
<1>5. WriteTypes'
  BY <1>c
<1>6. HeldOnce'
  BY <1>1 DEF IInv, ReportNoAnalysis, HeldOnce, ThreadTypes, ThreadPcs, Goto
<1>7. StatusTells'
  BY <1>1 DEF IInv, ReportNoAnalysis, StatusTells, HeldOnce, ThreadTypes, RequestTypes, Goto
<1>8. IndexTells'
  BY <1>1 DEF IInv, ReportNoAnalysis, IndexTells, HeldOnce, ThreadTypes, RequestTypes,
     SearchedHere, Goto
<1>9. StopsOnlyTerminated'
  BY <1>1 DEF IInv, ReportNoAnalysis, StopsOnlyTerminated, Quitting, Searching, HeldOnce,
     ThreadTypes, Goto
<1>10. AnsweredInTurn'
  <2>1. ASSUME NEW s \in InternalIds \ {job[t]}
        PROVE  (Unanswered(s)' => Unanswered(s)) /\ (ThreadOwes(s)' => ThreadOwes(s))
    BY <1>1, <1>a DEF Unanswered, MainOwes, ThreadOwes, AnswerOwed
  <2>2. /\ ThreadOwes(job[t])' => threadPc'[t] = "reportFailed"
        /\ ~MainOwes(job[t])' /\ job'[t] = job[t]
    BY <1>1, <1>a, <1>b DEF MainOwes, ThreadOwes, AnswerOwed
  <2>3. Unanswered(job[t])' => threadPc'[t] = "reportFailed"
    <3>1. ~(job'[t] >= internalIdCounter')
      BY <1>1, Places
    <3> QED
      BY <1>1, <1>a, <2>2, <3>1 DEF Unanswered
  <2>4. threadPc'[t] = "reportFailed" => NoAnswerYet(job[t])'
    BY <1>1, <1>a, <1>b DEF NoAnswerYet, writeVars
  <2>5. \A s \in InternalIds : MainOwes(s)' => MainOwes(s)
    BY <1>1 DEF MainOwes
  <2> QED
    <3>1. \A s \in InternalIds : Unanswered(s)' => NoAnswerYet(s)'
      BY <1>1, <1>a, <1>c, <2>1, <2>3, <2>4 DEF IInv, AnsweredInTurn
    <3>2. \A s \in InternalIds : ~(MainOwes(s)' /\ ThreadOwes(s)')
      BY <1>1, <2>1, <2>2, <2>5, <1>b DEF IInv, AnsweredInTurn
    <3> QED
      BY <1>1, <3>1, <3>2 DEF AnsweredInTurn
<1>11. AnsweredOnce'
  BY <1>c
<1>12. ReportsFirst'
  BY <1>c
<1> QED
  BY <1>2, <1>3, <1>4, <1>5, <1>6, <1>7, <1>8, <1>9, <1>10, <1>11, <1>12 DEF IInv

LEMMA EraseRequestKeeps ==
  ASSUME IInv, NEW t \in Threads, EraseRequest(t)
  PROVE  IInv'
<1>1. UNCHANGED <<quitWithoutWaiting, apiPc, todo, target, internalIdCounter, numRequestsSoFar,
   others, request, status, freed, toAnalyzeQueue, analyzeReadOnly, toWriteQueue, writeReadOnly,
   job, isKilled, writerPc, printed>>
  BY DEF EraseRequest, counters, requestVars, analyzeVars, writeVars, botVars, threadVars,
     writerVars, apiVars, Goto
<1>a. /\ job[t] \in openRequests /\ job[t] \in InternalIds /\ job[t] # -1
      /\ openRequests' = openRequests \ {job[t]}
      /\ threadPc[t] = "erase" /\ threadPc' \in [Threads -> ThreadPcs]
      /\ threadPc'[t] = "delete" /\ ~Terminating
      /\ \A u \in Threads \ {t} : /\ threadPc'[u] = threadPc[u]
                                  /\ job[u] # job[t]
                                  /\ shouldStopNow'[u] = shouldStopNow[u]
      /\ \A x \in toAnalyzeQueue : x[2] # job[t] /\ x[2] \in InternalIds
      /\ openRequests \subseteq InternalIds
      /\ apiPc = "push" => todo \subseteq InternalIds /\ job[t] \notin todo
      /\ shouldStopNow' \in [Threads -> BOOLEAN]
      /\ job[t] \notin freed
  BY Places DEF EraseRequest, Goto, MayErase, IInv, ThreadTypes, ThreadPcs, RequestTypes
<1>2. ApiTypes' /\ WriteTypes' /\ QuitsLast' /\ AnsweredOnce' /\ ReportsFirst' /\ QueueInOrder'
  BY <1>1 DEF IInv, ApiTypes, WriteTypes, QuitsLast, AnsweredOnce, ReportsFirst, QueueInOrder,
     Quitting
<1>3. NoOvertaking'
  BY <1>1 DEF IInv, NoOvertaking
<1>4. RequestTypes'
  BY <1>1, <1>a, Constants DEF IInv, RequestTypes, Statuses
<1>5. ThreadTypes'
  BY <1>1, <1>a, Constants DEF IInv, ThreadTypes, ThreadPcs
<1>6. QueuedOnce'
  BY <1>1, <1>a, Constants DEF IInv, QueuedOnce, HeldOnce
<1>7. HeldOnce'
  BY <1>1, <1>a, Constants DEF IInv, HeldOnce
<1>8. Terminated'
  BY <1>1, <1>a, Constants DEF IInv, Terminated, Terminating
<1>9. StatusTells'
  BY <1>1, <1>a, Constants DEF IInv, StatusTells, HeldOnce, ThreadTypes
<1>10. IndexTells'
  <2>1. \A u \in Threads \ {t} : threadPc[u] \in SearchedHere => threadPc'[u] = threadPc[u]
    BY <1>a DEF SearchedHere
  <2>2. \A r \in openRequests' : status[r] \in Threads => status[r] # t
    BY <1>a DEF IInv, IndexTells
  <2>3. apiPc # "act"
    BY <1>a DEF Terminating
  <2> QED
    BY <1>1, <1>a, <2>1, <2>2, <2>3 DEF IInv, IndexTells
<1>11. StopsOnlyTerminated'
  BY <1>1, <1>a, Constants DEF IInv, StopsOnlyTerminated, Quitting, Searching, HeldOnce,
     StatusTells
<1>12. AnsweredInTurn'
  <2>1. \A s \in InternalIds : ThreadOwes(s)' => ThreadOwes(s)
    BY <1>1, <1>a DEF ThreadOwes, AnswerOwed
  <2>2. \A s \in InternalIds : Unanswered(s)' => Unanswered(s)
    BY <1>1, <1>a, <2>1 DEF Unanswered, MainOwes
  <2>3. \A s \in InternalIds : MainOwes(s)' => MainOwes(s)
    BY <1>1 DEF MainOwes
  <2> QED
    BY <1>1, <2>1, <2>2, <2>3 DEF IInv, AnsweredInTurn, NoAnswerYet
<1> QED
  BY <1>2, <1>3, <1>4, <1>5, <1>6, <1>7, <1>8, <1>9, <1>10, <1>11, <1>12 DEF IInv

LEMMA DeleteRequestKeeps ==
  ASSUME IInv, NEW t \in Threads, DeleteRequest(t)
  PROVE  IInv'
<1>1. UNCHANGED <<quitWithoutWaiting, apiPc, todo, target, internalIdCounter, numRequestsSoFar,
   others, request, status, openRequests, toAnalyzeQueue, analyzeReadOnly, toWriteQueue,
   writeReadOnly, shouldStopNow, isKilled, hasRoot, writerPc, printed>>
  BY DEF DeleteRequest, counters, requestVars, analyzeVars, writeVars, botVars, threadVars,
     writerVars, apiVars, Goto
<1>a. /\ job[t] \in InternalIds /\ job[t] \notin openRequests /\ job[t] # -1
      /\ job[t] < internalIdCounter /\ job[t] \in 0 .. internalIdCounter - 1
      /\ freed' = freed \cup {job[t]}
      /\ threadPc[t] = "delete" /\ threadPc' \in [Threads -> ThreadPcs]
      /\ threadPc'[t] = "pop" /\ job'[t] = -1
      /\ job' \in [Threads -> InternalIds \cup {-1}]
      /\ \A u \in Threads \ {t} : /\ threadPc'[u] = threadPc[u] /\ job'[u] = job[u]
                                  /\ job[u] # job[t]
      /\ internalIdCounter \in Nat
  BY Constants DEF DeleteRequest, Goto, IInv, ThreadTypes, ThreadPcs, HeldOnce, ApiTypes,
     InternalIds
<1>2. ApiTypes' /\ WriteTypes' /\ QuitsLast' /\ Terminated' /\ AnsweredOnce' /\ ReportsFirst'
  BY <1>1 DEF IInv, ApiTypes, WriteTypes, QuitsLast, Terminated, AnsweredOnce, ReportsFirst,
     Quitting, Terminating
<1>3. RequestTypes'
  BY <1>1, <1>a, Constants DEF IInv, RequestTypes, Statuses
<1>4. ThreadTypes'
  BY <1>1, <1>a, Constants DEF IInv, ThreadTypes, ThreadPcs
<1>5. QueuedOnce'
  <2>1. \A x \in toAnalyzeQueue : x[2] # -1
    BY Places
  <2>2. apiPc = "push" => \A r \in todo : -1 < r
    BY <1>1, Places, Constants
  <2>3. \A u \in Threads : job'[u] = job[u] \/ job'[u] = -1
    BY <1>a
  <2> QED
    BY <1>1, <2>1, <2>2, <2>3 DEF IInv, QueuedOnce
<1>6. HeldOnce'
  BY <1>1, <1>a, Constants DEF IInv, HeldOnce
<1>7. StatusTells'
  BY <1>1, <1>a, Constants DEF IInv, StatusTells, HeldOnce, ThreadTypes
<1>8. IndexTells'
  <2>1. \A u \in Threads \ {t} : job'[u] = job[u] /\ threadPc'[u] = threadPc[u]
    BY <1>a
  <2>2. threadPc[t] \notin SearchedHere
    BY <1>a DEF SearchedHere
  <2> QED
    BY <1>1, <2>1, <2>2 DEF IInv, IndexTells
<1>9. StopsOnlyTerminated'
  BY <1>1, <1>a, Constants DEF IInv, StopsOnlyTerminated, Quitting, Searching, HeldOnce,
     StatusTells
<1>10. AnsweredInTurn'
  BY <1>1, <1>a, Constants DEF IInv, AnsweredInTurn, Unanswered, NoAnswerYet, MainOwes,
     ThreadOwes, HeldOnce, AnswerOwed, StatusTells
<1>11. QueueInOrder'
  BY <1>1, <1>a, Constants DEF IInv, QueueInOrder, QueuedOnce
<1>12. NoOvertaking'
  BY <1>1, <1>a, Constants DEF IInv, NoOvertaking
<1> QED
  BY <1>2, <1>3, <1>4, <1>5, <1>6, <1>7, <1>8, <1>9, <1>10, <1>11, <1>12 DEF IInv

-----------------------------------------------------------------------------
(* The writer                                                              *)

LEMMA WriteMessageKeeps ==
  ASSUME IInv, WriteMessage
  PROVE  IInv'
<1>1. UNCHANGED <<quitWithoutWaiting, apiPc, todo, target, internalIdCounter, numRequestsSoFar,
   others, request, status, openRequests, freed, toAnalyzeQueue, analyzeReadOnly, writeReadOnly,
   threadPc, job, shouldStopNow, isKilled, hasRoot, writerPc>>
  BY DEF WriteMessage, counters, requestVars, analyzeVars, writeVars, botVars, threadVars,
     writerVars, apiVars
<1>c. /\ WriteTypes' /\ AnsweredOnce' /\ ReportsFirst'
      /\ \A s \in InternalIds : NoAnswerYet(s) => NoAnswerYet(s)'
  BY LinePrinted DEF IInv
<1>2. ApiTypes' /\ RequestTypes' /\ ThreadTypes' /\ QuitsLast' /\ QueuedOnce' /\ HeldOnce'
  BY <1>1 DEF IInv, ApiTypes, RequestTypes, ThreadTypes, QuitsLast, QueuedOnce, HeldOnce,
     Quitting
<1>3. Terminated' /\ StatusTells' /\ IndexTells' /\ StopsOnlyTerminated' /\ QueueInOrder' /\
   NoOvertaking'
  BY <1>1 DEF IInv, Terminated, StatusTells, IndexTells, StopsOnlyTerminated, QueueInOrder,
     NoOvertaking, Terminating, Quitting, Searching
<1>4. WriteTypes'
  BY <1>c
<1>5. AnsweredInTurn'
  BY <1>1, <1>c DEF IInv, AnsweredInTurn, Unanswered, MainOwes, ThreadOwes
<1>6. AnsweredOnce'
  BY <1>c
<1>7. ReportsFirst'
  BY <1>c
<1> QED
  BY <1>2, <1>3, <1>4, <1>5, <1>6, <1>7 DEF IInv

LEMMA ExitWriterKeeps ==
  ASSUME IInv, ExitWriter
  PROVE  IInv'
<1>1. UNCHANGED <<quitWithoutWaiting, apiPc, todo, target, internalIdCounter, numRequestsSoFar,
   others, request, status, openRequests, freed, toAnalyzeQueue, analyzeReadOnly, toWriteQueue,
   writeReadOnly, threadPc, job, shouldStopNow, isKilled, hasRoot, printed>>
  BY DEF ExitWriter, counters, requestVars, analyzeVars, writeVars, botVars, threadVars,
     writerVars, apiVars
<1>2. ApiTypes' /\ RequestTypes' /\ ThreadTypes' /\ WriteTypes' /\ QuitsLast' /\ QueuedOnce'
  BY <1>1 DEF IInv, ApiTypes, RequestTypes, ThreadTypes, WriteTypes, QuitsLast, QueuedOnce,
     Quitting
<1>3. HeldOnce' /\ Terminated' /\ StatusTells' /\ IndexTells' /\ StopsOnlyTerminated' /\
   AnsweredInTurn'
  BY <1>1 DEF IInv, HeldOnce, Terminated, StatusTells, IndexTells, StopsOnlyTerminated,
     AnsweredInTurn, Terminating, Quitting, Searching, Unanswered, NoAnswerYet, MainOwes,
     ThreadOwes
<1>4. AnsweredOnce' /\ ReportsFirst' /\ QueueInOrder' /\ NoOvertaking'
  BY <1>1 DEF IInv, AnsweredOnce, ReportsFirst, QueueInOrder, NoOvertaking
<1> QED
  BY <1>2, <1>3, <1>4 DEF IInv

-----------------------------------------------------------------------------
(* The invariant                                                           *)

LEMMA InitIInv == Init => IInv
<1> SUFFICES ASSUME Init PROVE IInv
  OBVIOUS
<1>1. /\ apiPc = "read" /\ todo = {} /\ openRequests = {} /\ freed = {} /\ toAnalyzeQueue = {}
      /\ internalIdCounter = 0 /\ numRequestsSoFar = 0 /\ target = <<-1, STATUS_TERMINATED>>
      /\ quitWithoutWaiting = FALSE /\ analyzeReadOnly = FALSE /\ writeReadOnly = FALSE
      /\ toWriteQueue = <<>>
      /\ status = [r \in InternalIds |-> STATUS_IN_QUEUE]
      /\ printed = [r \in InternalIds |-> 0]
  BY DEF Init, NoTarget
<1>2. /\ threadPc = [t \in Threads |-> "pop"] /\ job = [t \in Threads |-> -1]
      /\ shouldStopNow = [t \in Threads |-> FALSE] /\ isKilled = [t \in Threads |-> FALSE]
  BY DEF Init
<1>3. ApiTypes
  <2>1. internalIdCounter \in 0 .. MaxRequests /\ numRequestsSoFar \in Nat
    BY <1>1, Constants
  <2>2. target \in (InternalIds \cup {-1}) \X Statuses
    BY <1>1 DEF Statuses
  <2> QED
    BY <1>1, <2>1, <2>2 DEF ApiTypes, ApiPcs
<1>4. RequestTypes
  BY <1>1 DEF RequestTypes, Statuses
<1>5. ThreadTypes
  BY <1>1, <1>2 DEF ThreadTypes, ThreadPcs
<1>6. WriteTypes /\ AnsweredOnce /\ ReportsFirst
  <2>1. toWriteQueue \in Seq(Messages) /\ DOMAIN toWriteQueue = {}
    BY <1>1
  <2> QED
    BY <1>1, <2>1 DEF WriteTypes, AnsweredOnce, ReportsFirst
<1>7. QuitsLast /\ Terminated /\ StopsOnlyTerminated
  BY <1>1, <1>2 DEF QuitsLast, Terminated, Terminating, StopsOnlyTerminated, Searching
<1>8. QueuedOnce /\ HeldOnce
  BY <1>1, <1>2 DEF QueuedOnce, HeldOnce
<1>9. StatusTells /\ IndexTells
  BY <1>1, <1>2 DEF StatusTells, IndexTells
<1>10. AnsweredInTurn
  <2>1. DOMAIN toWriteQueue = {}
    BY <1>1
  <2> QED
    BY <1>1, <1>2, <2>1 DEF AnsweredInTurn, NoAnswerYet, MainOwes, ThreadOwes, AnswerOwed
<1>11. QueueInOrder /\ NoOvertaking
  BY <1>1, <1>2 DEF QueueInOrder, NoOvertaking
<1> QED
  BY <1>3, <1>4, <1>5, <1>6, <1>7, <1>8, <1>9, <1>10, <1>11 DEF IInv

LEMMA StutterKeeps ==
  ASSUME IInv, UNCHANGED vars
  PROVE  IInv'
<1>1. /\ UNCHANGED <<quitWithoutWaiting, apiPc, todo, target, internalIdCounter,
                     numRequestsSoFar, request, status, openRequests, freed>>
      /\ UNCHANGED <<toAnalyzeQueue, analyzeReadOnly, toWriteQueue, writeReadOnly, threadPc, job,
                     shouldStopNow, isKilled, printed>>
  BY DEF vars, apiVars, counters, requestVars, analyzeVars, writeVars, threadVars, botVars,
     writerVars
<1>2. ApiTypes' /\ RequestTypes' /\ ThreadTypes' /\ WriteTypes'
  BY <1>1 DEF IInv, ApiTypes, RequestTypes, ThreadTypes, WriteTypes
<1>3. QuitsLast' /\ QueuedOnce' /\ HeldOnce' /\ Terminated'
  BY <1>1 DEF IInv, QuitsLast, QueuedOnce, HeldOnce, Terminated, Terminating, Quitting
<1>4. StatusTells' /\ IndexTells' /\ StopsOnlyTerminated'
  BY <1>1 DEF IInv, StatusTells, IndexTells, StopsOnlyTerminated, Quitting, Searching
<1>5. AnsweredInTurn'
  BY <1>1 DEF IInv, AnsweredInTurn, Unanswered, NoAnswerYet, MainOwes, ThreadOwes
<1>6. AnsweredOnce' /\ ReportsFirst' /\ QueueInOrder' /\ NoOvertaking'
  BY <1>1 DEF IInv, AnsweredOnce, ReportsFirst, QueueInOrder, NoOvertaking
<1> QED
  BY <1>2, <1>3, <1>4, <1>5, <1>6 DEF IInv

LEMMA NextKeeps == IInv /\ [Next]_vars => IInv'
<1> SUFFICES ASSUME IInv, [Next]_vars PROVE IInv'
  OBVIOUS
<1>1. CASE Input
  BY <1>1, ReadQueryKeeps, ReadIllegalMovesKeeps, ReadTerminateKeeps, EndOfInputKeeps DEF Input
<1>2. CASE MainStep
  BY <1>2, PushRequestKeeps, TerminateRequestKeeps, ActOnTerminateKeeps, EchoTerminateKeeps,
     CloseWriteQueueKeeps, CloseAnalyzeQueueKeeps, StopBotKeeps, KillBotKeeps, JoinThreadsKeeps,
     JoinWriterKeeps DEF MainStep
<1>3. CASE WriterStep
  BY <1>3, WriteMessageKeeps, ExitWriterKeeps DEF WriterStep
<1>4. ASSUME NEW t \in Threads, ThreadStep(t) PROVE IInv'
  BY <1>4, PopRequestKeeps, ExitThreadKeeps, ClaimKeeps, GenMoveKeeps, DropSearchKeeps,
     OnSearchBegunKeeps, EndSearchKeeps, ReportAnalysisKeeps, ReportNoAnalysisKeeps,
     EraseRequestKeeps, DeleteRequestKeeps DEF ThreadStep, SeeShouldStop
<1>5. ASSUME NEW t \in Threads, EvaluateRoot(t) \/ ReportDuringSearch(t) \/ ReachLimits(t)
      PROVE  IInv'
  BY <1>5, EvaluateRootKeeps, ReportDuringSearchKeeps, EndSearchKeeps DEF ReachLimits
<1>6. CASE UNCHANGED vars
  BY <1>6, StutterKeeps
<1> QED
  BY <1>1, <1>2, <1>3, <1>4, <1>5, <1>6 DEF Next

\* The invariant holds of the engine.
THEOREM Invariance == Spec => []IInv
  BY InitIInv, NextKeeps, PTL DEF Spec

\* NoUseAfterFree: for any number of threads, nobody has a request that has been deleted, and a
\* terminate action finds every request that is not erased.
THEOREM RequestsOutliveUse == Spec => []NoUseAfterFree
<1>1. IInv => NoUseAfterFree
  BY DEF IInv, NoUseAfterFree, QueuedOnce, Terminated, HeldOnce
<1> QED
  BY <1>1, Invariance, PTL

\* AssertsHold: the assertions after the compare_exchanges of analysisLoop and of
\* onSearchBegun, and the one of forcePush, cannot fail.
THEOREM StatusAssertsHold == Spec => []AssertsHold
<1>1. IInv => AssertsHold
  BY DEF IInv, AssertsHold, StatusTells, QuitsLast, Quitting
<1> QED
  BY <1>1, Invariance, PTL

\* StopHitsTarget: terminateRequest stops the search of its own request and no other,
\* although it reads the index of the thread before it stops the bot.
THEOREM TerminateStopsTarget == Spec => []StopHitsTarget
<1>1. IInv => StopHitsTarget
  <2> SUFFICES ASSUME IInv, ~Quitting, NEW t \in Threads
               PROVE  /\ Searching(t) /\ shouldStopNow[t] => status[job[t]] = STATUS_TERMINATED
                      /\ apiPc = "act" /\ target[2] = t => job[t] = target[1]
    BY DEF StopHitsTarget
  <2>1. Searching(t) /\ shouldStopNow[t] => status[job[t]] = STATUS_TERMINATED
    BY DEF IInv, StopsOnlyTerminated
  <2>2. apiPc = "act" /\ target[2] = t => job[t] = target[1]
    BY DEF IInv, IndexTells
  <2> QED
    BY <2>1, <2>2
<1> QED
  BY <1>1, Invariance, PTL

\* OneFinalAnswer: whoever writes it, the main thread or the thread with the request, a
\* request gets no second final answer.
THEOREM AnsweredAtMostOnce == Spec => []OneFinalAnswer
<1>1. IInv => OneFinalAnswer
  <2> SUFFICES ASSUME IInv, NEW r \in InternalIds
               PROVE  printed[r] + Cardinality(FinalAnswers(r)) <= 1
    BY DEF OneFinalAnswer, Accepted
  <2>1. CASE FinalAnswers(r) = {}
    <3>1. Cardinality(FinalAnswers(r)) = 0
      BY <2>1, FS_EmptySet
    <3> QED
      BY <3>1 DEF IInv, AnsweredOnce
  <2>2. CASE FinalAnswers(r) # {}
    <3>1. PICK i \in FinalAnswers(r) : TRUE
      BY <2>2
    <3>2. printed[r] = 0 /\ FinalAnswers(r) = {i}
      BY <3>1 DEF IInv, AnsweredOnce, FinalAnswers
    <3>3. Cardinality(FinalAnswers(r)) = 1
      BY <3>2, FS_Singleton
    <3> QED
      BY <3>2, <3>3
  <2> QED
    BY <2>1, <2>2
<1> QED
  BY <1>1, Invariance, PTL

\* FinalAnswerIsLast: a report during the search does not follow the answer.
THEOREM AnswerComesLast == Spec => []FinalAnswerIsLast
<1>1. IInv => FinalAnswerIsLast
  BY DEF IInv, ReportsFirst, FinalAnswerIsLast, FinalAnswers
<1> QED
  BY <1>1, Invariance, PTL

\* NoOvertaking: the queue gives out requests by priority, and those of one priority in the
\* order in which they came.
THEOREM PriorityRespected == Spec => []NoOvertaking
<1>1. IInv => NoOvertaking
  BY DEF IInv
<1> QED
  BY <1>1, Invariance, PTL
-----------------------------------------------------------------------------
(* What is left when the engine has quit                                   *)

\* The engine quits and does not wait for its tasks.
Quick == Quitting /\ quitWithoutWaiting

\* In which order the queues are closed and the threads end: the threads leave no request
\* in their queue, the writer no line in its own, and an engine that waits for its tasks keeps
\* the output open until the threads have ended.
ThreadsEnded == apiPc \in {"joinWriter", "done"} \/ (apiPc = "closeWrite" /\ ~quitWithoutWaiting)
EndsInOrder ==
  /\ hasRoot \in [Threads -> BOOLEAN]
  /\ apiPc \in {"stopBots", "killBots"} => quitWithoutWaiting
  /\ writeReadOnly => Quick \/ apiPc \in {"joinWriter", "done"}
  /\ \A t \in Threads : threadPc[t] = "exited" => toAnalyzeQueue = {} /\ analyzeReadOnly
  /\ ThreadsEnded => \A t \in Threads : threadPc[t] = "exited"
  /\ writerPc = "exited" => toWriteQueue = <<>> /\ writeReadOnly
  /\ apiPc = "done" => writerPc = "exited"

\* An open request is about to be queued, in the queue, or with a thread; one that is not
\* open any more has been deleted, or is with the thread that is about to.
WithThread(r) == \E t \in Threads : job[t] = r
Placed ==
  /\ \A r \in openRequests :
       /\ request[r] \in Requests
       /\ \/ apiPc = "push" /\ r \in todo
          \/ \E x \in toAnalyzeQueue : x[2] = r
          \/ WithThread(r)
  /\ \A r \in Accepted : r \in openRequests \/ r \in freed \/ WithThread(r)

\* Unless the engine quits without waiting, a search is stopped because its request has been
\* terminated, and it is without results for no other reason.
WithoutResults(t) ==
  \/ Searching(t) /\ shouldStopNow[t]
  \/ threadPc[t] = "report" /\ ~hasRoot[t]
  \/ threadPc[t] = "reportFailed"
StopsWithReason ==
  ~Quick => \A t \in Threads :
    /\ ~isKilled[t]
    /\ WithoutResults(t) => status[job[t]] = STATUS_TERMINATED

\* Unless the engine quits without waiting, a request has its answer, or somebody is on the
\* way to answer it, or it waits for its turn.
HasAnswer(r) ==
  \/ printed[r] = 1
  \/ \E i \in DOMAIN toWriteQueue : Final(toWriteQueue[i]) /\ toWriteQueue[i].request = r
Answered ==
  ~Quick => \A r \in Accepted :
    \/ r \in openRequests /\ status[r] = STATUS_IN_QUEUE
    \/ MainOwes(r)
    \/ ThreadOwes(r)
    \/ HasAnswer(r)

QInv == EndsInOrder /\ Placed /\ StopsWithReason /\ Answered

\* A line that is queued takes no answer away, and may be one.
LEMMA LineQueued ==
  ASSUME WriteTypes, NEW m \in Messages, PushToWrite(m), printed' = printed
  PROVE  /\ writeReadOnly' = writeReadOnly
         /\ writeReadOnly => toWriteQueue' = toWriteQueue
         /\ \A r \in InternalIds : HasAnswer(r) => HasAnswer(r)'
         /\ ~writeReadOnly /\ Final(m) => HasAnswer(m.request)'
<1>1. writeReadOnly' = writeReadOnly /\ (writeReadOnly => toWriteQueue' = toWriteQueue)
  BY DEF PushToWrite
<1>2. CASE writeReadOnly
  BY <1>1, <1>2 DEF HasAnswer
<1>3. CASE ~writeReadOnly
  <2> DEFINE n == Len(toWriteQueue)
  <2>1. toWriteQueue' = Append(toWriteQueue, m) /\ toWriteQueue \in Seq(Messages)
    BY <1>3 DEF PushToWrite, WriteTypes
  <2>2. /\ Len(toWriteQueue') = n + 1 /\ toWriteQueue'[n + 1] = m
        /\ \A i \in 1 .. n : toWriteQueue'[i] = toWriteQueue[i]
    BY <2>1, AppendProperties
  <2>3. n \in Nat /\ DOMAIN toWriteQueue' = 1 .. n + 1 /\ DOMAIN toWriteQueue = 1 .. n
    BY <2>1, <2>2, AppendProperties, LenProperties
  <2> HIDE DEF n
  <2>4. \A r \in InternalIds : HasAnswer(r) => HasAnswer(r)'
    BY <2>2, <2>3 DEF HasAnswer
  <2>5. Final(m) => HasAnswer(m.request)'
    <3>1. n + 1 \in DOMAIN toWriteQueue'
      BY <2>3
    <3> QED
      BY <3>1, <2>2 DEF HasAnswer
  <2> QED
    BY <1>1, <1>3, <2>4, <2>5
<1> QED
  BY <1>2, <1>3

\* Nor does a line that is printed.
LEMMA AnswerPrinted ==
  ASSUME WriteTypes, AnsweredOnce, WriteMessage
  PROVE  \A r \in InternalIds : HasAnswer(r) => HasAnswer(r)'
<1> DEFINE n == Len(toWriteQueue)
           m == Head(toWriteQueue)
<1>1. toWriteQueue \in Seq(Messages) /\ toWriteQueue # <<>> /\ toWriteQueue' = Tail(toWriteQueue)
  BY DEF WriteTypes, WriteMessage
<1>2. /\ Len(Tail(toWriteQueue)) = n - 1 /\ Tail(toWriteQueue) \in Seq(Messages)
      /\ \A i \in 1 .. Len(Tail(toWriteQueue)) : Tail(toWriteQueue)[i] = toWriteQueue[i + 1]
  BY <1>1, HeadTailProperties
<1>3. n \in Nat \ {0} /\ m = toWriteQueue[1]
  BY <1>1, EmptySeq
<1>4. DOMAIN toWriteQueue = 1 .. n /\ DOMAIN toWriteQueue' = 1 .. n - 1
  BY <1>1, <1>2, LenProperties
<1>5. printed' = IF Final(m) THEN [printed EXCEPT ![m.request] = @ + 1] ELSE printed
  BY DEF WriteMessage
<1>6. \A i \in 1 .. n - 1 : toWriteQueue'[i] = toWriteQueue[i + 1]
  BY <1>1, <1>2
<1> HIDE DEF n, m
<1> SUFFICES ASSUME NEW r \in InternalIds, HasAnswer(r) PROVE HasAnswer(r)'
  OBVIOUS
<1>7. CASE printed[r] = 1
  <2>1. Final(m) => m.request \in InternalIds /\ printed[m.request] = 0
    BY <1>3, <1>4 DEF AnsweredOnce
  <2>2. printed'[r] = 1
    BY <1>5, <1>7, <2>1 DEF WriteTypes
  <2> QED
    BY <2>2 DEF HasAnswer
<1>8. ASSUME NEW i \in DOMAIN toWriteQueue, Final(toWriteQueue[i]), toWriteQueue[i].request = r
      PROVE  HasAnswer(r)'
  <2>1. CASE i = 1
    <3>1. Final(m) /\ m.request = r /\ printed[r] = 0
      BY <1>3, <1>8, <2>1 DEF AnsweredOnce
    <3>2. printed'[r] = 1
      BY <1>5, <3>1 DEF WriteTypes
    <3> QED
      BY <3>2 DEF HasAnswer
  <2>2. CASE i # 1
    <3>1. i - 1 \in 1 .. n - 1 /\ (i - 1) + 1 = i
      BY <1>3, <1>4, <2>2
    <3>2. i - 1 \in DOMAIN toWriteQueue' /\ toWriteQueue'[i - 1] = toWriteQueue[i]
      BY <1>4, <1>6, <3>1
    <3> QED
      BY <1>8, <3>2 DEF HasAnswer
  <2> QED
    BY <2>1, <2>2
<1> QED
  BY <1>7, <1>8 DEF HasAnswer

\* While a thread has not ended and the engine waits for its tasks, the output is open.
LEMMA OutputOpen ==
  ASSUME EndsInOrder, ~Quick, NEW t \in Threads, threadPc[t] # "exited"
  PROVE  ~writeReadOnly
BY DEF EndsInOrder, ThreadsEnded

-----------------------------------------------------------------------------
(* Steps that leave a part of the invariant alone                          *)

LEMMA EndsStay ==
  ASSUME EndsInOrder,
         UNCHANGED <<quitWithoutWaiting, apiPc, toAnalyzeQueue, analyzeReadOnly, writeReadOnly,
                     writerPc>>,
         hasRoot' \in [Threads -> BOOLEAN],
         \A t \in Threads : threadPc'[t] = "exited" <=> threadPc[t] = "exited",
         writeReadOnly => toWriteQueue' = toWriteQueue
  PROVE  EndsInOrder'
BY DEF EndsInOrder, ThreadsEnded, Quick, Quitting

LEMMA PlacesStay ==
  ASSUME Placed, UNCHANGED <<request, openRequests, freed, toAnalyzeQueue, job>>,
         apiPc' = "push" <=> apiPc = "push", apiPc = "push" => todo' = todo
  PROVE  Placed'
BY DEF Placed, WithThread, Accepted

LEMMA ReasonsStay ==
  ASSUME StopsWithReason, Quick => Quick', UNCHANGED <<threadPc, job>>,
         \A t \in Threads : /\ isKilled'[t] => isKilled[t] \/ Quick'
                            /\ shouldStopNow'[t] => shouldStopNow[t] \/ Quick'
                            /\ hasRoot[t] => hasRoot'[t]
                            /\ threadPc[t] \notin {"pop", "exited"} /\ status[job[t]] = STATUS_TERMINATED
                                 => status'[job[t]] = STATUS_TERMINATED
  PROVE  StopsWithReason'
BY DEF StopsWithReason, WithoutResults, Searching

LEMMA AnsweredStays ==
  ASSUME Answered, Quick => Quick', UNCHANGED <<target, request, openRequests, job>>,
         apiPc = "act" => apiPc' = "act",
         \A r \in InternalIds : /\ HasAnswer(r) => HasAnswer(r)'
                                /\ status[r] = STATUS_IN_QUEUE => status'[r] = STATUS_IN_QUEUE,
         \A t \in Threads : threadPc[t] \in AnswerOwed => threadPc'[t] \in AnswerOwed
  PROVE  Answered'
BY DEF Answered, Accepted, MainOwes, ThreadOwes

-----------------------------------------------------------------------------
(* The main thread reads and acts                                          *)

LEMMA ReadQueryLeaves ==
  ASSUME IInv, QInv, ReadQuery
  PROVE  QInv'
<1>1. /\ UNCHANGED <<quitWithoutWaiting, freed, toAnalyzeQueue, analyzeReadOnly, toWriteQueue,
                     writeReadOnly, threadPc, job, shouldStopNow, isKilled, hasRoot, writerPc,
                     printed>>
      /\ apiPc = "read" /\ apiPc' = "push"
  BY DEF ReadQuery, analyzeVars, writeVars, botVars, threadVars, writerVars
<1>2. PICK n \in 1 .. MaxRequests - internalIdCounter :
        \E asked \in [internalIdCounter .. internalIdCounter + n - 1 -> Requests] :
          /\ request' = [r \in InternalIds |->
               IF r \in internalIdCounter .. internalIdCounter + n - 1
               THEN asked[r] ELSE request[r]]
          /\ status' = [r \in InternalIds |->
               IF r \in internalIdCounter .. internalIdCounter + n - 1
               THEN STATUS_IN_QUEUE ELSE status[r]]
          /\ openRequests' = openRequests \cup internalIdCounter .. internalIdCounter + n - 1
          /\ todo' = internalIdCounter .. internalIdCounter + n - 1
  BY DEF ReadQuery
<1>a. todo' = internalIdCounter .. internalIdCounter + n - 1
  BY <1>2
<1>b. PICK asked \in [internalIdCounter .. internalIdCounter + n - 1 -> Requests] :
          /\ request' = [r \in InternalIds |->
               IF r \in internalIdCounter .. internalIdCounter + n - 1
               THEN asked[r] ELSE request[r]]
          /\ status' = [r \in InternalIds |->
               IF r \in internalIdCounter .. internalIdCounter + n - 1
               THEN STATUS_IN_QUEUE ELSE status[r]]
          /\ openRequests' = openRequests \cup internalIdCounter .. internalIdCounter + n - 1
  BY <1>2
<1>3. /\ request' = [r \in InternalIds |-> IF r \in todo' THEN asked[r] ELSE request[r]]
      /\ status' = [r \in InternalIds |-> IF r \in todo' THEN STATUS_IN_QUEUE ELSE status[r]]
      /\ openRequests' = openRequests \cup todo'
      /\ asked \in [todo' -> Requests]
  BY <1>a, <1>b
<1>4. \A r \in todo' : r \in InternalIds /\ r >= internalIdCounter
  BY <1>a, Places, Constants DEF InternalIds
<1>5. /\ \A r \in openRequests : r \in InternalIds /\ r \notin todo'
      /\ \A t \in Threads : job[t] \notin todo'
  BY <1>4, Places
<1>6. EndsInOrder'
  BY <1>1 DEF QInv, EndsInOrder, ThreadsEnded, Quick, Quitting
<1>7. Placed'
  <2>1. \A r \in openRequests' : request'[r] \in Requests
    BY <1>3, <1>4, <1>5 DEF QInv, Placed
  <2>2. \A r \in openRequests' : \/ apiPc' = "push" /\ r \in todo'
                                 \/ \E x \in toAnalyzeQueue' : x[2] = r
                                 \/ WithThread(r)'
    BY <1>1, <1>3 DEF QInv, Placed, WithThread
  <2>3. \A r \in Accepted' : r \in openRequests' \/ r \in freed' \/ WithThread(r)'
    BY <1>1, <1>3 DEF QInv, Placed, WithThread, Accepted
  <2> QED
    BY <2>1, <2>2, <2>3 DEF Placed
<1>8. StopsWithReason'
  <2>1. \A t \in Threads : threadPc[t] \notin {"pop", "exited"} /\ WithoutResults(t)
                             => job[t] \in InternalIds
    BY Places DEF WithoutResults, Searching
  <2> QED
    BY <1>1, <1>3, <1>5, <2>1
       DEF QInv, StopsWithReason, WithoutResults, Searching, Quick, Quitting
<1>9. Answered'
  <2> SUFFICES ASSUME NEW r \in Accepted'
               PROVE  \/ r \in openRequests' /\ status'[r] = STATUS_IN_QUEUE
                      \/ ThreadOwes(r)' \/ HasAnswer(r)'
    BY DEF Answered
  <2>1. CASE r \in todo'
    BY <1>3, <2>1 DEF Accepted
  <2>2. CASE r \notin todo'
    <3>1. r \in Accepted /\ status'[r] = status[r] /\ ~Quick
      BY <1>1, <1>3, <2>2 DEF Accepted, Quick, Quitting
    <3> QED
      BY <1>1, <1>3, <3>1 DEF QInv, Answered, MainOwes, ThreadOwes, HasAnswer
  <2> QED
    BY <2>1, <2>2
<1> QED
  BY <1>6, <1>7, <1>8, <1>9 DEF QInv

LEMMA OtherLine == Message("other", -1) \in Messages /\ ~Final(Message("other", -1))
BY DEF Message, Messages, Final

LEMMA ReadIllegalMovesLeaves ==
  ASSUME IInv, QInv, ReadIllegalMoves
  PROVE  QInv'
<1>1. /\ UNCHANGED <<quitWithoutWaiting, apiPc, todo, target, request, status, openRequests,
                     toAnalyzeQueue, analyzeReadOnly, threadPc, job, shouldStopNow, isKilled,
                     hasRoot, writerPc, printed>>
      /\ freed \subseteq freed'
      /\ PushToWrite(Message("other", -1))
  BY DEF ReadIllegalMoves, analyzeVars, botVars, threadVars, writerVars
<1>2. /\ writeReadOnly' = writeReadOnly
      /\ writeReadOnly => toWriteQueue' = toWriteQueue
      /\ \A r \in InternalIds : HasAnswer(r) => HasAnswer(r)'
  BY <1>1, OtherLine, LineQueued DEF IInv
<1>3. EndsInOrder'
  BY <1>1, <1>2, EndsStay DEF QInv, EndsInOrder
<1>4. Placed'
  BY <1>1 DEF QInv, Placed, WithThread, Accepted
<1>5. StopsWithReason'
  BY <1>1, ReasonsStay DEF QInv, Quick, Quitting
<1>6. Answered'
  BY <1>1, <1>2, AnsweredStays DEF QInv, Quick, Quitting
<1> QED
  BY <1>3, <1>4, <1>5, <1>6 DEF QInv

LEMMA PushRequestLeaves ==
  ASSUME IInv, QInv, PushRequest
  PROVE  QInv'
<1>1. /\ UNCHANGED <<quitWithoutWaiting, target, request, status, openRequests, freed,
                     analyzeReadOnly, toWriteQueue, writeReadOnly, threadPc, job, shouldStopNow,
                     isKilled, hasRoot, writerPc, printed>>
      /\ apiPc = "push" /\ apiPc' \in {"read", "push"}
  BY DEF PushRequest, requestVars, writeVars, botVars, threadVars, writerVars
<1>2. PICK r \in todo : /\ toAnalyzeQueue' = toAnalyzeQueue \cup {<<PriorityKey(r), r>>}
                        /\ todo' = todo \ {r}
                        /\ apiPc' = IF todo = {r} THEN "read" ELSE "push"
  <2>1. ~analyzeReadOnly
    BY <1>1 DEF IInv, QuitsLast, Quitting
  <2>2. todo \in SUBSET Nat /\ todo # {}
    BY <1>1, Constants DEF IInv, ApiTypes
  <2> QED
    BY <2>1, <2>2, MinFound DEF PushRequest
<1>3. EndsInOrder'
  <2>1. \A t \in Threads : threadPc[t] # "exited"
    BY <1>1 DEF IInv, QuitsLast, Quitting, QInv, EndsInOrder
  <2> QED
    BY <1>1, <2>1 DEF QInv, EndsInOrder, ThreadsEnded, Quick, Quitting
<1>4. Placed'
  <2>1. \A s \in openRequests : \/ apiPc' = "push" /\ s \in todo'
                                \/ \E x \in toAnalyzeQueue' : x[2] = s
                                \/ WithThread(s)
    <3>1. \E x \in toAnalyzeQueue' : x[2] = r
      <4>1. <<PriorityKey(r), r>> \in toAnalyzeQueue'
        BY <1>2
      <4>2. <<PriorityKey(r), r>>[2] = r
        OBVIOUS
      <4> QED
        BY <4>1, <4>2
    <3>2. \A s \in todo \ {r} : apiPc' = "push" /\ s \in todo'
      BY <1>2
    <3>3. toAnalyzeQueue \subseteq toAnalyzeQueue'
      BY <1>2
    <3> QED
      BY <3>1, <3>2, <3>3 DEF QInv, Placed
  <2> QED
    BY <1>1, <2>1 DEF QInv, Placed, WithThread, Accepted
<1>5. StopsWithReason'
  BY <1>1, ReasonsStay DEF QInv, Quick, Quitting
<1>6. Answered'
  <2>1. \A s \in InternalIds : HasAnswer(s)' = HasAnswer(s)
    BY <1>1 DEF HasAnswer
  <2> QED
    BY <1>1, <2>1, AnsweredStays DEF QInv, Quick, Quitting
<1> QED
  BY <1>3, <1>4, <1>5, <1>6 DEF QInv

LEMMA ReadTerminateLeaves ==
  ASSUME IInv, QInv, ReadTerminate
  PROVE  QInv'
<1>1. /\ UNCHANGED <<quitWithoutWaiting, target, requestVars, analyzeVars, writeVars, threadVars,
                     botVars, writerVars>>
      /\ apiPc = "read" /\ apiPc' = "terminate"
  BY DEF ReadTerminate
<1>2. UNCHANGED <<request, status, openRequests, freed, toAnalyzeQueue, analyzeReadOnly,
                  toWriteQueue, writeReadOnly, threadPc, job, shouldStopNow, isKilled, hasRoot,
                  writerPc, printed>>
  BY <1>1 DEF requestVars, analyzeVars, writeVars, threadVars, botVars, writerVars
<1>3. EndsInOrder'
  BY <1>1, <1>2 DEF QInv, EndsInOrder, ThreadsEnded, Quick, Quitting
<1>4. Placed'
  BY <1>1, <1>2, PlacesStay DEF QInv
<1>5. StopsWithReason'
  BY <1>1, <1>2, ReasonsStay DEF QInv, Quick, Quitting
<1>6. Answered'
  <2>1. \A r \in InternalIds : HasAnswer(r)' = HasAnswer(r)
    BY <1>2 DEF HasAnswer
  <2> QED
    BY <1>1, <1>2, <2>1, AnsweredStays DEF QInv, Quick, Quitting
<1> QED
  BY <1>3, <1>4, <1>5, <1>6 DEF QInv

LEMMA TerminateRequestLeaves ==
  ASSUME IInv, QInv, TerminateRequest
  PROVE  QInv'
<1>1. /\ UNCHANGED <<quitWithoutWaiting, request, openRequests, freed, analyzeVars, writeVars,
                     threadVars, botVars, writerVars>>
      /\ apiPc = "terminate" /\ apiPc' = "act"
  BY DEF TerminateRequest
<1>2. UNCHANGED <<toAnalyzeQueue, analyzeReadOnly, toWriteQueue, writeReadOnly, threadPc, job,
                  shouldStopNow, isKilled, hasRoot, writerPc, printed>>
  BY <1>1 DEF analyzeVars, writeVars, threadVars, botVars, writerVars
<1>3. PICK r \in InternalIds : /\ target' = <<r, status[r]>>
                               /\ status' = [status EXCEPT ![r] = STATUS_TERMINATED]
  <2>1. todo \in SUBSET Nat /\ todo # {} /\ todo \subseteq InternalIds
    BY <1>1, Constants DEF TerminateRequest, IInv, ApiTypes
  <2> QED
    BY <2>1, MinFound DEF TerminateRequest
<1>4. EndsInOrder'
  BY <1>1, <1>2 DEF QInv, EndsInOrder, ThreadsEnded, Quick, Quitting
<1>5. Placed'
  BY <1>1, <1>2, PlacesStay DEF QInv
<1>6. /\ status'[r] = STATUS_TERMINATED
      /\ \A s \in InternalIds \ {r} : status'[s] = status[s]
  BY <1>3 DEF IInv, RequestTypes
<1>7. StopsWithReason'
  <2>1. \A t \in Threads : threadPc[t] \notin {"pop", "exited"} => job[t] \in InternalIds
    BY Places DEF IInv, HeldOnce
  <2> QED
    BY <1>1, <1>2, <1>6, <2>1, ReasonsStay DEF QInv, Quick, Quitting
<1>8. Answered'
  <2> SUFFICES ASSUME ~Quick', NEW s \in Accepted
               PROVE  \/ s \in openRequests' /\ status'[s] = STATUS_IN_QUEUE
                      \/ MainOwes(s)' \/ ThreadOwes(s)' \/ HasAnswer(s)'
    BY <1>1 DEF Answered, Accepted
  <2>1. \/ s \in openRequests /\ status[s] = STATUS_IN_QUEUE
        \/ MainOwes(s) \/ ThreadOwes(s) \/ HasAnswer(s)
    BY <1>1 DEF QInv, Answered, Quick, Quitting
  <2>2. ~MainOwes(s)
    BY <1>1 DEF MainOwes
  <2>3. CASE s = r
    BY <1>1, <1>2, <1>3, <2>1, <2>2, <2>3 DEF MainOwes, ThreadOwes, HasAnswer
  <2>4. CASE s # r
    BY <1>1, <1>2, <1>6, <2>1, <2>2, <2>4 DEF ThreadOwes, HasAnswer, Accepted
  <2> QED
    BY <2>3, <2>4
<1> QED
  BY <1>4, <1>5, <1>7, <1>8 DEF QInv

LEMMA ActOnTerminateLeaves ==
  ASSUME IInv, QInv, ActOnTerminate
  PROVE  QInv'
<1>r. PICK r : r = target[1]
  OBVIOUS
<1>1. /\ UNCHANGED <<quitWithoutWaiting, todo, request, status, openRequests, freed,
                     toAnalyzeQueue, analyzeReadOnly, threadPc, job, isKilled, hasRoot, writerPc,
                     printed>>
      /\ apiPc = "act" /\ apiPc' = "terminate"
      /\ IF target[2] = STATUS_IN_QUEUE THEN PushToWrite(Message("noResults", r))
                                        ELSE UNCHANGED writeVars
      /\ IF target[2] \in Threads
         THEN shouldStopNow' = [shouldStopNow EXCEPT ![target[2]] = TRUE]
         ELSE UNCHANGED shouldStopNow
  BY <1>r DEF ActOnTerminate, AnswersInPlaceOf, requestVars, analyzeVars, threadVars, writerVars
<1>2. /\ r \in InternalIds /\ r \in openRequests /\ status[r] = STATUS_TERMINATED
      /\ target = <<r, target[2]>>
  <2>1. r \in openRequests /\ status[r] = STATUS_TERMINATED
    BY <1>r, <1>1 DEF IInv, Terminated
  <2>2. r \in InternalIds
    BY <2>1, Places
  <2> QED
    BY <1>r, <2>1, <2>2 DEF IInv, ApiTypes
<1>3. ~writeReadOnly
  BY <1>1 DEF QInv, EndsInOrder, Quick, Quitting
<1>4. /\ writeReadOnly' = writeReadOnly
      /\ \A s \in InternalIds : HasAnswer(s) => HasAnswer(s)'
      /\ target[2] = STATUS_IN_QUEUE => HasAnswer(r)'
  <2>1. CASE target[2] = STATUS_IN_QUEUE
    <3>1. /\ Message("noResults", r) \in Messages /\ Final(Message("noResults", r))
          /\ Message("noResults", r).request = r
      BY <1>2 DEF Message, Messages, Final
    <3>2. PushToWrite(Message("noResults", r)) /\ WriteTypes /\ printed' = printed
      BY <1>1, <2>1 DEF IInv
    <3> QED
      BY <1>3, <3>1, <3>2, LineQueued
  <2>2. CASE target[2] # STATUS_IN_QUEUE
    BY <1>1, <2>2 DEF HasAnswer, writeVars
  <2> QED
    BY <2>1, <2>2
<1>5. EndsInOrder'
  BY <1>1, <1>3, <1>4 DEF QInv, EndsInOrder, ThreadsEnded, Quick, Quitting
<1>6. Placed'
  BY <1>1, PlacesStay DEF QInv
<1>7. StopsWithReason'
  <2>1. \A t \in Threads : shouldStopNow'[t] => shouldStopNow[t] \/ t = target[2]
    BY <1>1 DEF IInv, ThreadTypes
  <2>2. target[2] \in Threads => job[target[2]] = r
    BY <1>r, <1>1 DEF IInv, IndexTells
  <2>3. ~Quick
    BY <1>1 DEF Quick, Quitting
  <2> SUFFICES ASSUME NEW t \in Threads
               PROVE  /\ ~isKilled'[t]
                      /\ WithoutResults(t)' => status'[job'[t]] = STATUS_TERMINATED
    BY DEF StopsWithReason
  <2>4. CASE t = target[2]
    BY <1>1, <1>2, <2>2, <2>3, <2>4 DEF QInv, StopsWithReason
  <2>5. CASE t # target[2]
    <3>1. WithoutResults(t)' => WithoutResults(t)
      BY <1>1, <2>1, <2>5 DEF WithoutResults, Searching
    <3> QED
      BY <1>1, <2>3, <3>1 DEF QInv, StopsWithReason
  <2> QED
    BY <2>4, <2>5
<1>8. Answered'
  <2> SUFFICES ASSUME NEW s \in Accepted
               PROVE  \/ s \in openRequests' /\ status'[s] = STATUS_IN_QUEUE
                      \/ ThreadOwes(s)' \/ HasAnswer(s)'
    BY <1>1 DEF Answered, Accepted
  <2>1. \/ s \in openRequests /\ status[s] = STATUS_IN_QUEUE
        \/ MainOwes(s) \/ ThreadOwes(s) \/ HasAnswer(s)
    BY <1>1 DEF QInv, Answered, Quick, Quitting
  <2>2. MainOwes(s) => s = r /\ target[2] = STATUS_IN_QUEUE
    BY <1>r DEF MainOwes
  <2> QED
    BY <1>1, <1>4, <2>1, <2>2 DEF ThreadOwes, Accepted
<1> QED
  BY <1>5, <1>6, <1>7, <1>8 DEF QInv

LEMMA EchoTerminateLeaves ==
  ASSUME IInv, QInv, EchoTerminate
  PROVE  QInv'
<1>1. /\ UNCHANGED <<quitWithoutWaiting, target, request, status, openRequests, freed,
                     toAnalyzeQueue, analyzeReadOnly, threadPc, job, shouldStopNow, isKilled,
                     hasRoot, writerPc, printed>>
      /\ apiPc = "terminate" /\ apiPc' = "read"
      /\ PushToWrite(Message("other", -1))
  BY DEF EchoTerminate, requestVars, analyzeVars, threadVars, botVars, writerVars
<1>2. /\ writeReadOnly' = writeReadOnly
      /\ writeReadOnly => toWriteQueue' = toWriteQueue
      /\ \A r \in InternalIds : HasAnswer(r) => HasAnswer(r)'
  BY <1>1, OtherLine, LineQueued DEF IInv
<1>3. EndsInOrder'
  BY <1>1, <1>2 DEF QInv, EndsInOrder, ThreadsEnded, Quick, Quitting
<1>4. Placed'
  BY <1>1, PlacesStay DEF QInv
<1>5. StopsWithReason'
  BY <1>1, ReasonsStay DEF QInv, Quick, Quitting
<1>6. Answered'
  BY <1>1, <1>2, AnsweredStays DEF QInv, Quick, Quitting
<1> QED
  BY <1>3, <1>4, <1>5, <1>6 DEF QInv

-----------------------------------------------------------------------------
(* The main thread quits                                                   *)

\* Steps of quitting change nothing but what is closed, who is stopped and where the main
\* thread is.
LEMMA QuittingLeaves ==
  ASSUME IInv, QInv, Quick => Quick', apiPc \notin {"push", "act"}, apiPc' # "push",
         UNCHANGED <<target, requestVars, toAnalyzeQueue, toWriteQueue, threadVars, hasRoot,
                     writerVars>>,
         \/ Quick'
         \/ UNCHANGED <<shouldStopNow, isKilled>>
  PROVE  Placed' /\ StopsWithReason' /\ Answered'
<1>1. UNCHANGED <<target, request, status, openRequests, freed, toAnalyzeQueue, toWriteQueue,
                  threadPc, job, hasRoot, writerPc, printed>>
  BY DEF requestVars, threadVars, writerVars
<1>2. Placed'
  BY <1>1, PlacesStay DEF QInv
<1>3. StopsWithReason'
  BY <1>1, ReasonsStay DEF QInv
<1>4. Answered'
  <2>1. \A r \in InternalIds : HasAnswer(r)' = HasAnswer(r)
    BY <1>1 DEF HasAnswer
  <2> QED
    BY <1>1, <2>1, AnsweredStays DEF QInv
<1> QED
  BY <1>2, <1>3, <1>4

LEMMA EndOfInputLeaves ==
  ASSUME IInv, QInv, EndOfInput
  PROVE  QInv'
<1>1. /\ apiPc = "read" /\ apiPc' = FirstClosed(quitWithoutWaiting')
      /\ UNCHANGED <<target, requestVars, toAnalyzeQueue, analyzeReadOnly, toWriteQueue,
                     writeReadOnly, threadVars, botVars, writerVars>>
  BY DEF EndOfInput, analyzeVars, writeVars
<1>2. EndsInOrder'
  BY <1>1 DEF QInv, EndsInOrder, ThreadsEnded, FirstClosed, Quick, Quitting, threadVars, botVars,
     writerVars
<1>3. Placed' /\ StopsWithReason' /\ Answered'
  BY <1>1, QuittingLeaves DEF FirstClosed, Quick, Quitting, botVars
<1> QED
  BY <1>2, <1>3 DEF QInv

LEMMA CloseWriteQueueLeaves ==
  ASSUME IInv, QInv, CloseWriteQueue
  PROVE  QInv'
<1>1. /\ apiPc = "closeWrite" /\ writeReadOnly' = TRUE
      /\ apiPc' = IF quitWithoutWaiting THEN "closeAnalyze" ELSE "joinWriter"
      /\ UNCHANGED <<quitWithoutWaiting, target, requestVars, toAnalyzeQueue, analyzeReadOnly,
                     toWriteQueue, threadVars, botVars, writerVars>>
  BY DEF CloseWriteQueue, analyzeVars
<1>2. EndsInOrder'
  BY <1>1 DEF QInv, EndsInOrder, ThreadsEnded, Quick, Quitting, threadVars, botVars, writerVars
<1>3. Placed' /\ StopsWithReason' /\ Answered'
  BY <1>1, QuittingLeaves DEF Quick, Quitting, botVars
<1> QED
  BY <1>2, <1>3 DEF QInv

LEMMA CloseAnalyzeQueueLeaves ==
  ASSUME IInv, QInv, CloseAnalyzeQueue
  PROVE  QInv'
<1>1. /\ apiPc = "closeAnalyze" /\ analyzeReadOnly' = TRUE
      /\ apiPc' = IF quitWithoutWaiting THEN "stopBots" ELSE "joinThreads"
      /\ UNCHANGED <<quitWithoutWaiting, target, requestVars, toAnalyzeQueue, toWriteQueue,
                     writeReadOnly, threadVars, botVars, writerVars>>
  BY DEF CloseAnalyzeQueue, writeVars
<1>2. EndsInOrder'
  BY <1>1 DEF QInv, EndsInOrder, ThreadsEnded, Quick, Quitting, threadVars, botVars, writerVars
<1>3. Placed' /\ StopsWithReason' /\ Answered'
  BY <1>1, QuittingLeaves DEF Quick, Quitting, botVars
<1> QED
  BY <1>2, <1>3 DEF QInv

LEMMA StopBotLeaves ==
  ASSUME IInv, QInv, StopBot
  PROVE  QInv'
<1>1. /\ apiPc = "stopBots" /\ apiPc' \in {"stopBots", "killBots"}
      /\ UNCHANGED <<quitWithoutWaiting, target, requestVars, toAnalyzeQueue, analyzeReadOnly,
                     toWriteQueue, writeReadOnly, threadVars, hasRoot, writerVars>>
  BY DEF StopBot, analyzeVars, writeVars
<1>2. EndsInOrder'
  BY <1>1 DEF QInv, EndsInOrder, ThreadsEnded, Quick, Quitting, threadVars, writerVars
<1>3. Placed' /\ StopsWithReason' /\ Answered'
  BY <1>1, QuittingLeaves DEF QInv, EndsInOrder, Quick, Quitting
<1> QED
  BY <1>2, <1>3 DEF QInv

LEMMA KillBotLeaves ==
  ASSUME IInv, QInv, KillBot
  PROVE  QInv'
<1>1. /\ apiPc = "killBots" /\ apiPc' \in {"killBots", "joinThreads"}
      /\ UNCHANGED <<quitWithoutWaiting, target, requestVars, toAnalyzeQueue, analyzeReadOnly,
                     toWriteQueue, writeReadOnly, threadVars, hasRoot, writerVars>>
  BY DEF KillBot, analyzeVars, writeVars
<1>2. EndsInOrder'
  BY <1>1 DEF QInv, EndsInOrder, ThreadsEnded, Quick, Quitting, threadVars, writerVars
<1>3. Placed' /\ StopsWithReason' /\ Answered'
  BY <1>1, QuittingLeaves DEF QInv, EndsInOrder, Quick, Quitting
<1> QED
  BY <1>2, <1>3 DEF QInv

LEMMA JoinThreadsLeaves ==
  ASSUME IInv, QInv, JoinThreads
  PROVE  QInv'
<1>1. /\ apiPc = "joinThreads" /\ \A t \in Threads : threadPc[t] = "exited"
      /\ apiPc' = IF quitWithoutWaiting THEN "joinWriter" ELSE "closeWrite"
      /\ UNCHANGED <<quitWithoutWaiting, target, requestVars, toAnalyzeQueue, analyzeReadOnly,
                     toWriteQueue, writeReadOnly, threadVars, botVars, writerVars>>
  BY DEF JoinThreads, analyzeVars, writeVars
<1>2. EndsInOrder'
  BY <1>1 DEF QInv, EndsInOrder, ThreadsEnded, Quick, Quitting, threadVars, botVars, writerVars
<1>3. Placed' /\ StopsWithReason' /\ Answered'
  BY <1>1, QuittingLeaves DEF Quick, Quitting, botVars
<1> QED
  BY <1>2, <1>3 DEF QInv

LEMMA JoinWriterLeaves ==
  ASSUME IInv, QInv, JoinWriter
  PROVE  QInv'
<1>1. /\ apiPc = "joinWriter" /\ writerPc = "exited" /\ apiPc' = "done"
      /\ UNCHANGED <<quitWithoutWaiting, target, requestVars, toAnalyzeQueue, analyzeReadOnly,
                     toWriteQueue, writeReadOnly, threadVars, botVars, writerVars>>
  BY DEF JoinWriter, analyzeVars, writeVars
<1>2. EndsInOrder'
  BY <1>1 DEF QInv, EndsInOrder, ThreadsEnded, Quick, Quitting, threadVars, botVars, writerVars
<1>3. Placed' /\ StopsWithReason' /\ Answered'
  BY <1>1, QuittingLeaves DEF Quick, Quitting, botVars
<1> QED
  BY <1>2, <1>3 DEF QInv

-----------------------------------------------------------------------------
(* The analysis threads                                                    *)

LEMMA PopRequestLeaves ==
  ASSUME IInv, QInv, NEW t \in Threads, PopRequest(t)
  PROVE  QInv'
<1>1. UNCHANGED <<apiVars, requestVars, analyzeReadOnly, writeVars, botVars, writerVars>>
  BY DEF PopRequest
<1>2. UNCHANGED <<quitWithoutWaiting, apiPc, todo, target, request, status, openRequests, freed,
                  analyzeReadOnly, toWriteQueue, writeReadOnly, shouldStopNow, isKilled, hasRoot,
                  writerPc, printed>>
  BY <1>1 DEF apiVars, requestVars, writeVars, botVars, writerVars
<1>3. PICK top \in toAnalyzeQueue : /\ toAnalyzeQueue' = toAnalyzeQueue \ {top}
                                    /\ job' = [job EXCEPT ![t] = top[2]]
  BY DEF PopRequest
<1>4. /\ threadPc[t] = "pop" /\ threadPc'[t] = "claim" /\ job[t] = -1 /\ job'[t] = top[2]
      /\ \A u \in Threads \ {t} : threadPc'[u] = threadPc[u] /\ job'[u] = job[u]
  BY <1>3 DEF PopRequest, Goto, IInv, ThreadTypes, HeldOnce
<1>5. EndsInOrder'
  <2>1. \A u \in Threads : threadPc[u] # "exited"
    BY <1>3 DEF QInv, EndsInOrder
  <2>2. \A u \in Threads : threadPc'[u] # "exited"
    BY <1>4, <2>1
  <2> QED
    BY <1>2, <1>4, <2>1, <2>2 DEF QInv, EndsInOrder, ThreadsEnded, Quick, Quitting
<1>6. Placed'
  <2>1. \A r \in InternalIds : WithThread(r) => WithThread(r)'
    BY <1>4, Constants DEF WithThread
  <2>2. WithThread(top[2])'
    BY <1>4 DEF WithThread
  <2>3. \A r \in openRequests : \/ apiPc' = "push" /\ r \in todo'
                                \/ \E x \in toAnalyzeQueue' : x[2] = r
                                \/ WithThread(r)'
    <3> SUFFICES ASSUME NEW r \in openRequests,
                        ~(apiPc' = "push" /\ r \in todo'), ~WithThread(r)'
                 PROVE  \E x \in toAnalyzeQueue' : x[2] = r
      OBVIOUS
    <3>1. r \in InternalIds
      BY Places
    <3>2. PICK x \in toAnalyzeQueue : x[2] = r
      BY <1>2, <2>1, <3>1 DEF QInv, Placed
    <3>3. x # top
      BY <2>2, <3>2
    <3> QED
      BY <1>3, <3>2, <3>3
  <2>4. \A r \in Accepted' : r \in openRequests' \/ r \in freed' \/ WithThread(r)'
    BY <1>2, <2>1 DEF QInv, Placed, Accepted
  <2> QED
    BY <1>2, <2>3, <2>4 DEF QInv, Placed
<1>7. StopsWithReason'
  BY <1>2, <1>4 DEF QInv, StopsWithReason, WithoutResults, Searching, Quick, Quitting
<1>8. Answered'
  <2>1. \A r \in InternalIds : ThreadOwes(r) => ThreadOwes(r)'
    BY <1>4 DEF ThreadOwes, AnswerOwed
  <2>2. \A r \in InternalIds : HasAnswer(r)' = HasAnswer(r)
    BY <1>2 DEF HasAnswer
  <2> QED
    BY <1>2, <2>1, <2>2 DEF QInv, Answered, Accepted, MainOwes, Quick, Quitting
<1> QED
  BY <1>5, <1>6, <1>7, <1>8 DEF QInv

LEMMA ExitThreadLeaves ==
  ASSUME IInv, QInv, NEW t \in Threads, ExitThread(t)
  PROVE  QInv'
<1>1. UNCHANGED <<apiVars, requestVars, analyzeVars, writeVars, botVars, writerVars>>
  BY DEF ExitThread
<1>2. UNCHANGED <<quitWithoutWaiting, apiPc, todo, target, request, status, openRequests, freed,
                  toAnalyzeQueue, analyzeReadOnly, toWriteQueue, writeReadOnly, job,
                  shouldStopNow, isKilled, hasRoot, writerPc, printed>>
  BY <1>1 DEF ExitThread, apiVars, requestVars, analyzeVars, writeVars, botVars, writerVars
<1>3. /\ threadPc[t] = "pop" /\ threadPc'[t] = "exited"
      /\ toAnalyzeQueue = {} /\ analyzeReadOnly
      /\ \A u \in Threads \ {t} : threadPc'[u] = threadPc[u]
  BY DEF ExitThread, Goto, IInv, ThreadTypes
<1>4. EndsInOrder'
  <2>1. ~ThreadsEnded
    BY <1>3 DEF QInv, EndsInOrder
  <2> QED
    BY <1>2, <1>3, <2>1 DEF QInv, EndsInOrder, ThreadsEnded, Quick, Quitting
<1>5. Placed'
  BY <1>2, PlacesStay DEF QInv
<1>6. StopsWithReason'
  BY <1>2, <1>3 DEF QInv, StopsWithReason, WithoutResults, Searching, Quick, Quitting
<1>7. Answered'
  <2>1. \A r \in InternalIds : HasAnswer(r)' = HasAnswer(r)
    BY <1>2 DEF HasAnswer
  <2> QED
    BY <1>2, <1>3, <2>1, AnsweredStays DEF QInv, AnswerOwed, Quick, Quitting
<1> QED
  BY <1>4, <1>5, <1>6, <1>7 DEF QInv

\* A step of thread t with its request, which stays where it is.
AtWork(t, place) ==
  /\ UNCHANGED <<quitWithoutWaiting, apiPc, todo, target, request, openRequests, freed>>
  /\ UNCHANGED <<toAnalyzeQueue, analyzeReadOnly, writeReadOnly, job, isKilled, writerPc, printed>>
  /\ writeReadOnly => toWriteQueue' = toWriteQueue
  /\ threadPc[t] \notin {"pop", "exited"} /\ place \notin {"pop", "exited"}
  /\ threadPc'[t] = place
  /\ \A u \in Threads \ {t} : /\ threadPc'[u] = threadPc[u]
                              /\ shouldStopNow'[u] = shouldStopNow[u]
                              /\ hasRoot'[u] = hasRoot[u]
                              /\ job[u] \in InternalIds => status'[job[u]] = status[job[u]]
  /\ hasRoot' \in [Threads -> BOOLEAN]

LEMMA WorkLeaves ==
  ASSUME IInv, QInv, NEW t \in Threads, NEW place, AtWork(t, place)
  PROVE  /\ EndsInOrder' /\ Placed'
         /\ (~Quick => (WithoutResults(t)' => status'[job[t]] = STATUS_TERMINATED))
              => StopsWithReason'
<1>1. EndsInOrder'
  <2>1. \A u \in Threads : threadPc'[u] = "exited" <=> threadPc[u] = "exited"
    BY DEF AtWork
  <2> QED
    BY <2>1, EndsStay DEF QInv, AtWork
<1>2. Placed'
  BY PlacesStay DEF QInv, AtWork
<1>3. ASSUME ~Quick => (WithoutResults(t)' => status'[job[t]] = STATUS_TERMINATED)
      PROVE  StopsWithReason'
  <2>1. Quick' = Quick
    BY DEF AtWork, Quick, Quitting
  <2> SUFFICES ASSUME ~Quick, NEW u \in Threads
               PROVE  /\ ~isKilled'[u]
                      /\ WithoutResults(u)' => status'[job'[u]] = STATUS_TERMINATED
    BY <2>1 DEF StopsWithReason
  <2>2. ~isKilled'[u]
    BY DEF QInv, StopsWithReason, AtWork
  <2>3. CASE u = t
    BY <1>3, <2>2, <2>3 DEF AtWork
  <2>4. CASE u # t
    <3>1. WithoutResults(u)' = WithoutResults(u)
      BY <2>4 DEF AtWork, WithoutResults, Searching
    <3>2. WithoutResults(u) => job[u] \in InternalIds
      BY Places DEF WithoutResults, Searching
    <3> QED
      BY <2>2, <2>4, <3>1, <3>2 DEF QInv, StopsWithReason, AtWork
  <2> QED
    BY <2>3, <2>4
<1> QED
  BY <1>1, <1>2, <1>3

LEMMA ClaimLeaves ==
  ASSUME IInv, QInv, NEW t \in Threads, Claim(t)
  PROVE  QInv'
<1>1. UNCHANGED <<apiVars, request, openRequests, freed, analyzeVars, writeVars, job, botVars,
                  writerVars>>
  BY DEF Claim
<1>2. UNCHANGED <<quitWithoutWaiting, apiPc, todo, target, request, openRequests, freed,
                  toAnalyzeQueue, analyzeReadOnly, toWriteQueue, writeReadOnly, job,
                  shouldStopNow, isKilled, hasRoot, writerPc, printed>>
  BY <1>1 DEF apiVars, analyzeVars, writeVars, botVars, writerVars
<1>r. PICK r \in InternalIds : r = job[t] /\ \A u \in Threads \ {t} : job[u] # r
  BY Places DEF Claim
<1>3. /\ threadPc[t] = "claim"
      /\ \/ /\ status[r] = STATUS_IN_QUEUE /\ threadPc'[t] = "genMove"
            /\ status'[r] = STATUS_POPPED
            /\ \A s \in InternalIds \ {r} : status'[s] = status[s]
         \/ status[r] # STATUS_IN_QUEUE /\ threadPc'[t] = "erase" /\ status' = status
      /\ \A u \in Threads \ {t} : threadPc'[u] = threadPc[u]
  BY <1>r DEF Claim, StatusOfClaimed, Goto, IInv, ThreadTypes, RequestTypes
<1>4. AtWork(t, threadPc'[t])
  BY <1>2, <1>r, <1>3 DEF AtWork, QInv, EndsInOrder
<1>5. ~WithoutResults(t)'
  BY <1>3 DEF WithoutResults, Searching
<1>6. Answered'
  <2> SUFFICES ASSUME ~Quick', NEW s \in Accepted
               PROVE  \/ s \in openRequests' /\ status'[s] = STATUS_IN_QUEUE
                      \/ MainOwes(s)' \/ ThreadOwes(s)' \/ HasAnswer(s)'
    BY <1>2 DEF Answered, Accepted
  <2>1. \/ s \in openRequests /\ status[s] = STATUS_IN_QUEUE
        \/ MainOwes(s) \/ ThreadOwes(s) \/ HasAnswer(s)
    BY <1>2 DEF QInv, Answered, Quick, Quitting
  <2>2. (MainOwes(s) => MainOwes(s)') /\ (HasAnswer(s) => HasAnswer(s)')
    BY <1>2 DEF MainOwes, HasAnswer
  <2>3. ThreadOwes(s) => ThreadOwes(s)'
    BY <1>2, <1>3 DEF ThreadOwes, AnswerOwed
  <2>4. CASE s = r /\ status[r] = STATUS_IN_QUEUE
    BY <1>2, <1>r, <1>3, <2>4 DEF ThreadOwes, AnswerOwed
  <2>5. CASE ~(s = r /\ status[r] = STATUS_IN_QUEUE)
    <3>1. status[s] = STATUS_IN_QUEUE => status'[s] = STATUS_IN_QUEUE
      BY <1>3, <2>5 DEF Accepted
    <3> QED
      BY <1>2, <2>1, <2>2, <2>3, <3>1
  <2> QED
    BY <2>4, <2>5
<1> QED
  BY <1>4, <1>5, <1>6, WorkLeaves DEF QInv

\* A step within a search, from GenMove to its report: the answer goes on being owed.
LEMMA SearchLeaves ==
  ASSUME IInv, QInv, NEW t \in Threads, NEW place, AtWork(t, place),
         threadPc[t] \in AnswerOwed, place \in AnswerOwed,
         \A r \in InternalIds : /\ HasAnswer(r) => HasAnswer(r)'
                                /\ status[r] = STATUS_IN_QUEUE => status'[r] = STATUS_IN_QUEUE,
         ~Quick => (WithoutResults(t)' => status'[job[t]] = STATUS_TERMINATED)
  PROVE  QInv'
<1>1. EndsInOrder' /\ Placed' /\ StopsWithReason'
  BY WorkLeaves
<1>2. \A u \in Threads : threadPc[u] \in AnswerOwed => threadPc'[u] \in AnswerOwed
  BY DEF AtWork
<1>3. Answered'
  BY <1>2, AnsweredStays DEF QInv, AtWork, Quick, Quitting
<1> QED
  BY <1>1, <1>3 DEF QInv

LEMMA GenMoveLeaves ==
  ASSUME IInv, QInv, NEW t \in Threads, GenMove(t)
  PROVE  QInv'
<1>1. UNCHANGED <<apiVars, requestVars, analyzeVars, writeVars, job, isKilled, writerVars>>
  BY DEF GenMove
<1>2. UNCHANGED <<quitWithoutWaiting, apiPc, todo, target, request, status, openRequests, freed,
                  toAnalyzeQueue, analyzeReadOnly, toWriteQueue, writeReadOnly, job, isKilled,
                  writerPc, printed>>
  BY <1>1 DEF apiVars, requestVars, analyzeVars, writeVars, writerVars
<1>3. /\ threadPc[t] = "genMove" /\ threadPc'[t] \in {"report", "queued"}
      /\ ~isKilled[t] => threadPc'[t] = "queued" /\ ~shouldStopNow'[t]
      /\ \A u \in Threads \ {t} : /\ threadPc'[u] = threadPc[u]
                                  /\ shouldStopNow'[u] = shouldStopNow[u]
                                  /\ hasRoot'[u] = hasRoot[u]
      /\ hasRoot' \in [Threads -> BOOLEAN]
  BY DEF GenMove, Goto, IInv, ThreadTypes, QInv, EndsInOrder
<1>4. AtWork(t, threadPc'[t])
  BY <1>2, <1>3 DEF AtWork
<1>5. ~Quick => ~WithoutResults(t)'
  BY <1>3 DEF QInv, StopsWithReason, WithoutResults, Searching
<1>6. \A r \in InternalIds : HasAnswer(r)' = HasAnswer(r)
  BY <1>2 DEF HasAnswer
<1> QED
  BY <1>2, <1>3, <1>4, <1>5, <1>6, SearchLeaves DEF AnswerOwed

LEMMA DropSearchLeaves ==
  ASSUME IInv, QInv, NEW t \in Threads, DropSearch(t)
  PROVE  QInv'
<1>1. UNCHANGED <<apiVars, requestVars, analyzeVars, writeVars, job, botVars, writerVars>>
  BY DEF DropSearch
<1>2. UNCHANGED <<quitWithoutWaiting, apiPc, todo, target, request, status, openRequests, freed,
                  toAnalyzeQueue, analyzeReadOnly, toWriteQueue, writeReadOnly, job, isKilled,
                  shouldStopNow, hasRoot, writerPc, printed>>
  BY <1>1 DEF apiVars, requestVars, analyzeVars, writeVars, botVars, writerVars
<1>3. /\ threadPc[t] = "queued" /\ threadPc'[t] = "report" /\ isKilled[t]
      /\ \A u \in Threads \ {t} : threadPc'[u] = threadPc[u]
  BY DEF DropSearch, Goto, IInv, ThreadTypes
<1>4. AtWork(t, "report")
  BY <1>2, <1>3 DEF AtWork, QInv, EndsInOrder
<1>5. Quick
  BY <1>3 DEF QInv, StopsWithReason
<1>6. \A r \in InternalIds : HasAnswer(r)' = HasAnswer(r)
  BY <1>2 DEF HasAnswer
<1> QED
  BY <1>2, <1>3, <1>4, <1>5, <1>6, SearchLeaves DEF AnswerOwed

LEMMA OnSearchBegunLeaves ==
  ASSUME IInv, QInv, NEW t \in Threads, OnSearchBegun(t)
  PROVE  QInv'
<1>1. UNCHANGED <<apiVars, request, openRequests, freed, analyzeVars, writeVars, job, isKilled,
                  hasRoot, writerVars>>
  BY DEF OnSearchBegun
<1>2. UNCHANGED <<quitWithoutWaiting, apiPc, todo, target, request, openRequests, freed,
                  toAnalyzeQueue, analyzeReadOnly, toWriteQueue, writeReadOnly, job, isKilled,
                  hasRoot, writerPc, printed>>
  BY <1>1 DEF apiVars, analyzeVars, writeVars, writerVars
<1>r. PICK r \in InternalIds : r = job[t] /\ \A u \in Threads \ {t} : job[u] # r
  BY Places DEF OnSearchBegun
<1>3. /\ threadPc[t] = "queued" /\ threadPc'[t] = "searching"
      /\ status[r] = STATUS_POPPED => status'[r] = t
      /\ status[r] # STATUS_POPPED => status'[r] = status[r]
      /\ \A s \in InternalIds \ {r} : status'[s] = status[s]
      /\ shouldStopNow'[t] => shouldStopNow[t] \/ status[r] # STATUS_POPPED
      /\ \A u \in Threads \ {t} : /\ threadPc'[u] = threadPc[u]
                                  /\ shouldStopNow'[u] = shouldStopNow[u]
  BY <1>r DEF OnSearchBegun, StopsOwnSearch, Goto, IInv, ThreadTypes, RequestTypes
<1>4. AtWork(t, "searching")
  BY <1>2, <1>r, <1>3 DEF AtWork, QInv, EndsInOrder
<1>5. ~Quick => (WithoutResults(t)' => status'[job[t]] = STATUS_TERMINATED)
  <2>1. status[r] \in {STATUS_POPPED, STATUS_TERMINATED}
    BY <1>r, <1>3 DEF IInv, StatusTells
  <2>2. ~Quick /\ shouldStopNow[t] => status[r] = STATUS_TERMINATED
    BY <1>r, <1>3 DEF QInv, StopsWithReason, WithoutResults, Searching
  <2>3. WithoutResults(t)' => shouldStopNow'[t]
    BY <1>3 DEF WithoutResults, Searching
  <2> QED
    BY <1>r, <1>3, <2>1, <2>2, <2>3, Constants
<1>6. \A s \in InternalIds : /\ HasAnswer(s) => HasAnswer(s)'
                             /\ status[s] = STATUS_IN_QUEUE => status'[s] = STATUS_IN_QUEUE
  BY <1>2, <1>3, Constants DEF HasAnswer
<1> QED
  BY <1>3, <1>4, <1>5, <1>6, SearchLeaves DEF AnswerOwed

LEMMA EvaluateRootLeaves ==
  ASSUME IInv, QInv, NEW t \in Threads, EvaluateRoot(t)
  PROVE  QInv'
<1>1. UNCHANGED <<apiVars, requestVars, analyzeVars, writeVars, threadVars, shouldStopNow,
                  isKilled, writerVars>>
  BY DEF EvaluateRoot
<1>2. UNCHANGED <<quitWithoutWaiting, apiPc, todo, target, request, status, openRequests, freed,
                  toAnalyzeQueue, analyzeReadOnly, toWriteQueue, writeReadOnly, threadPc, job,
                  isKilled, shouldStopNow, writerPc, printed>>
  BY <1>1 DEF apiVars, requestVars, analyzeVars, writeVars, threadVars, writerVars
<1>3. /\ threadPc[t] = "searching"
      /\ hasRoot' \in [Threads -> BOOLEAN]
      /\ \A u \in Threads \ {t} : hasRoot'[u] = hasRoot[u]
  BY DEF EvaluateRoot, QInv, EndsInOrder
<1>4. AtWork(t, "searching")
  BY <1>2, <1>3 DEF AtWork
<1>5. ~Quick => (WithoutResults(t)' => status'[job[t]] = STATUS_TERMINATED)
  BY <1>2, <1>3 DEF QInv, StopsWithReason, WithoutResults, Searching
<1>6. \A r \in InternalIds : HasAnswer(r)' = HasAnswer(r)
  BY <1>2 DEF HasAnswer
<1> QED
  BY <1>2, <1>3, <1>4, <1>5, <1>6, SearchLeaves DEF AnswerOwed

LEMMA ReportDuringSearchLeaves ==
  ASSUME IInv, QInv, NEW t \in Threads, ReportDuringSearch(t)
  PROVE  QInv'
<1>1. UNCHANGED <<apiVars, requestVars, analyzeVars, threadVars, botVars, writerVars>>
  BY DEF ReportDuringSearch
<1>2. UNCHANGED <<quitWithoutWaiting, apiPc, todo, target, request, status, openRequests, freed,
                  toAnalyzeQueue, analyzeReadOnly, threadPc, job, isKilled, shouldStopNow,
                  hasRoot, writerPc, printed>>
  BY <1>1 DEF apiVars, requestVars, analyzeVars, threadVars, botVars, writerVars
<1>3. threadPc[t] = "searching" /\ PushToWrite(Message("duringSearch", job[t]))
  BY DEF ReportDuringSearch
<1>4. /\ writeReadOnly' = writeReadOnly
      /\ writeReadOnly => toWriteQueue' = toWriteQueue
      /\ \A r \in InternalIds : HasAnswer(r) => HasAnswer(r)'
  <2>1. job[t] \in InternalIds
    BY <1>3, Places
  <2>2. Message("duringSearch", job[t]) \in Messages
    BY <2>1 DEF Message, Messages
  <2> QED
    BY <1>2, <1>3, <2>2, LineQueued DEF IInv
<1>5. AtWork(t, "searching")
  BY <1>2, <1>3, <1>4 DEF AtWork, QInv, EndsInOrder
<1>6. ~Quick => (WithoutResults(t)' => status'[job[t]] = STATUS_TERMINATED)
  BY <1>2 DEF QInv, StopsWithReason, WithoutResults, Searching
<1> QED
  BY <1>2, <1>3, <1>4, <1>5, <1>6, SearchLeaves DEF AnswerOwed

\* A search without results that has not been told to stop is one of zero visits.
LEMMA EndSearchLeaves ==
  ASSUME IInv, QInv, TRUE \notin ZeroCaps, NEW t \in Threads, EndSearch(t),
         shouldStopNow[t] \/ hasRoot[t] \/ request[job[t]].zeroCap
  PROVE  QInv'
<1>1. UNCHANGED <<apiVars, requestVars, analyzeVars, writeVars, job, isKilled, hasRoot, writerVars>>
  BY DEF EndSearch
<1>2. UNCHANGED <<quitWithoutWaiting, apiPc, todo, target, request, status, openRequests, freed,
                  toAnalyzeQueue, analyzeReadOnly, toWriteQueue, writeReadOnly, job, isKilled,
                  hasRoot, writerPc, printed>>
  BY <1>1 DEF apiVars, requestVars, analyzeVars, writeVars, writerVars
<1>3. /\ threadPc[t] = "searching" /\ threadPc'[t] = "report"
      /\ \A u \in Threads \ {t} : /\ threadPc'[u] = threadPc[u]
                                  /\ shouldStopNow'[u] = shouldStopNow[u]
  BY DEF EndSearch, Goto, IInv, ThreadTypes
<1>4. AtWork(t, "report")
  BY <1>2, <1>3 DEF AtWork, QInv, EndsInOrder
<1>5. shouldStopNow[t] \/ hasRoot[t]
  <2>1. job[t] \in openRequests
    BY <1>3, Places
  <2>2. request[job[t]].zeroCap \in ZeroCaps /\ ZeroCaps \subseteq BOOLEAN
    BY <2>1, AnalysisAssumption DEF QInv, Placed, Requests
  <2> QED
    BY <2>2
<1>6. ~Quick => (WithoutResults(t)' => status'[job[t]] = STATUS_TERMINATED)
  BY <1>2, <1>3, <1>5 DEF QInv, StopsWithReason, WithoutResults, Searching
<1>7. \A r \in InternalIds : HasAnswer(r)' = HasAnswer(r)
  BY <1>2 DEF HasAnswer
<1> QED
  BY <1>2, <1>3, <1>4, <1>6, <1>7, SearchLeaves DEF AnswerOwed

\* The thread has pushed its line, and its request is answered if it was owed an answer.
LEMMA ReportLeaves ==
  ASSUME IInv, QInv, NEW t \in Threads, NEW place \in {"erase", "reportFailed"},
         AtWork(t, place), threadPc[t] \in {"report", "reportFailed"},
         UNCHANGED status,
         \A r \in InternalIds : HasAnswer(r) => HasAnswer(r)',
         ~Quick /\ place = "erase" => HasAnswer(job[t])',
         ~Quick /\ place = "reportFailed" => status[job[t]] = STATUS_TERMINATED
  PROVE  QInv'
<1>1. WithoutResults(t)' => place = "reportFailed"
  BY DEF AtWork, WithoutResults, Searching
<1>2. EndsInOrder' /\ Placed' /\ StopsWithReason'
  BY <1>1, WorkLeaves
<1>3. Answered'
  <2> SUFFICES ASSUME ~Quick, NEW r \in Accepted
               PROVE  \/ r \in openRequests' /\ status'[r] = STATUS_IN_QUEUE
                      \/ MainOwes(r)' \/ ThreadOwes(r)' \/ HasAnswer(r)'
    BY DEF Answered, Accepted, AtWork, Quick, Quitting
  <2>1. \/ r \in openRequests /\ status[r] = STATUS_IN_QUEUE
        \/ MainOwes(r) \/ ThreadOwes(r) \/ HasAnswer(r)
    BY DEF QInv, Answered
  <2>2. /\ HasAnswer(r) => HasAnswer(r)'
        /\ MainOwes(r) => MainOwes(r)'
        /\ openRequests' = openRequests
    BY DEF Accepted, AtWork, MainOwes
  <2>3. ASSUME NEW u \in Threads, job[u] = r, threadPc[u] \in AnswerOwed
        PROVE  ThreadOwes(r)' \/ HasAnswer(r)'
    <3>1. CASE u # t
      BY <2>3, <3>1 DEF AtWork, ThreadOwes
    <3>2. CASE u = t /\ place = "erase"
      BY <2>3, <3>2 DEF AtWork
    <3>3. CASE u = t /\ place = "reportFailed"
      BY <2>3, <3>3 DEF AtWork, ThreadOwes, AnswerOwed
    <3> QED
      BY <3>1, <3>2, <3>3
  <2> QED
    BY <2>1, <2>2, <2>3 DEF ThreadOwes
<1> QED
  BY <1>2, <1>3 DEF QInv

LEMMA ReportAnalysisLeaves ==
  ASSUME IInv, QInv, NEW t \in Threads, ReportAnalysis(t)
  PROVE  QInv'
<1>1. UNCHANGED <<apiVars, requestVars, analyzeVars, job, botVars, writerVars>>
  BY DEF ReportAnalysis
<1>2. UNCHANGED <<quitWithoutWaiting, apiPc, todo, target, request, status, openRequests, freed,
                  toAnalyzeQueue, analyzeReadOnly, job, isKilled, shouldStopNow, hasRoot,
                  writerPc, printed>>
  BY <1>1 DEF apiVars, requestVars, analyzeVars, botVars, writerVars
<1>3. /\ threadPc[t] = "report"
      /\ threadPc'[t] = IF hasRoot[t] THEN "erase" ELSE "reportFailed"
      /\ \A u \in Threads \ {t} : threadPc'[u] = threadPc[u]
      /\ IF hasRoot[t] THEN PushToWrite(Message("analysis", job[t])) ELSE UNCHANGED writeVars
  BY DEF ReportAnalysis, Goto, IInv, ThreadTypes
<1>r. PICK r \in InternalIds : r = job[t]
  BY <1>3, Places
<1>4. ~Quick => ~writeReadOnly
  BY <1>3, OutputOpen DEF QInv
<1>5. /\ writeReadOnly' = writeReadOnly
      /\ writeReadOnly => toWriteQueue' = toWriteQueue
      /\ \A s \in InternalIds : HasAnswer(s) => HasAnswer(s)'
      /\ ~Quick /\ hasRoot[t] => HasAnswer(r)'
  <2>1. CASE hasRoot[t]
    <3>1. /\ Message("analysis", r) \in Messages /\ Final(Message("analysis", r))
          /\ Message("analysis", r).request = r
      BY DEF Message, Messages, Final
    <3>2. PushToWrite(Message("analysis", r)) /\ WriteTypes /\ printed' = printed
      BY <1>2, <1>3, <1>r, <2>1 DEF IInv
    <3> QED
      BY <1>4, <3>1, <3>2, LineQueued
  <2>2. CASE ~hasRoot[t]
    BY <1>2, <1>3, <2>2 DEF HasAnswer, writeVars
  <2> QED
    BY <2>1, <2>2
<1>6. PICK place \in {"erase", "reportFailed"} :
        place = IF hasRoot[t] THEN "erase" ELSE "reportFailed"
  OBVIOUS
<1>7. AtWork(t, place)
  BY <1>2, <1>3, <1>5, <1>6 DEF AtWork, QInv, EndsInOrder
<1>8. ~Quick /\ place = "reportFailed" => status[job[t]] = STATUS_TERMINATED
  BY <1>3, <1>6 DEF QInv, StopsWithReason, WithoutResults
<1>9. ~Quick /\ place = "erase" => HasAnswer(job[t])'
  BY <1>2, <1>5, <1>6, <1>r
<1> QED
  BY <1>2, <1>3, <1>5, <1>7, <1>8, <1>9, ReportLeaves

LEMMA ReportNoAnalysisLeaves ==
  ASSUME IInv, QInv, NEW t \in Threads, ReportNoAnalysis(t)
  PROVE  QInv'
<1>1. UNCHANGED <<apiVars, requestVars, analyzeVars, job, botVars, writerVars>>
  BY DEF ReportNoAnalysis
<1>2. UNCHANGED <<quitWithoutWaiting, apiPc, todo, target, request, status, openRequests, freed,
                  toAnalyzeQueue, analyzeReadOnly, job, isKilled, shouldStopNow, hasRoot,
                  writerPc, printed>>
  BY <1>1 DEF apiVars, requestVars, analyzeVars, botVars, writerVars
<1>3. /\ threadPc[t] = "reportFailed" /\ threadPc'[t] = "erase"
      /\ \A u \in Threads \ {t} : threadPc'[u] = threadPc[u]
      /\ IF status[job[t]] = STATUS_TERMINATED
         THEN PushToWrite(Message("noResults", job[t])) ELSE UNCHANGED writeVars
  BY DEF ReportNoAnalysis, Goto, IInv, ThreadTypes
<1>r. PICK r \in InternalIds : r = job[t]
  BY <1>3, Places
<1>4. ~Quick => ~writeReadOnly /\ status[r] = STATUS_TERMINATED
  BY <1>3, <1>r, OutputOpen DEF QInv, StopsWithReason, WithoutResults
<1>5. /\ writeReadOnly' = writeReadOnly
      /\ writeReadOnly => toWriteQueue' = toWriteQueue
      /\ \A s \in InternalIds : HasAnswer(s) => HasAnswer(s)'
      /\ ~Quick => HasAnswer(r)'
  <2>1. CASE status[r] = STATUS_TERMINATED
    <3>1. /\ Message("noResults", r) \in Messages /\ Final(Message("noResults", r))
          /\ Message("noResults", r).request = r
      BY DEF Message, Messages, Final
    <3>2. PushToWrite(Message("noResults", r)) /\ WriteTypes /\ printed' = printed
      BY <1>2, <1>3, <1>r, <2>1 DEF IInv
    <3> QED
      BY <1>4, <3>1, <3>2, LineQueued
  <2>2. CASE status[r] # STATUS_TERMINATED
    BY <1>2, <1>3, <1>4, <1>r, <2>2 DEF HasAnswer, writeVars
  <2> QED
    BY <2>1, <2>2
<1>6. AtWork(t, "erase")
  BY <1>2, <1>3, <1>5 DEF AtWork, QInv, EndsInOrder
<1>7. ~Quick => HasAnswer(job[t])'
  BY <1>2, <1>5, <1>r
<1> QED
  BY <1>2, <1>3, <1>5, <1>6, <1>7, ReportLeaves

LEMMA EraseRequestLeaves ==
  ASSUME IInv, QInv, NEW t \in Threads, EraseRequest(t)
  PROVE  QInv'
<1>1. UNCHANGED <<apiVars, request, status, freed, analyzeVars, writeVars, job, isKilled,
                  writerVars>>
  BY DEF EraseRequest
<1>2. UNCHANGED <<quitWithoutWaiting, apiPc, todo, target, request, status, freed,
                  toAnalyzeQueue, analyzeReadOnly, toWriteQueue, writeReadOnly, job, isKilled,
                  writerPc, printed>>
  BY <1>1 DEF apiVars, analyzeVars, writeVars, writerVars
<1>3. /\ threadPc[t] = "erase" /\ threadPc'[t] = "delete"
      /\ openRequests' = openRequests \ {job[t]}
      /\ \A u \in Threads \ {t} : /\ threadPc'[u] = threadPc[u]
                                  /\ shouldStopNow'[u] = shouldStopNow[u]
                                  /\ hasRoot'[u] = hasRoot[u]
      /\ hasRoot' \in [Threads -> BOOLEAN]
  BY DEF EraseRequest, Goto, IInv, ThreadTypes, QInv, EndsInOrder
<1>4. EndsInOrder'
  <2>1. \A u \in Threads : threadPc'[u] = "exited" <=> threadPc[u] = "exited"
    BY <1>3
  <2> QED
    BY <1>2, <1>3, <2>1, EndsStay DEF QInv
<1>5. Placed'
  BY <1>2, <1>3 DEF QInv, Placed, WithThread, Accepted
<1>6. StopsWithReason'
  BY <1>2, <1>3 DEF QInv, StopsWithReason, WithoutResults, Searching, Quick, Quitting
<1>7. Answered'
  <2>1. status[job[t]] # STATUS_IN_QUEUE
    BY <1>3, Constants DEF IInv, StatusTells
  <2>2. \A r \in InternalIds : /\ HasAnswer(r)' = HasAnswer(r)
                               /\ ThreadOwes(r) => ThreadOwes(r)'
    BY <1>2, <1>3 DEF HasAnswer, ThreadOwes, AnswerOwed
  <2> QED
    BY <1>2, <1>3, <2>1, <2>2 DEF QInv, Answered, Accepted, MainOwes, Quick, Quitting
<1> QED
  BY <1>4, <1>5, <1>6, <1>7 DEF QInv

LEMMA DeleteRequestLeaves ==
  ASSUME IInv, QInv, NEW t \in Threads, DeleteRequest(t)
  PROVE  QInv'
<1>1. UNCHANGED <<apiVars, request, status, openRequests, analyzeVars, writeVars, botVars,
                  writerVars>>
  BY DEF DeleteRequest
<1>2. UNCHANGED <<quitWithoutWaiting, apiPc, todo, target, request, status, openRequests,
                  toAnalyzeQueue, analyzeReadOnly, toWriteQueue, writeReadOnly, isKilled,
                  shouldStopNow, hasRoot, writerPc, printed>>
  BY <1>1 DEF apiVars, analyzeVars, writeVars, botVars, writerVars
<1>3. /\ threadPc[t] = "delete" /\ threadPc'[t] = "pop"
      /\ freed' = freed \cup {job[t]}
      /\ \A u \in Threads \ {t} : threadPc'[u] = threadPc[u] /\ job'[u] = job[u]
  BY DEF DeleteRequest, Goto, IInv, ThreadTypes
<1>4. EndsInOrder'
  <2>1. \A u \in Threads : threadPc'[u] = "exited" <=> threadPc[u] = "exited"
    BY <1>3
  <2> QED
    BY <1>2, <2>1, EndsStay DEF QInv, EndsInOrder
<1>5. Placed'
  <2>1. job[t] \notin openRequests
    BY <1>3 DEF IInv, HeldOnce
  <2>2. \A r \in InternalIds : WithThread(r) /\ r # job[t] => WithThread(r)'
    BY <1>3 DEF WithThread
  <2>3. \A r \in openRequests : r \in InternalIds
    BY Places
  <2> QED
    BY <1>2, <1>3, <2>1, <2>2, <2>3 DEF QInv, Placed, Accepted
<1>6. StopsWithReason'
  BY <1>2, <1>3 DEF QInv, StopsWithReason, WithoutResults, Searching, Quick, Quitting
<1>7. Answered'
  <2>1. \A r \in InternalIds : /\ HasAnswer(r)' = HasAnswer(r)
                               /\ ThreadOwes(r) => ThreadOwes(r)'
    BY <1>2, <1>3 DEF HasAnswer, ThreadOwes, AnswerOwed
  <2> QED
    BY <1>2, <2>1 DEF QInv, Answered, Accepted, MainOwes, Quick, Quitting
<1> QED
  BY <1>4, <1>5, <1>6, <1>7 DEF QInv

-----------------------------------------------------------------------------
(* The writer, and the theorem                                             *)

LEMMA WriterLeaves ==
  ASSUME IInv, QInv, WriterStep
  PROVE  QInv'
<1>1. UNCHANGED <<apiVars, requestVars, analyzeVars, writeReadOnly, threadVars, botVars>>
  BY DEF WriterStep, WriteMessage, ExitWriter, writeVars
<1>2. UNCHANGED <<quitWithoutWaiting, apiPc, todo, target, request, status, openRequests, freed,
                  toAnalyzeQueue, analyzeReadOnly, writeReadOnly, threadPc, job, isKilled,
                  shouldStopNow, hasRoot>>
  BY <1>1 DEF apiVars, requestVars, analyzeVars, threadVars, botVars
<1>3. EndsInOrder'
  BY <1>2 DEF QInv, EndsInOrder, ThreadsEnded, Quick, Quitting, WriterStep, WriteMessage,
     ExitWriter, writeVars
<1>4. Placed'
  BY <1>2, PlacesStay DEF QInv
<1>5. StopsWithReason'
  BY <1>2, ReasonsStay DEF QInv, Quick, Quitting
<1>6. Answered'
  <2>1. CASE WriteMessage
    BY <1>2, <2>1, AnswerPrinted, AnsweredStays DEF IInv, QInv, Quick, Quitting
  <2>2. CASE ExitWriter
    <3>1. \A r \in InternalIds : HasAnswer(r)' = HasAnswer(r)
      BY <2>2 DEF ExitWriter, HasAnswer, writeVars
    <3> QED
      BY <1>2, <3>1, AnsweredStays DEF QInv, Quick, Quitting
  <2> QED
    BY <2>1, <2>2 DEF WriterStep
<1> QED
  BY <1>3, <1>4, <1>5, <1>6 DEF QInv

LEMMA InitQInv == Init => QInv
<1> SUFFICES ASSUME Init PROVE QInv
  OBVIOUS
<1>1. EndsInOrder /\ StopsWithReason
  BY DEF Init, EndsInOrder, ThreadsEnded, StopsWithReason, WithoutResults, Searching
<1>2. Accepted = {}
  BY DEF Init, Accepted
<1>3. Placed /\ Answered
  BY <1>2 DEF Init, Placed, Answered
<1> QED
  BY <1>1, <1>3 DEF QInv

LEMMA StutterLeaves ==
  ASSUME QInv, UNCHANGED vars
  PROVE  QInv'
<1>1. UNCHANGED <<quitWithoutWaiting, apiPc, todo, target, request, status, openRequests, freed,
                  toAnalyzeQueue, analyzeReadOnly, toWriteQueue, writeReadOnly, threadPc, job,
                  shouldStopNow, isKilled, hasRoot, writerPc, printed>>
  BY DEF vars, apiVars, requestVars, analyzeVars, writeVars, threadVars, botVars, writerVars
<1>2. EndsInOrder'
  BY <1>1 DEF QInv, EndsInOrder, ThreadsEnded, Quick, Quitting
<1>3. Placed'
  BY <1>1, PlacesStay DEF QInv
<1>4. StopsWithReason'
  BY <1>1, ReasonsStay DEF QInv, Quick, Quitting
<1>5. Answered'
  <2>1. \A r \in InternalIds : HasAnswer(r)' = HasAnswer(r)
    BY <1>1 DEF HasAnswer
  <2> QED
    BY <1>1, <2>1, AnsweredStays DEF QInv, Quick, Quitting
<1> QED
  BY <1>2, <1>3, <1>4, <1>5 DEF QInv

LEMMA NextLeaves ==
  ASSUME TRUE \notin ZeroCaps
  PROVE  IInv /\ QInv /\ [Next]_vars => QInv'
<1> SUFFICES ASSUME IInv, QInv, [Next]_vars PROVE QInv'
  OBVIOUS
<1>1. CASE Input
  BY <1>1, ReadQueryLeaves, ReadIllegalMovesLeaves, ReadTerminateLeaves, EndOfInputLeaves DEF Input
<1>2. CASE MainStep
  BY <1>2, PushRequestLeaves, TerminateRequestLeaves, ActOnTerminateLeaves, EchoTerminateLeaves,
     CloseWriteQueueLeaves, CloseAnalyzeQueueLeaves, StopBotLeaves, KillBotLeaves,
     JoinThreadsLeaves, JoinWriterLeaves DEF MainStep
<1>3. CASE WriterStep
  BY <1>3, WriterLeaves
<1>4. ASSUME NEW t \in Threads, ThreadStep(t) PROVE QInv'
  BY <1>4, PopRequestLeaves, ExitThreadLeaves, ClaimLeaves, GenMoveLeaves, DropSearchLeaves,
     OnSearchBegunLeaves, EndSearchLeaves, ReportAnalysisLeaves, ReportNoAnalysisLeaves,
     EraseRequestLeaves, DeleteRequestLeaves DEF ThreadStep, SeeShouldStop
<1>5. ASSUME NEW t \in Threads, EvaluateRoot(t) \/ ReportDuringSearch(t) \/ ReachLimits(t)
      PROVE  QInv'
  BY <1>5, EvaluateRootLeaves, ReportDuringSearchLeaves, EndSearchLeaves DEF ReachLimits
<1>6. CASE UNCHANGED vars
  BY <1>6, StutterLeaves
<1> QED
  BY <1>1, <1>2, <1>3, <1>4, <1>5, <1>6 DEF Next

\* QuitLeavesNothing: when the engine has quit, nothing is queued, open or left allocated, and
\* if it was to wait for its tasks (the default) each request has been answered on the output.
\* No query may ask for a search of zero visits: the answer of such a one can be missing, as
\* NoResultsOnlyWhenQuitting shows.
THEOREM QuittingIsClean ==
  ASSUME TRUE \notin ZeroCaps
  PROVE  Spec => []QuitLeavesNothing
<1>1. IInv /\ QInv => QuitLeavesNothing
  <2> SUFFICES ASSUME IInv, QInv, apiPc = "done"
               PROVE  /\ toWriteQueue = <<>>
                      /\ openRequests = {}
                      /\ Accepted \subseteq freed
                      /\ ~quitWithoutWaiting => \A r \in Accepted : printed[r] = 1
    BY DEF QuitLeavesNothing
  <2>1. /\ toWriteQueue = <<>> /\ toAnalyzeQueue = {}
        /\ \A t \in Threads : threadPc[t] = "exited" /\ job[t] = -1
    BY Constants DEF QInv, EndsInOrder, ThreadsEnded, IInv, HeldOnce
  <2>2. \A r \in InternalIds : ~WithThread(r) /\ ~ThreadOwes(r) /\ ~MainOwes(r)
    BY <2>1, Constants DEF WithThread, ThreadOwes, AnswerOwed, MainOwes
  <2>3. openRequests = {}
    <3>1. \A r \in openRequests : r \in InternalIds
      BY Places
    <3> QED
      BY <2>1, <2>2, <3>1 DEF QInv, Placed
  <2>4. Accepted \subseteq freed
    BY <2>2, <2>3 DEF QInv, Placed, Accepted
  <2>5. ~quitWithoutWaiting => \A r \in Accepted : printed[r] = 1
    <3>1. DOMAIN toWriteQueue = {}
      BY <2>1
    <3> QED
      BY <2>2, <2>3, <3>1 DEF QInv, Answered, Accepted, HasAnswer, Quick
  <2> QED
    BY <2>1, <2>3, <2>4, <2>5
<1>2. IInv /\ QInv /\ [Next]_vars => QInv'
  BY NextLeaves
<1>3. Init => QInv
  BY InitQInv
<1> QED
  BY <1>1, <1>2, <1>3, Invariance, PTL DEF Spec
=============================================================================
