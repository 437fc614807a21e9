---------------------------- MODULE AsyncBotProofs ----------------------------
(***************************************************************************)
(* The safety properties of AsyncBot, for every set of search ids.         *)
(***************************************************************************)
EXTENDS AsyncBot, TLAPS

-----------------------------------------------------------------------------
(* The inductive invariant                                                 *)

SearchPcs ==
  {"lock", "asleep", "starting", "searching", "ended", "joining", "finishing", "exited"}
UserPcs == {"idle", "queue", "queueAsleep", "queueWoken", "wait", "waitAsleep",
            "changing", "killing", "joining", "gone"}

\* The types alone, and the rest of TypeOK.
Shapes ==
  /\ isRunning \in BOOLEAN
  /\ isKilled \in BOOLEAN
  /\ shouldStopNow \in BOOLEAN
  /\ queued \in [id : SearchIds \cup {NULL}, onMove : BOOLEAN, analyze : BOOLEAN]
  /\ searchPc \in SearchPcs
  /\ analyzing \in BOOLEAN
  /\ callbackPc \in {"none", "waiting", "calling"}
  /\ callbackLoopShouldStop \in BOOLEAN
  /\ userPc \in UserPcs
  /\ userCall \in QueueCalls \cup StopCalls \cup {NoCall}
  /\ owed \in SearchIds \cup {NULL}
  /\ moveLoc \in SearchIds \cup {NULL}
DoesWhatIsQueued == SearchUnderWay => isRunning /\ analyzing = queued.analyze

\* There is a callback thread only while a search with a callback is under way.
CallbacksInside ==
  callbackPc # "none" =>
    analyzing /\ searchPc \in {"starting", "searching", "ended", "joining"}

\* From the moment a stopping call has seen that nothing runs until the user is idle
\* again nothing is queued, and the search thread ends only when it is killed.
NothingQueued ==
  /\ userPc \in {"changing", "killing", "joining", "gone"} => ~isRunning
  /\ userPc \in {"joining", "gone"} \/ searchPc = "exited" => isKilled
  /\ userPc = "gone" => searchPc = "exited"

\* Where the user may be in each call.
InItsCall ==
  /\ userPc \in {"queue", "queueAsleep", "queueWoken"} => userCall \in QueueCalls
  /\ userPc \in {"wait", "waitAsleep"} =>
       userCall \in StopCalls \/ userCall.op = "genMoveSynchronous"
  /\ userPc \in {"changing", "killing", "joining", "gone"} => userCall \in StopCalls

\* What genMoveSynchronous waits for: the search of its own id is queued or running,
\* or its move has been written.
MoveAwaited ==
  ~isKilled =>
    /\ owed = IF isRunning /\ queued.onMove THEN queued.id ELSE NULL
    /\ queued.onMove => queued.id # NULL
    /\ userCall.op = "genMoveSynchronous" =>
         /\ userPc \in {"wait", "waitAsleep"} =>
              IF isRunning THEN queued.onMove /\ queued.id = userCall.id
              ELSE moveLoc = userCall.id
         /\ userPc = "idle" => moveLoc = userCall.id /\ (isRunning => ~queued.onMove)

IInv ==
  Shapes /\ DoesWhatIsQueued /\ CallbacksInside /\ NothingQueued /\ InItsCall /\ MoveAwaited

LEMMA InvTypeOK == IInv => TypeOK
  BY DEF IInv, Shapes, SearchPcs, UserPcs, DoesWhatIsQueued, TypeOK

-----------------------------------------------------------------------------
(* What a call queues                                                      *)

LEMMA CallFields ==
  ASSUME NEW c \in QueueCalls
  PROVE  /\ c.id \in SearchIds \cup {NULL} /\ c.analyze \in BOOLEAN
         /\ c.op = "genMoveSynchronous" => c.id \in SearchIds
<1>1. CASE c \in [op : {"genMoveAsync", "genMoveSynchronous"}, id : SearchIds, analyze : BOOLEAN]
  BY <1>1
<1>2. CASE c \in [op : {"analyzeAsync"}, id : {NULL}, analyze : BOOLEAN]
  BY <1>2
<1> QED
  BY <1>1, <1>2 DEF QueueCalls

LEMMA SearchFields ==
  ASSUME NEW id \in SearchIds \cup {NULL}, NEW analyze \in BOOLEAN
  PROVE  Search(id, id # NULL, analyze)
           \in [id : SearchIds \cup {NULL}, onMove : BOOLEAN, analyze : BOOLEAN]
  BY DEF Search

LEMMA CallsApart ==
  ASSUME NEW c \in StopCalls
  PROVE  c.op # "genMoveSynchronous"
  BY DEF StopCalls, StopCall

\* The steps of the user keep it.
LEMMA UserKeeps ==
  ASSUME IInv,
         CallQueueSearch \/ QueueSearch \/ Ponder \/ CallStopAndWait \/ WaitForSearchToEnd \/
         ChangeSearch \/ SpuriousUserWakeup \/ DestroyKill \/ DestroyJoin \/ Construct
  PROVE  IInv'
<1>1. CASE CallQueueSearch
  <2>1. Shapes'
    BY <1>1 DEF IInv, CallQueueSearch, Shapes, SearchPcs, UserPcs, botVars, callbackVars,
       userVars, moveVars
  <2>2. DoesWhatIsQueued'
    BY <1>1 DEF IInv, CallQueueSearch, Shapes, SearchPcs, UserPcs, DoesWhatIsQueued,
       SearchUnderWay, botVars, callbackVars, userVars, moveVars
  <2>3. CallbacksInside'
    BY <1>1 DEF IInv, CallQueueSearch, Shapes, SearchPcs, UserPcs, CallbacksInside, botVars,
       callbackVars, userVars, moveVars
  <2>4. NothingQueued'
    BY <1>1 DEF IInv, CallQueueSearch, Shapes, SearchPcs, UserPcs, DoesWhatIsQueued,
       NothingQueued, SearchUnderWay, botVars, callbackVars, userVars, moveVars
  <2>5. InItsCall'
    BY <1>1 DEF IInv, CallQueueSearch, Shapes, SearchPcs, UserPcs, NothingQueued, InItsCall,
       botVars, callbackVars, userVars, moveVars
  <2>6. MoveAwaited'
    BY <1>1 DEF IInv, CallQueueSearch, Shapes, SearchPcs, UserPcs, NothingQueued, InItsCall,
       MoveAwaited, botVars, callbackVars, userVars, moveVars
  <2> QED
    BY <2>1, <2>2, <2>3, <2>4, <2>5, <2>6 DEF IInv
<1>2. CASE QueueSearch
  <2>1. userCall \in QueueCalls /\ userPc \in {"queue", "queueWoken"}
    BY <1>2 DEF IInv, InItsCall, QueueSearch
  <2>2. CASE UNCHANGED <<isRunning, queued, owed, searchPc>> /\ userPc' = "queueAsleep"
    <3>1. /\ shouldStopNow' \in BOOLEAN
          /\ UNCHANGED <<isKilled, analyzing, callbackVars, userCall, moveLoc>>
      BY <1>2, <2>2 DEF IInv, Shapes, QueueSearch, Accept
    <3>2. Shapes'
      BY <2>2, <3>1 DEF IInv, Shapes, UserPcs, callbackVars
    <3>3. DoesWhatIsQueued'
      BY <2>2, <3>1 DEF IInv, DoesWhatIsQueued, SearchUnderWay
    <3> QED
      BY <2>1, <2>2, <3>1, <3>2, <3>3 DEF IInv, CallbacksInside, NothingQueued, InItsCall,
         MoveAwaited, callbackVars
  <2>3. CASE /\ UNCHANGED <<isRunning, queued, owed, searchPc>> /\ isKilled
             /\ userPc' = AfterQueueing
    <3>1. /\ shouldStopNow' \in BOOLEAN
          /\ UNCHANGED <<isKilled, analyzing, callbackVars, userCall, moveLoc>>
      BY <1>2, <2>3 DEF IInv, Shapes, QueueSearch, Accept
    <3>2. Shapes'
      BY <2>3, <3>1 DEF IInv, Shapes, UserPcs, callbackVars, AfterQueueing
    <3>3. DoesWhatIsQueued'
      BY <2>3, <3>1 DEF IInv, DoesWhatIsQueued, SearchUnderWay
    <3> QED
      BY <2>1, <2>3, <3>1, <3>2, <3>3 DEF IInv, CallbacksInside, NothingQueued, InItsCall,
         MoveAwaited, callbackVars, AfterQueueing
  <2>4. CASE /\ ~isRunning /\ ~isKilled /\ userPc' = AfterQueueing
             /\ Accept(Search(userCall.id, userCall.id # NULL, userCall.analyze))
    <3>1. /\ queued' = Search(userCall.id, userCall.id # NULL, userCall.analyze)
          /\ isRunning' = TRUE /\ shouldStopNow' = FALSE
          /\ owed' = IF userCall.id # NULL THEN userCall.id ELSE owed
          /\ searchPc' = IF searchPc = "asleep" THEN "lock" ELSE searchPc
          /\ queued'.id = userCall.id /\ queued'.onMove = (userCall.id # NULL)
      BY <2>4 DEF Accept, Search, NotifySearchThread
    <3>2. queued' \in [id : SearchIds \cup {NULL}, onMove : BOOLEAN, analyze : BOOLEAN]
      BY <2>1, <3>1, CallFields, SearchFields
    <3>3. ~SearchUnderWay /\ ~SearchUnderWay'
      BY <2>4, <3>1 DEF IInv, DoesWhatIsQueued, SearchUnderWay
    <3>4. Shapes'
      BY <1>2, <2>1, <2>4, <3>1, <3>2, CallFields DEF IInv, Shapes, SearchPcs, UserPcs,
         QueueSearch, callbackVars, AfterQueueing
    <3>5. DoesWhatIsQueued'
      BY <3>3 DEF DoesWhatIsQueued
    <3>6. CallbacksInside' /\ NothingQueued' /\ InItsCall'
      BY <1>2, <2>1, <2>4, <3>1, <3>3 DEF IInv, CallbacksInside, NothingQueued, InItsCall,
         QueueSearch, callbackVars, AfterQueueing, SearchUnderWay
    <3>7. MoveAwaited'
      BY <1>2, <2>1, <2>4, <3>1, CallFields, BotAssumption DEF IInv, MoveAwaited, QueueSearch,
         AfterQueueing
    <3> QED
      BY <3>4, <3>5, <3>6, <3>7 DEF IInv
  <2> QED
    BY <1>2, <2>2, <2>3, <2>4 DEF QueueSearch, MustWait, RefusesSearch
<1>3. CASE Ponder
  <2>1. Shapes'
    BY <1>3, BotAssumption DEF IInv, Ponder, Shapes, SearchPcs, UserPcs, botVars, callbackVars,
       userVars, moveVars, PonderAllowed, Accept, NoSearch, Search, NotifySearchThread
  <2>2. DoesWhatIsQueued'
    BY <1>3 DEF IInv, Ponder, Shapes, SearchPcs, UserPcs, DoesWhatIsQueued, SearchUnderWay,
       botVars, callbackVars, userVars, moveVars, PonderAllowed, Accept, NoSearch, Search,
       NotifySearchThread
  <2>3. CallbacksInside'
    BY <1>3 DEF IInv, Ponder, Shapes, SearchPcs, UserPcs, CallbacksInside, botVars,
       callbackVars, userVars, moveVars, PonderAllowed, Accept, NoSearch, Search,
       NotifySearchThread
  <2>4. NothingQueued'
    BY <1>3 DEF IInv, Ponder, Shapes, SearchPcs, UserPcs, DoesWhatIsQueued, NothingQueued,
       SearchUnderWay, botVars, callbackVars, userVars, moveVars, PonderAllowed, Accept,
       NoSearch, Search, NotifySearchThread
  <2>5. InItsCall'
    BY <1>3 DEF IInv, Ponder, Shapes, SearchPcs, UserPcs, NothingQueued, InItsCall, botVars,
       callbackVars, userVars, moveVars, PonderAllowed, Accept, NoSearch, Search,
       NotifySearchThread
  <2>6. MoveAwaited'
    BY <1>3, BotAssumption DEF IInv, Ponder, Shapes, SearchPcs, UserPcs, NothingQueued,
       InItsCall, MoveAwaited, botVars, callbackVars, userVars, moveVars, PonderAllowed, Accept,
       NoSearch, Search, NotifySearchThread
  <2> QED
    BY <2>1, <2>2, <2>3, <2>4, <2>5, <2>6 DEF IInv
<1>4. CASE CallStopAndWait
  <2>1. Shapes'
    BY <1>4 DEF IInv, CallStopAndWait, Shapes, SearchPcs, UserPcs, botVars, callbackVars,
       userVars, moveVars, StopCalls, StopCall
  <2>2. DoesWhatIsQueued'
    BY <1>4 DEF IInv, CallStopAndWait, Shapes, SearchPcs, UserPcs, DoesWhatIsQueued,
       SearchUnderWay, botVars, callbackVars, userVars, moveVars, StopCalls, StopCall
  <2>3. CallbacksInside'
    BY <1>4 DEF IInv, CallStopAndWait, Shapes, SearchPcs, UserPcs, CallbacksInside, botVars,
       callbackVars, userVars, moveVars, StopCalls, StopCall
  <2>4. NothingQueued'
    BY <1>4 DEF IInv, CallStopAndWait, Shapes, SearchPcs, UserPcs, DoesWhatIsQueued,
       NothingQueued, SearchUnderWay, botVars, callbackVars, userVars, moveVars, StopCalls,
       StopCall
  <2>5. InItsCall'
    BY <1>4 DEF IInv, CallStopAndWait, Shapes, SearchPcs, UserPcs, NothingQueued, InItsCall,
       botVars, callbackVars, userVars, moveVars, StopCalls, StopCall
  <2>6. MoveAwaited'
    BY <1>4, CallsApart DEF IInv, CallStopAndWait, Shapes, SearchPcs, UserPcs, NothingQueued,
       InItsCall, MoveAwaited, botVars, callbackVars, userVars, moveVars, StopCalls, StopCall
  <2> QED
    BY <2>1, <2>2, <2>3, <2>4, <2>5, <2>6 DEF IInv
<1>5. CASE WaitForSearchToEnd
  <2>1. Shapes'
    BY <1>5 DEF IInv, WaitForSearchToEnd, Shapes, SearchPcs, UserPcs, botVars, callbackVars,
       userVars, moveVars, AfterWaiting
  <2>2. DoesWhatIsQueued'
    BY <1>5 DEF IInv, WaitForSearchToEnd, Shapes, SearchPcs, UserPcs, DoesWhatIsQueued,
       SearchUnderWay, botVars, callbackVars, userVars, moveVars, AfterWaiting
  <2>3. CallbacksInside'
    BY <1>5 DEF IInv, WaitForSearchToEnd, Shapes, SearchPcs, UserPcs, CallbacksInside, botVars,
       callbackVars, userVars, moveVars, AfterWaiting
  <2>4. NothingQueued'
    BY <1>5 DEF IInv, WaitForSearchToEnd, Shapes, SearchPcs, UserPcs, DoesWhatIsQueued,
       NothingQueued, SearchUnderWay, botVars, callbackVars, userVars, moveVars, AfterWaiting
  <2>5. InItsCall'
    BY <1>5 DEF IInv, WaitForSearchToEnd, Shapes, SearchPcs, UserPcs, NothingQueued, InItsCall,
       botVars, callbackVars, userVars, moveVars, AfterWaiting
  <2>6. MoveAwaited'
    BY <1>5, CallsApart DEF IInv, WaitForSearchToEnd, Shapes, SearchPcs, UserPcs, NothingQueued,
       InItsCall, MoveAwaited, botVars, callbackVars, userVars, moveVars, AfterWaiting
  <2> QED
    BY <2>1, <2>2, <2>3, <2>4, <2>5, <2>6 DEF IInv
<1>6. CASE ChangeSearch
  <2>1. Shapes'
    BY <1>6 DEF IInv, ChangeSearch, Shapes, SearchPcs, UserPcs, botVars, callbackVars, userVars,
       moveVars
  <2>2. DoesWhatIsQueued'
    BY <1>6 DEF IInv, ChangeSearch, Shapes, SearchPcs, UserPcs, DoesWhatIsQueued,
       SearchUnderWay, botVars, callbackVars, userVars, moveVars
  <2>3. CallbacksInside'
    BY <1>6 DEF IInv, ChangeSearch, Shapes, SearchPcs, UserPcs, CallbacksInside, botVars,
       callbackVars, userVars, moveVars
  <2>4. NothingQueued'
    BY <1>6 DEF IInv, ChangeSearch, Shapes, SearchPcs, UserPcs, DoesWhatIsQueued, NothingQueued,
       SearchUnderWay, botVars, callbackVars, userVars, moveVars
  <2>5. InItsCall'
    BY <1>6 DEF IInv, ChangeSearch, Shapes, SearchPcs, UserPcs, NothingQueued, InItsCall,
       botVars, callbackVars, userVars, moveVars
  <2>6. MoveAwaited'
    BY <1>6, CallsApart DEF IInv, ChangeSearch, Shapes, SearchPcs, UserPcs, NothingQueued,
       InItsCall, MoveAwaited, botVars, callbackVars, userVars, moveVars
  <2> QED
    BY <2>1, <2>2, <2>3, <2>4, <2>5, <2>6 DEF IInv
<1>7. CASE SpuriousUserWakeup
  <2>1. Shapes'
    BY <1>7 DEF IInv, SpuriousUserWakeup, Shapes, SearchPcs, UserPcs, botVars, callbackVars,
       userVars, moveVars, NotifyUser
  <2>2. DoesWhatIsQueued'
    BY <1>7 DEF IInv, SpuriousUserWakeup, Shapes, SearchPcs, UserPcs, DoesWhatIsQueued,
       SearchUnderWay, botVars, callbackVars, userVars, moveVars, NotifyUser
  <2>3. CallbacksInside'
    BY <1>7 DEF IInv, SpuriousUserWakeup, Shapes, SearchPcs, UserPcs, CallbacksInside, botVars,
       callbackVars, userVars, moveVars, NotifyUser
  <2>4. NothingQueued'
    BY <1>7 DEF IInv, SpuriousUserWakeup, Shapes, SearchPcs, UserPcs, DoesWhatIsQueued,
       NothingQueued, SearchUnderWay, botVars, callbackVars, userVars, moveVars, NotifyUser
  <2>5. InItsCall'
    BY <1>7 DEF IInv, SpuriousUserWakeup, Shapes, SearchPcs, UserPcs, NothingQueued, InItsCall,
       botVars, callbackVars, userVars, moveVars, NotifyUser
  <2>6. MoveAwaited'
    BY <1>7 DEF IInv, SpuriousUserWakeup, Shapes, SearchPcs, UserPcs, NothingQueued, InItsCall,
       MoveAwaited, botVars, callbackVars, userVars, moveVars, NotifyUser
  <2> QED
    BY <2>1, <2>2, <2>3, <2>4, <2>5, <2>6 DEF IInv
<1>8. CASE DestroyKill
  <2>1. Shapes'
    BY <1>8 DEF IInv, DestroyKill, Shapes, SearchPcs, UserPcs, botVars, callbackVars, userVars,
       moveVars, NotifySearchThread
  <2>2. DoesWhatIsQueued'
    BY <1>8 DEF IInv, DestroyKill, Shapes, SearchPcs, UserPcs, DoesWhatIsQueued, SearchUnderWay,
       botVars, callbackVars, userVars, moveVars, NotifySearchThread
  <2>3. CallbacksInside'
    BY <1>8 DEF IInv, DestroyKill, Shapes, SearchPcs, UserPcs, CallbacksInside, botVars,
       callbackVars, userVars, moveVars, NotifySearchThread
  <2>4. NothingQueued'
    BY <1>8 DEF IInv, DestroyKill, Shapes, SearchPcs, UserPcs, DoesWhatIsQueued, NothingQueued,
       SearchUnderWay, botVars, callbackVars, userVars, moveVars, NotifySearchThread
  <2>5. InItsCall'
    BY <1>8 DEF IInv, DestroyKill, Shapes, SearchPcs, UserPcs, NothingQueued, InItsCall,
       botVars, callbackVars, userVars, moveVars, NotifySearchThread
  <2>6. MoveAwaited'
    BY <1>8 DEF IInv, DestroyKill, Shapes, SearchPcs, UserPcs, NothingQueued, InItsCall,
       MoveAwaited, botVars, callbackVars, userVars, moveVars, NotifySearchThread
  <2> QED
    BY <2>1, <2>2, <2>3, <2>4, <2>5, <2>6 DEF IInv
<1>9. CASE DestroyJoin
  <2>1. Shapes'
    BY <1>9 DEF IInv, DestroyJoin, Shapes, SearchPcs, UserPcs, botVars, callbackVars, userVars,
       moveVars
  <2>2. DoesWhatIsQueued'
    BY <1>9 DEF IInv, DestroyJoin, Shapes, SearchPcs, UserPcs, DoesWhatIsQueued, SearchUnderWay,
       botVars, callbackVars, userVars, moveVars
  <2>3. CallbacksInside'
    BY <1>9 DEF IInv, DestroyJoin, Shapes, SearchPcs, UserPcs, CallbacksInside, botVars,
       callbackVars, userVars, moveVars
  <2>4. NothingQueued'
    BY <1>9 DEF IInv, DestroyJoin, Shapes, SearchPcs, UserPcs, DoesWhatIsQueued, NothingQueued,
       SearchUnderWay, botVars, callbackVars, userVars, moveVars
  <2>5. InItsCall'
    BY <1>9 DEF IInv, DestroyJoin, Shapes, SearchPcs, UserPcs, NothingQueued, InItsCall,
       botVars, callbackVars, userVars, moveVars
  <2>6. MoveAwaited'
    BY <1>9 DEF IInv, DestroyJoin, Shapes, SearchPcs, UserPcs, NothingQueued, InItsCall,
       MoveAwaited, botVars, callbackVars, userVars, moveVars
  <2> QED
    BY <2>1, <2>2, <2>3, <2>4, <2>5, <2>6 DEF IInv
<1>10. CASE Construct
  <2>1. Shapes'
    BY <1>10, BotAssumption DEF IInv, Construct, Shapes, SearchPcs, UserPcs, botVars,
       callbackVars, userVars, moveVars, NoSearch, Search, NoCall, StopCall
  <2>2. DoesWhatIsQueued'
    BY <1>10 DEF IInv, Construct, Shapes, SearchPcs, UserPcs, DoesWhatIsQueued, SearchUnderWay,
       botVars, callbackVars, userVars, moveVars, NoSearch, Search, NoCall, StopCall
  <2>3. CallbacksInside'
    BY <1>10 DEF IInv, Construct, Shapes, SearchPcs, UserPcs, CallbacksInside, NothingQueued,
       DoesWhatIsQueued, SearchUnderWay, botVars, callbackVars, userVars, moveVars, NoSearch,
       Search, NoCall, StopCall
  <2>4. NothingQueued'
    BY <1>10 DEF IInv, Construct, Shapes, SearchPcs, UserPcs, DoesWhatIsQueued, NothingQueued,
       SearchUnderWay, botVars, callbackVars, userVars, moveVars, NoSearch, Search, NoCall,
       StopCall
  <2>5. InItsCall'
    BY <1>10 DEF IInv, Construct, Shapes, SearchPcs, UserPcs, NothingQueued, InItsCall, botVars,
       callbackVars, userVars, moveVars, NoSearch, Search, NoCall, StopCall
  <2>6. MoveAwaited'
    BY <1>10, BotAssumption DEF IInv, Construct, Shapes, SearchPcs, UserPcs, NothingQueued,
       InItsCall, MoveAwaited, botVars, callbackVars, userVars, moveVars, NoSearch, Search,
       NoCall, StopCall
  <2> QED
    BY <2>1, <2>2, <2>3, <2>4, <2>5, <2>6 DEF IInv
<1> QED
  BY <1>1, <1>2, <1>3, <1>4, <1>5, <1>6, <1>7, <1>8, <1>9, <1>10

\* So do the calls from other threads, at any time.
LEMMA OthersKeep ==
  ASSUME IInv,
         StopWithoutWait \/ SetKilled
  PROVE  IInv'
<1>1. CASE StopWithoutWait
  <2>1. Shapes'
    BY <1>1 DEF IInv, StopWithoutWait, Shapes, SearchPcs, UserPcs, botVars, callbackVars,
       userVars, moveVars
  <2>2. DoesWhatIsQueued'
    BY <1>1 DEF IInv, StopWithoutWait, Shapes, SearchPcs, UserPcs, DoesWhatIsQueued,
       SearchUnderWay, botVars, callbackVars, userVars, moveVars
  <2>3. CallbacksInside'
    BY <1>1 DEF IInv, StopWithoutWait, Shapes, SearchPcs, UserPcs, CallbacksInside, botVars,
       callbackVars, userVars, moveVars
  <2>4. NothingQueued'
    BY <1>1 DEF IInv, StopWithoutWait, Shapes, SearchPcs, UserPcs, DoesWhatIsQueued,
       NothingQueued, SearchUnderWay, botVars, callbackVars, userVars, moveVars
  <2>5. InItsCall'
    BY <1>1 DEF IInv, StopWithoutWait, Shapes, SearchPcs, UserPcs, NothingQueued, InItsCall,
       botVars, callbackVars, userVars, moveVars
  <2>6. MoveAwaited'
    BY <1>1 DEF IInv, StopWithoutWait, Shapes, SearchPcs, UserPcs, NothingQueued, InItsCall,
       MoveAwaited, botVars, callbackVars, userVars, moveVars
  <2> QED
    BY <2>1, <2>2, <2>3, <2>4, <2>5, <2>6 DEF IInv
<1>2. CASE SetKilled
  <2>1. Shapes'
    BY <1>2 DEF IInv, SetKilled, Shapes, SearchPcs, UserPcs, botVars, callbackVars, userVars,
       moveVars, NotifySearchThread, FlagAfterKill
  <2>2. DoesWhatIsQueued'
    BY <1>2 DEF IInv, SetKilled, Shapes, SearchPcs, UserPcs, DoesWhatIsQueued, SearchUnderWay,
       botVars, callbackVars, userVars, moveVars, NotifySearchThread, FlagAfterKill
  <2>3. CallbacksInside'
    BY <1>2 DEF IInv, SetKilled, Shapes, SearchPcs, UserPcs, CallbacksInside, botVars,
       callbackVars, userVars, moveVars, NotifySearchThread, FlagAfterKill
  <2>4. NothingQueued'
    BY <1>2 DEF IInv, SetKilled, Shapes, SearchPcs, UserPcs, DoesWhatIsQueued, NothingQueued,
       SearchUnderWay, botVars, callbackVars, userVars, moveVars, NotifySearchThread,
       FlagAfterKill
  <2>5. InItsCall'
    BY <1>2 DEF IInv, SetKilled, Shapes, SearchPcs, UserPcs, NothingQueued, InItsCall, botVars,
       callbackVars, userVars, moveVars, NotifySearchThread, FlagAfterKill
  <2>6. MoveAwaited'
    BY <1>2 DEF IInv, SetKilled, Shapes, SearchPcs, UserPcs, NothingQueued, InItsCall,
       MoveAwaited, botVars, callbackVars, userVars, moveVars, NotifySearchThread, FlagAfterKill
  <2> QED
    BY <2>1, <2>2, <2>3, <2>4, <2>5, <2>6 DEF IInv
<1> QED
  BY <1>1, <1>2

\* So do the steps of the search thread.
LEMMA SearchThreadKeeps ==
  ASSUME IInv,
         SearchThreadWait \/ SearchThreadSpuriousWakeup \/ SearchThreadExit \/ StartSearch \/
         SearchBegun \/ SearchEnds \/ StopCallbacks \/ JoinCallbacks \/ FinishSearch
  PROVE  IInv'
<1>1. CASE SearchThreadWait
  <2>1. Shapes'
    BY <1>1 DEF IInv, SearchThreadWait, Shapes, SearchPcs, UserPcs, botVars, callbackVars,
       userVars, moveVars
  <2>2. DoesWhatIsQueued'
    BY <1>1 DEF IInv, SearchThreadWait, Shapes, SearchPcs, UserPcs, DoesWhatIsQueued,
       SearchUnderWay, botVars, callbackVars, userVars, moveVars
  <2>3. CallbacksInside'
    BY <1>1 DEF IInv, SearchThreadWait, Shapes, SearchPcs, UserPcs, CallbacksInside, botVars,
       callbackVars, userVars, moveVars
  <2>4. NothingQueued'
    BY <1>1 DEF IInv, SearchThreadWait, Shapes, SearchPcs, UserPcs, DoesWhatIsQueued,
       NothingQueued, SearchUnderWay, botVars, callbackVars, userVars, moveVars
  <2>5. InItsCall'
    BY <1>1 DEF IInv, SearchThreadWait, Shapes, SearchPcs, UserPcs, NothingQueued, InItsCall,
       botVars, callbackVars, userVars, moveVars
  <2>6. MoveAwaited'
    BY <1>1 DEF IInv, SearchThreadWait, Shapes, SearchPcs, UserPcs, NothingQueued, InItsCall,
       MoveAwaited, botVars, callbackVars, userVars, moveVars
  <2> QED
    BY <2>1, <2>2, <2>3, <2>4, <2>5, <2>6 DEF IInv
<1>2. CASE SearchThreadSpuriousWakeup
  <2>1. Shapes'
    BY <1>2 DEF IInv, SearchThreadSpuriousWakeup, Shapes, SearchPcs, UserPcs, botVars,
       callbackVars, userVars, moveVars
  <2>2. DoesWhatIsQueued'
    BY <1>2 DEF IInv, SearchThreadSpuriousWakeup, Shapes, SearchPcs, UserPcs, DoesWhatIsQueued,
       SearchUnderWay, botVars, callbackVars, userVars, moveVars
  <2>3. CallbacksInside'
    BY <1>2 DEF IInv, SearchThreadSpuriousWakeup, Shapes, SearchPcs, UserPcs, CallbacksInside,
       botVars, callbackVars, userVars, moveVars
  <2>4. NothingQueued'
    BY <1>2 DEF IInv, SearchThreadSpuriousWakeup, Shapes, SearchPcs, UserPcs, DoesWhatIsQueued,
       NothingQueued, SearchUnderWay, botVars, callbackVars, userVars, moveVars
  <2>5. InItsCall'
    BY <1>2 DEF IInv, SearchThreadSpuriousWakeup, Shapes, SearchPcs, UserPcs, NothingQueued,
       InItsCall, botVars, callbackVars, userVars, moveVars
  <2>6. MoveAwaited'
    BY <1>2 DEF IInv, SearchThreadSpuriousWakeup, Shapes, SearchPcs, UserPcs, NothingQueued,
       InItsCall, MoveAwaited, botVars, callbackVars, userVars, moveVars
  <2> QED
    BY <2>1, <2>2, <2>3, <2>4, <2>5, <2>6 DEF IInv
<1>3. CASE SearchThreadExit
  <2>1. Shapes'
    <3>1. isRunning' = FALSE
      BY <1>3 DEF SearchThreadExit
    <3>2. searchPc' \in SearchPcs
      BY <1>3 DEF SearchThreadExit, SearchPcs
    <3>3. userPc' \in UserPcs
      BY <1>3 DEF IInv, Shapes, SearchThreadExit, UserPcs, NotifyUser
    <3>4. UNCHANGED <<isKilled, queued, shouldStopNow, analyzing, callbackVars, userCall, moveVars>>
      BY <1>3 DEF SearchThreadExit
    <3> QED
      BY <3>1, <3>2, <3>3, <3>4 DEF IInv, Shapes, botVars, callbackVars, userVars, moveVars
  <2>2. DoesWhatIsQueued'
    BY <1>3 DEF IInv, SearchThreadExit, Shapes, SearchPcs, UserPcs, DoesWhatIsQueued,
       SearchUnderWay, botVars, callbackVars, userVars, moveVars, NotifyUser
  <2>3. CallbacksInside'
    BY <1>3 DEF IInv, SearchThreadExit, Shapes, SearchPcs, UserPcs, CallbacksInside, botVars,
       callbackVars, userVars, moveVars, NotifyUser
  <2>4. NothingQueued'
    BY <1>3 DEF IInv, SearchThreadExit, Shapes, SearchPcs, UserPcs, DoesWhatIsQueued,
       NothingQueued, SearchUnderWay, botVars, callbackVars, userVars, moveVars, NotifyUser
  <2>5. InItsCall'
    BY <1>3 DEF IInv, SearchThreadExit, Shapes, SearchPcs, UserPcs, NothingQueued, InItsCall,
       botVars, callbackVars, userVars, moveVars, NotifyUser
  <2>6. MoveAwaited'
    BY <1>3 DEF IInv, SearchThreadExit, Shapes, SearchPcs, UserPcs, NothingQueued, InItsCall,
       MoveAwaited, botVars, callbackVars, userVars, moveVars, NotifyUser
  <2> QED
    BY <2>1, <2>2, <2>3, <2>4, <2>5, <2>6 DEF IInv
<1>4. CASE StartSearch
  <2>1. Shapes'
    BY <1>4 DEF IInv, StartSearch, Shapes, SearchPcs, UserPcs, botVars, callbackVars, userVars,
       moveVars
  <2>2. DoesWhatIsQueued'
    BY <1>4 DEF IInv, StartSearch, Shapes, SearchPcs, UserPcs, DoesWhatIsQueued, SearchUnderWay,
       botVars, callbackVars, userVars, moveVars
  <2>3. CallbacksInside'
    BY <1>4 DEF IInv, StartSearch, Shapes, SearchPcs, UserPcs, CallbacksInside, botVars,
       callbackVars, userVars, moveVars
  <2>4. NothingQueued'
    BY <1>4 DEF IInv, StartSearch, Shapes, SearchPcs, UserPcs, DoesWhatIsQueued, NothingQueued,
       SearchUnderWay, botVars, callbackVars, userVars, moveVars
  <2>5. InItsCall'
    BY <1>4 DEF IInv, StartSearch, Shapes, SearchPcs, UserPcs, NothingQueued, InItsCall,
       botVars, callbackVars, userVars, moveVars
  <2>6. MoveAwaited'
    BY <1>4 DEF IInv, StartSearch, Shapes, SearchPcs, UserPcs, NothingQueued, InItsCall,
       MoveAwaited, botVars, callbackVars, userVars, moveVars
  <2> QED
    BY <2>1, <2>2, <2>3, <2>4, <2>5, <2>6 DEF IInv
<1>5. CASE SearchBegun
  <2>1. Shapes'
    BY <1>5 DEF IInv, SearchBegun, Shapes, SearchPcs, UserPcs, botVars, callbackVars, userVars,
       moveVars
  <2>2. DoesWhatIsQueued'
    BY <1>5 DEF IInv, SearchBegun, Shapes, SearchPcs, UserPcs, DoesWhatIsQueued, SearchUnderWay,
       botVars, callbackVars, userVars, moveVars
  <2>3. CallbacksInside'
    BY <1>5 DEF IInv, SearchBegun, Shapes, SearchPcs, UserPcs, CallbacksInside, botVars,
       callbackVars, userVars, moveVars
  <2>4. NothingQueued'
    BY <1>5 DEF IInv, SearchBegun, Shapes, SearchPcs, UserPcs, DoesWhatIsQueued, NothingQueued,
       SearchUnderWay, botVars, callbackVars, userVars, moveVars
  <2>5. InItsCall'
    BY <1>5 DEF IInv, SearchBegun, Shapes, SearchPcs, UserPcs, NothingQueued, InItsCall,
       botVars, callbackVars, userVars, moveVars
  <2>6. MoveAwaited'
    BY <1>5 DEF IInv, SearchBegun, Shapes, SearchPcs, UserPcs, NothingQueued, InItsCall,
       MoveAwaited, botVars, callbackVars, userVars, moveVars
  <2> QED
    BY <2>1, <2>2, <2>3, <2>4, <2>5, <2>6 DEF IInv
<1>6. CASE SearchEnds
  <2>1. Shapes'
    BY <1>6 DEF IInv, SearchEnds, Shapes, SearchPcs, UserPcs, botVars, callbackVars, userVars,
       moveVars
  <2>2. DoesWhatIsQueued'
    BY <1>6 DEF IInv, SearchEnds, Shapes, SearchPcs, UserPcs, DoesWhatIsQueued, SearchUnderWay,
       botVars, callbackVars, userVars, moveVars
  <2>3. CallbacksInside'
    BY <1>6 DEF IInv, SearchEnds, Shapes, SearchPcs, UserPcs, CallbacksInside, botVars,
       callbackVars, userVars, moveVars
  <2>4. NothingQueued'
    BY <1>6 DEF IInv, SearchEnds, Shapes, SearchPcs, UserPcs, DoesWhatIsQueued, NothingQueued,
       SearchUnderWay, botVars, callbackVars, userVars, moveVars
  <2>5. InItsCall'
    BY <1>6 DEF IInv, SearchEnds, Shapes, SearchPcs, UserPcs, NothingQueued, InItsCall, botVars,
       callbackVars, userVars, moveVars
  <2>6. MoveAwaited'
    BY <1>6 DEF IInv, SearchEnds, Shapes, SearchPcs, UserPcs, NothingQueued, InItsCall,
       MoveAwaited, botVars, callbackVars, userVars, moveVars
  <2> QED
    BY <2>1, <2>2, <2>3, <2>4, <2>5, <2>6 DEF IInv
<1>7. CASE StopCallbacks
  <2>1. Shapes'
    <3>1. searchPc' \in SearchPcs
      BY <1>7 DEF StopCallbacks, SearchPcs
    <3>2. callbackLoopShouldStop' \in BOOLEAN
      BY <1>7 DEF IInv, Shapes, StopCallbacks
    <3>3. UNCHANGED <<botVars, shouldStopNow, analyzing, callbackPc, userVars, moveVars>>
      BY <1>7 DEF StopCallbacks
    <3> QED
      BY <3>1, <3>2, <3>3 DEF IInv, Shapes, botVars, callbackVars, userVars, moveVars
  <2>2. DoesWhatIsQueued'
    BY <1>7 DEF IInv, StopCallbacks, Shapes, SearchPcs, UserPcs, DoesWhatIsQueued,
       SearchUnderWay, botVars, callbackVars, userVars, moveVars, JoinsCallbacks
  <2>3. CallbacksInside'
    BY <1>7 DEF IInv, StopCallbacks, Shapes, SearchPcs, UserPcs, CallbacksInside, botVars,
       callbackVars, userVars, moveVars, JoinsCallbacks
  <2>4. NothingQueued'
    BY <1>7 DEF IInv, StopCallbacks, Shapes, SearchPcs, UserPcs, DoesWhatIsQueued,
       NothingQueued, SearchUnderWay, botVars, callbackVars, userVars, moveVars, JoinsCallbacks
  <2>5. InItsCall'
    BY <1>7 DEF IInv, StopCallbacks, Shapes, SearchPcs, UserPcs, NothingQueued, InItsCall,
       botVars, callbackVars, userVars, moveVars, JoinsCallbacks
  <2>6. MoveAwaited'
    BY <1>7 DEF IInv, StopCallbacks, Shapes, SearchPcs, UserPcs, NothingQueued, InItsCall,
       MoveAwaited, botVars, callbackVars, userVars, moveVars, JoinsCallbacks
  <2> QED
    BY <2>1, <2>2, <2>3, <2>4, <2>5, <2>6 DEF IInv
<1>8. CASE JoinCallbacks
  <2>1. Shapes'
    BY <1>8 DEF IInv, JoinCallbacks, Shapes, SearchPcs, UserPcs, botVars, callbackVars,
       userVars, moveVars
  <2>2. DoesWhatIsQueued'
    BY <1>8 DEF IInv, JoinCallbacks, Shapes, SearchPcs, UserPcs, DoesWhatIsQueued,
       SearchUnderWay, botVars, callbackVars, userVars, moveVars
  <2>3. CallbacksInside'
    BY <1>8 DEF IInv, JoinCallbacks, Shapes, SearchPcs, UserPcs, CallbacksInside, botVars,
       callbackVars, userVars, moveVars
  <2>4. NothingQueued'
    BY <1>8 DEF IInv, JoinCallbacks, Shapes, SearchPcs, UserPcs, DoesWhatIsQueued,
       NothingQueued, SearchUnderWay, botVars, callbackVars, userVars, moveVars
  <2>5. InItsCall'
    BY <1>8 DEF IInv, JoinCallbacks, Shapes, SearchPcs, UserPcs, NothingQueued, InItsCall,
       botVars, callbackVars, userVars, moveVars
  <2>6. MoveAwaited'
    BY <1>8 DEF IInv, JoinCallbacks, Shapes, SearchPcs, UserPcs, NothingQueued, InItsCall,
       MoveAwaited, botVars, callbackVars, userVars, moveVars
  <2> QED
    BY <2>1, <2>2, <2>3, <2>4, <2>5, <2>6 DEF IInv
<1>9. CASE FinishSearch
  <2>1. Shapes'
    <3>1. isRunning' = FALSE
      BY <1>9 DEF FinishSearch
    <3>2. searchPc' \in SearchPcs
      BY <1>9 DEF FinishSearch, SearchPcs
    <3>3. userPc' \in UserPcs
      BY <1>9 DEF IInv, Shapes, FinishSearch, UserPcs, NotifyUser
    <3>4. owed' \in SearchIds \cup {NULL} /\ moveLoc' \in SearchIds \cup {NULL}
      BY <1>9 DEF IInv, Shapes, FinishSearch, moveVars
    <3>5. UNCHANGED <<isKilled, queued, shouldStopNow, analyzing, callbackVars, userCall>>
      BY <1>9 DEF FinishSearch
    <3> QED
      BY <3>1, <3>2, <3>3, <3>4, <3>5 DEF IInv, Shapes, botVars, callbackVars, userVars,
         moveVars
  <2>2. DoesWhatIsQueued'
    BY <1>9 DEF IInv, FinishSearch, Shapes, SearchPcs, UserPcs, DoesWhatIsQueued,
       SearchUnderWay, botVars, callbackVars, userVars, moveVars, NotifyUser
  <2>3. CallbacksInside'
    BY <1>9 DEF IInv, FinishSearch, Shapes, SearchPcs, UserPcs, CallbacksInside, botVars,
       callbackVars, userVars, moveVars, NotifyUser
  <2>4. NothingQueued'
    BY <1>9 DEF IInv, FinishSearch, Shapes, SearchPcs, UserPcs, DoesWhatIsQueued, NothingQueued,
       SearchUnderWay, botVars, callbackVars, userVars, moveVars, NotifyUser
  <2>5. InItsCall'
    BY <1>9 DEF IInv, FinishSearch, Shapes, SearchPcs, UserPcs, NothingQueued, InItsCall,
       botVars, callbackVars, userVars, moveVars, NotifyUser
  <2>6. MoveAwaited'
    BY <1>9 DEF IInv, FinishSearch, Shapes, SearchPcs, UserPcs, NothingQueued, InItsCall,
       MoveAwaited, DoesWhatIsQueued, SearchUnderWay, botVars, callbackVars, userVars, moveVars,
       NotifyUser
  <2> QED
    BY <2>1, <2>2, <2>3, <2>4, <2>5, <2>6 DEF IInv
<1> QED
  BY <1>1, <1>2, <1>3, <1>4, <1>5, <1>6, <1>7, <1>8, <1>9

\* So do the steps of the callback thread.
LEMMA CallbacksKeep ==
  ASSUME IInv,
         CallbackTimeout \/ CallbackReturns \/ CallbackThreadExit
  PROVE  IInv'
<1>1. CASE CallbackTimeout
  <2>1. Shapes'
    BY <1>1 DEF IInv, CallbackTimeout, Shapes, SearchPcs, UserPcs, botVars, callbackVars,
       userVars, moveVars
  <2>2. DoesWhatIsQueued'
    BY <1>1 DEF IInv, CallbackTimeout, Shapes, SearchPcs, UserPcs, DoesWhatIsQueued,
       SearchUnderWay, botVars, callbackVars, userVars, moveVars
  <2>3. CallbacksInside'
    BY <1>1 DEF IInv, CallbackTimeout, Shapes, SearchPcs, UserPcs, CallbacksInside, botVars,
       callbackVars, userVars, moveVars
  <2>4. NothingQueued'
    BY <1>1 DEF IInv, CallbackTimeout, Shapes, SearchPcs, UserPcs, DoesWhatIsQueued,
       NothingQueued, SearchUnderWay, botVars, callbackVars, userVars, moveVars
  <2>5. InItsCall'
    BY <1>1 DEF IInv, CallbackTimeout, Shapes, SearchPcs, UserPcs, NothingQueued, InItsCall,
       botVars, callbackVars, userVars, moveVars
  <2>6. MoveAwaited'
    BY <1>1 DEF IInv, CallbackTimeout, Shapes, SearchPcs, UserPcs, NothingQueued, InItsCall,
       MoveAwaited, botVars, callbackVars, userVars, moveVars
  <2> QED
    BY <2>1, <2>2, <2>3, <2>4, <2>5, <2>6 DEF IInv
<1>2. CASE CallbackReturns
  <2>1. Shapes'
    BY <1>2 DEF IInv, CallbackReturns, Shapes, SearchPcs, UserPcs, botVars, callbackVars,
       userVars, moveVars
  <2>2. DoesWhatIsQueued'
    BY <1>2 DEF IInv, CallbackReturns, Shapes, SearchPcs, UserPcs, DoesWhatIsQueued,
       SearchUnderWay, botVars, callbackVars, userVars, moveVars
  <2>3. CallbacksInside'
    BY <1>2 DEF IInv, CallbackReturns, Shapes, SearchPcs, UserPcs, CallbacksInside, botVars,
       callbackVars, userVars, moveVars
  <2>4. NothingQueued'
    BY <1>2 DEF IInv, CallbackReturns, Shapes, SearchPcs, UserPcs, DoesWhatIsQueued,
       NothingQueued, SearchUnderWay, botVars, callbackVars, userVars, moveVars
  <2>5. InItsCall'
    BY <1>2 DEF IInv, CallbackReturns, Shapes, SearchPcs, UserPcs, NothingQueued, InItsCall,
       botVars, callbackVars, userVars, moveVars
  <2>6. MoveAwaited'
    BY <1>2 DEF IInv, CallbackReturns, Shapes, SearchPcs, UserPcs, NothingQueued, InItsCall,
       MoveAwaited, botVars, callbackVars, userVars, moveVars
  <2> QED
    BY <2>1, <2>2, <2>3, <2>4, <2>5, <2>6 DEF IInv
<1>3. CASE CallbackThreadExit
  <2>1. Shapes'
    BY <1>3 DEF IInv, CallbackThreadExit, Shapes, SearchPcs, UserPcs, botVars, callbackVars,
       userVars, moveVars
  <2>2. DoesWhatIsQueued'
    BY <1>3 DEF IInv, CallbackThreadExit, Shapes, SearchPcs, UserPcs, DoesWhatIsQueued,
       SearchUnderWay, botVars, callbackVars, userVars, moveVars
  <2>3. CallbacksInside'
    BY <1>3 DEF IInv, CallbackThreadExit, Shapes, SearchPcs, UserPcs, CallbacksInside, botVars,
       callbackVars, userVars, moveVars
  <2>4. NothingQueued'
    BY <1>3 DEF IInv, CallbackThreadExit, Shapes, SearchPcs, UserPcs, DoesWhatIsQueued,
       NothingQueued, SearchUnderWay, botVars, callbackVars, userVars, moveVars
  <2>5. InItsCall'
    BY <1>3 DEF IInv, CallbackThreadExit, Shapes, SearchPcs, UserPcs, NothingQueued, InItsCall,
       botVars, callbackVars, userVars, moveVars
  <2>6. MoveAwaited'
    BY <1>3 DEF IInv, CallbackThreadExit, Shapes, SearchPcs, UserPcs, NothingQueued, InItsCall,
       MoveAwaited, botVars, callbackVars, userVars, moveVars
  <2> QED
    BY <2>1, <2>2, <2>3, <2>4, <2>5, <2>6 DEF IInv
<1> QED
  BY <1>1, <1>2, <1>3

-----------------------------------------------------------------------------
(* The theorems                                                            *)

LEMMA InitIInv == Init => IInv
<1> SUFFICES ASSUME Init PROVE IInv
  OBVIOUS
<1>1. NoSearch.onMove = FALSE /\ NoCall.op = "none"
  BY DEF NoSearch, Search, NoCall, StopCall
<1>2. NoSearch \in [id : SearchIds \cup {NULL}, onMove : BOOLEAN, analyze : BOOLEAN]
  BY DEF NoSearch, Search
<1>3. Shapes /\ DoesWhatIsQueued
  BY <1>2 DEF Init, Shapes, SearchPcs, UserPcs, DoesWhatIsQueued, SearchUnderWay
<1> QED
  BY <1>1, <1>3 DEF Init, IInv, CallbacksInside, NothingQueued, InItsCall, MoveAwaited

LEMMA NextIInv == IInv /\ [Next]_vars => IInv'
<1> SUFFICES ASSUME IInv, [Next]_vars PROVE IInv'
  OBVIOUS
<1>1. CASE UNCHANGED vars
  BY <1>1 DEF IInv, Shapes, DoesWhatIsQueued, CallbacksInside, NothingQueued, InItsCall,
     MoveAwaited, SearchUnderWay, vars, botVars, callbackVars, userVars, moveVars
<1>2. CASE Next
  BY <1>2, UserKeeps, OthersKeep, SearchThreadKeeps, CallbacksKeep
     DEF Next, InCall, SearchThreadStep, SeeShouldStop, CallbackThreadStep
<1> QED
  BY <1>1, <1>2

LEMMA Invariance == Spec => []IInv
  BY InitIInv, NextIInv, PTL DEF Spec

\* The types, and that the search thread always does the search that was queued last
\* (AsyncBot::internalSearchThreadLoop and the calls that queue).
THEOREM TypeCorrect == Spec => []TypeOK
  BY InvTypeOK, Invariance, PTL

\* Nobody touches the search object while a search or a callback runs on it
\* (AsyncBot::stopAndWait and waitForSearchToEnd).
THEOREM UserUndisturbed == Spec => []SearchUndisturbed
<1>1. IInv => SearchUndisturbed
  BY DEF IInv, Shapes, SearchPcs, DoesWhatIsQueued, CallbacksInside, NothingQueued, SearchUnderWay,
     SearchUndisturbed
<1> QED
  BY <1>1, Invariance, PTL

\* Each accepted genMove is answered with its own id, unless the bot is killed
\* (AsyncBot::genMoveAsync, genMoveSynchronous and the onMove of the search thread).
THEOREM EachMoveAnswered == Spec => []MoveOwed
<1>1. IInv => MoveOwed
  BY DEF IInv, MoveAwaited, MoveOwed
<1> QED
  BY <1>1, Invariance, PTL
=============================================================================
