------------------------- MODULE NNEvaluatorProofs -------------------------
(***************************************************************************)
(* Theorems about NNEvaluator, for every number of clients and servers,    *)
(* every batch size, and every cache.                                      *)
(***************************************************************************)
EXTENDS NNEvaluator, FiniteSetTheorems, TLAPS

-----------------------------------------------------------------------------
(* The size of the ring.                                                    *)

\* The doubling loop of the constructor finds a power of two that is large enough
\* and less than twice as large as needed.
LEMMA NumResultBufssFound ==
  /\ NumResultBufss \in Doublings
  /\ BufssNeeded <= NumResultBufss
  /\ NumResultBufss < 2 * BufssNeeded
<1>1. BufssNeeded \in Nat /\ BufssNeeded >= 3
  BY ConcurrencyAssumption DEF ConcurrencyAssumption, BufssNeeded
<1>2. \E x \in Doublings : BufssNeeded <= x /\ x < 2 * BufssNeeded
  BY <1>1, RingAssumption DEF RingAssumption, Doublings
<1> QED
  BY <1>2 DEF NumResultBufss

\* The ring is never empty, so its indices are numbers below its size.
LEMMA RingSize ==
  /\ NumResultBufss \in Nat
  /\ NumResultBufss >= 3
<1>1. BufssNeeded \in Nat /\ BufssNeeded >= 3
  BY ConcurrencyAssumption DEF ConcurrencyAssumption, BufssNeeded
<1>2. NumResultBufss \in Nat
  BY NumResultBufssFound DEF Doublings
<1> QED
  BY <1>1, <1>2, NumResultBufssFound

\* Moving to the next batch stays in the ring and does move.
LEMMA NextIdxInRing ==
  ASSUME NEW i \in BufssIdx
  PROVE  NextIdx(i) \in BufssIdx /\ NextIdx(i) # i
<1>1. i \in Nat /\ i < NumResultBufss
  BY RingSize DEF BufssIdx
<1>2. CASE i + 1 < NumResultBufss
  <2>1. NextIdx(i) = i + 1
    BY <1>1, <1>2, RingSize DEF NextIdx
  <2> QED
    BY <2>1, <1>1, <1>2, RingSize DEF BufssIdx
<1>3. CASE i + 1 = NumResultBufss
  <2>1. NextIdx(i) = 0
    BY <1>1, <1>3, RingSize DEF NextIdx
  <2> QED
    BY <2>1, <1>1, <1>3, RingSize DEF BufssIdx
<1> QED
  BY <1>1, <1>2, <1>3, RingSize

-----------------------------------------------------------------------------
(* The inductive invariant.  TypeOK and the other invariants of NNEvaluator *)
(* are not inductive one by one: that a batch holds clients which wait, all *)
(* different ones, is what keeps the outputs well-typed, the ring in shape  *)
(* and the ring from wrapping around.                                       *)

Batching(s) == serverPc[s] \in {"evaluating", "posting"}

\* Servers that are not there are off; while the servers are wanted there are some.
OwnerOK ==
  /\ \A s \in Servers : s \notin serverThreads => serverPc[s] = "off"
  /\ ownerPc = "off" => serverThreads = {} /\ ~isKilled
  /\ ownerPc = "running" => serverThreads # {} /\ ~isKilled

\* What a client knows at each place of evaluate.
ClientsOK ==
  \A c \in Clients :
    /\ clientPc[c] # "idle" => req[c] \in Requests
    /\ clientPc[c] \in {"lookup", "enqueue"} => ~hasResult[c]
    /\ (clientPc[c] = "waiting" /\ hasResult[c]) => result[c] = NetOutput(req[c])

\* A result kept for lack of the owner map answers the rest of what was asked, and is
\* there only while evaluate is at work for the owner map.
KeptResultsOK ==
  \A c \in Clients :
    resultWithoutOwnerMap[c] # NULL =>
      /\ clientPc[c] \in {"enqueue", "waiting"}
      /\ resultWithoutOwnerMap[c].key = req[c].key
      /\ resultWithoutOwnerMap[c].persp = "white"

CacheOK == \A i \in CacheSlots : cache[i] # NULL => cache[i].persp = "white"

\* The rows of a server's batch that are still to be posted.
Pending(s, r) == Batching(s) /\ row[s] <= r /\ r <= numRows[s]

BatchesOK ==
  \A s \in Servers :
    /\ Batching(s) => row[s] <= numRows[s]
    /\ serverPc[s] = "evaluating" => row[s] = 1
    /\ \A r \in Rows : (serverBuf[s][r] # NULL) <=> Pending(s, r)

OutputsOK ==
  \A s \in Servers, r \in Rows :
    (serverPc[s] = "posting" /\ Pending(s, r)) =>
      outputBuf[s][r] = NetOutput(req[serverBuf[s][r]])

\* Rows point to waiting clients, no two rows to the same one, and every waiting
\* client has its row.
RowsAwait ==
  /\ \A i \in BufssIdx, r \in Rows :
       resultBufss[i][r] # NULL => Awaiting(resultBufss[i][r])
  /\ \A s \in Servers, r \in Rows :
       serverBuf[s][r] # NULL => Awaiting(serverBuf[s][r])

RingRowsDistinct ==
  \A i, j \in BufssIdx, q, r \in Rows :
    (resultBufss[i][q] # NULL /\ resultBufss[i][q] = resultBufss[j][r]) => (i = j /\ q = r)

ServerRowsDistinct ==
  \A s, t \in Servers, q, r \in Rows :
    (serverBuf[s][q] # NULL /\ serverBuf[s][q] = serverBuf[t][r]) => (s = t /\ q = r)

RingServerDisjoint ==
  \A i \in BufssIdx, s \in Servers, q, r \in Rows :
    resultBufss[i][q] # NULL => resultBufss[i][q] # serverBuf[s][r]

AwaitingPlaced ==
  \A c \in Clients :
    Awaiting(c) =>
      \/ \E i \in BufssIdx, r \in Rows : resultBufss[i][r] = c
      \/ \E s \in Servers, r \in Rows : serverBuf[s][r] = c

PlacesOK ==
  /\ RowsAwait
  /\ RingRowsDistinct
  /\ ServerRowsDistinct
  /\ RingServerDisjoint
  /\ AwaitingPlaced

\* RingShape without remainders: the full batches lie from the oldest up to, not
\* including, the one being filled, perhaps around the end of the ring.
Between(i, from, to) ==
  IF from <= to THEN from <= i /\ i < to ELSE from <= i \/ i < to

FullBatch(i) == Between(i, oldestResultBufsIdx, currentResultBufsIdx)

RingOK ==
  \A i \in BufssIdx, r \in Rows :
    (resultBufss[i][r] # NULL) <=>
      (FullBatch(i) \/ (i = currentResultBufsIdx /\ r <= currentResultBufsLen))

IInv ==
  /\ TypeOK
  /\ OwnerOK
  /\ NoLostWakeup
  /\ ClientsOK
  /\ KeptResultsOK
  /\ CacheOK
  /\ ResultMatches
  /\ BatchesOK
  /\ OutputsOK
  /\ PlacesOK
  /\ RingOK
  /\ NeverOverlooped

-----------------------------------------------------------------------------
(* Type correctness.                                                        *)

LEMMA TypeOKInit == Init => TypeOK
<1>1. 0 \in BufssIdx
  BY RingSize DEF BufssIdx
<1>2. EmptyBatch \in [Rows -> Clients \cup {NULL}] /\ EmptyBatch \in [Rows -> Outputs \cup {NULL}]
  BY DEF EmptyBatch
<1>3. 1 \in Rows /\ 0 \in 0 .. MaxBatchSize - 1 /\ 0 \in 0 .. MaxBatchSize
  BY ConcurrencyAssumption DEF Rows, ConcurrencyAssumption
<1> SUFFICES ASSUME Init PROVE TypeOK
  OBVIOUS
<1>4. /\ resultBufss \in [BufssIdx -> [Rows -> Clients \cup {NULL}]]
      /\ serverBuf \in [Servers -> [Rows -> Clients \cup {NULL}]]
      /\ outputBuf \in [Servers -> [Rows -> Outputs \cup {NULL}]]
  BY <1>2 DEF Init
<1>5. /\ numRows \in [Servers -> 0 .. MaxBatchSize]
      /\ row \in [Servers -> Rows]
      /\ currentResultBufsLen \in 0 .. MaxBatchSize - 1
      /\ currentResultBufsIdx \in BufssIdx
      /\ oldestResultBufsIdx \in BufssIdx
  BY <1>1, <1>3 DEF Init
<1> QED
  BY <1>4, <1>5 DEF Init, TypeOK

\* What the rows of a batch on its way to the net point to.
LEMMA EvaluatedRows ==
  ASSUME IInv, NEW s \in Servers, serverPc[s] = "evaluating",
         NEW r \in Rows, r <= numRows[s]
  PROVE  serverBuf[s][r] \in Clients /\ req[serverBuf[s][r]] \in Requests
<1>1. serverBuf[s][r] # NULL
  BY DEF IInv, BatchesOK, Pending, Batching, Rows
<1>2. serverBuf[s][r] \in Clients
  BY <1>1 DEF IInv, TypeOK
<1>3. clientPc[serverBuf[s][r]] = "waiting"
  BY <1>1 DEF IInv, PlacesOK, RowsAwait, Awaiting
<1> QED
  BY <1>2, <1>3 DEF IInv, ClientsOK

\* evaluate postprocesses a net output once before anyone else can see it.
LEMMA PostprocessedOutput ==
  ASSUME NEW r \in Requests
  PROVE  Postprocess(NetOutput(r)) = [key |-> r.key, owner |-> r.owner, persp |-> "white"]
  BY DEF Postprocess, NetOutput

\* What evaluate makes of the output answers the call, with or without a kept result.
LEMMA FinishedOutput ==
  ASSUME IInv, NEW c \in Clients, FinishEvaluate(c)
  PROVE  /\ Finished(c) \in Outputs
         /\ Finished(c).key = req[c].key
         /\ Finished(c).owner = req[c].owner
         /\ Finished(c).persp = "white"
<1>1. result[c] = NetOutput(req[c]) /\ req[c] \in Requests
  BY DEF IInv, FinishEvaluate, ClientAt, ClientsOK
<1>2. CASE resultWithoutOwnerMap[c] = NULL
  BY <1>1, <1>2, PostprocessedOutput DEF Finished, Outputs, Requests, Perspectives
<1>3. CASE resultWithoutOwnerMap[c] # NULL
  <2>1. PICK kept \in Outputs : kept = resultWithoutOwnerMap[c]
    BY <1>3 DEF IInv, TypeOK
  <2>2. kept.key = req[c].key /\ kept.persp = "white"
    BY <1>3, <2>1 DEF IInv, KeptResultsOK
  <2>3. Finished(c) = [kept EXCEPT !.owner = req[c].owner]
    BY <1>1, <1>3, <2>1 DEF Finished, NetOutput
  <2>4. req[c].owner \in BOOLEAN
    BY <1>1 DEF Requests
  <2> QED
    BY <2>2, <2>3, <2>4 DEF Outputs
<1> QED
  BY <1>2, <1>3

LEMMA TypeOKStep ==
  ASSUME IInv, [Next]_vars
  PROVE  TypeOK'
<1> USE DEF IInv
<1>1. ASSUME NEW c \in Clients, CallEvaluate(c) PROVE TypeOK'
  BY <1>1 DEF TypeOK, CallEvaluate, ClientAt, ringVars, batchVars, ownerVars
<1>2. ASSUME NEW c \in Clients, LookupHit(c) PROVE TypeOK'
  <2>1. cache[SlotOf[req[c].key]] \in Outputs
    BY <1>2, CacheAssumption
    DEF TypeOK, LookupHit, ClientAt, UsableHit, CacheHolds, CacheAssumption, ClientsOK, Requests
  <2> QED
    BY <1>2, <2>1 DEF TypeOK, LookupHit, ClientAt, ringVars, batchVars, ownerVars
<1>3. ASSUME NEW c \in Clients, LookupMiss(c) PROVE TypeOK'
  BY <1>3 DEF TypeOK, LookupMiss, ClientAt, ringVars, batchVars, ownerVars
<1>15. ASSUME NEW c \in Clients, LookupWithoutOwnerMap(c) PROVE TypeOK'
  <2>1. cache[SlotOf[req[c].key]] \in Outputs
    BY <1>15, CacheAssumption
    DEF TypeOK, LookupWithoutOwnerMap, ClientAt, CacheHolds, CacheAssumption, ClientsOK, Requests
  <2> QED
    BY <1>15, <2>1 DEF TypeOK, LookupWithoutOwnerMap, ClientAt, ringVars, batchVars, ownerVars
<1>16. ASSUME NEW c \in Clients, RefuseEvaluate(c) PROVE TypeOK'
  BY <1>16 DEF TypeOK, RefuseEvaluate, ClientAt, ringVars, batchVars, ownerVars
<1>4. ASSUME NEW c \in Clients, Enqueue(c) PROVE TypeOK'
  <2>1. currentResultBufsLen' \in 0 .. MaxBatchSize - 1
    BY <1>4, ConcurrencyAssumption DEF TypeOK, Enqueue, BatchFull, ConcurrencyAssumption
  <2>2. currentResultBufsIdx' \in BufssIdx
    BY <1>4, NextIdxInRing DEF TypeOK, Enqueue
  <2>3. serverPc' \in [Servers -> {"off", "starting", "lock", "waiting", "evaluating",
                                   "posting", "exited"}]
    BY <1>4 DEF TypeOK, Enqueue, NotifyServer
  <2>4. resultBufss' \in [BufssIdx -> [Rows -> Clients \cup {NULL}]]
    BY <1>4 DEF TypeOK, Enqueue
  <2> QED
    BY <1>4, <2>1, <2>2, <2>3, <2>4 DEF TypeOK, Enqueue, ClientAt, batchVars, ownerVars
<1>5. ASSUME NEW c \in Clients, FinishEvaluate(c) PROVE TypeOK'
  <2>1. Finished(c) \in Outputs
    BY <1>5, FinishedOutput
  <2>2. result' \in [Clients -> Outputs \cup {NULL}]
    BY <1>5, <2>1 DEF TypeOK, FinishEvaluate
  <2>3. cache' \in [CacheSlots -> Outputs \cup {NULL}]
    BY <1>5, <2>1 DEF TypeOK, FinishEvaluate
  <2> QED
    BY <1>5, <2>2, <2>3 DEF TypeOK, FinishEvaluate, ClientAt, ringVars, batchVars, ownerVars
<1>6. ASSUME NEW c \in Clients, FailEvaluate(c) PROVE TypeOK'
  BY <1>6 DEF TypeOK, FailEvaluate, ClientAt, ringVars, batchVars, ownerVars
<1>7. ASSUME NEW c \in Clients, Consume(c) PROVE TypeOK'
  BY <1>7 DEF TypeOK, Consume, ClientAt, ringVars, batchVars, ownerVars
<1>8. ASSUME NEW s \in Servers, StartServer(s) \/ WaitForBatch(s) \/ SpuriousWakeup(s) \/ ExitServer(s)
      PROVE TypeOK'
  BY <1>8 DEF TypeOK, StartServer, WaitForBatch, SpuriousWakeup, ExitServer, ServerAt,
              clientVars, ringVars, batchVars, ownerVars
<1>9. ASSUME NEW s \in Servers, TakeBatch(s) PROVE TypeOK'
  <2>1. /\ NextIdx(oldestResultBufsIdx) \in BufssIdx
        /\ oldestResultBufsIdx \in BufssIdx
    BY NextIdxInRing DEF TypeOK
  <2>2. resultBufss' \in [BufssIdx -> [Rows -> Clients \cup {NULL}]]
    BY <1>9, <2>1 DEF TypeOK, TakeBatch, LeftInRing
  <2>3. serverBuf' \in [Servers -> [Rows -> Clients \cup {NULL}]]
    BY <1>9, <2>1 DEF TypeOK, TakeBatch
  <2>4. RowsTaken \in 0 .. MaxBatchSize /\ LenAfterTake \in 0 .. MaxBatchSize - 1
    BY ConcurrencyAssumption DEF TypeOK, RowsTaken, LenAfterTake, ConcurrencyAssumption
  <2>5. 1 \in Rows
    BY ConcurrencyAssumption DEF Rows, ConcurrencyAssumption
  <2> QED
    BY <1>9, <2>1, <2>2, <2>3, <2>4, <2>5 DEF TypeOK, TakeBatch, ServerAt, clientVars, ownerVars
<1>10. ASSUME NEW s \in Servers, GetOutput(s) PROVE TypeOK'
  <2>1. ASSUME NEW r \in Rows
        PROVE (IF r <= numRows[s] THEN NetOutput(req[serverBuf[s][r]]) ELSE NULL)
                 \in Outputs \cup {NULL}
    BY <1>10, EvaluatedRows DEF GetOutput, ServerAt, NetOutput, Outputs, Requests, Perspectives
  <2>2. outputBuf' \in [Servers -> [Rows -> Outputs \cup {NULL}]]
    BY <1>10, <2>1 DEF TypeOK, GetOutput
  <2> QED
    BY <1>10, <2>2 DEF TypeOK, GetOutput, ServerAt, clientVars, ringVars, ownerVars
<1>11. ASSUME NEW s \in Servers, PostRow(s) PROVE TypeOK'
  <2>1. row[s] \in Rows /\ outputBuf[s][row[s]] \in Outputs \cup {NULL}
    BY DEF TypeOK
  <2>2. /\ hasResult' = [hasResult EXCEPT ![serverBuf[s][row[s]]] = TRUE]
        /\ result' = [result EXCEPT ![serverBuf[s][row[s]]] = outputBuf[s][row[s]]]
    BY <1>11 DEF PostRow
  <2>7. hasResult' \in [Clients -> BOOLEAN] /\ result' \in [Clients -> Outputs \cup {NULL}]
    BY <2>1, <2>2 DEF TypeOK
  <2>3. serverBuf' \in [Servers -> [Rows -> Clients \cup {NULL}]]
    BY <1>11, <2>1 DEF TypeOK, PostRow
  <2>4. row' \in [Servers -> Rows] /\ numRows' \in [Servers -> 0 .. MaxBatchSize]
    <3>1. 1 \in Rows /\ (row[s] < numRows[s] => row[s] + 1 \in Rows) /\ 0 \in 0 .. MaxBatchSize
      BY <2>1, ConcurrencyAssumption DEF TypeOK, Rows, ConcurrencyAssumption
    <3> QED
      BY <1>11, <3>1 DEF TypeOK, PostRow
  <2>5. outputBuf' \in [Servers -> [Rows -> Outputs \cup {NULL}]]
    <3>1. EmptyBatch \in [Rows -> Outputs \cup {NULL}]
      BY DEF EmptyBatch
    <3>2. outputBuf' = outputBuf \/ outputBuf' = [outputBuf EXCEPT ![s] = EmptyBatch]
      BY <1>11 DEF PostRow
    <3> QED
      BY <3>1, <3>2 DEF TypeOK
  <2>6. serverPc' \in [Servers -> {"off", "starting", "lock", "waiting", "evaluating",
                                   "posting", "exited"}]
    BY <1>11 DEF TypeOK, PostRow
  <2> QED
    BY <1>11, <2>3, <2>4, <2>5, <2>6, <2>7 DEF TypeOK, PostRow, ringVars, ownerVars
<1>12. ASSUME NEW i \in CacheSlots, ClearCacheEntry(i) PROVE TypeOK'
  BY <1>12 DEF TypeOK, ClearCacheEntry, clientVars, ringVars, batchVars, ownerVars
<1>13. CASE SpawnServerThreads \/ KillServerThreads \/ NotifyAllServers \/ JoinServers
  BY <1>13 DEF TypeOK, SpawnServerThreads, KillServerThreads, NotifyAllServers, JoinServers,
               clientVars, ringVars, batchVars
<1>14. CASE UNCHANGED vars
  BY <1>14 DEF TypeOK, vars, clientVars, ringVars, batchVars, ownerVars
<1> QED
  BY <1>1, <1>2, <1>3, <1>4, <1>5, <1>6, <1>7, <1>8, <1>9, <1>10, <1>11, <1>12, <1>13, <1>14,
     <1>15, <1>16
  DEF Next, ClientStep, ServerStep, OwnerStep

-----------------------------------------------------------------------------
(* Server threads and wakeups.                                              *)

LEMMA OwnerOKInit == Init => OwnerOK
  BY DEF Init, OwnerOK

\* A server thread that takes a step is there, stays there, and moves no other.
LEMMA ServerStepLocal ==
  ASSUME TypeOK, NEW s \in Servers, ServerStep(s)
  PROVE  /\ UNCHANGED ownerVars
         /\ serverPc[s] # "off"
         /\ \A t \in Servers : t # s => serverPc'[t] = serverPc[t]
         /\ ~WaitForBatch(s) => serverPc'[s] # "waiting"
<1> USE DEF TypeOK, ServerAt
<1>1. CASE StartServer(s)
  BY <1>1 DEF StartServer
<1>2. CASE WaitForBatch(s)
  BY <1>2 DEF WaitForBatch
<1>3. CASE SpuriousWakeup(s)
  BY <1>3 DEF SpuriousWakeup
<1>4. CASE TakeBatch(s)
  BY <1>4 DEF TakeBatch
<1>5. CASE GetOutput(s)
  BY <1>5 DEF GetOutput
<1>6. CASE PostRow(s)
  <2>1. serverPc' = serverPc \/ serverPc' = [serverPc EXCEPT ![s] = "lock"]
    BY <1>6 DEF PostRow
  <2> QED
    BY <1>6, <2>1 DEF PostRow
<1>7. CASE ExitServer(s)
  BY <1>7 DEF ExitServer
<1> QED
  BY <1>1, <1>2, <1>3, <1>4, <1>5, <1>6, <1>7 DEF ServerStep

LEMMA OwnerOKStep ==
  ASSUME IInv, [Next]_vars
  PROVE  OwnerOK'
<1> USE DEF IInv, OwnerOK
<1>1. CASE UNCHANGED <<ownerVars, serverPc>>
  BY <1>1 DEF ownerVars
<1>2. ASSUME NEW c \in Clients, Enqueue(c) PROVE OwnerOK'
  BY <1>2 DEF Enqueue, NotifyServer, ownerVars, TypeOK
<1>3. ASSUME NEW s \in Servers, ServerStep(s) PROVE OwnerOK'
  BY <1>3, ServerStepLocal DEF ownerVars
<1>4. CASE SpawnServerThreads
  <2>1. PICK threads \in (SUBSET Servers) \ {{}} :
          /\ serverThreads' = threads
          /\ serverPc' = [s \in Servers |-> IF s \in threads THEN "starting" ELSE "off"]
    BY <1>4 DEF SpawnServerThreads
  <2> QED
    BY <1>4, <2>1 DEF SpawnServerThreads
<1>5. CASE KillServerThreads
  BY <1>5 DEF KillServerThreads
<1>6. CASE NotifyAllServers
  BY <1>6 DEF NotifyAllServers, TypeOK
<1>7. CASE JoinServers
  BY <1>7 DEF JoinServers, TypeOK
<1>8. ASSUME NEW c \in Clients, ClientStep(c), ~Enqueue(c)
      PROVE  UNCHANGED <<ownerVars, serverPc>>
  BY <1>8 DEF ClientStep, CallEvaluate, LookupHit, LookupWithoutOwnerMap, LookupMiss,
              RefuseEvaluate, FinishEvaluate, FailEvaluate, Consume
<1>9. ASSUME NEW i \in CacheSlots, ClearCacheEntry(i)
      PROVE  UNCHANGED <<ownerVars, serverPc>>
  BY <1>9 DEF ClearCacheEntry
<1> QED
  BY <1>1, <1>2, <1>3, <1>4, <1>5, <1>6, <1>7, <1>8, <1>9 DEF Next, OwnerStep, vars

\* A thread that is at work is one of the spawned ones.
LEMMA WorkersSpawned ==
  ASSUME OwnerOK, NEW s \in Servers, serverPc[s] # "off"
  PROVE  s \in serverThreads
  BY DEF OwnerOK

LEMMA NoLostWakeupInit == Init => NoLostWakeup
  BY DEF Init, NoLostWakeup

\* An enqueue that notifies nobody joins rows that were there already; a server
\* waits only when it finds nothing queued.
LEMMA NoLostWakeupStep ==
  ASSUME IInv, [Next]_vars
  PROVE  NoLostWakeup'
<1> USE DEF IInv
<1>1. CASE UNCHANGED <<ringVars, ownerVars, serverPc>>
  BY <1>1 DEF NoLostWakeup, NothingQueued, OldestIsCurrent, ringVars, ownerVars
<1>2. ASSUME NEW c \in Clients, Enqueue(c) PROVE NoLostWakeup'
  <2> SUFFICES ASSUME ownerPc = "running"
               PROVE  \E s \in serverThreads : serverPc'[s] # "waiting"
    BY <1>2 DEF NoLostWakeup, Enqueue, ownerVars
  <2>1. CASE WakesServer /\ \E s \in Servers : serverPc[s] = "waiting"
    <3>1. PICK s \in Servers : /\ serverPc[s] = "waiting"
                               /\ serverPc' = [serverPc EXCEPT ![s] = "lock"]
      BY <1>2, <2>1 DEF Enqueue, NotifyServer
    <3>2. s \in serverThreads /\ serverPc'[s] = "lock"
      BY <3>1, WorkersSpawned DEF TypeOK
    <3> QED
      BY <3>2
  <2>2. CASE WakesServer /\ ~\E s \in Servers : serverPc[s] = "waiting"
    <3>1. serverThreads # {} /\ serverThreads \subseteq Servers
      BY DEF OwnerOK, TypeOK
    <3>2. serverPc' = serverPc
      BY <1>2, <2>2 DEF Enqueue, NotifyServer
    <3> QED
      BY <2>2, <3>1, <3>2
  <2>3. CASE ~WakesServer
    <3>1. ~NothingQueued
      BY <2>3 DEF WakesServer, FirstQueuedRow, NothingQueued, TypeOK
    <3>2. serverPc' = serverPc
      BY <1>2, <2>3 DEF Enqueue
    <3> QED
      BY <3>1, <3>2 DEF NoLostWakeup
  <2> QED
    BY <2>1, <2>2, <2>3
<1>3. ASSUME NEW s \in Servers, WaitForBatch(s) PROVE NoLostWakeup'
  BY <1>3 DEF WaitForBatch, NoLostWakeup, NothingQueued, OldestIsCurrent, ringVars
<1>4. ASSUME NEW s \in Servers, ServerStep(s), ~WaitForBatch(s) PROVE NoLostWakeup'
  <2>1. serverPc[s] # "off" /\ serverPc'[s] # "waiting" /\ serverThreads' = serverThreads
    BY <1>4, ServerStepLocal DEF ownerVars
  <2> QED
    BY <2>1, WorkersSpawned DEF NoLostWakeup
<1>5. CASE SpawnServerThreads
  <2>1. PICK threads \in (SUBSET Servers) \ {{}} :
          /\ serverThreads' = threads
          /\ serverPc' = [s \in Servers |-> IF s \in threads THEN "starting" ELSE "off"]
    BY <1>5 DEF SpawnServerThreads
  <2> QED
    BY <2>1 DEF NoLostWakeup
<1>6. CASE KillServerThreads \/ NotifyAllServers \/ JoinServers
  BY <1>6 DEF KillServerThreads, NotifyAllServers, JoinServers, NoLostWakeup
<1>7. ASSUME NEW c \in Clients, ClientStep(c), ~Enqueue(c)
      PROVE  UNCHANGED <<ringVars, ownerVars, serverPc>>
  BY <1>7 DEF ClientStep, CallEvaluate, LookupHit, LookupWithoutOwnerMap, LookupMiss,
              RefuseEvaluate, FinishEvaluate, FailEvaluate, Consume
<1>8. ASSUME NEW i \in CacheSlots, ClearCacheEntry(i)
      PROVE  UNCHANGED <<ringVars, ownerVars, serverPc>>
  BY <1>8 DEF ClearCacheEntry
<1> QED
  BY <1>1, <1>2, <1>3, <1>4, <1>5, <1>6, <1>7, <1>8 DEF Next, OwnerStep, vars

-----------------------------------------------------------------------------
(* Results and the cache.                                                   *)

\* The row a posting server is about to post: a waiting client and its output.
LEMMA PostedRow ==
  ASSUME IInv, NEW s \in Servers, PostRow(s)
  PROVE  /\ row[s] \in Rows
         /\ serverBuf[s][row[s]] # NULL
         /\ serverBuf[s][row[s]] \in Clients
         /\ Awaiting(serverBuf[s][row[s]])
         /\ outputBuf[s][row[s]] = NetOutput(req[serverBuf[s][row[s]]])
<1> USE DEF IInv
<1>1. serverPc[s] = "posting" /\ row[s] \in Rows
  BY DEF PostRow, TypeOK
<1>2. Pending(s, row[s])
  BY <1>1 DEF Pending, Batching, BatchesOK, TypeOK, Rows
<1>3. serverBuf[s][row[s]] # NULL /\ serverBuf[s][row[s]] \in Clients
  BY <1>1, <1>2 DEF BatchesOK, TypeOK
<1>4. Awaiting(serverBuf[s][row[s]])
  BY <1>1, <1>3 DEF PlacesOK, RowsAwait
<1> QED
  BY <1>1, <1>2, <1>3, <1>4 DEF OutputsOK

\* What a server knows when it posts is all it changes for clients.
LEMMA PostRowClients ==
  ASSUME IInv, NEW s \in Servers, PostRow(s)
  PROVE  \E c \in Clients :
           /\ c = serverBuf[s][row[s]]
           /\ Awaiting(c)
           /\ hasResult' = [hasResult EXCEPT ![c] = TRUE]
           /\ result' = [result EXCEPT ![c] = NetOutput(req[c])]
           /\ UNCHANGED <<clientPc, req, cache>>
  BY PostedRow DEF PostRow

LEMMA ClientsOKInit == Init => ClientsOK
  BY DEF Init, ClientsOK

\* Of a server's steps only PostRow reaches the clients.
LEMMA OtherStepsKeepClients ==
  ASSUME [Next]_vars,
         ~\E c \in Clients : ClientStep(c),
         ~\E s \in Servers : PostRow(s)
  PROVE  UNCHANGED clientVars
<1>1. ASSUME NEW s \in Servers, ServerStep(s), ~PostRow(s) PROVE UNCHANGED clientVars
  BY <1>1 DEF ServerStep, StartServer, WaitForBatch, SpuriousWakeup, TakeBatch, GetOutput, ExitServer
<1>2. ASSUME OwnerStep PROVE UNCHANGED clientVars
  BY <1>2 DEF OwnerStep, SpawnServerThreads, KillServerThreads, NotifyAllServers, JoinServers
<1>3. ASSUME NEW i \in CacheSlots, ClearCacheEntry(i) PROVE UNCHANGED clientVars
  BY <1>3 DEF ClearCacheEntry
<1> QED
  BY <1>1, <1>2, <1>3 DEF Next, vars

LEMMA ClientsOKStep ==
  ASSUME IInv, [Next]_vars
  PROVE  ClientsOK'
<1> USE DEF IInv
<1>1. CASE UNCHANGED clientVars
  BY <1>1 DEF ClientsOK, clientVars
<1>2. ASSUME NEW c \in Clients, CallEvaluate(c) PROVE ClientsOK'
  BY <1>2 DEF CallEvaluate, ClientAt, ClientsOK, TypeOK
<1>3. ASSUME NEW c \in Clients,
             LookupHit(c) \/ LookupWithoutOwnerMap(c) \/ LookupMiss(c) \/ RefuseEvaluate(c)
      PROVE  ClientsOK'
  BY <1>3 DEF LookupHit, LookupWithoutOwnerMap, LookupMiss, RefuseEvaluate, ClientAt,
              ClientsOK, TypeOK
<1>4. ASSUME NEW c \in Clients, Enqueue(c) PROVE ClientsOK'
  BY <1>4 DEF Enqueue, ClientAt, ClientsOK, TypeOK
<1>5. ASSUME NEW c \in Clients, FinishEvaluate(c) \/ FailEvaluate(c) \/ Consume(c)
      PROVE  ClientsOK'
  BY <1>5 DEF FinishEvaluate, FailEvaluate, Consume, ClientAt, ClientsOK, TypeOK
<1>6. ASSUME NEW s \in Servers, PostRow(s) PROVE ClientsOK'
  <2>1. PICK c \in Clients :
          /\ Awaiting(c)
          /\ hasResult' = [hasResult EXCEPT ![c] = TRUE]
          /\ result' = [result EXCEPT ![c] = NetOutput(req[c])]
          /\ UNCHANGED <<clientPc, req, cache>>
    BY <1>6, PostRowClients
  <2> QED
    BY <2>1 DEF ClientsOK, Awaiting, TypeOK
<1> QED
  BY <1>1, <1>2, <1>3, <1>4, <1>5, <1>6, OtherStepsKeepClients DEF ClientStep

LEMMA KeptResultsOKInit == Init => KeptResultsOK
  BY DEF Init, KeptResultsOK

\* Servers and the owner never touch the local variables of evaluate.
LEMMA KeptResultsUntouched ==
  ASSUME [Next]_vars, ~\E c \in Clients : ClientStep(c)
  PROVE  UNCHANGED <<clientPc, req, resultWithoutOwnerMap>>
<1>1. ASSUME NEW s \in Servers, PostRow(s)
      PROVE  UNCHANGED <<clientPc, req, resultWithoutOwnerMap>>
  BY <1>1 DEF PostRow
<1> QED
  BY <1>1, OtherStepsKeepClients DEF clientVars

LEMMA KeptResultsOKStep ==
  ASSUME IInv, [Next]_vars
  PROVE  KeptResultsOK'
<1> USE DEF IInv
<1>1. CASE UNCHANGED <<clientPc, req, resultWithoutOwnerMap>>
  BY <1>1 DEF KeptResultsOK
<1>2. ASSUME NEW c \in Clients,
             CallEvaluate(c) \/ LookupHit(c) \/ LookupMiss(c) \/ RefuseEvaluate(c)
      PROVE  KeptResultsOK'
  BY <1>2 DEF CallEvaluate, LookupHit, LookupMiss, RefuseEvaluate, ClientAt, KeptResultsOK, TypeOK
<1>3. ASSUME NEW c \in Clients, LookupWithoutOwnerMap(c) PROVE KeptResultsOK'
  <2>1. req[c] \in Requests /\ SlotOf[req[c].key] \in CacheSlots
    BY <1>3, CacheAssumption
    DEF LookupWithoutOwnerMap, ClientAt, ClientsOK, Requests, CacheAssumption
  <2>2. PICK kept : kept = cache[SlotOf[req[c].key]]
    OBVIOUS
  <2>3. kept.key = req[c].key /\ kept.persp = "white"
    BY <1>3, <2>1, <2>2 DEF LookupWithoutOwnerMap, CacheHolds, CacheOK
  <2>4. /\ resultWithoutOwnerMap' = [resultWithoutOwnerMap EXCEPT ![c] = kept]
        /\ clientPc' = [clientPc EXCEPT ![c] = "enqueue"]
        /\ UNCHANGED req
    BY <1>3, <2>2 DEF LookupWithoutOwnerMap, ClientAt
  <2> QED
    BY <2>3, <2>4 DEF KeptResultsOK, TypeOK
<1>4. ASSUME NEW c \in Clients, Enqueue(c) PROVE KeptResultsOK'
  BY <1>4 DEF Enqueue, ClientAt, KeptResultsOK, TypeOK
<1>5. ASSUME NEW c \in Clients, FinishEvaluate(c) PROVE KeptResultsOK'
  BY <1>5 DEF FinishEvaluate, ClientAt, KeptResultsOK, TypeOK
<1>6. ASSUME NEW c \in Clients, FailEvaluate(c) \/ Consume(c) PROVE KeptResultsOK'
  BY <1>6 DEF FailEvaluate, Consume, ClientAt, KeptResultsOK, TypeOK
<1> QED
  BY <1>1, <1>2, <1>3, <1>4, <1>5, <1>6, KeptResultsUntouched DEF ClientStep

LEMMA CacheOKInit == Init => CacheOK
  BY DEF Init, CacheOK

LEMMA CacheOKStep ==
  ASSUME IInv, [Next]_vars
  PROVE  CacheOK'
<1> USE DEF IInv
<1>1. CASE UNCHANGED cache
  BY <1>1 DEF CacheOK
<1>2. ASSUME NEW c \in Clients, FinishEvaluate(c) PROVE CacheOK'
  <2>1. Finished(c).persp = "white"
    BY <1>2, FinishedOutput
  <2> QED
    BY <1>2, <2>1 DEF FinishEvaluate, CacheOK, TypeOK
<1>3. ASSUME NEW i \in CacheSlots, ClearCacheEntry(i) PROVE CacheOK'
  BY <1>3 DEF ClearCacheEntry, CacheOK, TypeOK
<1>4. ASSUME NEW c \in Clients, ClientStep(c), ~FinishEvaluate(c) PROVE UNCHANGED cache
  BY <1>4 DEF ClientStep, CallEvaluate, LookupHit, LookupWithoutOwnerMap, LookupMiss,
              RefuseEvaluate, Enqueue, FailEvaluate, Consume
<1>5. ASSUME NEW s \in Servers, ServerStep(s) PROVE UNCHANGED cache
  BY <1>5 DEF ServerStep, StartServer, WaitForBatch, SpuriousWakeup, TakeBatch, GetOutput,
              PostRow, ExitServer
<1>6. ASSUME OwnerStep PROVE UNCHANGED cache
  BY <1>6 DEF OwnerStep, SpawnServerThreads, KillServerThreads, NotifyAllServers, JoinServers
<1> QED
  BY <1>1, <1>2, <1>3, <1>4, <1>5, <1>6 DEF Next, vars

LEMMA ResultMatchesInit == Init => ResultMatches
  BY DEF Init, ResultMatches

LEMMA ResultMatchesStep ==
  ASSUME IInv, [Next]_vars
  PROVE  ResultMatches'
<1> USE DEF IInv
<1>1. CASE UNCHANGED clientVars
  BY <1>1 DEF ResultMatches, clientVars
<1>2. ASSUME NEW c \in Clients, LookupHit(c) PROVE ResultMatches'
  <2>1. req[c] \in Requests /\ SlotOf[req[c].key] \in CacheSlots
    BY <1>2, CacheAssumption DEF LookupHit, ClientAt, ClientsOK, Requests, CacheAssumption
  <2>2. /\ cache[SlotOf[req[c].key]] # NULL
        /\ cache[SlotOf[req[c].key]].key = req[c].key
        /\ req[c].owner => cache[SlotOf[req[c].key]].owner
        /\ cache[SlotOf[req[c].key]].persp = "white"
    BY <1>2, <2>1 DEF LookupHit, UsableHit, CacheHolds, CacheOK
  <2> QED
    BY <1>2, <2>2 DEF LookupHit, ClientAt, ResultMatches, TypeOK
<1>3. ASSUME NEW c \in Clients, FinishEvaluate(c) PROVE ResultMatches'
  <2>1. /\ Finished(c) \in Outputs
        /\ Finished(c).key = req[c].key
        /\ Finished(c).owner = req[c].owner
        /\ Finished(c).persp = "white"
    BY <1>3, FinishedOutput
  <2>2. result'[c] = Finished(c)
    BY <1>3 DEF FinishEvaluate, TypeOK
  <2>3. result'[c] # NULL
    BY <2>1, <2>2, NullAssumption DEF NullAssumption, Outputs, Perspectives
  <2> QED
    BY <1>3, <2>1, <2>2, <2>3 DEF FinishEvaluate, ClientAt, ResultMatches, TypeOK
<1>4. ASSUME NEW c \in Clients,
             \/ CallEvaluate(c) \/ LookupWithoutOwnerMap(c) \/ LookupMiss(c) \/ RefuseEvaluate(c)
             \/ Enqueue(c) \/ FailEvaluate(c) \/ Consume(c)
      PROVE  ResultMatches'
  BY <1>4 DEF CallEvaluate, LookupWithoutOwnerMap, LookupMiss, RefuseEvaluate, Enqueue,
              FailEvaluate, Consume, ClientAt, ResultMatches, TypeOK
<1>5. ASSUME NEW s \in Servers, PostRow(s) PROVE ResultMatches'
  <2>1. PICK c \in Clients :
          /\ Awaiting(c)
          /\ hasResult' = [hasResult EXCEPT ![c] = TRUE]
          /\ result' = [result EXCEPT ![c] = NetOutput(req[c])]
          /\ UNCHANGED <<clientPc, req, cache>>
    BY <1>5, PostRowClients
  <2> QED
    BY <2>1 DEF ResultMatches, Awaiting, TypeOK
<1> QED
  BY <1>1, <1>2, <1>3, <1>4, <1>5, OtherStepsKeepClients DEF ClientStep

-----------------------------------------------------------------------------
(* Batches the servers have taken.                                          *)

LEMMA BatchesOKInit == Init => BatchesOK
  BY DEF Init, BatchesOK, Pending, Batching, EmptyBatch

\* Which batches are full, seen from the oldest one.
LEMMA OldestFull ==
  ASSUME TypeOK
  PROVE  FullBatch(oldestResultBufsIdx) <=> ~OldestIsCurrent
  BY RingSize DEF FullBatch, Between, OldestIsCurrent, TypeOK, BufssIdx

\* The batch a server takes has its first RowsTaken rows in use, and at least one.
LEMMA TakenRows ==
  ASSUME IInv, ~NothingQueued
  PROVE  /\ oldestResultBufsIdx \in BufssIdx
         /\ RowsTaken \in 1 .. MaxBatchSize
         /\ \A r \in Rows : (resultBufss[oldestResultBufsIdx][r] # NULL) <=> r <= RowsTaken
<1> USE DEF IInv, TypeOK
<1>1. RowsTaken \in 1 .. MaxBatchSize
  BY ConcurrencyAssumption DEF RowsTaken, NothingQueued, ConcurrencyAssumption
<1>2. ASSUME NEW r \in Rows
      PROVE  (resultBufss[oldestResultBufsIdx][r] # NULL) <=> r <= RowsTaken
  <2>1. (resultBufss[oldestResultBufsIdx][r] # NULL) <=>
          (~OldestIsCurrent \/ (OldestIsCurrent /\ r <= currentResultBufsLen))
    BY OldestFull DEF RingOK, OldestIsCurrent
  <2> QED
    BY <2>1 DEF RowsTaken, Rows
<1> QED
  BY <1>1, <1>2

\* Steps that change no server's batch and take no server into or out of one.
LEMMA BatchesOKKept ==
  ASSUME BatchesOK, UNCHANGED <<serverBuf, numRows, row>>,
         \A s \in Servers : Batching(s)' = Batching(s) /\
            ((serverPc'[s] = "evaluating") = (serverPc[s] = "evaluating"))
  PROVE  BatchesOK'
  BY DEF BatchesOK, Pending, Batching

LEMMA BatchesOKStep ==
  ASSUME IInv, [Next]_vars
  PROVE  BatchesOK'
<1> USE DEF IInv
<1>1. CASE UNCHANGED <<batchVars, serverPc>>
  BY <1>1, BatchesOKKept DEF batchVars, Batching
<1>2. ASSUME NEW c \in Clients, Enqueue(c) PROVE BatchesOK'
  <2>1. serverPc' = serverPc \/
          \E s \in Servers : serverPc[s] = "waiting" /\ serverPc' = [serverPc EXCEPT ![s] = "lock"]
    BY <1>2 DEF Enqueue, NotifyServer
  <2> QED
    BY <1>2, <2>1, BatchesOKKept DEF Enqueue, batchVars, Batching, TypeOK
<1>3. ASSUME NEW s \in Servers,
             StartServer(s) \/ WaitForBatch(s) \/ SpuriousWakeup(s) \/ ExitServer(s)
      PROVE  BatchesOK'
  BY <1>3, BatchesOKKept DEF StartServer, WaitForBatch, SpuriousWakeup, ExitServer, ServerAt,
                             batchVars, Batching, TypeOK
<1>4. ASSUME NEW s \in Servers, TakeBatch(s) PROVE BatchesOK'
  <2>1. /\ serverPc' = [serverPc EXCEPT ![s] = "evaluating"]
        /\ serverBuf' = [serverBuf EXCEPT ![s] = resultBufss[oldestResultBufsIdx]]
        /\ numRows' = [numRows EXCEPT ![s] = RowsTaken]
        /\ row' = [row EXCEPT ![s] = 1]
        /\ ~NothingQueued
    BY <1>4 DEF TakeBatch, ServerAt
  <2>2. /\ RowsTaken \in 1 .. MaxBatchSize
        /\ \A r \in Rows : (serverBuf'[s][r] # NULL) <=> r <= RowsTaken
    BY <2>1, TakenRows DEF TypeOK
  <2>3. serverPc'[s] = "evaluating" /\ numRows'[s] = RowsTaken /\ row'[s] = 1
    BY <2>1 DEF TypeOK
  <2>4. ASSUME NEW t \in Servers, t # s
        PROVE  /\ serverPc'[t] = serverPc[t]
               /\ serverBuf'[t] = serverBuf[t]
               /\ numRows'[t] = numRows[t]
               /\ row'[t] = row[t]
    BY <2>1, <2>4 DEF TypeOK
  <2> QED
    BY <2>2, <2>3, <2>4 DEF BatchesOK, Pending, Batching, Rows
<1>5. ASSUME NEW s \in Servers, GetOutput(s) PROVE BatchesOK'
  BY <1>5 DEF GetOutput, ServerAt, BatchesOK, Pending, Batching, TypeOK
<1>6. ASSUME NEW s \in Servers, PostRow(s) PROVE BatchesOK'
  <2>1. /\ serverPc[s] = "posting"
        /\ serverBuf' = [serverBuf EXCEPT ![s][row[s]] = NULL]
        /\ row[s] \in Rows
    BY <1>6, PostedRow DEF PostRow
  <2>2. ASSUME NEW t \in Servers, t # s
        PROVE  /\ serverPc'[t] = serverPc[t]
               /\ serverBuf'[t] = serverBuf[t]
               /\ numRows'[t] = numRows[t]
               /\ row'[t] = row[t]
    BY <1>6, <2>2 DEF PostRow, TypeOK
  <2>3. /\ serverBuf'[s][row[s]] = NULL
        /\ \A r \in Rows : r # row[s] => serverBuf'[s][r] = serverBuf[s][r]
    BY <2>1 DEF TypeOK
  <2>4. CASE row[s] < numRows[s]
    <3>1. serverPc' = serverPc /\ numRows' = numRows /\ row'[s] = row[s] + 1
      BY <1>6, <2>4 DEF PostRow, TypeOK
    <3> QED
      BY <2>1, <2>2, <2>3, <2>4, <3>1 DEF BatchesOK, Pending, Batching, Rows, TypeOK
  <2>5. CASE ~(row[s] < numRows[s])
    <3>1. serverPc'[s] = "lock"
      BY <1>6, <2>5 DEF PostRow, TypeOK
    <3>2. row[s] = numRows[s]
      BY <2>1, <2>5 DEF BatchesOK, Batching, Rows, TypeOK
    <3>3. \A r \in Rows : serverBuf'[s][r] = NULL
      BY <2>1, <2>3, <3>2 DEF BatchesOK, Pending, Rows, TypeOK
    <3> QED
      BY <2>2, <3>1, <3>3 DEF BatchesOK, Pending, Batching
  <2> QED
    BY <2>4, <2>5
<1>7. CASE SpawnServerThreads
  <2>1. UNCHANGED <<serverBuf, numRows, row>>
    BY <1>7 DEF SpawnServerThreads, batchVars
  <2>2. \A s \in Servers : serverPc[s] = "off" /\ serverPc'[s] \in {"starting", "off"}
    BY <1>7 DEF SpawnServerThreads, OwnerOK
  <2> QED
    BY <2>1, <2>2, BatchesOKKept DEF Batching
<1>8. CASE KillServerThreads
  BY <1>8, BatchesOKKept DEF KillServerThreads, batchVars, Batching
<1>9. CASE NotifyAllServers
  BY <1>9, BatchesOKKept DEF NotifyAllServers, batchVars, Batching, TypeOK
<1>10. CASE JoinServers
  <2>1. UNCHANGED <<serverBuf, numRows, row>>
    BY <1>10 DEF JoinServers, batchVars
  <2>2. \A s \in Servers : serverPc[s] \in {"exited", "off"} /\ serverPc'[s] = "off"
    BY <1>10 DEF JoinServers, OwnerOK
  <2> QED
    BY <2>1, <2>2, BatchesOKKept DEF Batching
<1>11. ASSUME NEW c \in Clients, ClientStep(c), ~Enqueue(c)
       PROVE  UNCHANGED <<batchVars, serverPc>>
  BY <1>11 DEF ClientStep, CallEvaluate, LookupHit, LookupWithoutOwnerMap, LookupMiss,
               RefuseEvaluate, FinishEvaluate, FailEvaluate, Consume
<1>12. ASSUME NEW i \in CacheSlots, ClearCacheEntry(i)
       PROVE  UNCHANGED <<batchVars, serverPc>>
  BY <1>12 DEF ClearCacheEntry
<1> QED
  BY <1>1, <1>2, <1>3, <1>4, <1>5, <1>6, <1>7, <1>8, <1>9, <1>10, <1>11, <1>12
  DEF Next, ServerStep, OwnerStep, vars

LEMMA OutputsOKInit == Init => OutputsOK
  BY DEF Init, OutputsOK

\* A client in a batch waits, so no step of a client changes what it asked for.
LEMMA BatchRequestsKept ==
  ASSUME IInv, NEW c \in Clients, ClientStep(c),
         NEW s \in Servers, NEW r \in Rows, serverBuf[s][r] # NULL
  PROVE  req'[serverBuf[s][r]] = req[serverBuf[s][r]]
<1>1. Awaiting(serverBuf[s][r]) /\ serverBuf[s][r] \in Clients
  BY DEF IInv, PlacesOK, RowsAwait, TypeOK
<1>2. c = serverBuf[s][r] => UNCHANGED req
  BY <1>1 DEF ClientStep, CallEvaluate, LookupHit, LookupWithoutOwnerMap, LookupMiss,
              RefuseEvaluate, Enqueue, FinishEvaluate, FailEvaluate, Consume, ClientAt,
              Awaiting
<1>3. UNCHANGED req \/ \E x : req' = [req EXCEPT ![c] = x]
  BY DEF ClientStep, CallEvaluate, LookupHit, LookupWithoutOwnerMap, LookupMiss,
         RefuseEvaluate, Enqueue, FinishEvaluate, FailEvaluate, Consume
<1> QED
  BY <1>1, <1>2, <1>3 DEF IInv, TypeOK

LEMMA OutputsOKStep ==
  ASSUME IInv, [Next]_vars
  PROVE  OutputsOK'
<1> USE DEF IInv
<1>1. CASE UNCHANGED <<batchVars, serverPc, req>>
  BY <1>1 DEF OutputsOK, Pending, Batching, batchVars
<1>2. ASSUME NEW c \in Clients, ClientStep(c) PROVE OutputsOK'
  <2>1. UNCHANGED batchVars
    BY <1>2 DEF ClientStep, CallEvaluate, LookupHit, LookupWithoutOwnerMap, LookupMiss,
                RefuseEvaluate, Enqueue, FinishEvaluate, FailEvaluate, Consume
  <2>2. \A s \in Servers : serverPc'[s] = "posting" => serverPc[s] = "posting"
    BY <1>2 DEF ClientStep, CallEvaluate, LookupHit, LookupWithoutOwnerMap, LookupMiss,
                RefuseEvaluate, Enqueue, FinishEvaluate, FailEvaluate, Consume, NotifyServer,
                TypeOK
  <2>3. ASSUME NEW s \in Servers, NEW r \in Rows, serverPc'[s] = "posting", Pending(s, r)'
        PROVE  outputBuf'[s][r] = NetOutput(req'[serverBuf'[s][r]])
    <3>1. serverPc[s] = "posting" /\ Pending(s, r) /\ serverBuf[s][r] # NULL
      BY <2>1, <2>2, <2>3 DEF Pending, Batching, batchVars, BatchesOK
    <3> QED
      BY <1>2, <2>1, <3>1, BatchRequestsKept DEF OutputsOK, batchVars
  <2> QED
    BY <2>3 DEF OutputsOK
<1>3. ASSUME NEW s \in Servers,
             StartServer(s) \/ WaitForBatch(s) \/ SpuriousWakeup(s) \/ ExitServer(s)
      PROVE  OutputsOK'
  <2>1. \A t \in Servers : serverPc'[t] = "posting" => serverPc[t] = "posting"
    BY <1>3 DEF StartServer, WaitForBatch, SpuriousWakeup, ExitServer, ServerAt, TypeOK
  <2>2. UNCHANGED <<batchVars, req>>
    BY <1>3 DEF StartServer, WaitForBatch, SpuriousWakeup, ExitServer, clientVars
  <2> QED
    BY <2>1, <2>2 DEF OutputsOK, Pending, Batching, batchVars
<1>4. ASSUME NEW s \in Servers, TakeBatch(s) PROVE OutputsOK'
  <2>1. serverPc'[s] = "evaluating"
    BY <1>4 DEF TakeBatch, ServerAt, TypeOK
  <2>2. ASSUME NEW t \in Servers, t # s
        PROVE  /\ serverPc'[t] = serverPc[t]
               /\ serverBuf'[t] = serverBuf[t]
               /\ numRows'[t] = numRows[t]
               /\ row'[t] = row[t]
    BY <1>4, <2>2 DEF TakeBatch, ServerAt, TypeOK
  <2>3. UNCHANGED <<outputBuf, req>>
    BY <1>4 DEF TakeBatch, clientVars
  <2> QED
    BY <2>1, <2>2, <2>3 DEF OutputsOK, Pending, Batching
<1>5. ASSUME NEW s \in Servers, GetOutput(s) PROVE OutputsOK'
  <2>1. \A r \in Rows : r <= numRows[s] => outputBuf'[s][r] = NetOutput(req[serverBuf[s][r]])
    BY <1>5 DEF GetOutput, TypeOK
  <2>2. \A t \in Servers : t # s => outputBuf'[t] = outputBuf[t] /\ serverPc'[t] = serverPc[t]
    BY <1>5 DEF GetOutput, ServerAt, TypeOK
  <2>3. UNCHANGED <<serverBuf, numRows, row, req>>
    BY <1>5 DEF GetOutput, clientVars
  <2> QED
    BY <2>1, <2>2, <2>3 DEF OutputsOK, Pending, Batching
<1>6. ASSUME NEW s \in Servers, PostRow(s) PROVE OutputsOK'
  <2>1. /\ serverBuf' = [serverBuf EXCEPT ![s][row[s]] = NULL]
        /\ UNCHANGED req
        /\ row[s] \in Rows
    BY <1>6, PostedRow DEF PostRow
  <2>2. ASSUME NEW t \in Servers, t # s
        PROVE  /\ serverPc'[t] = serverPc[t]
               /\ serverBuf'[t] = serverBuf[t]
               /\ numRows'[t] = numRows[t]
               /\ row'[t] = row[t]
               /\ outputBuf'[t] = outputBuf[t]
    BY <1>6, <2>2 DEF PostRow, TypeOK
  <2>3. CASE row[s] < numRows[s]
    <3>1. /\ serverPc' = serverPc /\ numRows' = numRows /\ outputBuf' = outputBuf
          /\ row'[s] = row[s] + 1
      BY <1>6, <2>3 DEF PostRow, TypeOK
    <3>2. ASSUME NEW r \in Rows, Pending(s, r)'
          PROVE  Pending(s, r) /\ serverBuf'[s][r] = serverBuf[s][r]
      BY <2>1, <3>1, <3>2 DEF Pending, Batching, Rows, TypeOK
    <3> QED
      BY <2>1, <2>2, <3>1, <3>2 DEF OutputsOK, Pending, Batching
  <2>4. CASE ~(row[s] < numRows[s])
    <3>1. serverPc'[s] = "lock"
      BY <1>6, <2>4 DEF PostRow, TypeOK
    <3> QED
      BY <2>1, <2>2, <3>1 DEF OutputsOK, Pending, Batching
  <2> QED
    BY <2>3, <2>4
<1>7. CASE OwnerStep
  <2>1. UNCHANGED <<batchVars, req>>
    BY <1>7 DEF OwnerStep, SpawnServerThreads, KillServerThreads, NotifyAllServers, JoinServers,
                clientVars
  <2>2. \A t \in Servers : serverPc'[t] = "posting" => serverPc[t] = "posting"
    BY <1>7 DEF OwnerStep, SpawnServerThreads, KillServerThreads, NotifyAllServers, JoinServers
  <2> QED
    BY <2>1, <2>2 DEF OutputsOK, Pending, Batching, batchVars
<1>8. ASSUME NEW i \in CacheSlots, ClearCacheEntry(i)
      PROVE  UNCHANGED <<batchVars, serverPc, req>>
  BY <1>8 DEF ClearCacheEntry, clientVars
<1> QED
  BY <1>1, <1>2, <1>3, <1>4, <1>5, <1>6, <1>7, <1>8 DEF Next, ServerStep, vars, clientVars

-----------------------------------------------------------------------------
(* The ring never wraps around.                                             *)

LEMMA NextIdxCases ==
  ASSUME NEW i \in BufssIdx
  PROVE  NextIdx(i) = IF i + 1 = NumResultBufss THEN 0 ELSE i + 1
<1>1. i \in Nat /\ i < NumResultBufss
  BY RingSize DEF BufssIdx
<1>2. CASE i + 1 = NumResultBufss
  BY <1>1, <1>2, RingSize DEF NextIdx
<1>3. CASE i + 1 # NumResultBufss
  BY <1>1, <1>3, RingSize DEF NextIdx
<1> QED
  BY <1>2, <1>3

\* Moving the end of a stretch of the ring on by one adds one batch to it, unless it
\* meets the beginning; moving the beginning of one that is not empty removes one.
LEMMA BetweenGrows ==
  ASSUME NEW i \in BufssIdx, NEW from \in BufssIdx, NEW to \in BufssIdx, NextIdx(to) # from
  PROVE  Between(i, from, NextIdx(to)) <=> (Between(i, from, to) \/ i = to)
  BY NextIdxCases, RingSize DEF Between, BufssIdx

LEMMA BetweenShrinks ==
  ASSUME NEW i \in BufssIdx, NEW from \in BufssIdx, NEW to \in BufssIdx, from # to
  PROVE  Between(i, NextIdx(from), to) <=> (Between(i, from, to) /\ i # from)
  BY NextIdxCases, RingSize DEF Between, BufssIdx

LEMMA BetweenAll ==
  ASSUME NEW i \in BufssIdx, NEW to \in BufssIdx, i # to
  PROVE  Between(i, NextIdx(to), to)
  BY NextIdxCases, RingSize DEF Between, BufssIdx

\* The rows of the ring outnumber the callers: this is what the constructor's
\* headroom is for.
LEMMA MoreRowsThanClients ==
  /\ IsFiniteSet(BufssIdx \X Rows)
  /\ Cardinality(Clients) < Cardinality(BufssIdx \X Rows)
<1> DEFINE q == MaxConcurrentEvals \div MaxBatchSize
<1>1. /\ MaxConcurrentEvals \in Nat
      /\ MaxBatchSize \in Nat
      /\ MaxBatchSize > 0
      /\ Cardinality(Clients) \in Nat
      /\ Cardinality(Clients) <= MaxConcurrentEvals
  BY ConcurrencyAssumption, FS_CardinalityType DEF ConcurrencyAssumption
<1>2. q \in Nat /\ MaxConcurrentEvals < (q + 1) * MaxBatchSize
  BY <1>1
<1>3. NumResultBufss \in Nat /\ NumResultBufss >= q + 3
  BY RingSize, NumResultBufssFound DEF BufssNeeded
<1>4. (q + 1) * MaxBatchSize <= NumResultBufss * MaxBatchSize
  <2> HIDE DEF q
  <2> QED
    BY <1>1, <1>2, <1>3
<1>5. /\ IsFiniteSet(BufssIdx) /\ Cardinality(BufssIdx) = NumResultBufss
      /\ IsFiniteSet(Rows) /\ Cardinality(Rows) = MaxBatchSize
  <2>1. /\ NumResultBufss - 1 \in Int /\ ~(0 > NumResultBufss - 1)
        /\ MaxBatchSize \in Int /\ ~(1 > MaxBatchSize)
    BY <1>1, RingSize
  <2>2. IsFiniteSet(BufssIdx) /\ Cardinality(BufssIdx) = (NumResultBufss - 1) - 0 + 1
    BY <2>1, FS_Interval DEF BufssIdx
  <2>3. IsFiniteSet(Rows) /\ Cardinality(Rows) = MaxBatchSize - 1 + 1
    BY <2>1, FS_Interval DEF Rows
  <2> QED
    BY <1>1, <2>2, <2>3, RingSize
<1>6. /\ IsFiniteSet(BufssIdx \X Rows)
      /\ Cardinality(BufssIdx \X Rows) = NumResultBufss * MaxBatchSize
  BY <1>5, FS_Product
<1> QED
  <2> HIDE DEF q
  <2> QED
    BY <1>1, <1>2, <1>3, <1>4, <1>6

\* A client about to enqueue can fill the batch before the oldest one only if every
\* other row of the ring holds a waiting client, all of them different: there are
\* not that many clients.
LEMMA RoomLeft ==
  ASSUME IInv, NEW c \in Clients, clientPc[c] = "enqueue", BatchFull(currentResultBufsLen + 1)
  PROVE  NextIdx(currentResultBufsIdx) # oldestResultBufsIdx
<1> USE DEF IInv
<1> SUFFICES ASSUME NextIdx(currentResultBufsIdx) = oldestResultBufsIdx
             PROVE  FALSE
  OBVIOUS
<1> DEFINE last == <<currentResultBufsIdx, MaxBatchSize>>
           f == [p \in BufssIdx \X Rows |-> IF p = last THEN c ELSE resultBufss[p[1]][p[2]]]
<1>1. currentResultBufsLen = MaxBatchSize - 1
  BY ConcurrencyAssumption DEF BatchFull, TypeOK, ConcurrencyAssumption
<1>2. ASSUME NEW i \in BufssIdx, NEW r \in Rows, <<i, r>> # last
      PROVE  resultBufss[i][r] # NULL
  <2>1. i # currentResultBufsIdx => FullBatch(i)
    BY BetweenAll DEF FullBatch, TypeOK
  <2>2. i = currentResultBufsIdx => r <= currentResultBufsLen
    BY <1>1, <1>2, ConcurrencyAssumption DEF Rows, ConcurrencyAssumption
  <2> QED
    BY <2>1, <2>2 DEF RingOK
<1>3. f \in [BufssIdx \X Rows -> Clients]
  BY <1>2 DEF TypeOK
<1>4. ASSUME NEW i \in BufssIdx, NEW r \in Rows, <<i, r>> # last
      PROVE  resultBufss[i][r] # c
  BY <1>2, <1>4 DEF PlacesOK, RowsAwait, Awaiting
<1>5. ASSUME NEW x \in BufssIdx \X Rows, NEW y \in BufssIdx \X Rows, x # y
      PROVE  f[x] # f[y]
  <2>1. PICK i \in BufssIdx, q \in Rows : x = <<i, q>>
    OBVIOUS
  <2>2. PICK j \in BufssIdx, r \in Rows : y = <<j, r>>
    OBVIOUS
  <2>3. CASE x = last
    BY <1>4, <1>5, <2>2, <2>3
  <2>4. CASE y = last
    BY <1>4, <1>5, <2>1, <2>4
  <2>5. CASE x # last /\ y # last
    BY <1>2, <1>5, <2>1, <2>2, <2>5 DEF PlacesOK, RingRowsDistinct
  <2> QED
    BY <2>3, <2>4, <2>5
<1> HIDE DEF f
<1> QED
  BY <1>3, <1>5, MoreRowsThanClients, ConcurrencyAssumption, FS_PigeonHole DEF ConcurrencyAssumption

LEMMA NeverOverloopedInit == Init => NeverOverlooped
  BY DEF Init, NeverOverlooped

LEMMA NeverOverloopedStep ==
  ASSUME IInv, [Next]_vars
  PROVE  NeverOverlooped'
<1> USE DEF IInv
<1>1. CASE UNCHANGED overlooped
  BY <1>1 DEF NeverOverlooped
<1>2. ASSUME NEW c \in Clients, Enqueue(c) PROVE NeverOverlooped'
  BY <1>2, RoomLeft DEF Enqueue, ClientAt, NeverOverlooped
<1>3. ASSUME NEW c \in Clients, ClientStep(c), ~Enqueue(c) PROVE UNCHANGED overlooped
  BY <1>3 DEF ClientStep, CallEvaluate, LookupHit, LookupWithoutOwnerMap, LookupMiss,
              RefuseEvaluate, FinishEvaluate, FailEvaluate, Consume, ringVars
<1>4. ASSUME NEW s \in Servers, ServerStep(s) PROVE UNCHANGED overlooped
  BY <1>4 DEF ServerStep, StartServer, WaitForBatch, SpuriousWakeup, TakeBatch, GetOutput,
              PostRow, ExitServer, ringVars
<1>5. ASSUME OwnerStep PROVE UNCHANGED overlooped
  BY <1>5 DEF OwnerStep, SpawnServerThreads, KillServerThreads, NotifyAllServers, JoinServers,
              ringVars
<1>6. ASSUME NEW i \in CacheSlots, ClearCacheEntry(i) PROVE UNCHANGED overlooped
  BY <1>6 DEF ClearCacheEntry, ringVars
<1> QED
  BY <1>1, <1>2, <1>3, <1>4, <1>5, <1>6 DEF Next, vars, ringVars

-----------------------------------------------------------------------------
(* The rows in use.                                                         *)

LEMMA RingOKInit == Init => RingOK
<1> SUFFICES ASSUME Init, NEW i \in BufssIdx, NEW r \in Rows
             PROVE  /\ resultBufss[i][r] = NULL
                    /\ ~FullBatch(i)
                    /\ ~(r <= currentResultBufsLen)
  BY DEF RingOK
<1>1. i \in Nat /\ r \in Nat /\ r >= 1
  BY RingSize, ConcurrencyAssumption DEF BufssIdx, Rows, ConcurrencyAssumption
<1> QED
  BY <1>1 DEF Init, EmptyBatch, FullBatch, Between

LEMMA RingOKStep ==
  ASSUME IInv, [Next]_vars
  PROVE  RingOK'
<1> USE DEF IInv
<1>1. CASE UNCHANGED ringVars
  BY <1>1 DEF RingOK, FullBatch, ringVars
<1>2. ASSUME NEW c \in Clients, Enqueue(c) PROVE RingOK'
  <2> DEFINE n == currentResultBufsLen + 1
             cur == currentResultBufsIdx
  <2>1. /\ cur \in BufssIdx
        /\ n \in Rows
        /\ resultBufss' = [resultBufss EXCEPT ![cur][n] = c]
        /\ oldestResultBufsIdx' = oldestResultBufsIdx
        /\ oldestResultBufsIdx \in BufssIdx
    BY <1>2, ConcurrencyAssumption DEF Enqueue, TypeOK, Rows, ConcurrencyAssumption
  <2>2. ASSUME NEW i \in BufssIdx, NEW r \in Rows
        PROVE  (resultBufss'[i][r] # NULL) <=>
                  (FullBatch(i) \/ (i = cur /\ r <= n))
    <3>1. c # NULL
      BY NullAssumption DEF NullAssumption
    <3>2. resultBufss'[i][r] = IF i = cur /\ r = n THEN c ELSE resultBufss[i][r]
      BY <2>1 DEF TypeOK
    <3>3. (resultBufss[i][r] # NULL) <=> (FullBatch(i) \/ (i = cur /\ r <= n - 1))
      BY DEF RingOK, TypeOK
    <3>4. r <= n <=> r <= n - 1 \/ r = n
      BY <2>1 DEF Rows
    <3> QED
      BY <3>1, <3>2, <3>3, <3>4
  <2>3. CASE ~BatchFull(n)
    <3>1. currentResultBufsIdx' = cur /\ currentResultBufsLen' = n
      BY <1>2, <2>3 DEF Enqueue
    <3> QED
      BY <2>1, <2>2, <3>1 DEF RingOK, FullBatch
  <2>4. CASE BatchFull(n)
    <3>1. currentResultBufsIdx' = NextIdx(cur) /\ currentResultBufsLen' = 0
      BY <1>2, <2>4 DEF Enqueue
    <3>2. NextIdx(cur) # oldestResultBufsIdx
      BY <1>2, <2>4, RoomLeft DEF Enqueue, ClientAt
    <3>3. \A i \in BufssIdx : FullBatch(i)' <=> (FullBatch(i) \/ i = cur)
      BY <2>1, <3>1, <3>2, BetweenGrows DEF FullBatch
    <3>4. \A r \in Rows : r <= n /\ ~(r <= 0)
      BY <2>1, <2>4, ConcurrencyAssumption DEF BatchFull, Rows, ConcurrencyAssumption
    <3> QED
      BY <2>2, <3>1, <3>3, <3>4 DEF RingOK
  <2> QED
    BY <2>3, <2>4
<1>3. ASSUME NEW s \in Servers, TakeBatch(s) PROVE RingOK'
  <2> DEFINE old == oldestResultBufsIdx
  <2>1. /\ old \in BufssIdx
        /\ currentResultBufsIdx \in BufssIdx
        /\ NextIdx(old) \in BufssIdx
        /\ oldestResultBufsIdx' = NextIdx(old)
        /\ resultBufss' = [resultBufss EXCEPT ![old] = serverBuf[s]]
    BY <1>3, NextIdxInRing DEF TakeBatch, LeftInRing, TypeOK
  <2>2. \A r \in Rows : serverBuf[s][r] = NULL
    BY <1>3 DEF TakeBatch, ServerAt, BatchesOK, Pending, Batching
  <2>3. ASSUME NEW i \in BufssIdx, NEW r \in Rows
        PROVE  (resultBufss'[i][r] # NULL) <=> (resultBufss[i][r] # NULL /\ i # old)
    BY <2>1, <2>2 DEF TypeOK
  <2>4. CASE OldestIsCurrent
    <3>1. currentResultBufsIdx' = NextIdx(old) /\ currentResultBufsLen' = 0
      BY <1>3, <2>4 DEF TakeBatch, LenAfterTake
    <3>2. \A i \in BufssIdx : ~FullBatch(i) /\ ~FullBatch(i)'
      BY <2>1, <2>4, <3>1, RingSize DEF FullBatch, Between, OldestIsCurrent, BufssIdx
    <3>3. \A r \in Rows : ~(r <= 0)
      BY ConcurrencyAssumption DEF Rows, ConcurrencyAssumption
    <3> QED
      BY <2>3, <2>4, <3>1, <3>2, <3>3 DEF RingOK, OldestIsCurrent
  <2>5. CASE ~OldestIsCurrent
    <3>1. currentResultBufsIdx' = currentResultBufsIdx
          /\ currentResultBufsLen' = currentResultBufsLen
      BY <1>3, <2>5 DEF TakeBatch, LenAfterTake
    <3>2. \A i \in BufssIdx : FullBatch(i)' <=> (FullBatch(i) /\ i # old)
      BY <2>1, <2>5, <3>1, BetweenShrinks DEF FullBatch, OldestIsCurrent
    <3> QED
      BY <2>3, <2>5, <3>1, <3>2 DEF RingOK, OldestIsCurrent
  <2> QED
    BY <2>4, <2>5
<1>4. ASSUME NEW c \in Clients, ClientStep(c), ~Enqueue(c) PROVE UNCHANGED ringVars
  BY <1>4 DEF ClientStep, CallEvaluate, LookupHit, LookupWithoutOwnerMap, LookupMiss,
              RefuseEvaluate, FinishEvaluate, FailEvaluate, Consume
<1>5. ASSUME NEW s \in Servers, ServerStep(s), ~TakeBatch(s) PROVE UNCHANGED ringVars
  BY <1>5 DEF ServerStep, StartServer, WaitForBatch, SpuriousWakeup, GetOutput, PostRow, ExitServer
<1>6. ASSUME OwnerStep PROVE UNCHANGED ringVars
  BY <1>6 DEF OwnerStep, SpawnServerThreads, KillServerThreads, NotifyAllServers, JoinServers
<1>7. ASSUME NEW i \in CacheSlots, ClearCacheEntry(i) PROVE UNCHANGED ringVars
  BY <1>7 DEF ClearCacheEntry
<1> QED
  BY <1>1, <1>2, <1>3, <1>4, <1>5, <1>6, <1>7 DEF Next, vars

-----------------------------------------------------------------------------
(* Rows and clients.                                                        *)

LEMMA PlacesOKInit == Init => PlacesOK
<1> SUFFICES ASSUME Init PROVE PlacesOK
  OBVIOUS
<1>1. /\ \A i \in BufssIdx, r \in Rows : resultBufss[i][r] = NULL
      /\ \A s \in Servers, r \in Rows : serverBuf[s][r] = NULL
      /\ \A c \in Clients : ~Awaiting(c)
  BY DEF Init, EmptyBatch, Awaiting
<1> QED
  BY <1>1 DEF PlacesOK, RowsAwait, RingRowsDistinct, ServerRowsDistinct, RingServerDisjoint,
              AwaitingPlaced

\* Steps that move no row and leave every client waiting or not waiting.
LEMMA PlacesOKKept ==
  ASSUME PlacesOK, TypeOK, UNCHANGED <<resultBufss, serverBuf>>,
         \A c \in Clients : Awaiting(c)' = Awaiting(c)
  PROVE  PlacesOK'
<1>1. RowsAwait'
  <2>1. \A c \in Clients : Awaiting(c) => Awaiting(c)'
    OBVIOUS
  <2>2. ASSUME NEW i \in BufssIdx, NEW r \in Rows, resultBufss[i][r] # NULL
        PROVE  resultBufss[i][r] \in Clients /\ Awaiting(resultBufss[i][r])
    BY <2>2 DEF PlacesOK, RowsAwait, TypeOK
  <2>3. ASSUME NEW s \in Servers, NEW r \in Rows, serverBuf[s][r] # NULL
        PROVE  serverBuf[s][r] \in Clients /\ Awaiting(serverBuf[s][r])
    BY <2>3 DEF PlacesOK, RowsAwait, TypeOK
  <2> QED
    BY <2>1, <2>2, <2>3 DEF RowsAwait, Awaiting
<1>2. AwaitingPlaced'
  BY DEF PlacesOK, AwaitingPlaced
<1> QED
  BY <1>1, <1>2 DEF PlacesOK, RingRowsDistinct, ServerRowsDistinct, RingServerDisjoint

\* A client comes to wait in the one row it writes, which was free.
LEMMA EnqueuePlaces ==
  ASSUME IInv, NEW c \in Clients, Enqueue(c)
  PROVE  PlacesOK'
<1> USE DEF IInv
<1> DEFINE n == currentResultBufsLen + 1
           cur == currentResultBufsIdx
<1>1. /\ cur \in BufssIdx
      /\ n \in Rows
      /\ resultBufss' = [resultBufss EXCEPT ![cur][n] = c]
      /\ serverBuf' = serverBuf
  BY ConcurrencyAssumption DEF Enqueue, TypeOK, Rows, ConcurrencyAssumption, batchVars
<1>2. /\ ~Awaiting(c)
      /\ Awaiting(c)'
      /\ \A d \in Clients : d # c => Awaiting(d)' = Awaiting(d)
  BY DEF Enqueue, ClientAt, ClientsOK, Awaiting, TypeOK
<1>3. \A i \in BufssIdx, r \in Rows :
        resultBufss'[i][r] = IF i = cur /\ r = n THEN c ELSE resultBufss[i][r]
  BY <1>1 DEF TypeOK
<1>4. \A i \in BufssIdx, r \in Rows : resultBufss[i][r] # c
  BY <1>2, NullAssumption DEF PlacesOK, RowsAwait, NullAssumption
<1>5. \A s \in Servers, r \in Rows : serverBuf[s][r] # c
  BY <1>2, NullAssumption DEF PlacesOK, RowsAwait, NullAssumption
<1>6. resultBufss[cur][n] = NULL
  <2>1. ~FullBatch(cur)
    BY RingSize, <1>1 DEF FullBatch, Between, BufssIdx, TypeOK
  <2>2. ~(n <= currentResultBufsLen)
    BY DEF TypeOK
  <2> QED
    BY <1>1, <2>1, <2>2 DEF RingOK
<1>7. RowsAwait'
  BY <1>1, <1>2, <1>3, <1>4, <1>5 DEF PlacesOK, RowsAwait, TypeOK
<1>8. RingRowsDistinct'
  BY <1>3, <1>4 DEF PlacesOK, RingRowsDistinct
<1>9. ServerRowsDistinct'
  BY <1>1 DEF PlacesOK, ServerRowsDistinct
<1>10. RingServerDisjoint'
  BY <1>1, <1>3, <1>5 DEF PlacesOK, RingServerDisjoint
<1>11. AwaitingPlaced'
  <2> SUFFICES ASSUME NEW d \in Clients, Awaiting(d)'
               PROVE  \/ \E i \in BufssIdx, r \in Rows : resultBufss'[i][r] = d
                      \/ \E s \in Servers, r \in Rows : serverBuf'[s][r] = d
    BY DEF AwaitingPlaced
  <2>1. CASE d = c
    BY <1>1, <1>3, <2>1
  <2>2. CASE d # c
    <3>1. d # NULL
      BY NullAssumption DEF NullAssumption
    <3>2. \/ \E i \in BufssIdx, r \in Rows : resultBufss[i][r] = d
          \/ \E s \in Servers, r \in Rows : serverBuf[s][r] = d
      BY <1>2, <2>2 DEF PlacesOK, AwaitingPlaced
    <3>3. \A i \in BufssIdx, r \in Rows : resultBufss[i][r] = d => resultBufss'[i][r] = d
      BY <1>3, <1>6, <3>1
    <3> QED
      BY <1>1, <3>2, <3>3
  <2> QED
    BY <2>1, <2>2
<1> QED
  BY <1>7, <1>8, <1>9, <1>10, <1>11 DEF PlacesOK

\* A taken batch moves from the ring to the server whole, in exchange for an empty one.
LEMMA TakeBatchPlaces ==
  ASSUME IInv, NEW s \in Servers, TakeBatch(s)
  PROVE  PlacesOK'
<1> USE DEF IInv
<1> DEFINE old == oldestResultBufsIdx
<1>1. /\ old \in BufssIdx
      /\ resultBufss' = [resultBufss EXCEPT ![old] = serverBuf[s]]
      /\ serverBuf' = [serverBuf EXCEPT ![s] = resultBufss[old]]
  BY DEF TakeBatch, LeftInRing, TypeOK
<1>2. \A r \in Rows : serverBuf[s][r] = NULL
  BY DEF TakeBatch, ServerAt, BatchesOK, Pending, Batching
<1>3. \A c \in Clients : Awaiting(c)' = Awaiting(c)
  BY DEF TakeBatch, clientVars, Awaiting
<1>4. \A i \in BufssIdx, r \in Rows :
        resultBufss'[i][r] = IF i = old THEN NULL ELSE resultBufss[i][r]
  BY <1>1, <1>2 DEF TypeOK
<1>5. \A t \in Servers, r \in Rows :
        serverBuf'[t][r] = IF t = s THEN resultBufss[old][r] ELSE serverBuf[t][r]
  BY <1>1 DEF TypeOK
<1>6. RowsAwait'
  BY <1>1, <1>3, <1>4, <1>5 DEF PlacesOK, RowsAwait, TypeOK
<1>7. RingRowsDistinct'
  BY <1>4 DEF PlacesOK, RingRowsDistinct
<1>8. ServerRowsDistinct'
  BY <1>1, <1>5 DEF PlacesOK, ServerRowsDistinct, RingRowsDistinct, RingServerDisjoint
<1>9. RingServerDisjoint'
  BY <1>1, <1>4, <1>5 DEF PlacesOK, RingServerDisjoint, RingRowsDistinct
<1>10. AwaitingPlaced'
  <2> SUFFICES ASSUME NEW c \in Clients, Awaiting(c)
               PROVE  \/ \E i \in BufssIdx, r \in Rows : resultBufss'[i][r] = c
                      \/ \E t \in Servers, r \in Rows : serverBuf'[t][r] = c
    BY <1>3 DEF AwaitingPlaced
  <2>1. c # NULL
    BY NullAssumption DEF NullAssumption
  <2>2. CASE \E i \in BufssIdx, r \in Rows : resultBufss[i][r] = c
    BY <1>4, <1>5, <2>2
  <2>3. CASE \E t \in Servers, r \in Rows : serverBuf[t][r] = c
    BY <1>2, <1>5, <2>1, <2>3
  <2> QED
    BY <2>2, <2>3 DEF PlacesOK, AwaitingPlaced
<1> QED
  BY <1>6, <1>7, <1>8, <1>9, <1>10 DEF PlacesOK

\* A posted row is freed as its client stops waiting.
LEMMA PostRowPlaces ==
  ASSUME IInv, NEW s \in Servers, PostRow(s)
  PROVE  PlacesOK'
<1> USE DEF IInv
<1> DEFINE c == serverBuf[s][row[s]]
<1>1. /\ row[s] \in Rows
      /\ c # NULL
      /\ c \in Clients
      /\ serverBuf' = [serverBuf EXCEPT ![s][row[s]] = NULL]
      /\ resultBufss' = resultBufss
  BY PostedRow DEF PostRow, ringVars
<1>2. \A d \in Clients : Awaiting(d)' = (Awaiting(d) /\ d # c)
  BY <1>1 DEF PostRow, Awaiting, TypeOK
<1>3. \A t \in Servers, r \in Rows :
        serverBuf'[t][r] = IF t = s /\ r = row[s] THEN NULL ELSE serverBuf[t][r]
  BY <1>1 DEF TypeOK
<1>4. \A t \in Servers, r \in Rows : serverBuf[t][r] = c => t = s /\ r = row[s]
  BY <1>1 DEF PlacesOK, ServerRowsDistinct
<1>5. \A i \in BufssIdx, r \in Rows : resultBufss[i][r] # c
  BY <1>1 DEF PlacesOK, RingServerDisjoint
<1>6. RowsAwait'
  <2>1. ASSUME NEW i \in BufssIdx, NEW r \in Rows, resultBufss'[i][r] # NULL
        PROVE  Awaiting(resultBufss[i][r])'
    <3>1. resultBufss[i][r] \in Clients /\ Awaiting(resultBufss[i][r]) /\ resultBufss[i][r] # c
      BY <1>1, <1>5, <2>1 DEF PlacesOK, RowsAwait, TypeOK
    <3> QED
      BY <1>1, <1>2, <3>1 DEF Awaiting
  <2>2. ASSUME NEW t \in Servers, NEW r \in Rows, serverBuf'[t][r] # NULL
        PROVE  Awaiting(serverBuf[t][r])'
    <3>1. serverBuf'[t][r] = serverBuf[t][r]
      BY <1>3, <2>2
    <3>2. serverBuf[t][r] \in Clients /\ Awaiting(serverBuf[t][r]) /\ serverBuf[t][r] # c
      BY <1>3, <1>4, <2>2 DEF PlacesOK, RowsAwait, TypeOK
    <3> QED
      BY <1>2, <3>1, <3>2 DEF Awaiting
  <2> QED
    BY <2>1, <2>2 DEF RowsAwait
<1>7. RingRowsDistinct'
  BY <1>1 DEF PlacesOK, RingRowsDistinct
<1>8. ServerRowsDistinct'
  BY <1>3 DEF PlacesOK, ServerRowsDistinct
<1>9. RingServerDisjoint'
  BY <1>1, <1>3 DEF PlacesOK, RingServerDisjoint
<1>10. AwaitingPlaced'
  <2> SUFFICES ASSUME NEW d \in Clients, Awaiting(d), d # c
               PROVE  \/ \E i \in BufssIdx, r \in Rows : resultBufss[i][r] = d
                      \/ \E t \in Servers, r \in Rows : serverBuf'[t][r] = d
    BY <1>1, <1>2 DEF AwaitingPlaced
  <2>1. CASE \E i \in BufssIdx, r \in Rows : resultBufss[i][r] = d
    BY <2>1
  <2>2. CASE \E t \in Servers, r \in Rows : serverBuf[t][r] = d
    BY <1>3, <2>2
  <2> QED
    BY <2>1, <2>2 DEF PlacesOK, AwaitingPlaced
<1> QED
  BY <1>6, <1>7, <1>8, <1>9, <1>10 DEF PlacesOK

LEMMA PlacesOKStep ==
  ASSUME IInv, [Next]_vars
  PROVE  PlacesOK'
<1> USE DEF IInv
<1>1. CASE UNCHANGED <<clientVars, resultBufss, serverBuf>>
  BY <1>1, PlacesOKKept DEF Awaiting, clientVars
<1>2. ASSUME NEW c \in Clients, ClientStep(c), ~Enqueue(c) PROVE PlacesOK'
  <2>1. UNCHANGED <<resultBufss, serverBuf>>
    BY <1>2 DEF ClientStep, CallEvaluate, LookupHit, LookupWithoutOwnerMap, LookupMiss,
                RefuseEvaluate, FinishEvaluate, FailEvaluate, Consume, ringVars, batchVars
  <2>2. \A d \in Clients : Awaiting(d)' = Awaiting(d)
    BY <1>2 DEF ClientStep, CallEvaluate, LookupHit, LookupWithoutOwnerMap, LookupMiss,
                RefuseEvaluate, FinishEvaluate, FailEvaluate, Consume, ClientAt, Awaiting,
                TypeOK
  <2> QED
    BY <2>1, <2>2, PlacesOKKept
<1>3. ASSUME NEW s \in Servers,
             StartServer(s) \/ WaitForBatch(s) \/ SpuriousWakeup(s) \/ GetOutput(s) \/ ExitServer(s)
      PROVE  UNCHANGED <<clientVars, resultBufss, serverBuf>>
  BY <1>3 DEF StartServer, WaitForBatch, SpuriousWakeup, GetOutput, ExitServer, ringVars, batchVars
<1>4. ASSUME OwnerStep PROVE UNCHANGED <<clientVars, resultBufss, serverBuf>>
  BY <1>4 DEF OwnerStep, SpawnServerThreads, KillServerThreads, NotifyAllServers, JoinServers,
              ringVars, batchVars
<1>5. ASSUME NEW i \in CacheSlots, ClearCacheEntry(i)
      PROVE  UNCHANGED <<clientVars, resultBufss, serverBuf>>
  BY <1>5 DEF ClearCacheEntry, ringVars, batchVars
<1> QED
  BY <1>1, <1>2, <1>3, <1>4, <1>5, EnqueuePlaces, TakeBatchPlaces, PostRowPlaces
  DEF Next, ServerStep, vars, ringVars, batchVars

-----------------------------------------------------------------------------
(* The theorems.                                                            *)

LEMMA IInvInit == Init => IInv
  BY TypeOKInit, OwnerOKInit, NoLostWakeupInit, ClientsOKInit, KeptResultsOKInit,
     CacheOKInit, ResultMatchesInit, BatchesOKInit, OutputsOKInit, PlacesOKInit, RingOKInit,
     NeverOverloopedInit
  DEF IInv

LEMMA IInvStep == IInv /\ [Next]_vars => IInv'
<1> SUFFICES ASSUME IInv, [Next]_vars
             PROVE  IInv'
  OBVIOUS
<1> QED
  BY TypeOKStep, OwnerOKStep, NoLostWakeupStep, ClientsOKStep, KeptResultsOKStep,
     CacheOKStep, ResultMatchesStep, BatchesOKStep, OutputsOKStep, PlacesOKStep, RingOKStep,
     NeverOverloopedStep
  DEF IInv

\* The inductive invariant holds in every reachable state.
THEOREM Invariance == Spec => []IInv
  BY IInvInit, IInvStep, PTL DEF Spec

\* Every variable keeps its type; in particular a server never runs the net on a row
\* that points to no request.
THEOREM TypeCorrect == Spec => []TypeOK
  BY Invariance, PTL DEF IInv

\* evaluate's assertion that the ring has not wrapped around holds for every batch
\* size and every number of callers up to the promised one.
THEOREM RingNeverOverlooped == Spec => []NeverOverlooped
  BY Invariance, PTL DEF IInv

\* The servers never all sleep while rows are queued.
THEOREM WakeupsSuffice == Spec => []NoLostWakeup
  BY Invariance, PTL DEF IInv

\* What evaluate returns answers what this call asked.
THEOREM ResultsMatch == Spec => []ResultMatches
  BY Invariance, PTL DEF IInv

LEMMA ServerAssertsHold == IInv => ServerAsserts
<1> SUFFICES ASSUME IInv, NEW s \in Servers, serverPc[s] \in {"evaluating", "posting"}
             PROVE  /\ numRows[s] > 0
                    /\ \A r \in row[s] .. numRows[s] :
                         serverBuf[s][r] # NULL /\ ~hasResult[serverBuf[s][r]]
  BY DEF ServerAsserts
<1> USE DEF IInv
<1>1. /\ row[s] \in Nat /\ numRows[s] \in Nat
      /\ 1 <= row[s] /\ row[s] <= numRows[s] /\ numRows[s] <= MaxBatchSize
  BY ConcurrencyAssumption DEF TypeOK, Rows, BatchesOK, Batching, ConcurrencyAssumption
<1>2. ASSUME NEW r \in row[s] .. numRows[s]
      PROVE  serverBuf[s][r] # NULL /\ ~hasResult[serverBuf[s][r]]
  <2>1. r \in Rows /\ Pending(s, r)
    BY <1>1, ConcurrencyAssumption DEF Rows, Pending, Batching, ConcurrencyAssumption
  <2>2. serverBuf[s][r] # NULL
    BY <2>1 DEF BatchesOK
  <2> QED
    BY <2>1, <2>2 DEF PlacesOK, RowsAwait, Awaiting
<1> QED
  BY <1>1, <1>2

\* serve's assertions on the batch it has taken never fail.
THEOREM ServersNeverAssert == Spec => []ServerAsserts
  BY Invariance, ServerAssertsHold, PTL

\* The distance from one place of the ring to another.
LEMMA RingDistance ==
  ASSUME NEW i \in BufssIdx, NEW from \in BufssIdx
  PROVE  (i - from) % NumResultBufss = IF from <= i THEN i - from ELSE i - from + NumResultBufss
<1>1. /\ i \in Nat /\ i < NumResultBufss
      /\ from \in Nat /\ from < NumResultBufss
  BY RingSize DEF BufssIdx
<1>2. CASE from <= i
  BY <1>1, <1>2, RingSize
<1>3. CASE ~(from <= i)
  BY <1>1, <1>3, RingSize
<1> QED
  BY <1>2, <1>3

LEMMA RingShapeHolds == IInv => RingShape
<1> SUFFICES ASSUME IInv, NEW i \in BufssIdx, NEW r \in Rows
             PROVE  (resultBufss[i][r] # NULL) <=>
                      \/ (i - oldestResultBufsIdx) % NumResultBufss < FullBatches
                      \/ (i = currentResultBufsIdx /\ r <= currentResultBufsLen)
  BY DEF RingShape
<1>1. oldestResultBufsIdx \in BufssIdx /\ currentResultBufsIdx \in BufssIdx
  BY DEF IInv, TypeOK
<1>2. ((i - oldestResultBufsIdx) % NumResultBufss < FullBatches) <=> FullBatch(i)
  BY <1>1, RingDistance, RingSize DEF FullBatches, FullBatch, Between, BufssIdx
<1> QED
  BY <1>2 DEF IInv, RingOK

\* The rows in use are always the ones the indices and the length say.
THEOREM RingKeepsShape == Spec => []RingShape
  BY Invariance, RingShapeHolds, PTL

\* A set of places that is empty or a singleton has the cardinality one expects.
LEMMA PlacesCounted ==
  ASSUME IInv, NEW c \in Clients
  PROVE  Cardinality(RingPlaces(c)) + Cardinality(ServerPlaces(c)) = IF Awaiting(c) THEN 1 ELSE 0
<1> USE DEF IInv
<1>1. c # NULL
  BY NullAssumption DEF NullAssumption
<1>2. CASE ~Awaiting(c)
  <2>1. RingPlaces(c) = {} /\ ServerPlaces(c) = {}
    BY <1>1, <1>2 DEF RingPlaces, ServerPlaces, PlacesOK, RowsAwait
  <2> QED
    BY <1>2, <2>1, FS_EmptySet
<1>3. ASSUME Awaiting(c), NEW i \in BufssIdx, NEW r \in Rows, resultBufss[i][r] = c
      PROVE  Cardinality(RingPlaces(c)) + Cardinality(ServerPlaces(c)) = 1
  <2>1. RingPlaces(c) = {<<i, r>>}
    BY <1>1, <1>3 DEF RingPlaces, PlacesOK, RingRowsDistinct
  <2>2. ServerPlaces(c) = {}
    BY <1>1, <1>3 DEF ServerPlaces, PlacesOK, RingServerDisjoint
  <2>3. Cardinality(RingPlaces(c)) = 1 /\ Cardinality(ServerPlaces(c)) = 0
    BY <2>1, <2>2, FS_EmptySet, FS_Singleton
  <2> QED
    BY <2>3
<1>4. ASSUME Awaiting(c), NEW s \in Servers, NEW r \in Rows, serverBuf[s][r] = c
      PROVE  Cardinality(RingPlaces(c)) + Cardinality(ServerPlaces(c)) = 1
  <2>1. ServerPlaces(c) = {<<s, r>>}
    BY <1>1, <1>4 DEF ServerPlaces, PlacesOK, ServerRowsDistinct
  <2>2. RingPlaces(c) = {}
    BY <1>1, <1>4 DEF RingPlaces, PlacesOK, RingServerDisjoint
  <2>3. Cardinality(ServerPlaces(c)) = 1 /\ Cardinality(RingPlaces(c)) = 0
    BY <2>1, <2>2, FS_EmptySet, FS_Singleton
  <2> QED
    BY <2>3
<1> QED
  BY <1>2, <1>3, <1>4 DEF PlacesOK, AwaitingPlaced

LEMMA QueuedExactlyOnceHolds == IInv => QueuedExactlyOnce
  BY PlacesCounted DEF QueuedExactlyOnce

\* No request is lost, queued twice, or answered behind its client's back.
THEOREM EachRequestQueuedOnce == Spec => []QueuedExactlyOnce
  BY Invariance, QueuedExactlyOnceHolds, PTL

-----------------------------------------------------------------------------
(* The evaluator implements its service.                                    *)

LEMMA ServiceInit == Init => Service!Init
  BY DEF Init, Service!Init

\* A request goes in, an answer that fits comes out, or the call throws; all the
\* steps of the ring, the servers, the table and the owner are stuttering.
LEMMA ServiceStep ==
  ASSUME IInv, IInv', [Next]_vars
  PROVE  [Service!Next]_Service!vars
<1>0. TypeOK /\ TypeOK' /\ ResultMatches'
  BY DEF IInv
<1>1. CASE UNCHANGED clientVars
  BY <1>0, <1>1 DEF clientVars, Service!vars
<1>2. ASSUME NEW c \in Clients, CallEvaluate(c) PROVE Service!Ask(c)
  BY <1>0, <1>2 DEF CallEvaluate, ClientAt, Service!Ask, Requests, Service!Requests, TypeOK
<1>3. ASSUME NEW c \in Clients, LookupHit(c) \/ FinishEvaluate(c) PROVE Service!Answer(c)
  <2>1. /\ result'[c] \in Service!Answers
        /\ Service!Answering(req[c], result'[c])
    BY <1>0, <1>3 DEF LookupHit, FinishEvaluate, ClientAt, ResultMatches, TypeOK,
                Outputs, Perspectives, Service!Answers, Service!Answering
  <2>2. /\ clientPc[c] \in {"lookup", "waiting"}
        /\ clientPc' = [clientPc EXCEPT ![c] = "returned"]
        /\ \A d \in Clients \ {c} : result'[d] = result[d]
        /\ UNCHANGED req
    BY <1>0, <1>3 DEF LookupHit, FinishEvaluate, ClientAt, TypeOK
  <2> QED
    BY <1>0, <2>1, <2>2 DEF Service!Answer, TypeOK
<1>4. ASSUME NEW c \in Clients, LookupWithoutOwnerMap(c) \/ LookupMiss(c) \/ Enqueue(c)
      PROVE  UNCHANGED Service!vars
  <2>1. /\ clientPc[c] \notin {"idle", "returned"}
        /\ clientPc'[c] \notin {"idle", "returned"}
        /\ \A d \in Clients \ {c} : clientPc'[d] = clientPc[d] /\ result'[d] = result[d]
        /\ UNCHANGED req
    BY <1>0, <1>4 DEF LookupWithoutOwnerMap, LookupMiss, Enqueue, ClientAt, TypeOK
  <2> QED
    BY <2>1 DEF Service!vars
<1>5. ASSUME NEW c \in Clients, FailEvaluate(c) PROVE Service!Fail(c)
  BY <1>0, <1>5 DEF FailEvaluate, ClientAt, Service!Fail, TypeOK
<1>8. ASSUME NEW c \in Clients, RefuseEvaluate(c) PROVE Service!Fail(c)
  BY <1>0, <1>8 DEF RefuseEvaluate, ClientAt, Service!Fail, TypeOK
<1>6. ASSUME NEW c \in Clients, Consume(c) PROVE Service!Consume(c)
  BY <1>0, <1>6 DEF Consume, ClientAt, Service!Consume, TypeOK
<1>7. ASSUME NEW s \in Servers, PostRow(s) PROVE UNCHANGED Service!vars
  <2>1. PICK c \in Clients :
          /\ Awaiting(c)
          /\ result' = [result EXCEPT ![c] = NetOutput(req[c])]
          /\ UNCHANGED <<clientPc, req>>
    BY <1>7, PostRowClients DEF IInv
  <2> QED
    BY <1>0, <2>1 DEF Awaiting, Service!vars, TypeOK
<1> QED
  BY <1>1, <1>2, <1>3, <1>4, <1>5, <1>6, <1>7, <1>8, OtherStepsKeepClients
  DEF ClientStep, Service!Next

\* Every behaviour of the evaluator is one of the service (safety; that calls are
\* answered at all is liveness and is model-checked).
THEOREM ImplementsService == Spec => Service!Spec
  BY Invariance, ServiceInit, ServiceStep, PTL DEF Spec, Service!Spec
=============================================================================
