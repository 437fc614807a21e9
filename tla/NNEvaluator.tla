---------------------------- MODULE NNEvaluator ----------------------------
(***************************************************************************)
(* The batching neural-net evaluator (cpp/neuralnet/nneval.{h,cpp}).       *)
(*                                                                         *)
(* Search threads ("clients") call evaluate: a cache lookup, then the      *)
(* client's NNResultBuf is appended to the batch being filled and the      *)
(* client sleeps until its result is posted.  Server threads run serve:    *)
(* each takes the oldest batch of the ring m_resultBufss, partial or full, *)
(* runs the net on it and posts one result per row.  The owner of the      *)
(* evaluator spawns, kills and respawns the server threads.                *)
(*                                                                         *)
(* One action is one critical section of bufferMutex, of a result mutex    *)
(* or of a cache mutex, with the thread-local code around it.  A position  *)
(* is a member of Keys; of a net output the model keeps the position it    *)
(* was computed from, whether it has an owner map, and whose perspective   *)
(* its values are in.                                                      *)
(*                                                                         *)
(* An operator Op_Bug is not part of the model: it is the definition Op    *)
(* with a bug in it, which the properties are tested against.              *)
(***************************************************************************)
EXTENDS Integers, FiniteSets

CONSTANTS
  Clients,             \* threads that call evaluate, each with its own NNResultBuf
  Servers,             \* server threads setNumThreads may ask for
  Keys,                \* positions, identified by their 128-bit hash
  CacheSlots,          \* entries of the NNCacheTable
  SlotOf,              \* the entry a position's hash selects (hash0 & tableMask)
  MaxBatchSize,        \* maxNumRows, the rows of one batch
  MaxConcurrentEvals,  \* constructor argument: promised bound on concurrent evaluate calls
  NULL                 \* the null pointer

ConcurrencyAssumption ==
  /\ IsFiniteSet(Clients)
  /\ MaxConcurrentEvals \in Nat \ {0}
  /\ MaxBatchSize \in Nat \ {0}
  /\ Cardinality(Clients) <= MaxConcurrentEvals

CacheAssumption == SlotOf \in [Keys -> CacheSlots]

ServersAssumption == Servers # {}

NullAssumption ==
  NULL \notin Clients \cup [key : Keys, owner : BOOLEAN, persp : {"mover", "white"}]

ASSUME ConcurrencyAssumption
ASSUME CacheAssumption
ASSUME ServersAssumption
ASSUME NullAssumption

VARIABLES
  clientPc,              \* where each client is in evaluate
  req,                   \* the position and includeOwnerMap each call asks for
  hasResult,             \* NNResultBuf::hasResult
  result,                \* NNResultBuf::result
  resultWithoutOwnerMap, \* evaluate's local variable: a hit that lacks only the owner map
  cache,                 \* nnCacheTable
  resultBufss,           \* m_resultBufss: the ring of batches, rows point to clients
  currentResultBufsLen,  \* rows used in the batch being filled
  currentResultBufsIdx,  \* the batch being filled
  oldestResultBufsIdx,   \* the oldest batch no server has taken
  overlooped,            \* some evaluate call found it had wrapped the ring (it asserts not)
  isKilled,
  ownerPc,               \* what the owner of the evaluator is doing
  serverThreads,         \* the spawned, not yet joined, server threads
  serverPc,              \* where each server thread is in serve
  serverBuf,             \* NNServerBuf::resultBufs of each server
  numRows,               \* rows of the batch each server has taken
  row,                   \* the next row each server posts
  outputBuf              \* the outputs of the batch each server has run

clientVars == <<clientPc, req, hasResult, result, resultWithoutOwnerMap>>
ringVars   == <<resultBufss, currentResultBufsLen, currentResultBufsIdx,
                oldestResultBufsIdx, overlooped>>
batchVars  == <<serverBuf, numRows, row, outputBuf>>
ownerVars  == <<isKilled, ownerPc, serverThreads>>
vars       == <<clientVars, ringVars, batchVars, ownerVars, serverPc, cache>>

-----------------------------------------------------------------------------
(* Data.                                                                    *)

\* An output as the net gives it is in the perspective of the player to move;
\* evaluate turns it into White's before anyone else sees it.
Perspectives == {"mover", "white"}
Outputs      == [key : Keys, owner : BOOLEAN, persp : Perspectives]
Requests     == [key : Keys, owner : BOOLEAN]

Postprocess(out) ==
  [out EXCEPT !.persp = IF @ = "mover" THEN "white" ELSE "mover"]

\* The net's output for a row: computed from the inputs the client filled in.
NetOutput(r) == [key |-> r.key, owner |-> r.owner, persp |-> "mover"]

-----------------------------------------------------------------------------
(* The ring of batches.                                                     *)

\* The values the constructor's doubling loop takes in an int.
Doublings == {1, 2, 4, 8, 16, 32, 64, 128, 256, 512, 1024, 2048, 4096, 8192, 16384,
              32768, 65536, 131072, 262144, 524288, 1048576}

BufssNeeded_NoHeadroom == MaxConcurrentEvals \div MaxBatchSize
BufssNeeded == MaxConcurrentEvals \div MaxBatchSize + 3

RingAssumption == BufssNeeded <= 1048576
ASSUME RingAssumption

NumResultBufss == CHOOSE x \in Doublings : BufssNeeded <= x /\ x < 2 * BufssNeeded

BufssIdx == 0 .. NumResultBufss - 1
Rows     == 1 .. MaxBatchSize

NextIdx(i) == (i + 1) % NumResultBufss

EmptyBatch == [r \in Rows |-> NULL]

\* Whether the oldest batch is the one clients are filling.
OldestIsCurrent == currentResultBufsIdx = oldestResultBufsIdx

\* What serve finds under bufferMutex when there is nothing to take.
NothingQueued == currentResultBufsLen <= 0 /\ OldestIsCurrent

-----------------------------------------------------------------------------

Init ==
  /\ clientPc = [c \in Clients |-> "idle"]
  /\ req = [c \in Clients |-> NULL]
  /\ hasResult = [c \in Clients |-> FALSE]
  /\ result = [c \in Clients |-> NULL]
  /\ resultWithoutOwnerMap = [c \in Clients |-> NULL]
  /\ cache = [i \in CacheSlots |-> NULL]
  /\ resultBufss = [i \in BufssIdx |-> EmptyBatch]
  /\ currentResultBufsLen = 0
  /\ currentResultBufsIdx = 0
  /\ oldestResultBufsIdx = 0
  /\ overlooped = FALSE
  /\ isKilled = FALSE
  /\ ownerPc = "off"
  /\ serverThreads = {}
  /\ serverPc = [s \in Servers |-> "off"]
  /\ serverBuf = [s \in Servers |-> EmptyBatch]
  /\ numRows = [s \in Servers |-> 0]
  /\ row = [s \in Servers |-> 1]
  /\ outputBuf = [s \in Servers |-> EmptyBatch]

-----------------------------------------------------------------------------
(* Clients: NNEvaluator::evaluate.                                          *)

ClientAt(c, from, to) ==
  /\ clientPc[c] = from
  /\ clientPc' = [clientPc EXCEPT ![c] = to]

\* The call.  evaluate asserts that the servers are not being killed; callers
\* keep that by killing only between searches.
CallEvaluate(c) ==
  /\ ownerPc = "running"
  /\ ClientAt(c, "idle", "lookup")
  /\ \E r \in Requests : req' = [req EXCEPT ![c] = r]
  /\ hasResult' = [hasResult EXCEPT ![c] = FALSE]
  /\ UNCHANGED <<result, resultWithoutOwnerMap, cache, ringVars, batchVars, ownerVars,
                 serverPc>>

CacheHolds(k) == cache[SlotOf[k]] # NULL /\ cache[SlotOf[k]].key = k

\* A hit that answers the request.
UsableHit_AnyOwner(r) == CacheHolds(r.key)
UsableHit(r) == CacheHolds(r.key) /\ (r.owner => cache[SlotOf[r.key]].owner)

LookupHit(c) ==
  /\ ClientAt(c, "lookup", "returned")
  /\ UsableHit(req[c])
  /\ result' = [result EXCEPT ![c] = cache[SlotOf[req[c].key]]]
  /\ hasResult' = [hasResult EXCEPT ![c] = TRUE]
  /\ UNCHANGED <<req, resultWithoutOwnerMap, cache, ringVars, batchVars, ownerVars, serverPc>>

\* A hit without the owner map the call asks for: it is kept for its policy and
\* values, and the net is asked for the owner map.
LookupWithoutOwnerMap(c) ==
  /\ ClientAt(c, "lookup", "enqueue")
  /\ CacheHolds(req[c].key)
  /\ ~UsableHit(req[c])
  /\ resultWithoutOwnerMap' = [resultWithoutOwnerMap EXCEPT ![c] = cache[SlotOf[req[c].key]]]
  /\ result' = [result EXCEPT ![c] = NULL]
  /\ UNCHANGED <<req, hasResult, cache, ringVars, batchVars, ownerVars, serverPc>>

\* A miss; or skipCache, or an evaluator without a table, whatever the table would
\* hold.
LookupMiss(c) ==
  /\ ClientAt(c, "lookup", "enqueue")
  /\ result' = [result EXCEPT ![c] = NULL]
  /\ UNCHANGED <<req, hasResult, resultWithoutOwnerMap, cache, ringVars, batchVars, ownerVars,
                 serverPc>>

\* A board larger than the net's, or an NNResultBuf that was used with another size:
\* evaluate throws before the row is queued.
RefuseEvaluate(c) ==
  /\ ClientAt(c, "lookup", "idle")
  /\ req' = [req EXCEPT ![c] = NULL]
  /\ result' = [result EXCEPT ![c] = NULL]
  /\ UNCHANGED <<hasResult, resultWithoutOwnerMap, cache, ringVars, batchVars, ownerVars,
                 serverPc>>

\* notify_one on serverWaitingForBatchStart.
NotifyServer ==
  IF \E s \in Servers : serverPc[s] = "waiting"
  THEN \E s \in Servers : /\ serverPc[s] = "waiting"
                          /\ serverPc' = [serverPc EXCEPT ![s] = "lock"]
  ELSE UNCHANGED serverPc

\* Whether a batch with this many rows is full.
BatchFull_OffByOne(len) == len > MaxBatchSize
BatchFull(len) == len >= MaxBatchSize

\* Servers are notified of the first row of the oldest batch only: of later rows
\* and later batches they learn when they come back for more.
FirstQueuedRow == currentResultBufsLen + 1 = 1 /\ OldestIsCurrent
WakesServer_WhenFull == BatchFull(currentResultBufsLen + 1)
WakesServer_AfterMovingOn == FirstQueuedRow /\ ~BatchFull(currentResultBufsLen + 1)
WakesServer == FirstQueuedRow

\* Under bufferMutex: the row is written, a server woken, and a batch that is now
\* full is left behind for the servers.
Enqueue(c) ==
  LET full == BatchFull(currentResultBufsLen + 1) IN
  /\ ClientAt(c, "enqueue", "waiting")
  /\ resultBufss' = [resultBufss EXCEPT
       ![currentResultBufsIdx][currentResultBufsLen + 1] = c]
  /\ IF WakesServer THEN NotifyServer ELSE UNCHANGED serverPc
  /\ currentResultBufsLen' = IF full THEN 0 ELSE currentResultBufsLen + 1
  /\ currentResultBufsIdx' = IF full THEN NextIdx(currentResultBufsIdx)
                                     ELSE currentResultBufsIdx
  /\ overlooped' = IF full /\ NextIdx(currentResultBufsIdx) = oldestResultBufsIdx
                   THEN TRUE ELSE overlooped
  /\ UNCHANGED <<req, hasResult, result, resultWithoutOwnerMap, cache, oldestResultBufsIdx,
                 batchVars, ownerVars>>

\* The answer made of the net's output; if only the owner map was missing, that of
\* the output with the old policy and values, which are White's already.
Finished(c) ==
  IF resultWithoutOwnerMap[c] = NULL THEN Postprocess(result[c])
  ELSE [resultWithoutOwnerMap[c] EXCEPT !.owner = result[c].owner]

\* The result is there: postprocess it, put it in the table, return.
FinishEvaluate(c) ==
  /\ ClientAt(c, "waiting", "returned")
  /\ hasResult[c]
  /\ result' = [result EXCEPT ![c] = Finished(c)]
  /\ cache' = [cache EXCEPT ![SlotOf[req[c].key]] = Finished(c)]
  /\ resultWithoutOwnerMap' = [resultWithoutOwnerMap EXCEPT ![c] = NULL]
  /\ UNCHANGED <<req, hasResult, ringVars, batchVars, ownerVars, serverPc>>

\* Non-finite policy or value in an output whose policy and values are used: evaluate
\* throws and the table is left alone.  What it leaves in the NNResultBuf nobody
\* reads: the next call frees or replaces it.
FailEvaluate(c) ==
  /\ ClientAt(c, "waiting", "idle")
  /\ hasResult[c]
  /\ resultWithoutOwnerMap[c] = NULL
  /\ req' = [req EXCEPT ![c] = NULL]
  /\ result' = [result EXCEPT ![c] = NULL]
  /\ UNCHANGED <<hasResult, resultWithoutOwnerMap, cache, ringVars, batchVars, ownerVars,
                 serverPc>>

\* The caller takes the result (std::move of buf.result) and goes on.
Consume(c) ==
  /\ ClientAt(c, "returned", "idle")
  /\ req' = [req EXCEPT ![c] = NULL]
  /\ result' = [result EXCEPT ![c] = NULL]
  /\ UNCHANGED <<hasResult, resultWithoutOwnerMap, cache, ringVars, batchVars, ownerVars,
                 serverPc>>

\* NNCacheTable::clear frees entry after entry, each under its own mutex, while
\* lookups and inserts of other threads go on.
ClearCacheEntry(i) ==
  /\ cache[i] # NULL
  /\ cache' = [cache EXCEPT ![i] = NULL]
  /\ UNCHANGED <<clientVars, ringVars, batchVars, ownerVars, serverPc>>

-----------------------------------------------------------------------------
(* Servers: NNEvaluator::serve.                                             *)

ServerAt(s, from, to) ==
  /\ serverPc[s] = from
  /\ serverPc' = [serverPc EXCEPT ![s] = to]

\* createComputeHandle, then the loop.
StartServer(s) ==
  /\ ServerAt(s, "starting", "lock")
  /\ UNCHANGED <<clientVars, ringVars, batchVars, ownerVars, cache>>

\* Under bufferMutex: nothing queued and not killed, so wait on the condition.
WaitForBatch(s) ==
  /\ ServerAt(s, "lock", "waiting")
  /\ ~isKilled
  /\ NothingQueued
  /\ UNCHANGED <<clientVars, ringVars, batchVars, ownerVars, cache>>

SpuriousWakeup(s) ==
  /\ ServerAt(s, "waiting", "lock")
  /\ UNCHANGED <<clientVars, ringVars, batchVars, ownerVars, cache>>

RowsTaken_Whole == MaxBatchSize
RowsTaken == IF OldestIsCurrent THEN currentResultBufsLen ELSE MaxBatchSize

LenAfterTake_Kept == currentResultBufsLen
LenAfterTake == IF OldestIsCurrent THEN 0 ELSE currentResultBufsLen

\* What the server leaves in the ring for the batch it takes: its own empty one.
LeftInRing_Copied(s) == resultBufss[oldestResultBufsIdx]
LeftInRing(s) == serverBuf[s]

\* Under bufferMutex: take the oldest batch in exchange for this server's empty
\* one.  If it is the batch being filled, clients start over with the next one.
TakeBatch(s) ==
  /\ ServerAt(s, "lock", "evaluating")
  /\ ~isKilled
  /\ ~NothingQueued
  /\ serverBuf' = [serverBuf EXCEPT ![s] = resultBufss[oldestResultBufsIdx]]
  /\ resultBufss' = [resultBufss EXCEPT ![oldestResultBufsIdx] = LeftInRing(s)]
  /\ oldestResultBufsIdx' = NextIdx(oldestResultBufsIdx)
  /\ currentResultBufsIdx' = IF OldestIsCurrent THEN NextIdx(oldestResultBufsIdx)
                                                ELSE currentResultBufsIdx
  /\ currentResultBufsLen' = LenAfterTake
  /\ numRows' = [numRows EXCEPT ![s] = RowsTaken]
  /\ row' = [row EXCEPT ![s] = 1]
  /\ UNCHANGED <<clientVars, overlooped, outputBuf, ownerVars, cache>>

\* NeuralNet::getOutput on the batch, no lock held.
GetOutput(s) ==
  /\ ServerAt(s, "evaluating", "posting")
  /\ outputBuf' = [outputBuf EXCEPT ![s] =
       [r \in Rows |-> IF r <= numRows[s] THEN NetOutput(req[serverBuf[s][r]]) ELSE NULL]]
  /\ UNCHANGED <<clientVars, ringVars, serverBuf, numRows, row, ownerVars, cache>>

\* Under the client's resultMutex: hand over one row and wake the client.
PostRow(s) ==
  LET c == serverBuf[s][row[s]] IN
  /\ serverPc[s] = "posting"
  /\ hasResult' = [hasResult EXCEPT ![c] = TRUE]
  /\ result' = [result EXCEPT ![c] = outputBuf[s][row[s]]]
  /\ serverBuf' = [serverBuf EXCEPT ![s][row[s]] = NULL]
  /\ IF row[s] < numRows[s]
     THEN /\ row' = [row EXCEPT ![s] = @ + 1]
          /\ UNCHANGED <<serverPc, numRows, outputBuf>>
     ELSE /\ row' = [row EXCEPT ![s] = 1]
          /\ numRows' = [numRows EXCEPT ![s] = 0]
          /\ outputBuf' = [outputBuf EXCEPT ![s] = EmptyBatch]
          /\ serverPc' = [serverPc EXCEPT ![s] = "lock"]
  /\ UNCHANGED <<clientPc, req, resultWithoutOwnerMap, ringVars, ownerVars, cache>>

ExitServer(s) ==
  /\ ServerAt(s, "lock", "exited")
  /\ isKilled
  /\ UNCHANGED <<clientVars, ringVars, batchVars, ownerVars, cache>>

-----------------------------------------------------------------------------
(* The owner: spawnServerThreads, setNumThreads and killServerThreads.      *)

\* setNumThreads chooses how many threads to run; neither function accepts
\* being called while threads are there.
SpawnServerThreads ==
  /\ ownerPc = "off"
  /\ serverThreads = {}
  /\ \E threads \in (SUBSET Servers) \ {{}} :
       /\ serverThreads' = threads
       /\ serverPc' = [s \in Servers |-> IF s \in threads THEN "starting" ELSE "off"]
  /\ ownerPc' = "running"
  /\ UNCHANGED <<clientVars, ringVars, batchVars, isKilled, cache>>

\* killServerThreads sets the flag under the mutex.  Callers kill the servers
\* between searches: no evaluate is running.
KillServerThreads ==
  /\ ownerPc = "running"
  /\ \A c \in Clients : clientPc[c] \in {"idle", "returned"}
  /\ isKilled' = TRUE
  /\ ownerPc' = "killing"
  /\ UNCHANGED <<clientVars, ringVars, batchVars, serverThreads, serverPc, cache>>

\* notify_all, after the mutex is released.
NotifyAllServers_Dropped ==
  /\ ownerPc = "killing"
  /\ ownerPc' = "joining"
  /\ UNCHANGED <<clientVars, ringVars, batchVars, isKilled, serverThreads, serverPc, cache>>

NotifyAllServers ==
  /\ ownerPc = "killing"
  /\ ownerPc' = "joining"
  /\ serverPc' = [s \in Servers |-> IF serverPc[s] = "waiting" THEN "lock" ELSE serverPc[s]]
  /\ UNCHANGED <<clientVars, ringVars, batchVars, isKilled, serverThreads, cache>>

\* All threads joined and deleted; isKilled can be unset.
JoinServers ==
  /\ ownerPc = "joining"
  /\ \A s \in serverThreads : serverPc[s] = "exited"
  /\ ownerPc' = "off"
  /\ isKilled' = FALSE
  /\ serverThreads' = {}
  /\ serverPc' = [s \in Servers |-> "off"]
  /\ UNCHANGED <<clientVars, ringVars, batchVars, cache>>

-----------------------------------------------------------------------------

ClientStep(c) ==
  \/ CallEvaluate(c)
  \/ LookupHit(c)
  \/ LookupWithoutOwnerMap(c)
  \/ LookupMiss(c)
  \/ RefuseEvaluate(c)
  \/ Enqueue(c)
  \/ FinishEvaluate(c)
  \/ FailEvaluate(c)
  \/ Consume(c)

ServerStep(s) ==
  \/ StartServer(s)
  \/ WaitForBatch(s)
  \/ SpuriousWakeup(s)
  \/ TakeBatch(s)
  \/ GetOutput(s)
  \/ PostRow(s)
  \/ ExitServer(s)

OwnerStep ==
  \/ SpawnServerThreads
  \/ KillServerThreads
  \/ NotifyAllServers
  \/ JoinServers

Next ==
  \/ \E c \in Clients : ClientStep(c)
  \/ \E s \in Servers : ServerStep(s)
  \/ \E i \in CacheSlots : ClearCacheEntry(i)
  \/ OwnerStep

Spec == Init /\ [][Next]_vars

\* A thread that has called evaluate runs on, a server thread runs its loop (the
\* net answers; nobody relies on spurious wakeups), and an owner that has begun
\* to kill the servers finishes.  Nobody has to call evaluate or to kill.
Fairness ==
  /\ \A c \in Clients :
       WF_vars(LookupHit(c) \/ LookupWithoutOwnerMap(c) \/ LookupMiss(c) \/ RefuseEvaluate(c)
                 \/ Enqueue(c) \/ FinishEvaluate(c) \/ FailEvaluate(c) \/ Consume(c))
  /\ \A s \in Servers :
       WF_vars(StartServer(s) \/ WaitForBatch(s) \/ TakeBatch(s) \/ GetOutput(s)
                 \/ PostRow(s) \/ ExitServer(s))
  /\ WF_vars(NotifyAllServers \/ JoinServers)

FairSpec == Spec /\ Fairness

-----------------------------------------------------------------------------
(* Properties.                                                              *)

\* Types: the indices stay inside the ring, no batch is longer than maxNumRows, and
\* the batch being filled is never left full.
TypeOK ==
  /\ clientPc \in [Clients -> {"idle", "lookup", "enqueue", "waiting", "returned"}]
  /\ req \in [Clients -> Requests \cup {NULL}]
  /\ hasResult \in [Clients -> BOOLEAN]
  /\ result \in [Clients -> Outputs \cup {NULL}]
  /\ resultWithoutOwnerMap \in [Clients -> Outputs \cup {NULL}]
  /\ cache \in [CacheSlots -> Outputs \cup {NULL}]
  /\ resultBufss \in [BufssIdx -> [Rows -> Clients \cup {NULL}]]
  /\ currentResultBufsLen \in 0 .. MaxBatchSize - 1
  /\ currentResultBufsIdx \in BufssIdx
  /\ oldestResultBufsIdx \in BufssIdx
  /\ overlooped \in BOOLEAN
  /\ isKilled \in BOOLEAN
  /\ ownerPc \in {"off", "running", "killing", "joining"}
  /\ serverThreads \in SUBSET Servers
  /\ serverPc \in [Servers -> {"off", "starting", "lock", "waiting", "evaluating",
                               "posting", "exited"}]
  /\ serverBuf \in [Servers -> [Rows -> Clients \cup {NULL}]]
  /\ numRows \in [Servers -> 0 .. MaxBatchSize]
  /\ row \in [Servers -> Rows]
  /\ outputBuf \in [Servers -> [Rows -> Outputs \cup {NULL}]]

\* evaluate asserts after every enqueue that the ring has not wrapped around onto
\* batches no server has taken: with at most MaxConcurrentEvals callers the ring
\* the constructor sized is never full.
NeverOverlooped == ~overlooped

Awaiting(c) == clientPc[c] = "waiting" /\ ~hasResult[c]

RingPlaces(c) == {p \in BufssIdx \X Rows : resultBufss[p[1]][p[2]] = c}
ServerPlaces(c) == {p \in Servers \X Rows : serverBuf[p[1]][p[2]] = c}

\* A client without its result stands in exactly one row, of the ring or of one
\* server's batch, and no row points to any other client: no request is lost,
\* served twice, or served after its client went on with the same NNResultBuf.
QueuedExactlyOnce ==
  \A c \in Clients :
    Cardinality(RingPlaces(c)) + Cardinality(ServerPlaces(c)) = IF Awaiting(c) THEN 1 ELSE 0

\* How many full batches lie between the oldest batch and the one being filled.
FullBatches == (currentResultBufsIdx - oldestResultBufsIdx) % NumResultBufss

\* The rows in use are those the two indices and the length say are in use: a
\* row outside would never be served, a hole inside would be run on the net.
RingShape ==
  \A i \in BufssIdx, r \in Rows :
    LET age == (i - oldestResultBufsIdx) % NumResultBufss IN
    (resultBufss[i][r] # NULL) <=>
      (age < FullBatches \/ (i = currentResultBufsIdx /\ r <= currentResultBufsLen))

\* serve's assertions: every row of a batch it has taken and not posted points to
\* a client, and the client it posts to has no result yet.
ServerAsserts ==
  \A s \in Servers :
    serverPc[s] \in {"evaluating", "posting"} =>
      /\ numRows[s] > 0
      /\ \A r \in row[s] .. numRows[s] :
           serverBuf[s][r] # NULL /\ ~hasResult[serverBuf[s][r]]

\* With one notify_one per batch that becomes non-empty, the servers never all
\* sleep on queued rows, whichever server took the lock first.
NoLostWakeup ==
  (ownerPc = "running" /\ ~NothingQueued) =>
    \E s \in serverThreads : serverPc[s] # "waiting"

\* What evaluate returns was computed from the position of this call, has the
\* owner map if the call asked for one, and is in White's perspective, whether it
\* comes from the net or from the table other threads insert into and clear.
ResultMatches ==
  \A c \in Clients :
    clientPc[c] = "returned" =>
      /\ result[c] # NULL
      /\ result[c].key = req[c].key
      /\ req[c].owner => result[c].owner
      /\ result[c].persp = "white"

\* Killing the servers comes to an end: none sleeps through it.
KillCompletes == ownerPc = "killing" ~> ownerPc = "off"

\* The evaluator as its callers see it.
Service == INSTANCE EvalService WITH
  phase <- [c \in Clients |-> IF clientPc[c] = "idle" THEN "idle"
                              ELSE IF clientPc[c] = "returned" THEN "answered"
                              ELSE "asked"],
  ask <- req,
  answer <- [c \in Clients |-> IF clientPc[c] = "returned" THEN result[c] ELSE NULL]

\* Every call of evaluate is answered once, correctly, and eventually.
ServiceRefined == Service!FairSpec
=============================================================================
