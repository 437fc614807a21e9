----------------------------- MODULE TreeSearch -----------------------------
(***************************************************************************)
(* The multi-threaded Monte-Carlo tree search of search/search.cpp:        *)
(* playouts that descend a shared tree under per-node mutexes, virtual     *)
(* losses, the accounting of visits, the subtree value bias table, and the *)
(* reuse of the tree from one search to the next.                          *)
(*                                                                         *)
(* A node is known by the moves of the game up to it, so the tree is a     *)
(* function on move sequences and its root is the game itself.  Data left  *)
(* out: utilities and policies (any child, or any new move, may be the     *)
(* best one), the sums of values (only the visits they are weighted with), *)
(* the regeneration of a net output whose best move is illegal (it counts  *)
(* no visit), time (a limit may strike whenever the code looks at it).     *)
(***************************************************************************)
EXTENDS Integers, FiniteSets, SequencesExt, Functions

CONSTANTS
  Threads,                 \* the search threads
  MutexOf(_),              \* the mutex of the pool that a node draws (at random)
  Moves, PASS,             \* the moves, of which PASS is one
  VirtualLosses,           \* searchParams.numVirtualLossesPerThread
  conservativePass,        \* searchParams.conservativePass
  isGameFinished(_),       \* is the game over after these moves, passes, cycles and all?
  passWouldEndGame(_),     \* BoardHistory::passWouldEndGame after these moves
  LocalPattern(_),         \* the stones, ataris and ko around the last of these moves
  MaxVisitsOfSearches,     \* maxVisits of the first, second, ... search
  MaxPlayoutsOfSearches,   \* their maxPlayouts
  MaxMoves                 \* bound: length of a game

ASSUME SearchAssumption ==
  /\ Threads # {} /\ IsFiniteSet(Threads)
  /\ PASS \in Moves /\ VirtualLosses \in Nat /\ conservativePass \in BOOLEAN
  /\ MaxVisitsOfSearches \in Seq(Nat) /\ MaxMoves \in Nat
  /\ MaxPlayoutsOfSearches \in [1 .. Len(MaxVisitsOfSearches) -> Nat]

VARIABLES
  game,       \* moveHistory of rootHistory; the key of rootNode
  tree,       \* moves -> SearchNode
  table,      \* the SubtreeValueBiasTable: key -> weightSum
  searches,   \* number of searches begun
  searching,  \* inside runWholeSearch
  banned,     \* the moves that isAllowedRootMove refuses in this search
  stopNow,    \* shouldStopNow
  playouts,   \* numPlayoutsShared
  oldVisits,  \* numNonPlayoutVisits
  th          \* thread -> its program counter, node and locals

vars == <<game, tree, table, searches, searching, banned, stopNow, playouts, oldVisits, th>>

-----------------------------------------------------------------------------
(* The tree                                                                *)

\* A new SearchNode.  leaf (not in the code) counts the values added to it as a leaf.
NewNode ==
  [nn |-> FALSE, visits |-> 0, virtualLosses |-> 0, hasEntry |-> FALSE, lastWeight |-> 0,
   leaf |-> 0]

Children(t, n) == {c \in DOMAIN t : Len(c) = Len(n) + 1 /\ Front(c) = n}
Below(t, n) == {c \in DOMAIN t : IsPrefix(n, c)}

\* Over the nodes S of the tree t.
VisitsOf(t, S) == SumFunctionOnSet([n \in DOMAIN t |-> t[n].visits], S)
WeightsOf(t, S) == SumFunctionOnSet([n \in DOMAIN t |-> t[n].lastWeight], S)

\* The key of a node in the bias table: the player, the last two moves, and what the
\* board looks like around the last.
BiasKey(n) == <<Len(n) % 2, n[Len(n) - 1], n[Len(n)], LocalPattern(n)>>
HasBiasKey(n) == Len(n) >= 2

\* The nodes of S that share an entry.
Sharing(t, S, k) == {n \in S : t[n].hasEntry /\ BiasKey(n) = k}

\* The game is over at a node; a pass at the root that the search should look beyond
\* does not count.
Terminal(n) ==
  /\ n # game /\ isGameFinished(n)
  /\ ~(conservativePass /\ Len(n) = Len(game) + 1 /\ Last(n) = PASS)

\* The contribution of deleted nodes is taken out of the table.
removeSubtreeValueBias(tab, t, deleted) ==
  [k \in DOMAIN tab |-> tab[k] - WeightsOf(t, Sharing(t, deleted, k))]

\* Only entries that nodes point to are kept.
clearUnused(tab, t) ==
  [k \in {BiasKey(n) : n \in {m \in DOMAIN t : t[m].hasEntry}} |-> tab[k]]

Keep(t, S) == [n \in S |-> t[n]]

\* The function f with y for x, which need not be in its domain yet.
With(f, x, y) == [z \in DOMAIN f \cup {x} |-> IF z = x THEN y ELSE f[z]]

\* The bias weight recomputeNodeStats gives a node: that of its children's visits, if any.
WeightOf(node, childVisits) == IF childVisits >= 1 THEN childVisits ELSE node.lastWeight

-----------------------------------------------------------------------------
(* Between searches                                                        *)

AtStart == [pc |-> "start", at |-> game, numPlayouts |-> 0, childVisits |-> 0]
Resting == [t \in Threads |-> [AtStart EXCEPT !.pc = "done"]]

Init ==
  /\ game = <<>> /\ tree = <<>> /\ table = <<>> /\ searches = 0 /\ searching = FALSE
  /\ banned = {} /\ stopNow = FALSE /\ playouts = 0 /\ oldVisits = 0
  /\ th = [t \in Threads |-> [pc |-> "done", at |-> <<>>, numPlayouts |-> 0, childVisits |-> 0]]

\* setPosition, setParams and others throw the tree away, and leave the bias table.
clearSearch ==
  /\ ~searching /\ DOMAIN tree # {}
  /\ tree' = <<>>
  /\ UNCHANGED <<game, table, searches, searching, banned, stopNow, playouts, oldVisits, th>>

\* The child becomes the root if it was evaluated; the rest of the tree is deleted.
makeMove(m) ==
  LET next == Append(game, m)
      kept == IF next \in DOMAIN tree /\ tree[next].nn THEN Below(tree, next) ELSE {}
      ends == conservativePass /\ passWouldEndGame(next)
  IN /\ ~searching /\ Len(game) < MaxMoves
     /\ game' = next
     /\ tree' = IF ends THEN <<>> ELSE Keep(tree, kept)
     /\ table' = IF kept = {} THEN table
                 ELSE removeSubtreeValueBias(table, tree, DOMAIN tree \ kept)
     /\ UNCHANGED <<searches, searching, banned, stopNow, playouts, oldVisits, th>>

\* beginSearch makes a root, or removes its children that are not allowed (and mends
\* its visits), recomputes the whole tree, and clears the table.
WithRoot(refused) ==
  LET gone == UNION {Below(tree, c) : c \in {d \in Children(tree, game) : Last(d) \in refused}}
      kept == Keep(tree, DOMAIN tree \ gone)
  IN IF game \notin DOMAIN tree THEN With(tree, game, NewNode)
     ELSE IF gone = {} THEN tree
     ELSE [kept EXCEPT ![game].visits = VisitsOf(kept, Children(kept, game)) + 1,
                       ![game].leaf = 1]

recomputeStats(t) ==
  [n \in DOMAIN t |->
     IF t[n].hasEntry
     THEN [t[n] EXCEPT !.lastWeight = WeightOf(t[n], VisitsOf(t, Children(t, n)))]
     ELSE t[n]]

\* What the table gains when the tree t becomes u.
Reweigh(tab, t, u) ==
  [k \in DOMAIN tab |-> LET S == Sharing(u, DOMAIN u, k) IN
                       tab[k] + WeightsOf(u, S) - WeightsOf(t, S)]

BeginWith(t) ==
  LET removed == removeSubtreeValueBias(table, tree, DOMAIN tree \ DOMAIN t)
      u == recomputeStats(t)
  IN /\ tree' = u
     /\ table' = clearUnused(Reweigh(removed, t, u), u)
     /\ oldVisits' = u[game].visits

beginSearch(refused) ==
  /\ ~searching /\ searches < Len(MaxVisitsOfSearches)
  /\ BeginWith(WithRoot(refused))
  /\ searches' = searches + 1 /\ searching' = TRUE
  /\ banned' = refused /\ stopNow' = FALSE /\ playouts' = 0
  /\ th' = [t \in Threads |-> AtStart]
  /\ UNCHANGED game

endSearch ==
  /\ searching
  /\ \A t \in Threads : th[t].pc = "done"
  /\ searching' = FALSE
  /\ th' = Resting
  /\ UNCHANGED <<game, tree, table, searches, banned, stopNow, playouts, oldVisits>>

-----------------------------------------------------------------------------
(* The loop of a search thread                                             *)

At(t, pc) == searching /\ th[t].pc = pc
Goto(t, pc) == [th EXCEPT ![t].pc = pc]
maxVisits == MaxVisitsOfSearches[searches]
maxPlayouts == MaxPlayoutsOfSearches[searches]

StartThread(t) ==
  /\ At(t, "start")
  /\ th' = [th EXCEPT ![t].pc = "check", ![t].numPlayouts = playouts]
  /\ UNCHANGED <<game, tree, table, searches, searching, banned, stopNow, playouts, oldVisits>>

LimitReached(t) ==
  th[t].numPlayouts >= maxPlayouts \/ th[t].numPlayouts + oldVisits >= maxVisits

\* A limit, a time limit after two playouts, or the flag: every thread will stop.
Stop(t) ==
  /\ At(t, "check")
  /\ LimitReached(t) \/ stopNow \/ th[t].numPlayouts >= 2
  /\ stopNow' = TRUE
  /\ th' = Goto(t, "done")
  /\ UNCHANGED <<game, tree, table, searches, searching, banned, playouts, oldVisits>>

StartPlayout(t) ==
  /\ At(t, "check") /\ ~LimitReached(t) /\ ~stopNow
  /\ th' = [th EXCEPT ![t].pc = "descend", ![t].at = game]
  /\ UNCHANGED <<game, tree, table, searches, searching, banned, stopNow, playouts, oldVisits>>

CountPlayout(t) ==
  /\ At(t, "count")
  /\ playouts' = playouts + 1
  /\ th' = [th EXCEPT ![t].pc = "check", ![t].numPlayouts = playouts + 1]
  /\ UNCHANGED <<game, tree, table, searches, searching, banned, stopNow, oldVisits>>

\* The owner of the search asks it to stop.
AskToStop ==
  /\ searching /\ ~stopNow
  /\ stopNow' = TRUE
  /\ UNCHANGED <<game, tree, table, searches, searching, banned, playouts, oldVisits, th>>

-----------------------------------------------------------------------------
(* playoutDescend                                                          *)

\* A thread keeps the mutex of a leaf while its position is evaluated.
\* Mutant: a thread keeps the mutexes of the nodes it passed on its way down.
Free_WholePath(n) ==
  \A t \in Threads : th[t].pc \in {"descend", "evaluate"} =>
    \A p \in DOMAIN tree : IsStrictPrefix(p, th[t].at) => MutexOf(p) # MutexOf(n)

Free(n) == \A t \in Threads : th[t].pc = "evaluate" => MutexOf(th[t].at) # MutexOf(n)

\* Mutant: the losses are taken back by the visit of a leaf only.
LossesToSubtract_AtLeaf(n, isLeaf) == IF n = game \/ ~isLeaf THEN 0 ELSE VirtualLosses

LossesToSubtract(n, isLeaf) == IF n = game THEN 0 ELSE VirtualLosses

\* A visit is counted at n and the thread returns to the parent's frame.
Visited(node, n, isLeaf) ==
  [node EXCEPT !.visits = @ + 1, !.virtualLosses = @ - LossesToSubtract(n, isLeaf),
               !.leaf = @ + (IF isLeaf THEN 1 ELSE 0)]

Return(t, n) ==
  IF n = game THEN Goto(t, "count")
  ELSE [th EXCEPT ![t].pc = "return", ![t].at = Front(n)]

addLeafValue(t, evaluated) ==
  LET n == th[t].at IN
  /\ tree' = [tree EXCEPT ![n] = [Visited(tree[n], n, TRUE) EXCEPT !.nn = @ \/ evaluated]]
  /\ th' = Return(t, n)
  /\ UNCHANGED <<game, table, searches, searching, banned, stopNow, playouts, oldVisits>>

HitTerminal(t) == At(t, "descend") /\ Terminal(th[t].at) /\ addLeafValue(t, FALSE)

AtNode(t) == At(t, "descend") /\ ~Terminal(th[t].at) /\ Free(th[t].at)

\* initNodeNNOutput: the net is asked under the lock of the node.
HitLeaf(t) ==
  /\ AtNode(t) /\ ~tree[th[t].at].nn
  /\ th' = Goto(t, "evaluate")
  /\ UNCHANGED <<game, tree, table, searches, searching, banned, stopNow, playouts, oldVisits>>

FinishEvaluation(t) == At(t, "evaluate") /\ addLeafValue(t, TRUE)

Candidates(n) == {Last(c) : c \in Children(tree, n)} \cup
                 (IF n = game THEN Moves \ banned ELSE Moves)

\* selectBestChildToDescend finds nothing: the node is visited as a leaf, unlocked.
GetStuck(t) ==
  /\ AtNode(t) /\ tree[th[t].at].nn /\ Candidates(th[t].at) = {}
  /\ th' = Goto(t, "stuck")
  /\ UNCHANGED <<game, tree, table, searches, searching, banned, stopNow, playouts, oldVisits>>

VisitAgain(t) == At(t, "stuck") /\ addLeafValue(t, TRUE)

\* The child is created if need be, gets its virtual losses and its bias entry, and
\* the node is unlocked before the thread goes on.
SelectChild(t, m) ==
  LET n == th[t].at
      c == Append(n, m)
      child == IF c \in DOMAIN tree THEN tree[c] ELSE NewNode
      entered == [child EXCEPT !.virtualLosses = @ + VirtualLosses, !.hasEntry = HasBiasKey(c)]
  IN /\ AtNode(t) /\ tree[n].nn /\ m \in Candidates(n)
     /\ tree' = With(tree, c, entered)
     /\ table' = IF HasBiasKey(c) /\ BiasKey(c) \notin DOMAIN table
                 THEN With(table, BiasKey(c), 0) ELSE table
     /\ th' = [th EXCEPT ![t].pc = "descend", ![t].at = c]
     /\ UNCHANGED <<game, searches, searching, banned, stopNow, playouts, oldVisits>>

\* recomputeNodeStats, in three parts: the children are read under the node's lock,
\* the bias entry is updated under its own, and the stats are written under a third.
ReadChildren(t) ==
  /\ At(t, "return") /\ Free(th[t].at)
  /\ th' = [th EXCEPT ![t].pc = "bias",
                      ![t].childVisits = VisitsOf(tree, Children(tree, th[t].at))]
  /\ UNCHANGED <<game, tree, table, searches, searching, banned, stopNow, playouts, oldVisits>>

\* Mutant: the previous contribution of the node is not taken out of the entry.
Gained_Again(node, weight) == weight

Gained(node, weight) == weight - node.lastWeight

UpdateBias(t) ==
  LET n == th[t].at
      weight == WeightOf(tree[n], th[t].childVisits)
  IN /\ At(t, "bias")
     /\ IF tree[n].hasEntry
        THEN /\ table' = [table EXCEPT ![BiasKey(n)] = @ + Gained(tree[n], weight)]
             /\ tree' = [tree EXCEPT ![n].lastWeight = weight]
        ELSE UNCHANGED <<table, tree>>
     /\ th' = Goto(t, "write")
     /\ UNCHANGED <<game, searches, searching, banned, stopNow, playouts, oldVisits>>

WriteStats(t) ==
  LET n == th[t].at IN
  /\ At(t, "write")
  /\ tree' = [tree EXCEPT ![n] = Visited(@, n, FALSE)]
  /\ th' = Return(t, n)
  /\ UNCHANGED <<game, table, searches, searching, banned, stopNow, playouts, oldVisits>>

ThreadStep(t) ==
  \/ StartThread(t) \/ Stop(t) \/ StartPlayout(t) \/ CountPlayout(t)
  \/ HitTerminal(t) \/ HitLeaf(t) \/ FinishEvaluation(t) \/ GetStuck(t) \/ VisitAgain(t)
  \/ (\E m \in Moves : SelectChild(t, m)) \/ ReadChildren(t) \/ UpdateBias(t) \/ WriteStats(t)

Next ==
  \/ clearSearch
  \/ \E m \in Moves : makeMove(m)
  \/ \E refused \in {{}, {PASS}, Moves} : beginSearch(refused)
  \/ \E t \in Threads : ThreadStep(t)
  \/ endSearch
  \/ AskToStop

\* The operating system runs every thread; nobody has to ask a search to stop.
Fairness == (\A t \in Threads : WF_vars(ThreadStep(t))) /\ WF_vars(endSearch)

Spec == Init /\ [][Next]_vars /\ Fairness

-----------------------------------------------------------------------------
(* Properties                                                              *)

\* The threads that are in the subtree of n and have not yet been counted there, and
\* those of them whose visit is already counted at a child.
Inside(n) == {t \in Threads : /\ th[t].pc \notin {"start", "check", "count", "done"}
                              /\ IsPrefix(n, th[t].at)}
Returning(n) == {t \in Threads : th[t].at = n /\ th[t].pc \in {"return", "bias", "write"}}

\* The playouts both limits leave a search.
VisitsLeft == IF oldVisits > maxVisits THEN 0 ELSE maxVisits - oldVisits
PlayoutsAllowed == IF maxPlayouts < VisitsLeft THEN maxPlayouts ELSE VisitsLeft

\* Every playout counts once on its whole path, whatever the threads do to each other
\* and whatever is cut off the tree between searches: a node has the visits of its
\* children and those it had as a leaf, less the threads on their way up; its virtual
\* losses are those of the threads below it, so none is left over when the search is
\* over; the root has the visits of this search and the ones before it; and a search
\* goes past its limits by fewer playouts than it has threads.
VisitsAddUp ==
  /\ \A n \in DOMAIN tree :
       /\ tree[n].visits + Cardinality(Returning(n))
            = tree[n].leaf + VisitsOf(tree, Children(tree, n))
       /\ tree[n].virtualLosses
            = (IF n = game THEN 0 ELSE VirtualLosses * Cardinality(Inside(n)))
       /\ tree[n].visits = 0 => (n = game \/ Inside(n) # {}) /\ Children(tree, n) = {}
       /\ tree[n].nn => tree[n].visits > 0
       /\ ~tree[n].nn => Children(tree, n) = {}
  /\ searching => tree[game].visits = oldVisits + playouts
                    + Cardinality({t \in Threads : th[t].pc = "count"})
  /\ searching => playouts <= PlayoutsAllowed + Cardinality(Threads) - 1

\* The bias table holds exactly the weights of the nodes that are in the tree: threads
\* that recompute one node at the same time, nodes that share an entry, and nodes cut
\* off between searches leave nothing behind (with subtreeValueBiasFreeProp = 1).
BiasConserved ==
  \A n \in DOMAIN tree : tree[n].hasEntry =>
    /\ BiasKey(n) \in DOMAIN table
    /\ table[BiasKey(n)] = WeightsOf(tree, Sharing(tree, DOMAIN tree, BiasKey(n)))

\* Every search ends, by its own limit or because it is told to.
SearchEnds == searching ~> ~searching
=============================================================================
