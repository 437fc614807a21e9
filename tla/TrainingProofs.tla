---------------------------- MODULE TrainingProofs ----------------------------
(***************************************************************************)
(* HeldNetsStay, GamesKept, GamesHaveNets, RatingGamesBounded and          *)
(* VerdictStands of Training, for every number of threads, nets, models    *)
(* and games.  The properties of the selfplay command and of the           *)
(* gatekeeper command are proved of each command by itself, like those of  *)
(* ContributeProofs, and then of a process that runs any of them.          *)
(***************************************************************************)
EXTENDS Training, ContributeProofs, WellFoundedInduction

-----------------------------------------------------------------------------
(* The selfplay command: the inductive invariant                           *)

SelfplayNetData ==
  [name : Nets \cup {0}, manager : {SELFPLAY, 0}, acquireCount : Int, queued : Int,
   readOnly : BOOLEAN, loop : {"none", "running", "ending", "deleted", "ended"},
   deleted : BOOLEAN]

AtRest == {"top", "acquire", "ended"}
BusyPlaces == {"count", "play", "switch", "enqueue", "push", "release"}

PlayerData ==
  [pc : AtRest \cup BusyPlaces, nnEval : Nets \cup {NULL}, newNNEval : Nets \cup {NULL},
   hasData : BOOLEAN]

SelfplayTypeOK ==
  /\ command = "selfplay"
  /\ modelDatas \in [Managers -> SUBSET Nets]
  /\ net \in [Nets -> SelfplayNetData]
  /\ player \in [Players -> PlayerData]
  /\ loader \in {"top", "load", "loaded", "ended"}
  /\ main \in {"playing", "joinLoader", "destroy", "wait", "ended"}

\* A game thread holds nothing at rest, and between two games and while it switches
\* what its manager keeps.
NetsHeld ==
  \A p \in Players :
    /\ player[p].pc \in AtRest => player[p].nnEval = NULL
    /\ player[p].pc \in BusyPlaces => player[p].nnEval \in modelDatas[SELFPLAY]
    /\ player[p].pc = "switch" => player[p].newNNEval \in modelDatas[SELFPLAY]
    /\ player[p].pc # "switch" => player[p].newNNEval = NULL

Holders(n) == {p \in Players : player[p].nnEval = n}
NewHolders(n) == {p \in Players : player[p].newNNEval = n}

HoldersCounted ==
  \A n \in Nets : net[n].acquireCount = Cardinality(Holders(n)) + Cardinality(NewHolders(n))

\* The nets that are kept are the ones that are being written for.
NetsKept ==
  /\ \A m \in Managers : m # SELFPLAY => modelDatas[m] = {}
  /\ \A n \in modelDatas[SELFPLAY] : net[n].loop = "running" /\ ~net[n].readOnly
  /\ \A n \in Nets : net[n].loop # "none" => net[n].manager = SELFPLAY

SelfplayPhases ==
  /\ main \in {"playing", "joinLoader", "destroy"} => modelDatas[SELFPLAY] # {}
  /\ main \in {"destroy", "wait", "ended"} => loader = "ended"
  /\ main # "playing" => \A p \in Players : player[p].pc = "ended"

SelfplayInv == SelfplayTypeOK /\ NetsHeld /\ HoldersCounted /\ NetsKept /\ SelfplayPhases

-----------------------------------------------------------------------------
(* Nets and their order                                                    *)

NatLess == {ss \in Nat \X Nat : ss[1] < ss[2]}

LEMMA Least ==
  ASSUME NEW S \in SUBSET Nat, S # {}
  PROVE  \E n \in S : \A i \in S : i = n \/ n < i
<1>1. IsWellFoundedOn(OpToRel(<, Nat), Nat)
  BY NatLessThanWellFounded
<1>2. OpToRel(<, Nat) = NatLess
  BY DEF OpToRel, NatLess
<1>3. IsWellFoundedOn(NatLess, Nat)
  BY <1>1, <1>2
<1>4. \E x \in S : \A y \in S : ~ (<<y, x>> \in NatLess)
  BY <1>3, WFMin
<1>5. PICK n \in S : \A y \in S : ~ (<<y, n>> \in NatLess)
  BY <1>4
<1>6. \A i \in S : ~ (i < n)
  BY <1>5 DEF NatLess
<1> QED
  BY <1>6

\* There is a latest net in every nonempty set.
LEMMA LatestFound ==
  ASSUME NEW S \in SUBSET Nets, S # {}
  PROVE  Latest(S) \in S /\ \A i \in S : i = Latest(S) \/ NewerThan(Latest(S), i)
<1> DEFINE T == {MaxNets - n : n \in S}
<1>1. MaxNets \in Nat
  BY SelfplayManagerAssumption DEF SelfplayManagerAssumption
<1>2. T \in SUBSET Nat /\ T # {}
  <2>1. \A n \in S : MaxNets - n \in Nat
    BY <1>1 DEF Nets
  <2>2. T # {}
    OBVIOUS
  <2> QED
    BY <2>1, <2>2
<1>3. PICK k \in T : \A i \in T : i = k \/ k < i
  BY <1>2, Least
<1>4. PICK last \in S : k = MaxNets - last
  BY <1>3
<1>5. \A i \in S : i = last \/ NewerThan(last, i)
  <2> SUFFICES ASSUME NEW i \in S PROVE i = last \/ i < last
    BY DEF NewerThan
  <2>1. MaxNets - i \in T
    OBVIOUS
  <2> QED
    BY <1>1, <1>3, <1>4, <2>1 DEF Nets
<1>6. \E n \in S : \A i \in S : i = n \/ NewerThan(n, i)
  BY <1>5
<1> QED
  <2> DEFINE IsLatest(n) == n \in S /\ \A i \in S : i = n \/ NewerThan(n, i)
  <2>1. \E n : IsLatest(n)
    BY <1>6
  <2>2. IsLatest(CHOOSE n : IsLatest(n))
    BY <2>1
  <2>3. Latest(S) = CHOOSE n : IsLatest(n)
    BY DEF Latest
  <2> QED
    BY <2>2, <2>3

\* A net that is dropped is closed, perhaps deleted, and else as it was.
LEMMA DroppedNet ==
  ASSUME NEW U, NEW ns \in [Nets -> SelfplayNetData], NEW n \in Nets
  PROVE  /\ Dropped(ns, U)[n] \in SelfplayNetData
         /\ Dropped(ns, U)[n].acquireCount = ns[n].acquireCount
         /\ Dropped(ns, U)[n].loop = ns[n].loop
         /\ Dropped(ns, U)[n].manager = ns[n].manager
         /\ Dropped(ns, U)[n].queued = ns[n].queued
         /\ ns[n].loop # "none" => Dropped(ns, U)[n].deleted = ns[n].deleted
         /\ n \notin U => Dropped(ns, U)[n] = ns[n]
<1>1. ns[n] \in SelfplayNetData
  OBVIOUS
<1>2. CASE n \in U
  <2>1. Dropped(ns, U)[n]
          = [ns[n] EXCEPT !.readOnly = TRUE, !.deleted = @ \/ ns[n].loop = "none"]
    BY <1>2 DEF Dropped
  <2> QED
    BY <1>1, <1>2, <2>1 DEF SelfplayNetData
<1>3. CASE n \notin U
  <2>1. Dropped(ns, U)[n] = ns[n]
    BY <1>3 DEF Dropped
  <2> QED
    BY <1>1, <2>1
<1> QED
  BY <1>2, <1>3

LEMMA DroppedNetsOfSelfplay ==
  ASSUME NEW U, NEW ns \in [Nets -> SelfplayNetData]
  PROVE  Dropped(ns, U) \in [Nets -> SelfplayNetData]
<1>1. Dropped(ns, U) = [n \in Nets |-> Dropped(ns, U)[n]]
  BY DEF Dropped
<1> QED
  BY <1>1, DroppedNet

\* A cleanup takes nets that nobody uses, never the latest, and changes of the data
\* only what it closes.
LEMMA CleanupSpares ==
  ASSUME command = "selfplay", NEW S \in SUBSET Nets, S # {}, NEW ns \in [Nets -> SelfplayNetData]
  PROVE  /\ AutoUnused(S, ns) \in SUBSET S
         /\ S \ AutoUnused(S, ns) # {}
         /\ \A n \in AutoUnused(S, ns) : ns[n].acquireCount <= 0
         /\ Dropped(ns, AutoUnused(S, ns)) \in [Nets -> SelfplayNetData]
         /\ \A n \in Nets : /\ Dropped(ns, AutoUnused(S, ns))[n].acquireCount = ns[n].acquireCount
                            /\ Dropped(ns, AutoUnused(S, ns))[n].loop = ns[n].loop
                            /\ Dropped(ns, AutoUnused(S, ns))[n].manager = ns[n].manager
                            /\ n \notin AutoUnused(S, ns) => Dropped(ns, AutoUnused(S, ns))[n] = ns[n]
<1> DEFINE U == AutoUnused(S, ns)
<1>1. U \in SUBSET S /\ \A n \in U : ns[n].acquireCount <= 0
  BY DEF AutoUnused, UnusedIn
<1>2. S \ U # {}
  <2>1. Latest(S) \in S /\ \A i \in S : i = Latest(S) \/ NewerThan(Latest(S), i)
    BY LatestFound
  <2>2. Latest(S) \notin U
    <3>1. \A m \in S : ~ NewerThan(m, Latest(S))
      <4> SUFFICES ASSUME NEW m \in S PROVE ~ (Latest(S) < m)
        BY DEF NewerThan
      <4>1. m = Latest(S) \/ m < Latest(S)
        BY <2>1 DEF NewerThan
      <4>2. m \in Int /\ Latest(S) \in Int
        <5>1. S \subseteq Int
          BY DEF Nets
        <5> QED
          BY <2>1, <5>1
      <4> QED
        BY <4>1, <4>2
    <3> QED
      BY <3>1 DEF AutoUnused
  <2> QED
    BY <2>1, <2>2
<1>3. Dropped(ns, U) \in [Nets -> SelfplayNetData]
  BY DroppedNetsOfSelfplay
<1>4. \A n \in Nets : /\ Dropped(ns, U)[n].acquireCount = ns[n].acquireCount
                      /\ Dropped(ns, U)[n].loop = ns[n].loop
                      /\ Dropped(ns, U)[n].manager = ns[n].manager
                      /\ n \notin U => Dropped(ns, U)[n] = ns[n]
  BY DroppedNet
<1> QED
  BY <1>1, <1>2, <1>3, <1>4

-----------------------------------------------------------------------------
(* Counting the holders                                                    *)

\* Sets of game threads are counted one by one.
LEMMA CountOfPlayers ==
  ASSUME NEW H \in SUBSET Players
  PROVE  /\ Cardinality(H) \in Nat
         /\ \A p \in H : Cardinality(H) > 0
         /\ \A p : Cardinality(H \cup {p}) = IF p \in H THEN Cardinality(H) ELSE Cardinality(H) + 1
         /\ \A p : Cardinality(H \ {p}) = IF p \in H THEN Cardinality(H) - 1 ELSE Cardinality(H)
<1>1. IsFiniteSet(H)
  BY SelfplayCommandAssumption, FS_Subset DEF SelfplayCommandAssumption
<1>2. Cardinality(H) \in Nat
  BY <1>1, FS_CardinalityType
<1>3. \A p \in H : Cardinality(H) > 0
  <2> SUFFICES ASSUME NEW p \in H PROVE Cardinality(H) # 0
    BY <1>2
  <2> QED
    BY <1>1, FS_EmptySet
<1>4. \A p : Cardinality(H \cup {p}) = IF p \in H THEN Cardinality(H) ELSE Cardinality(H) + 1
  BY <1>1, FS_AddElement
<1>5. \A p : Cardinality(H \ {p}) = IF p \in H THEN Cardinality(H) - 1 ELSE Cardinality(H)
  BY <1>1, FS_RemoveElement
<1> QED
  BY <1>2, <1>3, <1>4, <1>5

\* What a cleanup makes of nets ns that are counted as they are held when it is over: it
\* takes none that is held.
LEMMA CleanupKeepsHeld ==
  ASSUME SelfplayInv, NEW S \in SUBSET Nets, S # {}, NEW ns \in [Nets -> SelfplayNetData],
         MaybeAutoCleanup(SELFPLAY, S, ns), player' \in [Players -> PlayerData],
         \A n \in Nets : ns[n].acquireCount = Cardinality(Holders(n)') + Cardinality(NewHolders(n)'),
         \A n \in S : ns[n].loop = "running" /\ ~ns[n].readOnly,
         \A n \in Nets : ns[n].loop # "none" => ns[n].manager = SELFPLAY,
         \A p \in Players : player'[p].nnEval \in S \cup {NULL} /\ player'[p].newNNEval \in S \cup {NULL}
  PROVE  /\ modelDatas' \in [Managers -> SUBSET Nets] /\ net' \in [Nets -> SelfplayNetData]
         /\ HoldersCounted' /\ NetsKept' /\ modelDatas'[SELFPLAY] # {}
         /\ \A p \in Players : /\ player'[p].nnEval \in modelDatas'[SELFPLAY] \cup {NULL}
                              /\ player'[p].newNNEval \in modelDatas'[SELFPLAY] \cup {NULL}
<1> DEFINE U == AutoUnused(S, ns)
<1>1. SelfplayTypeOK /\ NetsKept /\ command = "selfplay"
  BY DEF SelfplayInv, SelfplayTypeOK
<1>2. SELFPLAY \in Managers
  BY SelfplayCommandAssumption DEF SelfplayCommandAssumption
<1>3. /\ U \in SUBSET S /\ S \ U # {} /\ Dropped(ns, U) \in [Nets -> SelfplayNetData]
      /\ \A n \in U : ns[n].acquireCount <= 0
  BY <1>1, CleanupSpares
<1>4. \A n \in Nets : /\ Dropped(ns, U)[n].acquireCount = ns[n].acquireCount
                      /\ Dropped(ns, U)[n].loop = ns[n].loop
                      /\ Dropped(ns, U)[n].manager = ns[n].manager
                      /\ n \notin U => Dropped(ns, U)[n] = ns[n]
  BY DroppedNet
<1>5. net' = Dropped(ns, U) /\ modelDatas' = [modelDatas EXCEPT ![SELFPLAY] = S \ U]
  BY DEF MaybeAutoCleanup
<1>6. modelDatas' \in [Managers -> SUBSET Nets] /\ net' \in [Nets -> SelfplayNetData]
  BY <1>1, <1>3, <1>5 DEF SelfplayTypeOK
<1>7. modelDatas'[SELFPLAY] = S \ U
  BY <1>1, <1>2, <1>5 DEF SelfplayTypeOK
<1>8. HoldersCounted'
  BY <1>4, <1>5 DEF HoldersCounted
<1>9. NetsKept'
  <2>1. \A m \in Managers : m # SELFPLAY => modelDatas'[m] = {}
    BY <1>1, <1>5 DEF SelfplayTypeOK, NetsKept
  <2>2. \A n \in modelDatas'[SELFPLAY] : net'[n].loop = "running" /\ ~net'[n].readOnly
    BY <1>4, <1>5, <1>7
  <2>3. \A n \in Nets : net'[n].loop # "none" => net'[n].manager = SELFPLAY
    BY <1>4, <1>5
  <2> QED
    BY <2>1, <2>2, <2>3 DEF NetsKept
<1>10. ASSUME NEW p \in Players, NEW n \in S, player'[p].nnEval = n \/ player'[p].newNNEval = n
       PROVE  n \notin U
  <2>1. Cardinality(Holders(n)') \in Nat /\ Cardinality(NewHolders(n)') \in Nat
    BY CountOfPlayers DEF Holders, NewHolders
  <2>2. Cardinality(Holders(n)') > 0 \/ Cardinality(NewHolders(n)') > 0
    <3>1. p \in Holders(n)' \/ p \in NewHolders(n)'
      BY <1>10 DEF Holders, NewHolders
    <3>2. Holders(n)' \in SUBSET Players /\ NewHolders(n)' \in SUBSET Players
      BY DEF Holders, NewHolders
    <3> QED
      BY <3>1, <3>2, CountOfPlayers
  <2>3. ns[n].acquireCount > 0
    BY <2>1, <2>2
  <2> QED
    BY <1>3, <2>1, <2>3
<1>11. \A p \in Players : /\ player'[p].nnEval \in modelDatas'[SELFPLAY] \cup {NULL}
                          /\ player'[p].newNNEval \in modelDatas'[SELFPLAY] \cup {NULL}
  BY <1>7, <1>10
<1> QED
  BY <1>3, <1>6, <1>7, <1>8, <1>9, <1>11

\* Steps that neither count nor load nor unload.
LEMMA CountsStay ==
  ASSUME SelfplayInv, modelDatas' = modelDatas, net' \in [Nets -> SelfplayNetData],
         player' \in [Players -> PlayerData],
         \A n \in Nets : /\ net'[n].acquireCount = net[n].acquireCount
                         /\ net'[n].manager = net[n].manager
                         /\ net'[n].loop # "none" => net[n].loop # "none"
         ,
         \A n \in modelDatas[SELFPLAY] : net'[n].loop = net[n].loop /\ net'[n].readOnly = net[n].readOnly,
         \A q \in Players : /\ player'[q].nnEval = player[q].nnEval
                           /\ player'[q].newNNEval = player[q].newNNEval
  PROVE  HoldersCounted' /\ NetsKept'
<1>1. \A n : Holders(n)' = Holders(n) /\ NewHolders(n)' = NewHolders(n)
  BY DEF Holders, NewHolders
<1>2. HoldersCounted'
  BY <1>1 DEF HoldersCounted, SelfplayInv
<1>3. NetsKept'
  BY DEF NetsKept, SelfplayInv
<1> QED
  BY <1>2, <1>3

LEMMA SelfplayIsManager ==
  ASSUME SelfplayInv
  PROVE  SELFPLAY \in Managers /\ modelDatas[SELFPLAY] \subseteq Nets /\ NULL \notin Nets
BY SelfplayCommandAssumption DEF SelfplayInv, SelfplayTypeOK, SelfplayCommandAssumption

-----------------------------------------------------------------------------
(* The game threads                                                        *)

\* Steps of a game thread that only look at the manager.
LEMMA GameLoopQuiet ==
  ASSUME SelfplayInv, NEW p \in Players,
         \/ StartLoop(p) \/ CountGame(p) \/ FinishGame(p) \/ InterruptGame(p) \/ FindQueue(p)
         \/ PushData(p)
  PROVE  SelfplayInv'
<1>1. /\ UNCHANGED <<command, modelDatas, loader, main>>
      /\ net' \in [Nets -> SelfplayNetData]
      /\ \A n \in Nets : /\ net'[n].acquireCount = net[n].acquireCount
                         /\ net'[n].manager = net[n].manager
                         /\ net'[n].loop = net[n].loop /\ net'[n].readOnly = net[n].readOnly
  <2>1. CASE PushData(p)
    <3>1. player[p].nnEval \in Nets
      <4>1. player[p].nnEval \in modelDatas[SELFPLAY]
        BY <2>1 DEF SelfplayInv, NetsHeld, PushData, Playing, BusyPlaces
      <4> QED
        BY <4>1, SelfplayIsManager
    <3> QED
      BY <2>1, <3>1 DEF PushData, SelfplayInv, SelfplayTypeOK, SelfplayNetData
  <2>2. CASE ~ PushData(p)
    BY <2>2 DEF StartLoop, CountGame, FinishGame, InterruptGame, FindQueue, managerVars, SelfplayInv, SelfplayTypeOK
  <2> QED
    BY <2>1, <2>2
<1>2. PICK pc \in AtRest \cup BusyPlaces :
        /\ player'[p].pc = pc
        /\ pc # "switch" /\ player[p].pc # "switch"
        /\ pc \in AtRest <=> player[p].pc \in AtRest
        /\ main = "playing"
  BY DEF StartLoop, CountGame, FinishGame, InterruptGame, FindQueue, PushData, Playing, GoPlayer,
         AtRest, BusyPlaces, SelfplayInv, SelfplayTypeOK, PlayerData, SelfplayPhases
<1>3. /\ player' \in [Players -> PlayerData]
      /\ \A q \in Players : /\ player'[q].nnEval = player[q].nnEval
                            /\ player'[q].newNNEval = player[q].newNNEval
                            /\ q # p => player'[q].pc = player[q].pc
  BY DEF StartLoop, CountGame, FinishGame, InterruptGame, FindQueue, PushData, GoPlayer,
         SelfplayInv, SelfplayTypeOK, PlayerData, AtRest, BusyPlaces
<1>4. SelfplayTypeOK'
  BY <1>1, <1>3 DEF SelfplayTypeOK, SelfplayInv
<1>5. NetsHeld'
  BY <1>1, <1>2, <1>3 DEF NetsHeld, SelfplayInv, SelfplayTypeOK, PlayerData, AtRest, BusyPlaces
<1>6. HoldersCounted' /\ NetsKept'
  <2>1. modelDatas[SELFPLAY] \subseteq Nets
    BY SelfplayIsManager
  <2>2. \A n \in modelDatas[SELFPLAY] : net'[n].loop = net[n].loop /\ net'[n].readOnly = net[n].readOnly
    BY <1>1, <2>1
  <2>3. \A n \in Nets : /\ net'[n].acquireCount = net[n].acquireCount
                         /\ net'[n].manager = net[n].manager
                         /\ net'[n].loop # "none" => net[n].loop # "none"
    BY <1>1
  <2> QED
    BY <1>1, <1>3, <2>2, <2>3, CountsStay
<1>7. SelfplayPhases'
  BY <1>1, <1>2 DEF SelfplayPhases, SelfplayInv
<1> QED
  BY <1>4, <1>5, <1>6, <1>7 DEF SelfplayInv

\* A game thread that starts takes the latest net.
LEMMA AcquireLatestKeeps ==
  ASSUME SelfplayInv, NEW p \in Players, AcquireLatest(p)
  PROVE  SelfplayInv'
<1>1. PICK L \in Nets : L = Latest(modelDatas[SELFPLAY]) /\ L \in modelDatas[SELFPLAY] /\ L # NULL
  BY SelfplayIsManager, LatestFound DEF AcquireLatest
<1>2. /\ UNCHANGED <<command, modelDatas, loader, main>>
      /\ net' = [net EXCEPT ![L].acquireCount = @ + 1]
      /\ player' = [player EXCEPT ![p] = [NewPlayer EXCEPT !.pc = "count", !.nnEval = L]]
      /\ player[p].pc = "acquire"
  BY <1>1 DEF AcquireLatest, acquired, Playing
<1>3. /\ net \in [Nets -> SelfplayNetData] /\ player \in [Players -> PlayerData]
      /\ player[p].nnEval = NULL /\ player[p].newNNEval = NULL
  BY <1>2 DEF SelfplayInv, SelfplayTypeOK, NetsHeld, AtRest
<1>4. /\ player'[p].pc = "count" /\ player'[p].nnEval = L /\ player'[p].newNNEval = NULL
      /\ \A q \in Players : q # p => player'[q] = player[q]
  BY <1>2, <1>3 DEF NewPlayer
<1>5. SelfplayTypeOK'
  <2>1. net' \in [Nets -> SelfplayNetData]
    BY <1>1, <1>2, <1>3 DEF SelfplayNetData
  <2>2. player' \in [Players -> PlayerData]
    BY <1>1, <1>2, <1>3 DEF PlayerData, NewPlayer, BusyPlaces, AtRest
  <2> QED
    BY <1>2, <2>1, <2>2 DEF SelfplayTypeOK, SelfplayInv
<1>6. NetsHeld'
  BY <1>1, <1>2, <1>4 DEF NetsHeld, SelfplayInv, AtRest, BusyPlaces
<1>7. HoldersCounted'
  <2>1. Holders(L)' = Holders(L) \cup {p} /\ p \notin Holders(L)
    BY <1>1, <1>3, <1>4 DEF Holders
  <2>2. \A n \in Nets : n # L => Holders(n)' = Holders(n)
    BY <1>1, <1>3, <1>4, SelfplayIsManager DEF Holders
  <2>3. \A n \in Nets : NewHolders(n)' = NewHolders(n)
    BY <1>3, <1>4 DEF NewHolders
  <2>4. Cardinality(Holders(L)') = Cardinality(Holders(L)) + 1 /\ Cardinality(Holders(L)) \in Nat
    <3>1. Holders(L) \in SUBSET Players
      BY DEF Holders
    <3> QED
      BY <2>1, <3>1, CountOfPlayers
  <2>5. Cardinality(NewHolders(L)) \in Nat
    BY CountOfPlayers DEF NewHolders
  <2>6. net'[L].acquireCount = net[L].acquireCount + 1
        /\ \A n \in Nets : n # L => net'[n].acquireCount = net[n].acquireCount
    BY <1>1, <1>2, <1>3 DEF SelfplayNetData
  <2>7. HoldersCounted
    BY DEF SelfplayInv
  <2>8. \A n \in Nets : n # L =>
          net'[n].acquireCount = Cardinality(Holders(n)') + Cardinality(NewHolders(n)')
    BY <2>2, <2>3, <2>6, <2>7 DEF HoldersCounted
  <2>9. net'[L].acquireCount = Cardinality(Holders(L)') + Cardinality(NewHolders(L)')
    BY <1>1, <2>1, <2>2, <2>3, <2>4, <2>5, <2>6, <2>7 DEF HoldersCounted
  <2> QED
    BY <1>1, <2>8, <2>9 DEF HoldersCounted
<1>8. NetsKept'
  BY <1>1, <1>2, <1>3, SelfplayIsManager DEF NetsKept, SelfplayInv, SelfplayNetData
<1>9. SelfplayPhases'
  BY <1>2, <1>4 DEF SelfplayPhases, SelfplayInv
<1> QED
  BY <1>5, <1>6, <1>7, <1>8, <1>9 DEF SelfplayInv

\* In the middle of a game it takes the latest net beside its own.
LEMMA CheckForNewNNEvalKeeps ==
  ASSUME SelfplayInv, NEW p \in Players, CheckForNewNNEval(p)
  PROVE  SelfplayInv'
<1>1. PICK L \in Nets : L = Latest(modelDatas[SELFPLAY]) /\ L \in modelDatas[SELFPLAY] /\ L # NULL
  BY SelfplayIsManager, LatestFound DEF CheckForNewNNEval
<1>2. /\ UNCHANGED <<command, modelDatas, loader, main>>
      /\ net' = [net EXCEPT ![L].acquireCount = @ + 1]
      /\ player' = [player EXCEPT ![p].pc = "switch", ![p].newNNEval = L]
      /\ player[p].pc = "play"
  BY <1>1 DEF CheckForNewNNEval, acquired, Playing
<1>3. /\ net \in [Nets -> SelfplayNetData] /\ player \in [Players -> PlayerData]
      /\ player[p].nnEval \in modelDatas[SELFPLAY] /\ player[p].newNNEval = NULL
  BY <1>2 DEF SelfplayInv, SelfplayTypeOK, NetsHeld, BusyPlaces
<1>4. /\ player'[p] = [player[p] EXCEPT !.pc = "switch", !.newNNEval = L]
      /\ player'[p].pc = "switch" /\ player'[p].newNNEval = L
      /\ player'[p].nnEval = player[p].nnEval
      /\ \A q \in Players : q # p => player'[q] = player[q]
  BY <1>2, <1>3 DEF PlayerData
<1>5. SelfplayTypeOK'
  <2>1. net' \in [Nets -> SelfplayNetData]
    BY <1>1, <1>2, <1>3 DEF SelfplayNetData
  <2>2. player' \in [Players -> PlayerData]
    BY <1>1, <1>2, <1>3 DEF PlayerData, BusyPlaces, AtRest
  <2> QED
    BY <1>2, <2>1, <2>2 DEF SelfplayTypeOK, SelfplayInv
<1>6. NetsHeld'
  BY <1>1, <1>2, <1>3, <1>4 DEF NetsHeld, SelfplayInv, AtRest, BusyPlaces
<1>7. HoldersCounted'
  <2>1. NewHolders(L)' = NewHolders(L) \cup {p} /\ p \notin NewHolders(L)
    BY <1>1, <1>3, <1>4 DEF NewHolders
  <2>2. \A n \in Nets : n # L => NewHolders(n)' = NewHolders(n)
    <3>1. \A n \in Nets : n # NULL
      BY SelfplayCommandAssumption
    <3>2. \A n \in Nets : n # L =>
            \A q \in Players : player'[q].newNNEval = n <=> player[q].newNNEval = n
      BY <1>3, <1>4, <3>1
    <3> QED
      BY <3>2 DEF NewHolders
  <2>3. \A n \in Nets : Holders(n)' = Holders(n)
    <3>1. \A q \in Players : player'[q].nnEval = player[q].nnEval
      BY <1>4
    <3> QED
      BY <3>1 DEF Holders
  <2>4. Cardinality(NewHolders(L)') = Cardinality(NewHolders(L)) + 1
        /\ Cardinality(NewHolders(L)) \in Nat
    <3>1. NewHolders(L) \in SUBSET Players
      BY DEF NewHolders
    <3> QED
      BY <2>1, <3>1, CountOfPlayers
  <2>5. Cardinality(Holders(L)) \in Nat
    BY CountOfPlayers DEF Holders
  <2>6. net'[L].acquireCount = net[L].acquireCount + 1
        /\ \A n \in Nets : n # L => net'[n].acquireCount = net[n].acquireCount
    BY <1>1, <1>2, <1>3 DEF SelfplayNetData
  <2>7. HoldersCounted
    BY DEF SelfplayInv
  <2>8. \A n \in Nets : n # L =>
          net'[n].acquireCount = Cardinality(Holders(n)') + Cardinality(NewHolders(n)')
    BY <2>2, <2>3, <2>6, <2>7 DEF HoldersCounted
  <2>9. net'[L].acquireCount = Cardinality(Holders(L)') + Cardinality(NewHolders(L)')
    BY <1>1, <2>1, <2>2, <2>3, <2>4, <2>5, <2>6, <2>7 DEF HoldersCounted
  <2> QED
    BY <1>1, <2>8, <2>9 DEF HoldersCounted
<1>8. NetsKept'
  BY <1>1, <1>2, <1>3, SelfplayIsManager DEF NetsKept, SelfplayInv, SelfplayNetData
<1>9. SelfplayPhases'
  <2>1. main = "playing"
    BY <1>2 DEF SelfplayPhases, SelfplayInv
  <2> QED
    BY <1>2, <2>1 DEF SelfplayPhases, SelfplayInv
<1> QED
  BY <1>5, <1>6, <1>7, <1>8, <1>9 DEF SelfplayInv

\* A net that is counted down as its holder lets it go.
LEMMA ReleaseOneKeeps ==
  ASSUME SelfplayInv, NEW o \in modelDatas[SELFPLAY], release(SELFPLAY, o),
         player' \in [Players -> PlayerData],
         \A n \in Nets : Cardinality(Holders(n)') + Cardinality(NewHolders(n)')
                           = Cardinality(Holders(n)) + Cardinality(NewHolders(n))
                             - (IF n = o THEN 1 ELSE 0),
         \A q \in Players : /\ player'[q].nnEval \in modelDatas[SELFPLAY] \cup {NULL}
                           /\ player'[q].newNNEval \in modelDatas[SELFPLAY] \cup {NULL}
  PROVE  /\ modelDatas' \in [Managers -> SUBSET Nets] /\ net' \in [Nets -> SelfplayNetData]
         /\ HoldersCounted' /\ NetsKept' /\ modelDatas'[SELFPLAY] # {} /\ command' = command
         /\ \A q \in Players : /\ player'[q].nnEval \in modelDatas'[SELFPLAY] \cup {NULL}
                              /\ player'[q].newNNEval \in modelDatas'[SELFPLAY] \cup {NULL}
<1> DEFINE S == modelDatas[SELFPLAY]
<1> DEFINE ns == [net EXCEPT ![o].acquireCount = @ - 1]
<1>1. MaybeAutoCleanup(SELFPLAY, S, ns) /\ command' = command
  BY DEF release
<1>2. o \in Nets /\ net \in [Nets -> SelfplayNetData] /\ HoldersCounted /\ NetsKept
  BY SelfplayIsManager DEF SelfplayInv, SelfplayTypeOK
<1>3. ns \in [Nets -> SelfplayNetData]
  BY <1>2 DEF SelfplayNetData
<1>4. \A n \in Nets : /\ ns[n].acquireCount = net[n].acquireCount - (IF n = o THEN 1 ELSE 0)
                      /\ ns[n].loop = net[n].loop /\ ns[n].readOnly = net[n].readOnly
                      /\ ns[n].manager = net[n].manager
  BY <1>2 DEF SelfplayNetData
<1>5. \A n \in Nets : ns[n].acquireCount = Cardinality(Holders(n)') + Cardinality(NewHolders(n)')
  <2>1. \A n \in Nets : Cardinality(Holders(n)) \in Nat /\ Cardinality(NewHolders(n)) \in Nat
    BY CountOfPlayers DEF Holders, NewHolders
  <2> HIDE DEF ns
  <2> QED
    BY <1>2, <1>4, <2>1 DEF HoldersCounted
<1>6. S \in SUBSET Nets /\ S # {}
  BY SelfplayIsManager
<1>7. \A n \in S : ns[n].loop = "running" /\ ~ns[n].readOnly
  BY <1>2, <1>4, <1>6 DEF NetsKept
<1>8. \A n \in Nets : ns[n].loop # "none" => ns[n].manager = SELFPLAY
  BY <1>2, <1>4 DEF NetsKept
<1> HIDE DEF S, ns
<1>9. \A q \in Players : player'[q].nnEval \in S \cup {NULL} /\ player'[q].newNNEval \in S \cup {NULL}
  BY DEF S
<1> QED
  BY <1>1, <1>3, <1>5, <1>6, <1>7, <1>8, <1>9, CleanupKeepsHeld

\* A game thread lets its old net go for the new one, which may be the same.
LEMMA SwitchNetKeeps ==
  ASSUME SelfplayInv, NEW p \in Players, SwitchNet(p)
  PROVE  SelfplayInv'
<1>1. PICK a \in modelDatas[SELFPLAY], b \in modelDatas[SELFPLAY] :
        player[p].pc = "switch" /\ player[p].nnEval = a /\ player[p].newNNEval = b
  BY DEF SwitchNet, Playing, SelfplayInv, NetsHeld, BusyPlaces
<1>2. a \in Nets /\ b \in Nets /\ a # NULL /\ b # NULL
  BY SelfplayIsManager
<1>3. /\ release(SELFPLAY, a) /\ UNCHANGED <<loader, main>>
      /\ player' = [player EXCEPT ![p].pc = "play", ![p].nnEval = b, ![p].newNNEval = NULL]
  BY <1>1 DEF SwitchNet
<1>4. player \in [Players -> PlayerData] /\ NetsHeld /\ SelfplayPhases
  BY DEF SelfplayInv, SelfplayTypeOK
<1>5. /\ player' \in [Players -> PlayerData]
      /\ player'[p].pc = "play" /\ player'[p].nnEval = b /\ player'[p].newNNEval = NULL
      /\ \A q \in Players : q # p => player'[q] = player[q]
  BY <1>2, <1>3, <1>4 DEF PlayerData, BusyPlaces, AtRest
<1>6. \A n \in Nets : /\ Holders(n) \in SUBSET Players /\ NewHolders(n) \in SUBSET Players
                      /\ Cardinality(Holders(n)) \in Nat /\ Cardinality(NewHolders(n)) \in Nat
  BY CountOfPlayers DEF Holders, NewHolders
<1>7. p \in Holders(a) /\ p \in NewHolders(b)
  BY <1>1 DEF Holders, NewHolders
<1>8. \A n \in Nets : /\ n # b => NewHolders(n)' = NewHolders(n)
                      /\ n # a /\ n # b => Holders(n)' = Holders(n)
                      /\ n = a /\ n # b => Holders(n)' = Holders(n) \ {p}
                      /\ n = b /\ n # a => Holders(n)' = Holders(n) \cup {p} /\ p \notin Holders(n)
                      /\ n = b /\ n = a => Holders(n)' = Holders(n)
  <2> SUFFICES ASSUME NEW n \in Nets
               PROVE  /\ n # b => NewHolders(n)' = NewHolders(n)
                      /\ n # a /\ n # b => Holders(n)' = Holders(n)
                      /\ n = a /\ n # b => Holders(n)' = Holders(n) \ {p}
                      /\ n = b /\ n # a => Holders(n)' = Holders(n) \cup {p} /\ p \notin Holders(n)
                      /\ n = b /\ n = a => Holders(n)' = Holders(n)
    OBVIOUS
  <2>1. n # NULL
    BY SelfplayIsManager
  <2>2. \A q \in Players : /\ q # p => player'[q].nnEval = player[q].nnEval
                          /\ q # p => player'[q].newNNEval = player[q].newNNEval
    BY <1>5
  <2>3. n # b => NewHolders(n)' = NewHolders(n)
    BY <1>1, <1>5, <2>1, <2>2 DEF NewHolders
  <2>4. n # a /\ n # b => Holders(n)' = Holders(n)
    BY <1>1, <1>5, <2>1, <2>2 DEF Holders
  <2>5. n = a /\ n # b => Holders(n)' = Holders(n) \ {p}
    BY <1>1, <1>5, <2>2 DEF Holders
  <2>6. n = b /\ n # a => Holders(n)' = Holders(n) \cup {p} /\ p \notin Holders(n)
    BY <1>1, <1>5, <2>2 DEF Holders
  <2>7. n = b /\ n = a => Holders(n)' = Holders(n)
    BY <1>1, <1>5, <2>2 DEF Holders
  <2> QED
    BY <2>3, <2>4, <2>5, <2>6, <2>7
<1>9. NewHolders(b)' = NewHolders(b) \ {p}
  BY <1>1, <1>2, <1>5 DEF NewHolders
<1>10. Cardinality(NewHolders(b)') = Cardinality(NewHolders(b)) - 1
  BY <1>2, <1>6, <1>7, <1>9, CountOfPlayers
<1>11. a # b => /\ Cardinality(Holders(a)') = Cardinality(Holders(a)) - 1
                /\ Cardinality(Holders(b)') = Cardinality(Holders(b)) + 1
  BY <1>2, <1>6, <1>7, <1>8, CountOfPlayers
<1>12. \A n \in Nets : Cardinality(Holders(n)') + Cardinality(NewHolders(n)')
                           = Cardinality(Holders(n)) + Cardinality(NewHolders(n))
                             - (IF n = a THEN 1 ELSE 0)
  <2> SUFFICES ASSUME NEW n \in Nets
               PROVE  Cardinality(Holders(n)') + Cardinality(NewHolders(n)')
                        = Cardinality(Holders(n)) + Cardinality(NewHolders(n)) - (IF n = a THEN 1 ELSE 0)
    OBVIOUS
  <2>1. CASE n # a /\ n # b
    BY <1>6, <1>8, <2>1
  <2>2. CASE n = a /\ n # b
    BY <1>6, <1>8, <1>11, <2>2
  <2>3. CASE n = b /\ n # a
    BY <1>6, <1>10, <1>11, <2>3
  <2>4. CASE n = b /\ n = a
    BY <1>6, <1>8, <1>10, <2>4
  <2> QED
    BY <2>1, <2>2, <2>3, <2>4
<1>13. \A q \in Players : /\ player'[q].nnEval \in modelDatas[SELFPLAY] \cup {NULL}
                         /\ player'[q].newNNEval \in modelDatas[SELFPLAY] \cup {NULL}
  BY <1>4, <1>5 DEF NetsHeld, PlayerData
<1>14. /\ modelDatas' \in [Managers -> SUBSET Nets] /\ net' \in [Nets -> SelfplayNetData]
       /\ HoldersCounted' /\ NetsKept' /\ modelDatas'[SELFPLAY] # {} /\ command' = command
       /\ \A q \in Players : /\ player'[q].nnEval \in modelDatas'[SELFPLAY] \cup {NULL}
                            /\ player'[q].newNNEval \in modelDatas'[SELFPLAY] \cup {NULL}
  BY <1>3, <1>5, <1>12, <1>13, ReleaseOneKeeps
<1>15. SelfplayTypeOK'
  BY <1>3, <1>5, <1>14 DEF SelfplayInv, SelfplayTypeOK
<1>16. NetsHeld'
  <2>1. player'[p].nnEval \in modelDatas'[SELFPLAY]
    BY <1>2, <1>5, <1>14
  <2>2. \A q \in Players : q # p =>
          /\ player'[q].pc \in AtRest => player'[q].nnEval = NULL
          /\ player'[q].pc \in BusyPlaces => player'[q].nnEval \in modelDatas'[SELFPLAY]
          /\ player'[q].pc = "switch" => player'[q].newNNEval \in modelDatas'[SELFPLAY]
          /\ player'[q].pc # "switch" => player'[q].newNNEval = NULL
    BY <1>4, <1>5, <1>14, SelfplayIsManager DEF NetsHeld
  <2> QED
    BY <1>5, <2>1, <2>2 DEF NetsHeld, AtRest, BusyPlaces
<1>17. SelfplayPhases'
  <2>1. main = "playing"
    BY <1>1, <1>4 DEF SelfplayPhases
  <2> QED
    BY <1>3, <1>14, <2>1 DEF SelfplayPhases
<1> QED
  BY <1>14, <1>15, <1>16, <1>17 DEF SelfplayInv

\* A game thread lets its net go at the end of a game.
LEMMA ReleaseNetKeeps ==
  ASSUME SelfplayInv, NEW p \in Players, ReleaseNet(p)
  PROVE  SelfplayInv'
<1>1. PICK a \in modelDatas[SELFPLAY] :
        player[p].pc = "release" /\ player[p].nnEval = a /\ player[p].newNNEval = NULL
  BY DEF ReleaseNet, Playing, SelfplayInv, NetsHeld, BusyPlaces
<1>2. a \in Nets /\ a # NULL
  BY SelfplayIsManager
<1>3. PICK pc \in {"top", "ended"} :
        /\ release(SELFPLAY, a) /\ UNCHANGED <<loader, main>>
        /\ player' = [player EXCEPT ![p] = [NewPlayer EXCEPT !.pc = pc]]
  BY <1>1 DEF ReleaseNet
<1>4. player \in [Players -> PlayerData] /\ NetsHeld /\ SelfplayPhases
  BY DEF SelfplayInv, SelfplayTypeOK
<1>5. /\ player' \in [Players -> PlayerData]
      /\ player'[p].pc = pc /\ player'[p].nnEval = NULL /\ player'[p].newNNEval = NULL
      /\ \A q \in Players : q # p => player'[q] = player[q]
  BY <1>2, <1>3, <1>4 DEF PlayerData, NewPlayer, BusyPlaces, AtRest
<1>6. \A n \in Nets : /\ Holders(n) \in SUBSET Players /\ NewHolders(n) \in SUBSET Players
                      /\ Cardinality(Holders(n)) \in Nat /\ Cardinality(NewHolders(n)) \in Nat
  BY CountOfPlayers DEF Holders, NewHolders
<1>7. p \in Holders(a) /\ Holders(a)' = Holders(a) \ {p}
  BY <1>1, <1>2, <1>5 DEF Holders
<1>8. \A n \in Nets : NewHolders(n)' = NewHolders(n) /\ (n # a => Holders(n)' = Holders(n))
  BY <1>1, <1>2, <1>5, SelfplayIsManager DEF Holders, NewHolders
<1>9. Cardinality(Holders(a)') = Cardinality(Holders(a)) - 1
  BY <1>2, <1>6, <1>7, CountOfPlayers
<1>10. \A n \in Nets : Cardinality(Holders(n)') + Cardinality(NewHolders(n)')
                           = Cardinality(Holders(n)) + Cardinality(NewHolders(n))
                             - (IF n = a THEN 1 ELSE 0)
  BY <1>6, <1>8, <1>9
<1>11. \A q \in Players : /\ player'[q].nnEval \in modelDatas[SELFPLAY] \cup {NULL}
                         /\ player'[q].newNNEval \in modelDatas[SELFPLAY] \cup {NULL}
  BY <1>4, <1>5 DEF NetsHeld, PlayerData
<1>12. /\ modelDatas' \in [Managers -> SUBSET Nets] /\ net' \in [Nets -> SelfplayNetData]
       /\ HoldersCounted' /\ NetsKept' /\ modelDatas'[SELFPLAY] # {} /\ command' = command
       /\ \A q \in Players : /\ player'[q].nnEval \in modelDatas'[SELFPLAY] \cup {NULL}
                            /\ player'[q].newNNEval \in modelDatas'[SELFPLAY] \cup {NULL}
  BY <1>3, <1>5, <1>10, <1>11, ReleaseOneKeeps
<1>13. SelfplayTypeOK'
  BY <1>3, <1>5, <1>12 DEF SelfplayInv, SelfplayTypeOK
<1>14. NetsHeld'
  <2>1. \A q \in Players : q # p =>
          /\ player'[q].pc \in AtRest => player'[q].nnEval = NULL
          /\ player'[q].pc \in BusyPlaces => player'[q].nnEval \in modelDatas'[SELFPLAY]
          /\ player'[q].pc = "switch" => player'[q].newNNEval \in modelDatas'[SELFPLAY]
          /\ player'[q].pc # "switch" => player'[q].newNNEval = NULL
    BY <1>4, <1>5, <1>12, SelfplayIsManager DEF NetsHeld
  <2> QED
    BY <1>5, <2>1 DEF NetsHeld, AtRest, BusyPlaces
<1>15. SelfplayPhases'
  <2>1. main = "playing"
    BY <1>1, <1>4 DEF SelfplayPhases
  <2> QED
    BY <1>3, <1>12, <2>1 DEF SelfplayPhases
<1> QED
  BY <1>12, <1>13, <1>14, <1>15 DEF SelfplayInv

LEMMA GameLoopKeeps ==
  ASSUME SelfplayInv, NEW p \in Players, GameLoop(p)
  PROVE  SelfplayInv'
BY GameLoopQuiet, AcquireLatestKeeps, CheckForNewNNEvalKeeps, SwitchNetKeeps, ReleaseNetKeeps
   DEF GameLoop

-----------------------------------------------------------------------------
(* The other threads                                                       *)

\* Nobody holds a net that the manager does not keep.
LEMMA NotKeptNotHeld ==
  ASSUME SelfplayInv, NEW n \in Nets, n \notin modelDatas[SELFPLAY]
  PROVE  Holders(n) = {} /\ NewHolders(n) = {} /\ net[n].acquireCount = 0
<1>1. NetsHeld /\ HoldersCounted /\ player \in [Players -> PlayerData] /\ n # NULL
  BY SelfplayIsManager DEF SelfplayInv, SelfplayTypeOK
<1>2. \A p \in Players : player[p].nnEval # n /\ player[p].newNNEval # n
  BY <1>1 DEF NetsHeld, PlayerData
<1>3. Holders(n) = {} /\ NewHolders(n) = {}
  BY <1>2 DEF Holders, NewHolders
<1>4. Cardinality({}) = 0
  BY FS_EmptySet
<1> QED
  BY <1>1, <1>3, <1>4 DEF HoldersCounted

\* A new net is loaded, and the older ones that nobody uses go.
LEMMA LoadNewNetKeeps ==
  ASSUME SelfplayInv, LoadNewNet
  PROVE  SelfplayInv'
<1>1. PICK n \in Nets : loadModelAndStartDataWriting(SELFPLAY, n, n)
  BY DEF LoadNewNet
<1> DEFINE S == modelDatas[SELFPLAY] \cup {n}
<1> DEFINE ns == [net EXCEPT ![n] = ModelData(n, SELFPLAY, "running")]
<1>2. /\ MaybeAutoCleanup(SELFPLAY, S, ns) /\ n \in FreeNets
      /\ loader = "load" /\ loader' = "loaded" /\ UNCHANGED <<command, player, main>>
  BY <1>1 DEF loadModelAndStartDataWriting, LoadNewNet, IsNextNet
<1>3. /\ net \in [Nets -> SelfplayNetData] /\ player \in [Players -> PlayerData]
      /\ NetsHeld /\ HoldersCounted /\ NetsKept /\ SelfplayPhases
  BY DEF SelfplayInv, SelfplayTypeOK
<1>4. n \notin modelDatas[SELFPLAY]
  BY <1>2, <1>3 DEF FreeNets, NetsKept
<1>5. ns \in [Nets -> SelfplayNetData]
  BY <1>3 DEF SelfplayNetData, ModelData
<1>6. /\ ns[n].acquireCount = 0 /\ ns[n].loop = "running" /\ ns[n].readOnly = FALSE
      /\ ns[n].manager = SELFPLAY
      /\ \A i \in Nets : i # n => ns[i] = net[i]
  BY <1>3 DEF ModelData
<1>7. \A i \in Nets : ns[i].acquireCount = Cardinality(Holders(i)') + Cardinality(NewHolders(i)')
  <2>1. \A i : Holders(i)' = Holders(i) /\ NewHolders(i)' = NewHolders(i)
    BY <1>2 DEF Holders, NewHolders
  <2>2. Cardinality(Holders(n)) = 0 /\ Cardinality(NewHolders(n)) = 0
    BY <1>4, NotKeptNotHeld, FS_EmptySet
  <2> HIDE DEF ns
  <2>3. ns[n].acquireCount = Cardinality(Holders(n)') + Cardinality(NewHolders(n)')
    BY <1>6, <2>1, <2>2
  <2>4. \A i \in Nets : i # n =>
          ns[i].acquireCount = Cardinality(Holders(i)') + Cardinality(NewHolders(i)')
    BY <1>3, <1>6, <2>1 DEF HoldersCounted
  <2> QED
    BY <2>3, <2>4
<1>8. S \in SUBSET Nets /\ S # {}
  BY SelfplayIsManager
<1>9. /\ \A i \in S : ns[i].loop = "running" /\ ~ns[i].readOnly
      /\ \A i \in Nets : ns[i].loop # "none" => ns[i].manager = SELFPLAY
  <2> HIDE DEF ns
  <2> QED
    BY <1>3, <1>6, <1>8 DEF NetsKept
<1>10. \A q \in Players : player'[q].nnEval \in S \cup {NULL} /\ player'[q].newNNEval \in S \cup {NULL}
  BY <1>2, <1>3 DEF NetsHeld, PlayerData
<1>11. player' \in [Players -> PlayerData]
  BY <1>2, <1>3
<1> HIDE DEF S, ns
<1>12. /\ modelDatas' \in [Managers -> SUBSET Nets] /\ net' \in [Nets -> SelfplayNetData]
       /\ HoldersCounted' /\ NetsKept' /\ modelDatas'[SELFPLAY] # {}
       /\ \A q \in Players : /\ player'[q].nnEval \in modelDatas'[SELFPLAY] \cup {NULL}
                            /\ player'[q].newNNEval \in modelDatas'[SELFPLAY] \cup {NULL}
  BY <1>2, <1>5, <1>7, <1>8, <1>9, <1>10, <1>11, CleanupKeepsHeld
<1>13. SelfplayTypeOK'
  BY <1>2, <1>11, <1>12 DEF SelfplayInv, SelfplayTypeOK
<1>14. NetsHeld'
  BY <1>2, <1>3, <1>12, SelfplayIsManager DEF NetsHeld
<1>15. SelfplayPhases'
  BY <1>2, <1>3, <1>12 DEF SelfplayPhases
<1> QED
  BY <1>12, <1>13, <1>14, <1>15 DEF SelfplayInv

\* The model loading thread's other steps.
LEMMA LoaderQuiet ==
  ASSUME SelfplayInv, PollModels \/ NoNewNet \/ SleepAndPoll
  PROVE  SelfplayInv'
<1>1. /\ UNCHANGED <<command, modelDatas, net, player, main>>
      /\ loader # "ended" /\ loader' \in {"top", "load", "loaded", "ended"}
  BY DEF PollModels, NoNewNet, SleepAndPoll, managerVars
<1>2. SelfplayTypeOK' /\ NetsHeld' /\ HoldersCounted' /\ NetsKept'
  BY <1>1 DEF SelfplayInv, SelfplayTypeOK, NetsHeld, HoldersCounted, NetsKept, Holders, NewHolders
<1>3. SelfplayPhases'
  BY <1>1 DEF SelfplayInv, SelfplayPhases
<1> QED
  BY <1>2, <1>3 DEF SelfplayInv

\* A data writing thread only has a net to itself that the manager has let go.
LEMMA DataWriteLoopKeeps ==
  ASSUME SelfplayInv, NEW n \in Nets, DataWriteLoop(n), UNCHANGED <<selfplayVars, shouldStop, main>>
  PROVE  SelfplayInv'
<1>1. UNCHANGED <<command, modelDatas, player, loader, main>>
  BY DEF DataWriteLoop, WriteGame, EndWriting, DeleteModelData, CheckIn, selfplayVars
<1>2. net \in [Nets -> SelfplayNetData] /\ player \in [Players -> PlayerData] /\ NetsHeld /\ NetsKept /\ SelfplayPhases
  BY DEF SelfplayInv, SelfplayTypeOK
<1>3. /\ net' \in [Nets -> SelfplayNetData]
      /\ \A i \in Nets : i # n => net'[i] = net[i]
      /\ net'[n].acquireCount = net[n].acquireCount /\ net'[n].manager = net[n].manager
      /\ net'[n].readOnly = net[n].readOnly
      /\ net[n].loop # "none"
      /\ net'[n].loop = net[n].loop \/ net[n].readOnly \/ net[n].loop # "running"
  BY <1>2 DEF DataWriteLoop, WriteGame, EndWriting, NoMoreGames, DeleteModelData, CheckIn, SelfplayNetData
<1>4. \A i \in modelDatas[SELFPLAY] : net'[i].loop = net[i].loop /\ net'[i].readOnly = net[i].readOnly
  BY <1>2, <1>3, SelfplayIsManager DEF NetsKept
<1>5. \A i \in Nets : /\ net'[i].acquireCount = net[i].acquireCount
                      /\ net'[i].manager = net[i].manager
                      /\ net'[i].loop # "none" => net[i].loop # "none"
  BY <1>3
<1>6. HoldersCounted' /\ NetsKept'
  BY <1>1, <1>2, <1>3, <1>4, <1>5, CountsStay
<1>7. SelfplayTypeOK'
  BY <1>1, <1>3 DEF SelfplayInv, SelfplayTypeOK
<1>8. NetsHeld' /\ SelfplayPhases'
  BY <1>1, <1>2 DEF NetsHeld, SelfplayPhases
<1> QED
  BY <1>6, <1>7, <1>8 DEF SelfplayInv

\* The main thread destroys the manager when every game thread is over.
LEMMA DestroyManagerKeeps ==
  ASSUME SelfplayInv, DestroyManager
  PROVE  SelfplayInv'
<1> DEFINE S == modelDatas[SELFPLAY]
<1>1. /\ modelDatas' = [modelDatas EXCEPT ![SELFPLAY] = {}] /\ net' = Dropped(net, S)
      /\ UNCHANGED <<command, player, loader>> /\ main = "destroy" /\ main' = "wait"
  BY DEF DestroyManager, Destroy, selfplayVars
<1>2. /\ net \in [Nets -> SelfplayNetData] /\ modelDatas \in [Managers -> SUBSET Nets]
      /\ NetsHeld /\ HoldersCounted /\ NetsKept /\ SelfplayPhases
  BY DEF SelfplayInv, SelfplayTypeOK
<1>3. modelDatas' \in [Managers -> SUBSET Nets] /\ \A m \in Managers : modelDatas'[m] = {}
  BY <1>1, <1>2 DEF NetsKept
<1>4. net' \in [Nets -> SelfplayNetData]
  BY <1>1, <1>2, DroppedNetsOfSelfplay
<1>5. \A n \in Nets : /\ net'[n].acquireCount = net[n].acquireCount
                      /\ net'[n].loop = net[n].loop /\ net'[n].manager = net[n].manager
  BY <1>1, <1>2, DroppedNet
<1>6. SelfplayTypeOK'
  BY <1>1, <1>3, <1>4 DEF SelfplayInv, SelfplayTypeOK
<1>7. \A p \in Players : player[p].pc = "ended"
  BY <1>1, <1>2 DEF SelfplayPhases
<1>8. NetsHeld'
  BY <1>1, <1>2, <1>7 DEF NetsHeld, AtRest, BusyPlaces
<1>9. HoldersCounted'
  <2>1. \A n : Holders(n)' = Holders(n) /\ NewHolders(n)' = NewHolders(n)
    BY <1>1 DEF Holders, NewHolders
  <2> QED
    BY <1>2, <1>5, <2>1 DEF HoldersCounted
<1>10. NetsKept'
  BY <1>2, <1>3, <1>5, SelfplayIsManager DEF NetsKept
<1>11. SelfplayPhases'
  BY <1>1, <1>2, <1>7 DEF SelfplayPhases
<1> QED
  BY <1>6, <1>8, <1>9, <1>10, <1>11 DEF SelfplayInv

\* The joins of the main thread.
LEMMA MainQuiet ==
  ASSUME SelfplayInv, JoinPlayers \/ JoinLoader \/ AwaitWriters
  PROVE  SelfplayInv'
<1>1. UNCHANGED <<command, modelDatas, net, player, loader>>
  BY DEF JoinPlayers, JoinLoader, AwaitWriters, managerVars, selfplayVars
<1>2. SelfplayTypeOK'
  BY <1>1 DEF SelfplayInv, SelfplayTypeOK, JoinPlayers, JoinLoader, AwaitWriters
<1>3. NetsHeld' /\ HoldersCounted' /\ NetsKept'
  BY <1>1 DEF SelfplayInv, NetsHeld, HoldersCounted, NetsKept, Holders, NewHolders
<1>4. SelfplayPhases'
  BY <1>1 DEF SelfplayInv, SelfplayPhases, JoinPlayers, JoinLoader, AwaitWriters, Playing
<1> QED
  BY <1>2, <1>3, <1>4 DEF SelfplayInv

-----------------------------------------------------------------------------
(* The invariant                                                           *)

LEMMA InitSelfplayInv == SelfplayInit => SelfplayInv
<1> SUFFICES ASSUME SelfplayInit PROVE SelfplayInv
  OBVIOUS
<1>1. SELFPLAY \in Managers
  BY SelfplayCommandAssumption DEF SelfplayCommandAssumption
<1>2. PICK first \in Nets :
        /\ modelDatas = [m \in Managers |-> IF m = SELFPLAY THEN {first} ELSE {}]
        /\ net = [n \in Nets |-> IF n = first THEN ModelData(n, SELFPLAY, "running") ELSE NoNet]
  BY DEF SelfplayInit
<1>3. /\ player = [p \in Players |-> NewPlayer] /\ loader = "top" /\ main = "playing"
      /\ command = "selfplay"
  BY DEF SelfplayInit
<1>4. net \in [Nets -> SelfplayNetData] /\ \A n \in Nets : net[n].acquireCount = 0
  <2>1. \A n \in Nets : ModelData(n, SELFPLAY, "running") \in SelfplayNetData
    BY DEF SelfplayNetData, ModelData
  <2>2. /\ NoNet.acquireCount = 0 /\ NoNet.loop = "none"
    BY DEF NoNet, ModelData
  <2>3. NoNet \in SelfplayNetData
    <3> DEFINE r == ModelData(0, 0, "none")
    <3>1. r \in SelfplayNetData
      BY DEF SelfplayNetData, ModelData
    <3> HIDE DEF r
    <3>2. [r EXCEPT !.deleted = TRUE] \in SelfplayNetData
      BY <3>1 DEF SelfplayNetData
    <3> QED
      BY <3>2 DEF NoNet, r
  <2>4. net \in [Nets -> SelfplayNetData]
    BY <1>2, <2>1, <2>3
  <2>5. \A n \in Nets : net[n].acquireCount = 0
    BY <1>2, <2>2 DEF ModelData
  <2> QED
    BY <2>4, <2>5
<1>5. SelfplayTypeOK
  BY <1>2, <1>3, <1>4 DEF SelfplayTypeOK, PlayerData, NewPlayer, AtRest, BusyPlaces
<1>6. NetsHeld
  BY <1>3 DEF NetsHeld, NewPlayer, AtRest, BusyPlaces
<1>7. HoldersCounted
  <2>1. NULL \notin Nets
    BY SelfplayCommandAssumption DEF SelfplayCommandAssumption
  <2>2. \A n \in Nets : Holders(n) = {} /\ NewHolders(n) = {}
    BY <1>3, <2>1 DEF Holders, NewHolders, NewPlayer
  <2>3. Cardinality({}) = 0
    BY FS_EmptySet
  <2>4. \A n \in Nets : Cardinality(Holders(n)) = 0 /\ Cardinality(NewHolders(n)) = 0
    BY <2>2, <2>3, Zenon
  <2> QED
    BY <1>4, <2>4 DEF HoldersCounted
<1>8. NetsKept
  BY <1>1, <1>2 DEF NetsKept, ModelData, NoNet
<1>9. SelfplayPhases
  BY <1>1, <1>2, <1>3 DEF SelfplayPhases
<1> QED
  BY <1>5, <1>6, <1>7, <1>8, <1>9 DEF SelfplayInv

LEMMA NextSelfplayInv ==
  ASSUME SelfplayInv, [SelfplayNext \/ SelfplaySignal]_<<managerVars, selfplayVars, shouldStop, main>>
  PROVE  SelfplayInv'
<1>1. CASE \E p \in Players : GameLoop(p)
  BY <1>1, GameLoopKeeps
<1>2. CASE ModelLoadLoop
  BY <1>2, LoadNewNetKeeps, LoaderQuiet DEF ModelLoadLoop
<1>3. CASE SelfplayMain
  BY <1>3, DestroyManagerKeeps, MainQuiet DEF SelfplayMain
<1>4. CASE \E n \in Nets : DataWriteLoop(n) /\ UNCHANGED <<selfplayVars, shouldStop, main>>
  BY <1>4, DataWriteLoopKeeps
<1>5. CASE SelfplaySignal \/ UNCHANGED <<managerVars, selfplayVars, shouldStop, main>>
  BY <1>5 DEF SelfplayInv, SelfplayTypeOK, NetsHeld, HoldersCounted, NetsKept, SelfplayPhases, Holders, NewHolders, managerVars, selfplayVars,
              SelfplaySignal, signalHandler
<1> QED
  BY <1>1, <1>2, <1>3, <1>4, <1>5 DEF SelfplayNext

LEMMA SelfplayInvImplies ==
  ASSUME SelfplayInv
  PROVE  HeldNetsStay
<1>1. /\ player \in [Players -> PlayerData] /\ modelDatas \in [Managers -> SUBSET Nets]
      /\ net \in [Nets -> SelfplayNetData] /\ NetsHeld /\ HoldersCounted /\ NetsKept /\ SelfplayPhases
  BY DEF SelfplayInv, SelfplayTypeOK
<1>2. \A n \in Nets : net[n].acquireCount = Cardinality({p \in Players : player[p].nnEval = n})
                                           + Cardinality({p \in Players : player[p].newNNEval = n})
  BY <1>1 DEF HoldersCounted, Holders, NewHolders
<1>3. \A p \in Players : {player[p].nnEval, player[p].newNNEval} \ {NULL}
                            \subseteq {n \in modelDatas[SELFPLAY] : ~net[n].readOnly}
  BY <1>1 DEF NetsHeld, NetsKept, PlayerData
<1>4. LoopAsserts
  <2>1. \A n \in Nets : net[n].loop = "ending" => n \notin modelDatas[SELFPLAY]
    BY <1>1 DEF NetsKept
  <2>2. \A n \in Nets : net[n].loop = "ending" =>
          net[n].acquireCount = 0 /\ n \notin modelDatas[net[n].manager]
    BY <1>1, <2>1, NotKeptNotHeld DEF NetsKept
  <2>3. \A m \in Managers : \A n \in modelDatas[m] : net[n].loop \in {"none", "running"}
    BY <1>1 DEF NetsKept
  <2> QED
    BY <2>2, <2>3 DEF LoopAsserts
<1> QED
  BY <1>1, <1>2, <1>3, <1>4 DEF HeldNetsStay, SelfplayPhases

\* The selfplay command's game threads never lose a net that they hold, whatever the
\* number of threads, nets and games and the size of the data queues: maybeAutoCleanup
\* of selfplaymanager.cpp takes no net between acquireLatest and release, and so no
\* method of the manager throws and no assertion about its nets fails.
THEOREM SelfplayKeepsHeldNets == SelfplaySpec => []HeldNetsStay
<1>1. SelfplayInit => SelfplayInv
  BY InitSelfplayInv
<1>2. SelfplayInv /\ [SelfplayNext \/ SelfplaySignal]_<<managerVars, selfplayVars, shouldStop, main>> => SelfplayInv'
  BY NextSelfplayInv
<1>3. SelfplayInv => HeldNetsStay
  BY SelfplayInvImplies
<1> QED
  BY <1>1, <1>2, <1>3, PTL DEF SelfplaySpec
-----------------------------------------------------------------------------
(* No finished game is lost                                                *)

\* The game threads that finished a game of the net n and have not pushed it yet.
Owed(n) == {p \in Players : player[p].pc \in {"enqueue", "push"} /\ player[p].nnEval = n}

\* The nets that have a data writing thread.
Writing == {n \in Nets : net[n].loop \in {"running", "ending", "deleted"}}

CountsTyped ==
  /\ finished \in [Nets -> Int] /\ written \in [Nets -> Int]
  /\ numDataWriteLoopsActive \in [Managers -> Int]

Conserved ==
  \A n \in Nets : finished[n] = Cardinality(Owed(n))
                    + (IF net[n].deleted THEN 0 ELSE net[n].queued) + written[n]

\* A net is deleted when its thread has come so far, and the thread only when nothing is
\* queued; the manager counts the threads, and waits for the last of them.
Written ==
  /\ \A n \in Nets : net[n].deleted <=> net[n].loop \in {"none", "deleted", "ended"}
  /\ \A n \in Nets : net[n].loop \in {"ending", "deleted", "ended"} => net[n].queued = 0
  /\ IsFiniteSet(Writing) /\ numDataWriteLoopsActive[SELFPLAY] = Cardinality(Writing)
  /\ main \in {"wait", "ended"} => modelDatas[SELFPLAY] = {}
  /\ main = "ended" => Writing = {}

GInv == SelfplayInv /\ CountsTyped /\ Conserved /\ Written

\* What the steps leave alone that have nothing to do with finished games.
PlayersStay ==
  /\ UNCHANGED <<finished, written, numDataWriteLoopsActive>>
  /\ \A n \in Nets : net'[n].deleted = net[n].deleted /\ net'[n].queued = net[n].queued
                     /\ net'[n].loop = net[n].loop
  /\ \A n \in Nets : Owed(n)' = Owed(n)

LEMMA GamesStayed ==
  ASSUME GInv, SelfplayInv', PlayersStay,
         main' \in {"wait", "ended"} => modelDatas'[SELFPLAY] = {},
         main' = "ended" => Writing = {}
  PROVE  GInv'
<1>1. CountsTyped'
  BY DEF GInv, CountsTyped, PlayersStay
<1>2. Conserved'
  BY DEF GInv, Conserved, PlayersStay
<1>3. Writing' = Writing
  BY DEF Writing, PlayersStay
<1>4. Written'
  BY <1>3 DEF GInv, Written, PlayersStay
<1> QED
  BY <1>1, <1>2, <1>4 DEF GInv

LEMMA GamesHome ==
  ASSUME GInv
  PROVE  /\ net \in [Nets -> SelfplayNetData] /\ player \in [Players -> PlayerData]
         /\ SELFPLAY \in Managers /\ modelDatas[SELFPLAY] \subseteq Nets
         /\ NetsHeld /\ NetsKept /\ SelfplayPhases /\ CountsTyped /\ Conserved /\ Written
         /\ \A n \in modelDatas[SELFPLAY] : n \in Nets /\ net[n].loop = "running" /\ ~net[n].readOnly
                                            /\ net[n].deleted = FALSE
<1>1. net \in [Nets -> SelfplayNetData] /\ NetsKept /\ Written
  BY DEF GInv, SelfplayInv, SelfplayTypeOK
<1>2. modelDatas[SELFPLAY] \subseteq Nets /\ SELFPLAY \in Managers
  BY SelfplayIsManager DEF GInv
<1>3. \A n \in modelDatas[SELFPLAY] : n \in Nets /\ net[n].loop = "running" /\ ~net[n].readOnly
  BY <1>1, <1>2 DEF NetsKept
<1>4. \A n \in modelDatas[SELFPLAY] : net[n].deleted = FALSE
  BY <1>1, <1>3 DEF Written, SelfplayNetData
<1> QED
  BY <1>1, <1>2, <1>3, <1>4 DEF GInv, SelfplayInv, SelfplayTypeOK

\* The main thread is still waiting for a game thread that is not over.
LEMMA StillPlaying ==
  ASSUME GInv, NEW p \in Players, player[p].pc # "ended"
  PROVE  main = "playing"
BY DEF GInv, SelfplayInv, SelfplayPhases

LEMMA PlayersStep ==
  ASSUME GInv, SelfplayInv', NEW p \in Players, PlayersStay, main' = main, player[p].pc # "ended"
  PROVE  GInv'
BY StillPlaying, GamesStayed

\* A game thread that takes a net, switches to one, or only looks.
LEMMA GamesOfQuiet ==
  ASSUME GInv, SelfplayInv', NEW p \in Players,
         StartLoop(p) \/ CountGame(p) \/ InterruptGame(p) \/ FindQueue(p)
  PROVE  GInv'
<1>1. player \in [Players -> PlayerData]
  BY GamesHome
<1>2. UNCHANGED <<net, finished, written, numDataWriteLoopsActive, main>>
  BY DEF StartLoop, CountGame, InterruptGame, FindQueue, managerVars
<1>3. /\ player[p].pc # "ended"
      /\ \A q \in Players : /\ player'[q].nnEval = player[q].nnEval
                            /\ player'[q].pc \in {"enqueue", "push"} <=> player[q].pc \in {"enqueue", "push"}
  BY <1>1 DEF StartLoop, CountGame, InterruptGame, FindQueue, Playing, GoPlayer, PlayerData
<1>4. \A n : Owed(n)' = Owed(n)
  BY <1>3 DEF Owed
<1> QED
  BY <1>2, <1>3, <1>4, PlayersStep DEF PlayersStay

LEMMA GamesOfAcquire ==
  ASSUME GInv, SelfplayInv', NEW p \in Players, AcquireLatest(p) \/ CheckForNewNNEval(p)
  PROVE  GInv'
<1>1. net \in [Nets -> SelfplayNetData] /\ player \in [Players -> PlayerData]
  BY GamesHome
<1>2. UNCHANGED <<finished, written, numDataWriteLoopsActive, main>>
  BY DEF AcquireLatest, CheckForNewNNEval
<1>3. \A n \in Nets : net'[n].deleted = net[n].deleted /\ net'[n].queued = net[n].queued
                      /\ net'[n].loop = net[n].loop
  BY <1>1 DEF AcquireLatest, CheckForNewNNEval, acquired, SelfplayNetData
<1>4. /\ player[p].pc \notin {"ended", "enqueue", "push"}
      /\ player'[p].pc \notin {"enqueue", "push"}
      /\ \A q \in Players : q # p => player'[q] = player[q]
  BY <1>1 DEF AcquireLatest, CheckForNewNNEval, Playing, PlayerData, NewPlayer
<1>5. \A n : Owed(n)' = Owed(n)
  BY <1>4 DEF Owed
<1> QED
  BY <1>2, <1>3, <1>4, <1>5, PlayersStep DEF PlayersStay

\* What is released was finished with before.
LEMMA GamesOfRelease ==
  ASSUME GInv, SelfplayInv', NEW p \in Players, SwitchNet(p) \/ ReleaseNet(p)
  PROVE  GInv'
<1>1. /\ net \in [Nets -> SelfplayNetData] /\ player \in [Players -> PlayerData] /\ NetsHeld /\ NetsKept
      /\ modelDatas[SELFPLAY] \subseteq Nets
  BY GamesHome
<1>2. PICK o \in modelDatas[SELFPLAY] : release(SELFPLAY, o)
  BY <1>1 DEF SwitchNet, ReleaseNet, Playing, NetsHeld, BusyPlaces
<1> DEFINE ns == [net EXCEPT ![o].acquireCount = @ - 1]
<1>3. /\ ns \in [Nets -> SelfplayNetData]
      /\ \A n \in Nets : ns[n].deleted = net[n].deleted /\ ns[n].queued = net[n].queued
                         /\ ns[n].loop = net[n].loop
  BY <1>1 DEF SelfplayNetData
<1>4. PICK U \in SUBSET modelDatas[SELFPLAY] : net' = Dropped(ns, U)
  BY <1>2 DEF release, MaybeAutoCleanup, AutoUnused, UnusedIn
<1> HIDE DEF ns
<1>5. \A n \in Nets : net'[n].deleted = net[n].deleted /\ net'[n].queued = net[n].queued
                      /\ net'[n].loop = net[n].loop
  <2> SUFFICES ASSUME NEW n \in Nets
               PROVE  net'[n].deleted = net[n].deleted /\ net'[n].queued = net[n].queued
                      /\ net'[n].loop = net[n].loop
    OBVIOUS
  <2>1. n \in U => net[n].loop = "running"
    BY <1>4 , <1>1 DEF NetsKept
  <2>2. net'[n].loop = ns[n].loop /\ net'[n].queued = ns[n].queued
    BY <1>3, <1>4, DroppedNet
  <2>3. net'[n].deleted = ns[n].deleted
    <3>1. CASE n \in U
      <4>1. ns[n].loop # "none"
        BY <1>3, <2>1, <3>1
      <4> QED
        BY <1>3, <1>4, <4>1, DroppedNet
    <3>2. CASE n \notin U
      BY <1>3, <1>4, <3>2, DroppedNet
    <3> QED
      BY <3>1, <3>2
  <2> QED
    BY <1>3, <2>2, <2>3
<1>6. UNCHANGED <<finished, written, numDataWriteLoopsActive, main>>
  BY <1>2 DEF SwitchNet, ReleaseNet, release
<1>7. /\ player[p].pc \notin {"ended", "enqueue", "push"}
      /\ player'[p].pc \notin {"enqueue", "push"}
      /\ \A q \in Players : q # p => player'[q] = player[q]
  BY <1>1 DEF SwitchNet, ReleaseNet, Playing, PlayerData, NewPlayer
<1>8. \A n : Owed(n)' = Owed(n)
  BY <1>7 DEF Owed
<1> QED
  BY <1>5, <1>6, <1>7, <1>8, PlayersStep DEF PlayersStay

LEMMA OwedCounts ==
  ASSUME NEW n
  PROVE  Owed(n) \in SUBSET Players /\ Cardinality(Owed(n)) \in Nat
BY CountOfPlayers DEF Owed

\* A game that ends is owed to the net it ended with.
LEMMA GamesOfFinish ==
  ASSUME GInv, SelfplayInv', NEW p \in Players, FinishGame(p)
  PROVE  GInv'
<1>1. /\ net \in [Nets -> SelfplayNetData] /\ player \in [Players -> PlayerData] /\ NetsHeld
      /\ modelDatas[SELFPLAY] \subseteq Nets /\ CountsTyped /\ Conserved /\ Written
  BY GamesHome
<1>2. PICK a \in Nets : player[p].nnEval = a
  BY <1>1 DEF FinishGame, Playing, NetsHeld, BusyPlaces
<1>3. /\ UNCHANGED <<net, modelDatas, written, numDataWriteLoopsActive, main>>
      /\ finished' = [finished EXCEPT ![a] = @ + 1]
      /\ player[p].pc = "play" /\ player'[p].pc = "enqueue" /\ player'[p].nnEval = a
      /\ \A q \in Players : q # p => player'[q] = player[q]
  BY <1>1, <1>2 DEF FinishGame, Playing, PlayerData, managerVars
<1>4. CountsTyped'
  BY <1>1, <1>3 DEF CountsTyped
<1>5. Written'
  BY <1>1, <1>3 DEF Written, Writing
<1>6. \A n \in Nets : Cardinality(Owed(n)') = Cardinality(Owed(n)) + (IF n = a THEN 1 ELSE 0)
  <2>1. Owed(a)' = Owed(a) \cup {p} /\ p \notin Owed(a)
    BY <1>2, <1>3 DEF Owed
  <2>2. \A n \in Nets : n # a => Owed(n)' = Owed(n)
    BY <1>2, <1>3 DEF Owed
  <2>3. Cardinality(Owed(a)') = Cardinality(Owed(a)) + 1
    BY <2>1, OwedCounts, CountOfPlayers
  <2>4. \A n \in Nets : Cardinality(Owed(n)) \in Nat
    BY OwedCounts
  <2> QED
    BY <2>2, <2>3, <2>4
<1>7. Conserved'
  <2> SUFFICES ASSUME NEW n \in Nets
               PROVE  finished'[n] = Cardinality(Owed(n)')
                        + (IF net'[n].deleted THEN 0 ELSE net'[n].queued) + written'[n]
    BY DEF Conserved
  <2>1. finished[n] \in Int /\ written[n] \in Int /\ Cardinality(Owed(n)) \in Nat /\ net[n].queued \in Int
    BY <1>1, OwedCounts DEF CountsTyped, SelfplayNetData
  <2>2. finished'[n] = finished[n] + (IF n = a THEN 1 ELSE 0)
    BY <1>1, <1>3, <2>1 DEF CountsTyped
  <2>3. finished[n] = Cardinality(Owed(n))
                        + (IF net[n].deleted THEN 0 ELSE net[n].queued) + written[n]
    BY <1>1 DEF Conserved
  <2> QED
    BY <1>3, <1>6, <2>1, <2>2, <2>3
<1> QED
  BY <1>4, <1>5, <1>7 DEF GInv

\* It goes to the queue of that net, which is open, whatever is loaded and cleaned up
\* between finding it and pushing.
LEMMA GamesOfPush ==
  ASSUME GInv, SelfplayInv', NEW p \in Players, PushData(p)
  PROVE  GInv'
<1>1. /\ net \in [Nets -> SelfplayNetData] /\ player \in [Players -> PlayerData] /\ NetsHeld
      /\ modelDatas[SELFPLAY] \subseteq Nets /\ CountsTyped /\ Conserved /\ Written
      /\ \A n \in modelDatas[SELFPLAY] : ~net[n].readOnly /\ net[n].deleted = FALSE
                                         /\ net[n].loop = "running"
  BY GamesHome
<1>2. PICK a \in Nets : player[p].nnEval = a /\ a \in modelDatas[SELFPLAY]
  BY <1>1 DEF PushData, Playing, NetsHeld, BusyPlaces
<1>3. /\ UNCHANGED <<modelDatas, written, finished, numDataWriteLoopsActive, main>>
      /\ net' = [net EXCEPT ![a].queued = @ + 1]
      /\ player[p].pc = "push" /\ player'[p].pc = "release"
      /\ \A q \in Players : q # p => player'[q] = player[q]
  BY <1>1, <1>2 DEF PushData, Playing, GoPlayer, PlayerData
<1>4. \A n \in Nets : /\ net'[n].deleted = net[n].deleted /\ net'[n].loop = net[n].loop
                      /\ net'[n].queued = net[n].queued + (IF n = a THEN 1 ELSE 0)
  BY <1>1, <1>3 DEF SelfplayNetData
<1>5. CountsTyped'
  BY <1>1, <1>3 DEF CountsTyped
<1>6. Written'
  <2>1. Writing' = Writing
    BY <1>4 DEF Writing
  <2>2. \A n \in Nets : net'[n].loop \in {"ending", "deleted", "ended"} => net'[n].queued = 0
    <3>1. \A n \in Nets : net[n].loop \in {"ending", "deleted", "ended"} => n # a
      BY <1>1, <1>2
    <3> QED
      BY <1>1, <1>4, <3>1 DEF Written
  <2> QED
    BY <1>1, <1>3, <1>4, <2>1, <2>2 DEF Written
<1>7. \A n \in Nets : Cardinality(Owed(n)') = Cardinality(Owed(n)) - (IF n = a THEN 1 ELSE 0)
  <2>1. Owed(a)' = Owed(a) \ {p} /\ p \in Owed(a)
    BY <1>2, <1>3 DEF Owed
  <2>2. \A n \in Nets : n # a => Owed(n)' = Owed(n)
    BY <1>2, <1>3 DEF Owed
  <2>3. Cardinality(Owed(a)') = Cardinality(Owed(a)) - 1
    BY <2>1, OwedCounts, CountOfPlayers
  <2>4. \A n \in Nets : Cardinality(Owed(n)) \in Nat
    BY OwedCounts
  <2> QED
    BY <2>2, <2>3, <2>4
<1>8. Conserved'
  <2> SUFFICES ASSUME NEW n \in Nets
               PROVE  finished'[n] = Cardinality(Owed(n)')
                        + (IF net'[n].deleted THEN 0 ELSE net'[n].queued) + written'[n]
    BY DEF Conserved
  <2>1. finished[n] \in Int /\ written[n] \in Int /\ Cardinality(Owed(n)) \in Nat /\ net[n].queued \in Int
    BY <1>1, OwedCounts DEF CountsTyped, SelfplayNetData
  <2>2. finished[n] = Cardinality(Owed(n))
                        + (IF net[n].deleted THEN 0 ELSE net[n].queued) + written[n]
    BY <1>1 DEF Conserved
  <2>3. n = a => net[n].deleted = FALSE
    BY <1>1, <1>2
  <2> QED
    BY <1>3, <1>4, <1>7, <2>1, <2>2, <2>3
<1> QED
  BY <1>5, <1>6, <1>8 DEF GInv

LEMMA GamesOfGameLoop ==
  ASSUME GInv, SelfplayInv', NEW p \in Players, GameLoop(p)
  PROVE  GInv'
BY GamesOfQuiet, GamesOfAcquire, GamesOfRelease, GamesOfFinish, GamesOfPush DEF GameLoop

\* A net that is loaded has a thread of its own from the start.
LEMMA GamesOfLoad ==
  ASSUME GInv, SelfplayInv', LoadNewNet
  PROVE  GInv'
<1>1. PICK n \in Nets : loadModelAndStartDataWriting(SELFPLAY, n, n)
  BY DEF LoadNewNet
<1> DEFINE ns == [net EXCEPT ![n] = ModelData(n, SELFPLAY, "running")]
<1>2. /\ net \in [Nets -> SelfplayNetData] /\ SELFPLAY \in Managers /\ CountsTyped /\ Conserved /\ Written
      /\ NetsKept /\ SelfplayPhases
  BY GamesHome
<1>3. /\ n \in FreeNets /\ UNCHANGED <<player, finished, written, main>> /\ loader = "load"
      /\ numDataWriteLoopsActive' = [numDataWriteLoopsActive EXCEPT ![SELFPLAY] = @ + 1]
  BY <1>1 DEF LoadNewNet, loadModelAndStartDataWriting, IsNextNet
<1>4. net[n].deleted /\ net[n].loop = "none" /\ n \notin modelDatas[SELFPLAY]
  BY <1>2, <1>3 DEF FreeNets, NetsKept
<1>5. /\ ns \in [Nets -> SelfplayNetData]
      /\ ns[n].deleted = FALSE /\ ns[n].queued = 0 /\ ns[n].loop = "running"
      /\ \A i \in Nets : i # n => ns[i] = net[i]
  BY <1>2 DEF SelfplayNetData, ModelData
<1>6. PICK U \in SUBSET (modelDatas[SELFPLAY] \cup {n}) : net' = Dropped(ns, U)
  BY <1>1 DEF loadModelAndStartDataWriting, MaybeAutoCleanup, AutoUnused, UnusedIn
<1> HIDE DEF ns
<1>7. \A i \in Nets : net'[i].deleted = ns[i].deleted /\ net'[i].queued = ns[i].queued
                      /\ net'[i].loop = ns[i].loop
  <2> SUFFICES ASSUME NEW i \in Nets
               PROVE  net'[i].deleted = ns[i].deleted /\ net'[i].queued = ns[i].queued
                      /\ net'[i].loop = ns[i].loop
    OBVIOUS
  <2>1. i \in U => ns[i].loop = "running"
    BY <1>2, <1>5, <1>6 DEF NetsKept
  <2>2. net'[i].loop = ns[i].loop /\ net'[i].queued = ns[i].queued
    BY <1>5, <1>6, DroppedNet
  <2>3. CASE i \in U
    <3>1. ns[i].loop # "none"
      BY <2>1, <2>3
    <3>2. net'[i].deleted = ns[i].deleted
      BY <1>5, <1>6, <3>1, DroppedNet
    <3> QED
      BY <2>2, <3>2
  <2>4. CASE i \notin U
    BY <1>5, <1>6, <2>2, <2>4, DroppedNet
  <2> QED
    BY <2>3, <2>4
<1>8. main = "playing" \/ main = "joinLoader"
  BY <1>2, <1>3 DEF SelfplayPhases, GInv, SelfplayInv, SelfplayTypeOK
<1>9. CountsTyped'
  BY <1>2, <1>3 DEF CountsTyped
<1>10. Written'
  <2>1. Writing' = Writing \cup {n} /\ n \notin Writing
    BY <1>4, <1>5, <1>7 DEF Writing
  <2>2. IsFiniteSet(Writing') /\ Cardinality(Writing') = Cardinality(Writing) + 1
    BY <1>2, <2>1, FS_AddElement DEF Written
  <2>3. numDataWriteLoopsActive'[SELFPLAY] = Cardinality(Writing')
    BY <1>2, <1>3, <2>2 DEF Written, CountsTyped
  <2>4. \A i \in Nets : net'[i].deleted <=> net'[i].loop \in {"none", "deleted", "ended"}
    BY <1>2, <1>5, <1>7 DEF Written
  <2>5. \A i \in Nets : net'[i].loop \in {"ending", "deleted", "ended"} => net'[i].queued = 0
    BY <1>2, <1>5, <1>7 DEF Written
  <2> QED
    BY <1>3, <1>8, <2>2, <2>3, <2>4, <2>5 DEF Written
<1>11. Conserved'
  <2>1. \A i : Owed(i)' = Owed(i)
    BY <1>3 DEF Owed
  <2> SUFFICES ASSUME NEW i \in Nets
               PROVE  finished'[i] = Cardinality(Owed(i)')
                        + (IF net'[i].deleted THEN 0 ELSE net'[i].queued) + written'[i]
    BY DEF Conserved
  <2>2. finished[i] = Cardinality(Owed(i))
                        + (IF net[i].deleted THEN 0 ELSE net[i].queued) + written[i]
    BY <1>2 DEF Conserved
  <2>3. CASE i = n
    BY <1>3, <1>4, <1>5, <1>7, <2>1, <2>2, <2>3
  <2>4. CASE i # n
    BY <1>3, <1>5, <1>7, <2>1, <2>2, <2>4
  <2> QED
    BY <2>3, <2>4
<1> QED
  BY <1>9, <1>10, <1>11 DEF GInv

\* The data writing thread takes a game from the queue to the disk, and ends when the
\* queue is closed and empty.
LEMMA GamesOfWriter ==
  ASSUME GInv, SelfplayInv', NEW n \in Nets, DataWriteLoop(n), UNCHANGED <<selfplayVars, shouldStop, main>>
  PROVE  GInv'
<1>1. /\ net \in [Nets -> SelfplayNetData] /\ SELFPLAY \in Managers /\ CountsTyped /\ Conserved /\ Written
      /\ NetsKept
  BY GamesHome
<1>2. UNCHANGED <<modelDatas, player, finished, main>>
  BY DEF DataWriteLoop, WriteGame, EndWriting, DeleteModelData, CheckIn, selfplayVars
<1>3. \A i : Owed(i)' = Owed(i)
  BY <1>2 DEF Owed
<1>4. /\ net' \in [Nets -> SelfplayNetData]
      /\ \A i \in Nets : i # n => net'[i] = net[i]
  BY <1>1 DEF DataWriteLoop, WriteGame, EndWriting, DeleteModelData, CheckIn, SelfplayNetData
<1>5. n \in Writing
  BY DEF Writing, DataWriteLoop, WriteGame, EndWriting, DeleteModelData, CheckIn
<1>6. main # "ended"
  BY <1>1, <1>5 DEF Written
<1>7. \A i \in Nets : i # n => (i \in Writing' <=> i \in Writing)
  BY <1>4 DEF Writing
<1>8. ASSUME CountsTyped', Writing' = Writing, UNCHANGED numDataWriteLoopsActive,
             net'[n].deleted <=> net'[n].loop \in {"none", "deleted", "ended"},
             net'[n].loop \in {"ending", "deleted", "ended"} => net'[n].queued = 0,
             \A i \in Nets : i # n => written'[i] = written[i],
             (IF net'[n].deleted THEN 0 ELSE net'[n].queued) + written'[n]
               = (IF net[n].deleted THEN 0 ELSE net[n].queued) + written[n]
      PROVE  GInv'
  <2>1. Written'
    BY <1>1, <1>2, <1>4, <1>6, <1>8 DEF Written
  <2>2. Conserved'
    <3> SUFFICES ASSUME NEW i \in Nets
                 PROVE  finished'[i] = Cardinality(Owed(i)')
                          + (IF net'[i].deleted THEN 0 ELSE net'[i].queued) + written'[i]
      BY DEF Conserved
    <3>1. finished[i] = Cardinality(Owed(i))
                          + (IF net[i].deleted THEN 0 ELSE net[i].queued) + written[i]
      BY <1>1 DEF Conserved
    <3>2. /\ Cardinality(Owed(i)) \in Nat /\ net[i].queued \in Int /\ net'[i].queued \in Int
          /\ written[i] \in Int /\ written'[i] \in Int
      BY <1>1, <1>4, <1>8, OwedCounts DEF CountsTyped, SelfplayNetData
    <3>3. CASE i = n
      BY <1>2, <1>3, <1>8, <3>1, <3>2, <3>3
    <3>4. CASE i # n
      BY <1>2, <1>3, <1>4, <1>8, <3>1, <3>4
    <3> QED
      BY <3>3, <3>4
  <2> QED
    BY <1>8, <2>1, <2>2 DEF GInv
<1>9. CASE WriteGame(n)
  <2>1. /\ net[n].loop = "running" /\ net'[n].loop = "running"
        /\ net'[n].queued = net[n].queued - 1 /\ net'[n].deleted = net[n].deleted
        /\ written' = [written EXCEPT ![n] = @ + 1] /\ UNCHANGED numDataWriteLoopsActive
    BY <1>1, <1>9 DEF WriteGame, SelfplayNetData
  <2>2. net[n].deleted = FALSE
    BY <1>1, <2>1 DEF Written, SelfplayNetData
  <2>3. Writing' = Writing
    BY <1>7, <2>1 DEF Writing
  <2>4. CountsTyped'
    BY <1>1, <1>2, <2>1 DEF CountsTyped
  <2>5. written'[n] = written[n] + 1 /\ \A i \in Nets : i # n => written'[i] = written[i]
    BY <1>1, <2>1 DEF CountsTyped
  <2>6. net[n].queued \in Int /\ written[n] \in Int
    BY <1>1 DEF CountsTyped, SelfplayNetData
  <2>7. (IF net'[n].deleted THEN 0 ELSE net'[n].queued) + written'[n]
          = (IF net[n].deleted THEN 0 ELSE net[n].queued) + written[n]
    BY <2>1, <2>2, <2>5, <2>6
  <2> QED
    BY <1>8, <2>1, <2>2, <2>3, <2>4, <2>5, <2>7
<1>10. CASE EndWriting(n)
  <2>1. /\ net[n].loop = "running" /\ net'[n].loop = "ending" /\ net[n].queued = 0
        /\ net'[n].queued = net[n].queued /\ net'[n].deleted = net[n].deleted
        /\ UNCHANGED <<written, numDataWriteLoopsActive>>
    BY <1>1, <1>10 DEF EndWriting, NoMoreGames, SelfplayNetData
  <2>2. net[n].deleted = FALSE
    BY <1>1, <2>1 DEF Written, SelfplayNetData
  <2>3. Writing' = Writing
    BY <1>7, <2>1 DEF Writing
  <2>4. CountsTyped'
    BY <1>1, <1>2, <2>1 DEF CountsTyped
  <2> QED
    BY <1>8, <2>1, <2>2, <2>3, <2>4
<1>11. CASE DeleteModelData(n)
  <2>1. /\ net[n].loop = "ending" /\ net'[n].loop = "deleted"
        /\ net'[n].queued = net[n].queued /\ net'[n].deleted = TRUE
        /\ UNCHANGED <<written, numDataWriteLoopsActive>>
    BY <1>1, <1>11 DEF DeleteModelData, SelfplayNetData
  <2>2. net[n].queued = 0
    BY <1>1, <2>1 DEF Written
  <2>3. Writing' = Writing
    BY <1>7, <2>1 DEF Writing
  <2>4. CountsTyped'
    BY <1>1, <1>2, <2>1 DEF CountsTyped
  <2> QED
    BY <1>8, <2>1, <2>2, <2>3, <2>4
<1>12. CASE CheckIn(n)
  <2>1. /\ net[n].loop = "deleted" /\ net'[n].loop = "ended" /\ UNCHANGED written
        /\ net'[n].queued = net[n].queued /\ net'[n].deleted = net[n].deleted
        /\ numDataWriteLoopsActive' = [numDataWriteLoopsActive EXCEPT ![SELFPLAY] = @ - 1]
    BY <1>1, <1>12 DEF CheckIn, SelfplayNetData, NetsKept
  <2>2. Writing' = Writing \ {n}
    BY <1>7, <2>1 DEF Writing
  <2>3. IsFiniteSet(Writing') /\ Cardinality(Writing') = Cardinality(Writing) - 1
    BY <1>1, <1>5, <2>2, FS_RemoveElement DEF Written
  <2>4. CountsTyped'
    BY <1>1, <1>2, <2>1 DEF CountsTyped
  <2>5. numDataWriteLoopsActive'[SELFPLAY] = Cardinality(Writing')
    BY <1>1, <2>1, <2>3 DEF Written, CountsTyped
  <2>6. Written'
    BY <1>1, <1>2, <1>4, <1>6, <2>1, <2>3, <2>5 DEF Written
  <2>7. Conserved'
    BY <1>1, <1>2, <1>3, <1>4, <2>1 DEF Conserved
  <2> QED
    BY <2>4, <2>6, <2>7 DEF GInv
<1> QED
  BY <1>9, <1>10, <1>11, <1>12 DEF DataWriteLoop

\* The end of the command: the manager is destroyed when no game thread is left, and the
\* destructor waits for the data writing threads.
LEMMA GamesOfMain ==
  ASSUME GInv, SelfplayInv', SelfplayMain
  PROVE  GInv'
<1>1. /\ net \in [Nets -> SelfplayNetData] /\ SELFPLAY \in Managers /\ CountsTyped /\ Conserved /\ Written
      /\ NetsKept /\ modelDatas[SELFPLAY] \subseteq Nets
  BY GamesHome
<1>2. modelDatas \in [Managers -> SUBSET Nets]
  BY DEF GInv, SelfplayInv, SelfplayTypeOK
<1>3. UNCHANGED <<player, finished, written, numDataWriteLoopsActive>>
  BY DEF SelfplayMain, JoinPlayers, JoinLoader, DestroyManager, AwaitWriters, Destroy, managerVars,
         selfplayVars
<1>4. \A i : Owed(i)' = Owed(i)
  BY <1>3 DEF Owed
<1>5. CASE JoinPlayers \/ JoinLoader
  <2>1. UNCHANGED <<net, modelDatas>> /\ main' \notin {"wait", "ended"}
    BY <1>5 DEF JoinPlayers, JoinLoader, managerVars
  <2>2. PlayersStay
    BY <1>3, <1>4, <2>1 DEF PlayersStay
  <2> QED
    BY <2>1, <2>2, GamesStayed
<1>6. CASE DestroyManager
  <2>1. /\ modelDatas' = [modelDatas EXCEPT ![SELFPLAY] = {}] /\ main' = "wait"
        /\ net' = Dropped(net, modelDatas[SELFPLAY])
    BY <1>6 DEF DestroyManager, Destroy
  <2>2. ASSUME NEW n \in Nets
        PROVE  net'[n].deleted = net[n].deleted /\ net'[n].queued = net[n].queued
               /\ net'[n].loop = net[n].loop
    <3>1. net'[n].loop = net[n].loop /\ net'[n].queued = net[n].queued
      BY <1>1, <2>1, DroppedNet
    <3>2. CASE n \in modelDatas[SELFPLAY]
      <4>1. net[n].loop # "none"
        BY <1>1, <3>2 DEF NetsKept
      <4> QED
        BY <1>1, <2>1, <3>1, <4>1, DroppedNet
    <3>3. CASE n \notin modelDatas[SELFPLAY]
      BY <1>1, <2>1, <3>1, <3>3, DroppedNet
    <3> QED
      BY <3>2, <3>3
  <2>3. PlayersStay
    BY <1>3, <1>4, <2>2 DEF PlayersStay
  <2>4. modelDatas'[SELFPLAY] = {}
    BY <1>1, <1>2, <2>1
  <2> QED
    BY <2>1, <2>3, <2>4, GamesStayed
<1>7. CASE AwaitWriters
  <2>1. /\ UNCHANGED <<net, modelDatas>> /\ modelDatas[SELFPLAY] = {}
        /\ numDataWriteLoopsActive[SELFPLAY] = 0
    BY <1>7 DEF AwaitWriters, Destroyed, managerVars
  <2>2. Writing = {}
    BY <1>1, <2>1, FS_EmptySet DEF Written
  <2>3. PlayersStay
    BY <1>3, <1>4, <2>1 DEF PlayersStay
  <2> QED
    BY <2>1, <2>2, <2>3, GamesStayed
<1> QED
  BY <1>5, <1>6, <1>7 DEF SelfplayMain

\* Steps that change nothing but the model loading thread and shouldStop.
LEMMA GamesOfOthers ==
  ASSUME GInv, SelfplayInv',
         \/ PollModels \/ NoNewNet \/ SleepAndPoll \/ SelfplaySignal
         \/ UNCHANGED <<managerVars, selfplayVars, shouldStop, main>>
  PROVE  GInv'
<1>1. UNCHANGED <<net, modelDatas, player, finished, written, numDataWriteLoopsActive, main>>
  BY DEF PollModels, NoNewNet, SleepAndPoll, SelfplaySignal, signalHandler, managerVars, selfplayVars
<1>2. PlayersStay
  BY <1>1 DEF PlayersStay, Owed
<1> QED
  BY <1>1, <1>2, GamesStayed DEF GInv, Written

LEMMA InitGInv ==
  ASSUME SelfplayInit
  PROVE  GInv
<1>1. SelfplayInv
  BY InitSelfplayInv
<1>2. SELFPLAY \in Managers
  BY SelfplayCommandAssumption DEF SelfplayCommandAssumption
<1>3. PICK first \in Nets :
        /\ net = [n \in Nets |-> IF n = first THEN ModelData(n, SELFPLAY, "running") ELSE NoNet]
  BY DEF SelfplayInit
<1>4. /\ numDataWriteLoopsActive = [m \in Managers |-> IF m = SELFPLAY THEN 1 ELSE 0]
      /\ written = [n \in Nets |-> 0] /\ finished = [n \in Nets |-> 0]
      /\ player = [p \in Players |-> NewPlayer] /\ main = "playing"
  BY DEF SelfplayInit
<1>5. CountsTyped
  BY <1>4 DEF CountsTyped
<1>6. \A n \in Nets : /\ n = first => net[n].loop = "running" /\ net[n].deleted = FALSE
                      /\ n # first => net[n].loop = "none" /\ net[n].deleted = TRUE
                      /\ net[n].queued = 0
  <2>1. NoNet.queued = 0 /\ NoNet.loop = "none" /\ NoNet.deleted = TRUE
    BY DEF NoNet, ModelData
  <2> QED
    BY <1>3, <2>1 DEF ModelData
<1>7. Conserved
  <2>1. \A n : Owed(n) = {}
    BY <1>4 DEF Owed, NewPlayer
  <2>2. Cardinality({}) = 0
    BY FS_EmptySet
  <2>3. \A n : Cardinality(Owed(n)) = 0
    BY <2>1, <2>2, Zenon
  <2> QED
    BY <1>4, <1>6, <2>3 DEF Conserved
<1>8. Written
  <2>1. Writing = {first}
    BY <1>6 DEF Writing
  <2>2. IsFiniteSet(Writing) /\ Cardinality(Writing) = 1
    BY <2>1, FS_Singleton
  <2> QED
    BY <1>2, <1>4, <1>6, <2>2 DEF Written
<1> QED
  BY <1>1, <1>5, <1>7, <1>8 DEF GInv

LEMMA NextGInv ==
  ASSUME GInv, [SelfplayNext \/ SelfplaySignal]_<<managerVars, selfplayVars, shouldStop, main>>
  PROVE  GInv'
<1>1. SelfplayInv'
  BY NextSelfplayInv DEF GInv
<1>2. CASE \E p \in Players : GameLoop(p)
  BY <1>1, <1>2, GamesOfGameLoop
<1>3. CASE ModelLoadLoop
  BY <1>1, <1>3, GamesOfLoad, GamesOfOthers DEF ModelLoadLoop
<1>4. CASE SelfplayMain
  BY <1>1, <1>4, GamesOfMain
<1>5. CASE \E n \in Nets : DataWriteLoop(n) /\ UNCHANGED <<selfplayVars, shouldStop, main>>
  BY <1>1, <1>5, GamesOfWriter
<1>6. CASE SelfplaySignal \/ UNCHANGED <<managerVars, selfplayVars, shouldStop, main>>
  BY <1>1, <1>6, GamesOfOthers
<1> QED
  BY <1>2, <1>3, <1>4, <1>5, <1>6 DEF SelfplayNext

LEMMA GInvImplies ==
  ASSUME GInv
  PROVE  GamesKept
<1>1. \A n \in Nets : finished[n] =
        Cardinality({p \in Players : player[p].pc \in {"enqueue", "push"} /\ player[p].nnEval = n})
        + (IF net[n].deleted THEN 0 ELSE net[n].queued) + written[n]
  BY DEF GInv, Conserved, Owed
<1>2. ASSUME main = "ended" PROVE finished = written
  <2>1. /\ net \in [Nets -> SelfplayNetData] /\ CountsTyped /\ Conserved /\ Written /\ SelfplayPhases
    BY GamesHome
  <2>2. \A p \in Players : player[p].pc = "ended"
    BY <1>2, <2>1 DEF SelfplayPhases
  <2>3. \A n : Owed(n) = {}
    BY <2>2 DEF Owed
  <2>4. Cardinality({}) = 0
    BY FS_EmptySet
  <2>5. \A n : Cardinality(Owed(n)) = 0
    BY <2>3, <2>4, Zenon
  <2>6. Writing = {}
    BY <1>2, <2>1 DEF Written
  <2>7. \A n \in Nets : net[n].deleted
    BY <2>1, <2>6 DEF Written, Writing, SelfplayNetData
  <2>8. \A n \in Nets : finished[n] = written[n]
    BY <2>1, <2>5, <2>7 DEF Conserved, CountsTyped
  <2> QED
    BY <2>1, <2>8 DEF CountsTyped
<1> QED
  BY <1>1, <1>2 DEF GamesKept

\* Every finished game is in the hands of the thread that played it, in the queue of the
\* net it was played with, or written as one of that net, and when the command has ended
\* it is written: enqueueDataToWrite and runDataWriteLoopImpl of selfplaymanager.cpp lose
\* none, for any number of threads, nets and games and any size of the queues.
THEOREM SelfplayKeepsGames == SelfplaySpec => []GamesKept
<1>1. SelfplayInit => GInv
  BY InitGInv
<1>2. GInv /\ [SelfplayNext \/ SelfplaySignal]_<<managerVars, selfplayVars, shouldStop, main>> => GInv'
  BY NextGInv
<1>3. GInv => GamesKept
  BY GInvImplies
<1> QED
  BY <1>1, <1>2, <1>3, PTL DEF SelfplaySpec

-----------------------------------------------------------------------------
(* The gatekeeper command: the inductive invariant.  It accounts for every *)
(* game of the match that was started: it is being played, or waits to be  *)
(* tallied, or is tallied, or was stopped.                                 *)

BusyThreads == {t \in GameThreads : gameThread[t].pc \in {"play", "push"}}
Popped == IF netAndStuff.data = NoData THEN 0 ELSE 1
Untallied == Cardinality(BusyThreads) + Len(netAndStuff.finishedGameQueue) + Popped

\* No game is counted twice, and none is lost unless games are being stopped.
GamesCounted ==
  /\ netAndStuff.numGamesStarted <= numGamesPerGating
  /\ netAndStuff.numGamesTallied + Untallied <= netAndStuff.numGamesStarted
  /\ ~StopConditions => netAndStuff.numGamesTallied + Untallied = netAndStuff.numGamesStarted

\* A thread has a game to push only when it is about to push it.
DataPushed == \A t \in GameThreads : Gaming(t, "push") <=> gameThread[t].gameData # NoData

\* The game threads run only during the match.
ThreadsJoined == main # "match" => \A t \in GameThreads : Gaming(t, "ended")

\* A thread gives up when there are no games left, or it is to stop.
GamesUsedUp ==
  main \in {"match", "drain", "judge"} /\ ~StopConditions =>
    \A t \in GameThreads : Gaming(t, "ended") => netAndStuff.numGamesStarted = numGamesPerGating

Left == GamePoints * (numGamesPerGating - netAndStuff.numGamesTallied)

\* The tally stops the match only when it is decided, and decided it remains.
TerminatedWhenDecided ==
  netAndStuff.terminated =>
    Decided(netAndStuff.numBaselineWinPoints, netAndStuff.numCandidateWinPoints, Left)

\* The main thread goes on when the queue is closed and what was in it is tallied.
DrainedAndWritten ==
  /\ netAndStuff.isDraining => main \in {"drain", "judge"}
  /\ main = "judge" => netAndStuff.dataIsWritten
  /\ netAndStuff.dataIsWritten =>
       netAndStuff.isDraining /\ netAndStuff.finishedGameQueue = <<>> /\ netAndStuff.data = NoData

GamesAccounted ==
  /\ GamesCounted
  /\ DataPushed
  /\ ThreadsJoined
  /\ GamesUsedUp
  /\ TerminatedWhenDecided
  /\ DrainedAndWritten

GatekeeperInv == GatekeeperTypeOK /\ GamesAccounted

-----------------------------------------------------------------------------
(* Types                                                                   *)

\* Every match that is created is a match.
LEMMA NewMatch ==
  ASSUME NEW c \in Models \cup {NoCandidate}
  PROVE  NetAndStuff(c) \in Matches
<1>1. <<>> \in Seq(Points)
  OBVIOUS
<1>2. NoData \in Points \cup {NoData}
  OBVIOUS
<1>3. QED
  BY <1>1, <1>2 DEF NetAndStuff, Matches

\* The command at its start, and its types.
GatekeeperStart == GatekeeperInit /\ shouldStop = FALSE /\ main = "poll"

LEMMA GatekeeperTypeInit == GatekeeperStart => GatekeeperTypeOK
<1> SUFFICES ASSUME GatekeeperStart PROVE GatekeeperTypeOK
  OBVIOUS
<1>1. netAndStuff \in Matches
  BY NewMatch DEF GatekeeperStart, GatekeeperInit, NULLMatch
<1>2. directory \in [Models -> {"training", "test", "accepted", "rejected"}]
  BY DEF GatekeeperStart, GatekeeperInit
<1>3. gameThread \in [GameThreads -> [pc : {"next", "pair", "play", "push", "ended"},
                                     gameData : Points \cup {NoData}]]
  BY DEF GatekeeperStart, GatekeeperInit, NoGames
<1>4. QED
  BY <1>1, <1>2, <1>3 DEF GatekeeperStart, GatekeeperInit, GatekeeperTypeOK

\* A thread goes to a place of its loop.
LEMMA GoType ==
  ASSUME GatekeeperTypeOK, NEW t \in GameThreads,
         NEW pc \in {"next", "pair", "play", "push", "ended"}, NEW data \in Points \cup {NoData},
         Go(t, pc, data)
  PROVE  /\ gameThread' \in [GameThreads -> [pc : {"next", "pair", "play", "push", "ended"},
                                            gameData : Points \cup {NoData}]]
         /\ gameThread'[t].pc = pc /\ gameThread'[t].gameData = data
         /\ \A u \in GameThreads \ {t} : gameThread'[u] = gameThread[u]
  BY DEF GatekeeperTypeOK, Go

LEMMA GatekeeperTypeNext ==
  GatekeeperTypeOK /\ DataPushed /\ [GatekeeperNext]_gatekeeperState => GatekeeperTypeOK'
<1> SUFFICES ASSUME GatekeeperTypeOK, DataPushed, [GatekeeperNext]_gatekeeperState
             PROVE  GatekeeperTypeOK'
  OBVIOUS
<1> DEFINE ThreadsOK == gameThread \in [GameThreads ->
             [pc : {"next", "pair", "play", "push", "ended"}, gameData : Points \cup {NoData}]]
           DirectoryOK == directory \in [Models -> {"training", "test", "accepted", "rejected"}]
<1>1. ASSUME NEW t \in GameThreads, GateGameLoop(t) PROVE GatekeeperTypeOK'
  <2>1. CASE NextGame(t)
    <3>1. ThreadsOK'
      BY <2>1, GoType DEF NextGame
    <3>2. QED
      BY <2>1, <3>1 DEF NextGame, GatekeeperTypeOK
  <2>2. CASE getMatchup(t)
    <3>1. ThreadsOK'
      BY <2>2, GoType DEF getMatchup
    <3>2. netAndStuff' \in Matches
      <4>1. CASE GamesLeft
        <5>1. netAndStuff.numGamesStarted + 1 \in Nat
          BY DEF GatekeeperTypeOK, Matches
        <5>2. QED
          BY <2>2, <4>1, <5>1 DEF getMatchup, GatekeeperTypeOK, Matches
      <4>2. CASE ~GamesLeft
        BY <2>2, <4>2 DEF getMatchup, GatekeeperTypeOK
      <4>3. QED
        BY <4>1, <4>2
    <3>3. QED
      BY <2>2, <3>1, <3>2 DEF getMatchup, GatekeeperTypeOK
  <2>3. CASE runGame(t)
    <3>1. ThreadsOK'
      BY <2>3, GoType DEF runGame, Points
    <3>2. QED
      BY <2>3, <3>1 DEF runGame, GatekeeperTypeOK
  <2>4. CASE PushGameData(t)
    <3>1. ThreadsOK'
      BY <2>4, GoType DEF PushGameData
    <3>2. gameThread[t].gameData \in Points
      BY <2>4 DEF PushGameData, DataPushed, GatekeeperTypeOK
    <3>3. netAndStuff' \in Matches
      <4>1. netAndStuff.finishedGameQueue \in Seq(Points)
        BY DEF GatekeeperTypeOK, Matches
      <4>2. Append(netAndStuff.finishedGameQueue, gameThread[t].gameData) \in Seq(Points)
        BY <3>2, <4>1
      <4>3. CASE netAndStuff.isDraining
        BY <2>4, <4>3 DEF PushGameData, GatekeeperTypeOK
      <4>4. CASE ~netAndStuff.isDraining
        BY <2>4, <4>2, <4>4 DEF PushGameData, GatekeeperTypeOK, Matches
      <4>5. QED
        BY <4>3, <4>4
    <3>4. QED
      BY <2>4, <3>1, <3>3 DEF PushGameData, GatekeeperTypeOK
  <2>5. QED
    BY <1>1, <2>1, <2>2, <2>3, <2>4 DEF GateGameLoop
<1>2. ASSUME GateWriteLoop PROVE GatekeeperTypeOK'
  <2>1. CASE PopGameData
    <3>1. netAndStuff' \in Matches
      <4>1. netAndStuff.finishedGameQueue \in Seq(Points) /\ netAndStuff.finishedGameQueue # <<>>
        BY <2>1 DEF PopGameData, GatekeeperTypeOK, Matches
      <4>2. /\ Head(netAndStuff.finishedGameQueue) \in Points
            /\ Tail(netAndStuff.finishedGameQueue) \in Seq(Points)
        BY <4>1
      <4>3. QED
        BY <2>1, <4>2 DEF PopGameData, GatekeeperTypeOK, Matches
    <3>2. QED
      BY <2>1, <3>1 DEF PopGameData, GatekeeperTypeOK
  <2>2. CASE TallyGame
    <3>1. /\ netAndStuff.numBaselineWinPoints + GamePoints - netAndStuff.data \in Nat
          /\ netAndStuff.numCandidateWinPoints + netAndStuff.data \in Nat
          /\ netAndStuff.numGamesTallied + 1 \in Nat
      BY <2>2 DEF TallyGame, GatekeeperTypeOK, Matches, Points, GamePoints
    <3>2. netAndStuff' \in Matches
      BY <2>2, <3>1 DEF TallyGame, GatekeeperTypeOK, Matches
    <3>3. QED
      BY <2>2, <3>2 DEF TallyGame, GatekeeperTypeOK
  <2>3. CASE EndTally
    <3>1. netAndStuff' \in Matches
      BY <2>3 DEF EndTally, GatekeeperTypeOK, Matches
    <3>2. QED
      BY <2>3, <3>1 DEF EndTally, GatekeeperTypeOK
  <2>4. QED
    BY <1>2, <2>1, <2>2, <2>3 DEF GateWriteLoop
<1>3. ASSUME GatekeeperMain PROVE GatekeeperTypeOK'
  <2>1. CASE PollTestModels
    BY <2>1 DEF PollTestModels, gatekeeperVars, GatekeeperTypeOK
  <2>2. CASE NoNetsToTest
    BY <2>2 DEF NoNetsToTest, NothingLoaded, gatekeeperVars, GatekeeperTypeOK
  <2>3. CASE AutoReject
    BY <2>3 DEF AutoReject, NothingLoaded, GatekeeperTypeOK
  <2>4. CASE loadLatestNeuralNet
    <3>1. netAndStuff' \in Matches
      BY <2>4, NewMatch DEF loadLatestNeuralNet, In
    <3>2. QED
      BY <2>4, <3>1 DEF loadLatestNeuralNet, GatekeeperTypeOK
  <2>5. CASE StartMatch
    <3>1. netAndStuff' \in Matches
      BY <2>5, NewMatch DEF StartMatch, NULLMatch, GatekeeperTypeOK
    <3>2. ThreadsOK'
      BY <2>5 DEF StartMatch, GatekeeperTypeOK
    <3>3. QED
      BY <2>5, <3>1, <3>2 DEF StartMatch, GatekeeperTypeOK
  <2>6. CASE JoinGameThreads
    <3>1. netAndStuff' \in Matches
      BY <2>6 DEF JoinGameThreads, GatekeeperTypeOK, Matches
    <3>2. QED
      BY <2>6, <3>1 DEF JoinGameThreads, GatekeeperTypeOK
  <2>7. CASE AwaitDataIsWritten
    BY <2>7 DEF AwaitDataIsWritten, gatekeeperVars, GatekeeperTypeOK
  <2>8. CASE JudgeCandidate
    <3>1. netAndStuff' \in Matches
      BY <2>8, NewMatch DEF JudgeCandidate, NULLMatch
    <3>2. DirectoryOK'
      BY <2>8 DEF JudgeCandidate, Verdict, GatekeeperTypeOK
    <3>3. QED
      BY <2>8, <3>1, <3>2 DEF JudgeCandidate, GatekeeperTypeOK
  <2>9. QED
    BY <1>3, <2>1, <2>2, <2>3, <2>4, <2>5, <2>6, <2>7, <2>8 DEF GatekeeperMain
<1>4. ASSUME ExportModel PROVE GatekeeperTypeOK'
  BY <1>4 DEF ExportModel, GatekeeperTypeOK
<1>5. ASSUME signalHandler, UNCHANGED gatekeeperVars PROVE GatekeeperTypeOK'
  BY <1>5 DEF signalHandler, gatekeeperVars, GatekeeperTypeOK
<1>6. ASSUME UNCHANGED gatekeeperState PROVE GatekeeperTypeOK'
  BY <1>6 DEF gatekeeperState, GatekeeperTypeOK
<1>7. QED
  BY <1>1, <1>2, <1>3, <1>4, <1>5, <1>6 DEF GatekeeperNext, GatekeeperThreads

-----------------------------------------------------------------------------
(* Counting                                                                *)

\* The threads in a game are finitely many.
LEMMA BusyFinite == IsFiniteSet(BusyThreads) /\ Cardinality(BusyThreads) \in Nat
<1>1. IsFiniteSet(BusyThreads)
  BY GatekeeperAssumption, FS_Subset DEF BusyThreads
<1>2. QED
  BY <1>1, FS_CardinalityType

\* A thread that goes on in its loop may begin or end a game.
LEMMA BusyGo ==
  ASSUME GatekeeperTypeOK, NEW t \in GameThreads,
         NEW pc \in {"next", "pair", "play", "push", "ended"}, NEW data \in Points \cup {NoData},
         Go(t, pc, data)
  PROVE  /\ (t \in BusyThreads <=> pc \in {"play", "push"}) => Cardinality(BusyThreads') = Cardinality(BusyThreads)
         /\ t \notin BusyThreads /\ pc \in {"play", "push"} => Cardinality(BusyThreads') = Cardinality(BusyThreads) + 1
         /\ t \in BusyThreads /\ pc \notin {"play", "push"} => Cardinality(BusyThreads') = Cardinality(BusyThreads) - 1
<1>1. \A u \in GameThreads : u # t => (u \in BusyThreads' <=> u \in BusyThreads)
  BY GoType DEF BusyThreads
<1>2. t \in BusyThreads' <=> pc \in {"play", "push"}
  BY GoType DEF BusyThreads
<1>3. BusyThreads \subseteq GameThreads /\ BusyThreads' \subseteq GameThreads
  BY DEF BusyThreads
<1>4. ASSUME t \in BusyThreads <=> pc \in {"play", "push"} PROVE Cardinality(BusyThreads') = Cardinality(BusyThreads)
  <2>1. BusyThreads' = BusyThreads
    BY <1>1, <1>2, <1>3, <1>4
  <2>2. QED
    BY <2>1
<1>5. ASSUME t \notin BusyThreads, pc \in {"play", "push"}
      PROVE  Cardinality(BusyThreads') = Cardinality(BusyThreads) + 1
  <2>1. BusyThreads' = BusyThreads \cup {t}
    BY <1>1, <1>2, <1>3, <1>5
  <2>2. QED
    BY <1>5, <2>1, BusyFinite, FS_AddElement
<1>6. ASSUME t \in BusyThreads, pc \notin {"play", "push"}
      PROVE  Cardinality(BusyThreads') = Cardinality(BusyThreads) - 1
  <2>1. BusyThreads' = BusyThreads \ {t}
    BY <1>1, <1>2, <1>3, <1>6
  <2>2. QED
    BY <1>6, <2>1, BusyFinite, FS_RemoveElement
<1>7. QED
  BY <1>4, <1>5, <1>6

\* While the threads are where they are, the count of their games is the same.
LEMMA BusyKept == UNCHANGED gameThread => Cardinality(BusyThreads') = Cardinality(BusyThreads)
  BY DEF BusyThreads

\* Outside of the match no thread is in a game.
LEMMA NoneBusy ==
  ASSUME \A t \in GameThreads : gameThread[t].pc \notin {"play", "push"}
  PROVE  Cardinality(BusyThreads) = 0
<1>1. BusyThreads = {}
  BY DEF BusyThreads
<1>2. QED
  BY <1>1, FS_EmptySet

-----------------------------------------------------------------------------
(* The invariant holds initially and is preserved                          *)

\* Without a match there is nothing to count.
LEMMA NothingToCount ==
  ASSUME NEW c, netAndStuff = NetAndStuff(c), \A t \in GameThreads : Gaming(t, "ended")
  PROVE  /\ GamesCounted
         /\ netAndStuff.finishedGameQueue = <<>> /\ netAndStuff.data = NoData
         /\ ~netAndStuff.terminated /\ ~netAndStuff.isDraining /\ ~netAndStuff.dataIsWritten
<1>1. Cardinality(BusyThreads) = 0
  BY NoneBusy DEF Gaming
<1>2. Len(netAndStuff.finishedGameQueue) = 0 /\ Popped = 0
  BY DEF NetAndStuff, Popped
<1>3. QED
  BY <1>1, <1>2, GatekeeperAssumption DEF NetAndStuff, GamesCounted, Untallied

LEMMA InvInit == GatekeeperStart => GamesAccounted
<1> SUFFICES ASSUME GatekeeperStart PROVE GamesAccounted
  OBVIOUS
<1>1. \A t \in GameThreads : Gaming(t, "ended") /\ gameThread[t].gameData = NoData
  BY DEF GatekeeperStart, GatekeeperInit, NoGames, Gaming
<1>2. netAndStuff = NetAndStuff(NoCandidate)
  BY DEF GatekeeperStart, GatekeeperInit, NULLMatch
<1>3. DataPushed
  BY <1>1 DEF DataPushed, Gaming
<1>4. QED
  BY <1>1, <1>2, <1>3, NothingToCount
     DEF GatekeeperStart, GatekeeperInit, GamesAccounted, ThreadsJoined, GamesUsedUp, TerminatedWhenDecided,
         DrainedAndWritten

\* The fields of the match are numbers, sequences and flags.
LEMMA Fields ==
  ASSUME GatekeeperTypeOK
  PROVE  /\ netAndStuff.numGamesStarted \in Nat /\ netAndStuff.numGamesTallied \in Nat
         /\ netAndStuff.numBaselineWinPoints \in Nat /\ netAndStuff.numCandidateWinPoints \in Nat
         /\ netAndStuff.finishedGameQueue \in Seq(Points)
         /\ Len(netAndStuff.finishedGameQueue) \in Nat
         /\ netAndStuff.data \in Points \cup {NoData}
         /\ Popped \in {0, 1}
         /\ netAndStuff.terminated \in BOOLEAN /\ netAndStuff.isDraining \in BOOLEAN
         /\ netAndStuff.dataIsWritten \in BOOLEAN /\ shouldStop \in BOOLEAN
<1>1. netAndStuff \in Matches
  BY DEF GatekeeperTypeOK
<1>2. Popped \in {0, 1}
  BY DEF Popped
<1>3. QED
  BY <1>1, <1>2 DEF GatekeeperTypeOK, Matches

\* A step of a game thread.
LEMMA GateGameLoopInv == \A t \in GameThreads : GatekeeperInv /\ GateGameLoop(t) => GamesAccounted'
<1> SUFFICES ASSUME NEW t \in GameThreads, GatekeeperInv, GateGameLoop(t) PROVE GamesAccounted'
  OBVIOUS
<1> USE DEF GatekeeperInv
<1>1. main = "match" /\ main' = main /\ shouldStop' = shouldStop
  <2>1. ~Gaming(t, "ended")
    BY DEF GateGameLoop, NextGame, getMatchup, runGame, PushGameData, Gaming
  <2>2. QED
    BY <2>1 DEF GamesAccounted, ThreadsJoined, GateGameLoop, NextGame, getMatchup, runGame, PushGameData
<1>2. ~netAndStuff.isDraining /\ ~netAndStuff.dataIsWritten
  BY <1>1 DEF GamesAccounted, DrainedAndWritten
<1>3. CASE NextGame(t)
  <2>1. netAndStuff' = netAndStuff /\ StopConditions' = StopConditions
    BY <1>3 DEF NextGame, StopConditions
  <2>2. PICK pc \in {"ended", "pair"} : Go(t, pc, NoData) /\ (pc = "ended" => StopConditions)
    BY <1>3 DEF NextGame
  <2>3. t \notin BusyThreads
    BY <1>3 DEF NextGame, Gaming, BusyThreads
  <2>4. Cardinality(BusyThreads') = Cardinality(BusyThreads)
    BY <2>2, <2>3, BusyGo
  <2>5. GamesCounted'
    BY <2>1, <2>4 DEF GamesAccounted, GamesCounted, Untallied, Popped
  <2>6. DataPushed'
    BY <2>2, GoType DEF GamesAccounted, DataPushed, Gaming
  <2>7. GamesUsedUp'
    BY <1>1, <2>1, <2>2, GoType DEF GamesAccounted, GamesUsedUp, Gaming
  <2>8. QED
    BY <1>1, <1>2, <2>1, <2>5, <2>6, <2>7
       DEF GamesAccounted, ThreadsJoined, TerminatedWhenDecided, Left, DrainedAndWritten
<1>4. CASE getMatchup(t)
  <2>1. t \notin BusyThreads
    BY <1>4 DEF getMatchup, Gaming, BusyThreads
  <2>2. CASE GamesLeft
    <3>1. netAndStuff' = [netAndStuff EXCEPT !.numGamesStarted = @ + 1] /\ Go(t, "play", NoData)
      BY <1>4, <2>2 DEF getMatchup
    <3>2. /\ netAndStuff'.numGamesStarted = netAndStuff.numGamesStarted + 1
          /\ netAndStuff'.numGamesTallied = netAndStuff.numGamesTallied
          /\ netAndStuff'.finishedGameQueue = netAndStuff.finishedGameQueue
          /\ netAndStuff'.data = netAndStuff.data
          /\ netAndStuff'.numBaselineWinPoints = netAndStuff.numBaselineWinPoints
          /\ netAndStuff'.numCandidateWinPoints = netAndStuff.numCandidateWinPoints
          /\ netAndStuff'.terminated = netAndStuff.terminated
          /\ netAndStuff'.isDraining = netAndStuff.isDraining
          /\ netAndStuff'.dataIsWritten = netAndStuff.dataIsWritten
      BY <3>1 DEF GatekeeperTypeOK, Matches
    <3>3. Cardinality(BusyThreads') = Cardinality(BusyThreads) + 1
      BY <2>1, <3>1, BusyGo
    <3>4. GamesCounted'
      <4>1. Popped' = Popped /\ StopConditions' = StopConditions
        BY <1>1, <3>2 DEF Popped, StopConditions
      <4>2. Untallied' = Untallied + 1 /\ Untallied \in Nat
        BY <3>2, <3>3, <4>1, BusyFinite, Fields DEF Untallied
      <4>3. netAndStuff.numGamesStarted < numGamesPerGating
        BY <2>2 DEF GamesLeft
      <4>4. QED
        BY <3>2, <4>1, <4>2, <4>3, Fields, GatekeeperAssumption DEF GamesAccounted, GamesCounted
    <3>5. DataPushed'
      BY <3>1, GoType DEF GamesAccounted, DataPushed, Gaming
    <3>6. GamesUsedUp'
      <4>1. ASSUME ~StopConditions', NEW u \in GameThreads, Gaming(u, "ended")' PROVE FALSE
        <5>1. u # t /\ Gaming(u, "ended") /\ ~StopConditions
          BY <1>1, <3>1, <3>2, <4>1, GoType DEF Gaming, StopConditions
        <5>2. netAndStuff.numGamesStarted = numGamesPerGating
          BY <1>1, <5>1 DEF GamesAccounted, GamesUsedUp
        <5>3. QED
          BY <2>2, <5>2, GatekeeperAssumption DEF GamesLeft
      <4>2. QED
        BY <4>1 DEF GamesUsedUp
    <3>7. QED
      BY <1>1, <1>2, <3>2, <3>4, <3>5, <3>6
         DEF GamesAccounted, ThreadsJoined, TerminatedWhenDecided, Left, DrainedAndWritten
  <2>3. CASE ~GamesLeft
    <3>1. netAndStuff' = netAndStuff /\ Go(t, "ended", NoData) /\ StopConditions' = StopConditions
      BY <1>4, <2>3 DEF getMatchup, StopConditions
    <3>2. Cardinality(BusyThreads') = Cardinality(BusyThreads)
      BY <2>1, <3>1, BusyGo
    <3>3. GamesCounted'
      BY <3>1, <3>2 DEF GamesAccounted, GamesCounted, Untallied, Popped
    <3>4. DataPushed'
      BY <3>1, GoType DEF GamesAccounted, DataPushed, Gaming
    <3>5. netAndStuff.numGamesStarted = numGamesPerGating
      BY <2>3, Fields, GatekeeperAssumption DEF GamesLeft, GamesAccounted, GamesCounted
    <3>6. QED
      BY <1>1, <1>2, <3>1, <3>3, <3>4, <3>5
         DEF GamesAccounted, ThreadsJoined, GamesUsedUp, TerminatedWhenDecided, Left, DrainedAndWritten
  <2>4. QED
    BY <2>2, <2>3
<1>5. CASE runGame(t)
  <2>1. netAndStuff' = netAndStuff /\ StopConditions' = StopConditions
    BY <1>5 DEF runGame, StopConditions
  <2>2. t \in BusyThreads
    BY <1>5 DEF runGame, Gaming, BusyThreads
  <2>3. CASE StopConditions
    <3>1. Go(t, "ended", NoData)
      BY <1>5, <2>3 DEF runGame
    <3>2. Cardinality(BusyThreads') = Cardinality(BusyThreads) - 1
      BY <2>2, <3>1, BusyGo
    <3>3. GamesCounted'
      <4>1. /\ Popped' = Popped
            /\ Len(netAndStuff'.finishedGameQueue) = Len(netAndStuff.finishedGameQueue)
        BY <2>1 DEF Popped
      <4>2. /\ Cardinality(BusyThreads) \in Nat /\ Popped \in Nat
            /\ Len(netAndStuff.finishedGameQueue) \in Nat
        BY BusyFinite, Fields
      <4>3. Untallied \in Nat
        BY <4>2 DEF Untallied
      <4>4. Untallied' = Cardinality(BusyThreads) - 1 + Len(netAndStuff.finishedGameQueue) + Popped
        BY <3>2, <4>1 DEF Untallied
      <4>5. Untallied' = Untallied - 1
        BY <4>2, <4>4 DEF Untallied
      <4>6. netAndStuff.numGamesTallied + Untallied <= netAndStuff.numGamesStarted
        BY DEF GamesAccounted, GamesCounted
      <4>7. netAndStuff.numGamesTallied + Untallied' <= netAndStuff.numGamesStarted
        <5>1. netAndStuff.numGamesTallied \in Nat /\ netAndStuff.numGamesStarted \in Nat
          BY Fields
        <5>2. QED
          BY <4>3, <4>5, <4>6, <5>1
      <4>8. QED
        BY <2>1, <2>3, <4>7 DEF GamesAccounted, GamesCounted
    <3>4. DataPushed'
      BY <3>1, GoType DEF GamesAccounted, DataPushed, Gaming
    <3>5. QED
      BY <1>1, <1>2, <2>1, <2>3, <3>3, <3>4
         DEF GamesAccounted, ThreadsJoined, GamesUsedUp, TerminatedWhenDecided, Left, DrainedAndWritten
  <2>4. CASE ~StopConditions
    <3>1. PICK points \in Points : Go(t, "push", points)
      BY <1>5, <2>4 DEF runGame, Points
    <3>2. Cardinality(BusyThreads') = Cardinality(BusyThreads)
      BY <2>2, <3>1, BusyGo
    <3>3. GamesCounted'
      BY <2>1, <3>2 DEF GamesAccounted, GamesCounted, Untallied, Popped
    <3>4. points # NoData
      BY DEF Points, GamePoints, NoData
    <3>5. DataPushed'
      BY <3>1, <3>4, GoType DEF GamesAccounted, DataPushed, Gaming
    <3>6. GamesUsedUp'
      BY <1>1, <2>1, <3>1, GoType DEF GamesAccounted, GamesUsedUp, Gaming
    <3>7. QED
      BY <1>1, <1>2, <2>1, <3>3, <3>5, <3>6
         DEF GamesAccounted, ThreadsJoined, TerminatedWhenDecided, Left, DrainedAndWritten
  <2>5. QED
    BY <2>3, <2>4
<1>6. CASE PushGameData(t)
  <2>1. /\ netAndStuff' = [netAndStuff EXCEPT
             !.finishedGameQueue = Append(netAndStuff.finishedGameQueue, gameThread[t].gameData)]
        /\ Go(t, "next", NoData)
    BY <1>2, <1>6 DEF PushGameData
  <2>2. gameThread[t].gameData \in Points
    BY <1>6 DEF PushGameData, GamesAccounted, DataPushed, GatekeeperTypeOK
  <2>3. Len(netAndStuff'.finishedGameQueue) = Len(netAndStuff.finishedGameQueue) + 1
    <3>1. netAndStuff'.finishedGameQueue
            = Append(netAndStuff.finishedGameQueue, gameThread[t].gameData)
      BY <2>1 DEF GatekeeperTypeOK, Matches
    <3>2. QED
      BY <2>2, <3>1, Fields
  <2>4. /\ netAndStuff'.numGamesStarted = netAndStuff.numGamesStarted
        /\ netAndStuff'.numGamesTallied = netAndStuff.numGamesTallied
        /\ netAndStuff'.data = netAndStuff.data
        /\ netAndStuff'.numBaselineWinPoints = netAndStuff.numBaselineWinPoints
        /\ netAndStuff'.numCandidateWinPoints = netAndStuff.numCandidateWinPoints
        /\ netAndStuff'.terminated = netAndStuff.terminated
        /\ netAndStuff'.isDraining = netAndStuff.isDraining
        /\ netAndStuff'.dataIsWritten = netAndStuff.dataIsWritten
    BY <2>1 DEF GatekeeperTypeOK, Matches
  <2>5. t \in BusyThreads
    BY <1>6 DEF PushGameData, Gaming, BusyThreads
  <2>6. Cardinality(BusyThreads') = Cardinality(BusyThreads) - 1
    BY <2>1, <2>5, BusyGo
  <2>7. GamesCounted'
    BY <1>1, <2>3, <2>4, <2>6, BusyFinite, Fields
       DEF GamesAccounted, GamesCounted, Untallied, Popped, StopConditions
  <2>8. DataPushed'
    BY <2>1, GoType DEF GamesAccounted, DataPushed, Gaming
  <2>9. GamesUsedUp'
    BY <1>1, <2>1, <2>4, GoType DEF GamesAccounted, GamesUsedUp, Gaming, StopConditions
  <2>10. QED
    BY <1>1, <1>2, <2>4, <2>7, <2>8, <2>9
       DEF GamesAccounted, ThreadsJoined, TerminatedWhenDecided, Left, DrainedAndWritten
<1>7. QED
  BY <1>3, <1>4, <1>5, <1>6 DEF GateGameLoop

\* When a game of a match that is decided is tallied, the match is still decided.
LEMMA DecidedRemains ==
  ASSUME NEW baseline \in Nat, NEW candidate \in Nat, NEW data \in Points, NEW games \in Int,
         Decided(baseline, candidate, GamePoints * games)
  PROVE  Decided(baseline + GamePoints - data, candidate + data, GamePoints * (games - 1))
  BY DEF Decided, Points, GamePoints

\* A step of the data writing thread.
LEMMA GateWriteLoopInv == GatekeeperInv /\ GateWriteLoop => GamesAccounted'
<1> SUFFICES ASSUME GatekeeperInv, GateWriteLoop PROVE GamesAccounted'
  OBVIOUS
<1> USE DEF GatekeeperInv
<1>1. /\ gameThread' = gameThread /\ shouldStop' = shouldStop /\ main' = main
      /\ main \in {"match", "drain"}
  BY DEF GateWriteLoop, PopGameData, TallyGame, EndTally, InMatch
<1>2. Cardinality(BusyThreads') = Cardinality(BusyThreads) /\ Cardinality(BusyThreads) \in Nat
  BY <1>1, BusyKept, BusyFinite
<1>3. DataPushed' /\ ThreadsJoined'
  BY <1>1 DEF GamesAccounted, DataPushed, ThreadsJoined, Gaming
<1>4. CASE PopGameData
  <2>1. /\ netAndStuff.data = NoData /\ netAndStuff.finishedGameQueue # <<>>
        /\ netAndStuff'.data = Head(netAndStuff.finishedGameQueue)
        /\ netAndStuff'.finishedGameQueue = Tail(netAndStuff.finishedGameQueue)
        /\ netAndStuff'.numGamesStarted = netAndStuff.numGamesStarted
        /\ netAndStuff'.numGamesTallied = netAndStuff.numGamesTallied
        /\ netAndStuff'.numBaselineWinPoints = netAndStuff.numBaselineWinPoints
        /\ netAndStuff'.numCandidateWinPoints = netAndStuff.numCandidateWinPoints
        /\ netAndStuff'.terminated = netAndStuff.terminated
        /\ netAndStuff'.isDraining = netAndStuff.isDraining
        /\ netAndStuff'.dataIsWritten = netAndStuff.dataIsWritten
    BY <1>4 DEF PopGameData, GatekeeperTypeOK, Matches
  <2>2. /\ Len(netAndStuff'.finishedGameQueue) = Len(netAndStuff.finishedGameQueue) - 1
        /\ netAndStuff'.data \in Points
    BY <2>1, Fields
  <2>3. Popped = 0 /\ Popped' = 1
    BY <2>1, <2>2 DEF Popped, Points, GamePoints, NoData
  <2>4. Untallied' = Untallied
    BY <1>2, <2>2, <2>3, Fields DEF Untallied
  <2>5. GamesCounted'
    BY <1>1, <2>1, <2>4 DEF GamesAccounted, GamesCounted, StopConditions
  <2>6. GamesUsedUp'
    BY <1>1, <2>1 DEF GamesAccounted, GamesUsedUp, StopConditions, Gaming
  <2>7. ~netAndStuff.dataIsWritten
    BY <2>1 DEF GamesAccounted, DrainedAndWritten
  <2>8. QED
    BY <1>1, <1>3, <2>1, <2>5, <2>6, <2>7 DEF GamesAccounted, TerminatedWhenDecided, Left, DrainedAndWritten
<1>5. CASE TallyGame
  <2> DEFINE tallied == netAndStuff.numGamesTallied + 1
             baseline == netAndStuff.numBaselineWinPoints + GamePoints - netAndStuff.data
             candidate == netAndStuff.numCandidateWinPoints + netAndStuff.data
             remaining == numGamesPerGating - tallied
  <2>1. /\ netAndStuff.data # NoData
        /\ netAndStuff'.data = NoData
        /\ netAndStuff'.finishedGameQueue = netAndStuff.finishedGameQueue
        /\ netAndStuff'.numGamesStarted = netAndStuff.numGamesStarted
        /\ netAndStuff'.numGamesTallied = tallied
        /\ netAndStuff'.numBaselineWinPoints = baseline
        /\ netAndStuff'.numCandidateWinPoints = candidate
        /\ netAndStuff'.isDraining = netAndStuff.isDraining
        /\ netAndStuff'.dataIsWritten = netAndStuff.dataIsWritten
    BY <1>5 DEF TallyGame, GatekeeperTypeOK, Matches
  <2>2. netAndStuff'.terminated = (netAndStuff.terminated
          \/ (remaining > 0 /\ Decided(baseline, candidate, GamePoints * remaining)))
    BY <1>5 DEF TallyGame, GatekeeperTypeOK, Matches
  <2>3. Popped = 1 /\ Popped' = 0
    BY <2>1 DEF Popped
  <2>4. Untallied' = Untallied - 1 /\ Untallied \in Nat
    BY <1>2, <2>1, <2>3, Fields DEF Untallied
  <2>6. StopConditions => StopConditions'
    BY <1>1, <2>2 DEF StopConditions
  <2>7. GamesCounted'
    <3>1. netAndStuff'.numGamesTallied + Untallied' = netAndStuff.numGamesTallied + Untallied
      BY <2>1, <2>4, Fields
    <3>2. QED
      BY <2>1, <2>6, <3>1 DEF GamesAccounted, GamesCounted
  <2>8. GamesUsedUp'
    BY <1>1, <2>1, <2>6 DEF GamesAccounted, GamesUsedUp, Gaming
  <2>9. TerminatedWhenDecided'
    <3>1. netAndStuff.data \in Points
      BY <2>1, Fields
    <3>2. Left' = GamePoints * remaining
      BY <2>1 DEF Left
    <3>3. ASSUME netAndStuff.terminated PROVE Decided(baseline, candidate, GamePoints * remaining)
      <4>1. Decided(netAndStuff.numBaselineWinPoints, netAndStuff.numCandidateWinPoints, Left)
        BY <3>3 DEF GamesAccounted, TerminatedWhenDecided
      <4>2. numGamesPerGating - netAndStuff.numGamesTallied \in Int
        BY Fields, GatekeeperAssumption
      <4>3. numGamesPerGating - netAndStuff.numGamesTallied - 1 = remaining
        BY Fields, GatekeeperAssumption
      <4>4. QED
        BY <3>1, <4>1, <4>2, <4>3, DecidedRemains, Fields DEF Left
    <3>4. netAndStuff'.terminated => Decided(baseline, candidate, GamePoints * remaining)
      BY <2>2, <3>3
    <3>5. QED
      BY <2>1, <3>2, <3>4 DEF TerminatedWhenDecided
  <2>10. DrainedAndWritten'
    BY <1>1, <2>1 DEF GamesAccounted, DrainedAndWritten
  <2>11. QED
    BY <1>3, <2>7, <2>8, <2>9, <2>10 DEF GamesAccounted
<1>6. CASE EndTally
  <2>1. /\ netAndStuff.data = NoData /\ netAndStuff.finishedGameQueue = <<>>
        /\ netAndStuff.isDraining
        /\ netAndStuff'.data = netAndStuff.data
        /\ netAndStuff'.finishedGameQueue = netAndStuff.finishedGameQueue
        /\ netAndStuff'.numGamesStarted = netAndStuff.numGamesStarted
        /\ netAndStuff'.numGamesTallied = netAndStuff.numGamesTallied
        /\ netAndStuff'.numBaselineWinPoints = netAndStuff.numBaselineWinPoints
        /\ netAndStuff'.numCandidateWinPoints = netAndStuff.numCandidateWinPoints
        /\ netAndStuff'.terminated = netAndStuff.terminated
        /\ netAndStuff'.isDraining = netAndStuff.isDraining
        /\ netAndStuff'.dataIsWritten
    BY <1>6 DEF EndTally, GatekeeperTypeOK, Matches
  <2>2. Untallied' = Untallied /\ StopConditions' = StopConditions
    BY <1>1, <1>2, <2>1 DEF Untallied, Popped, StopConditions
  <2>3. GamesCounted'
    BY <2>1, <2>2 DEF GamesAccounted, GamesCounted
  <2>4. GamesUsedUp'
    BY <1>1, <2>1, <2>2 DEF GamesAccounted, GamesUsedUp, Gaming
  <2>5. QED
    BY <1>1, <1>3, <2>1, <2>3, <2>4 DEF GamesAccounted, TerminatedWhenDecided, Left, DrainedAndWritten
<1>7. QED
  BY <1>4, <1>5, <1>6 DEF GateWriteLoop

\* A match is as it was if its data and threads are.
LEMMA MatchKept ==
  ASSUME GamesAccounted, UNCHANGED <<netAndStuff, gameThread>>, shouldStop => shouldStop',
         main # "match" => main' # "match",
         main' \in {"match", "drain", "judge"} => main \in {"match", "drain", "judge"},
         netAndStuff.isDraining => main' \in {"drain", "judge"},
         main' = "judge" => netAndStuff.dataIsWritten,
         main' # "match" => main # "match" \/ \A t \in GameThreads : Gaming(t, "ended")
  PROVE  GamesAccounted'
<1>1. Untallied' = Untallied
  BY DEF Untallied, Popped, BusyThreads
<1>2. GamesCounted'
  BY <1>1 DEF GamesAccounted, GamesCounted, StopConditions
<1>3. DataPushed' /\ ThreadsJoined'
  BY DEF GamesAccounted, DataPushed, ThreadsJoined, Gaming
<1>4. GamesUsedUp'
  BY DEF GamesAccounted, GamesUsedUp, StopConditions, Gaming
<1>5. QED
  BY <1>2, <1>3, <1>4 DEF GamesAccounted, TerminatedWhenDecided, Left, DrainedAndWritten

\* A match that begins or ends leaves nothing to count.
LEMMA MatchReset ==
  ASSUME NEW c, NetAndStuff(c) = netAndStuff', gameThread' = gameThread, GamesAccounted,
         main # "match", main' \notin {"match", "drain", "judge"}
  PROVE  GamesAccounted'
<1>1. (\A t \in GameThreads : Gaming(t, "ended"))'
  BY DEF GamesAccounted, ThreadsJoined, Gaming
<1>2. DataPushed' /\ ThreadsJoined'
  BY <1>1 DEF GamesAccounted, DataPushed, ThreadsJoined, Gaming
<1>3. /\ GamesCounted'
      /\ netAndStuff'.finishedGameQueue = <<>> /\ netAndStuff'.data = NoData
      /\ ~netAndStuff'.terminated /\ ~netAndStuff'.isDraining /\ ~netAndStuff'.dataIsWritten
  <2>1. Cardinality(BusyThreads') = 0
    <3>1. \A t \in GameThreads : gameThread'[t].pc = "ended"
      BY <1>1 DEF Gaming
    <3>2. BusyThreads' = {}
      BY <3>1 DEF BusyThreads
    <3>3. QED
      BY <3>2, FS_EmptySet
  <2>2. Len(netAndStuff'.finishedGameQueue) = 0 /\ Popped' = 0
    BY DEF NetAndStuff, Popped
  <2>3. QED
    BY <2>1, <2>2, GatekeeperAssumption DEF NetAndStuff, GamesCounted, Untallied
<1>4. QED
  BY <1>2, <1>3 DEF GamesAccounted, GamesUsedUp, TerminatedWhenDecided, DrainedAndWritten

\* A step of the main thread.
LEMMA GatekeeperMainInv == GatekeeperInv /\ GatekeeperMain => GamesAccounted'
<1> SUFFICES ASSUME GatekeeperInv, GatekeeperMain PROVE GamesAccounted'
  OBVIOUS
<1> USE DEF GatekeeperInv
<1>1. CASE PollTestModels
  <2>1. ~netAndStuff.isDraining
    BY <1>1 DEF PollTestModels, GamesAccounted, DrainedAndWritten
  <2>2. QED
    BY <1>1, <2>1, MatchKept DEF PollTestModels, gatekeeperVars
<1>2. CASE NoNetsToTest
  <2>1. ~netAndStuff.isDraining
    BY <1>2 DEF NoNetsToTest, NothingLoaded, GamesAccounted, DrainedAndWritten
  <2>2. shouldStop => shouldStop'
    BY <1>2, Fields DEF NoNetsToTest, NothingLoaded
  <2>3. QED
    BY <1>2, <2>1, <2>2, MatchKept DEF NoNetsToTest, NothingLoaded, gatekeeperVars
<1>3. CASE AutoReject
  <2>1. ~netAndStuff.isDraining
    BY <1>3 DEF AutoReject, NothingLoaded, GamesAccounted, DrainedAndWritten
  <2>2. shouldStop => shouldStop'
    BY <1>3, Fields DEF AutoReject, NothingLoaded
  <2>3. QED
    BY <1>3, <2>1, <2>2, MatchKept DEF AutoReject, NothingLoaded
<1>4. CASE loadLatestNeuralNet
  BY <1>4, MatchReset DEF loadLatestNeuralNet
<1>5. CASE StartMatch
  <2>1. CASE shouldStop
    BY <1>5, <2>1, MatchReset DEF StartMatch, NULLMatch
  <2>2. CASE ~shouldStop
    <3>1. /\ main = "loaded" /\ main' = "match"
          /\ gameThread' = [t \in GameThreads |-> [pc |-> "next", gameData |-> NoData]]
          /\ netAndStuff' = netAndStuff /\ shouldStop' = shouldStop
      BY <1>5, <2>2 DEF StartMatch
    <3>2. \A t \in GameThreads : gameThread[t].pc = "ended" /\ gameThread'[t].pc = "next"
      BY <3>1 DEF GamesAccounted, ThreadsJoined, Gaming
    <3>3. BusyThreads = {} /\ BusyThreads' = {}
      BY <3>2 DEF BusyThreads
    <3>4. Untallied' = Untallied /\ StopConditions' = StopConditions
      BY <3>1, <3>3 DEF Untallied, Popped, StopConditions
    <3>5. GamesCounted'
      BY <3>1, <3>4 DEF GamesAccounted, GamesCounted
    <3>6. DataPushed' /\ ThreadsJoined' /\ GamesUsedUp'
      BY <3>1 DEF DataPushed, ThreadsJoined, GamesUsedUp, Gaming
    <3>7. QED
      BY <3>1, <3>5, <3>6 DEF GamesAccounted, TerminatedWhenDecided, Left, DrainedAndWritten
  <2>3. QED
    BY <2>1, <2>2
<1>6. CASE JoinGameThreads
  <2>1. /\ netAndStuff'.data = netAndStuff.data
        /\ netAndStuff'.finishedGameQueue = netAndStuff.finishedGameQueue
        /\ netAndStuff'.numGamesStarted = netAndStuff.numGamesStarted
        /\ netAndStuff'.numGamesTallied = netAndStuff.numGamesTallied
        /\ netAndStuff'.numBaselineWinPoints = netAndStuff.numBaselineWinPoints
        /\ netAndStuff'.numCandidateWinPoints = netAndStuff.numCandidateWinPoints
        /\ netAndStuff'.terminated = netAndStuff.terminated
        /\ netAndStuff'.isDraining
        /\ netAndStuff'.dataIsWritten = netAndStuff.dataIsWritten
    BY <1>6 DEF JoinGameThreads, GatekeeperTypeOK, Matches
  <2>2. /\ main = "match" /\ main' = "drain" /\ shouldStop' = shouldStop
        /\ gameThread' = gameThread /\ \A t \in GameThreads : Gaming(t, "ended")
    BY <1>6 DEF JoinGameThreads
  <2>3. Untallied' = Untallied /\ StopConditions' = StopConditions
    BY <2>1, <2>2 DEF Untallied, Popped, BusyThreads, StopConditions
  <2>4. GamesCounted'
    BY <2>1, <2>3 DEF GamesAccounted, GamesCounted
  <2>5. DataPushed' /\ ThreadsJoined'
    BY <2>2 DEF GamesAccounted, DataPushed, ThreadsJoined, Gaming
  <2>6. GamesUsedUp'
    BY <2>1, <2>2, <2>3 DEF GamesAccounted, GamesUsedUp, Gaming
  <2>7. QED
    BY <2>1, <2>2, <2>4, <2>5, <2>6 DEF GamesAccounted, TerminatedWhenDecided, Left, DrainedAndWritten
<1>7. CASE AwaitDataIsWritten
  BY <1>7, MatchKept DEF AwaitDataIsWritten, gatekeeperVars
<1>8. CASE JudgeCandidate
  BY <1>8, MatchReset DEF JudgeCandidate, NULLMatch
<1>9. QED
  BY <1>1, <1>2, <1>3, <1>4, <1>5, <1>6, <1>7, <1>8 DEF GatekeeperMain

LEMMA InvNext == GatekeeperInv /\ [GatekeeperNext]_gatekeeperState => GamesAccounted'
<1> SUFFICES ASSUME GatekeeperInv, [GatekeeperNext]_gatekeeperState PROVE GamesAccounted'
  OBVIOUS
<1>1. CASE \E t \in GameThreads : GateGameLoop(t)
  BY <1>1, GateGameLoopInv
<1>2. CASE GateWriteLoop
  BY <1>2, GateWriteLoopInv
<1>3. CASE GatekeeperMain
  BY <1>3, GatekeeperMainInv
<1>4. CASE ExportModel \/ (signalHandler /\ UNCHANGED gatekeeperVars) \/ UNCHANGED gatekeeperState
  <2>1. UNCHANGED <<netAndStuff, gameThread, main>> /\ (shouldStop => shouldStop')
    BY <1>4 DEF ExportModel, signalHandler, gatekeeperVars, gatekeeperState
  <2>2. /\ netAndStuff.isDraining => main \in {"drain", "judge"}
        /\ main = "judge" => netAndStuff.dataIsWritten
    BY DEF GatekeeperInv, GamesAccounted, DrainedAndWritten
  <2>3. QED
    BY <2>1, <2>2, MatchKept DEF GatekeeperInv
<1>5. QED
  BY <1>1, <1>2, <1>3, <1>4 DEF GatekeeperNext, GatekeeperThreads

-----------------------------------------------------------------------------
(* The theorems                                                            *)

\* The types and the accounts hold in every behaviour of the gatekeeper.
THEOREM AccountsHold == GatekeeperSpec => []GatekeeperInv
<1>1. GatekeeperStart => GatekeeperInv
  BY GatekeeperTypeInit, InvInit DEF GatekeeperInv
<1>2. GatekeeperInv /\ [GatekeeperNext]_gatekeeperState => GatekeeperInv'
  <2>1. GatekeeperInv => GatekeeperTypeOK /\ DataPushed
    BY DEF GatekeeperInv, GamesAccounted
  <2>2. QED
    BY <2>1, GatekeeperTypeNext, InvNext DEF GatekeeperInv
<1>3. QED
  BY <1>1, <1>2, PTL DEF GatekeeperSpec, GatekeeperStart

\* When the main thread comes to judge, everything is tallied.
LEMMA NothingOpen ==
  ASSUME GatekeeperInv, main = "judge"
  PROVE  /\ netAndStuff.finishedGameQueue = <<>> /\ netAndStuff.data = NoData
         /\ \A t \in GameThreads : Gaming(t, "ended") /\ gameThread[t].gameData = NoData
         /\ Untallied = 0
         /\ Left \in Nat
<1>1. netAndStuff.finishedGameQueue = <<>> /\ netAndStuff.data = NoData
  BY DEF GatekeeperInv, GamesAccounted, DrainedAndWritten
<1>2. \A t \in GameThreads : Gaming(t, "ended")
  BY DEF GatekeeperInv, GamesAccounted, ThreadsJoined
<1>3. \A t \in GameThreads : gameThread[t].gameData = NoData
  BY <1>2 DEF GatekeeperInv, GamesAccounted, DataPushed, Gaming
<1>4. Cardinality(BusyThreads) = 0
  BY <1>2, NoneBusy DEF Gaming
<1>5. Untallied = 0
  BY <1>1, <1>4 DEF Untallied, Popped
<1>6. numGamesPerGating - netAndStuff.numGamesTallied \in Nat
  BY <1>5, Fields, GatekeeperAssumption DEF GatekeeperInv, GamesAccounted, GamesCounted
<1>7. Left \in Nat
  BY <1>6 DEF Left, GamePoints
<1>8. QED
  BY <1>1, <1>2, <1>3, <1>5, <1>7

\* What is left of the match then cannot change the verdict.
LEMMA NothingLeftMatters ==
  ASSUME GatekeeperInv, main = "judge", ~shouldStop, NEW points \in 0 .. Left
  PROVE  Verdict(netAndStuff.numBaselineWinPoints + Left - points,
                 netAndStuff.numCandidateWinPoints + points)
           = Verdict(netAndStuff.numBaselineWinPoints, netAndStuff.numCandidateWinPoints)
<1>1. CASE netAndStuff.terminated
  <2>1. Decided(netAndStuff.numBaselineWinPoints, netAndStuff.numCandidateWinPoints, Left)
    BY <1>1 DEF GatekeeperInv, GamesAccounted, TerminatedWhenDecided
  <2>2. QED
    BY <2>1, NothingOpen, Fields DEF GatekeeperInv, Decided, Verdict
<1>2. CASE ~netAndStuff.terminated
  <2>1. ~StopConditions
    BY <1>2 DEF StopConditions
  <2>2. PICK t \in GameThreads : Gaming(t, "ended")
    BY NothingOpen, GatekeeperAssumption
  <2>3. netAndStuff.numGamesStarted = numGamesPerGating
    BY <2>1, <2>2 DEF GatekeeperInv, GamesAccounted, GamesUsedUp
  <2>4. netAndStuff.numGamesTallied = numGamesPerGating
    BY <2>1, <2>3, NothingOpen, Fields DEF GatekeeperInv, GamesAccounted, GamesCounted
  <2>5. Left = 0 /\ points = 0
    BY <2>4, GatekeeperAssumption DEF Left, GamePoints
  <2>6. QED
    BY <2>5, Fields DEF GatekeeperInv, Verdict
<1>3. QED
  BY <1>1, <1>2

\* Every step keeps to it.
LEMMA VerdictStepHolds == GatekeeperInv /\ [GatekeeperNext]_gatekeeperState => VerdictStep
<1> SUFFICES ASSUME GatekeeperInv, [GatekeeperNext]_gatekeeperState,
                    NEW c \in In("test"), directory'[c] # "test"
             PROVE  \/ directory'[c] = "rejected" /\ \E m \in In("accepted") : m > c
                    \/ /\ netAndStuff.candidate = c
                       /\ Left >= 0
                       /\ \A t \in GameThreads : gameThread[t].gameData = NoData
                       /\ netAndStuff.finishedGameQueue = <<>> /\ netAndStuff.data = NoData
                       /\ \A points \in 0 .. Left : directory'[c]
                            = Verdict(netAndStuff.numBaselineWinPoints + Left - points,
                                      netAndStuff.numCandidateWinPoints + points)
  BY DEF VerdictStep, Left
<1>1. c \in Models /\ directory[c] = "test" /\ directory \in [Models ->
        {"training", "test", "accepted", "rejected"}]
  BY DEF In, GatekeeperInv, GatekeeperTypeOK
<1>2. CASE AutoReject
  <2>1. PICK candidate \in In("test"), accepted \in In("accepted") :
          accepted > candidate /\ directory' = [directory EXCEPT ![candidate] = "rejected"]
    BY <1>2 DEF AutoReject, NothingLoaded
  <2>2. candidate = c
    BY <1>1, <2>1
  <2>3. QED
    BY <1>1, <2>1, <2>2
<1>3. CASE JudgeCandidate
  <2>1. /\ main = "judge" /\ ~shouldStop
        /\ directory' = [directory EXCEPT ![netAndStuff.candidate] =
             Verdict(netAndStuff.numBaselineWinPoints, netAndStuff.numCandidateWinPoints)]
    BY <1>1, <1>3 DEF JudgeCandidate
  <2>2. netAndStuff.candidate = c
    BY <1>1, <2>1
  <2>3. directory'[c] = Verdict(netAndStuff.numBaselineWinPoints, netAndStuff.numCandidateWinPoints)
    BY <1>1, <2>1, <2>2
  <2>4. \A points \in 0 .. Left : directory'[c]
          = Verdict(netAndStuff.numBaselineWinPoints + Left - points,
                    netAndStuff.numCandidateWinPoints + points)
    BY <2>1, <2>3, NothingLeftMatters
  <2>5. QED
    BY <2>1, <2>2, <2>4, NothingOpen
<1>4. CASE ExportModel
  BY <1>1, <1>4 DEF ExportModel, In
<1>5. CASE directory' = directory
  BY <1>1, <1>5
<1>6. AutoReject \/ JudgeCandidate \/ ExportModel \/ directory' = directory
  BY DEF GatekeeperNext, gatekeeperState, GatekeeperThreads, GateGameLoop, NextGame, getMatchup,
         runGame, PushGameData, GateWriteLoop, PopGameData, TallyGame, EndTally, GatekeeperMain,
         PollTestModels, NoNetsToTest, NothingLoaded, loadLatestNeuralNet, StartMatch, JoinGameThreads,
         AwaitDataIsWritten, signalHandler, gatekeeperVars
<1>7. QED
  BY <1>2, <1>3, <1>4, <1>5, <1>6

\* The verdict on a candidate could not have been changed by the games that were not played,
\* for any number of game threads, games and models, whenever the command is stopped.
THEOREM VerdictFinal == GatekeeperSpec => VerdictStands
<1>1. GatekeeperInv /\ [GatekeeperNext]_gatekeeperState => [VerdictStep]_gatekeeperState
  BY VerdictStepHolds
<1>2. GatekeeperSpec => [][VerdictStep]_gatekeeperState
  BY <1>1, AccountsHold, PTL DEF GatekeeperSpec
<1>3. QED
  BY <1>2 DEF VerdictStands

-----------------------------------------------------------------------------
(* A process that runs one of the commands                                 *)

\* No step changes the command of a process.
LEMMA CommandKept ==
  ASSUME [Next]_vars
  PROVE  command' = command
<1>0. ASSUME NEW m, NEW n, release(m, n) PROVE command' = command
  BY <1>0 DEF release
<1>00. ASSUME NEW m, NEW old, cleanupUnusedModelsOlderThan(m, old) PROVE command' = command
  BY <1>00 DEF cleanupUnusedModelsOlderThan
<1>1. CASE SelfplayStep
  <2>1. ASSUME NEW p \in Players, GameLoop(p) PROVE command' = command
    <3>1. CASE SwitchNet(p) \/ ReleaseNet(p)
      BY <3>1, <1>0 DEF SwitchNet, ReleaseNet
    <3>2. CASE StartLoop(p) \/ CountGame(p) \/ FinishGame(p) \/ InterruptGame(p) \/ FindQueue(p)
      BY <3>2 DEF StartLoop, CountGame, FinishGame, InterruptGame, FindQueue, managerVars
    <3>3. CASE AcquireLatest(p) \/ CheckForNewNNEval(p) \/ PushData(p)
      BY <3>3 DEF AcquireLatest, CheckForNewNNEval, PushData
    <3> QED
      BY <2>1, <3>1, <3>2, <3>3 DEF GameLoop
  <2>2. CASE ModelLoadLoop
    BY <2>2 DEF ModelLoadLoop, PollModels, LoadNewNet, NoNewNet, SleepAndPoll,
       loadModelAndStartDataWriting, managerVars
  <2>3. CASE SelfplayMain
    BY <2>3 DEF SelfplayMain, JoinPlayers, JoinLoader, DestroyManager, AwaitWriters, Destroy,
       managerVars
  <2>4. ASSUME NEW n \in Nets, DataWriteLoop(n) PROVE command' = command
    BY <2>4 DEF DataWriteLoop, WriteGame, EndWriting, DeleteModelData, CheckIn
  <2> QED
    BY <1>1, <2>1, <2>2, <2>3, <2>4 DEF SelfplayStep, SelfplayNext
<1>2. CASE ContributeStep
  <2>1. ASSUME NEW t \in TaskLoops, TaskLoop(t) PROVE command' = command
    <3>1. CASE CleanupRating(t) \/ ChooseManagers(t) \/ CleanupRatingAgain(t)
      BY <3>1, <1>00 DEF CleanupRating, ChooseManagers, CleanupRatingAgain
    <3>2. CASE LoadNets(t)
      BY <3>2 DEF LoadNets, Load, loadModelNoDataWritingLoop, managerVars
    <3>3. CASE AcquireNets(t)
      BY <3>3 DEF AcquireNets
    <3>4. CASE StartTaskLoop(t) \/ LockTasks(t) \/ StopTasking(t) \/ GiveUp(t)
      BY <3>4 DEF StartTaskLoop, LockTasks, StopTasking, GiveUp, managerVars
    <3>5. CASE AskForTask(t) \/ ModelsArePresent(t) \/ UnlockToDownload(t) \/ Download(t)
      <4>1. UNCHANGED managerVars
        BY <3>5, Zenon DEF AskForTask, ModelsArePresent, UnlockToDownload, Download
      <4> QED
        BY <4>1 DEF managerVars
    <3>6. CASE DeleteModels(t) \/ PushGame(t)
      BY <3>6 DEF DeleteModels, PushGame, managerVars
    <3> QED
      BY <2>1, <3>1, <3>2, <3>3, <3>4, <3>5, <3>6 DEF TaskLoop
  <2>2. ASSUME NEW w \in Workers, RunGameLoop(w) PROVE command' = command
    BY <2>2, <1>0 DEF RunGameLoop, PopGame, PlayGame, UploadGame, ReleaseBlack, ReleaseWhite, CountDown,
       EndWorker, managerVars
  <2>3. CASE PreDownload \/ ContributeMain
    BY <2>3 DEF PreDownload, ContributeMain, JoinTaskLoops, JoinWorkers, DestroyManagers, Destroy,
       managerVars
  <2> QED
    BY <1>2, <2>1, <2>2, <2>3 DEF ContributeStep, ContributeNext
<1>3. CASE GatekeeperStep \/ ExportStep \/ SignalStep \/ UNCHANGED vars
  BY <1>3 DEF GatekeeperStep, ExportStep, OnlyGatekeeper, SignalStep, managerVars, vars
<1> QED
  BY <1>1, <1>2, <1>3 DEF Next

\* A process that runs the selfplay command behaves as that command alone.
LEMMA RunsSelfplay == Spec => (command = "selfplay" => SelfplaySpec)
<1>1. Init /\ command = "selfplay" => SelfplayInit
  BY DEF Init, NoSelfplay
<1>2. command = "selfplay" /\ [Next]_vars =>
        [SelfplayNext \/ SelfplaySignal]_<<managerVars, selfplayVars, shouldStop, main>>
  BY DEF Next, SelfplayStep, ContributeStep, GatekeeperStep, ExportStep, SignalStep, SelfplaySignal,
         vars
<1>3. command = "selfplay" /\ [Next]_vars => (command = "selfplay")'
  BY CommandKept
<1> QED
  BY <1>1, <1>2, <1>3, PTL DEF Spec, SelfplaySpec

\* A process that runs the contribute command behaves as that command alone.
LEMMA RunsContribute == Spec => (command = "contribute" => ContributeSpec)
<1>1. Init /\ command = "contribute" =>
        main = "playing" /\ shouldStop = FALSE /\ NewManagers /\ ContributeInit
  BY DEF Init, NoSelfplay, SelfplayInit
<1>2. command = "contribute" /\ [Next]_vars =>
        [ContributeNext \/ ContributeSignal]_<<managerVars, contributeVars, shouldStop, main>>
  BY DEF Next, SelfplayStep, ContributeStep, GatekeeperStep, ExportStep, SignalStep,
         ContributeSignal, vars
<1>3. command = "contribute" /\ [Next]_vars => (command = "contribute")'
  BY CommandKept
<1> QED
  BY <1>1, <1>2, <1>3, PTL DEF Spec, ContributeSpec

\* A process that runs the gatekeeper command behaves as that command alone.
LEMMA RunsGatekeeper == Spec => (command = "gatekeeper" => GatekeeperSpec)
<1>1. Init /\ command = "gatekeeper" => GatekeeperInit /\ shouldStop = FALSE /\ main = "poll"
  BY DEF Init, NoSelfplay, SelfplayInit
<1>2. command = "gatekeeper" /\ [Next]_vars => [GatekeeperNext]_gatekeeperState
  <2> SUFFICES ASSUME command = "gatekeeper", [Next]_vars PROVE [GatekeeperNext]_gatekeeperState
    OBVIOUS
  <2>1. CASE SignalStep
    BY <2>1 DEF SignalStep, GatekeeperNext
  <2>2. CASE GatekeeperStep \/ ExportStep
    BY <2>2 DEF GatekeeperStep, ExportStep, GatekeeperNext
  <2>3. CASE UNCHANGED vars
    BY <2>3 DEF vars, gatekeeperVars, gatekeeperState
  <2> QED
    BY <2>1, <2>2, <2>3 DEF Next, SelfplayStep, ContributeStep
<1>3. command = "gatekeeper" /\ [Next]_vars => (command = "gatekeeper")'
  BY CommandKept
<1> QED
  BY <1>1, <1>2, <1>3, PTL DEF Spec, GatekeeperSpec

-----------------------------------------------------------------------------
(* What is true of every process                                           *)

\* The managers of the contribution client queue no games for data-writing threads.
NothingQueued == \A n \in Nets : net[n].queued = 0 /\ written[n] = 0

LEMMA DroppedQueues ==
  ASSUME NEW U, NEW ns \in [Nets -> NetData], \A n \in Nets : ns[n].queued = 0
  PROVE  \A n \in Nets : Dropped(ns, U)[n].queued = 0
<1> SUFFICES ASSUME NEW n \in Nets PROVE Dropped(ns, U)[n].queued = 0
  OBVIOUS
<1>1. ns[n] \in NetData /\ ns[n].queued = 0
  OBVIOUS
<1>2. CASE n \in U
  <2>1. Dropped(ns, U)[n]
          = [ns[n] EXCEPT !.readOnly = TRUE, !.deleted = @ \/ ns[n].loop = "none"]
    BY <1>2 DEF Dropped
  <2> QED
    BY <1>1, <2>1 DEF NetData
<1>3. CASE n \notin U
  <2>1. Dropped(ns, U)[n] = ns[n]
    BY <1>3 DEF Dropped
  <2> QED
    BY <1>1, <2>1
<1> QED
  BY <1>2, <1>3

LEMMA ContributeQueuesNothing ==
  ASSUME IInv, NothingQueued, [ContributeNext \/ ContributeSignal]_ContributeStates
  PROVE  NothingQueued'
<1>1. net \in [Nets -> NetData] /\ \A n \in Nets : net[n].queued = 0 /\ written[n] = 0
  BY DEF IInv, TypeOK, NothingQueued
<1>2. ASSUME NEW m, NEW old, cleanupUnusedModelsOlderThan(m, old) PROVE NothingQueued'
  <2>1. net' = Dropped(net, old) /\ written' = written
    BY <1>2 DEF cleanupUnusedModelsOlderThan
  <2> QED
    BY <1>1, <2>1, DroppedQueues DEF NothingQueued
<1>3. ASSUME NEW m, NEW n \in Nets, NEW name, name \in Names \cup {0}, m \in Managers \cup {0},
             loadModelNoDataWritingLoop(m, n, name)
      PROVE  NothingQueued'
  <2> DEFINE ns == [net EXCEPT ![n] = ModelData(name, m, "none")]
  <2>1. PICK S : net' = Dropped(ns, S)
    BY <1>3 DEF loadModelNoDataWritingLoop, MaybeAutoCleanup
  <2>2. ns \in [Nets -> NetData] /\ \A i \in Nets : ns[i].queued = 0
    BY <1>1, <1>3 DEF ModelData, NetData
  <2>3. written' = written
    BY <1>3 DEF loadModelNoDataWritingLoop
  <2> HIDE DEF ns
  <2> QED
    BY <1>1, <2>1, <2>2, <2>3, DroppedQueues DEF NothingQueued
<1>4. ASSUME NEW m, NEW n, release(m, n) PROVE NothingQueued'
  <2>1. written' = written
    BY <1>4 DEF release
  <2>2. CASE UNCHANGED net
    BY <1>1, <2>1, <2>2 DEF NothingQueued
  <2>3. CASE n \in modelDatas[m]
    <3> DEFINE ns == [net EXCEPT ![n].acquireCount = @ - 1]
    <3>1. PICK S : net' = Dropped(ns, S)
      BY <1>4, <2>3 DEF release, MaybeAutoCleanup
    <3>2. ns \in [Nets -> NetData] /\ \A i \in Nets : ns[i].queued = 0
      <4>1. CASE n \notin Nets
        <5>1. ns = net
          BY <1>1, <4>1
        <5> QED
          BY <1>1, <5>1
      <4>2. CASE n \in Nets
        <5> DEFINE r == [net[n] EXCEPT !.acquireCount = @ - 1]
        <5>1. net[n] \in NetData
          BY <1>1, <4>2
        <5>2. r \in NetData /\ r.queued = net[n].queued
          BY <5>1 DEF NetData
        <5>3. ns = [net EXCEPT ![n] = r]
          BY <1>1, <4>2
        <5> HIDE DEF ns, r
        <5> QED
          BY <1>1, <4>2, <5>2, <5>3
      <4> QED
        BY <4>1, <4>2
    <3> HIDE DEF ns
    <3> QED
      BY <1>1, <2>1, <3>1, <3>2, DroppedQueues DEF NothingQueued
  <2> QED
    BY <1>4, <2>2, <2>3 DEF release
<1>5. ASSUME NEW m, Destroy(m) PROVE NothingQueued'
  <2>1. net' = Dropped(net, modelDatas[m]) /\ written' = written
    BY <1>5 DEF Destroy
  <2> QED
    BY <1>1, <2>1, DroppedQueues DEF NothingQueued
<1>6. ASSUME UNCHANGED <<net, written>> PROVE NothingQueued'
  BY <1>6 DEF NothingQueued
<1>7. ASSUME NEW t \in TaskLoops, TaskLoop(t) PROVE NothingQueued'
  <2>1. CASE CleanupRating(t) \/ ChooseManagers(t) \/ CleanupRatingAgain(t)
    BY <2>1, <1>2 DEF CleanupRating, ChooseManagers, CleanupRatingAgain
  <2>2. CASE LoadNets(t)
    <3>1. /\ tasker[t].black \in Names /\ tasker[t].white \in Names
          /\ tasker[t].blackManager \in Managers /\ tasker[t].whiteManager \in Managers
      <4>1. tasker[t].pc \in Managed
        BY <2>2 DEF LoadNets, Tasking, Managed, Chosen
      <4> QED
        BY <4>1, Basics, Constants DEF Tasks, TaskOK, WithTask
    <3>2. ASSUME NEW m \in Managers, NEW name \in Names, Load(m, name) PROVE NothingQueued'
      BY <3>2, <1>3, <1>6 DEF Load, managerVars
    <3> QED
      BY <2>2, <3>1, <3>2 DEF LoadNets
  <2>3. CASE AcquireNets(t)
    <3>1. PICK black, white : net' = acquired(acquired(net, black), white)
      BY <2>3 DEF AcquireNets
    <3>2. \A i \in Nets : net'[i].queued = 0
      BY <1>1, <3>1 DEF acquired, NetData
    <3>3. written' = written
      BY <2>3 DEF AcquireNets
    <3> QED
      BY <1>1, <3>2, <3>3 DEF NothingQueued
  <2>4. CASE StartTaskLoop(t) \/ LockTasks(t) \/ StopTasking(t) \/ GiveUp(t) \/ AskForTask(t)
             \/ ModelsArePresent(t) \/ UnlockToDownload(t) \/ Download(t) \/ DeleteModels(t)
             \/ PushGame(t)
    <3>1. CASE StartTaskLoop(t) \/ LockTasks(t) \/ StopTasking(t) \/ GiveUp(t)
      BY <3>1, <1>6 DEF StartTaskLoop, LockTasks, StopTasking, GiveUp, managerVars
    <3>2. CASE AskForTask(t) \/ ModelsArePresent(t) \/ UnlockToDownload(t) \/ Download(t)
      <4>1. UNCHANGED managerVars
        BY <3>2, Zenon DEF AskForTask, ModelsArePresent, UnlockToDownload, Download
      <4> QED
        BY <4>1, <1>6 DEF managerVars
    <3>3. CASE DeleteModels(t) \/ PushGame(t)
      BY <3>3, <1>6 DEF DeleteModels, PushGame, managerVars
    <3> QED
      BY <2>4, <3>1, <3>2, <3>3
  <2> QED
    BY <1>7, <2>1, <2>2, <2>3, <2>4 DEF TaskLoop
<1>8. ASSUME NEW w \in Workers, RunGameLoop(w) PROVE NothingQueued'
  <2>1. CASE ReleaseBlack(w) \/ ReleaseWhite(w)
    BY <2>1, <1>4 DEF ReleaseBlack, ReleaseWhite
  <2>2. CASE PopGame(w) \/ PlayGame(w) \/ UploadGame(w) \/ CountDown(w) \/ EndWorker(w)
    BY <2>2, <1>6 DEF PopGame, PlayGame, UploadGame, CountDown, EndWorker, managerVars
  <2> QED
    BY <1>8, <2>1, <2>2 DEF RunGameLoop
<1>9. CASE ContributeMain
  <2>1. CASE DestroyManagers
    BY <2>1, <1>5 DEF DestroyManagers
  <2>2. CASE JoinTaskLoops \/ JoinWorkers
    BY <2>2, <1>6 DEF JoinTaskLoops, JoinWorkers, managerVars
  <2> QED
    BY <1>9, <2>1, <2>2 DEF ContributeMain
<1>10. CASE PreDownload \/ ContributeSignal \/ UNCHANGED ContributeStates
  BY <1>10, <1>6 DEF PreDownload, ContributeSignal, ContributeStates, managerVars
<1> QED
  BY <1>7, <1>8, <1>9, <1>10 DEF ContributeNext

\* A process that does not run selfplay has finished no selfplay games.
Unplayed ==
  /\ command \in {"contribute", "gatekeeper"}
  /\ player = [p \in Players |-> NewPlayer] /\ finished = [n \in Nets |-> 0]
  /\ NothingQueued

LEMMA UnplayedInit == Init /\ command # "selfplay" => Unplayed
BY DEF Init, SelfplayInit, NoSelfplay, NewManagers, NoNet, ModelData, Unplayed, NothingQueued

LEMMA UnplayedStays ==
  ASSUME Unplayed, [Next]_vars, command = "contribute" => IInv
  PROVE  Unplayed'
<1>1. command' = command
  BY CommandKept
<1>2. UNCHANGED selfplayVars
  BY DEF Unplayed, Next, SelfplayStep, ContributeStep, GatekeeperStep, ExportStep, OnlyGatekeeper,
         SignalStep, vars, managerVars
<1>3. NothingQueued'
  <2>1. CASE ContributeStep
    <3>1. ContributeNext /\ IInv /\ NothingQueued
      BY <2>1 DEF ContributeStep, Unplayed
    <3> QED
      BY <3>1, ContributeQueuesNothing
  <2>2. CASE UNCHANGED managerVars
    BY <2>2 DEF Unplayed, NothingQueued, managerVars
  <2> QED
    BY <2>1, <2>2 DEF Unplayed, Next, SelfplayStep, GatekeeperStep, ExportStep, OnlyGatekeeper,
                      SignalStep, vars
<1> QED
  BY <1>1, <1>2, <1>3 DEF Unplayed, selfplayVars

LEMMA UnplayedKept ==
  ASSUME Unplayed
  PROVE  GamesKept
<1>1. \A n : {p \in Players : player[p].pc \in {"enqueue", "push"} /\ player[p].nnEval = n} = {}
  BY DEF Unplayed, NewPlayer
<1>2. Cardinality({}) = 0
  BY FS_EmptySet
<1>3. \A n : Cardinality({p \in Players : player[p].pc \in {"enqueue", "push"}
                                            /\ player[p].nnEval = n}) = 0
  BY <1>1, <1>2, Zenon
<1>4. \A n \in Nets : finished[n] = 0 /\ net[n].queued = 0 /\ written[n] = 0
  BY DEF Unplayed, NothingQueued
<1>5. \A n \in Nets : 0 = 0 + (IF net[n].deleted THEN 0 ELSE net[n].queued) + 0
  BY <1>4
<1>6. \A n \in Nets : finished[n] =
        Cardinality({p \in Players : player[p].pc \in {"enqueue", "push"} /\ player[p].nnEval = n})
        + (IF net[n].deleted THEN 0 ELSE net[n].queued) + written[n]
  BY <1>3, <1>4, <1>5
<1>7. ~(command = "selfplay")
  BY DEF Unplayed
<1> QED
  BY <1>6, <1>7 DEF GamesKept

\* Whatever command a process runs, it loses no finished game between the thread that
\* played it and the disk.
THEOREM GamesKeptAlways == Spec => []GamesKept
<1>1. Spec => (command = "selfplay" => []GamesKept)
  BY RunsSelfplay, SelfplayKeepsGames, PTL
<1>2. Spec => (command = "contribute" => []IInv)
  BY RunsContribute, Invariance, PTL
<1>3. command = "gatekeeper" /\ [Next]_vars => (command = "gatekeeper")'
  BY CommandKept
<1>4. Init /\ ~(command = "selfplay") /\ ~(command = "contribute") =>
        Unplayed /\ command = "gatekeeper"
  BY UnplayedInit DEF Unplayed
<1>5. Init /\ command = "contribute" => Unplayed
  BY UnplayedInit
<1>6. Unplayed /\ IInv /\ [Next]_vars => Unplayed'
  BY UnplayedStays
<1>7. Unplayed /\ command = "gatekeeper" /\ [Next]_vars => Unplayed'
  BY UnplayedStays
<1>8. Unplayed => GamesKept
  BY UnplayedKept
<1> QED
  BY <1>1, <1>2, <1>3, <1>4, <1>5, <1>6, <1>7, <1>8, PTL DEF Spec

\* Whatever command a process runs, no net that a selfplay game thread has is taken away.
THEOREM HeldNetsStayAlways == Spec => []HeldNetsStay
<1>1. Spec => (command = "selfplay" => []HeldNetsStay)
  BY RunsSelfplay, SelfplayKeepsHeldNets, PTL
<1>2. ~(command = "selfplay") /\ [Next]_vars => (~(command = "selfplay"))'
  BY CommandKept
<1>3. ~(command = "selfplay") => HeldNetsStay
  BY DEF HeldNetsStay
<1> QED
  BY <1>1, <1>2, <1>3, PTL DEF Spec

\* Whatever command a process runs, no game of the contribution client loses its nets.
THEOREM GamesHaveNetsAlways == Spec => []GamesHaveNets
<1>1. Spec => (command = "contribute" => []GamesHaveNets)
  BY RunsContribute, ContributeGamesHaveNets, PTL
<1>2. ~(command = "contribute") /\ [Next]_vars => (~(command = "contribute"))'
  BY CommandKept
<1>3. ~(command = "contribute") => GamesHaveNets
  BY DEF GamesHaveNets
<1> QED
  BY <1>1, <1>2, <1>3, PTL DEF Spec

\* Whatever command a process runs, the rating games are counted and bounded.
THEOREM RatingGamesBoundedAlways == Spec => []RatingGamesBounded
<1> DEFINE Unasked == ~(command = "contribute") /\ ContributeInit
<1>1. Spec => (command = "contribute" => []RatingGamesBounded)
  BY RunsContribute, ContributeBoundsRatingGames, PTL
<1>2. Init /\ ~(command = "contribute") => Unasked
  BY DEF Init
<1>3. Unasked /\ [Next]_vars => Unasked'
  <2> SUFFICES ASSUME Unasked, [Next]_vars PROVE Unasked'
    OBVIOUS
  <2>1. command' = command
    BY CommandKept
  <2>2. UNCHANGED contributeVars
    BY DEF Next, SelfplayStep, ContributeStep, GatekeeperStep, ExportStep, OnlyGatekeeper,
           SignalStep, vars
  <2> QED
    BY <2>1, <2>2 DEF ContributeInit, contributeVars
<1>4. Unasked => RatingGamesBounded
  <2> SUFFICES ASSUME Unasked PROVE RatingGamesBounded
    OBVIOUS
  <2>1. Games = {}
    <3>1. {s \in TaskLoops : Tasking(s, "push")} = {}
      BY DEF ContributeInit, Idle, Tasking
    <3>2. DOMAIN gameTaskQueue = {}
      BY DEF ContributeInit
    <3>3. {x \in Workers : worker[x].pc \notin {"pop", "ended"}} = {}
      BY DEF ContributeInit
    <3> SUFFICES ASSUME NEW g \in Games PROVE FALSE
      OBVIOUS
    <3> DEFINE Pushing == {s \in TaskLoops : Tasking(s, "push")}
               Busy    == {x \in Workers : worker[x].pc \notin {"pop", "ended"}}
    <3>4. \/ \E t \in Pushing : g = <<"task loop", t, GameOf(tasker[t], FALSE)>>
          \/ \E i \in DOMAIN gameTaskQueue : g = <<"queue", i, gameTaskQueue[i]>>
          \/ \E w \in Busy : g = <<"game thread", w, worker[w].game>>
      BY Zenon DEF Games
    <3>5. Pushing = {} /\ Busy = {}
      BY <3>1, <3>3
    <3> HIDE DEF Pushing, Busy
    <3> QED
      BY <3>2, <3>4, <3>5
  <2>2. Cardinality({}) = 0
    BY FS_EmptySet
  <2>3. {g \in Games : g[3].isRatingGame} = {}
    BY <2>1
  <2>4. numRatingGamesActive = Cardinality({g \in Games : g[3].isRatingGame})
    BY <2>2, <2>3 DEF ContributeInit
  <2>5. 0 <= IF maxRatingMatches = 0 THEN 0 ELSE
              (maxRatingMatches - 1 + Cardinality(TaskLoops)) * taskRepFactor
    <3>1. Room \in Int
      BY RoomIsInt
    <3> QED
      BY <3>1, Constants, Times, FS_CardinalityType DEF Room
  <2> QED
    BY <2>4, <2>5 DEF RatingGamesBounded, ContributeInit
<1> QED
  BY <1>1, <1>2, <1>3, <1>4, PTL DEF Spec

\* Whatever command a process runs, a candidate model leaves the test directory only by a
\* verdict that stands.
THEOREM VerdictStandsAlways == Spec => VerdictStands
<1> DEFINE Ungated == ~(command = "gatekeeper")
<1>1. Spec => (command = "gatekeeper" => VerdictStands)
  BY RunsGatekeeper, VerdictFinal, PTL
<1>2. Ungated /\ [Next]_vars => Ungated'
  BY CommandKept
<1>3. Ungated /\ [Next]_vars => [VerdictStep]_gatekeeperState
  <2>1. Ungated /\ [Next]_vars => directory' = directory
    BY DEF Next, SelfplayStep, ContributeStep, GatekeeperStep, ExportStep, SignalStep, vars,
           gatekeeperVars
  <2>2. directory' = directory => VerdictStep
    BY DEF VerdictStep, In
  <2> QED
    BY <2>1, <2>2
<1>4. Spec => (Ungated => [][VerdictStep]_gatekeeperState)
  BY <1>2, <1>3, PTL DEF Spec
<1> QED
  BY <1>1, <1>4 DEF VerdictStands
=============================================================================
