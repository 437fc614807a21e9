---------------------------- MODULE MCTreeSearch ----------------------------
EXTENDS TreeSearch
MCMaxVisits == <<3, 3>>
MCMaxPlayouts == <<3, 2>>
\* Two passes end a game, and, as a cycle would, three stones in a row do.
MCIsGameFinished(n) ==
  \/ Len(n) >= 2 /\ n[Len(n)] = PASS /\ n[Len(n) - 1] = PASS
  \/ Len(n) >= 3 /\ \A i \in Len(n) - 2 .. Len(n) : n[i] # PASS
MCPassWouldEndGame(n) == n # <<>> /\ Last(n) = PASS
\* The board looks the same everywhere: as many nodes as possible share an entry.
MCLocalPattern(n) == 0
\* Siblings share a mutex, and so does every second level of the tree.
MCMutexOf(n) == Len(n) % 2
=============================================================================
