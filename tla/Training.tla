------------------------------ MODULE Training ------------------------------
(***************************************************************************)
(* The commands that produce training data and the nets trained on it: a   *)
(* process runs one of them (main.cpp), selfplay and contribute each with  *)
(* their managers, gatekeeper with its match.                              *)
(***************************************************************************)
EXTENDS SelfplayCommand, Contribute, Gatekeeper

vars == <<managerVars, selfplayVars, contributeVars, gatekeeperVars, shouldStop, main>>

SelfplayStep ==
  command = "selfplay" /\ SelfplayNext /\ UNCHANGED <<contributeVars, gatekeeperVars>>
ContributeStep ==
  command = "contribute" /\ ContributeNext /\ UNCHANGED <<selfplayVars, gatekeeperVars>>

OnlyGatekeeper == UNCHANGED <<managerVars, selfplayVars, contributeVars>>
GatekeeperStep == command = "gatekeeper" /\ GatekeeperThreads /\ OnlyGatekeeper
ExportStep     == command = "gatekeeper" /\ ExportModel /\ OnlyGatekeeper

SignalStep ==
  signalHandler /\ UNCHANGED <<managerVars, selfplayVars, contributeVars, gatekeeperVars>>

Next == SelfplayStep \/ ContributeStep \/ GatekeeperStep \/ ExportStep \/ SignalStep

NoSelfplay ==
  /\ NewManagers /\ shouldStop = FALSE
  /\ \/ command = "contribute" /\ main = "playing"
     \/ command = "gatekeeper" /\ main = "poll"
  /\ player = [p \in Players |-> NewPlayer] /\ loader = "top"
  /\ numGamesStarted = 0 /\ finished = [n \in Nets |-> 0]

\* The other commands leave the directories of the gatekeeper alone.
Init ==
  /\ ContributeInit /\ GatekeeperInit /\ (SelfplayInit \/ NoSelfplay)
  /\ command # "gatekeeper" => In("accepted") = {}

\* Some thread that can go on does, which is all it takes of the operating system; a
\* game comes to an end, however often its nets are looked up; the server does not
\* answer every request for a task with rating tasks that were not asked for
\* (getNextTask would ask again and never look at shouldStop).
GameEnds == \E p \in Players : FinishGame(p) \/ InterruptGame(p)
Fairness ==
  /\ WF_vars(SelfplayStep \/ ContributeStep \/ GatekeeperStep)
  /\ SF_vars(SelfplayStep /\ GameEnds)

Spec == Init /\ [][Next]_vars /\ Fairness

\* A command that is told to stop ends, with all its threads joined, its games written
\* and its managers destroyed.
CommandEnds == shouldStop ~> main = "ended"
=============================================================================
