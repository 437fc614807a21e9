------------------------------ MODULE Command ------------------------------
(***************************************************************************)
(* A command with threads of its own that main.cpp runs: one per process.  *)
(***************************************************************************)

VARIABLES
  command,      \* "selfplay", "contribute" or "gatekeeper"
  shouldStop,   \* the command is to end
  main          \* where the main thread of the command is

\* SIGINT or SIGTERM.
signalHandler ==
  /\ ~shouldStop
  /\ shouldStop' = TRUE
  /\ UNCHANGED <<command, main>>
=============================================================================
