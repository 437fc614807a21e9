----------------------------- MODULE MCAsyncBot -----------------------------
(* Model-checking AsyncBot.                                                  *)
EXTENDS AsyncBot
=============================================================================
