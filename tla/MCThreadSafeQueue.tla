-------------------------- MODULE MCThreadSafeQueue --------------------------
(* Model-checking ThreadSafeQueue.                                           *)
EXTENDS ThreadSafeQueue
=============================================================================
