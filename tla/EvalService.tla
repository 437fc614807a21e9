---------------------------- MODULE EvalService ----------------------------
(***************************************************************************)
(* What NNEvaluator::evaluate promises its callers (the comment at its     *)
(* declaration in cpp/neuralnet/nneval.h): a threadsafe call that waits    *)
(* for the evaluation of a position and then supplies its result.  No      *)
(* batches, no ring, no servers, no table.                                 *)
(***************************************************************************)
CONSTANTS
  Clients,   \* calling threads
  Keys,      \* positions
  NULL       \* no request, no answer

VARIABLES
  phase,     \* "idle", "asked" while the call runs, "answered" once it has returned
  ask,       \* what each running call asks for
  answer     \* what each finished call was answered

vars == <<phase, ask, answer>>

Requests == [key : Keys, owner : BOOLEAN]
Answers  == [key : Keys, owner : BOOLEAN, persp : {"white"}]

\* An answer to a request may carry an owner map nobody asked for.
Answering(r, a) == a.key = r.key /\ (r.owner => a.owner)

Init ==
  /\ phase = [c \in Clients |-> "idle"]
  /\ ask = [c \in Clients |-> NULL]
  /\ answer = [c \in Clients |-> NULL]

Ask(c) ==
  /\ phase[c] = "idle"
  /\ phase' = [phase EXCEPT ![c] = "asked"]
  /\ \E r \in Requests : ask' = [ask EXCEPT ![c] = r]
  /\ UNCHANGED answer

Answer(c) ==
  /\ phase[c] = "asked"
  /\ phase' = [phase EXCEPT ![c] = "answered"]
  /\ \E a \in Answers : /\ Answering(ask[c], a)
                        /\ answer' = [answer EXCEPT ![c] = a]
  /\ UNCHANGED ask

\* The call throws.
Fail(c) ==
  /\ phase[c] = "asked"
  /\ phase' = [phase EXCEPT ![c] = "idle"]
  /\ ask' = [ask EXCEPT ![c] = NULL]
  /\ UNCHANGED answer

Consume(c) ==
  /\ phase[c] = "answered"
  /\ phase' = [phase EXCEPT ![c] = "idle"]
  /\ ask' = [ask EXCEPT ![c] = NULL]
  /\ answer' = [answer EXCEPT ![c] = NULL]

Next == \E c \in Clients : Ask(c) \/ Answer(c) \/ Fail(c) \/ Consume(c)

Spec == Init /\ [][Next]_vars

\* No call waits for ever.
FairSpec == Spec /\ \A c \in Clients : WF_vars(Answer(c) \/ Fail(c))
=============================================================================
