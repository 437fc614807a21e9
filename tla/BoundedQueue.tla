---------------------------- MODULE BoundedQueue ----------------------------
(***************************************************************************)
(* What cpp/core/threadsafequeue.h promises of its queue, in the comments  *)
(* over its public functions: a first-in first-out queue of bounded size   *)
(* whose writers wait while it is full and whose readers wait while it is  *)
(* empty, until it is closed or made read-only.  No mutex, no condition    *)
(* variables, no array.                                                    *)
(***************************************************************************)
EXTENDS Naturals, Sequences

CONSTANTS Threads, Values, MaxSize, NULL

VARIABLES
  queue,     \* what has been pushed and not popped
  closed, readOnly,
  call,      \* the blocking call each thread is in: "none", "push" or "pop"
  arg,       \* what it pushes
  ret        \* what its last call returned

vars == <<queue, closed, readOnly, call, arg, ret>>

Success(v) == [ok |-> TRUE, val |-> v]
Failure    == [ok |-> FALSE, val |-> NULL]

Return(t, r) ==
  /\ call' = [call EXCEPT ![t] = "none"]
  /\ arg' = [arg EXCEPT ![t] = NULL]
  /\ ret' = [ret EXCEPT ![t] = r]

Init ==
  /\ queue = <<>>
  /\ closed = FALSE
  /\ readOnly = FALSE
  /\ call = [t \in Threads |-> "none"]
  /\ arg = [t \in Threads |-> NULL]
  /\ ret = [t \in Threads |-> NULL]

Call(t) ==
  /\ call[t] = "none"
  /\ \/ /\ call' = [call EXCEPT ![t] = "push"]
        /\ \E v \in Values : arg' = [arg EXCEPT ![t] = v]
     \/ /\ call' = [call EXCEPT ![t] = "pop"]
        /\ UNCHANGED arg
  /\ ret' = [ret EXCEPT ![t] = NULL]
  /\ UNCHANGED <<queue, closed, readOnly>>

\* A waiting push gets room, or learns that there will be no more writes.
Push(t) ==
  /\ call[t] = "push"
  /\ IF closed \/ readOnly
     THEN /\ Return(t, Failure)
          /\ UNCHANGED queue
     ELSE /\ Len(queue) < MaxSize
          /\ queue' = Append(queue, arg[t])
          /\ Return(t, Success(NULL))
  /\ UNCHANGED <<closed, readOnly>>

\* A waiting pop gets the oldest element, or learns that none will come.
Pop(t) ==
  /\ call[t] = "pop"
  /\ IF closed \/ (readOnly /\ queue = <<>>)
     THEN /\ Return(t, Failure)
          /\ UNCHANGED queue
     ELSE /\ queue # <<>>
          /\ queue' = Tail(queue)
          /\ Return(t, Success(Head(queue)))
  /\ UNCHANGED <<closed, readOnly>>

\* The calls that never wait.
ForcePush(t) ==
  /\ call[t] = "none"
  /\ IF closed \/ readOnly
     THEN /\ ret' = [ret EXCEPT ![t] = Failure]
          /\ UNCHANGED queue
     ELSE /\ \E v \in Values : queue' = Append(queue, v)
          /\ ret' = [ret EXCEPT ![t] = Success(NULL)]
  /\ UNCHANGED <<closed, readOnly, call, arg>>

TryPop(t) ==
  /\ call[t] = "none"
  /\ IF closed \/ queue = <<>>
     THEN /\ ret' = [ret EXCEPT ![t] = Failure]
          /\ UNCHANGED queue
     ELSE /\ queue' = Tail(queue)
          /\ ret' = [ret EXCEPT ![t] = Success(Head(queue))]
  /\ UNCHANGED <<closed, readOnly, call, arg>>

Size(t) ==
  /\ call[t] = "none"
  /\ ret' = [ret EXCEPT ![t] = Success(Len(queue))]
  /\ UNCHANGED <<queue, closed, readOnly, call, arg>>

Close ==
  /\ closed' = TRUE
  /\ queue' = <<>>
  /\ UNCHANGED <<readOnly, call, arg, ret>>

SetReadOnly ==
  /\ readOnly' = TRUE
  /\ UNCHANGED <<queue, closed, call, arg, ret>>

Next ==
  \/ \E t \in Threads : Call(t) \/ Push(t) \/ Pop(t) \/ ForcePush(t) \/ TryPop(t) \/ Size(t)
  \/ Close
  \/ SetReadOnly

Spec == Init /\ [][Next]_vars

\* Blocked threads unblock once they can go on for good, in particular once the
\* queue is closed or read-only.
FairSpec == Spec /\ \A t \in Threads : WF_vars(Push(t)) /\ WF_vars(Pop(t))
=============================================================================
