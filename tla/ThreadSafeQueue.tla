-------------------------- MODULE ThreadSafeQueue --------------------------
(***************************************************************************)
(* ThreadSafeContainer and ThreadSafeQueue of cpp/core/threadsafequeue.h:  *)
(* the queue over which selfplay managers, the analysis engine, the        *)
(* distributed client and the gatekeeper hand work between threads.        *)
(*                                                                         *)
(* A blocking call takes the mutex once per attempt; between attempts the  *)
(* thread sleeps on a condition variable.  The elements lie in a vector    *)
(* whose first headIdx entries are dead.                                   *)
(*                                                                         *)
(* An operator Op_Bug is not part of the model: it is the definition Op    *)
(* with a bug in it, which the properties are tested against.              *)
(***************************************************************************)
EXTENDS Integers, Sequences

CONSTANTS
  Threads,   \* threads that share the queue
  Values,    \* what they push
  MaxSize,   \* maxSize
  MaxForced, \* bound: forcePush is called only while fewer elements are queued
  NULL

ASSUME QueueAssumption ==
  /\ MaxSize \in Nat \ {0}
  /\ MaxForced \in Nat
  /\ NULL \notin Values

VARIABLES
  elts, headIdx,     \* the vector and the number of its entries already popped
  closed, readOnly,
  pc,                \* "idle"; "push"/"pop" about to lock; "pushWait"/"popWait" asleep
  arg,               \* the element each blocked or blocking push carries
  ret                \* what each thread's last call returned

vars == <<elts, headIdx, closed, readOnly, pc, arg, ret>>

Success(v) == [ok |-> TRUE, val |-> v]
Failure    == [ok |-> FALSE, val |-> NULL]

-----------------------------------------------------------------------------
(* The vector (ThreadSafeQueue).                                            *)

SizeUnsynchronized == Len(elts) - headIdx

PushUnsynchronized(v) ==
  /\ elts' = Append(elts, v)
  /\ UNCHANGED headIdx

Front == elts[headIdx + 1]

\* Mutant: the live elements move to the front, but the dead ones are still counted.
PopUnsynchronized_CountsDead ==
  LET head == headIdx + 1 IN
  IF head > Len(elts) \div 2
  THEN elts' = SubSeq(elts, head + 1, Len(elts)) /\ headIdx' = head
  ELSE UNCHANGED elts /\ headIdx' = head

\* More than half of the vector is dead: the live elements move to the front.
PopUnsynchronized ==
  LET head == headIdx + 1 IN
  IF head > Len(elts) \div 2
  THEN /\ elts' = SubSeq(elts, head + 1, Len(elts))
       /\ headIdx' = 0
  ELSE /\ UNCHANGED elts
       /\ headIdx' = head

ClearUnsynchronized ==
  /\ elts' = <<>>
  /\ UNCHANGED headIdx

-----------------------------------------------------------------------------
(* The condition variables.                                                 *)

\* pc after notFullCondVar.notify_all, notEmptyCondVar.notify_all, or both.
Woken(p, conds) ==
  [t \in Threads |-> IF p[t] = "pushWait" /\ "notFull" \in conds THEN "push"
                     ELSE IF p[t] = "popWait" /\ "notEmpty" \in conds THEN "pop"
                     ELSE p[t]]

Init ==
  /\ elts = <<>>
  /\ headIdx = 0
  /\ closed = FALSE
  /\ readOnly = FALSE
  /\ pc = [t \in Threads |-> "idle"]
  /\ arg = [t \in Threads |-> NULL]
  /\ ret = [t \in Threads |-> NULL]

Returned(t, r) ==
  /\ arg' = [arg EXCEPT ![t] = NULL]
  /\ ret' = [ret EXCEPT ![t] = r]

-----------------------------------------------------------------------------
(* Writers.                                                                 *)

CallWaitPush(t) ==
  /\ pc[t] = "idle"
  /\ pc' = [pc EXCEPT ![t] = "push"]
  /\ \E v \in Values : arg' = [arg EXCEPT ![t] = v]
  /\ ret' = [ret EXCEPT ![t] = NULL]
  /\ UNCHANGED <<elts, headIdx, closed, readOnly>>

\* Readers are woken by the element that makes the queue non-empty.
ConditionsAfterPush == IF SizeUnsynchronized + 1 = 1 THEN {"notEmpty"} ELSE {}

\* One attempt of waitPush, from taking the mutex to returning or sleeping.
WaitPush(t) ==
  /\ pc[t] = "push"
  /\ \/ /\ ~closed /\ ~readOnly /\ SizeUnsynchronized >= MaxSize
        /\ pc' = [pc EXCEPT ![t] = "pushWait"]
        /\ UNCHANGED <<elts, headIdx, arg, ret>>
     \/ /\ closed \/ readOnly
        /\ pc' = [pc EXCEPT ![t] = "idle"]
        /\ Returned(t, Failure)
        /\ UNCHANGED <<elts, headIdx>>
     \/ /\ ~closed /\ ~readOnly /\ SizeUnsynchronized < MaxSize
        /\ PushUnsynchronized(arg[t])
        /\ pc' = Woken([pc EXCEPT ![t] = "idle"], ConditionsAfterPush)
        /\ Returned(t, Success(NULL))
  /\ UNCHANGED <<closed, readOnly>>

ForcePush(t) ==
  /\ pc[t] = "idle"
  /\ \/ /\ closed \/ readOnly
        /\ ret' = [ret EXCEPT ![t] = Failure]
        /\ UNCHANGED <<elts, headIdx, pc>>
     \/ /\ ~closed /\ ~readOnly
        /\ SizeUnsynchronized < MaxForced
        /\ \E v \in Values : PushUnsynchronized(v)
        /\ pc' = Woken(pc, ConditionsAfterPush)
        /\ ret' = [ret EXCEPT ![t] = Success(NULL)]
  /\ UNCHANGED <<closed, readOnly, arg>>

-----------------------------------------------------------------------------
(* Readers.                                                                 *)

CallWaitPop(t) ==
  /\ pc[t] = "idle"
  /\ pc' = [pc EXCEPT ![t] = "pop"]
  /\ ret' = [ret EXCEPT ![t] = NULL]
  /\ UNCHANGED <<elts, headIdx, closed, readOnly, arg>>

\* Writers are woken by the pop that makes a full queue not full.  Elements forced
\* in beyond maxSize are popped before that happens.
ConditionsAtPop_PastFull == IF SizeUnsynchronized > MaxSize THEN {"notFull"} ELSE {}
ConditionsAtPop == IF SizeUnsynchronized = MaxSize THEN {"notFull"} ELSE {}

WaitPop(t) ==
  /\ pc[t] = "pop"
  /\ \/ /\ ~closed /\ ~readOnly /\ SizeUnsynchronized <= 0
        /\ pc' = [pc EXCEPT ![t] = "popWait"]
        /\ UNCHANGED <<elts, headIdx, arg, ret>>
     \/ /\ closed \/ (readOnly /\ SizeUnsynchronized <= 0)
        /\ pc' = [pc EXCEPT ![t] = "idle"]
        /\ Returned(t, Failure)
        /\ UNCHANGED <<elts, headIdx>>
     \/ /\ ~closed /\ SizeUnsynchronized > 0
        /\ pc' = Woken([pc EXCEPT ![t] = "idle"], ConditionsAtPop)
        /\ Returned(t, Success(Front))
        /\ PopUnsynchronized
  /\ UNCHANGED <<closed, readOnly>>

TryPop(t) ==
  /\ pc[t] = "idle"
  /\ \/ /\ closed \/ SizeUnsynchronized <= 0
        /\ ret' = [ret EXCEPT ![t] = Failure]
        /\ UNCHANGED <<elts, headIdx, pc>>
     \/ /\ ~closed /\ SizeUnsynchronized > 0
        /\ pc' = Woken(pc, ConditionsAtPop)
        /\ ret' = [ret EXCEPT ![t] = Success(Front)]
        /\ PopUnsynchronized
  /\ UNCHANGED <<closed, readOnly, arg>>

\* size().
Size(t) ==
  /\ pc[t] = "idle"
  /\ ret' = [ret EXCEPT ![t] = Success(SizeUnsynchronized)]
  /\ UNCHANGED <<elts, headIdx, closed, readOnly, pc, arg>>

-----------------------------------------------------------------------------
(* Shutting down.                                                           *)

Close ==
  /\ closed' = TRUE
  /\ ClearUnsynchronized
  /\ pc' = Woken(pc, {"notFull", "notEmpty"})
  /\ UNCHANGED <<readOnly, arg, ret>>

SetReadOnly_WakesReaders ==
  /\ readOnly' = TRUE
  /\ pc' = Woken(pc, {"notEmpty"})
  /\ UNCHANGED <<elts, headIdx, closed, arg, ret>>

SetReadOnly ==
  /\ readOnly' = TRUE
  /\ pc' = Woken(pc, {"notFull", "notEmpty"})
  /\ UNCHANGED <<elts, headIdx, closed, arg, ret>>

SpuriousWakeup(t) ==
  /\ \/ pc[t] = "pushWait" /\ pc' = [pc EXCEPT ![t] = "push"]
     \/ pc[t] = "popWait"  /\ pc' = [pc EXCEPT ![t] = "pop"]
  /\ UNCHANGED <<elts, headIdx, closed, readOnly, arg, ret>>

-----------------------------------------------------------------------------

ThreadStep(t) ==
  \/ CallWaitPush(t)
  \/ WaitPush(t)
  \/ ForcePush(t)
  \/ CallWaitPop(t)
  \/ WaitPop(t)
  \/ TryPop(t)
  \/ SpuriousWakeup(t)

\* The program asks a queue for its size only while it is open.  The interface lets it ask
\* a closed one too, but close keeps headIdx when it clears the vector.
Next ==
  \/ \E t \in Threads : ThreadStep(t) \/ (~closed /\ Size(t))
  \/ Close
  \/ SetReadOnly

Spec == Init /\ [][Next]_vars

\* A thread inside a blocking call makes its next attempt when it is awake.
Fairness == \A t \in Threads : WF_vars(WaitPush(t) \/ WaitPop(t))

FairSpec == Spec /\ Fairness

-----------------------------------------------------------------------------
(* Properties.                                                              *)

\* A thread asleep on a condition variable has a reason to sleep: no wakeup is
\* lost, although a push notifies only when the queue becomes non-empty and a pop
\* only when it was exactly full.
SleepersHaveReason ==
  \A t \in Threads :
    /\ pc[t] = "pushWait" => ~closed /\ ~readOnly /\ SizeUnsynchronized >= MaxSize
    /\ pc[t] = "popWait"  => ~closed /\ ~readOnly /\ SizeUnsynchronized <= 0

\* Whenever size() is called on an open queue, whatever was forced in, popped and moved
\* to the front of the vector before, sizeUnsynchronized's assertion holds that the dead
\* prefix lies inside the vector; the size_t difference would wrap around otherwise.
SizeAssertHolds == [][\A t \in Threads : Size(t) => headIdx <= Len(elts)]_vars

\* What the queue looks like from outside: the live elements, and the calls threads are in.
Live == IF closed THEN <<>> ELSE SubSeq(elts, headIdx + 1, Len(elts))
CallOf(p) == IF p \in {"push", "pushWait"} THEN "push"
             ELSE IF p \in {"pop", "popWait"} THEN "pop" ELSE "none"
Calls == [t \in Threads |-> CallOf(pc[t])]

Abstract == INSTANCE BoundedQueue WITH queue <- Live, call <- Calls

\* The queue does what the comments over its functions say: first in first out,
\* bounded except by forcePush, and every blocked thread returns after close or
\* setReadOnly.
QueueRefined == Abstract!FairSpec
=============================================================================
