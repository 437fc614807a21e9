------------------------ MODULE ThreadSafeQueueProofs ------------------------
(***************************************************************************)
(* No lost wakeup, and ThreadSafeQueue implements BoundedQueue, for any    *)
(* threads, elements and size.                                             *)
(***************************************************************************)
EXTENDS ThreadSafeQueue, SequenceTheorems, TLAPS

-----------------------------------------------------------------------------
(* The inductive invariant                                                 *)

Pcs == {"idle", "push", "pop", "pushWait", "popWait"}

\* The vector: the dead prefix lies inside it unless a close has emptied it.
VectorOK ==
  /\ elts \in Seq(Values)
  /\ headIdx \in Nat
  /\ ~closed => headIdx <= Len(elts)
  /\ closed => elts = <<>>

ThreadsOK ==
  /\ closed \in BOOLEAN /\ readOnly \in BOOLEAN
  /\ pc \in [Threads -> Pcs]
  /\ arg \in [Threads -> Values \cup {NULL}]
  /\ \A t \in Threads : IF pc[t] \in {"push", "pushWait"} THEN arg[t] \in Values ELSE arg[t] = NULL

IInv == VectorOK /\ ThreadsOK /\ SleepersHaveReason

-----------------------------------------------------------------------------
(* The vector as a queue                                                   *)

Rest(s, h) == SubSeq(s, h + 1, Len(s))

LEMMA RestProperties ==
  ASSUME NEW s \in Seq(Values), NEW h \in Nat, h <= Len(s)
  PROVE  /\ Rest(s, h) \in Seq(Values)
         /\ Len(Rest(s, h)) = Len(s) - h
         /\ \A i \in 1 .. Len(s) - h : Rest(s, h)[i] = s[h + i]
<1>1. Len(s) \in Nat /\ \A i \in h + 1 .. Len(s) : s[i] \in Values
  BY ElementOfSeq, LenProperties
<1>2. /\ SubSeq(s, h + 1, Len(s)) \in Seq(Values)
      /\ Len(SubSeq(s, h + 1, Len(s))) = IF h + 1 <= Len(s) THEN Len(s) - (h + 1) + 1 ELSE 0
      /\ \A i \in 1 .. Len(s) - (h + 1) + 1 : SubSeq(s, h + 1, Len(s))[i] = s[(h + 1) + i - 1]
  BY <1>1, SubSeqProperties
<1> QED
  BY <1>1, <1>2 DEF Rest

LEMMA RestEmpty ==
  ASSUME NEW s \in Seq(Values), NEW h \in Nat, h <= Len(s)
  PROVE  Rest(s, h) = <<>> <=> Len(s) - h <= 0
BY RestProperties, EmptySeq, LenProperties

LEMMA RestAppend ==
  ASSUME NEW s \in Seq(Values), NEW h \in Nat, h <= Len(s), NEW v \in Values
  PROVE  Rest(Append(s, v), h) = Append(Rest(s, h), v)
<1> DEFINE r == Rest(Append(s, v), h)
           q == Append(Rest(s, h), v)
<1>1. Len(s) \in Nat /\ Append(s, v) \in Seq(Values) /\ Len(Append(s, v)) = Len(s) + 1
  BY AppendProperties, LenProperties
<1>2. /\ r \in Seq(Values) /\ Len(r) = (Len(s) - h) + 1
      /\ \A i \in 1 .. (Len(s) - h) + 1 : r[i] = Append(s, v)[h + i]
  <2>1. h <= Len(Append(s, v)) /\ Len(Append(s, v)) - h = (Len(s) - h) + 1
    BY <1>1
  <2>2. /\ r \in Seq(Values) /\ Len(r) = Len(Append(s, v)) - h
        /\ \A i \in 1 .. Len(Append(s, v)) - h : r[i] = Append(s, v)[h + i]
    BY <1>1, <2>1, RestProperties
  <2> QED
    BY <2>1, <2>2
<1>3. /\ q \in Seq(Values) /\ Len(q) = (Len(s) - h) + 1
      /\ \A i \in 1 .. Len(s) - h : q[i] = Rest(s, h)[i]
      /\ q[(Len(s) - h) + 1] = v
  BY <1>1, RestProperties, AppendProperties
<1>4. \A i \in 1 .. Len(r) : r[i] = q[i]
  <2> SUFFICES ASSUME NEW i \in 1 .. Len(r) PROVE r[i] = q[i]
    OBVIOUS
  <2>1. CASE i <= Len(s) - h
    BY <1>1, <1>2, <1>3, <2>1, RestProperties, AppendProperties
  <2>2. CASE i = (Len(s) - h) + 1
    <3>1. h + i = Len(s) + 1 /\ r[i] = Append(s, v)[h + i]
      BY <1>1, <1>2, <2>2
    <3>2. Append(s, v)[Len(s) + 1] = v
      BY AppendProperties
    <3> HIDE DEF r, q
    <3> QED
      BY <1>3, <2>2, <3>1, <3>2
  <2>3. i \in 1 .. (Len(s) - h) + 1
    BY <1>1, <1>2
  <2> HIDE DEF r, q
  <2> QED
    BY <1>1, <2>1, <2>2, <2>3
<1> QED
  BY <1>1, <1>2, <1>3, <1>4, SeqEqual

LEMMA RestPop ==
  ASSUME NEW s \in Seq(Values), NEW h \in Nat, h < Len(s)
  PROVE  /\ Head(Rest(s, h)) = s[h + 1]
         /\ Tail(Rest(s, h)) = Rest(s, h + 1)
<1>1. Len(s) \in Nat /\ h + 1 \in 1 .. Len(s) /\ Len(s) \in h + 1 .. Len(s)
  BY LenProperties
<1> QED
  BY <1>1, HeadTailOfSubSeq DEF Rest

LEMMA RestWhole ==
  ASSUME NEW s \in Seq(Values)
  PROVE  Rest(s, 0) = s
BY SubSeqFull, LenProperties DEF Rest

-----------------------------------------------------------------------------
(* The inductive invariant holds                                           *)

LEMMA PopKeepsVector ==
  ASSUME IInv, ~closed, SizeUnsynchronized > 0, PopUnsynchronized, closed' = closed
  PROVE  /\ VectorOK'
         /\ SizeUnsynchronized' = SizeUnsynchronized - 1
         /\ Front = Head(Live)
         /\ Live # <<>>
         /\ Live' = Tail(Live)
<1>0. /\ elts \in Seq(Values) /\ headIdx \in Nat /\ headIdx < Len(elts) /\ Len(elts) \in Nat
      /\ Live = Rest(elts, headIdx)
  BY LenProperties DEF IInv, VectorOK, SizeUnsynchronized, Live, Rest
<1>1. Front = Head(Live) /\ Rest(elts, headIdx + 1) = Tail(Live) /\ Live # <<>>
  <2>1. Head(Rest(elts, headIdx)) = elts[headIdx + 1]
        /\ Tail(Rest(elts, headIdx)) = Rest(elts, headIdx + 1)
    BY <1>0, RestPop
  <2>2. Rest(elts, headIdx) # <<>>
    BY <1>0, RestEmpty
  <2> QED
    BY <1>0, <2>1, <2>2 DEF Front
<1>2. CASE headIdx + 1 > Len(elts) \div 2
  <2>1. elts' = Rest(elts, headIdx + 1) /\ headIdx' = 0
    BY <1>2 DEF PopUnsynchronized, Rest
  <2>2. elts' \in Seq(Values) /\ Len(elts') = Len(elts) - (headIdx + 1)
    BY <1>0, <2>1, RestProperties
  <2>3. Live' = elts'
    BY <2>1, <2>2, RestWhole DEF Live, Rest
  <2> QED
    BY <1>0, <1>1, <2>1, <2>2, <2>3 DEF VectorOK, SizeUnsynchronized
<1>3. CASE ~(headIdx + 1 > Len(elts) \div 2)
  <2>1. elts' = elts /\ headIdx' = headIdx + 1
    BY <1>3 DEF PopUnsynchronized
  <2>2. Live' = Rest(elts, headIdx + 1)
    BY <2>1 DEF Live, Rest
  <2> QED
    BY <1>0, <1>1, <2>1, <2>2 DEF VectorOK, SizeUnsynchronized
<1> QED
  BY <1>2, <1>3

LEMMA PushKeepsVector ==
  ASSUME IInv, ~closed, NEW v \in Values, PushUnsynchronized(v), closed' = closed
  PROVE  /\ VectorOK'
         /\ SizeUnsynchronized' = SizeUnsynchronized + 1
         /\ Live' = Append(Live, v)
<1>0. /\ elts \in Seq(Values) /\ headIdx \in Nat /\ headIdx <= Len(elts) /\ Len(elts) \in Nat
      /\ Live = Rest(elts, headIdx)
  BY LenProperties DEF IInv, VectorOK, Live, Rest
<1>1. /\ elts' = Append(elts, v) /\ headIdx' = headIdx /\ elts' \in Seq(Values)
      /\ Len(elts') = Len(elts) + 1
  BY <1>0, AppendProperties DEF PushUnsynchronized
<1>2. Live' = Rest(Append(elts, v), headIdx)
  BY <1>1 DEF Live, Rest
<1> QED
  BY <1>0, <1>1, <1>2, RestAppend DEF VectorOK, SizeUnsynchronized

LEMMA InitIInv == Init => IInv
<1>1. <<>> \in Seq(Values) /\ Len(<<>>) = 0
  BY EmptySeq
<1> SUFFICES ASSUME Init PROVE IInv
  OBVIOUS
<1>2. VectorOK
  BY <1>1 DEF Init, VectorOK
<1>3. ThreadsOK
  BY DEF Init, ThreadsOK, Pcs
<1>4. SleepersHaveReason
  BY DEF Init, SleepersHaveReason
<1> QED
  BY <1>2, <1>3, <1>4 DEF IInv

\* What a notification does to one thread.
LEMMA WokenProperties ==
  ASSUME NEW p \in [Threads -> Pcs], NEW conds
  PROVE  /\ Woken(p, conds) \in [Threads -> Pcs]
         /\ \A t \in Threads :
              /\ CallOf(Woken(p, conds)[t]) = CallOf(p[t])
              /\ Woken(p, conds)[t] = "pushWait" => p[t] = "pushWait" /\ "notFull" \notin conds
              /\ Woken(p, conds)[t] = "popWait" => p[t] = "popWait" /\ "notEmpty" \notin conds
BY DEF Woken, Pcs, CallOf

LEMMA SizeIsInt == IInv => SizeUnsynchronized \in Int /\ (~closed => SizeUnsynchronized >= 0)
BY LenProperties DEF IInv, VectorOK, SizeUnsynchronized

\* The parts of the state that an attempt leaves alone when it returns a failure or
\* a thread goes to sleep.
SameVector == UNCHANGED <<elts, headIdx, closed, readOnly>>

LEMMA SameVectorOK ==
  ASSUME IInv, SameVector
  PROVE  VectorOK' /\ SizeUnsynchronized' = SizeUnsynchronized /\ Live' = Live
BY DEF IInv, SameVector, VectorOK, SizeUnsynchronized, Live

\* A push, blocking or forced, of a thread that is idle afterwards.
LEMMA PushKeeps ==
  ASSUME IInv, ~closed, ~readOnly, UNCHANGED <<closed, readOnly>>,
         NEW t \in Threads, NEW v \in Values, PushUnsynchronized(v),
         pc' = Woken([pc EXCEPT ![t] = "idle"], ConditionsAfterPush),
         arg' = [arg EXCEPT ![t] = NULL]
  PROVE  IInv' /\ Live' = Append(Live, v) /\ Calls' = [Calls EXCEPT ![t] = "none"]
<1> DEFINE p == [pc EXCEPT ![t] = "idle"]
<1>0. SizeUnsynchronized \in Int /\ SizeUnsynchronized >= 0 /\ MaxSize \in Int
  BY SizeIsInt, QueueAssumption
<1>1. p \in [Threads -> Pcs] /\ p[t] = "idle" /\ \A u \in Threads \ {t} : p[u] = pc[u]
  BY DEF IInv, ThreadsOK, Pcs
<1>2. /\ VectorOK' /\ SizeUnsynchronized' = SizeUnsynchronized + 1
      /\ Live' = Append(Live, v)
  BY PushKeepsVector
<1>3. /\ pc' \in [Threads -> Pcs]
      /\ \A u \in Threads :
           /\ CallOf(pc'[u]) = CallOf(p[u])
           /\ pc'[u] = "pushWait" => p[u] = "pushWait"
           /\ pc'[u] = "popWait" => p[u] = "popWait" /\ "notEmpty" \notin ConditionsAfterPush
  BY <1>1, WokenProperties, ZenonT(40)
<1> HIDE DEF p
<1>4. ThreadsOK'
  BY <1>1, <1>3 DEF IInv, ThreadsOK, Pcs, CallOf
<1>5. SleepersHaveReason'
  <2> SUFFICES ASSUME NEW u \in Threads
               PROVE  /\ pc'[u] = "pushWait" => SizeUnsynchronized' >= MaxSize
                      /\ pc'[u] # "popWait"
    BY DEF SleepersHaveReason
  <2>1. CASE pc'[u] = "pushWait"
    <3>1. pc[u] = "pushWait"
      BY <1>1, <1>3, <2>1
    <3>2. SizeUnsynchronized >= MaxSize
      BY <3>1 DEF IInv, SleepersHaveReason
    <3> QED
      BY <1>0, <1>2, <2>1, <3>2
  <2>2. CASE pc'[u] = "popWait"
    <3>1. pc[u] = "popWait" /\ "notEmpty" \notin ConditionsAfterPush
      BY <1>1, <1>3, <2>2
    <3>2. SizeUnsynchronized = 0
      BY <3>1, SizeIsInt DEF IInv, SleepersHaveReason
    <3> QED
      BY <3>1, <3>2 DEF ConditionsAfterPush
  <2> QED
    BY <2>1, <2>2
<1>6. Calls' = [Calls EXCEPT ![t] = "none"]
  BY <1>1, <1>3 DEF Calls, CallOf
<1> QED
  BY <1>2, <1>4, <1>5, <1>6 DEF IInv

\* A pop, blocking or not.
LEMMA PopKeeps ==
  ASSUME IInv, ~closed, SizeUnsynchronized > 0, UNCHANGED <<closed, readOnly>>,
         NEW t \in Threads, pc[t] \in {"pop", "idle"}, PopUnsynchronized,
         pc' = Woken([pc EXCEPT ![t] = "idle"], ConditionsAtPop), arg' = arg
  PROVE  IInv' /\ Calls' = [Calls EXCEPT ![t] = "none"]
<1> DEFINE p == [pc EXCEPT ![t] = "idle"]
<1>0. SizeUnsynchronized \in Int /\ SizeUnsynchronized >= 0 /\ MaxSize \in Int
  BY SizeIsInt, QueueAssumption
<1>1. p \in [Threads -> Pcs] /\ p[t] = "idle" /\ \A u \in Threads \ {t} : p[u] = pc[u]
  BY DEF IInv, ThreadsOK, Pcs
<1>2. VectorOK' /\ SizeUnsynchronized' = SizeUnsynchronized - 1
  BY PopKeepsVector
<1>3. /\ pc' \in [Threads -> Pcs]
      /\ \A u \in Threads :
           /\ CallOf(pc'[u]) = CallOf(p[u])
           /\ pc'[u] = "pushWait" => p[u] = "pushWait" /\ "notFull" \notin ConditionsAtPop
           /\ pc'[u] = "popWait" => p[u] = "popWait"
  BY <1>1, WokenProperties, ZenonT(40)
<1> HIDE DEF p
<1>4. ThreadsOK'
  BY <1>1, <1>3 DEF IInv, ThreadsOK, Pcs, CallOf
<1>5. SleepersHaveReason'
  <2> SUFFICES ASSUME NEW u \in Threads
               PROVE  /\ pc'[u] = "pushWait" => ~readOnly /\ SizeUnsynchronized' >= MaxSize
                      /\ pc'[u] # "popWait"
    BY DEF SleepersHaveReason
  <2>1. CASE pc'[u] = "pushWait"
    <3>1. pc[u] = "pushWait" /\ "notFull" \notin ConditionsAtPop
      BY <1>1, <1>3, <2>1
    <3>2. ~readOnly /\ SizeUnsynchronized >= MaxSize /\ SizeUnsynchronized # MaxSize
      BY <3>1 DEF IInv, SleepersHaveReason, ConditionsAtPop
    <3> QED
      BY <1>0, <1>2, <2>1, <3>2
  <2>2. CASE pc'[u] = "popWait"
    <3>1. pc[u] = "popWait"
      BY <1>1, <1>3, <2>2
    <3>2. SizeUnsynchronized <= 0
      BY <3>1 DEF IInv, SleepersHaveReason
    <3> QED
      BY <1>0, <3>2
  <2> QED
    BY <2>1, <2>2
<1>6. Calls' = [Calls EXCEPT ![t] = "none"]
  BY <1>1, <1>3 DEF Calls, CallOf
<1> QED
  BY <1>2, <1>4, <1>5, <1>6 DEF IInv

\* A call that fails or goes to sleep, a call that begins: one thread moves, in the
\* same vector, and goes to sleep only for a reason.
LEMMA MoveKeeps ==
  ASSUME IInv, SameVector, NEW t \in Threads, NEW q \in Pcs, NEW a \in Values \cup {NULL},
         pc' = [pc EXCEPT ![t] = q], arg' = [arg EXCEPT ![t] = a],
         q \in {"push", "pushWait"} => a \in Values,
         q \notin {"push", "pushWait"} => a = NULL,
         q = "pushWait" => ~closed /\ ~readOnly /\ SizeUnsynchronized >= MaxSize,
         q = "popWait" => ~closed /\ ~readOnly /\ SizeUnsynchronized <= 0
  PROVE  IInv' /\ Live' = Live /\ Calls' = [Calls EXCEPT ![t] = CallOf(q)]
<1>1. VectorOK' /\ SizeUnsynchronized' = SizeUnsynchronized /\ Live' = Live
  BY SameVectorOK
<1>2. /\ pc' \in [Threads -> Pcs] /\ pc'[t] = q /\ arg'[t] = a
      /\ arg' \in [Threads -> Values \cup {NULL}]
      /\ \A u \in Threads \ {t} : pc'[u] = pc[u] /\ arg'[u] = arg[u]
  BY DEF IInv, ThreadsOK
<1>3. ThreadsOK'
  BY <1>2 DEF IInv, ThreadsOK, SameVector
<1>4. SleepersHaveReason'
  BY <1>1, <1>2 DEF IInv, SleepersHaveReason, SameVector
<1>5. Calls' = [Calls EXCEPT ![t] = CallOf(q)]
  BY <1>2 DEF Calls
<1> QED
  BY <1>1, <1>3, <1>4, <1>5 DEF IInv

\* Everyone is woken: by close and setReadOnly.
LEMMA WakeAllKeeps ==
  ASSUME IInv, pc' = Woken(pc, {"notFull", "notEmpty"}), arg' = arg, VectorOK',
         closed' \in BOOLEAN, readOnly' \in BOOLEAN
  PROVE  IInv' /\ Calls' = Calls
<1>1. /\ pc' \in [Threads -> Pcs]
      /\ \A t \in Threads : /\ CallOf(pc'[t]) = CallOf(pc[t])
                            /\ pc'[t] # "pushWait" /\ pc'[t] # "popWait"
  BY WokenProperties DEF IInv, ThreadsOK
<1>2. ThreadsOK'
  BY <1>1 DEF IInv, ThreadsOK, Pcs, CallOf
<1>3. SleepersHaveReason'
  BY <1>1 DEF SleepersHaveReason
<1>4. Calls' = Calls
  BY <1>1 DEF Calls
<1> QED
  BY <1>2, <1>3, <1>4 DEF IInv

-----------------------------------------------------------------------------
(* The steps, each with what it is in the abstract queue                   *)

LEMMA LiveLength == IInv /\ ~closed => Len(Live) = SizeUnsynchronized
<1> SUFFICES ASSUME IInv, ~closed PROVE Len(Live) = SizeUnsynchronized
  OBVIOUS
<1>1. elts \in Seq(Values) /\ headIdx \in Nat /\ headIdx <= Len(elts)
  BY DEF IInv, VectorOK
<1> QED
  BY <1>1, RestProperties DEF Live, Rest, SizeUnsynchronized

LEMMA LiveEmpty == IInv /\ ~closed => (Live = <<>> <=> SizeUnsynchronized <= 0)
<1> SUFFICES ASSUME IInv, ~closed PROVE Live = <<>> <=> SizeUnsynchronized <= 0
  OBVIOUS
<1>1. elts \in Seq(Values) /\ headIdx \in Nat /\ headIdx <= Len(elts)
  BY DEF IInv, VectorOK
<1> QED
  BY <1>1, RestEmpty DEF Live, Rest, SizeUnsynchronized

\* The fields of one thread, and that an assignment that changes nothing changes nothing.
LEMMA OfThread ==
  ASSUME IInv, NEW t \in Threads
  PROVE  /\ Calls[t] = CallOf(pc[t])
         /\ pc[t] \notin {"push", "pushWait"} => arg[t] = NULL
         /\ pc[t] \in {"push", "pushWait"} => arg[t] \in Values
         /\ [pc EXCEPT ![t] = pc[t]] = pc /\ [arg EXCEPT ![t] = arg[t]] = arg
         /\ [Calls EXCEPT ![t] = CallOf(pc[t])] = Calls
BY DEF IInv, ThreadsOK, Calls

LEMMA CallWaitPushStep ==
  ASSUME IInv, NEW t \in Threads, CallWaitPush(t)
  PROVE  IInv' /\ Abstract!Call(t)
<1>1. PICK v \in Values : arg' = [arg EXCEPT ![t] = v]
  BY DEF CallWaitPush
<1>2. IInv' /\ Live' = Live /\ Calls' = [Calls EXCEPT ![t] = "push"]
  BY <1>1, MoveKeeps DEF CallWaitPush, SameVector, Pcs, CallOf
<1>3. Calls[t] = "none"
  BY OfThread DEF CallWaitPush, CallOf
<1> QED
  BY <1>1, <1>2, <1>3 DEF CallWaitPush, Abstract!Call

LEMMA CallWaitPopStep ==
  ASSUME IInv, NEW t \in Threads, CallWaitPop(t)
  PROVE  IInv' /\ Abstract!Call(t)
<1>1. arg' = [arg EXCEPT ![t] = NULL] /\ Calls[t] = "none"
  BY OfThread DEF CallWaitPop, CallOf
<1>2. IInv' /\ Live' = Live /\ Calls' = [Calls EXCEPT ![t] = "pop"]
  BY <1>1, MoveKeeps DEF CallWaitPop, SameVector, Pcs, CallOf
<1> QED
  BY <1>1, <1>2 DEF CallWaitPop, Abstract!Call

LEMMA WaitPushStep ==
  ASSUME IInv, NEW t \in Threads, WaitPush(t)
  PROVE  IInv' /\ (Abstract!Push(t) \/ UNCHANGED Abstract!vars)
<1>0. Calls[t] = "push" /\ arg[t] \in Values
  BY OfThread DEF WaitPush, CallOf
<1>1. CASE /\ ~closed /\ ~readOnly /\ SizeUnsynchronized >= MaxSize
           /\ pc' = [pc EXCEPT ![t] = "pushWait"]
           /\ UNCHANGED <<elts, headIdx, arg, ret>>
  <2>1. SameVector /\ arg' = [arg EXCEPT ![t] = arg[t]]
    BY <1>1, OfThread DEF WaitPush, SameVector
  <2>2. IInv' /\ Live' = Live /\ Calls' = [Calls EXCEPT ![t] = "push"]
    BY <1>0, <1>1, <2>1, MoveKeeps DEF Pcs, CallOf
  <2>3. Calls' = Calls
    BY <2>2, OfThread DEF WaitPush, CallOf
  <2> QED
    BY <1>1, <2>1, <2>2, <2>3 DEF Abstract!vars, SameVector
<1>2. CASE /\ closed \/ readOnly
           /\ pc' = [pc EXCEPT ![t] = "idle"]
           /\ Returned(t, Failure)
           /\ UNCHANGED <<elts, headIdx>>
  <2>1. SameVector /\ arg' = [arg EXCEPT ![t] = NULL]
    BY <1>2 DEF WaitPush, SameVector, Returned
  <2>2. IInv' /\ Live' = Live /\ Calls' = [Calls EXCEPT ![t] = "none"]
    BY <1>2, <2>1, MoveKeeps DEF Pcs, CallOf
  <2>3. Abstract!Push(t)
    BY <1>0, <1>2, <2>1, <2>2 DEF Abstract!Push, Abstract!Return, Abstract!Failure, Failure,
       Returned, SameVector
  <2> QED
    BY <2>2, <2>3
<1>3. CASE /\ ~closed /\ ~readOnly /\ SizeUnsynchronized < MaxSize
           /\ PushUnsynchronized(arg[t])
           /\ pc' = Woken([pc EXCEPT ![t] = "idle"], ConditionsAfterPush)
           /\ Returned(t, Success(NULL))
  <2>1. UNCHANGED <<closed, readOnly>> /\ arg' = [arg EXCEPT ![t] = NULL]
    BY <1>3 DEF WaitPush, Returned
  <2>2. IInv' /\ Live' = Append(Live, arg[t]) /\ Calls' = [Calls EXCEPT ![t] = "none"]
    BY <1>0, <1>3, <2>1, PushKeeps
  <2>3. Len(Live) < MaxSize
    BY <1>3, LiveLength
  <2>4. Abstract!Push(t)
    BY <1>0, <1>3, <2>1, <2>2, <2>3 DEF Abstract!Push, Abstract!Return, Abstract!Success, Success,
       Returned
  <2> QED
    BY <2>2, <2>4
<1> QED
  BY <1>1, <1>2, <1>3 DEF WaitPush

LEMMA WaitPopStep ==
  ASSUME IInv, NEW t \in Threads, WaitPop(t)
  PROVE  IInv' /\ (Abstract!Pop(t) \/ UNCHANGED Abstract!vars)
<1>0. Calls[t] = "pop" /\ arg[t] = NULL /\ [arg EXCEPT ![t] = NULL] = arg
  BY OfThread DEF WaitPop, CallOf
<1>1. CASE /\ ~closed /\ ~readOnly /\ SizeUnsynchronized <= 0
           /\ pc' = [pc EXCEPT ![t] = "popWait"]
           /\ UNCHANGED <<elts, headIdx, arg, ret>>
  <2>1. SameVector /\ arg' = [arg EXCEPT ![t] = NULL]
    BY <1>0, <1>1 DEF WaitPop, SameVector
  <2>2. IInv' /\ Live' = Live /\ Calls' = [Calls EXCEPT ![t] = "pop"]
    BY <1>1, <2>1, MoveKeeps DEF Pcs, CallOf
  <2>3. Calls' = Calls
    BY <2>2, OfThread DEF WaitPop, CallOf
  <2> QED
    BY <1>1, <2>1, <2>2, <2>3 DEF Abstract!vars, SameVector
<1>2. CASE /\ closed \/ (readOnly /\ SizeUnsynchronized <= 0)
           /\ pc' = [pc EXCEPT ![t] = "idle"]
           /\ Returned(t, Failure)
           /\ UNCHANGED <<elts, headIdx>>
  <2>1. SameVector /\ arg' = [arg EXCEPT ![t] = NULL]
    BY <1>2 DEF WaitPop, SameVector, Returned
  <2>2. IInv' /\ Live' = Live /\ Calls' = [Calls EXCEPT ![t] = "none"]
    BY <1>2, <2>1, MoveKeeps DEF Pcs, CallOf
  <2>3. closed \/ (readOnly /\ Live = <<>>)
    BY <1>2, LiveEmpty
  <2>4. Abstract!Pop(t)
    BY <1>0, <1>2, <2>1, <2>2, <2>3 DEF Abstract!Pop, Abstract!Return, Abstract!Failure, Failure,
       Returned, SameVector
  <2> QED
    BY <2>2, <2>4
<1>3. CASE /\ ~closed /\ SizeUnsynchronized > 0
           /\ pc' = Woken([pc EXCEPT ![t] = "idle"], ConditionsAtPop)
           /\ Returned(t, Success(Front))
           /\ PopUnsynchronized
  <2>1. UNCHANGED <<closed, readOnly>> /\ arg' = arg /\ pc[t] = "pop"
    BY <1>0, <1>3 DEF WaitPop, Returned
  <2>2. IInv' /\ Calls' = [Calls EXCEPT ![t] = "none"]
    BY <1>3, <2>1, PopKeeps
  <2>3. Front = Head(Live) /\ Live # <<>> /\ Live' = Tail(Live)
    BY <1>3, <2>1, PopKeepsVector
  <2>4. Abstract!Pop(t)
    BY <1>0, <1>3, <2>1, <2>2, <2>3 DEF Abstract!Pop, Abstract!Return, Abstract!Success, Success,
       Returned
  <2> QED
    BY <2>2, <2>4
<1> QED
  BY <1>1, <1>2, <1>3 DEF WaitPop

LEMMA ForcePushStep ==
  ASSUME IInv, NEW t \in Threads, ForcePush(t)
  PROVE  IInv' /\ Abstract!ForcePush(t)
<1>0. /\ Calls[t] = "none" /\ arg[t] = NULL
      /\ [pc EXCEPT ![t] = "idle"] = pc /\ [arg EXCEPT ![t] = NULL] = arg
      /\ [Calls EXCEPT ![t] = "none"] = Calls
  BY OfThread DEF ForcePush, CallOf
<1>1. CASE /\ closed \/ readOnly
           /\ ret' = [ret EXCEPT ![t] = Failure]
           /\ UNCHANGED <<elts, headIdx, pc>>
  <2>1. SameVector /\ pc' = [pc EXCEPT ![t] = "idle"] /\ arg' = [arg EXCEPT ![t] = NULL]
    BY <1>0, <1>1 DEF ForcePush, SameVector
  <2>2. IInv' /\ Live' = Live /\ Calls' = Calls
    BY <1>0, <2>1, MoveKeeps DEF Pcs, CallOf
  <2> QED
    BY <1>0, <1>1, <2>1, <2>2 DEF Abstract!ForcePush, Abstract!Failure, Failure, SameVector
<1>2. CASE /\ ~closed /\ ~readOnly
           /\ \E v \in Values : PushUnsynchronized(v)
           /\ pc' = Woken(pc, ConditionsAfterPush)
           /\ ret' = [ret EXCEPT ![t] = Success(NULL)]
  <2>1. PICK v \in Values : PushUnsynchronized(v)
    BY <1>2
  <2>2. /\ UNCHANGED <<closed, readOnly>> /\ arg' = [arg EXCEPT ![t] = NULL]
        /\ pc' = Woken([pc EXCEPT ![t] = "idle"], ConditionsAfterPush)
    BY <1>0, <1>2 DEF ForcePush
  <2>3. IInv' /\ Live' = Append(Live, v) /\ Calls' = [Calls EXCEPT ![t] = "none"]
    BY <1>2, <2>1, <2>2, PushKeeps
  <2> QED
    BY <1>0, <1>2, <2>2, <2>3 DEF Abstract!ForcePush, Abstract!Success, Success
<1> QED
  BY <1>1, <1>2 DEF ForcePush

LEMMA TryPopStep ==
  ASSUME IInv, NEW t \in Threads, TryPop(t)
  PROVE  IInv' /\ Abstract!TryPop(t)
<1>0. /\ Calls[t] = "none" /\ arg[t] = NULL
      /\ [pc EXCEPT ![t] = "idle"] = pc /\ [arg EXCEPT ![t] = NULL] = arg
      /\ [Calls EXCEPT ![t] = "none"] = Calls
  BY OfThread DEF TryPop, CallOf
<1>1. CASE /\ closed \/ SizeUnsynchronized <= 0
           /\ ret' = [ret EXCEPT ![t] = Failure]
           /\ UNCHANGED <<elts, headIdx, pc>>
  <2>1. SameVector /\ pc' = [pc EXCEPT ![t] = "idle"] /\ arg' = [arg EXCEPT ![t] = NULL]
    BY <1>0, <1>1 DEF TryPop, SameVector
  <2>2. IInv' /\ Live' = Live /\ Calls' = Calls
    BY <1>0, <2>1, MoveKeeps DEF Pcs, CallOf
  <2>3. closed \/ Live = <<>>
    BY <1>1, LiveEmpty
  <2> QED
    BY <1>0, <1>1, <2>1, <2>2, <2>3 DEF Abstract!TryPop, Abstract!Failure, Failure, SameVector
<1>2. CASE /\ ~closed /\ SizeUnsynchronized > 0
           /\ pc' = Woken(pc, ConditionsAtPop)
           /\ ret' = [ret EXCEPT ![t] = Success(Front)]
           /\ PopUnsynchronized
  <2>1. /\ UNCHANGED <<closed, readOnly>> /\ arg' = arg /\ pc[t] = "idle"
        /\ pc' = Woken([pc EXCEPT ![t] = "idle"], ConditionsAtPop)
    BY <1>0, <1>2 DEF TryPop
  <2>2. IInv' /\ Calls' = [Calls EXCEPT ![t] = "none"]
    BY <1>2, <2>1, PopKeeps
  <2>3. Front = Head(Live) /\ Live # <<>> /\ Live' = Tail(Live)
    BY <1>2, <2>1, PopKeepsVector
  <2> QED
    BY <1>0, <1>2, <2>1, <2>2, <2>3 DEF Abstract!TryPop, Abstract!Success, Success
<1> QED
  BY <1>1, <1>2 DEF TryPop

LEMMA SizeStep ==
  ASSUME IInv, NEW t \in Threads, ~closed, Size(t)
  PROVE  IInv' /\ Abstract!Size(t)
<1>0. /\ Calls[t] = "none" /\ arg[t] = NULL
      /\ [pc EXCEPT ![t] = "idle"] = pc /\ [arg EXCEPT ![t] = NULL] = arg
      /\ [Calls EXCEPT ![t] = "none"] = Calls
  BY OfThread DEF Size, CallOf
<1>1. SameVector /\ pc' = [pc EXCEPT ![t] = "idle"] /\ arg' = [arg EXCEPT ![t] = NULL]
  BY <1>0 DEF Size, SameVector
<1>2. IInv' /\ Live' = Live /\ Calls' = Calls
  BY <1>0, <1>1, MoveKeeps DEF Pcs, CallOf
<1> QED
  BY <1>0, <1>1, <1>2, LiveLength DEF Size, SameVector, Abstract!Size, Abstract!Success, Success

LEMMA SpuriousWakeupStep ==
  ASSUME IInv, NEW t \in Threads, SpuriousWakeup(t)
  PROVE  IInv' /\ UNCHANGED Abstract!vars
<1>1. SameVector /\ arg' = [arg EXCEPT ![t] = arg[t]] /\ ret' = ret
  BY OfThread DEF SpuriousWakeup, SameVector
<1>2. CASE pc[t] = "pushWait" /\ pc' = [pc EXCEPT ![t] = "push"]
  <2>1. arg[t] \in Values /\ CallOf("push") = CallOf(pc[t])
    BY <1>2, OfThread DEF CallOf
  <2>2. IInv' /\ Live' = Live /\ Calls' = [Calls EXCEPT ![t] = CallOf("push")]
    BY <1>1, <1>2, <2>1, MoveKeeps DEF Pcs
  <2> QED
    BY <1>1, <2>1, <2>2, OfThread DEF SpuriousWakeup, Abstract!vars
<1>3. CASE pc[t] = "popWait" /\ pc' = [pc EXCEPT ![t] = "pop"]
  <2>1. arg[t] = NULL /\ CallOf("pop") = CallOf(pc[t])
    BY <1>3, OfThread DEF CallOf
  <2>2. IInv' /\ Live' = Live /\ Calls' = [Calls EXCEPT ![t] = CallOf("pop")]
    BY <1>1, <1>3, <2>1, MoveKeeps DEF Pcs
  <2> QED
    BY <1>1, <2>1, <2>2, OfThread DEF SpuriousWakeup, Abstract!vars
<1> QED
  BY <1>2, <1>3 DEF SpuriousWakeup

LEMMA CloseStep == IInv /\ Close => IInv' /\ Abstract!Close
<1> SUFFICES ASSUME IInv, Close PROVE IInv' /\ Abstract!Close
  OBVIOUS
<1>1. VectorOK' /\ Live' = <<>>
  BY EmptySeq DEF IInv, VectorOK, Close, ClearUnsynchronized, Live
<1>2. IInv' /\ Calls' = Calls
  BY <1>1, WakeAllKeeps DEF Close, IInv, ThreadsOK
<1> QED
  BY <1>1, <1>2 DEF Close, Abstract!Close

LEMMA SetReadOnlyStep == IInv /\ SetReadOnly => IInv' /\ Abstract!SetReadOnly
<1> SUFFICES ASSUME IInv, SetReadOnly PROVE IInv' /\ Abstract!SetReadOnly
  OBVIOUS
<1>1. VectorOK' /\ Live' = Live
  BY DEF IInv, VectorOK, SetReadOnly, Live
<1>2. IInv' /\ Calls' = Calls
  BY <1>1, WakeAllKeeps DEF SetReadOnly, IInv, ThreadsOK
<1> QED
  BY <1>1, <1>2 DEF SetReadOnly, Abstract!SetReadOnly

LEMMA Stuttering == IInv /\ UNCHANGED vars => IInv' /\ UNCHANGED Abstract!vars
  BY DEF IInv, VectorOK, ThreadsOK, SleepersHaveReason, SizeUnsynchronized, Live, Calls, vars,
     Abstract!vars

LEMMA NextStep == IInv /\ [Next]_vars => IInv' /\ [Abstract!Next]_Abstract!vars
<1> SUFFICES ASSUME IInv, [Next]_vars PROVE IInv' /\ [Abstract!Next]_Abstract!vars
  OBVIOUS
<1>1. ASSUME NEW t \in Threads, ThreadStep(t) \/ (~closed /\ Size(t))
      PROVE  IInv' /\ [Abstract!Next]_Abstract!vars
  BY <1>1, CallWaitPushStep, WaitPushStep, ForcePushStep, CallWaitPopStep, WaitPopStep,
     TryPopStep, SizeStep, SpuriousWakeupStep DEF ThreadStep, Abstract!Next
<1>2. ASSUME Close \/ SetReadOnly
      PROVE  IInv' /\ [Abstract!Next]_Abstract!vars
  BY <1>2, CloseStep, SetReadOnlyStep DEF Abstract!Next
<1> QED
  BY <1>1, <1>2, Stuttering DEF Next

LEMMA InitRefined == Init => Abstract!Init
<1> SUFFICES ASSUME Init PROVE Abstract!Init
  OBVIOUS
<1>1. Live = <<>>
  BY EmptySeq, SubSeqEmpty DEF Init, Live
<1>2. Calls = [t \in Threads |-> "none"]
  BY DEF Init, Calls, CallOf
<1> QED
  BY <1>1, <1>2 DEF Init, Abstract!Init

-----------------------------------------------------------------------------
(* The theorems                                                            *)

\* In every reachable state the dead prefix lies inside the vector until a close, and
\* nobody sleeps who has something to do (ThreadSafeContainer and ThreadSafeQueue).
THEOREM Invariance == Spec => []IInv
<1>1. IInv /\ [Next]_vars => IInv'
  BY NextStep
<1> QED
  BY <1>1, InitIInv, PTL DEF Spec

\* No wakeup is lost, although a push notifies only when the queue becomes non-empty and
\* a pop only when it was exactly full (waitPush, waitPop and their notify_all).
THEOREM NoWakeupLost == Spec => []SleepersHaveReason
<1>1. IInv => SleepersHaveReason
  BY DEF IInv
<1> QED
  BY <1>1, Invariance, PTL

\* The queue is a first-in first-out queue of bounded size, as the comments over its
\* functions say: the safety part of QueueRefined.
THEOREM ImplementsQueue == Spec => Abstract!Spec
  BY Invariance, InitRefined, NextStep, PTL DEF Spec, Abstract!Spec

-----------------------------------------------------------------------------
(* What calls return, and that only Size returns a size                    *)

Rets == {NULL, Failure} \cup {Success(x) : x \in Values \cup Int \cup {NULL}}
RetOK == ret \in [Threads -> Rets]

LEMMA ReturnsOK ==
  /\ NULL \in Rets /\ Failure \in Rets /\ Success(NULL) \in Rets
  /\ IInv => Success(SizeUnsynchronized) \in Rets
  /\ IInv /\ ~closed /\ SizeUnsynchronized > 0 => Success(Front) \in Rets
<1>1. IInv => SizeUnsynchronized \in Int
  BY SizeIsInt
<1>2. IInv /\ ~closed /\ SizeUnsynchronized > 0 => Front \in Values
  <2> SUFFICES ASSUME IInv, ~closed, SizeUnsynchronized > 0 PROVE Front \in Values
    OBVIOUS
  <2>1. elts \in Seq(Values) /\ headIdx + 1 \in 1 .. Len(elts)
    BY LenProperties DEF IInv, VectorOK, SizeUnsynchronized
  <2> QED
    BY <2>1, ElementOfSeq DEF Front
<1> QED
  BY <1>1, <1>2 DEF Rets

LEMMA RetStep ==
  ASSUME IInv, RetOK, NEW t \in Threads, ThreadStep(t) \/ Size(t)
  PROVE  RetOK'
<1>1. ret' = ret \/ \E r \in Rets : ret' = [ret EXCEPT ![t] = r]
  BY ReturnsOK DEF ThreadStep, CallWaitPush, WaitPush, ForcePush, CallWaitPop, WaitPop, TryPop,
     Size, SpuriousWakeup, Returned
<1> QED
  BY <1>1 DEF RetOK

LEMMA RetInvariance == Spec => []RetOK
<1>1. Init => RetOK
  BY ReturnsOK DEF Init, RetOK
<1>2. IInv /\ RetOK /\ [Next]_vars => RetOK'
  <2> SUFFICES ASSUME IInv, RetOK, [Next]_vars PROVE RetOK'
    OBVIOUS
  <2> QED
    BY RetStep DEF Next, Close, SetReadOnly, vars, RetOK
<1> QED
  BY <1>1, <1>2, Invariance, PTL DEF Spec

\* A step of a closed queue that looks like a call of size() is no step at all.
LEMMA NoSizeOfClosed ==
  ASSUME IInv, RetOK, Next, closed, NEW t \in Threads, Size(t)
  PROVE  UNCHANGED vars
<1>1. /\ UNCHANGED <<elts, headIdx, closed, readOnly, pc, arg>> /\ ret'[t].ok = TRUE
      /\ pc \in [Threads -> Pcs] /\ \A u \in Threads \ {t} : ret'[u] = ret[u]
  BY DEF Size, Success, RetOK, IInv, ThreadsOK
<1>2. ASSUME NEW u \in Threads, ThreadStep(u) \/ (~closed /\ Size(u))
      PROVE  UNCHANGED vars
  <2>1. CASE CallWaitPush(u) \/ CallWaitPop(u) \/ SpuriousWakeup(u)
    BY <1>1, <2>1 DEF CallWaitPush, CallWaitPop, SpuriousWakeup
  <2>2. CASE WaitPush(u) \/ WaitPop(u)
    BY <1>1, <2>2 DEF WaitPush, WaitPop
  <2>3. CASE ForcePush(u) \/ TryPop(u)
    <3>1. ret' = [ret EXCEPT ![u] = Failure]
      BY <2>3 DEF ForcePush, TryPop
    <3>2. u # t
      BY <1>1, <3>1 DEF RetOK, Failure
    <3>3. ret'[u] = ret[u] /\ ret'[u] = Failure
      BY <1>1, <3>1, <3>2 DEF RetOK
    <3>4. ret' = ret
      BY <3>1, <3>3 DEF RetOK
    <3> QED
      BY <1>1, <3>4 DEF vars
  <2> QED
    BY <1>2, <2>1, <2>2, <2>3 DEF ThreadStep
<1>3. CASE Close \/ SetReadOnly
  BY <1>1, <1>3 DEF Close, SetReadOnly, vars
<1> QED
  BY <1>2, <1>3 DEF Next

\* Whenever the program asks for the size, the assertion of sizeUnsynchronized holds: it
\* asks only while the queue is open.  A closed queue may have fewer entries in its vector
\* than headIdx says were popped.
THEOREM SizeAssertHoldsWhileOpen == Spec => SizeAssertHolds
<1>1. IInv /\ RetOK /\ [Next]_vars => [\A t \in Threads : Size(t) => headIdx <= Len(elts)]_vars
  <2> SUFFICES ASSUME IInv, RetOK, Next, NEW t \in Threads, Size(t), ~(UNCHANGED vars)
               PROVE  headIdx <= Len(elts)
    OBVIOUS
  <2> QED
    BY NoSizeOfClosed DEF IInv, VectorOK
<1> QED
  BY <1>1, Invariance, RetInvariance, PTL DEF Spec, SizeAssertHolds
=============================================================================
