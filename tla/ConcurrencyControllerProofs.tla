-------------------- MODULE ConcurrencyControllerProofs --------------------
(***************************************************************************)
(* For every finite set of callers and every positive limit: the counter   *)
(* is exact, no slot idles while a caller waits, nobody is overtaken, and  *)
(* the controller implements BoundedPool.                                  *)
(***************************************************************************)
EXTENDS ConcurrencyController, FiniteSetTheorems, SequenceTheorems, TLAPS

\* The inductive invariant.  CounterIsExact needs WorkConserving: an entry is
\* dequeued into the slot just given back only because the slot was the last.
IInv == TypeOK /\ CounterIsExact /\ WorkConserving

-----------------------------------------------------------------------------
\* The set of running operations is finite, so it can be counted, and grows
\* and shrinks by one.
LEMMA RunningIsFinite ==
    ASSUME TypeOK
    PROVE  IsFiniteSet(Running)
<1>1. Running \subseteq Ops
    BY DEF Running
<1> QED
    BY <1>1, OpsAssumption, FS_Subset

\* What a sequence without repetitions keeps when its head leaves.
LEMMA TailOfDistinct ==
    ASSUME NEW q \in Seq(Ops), q # <<>>,
           \A i, j \in DOMAIN q : q[i] = q[j] => i = j
    PROVE  /\ Tail(q) \in Seq(Ops)
           /\ Head(q) \in Ops
           /\ {Tail(q)[i] : i \in DOMAIN Tail(q)} = {q[i] : i \in DOMAIN q} \ {Head(q)}
           /\ Head(q) \in {q[i] : i \in DOMAIN q}
           /\ \A i, j \in DOMAIN Tail(q) : Tail(q)[i] = Tail(q)[j] => i = j
<1>1. /\ Tail(q) \in Seq(Ops) /\ Head(q) \in Ops /\ Head(q) = q[1]
      /\ Len(q) \in Nat \ {0} /\ Len(Tail(q)) = Len(q) - 1
      /\ \A i \in 1..Len(Tail(q)) : Tail(q)[i] = q[i + 1]
    BY HeadTailProperties, EmptySeq, LenProperties
<1>2. DOMAIN q = 1..Len(q) /\ DOMAIN Tail(q) = 1..(Len(q) - 1)
    BY <1>1, LenProperties
<1>3. {Tail(q)[i] : i \in DOMAIN Tail(q)} = {q[i] : i \in DOMAIN q} \ {Head(q)}
  <2>1. ASSUME NEW i \in DOMAIN Tail(q)
        PROVE  Tail(q)[i] \in {q[k] : k \in DOMAIN q} \ {Head(q)}
    <3>1. i + 1 \in DOMAIN q /\ 1 \in DOMAIN q /\ i + 1 # 1
        BY <1>1, <1>2, <2>1
    <3> QED
        BY <1>1, <1>2, <2>1, <3>1
  <2>2. ASSUME NEW k \in DOMAIN q, q[k] # Head(q)
        PROVE  q[k] \in {Tail(q)[i] : i \in DOMAIN Tail(q)}
    <3>1. k - 1 \in DOMAIN Tail(q) /\ (k - 1) + 1 = k
        BY <1>1, <1>2, <2>2
    <3> QED
        BY <1>1, <1>2, <3>1
  <2> QED
      BY <2>1, <2>2
<1>4. Head(q) \in {q[i] : i \in DOMAIN q}
    BY <1>1, <1>2
<1>5. ASSUME NEW i \in DOMAIN Tail(q), NEW j \in DOMAIN Tail(q), Tail(q)[i] = Tail(q)[j]
      PROVE  i = j
  <2>1. i + 1 \in DOMAIN q /\ j + 1 \in DOMAIN q /\ q[i + 1] = q[j + 1]
      BY <1>1, <1>2, <1>5
  <2>2. i + 1 = j + 1
      BY <2>1
  <2> QED
      BY <1>2, <2>2
<1> QED
    BY <1>1, <1>3, <1>4, <1>5

\* What a sequence without repetitions keeps when a new element joins it.
LEMMA AppendDistinct ==
    ASSUME NEW q \in Seq(Ops), NEW o \in Ops,
           \A i, j \in DOMAIN q : q[i] = q[j] => i = j,
           o \notin {q[i] : i \in DOMAIN q}
    PROVE  /\ Append(q, o) \in Seq(Ops)
           /\ Append(q, o) # <<>>
           /\ {Append(q, o)[i] : i \in DOMAIN Append(q, o)} = {q[i] : i \in DOMAIN q} \cup {o}
           /\ \A i, j \in DOMAIN Append(q, o) :
                 Append(q, o)[i] = Append(q, o)[j] => i = j
<1> DEFINE p == Append(q, o)
<1>1. /\ p \in Seq(Ops) /\ Len(p) = Len(q) + 1 /\ Len(q) \in Nat
      /\ \A i \in 1..Len(q) : p[i] = q[i]
      /\ p[Len(q) + 1] = o
    BY AppendProperties, LenProperties
<1>2. DOMAIN q = 1..Len(q) /\ DOMAIN p = 1..(Len(q) + 1)
    BY <1>1, LenProperties
<1> HIDE DEF p
<1>3. p # <<>>
    BY <1>1, EmptySeq
<1>4. {p[i] : i \in DOMAIN p} = {q[i] : i \in DOMAIN q} \cup {o}
    BY <1>1, <1>2
<1>5. \A i, j \in DOMAIN p : p[i] = p[j] => i = j
    BY <1>1, <1>2
<1> QED
    BY <1>1, <1>3, <1>4, <1>5 DEF p
-----------------------------------------------------------------------------
\* No operation runs before the first call.
LEMMA InitIInv == Init => IInv
<1> SUFFICES ASSUME Init PROVE IInv
    OBVIOUS
<1>1. Running = {} /\ Queued = {} /\ DOMAIN queue = {}
    BY DEF Init, Running, Queued
<1>2. TypeOK
    BY MaxAssumption DEF Init, TypeOK, Phases
<1>3. CounterIsExact
    BY <1>1, FS_EmptySet DEF Init, CounterIsExact
<1> QED
    BY <1>2, <1>3 DEF IInv, WorkConserving, Init

\* What the invariant says in terms of the set that Running denotes.
LEMMA RunningBounds ==
    ASSUME IInv
    PROVE  /\ IsFiniteSet(Running)
           /\ Cardinality(Running) = activeCount
           /\ activeCount \in 0..MaxConcurrent
           /\ queue \in Seq(Ops)
           /\ Queued = {queue[i] : i \in DOMAIN queue}
           /\ \A i, j \in DOMAIN queue : queue[i] = queue[j] => i = j
    BY RunningIsFinite DEF IInv, CounterIsExact, TypeOK

\* An operation that finishes leaves the running set.
LEMMA FinishedLeaves ==
    ASSUME IInv, NEW o \in Running
    PROVE  /\ IsFiniteSet(Running \ {o})
           /\ Cardinality(Running \ {o}) = activeCount - 1
           /\ activeCount >= 1
<1>1. IsFiniteSet(Running) /\ Cardinality(Running) = activeCount /\ activeCount \in Nat
    BY RunningBounds, MaxAssumption
<1>2. IsFiniteSet(Running \ {o}) /\ Cardinality(Running \ {o}) = Cardinality(Running) - 1
    BY <1>1, FS_RemoveElement
<1>3. Cardinality(Running \ {o}) \in Nat
    BY <1>2, FS_CardinalityType
<1> QED
    BY <1>1, <1>2, <1>3

\* A call keeps the invariant.
LEMMA EnqueueIInv ==
    ASSUME IInv, NEW o \in Ops, Enqueue(o)
    PROVE  IInv'
<1>1. TypeOK /\ o \notin Running /\ o \notin Queued /\ MaxConcurrent \in Nat
    BY MaxAssumption DEF IInv, Enqueue, Running, Queued
<1>2. CASE /\ activeCount < MaxConcurrent
           /\ activeCount' = activeCount + 1
           /\ phase' = [phase EXCEPT ![o] = "running"]
           /\ UNCHANGED queue
  <2>1. Running' = Running \cup {o} /\ Queued' = Queued
      BY <1>1, <1>2 DEF Running, Queued, TypeOK
  <2>2. Cardinality(Running \cup {o}) = activeCount + 1
      BY <1>1, RunningBounds, FS_AddElement
  <2>3. TypeOK'
      BY <1>1, <1>2 DEF TypeOK, Phases
  <2>4. CounterIsExact'
      BY <1>2, <2>1, <2>2, RunningBounds DEF CounterIsExact
  <2>5. WorkConserving'
      BY <1>1, <1>2 DEF IInv, WorkConserving, TypeOK
  <2> QED
      BY <2>3, <2>4, <2>5 DEF IInv
<1>3. CASE /\ activeCount >= MaxConcurrent
           /\ queue' = Append(queue, o)
           /\ phase' = [phase EXCEPT ![o] = "queued"]
           /\ UNCHANGED activeCount
  <2>1. Running' = Running /\ Queued' = Queued \cup {o}
      BY <1>1, <1>3 DEF Running, Queued, TypeOK
  <2>2. /\ queue' \in Seq(Ops)
        /\ Queued' = {queue[i] : i \in DOMAIN queue}'
        /\ (\A i, j \in DOMAIN queue : queue[i] = queue[j] => i = j)'
      BY <1>1, <1>3, <2>1, RunningBounds, AppendDistinct
  <2>3. TypeOK'
      BY <1>1, <1>3, <2>2 DEF TypeOK, Phases
  <2>4. CounterIsExact'
      BY <1>3, <2>1, <2>2, RunningBounds DEF CounterIsExact
  <2>5. WorkConserving'
      BY <1>1, <1>3, RunningBounds DEF WorkConserving
  <2> QED
      BY <2>3, <2>4, <2>5 DEF IInv
<1> QED
    BY <1>2, <1>3 DEF Enqueue

\* The completion of an operation keeps the invariant.
LEMMA SettleIInv ==
    ASSUME IInv, NEW o \in Ops, NEW outcome \in {"resolved", "rejected"}, Settle(o, outcome)
    PROVE  IInv'
<1>1. TypeOK /\ o \in Running /\ o \notin Queued /\ MaxConcurrent \in Nat
    BY MaxAssumption DEF IInv, Settle, Running, Queued
<1>2. CASE queue = <<>>
  <2>1. activeCount' = activeCount - 1 /\ phase' = [phase EXCEPT ![o] = outcome] /\ queue' = queue
      BY <1>2 DEF Settle
  <2>2. Running' = Running \ {o} /\ Queued' = Queued
      BY <1>1, <2>1 DEF Running, Queued, TypeOK
  <2>3. TypeOK'
    <3>1. activeCount >= 1
        BY <1>1, FinishedLeaves
    <3> QED
        BY <1>1, <2>1, <3>1 DEF TypeOK, Phases
  <2>4. CounterIsExact'
      BY <1>1, <2>1, <2>2, RunningBounds, FinishedLeaves DEF CounterIsExact
  <2> QED
      BY <1>2, <2>1, <2>3, <2>4 DEF IInv, WorkConserving
<1>3. CASE queue # <<>>
  <2> DEFINE h == Head(queue)
  <2>1. /\ activeCount' = (activeCount - 1) + 1
        /\ phase' = [phase EXCEPT ![o] = outcome, ![h] = "running"]
        /\ queue' = Tail(queue)
      BY <1>3 DEF Settle
  <2>2. /\ h \in Queued /\ h \in Ops
        /\ queue' \in Seq(Ops)
        /\ {queue[i] : i \in DOMAIN queue}' = Queued \ {h}
        /\ (\A i, j \in DOMAIN queue : queue[i] = queue[j] => i = j)'
    <3>1. /\ Tail(queue) \in Seq(Ops)
          /\ h \in Ops
          /\ {Tail(queue)[i] : i \in DOMAIN Tail(queue)} = {queue[i] : i \in DOMAIN queue} \ {h}
          /\ h \in {queue[i] : i \in DOMAIN queue}
          /\ \A i, j \in DOMAIN Tail(queue) : Tail(queue)[i] = Tail(queue)[j] => i = j
        BY <1>3, RunningBounds, TailOfDistinct
    <3>2. Queued = {queue[i] : i \in DOMAIN queue}
        BY RunningBounds
    <3> QED
        BY <2>1, <3>1, <3>2
  <2>3. activeCount' = activeCount
      BY <1>1, <2>1 DEF TypeOK
  <2> HIDE DEF h
  <2>4. h # o /\ h \notin Running
      BY <1>1, <2>2 DEF Queued, Running
  <2>5. Running' = (Running \ {o}) \cup {h} /\ Queued' = Queued \ {h}
      BY <1>1, <2>1, <2>2, <2>4 DEF Running, Queued, TypeOK
  <2>6. Cardinality(Running') = activeCount
    <3>1. /\ IsFiniteSet(Running \ {o}) /\ h \notin Running \ {o}
          /\ Cardinality(Running \ {o}) = activeCount - 1
        BY <1>1, <2>4, FinishedLeaves
    <3>2. Cardinality((Running \ {o}) \cup {h}) = (activeCount - 1) + 1
        BY <3>1, FS_AddElement
    <3> QED
        BY <1>1, <2>5, <3>2 DEF TypeOK
  <2>7. TypeOK'
      BY <1>1, <2>1, <2>2, <2>3 DEF TypeOK, Phases
  <2>8. CounterIsExact'
      BY <2>2, <2>3, <2>5, <2>6 DEF CounterIsExact
  <2>9. WorkConserving'
      BY <1>3, <2>3 DEF IInv, WorkConserving
  <2> QED
      BY <2>7, <2>8, <2>9 DEF IInv
<1> QED
    BY <1>2, <1>3

\* Every step keeps the invariant.
LEMMA NextIInv == IInv /\ [Next]_vars => IInv'
<1> SUFFICES ASSUME IInv, [Next]_vars PROVE IInv'
    OBVIOUS
<1>1. CASE UNCHANGED vars
    BY <1>1 DEF IInv, vars, TypeOK, CounterIsExact, WorkConserving, Running, Queued
<1>2. ASSUME NEW o \in Ops, Enqueue(o) PROVE IInv'
    BY <1>2, EnqueueIInv
<1>3. ASSUME NEW o \in Ops, Resolve(o) \/ Reject(o) PROVE IInv'
    BY <1>3, SettleIInv DEF Resolve, Reject
<1> QED
    BY <1>1, <1>2, <1>3 DEF Next

\* The counter is exact, the types hold and no slot idles while a caller
\* waits, in every state of every behaviour.
THEOREM Correctness == Spec => [](TypeOK /\ CounterIsExact /\ WorkConserving)
<1>1. IInv => TypeOK /\ CounterIsExact /\ WorkConserving
    BY DEF IInv
<1> QED
    BY <1>1, InitIInv, NextIInv, PTL DEF Spec
-----------------------------------------------------------------------------
\* One step starts either a newcomer that found no queue or the queue's head.
LEMMA StepKeepsOrder ==
    ASSUME IInv, [Next]_vars, NEW x \in Ops,
           phase[x] # "running", phase'[x] = "running"
    PROVE  IF phase[x] = "queued" THEN x = Head(queue) ELSE queue = <<>>
<1>0. TypeOK /\ MaxConcurrent \in Nat
    BY MaxAssumption DEF IInv
<1>1. CASE UNCHANGED vars
    BY <1>1 DEF vars
<1>2. ASSUME NEW o \in Ops, Enqueue(o)
      PROVE  phase[x] # "queued" /\ queue = <<>>
  <2>1. x = o /\ activeCount < MaxConcurrent /\ phase[x] # "queued"
      BY <1>0, <1>2 DEF Enqueue, TypeOK
  <2> QED
      BY <1>0, <2>1 DEF IInv, WorkConserving, TypeOK
<1>3. ASSUME NEW o \in Ops, NEW outcome \in {"resolved", "rejected"}, Settle(o, outcome)
      PROVE  phase[x] = "queued" /\ x = Head(queue)
  <2>1. queue # <<>> /\ phase' = [phase EXCEPT ![o] = outcome, ![Head(queue)] = "running"]
      BY <1>0, <1>3 DEF Settle, TypeOK
  <2>2. Head(queue) \in Queued /\ Head(queue) \in Ops
      BY <2>1, RunningBounds, TailOfDistinct
  <2>3. x = Head(queue)
      BY <1>0, <1>3, <2>1, <2>2 DEF TypeOK
  <2> QED
      BY <2>2, <2>3 DEF Queued
<1> QED
    BY <1>1, <1>2, <1>3 DEF Next, Resolve, Reject

\* Callers are served in the order in which they came.
THEOREM FirstComeFirstServed == Spec => NoOvertaking
<1>1. IInv /\ [Next]_vars =>
        [\A o \in Ops : phase[o] # "running" /\ phase'[o] = "running"
            => IF phase[o] = "queued" THEN o = Head(queue) ELSE queue = <<>>]_vars
    BY StepKeepsOrder
<1> QED
    BY <1>1, InitIInv, NextIInv, PTL DEF Spec, NoOvertaking
-----------------------------------------------------------------------------
\* A waiting caller exists exactly when the queue is not empty.
LEMMA QueuedIffQueue ==
    ASSUME IInv
    PROVE  Queued = {} <=> queue = <<>>
<1>1. queue \in Seq(Ops) /\ Queued = {queue[i] : i \in DOMAIN queue}
    BY RunningBounds
<1>2. CASE queue = <<>>
    BY <1>1, <1>2
<1>3. CASE queue # <<>>
    BY <1>1, <1>3, TailOfDistinct, RunningBounds
<1> QED
    BY <1>2, <1>3

\* The pool counts as this module does.
LEMMA PoolCardinality == \A S : Pool!Cardinality(S) = Cardinality(S)
    BY DEF Pool!Cardinality, Cardinality

\* Every step of the controller is a step of the pool or leaves it alone.
LEMMA StepIsPoolStep == IInv /\ [Next]_vars => [Pool!PoolNext]_(Pool!poolVars)
<1> SUFFICES ASSUME IInv, [Next]_vars PROVE [Pool!PoolNext]_(Pool!poolVars)
    OBVIOUS
<1>0. TypeOK /\ MaxConcurrent \in Nat
    BY MaxAssumption DEF IInv
<1>1. CASE UNCHANGED vars
    BY <1>1 DEF vars, Pool!poolVars, Running, Queued
<1>2. ASSUME NEW o \in Ops, Enqueue(o)
      PROVE  Pool!Acquire(o) \/ Pool!Wait(o)
  <2>1. o \notin Running \cup Queued
      BY <1>2 DEF Enqueue, Running, Queued
  <2>2. CASE activeCount < MaxConcurrent
    <3>1. Running' = Running \cup {o} /\ Queued' = Queued
        BY <1>0, <1>2, <2>2 DEF Enqueue, Running, Queued, TypeOK
    <3>2. Queued = {}
        BY <1>0, <2>2, QueuedIffQueue DEF IInv, WorkConserving, TypeOK
    <3> QED
        BY <2>1, <2>2, <3>1, <3>2, RunningBounds, PoolCardinality DEF Pool!Acquire
  <2>3. CASE activeCount >= MaxConcurrent
    <3>1. Running' = Running /\ Queued' = Queued \cup {o}
        BY <1>0, <1>2, <2>3 DEF Enqueue, Running, Queued, TypeOK
    <3>2. Cardinality(Running) = MaxConcurrent
        BY <1>0, <2>3, RunningBounds
    <3> QED
        BY <2>1, <3>1, <3>2, PoolCardinality DEF Pool!Wait
  <2> QED
      BY <1>0, <2>2, <2>3 DEF TypeOK
<1>3. ASSUME NEW o \in Ops, NEW outcome \in {"resolved", "rejected"}, Settle(o, outcome)
      PROVE  Pool!Release(o) \/ \E next \in Ops : Pool!HandOver(o, next)
  <2>1. o \in Running /\ o \notin Queued
      BY <1>3 DEF Settle, Running, Queued
  <2>2. CASE queue = <<>>
    <3>1. Running' = Running \ {o} /\ Queued' = Queued /\ Queued = {}
        BY <1>0, <1>3, <2>1, <2>2, QueuedIffQueue DEF Settle, Running, Queued, TypeOK
    <3> QED
        BY <2>1, <3>1 DEF Pool!Release
  <2>3. CASE queue # <<>>
    <3> DEFINE h == Head(queue)
    <3>1. phase' = [phase EXCEPT ![o] = outcome, ![h] = "running"]
        BY <1>3, <2>3 DEF Settle
    <3>2. h \in Queued /\ h \in Ops
        BY <2>3, RunningBounds, TailOfDistinct
    <3> HIDE DEF h
    <3>3. Running' = (Running \ {o}) \cup {h} /\ Queued' = Queued \ {h}
        BY <1>0, <2>1, <3>1, <3>2 DEF Running, Queued, TypeOK
    <3> QED
        BY <2>1, <3>2, <3>3 DEF Pool!HandOver
  <2> QED
      BY <2>2, <2>3
<1> QED
    BY <1>1, <1>2, <1>3 DEF Next, Resolve, Reject, Pool!PoolNext

\* The controller implements the bounded pool.
THEOREM Refinement == Spec => ImplementsPool
<1>1. Init => Pool!PoolInit
    BY DEF Init, Pool!PoolInit, Running, Queued
<1> QED
    BY <1>1, InitIInv, NextIInv, StepIsPoolStep, PTL
       DEF Spec, ImplementsPool, Pool!PoolSpec
=============================================================================
