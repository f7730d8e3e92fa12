----------------------- MODULE ConcurrencyController -----------------------
(***************************************************************************)
(* core/ConcurrencyController.ts: the queue that limits how many remote    *)
(* file-system operations run at once.  JavaScript is single threaded, so  *)
(* a call of enqueue(), and the finally block of execute() together with   *)
(* the dequeue() it makes, are atomic steps; what interleaves is the       *)
(* settling of the operations themselves.  The labels and the status bar   *)
(* messages are left out.                                                  *)
(***************************************************************************)
EXTENDS Integers, Sequences, FiniteSets

CONSTANTS
    Ops,            \* the callers: each has at most one call outstanding
    MaxConcurrent,  \* the constructor's argument, 5 by default
    Hanging         \* operations whose promise may never settle

ASSUME OpsAssumption == IsFiniteSet(Ops)
ASSUME MaxAssumption == MaxConcurrent \in Nat \ {0}

VARIABLES
    activeCount,    \* _activeCount
    queue,          \* the callers whose entries wait, oldest first
    phase           \* what has become of each caller's latest call

vars == <<activeCount, queue, phase>>

Phases == {"idle", "queued", "running", "resolved", "rejected"}

\* The counter stays within its limit, and the queue holds callers.
TypeOK ==
    /\ activeCount \in 0..MaxConcurrent
    /\ queue \in Seq(Ops)
    /\ phase \in [Ops -> Phases]

Running == {o \in Ops : phase[o] = "running"}
Queued == {o \in Ops : phase[o] = "queued"}

Init ==
    /\ activeCount = 0
    /\ queue = <<>>
    /\ phase = [o \in Ops |-> "idle"]

\* Mutation of Enqueue: the comparison admits one operation too many.
EnqueueOffByOne(o) ==
    /\ phase[o] \notin {"queued", "running"}
    /\ \/ /\ activeCount <= MaxConcurrent
          /\ activeCount' = activeCount + 1
          /\ phase' = [phase EXCEPT ![o] = "running"]
          /\ UNCHANGED queue
       \/ /\ activeCount > MaxConcurrent
          /\ queue' = Append(queue, o)
          /\ phase' = [phase EXCEPT ![o] = "queued"]
          /\ UNCHANGED activeCount

\* enqueue(): below the limit the operation starts at once, otherwise its
\* entry joins the queue.
Enqueue(o) ==
    /\ phase[o] \notin {"queued", "running"}
    /\ \/ /\ activeCount < MaxConcurrent
          /\ activeCount' = activeCount + 1
          /\ phase' = [phase EXCEPT ![o] = "running"]
          /\ UNCHANGED queue
       \/ /\ activeCount >= MaxConcurrent
          /\ queue' = Append(queue, o)
          /\ phase' = [phase EXCEPT ![o] = "queued"]
          /\ UNCHANGED activeCount

\* Mutations of Settle: dequeue() starts the entry without going through
\* execute(); dequeue() pops the newest entry; dequeue() runs only after a success.
SettleUncounted(o, outcome) ==
    /\ phase[o] = "running"
    /\ activeCount' = activeCount - 1
    /\ \/ queue = <<>> /\ phase' = [phase EXCEPT ![o] = outcome] /\ UNCHANGED queue
       \/ /\ queue # <<>>
          /\ phase' = [phase EXCEPT ![o] = outcome, ![Head(queue)] = "running"]
          /\ queue' = Tail(queue)

SettleNewestFirst(o, outcome) ==
    /\ phase[o] = "running"
    /\ LET n == Len(queue) IN
       IF n = 0
       THEN /\ activeCount' = activeCount - 1
            /\ phase' = [phase EXCEPT ![o] = outcome]
            /\ UNCHANGED queue
       ELSE /\ phase' = [phase EXCEPT ![o] = outcome, ![queue[n]] = "running"]
            /\ queue' = SubSeq(queue, 1, n - 1)
            /\ UNCHANGED activeCount

SettleDequeueOnSuccess(o, outcome) ==
    /\ phase[o] = "running"
    /\ IF outcome = "resolved" /\ queue # <<>>
       THEN /\ phase' = [phase EXCEPT ![o] = outcome, ![Head(queue)] = "running"]
            /\ queue' = Tail(queue)
            /\ UNCHANGED activeCount
       ELSE /\ activeCount' = activeCount - 1
            /\ phase' = [phase EXCEPT ![o] = outcome]
            /\ UNCHANGED queue

\* The finally block of execute(): the slot is given back, and dequeue()
\* starts the head of the queue in it, whatever the outcome was.
Settle(o, outcome) ==
    /\ phase[o] = "running"
    /\ \/ /\ queue = <<>>
          /\ activeCount' = activeCount - 1
          /\ phase' = [phase EXCEPT ![o] = outcome]
          /\ UNCHANGED queue
       \/ /\ queue # <<>>
          /\ activeCount' = (activeCount - 1) + 1
          /\ phase' = [phase EXCEPT ![o] = outcome, ![Head(queue)] = "running"]
          /\ queue' = Tail(queue)

Resolve(o) == Settle(o, "resolved")
Reject(o) == Settle(o, "rejected")

Next == \E o \in Ops : Enqueue(o) \/ Resolve(o) \/ Reject(o)

\* Every operation settles, except those that may hang: the adapters give
\* their requests a timeout or fail them when the socket closes.
Fairness == \A o \in Ops \ Hanging : WF_vars(Resolve(o) \/ Reject(o))

Spec == Init /\ [][Next]_vars
FairSpec == Spec /\ Fairness
-----------------------------------------------------------------------------
\* The counter that decides whether a call may start is exactly the number of
\* operations in flight, and the queue holds every caller that waits, once
\* (execute() increments and decrements around an await, dequeue() may throw).
CounterIsExact ==
    /\ activeCount = Cardinality(Running)
    /\ Queued = {queue[i] : i \in DOMAIN queue}
    /\ \A i, j \in DOMAIN queue : queue[i] = queue[j] => i = j

\* No slot idles while a caller waits: dequeue() runs at most one entry per
\* completion, so a lost completion would leave the queue stalled.
WorkConserving == queue # <<>> => activeCount = MaxConcurrent

\* A caller that waits is started in turn, and a newcomer never takes the
\* slot that a waiting caller is due.
NoOvertaking ==
    [][\A o \in Ops :
        phase[o] # "running" /\ phase'[o] = "running"
            => IF phase[o] = "queued" THEN o = Head(queue) ELSE queue = <<>>]_vars

\* The controller is a bounded pool whose waiting set is kept in a queue and
\* whose busy set is only counted.
Pool == INSTANCE BoundedPool WITH busy <- Running, waiting <- Queued

ImplementsPool == Pool!PoolSpec

\* A call that waits is eventually started although some operations hang, as
\* long as they do not hold every slot.
QueuedIsStarted ==
    Cardinality(Hanging) < MaxConcurrent
        => \A o \in Ops : phase[o] = "queued" ~> phase[o] = "running"
=============================================================================
