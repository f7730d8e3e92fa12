---------------------------- MODULE BoundedPool ----------------------------
(***************************************************************************)
(* What the concurrency controller promises its callers, with neither its  *)
(* counter nor its queue: at most MaxConcurrent operations are busy, an    *)
(* operation waits only while the pool is full, and a slot that is given   *)
(* up goes to a waiting operation when there is one.                       *)
(***************************************************************************)
EXTENDS Integers, FiniteSets

CONSTANTS Ops, MaxConcurrent

VARIABLES busy, waiting

poolVars == <<busy, waiting>>

PoolInit == busy = {} /\ waiting = {}

\* A caller takes a free slot; nobody is waiting for one.
Acquire(o) ==
    /\ o \notin busy \cup waiting
    /\ Cardinality(busy) < MaxConcurrent
    /\ waiting = {}
    /\ busy' = busy \cup {o}
    /\ UNCHANGED waiting

\* A caller finds the pool full.
Wait(o) ==
    /\ o \notin busy \cup waiting
    /\ Cardinality(busy) = MaxConcurrent
    /\ waiting' = waiting \cup {o}
    /\ UNCHANGED busy

\* An operation ends and nobody wants its slot.
Release(o) ==
    /\ o \in busy
    /\ waiting = {}
    /\ busy' = busy \ {o}
    /\ UNCHANGED waiting

\* An operation ends and hands its slot to a waiting one.
HandOver(o, next) ==
    /\ o \in busy
    /\ next \in waiting
    /\ busy' = (busy \ {o}) \cup {next}
    /\ waiting' = waiting \ {next}

PoolNext ==
    \E o \in Ops :
        Acquire(o) \/ Wait(o) \/ Release(o) \/ \E next \in Ops : HandOver(o, next)

PoolSpec == PoolInit /\ [][PoolNext]_poolVars
=============================================================================
