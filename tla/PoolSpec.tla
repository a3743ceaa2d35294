------------------------------- MODULE PoolSpec -------------------------------
(***************************************************************************)
(* What a splice-pool promises its clients: nodes are free or owned by one *)
(* thread; an acquire moves exactly as many as were asked for out of the   *)
(* free ones, all at once or not at all; a release moves some back; and    *)
(* the free set grows only while some thread asks.                         *)
(***************************************************************************)
EXTENDS Integers, FiniteSets

CONSTANTS
  Thread,  \* the threads that use the pool
  Node,    \* all the nodes there can be
  Count    \* how many a client may ask for

VARIABLES
  free,   \* nodes the pool can hand out
  owned,  \* the nodes each thread owns
  want    \* how many nodes each thread is asking for, -1 when it is not

vars == <<free, owned, want>>

Owned == UNION {owned[t] : t \in Thread}

Init ==
  /\ free = {}
  /\ owned = [t \in Thread |-> {}]
  /\ want = [t \in Thread |-> -1]

Ask(t) ==
  /\ want[t] = -1
  /\ \E n \in Count : want' = [want EXCEPT ![t] = n]
  /\ UNCHANGED <<free, owned>>

Grow(t) ==
  /\ want[t] > 0
  /\ \E S \in SUBSET (Node \ (free \cup Owned)) : free' = free \cup S
  /\ UNCHANGED <<owned, want>>

Acquire(t) ==
  /\ want[t] >= 0
  /\ \E S \in SUBSET free :
       /\ Cardinality(S) = want[t]
       /\ owned' = [owned EXCEPT ![t] = @ \cup S]
       /\ free' = free \ S
  /\ want' = [want EXCEPT ![t] = -1]

Fail(t) ==
  /\ want[t] > 0
  /\ want' = [want EXCEPT ![t] = -1]
  /\ UNCHANGED <<free, owned>>

Release(t) ==
  /\ want[t] = -1
  /\ \E S \in SUBSET owned[t] :
       /\ owned' = [owned EXCEPT ![t] = @ \ S]
       /\ free' = free \cup S
  /\ UNCHANGED want

Give(t, u) ==
  /\ want[t] = -1 /\ want[u] = -1
  /\ owned' = [owned EXCEPT ![t] = {}, ![u] = @ \cup owned[t]]
  /\ UNCHANGED <<free, want>>

Next ==
  \E t \in Thread :
    \/ Ask(t) \/ Grow(t) \/ Acquire(t) \/ Fail(t) \/ Release(t)
    \/ \E u \in Thread \ {t} : Give(t, u)

Spec == Init /\ [][Next]_vars
=============================================================================
