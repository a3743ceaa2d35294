----------------------------- MODULE ObjectSlots -----------------------------
(***************************************************************************)
(* The objects in the nodes of an ObjectPool<T>: which constructor made the *)
(* value of a node, and where the node is, along the operations of the pool  *)
(* and its handles that construct, destruct or move values, when any         *)
(* constructor of T may throw.                                               *)
(*                                                                           *)
(* Every node has a default value to begin with, from the constructor of its *)
(* block (Node()) or from its last reset.  Handles are modelled as the nodes *)
(* they own; a plain pointer or Stack of the client is one more of them, and *)
(* the pool's release of it a reset().  Threads make no difference here,     *)
(* since a value is touched only by the owner of its node.  A throw while an *)
(* exception is being handled, or in a destructor, ends the program.         *)
(***************************************************************************)
EXTENDS Naturals, FiniteSets

CONSTANTS
  Node,      \* the nodes
  NodeVar,   \* the client's variables of type UniqueNode
  StackVar,  \* the client's variables of type UniqueStack
  Counts     \* the counts passed to acquire and pop

ASSUME VarAssumption == NodeVar \cap StackVar = {} /\ Counts \subseteq Nat

VARIABLES
  value,      \* the object in each node: default, client's, or dead
  free,       \* the nodes in the pool
  owned,      \* the nodes of each handle
  forgotten   \* nodes in which a client's object was constructed over

vars == <<value, free, owned, forgotten>>

Var == NodeVar \cup StackVar
State == {"default", "client", "dead"}

InState(S, state) == {n \in S : value[n] = state}
SetState(S, state) == [n \in Node |-> IF n \in S THEN state ELSE value[n]]

-----------------------------------------------------------------------------
(* Construction and destruction                                            *)

\* Node::construct(args) on the value of n, which is not destructed first.
Construct(n) ==
  /\ value' = SetState({n}, "client")
  /\ forgotten' = forgotten \cup InState({n}, "client")

\* Mutant: a node is released without a reset.
Reset_Not(S) == UNCHANGED <<value, forgotten>>

\* reset(val) for the values of S: destruct, then construct by default.
Reset(S) ==
  /\ value' = SetState(S, "default")
  /\ UNCHANGED forgotten

\* The default constructor throws for node n, when the nodes of R have been reset: n
\* is dead, and a later release destructs it again.
ResetThrows(S) ==
  /\ \E R \in SUBSET S : \E n \in S \ R :
       value' = [SetState(R, "default") EXCEPT ![n] = "dead"]
  /\ UNCHANGED forgotten

\* Node::construct(args) throws, and ~UniqueNode releases the node: a destructor runs
\* on the value that was not constructed.
ConstructThrows(n) ==
  /\ forgotten' = forgotten \cup InState({n}, "client")
  /\ value' = SetState({n}, "default")

-----------------------------------------------------------------------------
(* Operations                                                              *)

\* acquireOne(args), for an empty handle
AcquireOne(v, n) ==
  /\ v \in NodeVar /\ owned[v] = {} /\ n \in free
  /\ \/ /\ Construct(n)
        /\ free' = free \ {n}
        /\ owned' = [owned EXCEPT ![v] = {n}]
     \/ ConstructThrows(n) /\ UNCHANGED <<free, owned>>

\* acquire(count): the values are default ones.
Acquire(s, count) ==
  /\ s \in StackVar /\ owned[s] = {}
  /\ \E S \in SUBSET free :
       /\ Cardinality(S) = count
       /\ free' = free \ S
       /\ owned' = [owned EXCEPT ![s] = S]
  /\ UNCHANGED <<value, forgotten>>

\* push, popOne(), pop(count), release() of a handle, and its moves; a UniqueNode that
\* gets a node has none.
Move(v, w) ==
  /\ v # w
  /\ \E S \in SUBSET owned[v] :
       /\ w \in NodeVar => owned[w] = {} /\ \A m, n \in S : m = n
       /\ owned' = [owned EXCEPT ![v] = @ \ S, ![w] = @ \cup S]
  /\ UNCHANGED <<value, free, forgotten>>

\* popOne(args): the popped value is constructed over.
PopOneArgs(s, v, n) ==
  /\ s \in StackVar /\ n \in owned[s]
  /\ v \in NodeVar /\ owned[v] = {}
  /\ \/ /\ Construct(n)
        /\ owned' = [owned EXCEPT ![s] = @ \ {n}, ![v] = {n}]
        /\ UNCHANGED free
     \/ /\ ConstructThrows(n)
        /\ owned' = [owned EXCEPT ![s] = @ \ {n}]
        /\ free' = free \cup {n}

\* Mutants: the nodes go back to the pool before their values are reset, or are in a
\* temporary when the constructor throws.
ReleaseThrows_Early(v) ==
  /\ ResetThrows(owned[v])
  /\ free' = free \cup owned[v]
  /\ owned' = [owned EXCEPT ![v] = {}]
ReleaseThrows_ByValue(v) ==
  /\ ResetThrows(owned[v])
  /\ owned' = [owned EXCEPT ![v] = {}]
  /\ UNCHANGED free

\* reset() and release(handle), when a constructor throws: the handle keeps its nodes.
ReleaseThrows(v) ==
  /\ ResetThrows(owned[v])
  /\ UNCHANGED <<free, owned>>

\* reset(), release(handle) and the destructors
Release(v) ==
  /\ Reset(owned[v])
  /\ free' = free \cup owned[v]
  /\ owned' = [owned EXCEPT ![v] = {}]

\* Mutant: the other handle keeps its nodes.
HandedOver_Copied(v, w) == [owned EXCEPT ![v] = owned[w]]

HandedOver(v, w) == [owned EXCEPT ![v] = owned[w], ![w] = {}]

\* UniqueNode's operator=: the node v owned is overwritten, and lost.
AssignNode(v, w) ==
  /\ {v, w} \subseteq NodeVar /\ v # w
  /\ owned' = HandedOver(v, w)
  /\ UNCHANGED <<value, free, forgotten>>

\* UniqueStack's operator=: the other handle's nodes are in a temporary while those
\* of this one are released, and lost with it if that throws.
AssignStack(s, o) ==
  /\ {s, o} \subseteq StackVar /\ s # o
  /\ \/ /\ Reset(owned[s])
        /\ free' = free \cup owned[s]
        /\ owned' = HandedOver(s, o)
     \/ /\ ResetThrows(owned[s])
        /\ owned' = [owned EXCEPT ![o] = {}]
        /\ UNCHANGED free

-----------------------------------------------------------------------------

Init ==
  /\ value = [n \in Node |-> "default"]
  /\ free = Node
  /\ owned = [v \in Var |-> {}]
  /\ forgotten = {}

Next ==
  \/ \E v \in Var : Release(v) \/ ReleaseThrows(v)
  \/ \E v, w \in Var : Move(v, w) \/ AssignNode(v, w) \/ AssignStack(v, w)
  \/ \E v \in Var, n \in Node : AcquireOne(v, n)
  \/ \E s \in Var, count \in Counts : Acquire(s, count)
  \/ \E s, v \in Var, n \in Node : PopOneArgs(s, v, n)

Spec == Init /\ [][Next]_vars

-----------------------------------------------------------------------------

\* Every variable has its type, a UniqueNode owns at most one node, and a node is in
\* one place.
TypeOK ==
  /\ value \in [Node -> State]
  /\ free \subseteq Node /\ owned \in [Var -> SUBSET Node]
  /\ forgotten \subseteq Node
  /\ \A v \in NodeVar, m, n \in Node : {m, n} \subseteq owned[v] => m = n
  /\ \A v \in Var : owned[v] \cap free = {} /\ \A w \in Var \ {v} : owned[v] \cap owned[w] = {}

\* A free node has a default value: what a client constructed or wrote is destructed
\* when its node goes back, and a release that throws half-way, which leaves dead and
\* client values behind, has not given the pool any node.
FreeDefault == \A n \in free : value[n] = "default"

\* The nodes that are in the pool or with the client.
Kept == free \cup UNION {owned[v] : v \in Var}

\* A node is lost only in an assignment, whatever throws: the one that UniqueNode's
\* operator= overwrites, or those of the right-hand stack when a value of the left-hand
\* one, which keeps its nodes, dies in the release.  No throw in a constructor or a
\* reset loses one otherwise.
LostInAssignment ==
  [][\A n \in Kept \ Kept' :
       \/ \E v, w \in NodeVar :
            n \in owned[v] /\ owned'[v] = owned[w] /\ UNCHANGED <<value, free>>
       \/ \E s, o \in StackVar :
            /\ n \in owned[o]
            /\ owned'[s] = owned[s] /\ \E m \in owned[s] : value'[m] = "dead"]_vars

\* The object of a client is constructed over only in a stack, by popOne(args); an
\* acquireOne never meets one, whatever has thrown before.
AcquireForgetsNone ==
  [][\A n \in forgotten' \ forgotten : \E s \in StackVar : n \in owned[s]]_vars

\* Objects constructed by clients are destructed before another is constructed in
\* their place.
ClientObjectsDestructed == forgotten = {}
=============================================================================
