----------------------------- MODULE UniqueHandles -----------------------------
(***************************************************************************)
(* UniqueNode<T> and UniqueStack<T> of splice-pool.hpp: the handles through *)
(* which a client owns nodes of one or more pools, and everything it can do *)
(* to them: construct, acquire, move, assign, swap, push, pop, release,     *)
(* reset and destroy.                                                       *)
(*                                                                          *)
(* A handle is the pool it refers to and the nodes it owns; the order of    *)
(* nodes is the subject of LinkedStack, and how a pool serves several       *)
(* threads that of SplicePool: here a call of the pool is one step, and the *)
(* pools have allocated all of their nodes.  A null node that the code      *)
(* would dereference disables the step.  Plain nodes the client is          *)
(* answerable for: it gives them to their own pool and its handles only.    *)
(***************************************************************************)
EXTENDS Naturals, FiniteSets

CONSTANTS
  Pool,      \* the pools
  NoPool,    \* the pool of a handle that is not constructed
  Node,      \* the nodes of all pools
  Home,      \* the pool that allocated each node
  NodeVar,   \* the client's variables of type UniqueNode
  StackVar,  \* the client's variables of type UniqueStack
  Counts     \* the counts passed to acquire and pop

ASSUME PoolAssumption == NoPool \notin Pool /\ Home \in [Node -> Pool]
ASSUME NodeAssumption == IsFiniteSet(Node)
ASSUME VarAssumption == NodeVar \cap StackVar = {} /\ Counts \subseteq Nat

VARIABLES
  free,    \* the free nodes of each pool
  handle,  \* the pool and the nodes of each variable
  raw      \* nodes in plain pointers and Stacks the client got from release()

vars == <<free, handle, raw>>

Var == NodeVar \cup StackVar
Nowhere == [pool |-> NoPool, nodes |-> {}]

Alive(v) == handle[v].pool # NoPool
Nodes(v) == handle[v].nodes
PoolOf(v) == handle[v].pool

\* Variables of the same type.
Alike(v, w) == v \in NodeVar <=> w \in NodeVar

-----------------------------------------------------------------------------
(* Construction                                                            *)

\* A constructor that is given a pool only.
Construct(v, p) ==
  /\ ~Alive(v)
  /\ handle' = [handle EXCEPT ![v].pool = p]
  /\ UNCHANGED <<free, raw>>

\* v is constructed with nodes of the pool: acquireOne() and acquire(count).
Acquire(v, p, count) ==
  /\ ~Alive(v)
  /\ v \in NodeVar => count = 1
  /\ \E S \in SUBSET free[p] :
       /\ Cardinality(S) = count
       /\ free' = [free EXCEPT ![p] = @ \ S]
       /\ handle' = [handle EXCEPT ![v] = [pool |-> p, nodes |-> S]]
  /\ UNCHANGED raw

\* w is constructed from v: the move constructors, and a stack from a node.
MoveTo(v, w) ==
  /\ Alive(v) /\ ~Alive(w)
  /\ \/ Alike(v, w)
     \/ v \in NodeVar /\ w \in StackVar /\ Nodes(v) # {}
  /\ handle' = [handle EXCEPT ![w] = handle[v], ![v].nodes = {}]
  /\ UNCHANGED <<free, raw>>

\* Mutant: the count is ignored.
PopCount_All(s, count) == Cardinality(Nodes(s))

PopCount(s, count) == IF count < Cardinality(Nodes(s)) THEN count ELSE Cardinality(Nodes(s))

\* w is constructed from nodes popped off s: popOne() and pop(count), which gives
\* what there is when the stack is smaller.
PopTo(s, w, count) ==
  /\ s \in StackVar /\ Alive(s) /\ ~Alive(w)
  /\ w \in NodeVar => count = 1
  /\ \E S \in SUBSET Nodes(s) :
       /\ Cardinality(S) = PopCount(s, count)
       /\ handle' = [handle EXCEPT ![w] = [pool |-> PoolOf(s), nodes |-> S], ![s].nodes = @ \ S]
  /\ UNCHANGED <<free, raw>>

\* v is constructed from a plain pointer or Stack of nodes of the pool.
Wrap(v, p) ==
  /\ ~Alive(v)
  /\ \E S \in SUBSET raw :
       /\ \A n \in S : Home[n] = p
       /\ v \in NodeVar => Cardinality(S) = 1
       /\ handle' = [handle EXCEPT ![v] = [pool |-> p, nodes |-> S]]
       /\ raw' = raw \ S
  /\ UNCHANGED free

-----------------------------------------------------------------------------
(* Nodes that go back to the pool                                          *)

\* Mutants: nothing is given back, or to any pool, or only a part.
GiveBack_Not(v, S) == UNCHANGED free
GiveBack_Any(v, S) == \E p \in Pool : free' = [free EXCEPT ![p] = @ \cup S]
GiveBack_Part(v, S) == \E n \in Node : free' = [free EXCEPT ![PoolOf(v)] = @ \cup (S \ {n})]

\* The pool that v refers to gets the nodes of S from v.
GiveBack(v, S) ==
  free' = [p \in Pool |-> IF p = PoolOf(v) THEN free[p] \cup S ELSE free[p]]

\* The pool's release(node) and release(stack), for plain nodes.
ReleaseRaw(p) ==
  /\ \E S \in SUBSET raw :
       /\ \A n \in S : Home[n] = p
       /\ free' = [free EXCEPT ![p] = @ \cup S]
       /\ raw' = raw \ S
  /\ UNCHANGED handle

\* reset(), and the pool's release(handle).
Reset(v) ==
  /\ Alive(v)
  /\ GiveBack(v, Nodes(v))
  /\ handle' = [handle EXCEPT ![v].nodes = {}]
  /\ UNCHANGED raw

Destroy(v) ==
  /\ Alive(v)
  /\ GiveBack(v, Nodes(v))
  /\ handle' = [handle EXCEPT ![v] = Nowhere]
  /\ UNCHANGED raw

\* reset(node) and reset(stack): the handle takes plain nodes instead of its own.
ResetTo(v) ==
  /\ Alive(v)
  /\ \E S \in SUBSET raw :
       /\ \A n \in S : Home[n] = PoolOf(v)
       /\ v \in NodeVar => Cardinality(S) = 1
       /\ handle' = [handle EXCEPT ![v].nodes = S]
       /\ raw' = raw \ S
  /\ GiveBack(v, Nodes(v))

-----------------------------------------------------------------------------
(* Nodes that go from one handle to another                                *)

\* The handles when w's release() has taken its nodes out.
Emptied(w) == [handle EXCEPT ![w].nodes = {}]

\* UniqueNode's operator=: m_node is overwritten, whatever it was.
AssignNode(v, w) ==
  /\ {v, w} \subseteq NodeVar /\ Alive(v) /\ Alive(w)
  /\ handle' = [Emptied(w) EXCEPT ![v].nodes = Nodes(w)]
  /\ UNCHANGED <<free, raw>>

\* Mutant: v's nodes are released before those of w are taken out.
AssignStack_ReleaseFirst(v, w) ==
  /\ {v, w} \subseteq StackVar /\ Alive(v) /\ Alive(w)
  /\ GiveBack(v, Nodes(v))
  /\ handle' = [Emptied(w) EXCEPT ![v].nodes = Nodes(w)]
  /\ UNCHANGED raw

\* UniqueStack's operator=: w's nodes are taken out, what v has then is released.
AssignStack(v, w) ==
  /\ {v, w} \subseteq StackVar /\ Alive(v) /\ Alive(w)
  /\ GiveBack(v, Emptied(w)[v].nodes)
  /\ handle' = [Emptied(w) EXCEPT ![v].nodes = Nodes(w)]
  /\ UNCHANGED raw

Swap(v, w) ==
  /\ Alike(v, w) /\ Alive(v) /\ Alive(w)
  /\ handle' = [handle EXCEPT ![v].nodes = Nodes(w), ![w].nodes = Nodes(v)]
  /\ UNCHANGED <<free, raw>>

\* push and pushBack of a handle, sorted or not.
Push(s, v) ==
  /\ s \in StackVar /\ s # v /\ Alive(s) /\ Alive(v)
  /\ v \in NodeVar => Nodes(v) # {}
  /\ handle' = [handle EXCEPT ![s].nodes = @ \cup Nodes(v), ![v].nodes = {}]
  /\ UNCHANGED <<free, raw>>

\* push and pushBack of a plain node or Stack.
PushRaw(s) ==
  /\ s \in StackVar /\ Alive(s)
  /\ \E S \in SUBSET raw :
       /\ \A n \in S : Home[n] = PoolOf(s)
       /\ handle' = [handle EXCEPT ![s].nodes = @ \cup S]
       /\ raw' = raw \ S
  /\ UNCHANGED free

\* release() of a handle: the client has the nodes now.
Release(v) ==
  /\ Alive(v)
  /\ raw' = raw \cup Nodes(v)
  /\ handle' = [handle EXCEPT ![v].nodes = {}]
  /\ UNCHANGED free

-----------------------------------------------------------------------------

Init ==
  /\ free = [p \in Pool |-> {n \in Node : Home[n] = p}]
  /\ handle = [v \in Var |-> Nowhere]
  /\ raw = {}

\* Operations that keep nodes with handles of one pool.
OwnPool(v) ==
  \/ Reset(v) \/ Destroy(v) \/ ResetTo(v) \/ PushRaw(v) \/ Release(v)
  \/ \E p \in Pool : Construct(v, p) \/ Wrap(v, p)
  \/ \E p \in Pool, count \in Counts : Acquire(v, p, count)
  \/ \E w \in Var : MoveTo(v, w)
  \/ \E w \in Var, count \in Counts : PopTo(v, w, count)

\* Operations on two handles, which may refer to different pools.
Between(v, w) == AssignStack(v, w) \/ Swap(v, w) \/ Push(v, w)

Next ==
  \/ \E p \in Pool : ReleaseRaw(p)
  \/ \E v \in Var : OwnPool(v)
  \/ \E v, w \in Var : Between(v, w) \/ AssignNode(v, w)

Spec == Init /\ [][Next]_vars

\* A client that assigns to a UniqueNode only when it is empty, or itself, and never
\* passes nodes between handles of different pools.
TidyNext ==
  \/ \E p \in Pool : ReleaseRaw(p)
  \/ \E v \in Var : OwnPool(v)
  \/ \E v, w \in Var :
       /\ PoolOf(v) = PoolOf(w)
       /\ Between(v, w) \/ (AssignNode(v, w) /\ (v = w \/ Nodes(v) = {}))

TidySpec == Init /\ [][TidyNext]_vars

-----------------------------------------------------------------------------

\* Pools and handles hold nodes, a UniqueNode at most one, and a variable that is
\* not constructed none.
TypeOK ==
  /\ free \in [Pool -> SUBSET Node]
  /\ handle \in [Var -> [pool : Pool \cup {NoPool}, nodes : SUBSET Node]]
  /\ raw \subseteq Node
  /\ \A v \in Var : ~Alive(v) => Nodes(v) = {}
  /\ \A v \in NodeVar, m, n \in Node : {m, n} \subseteq Nodes(v) => m = n

\* No node has two owners: what the destructor of one handle gives back to the
\* pool is in no other handle, and in no plain pointer.
OneOwner ==
  /\ \A v, w \in Var : v # w => Nodes(v) \cap Nodes(w) = {}
  /\ \A p \in Pool, v \in Var : free[p] \cap (Nodes(v) \cup raw) = {}
  /\ \A p, q \in Pool : p # q => free[p] \cap free[q] = {}
  /\ \A v \in Var : Nodes(v) \cap raw = {}

\* No node leaks: each one is free, or somebody has it.
NoLeak ==
  \A n \in Node :
    (\E p \in Pool : n \in free[p]) \/ (\E v \in Var : n \in Nodes(v)) \/ n \in raw

\* Nodes go back to the pool that allocated them, whichever handles they were in.
HomeAgain == \A p \in Pool, n \in Node : n \in free[p] => Home[n] = p

\* What a pool takes back in a step is all that one handle of it owned until then, or
\* plain nodes, which the client does not have any more.
GivenByOwner ==
  [][\A p \in Pool :
       LET given == free'[p] \ free[p] IN
       given # {} =>
         \/ \E v \in Var : PoolOf(v) = p /\ Nodes(v) = given
         \/ given \subseteq raw \ raw']_vars
=============================================================================
