------------------------------ MODULE StackSeq ------------------------------
(***************************************************************************)
(* What the operations of Stack<T> promise: stacks are sequences of nodes, *)
(* and every node is in one of them or in the hands of the client.         *)
(***************************************************************************)
EXTENDS Integers, Sequences, SequencesExt

CONSTANTS
  Node,   \* the nodes, addresses
  Stk,    \* the stacks of one client
  Value   \* the value of each node, compared with <

VARIABLES
  content,  \* the nodes of each stack, head first
  loose     \* the nodes in no stack

vars == <<content, loose>>

Sorted(q) == \A i, j \in 1..Len(q) : i < j => Value[q[i]] <= Value[q[j]]

Init ==
  /\ content = [s \in Stk |-> << >>]
  /\ loose = Node

Put(s, q, n) ==
  /\ n \in loose
  /\ loose' = loose \ {n}
  /\ content' = [content EXCEPT ![s] = q]

PushFront(s, n) == Put(s, <<n>> \o content[s], n)
PushBack(s, n) == Put(s, content[s] \o <<n>>, n)

\* A sorted stack stays sorted; where the node goes among its equals is open (it
\* comes before them, except before an equal head).
PushSorted(s, n) ==
  /\ Sorted(content[s])
  /\ \E i \in 0..Len(content[s]) :
       /\ \A j \in 1..i : Value[content[s][j]] <= Value[n]
       /\ \A j \in (i + 1)..Len(content[s]) : Value[n] <= Value[content[s][j]]
       /\ Put(s, InsertAt(content[s], i + 1, n), n)

Splice(s, o, q) ==
  /\ s # o
  /\ content' = [content EXCEPT ![s] = q, ![o] = << >>]
  /\ UNCHANGED loose

SpliceFront(s, o) == Splice(s, o, content[o] \o content[s])
SpliceBack(s, o) == Splice(s, o, content[s] \o content[o])

\* The elements of p are in q, in the same order.
InOrder(p, q) ==
  \A i, j \in 1..Len(p) :
    i <= j => \E k, l \in 1..Len(q) : k <= l /\ q[k] = p[i] /\ q[l] = p[j]

\* Two sorted stacks become one, each in its own order.
Merge(s, o) ==
  /\ Sorted(content[s]) /\ Sorted(content[o])
  /\ LET q == content'[s] IN
       /\ Splice(s, o, q)
       /\ Sorted(q)
       /\ Len(q) = Len(content[s]) + Len(content[o])
       /\ InOrder(content[s], q)
       /\ InOrder(content[o], q)

Pop(s) ==
  /\ content[s] # << >>
  /\ loose' = loose \cup {Head(content[s])}
  /\ content' = [content EXCEPT ![s] = Tail(@)]

Split(s, o) ==
  /\ s # o /\ content[o] = << >>
  /\ \E k \in 0..Len(content[s]) :
       content' = [content EXCEPT ![o] = SubSeq(content[s], 1, k),
                                  ![s] = SubSeq(@, k + 1, Len(@))]
  /\ UNCHANGED loose

Exchange(s, o) ==
  /\ content' = [content EXCEPT ![s] = content[o], ![o] = content[s]]
  /\ UNCHANGED loose

Next ==
  \/ \E s \in Stk, n \in Node : PushFront(s, n) \/ PushBack(s, n) \/ PushSorted(s, n)
  \/ \E s \in Stk : Pop(s)
  \/ \E s, o \in Stk : SpliceFront(s, o) \/ SpliceBack(s, o) \/ Merge(s, o)
  \/ \E s, o \in Stk : Split(s, o) \/ Exchange(s, o)

Spec == Init /\ [][Next]_vars
=============================================================================
