----------------------------- MODULE LinkedStack -----------------------------
(***************************************************************************)
(* Stack<T> of splice-pool.hpp, pointer by pointer: a singly-linked list   *)
(* with a head, a tail and a size, in the hands of one client that has     *)
(* several of them.  Stacks own nothing: every operation relinks nodes.    *)
(*                                                                         *)
(* Three operations read m_tail and one, the sorted push of a node, does   *)
(* not keep it; the sorted push of a stack leaves the other stack on nodes *)
(* that are no longer its own.  Spec is any client; TidySpec a client that *)
(* never lets a wrong m_tail be read and drops the stack it has merged.    *)
(* An operation that would dereference a null pointer is disabled: the     *)
(* program ends there.                                                     *)
(***************************************************************************)
EXTENDS Integers, Sequences, FiniteSets

CONSTANTS
  Node,    \* the nodes, addresses
  Nil,     \* nullptr
  Stk,     \* the stacks of one client
  Value,   \* the value of each node
  Counts   \* the counts passed to popStack

ASSUME NodeAssumption == IsFiniteSet(Node) /\ Nil \notin Node
ASSUME ValueAssumption == Value \in [Node -> Int] /\ Counts \subseteq Nat

VARIABLES
  next,   \* m_next of each node
  stack,  \* m_head, m_tail and m_size of each stack
  loose   \* the nodes the client holds outside of its stacks

vars == <<next, stack, loose>>

Empty == [head |-> Nil, tail |-> Nil, size |-> 0]
IsEmpty(s) == stack[s].head = Nil
Less(a, b) == Value[a] < Value[b]   \* the Compare of the sorted operations

\* The node k links of nxt after h, or Nil at and behind the end.
Walk(nxt, h) ==
  LET at[k \in 0..Cardinality(Node)] ==
        IF k = 0 THEN h ELSE LET n == at[k - 1] IN IF n = Nil THEN Nil ELSE nxt[n]
  IN at

\* The nodes from h on: what an Iterator visits.
Chain(h) ==
  LET at == Walk(next, h)
      len == Cardinality({k \in DOMAIN at : at[k] # Nil})
  IN [i \in 1..len |-> at[i - 1]]

NodesOf(s) == Chain(stack[s].head)
Members(s) == {NodesOf(s)[i] : i \in 1..Len(NodesOf(s))}

\* m_tail is the last node of the stack, or null when there is none.
TailExact(s) ==
  LET q == NodesOf(s) IN stack[s].tail = IF q = << >> THEN Nil ELSE q[Len(q)]

sortedBy(s) ==
  LET q == NodesOf(s) IN \A i \in 1..(Len(q) - 1) : ~Less(q[i + 1], q[i])

-----------------------------------------------------------------------------
(* push and pushBack of a node                                             *)

PushFront(s, n) ==
  /\ next' = [next EXCEPT ![n] = stack[s].head]
  /\ stack' = [stack EXCEPT
       ![s] = [head |-> n,
               tail |-> IF @.size = 0 THEN n ELSE @.tail,
               size |-> @.size + 1]]

Push(s, n) ==
  /\ n \in loose
  /\ stack[s].tail # Nil => stack[s].size # 0     \* assert(!m_tail || m_size)
  /\ PushFront(s, n)
  /\ loose' = loose \ {n}

PushBack(s, n) ==
  /\ n \in loose
  /\ IF IsEmpty(s)
       THEN /\ next' = [next EXCEPT ![n] = Nil]
            /\ stack' = [stack EXCEPT ![s] = [head |-> n, tail |-> n, size |-> @.size + 1]]
       ELSE /\ stack[s].tail # Nil
            /\ next' = [next EXCEPT ![n] = Nil, ![stack[s].tail] = n]
            /\ stack' = [stack EXCEPT ![s] = [head |-> @.head, tail |-> n, size |-> @.size + 1]]
  /\ loose' = loose \ {n}

\* Mutant: the arguments of the comparison are swapped.
Advance_Swapped(nxt, x, y) ==
  LET at == Walk(nxt, x)
      stops == {k \in DOMAIN at : at[k] # Nil /\ (nxt[at[k]] = Nil \/ ~Less(y, nxt[at[k]]))}
  IN at[CHOOSE k \in stops : \A j \in stops : k <= j]

\* The loop: while (x->next() && compare(**x->next(), **y)) x = x->next();
Advance(nxt, x, y) ==
  LET at == Walk(nxt, x)
      stops == {k \in DOMAIN at : at[k] # Nil /\ (nxt[at[k]] = Nil \/ ~Less(nxt[at[k]], y))}
  IN at[CHOOSE k \in stops : \A j \in stops : k <= j]

PushSorted(s, n) ==
  /\ n \in loose
  /\ sortedBy(s)
  /\ IF IsEmpty(s) \/ Less(n, stack[s].head)
       THEN PushFront(s, n)
       ELSE LET before == Advance(next, stack[s].head, n) IN
            /\ next' = [next EXCEPT ![n] = next[before], ![before] = n]
            /\ stack' = [stack EXCEPT ![s] = [head |-> @.head, tail |-> @.tail, size |-> @.size + 1]]
  /\ loose' = loose \ {n}

-----------------------------------------------------------------------------
(* push and pushBack of another stack                                      *)

\* Mutants: the tail of the other stack is counted twice, or not at all.
SplicedSize_Twice(s, o) == stack[s].size + 1 + stack[o].size
SplicedSize_Never(s, o) == stack[s].size + (stack[o].size - 1)

\* push(other.m_tail) counts one node, and the rest is added afterwards.
SplicedSize(s, o) == stack[s].size + 1 + (stack[o].size - 1)

\* push(other.m_tail) links other's tail in front; then the head and the size are
\* those of the two stacks together.
SpliceFront(s, o) ==
  IF IsEmpty(o) THEN UNCHANGED <<next, stack>>
  ELSE /\ stack[o].tail # Nil
       /\ stack[s].tail # Nil => stack[s].size # 0
       /\ next' = [next EXCEPT ![stack[o].tail] = stack[s].head]
       /\ stack' = [stack EXCEPT
            ![s] = [head |-> stack[o].head,
                    tail |-> IF @.size = 0 THEN stack[o].tail ELSE @.tail,
                    size |-> SplicedSize(s, o)],
            ![o] = Empty]

PushStack(s, o) ==
  /\ s # o
  /\ SpliceFront(s, o)
  /\ UNCHANGED loose

\* Mutant: the old tail is not linked to the other stack.
LinkBehind_Not(s, o) == next

LinkBehind(s, o) == [next EXCEPT ![stack[s].tail] = stack[o].head]

PushBackStack(s, o) ==
  /\ s # o
  /\ IF IsEmpty(s) THEN SpliceFront(s, o)
     ELSE /\ stack[s].tail # Nil
          /\ next' = LinkBehind(s, o)
          /\ stack' = [stack EXCEPT
               ![s] = [head |-> @.head, tail |-> stack[o].tail, size |-> @.size + stack[o].size],
               ![o] = Empty]
  /\ UNCHANGED loose

-----------------------------------------------------------------------------
(* The sorted push of another stack: a merge.  a and b are the positions   *)
(* in the two stacks; b is the part of the other one not yet inserted.     *)

\* Mutant: what precedes the start of A is not inserted there.
MergeFront_Skipped(s, o) == [a |-> stack[s].head, b |-> stack[o].head, next |-> next]

\* The nodes of the other stack that are less than the head of this one go first.
MergeFront(s, o) ==
  LET a == stack[s].head
      b == stack[o].head
      last == Advance(next, b, a)
  IN IF Less(b, a)
       THEN [a |-> a, b |-> next[last], next |-> [next EXCEPT ![last] = a]]
       ELSE [a |-> a, b |-> b, next |-> next]

\* Mutant: what is left of B at the end of A is forgotten.
AtEndOfA_NoRest(m, nxt) == [a |-> Nil, b |-> Nil, next |-> nxt]

AtEndOfA(m, nxt) == [a |-> Nil, b |-> m.b, next |-> nxt]

\* One round of the loop: b is linked behind the last node of A less than it, and
\* the rest of A behind the last node of B less than that rest.
MergeRound(m) ==
  LET end == Advance(m.next, m.a, m.b)
      nextA == m.next[end]
      last == Advance(m.next, m.b, nextA)
  IN IF nextA = Nil
       THEN AtEndOfA(m, [m.next EXCEPT ![end] = m.b])
       ELSE [a |-> nextA,
             b |-> m.next[last],
             next |-> [m.next EXCEPT ![end] = m.b, ![last] = nextA]]

Merging(m) == m.a # Nil /\ m.b # Nil

\* The state of the merge after each round.  Every round inserts a node.
Merge(s, o) ==
  LET at[k \in 0..Cardinality(Node)] ==
        IF k = 0 THEN MergeFront(s, o)
        ELSE IF Merging(at[k - 1]) THEN MergeRound(at[k - 1]) ELSE at[k - 1]
  IN at

\* Merges o into s and leaves o as rest.
MergeInto(s, o, rest) ==
  /\ s # o
  /\ sortedBy(s) /\ sortedBy(o)
  /\ IF IsEmpty(s)
       THEN stack' = [stack EXCEPT ![s] = stack[o], ![o] = rest] /\ UNCHANGED next
     ELSE IF IsEmpty(o)
       THEN stack' = [stack EXCEPT ![o] = rest] /\ UNCHANGED next
     ELSE LET end == Merge(s, o)[Cardinality(Node)] IN
          /\ next' = end.next
          /\ stack' = [stack EXCEPT
               ![s] = [head |-> IF Less(stack[o].head, @.head) THEN stack[o].head ELSE @.head,
                       tail |-> IF end.b # Nil THEN stack[o].tail ELSE @.tail,
                       size |-> @.size + stack[o].size],
               ![o] = rest]
  /\ UNCHANGED loose

\* push(Stack&, compare) leaves the other stack as it was ...
PushSortedStack(s, o) == MergeInto(s, o, stack[o])

\* ... and UniqueStack's push(Stack&&, compare) clears it.
PushSortedMoved(s, o) == MergeInto(s, o, Empty)

-----------------------------------------------------------------------------
(* pop, popStack, and the operations that hand a list over whole           *)

\* Mutant: the tail is kept when the last node goes.
PoppedTail_Kept(s) == stack[s].tail

PoppedTail(s) == IF stack[s].size = 1 THEN Nil ELSE stack[s].tail

Pop(s) ==
  /\ ~IsEmpty(s)
  /\ stack' = [stack EXCEPT
       ![s] = [head |-> next[@.head],
               tail |-> PoppedTail(s),
               size |-> @.size - 1]]
  /\ loose' = loose \cup {stack[s].head}
  /\ UNCHANGED next

Exchange(s, o) == stack' = [stack EXCEPT ![s] = stack[o], ![o] = stack[s]]

\* Mutant: the popped part is not cut off from the rest.
Cut_Not(n) == next

Cut(n) == [next EXCEPT ![n] = Nil]

\* o = s.popStack(count), for an o that has no nodes.
PopStack(s, o, count) ==
  /\ s # o /\ stack[o] = Empty
  /\ IF count >= stack[s].size THEN Exchange(s, o) /\ UNCHANGED next
     ELSE IF count = 0 \/ IsEmpty(s) THEN UNCHANGED <<next, stack>>
     ELSE LET tail == Walk(next, stack[s].head)[count - 1] IN
          /\ tail # Nil
          /\ next' = Cut(tail)
          /\ stack' = [stack EXCEPT
               ![o] = [head |-> stack[s].head, tail |-> tail, size |-> count],
               ![s] = [head |-> next[tail], tail |-> @.tail, size |-> @.size - count]]
  /\ UNCHANGED loose

\* swap; with an empty o also the move of s to o.
Swap(s, o) ==
  /\ s # o
  /\ Exchange(s, o)
  /\ UNCHANGED <<next, loose>>

-----------------------------------------------------------------------------

Init ==
  /\ next = [n \in Node |-> Nil]
  /\ stack = [s \in Stk |-> Empty]
  /\ loose = Node

\* Operations that do not read m_tail other than to hand it on, and those that do.
Untailed ==
  \/ \E s \in Stk, n \in Node : Push(s, n) \/ PushSorted(s, n)
  \/ \E s \in Stk : Pop(s)
  \/ \E s, o \in Stk : Swap(s, o) \/ PushSortedMoved(s, o)
  \/ \E s, o \in Stk, count \in Counts : PopStack(s, o, count)

Next ==
  \/ Untailed
  \/ \E s \in Stk, n \in Node : PushBack(s, n)
  \/ \E s, o \in Stk : PushStack(s, o) \/ PushBackStack(s, o) \/ PushSortedStack(s, o)

Spec == Init /\ [][Next]_vars

TidyNext ==
  \/ Untailed
  \/ \E s \in Stk, n \in Node : TailExact(s) /\ PushBack(s, n)
  \/ \E s, o \in Stk : TailExact(o) /\ PushStack(s, o)
  \/ \E s, o \in Stk : TailExact(s) /\ TailExact(o) /\ PushBackStack(s, o)

TidySpec == Init /\ [][TidyNext]_vars

\* A client that builds sorted stacks from the back to the front, and merges them.
MergeNext ==
  \/ \E s \in Stk, n \in Node : (~IsEmpty(s) => ~Less(stack[s].head, n)) /\ Push(s, n)
  \/ \E s, o \in Stk : PushSortedMoved(s, o)

MergeSpec == Init /\ [][MergeNext]_vars

-----------------------------------------------------------------------------

\* Pointers point to nodes or nowhere, and sizes do not wrap below zero.
TypeOK ==
  /\ next \in [Node -> Node \cup {Nil}]
  /\ stack \in [Stk -> [head : Node \cup {Nil}, tail : Node \cup {Nil}, size : Nat]]
  /\ loose \subseteq Node

\* size() is the number of nodes an iteration visits, and the iteration ends.
SizeExact == \A s \in Stk : stack[s].size = Len(NodesOf(s)) /\ Len(NodesOf(s)) <= Cardinality(Node)

\* No node is in two stacks, or in a stack and in the client's hands.
NoSharing ==
  \A s, o \in Stk : Members(s) \cap loose = {} /\ (s # o => Members(s) \cap Members(o) = {})

\* Every node is in the client's hands or in one of its stacks: none leaks.
NodesKept == Node = loose \cup UNION {Members(s) : s \in Stk}

\* m_tail is right in every stack, whatever the client did with it.
TailsExact == \A s \in Stk : TailExact(s)

\* A stack with nodes has a tail for pushBack to link the next one to.
TailPresent == \A s \in Stk : ~IsEmpty(s) => stack[s].tail # Nil

\* The assertion of the merge: whenever its loop goes round, b belongs somewhere
\* behind a.  And the loop ends: after as many rounds as there are nodes.
MergeAssertion ==
  \A s, o \in Stk :
    s # o /\ ~IsEmpty(s) /\ ~IsEmpty(o) /\ sortedBy(s) /\ sortedBy(o) =>
      LET at == Merge(s, o) IN
      /\ \A k \in DOMAIN at :
           Merging(at[k]) => Less(at[k].a, at[k].b) \/ ~Less(at[k].b, at[k].a)
      /\ ~Merging(at[Cardinality(Node)])

\* For a client that keeps away from wrong tails, the stacks are the sequences
\* their operations promise.
Sequence == INSTANCE StackSeq WITH content <- [s \in Stk |-> NodesOf(s)]
ImplementsSequences == Sequence!Spec
=============================================================================
