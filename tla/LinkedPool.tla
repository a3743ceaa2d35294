------------------------------ MODULE LinkedPool ------------------------------
(***************************************************************************)
(* SplicePool<T> with the Stack<T> it is made of: every step of SplicePool  *)
(* is taken together with the operation of LinkedStack that the code calls  *)
(* there, on the pool's stack and on those of the threads' calls.  Where    *)
(* SplicePool does several operations in one step, since no other thread    *)
(* can see them apart, the thread has the rest still to do before its next  *)
(* step.  The sequences of SplicePool then say what the chains should be.   *)
(***************************************************************************)
EXTENDS SplicePool

CONSTANT Nil  \* nullptr

VARIABLES
  next,   \* m_next of each node
  stack,  \* m_head, m_tail and m_size of each stack
  loose,  \* nodes in no stack: not yet created, or in a UniqueNode
  todo    \* the operation a thread has still to do

list == <<next, stack, loose>>
linkedVars == <<vars, list, todo>>

Node == 0..(MaxNodes - 1)

ASSUME NilAssumption == Nil \notin Node

\* The pool's stack; the handle, the fresh and the taken nodes of a thread's call;
\* and the UniqueStack of its client.
PoolStack == <<"m_stack", NoThread>>
Other(t) == <<"other", t>>
Alloc(t) == <<"alloc", t>>
Taken(t) == <<"taken", t>>
Held(t) == <<"held", t>>
Stk == {PoolStack} \cup {"other", "alloc", "taken", "held"} \X Thread

S == INSTANCE LinkedStack WITH Value <- [n \in Node |-> 0]

NodesOf(s) == S!NodesOf(s)

\* t does now one operation of its call, and next has to do op.
Then(t, op) == todo[t] = "none" /\ todo' = [todo EXCEPT ![t] = op]
Done(t, op, following) == todo[t] = op /\ todo' = [todo EXCEPT ![t] = following]

-----------------------------------------------------------------------------
(* acquireOne and acquire                                                  *)

\* doAllocate pushes the n fresh nodes one by one.
doAllocate(t, n) ==
  LET fresh == created..(created + n - 1) IN
  /\ loose' = loose \ fresh
  /\ next' = [m \in Node |->
       IF m \notin fresh THEN next[m] ELSE IF m = created THEN Nil ELSE m - 1]
  /\ stack' = [stack EXCEPT
       ![Alloc(t)] = [head |-> created + n - 1, tail |-> created, size |-> n]]

PopOne(t) ==
  /\ AcquireOnePop(t) /\ Then(t, "none")
  /\ IF S!IsEmpty(PoolStack) THEN UNCHANGED list ELSE S!Pop(PoolStack)

AllocateOne(t) == AcquireOneAllocate(t) /\ Then(t, "take") /\ doAllocate(t, BlockSize)

\* node.reset(newStack.pop())
Take(t) == Done(t, "take", "none") /\ S!Pop(Alloc(t)) /\ UNCHANGED vars

\* The client pushes the node it is returned onto its stack.
ConstructOne(t) ==
  /\ AcquireOneConstruct(t) /\ Then(t, "none")
  /\ S!Push(Held(t), other[t][1])

\* The stack is moved to the handle, or cut.
TakeNodes(t) ==
  \/ /\ AcquireTakeAll(t)
     /\ Then(t, IF need[t] > stack[PoolStack].size THEN "none" ELSE "return")
     /\ S!Swap(PoolStack, Other(t))
  \/ /\ AcquireTakeSome(t) /\ Then(t, "return")
     /\ S!PopStack(PoolStack, Other(t), need[t])

Allocate(t) ==
  /\ AcquireAllocate(t) /\ Then(t, "cut")
  /\ doAllocate(t, NumBlocks(t) * BlockSize)

\* Stack<T> taken(alloc.popStack(numNodes))
Cut(t) ==
  /\ Done(t, "cut", "join")
  /\ S!PopStack(Alloc(t), Taken(t), need[t] - stack[Other(t)].size)
  /\ UNCHANGED vars

\* Mutant: the taken nodes are pushed in front of the surplus ones.
Join_Surplus(t) ==
  /\ Done(t, "join", "none")
  /\ S!PushStack(Alloc(t), Taken(t))
  /\ UNCHANGED vars

\* other.push(taken)
Join(t) ==
  /\ Done(t, "join", "none")
  /\ S!PushStack(Other(t), Taken(t))
  /\ UNCHANGED vars

\* m_stack.push(newStack) and m_stack.push(alloc)
SpliceFresh(t) ==
  /\ \/ AcquireOneSplice(t) /\ Then(t, "none")
     \/ AcquireSplice(t) /\ Then(t, "return")
  /\ S!PushStack(PoolStack, Alloc(t))

\* The client pushes the stack it is returned onto its own.
ReturnStack(t) ==
  /\ Done(t, "return", "none")
  /\ S!PushStack(Held(t), Other(t))
  /\ UNCHANGED vars

-----------------------------------------------------------------------------
(* release, and the client                                                 *)

PopToRelease(t) ==
  /\ Then(t, "none")
  /\ \/ CallReleaseOne(t) /\ S!Pop(Held(t))
     \/ \E count \in Counts : CallRelease(t, count) /\ S!PopStack(Held(t), Other(t), count)

\* release(node) or release(stack)
PushReleased(t) ==
  /\ ReleasePush(t) /\ Then(t, "none")
  /\ IF S!IsEmpty(Other(t)) THEN S!Push(PoolStack, other[t][1])
                            ELSE S!PushStack(PoolStack, Other(t))

GiveStack(t, u) ==
  /\ Give(t, u) /\ Then(t, "none") /\ todo[u] = "none"
  /\ S!PushStack(Held(u), Held(t))

\* Steps that do nothing to a stack.
Unlinked(t) ==
  /\ \/ Lock(t) \/ CallAcquireOne(t) \/ AcquireOneBadAlloc(t) \/ AcquireOneThrows(t)
     \/ AcquireBadAlloc(t) \/ ReleaseReset(t) \/ Use(t)
     \/ \E count \in Counts : CallAcquire(t, count)
  /\ Then(t, "none")
  /\ UNCHANGED list

-----------------------------------------------------------------------------

LinkedInit == Init /\ S!Init /\ todo = [t \in Thread |-> "none"]

LinkedNext ==
  \E t \in Thread :
    \/ Unlinked(t)
    \/ PopOne(t) \/ AllocateOne(t) \/ Take(t) \/ ConstructOne(t)
    \/ TakeNodes(t) \/ Allocate(t) \/ Cut(t) \/ Join(t) \/ SpliceFresh(t) \/ ReturnStack(t)
    \/ PopToRelease(t) \/ PushReleased(t)
    \/ \E u \in Thread : GiveStack(t, u)

LinkedSpec == LinkedInit /\ [][LinkedNext]_linkedVars

-----------------------------------------------------------------------------

\* The stacks are the sequences SplicePool takes them for: that of the pool in every
\* state, those of a thread whenever it has done all the operations of its step.
\* A handle on one node keeps it outside of all stacks.
Represents ==
  /\ NodesOf(PoolStack) = m_stack
  /\ \A t \in Thread :
       todo[t] = "none" =>
         /\ NodesOf(Held(t)) = held[t] /\ NodesOf(Alloc(t)) = alloc[t]
         /\ NodesOf(Taken(t)) = << >>
         /\ IF S!IsEmpty(Other(t)) THEN Len(other[t]) <= 1 /\ Range(other[t]) \subseteq loose
                                   ELSE NodesOf(Other(t)) = other[t]

\* m_tail is the last node and m_size the number of nodes of every stack in every
\* state: the pool never splices behind a stale tail, nor counts a node twice.
StacksExact == S!TailsExact /\ S!SizeExact
=============================================================================
