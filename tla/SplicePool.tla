------------------------------ MODULE SplicePool ------------------------------
(***************************************************************************)
(* SplicePool<T> of splice-pool.hpp: threads acquire nodes from one shared *)
(* free stack and release them to it.  Every access to the free stack and  *)
(* to the allocation counter is inside a short critical section; memory    *)
(* allocation, value resets and construction run outside of it, so several *)
(* calls are in flight at once, each with nodes in its local variables.    *)
(*                                                                         *)
(* A node is its address, a natural number; a Stack<T> is the sequence of  *)
(* its nodes from head to tail (module LinkedStack says when the linked    *)
(* representation is one).  The client side is what the unit tests do with *)
(* the handles: each thread keeps one UniqueStack (held).                  *)
(***************************************************************************)
EXTENDS Integers, Sequences, FiniteSets, Functions

CONSTANTS
  Thread,     \* the threads that use the pool
  NoThread,   \* what m_mutex holds when it is free
  BlockSize,  \* m_blockSize, nodes per block
  Counts,     \* the counts clients pass to acquire and pop
  MaxNodes,   \* nodes the process has memory for (bounds the model)
  IsPointer,  \* std::is_pointer<T>: TRUE in a BufferPool, FALSE in an ObjectPool
  Observers   \* the threads that call available()

ASSUME ThreadAssumption == NoThread \notin Thread
ASSUME SizeAssumption == BlockSize \in Nat \ {0} /\ MaxNodes \in Nat
ASSUME CountsAssumption == Counts \subseteq Nat
ASSUME KindAssumption == IsPointer \in BOOLEAN /\ Observers \subseteq Thread

VARIABLES
  m_stack,      \* the free stack
  m_allocated,  \* nodes the pool has accounted for
  m_mutex,      \* the thread inside a critical section, or NoThread
  created,      \* nodes doAllocate has created: addresses 0 .. created - 1
  pc,           \* where each thread is
  need,         \* the count the thread's call still has to return
  numBlocks,    \* blocks the thread's call has allocated and not yet counted
  other,        \* the nodes in the call's handle (or being released)
  alloc,        \* the freshly allocated nodes the call gives to the pool
  held,         \* the UniqueStack each thread owns between calls
  dirty,        \* nodes whose value was written since the last reset
  seen          \* the last value available() returned to each thread

locals == <<need, numBlocks, other, alloc>>
shared == <<m_stack, m_allocated, created>>
vars == <<shared, m_mutex, pc, locals, held, dirty, seen>>

-----------------------------------------------------------------------------
(* Stack<T> as a sequence, head first.                                     *)

\* The nodes popStack(count) returns, and those it leaves.
PopCount(s, count) == IF count >= Len(s) THEN Len(s) ELSE count
Popped(s, count) == SubSeq(s, 1, PopCount(s, count))

\* Mutant: the popped nodes are not cut off.
Left_Uncut(s, count) == s

Left(s, count) == SubSeq(s, PopCount(s, count) + 1, Len(s))

\* Mutant: the loop over a block starts one node too low.
Fresh_OneLow(a, n) == [i \in 1..n |-> a + n - i - 1]

\* doAllocate(blocks): n fresh nodes from address a on, pushed one by one, so
\* that the last one created is the head.
Fresh(a, n) == [i \in 1..n |-> a + n - i]

-----------------------------------------------------------------------------
(* Control.  A thread waiting at a lock moves into the critical section of *)
(* its call; Unlock ends the scope of the lock_guard.                      *)

Waiting == {"one_lock", "one_splice_lock", "acq_lock", "acq_splice_lock",
            "rel_lock", "avail_lock"}
Critical == {"one_pop", "one_splice", "acq_take", "acq_splice",
             "rel_push", "avail_read"}
Outside == {"idle", "one_alloc", "one_construct", "acq_alloc", "rel_reset"}

Goto(t, from, to) == pc[t] = from /\ pc' = [pc EXCEPT ![t] = to]

\* Mutant: the critical section is entered without waiting for the mutex.
LockAt_NoWait(t, from, to) == Goto(t, from, to) /\ m_mutex' = t

LockAt(t, from, to) == Goto(t, from, to) /\ m_mutex = NoThread /\ m_mutex' = t

Lock(t) ==
  /\ \/ LockAt(t, "one_lock", "one_pop")
     \/ LockAt(t, "one_splice_lock", "one_splice")
     \/ LockAt(t, "acq_lock", "acq_take")
     \/ LockAt(t, "acq_splice_lock", "acq_splice")
     \/ LockAt(t, "rel_lock", "rel_push")
     \/ LockAt(t, "avail_lock", "avail_read")
  /\ UNCHANGED <<shared, locals, held, dirty, seen>>

\* Mutant: the lock is kept.
Unlock_Never == UNCHANGED m_mutex

Unlock == m_mutex' = NoThread

\* The call of t returns a handle on the nodes q, which t pushes onto its stack.
Return(t, q) ==
  /\ pc' = [pc EXCEPT ![t] = "idle"]
  /\ held' = [held EXCEPT ![t] = q \o @]
  /\ need' = [need EXCEPT ![t] = 0]
  /\ other' = [other EXCEPT ![t] = << >>]

\* Mutant: the free stack is taken to be still empty, as it was before the lock
\* was dropped.
Spliced_Assigned(t) == alloc[t]

\* What the free stack and m_allocated become when a call gives the pool the rest
\* of the blocks it has allocated.
Spliced(t) == alloc[t] \o m_stack

\* Mutants: the blocks are not counted, or only one of them is.
Counted_Not(blocks) == m_allocated
Counted_One(blocks) == m_allocated + BlockSize

Counted(blocks) == m_allocated + blocks * BlockSize

-----------------------------------------------------------------------------
(* acquireOne(args)                                                        *)

CallAcquireOne(t) ==
  /\ Goto(t, "idle", "one_lock")
  /\ need' = [need EXCEPT ![t] = 1]
  /\ UNCHANGED <<shared, m_mutex, numBlocks, other, alloc, held, dirty, seen>>

AcquireOnePop(t) ==
  /\ Goto(t, "one_pop", IF m_stack = << >> THEN "one_alloc" ELSE "one_construct")
  /\ other' = [other EXCEPT ![t] = Popped(m_stack, 1)]
  /\ m_stack' = Left(m_stack, 1)
  /\ Unlock
  /\ UNCHANGED <<m_allocated, created, need, numBlocks, alloc, held, dirty, seen>>

AcquireOneAllocate(t) ==
  LET fresh == Fresh(created, BlockSize) IN
  /\ Goto(t, "one_alloc", "one_splice_lock")
  /\ created + BlockSize <= MaxNodes
  /\ created' = created + BlockSize
  /\ other' = [other EXCEPT ![t] = Popped(fresh, 1)]
  /\ alloc' = [alloc EXCEPT ![t] = Left(fresh, 1)]
  /\ numBlocks' = [numBlocks EXCEPT ![t] = 1]
  /\ UNCHANGED <<m_stack, m_allocated, m_mutex, need, held, dirty, seen>>

\* doAllocate throws std::bad_alloc; the handle is still empty.
AcquireOneBadAlloc(t) ==
  /\ pc[t] = "one_alloc"
  /\ Return(t, << >>)
  /\ UNCHANGED <<shared, m_mutex, numBlocks, alloc, dirty, seen>>

AcquireOneSplice(t) ==
  /\ Goto(t, "one_splice", "one_construct")
  /\ m_allocated' = Counted(1)
  /\ m_stack' = Spliced(t)
  /\ alloc' = [alloc EXCEPT ![t] = << >>]
  /\ numBlocks' = [numBlocks EXCEPT ![t] = 0]
  /\ Unlock
  /\ UNCHANGED <<created, need, other, held, dirty, seen>>

\* The forwarded arguments are constructed into the value, unless T is a pointer.
AcquireOneConstruct(t) ==
  /\ pc[t] = "one_construct"
  /\ Return(t, other[t])
  /\ dirty' = IF IsPointer THEN dirty ELSE dirty \cup Range(other[t])
  /\ UNCHANGED <<shared, m_mutex, numBlocks, alloc, seen>>

\* T's constructor throws: ~UniqueNode releases the node.
AcquireOneThrows(t) ==
  /\ ~IsPointer
  /\ Goto(t, "one_construct", "rel_reset")
  /\ need' = [need EXCEPT ![t] = 0]
  /\ dirty' = dirty \cup Range(other[t])
  /\ UNCHANGED <<shared, m_mutex, numBlocks, other, alloc, held, seen>>

-----------------------------------------------------------------------------
(* acquire(count)                                                          *)

CallAcquire(t, count) ==
  /\ Goto(t, "idle", "acq_lock")
  /\ need' = [need EXCEPT ![t] = count]
  /\ UNCHANGED <<shared, m_mutex, numBlocks, other, alloc, held, dirty, seen>>

\* count >= m_stack.size(): the whole stack moves into the handle.
AcquireTakeAll(t) ==
  /\ pc[t] = "acq_take"
  /\ need[t] >= Len(m_stack)
  /\ m_stack' = << >>
  /\ IF need[t] > Len(m_stack)
       THEN /\ pc' = [pc EXCEPT ![t] = "acq_alloc"]
            /\ other' = [other EXCEPT ![t] = m_stack]
            /\ UNCHANGED <<need, held>>
       ELSE Return(t, m_stack)
  /\ Unlock
  /\ UNCHANGED <<m_allocated, created, numBlocks, alloc, dirty, seen>>

AcquireTakeSome(t) ==
  /\ pc[t] = "acq_take"
  /\ need[t] < Len(m_stack)
  /\ m_stack' = Left(m_stack, need[t])
  /\ Return(t, Popped(m_stack, need[t]))
  /\ Unlock
  /\ UNCHANGED <<m_allocated, created, numBlocks, alloc, dirty, seen>>

NumNodes(t) == need[t] - Len(other[t])

\* Mutant: the division is not rounded up.
NumBlocks_RoundedDown(t) == NumNodes(t) \div BlockSize

NumBlocks(t) == NumNodes(t) \div BlockSize + 1

AcquireAllocate(t) ==
  LET fresh == Fresh(created, NumBlocks(t) * BlockSize) IN
  /\ Goto(t, "acq_alloc", "acq_splice_lock")
  /\ created + NumBlocks(t) * BlockSize <= MaxNodes
  /\ created' = created + NumBlocks(t) * BlockSize
  /\ other' = [other EXCEPT ![t] = Popped(fresh, NumNodes(t)) \o @]
  /\ alloc' = [alloc EXCEPT ![t] = Left(fresh, NumNodes(t))]
  /\ numBlocks' = [numBlocks EXCEPT ![t] = NumBlocks(t)]
  /\ UNCHANGED <<m_stack, m_allocated, m_mutex, need, held, dirty, seen>>

\* doAllocate throws: ~UniqueStack releases what was taken, if anything was.
AcquireBadAlloc(t) ==
  /\ pc[t] = "acq_alloc"
  /\ pc' = [pc EXCEPT ![t] = IF other[t] = << >> THEN "idle" ELSE "rel_reset"]
  /\ need' = [need EXCEPT ![t] = 0]
  /\ UNCHANGED <<shared, m_mutex, numBlocks, other, alloc, held, dirty, seen>>

AcquireSplice(t) ==
  /\ pc[t] = "acq_splice"
  /\ m_stack' = Spliced(t)
  /\ m_allocated' = Counted(numBlocks[t])
  /\ alloc' = [alloc EXCEPT ![t] = << >>]
  /\ numBlocks' = [numBlocks EXCEPT ![t] = 0]
  /\ Return(t, other[t])
  /\ Unlock
  /\ UNCHANGED <<created, dirty, seen>>

-----------------------------------------------------------------------------
(* release(node) and release(stack), reached from ~UniqueNode, ~UniqueStack *)
(* and their reset().                                                      *)

\* popOne().reset(): one node is popped off the client's stack and released.
CallReleaseOne(t) ==
  /\ Goto(t, "idle", "rel_reset")
  /\ held[t] # << >>
  /\ other' = [other EXCEPT ![t] = Popped(held[t], 1)]
  /\ held' = [held EXCEPT ![t] = Left(@, 1)]
  /\ UNCHANGED <<shared, m_mutex, need, numBlocks, alloc, dirty, seen>>

\* pop(count).reset(); releasing an empty stack does nothing.
CallRelease(t, count) ==
  /\ Goto(t, "idle", "rel_reset")
  /\ Popped(held[t], count) # << >>
  /\ other' = [other EXCEPT ![t] = Popped(held[t], count)]
  /\ held' = [held EXCEPT ![t] = Left(@, count)]
  /\ UNCHANGED <<shared, m_mutex, need, numBlocks, alloc, dirty, seen>>

\* Mutant: only the first node of the stack is reset.
ReleaseReset_HeadOnly(t) ==
  /\ Goto(t, "rel_reset", "rel_lock")
  /\ dirty' = dirty \ Range(Popped(other[t], 1))
  /\ UNCHANGED <<shared, m_mutex, locals, held, seen>>

ReleaseReset(t) ==
  /\ Goto(t, "rel_reset", "rel_lock")
  /\ dirty' = dirty \ Range(other[t])
  /\ UNCHANGED <<shared, m_mutex, locals, held, seen>>

ReleasePush(t) ==
  /\ Goto(t, "rel_push", "idle")
  /\ m_stack' = other[t] \o m_stack
  /\ other' = [other EXCEPT ![t] = << >>]
  /\ Unlock
  /\ UNCHANGED <<m_allocated, created, need, numBlocks, alloc, held, dirty, seen>>

-----------------------------------------------------------------------------
(* available(), and what clients do with the nodes they own.               *)

CallAvailable(t) ==
  /\ t \in Observers
  /\ Goto(t, "idle", "avail_lock")
  /\ UNCHANGED <<shared, m_mutex, locals, held, dirty, seen>>

AvailableRead(t) ==
  /\ Goto(t, "avail_read", "idle")
  /\ seen' = [seen EXCEPT ![t] = Len(m_stack)]
  /\ Unlock
  /\ UNCHANGED <<shared, locals, held, dirty>>

\* A client writes the values of its nodes.
Use(t) ==
  /\ pc[t] = "idle"
  /\ dirty' = dirty \cup Range(held[t])
  /\ UNCHANGED <<shared, m_mutex, pc, locals, held, seen>>

\* t's nodes move into u's stack: push(UniqueStack&&) between two threads that
\* synchronise with one another.
Give(t, u) ==
  /\ t # u
  /\ pc[t] = "idle" /\ pc[u] = "idle"
  /\ held' = [held EXCEPT ![t] = << >>, ![u] = held[t] \o held[u]]
  /\ UNCHANGED <<shared, m_mutex, pc, locals, dirty, seen>>

-----------------------------------------------------------------------------

Init ==
  /\ m_stack = << >>
  /\ m_allocated = 0
  /\ m_mutex = NoThread
  /\ created = 0
  /\ pc = [t \in Thread |-> "idle"]
  /\ need = [t \in Thread |-> 0]
  /\ numBlocks = [t \in Thread |-> 0]
  /\ other = [t \in Thread |-> << >>]
  /\ alloc = [t \in Thread |-> << >>]
  /\ held = [t \in Thread |-> << >>]
  /\ dirty = {}
  /\ seen = [t \in Thread |-> 0]

AcquireOneStep(t) ==
  \/ AcquireOnePop(t) \/ AcquireOneAllocate(t) \/ AcquireOneBadAlloc(t)
  \/ AcquireOneSplice(t) \/ AcquireOneConstruct(t) \/ AcquireOneThrows(t)

AcquireStep(t) ==
  \/ AcquireTakeAll(t) \/ AcquireTakeSome(t) \/ AcquireAllocate(t)
  \/ AcquireBadAlloc(t) \/ AcquireSplice(t)

\* The steps of a call in progress, which a scheduled thread goes on to take.
Step(t) ==
  \/ Lock(t) \/ AcquireOneStep(t) \/ AcquireStep(t)
  \/ ReleaseReset(t) \/ ReleasePush(t) \/ AvailableRead(t)

Call(t) ==
  \/ CallAcquireOne(t) \/ CallReleaseOne(t) \/ CallAvailable(t) \/ Use(t)
  \/ \E count \in Counts : CallAcquire(t, count) \/ CallRelease(t, count)
  \/ \E u \in Thread : Give(t, u)

Next == \E t \in Thread : Step(t) \/ Call(t)

Spec == Init /\ [][Next]_vars

\* A thread inside a call keeps being scheduled; clients need not call again.
FairSpec == Spec /\ \A t \in Thread : WF_vars(Step(t))

-----------------------------------------------------------------------------
(* Safety                                                                  *)

\* Every variable has its type.
TypeOK ==
  /\ m_stack \in Seq(Nat)
  /\ m_allocated \in Nat /\ created \in Nat
  /\ m_mutex \in Thread \cup {NoThread}
  /\ pc \in [Thread -> Waiting \cup Critical \cup Outside]
  /\ need \in [Thread -> Nat] /\ numBlocks \in [Thread -> Nat]
  /\ other \in [Thread -> Seq(Nat)] /\ alloc \in [Thread -> Seq(Nat)]
  /\ held \in [Thread -> Seq(Nat)]
  /\ dirty \subseteq Nat
  /\ seen \in [Thread -> Nat]

\* A thread is inside a critical section exactly while it holds m_mutex, so no
\* two threads are: no path leaves with the mutex or works without it.
MutualExclusion == \A t \in Thread : pc[t] \in Critical <=> m_mutex = t

\* What the locals of a call hold at each of its steps: nothing before the call
\* has taken nodes, an incomplete handle while it allocates the rest, exactly the
\* requested number from then on, and no uncounted block outside of a splice.
Splicing == {"one_splice_lock", "one_splice", "acq_splice_lock", "acq_splice"}
LocalsOf(t) ==
  /\ pc[t] \in {"idle", "one_lock", "one_pop", "one_alloc", "acq_lock",
                "acq_take", "avail_lock", "avail_read"} => other[t] = << >>
  /\ pc[t] \notin Splicing => alloc[t] = << >> /\ numBlocks[t] = 0
  /\ pc[t] \in {"one_lock", "one_pop", "one_alloc", "one_splice_lock",
                "one_splice", "one_construct"} => need[t] = 1
  /\ pc[t] = "acq_alloc" => Len(other[t]) < need[t]
  /\ pc[t] \in Splicing \cup {"one_construct"} => Len(other[t]) = need[t]
  /\ pc[t] \in {"one_splice_lock", "one_splice"} => numBlocks[t] = 1
  /\ pc[t] \in {"idle", "rel_reset", "rel_lock", "rel_push", "avail_lock",
                "avail_read"} => need[t] = 0
CallLocals == \A t \in Thread : LocalsOf(t)

\* The places a node can be in, and the nodes in each.
Pool == <<"pool", NoThread>>
Place == {Pool} \cup {"other", "alloc", "held"} \X Thread
NodesAt(p) ==
  CASE p[1] = "pool"  -> m_stack
    [] p[1] = "other" -> other[p[2]]
    [] p[1] = "alloc" -> alloc[p[2]]
    [] p[1] = "held"  -> held[p[2]]

\* A node is at one position of one place: never twice in the free stack, never
\* in it while a client or a call has it, never with two threads.
OnePlace ==
  \A p, q \in Place :
    \A i \in 1..Len(NodesAt(p)), j \in 1..Len(NodesAt(q)) :
      NodesAt(p)[i] = NodesAt(q)[j] => p = q /\ i = j

\* Every node ever created is somewhere: no interleaving and no exception path
\* of acquireOne and acquire loses one.
NoNodeLost == 0..(created - 1) = UNION {Range(NodesAt(p)) : p \in Place}

\* Only nodes in a client's hands, or about to be reset by its release, have
\* values written by a client: the pool hands out reset values only.
OnlyClientsDirty ==
  \A n \in dirty : \E t \in Thread :
    \/ n \in Range(held[t])
    \/ n \in Range(other[t]) /\ pc[t] = "rel_reset"

\* With no call in progress, allocated() is what was created, and available() is
\* allocated() less what clients hold: what the unit tests expect after each call.
Quiescent ==
  (\A t \in Thread : pc[t] = "idle") =>
    /\ m_allocated = created
    /\ Len(m_stack) = m_allocated - Cardinality(UNION {Range(held[t]) : t \in Thread})

\* A value available() returned never exceeds what allocated() returns from then
\* on, although the two calls lock separately and others run in between.
AvailableBound == \A t \in Thread : seen[t] <= m_allocated

-----------------------------------------------------------------------------
(* Action properties                                                       *)

Returning(t, labels) == pc[t] \in labels /\ pc'[t] = "idle" /\ need[t] # 0

\* A call that returns normally hands its thread exactly the nodes asked for,
\* whichever mix of pooled and fresh nodes it is made of; one that fails, none.
ExactCount ==
  [][\A t \in Thread :
       /\ Returning(t, {"one_construct", "acq_take", "acq_splice"}) =>
            Len(held'[t]) = Len(held[t]) + need[t]
       /\ Returning(t, {"one_alloc", "acq_alloc"}) => held'[t] = held[t]]_vars

\* What acquire returns has been reset since any client last wrote it; in a
\* BufferPool so has what acquireOne returns.
CleanHandOut ==
  [][\A t \in Thread :
       Returning(t, {"acq_take", "acq_splice"}
                      \cup (IF IsPointer THEN {"one_construct"} ELSE {})) =>
         (Range(held'[t]) \ Range(held[t])) \cap dirty' = {}]_vars

-----------------------------------------------------------------------------
(* Liveness                                                                *)

\* The mutex never stays locked: no path blocks, or ends, inside a critical
\* section (a destructor run under the lock would take it again).
MutexFreed == \A t \in Thread : m_mutex = t ~> m_mutex # t

\* A call returns if from some time on the other threads leave the pool alone.
\* (std::mutex promises nothing to a thread that others keep overtaking.)
CallReturns ==
  \A t \in Thread :
    <>[](\A u \in Thread \ {t} : pc[u] = "idle") => (pc[t] # "idle" ~> pc[t] = "idle")

-----------------------------------------------------------------------------
(* What the pool promises its clients.                                     *)

Asking == {"one_lock", "one_pop", "one_alloc", "one_splice_lock", "one_splice",
           "one_construct", "acq_lock", "acq_take", "acq_alloc",
           "acq_splice_lock", "acq_splice"}

\* In-flight nodes count as free until the call that has them returns.
Promise == INSTANCE PoolSpec WITH
  Node  <- 0..(MaxNodes - 1),
  Count <- Counts \cup {1},
  free  <- Range(m_stack) \cup UNION {Range(other[t]) \cup Range(alloc[t]) : t \in Thread},
  owned <- [t \in Thread |-> Range(held[t])],
  want  <- [t \in Thread |-> IF pc[t] \in Asking THEN need[t] ELSE -1]

\* The pool implements its abstract specification: seen from the clients, each
\* acquire and release is one atomic transfer of nodes.
ImplementsPromise == Promise!Spec
=============================================================================
