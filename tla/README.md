# splice-pool in TLA+

A verification project for `src/splice-pool.hpp`, a header-only memory pool for
multi-threaded C++11 programs. Line numbers below are lines of that file.

## 1. Inventory

| component | state | operations | what makes it correct |
|---|---|---|---|
| `Node` (42-79) | a value, `m_next` | construct, access, `setNext` | a value is constructed when a client reads it |
| `Stack` (81-462) | `m_head`, `m_tail`, `m_size`; owns nothing | push / pushBack of a node or a stack, sorted push of a node or a stack, pop, popStack, swap, move, copy, `sortedBy`, iteration | head, tail and size describe one null-terminated chain; no node is lost or shared; a sorted stack stays sorted |
| `UniqueNode` (464-531) | a pool reference, a node or null | move, assign, release, reset, swap, destructor | a node is released exactly once, to its own pool |
| `UniqueStack` (533-719) | a pool reference, a `Stack` | as `Stack`, plus release, reset, `popOne`, `pop(n)` | the same for all nodes of the stack |
| `SplicePool` (721-871) | free stack, `m_allocated`, `m_mutex` | `acquireOne`, `acquire`, `release`, `available`, `allocated` | every node is free, in a call, or with one client; exact counts; nodes handed out are reset; the mutex is always freed |
| `ObjectPool` (873-928) | blocks of nodes, an inner mutex | `doAllocate`, `construct`, `destruct` | a block's nodes appear once each; objects are destructed before they are constructed again |
| `BufferPool` (930-1002) | blocks of bytes and nodes, an inner mutex | `doAllocate`, `construct` | buffers are disjoint; a buffer handed out is zero |
| iterators, `print` | none | | an iteration visits `size()` nodes |
| `src/test` | | | `available() == allocated()` less what the client holds |
| `src/third` | | vendored GoogleTest | not part of the system |

How they interact. A client thread calls `acquireOne` or `acquire` and gets a
handle; the handle's destructor, `reset` or assignment calls back into
`SplicePool::release`. The pool keeps its free nodes in a `Stack` shared by all
threads and guarded by `m_mutex`; `doAllocate` and the value resets are virtual
calls into `ObjectPool` or `BufferPool`, made without that mutex. Handles and
stacks are per thread, but may be passed from thread to thread.

What is hard:

* **Between two critical sections.** `acquire` empties the free stack, unlocks,
  allocates, and locks again to splice the surplus in (819-839); `acquireOne`
  decides to allocate under one lock and splices under the next (790-803). Other
  calls run in between.
* **Failure half-way.** `doAllocate` may throw `bad_alloc` after nodes were taken
  from the free stack; a constructor may throw after the block was counted. Only
  the destructors of local handles repair this, and they lock `m_mutex`.
* **Locks in destructors.** Assignments to handles at 792, 821 and 844 run while
  `m_mutex` is held; they deadlock if the handle is not empty.
* **Derived state.** `m_tail` and `m_size` are redundant with the chain and are
  patched by each operation; an error shows only several operations later.
* **Aliasing.** Copies of a `Stack`, and the sorted merge, leave two stacks on the
  same nodes; handles of two pools can be assigned to one another.

`PROJECT.json` lists each hazard with its line and the properties aimed at it.

## 2. Modules

| module | models | role |
|---|---|---|
| `SplicePool` | `SplicePool` with the parts of `UniqueNode`, `UniqueStack`, `ObjectPool` and `BufferPool` its calls run through | threads at the granularity of critical sections |
| `PoolSpec` | nothing of the code: the promise of a pool | abstract specification `SplicePool` implements |
| `LinkedStack` | `Stack`, pointer by pointer | one client with several stacks |
| `StackSeq` | nothing of the code: stacks as sequences | abstract specification `LinkedStack` implements |
| `LinkedPool` | `SplicePool` on its linked stacks | composes `SplicePool` and `LinkedStack` |
| `UniqueHandles` | `UniqueNode` and `UniqueStack` over several pools | a client and all it can do to its handles |
| `ObjectSlots` | the objects in nodes: `construct`, `destruct`, `reset`, and constructors that throw | one client of an `ObjectPool` |
| `PoolBlocks` | `doAllocate` of `ObjectPool` and `BufferPool`, the inner mutex, the layout of buffers | threads that allocate, and write buffers |
| `MCSplicePool`, `MCLinkedStack`, `MCLinkedPool`, `MCUniqueHandles`, `MCObjectSlots`, `MCPoolBlocks` | | instances for TLC |
| `SplicePoolProofs`, `SplicePoolCustodyProofs`, `SplicePoolPromiseProofs` | | control, custody of nodes, what calls hand out, and that the pool implements `PoolSpec`, proved |
| `LinkedStackProofs` | | chains, sizes and tails, the loop of the merge, and that `LinkedStack` implements `StackSeq`, proved |
| `LinkedPoolProofs` | | that the pool on linked stacks is `SplicePool`, and its chains the sequences of it, proved |
| `UniqueHandlesProofs` | | ownership in a tidy client, proved |
| `ObjectSlotsProofs` | | lifetimes of objects, proved |
| `PoolBlocksProofs` | | blocks and buffers, proved |

These modules look at the same nodes from several sides. `SplicePool` has threads and
takes stacks as sequences and one handle per thread; `LinkedStack` says when a `Stack`
is a sequence, and `LinkedPool` puts the two together; `UniqueHandles` has all the handles
of a client and takes a call of the pool as one step, which is what `ImplementsPromise`
says it is; `ObjectSlots` adds what is in the nodes, and `PoolBlocks` where the nodes come
from.

### SplicePool

A node is its address, a number; addresses `0 .. created - 1` exist. A stack is
the sequence of its nodes; whether the linked representation *is* that sequence
is the subject of `LinkedStack`.

A thread's `pc` says where it is. The steps of a call are cut where other threads
can see a difference, at the lock and unlock of `m_mutex`:

| labels | code | actions |
|---|---|---|
| `one_lock`, `one_pop` | 788-793 | `CallAcquireOne`, `Lock`, `AcquireOnePop` |
| `one_alloc` | 795-798 | `AcquireOneAllocate`, `AcquireOneBadAlloc` |
| `one_splice_lock`, `one_splice` | 800-803 | `Lock`, `AcquireOneSplice` |
| `one_construct` | 806-811 | `AcquireOneConstruct`, `AcquireOneThrows` |
| `acq_lock`, `acq_take` | 816-825, 842-847 | `CallAcquire`, `Lock`, `AcquireTakeAll`, `AcquireTakeSome` |
| `acq_alloc` | 827-835 | `AcquireAllocate`, `AcquireBadAlloc` |
| `acq_splice_lock`, `acq_splice` | 837-847 | `Lock`, `AcquireSplice` |
| `rel_reset` | 757-759, 772-778 | `ReleaseReset` |
| `rel_lock`, `rel_push` | 765-766, 780-781 | `Lock`, `ReleasePush` |
| `avail_lock`, `avail_read` | 746-750 | `CallAvailable`, `Lock`, `AvailableRead` |

A critical section takes one step after its lock: nothing else can touch what
`m_mutex` guards meanwhile, and `MutualExclusion` is checked, not assumed. The
locals of a call are `need` (count), `other` (the nodes of its handle), `alloc`
(the fresh nodes it gives to the pool) and `numBlocks`. Exceptions unwind as in
the code: the handle's destructor releases its nodes, which leads to `rel_reset`.

`held[t]` is one `UniqueStack` that thread `t` owns. Results of calls are pushed
onto it and `popOne().reset()` and `pop(n).reset()` are taken from it, as the unit
tests do; `Give` passes all nodes to another thread. `dirty` is the set of nodes
whose value was written, by the client or by a constructor, since the last reset.

### LinkedStack

`next` is `m_next` of each node, `stack` the head, tail and size of each stack,
`loose` the nodes the client holds as plain pointers. Each operation is one action
with the code's early returns and branches; a dereference of a null pointer
disables it. A loop is the list of its states: `Walk` gives the nodes a pointer
visits, `Advance` the node where `while (x->next() && compare(...))` stops, and
`Merge` the state of the sorted merge (214-292) after each round. Three
specifications differ in what clients do:

* `Spec`: anything the interface allows (with sorted pushes on sorted stacks);
* `TidySpec`: a client that does not call an operation that reads `m_tail` of a
  stack whose tail is stale, and merges with `UniqueStack`'s push (640-659), which
  clears the other stack, not with `push(Stack&, compare)`, which leaves it on nodes
  that are no longer its own;
* `MergeSpec`: a client that builds sorted stacks from the front and merges them.

The calls the pool itself makes are those of `LinkedPool`, where nothing keeps a stale
tail from being read: `StacksExact` says that there never is one.

### LinkedPool

Every step of `SplicePool` is taken together with the `LinkedStack` operation the code
calls there. The stacks are the pool's `m_stack`, each thread's `other`, `alloc` and `taken`
(the locals of `acquire`, 816, 830 and 834), and its client's `held`. Where a step of
`SplicePool` stands for several operations on stacks, which no other thread can tell
apart, `todo[t]` is the operation the thread does next and it takes no other step until
it is done: `acquire` on a fresh stack is `Allocate`, `Cut` (834), `Join` (835) and
`SpliceFresh` (838). `doAllocate` is the chain its pushes build. `Represents` then relates the chains
to the sequences of `SplicePool` at every step, the pool's own in every state.

### UniqueHandles

`handle[v]` is what a variable `v` holds: the pool its reference was bound to by its
constructor, and the set of nodes it owns (the order is `LinkedStack`'s subject; a
`UniqueNode` owns at most one). A variable that is not constructed has `NoPool`.
`free[p]` are the free nodes of pool `p`, `raw` those the client got from `release()` and has
in plain pointers and `Stack`s. There is one action per operation: `Construct`, `Acquire`, `MoveTo` (move
constructors), `PopTo`, `Wrap` (constructors from plain nodes), `Reset`, `ResetTo`,
`Destroy`, `AssignNode` and `AssignStack` (the two `operator=` differ in the code), `Swap` (509, 693),
`Push`, `PushRaw` and `Release`; and `ReleaseRaw`, the pool's own `release` of a plain node (755) or
`Stack` (770), as the unit tests call it. The assignments take the nodes of the right-hand handle
out (`Emptied`) before they look at those of the left-hand one, as the code does, so that what an
assignment to itself does is computed and not written in. `Spec` lets the client do all of it;
under `TidySpec` it assigns to a `UniqueNode` that is empty, or is the same one, and passes nodes
between handles of one pool only. In both, plain nodes are the client's to
answer for: it gives them to their own pool and to handles of it.

### ObjectSlots

`value[n]` says whether the object in a node was constructed by default, by its client,
or is dead; `free` and `owned` say where the node is. `Construct` is placement new over
whatever is there (53), `Reset` a destructor and a default constructor (851-855). Any constructor
may throw at any time: `ResetThrows` leaves the objects of some nodes reset, one
dead and the others as they were, and the handle keeps all of them (`ReleaseThrows`: `release` has not
reached the push); `ConstructThrows` is the destructor of the handle of `acquireOne`, which
resets a value that was not constructed. `AssignNode` overwrites the node that was there (485). In
`AssignStack` the other stack is in a temporary by the time of the release (568) and is lost
if that throws. A plain pointer or `Stack` of the client is one more variable, and the pool's `release` of
it (755, 770) the `Release` or `ReleaseThrows` of that variable. The ghost `forgotten` records the nodes in which
a client's object was constructed over.

### PoolBlocks

A thread in `doAllocate` is in its loops (`NewBlocks`, one step: nobody else sees what it
allocates), waits for the inner mutex (`Lock`), inserts blocks of bytes (`InsertBytes`,
`BufferPool` only) and blocks of nodes (`InsertNodes`). Either insert may throw
(`InsertThrows`), and so may the loops (`NewBlocksThrow`, which leaves nothing behind).
`m_bytes` and `m_nodes` (`m_blocks` in an `ObjectPool`) are the blocks the pool owns,
`newBytes` and `newNodes` those in the local lists of a call in flight (`Listed`, 887, 948-949). Memory is a row of elements: byte block
`b` begins at `b * m_bytesPerBlock`, and buffer `i` of a block at `Offset(i)` from there, both
computed modulo `SizeLimit`. `bytesOf` says which byte block the values of a node block
point into. Clients acquire, write and release single nodes; a release fills the buffer
with zeros (993). `isPointer` is chosen once and tells the two pools apart.

## 3. Runs

| run | instance | shows |
|---|---|---|
| `pool_safety` | 2 threads, blocks of 2, counts 0-3, 4 nodes, objects | custody, accounting, counts and resets at every interleaving step; `SplicePool` implements `PoolSpec` |
| `pool_liveness` | 2 threads, blocks of 1, count 2, 3 nodes, buffers; one calls `available()` | the mutex is freed, calls return; a value of `available()` is never above a later `allocated()` |
| `linked_pool` | 2 threads, blocks of 2, counts 1 and 3, 4 nodes | the linked stacks are the sequences of `SplicePool`, with exact tails and sizes |
| `stack_tidy` | 4 nodes in 2 classes of equals, 2 stacks, counts 0-3 | the representation is right and implements sequences |
| `stack_merge` | 6 nodes in 3 classes of equals, 2 stacks, `MergeSpec` | the merge keeps its assertion, ends, and gives the merge of the two sequences |
| `handles_tidy` | 2 pools of 3 and 1 nodes, 2 variables of each type, counts 0-2, `TidySpec` | nodes have one owner, none leaks, all go home |
| `pool_blocks` | 2 threads, 3 blocks of each kind, 2 buffers of 2 in a block, 1 or 2 blocks a call, `std::size_t` of 5 values | blocks have one owner, buffers are apart, backed and intact |
| `object_slots` | 3 nodes, 2 variables of each type, counts 0-2, any constructor may throw | free nodes hold default objects; `acquireOne` forgets no object; a node is lost in an assignment only |
| `stack_leak` | as `stack_tidy`, `Spec` | violated: finding 1 |
| `stack_no_tail` | as `stack_tidy`, `Spec` | violated: finding 2 |
| `handles_leak` | one pool, `Spec` | violated: finding 3 |
| `object_forgotten` | as `object_slots` | violated: finding 4 |

What the properties say is above each definition. Those of `SplicePool`:
`TypeOK`, `MutualExclusion`, `CallLocals`, `OnePlace` (no node in two places),
`NoNodeLost` (every node in some place), `OnlyClientsDirty`, `Quiescent` (the sizes
the unit tests expect whenever no call is running), `AvailableBound`; the action
properties `ExactCount` (a call that returns hands over exactly `count` nodes, one
that throws none) and `CleanHandOut` (what is handed out was reset); the liveness
properties `MutexFreed` and `CallReturns`; and `ImplementsPromise`. Those of
`LinkedStack`: `TypeOK`, `SizeExact`, `NoSharing`, `NodesKept`, `TailsExact`,
`TailPresent`, `MergeAssertion`, `ImplementsSequences`; of `LinkedPool`: `Represents` and
`StacksExact`. Those of `UniqueHandles`: `TypeOK`, `OneOwner`, `NoLeak`, `HomeAgain`, and the action
property `GivenByOwner` (a pool takes back all that one handle of it owned until then, or plain
nodes that the client then has no more). Those of `ObjectSlots`: `TypeOK`, `FreeDefault` (what the pool holds is a default
object), the action properties `LostInAssignment` (whatever throws, a node is lost only as
the one that `UniqueNode`'s assignment overwrites, or with the right-hand stack of an assignment
whose release dies half-way) and `AcquireForgetsNone`, and `ClientObjectsDestructed`. Those
of `PoolBlocks`: `TypeOK`, `InsertsAlone`, `BlockOwned` (each block is freed once, and no call leaves one behind that nobody frees), `Backed` (what
was handed out lies in blocks of the pool), `Apart` (buffers do not overlap) and `Intact`
(a buffer keeps what its owner wrote, and is zero when acquired).

**Bounds.** `MaxNodes` bounds memory: an allocation that does not fit can only throw,
which the code may do at any time anyway. Four nodes in blocks of two let an
`acquire(3)` need one block with nodes left over, two blocks, or one block next to
pooled nodes; and let two calls allocate at once. Two threads put any step of one
between any two of the other; that a third thread changes nothing is what the theorems
on `SplicePool` say, which hold for every set of threads. Four nodes in
two stacks give `popStack` every cut and sorted pushes every position relative to
equals; the shortest trace to a lost node needs three. Six nodes in three classes
let the merge go round more than once, with ties, runs of equals and leftovers on
either side. Two variables of each type are the two sides of every operation on
handles, and a third and fourth for the nodes to have gone to. Three nodes let a reset
throw after one node and before another. Three blocks let a call of two blocks meet a
call of one, with two threads in the loops, the inserts and the buffers at once; the
block of 2 * 2 elements just fits `std::size_t` with `SizeLimit` 5, so that an offset one
buffer too high wraps. Safety runs of threads use symmetry; the liveness run does not.

**Fairness.** `FairSpec` has weak fairness of each thread's `Step`: a thread that is
inside a call and able to go on is scheduled eventually. No fairness is asked of
clients (they need not call) nor of `std::mutex`, which may let one thread overtake
another for ever. So `MutexFreed` is unconditional, and `CallReturns` says that a
call returns if eventually the other threads stay out of the pool.

## 4. Findings

1. **A sorted push at the end leaves a stale tail** (207-210). `push(node, compare)`
   inserts behind the last node and does not assign `m_tail`. A later `pushBack`
   links its node behind the stale tail and drops the nodes after it; a splice of
   the stack (a release of it included) links the rest of the pool in the middle.
   Run `stack_leak` violates `NodesKept`: a node is in no stack any more.
   `README.md:20-21` promises semantics "to avoid leaking objects from the pool".
2. **pushBack of an empty stack removes the tail** (158). The tail of the empty stack,
   null, becomes `m_tail` of a stack that has nodes; the next `pushBack(node)`
   dereferences it (147). `push` of an empty stack returns early (133). Run
   `stack_no_tail` violates `TailPresent`.
3. **Assigning to a `UniqueNode` that owns a node leaks it** (485). `m_node` is
   overwritten; `UniqueStack`'s assignment (566-570) releases first. Run `handles_leak`
   violates `NoLeak`. The pool itself assigns to empty handles only. `LostInAssignment` says that
   no other operation on handles loses a node, unless a constructor throws inside an assignment of stacks.
4. **`popOne(args)` constructs over an object** (679, 53). A node in a `UniqueStack` may hold an
   object its client constructed, which the placement new of `popOne(args)` overwrites: after
   `acquireOne(args)` and a push, its destructor never runs. Run `object_forgotten` violates
   `ClientObjectsDestructed`. `README.md:23-24` says that pooled objects "will be destructed on
   release back into the pool". `acquireOne` also constructs over an object, but always a
   default one: `AcquireForgetsNone`, proved.

Handles of two pools may be assigned to, swapped with or pushed onto one another while
`m_splicePool`, a reference, stays (485, 512, 568, 598-625, 693). No document speaks of several
pools, so that is no finding; `TidySpec` excludes it, and `HomeAgain` and the conjunct
`OwnNodes` of its proof show that nothing else sends a node to a pool that is not its own.

## 5. Proofs

TLAPS proves the theorems below for every value of the constants that the named
assumptions allow:

* `SplicePool`: any set of threads that leaves out `NoThread` (`ThreadAssumption`), a block
  size of one or more and any `MaxNodes` (`SizeAssumption`), any counts
  (`CountsAssumption`), either kind of pool (`KindAssumption`);
* `LinkedStack`: any finite set of nodes that leaves out `Nil` (`NodeAssumption`), any stacks, any
  integers as values and any counts (`ValueAssumption`); sorted stacks of any length;
* `LinkedPool`: as `SplicePool`, and `Nil` is no address (`NilAssumption`); what it takes from the
  theorems on `LinkedStack` it takes through an `INSTANCE`, whose assumptions `StackAssumptions` proves;
* `UniqueHandles`: any pools, nodes and variables (`PoolAssumption`, `VarAssumption`), the
  nodes finitely many, as in any memory (`NodeAssumption`);
* `ObjectSlots`: any nodes, variables and counts (`VarAssumption`);
* `PoolBlocks`: any threads, sizes and number of blocks (`ThreadAssumption`,
  `SizeAssumption`, `BlocksAssumption`), as long as the bytes of a block fit into
  `std::size_t` (`WidthAssumption`).

| theorem | statement |
|---|---|
| `TypeCorrect` | `Spec => []TypeOK` |
| `MutexSafe` | `Spec => []MutualExclusion` |
| `LocalsCorrect` | `Spec => []CallLocals` |
| `OnePlaceSafe` | `Spec => []OnePlace` |
| `NoNodeLostSafe` | `Spec => []NoNodeLost` |
| `OnlyClientsDirtySafe` | `Spec => []OnlyClientsDirty` |
| `ExactCountSafe` | `Spec => ExactCount` |
| `CleanHandOutSafe` | `Spec => CleanHandOut` |
| `AvailableBoundSafe` | `Spec => []AvailableBound` |
| `QuiescentSafe` | `Spec => []Quiescent` |
| `ImplementsPromiseSafe` | `Spec => ImplementsPromise`, the refinement of `PoolSpec` |
| `StackTypes` | `TidySpec => []TypeOK` (of `LinkedStack`) |
| `StackSizes` | `TidySpec => []SizeExact` |
| `StacksApart` | `TidySpec => []NoSharing` |
| `StacksKeepNodes` | `TidySpec => []NodesKept` |
| `StacksAreSequences` | `TidySpec => ImplementsSequences`, the refinement of `StackSeq` |
| `MergesAreSequences` | `MergeSpec => ImplementsSequences` |
| `MergeAssertionHolds` | `TidySpec => []MergeAssertion` |
| `MergeTails` | `MergeSpec => []TailsExact` |
| `LinkedIsPool` | `LinkedSpec => Spec`: `LinkedPool` implements `SplicePool` |
| `PoolRepresents` | `LinkedSpec => []Represents` |
| `PoolStacksExact` | `LinkedSpec => []StacksExact` |
| `LinkedKeepsPromise` | `LinkedSpec => ImplementsPromise` |
| `OneOwnerSafe` | `TidySpec => []OneOwner` |
| `NoLeakSafe` | `TidySpec => []NoLeak` |
| `HomeAgainSafe` | `TidySpec => []HomeAgain` |
| `HandlesTypeCorrect` | `TidySpec => []TypeOK` (of `UniqueHandles`) |
| `GivenByOwnerSafe` | `TidySpec => GivenByOwner` |
| `SlotsTypeCorrect` | `Spec => []TypeOK` (of `ObjectSlots`) |
| `FreeDefaultSafe` | `Spec => []FreeDefault` |
| `LostInAssignmentSafe` | `Spec => LostInAssignment` |
| `AcquireForgetsNoneSafe` | `Spec => AcquireForgetsNone` |
| `BlocksTypeCorrect` | `Spec => []TypeOK` (of `PoolBlocks`) |
| `InsertsAloneSafe` | `Spec => []InsertsAlone` |
| `BlockOwnedSafe` | `Spec => []BlockOwned` |
| `BackedSafe` | `Spec => []Backed` |
| `ApartSafe` | `Spec => []Apart` |
| `IntactSafe` | `Spec => []Intact` |

`SplicePoolProofs`: `TypeOK` is inductive. `MutualExclusion` and `CallLocals` are
proved from the inductive `Control`, their conjunction with the types: the locals at
a label are what the previous label left, and the lengths of `Popped` and `Left` of a
sequence (lemmas of their own) give the exact counts. The argument of `acquire`
that fresh nodes always suffice, `numNodes <= (numNodes \div BlockSize + 1) *
BlockSize`, is a lemma.

`SplicePoolCustodyProofs`: the invariant `Custody` adds to `Control` that a node has one
position of one place and that the places hold `0 .. created - 1`. `OnePlace` alone is
not inductive: a fresh address must be known to be nowhere yet, which is what
`NoNodeLost` says. Every action is one of two kinds, a *move* of a segment between
two places or a *supply* of fresh addresses to two places, and one lemma for each
kind does the work for all actions.

`SplicePoolPromiseProofs`, what calls hand out: `OnlyClientsDirty` is inductive with the types. The two action
properties go through the lemmas `OnlyEnds` (which steps end a call) and `EndsHandOver`
(the sequence each of them hands over, and its length). `CleanHandOut` then needs
custody: a written node is with a client or about to be reset, so by `OnePlace` it is
not also in the free stack or in the handle that is returned.

`SplicePoolPromiseProofs`, the promise: neither `AvailableBound` nor `Quiescent` is inductive, since a call
creates nodes before it counts them. `Account` says that each call can name the nodes it has not
counted: they are in its `other` and `alloc`, there are `numBlocks * BlockSize` of them, and
`m_allocated` is the number of all others. Custody makes them disjoint from the free stack,
which then has at most `m_allocated` nodes, and at rest there are none. For `ImplementsPromise`,
`FreeIs` shows by custody that the free nodes of `PoolSpec` are all created ones that no client
holds, so that a step which changes neither changes nothing of the abstract state but, maybe, what a thread
asks for. There is a lemma for each kind of step (`QuietStep`, `GrowStep`, `HandOverStep`, `TakeBackStep`,
`GiveStep`), and `PromiseStep` finds the kind of each action.

`LinkedStackProofs`: the invariant is `Linked`. There is a sequence of distinct nodes for each stack
(`Represented`); its links lead from the head through the sequence to `nullptr`, its length is
the size, and each node is in one position of one sequence or with the client. None of
`SizeExact`, `NoSharing` and `NodesKept` is inductive by itself: that `m_size` is right after a splice needs
the two chains to be disjoint, and that they stay disjoint needs the links of both. The
sequences are those `NodesOf` walks (`ContentOf`), so the refinement mapping of `StackSeq` is what
`Linked` speaks of. The proof has four layers:

* `Walk`, `Advance` and `Merge` are recursive functions. `Iteration` proves that such a function exists
  and satisfies its equation, and `Climb` is induction on a number of rounds, by
  the least one that would fail (`LeastNat`, from the well-foundedness of `Nat`); the induction
  theorems of the library take an operator as a parameter and cannot be used.
* Sequences and links: what joining (`Joined`, `PathJoined`, `LinkLists`) and cutting (`Cutting`) do to
  sequences of nodes, and which changed link leaves a path alone (`PathFrame`, `PathRelink`).
* One lemma for each operation (`PushFrontStep` to `PushSortedMovedStep`), which gives the sequences after it.
  `OneChanges` and `TwoChange` say once that all other stacks are undisturbed.
* The loop of the merge (258-285) has the invariant `LoopAt`. After each round the two sequences split into
  what is merged and what is left: the links lead from the head through the merged part to `a` and what is left of this
  stack, and from `b` through what is left of the other (`Halfway`); or one of the two has come to its end
  (`Finished`). `RoundStep` is one round: `AdvanceCut` says what each of the two inner loops passes, and
  `TakeFront` that it belongs behind the merged part. Every round takes a node of the other stack, so the loop ends
  in as many rounds as there are nodes. That `b` does not precede `a`, which the code asserts, is part of
  `Halfway` (`LoopAsserts`), and the tail chosen at the end is the last node of the result
  (`MergeEnd`). The order of equal nodes is left open, as in `StackSeq`.

The `...Maps` lemmas then map each step of `TidyNext` to one of `StackSeq`. `MergeSpec` is a special case
(`MergeIsTidy`), for which `TailsExact` is an invariant as well. `Exact` and the lemmas on it restate the steps
of a client that never sorts, whose tails are right without a guard: that is the form in which the
pool uses them.

`LinkedPoolProofs`: the invariant `LinkedInv` says that there are sequences, `Exact` for all stacks at once,
such that the pool's is `m_stack` and those of each thread agree with `other`, `alloc` and `held`
as far as the thread has got in its current step. `AtRest` is `Represents`; `BeforeTake`, `BeforeCut`, `BeforeJoin` and
`BeforeReturn` say what the chains are while `SplicePool` is already done. `Represents` alone is not
inductive for that reason, nor since it does not say which nodes
are in no stack. Two facts on the nodes come from the theorems on `SplicePool`, which hold here by `LinkedIsPool`: the calls of
two threads have no node in common (`OthersApart`, from `OnePlace`), so a node one
thread takes into its hand is not the one that another has there; and fresh addresses are in no
stack (`FreshLoose`). `Keeps` is the frame: what one thread does to its stacks and the pool's leaves the sequences of
all others as they are. There is a lemma for each action; `Unlinked` covers those that touch no chain. With
`ImplementsPromiseSafe` the whole of it, pointers and threads, implements `PoolSpec` (`LinkedKeepsPromise`).

`UniqueHandlesProofs`: the invariant `Custody` is the three safety properties together with
`OwnNodes`, that a handle owns nodes of its own pool only. `HomeAgain` needs it, since a
handle gives its nodes to the pool it refers to, and the guard of `TidyNext` is what
keeps it. `KeepsCustody` is the lemma behind every action: if nodes change hands
without being copied or dropped, the invariant holds after the step. `TypeOK` adds that a
`UniqueNode` owns at most one node (`OneEach`): sets of nodes are finite, so what `PopTo`
takes of a count of one is a single node. `TakenOver` and `EmptiedNodes` say what an assignment does,
to itself too. `GivenByOwner` follows from `FreeChanges`, which
says for each action whose nodes become free, a handle's or plain ones, and from `OneOwner`.

`ObjectSlotsProofs`: the invariant `Slots` is the types, in two parts (`Values`, and `Custody`: a node is in
one place), with `FreeDefault`. There is a lemma for what each
way to change values does (construct, reset, and either one thrown) and one for each way
nodes change hands (`ToPool`, `FromPool`, `ToHandle`, `Replaced`, `Dropped`), and an action is one of each.
`LostInAssignment` follows from the same lemmas: all but `Replaced` and `Dropped` keep every node, and those two
are used by `AssignNode` and `AssignStack` only (`Overwritten`, `LostInThrow`). `AcquireForgetsNone` follows from
`FreeDefault`: what `acquireOne` constructs over was free, so it is a default object.

`PoolBlocksProofs`: first the layout. `BlockBytes` shows that no product wraps; from it,
`BufferInside` (a buffer lies in the bytes of its block) and `BufferApart` (the buffers of two
nodes are disjoint, for which `Monotone` orders the offsets in a block and the blocks). The
invariant `Inv` has six parts: the types, `Control` (what a thread holds at each label and who
has the inner mutex), `OneOwner` (a block is with the pool or in the lists of one call), `Pointing` (a block of nodes in use points into a block of
bytes with the same owner, and no other block of nodes points there), `Custody` (a
node is free, in a call or with a client, once, and its block is the pool's), and `Contents`
(what a buffer reads). `Pointing` is what makes `Backed` inductive when `InsertBytes` has
succeeded and `InsertNodes` throws: bytes without nodes stay with the pool, never the reverse.
`Contents` needs all of them: a write of one owner must miss the elements of every other.

TLC checked each inductive invariant on the small instances before it was proved.

Only model-checked: liveness (`MutexFreed`, `CallReturns`), which needs `ENABLED` and fairness, out of the proof
system's reach. The properties of the runs that find violations (`NodesKept` of `Spec`, `TailPresent`, `NoLeak` of `Spec`,
`ClientObjectsDestructed`) are false of the code, and no theorem is about them. Nor is any about
`LinkedStack`'s `Spec`, whose client lets stale tails be read: with it chains do lose nodes.

## 6. Not modelled

* The unit tests and GoogleTest. GoogleTest is a vendored library of 61000 lines, beside which the
  pool's own 1005 are 1.6 %: the share of all source lines that the project maps is small
  for that reason. Of `splice-pool.hpp`, every function that changes
  state is mapped, but for two: a `Stack`'s copies (89-101) are part of the operations in which the
  header makes one, and `UniqueStack::swap` (693) is the `Swap` that is mapped to 509-514.
* `print`, the accessors, the iterators' operators other than the step, and constness: no state.
* Sizes that wrap (`WidthAssumption`), a block size of zero, a handle that outlives its pool, and
  a null pointer that is dereferenced (an empty `UniqueNode` pushed, 600; `popOne(args)` of an
  empty stack, 679): undefined, and not guarded by the code. The steps are disabled, and
  listed as hazards.
* A destructor of a value that throws, and an exception while another one unwinds: the program
  terminates.

## 7. Plan

What threads share, what it is made of, what clients hold, what is in the nodes and where they
come from are modelled, and so is the composition of the first two. Every invariant, every action
property and every refinement that the passing runs check is proved. What is left:

1. The composition of `PoolBlocks` with `SplicePool`: `SplicePool` takes `doAllocate` as one step that
   gives new addresses, which `BlockOwned` and `Backed` justify one by one but no theorem states as a refinement.
2. Stability of sorted pushes: which of two equal nodes comes first is open in `StackSeq`. The code decides it
   (201-210, 258-275), but no document says that it should.
3. Larger instances of `LinkedPool` than section 3 gives.
