------------------------------ MODULE PoolBlocks ------------------------------
(***************************************************************************)
(* The memory of ObjectPool<T> and BufferPool<T>: doAllocate makes blocks of *)
(* nodes, and in a BufferPool blocks of bytes that their values point into,  *)
(* and hands their owning pointers to the pool, in one critical section of   *)
(* an inner mutex with an insert for each kind.  Calls of several threads    *)
(* are in flight at once and each may throw at every allocation it makes.    *)
(*                                                                           *)
(* Which nodes a call gets is the subject of SplicePool: here the nodes      *)
(* doAllocate returns are free, and one is acquired or released at a time.   *)
(* The blocks of memory operator new gives out are numbered; those of bytes  *)
(* lie side by side.                                                         *)
(***************************************************************************)
EXTENDS Integers, Sequences, FiniteSets

CONSTANTS
  Thread,      \* the threads that use the pool
  NoThread,    \* what the inner m_mutex holds when it is free
  BufferSize,  \* m_bufferSize, elements of T per buffer
  BlockSize,   \* m_blockSize, nodes per block
  SizeLimit,   \* the values std::size_t has
  Blocks,      \* the block counts doAllocate is called with
  MaxBlocks    \* blocks of each kind the process has memory for

ASSUME ThreadAssumption == NoThread \notin Thread
ASSUME SizeAssumption == BufferSize \in Nat /\ BlockSize \in Nat \ {0} /\ MaxBlocks \in Nat
ASSUME BlocksAssumption == Blocks \subseteq Nat \ {0}

\* The sizes a client may choose: their product is computed in std::size_t.
ASSUME WidthAssumption == SizeLimit \in Nat /\ BufferSize * BlockSize < SizeLimit

VARIABLES
  isPointer,  \* TRUE in a BufferPool, FALSE in an ObjectPool
  m_bytes,    \* the byte blocks the pool owns
  m_nodes,    \* the node blocks the pool owns (m_blocks in an ObjectPool)
  m_mutex,    \* the thread in the critical section of doAllocate, or NoThread
  pc,         \* where each thread is
  newBytes,   \* the byte blocks a call of doAllocate owns
  newNodes,   \* the node blocks a call of doAllocate owns
  bytesOf,    \* the byte block the values of a node block point into
  memory,     \* who wrote each element last; NoThread: it is zero
  free,       \* the nodes in the pool
  held,       \* the nodes of each thread
  written     \* the nodes whose buffer was written since they were acquired

owners == <<m_bytes, m_nodes, newBytes, newNodes>>
clients == <<free, held, written>>
vars == <<isPointer, owners, m_mutex, pc, bytesOf, memory, clients>>

Block == 0..(MaxBlocks - 1)
Node == Block \X (0..(BlockSize - 1))

m_bytesPerBlock == (BufferSize * BlockSize) % SizeLimit
Address == 0..(MaxBlocks * m_bytesPerBlock - 1)
BytesIn(b) == (b * m_bytesPerBlock)..(b * m_bytesPerBlock + m_bytesPerBlock - 1)

\* Mutants: the buffers begin one element apart, or one buffer too high.
Offset_Packed(i) == i
Offset_High(i) == (BufferSize * (i + 1)) % SizeLimit

\* node.val() = &bytes[m_bufferSize * i]
Offset(i) == (BufferSize * i) % SizeLimit
BufferAt(b, i) ==
  LET val == b * m_bytesPerBlock + Offset(i) IN val..(val + BufferSize - 1)
Buffer(n) == BufferAt(bytesOf[n[1]], n[2])

NodesIn(B) == {n \in Node : n[1] \in B}
InUse(own, new) == own \cup UNION {new[t] : t \in Thread}

-----------------------------------------------------------------------------
(* doAllocate(blocks)                                                      *)

Goto(t, from, to) == pc[t] = from /\ pc' = [pc EXCEPT ![t] = to]

\* Mutant: the list is a member of the pool, which the calls in flight share.
Listed_Shared(list, t, B) ==
  [u \in Thread |-> IF u = t \/ pc[u] # "idle" THEN list[u] \cup B ELSE list[u]]

\* t's call has the new blocks in a list of its own: newBlocks, newBytes, newNodes.
Listed(list, t, B) == [list EXCEPT ![t] = B]

\* Each node block of N is paired with a byte block of B, zeroed, which the values of
\* its nodes point into.
PointInto(t, N, B) ==
  \E pointing \in [N -> B] :
    /\ \A i, j \in N : i # j => pointing[i] # pointing[j]
    /\ newBytes' = Listed(newBytes, t, B)
    /\ bytesOf' = [k \in Block |-> IF k \in N THEN pointing[k] ELSE bytesOf[k]]
    /\ memory' = [a \in Address |->
                    IF \E b \in B : a \in BytesIn(b) THEN NoThread ELSE memory[a]]

\* The loops that allocate the blocks.
NewBlocks(t) ==
  /\ Goto(t, "idle", "lock")
  /\ \E count \in Blocks, N, B \in SUBSET Block :
       /\ Cardinality(N) = count /\ N \cap InUse(m_nodes, newNodes) = {}
       /\ newNodes' = Listed(newNodes, t, N)
       /\ IF isPointer
            THEN /\ Cardinality(B) = count /\ B \cap InUse(m_bytes, newBytes) = {}
                 /\ PointInto(t, N, B)
            ELSE B = {} /\ UNCHANGED <<newBytes, bytesOf, memory>>
  /\ UNCHANGED <<isPointer, m_bytes, m_nodes, m_mutex, clients>>

\* The loops throw at one of their allocations: what is there already is freed.
NewBlocksThrow(t) == pc[t] = "idle" /\ UNCHANGED vars

\* Mutant: the lock is taken while another thread has it.
Lock_NoWait(t) ==
  /\ Goto(t, "lock", IF isPointer THEN "insert_bytes" ELSE "insert_nodes")
  /\ m_mutex' = t
  /\ UNCHANGED <<isPointer, owners, bytesOf, memory, clients>>

Lock(t) ==
  /\ Goto(t, "lock", IF isPointer THEN "insert_bytes" ELSE "insert_nodes")
  /\ m_mutex = NoThread
  /\ m_mutex' = t
  /\ UNCHANGED <<isPointer, owners, bytesOf, memory, clients>>

\* Mutant: the byte blocks are freed with the locals of the call.
MovedBytes_Not(t) == m_bytes

\* m_bytes.insert: the pointers are moved.
MovedBytes(t) == m_bytes \cup newBytes[t]

InsertBytes(t) ==
  /\ Goto(t, "insert_bytes", "insert_nodes")
  /\ m_bytes' = MovedBytes(t)
  /\ newBytes' = [newBytes EXCEPT ![t] = {}]
  /\ UNCHANGED <<isPointer, m_nodes, newNodes, m_mutex, bytesOf, memory, clients>>

\* m_nodes.insert, and the nodes are returned.
InsertNodes(t) ==
  /\ Goto(t, "insert_nodes", "idle")
  /\ m_nodes' = m_nodes \cup newNodes[t]
  /\ newNodes' = [newNodes EXCEPT ![t] = {}]
  /\ free' = free \cup NodesIn(newNodes[t])
  /\ m_mutex' = NoThread
  /\ UNCHANGED <<isPointer, m_bytes, newBytes, bytesOf, memory, held, written>>

\* An insert throws: what the call still owns is freed.  Blocks of bytes already
\* inserted stay with the pool, without nodes.
InsertThrows(t) ==
  /\ pc[t] \in {"insert_bytes", "insert_nodes"}
  /\ pc' = [pc EXCEPT ![t] = "idle"]
  /\ newBytes' = [newBytes EXCEPT ![t] = {}]
  /\ newNodes' = [newNodes EXCEPT ![t] = {}]
  /\ m_mutex' = NoThread
  /\ UNCHANGED <<isPointer, m_bytes, m_nodes, bytesOf, memory, clients>>

-----------------------------------------------------------------------------
(* What clients do with the nodes                                          *)

Acquire(t, n) ==
  /\ pc[t] = "idle" /\ n \in free
  /\ free' = free \ {n}
  /\ held' = [held EXCEPT ![t] = @ \cup {n}]
  /\ UNCHANGED <<isPointer, owners, m_mutex, pc, bytesOf, memory, written>>

\* The client writes all of the buffer.
Write(t, n) ==
  /\ pc[t] = "idle" /\ n \in held[t]
  /\ isPointer
  /\ memory' = [a \in Address |-> IF a \in Buffer(n) THEN t ELSE memory[a]]
  /\ written' = written \cup {n}
  /\ UNCHANGED <<isPointer, owners, m_mutex, pc, bytesOf, free, held>>

\* Mutant: the last element of the buffer is not filled.
Filled_Short(n) == {a \in Buffer(n) : a + 1 \in Buffer(n)}

\* construct(val): std::fill(*val, *val + m_bufferSize, 0)
Filled(n) == IF isPointer THEN Buffer(n) ELSE {}

Release(t, n) ==
  /\ pc[t] = "idle" /\ n \in held[t]
  /\ memory' = [a \in Address |-> IF a \in Filled(n) THEN NoThread ELSE memory[a]]
  /\ written' = written \ {n}
  /\ held' = [held EXCEPT ![t] = @ \ {n}]
  /\ free' = free \cup {n}
  /\ UNCHANGED <<isPointer, owners, m_mutex, pc, bytesOf>>

-----------------------------------------------------------------------------

Init ==
  /\ isPointer \in BOOLEAN
  /\ m_bytes = {} /\ m_nodes = {}
  /\ m_mutex = NoThread
  /\ pc = [t \in Thread |-> "idle"]
  /\ newBytes = [t \in Thread |-> {}] /\ newNodes = [t \in Thread |-> {}]
  /\ bytesOf = [k \in Block |-> 0]
  /\ memory = [a \in Address |-> NoThread]
  /\ free = {}
  /\ held = [t \in Thread |-> {}]
  /\ written = {}

Next ==
  \E t \in Thread :
    \/ NewBlocks(t) \/ NewBlocksThrow(t) \/ Lock(t)
    \/ InsertBytes(t) \/ InsertNodes(t) \/ InsertThrows(t)
    \/ \E n \in Node : Acquire(t, n) \/ Write(t, n) \/ Release(t, n)

Spec == Init /\ [][Next]_vars

-----------------------------------------------------------------------------

\* The nodes whose buffers somebody may write: handed to the pool or to a client.
Live == free \cup UNION {held[t] : t \in Thread}

\* Every variable has its type; node blocks point to byte blocks, nodes into memory.
TypeOK ==
  /\ isPointer \in BOOLEAN
  /\ m_bytes \subseteq Block /\ m_nodes \subseteq Block
  /\ m_mutex \in Thread \cup {NoThread}
  /\ pc \in [Thread -> {"idle", "lock", "insert_bytes", "insert_nodes"}]
  /\ newBytes \in [Thread -> SUBSET Block] /\ newNodes \in [Thread -> SUBSET Block]
  /\ bytesOf \in [Block -> Block]
  /\ memory \in [Address -> Thread \cup {NoThread}]
  /\ free \subseteq Node /\ held \in [Thread -> SUBSET Node] /\ written \subseteq Node
  /\ \A n \in Node : Buffer(n) \subseteq Address

\* Two inserts into the deques never run at once.
InsertsAlone ==
  \A t \in Thread : pc[t] \in {"insert_bytes", "insert_nodes"} => m_mutex = t

\* No block has two owners, which would free it twice: neither two calls nor a call
\* and the pool, also after the first of two inserts; and a call that has returned or
\* thrown owns none.
BlockOwned ==
  \A t \in Thread :
    /\ pc[t] = "idle" => newBytes[t] = {} /\ newNodes[t] = {}
    /\ newBytes[t] \cap m_bytes = {} /\ newNodes[t] \cap m_nodes = {}
    /\ \A u \in Thread \ {t} :
         newBytes[t] \cap newBytes[u] = {} /\ newNodes[t] \cap newNodes[u] = {}

\* A node that left doAllocate lies in a block the pool owns, and so does all of its
\* buffer, whichever calls threw and between whichever inserts.
Backed ==
  \A n \in Live :
    /\ n[1] \in m_nodes
    /\ isPointer => bytesOf[n[1]] \in m_bytes /\ Buffer(n) \subseteq BytesIn(bytesOf[n[1]])

\* The buffers of two nodes do not overlap.
Apart == \A m, n \in Live : isPointer /\ m # n => Buffer(m) \cap Buffer(n) = {}

\* A buffer holds what its owner wrote, until it gives it back; one that was just
\* acquired, and one in the pool, is zero.
Intact ==
  isPointer =>
    /\ \A n \in free : \A a \in Buffer(n) : memory[a] = NoThread
    /\ \A t \in Thread : \A n \in held[t] : \A a \in Buffer(n) :
         memory[a] = IF n \in written THEN t ELSE NoThread
=============================================================================
