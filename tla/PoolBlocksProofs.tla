--------------------------- MODULE PoolBlocksProofs ---------------------------
(***************************************************************************)
(* Proofs about PoolBlocks: for every number of threads and blocks, and all *)
(* sizes whose product fits into std::size_t, nodes lie in memory the pool  *)
(* owns, their buffers lie apart inside of it, and keep what was written.   *)
(***************************************************************************)
EXTENDS PoolBlocks, TLAPS

-----------------------------------------------------------------------------
(* The layout of buffers in memory                                         *)

LEMMA Monotone ==
  ASSUME NEW i \in Nat, NEW j \in Nat, NEW s \in Nat, i < j
  PROVE  s * i + s <= s * j
  <1>1. PICK k \in Nat : j = i + 1 + k
    <2>1. j - i - 1 \in Nat /\ j = i + 1 + (j - i - 1)
      OBVIOUS
    <2>. QED  BY <2>1
  <1>2. s * j = s * i + s + s * k
    BY <1>1
  <1>3. s * k >= 0
    OBVIOUS
  <1>. QED  BY <1>2, <1>3

\* The product does not wrap.
LEMMA BlockBytes ==
  /\ m_bytesPerBlock = BufferSize * BlockSize
  /\ m_bytesPerBlock \in Nat
  /\ \A i \in 0..(BlockSize - 1) :
       /\ Offset(i) = BufferSize * i
       /\ Offset(i) \in Nat
       /\ Offset(i) + BufferSize <= m_bytesPerBlock
  <1>. DEFINE size == BufferSize * BlockSize
  <1>1. size \in Nat /\ size < SizeLimit /\ SizeLimit \in Nat
    BY SizeAssumption, WidthAssumption
  <1>2. \A x \in Nat : x < SizeLimit => x % SizeLimit = x
    BY <1>1
  <1>3. m_bytesPerBlock = size
    BY <1>1, <1>2 DEF m_bytesPerBlock
  <1>4. ASSUME NEW i \in 0..(BlockSize - 1)
        PROVE  /\ BufferSize * i \in Nat /\ BufferSize * i + BufferSize <= size
               /\ Offset(i) = BufferSize * i
    <2>1. BufferSize * i + BufferSize <= size /\ BufferSize * i \in Nat
      BY Monotone, SizeAssumption
    <2>2. BufferSize * i < SizeLimit
      BY <1>1, <2>1, SizeAssumption
    <2>. QED  BY <1>2, <2>1, <2>2 DEF Offset
  <1>. QED  BY <1>1, <1>3, <1>4

\* A buffer lies inside of its block, and a block in memory.
LEMMA Inside ==
  ASSUME NEW b \in Block, NEW i \in 0..(BlockSize - 1)
  PROVE  BufferAt(b, i) \subseteq BytesIn(b) /\ BytesIn(b) \subseteq Address
  <1>. DEFINE B == m_bytesPerBlock
              base == b * B
              off == Offset(i)
  <1>1. B \in Nat /\ off \in Nat /\ off + BufferSize <= B /\ BufferSize \in Nat
    BY BlockBytes, SizeAssumption
  <1>2. base \in Nat /\ base + B <= MaxBlocks * B
    <2>1. B * b + B <= B * MaxBlocks
      BY <1>1, Monotone, SizeAssumption DEF Block
    <2>2. B * b = base /\ B * MaxBlocks = MaxBlocks * B /\ base \in Nat
      BY <1>1, SizeAssumption DEF Block
    <2>. QED  BY <2>1, <2>2
  <1>3. MaxBlocks * B \in Nat
    BY <1>1, SizeAssumption
  <1>4. BytesIn(b) = base..(base + B - 1) /\ Address = 0..(MaxBlocks * B - 1)
    BY DEF BytesIn, Address
  <1>5. BufferAt(b, i) = (base + off)..(base + off + BufferSize - 1)
    BY DEF BufferAt
  <1>. HIDE DEF B, base, off
  <1>6. base..(base + B - 1) \subseteq 0..(MaxBlocks * B - 1)
    BY <1>1, <1>2, <1>3
  <1>7. (base + off)..(base + off + BufferSize - 1) \subseteq base..(base + B - 1)
    BY <1>1, <1>2
  <1>. QED  BY <1>4, <1>5, <1>6, <1>7

\* The bytes of two blocks lie apart.
LEMMA BlocksApart ==
  ASSUME NEW b \in Block, NEW c \in Block, b # c
  PROVE  BytesIn(b) \cap BytesIn(c) = {}
  <1>. DEFINE B == m_bytesPerBlock
  <1>1. ASSUME NEW d \in Block, NEW e \in Block, d < e
        PROVE  BytesIn(d) \cap BytesIn(e) = {}
    <2>1. B * d + B <= B * e
      BY <1>1, BlockBytes, Monotone, SizeAssumption DEF Block
    <2>2. B * d = d * B /\ B * e = e * B /\ d * B \in Nat /\ e * B \in Nat /\ B \in Nat
      BY BlockBytes, SizeAssumption DEF Block
    <2>. DEFINE D == d * B
                E == e * B
    <2>3. D \in Nat /\ E \in Nat /\ B \in Nat /\ D + B <= E
      BY <2>1, <2>2
    <2>4. BytesIn(d) = D..(D + B - 1) /\ BytesIn(e) = E..(E + B - 1)
      BY DEF BytesIn
    <2>. HIDE DEF B, D, E
    <2>. QED  BY <2>3, <2>4
  <1>2. b < c \/ c < b
    BY SizeAssumption DEF Block
  <1>. QED  BY <1>1, <1>2

\* So do two buffers of one block, hence any two buffers.
LEMMA BuffersApart ==
  ASSUME NEW b \in Block, NEW c \in Block,
         NEW i \in 0..(BlockSize - 1), NEW j \in 0..(BlockSize - 1),
         b # c \/ i # j
  PROVE  BufferAt(b, i) \cap BufferAt(c, j) = {}
  <1>1. CASE b # c
    BY <1>1, Inside, BlocksApart, Zenon
  <1>2. ASSUME NEW k \in 0..(BlockSize - 1), NEW l \in 0..(BlockSize - 1), k < l
        PROVE  BufferAt(b, k) \cap BufferAt(b, l) = {}
    <2>. DEFINE base == b * m_bytesPerBlock
                K == BufferSize * k
                L == BufferSize * l
    <2>1. K + BufferSize <= L /\ K \in Nat /\ L \in Nat /\ BufferSize \in Nat
      BY <1>2, Monotone, SizeAssumption
    <2>2. base \in Nat
      BY BlockBytes, SizeAssumption DEF Block
    <2>3. /\ BufferAt(b, k) = (base + K)..(base + K + BufferSize - 1)
          /\ BufferAt(b, l) = (base + L)..(base + L + BufferSize - 1)
      BY BlockBytes DEF BufferAt
    <2>. HIDE DEF base, K, L
    <2>. QED  BY <2>1, <2>2, <2>3
  <1>3. CASE b = c /\ i # j
    <2>1. i < j \/ j < i
      BY <1>3, SizeAssumption
    <2>. QED  BY <1>2, <1>3, <2>1
  <1>. QED  BY <1>1, <1>3

-----------------------------------------------------------------------------
(* The invariant                                                           *)

Types ==
  /\ isPointer \in BOOLEAN
  /\ m_bytes \subseteq Block /\ m_nodes \subseteq Block
  /\ m_mutex \in Thread \cup {NoThread}
  /\ pc \in [Thread -> {"idle", "lock", "insert_bytes", "insert_nodes"}]
  /\ newBytes \in [Thread -> SUBSET Block] /\ newNodes \in [Thread -> SUBSET Block]
  /\ bytesOf \in [Block -> Block]
  /\ memory \in [Address -> Thread \cup {NoThread}]
  /\ free \subseteq Node /\ held \in [Thread -> SUBSET Node] /\ written \subseteq Node

\* A call owns blocks until their insert, and inserts alone.
Control ==
  \A t \in Thread :
    /\ pc[t] \in {"insert_bytes", "insert_nodes"} => m_mutex = t
    /\ pc[t] = "idle" => newBytes[t] = {} /\ newNodes[t] = {}
    /\ pc[t] = "insert_nodes" \/ ~isPointer => newBytes[t] = {}

\* No two calls own a block, nor a call and the pool.
OneOwner ==
  \A t \in Thread :
    /\ newBytes[t] \cap m_bytes = {} /\ newNodes[t] \cap m_nodes = {}
    /\ \A u \in Thread \ {t} :
         newBytes[t] \cap newBytes[u] = {} /\ newNodes[t] \cap newNodes[u] = {}

\* Each node block in use has a byte block of its own, with the same owner.
Pointing ==
  isPointer =>
    /\ \A k \in m_nodes : bytesOf[k] \in m_bytes
    /\ \A t \in Thread : \A k \in newNodes[t] :
         bytesOf[k] \in IF pc[t] = "insert_nodes" THEN m_bytes ELSE newBytes[t]
    /\ \A i, j \in InUse(m_nodes, newNodes) : i # j => bytesOf[i] # bytesOf[j]

\* A node that left doAllocate is in a block of the pool, and in one place.
Custody ==
  /\ Live \subseteq NodesIn(m_nodes)
  /\ \A t \in Thread : held[t] \cap free = {}
  /\ \A t, u \in Thread : t # u => held[t] \cap held[u] = {}
  /\ written \cap free = {} /\ written \subseteq Live

Reads(n, w) == \A a \in Buffer(n) : memory[a] = w

Contents ==
  isPointer =>
    /\ \A n \in free : Reads(n, NoThread)
    /\ \A t \in Thread : \A n \in held[t] :
         (n \in written => Reads(n, t)) /\ (n \notin written => Reads(n, NoThread))
    /\ \A t \in Thread : \A n \in NodesIn(newNodes[t]) : Reads(n, NoThread)

Inv == Types /\ Control /\ OneOwner /\ Pointing /\ Custody /\ Contents

LEMMA NodeParts ==
  ASSUME NEW n \in Node
  PROVE  n[1] \in Block /\ n[2] \in 0..(BlockSize - 1) /\ n = <<n[1], n[2]>>
  BY DEF Node

LEMMA BufferInside ==
  ASSUME Types, NEW n \in Node
  PROVE  /\ bytesOf[n[1]] \in Block
         /\ Buffer(n) \subseteq BytesIn(bytesOf[n[1]])
         /\ Buffer(n) \subseteq Address
  <1>1. n[1] \in Block /\ n[2] \in 0..(BlockSize - 1)
    BY NodeParts, Zenon
  <1>2. bytesOf[n[1]] \in Block
    BY <1>1 DEF Types
  <1>3. BufferAt(bytesOf[n[1]], n[2]) \subseteq BytesIn(bytesOf[n[1]])
        /\ BytesIn(bytesOf[n[1]]) \subseteq Address
    BY <1>1, <1>2, Inside, Zenon
  <1>. QED  BY <1>2, <1>3 DEF Buffer

LEMMA BufferApart ==
  ASSUME Types, Pointing, isPointer, NEW m \in Node, NEW n \in Node, m # n,
         m[1] \in InUse(m_nodes, newNodes), n[1] \in InUse(m_nodes, newNodes)
  PROVE  Buffer(m) \cap Buffer(n) = {}
  <1>1. /\ m[1] \in Block /\ m[2] \in 0..(BlockSize - 1) /\ m = <<m[1], m[2]>>
        /\ n[1] \in Block /\ n[2] \in 0..(BlockSize - 1) /\ n = <<n[1], n[2]>>
    BY NodeParts, Zenon
  <1>2. bytesOf[m[1]] \in Block /\ bytesOf[n[1]] \in Block
    BY <1>1 DEF Types
  <1>3. m[1] # n[1] \/ m[2] # n[2]
    BY <1>1, Zenon
  <1>4. bytesOf[m[1]] # bytesOf[n[1]] \/ m[2] # n[2]
    BY <1>3 DEF Pointing
  <1>5. BufferAt(bytesOf[m[1]], m[2]) \cap BufferAt(bytesOf[n[1]], n[2]) = {}
    BY <1>1, <1>2, <1>4, BuffersApart, Zenon
  <1>. QED  BY <1>5 DEF Buffer

\* What the loops that allocate do, without the number of blocks.
LEMMA NewBlocksDoes ==
  ASSUME NEW t \in Thread, NewBlocks(t)
  PROVE  \E N \in SUBSET Block, B \in SUBSET Block :
           /\ newNodes' = [newNodes EXCEPT ![t] = N]
           /\ N \cap InUse(m_nodes, newNodes) = {}
           /\ IF isPointer
                THEN B \cap InUse(m_bytes, newBytes) = {} /\ PointInto(t, N, B)
                ELSE UNCHANGED <<newBytes, bytesOf, memory>>
           /\ PointInto(t, N, B) \/ UNCHANGED <<newBytes, bytesOf, memory>>
  BY DEF NewBlocks, Listed

-----------------------------------------------------------------------------
(* Types                                                                   *)

LEMMA TypesKept ==
  ASSUME Types, [Next]_vars
  PROVE  Types'
  <1>. USE DEF Types
  <1>1. CASE UNCHANGED vars
    BY <1>1 DEF vars, owners, clients
  <1>2. ASSUME NEW t \in Thread, NewBlocks(t) PROVE Types'
    <2>1. PICK N \in SUBSET Block, B \in SUBSET Block :
            /\ newNodes' = [newNodes EXCEPT ![t] = N]
            /\ PointInto(t, N, B) \/ UNCHANGED <<newBytes, bytesOf, memory>>
      BY <1>2, NewBlocksDoes, Zenon
    <2>2. newNodes' \in [Thread -> SUBSET Block]
      BY <2>1
    <2>3. /\ newBytes' \in [Thread -> SUBSET Block]
          /\ bytesOf' \in [Block -> Block]
          /\ memory' \in [Address -> Thread \cup {NoThread}]
      <3>1. CASE PointInto(t, N, B)
        BY <3>1 DEF PointInto, Listed
      <3>2. CASE UNCHANGED <<newBytes, bytesOf, memory>>
        BY <3>2
      <3>. QED  BY <2>1, <3>1, <3>2
    <2>5. /\ UNCHANGED <<isPointer, m_bytes, m_nodes, m_mutex, free, held, written>>
          /\ pc' = [pc EXCEPT ![t] = "lock"]
      BY <1>2 DEF NewBlocks, Goto, clients
    <2>. QED  BY <2>2, <2>3, <2>5
  <1>3. ASSUME NEW t \in Thread, NewBlocksThrow(t) PROVE Types'
    BY <1>3 DEF NewBlocksThrow, vars, owners, clients
  <1>4. ASSUME NEW t \in Thread, Lock(t) PROVE Types'
    BY <1>4 DEF Lock, Goto, owners, clients
  <1>5. ASSUME NEW t \in Thread, InsertBytes(t) PROVE Types'
    BY <1>5 DEF InsertBytes, MovedBytes, Goto, clients
  <1>6. ASSUME NEW t \in Thread, InsertNodes(t) PROVE Types'
    BY <1>6 DEF InsertNodes, NodesIn, Goto
  <1>7. ASSUME NEW t \in Thread, InsertThrows(t) PROVE Types'
    BY <1>7 DEF InsertThrows, clients
  <1>8. ASSUME NEW t \in Thread, NEW n \in Node, Acquire(t, n) PROVE Types'
    BY <1>8 DEF Acquire, owners
  <1>9. ASSUME NEW t \in Thread, NEW n \in Node, Write(t, n) PROVE Types'
    BY <1>9 DEF Write, owners
  <1>10. ASSUME NEW t \in Thread, NEW n \in Node, Release(t, n) PROVE Types'
    BY <1>10 DEF Release, owners
  <1>. QED
    BY <1>1, <1>2, <1>3, <1>4, <1>5, <1>6, <1>7, <1>8, <1>9, <1>10 DEF Next

\* Clients leave what doAllocate works on alone.
LEMMA ClientsApart ==
  ASSUME NEW t \in Thread, NEW n \in Node,
         Acquire(t, n) \/ Write(t, n) \/ Release(t, n)
  PROVE  UNCHANGED <<isPointer, m_bytes, m_nodes, m_mutex, pc, newBytes, newNodes, bytesOf>>
  BY DEF Acquire, Write, Release, owners

-----------------------------------------------------------------------------
(* The blocks                                                              *)

LEMMA ControlKept ==
  ASSUME Types, Control, [Next]_vars
  PROVE  Control'
  <1>. USE DEF Types, Control
  <1>1. CASE UNCHANGED vars
    BY <1>1 DEF vars, owners
  <1>2. ASSUME NEW t \in Thread, NewBlocks(t) PROVE Control'
    <2>1. pc' = [pc EXCEPT ![t] = "lock"] /\ UNCHANGED <<isPointer, m_mutex>>
      BY <1>2 DEF NewBlocks, Goto
    <2>2. PICK N \in SUBSET Block, B \in SUBSET Block :
            /\ newNodes' = [newNodes EXCEPT ![t] = N]
            /\ IF isPointer THEN PointInto(t, N, B) ELSE UNCHANGED <<newBytes, bytesOf, memory>>
      BY <1>2, NewBlocksDoes, Zenon
    <2>3. isPointer => newBytes' = [newBytes EXCEPT ![t] = B]
      BY <2>2 DEF PointInto, Listed
    <2>4. ~isPointer => newBytes' = newBytes
      BY <2>2
    <2>. QED  BY <2>1, <2>2, <2>3, <2>4
  <1>3. ASSUME NEW t \in Thread, NewBlocksThrow(t) PROVE Control'
    BY <1>3 DEF NewBlocksThrow, vars, owners
  <1>4. ASSUME NEW t \in Thread, Lock(t) PROVE Control'
    <2>1. /\ m_mutex = NoThread /\ m_mutex' = t
          /\ pc[t] = "lock"
          /\ pc' = [pc EXCEPT ![t] = IF isPointer THEN "insert_bytes" ELSE "insert_nodes"]
          /\ UNCHANGED <<isPointer, newBytes, newNodes>>
      BY <1>4 DEF Lock, Goto, owners
    <2>2. \A u \in Thread : pc[u] \notin {"insert_bytes", "insert_nodes"}
      BY <2>1, ThreadAssumption
    <2>3. \A u \in Thread : pc'[u] = IF u # t THEN pc[u]
                                  ELSE IF isPointer THEN "insert_bytes" ELSE "insert_nodes"
      BY <2>1
    <2>. QED  BY <2>1, <2>2, <2>3
  <1>5. ASSUME NEW t \in Thread, InsertBytes(t) PROVE Control'
    BY <1>5 DEF InsertBytes, Goto
  <1>6. ASSUME NEW t \in Thread, InsertNodes(t) PROVE Control'
    BY <1>6 DEF InsertNodes, Goto
  <1>7. ASSUME NEW t \in Thread, InsertThrows(t) PROVE Control'
    BY <1>7 DEF InsertThrows
  <1>8. ASSUME NEW t \in Thread, NEW n \in Node,
               Acquire(t, n) \/ Write(t, n) \/ Release(t, n)
        PROVE  Control'
    BY <1>8, ClientsApart
  <1>. QED
    BY <1>1, <1>2, <1>3, <1>4, <1>5, <1>6, <1>7, <1>8 DEF Next

LEMMA OneOwnerKept ==
  ASSUME Types, Control, OneOwner, [Next]_vars
  PROVE  OneOwner'
  <1>. USE DEF Types, OneOwner
  <1>1. CASE UNCHANGED vars
    BY <1>1 DEF vars, owners
  <1>2. ASSUME NEW t \in Thread, NewBlocks(t) PROVE OneOwner'
    <2>1. PICK N \in SUBSET Block, B \in SUBSET Block :
            /\ newNodes' = [newNodes EXCEPT ![t] = N]
            /\ N \cap InUse(m_nodes, newNodes) = {}
            /\ \/ newBytes' = [newBytes EXCEPT ![t] = B] /\ B \cap InUse(m_bytes, newBytes) = {}
               \/ newBytes' = newBytes
      BY <1>2, NewBlocksDoes DEF PointInto, Listed
    <2>2. /\ N \cap m_nodes = {} /\ \A u \in Thread : N \cap newNodes[u] = {}
          /\ m_bytes' = m_bytes /\ m_nodes' = m_nodes
      BY <1>2, <2>1 DEF NewBlocks, InUse
    <2>3. CASE newBytes' = [newBytes EXCEPT ![t] = B] /\ B \cap InUse(m_bytes, newBytes) = {}
      <3>1. B \cap m_bytes = {} /\ \A u \in Thread : B \cap newBytes[u] = {}
        BY <2>3 DEF InUse
      <3>. QED  BY <2>1, <2>2, <2>3, <3>1
    <2>4. CASE newBytes' = newBytes
      BY <2>1, <2>2, <2>4
    <2>. QED  BY <2>1, <2>3, <2>4
  <1>3. ASSUME NEW t \in Thread, NewBlocksThrow(t) PROVE OneOwner'
    BY <1>3 DEF NewBlocksThrow, vars, owners
  <1>4. ASSUME NEW t \in Thread, Lock(t) PROVE OneOwner'
    BY <1>4 DEF Lock, owners
  <1>5. ASSUME NEW t \in Thread, InsertBytes(t) PROVE OneOwner'
    <2>1. /\ m_bytes' = m_bytes \cup newBytes[t] /\ newBytes' = [newBytes EXCEPT ![t] = {}]
          /\ UNCHANGED <<m_nodes, newNodes>>
      BY <1>5 DEF InsertBytes, MovedBytes
    <2>. QED  BY <2>1
  <1>6. ASSUME NEW t \in Thread, InsertNodes(t) PROVE OneOwner'
    <2>1. /\ m_nodes' = m_nodes \cup newNodes[t] /\ newNodes' = [newNodes EXCEPT ![t] = {}]
          /\ UNCHANGED <<m_bytes, newBytes>>
      BY <1>6 DEF InsertNodes
    <2>. QED  BY <2>1
  <1>7. ASSUME NEW t \in Thread, InsertThrows(t) PROVE OneOwner'
    BY <1>7 DEF InsertThrows
  <1>8. ASSUME NEW t \in Thread, NEW n \in Node,
               Acquire(t, n) \/ Write(t, n) \/ Release(t, n)
        PROVE  OneOwner'
    BY <1>8, ClientsApart
  <1>. QED
    BY <1>1, <1>2, <1>3, <1>4, <1>5, <1>6, <1>7, <1>8 DEF Next

\* The byte blocks of node blocks in use are in use.
LEMMA PointInUse ==
  ASSUME Types, Pointing, Control, isPointer, NEW i \in InUse(m_nodes, newNodes)
  PROVE  i \in Block /\ bytesOf[i] \in Block /\ bytesOf[i] \in InUse(m_bytes, newBytes)
  <1>1. i \in Block /\ bytesOf[i] \in Block
    BY DEF Types, InUse
  <1>2. CASE i \in m_nodes
    BY <1>1, <1>2 DEF Pointing, InUse
  <1>3. ASSUME NEW t \in Thread, i \in newNodes[t]
        PROVE  bytesOf[i] \in InUse(m_bytes, newBytes)
    BY <1>3 DEF Pointing, InUse
  <1>. QED  BY <1>1, <1>2, <1>3 DEF InUse

LEMMA PointingKept ==
  ASSUME Types, Control, Pointing, [Next]_vars
  PROVE  Pointing'
  <1>. USE DEF Types, Pointing, InUse
  <1>1. CASE UNCHANGED vars
    BY <1>1 DEF vars, owners
  <1>2. ASSUME NEW t \in Thread, NewBlocks(t) PROVE Pointing'
    <2>1. /\ pc[t] = "idle" /\ pc' = [pc EXCEPT ![t] = "lock"]
          /\ UNCHANGED <<isPointer, m_bytes, m_nodes>>
      BY <1>2 DEF NewBlocks, Goto
    <2>2. SUFFICES ASSUME isPointer PROVE Pointing'
      BY <2>1
    <2>3. PICK N \in SUBSET Block, B \in SUBSET Block :
            /\ newNodes' = [newNodes EXCEPT ![t] = N]
            /\ N \cap InUse(m_nodes, newNodes) = {}
            /\ B \cap InUse(m_bytes, newBytes) = {}
            /\ PointInto(t, N, B)
      BY <1>2, <2>2, NewBlocksDoes, Zenon
    <2>4. PICK pointing \in [N -> B] :
            /\ \A i, j \in N : i # j => pointing[i] # pointing[j]
            /\ newBytes' = [newBytes EXCEPT ![t] = B]
            /\ bytesOf' = [k \in Block |-> IF k \in N THEN pointing[k] ELSE bytesOf[k]]
      BY <2>3 DEF PointInto, Listed
    <2>5. newNodes[t] = {}
      BY <2>1 DEF Control
    <2>6. ASSUME NEW i \in N
          PROVE  bytesOf'[i] = pointing[i] /\ bytesOf'[i] \in B
      BY <2>4
    <2>7. ASSUME NEW i \in InUse(m_nodes, newNodes)
          PROVE  bytesOf'[i] = bytesOf[i] /\ bytesOf'[i] \notin B
      <3>1. i \in Block /\ bytesOf[i] \in InUse(m_bytes, newBytes)
        BY <2>2, PointInUse, Zenon DEF Types, Pointing, Control, InUse
      <3>2. i \notin N /\ bytesOf[i] \notin B
        BY <2>3, <3>1
      <3>. QED  BY <2>4, <3>1, <3>2
    <2>8. \A k \in m_nodes : bytesOf'[k] \in m_bytes'
      BY <2>1, <2>2, <2>7
    <2>9. ASSUME NEW u \in Thread, NEW k \in newNodes'[u]
          PROVE  bytesOf'[k] \in IF pc'[u] = "insert_nodes" THEN m_bytes' ELSE newBytes'[u]
      <3>1. CASE u = t
        <4>1. newNodes'[u] = N /\ newBytes'[u] = B /\ pc'[u] = "lock"
          BY <2>1, <2>3, <2>4, <3>1
        <4>. QED  BY <2>6, <4>1
      <3>2. CASE u # t
        <4>1. newNodes'[u] = newNodes[u] /\ newBytes'[u] = newBytes[u] /\ pc'[u] = pc[u]
          BY <2>1, <2>3, <2>4, <3>2
        <4>2. k \in InUse(m_nodes, newNodes)
          BY <4>1
        <4>. QED  BY <2>1, <2>2, <2>7, <4>1, <4>2
      <3>. QED  BY <3>1, <3>2
    <2>10. ASSUME NEW i \in InUse(m_nodes, newNodes)'
           PROVE  i \in N \/ i \in InUse(m_nodes, newNodes)
      BY <2>1, <2>3
    <2>11. ASSUME NEW i \in InUse(m_nodes, newNodes)', NEW j \in InUse(m_nodes, newNodes)',
                  i # j
           PROVE  bytesOf'[i] # bytesOf'[j]
      <3>1. CASE i \in N /\ j \in N
        BY <2>4, <2>6, <2>11, <3>1
      <3>2. CASE i \in N /\ j \in InUse(m_nodes, newNodes)
        BY <2>6, <2>7, <3>2
      <3>3. CASE i \in InUse(m_nodes, newNodes) /\ j \in N
        BY <2>6, <2>7, <3>3
      <3>4. CASE i \in InUse(m_nodes, newNodes) /\ j \in InUse(m_nodes, newNodes)
        <4>1. bytesOf[i] # bytesOf[j]
          BY <2>2, <2>11, <3>4 DEF InUse
        <4>. QED  BY <2>7, <3>4, <4>1
      <3>. QED  BY <2>10, <3>1, <3>2, <3>3, <3>4
    <2>. HIDE DEF InUse
    <2>. QED  BY <2>1, <2>8, <2>9, <2>11
  <1>3. ASSUME NEW t \in Thread, NewBlocksThrow(t) PROVE Pointing'
    BY <1>3 DEF NewBlocksThrow, vars, owners
  <1>4. ASSUME NEW t \in Thread, Lock(t) PROVE Pointing'
    <2>1. /\ pc[t] = "lock"
          /\ pc' = [pc EXCEPT ![t] = IF isPointer THEN "insert_bytes" ELSE "insert_nodes"]
          /\ UNCHANGED <<isPointer, m_bytes, m_nodes, newBytes, newNodes, bytesOf>>
      BY <1>4 DEF Lock, Goto, owners
    <2>. QED  BY <2>1
  <1>5. ASSUME NEW t \in Thread, InsertBytes(t) PROVE Pointing'
    <2>1. /\ pc[t] = "insert_bytes" /\ pc' = [pc EXCEPT ![t] = "insert_nodes"]
          /\ m_bytes' = m_bytes \cup newBytes[t] /\ newBytes' = [newBytes EXCEPT ![t] = {}]
          /\ UNCHANGED <<isPointer, m_nodes, newNodes, bytesOf>>
      BY <1>5 DEF InsertBytes, MovedBytes, Goto
    <2>. QED  BY <2>1
  <1>6. ASSUME NEW t \in Thread, InsertNodes(t) PROVE Pointing'
    <2>1. /\ pc[t] = "insert_nodes" /\ pc' = [pc EXCEPT ![t] = "idle"]
          /\ m_nodes' = m_nodes \cup newNodes[t] /\ newNodes' = [newNodes EXCEPT ![t] = {}]
          /\ UNCHANGED <<isPointer, m_bytes, newBytes, bytesOf>>
      BY <1>6 DEF InsertNodes, Goto
    <2>. QED  BY <2>1
  <1>7. ASSUME NEW t \in Thread, InsertThrows(t) PROVE Pointing'
    <2>1. /\ pc' = [pc EXCEPT ![t] = "idle"]
          /\ newBytes' = [newBytes EXCEPT ![t] = {}] /\ newNodes' = [newNodes EXCEPT ![t] = {}]
          /\ UNCHANGED <<isPointer, m_bytes, m_nodes, bytesOf>>
      BY <1>7 DEF InsertThrows
    <2>. QED  BY <2>1
  <1>8. ASSUME NEW t \in Thread, NEW n \in Node,
               Acquire(t, n) \/ Write(t, n) \/ Release(t, n)
        PROVE  Pointing'
    <2>1. UNCHANGED <<isPointer, m_bytes, m_nodes, pc, newBytes, newNodes, bytesOf>>
      BY <1>8, ClientsApart
    <2>. QED  BY <2>1
  <1>. QED
    BY <1>1, <1>2, <1>3, <1>4, <1>5, <1>6, <1>7, <1>8 DEF Next

-----------------------------------------------------------------------------
(* The nodes                                                               *)

\* Until its call returns, no node of a new block is anywhere.
LEMMA FreshNowhere ==
  ASSUME OneOwner, Custody, NEW t \in Thread
  PROVE  NodesIn(newNodes[t]) \cap Live = {}
  BY DEF OneOwner, Custody, NodesIn

LEMMA CustodyKept ==
  ASSUME Types, OneOwner, Custody, [Next]_vars
  PROVE  Custody'
  <1>. USE DEF Types, Custody, Live, NodesIn
  <1>1. ASSUME UNCHANGED <<m_nodes, clients>> PROVE Custody'
    BY <1>1 DEF clients
  <1>2. ASSUME NEW t \in Thread, InsertNodes(t) PROVE Custody'
    <2>1. /\ m_nodes' = m_nodes \cup newNodes[t]
          /\ free' = free \cup NodesIn(newNodes[t])
          /\ UNCHANGED <<held, written>>
      BY <1>2 DEF InsertNodes
    <2>2. NodesIn(newNodes[t]) \cap Live = {}
      BY FreshNowhere, Zenon
    <2>. QED  BY <2>1, <2>2
  <1>3. ASSUME NEW t \in Thread, NEW n \in Node, Acquire(t, n) PROVE Custody'
    BY <1>3 DEF Acquire, owners
  <1>4. ASSUME NEW t \in Thread, NEW n \in Node, Write(t, n) PROVE Custody'
    BY <1>4 DEF Write, owners
  <1>5. ASSUME NEW t \in Thread, NEW n \in Node, Release(t, n) PROVE Custody'
    BY <1>5 DEF Release, owners
  <1>6. ASSUME NEW t \in Thread,
               \/ NewBlocks(t) \/ NewBlocksThrow(t) \/ Lock(t)
               \/ InsertBytes(t) \/ InsertThrows(t)
        PROVE  UNCHANGED <<m_nodes, clients>>
    BY <1>6 DEF NewBlocks, NewBlocksThrow, Lock, InsertBytes, InsertThrows, vars, owners
  <1>7. CASE UNCHANGED vars
    BY <1>1, <1>7 DEF vars, owners
  <1>. HIDE DEF Types, Custody, Live, NodesIn
  <1>. QED  BY <1>1, <1>2, <1>3, <1>4, <1>5, <1>6, <1>7 DEF Next

-----------------------------------------------------------------------------
(* What the buffers hold                                                   *)

\* A node of a client or of the pool, or of a call in flight, has its block in use.
LEMMA LiveInUse ==
  ASSUME Types, Custody, NEW n,
         \/ n \in free
         \/ \E t \in Thread : n \in held[t] \/ n \in NodesIn(newNodes[t])
  PROVE  n \in Node /\ n[1] \in InUse(m_nodes, newNodes)
  BY DEF Types, Custody, Live, NodesIn, InUse

\* Writing one buffer leaves what other nodes in use read alone.
LEMMA OthersKept ==
  ASSUME Types, Pointing, isPointer,
         NEW n \in Node, n[1] \in InUse(m_nodes, newNodes), NEW w,
         memory' = [a \in Address |-> IF a \in Buffer(n) THEN w ELSE memory[a]],
         bytesOf' = bytesOf
  PROVE  /\ Reads(n, w)'
         /\ \A m \in Node : \A v :
              m # n /\ m[1] \in InUse(m_nodes, newNodes) /\ Reads(m, v) => Reads(m, v)'
  <1>1. Buffer(n) \subseteq Address /\ Buffer(n)' = Buffer(n)
    BY BufferInside DEF Buffer
  <1>2. Reads(n, w)'
    BY <1>1 DEF Reads
  <1>3. ASSUME NEW m \in Node, NEW v, m # n, m[1] \in InUse(m_nodes, newNodes), Reads(m, v)
        PROVE  Reads(m, v)'
    <2>1. Buffer(m) \subseteq Address /\ Buffer(m)' = Buffer(m)
      BY BufferInside DEF Buffer
    <2>2. Buffer(m) \cap Buffer(n) = {}
      BY <1>3, BufferApart, Zenon
    <2>. QED  BY <1>3, <2>1, <2>2 DEF Reads
  <1>. QED  BY <1>2, <1>3

LEMMA ContentsKept ==
  ASSUME Types, Control, OneOwner, Pointing, Custody, Contents, [Next]_vars
  PROVE  Contents'
  <1>1. ASSUME UNCHANGED <<isPointer, memory, bytesOf, newNodes, clients>> PROVE Contents'
    BY <1>1 DEF Contents, Reads, Buffer, NodesIn, clients
  <1>2. ASSUME NEW t \in Thread, NewBlocks(t) PROVE Contents'
    <2>1. UNCHANGED <<isPointer, free, held, written>> /\ pc[t] = "idle"
      BY <1>2 DEF NewBlocks, clients, Goto
    <2>2. SUFFICES ASSUME isPointer PROVE Contents'
      BY <2>1 DEF Contents
    <2>3. PICK N \in SUBSET Block, B \in SUBSET Block :
            /\ newNodes' = [newNodes EXCEPT ![t] = N]
            /\ N \cap InUse(m_nodes, newNodes) = {}
            /\ B \cap InUse(m_bytes, newBytes) = {}
            /\ PointInto(t, N, B)
      BY <1>2, <2>2, NewBlocksDoes, Zenon
    <2>4. PICK pointing \in [N -> B] :
            /\ bytesOf' = [k \in Block |-> IF k \in N THEN pointing[k] ELSE bytesOf[k]]
            /\ memory' = [a \in Address |->
                            IF \E b \in B : a \in BytesIn(b) THEN NoThread ELSE memory[a]]
      BY <2>3 DEF PointInto, Listed
    <2>5. ASSUME NEW n \in Node, n[1] \in N
          PROVE  Reads(n, NoThread)'
      <3>1. n[1] \in Block /\ n[2] \in 0..(BlockSize - 1)
        BY NodeParts, Zenon
      <3>2. bytesOf'[n[1]] = pointing[n[1]] /\ pointing[n[1]] \in B /\ pointing[n[1]] \in Block
        BY <2>4, <2>5, <3>1
      <3>3. BufferAt(pointing[n[1]], n[2]) \subseteq BytesIn(pointing[n[1]])
            /\ BytesIn(pointing[n[1]]) \subseteq Address
        BY <3>1, <3>2, Inside, Zenon
      <3>4. Buffer(n)' \subseteq BytesIn(pointing[n[1]])
        BY <3>2, <3>3 DEF Buffer
      <3>. QED  BY <2>4, <3>2, <3>3, <3>4 DEF Reads
    <2>6. ASSUME NEW n \in Node, n[1] \in InUse(m_nodes, newNodes), NEW w, Reads(n, w)
          PROVE  Reads(n, w)'
      <3>1. n[1] \in Block /\ bytesOf[n[1]] \in Block
            /\ bytesOf[n[1]] \in InUse(m_bytes, newBytes)
        BY <2>2, <2>6, PointInUse, Zenon
      <3>2. bytesOf'[n[1]] = bytesOf[n[1]]
        BY <2>3, <2>4, <2>6, <3>1
      <3>3. Buffer(n) \subseteq BytesIn(bytesOf[n[1]]) /\ Buffer(n) \subseteq Address
        BY BufferInside, Zenon
      <3>4. Buffer(n)' = Buffer(n)
        BY <3>2 DEF Buffer
      <3>5. ASSUME NEW b \in B PROVE BytesIn(bytesOf[n[1]]) \cap BytesIn(b) = {}
        <4>1. b \in Block /\ b # bytesOf[n[1]]
          BY <2>3, <3>1
        <4>. QED  BY <3>1, <4>1, BlocksApart, Zenon
      <3>6. \A a \in Buffer(n) : a \in Address /\ ~\E b \in B : a \in BytesIn(b)
        BY <3>3, <3>5
      <3>7. \A a \in Buffer(n) : memory'[a] = memory[a]
        BY <2>4, <3>6, Zenon
      <3>. QED  BY <2>6, <3>4, <3>7 DEF Reads
    <2>7. \A n \in free : Reads(n, NoThread)'
      BY <2>2, <2>6, LiveInUse DEF Contents
    <2>8. ASSUME NEW u \in Thread, NEW n \in held[u]
          PROVE  (n \in written => Reads(n, u)') /\ (n \notin written => Reads(n, NoThread)')
      <3>1. n \in Node /\ n[1] \in InUse(m_nodes, newNodes)
        BY LiveInUse, Zenon
      <3>2. (n \in written => Reads(n, u)) /\ (n \notin written => Reads(n, NoThread))
        BY <2>2 DEF Contents
      <3>. QED  BY <2>6, <3>1, <3>2, Zenon
    <2>9. \A u \in Thread : \A n \in NodesIn(newNodes'[u]) : Reads(n, NoThread)'
      <3>1. ASSUME NEW u \in Thread, NEW n \in NodesIn(newNodes'[u])
            PROVE  Reads(n, NoThread)'
        <4>1. n \in Node /\ n[1] \in newNodes'[u]
          BY DEF NodesIn
        <4>2. CASE u = t
          <5>1. n[1] \in N
            BY <2>3, <4>1, <4>2 DEF Types
          <5>. QED  BY <2>5, <4>1, <5>1, Zenon
        <4>3. CASE u # t
          <5>1. n \in NodesIn(newNodes[u])
            BY <2>3, <4>1, <4>3 DEF Types, NodesIn
          <5>2. Reads(n, NoThread)
            BY <2>2, <5>1 DEF Contents
          <5>3. n[1] \in InUse(m_nodes, newNodes)
            BY <5>1, LiveInUse, Zenon
          <5>. QED  BY <2>6, <4>1, <5>2, <5>3, Zenon
        <4>. QED  BY <4>2, <4>3
      <3>. QED  BY <3>1, Zenon
    <2>. QED  BY <2>1, <2>7, <2>8, <2>9 DEF Contents
  <1>3. ASSUME NEW t \in Thread, InsertNodes(t) PROVE Contents'
    <2>1. /\ newNodes' = [newNodes EXCEPT ![t] = {}]
          /\ free' = free \cup NodesIn(newNodes[t])
          /\ UNCHANGED <<isPointer, memory, bytesOf, held, written>>
      BY <1>3 DEF InsertNodes
    <2>2. \A n, w : Reads(n, w)' <=> Reads(n, w)
      BY <2>1 DEF Reads, Buffer
    <2>3. \A u \in Thread : NodesIn(newNodes'[u]) \subseteq NodesIn(newNodes[u])
      BY <2>1 DEF Types, NodesIn
    <2>. QED  BY <2>1, <2>2, <2>3 DEF Contents
  <1>4. ASSUME NEW t \in Thread, InsertThrows(t) PROVE Contents'
    <2>1. /\ newNodes' = [newNodes EXCEPT ![t] = {}]
          /\ UNCHANGED <<isPointer, memory, bytesOf, free, held, written>>
      BY <1>4 DEF InsertThrows, clients
    <2>2. \A n, w : Reads(n, w)' <=> Reads(n, w)
      BY <2>1 DEF Reads, Buffer
    <2>3. \A u \in Thread : NodesIn(newNodes'[u]) \subseteq NodesIn(newNodes[u])
      BY <2>1 DEF Types, NodesIn
    <2>. QED  BY <2>1, <2>2, <2>3 DEF Contents
  <1>5. ASSUME NEW t \in Thread, NEW n \in Node, Acquire(t, n) PROVE Contents'
    <2>1. /\ n \in free /\ free' = free \ {n}
          /\ held' = [held EXCEPT ![t] = @ \cup {n}]
          /\ UNCHANGED <<isPointer, memory, bytesOf, newNodes, written>>
      BY <1>5 DEF Acquire, owners
    <2>2. \A m, w : Reads(m, w)' <=> Reads(m, w)
      BY <2>1 DEF Reads, Buffer
    <2>3. n \notin written
      BY <2>1 DEF Custody
    <2>4. \A u \in Thread : \A m \in held'[u] : m \in held[u] \/ m = n
      BY <2>1 DEF Types
    <2>. QED  BY <2>1, <2>2, <2>3, <2>4 DEF Contents
  <1>6. ASSUME NEW t \in Thread, NEW n \in Node, Write(t, n) \/ Release(t, n), isPointer,
               NEW w, w = IF n \in written' THEN t ELSE NoThread
        PROVE  /\ Reads(n, w)'
               /\ \A m \in Node : \A v :
                    m # n /\ m[1] \in InUse(m_nodes, newNodes) /\ Reads(m, v) => Reads(m, v)'
    <2>1. memory' = [a \in Address |-> IF a \in Buffer(n) THEN w ELSE memory[a]]
          /\ bytesOf' = bytesOf /\ n \in held[t]
      BY <1>6 DEF Write, Release, Filled
    <2>2. n[1] \in InUse(m_nodes, newNodes)
      BY <2>1, LiveInUse, Zenon
    <2>. QED  BY <1>6, <2>1, <2>2, OthersKept, Zenon
  <1>7. ASSUME NEW t \in Thread, NEW n \in Node, Write(t, n) PROVE Contents'
    <2>1. /\ isPointer /\ n \in held[t] /\ written' = written \cup {n}
          /\ UNCHANGED <<isPointer, bytesOf, newNodes, free, held>>
      BY <1>7 DEF Write, owners
    <2>2. /\ Reads(n, t)'
          /\ \A m \in Node : \A v :
               m # n /\ m[1] \in InUse(m_nodes, newNodes) /\ Reads(m, v) => Reads(m, v)'
      BY <1>6, <1>7, <2>1
    <2>3. n \notin free /\ \A u \in Thread \ {t} : n \notin held[u]
      BY <2>1 DEF Custody
    <2>4. \A u \in Thread : n \notin NodesIn(newNodes[u])
      BY <2>1, FreshNowhere DEF Live
    <2>5. \A m \in free : Reads(m, NoThread)'
      <3>1. ASSUME NEW m \in free PROVE Reads(m, NoThread)'
        <4>1. m \in Node /\ m[1] \in InUse(m_nodes, newNodes) /\ m # n
          BY <2>3, LiveInUse, Zenon
        <4>2. Reads(m, NoThread)
          BY <2>1 DEF Contents
        <4>. QED  BY <2>2, <4>1, <4>2, Zenon
      <3>. QED  BY <3>1
    <2>6. ASSUME NEW u \in Thread, NEW m \in held[u]
          PROVE  (m \in written' => Reads(m, u)') /\ (m \notin written' => Reads(m, NoThread)')
      <3>1. m \in Node /\ m[1] \in InUse(m_nodes, newNodes)
        BY LiveInUse, Zenon
      <3>2. (m \in written => Reads(m, u)) /\ (m \notin written => Reads(m, NoThread))
        BY <2>1 DEF Contents
      <3>3. CASE m = n
        <4>1. u = t /\ m \in written'
          BY <2>1, <2>3, <3>3
        <4>. QED  BY <2>2, <3>3, <4>1
      <3>4. CASE m # n
        <4>1. m \in written' <=> m \in written
          BY <2>1, <3>4
        <4>. QED  BY <2>2, <3>1, <3>2, <3>4, <4>1, Zenon
      <3>. QED  BY <3>3, <3>4
    <2>7. \A u \in Thread : \A m \in NodesIn(newNodes[u]) : Reads(m, NoThread)'
      <3>1. ASSUME NEW u \in Thread, NEW m \in NodesIn(newNodes[u])
            PROVE  Reads(m, NoThread)'
        <4>1. m \in Node /\ m[1] \in InUse(m_nodes, newNodes) /\ m # n
          BY <2>4, LiveInUse, Zenon
        <4>2. Reads(m, NoThread)
          BY <2>1 DEF Contents
        <4>. QED  BY <2>2, <4>1, <4>2, Zenon
      <3>. QED  BY <3>1
    <2>. QED  BY <2>1, <2>5, <2>6, <2>7 DEF Contents
  <1>8. ASSUME NEW t \in Thread, NEW n \in Node, Release(t, n) PROVE Contents'
    <2>1. /\ n \in held[t] /\ written' = written \ {n}
          /\ held' = [held EXCEPT ![t] = @ \ {n}] /\ free' = free \cup {n}
          /\ UNCHANGED <<isPointer, bytesOf, newNodes>>
      BY <1>8 DEF Release, owners
    <2>2. SUFFICES ASSUME isPointer PROVE Contents'
      BY <2>1 DEF Contents
    <2>3. /\ Reads(n, NoThread)'
          /\ \A m \in Node : \A v :
               m # n /\ m[1] \in InUse(m_nodes, newNodes) /\ Reads(m, v) => Reads(m, v)'
      BY <1>6, <1>8, <2>1, <2>2
    <2>4. n \notin free /\ \A u \in Thread \ {t} : n \notin held[u]
      BY <2>1 DEF Custody
    <2>5. \A u \in Thread : n \notin NodesIn(newNodes[u])
      BY <2>1, FreshNowhere DEF Live
    <2>6. \A m \in free' : Reads(m, NoThread)'
      <3>1. ASSUME NEW m \in free, m # n PROVE Reads(m, NoThread)'
        <4>1. m \in Node /\ m[1] \in InUse(m_nodes, newNodes)
          BY LiveInUse, Zenon
        <4>2. Reads(m, NoThread)
          BY <2>2 DEF Contents
        <4>. QED  BY <2>3, <3>1, <4>1, <4>2, Zenon
      <3>. QED  BY <2>1, <2>3, <3>1
    <2>7. ASSUME NEW u \in Thread, NEW m \in held'[u]
          PROVE  (m \in written' => Reads(m, u)') /\ (m \notin written' => Reads(m, NoThread)')
      <3>1. m \in held[u] /\ m # n
        BY <2>1, <2>4 DEF Types
      <3>2. m \in written' <=> m \in written
        BY <2>1, <3>1
      <3>3. (m \in written => Reads(m, u)) /\ (m \notin written => Reads(m, NoThread))
        BY <2>2, <3>1 DEF Contents
      <3>4. m \in Node /\ m[1] \in InUse(m_nodes, newNodes)
        BY <3>1, LiveInUse, Zenon
      <3>. QED  BY <2>3, <3>1, <3>2, <3>3, <3>4, Zenon
    <2>8. \A u \in Thread : \A m \in NodesIn(newNodes[u]) : Reads(m, NoThread)'
      <3>1. ASSUME NEW u \in Thread, NEW m \in NodesIn(newNodes[u])
            PROVE  Reads(m, NoThread)'
        <4>1. m \in Node /\ m[1] \in InUse(m_nodes, newNodes) /\ m # n
          BY <2>5, LiveInUse, Zenon
        <4>2. Reads(m, NoThread)
          BY <2>2 DEF Contents
        <4>. QED  BY <2>3, <4>1, <4>2, Zenon
      <3>. QED  BY <3>1
    <2>. QED  BY <2>1, <2>6, <2>7, <2>8 DEF Contents
  <1>9. ASSUME NEW t \in Thread, NewBlocksThrow(t) \/ Lock(t) \/ InsertBytes(t)
        PROVE  UNCHANGED <<isPointer, memory, bytesOf, newNodes, clients>>
    BY <1>9 DEF NewBlocksThrow, Lock, InsertBytes, vars, owners
  <1>10. CASE UNCHANGED vars
    BY <1>1, <1>10 DEF vars, owners
  <1>. QED
    BY <1>1, <1>2, <1>3, <1>4, <1>5, <1>7, <1>8, <1>9, <1>10 DEF Next

-----------------------------------------------------------------------------
(* The theorems                                                            *)

LEMMA InvHolds == Spec => []Inv
  <1>1. Init => Inv
    <2>. SUFFICES ASSUME Init PROVE Inv
      OBVIOUS
    <2>1. CASE MaxBlocks > 0
      <3>1. 0 \in Block
        BY <2>1, SizeAssumption DEF Block
      <3>. QED
        BY <3>1 DEF Init, Inv, Types, Control, OneOwner, Pointing, Custody, Contents,
                    InUse, Live, NodesIn
    <2>2. CASE MaxBlocks = 0
      <3>1. Block = {}
        BY <2>2 DEF Block
      <3>. QED
        BY <3>1 DEF Init, Inv, Types, Control, OneOwner, Pointing, Custody, Contents,
                    InUse, Live, NodesIn
    <2>. QED  BY <2>1, <2>2, SizeAssumption
  <1>2. Inv /\ [Next]_vars => Inv'
    <2>. SUFFICES ASSUME Inv, [Next]_vars PROVE Inv'
      OBVIOUS
    <2>1. Types /\ Control /\ OneOwner /\ Pointing /\ Custody /\ Contents
      BY DEF Inv
    <2>2. Types' /\ Control' /\ OneOwner'
      BY <2>1, TypesKept, ControlKept, OneOwnerKept, Zenon
    <2>3. Pointing' /\ Custody' /\ Contents'
      BY <2>1, PointingKept, CustodyKept, ContentsKept, Zenon
    <2>. QED  BY <2>2, <2>3 DEF Inv
  <1>. QED  BY <1>1, <1>2, PTL DEF Spec

\* Every variable has its type, and every buffer lies in the memory there is.
THEOREM BlocksTypeCorrect == Spec => []TypeOK
  <1>1. Inv => TypeOK
    <2>. SUFFICES ASSUME Types PROVE TypeOK
      BY DEF Inv
    <2>1. \A n \in Node : Buffer(n) \subseteq Address
      BY BufferInside, Zenon
    <2>. QED  BY <2>1 DEF Types, TypeOK
  <1>. QED  BY <1>1, InvHolds, PTL

\* The inserts of doAllocate exclude each other, for any number of threads: the inner
\* mutex guards both, and an exception of either frees it.
THEOREM InsertsAloneSafe == Spec => []InsertsAlone
  <1>1. Inv => InsertsAlone
    BY DEF Inv, Control, InsertsAlone
  <1>. QED  BY <1>1, InvHolds, PTL

\* Each block has one owner, so it is freed once: the deques are moved from element by
\* element, and a call that throws frees what it still owns.
THEOREM BlockOwnedSafe == Spec => []BlockOwned
  <1>1. Inv => BlockOwned
    BY Zenon DEF Inv, Control, OneOwner, BlockOwned
  <1>. QED  BY <1>1, InvHolds, PTL

\* A node that left doAllocate, and its buffer, lie in memory the pool owns, wherever
\* calls threw.
THEOREM BackedSafe == Spec => []Backed
  <1>1. Inv => Backed
    <2>. SUFFICES ASSUME Inv, NEW n \in Live
                  PROVE  /\ n[1] \in m_nodes
                         /\ isPointer => /\ bytesOf[n[1]] \in m_bytes
                                         /\ Buffer(n) \subseteq BytesIn(bytesOf[n[1]])
      BY DEF Backed
    <2>1. n \in Node /\ n[1] \in m_nodes
      BY DEF Inv, Custody, NodesIn
    <2>2. Buffer(n) \subseteq BytesIn(bytesOf[n[1]])
      BY <2>1, BufferInside DEF Inv
    <2>3. isPointer => bytesOf[n[1]] \in m_bytes
      BY <2>1 DEF Inv, Pointing
    <2>. QED  BY <2>1, <2>2, <2>3
  <1>. QED  BY <1>1, InvHolds, PTL

\* The buffers of two nodes do not overlap, in one block or in two: for all sizes whose
\* product fits into std::size_t.
THEOREM ApartSafe == Spec => []Apart
  <1>1. Inv => Apart
    <2>. SUFFICES ASSUME Inv, NEW m \in Live, NEW n \in Live, isPointer, m # n
                  PROVE  Buffer(m) \cap Buffer(n) = {}
      BY DEF Apart
    <2>1. /\ m \in Node /\ m[1] \in InUse(m_nodes, newNodes)
          /\ n \in Node /\ n[1] \in InUse(m_nodes, newNodes)
      BY DEF Inv, Custody, NodesIn, InUse
    <2>. QED  BY <2>1, BufferApart DEF Inv
  <1>. QED  BY <1>1, InvHolds, PTL

\* A buffer keeps what its owner wrote and is zero when it is handed out: other owners,
\* new blocks and calls that throw leave it alone.
THEOREM IntactSafe == Spec => []Intact
  <1>1. Inv => Intact
    BY DEF Inv, Contents, Intact, Reads
  <1>. QED  BY <1>1, InvHolds, PTL
=============================================================================
