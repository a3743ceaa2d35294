-------------------------- MODULE LinkedPoolProofs --------------------------
(***************************************************************************)
(* The pool run over linked stacks, for any number of threads, block size  *)
(* and counts: it is SplicePool, and its stacks hold the sequences that    *)
(* SplicePool takes them for, in the right size and with the right tail.   *)
(* The invariant names the sequence of each stack and says, for each       *)
(* thread and each operation it has still to do in the current step, how   *)
(* its sequences relate to those of SplicePool.  What an operation does to *)
(* the sequences is proved in LinkedStackProofs, once; what SplicePool     *)
(* proves of the nodes says that the stacks of different calls stay apart. *)
(***************************************************************************)
EXTENDS LinkedPool, SplicePoolPromiseProofs

-----------------------------------------------------------------------------
(* The stacks here are those of LinkedStack                                *)

\* The theorems about stacks; values play no part in the pool.
L == INSTANCE LinkedStackProofs WITH Value <- [n \in Node |-> 0]

\* What they assume holds here.
LEMMA StackAssumptions == L!NodeAssumption /\ L!ValueAssumption
<1>1. IsFiniteSet(Node)
  BY FS_Interval, SizeAssumption DEF Node
<1>2. L!IsFiniteSet(Node) <=> IsFiniteSet(Node)
  BY DEF L!IsFiniteSet, IsFiniteSet
<1>3. L!NodeAssumption
  BY <1>1, <1>2, NilAssumption DEF L!NodeAssumption
<1>4. L!ValueAssumption
  BY CountsAssumption DEF L!ValueAssumption
<1> QED BY <1>3, <1>4

\* The walk over n links, for either instance of the module.
WalkOf(n, nxt, h) ==
  CHOOSE at : at = [k \in 0..n |->
                     IF k = 0 THEN h ELSE LET m == at[k - 1] IN IF m = Nil THEN Nil ELSE nxt[m]]

\* The first len nodes of a walk.
ChainOf(at, len) == [i \in 1..len |-> at[i - 1]]

\* LinkedPool and the theorems count alike ...
LEMMA SameCount == \A T : S!Cardinality(T) = L!Cardinality(T)
BY Zenon DEF S!Cardinality, L!Cardinality

\* ... follow links alike ...
LEMMA SameWalk == \A nxt, h : S!Walk(nxt, h) = L!Walk(nxt, h)
<1> SUFFICES ASSUME NEW nxt, NEW h PROVE S!Walk(nxt, h) = L!Walk(nxt, h)
  OBVIOUS
<1>1. S!Walk(nxt, h) = WalkOf(S!Cardinality(Node), nxt, h)
  BY Zenon DEF S!Walk, WalkOf
<1>2. L!Walk(nxt, h) = WalkOf(L!Cardinality(Node), nxt, h)
  BY Zenon DEF L!Walk, WalkOf
<1> QED BY <1>1, <1>2, SameCount

\* ... and have the same operations.
LEMMA SameOperations ==
  ASSUME NEW s, NEW o, NEW n
  PROVE  /\ S!IsEmpty(s) <=> L!IsEmpty(s)
         /\ S!NodesOf(s) = L!NodesOf(s)
         /\ S!Push(s, n) <=> L!Push(s, n)
         /\ S!Pop(s) <=> L!Pop(s)
         /\ S!PushStack(s, o) <=> L!PushStack(s, o)
         /\ S!Swap(s, o) <=> L!Swap(s, o)
         /\ S!PopStack(s, o, n) <=> L!PopStack(s, o, n)
<1>1. S!IsEmpty(s) <=> L!IsEmpty(s)
  BY DEF S!IsEmpty, L!IsEmpty
<1>2. S!NodesOf(s) = L!NodesOf(s)
  <2> DEFINE h == stack[s].head
             at == S!Walk(next, h)
             visited == {k \in DOMAIN at : at[k] # Nil}
  <2>1. S!NodesOf(s) = ChainOf(at, S!Cardinality(visited))
    BY Zenon DEF S!NodesOf, S!Chain, ChainOf
  <2>2. L!NodesOf(s) = ChainOf(L!Walk(next, h), L!Cardinality({k \in DOMAIN L!Walk(next, h) : L!Walk(next, h)[k] # Nil}))
    BY Zenon DEF L!NodesOf, L!Chain, ChainOf
  <2>3. L!Walk(next, h) = at
    BY SameWalk
  <2>4. L!NodesOf(s) = ChainOf(at, L!Cardinality(visited))
    BY <2>2, <2>3, Zenon
  <2> QED BY <2>1, <2>4, SameCount, Zenon
<1>3. S!Push(s, n) <=> L!Push(s, n)
  BY Zenon DEF S!Push, L!Push, S!PushFront, L!PushFront
<1>4. S!Pop(s) <=> L!Pop(s)
  BY Zenon DEF S!Pop, L!Pop, S!IsEmpty, L!IsEmpty, S!PoppedTail, L!PoppedTail
<1>5. S!PushStack(s, o) <=> L!PushStack(s, o)
  BY Zenon DEF S!PushStack, L!PushStack, S!SpliceFront, L!SpliceFront, S!IsEmpty, L!IsEmpty, S!SplicedSize, L!SplicedSize, S!Empty, L!Empty
<1>6. S!Swap(s, o) <=> L!Swap(s, o)
  BY Zenon DEF S!Swap, L!Swap, S!Exchange, L!Exchange
<1>7. S!PopStack(s, o, n) <=> L!PopStack(s, o, n)
  <2>1. S!Walk(next, stack[s].head) = L!Walk(next, stack[s].head)
    BY SameWalk
  <2> QED BY <2>1, Zenon DEF S!PopStack, L!PopStack, S!Exchange, L!Exchange, S!IsEmpty, L!IsEmpty, S!Cut, L!Cut, S!Empty, L!Empty
<1> QED BY <1>1, <1>2, <1>3, <1>4, <1>5, <1>6, <1>7

-----------------------------------------------------------------------------
(* The invariant                                                           *)

\* The sequences c are what SplicePool says, for a thread that has done all the
\* operations of its step ...
AtRest(t, c) ==
  /\ c[Held(t)] = held[t] /\ c[Alloc(t)] = alloc[t] /\ c[Taken(t)] = << >>
  /\ IF c[Other(t)] = << >> THEN Len(other[t]) <= 1 /\ Range(other[t]) \subseteq loose
                            ELSE c[Other(t)] = other[t]
  /\ pc[t] \in {"acq_alloc", "acq_splice_lock", "acq_splice"} => c[Other(t)] = other[t]

\* ... and for one that still has to take a node out of a new block, to cut what it
\* needs off the new blocks, to put that in its handle, or to return the handle.
BeforeTake(t, c) ==
  /\ c[Held(t)] = held[t] /\ c[Taken(t)] = << >> /\ c[Other(t)] = << >>
  /\ Len(other[t]) = 1 /\ c[Alloc(t)] = other[t] \o alloc[t]
  /\ pc[t] = "one_splice_lock"

\* The new blocks are in alloc and still, in front, in other.
BeforeCut(t, c) ==
  /\ c[Held(t)] = held[t] /\ c[Taken(t)] = << >>
  /\ Len(c[Other(t)]) < need[t]
  /\ \E p \in Seq(Nat) : /\ Len(p) = need[t] - Len(c[Other(t)])
                          /\ other[t] = p \o c[Other(t)] /\ c[Alloc(t)] = p \o alloc[t]
  /\ pc[t] = "acq_splice_lock"

\* What was cut off is in taken, in front of what other already has.
BeforeJoin(t, c) ==
  /\ c[Held(t)] = held[t] /\ c[Alloc(t)] = alloc[t]
  /\ other[t] = c[Taken(t)] \o c[Other(t)]
  /\ pc[t] = "acq_splice_lock"

\* The stack that acquire returns is in other, in front of what the handle has.
BeforeReturn(t, c) ==
  /\ held[t] = c[Other(t)] \o c[Held(t)] /\ other[t] = << >>
  /\ c[Alloc(t)] = alloc[t] /\ c[Taken(t)] = << >>
  /\ pc[t] = "idle"

\* What a thread's sequences are, by what it has still to do.
Agrees(t, c) ==
  /\ todo[t] = "none" => AtRest(t, c)
  /\ todo[t] = "take" => BeforeTake(t, c)
  /\ todo[t] = "cut" => BeforeCut(t, c)
  /\ todo[t] = "join" => BeforeJoin(t, c)
  /\ todo[t] = "return" => BeforeReturn(t, c)

\* A release has something to release.
Releasing(t) == pc[t] \in {"rel_reset", "rel_lock", "rel_push"} => other[t] # << >>

\* What a thread may have to do.
Todo == {"none", "take", "cut", "join", "return"}

\* Nodes not created yet are in no stack.
FreshLoose == \A n \in Node : n >= created => n \in loose

\* The sequences c are those of the stacks.
Sequences(c) ==
  /\ L!Exact(next, stack, loose, c)
  /\ c[PoolStack] = m_stack
  /\ \A t \in Thread : Agrees(t, c) /\ Releasing(t)
  /\ todo \in [Thread -> Todo]
  /\ FreshLoose

\* What SplicePool has shown of the nodes.
PoolInv == Control /\ OnePlace /\ NoNodeLost

\* The invariant.
LinkedInv == \E c : Sequences(c)

\* Stacks of different names are different stacks.
LEMMA StackNames ==
  /\ PoolStack \in Stk
  /\ \A t \in Thread : {Held(t), Other(t), Alloc(t), Taken(t)} \subseteq Stk
  /\ \A t, u \in Thread :
       /\ PoolStack \notin {Held(t), Other(t), Alloc(t), Taken(t)}
       /\ Held(t) \notin {Other(u), Alloc(u), Taken(u)}
       /\ Other(t) \notin {Held(u), Alloc(u), Taken(u)}
       /\ Alloc(t) \notin {Held(u), Other(u), Taken(u)}
       /\ Taken(t) \notin {Held(u), Other(u), Alloc(u)}
       /\ t # u => /\ Held(t) # Held(u) /\ Other(t) # Other(u)
                   /\ Alloc(t) # Alloc(u) /\ Taken(t) # Taken(u)
BY DEF PoolStack, Held, Other, Alloc, Taken, Stk

\* Nodes of a call have been created, and are in no other call.
LEMMA OthersApart ==
  ASSUME PoolInv, NEW t \in Thread
  PROVE  /\ \A n \in Range(other[t]) : n \in 0..(created - 1)
         /\ \A u \in Thread : u # t => Range(other[t]) \cap Range(other[u]) = {}
<1>1. \A u \in Thread : <<"other", u>> \in Place /\ NodesAt(<<"other", u>>) = other[u]
  BY DEF Place, NodesAt
<1>2. \A u \in Thread : Range(other[u]) = {other[u][i] : i \in 1..Len(other[u])}
  BY LenProperties DEF PoolInv, Control, TypeOK, Range
<1>3. \A n \in Range(other[t]) : n \in 0..(created - 1)
  BY <1>1 DEF PoolInv, NoNodeLost
<1>4. ASSUME NEW u \in Thread, u # t PROVE Range(other[t]) \cap Range(other[u]) = {}
  <2>1. <<"other", t>> # <<"other", u>>
    BY <1>4
  <2> DEFINE p == <<"other", t>>
             q == <<"other", u>>
  <2>2. p \in Place /\ q \in Place /\ NodesAt(p) = other[t] /\ NodesAt(q) = other[u] /\ p # q
    BY <1>1, <2>1
  <2> HIDE DEF p, q
  <2>3. \A i \in 1..Len(NodesAt(p)), j \in 1..Len(NodesAt(q)) : NodesAt(p)[i] # NodesAt(q)[j]
    BY <2>2 DEF PoolInv, OnePlace
  <2>4. \A i \in 1..Len(other[t]), j \in 1..Len(other[u]) : other[t][i] # other[u][j]
    BY <2>2, <2>3
  <2> QED BY <1>2, <2>4
<1> QED BY <1>3, <1>4

\* Nothing happens to the call of a thread.
SameCall(t) ==
  /\ pc'[t] = pc[t] /\ need'[t] = need[t]
  /\ other'[t] = other[t] /\ alloc'[t] = alloc[t] /\ held'[t] = held[t]

\* Nothing happens to a thread.
SameThread(t) == SameCall(t) /\ todo'[t] = todo[t]

\* Its sequences are the same.
SameStacks(t, c, d) ==
  /\ d[Held(t)] = c[Held(t)] /\ d[Other(t)] = c[Other(t)]
  /\ d[Alloc(t)] = c[Alloc(t)] /\ d[Taken(t)] = c[Taken(t)]

\* A thread to which nothing happens.
LEMMA Frame ==
  ASSUME NEW c, NEW d, NEW t, Agrees(t, c), Releasing(t), SameThread(t), SameStacks(t, c, d),
         Range(other[t]) \cap loose \subseteq loose'
  PROVE  (Agrees(t, d) /\ Releasing(t))'
<1>1. Releasing(t)'
  BY DEF Releasing, SameThread, SameCall
<1>2. AtRest(t, c) => AtRest(t, d)'
  BY DEF AtRest, SameThread, SameCall, SameStacks
<1>3. BeforeTake(t, c) => BeforeTake(t, d)'
  BY DEF BeforeTake, SameThread, SameCall, SameStacks
<1>4. BeforeCut(t, c) => BeforeCut(t, d)'
  BY DEF BeforeCut, SameThread, SameCall, SameStacks
<1>5. BeforeJoin(t, c) => BeforeJoin(t, d)'
  BY DEF BeforeJoin, SameThread, SameCall, SameStacks
<1>6. BeforeReturn(t, c) => BeforeReturn(t, d)'
  BY DEF BeforeReturn, SameThread, SameCall, SameStacks
<1>7. Agrees(t, d)'
  BY <1>2, <1>3, <1>4, <1>5, <1>6 DEF Agrees, SameThread
<1> QED BY <1>1, <1>7

\* A step of the threads W keeps the invariant, if these agree with the new sequences and
\* take from the loose nodes only what is theirs, or new.
LEMMA Keeps ==
  ASSUME NEW c, Sequences(c), PoolInv, NEW W \in SUBSET Thread, NEW d,
         L!Exact(next', stack', loose', d), d[PoolStack] = m_stack',
         todo' \in [Thread -> Todo], FreshLoose',
         \A t \in W : Agrees(t, d)' /\ Releasing(t)',
         \A u \in Thread \ W : SameThread(u) /\ SameStacks(u, c, d),
         \A n \in loose : n \in loose' \/ n >= created \/ \E t \in W : n \in Range(other[t])
  PROVE  LinkedInv'
<1>1. ASSUME NEW u \in Thread \ W PROVE (Agrees(u, d) /\ Releasing(u))'
  <2>1. Agrees(u, c) /\ Releasing(u)
    BY DEF Sequences
  <2>2. Range(other[u]) \cap loose \subseteq loose'
    <3> SUFFICES ASSUME NEW n \in Range(other[u]), n \in loose PROVE n \in loose'
      OBVIOUS
    <3>1. n \in 0..(created - 1) /\ created \in Nat
      BY OthersApart DEF PoolInv, Control, TypeOK
    <3>2. ~(n >= created)
      BY <3>1
    <3>3. \A t \in W : n \notin Range(other[t])
      BY OthersApart
    <3> QED BY <3>2, <3>3
  <2> QED BY <2>1, <2>2, Frame
<1>2. \A u \in Thread : (Agrees(u, d) /\ Releasing(u))'
  BY <1>1
<1>3. Sequences(d)'
  BY <1>2 DEF Sequences
<1> QED BY <1>3 DEF LinkedInv

-----------------------------------------------------------------------------
(* Sequences                                                               *)

\* An empty sequence in front, or behind.
LEMMA Nothing ==
  ASSUME NEW q \in Seq(Nat)
  PROVE  /\ << >> \o q = q /\ q \o << >> = q /\ Len(q) \in Nat
         /\ q = << >> <=> Len(q) = 0
BY ConcatEmptySeq, EmptySeq, LenProperties

\* A sequence in front of another is cut off again.
LEMMA CutOff ==
  ASSUME NEW p \in Seq(Nat), NEW r \in Seq(Nat), NEW k, k = Len(p)
  PROVE  /\ SubSeq(p \o r, 1, k) = p
         /\ SubSeq(p \o r, k + 1, Len(p \o r)) = r
<1> DEFINE q == p \o r
           a == SubSeq(q, 1, k)
           b == SubSeq(q, k + 1, Len(q))
<1>1. Len(p) \in Nat /\ Len(r) \in Nat
  BY LenProperties
<1>2. /\ q \in Seq(Nat) /\ Len(q) = k + Len(r)
      /\ \A i \in 1..(k + Len(r)) : q[i] = IF i <= k THEN p[i] ELSE r[i - k]
  BY ConcatProperties
<1> HIDE DEF q
<1>3. \A i \in 1..Len(q) : q[i] \in Nat
  BY <1>2, ElementOfSeq
<1>4. a \in Seq(Nat) /\ Len(a) = k /\ \A i \in 1..k : a[i] = q[i]
  <2>1. \A i \in 1..k : q[i] \in Nat
    BY <1>1, <1>2, <1>3
  <2>2. 1 - 1 + k = k /\ k >= 1 - 1 /\ k \in Int
    BY <1>1
  <2> QED BY <1>1, <2>1, <2>2, SubSeqProperties
<1>5. b \in Seq(Nat) /\ Len(b) = Len(r) /\ \A i \in 1..Len(r) : b[i] = q[k + i]
  <2>1. \A i \in (k + 1)..Len(q) : q[i] \in Nat
    BY <1>1, <1>2, <1>3
  <2> QED BY <1>1, <1>2, <2>1, SubSeqProperties
<1> HIDE DEF a, b
<1>6. a = p
  <2>1. \A i \in 1..k : a[i] = p[i]
    BY <1>1, <1>2, <1>4
  <2> QED BY <1>4, <2>1, SeqEqual
<1>7. b = r
  <2>1. ASSUME NEW i \in 1..Len(r) PROVE b[i] = r[i]
    <3>1. k + i \in 1..(k + Len(r)) /\ ~(k + i <= k) /\ (k + i) - k = i
      BY <1>1
    <3> QED BY <1>2, <1>5, <3>1
  <2> QED BY <1>5, <2>1, SeqEqual
<1> QED BY <1>6, <1>7 DEF a, b, q

\* Popping and what is left are the whole sequence.
LEMMA PoppedLeft ==
  ASSUME NEW s \in Seq(Nat), NEW count \in Nat
  PROVE  /\ Popped(s, count) \in Seq(Nat) /\ Left(s, count) \in Seq(Nat)
         /\ Popped(s, count) \o Left(s, count) = s
<1> DEFINE p == Popped(s, count)
           r == Left(s, count)
           k == PopCount(s, count)
<1>1. /\ k \in 0..Len(s) /\ p \in Seq(Nat) /\ r \in Seq(Nat)
      /\ Len(p) = k /\ Len(r) = Len(s) - k
      /\ \A i \in 1..k : p[i] = s[i]
      /\ \A i \in 1..(Len(s) - k) : r[i] = s[k + i]
  BY PopParts
<1> HIDE DEF p, r, k
<1>2. Len(s) \in Nat /\ k \in Nat
  BY <1>1
<1>3. /\ p \o r \in Seq(Nat) /\ Len(p \o r) = Len(s)
      /\ \A i \in 1..Len(s) : (p \o r)[i] = IF i <= k THEN p[i] ELSE r[i - k]
  <2>1. /\ p \o r \in Seq(Nat) /\ Len(p \o r) = Len(p) + Len(r)
        /\ \A i \in 1..(Len(p) + Len(r)) : (p \o r)[i] = IF i <= Len(p) THEN p[i] ELSE r[i - Len(p)]
    BY <1>1, ConcatProperties
  <2>2. Len(p) + Len(r) = Len(s) /\ Len(p) = k
    BY <1>1, <1>2
  <2> QED BY <2>1, <2>2
<1> DEFINE q == p \o r
<1> HIDE DEF q
<1>4. ASSUME NEW i \in 1..Len(s) PROVE q[i] = s[i]
  <2>1. CASE i <= k
    <3>1. i \in 1..k
      BY <1>2, <2>1
    <3> QED BY <1>1, <1>3, <2>1, <3>1 DEF q
  <2>2. CASE ~(i <= k)
    <3>1. i - k \in 1..(Len(s) - k) /\ k + (i - k) = i
      BY <1>2, <2>2
    <3>2. r[i - k] = s[i]
      BY <1>1, <3>1
    <3> QED BY <1>3, <2>2, <3>2 DEF q
  <2> QED BY <2>1, <2>2
<1>5. q \in Seq(Nat) /\ Len(q) = Len(s)
  BY <1>3 DEF q
<1>6. q = s
  BY <1>4, <1>5, SeqEqual
<1> QED BY <1>1, <1>6 DEF p, r, q

\* The same, by popping.
LEMMA PopJoined ==
  ASSUME NEW p \in Seq(Nat), NEW r \in Seq(Nat), NEW k, k = Len(p)
  PROVE  Popped(p \o r, k) = p /\ Left(p \o r, k) = r
<1>1. Len(p) \in Nat /\ Len(r) \in Nat /\ Len(p \o r) = Len(p) + Len(r)
  BY ConcatProperties, LenProperties
<1>2. PopCount(p \o r, k) = k
  BY <1>1 DEF PopCount
<1> QED BY <1>2, CutOff, Zenon DEF Popped, Left

\* Popping one node.
LEMMA FirstOf ==
  ASSUME NEW s \in Seq(Nat), s # << >>
  PROVE  /\ Popped(s, 1) = <<s[1]>> /\ Left(s, 1) = Tail(s)
         /\ Len(s) \in Nat \ {0} /\ s[1] \in Nat
<1>1. Len(s) \in Nat \ {0}
  BY Nothing
<1>2. /\ Popped(s, 1) \in Seq(Nat) /\ Len(Popped(s, 1)) = 1 /\ Popped(s, 1)[1] = s[1]
      /\ Left(s, 1) \in Seq(Nat) /\ Len(Left(s, 1)) = Len(s) - 1
      /\ \A i \in 1..(Len(s) - 1) : Left(s, 1)[i] = s[1 + i]
  <2>1. PopCount(s, 1) = 1
    <3> DEFINE len == Len(s)
    <3>1. PopCount(s, 1) = IF 1 >= len THEN len ELSE 1
      BY Zenon DEF PopCount
    <3>2. len \in Nat \ {0}
      BY <1>1
    <3> HIDE DEF len
    <3> QED BY <3>1, <3>2
  <2>2. 1 \in Nat
    OBVIOUS
  <2> DEFINE k == PopCount(s, 1)
  <2> HIDE DEF k
  <2>3. /\ Popped(s, 1) \in Seq(Nat) /\ Left(s, 1) \in Seq(Nat)
        /\ Len(Popped(s, 1)) = k /\ Len(Left(s, 1)) = Len(s) - k
        /\ \A i \in 1..k : Popped(s, 1)[i] = s[i]
        /\ \A i \in 1..(Len(s) - k) : Left(s, 1)[i] = s[k + i]
    <3>1. Popped(s, 1) \in Seq(Nat)
      BY <2>2, PopParts, Zenon
    <3>2. Left(s, 1) \in Seq(Nat)
      BY <2>2, PopParts, Zenon
    <3>3. Len(Popped(s, 1)) = k
      BY <2>2, PopParts, Zenon DEF k
    <3>4. Len(Left(s, 1)) = Len(s) - k
      BY <2>2, PopParts, Zenon DEF k
    <3>5. \A i \in 1..k : Popped(s, 1)[i] = s[i]
      BY <2>2, PopParts, Zenon DEF k
    <3>6. \A i \in 1..(Len(s) - k) : Left(s, 1)[i] = s[k + i]
      BY <2>2, PopParts, Zenon DEF k
    <3> QED BY <3>1, <3>2, <3>3, <3>4, <3>5, <3>6, Zenon
  <2>4. k = 1
    BY <2>1 DEF k
  <2> QED BY <1>1, <2>3, <2>4
<1>3. Tail(s) \in Seq(Nat) /\ Len(Tail(s)) = Len(s) - 1 /\ \A i \in 1..(Len(s) - 1) : Tail(s)[i] = s[i + 1]
  BY <1>1, HeadTailProperties
<1>4. s[1] \in Nat
  BY <1>1, ElementOfSeq
<1> DEFINE p == Popped(s, 1)
           r == Left(s, 1)
           q == Tail(s)
<1> HIDE DEF p, r, q
<1>5. p = <<s[1]>>
  BY <1>2, <1>4 DEF p
<1>6. r = q
  <2>1. r \in Seq(Nat) /\ Len(r) = Len(s) - 1 /\ \A i \in 1..(Len(s) - 1) : r[i] = s[1 + i]
    BY <1>2, Zenon DEF r
  <2>2. q \in Seq(Nat) /\ Len(q) = Len(s) - 1 /\ \A i \in 1..(Len(s) - 1) : q[i] = s[i + 1]
    BY <1>3, Zenon DEF q
  <2>3. \A i \in 1..(Len(s) - 1) : r[i] = q[i]
    BY <1>1, <2>1, <2>2
  <2> QED BY <1>1, <2>1, <2>2, <2>3, SeqEqual
<1> QED BY <1>1, <1>4, <1>5, <1>6 DEF p, r, q

\* The first node put in front of a sequence, and the rest of it.
LEMMA TailOff ==
  ASSUME NEW m \in Nat, NEW q \in Seq(Nat)
  PROVE  (<<m>> \o q)[1] = m /\ Tail(<<m>> \o q) = q
<1> DEFINE c == <<m>> \o q
<1>1. /\ c \in Seq(Nat) /\ Len(c) = Len(q) + 1 /\ Len(q) \in Nat /\ c[1] = m
      /\ \A i \in 1..Len(q) : c[i + 1] = q[i]
  OBVIOUS
<1> HIDE DEF c
<1>2. c # << >>
  BY <1>1
<1>3. /\ Tail(c) \in Seq(Nat) /\ Len(Tail(c)) = Len(c) - 1
      /\ \A i \in 1..(Len(c) - 1) : Tail(c)[i] = c[i + 1]
  BY <1>1, <1>2, HeadTailProperties
<1> DEFINE r == Tail(c)
<1>4. r \in Seq(Nat) /\ Len(r) = Len(q) /\ \A i \in 1..Len(q) : r[i] = q[i]
  BY <1>1, <1>3
<1> HIDE DEF r
<1>5. r = q
  BY <1>4, SeqEqual
<1> QED BY <1>1, <1>5 DEF c, r

\* A sequence of one node.
LEMMA OneNode ==
  ASSUME NEW s \in Seq(Nat), Len(s) = 1
  PROVE  s = <<s[1]>> /\ s[1] \in Nat /\ s[1] \in Range(s) /\ Range(s) = {s[1]}
<1>1. s[1] \in Nat
  <2>1. 1 \in 1..Len(s)
    OBVIOUS
  <2> QED BY <2>1, ElementOfSeq
<1>2. s = <<s[1]>>
  BY <1>1
<1>3. DOMAIN s = {1}
  BY LenProperties
<1>4. Range(s) = {s[1]}
  BY <1>3 DEF Range
<1> QED BY <1>1, <1>2, <1>4

-----------------------------------------------------------------------------
(* The stacks of a state that keeps the invariant                          *)

\* What the invariant says of one thread.
LEMMA Known ==
  ASSUME NEW c, Sequences(c), PoolInv, NEW t \in Thread
  PROVE  /\ TypeOK /\ LocalsOf(t) /\ Agrees(t, c) /\ Releasing(t)
         /\ L!Exact(next, stack, loose, c) /\ c[PoolStack] = m_stack
         /\ todo \in [Thread -> Todo]
BY DEF Sequences, PoolInv, Control, CallLocals

\* The nodes are natural numbers, so the sequences are of the type of the pool's.
LEMMA Typed ==
  ASSUME NEW c, L!Exact(next, stack, loose, c)
  PROVE  /\ c \in [Stk -> L!Seqs] /\ loose \subseteq Node
         /\ \A s \in Stk : c[s] \in Seq(Nat)
<1>1. c \in [Stk -> L!Seqs] /\ loose \subseteq Node
  BY Zenon DEF L!Exact, L!Represented
<1>2. Seq(Node) \subseteq Seq(Nat)
  <2>1. Node \subseteq Nat
    BY SizeAssumption DEF Node
  <2> SUFFICES ASSUME NEW q \in Seq(Node) PROVE q \in Seq(Nat)
    OBVIOUS
  <2>2. q \in [1..Len(q) -> Node] /\ Len(q) \in Nat
    BY LenProperties
  <2>3. q \in [1..Len(q) -> Nat]
    BY <2>1, <2>2
  <2> QED BY <2>2, <2>3
<1>3. \A q \in L!Seqs : q \in Seq(Nat)
  BY <1>2 DEF L!Seqs
<1> QED BY <1>1, <1>3

\* Nodes in a stack are not loose.
LEMMA LooseNodes ==
  ASSUME NEW c, L!Exact(next, stack, loose, c), NEW s \in Stk, NEW i \in 1..Len(c[s])
  PROVE  c[s][i] \in Node /\ c[s][i] \notin loose
<1>1. c[s] \in L!Seqs /\ L!Elems(c[s]) \cap loose = {}
  BY Zenon DEF L!Exact, L!Represented
<1>2. c[s][i] \in Node
  BY <1>1, ElementOfSeq DEF L!Seqs
<1>3. c[s][i] \in L!Elems(c[s])
  BY DEF L!Elems
<1> QED BY <1>1, <1>2, <1>3

\* The new nodes of doAllocate are nodes, without repetition.
LEMMA FreshSeq ==
  ASSUME NEW a \in Nat, NEW n \in Nat, a + n <= MaxNodes
  PROVE  /\ Fresh(a, n) \in L!Seqs /\ Len(Fresh(a, n)) = n
         /\ \A i \in 1..n : Fresh(a, n)[i] = a + n - i
         /\ L!Elems(Fresh(a, n)) = a..(a + n - 1)
         /\ a..(a + n - 1) \subseteq Node
<1> DEFINE q == Fresh(a, n)
<1>1. q \in Seq(Nat) /\ Len(q) = n /\ \A i \in 1..n : q[i] = a + n - i
  BY FreshNodes
<1> HIDE DEF q
<1>2. a..(a + n - 1) \subseteq Node
  BY SizeAssumption DEF Node
<1>3. \A i \in 1..n : q[i] \in a..(a + n - 1)
  BY <1>1
<1>4. q \in Seq(Node)
  <2>1. q \in [1..n -> Nat]
    BY <1>1, LenProperties
  <2>2. q \in [1..n -> Node]
    BY <1>2, <1>3, <2>1
  <2> QED BY <2>2
<1>5. \A i, j \in 1..n : q[i] = q[j] => i = j
  BY <1>1
<1>6. L!Elems(q) = a..(a + n - 1)
  <2>1. \A i \in 1..n : q[i] \in a..(a + n - 1)
    BY <1>3
  <2>2. ASSUME NEW m \in a..(a + n - 1) PROVE \E i \in 1..n : q[i] = m
    <3>1. a + n - m \in 1..n /\ a + n - (a + n - m) = m
      OBVIOUS
    <3>2. q[a + n - m] = m
      BY <1>1, <3>1
    <3> QED BY <3>1, <3>2
  <2> QED BY <1>1, <2>1, <2>2 DEF L!Elems
<1>7. q \in L!Seqs
  BY <1>1, <1>4, <1>5 DEF L!Seqs, L!Inj
<1> QED BY <1>1, <1>2, <1>6, <1>7 DEF q

\* doAllocate makes a stack of n new nodes.
LEMMA AllocateExact ==
  ASSUME NEW c, Sequences(c), NEW t \in Thread, NEW n \in Nat, n # 0,
         created \in Nat, created + n <= MaxNodes, c[Alloc(t)] = << >>, doAllocate(t, n)
  PROVE  /\ L!Exact(next', stack', loose', [c EXCEPT ![Alloc(t)] = Fresh(created, n)])
         /\ \A m \in Node : m >= created + n => m \in loose'
         /\ \A m \in loose : m \in loose' \/ m >= created
<1> DEFINE q == Fresh(created, n)
           s == Alloc(t)
           fresh == created..(created + n - 1)
           d == [c EXCEPT ![s] = q]
<1>1. /\ q \in L!Seqs /\ Len(q) = n /\ \A i \in 1..n : q[i] = created + n - i
      /\ L!Elems(q) = fresh /\ fresh \subseteq Node
  BY FreshSeq
<1>2. s \in Stk
  BY StackNames
<1>3. L!Represented(next, stack, loose, c) /\ \A x \in Stk : stack[x].tail = L!TailOf(c[x])
  BY Zenon DEF Sequences, L!Exact
<1>4. next \in L!Links /\ stack \in L!Stacks /\ loose \subseteq Node /\ c \in [Stk -> L!Seqs]
  BY <1>3, Zenon DEF L!Represented
<1>5. /\ loose' = loose \ fresh
      /\ next' = [m \in Node |->
           IF m \notin fresh THEN next[m] ELSE IF m = created THEN Nil ELSE m - 1]
      /\ stack' = [stack EXCEPT ![s] = [head |-> created + n - 1, tail |-> created, size |-> n]]
  BY Zenon DEF doAllocate
<1>6. \A m \in fresh : m \in loose
  BY <1>1 DEF Sequences, FreshLoose
<1> HIDE DEF q, s
<1>7. next' \in L!Links
  <2>1. \A m \in fresh : m # created => m - 1 \in fresh
    OBVIOUS
  <2> HIDE DEF fresh
  <2> SUFFICES ASSUME NEW m \in Node
               PROVE  (IF m \notin fresh THEN next[m] ELSE IF m = created THEN Nil ELSE m - 1)
                        \in Node \cup {Nil}
    BY <1>5 DEF L!Links
  <2> QED BY <1>1, <1>4, <2>1 DEF L!Links
<1>8. /\ stack' \in L!Stacks
      /\ stack'[s].head = created + n - 1 /\ stack'[s].tail = created /\ stack'[s].size = n
      /\ \A x \in Stk : x # s => stack'[x] = stack[x]
  <2> DEFINE new == [head |-> created + n - 1, tail |-> created, size |-> n]
  <2>1. created + n - 1 \in Node /\ created \in Node
    <3>1. created + n - 1 \in fresh /\ created \in fresh
      OBVIOUS
    <3> QED BY <1>1, <3>1
  <2>2. /\ new \in [head : Node \cup {Nil}, tail : Node \cup {Nil}, size : Nat]
        /\ new.head = created + n - 1 /\ new.tail = created /\ new.size = n
    BY <2>1
  <2>3. stack' = [stack EXCEPT ![s] = new]
    BY <1>5
  <2> HIDE DEF new
  <2>4. stack' \in L!Stacks /\ stack'[s] = new /\ \A x \in Stk : x # s => stack'[x] = stack[x]
    BY <1>2, <1>4, <2>2, <2>3 DEF L!Stacks
  <2> QED BY <2>2, <2>4
<1>9. L!Path(next', stack'[s].head, q, Nil)
  <2>1. stack'[s].head = L!To(q, 1, Nil)
    BY <1>1, <1>8 DEF L!To
  <2>2. ASSUME NEW i \in 1..Len(q) PROVE next'[q[i]] = L!To(q, i + 1, Nil)
    <3>1. /\ q[i] = created + n - i /\ q[i] \in fresh /\ q[i] \in Node
          /\ q[i] = created <=> i = n
      BY <1>1
    <3>2. next'[q[i]] = IF i = n THEN Nil ELSE q[i] - 1
      <4> HIDE DEF fresh
      <4> QED BY <1>5, <3>1
    <3>3. CASE i = n
      <4>1. i + 1 \notin 1..Len(q)
        BY <1>1, <3>3
      <4> QED BY <3>2, <3>3, <4>1 DEF L!To
    <3>4. CASE i # n
      <4>1. i + 1 \in 1..n
        BY <1>1, <3>4
      <4>2. q[i + 1] = created + n - (i + 1)
        BY <1>1, <4>1
      <4>3. q[i + 1] = q[i] - 1
        BY <1>1, <3>1, <4>2
      <4> QED BY <1>1, <3>2, <3>4, <4>1, <4>3 DEF L!To
    <3> QED BY <3>3, <3>4
  <2> QED BY <2>1, <2>2 DEF L!Path
<1>10. L!Elems(c[s]) = {}
  BY DEF L!Elems, s
<1> HIDE DEF fresh
<1>11. \A m \in Node : m \notin L!Elems(c[s]) \cup loose => next'[m] = next[m]
  BY <1>5, <1>6
<1>12. L!Elems(q) \cup loose' = L!Elems(c[s]) \cup loose /\ L!Elems(q) \cap loose' = {}
  BY <1>1, <1>5, <1>6, <1>10
<1>13. loose' \in SUBSET Node
  BY <1>4, <1>5
<1>14. L!Represented(next', stack', loose', d)
  BY <1>1, <1>2, <1>3, <1>7, <1>8, <1>9, <1>11, <1>12, <1>13,
     StackAssumptions, L!OneChanges, Zenon DEF L!NodeAssumption, L!ValueAssumption
<1>15. ASSUME NEW x \in Stk PROVE stack'[x].tail = L!TailOf(d[x])
  <2>1. CASE x = s
    <3>1. d[x] = q /\ q # << >> /\ q[Len(q)] = created
      <4>1. q[n] = created
        BY <1>1
      <4>2. d[x] = q
        BY <1>4, <2>1
      <4> QED BY <1>1, <4>1, <4>2
    <3> QED BY <1>8, <2>1, <3>1 DEF L!TailOf
  <2>2. CASE x # s
    <3>1. d[x] = c[x]
      BY <1>4, <2>2
    <3> QED BY <1>3, <1>8, <2>2, <3>1
  <2> QED BY <2>1, <2>2
<1>16. \A m \in Node : m >= created + n => m \in loose'
  <2> SUFFICES ASSUME NEW m \in Node, m >= created + n PROVE m \in loose'
    OBVIOUS
  <2>1. m \in Nat /\ m >= created /\ m \notin fresh
    BY SizeAssumption DEF fresh, Node
  <2> QED BY <1>5, <2>1 DEF Sequences, FreshLoose
<1>17. \A m \in loose : m \in loose' \/ m >= created
  BY <1>5 DEF fresh
<1> HIDE DEF d
<1>18. L!Exact(next', stack', loose', d)
  BY <1>14, <1>15 DEF L!Exact
<1> QED BY <1>16, <1>17, <1>18 DEF d, q, s

-----------------------------------------------------------------------------
(* The operations, in terms of the sequences                               *)

\* One sequence changes from c to d.
OneBecomes(c, d, s, q) ==
  /\ L!Exact(next', stack', loose', d)
  /\ d[s] = q /\ \A x \in Stk : x # s => d[x] = c[x]

\* Two sequences change from c to d.
TwoBecome(c, d, s, q, o, r) ==
  /\ L!Exact(next', stack', loose', d)
  /\ d[s] = q /\ d[o] = r /\ \A x \in Stk : x # s /\ x # o => d[x] = c[x]

\* How the lemmas about the stacks write the sequences.
LEMMA OneWritten ==
  ASSUME NEW c, L!Exact(next, stack, loose, c), NEW s \in Stk, NEW q,
         L!Exact(next', stack', loose', [c EXCEPT ![s] = q])
  PROVE  \E d : OneBecomes(c, d, s, q)
<1> DEFINE d == [c EXCEPT ![s] = q]
<1>1. c \in [Stk -> L!Seqs]
  BY Typed
<1>2. d[s] = q /\ \A x \in Stk : x # s => d[x] = c[x]
  BY <1>1
<1> HIDE DEF d
<1>3. OneBecomes(c, d, s, q)
  BY <1>2 DEF OneBecomes, d
<1> QED BY <1>3

\* The sequences after an operation on two stacks.
LEMMA TwoWritten ==
  ASSUME NEW c, L!Exact(next, stack, loose, c),
         NEW s \in Stk, NEW o \in Stk, s # o, NEW q, NEW r,
         L!Exact(next', stack', loose', [c EXCEPT ![s] = q, ![o] = r])
  PROVE  \E d : TwoBecome(c, d, s, q, o, r)
<1> DEFINE d == [c EXCEPT ![s] = q, ![o] = r]
<1>1. c \in [Stk -> L!Seqs]
  BY Typed
<1>2. d[s] = q /\ d[o] = r /\ \A x \in Stk : x # s /\ x # o => d[x] = c[x]
  BY <1>1
<1> HIDE DEF d
<1>3. TwoBecome(c, d, s, q, o, r)
  BY <1>2 DEF TwoBecome, d
<1> QED BY <1>3

\* push(Node*)
LEMMA Pushing ==
  ASSUME NEW c, L!Exact(next, stack, loose, c), NEW s \in Stk, NEW n, S!Push(s, n)
  PROVE  /\ n \in loose /\ loose' = loose \ {n}
         /\ \E d : OneBecomes(c, d, s, <<n>> \o c[s])
<1>1. n \in loose /\ loose' = loose \ {n} /\ L!Exact(next', stack', loose', [c EXCEPT ![s] = <<n>> \o c[s]])
  BY L!PushExact, SameOperations, StackAssumptions, Zenon DEF L!NodeAssumption, L!ValueAssumption
<1> QED BY <1>1, OneWritten

\* pop()
LEMMA Popping ==
  ASSUME NEW c, L!Exact(next, stack, loose, c), NEW s \in Stk, S!Pop(s)
  PROVE  /\ c[s] # << >> /\ loose' = loose \cup {c[s][1]}
         /\ \E d : OneBecomes(c, d, s, Tail(c[s]))
<1>1. /\ c[s] # << >> /\ loose' = loose \cup {c[s][1]}
      /\ L!Exact(next', stack', loose', [c EXCEPT ![s] = Tail(c[s])])
  BY L!PopExact, SameOperations, StackAssumptions, Zenon DEF L!NodeAssumption, L!ValueAssumption
<1> QED BY <1>1, OneWritten

\* push(Stack&)
LEMMA PushingStack ==
  ASSUME NEW c, L!Exact(next, stack, loose, c), NEW s \in Stk, NEW o \in Stk, S!PushStack(s, o)
  PROVE  /\ s # o /\ loose' = loose
         /\ \E d : TwoBecome(c, d, s, c[o] \o c[s], o, << >>)
<1>1. /\ s # o /\ loose' = loose
      /\ L!Exact(next', stack', loose', [c EXCEPT ![s] = c[o] \o c[s], ![o] = << >>])
  BY L!PushStackExact, SameOperations, StackAssumptions, Zenon DEF L!NodeAssumption, L!ValueAssumption
<1> QED BY <1>1, TwoWritten

\* swap(Stack&)
LEMMA Swapping ==
  ASSUME NEW c, L!Exact(next, stack, loose, c), NEW s \in Stk, NEW o \in Stk, S!Swap(s, o)
  PROVE  /\ s # o /\ loose' = loose
         /\ \E d : TwoBecome(c, d, s, c[o], o, c[s])
<1>1. /\ s # o /\ loose' = loose
      /\ L!Exact(next', stack', loose', [c EXCEPT ![s] = c[o], ![o] = c[s]])
  BY L!SwapExact, SameOperations, StackAssumptions, Zenon DEF L!NodeAssumption, L!ValueAssumption
<1> QED BY <1>1, TwoWritten

\* popStack(count), as the pool pops a sequence.
LEMMA PoppingStack ==
  ASSUME NEW c, L!Exact(next, stack, loose, c), NEW s \in Stk, NEW o \in Stk,
         NEW count \in Nat, S!PopStack(s, o, count)
  PROVE  /\ s # o /\ loose' = loose /\ c[o] = << >>
         /\ \E d : TwoBecome(c, d, o, Popped(c[s], count), s, Left(c[s], count))
<1> DEFINE k == PopCount(c[s], count)
<1>1. k = IF count >= Len(c[s]) THEN Len(c[s]) ELSE count
  BY Zenon DEF PopCount
<1> HIDE DEF k
<1>2. /\ s # o /\ loose' = loose /\ c[o] = << >>
      /\ L!Exact(next', stack', loose',
                 [c EXCEPT ![o] = SubSeq(c[s], 1, k), ![s] = SubSeq(c[s], k + 1, Len(c[s]))])
  <2>1. L!PopStack(s, o, count)
    BY SameOperations
  <2> QED BY <1>1, <2>1, L!PopStackExact, StackAssumptions DEF L!NodeAssumption, L!ValueAssumption
<1>3. SubSeq(c[s], 1, k) = Popped(c[s], count) /\ SubSeq(c[s], k + 1, Len(c[s])) = Left(c[s], count)
  BY Zenon DEF k, Popped, Left
<1>4. L!Exact(next', stack', loose', [c EXCEPT ![o] = Popped(c[s], count), ![s] = Left(c[s], count)])
  BY <1>2, <1>3
<1> QED BY <1>2, <1>4, TwoWritten

-----------------------------------------------------------------------------
(* The steps of one thread                                                 *)

\* The stacks of a thread.
Owns(t) == {Held(t), Other(t), Alloc(t), Taken(t)}

\* A step of one thread keeps the invariant, if the thread agrees with the new sequences,
\* its step changes no other thread's stacks, and of the nodes that were loose and had
\* been created it takes only its own.
LEMMA KeepsOne ==
  ASSUME NEW c, Sequences(c), PoolInv, NEW t \in Thread, NEW d,
         L!Exact(next', stack', loose', d), d[PoolStack] = m_stack',
         \A x \in Stk : x \notin Owns(t) \cup {PoolStack} => d[x] = c[x],
         NEW op \in Todo, todo' = [todo EXCEPT ![t] = op],
         Agrees(t, d)', Releasing(t)', \A u \in Thread \ {t} : SameCall(u), FreshLoose',
         \A n \in loose : n \in loose' \/ n >= created \/ n \in Range(other[t])
  PROVE  LinkedInv'
<1>1. todo' \in [Thread -> Todo] /\ \A u \in Thread \ {t} : todo'[u] = todo[u]
  BY DEF Sequences
<1>2. ASSUME NEW u \in Thread \ {t} PROVE SameThread(u) /\ SameStacks(u, c, d)
  <2>1. SameThread(u)
    BY <1>1 DEF SameThread
  <2>2. \A x \in Owns(u) : x \in Stk /\ x \notin Owns(t) \cup {PoolStack}
    BY StackNames DEF Owns
  <2>3. SameStacks(u, c, d)
    BY <2>2 DEF SameStacks, Owns
  <2> QED BY <2>1, <2>3
<1> DEFINE W == {t}
<1>3. W \in SUBSET Thread /\ \A u \in W : Agrees(u, d)' /\ Releasing(u)'
  OBVIOUS
<1>4. \A u \in Thread \ W : SameThread(u) /\ SameStacks(u, c, d)
  BY <1>2
<1>5. \A n \in loose : n \in loose' \/ n >= created \/ \E u \in W : n \in Range(other[u])
  OBVIOUS
<1> HIDE DEF W
<1> QED BY <1>1, <1>3, <1>4, <1>5, Keeps

\* The same, for a step that creates no nodes.
LEMMA KeepsOld ==
  ASSUME NEW c, Sequences(c), PoolInv, NEW t \in Thread, NEW d,
         L!Exact(next', stack', loose', d), d[PoolStack] = m_stack',
         \A x \in Stk : x \notin Owns(t) \cup {PoolStack} => d[x] = c[x],
         NEW op \in Todo, todo' = [todo EXCEPT ![t] = op],
         Agrees(t, d)', Releasing(t)', \A u \in Thread \ {t} : SameCall(u), created' = created,
         \A n \in loose : n \in loose' \/ n \in Range(other[t])
  PROVE  LinkedInv'
<1>1. FreshLoose'
  <2> SUFFICES ASSUME NEW n \in Node, n >= created PROVE n \in loose'
    BY DEF FreshLoose
  <2>1. n \in loose
    BY DEF Sequences, FreshLoose
  <2>2. n \notin Range(other[t])
    <3>1. n \in 0..(created - 1) => n <= created - 1
      OBVIOUS
    <3>2. created \in Nat /\ n \in Nat
      BY SizeAssumption DEF PoolInv, Control, TypeOK, Node
    <3>3. n \notin 0..(created - 1)
      BY <3>1, <3>2
    <3> QED BY <3>3, OthersApart
  <2> QED BY <2>1, <2>2
<1>2. \A n \in loose : n \in loose' \/ n >= created \/ n \in Range(other[t])
  OBVIOUS
<1> QED BY <1>1, <1>2, KeepsOne

\* A step that does only what was left to do.
LEMMA OnlyLists ==
  ASSUME NEW t \in Thread, UNCHANGED vars
  PROVE  /\ m_stack' = m_stack /\ created' = created /\ \A u \in Thread : SameCall(u)
         /\ pc' = pc /\ other' = other /\ alloc' = alloc /\ held' = held
BY DEF vars, shared, locals, SameCall

\* node.reset(newStack.pop())
LEMMA TakeStep ==
  ASSUME NEW c, Sequences(c), PoolInv, NEW t \in Thread, Take(t)
  PROVE  LinkedInv'
<1>1. /\ L!Exact(next, stack, loose, c) /\ c[PoolStack] = m_stack /\ TypeOK
      /\ todo \in [Thread -> Todo] /\ Agrees(t, c) /\ Releasing(t)
  BY Known
<1>2. todo[t] = "take" /\ todo' = [todo EXCEPT ![t] = "none"] /\ S!Pop(Alloc(t)) /\ UNCHANGED vars
  BY DEF Take, Done
<1>3. todo'[t] = "none" /\ "none" \in Todo
  BY <1>1, <1>2 DEF Todo
<1>4. BeforeTake(t, c)
  BY <1>1, <1>2 DEF Agrees
<1>5. /\ Owns(t) \subseteq Stk /\ PoolStack \in Stk /\ PoolStack \notin Owns(t)
      /\ Alloc(t) \notin {Held(t), Other(t), Taken(t)}
  BY StackNames DEF Owns
<1>6. /\ loose' = loose \cup {c[Alloc(t)][1]}
      /\ \E d : OneBecomes(c, d, Alloc(t), Tail(c[Alloc(t)]))
  BY <1>1, <1>2, <1>5, Popping DEF Owns
<1>7. PICK d : OneBecomes(c, d, Alloc(t), Tail(c[Alloc(t)]))
  BY <1>6
<1>8. other[t] \in Seq(Nat) /\ alloc[t] \in Seq(Nat) /\ Len(other[t]) = 1
  BY <1>1, <1>4 DEF TypeOK, BeforeTake
<1>9. c[Alloc(t)][1] = other[t][1] /\ Tail(c[Alloc(t)]) = alloc[t]
  <2>1. c[Alloc(t)] = <<other[t][1]>> \o alloc[t] /\ other[t][1] \in Nat
    BY <1>4, <1>8, OneNode DEF BeforeTake
  <2> DEFINE m == other[t][1]
             q == alloc[t]
  <2>2. m \in Nat /\ q \in Seq(Nat) /\ c[Alloc(t)] = <<m>> \o q
    BY <1>8, <2>1
  <2> HIDE DEF m, q
  <2>3. (<<m>> \o q)[1] = m /\ Tail(<<m>> \o q) = q
    BY <2>2, TailOff
  <2> QED BY <2>2, <2>3, Zenon DEF m, q
<1>10. Agrees(t, d)'
  <2>1. /\ d[Alloc(t)] = alloc[t] /\ d[Held(t)] = held[t]
        /\ d[Taken(t)] = << >> /\ d[Other(t)] = << >>
    BY <1>4, <1>5, <1>7, <1>9 DEF BeforeTake, OneBecomes, Owns
  <2>2. Len(other[t]) <= 1 /\ Range(other[t]) \subseteq loose'
    BY <1>6, <1>8, <1>9, OneNode
  <2>3. pc[t] = "one_splice_lock"
    BY <1>4 DEF BeforeTake
  <2>4. AtRest(t, d)'
    BY <1>2, <2>1, <2>2, <2>3, OnlyLists DEF AtRest
  <2> QED BY <1>3, <2>4 DEF Agrees
<1>11. Releasing(t)'
  BY <1>1, <1>2, OnlyLists DEF Releasing
<1>12. /\ L!Exact(next', stack', loose', d) /\ d[PoolStack] = m_stack'
       /\ \A x \in Stk : x \notin Owns(t) \cup {PoolStack} => d[x] = c[x]
  BY <1>1, <1>2, <1>5, <1>7, OnlyLists DEF OneBecomes, Owns
<1>13. \A n \in loose : n \in loose' \/ n \in Range(other[t])
  BY <1>6
<1> QED BY <1>2, <1>3, <1>10, <1>11, <1>12, <1>13, OnlyLists, KeepsOld

\* other.push(taken)
LEMMA JoinStep ==
  ASSUME NEW c, Sequences(c), PoolInv, NEW t \in Thread, Join(t)
  PROVE  LinkedInv'
<1>1. /\ L!Exact(next, stack, loose, c) /\ c[PoolStack] = m_stack /\ TypeOK
      /\ todo \in [Thread -> Todo] /\ Agrees(t, c) /\ Releasing(t)
  BY Known
<1>2. /\ todo[t] = "join" /\ todo' = [todo EXCEPT ![t] = "none"]
      /\ S!PushStack(Other(t), Taken(t)) /\ UNCHANGED vars
  BY DEF Join, Done
<1>3. todo'[t] = "none" /\ "none" \in Todo
  BY <1>1, <1>2 DEF Todo
<1>4. BeforeJoin(t, c)
  BY <1>1, <1>2 DEF Agrees
<1>5. /\ Owns(t) \subseteq Stk /\ PoolStack \in Stk /\ PoolStack \notin Owns(t)
      /\ Other(t) \notin {Held(t), Alloc(t)} /\ Taken(t) \notin {Held(t), Alloc(t)}
  BY StackNames DEF Owns
<1>6. loose' = loose /\ \E d : TwoBecome(c, d, Other(t), c[Taken(t)] \o c[Other(t)], Taken(t), << >>)
  BY <1>1, <1>2, <1>5, PushingStack DEF Owns
<1>7. PICK d : TwoBecome(c, d, Other(t), c[Taken(t)] \o c[Other(t)], Taken(t), << >>)
  BY <1>6
<1>8. other[t] \in Seq(Nat)
  BY <1>1 DEF TypeOK
<1>9. Agrees(t, d)'
  <2>1. /\ d[Alloc(t)] = alloc[t] /\ d[Held(t)] = held[t]
        /\ d[Taken(t)] = << >> /\ d[Other(t)] = other[t]
    BY <1>4, <1>5, <1>7 DEF BeforeJoin, TwoBecome, Owns
  <2>2. other[t] = << >> => Len(other[t]) <= 1 /\ Range(other[t]) \subseteq loose'
    BY DEF Range
  <2>4. AtRest(t, d)'
    BY <1>2, <2>1, <2>2, OnlyLists DEF AtRest
  <2> QED BY <1>3, <2>4 DEF Agrees
<1>10. Releasing(t)'
  BY <1>1, <1>2, OnlyLists DEF Releasing
<1>11. /\ L!Exact(next', stack', loose', d) /\ d[PoolStack] = m_stack'
       /\ \A x \in Stk : x \notin Owns(t) \cup {PoolStack} => d[x] = c[x]
  BY <1>1, <1>2, <1>5, <1>7, OnlyLists DEF TwoBecome, Owns
<1> QED BY <1>2, <1>3, <1>6, <1>9, <1>10, <1>11, OnlyLists, KeepsOld

\* Stack<T> taken(alloc.popStack(numNodes))
LEMMA CutStep ==
  ASSUME NEW c, Sequences(c), PoolInv, NEW t \in Thread, Cut(t)
  PROVE  LinkedInv'
<1>1. /\ L!Exact(next, stack, loose, c) /\ c[PoolStack] = m_stack /\ TypeOK
      /\ todo \in [Thread -> Todo] /\ Agrees(t, c) /\ Releasing(t)
  BY Known
<1> DEFINE count == need[t] - stack[Other(t)].size
<1>2. /\ todo[t] = "cut" /\ todo' = [todo EXCEPT ![t] = "join"]
      /\ S!PopStack(Alloc(t), Taken(t), count) /\ UNCHANGED vars
  BY DEF Cut, Done
<1>3. todo'[t] = "join" /\ "join" \in Todo
  BY <1>1, <1>2 DEF Todo
<1>4. BeforeCut(t, c)
  BY <1>1, <1>2 DEF Agrees
<1>5. /\ Owns(t) \subseteq Stk /\ PoolStack \in Stk /\ PoolStack \notin Owns(t)
      /\ Taken(t) \notin {Held(t), Other(t), Alloc(t)} /\ Alloc(t) \notin {Held(t), Other(t)}
  BY StackNames DEF Owns
<1>6. stack[Other(t)].size = Len(c[Other(t)]) /\ c[Other(t)] \in Seq(Nat)
  <2>1. \A s \in Stk : stack[s].size = Len(c[s])
    BY <1>1, Zenon DEF L!Exact, L!Represented
  <2> QED BY <1>1, <1>5, <2>1, Typed DEF Owns
<1>7. PICK p \in Seq(Nat) :
        /\ Len(p) = need[t] - Len(c[Other(t)])
        /\ other[t] = p \o c[Other(t)] /\ c[Alloc(t)] = p \o alloc[t]
  BY <1>4 DEF BeforeCut
<1>8. count = Len(p) /\ count \in Nat
  BY <1>6, <1>7, LenProperties
<1> HIDE DEF count
<1>9. loose' = loose /\ \E d : TwoBecome(c, d, Taken(t), Popped(c[Alloc(t)], count),
                                           Alloc(t), Left(c[Alloc(t)], count))
  BY <1>1, <1>2, <1>5, <1>8, PoppingStack DEF Owns
<1>10. PICK d : TwoBecome(c, d, Taken(t), Popped(c[Alloc(t)], count),
                                 Alloc(t), Left(c[Alloc(t)], count))
  BY <1>9
<1>11. Popped(c[Alloc(t)], count) = p /\ Left(c[Alloc(t)], count) = alloc[t]
  <2>1. alloc[t] \in Seq(Nat)
    BY <1>1 DEF TypeOK
  <2> QED BY <1>7, <1>8, <2>1, PopJoined
<1>12. Agrees(t, d)'
  <2>1. /\ d[Taken(t)] = p /\ d[Alloc(t)] = alloc[t]
        /\ d[Held(t)] = held[t] /\ d[Other(t)] = c[Other(t)]
    BY <1>4, <1>5, <1>10, <1>11 DEF BeforeCut, TwoBecome, Owns
  <2>2. BeforeJoin(t, d)'
    BY <1>2, <1>4, <1>7, <2>1, OnlyLists DEF BeforeJoin, BeforeCut
  <2> QED BY <1>3, <2>2 DEF Agrees
<1>13. Releasing(t)'
  BY <1>1, <1>2, OnlyLists DEF Releasing
<1>14. /\ L!Exact(next', stack', loose', d) /\ d[PoolStack] = m_stack'
       /\ \A x \in Stk : x \notin Owns(t) \cup {PoolStack} => d[x] = c[x]
  BY <1>1, <1>2, <1>5, <1>10, OnlyLists DEF TwoBecome, Owns
<1> QED BY <1>2, <1>3, <1>9, <1>12, <1>13, <1>14, OnlyLists, KeepsOld

\* The client's push of the stack it is returned.
LEMMA ReturnStackStep ==
  ASSUME NEW c, Sequences(c), PoolInv, NEW t \in Thread, ReturnStack(t)
  PROVE  LinkedInv'
<1>1. /\ L!Exact(next, stack, loose, c) /\ c[PoolStack] = m_stack /\ TypeOK
      /\ todo \in [Thread -> Todo] /\ Agrees(t, c) /\ Releasing(t)
  BY Known
<1>2. /\ todo[t] = "return" /\ todo' = [todo EXCEPT ![t] = "none"]
      /\ S!PushStack(Held(t), Other(t)) /\ UNCHANGED vars
  BY DEF ReturnStack, Done
<1>3. todo'[t] = "none" /\ "none" \in Todo
  BY <1>1, <1>2 DEF Todo
<1>4. BeforeReturn(t, c)
  BY <1>1, <1>2 DEF Agrees
<1>5. /\ Owns(t) \subseteq Stk /\ PoolStack \in Stk /\ PoolStack \notin Owns(t)
      /\ Other(t) \notin {Held(t), Alloc(t), Taken(t)} /\ Held(t) \notin {Alloc(t), Taken(t)}
  BY StackNames DEF Owns
<1>6. loose' = loose /\ \E d : TwoBecome(c, d, Held(t), c[Other(t)] \o c[Held(t)], Other(t), << >>)
  BY <1>1, <1>2, <1>5, PushingStack DEF Owns
<1>7. PICK d : TwoBecome(c, d, Held(t), c[Other(t)] \o c[Held(t)], Other(t), << >>)
  BY <1>6
<1>8. Agrees(t, d)'
  <2>1. /\ d[Held(t)] = held[t] /\ d[Other(t)] = << >>
        /\ d[Alloc(t)] = alloc[t] /\ d[Taken(t)] = << >>
    BY <1>4, <1>5, <1>7 DEF BeforeReturn, TwoBecome, Owns
  <2>2. other[t] = << >> /\ pc[t] = "idle"
    BY <1>4 DEF BeforeReturn
  <2>3. Len(other[t]) <= 1 /\ Range(other[t]) \subseteq loose'
    BY <2>2 DEF Range
  <2>4. AtRest(t, d)'
    BY <1>2, <2>1, <2>2, <2>3, OnlyLists DEF AtRest
  <2> QED BY <1>3, <2>4 DEF Agrees
<1>9. Releasing(t)'
  BY <1>1, <1>2, OnlyLists DEF Releasing
<1>10. /\ L!Exact(next', stack', loose', d) /\ d[PoolStack] = m_stack'
       /\ \A x \in Stk : x \notin Owns(t) \cup {PoolStack} => d[x] = c[x]
  BY <1>1, <1>2, <1>5, <1>7, OnlyLists DEF TwoBecome, Owns
<1> QED BY <1>2, <1>3, <1>6, <1>8, <1>9, <1>10, OnlyLists, KeepsOld

\* A thread that has done all of its step has nothing in its handle's stack while the
\* call has no nodes.
LEMMA NoHandle ==
  ASSUME NEW c, L!Exact(next, stack, loose, c), NEW t \in Thread, AtRest(t, c), other[t] = << >>
  PROVE  c[Other(t)] = << >>
BY DEF AtRest

\* node.reset(m_stack.pop())
LEMMA PopOneStep ==
  ASSUME NEW c, Sequences(c), PoolInv, NEW t \in Thread, PopOne(t)
  PROVE  LinkedInv'
<1>1. /\ L!Exact(next, stack, loose, c) /\ c[PoolStack] = m_stack /\ TypeOK
      /\ todo \in [Thread -> Todo] /\ Agrees(t, c) /\ LocalsOf(t)
  BY Known
<1>2. /\ todo[t] = "none" /\ todo' = [todo EXCEPT ![t] = "none"] /\ AcquireOnePop(t)
      /\ IF S!IsEmpty(PoolStack) THEN UNCHANGED list ELSE S!Pop(PoolStack)
  BY Zenon DEF PopOne, Then
<1>3. todo'[t] = "none" /\ "none" \in Todo
  BY <1>1, <1>2 DEF Todo
<1>4. /\ pc[t] = "one_pop" /\ pc'[t] \in {"one_alloc", "one_construct"}
      /\ other'[t] = Popped(m_stack, 1) /\ m_stack' = Left(m_stack, 1)
      /\ held'[t] = held[t] /\ alloc'[t] = alloc[t] /\ created' = created
      /\ \A u \in Thread \ {t} : SameCall(u)
  BY <1>1, <1>2 DEF AcquireOnePop, Goto, TypeOK, SameCall
<1>5. AtRest(t, c) /\ other[t] = << >> /\ m_stack \in Seq(Nat)
  BY <1>1, <1>2, <1>4 DEF Agrees, LocalsOf, TypeOK
<1>6. c[Other(t)] = << >>
  BY <1>1, <1>5, NoHandle
<1>7. Owns(t) \subseteq Stk /\ PoolStack \in Stk /\ PoolStack \notin Owns(t)
  BY StackNames DEF Owns
<1>8. S!IsEmpty(PoolStack) <=> m_stack = << >>
  BY <1>1, <1>7, L!ExactFacts, SameOperations, StackAssumptions DEF L!NodeAssumption, L!ValueAssumption
<1>9. PICK d : /\ L!Exact(next', stack', loose', d) /\ d[PoolStack] = m_stack'
               /\ \A x \in Stk : x # PoolStack => d[x] = c[x]
               /\ Len(other'[t]) <= 1 /\ Range(other'[t]) \subseteq loose'
               /\ loose \subseteq loose'
  <2>1. CASE m_stack = << >>
    <3>1. next' = next /\ stack' = stack /\ loose' = loose
      BY <1>2, <1>8, <2>1 DEF list
    <3>2. Popped(m_stack, 1) = << >> /\ Left(m_stack, 1) = << >>
      <4>1. Len(m_stack) = 0 /\ 1 \in Nat
        BY <2>1
      <4> QED BY <1>5, <2>1, <4>1, PopAll DEF Popped, Left, PopCount
    <3>3. Len(other'[t]) <= 1 /\ Range(other'[t]) \subseteq loose'
      BY <1>4, <3>2 DEF Range
    <3> QED BY <1>1, <1>4, <2>1, <3>1, <3>2, <3>3
  <2>2. CASE m_stack # << >>
    <3>1. S!Pop(PoolStack)
      BY <1>2, <1>8, <2>2
    <3>2. /\ loose' = loose \cup {m_stack[1]}
          /\ \E d : OneBecomes(c, d, PoolStack, Tail(m_stack))
      BY <1>1, <1>7, <3>1, Popping
    <3>3. PICK d : OneBecomes(c, d, PoolStack, Tail(m_stack))
      BY <3>2
    <3>4. other'[t] = <<m_stack[1]>> /\ m_stack' = Tail(m_stack) /\ m_stack[1] \in Nat
      BY <1>4, <1>5, <2>2, FirstOf
    <3>5. Len(other'[t]) = 1 /\ other'[t][1] = m_stack[1] /\ other'[t] \in Seq(Nat)
      BY <3>4
    <3>6. Range(other'[t]) = {m_stack[1]}
      BY <3>5, OneNode
    <3> QED BY <3>2, <3>3, <3>4, <3>5, <3>6 DEF OneBecomes
  <2> QED BY <2>1, <2>2
<1>10. Agrees(t, d)'
  <2>1. /\ d[Alloc(t)] = alloc[t] /\ d[Held(t)] = held[t]
        /\ d[Taken(t)] = << >> /\ d[Other(t)] = << >>
    BY <1>5, <1>6, <1>7, <1>9 DEF AtRest, Owns
  <2>2. AtRest(t, d)'
    BY <1>4, <1>9, <2>1 DEF AtRest
  <2> QED BY <1>3, <2>2 DEF Agrees
<1>11. Releasing(t)'
  BY <1>4 DEF Releasing
<1> QED BY <1>2, <1>3, <1>4, <1>7, <1>9, <1>10, <1>11, KeepsOld

\* doAllocate(1) in acquireOne
LEMMA AllocateOneStep ==
  ASSUME NEW c, Sequences(c), PoolInv, NEW t \in Thread, AllocateOne(t)
  PROVE  LinkedInv'
<1>1. /\ L!Exact(next, stack, loose, c) /\ c[PoolStack] = m_stack /\ TypeOK
      /\ todo \in [Thread -> Todo] /\ Agrees(t, c) /\ LocalsOf(t)
  BY Known
<1> DEFINE fresh == Fresh(created, BlockSize)
<1>2. /\ todo[t] = "none" /\ todo' = [todo EXCEPT ![t] = "take"] /\ AcquireOneAllocate(t)
      /\ doAllocate(t, BlockSize)
  BY Zenon DEF AllocateOne, Then
<1>3. todo'[t] = "take" /\ "take" \in Todo
  BY <1>1, <1>2 DEF Todo
<1>4. /\ pc[t] = "one_alloc" /\ pc'[t] = "one_splice_lock" /\ created + BlockSize <= MaxNodes
      /\ other'[t] = Popped(fresh, 1) /\ alloc'[t] = Left(fresh, 1)
      /\ held'[t] = held[t] /\ m_stack' = m_stack /\ created' = created + BlockSize
      /\ \A u \in Thread \ {t} : SameCall(u)
  BY <1>1, <1>2 DEF AcquireOneAllocate, Goto, TypeOK, SameCall
<1>5. /\ AtRest(t, c) /\ other[t] = << >> /\ alloc[t] = << >> /\ created \in Nat
      /\ BlockSize \in Nat /\ BlockSize # 0
  BY <1>1, <1>2, <1>4, SizeAssumption DEF Agrees, LocalsOf, TypeOK, Splicing
<1>6. c[Other(t)] = << >> /\ c[Alloc(t)] = << >> /\ c[Held(t)] = held[t] /\ c[Taken(t)] = << >>
  BY <1>1, <1>5, NoHandle DEF AtRest
<1>7. /\ Owns(t) \subseteq Stk /\ PoolStack \in Stk /\ PoolStack \notin Owns(t)
      /\ Alloc(t) \notin {Held(t), Other(t), Taken(t)}
  BY StackNames DEF Owns
<1>8. fresh \in Seq(Nat) /\ Len(fresh) = BlockSize /\ 1 \in Nat /\ 1 <= BlockSize
  BY <1>5, FreshNodes
<1> HIDE DEF fresh
<1>9. /\ L!Exact(next', stack', loose', [c EXCEPT ![Alloc(t)] = fresh])
      /\ \A m \in Node : m >= created + BlockSize => m \in loose'
      /\ \A m \in loose : m \in loose' \/ m >= created
  BY <1>2, <1>4, <1>5, <1>6, AllocateExact DEF fresh
<1>10. PICK d : OneBecomes(c, d, Alloc(t), fresh)
  BY <1>1, <1>7, <1>9, OneWritten DEF Owns
<1>11. Agrees(t, d)'
  <2>1. /\ d[Alloc(t)] = fresh /\ d[Held(t)] = held[t]
        /\ d[Taken(t)] = << >> /\ d[Other(t)] = << >>
    BY <1>6, <1>7, <1>10 DEF OneBecomes, Owns
  <2>2. Popped(fresh, 1) \o Left(fresh, 1) = fresh
    BY <1>8, PoppedLeft
  <2>3. Len(Popped(fresh, 1)) = 1
    BY <1>8, PopLengths
  <2>4. BeforeTake(t, d)'
    BY <1>4, <2>1, <2>2, <2>3 DEF BeforeTake
  <2> QED BY <1>3, <2>4 DEF Agrees
<1>12. Releasing(t)'
  BY <1>4 DEF Releasing
<1>13. /\ L!Exact(next', stack', loose', d) /\ d[PoolStack] = m_stack'
       /\ \A x \in Stk : x \notin Owns(t) \cup {PoolStack} => d[x] = c[x]
  BY <1>1, <1>4, <1>7, <1>10 DEF OneBecomes, Owns
<1>14. FreshLoose'
  BY <1>4, <1>9 DEF FreshLoose
<1> QED BY <1>2, <1>3, <1>4, <1>9, <1>11, <1>12, <1>13, <1>14, KeepsOne

\* The node acquireOne returns, and the client's push of it.
LEMMA ConstructOneStep ==
  ASSUME NEW c, Sequences(c), PoolInv, NEW t \in Thread, ConstructOne(t)
  PROVE  LinkedInv'
<1>1. /\ L!Exact(next, stack, loose, c) /\ c[PoolStack] = m_stack /\ TypeOK
      /\ todo \in [Thread -> Todo] /\ Agrees(t, c) /\ LocalsOf(t)
  BY Known
<1> DEFINE n == other[t][1]
<1>2. /\ todo[t] = "none" /\ todo' = [todo EXCEPT ![t] = "none"] /\ AcquireOneConstruct(t)
      /\ S!Push(Held(t), n)
  BY Zenon DEF ConstructOne, Then
<1>3. todo'[t] = "none" /\ "none" \in Todo
  BY <1>1, <1>2 DEF Todo
<1>4. /\ pc[t] = "one_construct" /\ pc'[t] = "idle" /\ other'[t] = << >>
      /\ held'[t] = other[t] \o held[t] /\ alloc'[t] = alloc[t]
      /\ m_stack' = m_stack /\ created' = created
      /\ \A u \in Thread \ {t} : SameCall(u)
  BY <1>1, <1>2 DEF AcquireOneConstruct, Return, TypeOK, SameCall, shared
<1>5. AtRest(t, c) /\ other[t] \in Seq(Nat) /\ Len(other[t]) = 1
  BY <1>1, <1>2, <1>4 DEF Agrees, LocalsOf, TypeOK
<1>6. other[t] = <<n>> /\ n \in Nat /\ Range(other[t]) = {n}
  BY <1>5, OneNode
<1> HIDE DEF n
<1>7. /\ Owns(t) \subseteq Stk /\ PoolStack \in Stk /\ PoolStack \notin Owns(t)
      /\ Held(t) \notin {Other(t), Alloc(t), Taken(t)}
  BY StackNames DEF Owns
<1>8. n \in loose /\ loose' = loose \ {n} /\ \E d : OneBecomes(c, d, Held(t), <<n>> \o c[Held(t)])
  BY <1>1, <1>2, <1>7, Pushing DEF Owns
<1>9. c[Other(t)] = << >>
  <2> SUFFICES ASSUME c[Other(t)] # << >> PROVE FALSE
    OBVIOUS
  <2>1. c[Other(t)] = other[t]
    BY <1>5 DEF AtRest
  <2>2. 1 \in 1..Len(c[Other(t)]) /\ c[Other(t)][1] = n
    BY <1>5, <2>1 DEF n
  <2>3. c[Other(t)][1] \notin loose
    BY <1>1, <1>7, <2>2, LooseNodes DEF Owns
  <2> QED BY <1>8, <2>2, <2>3
<1>10. PICK d : OneBecomes(c, d, Held(t), <<n>> \o c[Held(t)])
  BY <1>8
<1>11. Agrees(t, d)'
  <2>1. /\ d[Held(t)] = other[t] \o held[t] /\ d[Alloc(t)] = alloc[t]
        /\ d[Taken(t)] = << >> /\ d[Other(t)] = << >>
    BY <1>5, <1>6, <1>7, <1>9, <1>10 DEF OneBecomes, Owns, AtRest
  <2>2. Len(other'[t]) <= 1 /\ Range(other'[t]) \subseteq loose'
    BY <1>4 DEF Range
  <2>3. AtRest(t, d)'
    BY <1>4, <2>1, <2>2 DEF AtRest
  <2> QED BY <1>3, <2>3 DEF Agrees
<1>12. Releasing(t)'
  BY <1>4 DEF Releasing
<1>13. /\ L!Exact(next', stack', loose', d) /\ d[PoolStack] = m_stack'
       /\ \A x \in Stk : x \notin Owns(t) \cup {PoolStack} => d[x] = c[x]
  BY <1>1, <1>4, <1>7, <1>10 DEF OneBecomes, Owns
<1>14. \A m \in loose : m \in loose' \/ m \in Range(other[t])
  BY <1>6, <1>8
<1> QED BY <1>2, <1>3, <1>4, <1>11, <1>12, <1>13, <1>14, KeepsOld

\* acquire swaps the handle with the free stack when it needs it all ...
LEMMA TakeAllStep ==
  ASSUME NEW c, Sequences(c), PoolInv, NEW t \in Thread, AcquireTakeAll(t),
         Then(t, IF need[t] > stack[PoolStack].size THEN "none" ELSE "return"),
         S!Swap(PoolStack, Other(t))
  PROVE  LinkedInv'
<1>1. /\ L!Exact(next, stack, loose, c) /\ c[PoolStack] = m_stack /\ TypeOK
      /\ todo \in [Thread -> Todo] /\ Agrees(t, c) /\ LocalsOf(t)
  BY Known
<1>2. /\ Owns(t) \subseteq Stk /\ PoolStack \in Stk /\ PoolStack \notin Owns(t)
      /\ Other(t) \notin {Held(t), Alloc(t), Taken(t)}
  BY StackNames DEF Owns
<1>3. stack[PoolStack].size = Len(m_stack)
  <2>1. \A s \in Stk : stack[s].size = Len(c[s])
    BY <1>1, Zenon DEF L!Exact, L!Represented
  <2> QED BY <1>1, <1>2, <2>1
<1> DEFINE op == IF need[t] > Len(m_stack) THEN "none" ELSE "return"
<1>4. todo[t] = "none" /\ todo' = [todo EXCEPT ![t] = op] /\ op \in Todo
  BY <1>3 DEF Then, Todo
<1>5. todo'[t] = op
  BY <1>1, <1>4
<1> HIDE DEF op
<1>6. /\ pc[t] = "acq_take" /\ m_stack' = << >> /\ alloc'[t] = alloc[t] /\ created' = created
      /\ \A u \in Thread \ {t} : SameCall(u)
      /\ op = "none" => pc'[t] = "acq_alloc" /\ other'[t] = m_stack /\ held'[t] = held[t]
      /\ op # "none" => pc'[t] = "idle" /\ other'[t] = << >> /\ held'[t] = m_stack \o held[t]
  <2> USE DEF AcquireTakeAll, Return, TypeOK, SameCall
  <2>1. CASE need[t] > Len(m_stack)
    BY <1>1, <2>1 DEF op
  <2>2. CASE ~(need[t] > Len(m_stack))
    BY <1>1, <2>2 DEF op
  <2> QED BY <2>1, <2>2
<1>7. AtRest(t, c) /\ other[t] = << >> /\ m_stack \in Seq(Nat)
  BY <1>1, <1>4, <1>6 DEF Agrees, LocalsOf, TypeOK
<1>8. c[Other(t)] = << >>
  BY <1>1, <1>7, NoHandle
<1>9. loose' = loose /\ \E d : TwoBecome(c, d, PoolStack, c[Other(t)], Other(t), c[PoolStack])
  BY <1>1, <1>2, Swapping DEF Owns
<1>10. PICK d : TwoBecome(c, d, PoolStack, c[Other(t)], Other(t), c[PoolStack])
  BY <1>9
<1>11. /\ d[PoolStack] = << >> /\ d[Other(t)] = m_stack /\ d[Held(t)] = held[t]
       /\ d[Alloc(t)] = alloc[t] /\ d[Taken(t)] = << >>
  BY <1>1, <1>2, <1>7, <1>8, <1>10 DEF TwoBecome, Owns, AtRest
<1>12. Agrees(t, d)'
  <2>1. CASE op = "none"
    <3>1. m_stack = << >> => Len(m_stack) <= 1 /\ Range(m_stack) \subseteq loose'
      BY DEF Range
    <3>2. AtRest(t, d)'
      BY <1>6, <1>11, <2>1, <3>1 DEF AtRest
    <3> QED BY <1>5, <2>1, <3>2 DEF Agrees
  <2>2. CASE op # "none"
    <3>1. BeforeReturn(t, d)'
      BY <1>6, <1>11, <2>2 DEF BeforeReturn
    <3>2. op = "return"
      BY <2>2 DEF op
    <3> QED BY <1>5, <3>1, <3>2 DEF Agrees
  <2> QED BY <2>1, <2>2
<1>13. Releasing(t)'
  BY <1>6 DEF Releasing
<1>14. /\ L!Exact(next', stack', loose', d) /\ d[PoolStack] = m_stack'
       /\ \A x \in Stk : x \notin Owns(t) \cup {PoolStack} => d[x] = c[x]
  BY <1>6, <1>10, <1>11 DEF TwoBecome, Owns
<1> QED BY <1>4, <1>6, <1>9, <1>12, <1>13, <1>14, KeepsOld

\* ... and else cuts what it needs off it.
LEMMA TakeSomeStep ==
  ASSUME NEW c, Sequences(c), PoolInv, NEW t \in Thread, AcquireTakeSome(t),
         Then(t, "return"), S!PopStack(PoolStack, Other(t), need[t])
  PROVE  LinkedInv'
<1>1. /\ L!Exact(next, stack, loose, c) /\ c[PoolStack] = m_stack /\ TypeOK
      /\ todo \in [Thread -> Todo] /\ Agrees(t, c) /\ LocalsOf(t)
  BY Known
<1> DEFINE p == Popped(m_stack, need[t])
           r == Left(m_stack, need[t])
<1>2. /\ Owns(t) \subseteq Stk /\ PoolStack \in Stk /\ PoolStack \notin Owns(t)
      /\ Other(t) \notin {Held(t), Alloc(t), Taken(t)}
  BY StackNames DEF Owns
<1>3. todo[t] = "none" /\ todo' = [todo EXCEPT ![t] = "return"] /\ "return" \in Todo
  BY DEF Then, Todo
<1>4. todo'[t] = "return"
  BY <1>1, <1>3
<1>5. /\ pc[t] = "acq_take" /\ m_stack' = r /\ alloc'[t] = alloc[t] /\ created' = created
      /\ pc'[t] = "idle" /\ other'[t] = << >> /\ held'[t] = p \o held[t]
      /\ \A u \in Thread \ {t} : SameCall(u)
  BY <1>1 DEF AcquireTakeSome, Return, TypeOK, SameCall
<1>6. AtRest(t, c) /\ need[t] \in Nat
  BY <1>1, <1>3, <1>5 DEF Agrees, TypeOK
<1>7. loose' = loose /\ \E d : TwoBecome(c, d, Other(t), p, PoolStack, r)
  BY <1>1, <1>2, <1>6, PoppingStack DEF Owns
<1> HIDE DEF p, r
<1>8. PICK d : TwoBecome(c, d, Other(t), p, PoolStack, r)
  BY <1>7
<1>9. Agrees(t, d)'
  <2>1. /\ d[Other(t)] = p /\ d[Held(t)] = held[t]
        /\ d[Alloc(t)] = alloc[t] /\ d[Taken(t)] = << >>
    BY <1>2, <1>6, <1>8 DEF TwoBecome, Owns, AtRest
  <2>2. BeforeReturn(t, d)'
    BY <1>5, <2>1 DEF BeforeReturn
  <2> QED BY <1>4, <2>2 DEF Agrees
<1>10. Releasing(t)'
  BY <1>5 DEF Releasing
<1>11. /\ L!Exact(next', stack', loose', d) /\ d[PoolStack] = m_stack'
       /\ \A x \in Stk : x \notin Owns(t) \cup {PoolStack} => d[x] = c[x]
  BY <1>2, <1>5, <1>8 DEF TwoBecome, Owns
<1> QED BY <1>3, <1>5, <1>7, <1>9, <1>10, <1>11, KeepsOld

\* doAllocate(numBlocks) in acquire
LEMMA AllocateStep ==
  ASSUME NEW c, Sequences(c), PoolInv, NEW t \in Thread, Allocate(t)
  PROVE  LinkedInv'
<1>1. /\ L!Exact(next, stack, loose, c) /\ c[PoolStack] = m_stack /\ TypeOK
      /\ todo \in [Thread -> Todo] /\ Agrees(t, c) /\ LocalsOf(t)
  BY Known
<1> DEFINE n == NumBlocks(t) * BlockSize
           k == NumNodes(t)
           fresh == Fresh(created, n)
<1>2. /\ todo[t] = "none" /\ todo' = [todo EXCEPT ![t] = "cut"] /\ AcquireAllocate(t)
      /\ doAllocate(t, n)
  BY Zenon DEF Allocate, Then
<1>3. todo'[t] = "cut" /\ "cut" \in Todo
  BY <1>1, <1>2 DEF Todo
<1>4. /\ pc[t] = "acq_alloc" /\ pc'[t] = "acq_splice_lock" /\ created + n <= MaxNodes
      /\ other'[t] = Popped(fresh, k) \o other[t] /\ alloc'[t] = Left(fresh, k)
      /\ held'[t] = held[t] /\ need'[t] = need[t]
      /\ m_stack' = m_stack /\ created' = created + n
      /\ \A u \in Thread \ {t} : SameCall(u)
  <2> HIDE DEF n, k, fresh
  <2>1. /\ Goto(t, "acq_alloc", "acq_splice_lock") /\ created + n <= MaxNodes
        /\ created' = created + n
        /\ other' = [other EXCEPT ![t] = Popped(fresh, k) \o other[t]]
        /\ alloc' = [alloc EXCEPT ![t] = Left(fresh, k)]
        /\ m_stack' = m_stack /\ held' = held /\ need' = need
    BY <1>2 DEF AcquireAllocate, n, k, fresh
  <2> QED BY <1>1, <2>1 DEF Goto, TypeOK, SameCall
<1>5. /\ AtRest(t, c) /\ alloc[t] = << >> /\ created \in Nat /\ c[Other(t)] = other[t]
      /\ Len(other[t]) < need[t] /\ other[t] \in Seq(Nat) /\ need[t] \in Nat
  BY <1>1, <1>2, <1>4 DEF Agrees, AtRest, LocalsOf, TypeOK, Splicing
<1>6. k \in Nat /\ k = need[t] - Len(other[t]) /\ n \in Nat /\ n # 0 /\ k <= n
  <2>1. k \in Nat /\ k = need[t] - Len(other[t])
    BY <1>5, LenProperties DEF NumNodes
  <2>2. n \in Nat /\ n > k
    BY <2>1, AcquireAllocateSizes DEF NumBlocks
  <2> HIDE DEF n, k
  <2> QED BY <2>1, <2>2
<1> HIDE DEF n, k
<1>7. c[Alloc(t)] = << >> /\ c[Held(t)] = held[t] /\ c[Taken(t)] = << >>
  BY <1>5 DEF AtRest
<1>8. /\ Owns(t) \subseteq Stk /\ PoolStack \in Stk /\ PoolStack \notin Owns(t)
      /\ Alloc(t) \notin {Held(t), Other(t), Taken(t)}
  BY StackNames DEF Owns
<1>9. fresh \in Seq(Nat) /\ Len(fresh) = n
  BY <1>5, <1>6, FreshNodes
<1> HIDE DEF fresh
<1>10. /\ L!Exact(next', stack', loose', [c EXCEPT ![Alloc(t)] = fresh])
       /\ \A m \in Node : m >= created + n => m \in loose'
       /\ \A m \in loose : m \in loose' \/ m >= created
  BY <1>2, <1>4, <1>5, <1>6, <1>7, AllocateExact DEF fresh
<1>11. PICK d : OneBecomes(c, d, Alloc(t), fresh)
  BY <1>1, <1>8, <1>10, OneWritten DEF Owns
<1>12. Agrees(t, d)'
  <2> DEFINE p == Popped(fresh, k)
             r == Left(fresh, k)
  <2>1. /\ d[Alloc(t)] = fresh /\ d[Held(t)] = held[t]
        /\ d[Taken(t)] = << >> /\ d[Other(t)] = other[t]
    BY <1>5, <1>7, <1>8, <1>11 DEF OneBecomes, Owns
  <2>2. p \in Seq(Nat) /\ p \o r = fresh
    BY <1>6, <1>9, PoppedLeft
  <2>3. Len(p) = k
    BY <1>6, <1>9, PopLengths
  <2>4. alloc'[t] = r /\ other'[t] = p \o other[t]
    BY <1>4
  <2> HIDE DEF p, r
  <2>5. \E q \in Seq(Nat) : /\ Len(q) = need'[t] - Len(d[Other(t)])
                            /\ other'[t] = q \o d[Other(t)] /\ d[Alloc(t)] = q \o alloc'[t]
    BY <1>4, <1>6, <2>1, <2>2, <2>3, <2>4
  <2>6. BeforeCut(t, d)'
    BY <1>4, <1>5, <2>1, <2>5 DEF BeforeCut
  <2> QED BY <1>3, <2>6 DEF Agrees
<1>13. Releasing(t)'
  BY <1>4 DEF Releasing
<1>14. /\ L!Exact(next', stack', loose', d) /\ d[PoolStack] = m_stack'
       /\ \A x \in Stk : x \notin Owns(t) \cup {PoolStack} => d[x] = c[x]
  BY <1>1, <1>4, <1>8, <1>11 DEF OneBecomes, Owns
<1>15. FreshLoose'
  BY <1>4, <1>10 DEF FreshLoose
<1> QED BY <1>2, <1>3, <1>4, <1>10, <1>12, <1>13, <1>14, <1>15, KeepsOne

\* m_stack.push(newStack) in acquireOne ...
LEMMA SpliceOneStep ==
  ASSUME NEW c, Sequences(c), PoolInv, NEW t \in Thread, AcquireOneSplice(t),
         Then(t, "none"), S!PushStack(PoolStack, Alloc(t))
  PROVE  LinkedInv'
<1>1. /\ L!Exact(next, stack, loose, c) /\ c[PoolStack] = m_stack /\ TypeOK
      /\ todo \in [Thread -> Todo] /\ Agrees(t, c)
  BY Known
<1>2. todo[t] = "none" /\ todo' = [todo EXCEPT ![t] = "none"] /\ "none" \in Todo
  BY DEF Then, Todo
<1>3. todo'[t] = "none"
  BY <1>1, <1>2
<1>4. /\ pc'[t] = "one_construct" /\ m_stack' = alloc[t] \o m_stack /\ alloc'[t] = << >>
      /\ other'[t] = other[t] /\ held'[t] = held[t] /\ created' = created
      /\ \A u \in Thread \ {t} : SameCall(u)
  BY <1>1 DEF AcquireOneSplice, Goto, Spliced, TypeOK, SameCall
<1>5. AtRest(t, c)
  BY <1>1, <1>2 DEF Agrees
<1>6. /\ Owns(t) \subseteq Stk /\ PoolStack \in Stk /\ PoolStack \notin Owns(t)
      /\ Alloc(t) \notin {Held(t), Other(t), Taken(t)}
  BY StackNames DEF Owns
<1>7. loose' = loose /\ \E d : TwoBecome(c, d, PoolStack, c[Alloc(t)] \o c[PoolStack], Alloc(t), << >>)
  BY <1>1, <1>6, PushingStack DEF Owns
<1>8. PICK d : TwoBecome(c, d, PoolStack, c[Alloc(t)] \o c[PoolStack], Alloc(t), << >>)
  BY <1>7
<1>9. Agrees(t, d)'
  <2>1. /\ d[Alloc(t)] = << >> /\ d[Held(t)] = held[t]
        /\ d[Taken(t)] = << >> /\ d[Other(t)] = c[Other(t)]
    BY <1>5, <1>6, <1>8 DEF TwoBecome, Owns, AtRest
  <2>2. AtRest(t, d)'
    BY <1>4, <1>5, <1>7, <2>1 DEF AtRest
  <2> QED BY <1>3, <2>2 DEF Agrees
<1>10. Releasing(t)'
  BY <1>4 DEF Releasing
<1>11. /\ L!Exact(next', stack', loose', d) /\ d[PoolStack] = m_stack'
       /\ \A x \in Stk : x \notin Owns(t) \cup {PoolStack} => d[x] = c[x]
  BY <1>1, <1>4, <1>5, <1>6, <1>8 DEF TwoBecome, Owns, AtRest
<1> QED BY <1>2, <1>4, <1>7, <1>9, <1>10, <1>11, KeepsOld

\* ... and m_stack.push(alloc) in acquire, which returns then.
LEMMA SpliceManyStep ==
  ASSUME NEW c, Sequences(c), PoolInv, NEW t \in Thread, AcquireSplice(t),
         Then(t, "return"), S!PushStack(PoolStack, Alloc(t))
  PROVE  LinkedInv'
<1>1. /\ L!Exact(next, stack, loose, c) /\ c[PoolStack] = m_stack /\ TypeOK
      /\ todo \in [Thread -> Todo] /\ Agrees(t, c)
  BY Known
<1>2. todo[t] = "none" /\ todo' = [todo EXCEPT ![t] = "return"] /\ "return" \in Todo
  BY DEF Then, Todo
<1>3. todo'[t] = "return"
  BY <1>1, <1>2
<1>4. /\ pc[t] = "acq_splice" /\ pc'[t] = "idle"
      /\ m_stack' = alloc[t] \o m_stack /\ alloc'[t] = << >>
      /\ other'[t] = << >> /\ held'[t] = other[t] \o held[t] /\ created' = created
      /\ \A u \in Thread \ {t} : SameCall(u)
  BY <1>1 DEF AcquireSplice, Return, Spliced, TypeOK, SameCall
<1>5. AtRest(t, c) /\ c[Other(t)] = other[t]
  BY <1>1, <1>2, <1>4 DEF Agrees, AtRest
<1>6. /\ Owns(t) \subseteq Stk /\ PoolStack \in Stk /\ PoolStack \notin Owns(t)
      /\ Alloc(t) \notin {Held(t), Other(t), Taken(t)}
  BY StackNames DEF Owns
<1>7. loose' = loose /\ \E d : TwoBecome(c, d, PoolStack, c[Alloc(t)] \o c[PoolStack], Alloc(t), << >>)
  BY <1>1, <1>6, PushingStack DEF Owns
<1>8. PICK d : TwoBecome(c, d, PoolStack, c[Alloc(t)] \o c[PoolStack], Alloc(t), << >>)
  BY <1>7
<1>9. Agrees(t, d)'
  <2>1. /\ d[Alloc(t)] = << >> /\ d[Held(t)] = held[t]
        /\ d[Taken(t)] = << >> /\ d[Other(t)] = other[t]
    BY <1>5, <1>6, <1>8 DEF TwoBecome, Owns, AtRest
  <2>2. BeforeReturn(t, d)'
    BY <1>4, <2>1 DEF BeforeReturn
  <2> QED BY <1>3, <2>2 DEF Agrees
<1>10. Releasing(t)'
  BY <1>4 DEF Releasing
<1>11. /\ L!Exact(next', stack', loose', d) /\ d[PoolStack] = m_stack'
       /\ \A x \in Stk : x \notin Owns(t) \cup {PoolStack} => d[x] = c[x]
  BY <1>1, <1>4, <1>5, <1>6, <1>8 DEF TwoBecome, Owns, AtRest
<1> QED BY <1>2, <1>4, <1>7, <1>9, <1>10, <1>11, KeepsOld

\* The node of popOne(), to be released ...
LEMMA PopOneToReleaseStep ==
  ASSUME NEW c, Sequences(c), PoolInv, NEW t \in Thread, Then(t, "none"),
         CallReleaseOne(t), S!Pop(Held(t))
  PROVE  LinkedInv'
<1>1. /\ L!Exact(next, stack, loose, c) /\ c[PoolStack] = m_stack /\ TypeOK
      /\ todo \in [Thread -> Todo] /\ Agrees(t, c) /\ LocalsOf(t)
  BY Known
<1>2. todo[t] = "none" /\ todo' = [todo EXCEPT ![t] = "none"] /\ "none" \in Todo
  BY DEF Then, Todo
<1>3. todo'[t] = "none"
  BY <1>1, <1>2
<1>4. /\ pc[t] = "idle" /\ pc'[t] = "rel_reset" /\ held[t] # << >>
      /\ other'[t] = Popped(held[t], 1) /\ held'[t] = Left(held[t], 1)
      /\ alloc'[t] = alloc[t] /\ m_stack' = m_stack /\ created' = created
      /\ \A u \in Thread \ {t} : SameCall(u)
  BY <1>1 DEF CallReleaseOne, Goto, TypeOK, SameCall, shared
<1>5. AtRest(t, c) /\ other[t] = << >> /\ c[Held(t)] = held[t] /\ held[t] \in Seq(Nat)
  BY <1>1, <1>2, <1>4 DEF Agrees, AtRest, LocalsOf, TypeOK
<1>6. c[Other(t)] = << >>
  BY <1>1, <1>5, NoHandle
<1>7. /\ Owns(t) \subseteq Stk /\ PoolStack \in Stk /\ PoolStack \notin Owns(t)
      /\ Held(t) \notin {Other(t), Alloc(t), Taken(t)}
  BY StackNames DEF Owns
<1>8. loose' = loose \cup {held[t][1]} /\ \E d : OneBecomes(c, d, Held(t), Tail(held[t]))
  BY <1>1, <1>5, <1>7, Popping DEF Owns
<1>9. PICK d : OneBecomes(c, d, Held(t), Tail(held[t]))
  BY <1>8
<1>10. /\ other'[t] = <<held[t][1]>> /\ held'[t] = Tail(held[t])
       /\ other'[t] # << >> /\ Len(other'[t]) <= 1 /\ Range(other'[t]) \subseteq loose'
  <2>1. other'[t] = <<held[t][1]>> /\ held'[t] = Tail(held[t]) /\ held[t][1] \in Nat
    BY <1>4, <1>5, FirstOf
  <2>2. Len(other'[t]) = 1 /\ other'[t][1] = held[t][1] /\ other'[t] \in Seq(Nat)
    BY <2>1
  <2>3. Range(other'[t]) = {held[t][1]} /\ other'[t] # << >>
    BY <2>2, OneNode
  <2> QED BY <1>8, <2>1, <2>2, <2>3
<1>11. Agrees(t, d)'
  <2>1. /\ d[Alloc(t)] = alloc[t] /\ d[Held(t)] = held'[t]
        /\ d[Taken(t)] = << >> /\ d[Other(t)] = << >>
    BY <1>5, <1>6, <1>7, <1>9, <1>10 DEF OneBecomes, Owns, AtRest
  <2>2. AtRest(t, d)'
    BY <1>4, <1>10, <2>1 DEF AtRest
  <2> QED BY <1>3, <2>2 DEF Agrees
<1>12. Releasing(t)'
  BY <1>10 DEF Releasing
<1>13. /\ L!Exact(next', stack', loose', d) /\ d[PoolStack] = m_stack'
       /\ \A x \in Stk : x \notin Owns(t) \cup {PoolStack} => d[x] = c[x]
  BY <1>1, <1>4, <1>7, <1>9 DEF OneBecomes, Owns
<1>14. \A m \in loose : m \in loose' \/ m \in Range(other[t])
  BY <1>8
<1> QED BY <1>2, <1>4, <1>11, <1>12, <1>13, <1>14, KeepsOld

\* ... and the stack of pop(count).
LEMMA PopSomeToReleaseStep ==
  ASSUME NEW c, Sequences(c), PoolInv, NEW t \in Thread, Then(t, "none"),
         NEW count \in Counts, CallRelease(t, count), S!PopStack(Held(t), Other(t), count)
  PROVE  LinkedInv'
<1>1. /\ L!Exact(next, stack, loose, c) /\ c[PoolStack] = m_stack /\ TypeOK
      /\ todo \in [Thread -> Todo] /\ Agrees(t, c)
  BY Known
<1> DEFINE p == Popped(held[t], count)
           r == Left(held[t], count)
<1>2. todo[t] = "none" /\ todo' = [todo EXCEPT ![t] = "none"] /\ "none" \in Todo
  BY DEF Then, Todo
<1>3. todo'[t] = "none"
  BY <1>1, <1>2
<1>4. /\ pc'[t] = "rel_reset" /\ p # << >>
      /\ other'[t] = p /\ held'[t] = r
      /\ alloc'[t] = alloc[t] /\ m_stack' = m_stack /\ created' = created
      /\ \A u \in Thread \ {t} : SameCall(u)
  BY <1>1 DEF CallRelease, Goto, TypeOK, SameCall, shared
<1>5. AtRest(t, c) /\ c[Held(t)] = held[t] /\ count \in Nat
  BY <1>1, <1>2, CountsAssumption DEF Agrees, AtRest
<1>6. /\ Owns(t) \subseteq Stk /\ PoolStack \in Stk /\ PoolStack \notin Owns(t)
      /\ Held(t) \notin {Alloc(t), Taken(t)} /\ Other(t) \notin {Alloc(t), Taken(t)}
  BY StackNames DEF Owns
<1>7. loose' = loose /\ \E d : TwoBecome(c, d, Other(t), p, Held(t), r)
  BY <1>1, <1>5, <1>6, PoppingStack DEF Owns
<1> HIDE DEF p, r
<1>8. PICK d : TwoBecome(c, d, Other(t), p, Held(t), r)
  BY <1>7
<1>9. Agrees(t, d)'
  <2>1. /\ d[Alloc(t)] = alloc[t] /\ d[Held(t)] = r
        /\ d[Taken(t)] = << >> /\ d[Other(t)] = p
    BY <1>5, <1>6, <1>8 DEF TwoBecome, Owns, AtRest
  <2>2. AtRest(t, d)'
    BY <1>4, <2>1 DEF AtRest
  <2> QED BY <1>3, <2>2 DEF Agrees
<1>10. Releasing(t)'
  BY <1>4 DEF Releasing
<1>11. /\ L!Exact(next', stack', loose', d) /\ d[PoolStack] = m_stack'
       /\ \A x \in Stk : x \notin Owns(t) \cup {PoolStack} => d[x] = c[x]
  BY <1>1, <1>4, <1>6, <1>8 DEF TwoBecome, Owns
<1> QED BY <1>2, <1>4, <1>7, <1>9, <1>10, <1>11, KeepsOld

\* release(node) and release(stack)
LEMMA PushReleasedStep ==
  ASSUME NEW c, Sequences(c), PoolInv, NEW t \in Thread, PushReleased(t)
  PROVE  LinkedInv'
<1>1. /\ L!Exact(next, stack, loose, c) /\ c[PoolStack] = m_stack /\ TypeOK
      /\ todo \in [Thread -> Todo] /\ Agrees(t, c) /\ Releasing(t)
  BY Known
<1>2. /\ todo[t] = "none" /\ todo' = [todo EXCEPT ![t] = "none"] /\ ReleasePush(t)
      /\ IF S!IsEmpty(Other(t)) THEN S!Push(PoolStack, other[t][1])
                                ELSE S!PushStack(PoolStack, Other(t))
  BY Zenon DEF PushReleased, Then
<1>3. todo'[t] = "none" /\ "none" \in Todo
  BY <1>1, <1>2 DEF Todo
<1>4. /\ pc[t] = "rel_push" /\ pc'[t] = "idle"
      /\ m_stack' = other[t] \o m_stack /\ other'[t] = << >>
      /\ held'[t] = held[t] /\ alloc'[t] = alloc[t] /\ created' = created
      /\ \A u \in Thread \ {t} : SameCall(u)
  BY <1>1, <1>2 DEF ReleasePush, Goto, TypeOK, SameCall
<1>5. AtRest(t, c) /\ other[t] # << >> /\ other[t] \in Seq(Nat)
  BY <1>1, <1>2, <1>4 DEF Agrees, Releasing, TypeOK
<1>6. /\ Owns(t) \subseteq Stk /\ PoolStack \in Stk /\ PoolStack \notin Owns(t)
      /\ Other(t) \notin {Held(t), Alloc(t), Taken(t)}
  BY StackNames DEF Owns
<1>7. S!IsEmpty(Other(t)) <=> c[Other(t)] = << >>
  BY <1>1, <1>6, L!ExactFacts, SameOperations, StackAssumptions DEF L!NodeAssumption, L!ValueAssumption, Owns
<1>8. PICK d : /\ L!Exact(next', stack', loose', d)
               /\ d[PoolStack] = other[t] \o m_stack /\ d[Other(t)] = << >>
               /\ \A x \in Stk : x # PoolStack /\ x # Other(t) => d[x] = c[x]
               /\ \A m \in loose : m \in loose' \/ m \in Range(other[t])
  <2>1. CASE c[Other(t)] = << >>
    <3> DEFINE n == other[t][1]
    <3>1. S!Push(PoolStack, n)
      BY <1>2, <1>7, <2>1
    <3>2. other[t] = <<n>> /\ Range(other[t]) = {n}
      <4>1. Len(other[t]) = 1
        <5>1. Len(other[t]) <= 1
          BY <1>5, <2>1 DEF AtRest
        <5>2. Len(other[t]) \in Nat /\ Len(other[t]) # 0
          BY <1>5, Nothing
        <5> DEFINE len == Len(other[t])
        <5>3. len \in Nat /\ len # 0 /\ len <= 1
          BY <5>1, <5>2
        <5> HIDE DEF len
        <5>4. len = 1
          BY <5>3
        <5> QED BY <5>4 DEF len
      <4> QED BY <1>5, <4>1, OneNode
    <3> HIDE DEF n
    <3>3. loose' = loose \ {n} /\ \E d : OneBecomes(c, d, PoolStack, <<n>> \o m_stack)
      BY <1>1, <1>6, <3>1, Pushing
    <3>4. PICK d : OneBecomes(c, d, PoolStack, <<n>> \o m_stack)
      BY <3>3
    <3>5. d[PoolStack] = other[t] \o m_stack /\ d[Other(t)] = << >>
      BY <1>6, <2>1, <3>2, <3>4 DEF OneBecomes, Owns
    <3>6. \A m \in loose : m \in loose' \/ m \in Range(other[t])
      BY <3>2, <3>3
    <3> QED BY <3>4, <3>5, <3>6 DEF OneBecomes
  <2>2. CASE c[Other(t)] # << >>
    <3>1. S!PushStack(PoolStack, Other(t)) /\ c[Other(t)] = other[t]
      BY <1>2, <1>5, <1>7, <2>2 DEF AtRest
    <3>2. loose' = loose /\ \E d : TwoBecome(c, d, PoolStack, other[t] \o m_stack, Other(t), << >>)
      BY <1>1, <1>6, <3>1, PushingStack DEF Owns
    <3> QED BY <3>2 DEF TwoBecome
  <2> QED BY <2>1, <2>2
<1>9. Agrees(t, d)'
  <2>1. /\ d[Alloc(t)] = alloc[t] /\ d[Held(t)] = held[t]
        /\ d[Taken(t)] = << >> /\ d[Other(t)] = << >>
    BY <1>5, <1>6, <1>8 DEF Owns, AtRest
  <2>2. Len(other'[t]) <= 1 /\ Range(other'[t]) \subseteq loose'
    BY <1>4 DEF Range
  <2>3. AtRest(t, d)'
    BY <1>4, <2>1, <2>2 DEF AtRest
  <2> QED BY <1>3, <2>3 DEF Agrees
<1>10. Releasing(t)'
  BY <1>4 DEF Releasing
<1>11. /\ L!Exact(next', stack', loose', d) /\ d[PoolStack] = m_stack'
       /\ \A x \in Stk : x \notin Owns(t) \cup {PoolStack} => d[x] = c[x]
  BY <1>4, <1>8 DEF Owns
<1> QED BY <1>2, <1>3, <1>4, <1>8, <1>9, <1>10, <1>11, KeepsOld

\* The client's push of a stack it is given by another thread.
LEMMA GiveTakenStep ==
  ASSUME NEW c, Sequences(c), PoolInv, NEW t \in Thread, NEW u \in Thread, GiveStack(t, u)
  PROVE  LinkedInv'
<1>1. /\ L!Exact(next, stack, loose, c) /\ c[PoolStack] = m_stack /\ TypeOK
      /\ todo \in [Thread -> Todo]
      /\ Agrees(t, c) /\ Releasing(t) /\ Agrees(u, c) /\ Releasing(u)
  BY Known
<1>2. /\ todo[t] = "none" /\ todo' = [todo EXCEPT ![t] = "none"] /\ todo[u] = "none"
      /\ Give(t, u) /\ S!PushStack(Held(u), Held(t))
  BY DEF GiveStack, Then
<1>3. todo' = todo
  BY <1>1, <1>2
<1>4. /\ t # u /\ pc' = pc /\ other' = other /\ alloc' = alloc /\ need' = need
      /\ pc[t] = "idle" /\ pc[u] = "idle" /\ m_stack' = m_stack /\ created' = created
      /\ held'[t] = << >> /\ held'[u] = held[t] \o held[u]
      /\ \A v \in Thread \ {t, u} : held'[v] = held[v]
  BY <1>1, <1>2 DEF Give, TypeOK, shared, locals
<1>5. AtRest(t, c) /\ AtRest(u, c)
  BY <1>1, <1>2 DEF Agrees
<1>6. /\ Owns(t) \subseteq Stk /\ Owns(u) \subseteq Stk
      /\ PoolStack \in Stk /\ PoolStack \notin Owns(t) /\ PoolStack \notin Owns(u)
      /\ Held(t) # Held(u)
      /\ Held(t) \notin {Other(t), Alloc(t), Taken(t), Other(u), Alloc(u), Taken(u)}
      /\ Held(u) \notin {Other(t), Alloc(t), Taken(t), Other(u), Alloc(u), Taken(u)}
  BY <1>4, StackNames DEF Owns
<1>7. loose' = loose /\ \E d : TwoBecome(c, d, Held(u), c[Held(t)] \o c[Held(u)], Held(t), << >>)
  BY <1>1, <1>2, <1>6, PushingStack DEF Owns
<1>8. PICK d : TwoBecome(c, d, Held(u), c[Held(t)] \o c[Held(u)], Held(t), << >>)
  BY <1>7
<1>9. Agrees(t, d)' /\ Releasing(t)'
  <2>1. /\ d[Held(t)] = held'[t] /\ d[Alloc(t)] = c[Alloc(t)]
        /\ d[Taken(t)] = c[Taken(t)] /\ d[Other(t)] = c[Other(t)]
    BY <1>4, <1>6, <1>8 DEF TwoBecome, Owns
  <2>2. AtRest(t, d)'
    BY <1>4, <1>5, <1>7, <2>1 DEF AtRest
  <2>3. Agrees(t, d)'
    BY <1>2, <1>3, <2>2 DEF Agrees
  <2>4. Releasing(t)'
    BY <1>4 DEF Releasing
  <2> QED BY <2>3, <2>4
<1>10. Agrees(u, d)' /\ Releasing(u)'
  <2>1. /\ d[Held(u)] = held'[u] /\ d[Alloc(u)] = c[Alloc(u)]
        /\ d[Taken(u)] = c[Taken(u)] /\ d[Other(u)] = c[Other(u)]
    BY <1>4, <1>5, <1>6, <1>8 DEF TwoBecome, Owns, AtRest
  <2>2. AtRest(u, d)'
    BY <1>4, <1>5, <1>7, <2>1 DEF AtRest
  <2>3. Agrees(u, d)'
    BY <1>2, <1>3, <2>2 DEF Agrees
  <2>4. Releasing(u)'
    BY <1>4 DEF Releasing
  <2> QED BY <2>3, <2>4
<1>11. ASSUME NEW v \in Thread \ {t, u} PROVE SameThread(v) /\ SameStacks(v, c, d)
  <2>1. SameThread(v)
    BY <1>3, <1>4 DEF SameThread, SameCall
  <2>2. \A x \in Owns(v) : x \in Stk /\ x # Held(t) /\ x # Held(u)
    BY StackNames DEF Owns
  <2>3. SameStacks(v, c, d)
    BY <1>8, <2>2 DEF SameStacks, Owns, TwoBecome
  <2> QED BY <2>1, <2>3
<1>12. L!Exact(next', stack', loose', d) /\ d[PoolStack] = m_stack'
  BY <1>1, <1>4, <1>6, <1>8 DEF TwoBecome, Owns
<1>13. todo' \in [Thread -> Todo] /\ FreshLoose'
  BY <1>1, <1>3, <1>4, <1>7 DEF Sequences, FreshLoose
<1> DEFINE W == {t, u}
<1>14. W \in SUBSET Thread /\ \A v \in W : Agrees(v, d)' /\ Releasing(v)'
  BY <1>9, <1>10
<1>15. \A v \in Thread \ W : SameThread(v) /\ SameStacks(v, c, d)
  BY <1>11
<1>16. \A n \in loose : n \in loose' \/ n >= created \/ \E v \in W : n \in Range(other[v])
  BY <1>7
<1> HIDE DEF W
<1> QED BY <1>12, <1>13, <1>14, <1>15, <1>16, Keeps

\* What a step that does nothing to a stack leaves the thread with.
LEMMA UnlinkedAgrees ==
  ASSUME NEW c, Sequences(c), PoolInv, NEW t \in Thread, Unlinked(t)
  PROVE  /\ AtRest(t, c)' /\ Releasing(t)' /\ m_stack' = m_stack /\ created' = created
         /\ \A u \in Thread \ {t} : SameCall(u)
<1>1. /\ L!Exact(next, stack, loose, c) /\ TypeOK
      /\ Agrees(t, c) /\ Releasing(t) /\ LocalsOf(t)
  BY Known
<1>2. todo[t] = "none" /\ loose' = loose
  BY DEF Unlinked, Then, list
<1>3. AtRest(t, c)
  BY <1>1, <1>2 DEF Agrees
<1>4. ASSUME \/ pc'[t] \notin {"acq_alloc", "acq_splice_lock", "acq_splice"}
             \/ (pc'[t] = "acq_splice" /\ pc[t] = "acq_splice_lock"),
             pc'[t] \in {"rel_reset", "rel_lock", "rel_push"} => other[t] # << >>,
             other'[t] = other[t], alloc'[t] = alloc[t], held'[t] = held[t]
      PROVE  AtRest(t, c)' /\ Releasing(t)'
  <2>1. AtRest(t, c)'
    BY <1>2, <1>3, <1>4 DEF AtRest
  <2>2. Releasing(t)'
    BY <1>4 DEF Releasing
  <2> QED BY <2>1, <2>2
<1>5. CASE Lock(t)
  <2>1. /\ other' = other /\ alloc' = alloc /\ held' = held /\ need' = need
        /\ m_stack' = m_stack /\ created' = created
        /\ \A u \in Thread \ {t} : pc'[u] = pc[u]
    BY <1>1, <1>5 DEF Lock, LockAt, Goto, TypeOK, shared, locals
  <2>2. /\ \/ pc'[t] \notin {"acq_alloc", "acq_splice_lock", "acq_splice"}
           \/ (pc'[t] = "acq_splice" /\ pc[t] = "acq_splice_lock")
        /\ pc'[t] \in {"rel_reset", "rel_lock", "rel_push"} => pc[t] = "rel_lock"
    BY <1>1, <1>5 DEF Lock, LockAt, Goto, TypeOK
  <2>3. pc[t] = "rel_lock" => other[t] # << >>
    BY <1>1 DEF Releasing
  <2> QED BY <1>4, <2>1, <2>2, <2>3 DEF SameCall
<1>6. CASE CallAcquireOne(t) \/ \E count \in Counts : CallAcquire(t, count)
  <2>1. /\ other' = other /\ alloc' = alloc /\ held' = held
        /\ m_stack' = m_stack /\ created' = created
        /\ pc'[t] \in {"one_lock", "acq_lock"}
        /\ \A u \in Thread \ {t} : pc'[u] = pc[u] /\ need'[u] = need[u]
    BY <1>1, <1>6 DEF CallAcquireOne, CallAcquire, Goto, TypeOK, shared
  <2> QED BY <1>4, <2>1 DEF SameCall
<1>7. CASE AcquireOneBadAlloc(t)
  <2>1. /\ other'[t] = << >> /\ alloc'[t] = alloc[t] /\ held'[t] = << >> \o held[t]
        /\ pc[t] = "one_alloc" /\ pc'[t] = "idle" /\ m_stack' = m_stack /\ created' = created
        /\ \A u \in Thread \ {t} : SameCall(u)
    BY <1>1, <1>7 DEF AcquireOneBadAlloc, Return, TypeOK, shared, SameCall
  <2>2. other[t] = << >> /\ held[t] \in Seq(Nat)
    BY <1>1, <2>1 DEF LocalsOf, TypeOK
  <2> QED BY <1>4, <2>1, <2>2, Nothing
<1>8. CASE AcquireOneThrows(t)
  <2>1. /\ other' = other /\ alloc' = alloc /\ held' = held
        /\ m_stack' = m_stack /\ created' = created
        /\ pc[t] = "one_construct" /\ pc'[t] = "rel_reset"
        /\ \A u \in Thread \ {t} : pc'[u] = pc[u] /\ need'[u] = need[u]
    BY <1>1, <1>8 DEF AcquireOneThrows, Goto, TypeOK, shared
  <2>2. Len(other[t]) = 1
    BY <1>1, <2>1 DEF LocalsOf
  <2>3. other[t] # << >>
    BY <2>2
  <2> QED BY <1>4, <2>1, <2>3 DEF SameCall
<1>9. CASE AcquireBadAlloc(t)
  <2>1. /\ other' = other /\ alloc' = alloc /\ held' = held
        /\ m_stack' = m_stack /\ created' = created
        /\ pc'[t] = IF other[t] = << >> THEN "idle" ELSE "rel_reset"
        /\ \A u \in Thread \ {t} : pc'[u] = pc[u] /\ need'[u] = need[u]
    BY <1>1, <1>9 DEF AcquireBadAlloc, TypeOK, shared
  <2> QED BY <1>4, <2>1 DEF SameCall
<1>10. CASE ReleaseReset(t)
  <2>1. /\ other' = other /\ alloc' = alloc /\ held' = held /\ need' = need
        /\ m_stack' = m_stack /\ created' = created
        /\ pc[t] = "rel_reset" /\ pc'[t] = "rel_lock"
        /\ \A u \in Thread \ {t} : pc'[u] = pc[u]
    BY <1>1, <1>10 DEF ReleaseReset, Goto, TypeOK, shared, locals
  <2>2. other[t] # << >>
    BY <1>1, <2>1 DEF Releasing
  <2> QED BY <1>4, <2>1, <2>2 DEF SameCall
<1>11. CASE Use(t)
  <2>1. /\ other' = other /\ alloc' = alloc /\ held' = held /\ need' = need
        /\ m_stack' = m_stack /\ created' = created /\ pc' = pc /\ pc[t] = "idle"
    BY <1>11 DEF Use, shared, locals
  <2> QED BY <1>4, <2>1 DEF SameCall
<1> QED BY <1>5, <1>6, <1>7, <1>8, <1>9, <1>10, <1>11 DEF Unlinked

\* Steps that do nothing to a stack.
LEMMA UnlinkedStep ==
  ASSUME NEW c, Sequences(c), PoolInv, NEW t \in Thread, Unlinked(t)
  PROVE  LinkedInv'
<1>1. /\ L!Exact(next, stack, loose, c) /\ c[PoolStack] = m_stack /\ todo \in [Thread -> Todo]
  BY Known
<1>2. /\ todo[t] = "none" /\ todo' = [todo EXCEPT ![t] = "none"] /\ "none" \in Todo
      /\ next' = next /\ stack' = stack /\ loose' = loose
  BY DEF Unlinked, Then, list, Todo
<1>3. todo'[t] = "none"
  BY <1>1, <1>2
<1>4. Agrees(t, c)'
  BY <1>3, UnlinkedAgrees DEF Agrees
<1>5. L!Exact(next', stack', loose', c) /\ c[PoolStack] = m_stack'
  BY <1>1, <1>2, UnlinkedAgrees
<1> QED BY <1>2, <1>4, <1>5, UnlinkedAgrees, KeepsOld

-----------------------------------------------------------------------------
(* The invariant, and what follows from it                                 *)

\* Before the first step all stacks are empty, and no node is in a stack.
LEMMA LinkedStart == LinkedInit => LinkedInv
<1> SUFFICES ASSUME LinkedInit PROVE LinkedInv
  OBVIOUS
<1> DEFINE c == [s \in Stk |-> << >>]
<1>1. Init /\ S!Init /\ todo = [t \in Thread |-> "none"]
  BY DEF LinkedInit
<1>2. L!Init
  BY <1>1, Zenon DEF S!Init, L!Init, S!Empty, L!Empty
<1>3. L!Exact(next, stack, loose, c)
  BY <1>2, L!InitExact, StackAssumptions DEF L!NodeAssumption, L!ValueAssumption
<1>4. \A s \in Stk : c[s] = << >>
  OBVIOUS
<1> HIDE DEF c
<1>5. loose = Node
  BY <1>2, Zenon DEF L!Init
<1>6. c[PoolStack] = m_stack
  BY <1>1, <1>4, StackNames DEF Init
<1>7. ASSUME NEW t \in Thread PROVE Agrees(t, c) /\ Releasing(t)
  <2>1. /\ todo[t] = "none" /\ pc[t] = "idle"
        /\ other[t] = << >> /\ alloc[t] = << >> /\ held[t] = << >>
    BY <1>1 DEF Init
  <2>2. /\ c[Held(t)] = << >> /\ c[Other(t)] = << >>
        /\ c[Alloc(t)] = << >> /\ c[Taken(t)] = << >>
    BY <1>4, StackNames
  <2>3. Len(other[t]) <= 1 /\ Range(other[t]) \subseteq loose
    BY <2>1 DEF Range
  <2>4. AtRest(t, c)
    BY <2>1, <2>2, <2>3 DEF AtRest
  <2> QED BY <2>1, <2>4 DEF Agrees, Releasing
<1>8. todo \in [Thread -> Todo] /\ FreshLoose
  BY <1>1, <1>5 DEF Todo, FreshLoose
<1>9. Sequences(c)
  BY <1>3, <1>6, <1>7, <1>8 DEF Sequences
<1> QED BY <1>9 DEF LinkedInv

\* Every step keeps the invariant.
LEMMA LinkedStep == PoolInv /\ LinkedInv /\ [LinkedNext]_linkedVars => LinkedInv'
<1> SUFFICES ASSUME PoolInv, LinkedInv, [LinkedNext]_linkedVars PROVE LinkedInv'
  OBVIOUS
<1>1. PICK c : Sequences(c)
  BY DEF LinkedInv
<1>2. ASSUME NEW t \in Thread, TakeNodes(t) PROVE LinkedInv'
  BY <1>1, <1>2, TakeAllStep, TakeSomeStep DEF TakeNodes
<1>3. ASSUME NEW t \in Thread, SpliceFresh(t) PROVE LinkedInv'
  BY <1>1, <1>3, SpliceOneStep, SpliceManyStep DEF SpliceFresh
<1>4. ASSUME NEW t \in Thread, PopToRelease(t) PROVE LinkedInv'
  BY <1>1, <1>4, PopOneToReleaseStep, PopSomeToReleaseStep DEF PopToRelease
<1>5. ASSUME NEW t \in Thread,
             \/ Unlinked(t) \/ PopOne(t) \/ AllocateOne(t) \/ Take(t) \/ ConstructOne(t)
             \/ Allocate(t) \/ Cut(t) \/ Join(t) \/ ReturnStack(t) \/ PushReleased(t)
             \/ \E u \in Thread : GiveStack(t, u)
      PROVE  LinkedInv'
  BY <1>1, <1>5, UnlinkedStep, PopOneStep, AllocateOneStep, TakeStep, ConstructOneStep,
     AllocateStep, CutStep, JoinStep, ReturnStackStep, PushReleasedStep, GiveTakenStep
<1>6. CASE UNCHANGED linkedVars
  <2>1. /\ UNCHANGED vars /\ todo' = todo
        /\ next' = next /\ stack' = stack /\ loose' = loose
    BY <1>6 DEF linkedVars, list
  <2>2. L!Exact(next', stack', loose', c) /\ c[PoolStack] = m_stack'
    BY <1>1, <2>1 DEF Sequences, vars, shared
  <2>3. todo' \in [Thread -> Todo] /\ FreshLoose'
    BY <1>1, <2>1 DEF Sequences, FreshLoose, vars, shared
  <2>4. ASSUME NEW u \in Thread PROVE SameThread(u) /\ SameStacks(u, c, c)
    BY <2>1, OnlyLists DEF SameThread, SameStacks
  <2> DEFINE W == {}
  <2>5. W \in SUBSET Thread /\ \A u \in W : Agrees(u, c)' /\ Releasing(u)'
    OBVIOUS
  <2>6. \A u \in Thread \ W : SameThread(u) /\ SameStacks(u, c, c)
    BY <2>4
  <2>7. \A n \in loose : n \in loose' \/ n >= created \/ \E u \in W : n \in Range(other[u])
    BY <2>1
  <2> HIDE DEF W
  <2> QED BY <1>1, <2>2, <2>3, <2>5, <2>6, <2>7, Keeps
<1> QED BY <1>2, <1>3, <1>4, <1>5, <1>6 DEF LinkedNext

\* Every step is a step of SplicePool, or one that SplicePool does not see.
LEMMA LinkedIsNext == [LinkedNext]_linkedVars => [Next]_vars
<1> SUFFICES ASSUME [LinkedNext]_linkedVars PROVE [Next]_vars
  OBVIOUS
<1>1. ASSUME NEW t \in Thread, Unlinked(t) PROVE Next
  BY <1>1 DEF Unlinked, Next, Step, Call, AcquireOneStep, AcquireStep
<1>2. ASSUME NEW t \in Thread,
             PopOne(t) \/ AllocateOne(t) \/ ConstructOne(t) \/ TakeNodes(t) \/ Allocate(t)
             \/ SpliceFresh(t) \/ PushReleased(t)
      PROVE  Next
  <2>1. \/ AcquireOnePop(t) \/ AcquireOneAllocate(t) \/ AcquireOneConstruct(t)
        \/ AcquireTakeAll(t) \/ AcquireTakeSome(t) \/ AcquireAllocate(t)
        \/ AcquireOneSplice(t) \/ AcquireSplice(t) \/ ReleasePush(t)
    BY <1>2 DEF PopOne, AllocateOne, ConstructOne, TakeNodes, Allocate, SpliceFresh, PushReleased
  <2> QED BY <2>1 DEF Next, Step, AcquireOneStep, AcquireStep
<1>3. ASSUME NEW t \in Thread, PopToRelease(t) \/ \E u \in Thread : GiveStack(t, u) PROVE Next
  <2>1. \/ CallReleaseOne(t) \/ \E count \in Counts : CallRelease(t, count)
        \/ \E u \in Thread : Give(t, u)
    BY <1>3 DEF PopToRelease, GiveStack
  <2> QED BY <2>1 DEF Next, Call
<1>4. ASSUME NEW t \in Thread, Take(t) \/ Cut(t) \/ Join(t) \/ ReturnStack(t)
      PROVE  UNCHANGED vars
  BY <1>4 DEF Take, Cut, Join, ReturnStack
<1>5. CASE UNCHANGED linkedVars
  BY <1>5 DEF linkedVars
<1> QED BY <1>1, <1>2, <1>3, <1>4, <1>5 DEF LinkedNext

\* The pool with its linked stacks is SplicePool: all that is proved of the one holds of
\* the other.
THEOREM LinkedIsPool == LinkedSpec => Spec
<1>1. LinkedInit => Init
  BY DEF LinkedInit
<1> QED BY <1>1, LinkedIsNext, PTL DEF LinkedSpec, Spec

\* The sequences of the stacks exist in every state.
LEMMA LinkedInvariant == LinkedSpec => []LinkedInv
<1>1. LinkedSpec => []PoolInv
  <2>1. Control /\ OnePlace /\ NoNodeLost => PoolInv
    BY DEF PoolInv
  <2> QED BY <2>1, LinkedIsPool, ControlInvariant, OnePlaceSafe, NoNodeLostSafe, PTL
<1> QED BY <1>1, LinkedStart, LinkedStep, PTL DEF LinkedSpec

\* The pool whose stacks are pointers keeps PoolSpec's promise to its clients.
THEOREM LinkedKeepsPromise == LinkedSpec => ImplementsPromise
BY LinkedIsPool, ImplementsPromiseSafe, PTL

\* The stacks are the sequences SplicePool takes them for.
THEOREM PoolRepresents == LinkedSpec => []Represents
<1>1. LinkedInv => Represents
  <2> SUFFICES ASSUME NEW c, Sequences(c) PROVE Represents
    BY DEF LinkedInv
  <2>1. L!Exact(next, stack, loose, c) /\ c[PoolStack] = m_stack
    BY DEF Sequences
  <2>2. \A s \in Stk : NodesOf(s) = c[s] /\ (S!IsEmpty(s) <=> c[s] = << >>)
    BY <2>1, L!ExactFacts, SameOperations, StackAssumptions
       DEF NodesOf, L!NodeAssumption, L!ValueAssumption
  <2>3. NodesOf(PoolStack) = m_stack
    BY <2>1, <2>2, StackNames
  <2>4. ASSUME NEW t \in Thread, todo[t] = "none"
        PROVE  /\ NodesOf(Held(t)) = held[t] /\ NodesOf(Alloc(t)) = alloc[t]
               /\ NodesOf(Taken(t)) = << >>
               /\ IF S!IsEmpty(Other(t)) THEN Len(other[t]) <= 1 /\ Range(other[t]) \subseteq loose
                                         ELSE NodesOf(Other(t)) = other[t]
    <3>1. AtRest(t, c)
      BY <2>4 DEF Sequences, Agrees
    <3>2. /\ Held(t) \in Stk /\ Other(t) \in Stk /\ Alloc(t) \in Stk /\ Taken(t) \in Stk
      BY StackNames
    <3> QED BY <2>2, <3>1, <3>2 DEF AtRest
  <2> QED BY <2>3, <2>4 DEF Represents
<1> QED BY <1>1, LinkedInvariant, PTL

\* No stack of the pool or of a call ever has a stale tail or a wrong size.
THEOREM PoolStacksExact == LinkedSpec => []StacksExact
<1>1. LinkedInv => StacksExact
  <2> SUFFICES ASSUME NEW c, Sequences(c) PROVE StacksExact
    BY DEF LinkedInv
  <2>1. L!TailsExact /\ L!SizeExact
    BY L!ExactFacts, StackAssumptions DEF Sequences, L!NodeAssumption, L!ValueAssumption
  <2>2. \A s \in Stk : S!NodesOf(s) = L!NodesOf(s)
    BY SameOperations
  <2>3. S!TailsExact
    BY <2>1, <2>2, Zenon DEF S!TailsExact, L!TailsExact, S!TailExact, L!TailExact
  <2>4. S!SizeExact
    BY <2>1, <2>2, SameCount, Zenon DEF S!SizeExact, L!SizeExact
  <2> QED BY <2>3, <2>4 DEF StacksExact
<1> QED BY <1>1, LinkedInvariant, PTL
=============================================================================
