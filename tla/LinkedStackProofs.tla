-------------------------- MODULE LinkedStackProofs --------------------------
(***************************************************************************)
(* Proofs about Stack<T> pointer by pointer: for any finite set of nodes,  *)
(* any stacks, values and counts, chains stay disjoint sequences without   *)
(* cycles, sizes are exact, no node is lost, the loop of the sorted push   *)
(* of a stack ends with a sorted merge and never trips its assertion, and  *)
(* every operation does to the sequences what StackSeq says.               *)
(*                                                                         *)
(* The inductive invariant is Linked: there is an injective sequence of    *)
(* nodes per stack, its links follow the sequence and end in nullptr, the  *)
(* size is its length, and every node is in one sequence or with the       *)
(* client.  Lemmas about sequences of nodes say what relinking does to     *)
(* them; a lemma per operation takes one representation to the next; and   *)
(* the loop of the merge has an invariant of its own, LoopAt.              *)
(***************************************************************************)
EXTENDS LinkedStack, FiniteSetTheorems, SequenceTheorems, WellFoundedInduction, TLAPS

-----------------------------------------------------------------------------
(* Natural numbers                                                         *)

\* A set of numbers that is not empty has a least member.
LEMMA LeastNat ==
  ASSUME NEW T, T \subseteq Nat, T # {}
  PROVE  \E m \in T : \A k \in T : m <= k
<1> DEFINE R == {ss \in Nat \X Nat : ss[1] < ss[2]}
<1>1. IsWellFoundedOn(R, Nat)
  BY NatLessThanWellFounded, Zenon DEF OpToRel
<1>2. PICK m \in T : \A k \in T : ~(<<k, m>> \in R)
  BY <1>1, WFMin, Zenon
<1>3. \A k \in T : ~(k < m)
  BY <1>2
<1> QED BY <1>3

\* Induction on the members of a set of numbers.
LEMMA Climb ==
  ASSUME NEW N \in Nat, NEW T, 0 \in T,
         \A k \in 0..(N - 1) : k \in T => k + 1 \in T
  PROVE  \A k \in 0..N : k \in T
<1> DEFINE F == {k \in 0..N : k \notin T}
<1> SUFFICES ASSUME F # {} PROVE FALSE
  OBVIOUS
<1>1. PICK m \in F : \A k \in F : m <= k
  <2>1. F \subseteq Nat
    OBVIOUS
  <2> QED BY <2>1, LeastNat, Zenon
<1>2. m - 1 \in 0..(N - 1) /\ m - 1 \notin F
  BY <1>1
<1> QED BY <1>1, <1>2

\* f is x, g[x], g[g[x]] and so on, up to n applications of g.
Iterates(f, n, S, x, g) ==
  /\ f \in [0..n -> S]
  /\ f = [k \in 0..n |-> IF k = 0 THEN x ELSE g[f[k - 1]]]

\* A function may be defined by its first value and the next value for each.
LEMMA Iteration ==
  ASSUME NEW N \in Nat, NEW S, NEW x \in S, NEW g \in [S -> S]
  PROVE  \E f : Iterates(f, N, S, x, g)
<1> DEFINE T == {n \in Nat :
                   \E f \in [0..n -> S] : f = [k \in 0..n |-> IF k = 0 THEN x ELSE g[f[k - 1]]]}
<1>1. 0 \in T
  <2> DEFINE f == [k \in 0..0 |-> x]
  <2>1. f \in [0..0 -> S]
    OBVIOUS
  <2>2. f = [k \in 0..0 |-> IF k = 0 THEN x ELSE g[f[k - 1]]]
    OBVIOUS
  <2> QED BY <2>1, <2>2
<1>2. ASSUME NEW n \in 0..(N - 1), n \in T
      PROVE  n + 1 \in T
  <2>1. PICK f \in [0..n -> S] : f = [k \in 0..n |-> IF k = 0 THEN x ELSE g[f[k - 1]]]
    BY <1>2
  <2> DEFINE h == [k \in 0..(n + 1) |-> IF k \in 0..n THEN f[k] ELSE g[f[n]]]
  <2>2. h \in [0..(n + 1) -> S]
    OBVIOUS
  <2>3. h = [k \in 0..(n + 1) |-> IF k = 0 THEN x ELSE g[h[k - 1]]]
    <3> SUFFICES ASSUME NEW k \in 0..(n + 1)
                 PROVE  h[k] = IF k = 0 THEN x ELSE g[h[k - 1]]
      OBVIOUS
    <3>1. CASE k = 0
      BY <2>1, <3>1
    <3>2. CASE k \in 1..n
      <4>1. h[k] = f[k] /\ h[k - 1] = f[k - 1]
        BY <3>2
      <4>2. f[k] = g[f[k - 1]]
        BY <2>1, <3>2
      <4> QED BY <3>2, <4>1, <4>2
    <3>3. CASE k = n + 1
      BY <3>3
    <3> QED BY <3>1, <3>2, <3>3
  <2> HIDE DEF h
  <2>4. \E f0 \in [0..(n + 1) -> S] :
          f0 = [k \in 0..(n + 1) |-> IF k = 0 THEN x ELSE g[f0[k - 1]]]
    BY <2>2, <2>3, Zenon
  <2>5. n + 1 \in Nat
    OBVIOUS
  <2> QED BY <2>4, <2>5, Zenon
<1> HIDE DEF T
<1>3. N \in T
  BY <1>1, <1>2, Climb
<1>4. PICK f \in [0..N -> S] : f = [k \in 0..N |-> IF k = 0 THEN x ELSE g[f[k - 1]]]
  BY <1>3 DEF T
<1>5. Iterates(f, N, S, x, g)
  BY <1>4, Zenon DEF Iterates
<1> QED BY <1>5

-----------------------------------------------------------------------------
(* Walks                                                                   *)

\* As many links as Walk follows, and rounds as Merge takes.
N == Cardinality(Node)

\* There are finitely many nodes: Walk takes one link for each.
LEMMA CountNodes == N \in Nat
BY NodeAssumption, FS_CardinalityType DEF N

\* The values of m_next.
Links == [Node -> Node \cup {Nil}]

\* The recursive function in Walk exists, and takes one link at a time.
LEMMA WalkSteps ==
  ASSUME NEW nxt \in Links, NEW h \in Node \cup {Nil}
  PROVE  Walk(nxt, h) = [k \in 0..N |->
           IF k = 0 THEN h
           ELSE IF Walk(nxt, h)[k - 1] = Nil THEN Nil ELSE nxt[Walk(nxt, h)[k - 1]]]
<1> DEFINE S == Node \cup {Nil}
           g == [n \in S |-> IF n = Nil THEN Nil ELSE nxt[n]]
           Steps(f) == f = [k \in 0..N |->
             IF k = 0 THEN h ELSE IF f[k - 1] = Nil THEN Nil ELSE nxt[f[k - 1]]]
<1>1. g \in [S -> S]
  BY NodeAssumption DEF Links
<1>6. PICK f : Iterates(f, N, S, h, g)
  <2> HIDE DEF g, S
  <2>1. h \in S
    BY DEF S
  <2> QED BY <1>1, <2>1, CountNodes, Iteration
<1>2. f \in [0..N -> S] /\ f = [k \in 0..N |-> IF k = 0 THEN h ELSE g[f[k - 1]]]
  BY <1>6, Zenon DEF Iterates
<1>3. Steps(f)
  <2> SUFFICES ASSUME NEW k \in 0..N
               PROVE  f[k] = IF k = 0 THEN h ELSE IF f[k - 1] = Nil THEN Nil ELSE nxt[f[k - 1]]
    BY <1>2
  <2>1. CASE k = 0
    BY <1>2, <2>1
  <2>2. CASE k # 0
    <3>1. k - 1 \in 0..N
      BY <2>2, CountNodes
    <3>2. f[k] = g[f[k - 1]] /\ f[k - 1] \in S
      BY <1>2, <2>2, <3>1
    <3> QED BY <2>2, <3>2
  <2> QED BY <2>1, <2>2
<1>4. Walk(nxt, h) = CHOOSE f0 : Steps(f0)
  BY Zenon DEF Walk, N
<1> HIDE DEF Steps
<1>5. Steps(Walk(nxt, h))
  BY <1>3, <1>4, Zenon
<1> QED BY <1>5 DEF Steps

-----------------------------------------------------------------------------
(* Lists                                                                   *)

\* The element at i, and Nil behind the last.
At(q, i) == IF i \in 1..Len(q) THEN q[i] ELSE Nil
\* Its elements.
Elems(q) == {q[i] : i \in 1..Len(q)}
\* No element twice.
Inj(q) == \A i, j \in 1..Len(q) : q[i] = q[j] => i = j
\* The sequences of nodes without repetition.
Seqs == {q \in Seq(Node) : Inj(q)}

\* From h on, the links of nxt lead through the nodes of q and end there.
IsList(nxt, h, q) ==
  /\ h = At(q, 1)
  /\ \A i \in 1..Len(q) : nxt[q[i]] = At(q, i + 1)

\* What it means to be a sequence of nodes without repetition.
LEMMA SeqsFacts ==
  ASSUME NEW q \in Seqs
  PROVE  /\ q \in Seq(Node) /\ Len(q) \in Nat /\ DOMAIN q = 1..Len(q)
         /\ \A i \in 1..Len(q) : q[i] \in Node /\ q[i] # Nil
         /\ \A i, j \in 1..Len(q) : q[i] = q[j] => i = j
BY NodeAssumption, LenProperties, ElementOfSeq DEF Seqs, Inj

\* The elements of a sequence of nodes are nodes.
LEMMA ElemsNodes ==
  ASSUME NEW q \in Seqs
  PROVE  Elems(q) \subseteq Node
BY SeqsFacts DEF Elems

\* A sequence without repetition is no longer than there are nodes.
LEMMA SeqsLen ==
  ASSUME NEW q \in Seqs
  PROVE  Len(q) <= N
<1>1. q \in [1..Len(q) -> Node] /\ Len(q) \in Nat
  BY LenProperties DEF Seqs
<1>2. q \in Injection(1..Len(q), Node)
  BY <1>1, SeqsFacts DEF Injection, IsInjective
<1>3. Cardinality(1..Len(q)) <= N
  BY <1>2, FS_Injection, NodeAssumption DEF N
<1>4. Cardinality(1..Len(q)) = Len(q)
  <2>1. 1 \in Int /\ Len(q) \in Int
    BY <1>1
  <2>2. Cardinality(1..Len(q)) = IF 1 > Len(q) THEN 0 ELSE Len(q) - 1 + 1
    BY <2>1, FS_Interval, Zenon
  <2> QED BY <1>1, <2>2
<1> QED BY <1>3, <1>4

\* Walking a list visits its elements, one after the other, and then stays at Nil.
LEMMA WalkList ==
  ASSUME NEW nxt \in Links, NEW h, NEW q \in Seqs, IsList(nxt, h, q)
  PROVE  /\ Len(q) <= N
         /\ DOMAIN Walk(nxt, h) = 0..N
         /\ \A k \in 0..N : Walk(nxt, h)[k] = At(q, k + 1)
<1>1. Len(q) <= N
  BY SeqsLen
<1>2. h \in Node \cup {Nil}
  BY SeqsFacts DEF IsList, At
<1> DEFINE w == Walk(nxt, h)
           T == {k \in 0..N : w[k] = At(q, k + 1)}
<1>3. w = [k \in 0..N |-> IF k = 0 THEN h ELSE IF w[k - 1] = Nil THEN Nil ELSE nxt[w[k - 1]]]
  BY <1>2, WalkSteps
<1> HIDE DEF w
<1>4. 0 \in T
  BY <1>3, CountNodes DEF IsList
<1>5. ASSUME NEW k \in 0..(N - 1), k \in T
      PROVE  k + 1 \in T
  <2>1. w[k + 1] = IF w[k] = Nil THEN Nil ELSE nxt[w[k]]
    <3>1. k + 1 \in 0..N /\ k + 1 # 0 /\ (k + 1) - 1 = k
      BY CountNodes
    <3> QED BY <1>3, <3>1
  <2>2. CASE k + 1 \in 1..Len(q)
    <3>1. w[k] = q[k + 1] /\ w[k] # Nil
      BY <1>5, <2>2, SeqsFacts DEF At
    <3>2. nxt[q[k + 1]] = At(q, (k + 1) + 1)
      BY <2>2 DEF IsList
    <3> QED BY <2>1, <3>1, <3>2, CountNodes
  <2>3. CASE k + 1 \notin 1..Len(q)
    <3>1. (k + 1) + 1 \notin 1..Len(q)
      BY <2>3, SeqsFacts
    <3> QED BY <1>5, <2>1, <2>3, <3>1, CountNodes DEF At
  <2> QED BY <2>2, <2>3
<1> HIDE DEF T
<1>6. \A k \in 0..N : k \in T
  BY <1>4, <1>5, CountNodes, Climb
<1>7. DOMAIN w = 0..N
  BY <1>3
<1> QED BY <1>1, <1>6, <1>7 DEF w, T

\* What an Iterator visits.
LEMMA ChainList ==
  ASSUME next \in Links, NEW h, NEW q \in Seqs, IsList(next, h, q)
  PROVE  Chain(h) = q
<1> DEFINE w == Walk(next, h)
           K == {k \in DOMAIN w : w[k] # Nil}
<1>1. /\ Len(q) <= N
      /\ DOMAIN w = 0..N
      /\ \A k \in 0..N : w[k] = At(q, k + 1)
  BY WalkList
<1> HIDE DEF w
<1>2. K = 0..(Len(q) - 1)
  BY <1>1, SeqsFacts, CountNodes DEF At
<1>3. Cardinality(K) = Len(q)
  <2>1. 0 \in Int /\ Len(q) - 1 \in Int /\ Len(q) \in Nat
    BY SeqsFacts
  <2>2. Cardinality(0..(Len(q) - 1)) = IF 0 > Len(q) - 1 THEN 0 ELSE (Len(q) - 1) - 0 + 1
    BY <2>1, FS_Interval, Zenon
  <2>3. Cardinality(0..(Len(q) - 1)) = Len(q)
    BY <2>1, <2>2
  <2> HIDE DEF K
  <2> QED BY <1>2, <2>3, Zenon
<1>4. Chain(h) = [i \in 1..Len(q) |-> w[i - 1]]
  BY <1>3 DEF Chain, w
<1>5. \A i \in 1..Len(q) : w[i - 1] = q[i]
  BY <1>1, SeqsFacts, CountNodes DEF At
<1>6. Chain(h) = [i \in 1..Len(q) |-> q[i]]
  BY <1>4, <1>5
<1> QED BY <1>6, SeqsFacts

\* The loop stops at the first node whose successor is not less than y, or at the end.
LEMMA AdvanceList ==
  ASSUME NEW nxt \in Links, NEW x, NEW q \in Seqs, IsList(nxt, x, q), q # << >>, NEW y
  PROVE  \E i \in 1..Len(q) :
           /\ Advance(nxt, x, y) = q[i]
           /\ i < Len(q) => ~Less(q[i + 1], y)
           /\ \A j \in 1..(i - 1) : Less(q[j + 1], y)
<1> DEFINE w == Walk(nxt, x)
           K == {k \in DOMAIN w : w[k] # Nil /\ (nxt[w[k]] = Nil \/ ~Less(nxt[w[k]], y))}
<1>1. /\ Len(q) <= N
      /\ DOMAIN w = 0..N
      /\ \A k \in 0..N : w[k] = At(q, k + 1)
  BY WalkList
<1>2. Advance(nxt, x, y) = w[CHOOSE k \in K : \A j \in K : k <= j]
  BY Zenon DEF Advance
<1> HIDE DEF w
<1>3. Len(q) \in Nat /\ Len(q) # 0
  BY SeqsFacts, EmptySeq
<1>4. \A k \in 0..(Len(q) - 1) : w[k] = q[k + 1] /\ nxt[w[k]] = At(q, k + 2) /\ k \in DOMAIN w /\ w[k] # Nil
  <2> SUFFICES ASSUME NEW k \in 0..(Len(q) - 1)
               PROVE  w[k] = q[k + 1] /\ nxt[w[k]] = At(q, k + 2) /\ k \in DOMAIN w /\ w[k] # Nil
    OBVIOUS
  <2>1. k \in 0..N /\ k + 1 \in 1..Len(q) /\ (k + 1) + 1 = k + 2
    BY <1>1, <1>3, CountNodes
  <2>2. w[k] = q[k + 1] /\ q[k + 1] # Nil
    BY <1>1, <2>1, SeqsFacts DEF At
  <2>3. nxt[q[k + 1]] = At(q, k + 2)
    BY <2>1 DEF IsList
  <2> QED BY <1>1, <2>1, <2>2, <2>3
<1>5. \A k \in K : k \in 0..(Len(q) - 1)
  BY <1>1, <1>3, CountNodes DEF At
<1>6. Len(q) - 1 \in K
  <2>1. At(q, (Len(q) - 1) + 2) = Nil
    BY <1>3 DEF At
  <2> QED BY <1>3, <1>4, <2>1
<1>7. K \subseteq Nat
  BY <1>5, <1>3
<1>8. PICK m \in K : m = (CHOOSE k \in K : \A j \in K : k <= j) /\ \A j \in K : m <= j
  <2> HIDE DEF K
  <2>1. \E k \in K : \A j \in K : k <= j
    BY <1>6, <1>7, LeastNat, Zenon
  <2> QED BY <2>1
<1>9. m \in 0..(Len(q) - 1)
  BY <1>5
<1>10. m + 1 \in 1..Len(q) /\ Advance(nxt, x, y) = q[m + 1]
  BY <1>2, <1>3, <1>4, <1>8, <1>9
<1>11. m + 1 < Len(q) => ~Less(q[(m + 1) + 1], y)
  <2> SUFFICES ASSUME m + 1 < Len(q) PROVE ~Less(q[m + 2], y)
    BY <1>3, <1>9
  <2>1. m + 2 \in 1..Len(q)
    BY <1>3, <1>9
  <2>2. nxt[w[m]] = q[m + 2] /\ q[m + 2] # Nil
    BY <1>4, <1>9, <2>1, SeqsFacts DEF At
  <2> QED BY <2>2
<1>12. ASSUME NEW j \in 1..((m + 1) - 1)
       PROVE  Less(q[j + 1], y)
  <2>1. j - 1 \in 0..(Len(q) - 1) /\ (j - 1) + 2 = j + 1 /\ j + 1 \in 1..Len(q) /\ ~(m <= j - 1)
    BY <1>3, <1>9
  <2>2. j - 1 \notin K
    BY <1>8, <2>1
  <2>3. j - 1 \in DOMAIN w /\ w[j - 1] # Nil /\ nxt[w[j - 1]] = q[j + 1] /\ q[j + 1] # Nil
    BY <1>4, <2>1, SeqsFacts DEF At
  <2> QED BY <2>2, <2>3
<1> QED BY <1>10, <1>11, <1>12

\* The tail of a stack that is the sequence q.
TailOf(q) == IF q = << >> THEN Nil ELSE q[Len(q)]

-----------------------------------------------------------------------------
(* Sequences of nodes, joined and cut                                      *)

\* Two sequences that share no node, one behind the other.
LEMMA Joined ==
  ASSUME NEW q \in Seqs, NEW r \in Seqs, Elems(q) \cap Elems(r) = {}
  PROVE  /\ q \o r \in Seqs
         /\ Len(q \o r) = Len(q) + Len(r)
         /\ \A i \in 1..Len(q) : (q \o r)[i] = q[i]
         /\ \A i \in 1..Len(r) : (q \o r)[Len(q) + i] = r[i]
         /\ Elems(q \o r) = Elems(q) \cup Elems(r)
<1>1. /\ q \o r \in Seq(Node)
      /\ Len(q \o r) = Len(q) + Len(r)
      /\ \A i \in 1..(Len(q) + Len(r)) : (q \o r)[i] = IF i <= Len(q) THEN q[i] ELSE r[i - Len(q)]
  BY ConcatProperties DEF Seqs
<1> DEFINE c == q \o r
<1> HIDE DEF c
<1>2. /\ c \in Seq(Node) /\ Len(c) = Len(q) + Len(r)
      /\ \A i \in 1..(Len(q) + Len(r)) : c[i] = IF i <= Len(q) THEN q[i] ELSE r[i - Len(q)]
  BY <1>1 DEF c
<1>3. Len(q) \in Nat /\ Len(r) \in Nat
  BY SeqsFacts
<1>4. \A i \in 1..Len(q) : c[i] = q[i]
  BY <1>2, <1>3
<1>5. \A i \in 1..Len(r) : c[Len(q) + i] = r[i]
  <2> SUFFICES ASSUME NEW i \in 1..Len(r) PROVE c[Len(q) + i] = r[i]
    OBVIOUS
  <2>1. Len(q) + i \in 1..(Len(q) + Len(r)) /\ ~(Len(q) + i <= Len(q)) /\ (Len(q) + i) - Len(q) = i
    BY <1>3
  <2> QED BY <1>2, <2>1
<1>6. \A i \in 1..Len(c) : i \in 1..Len(q) \/ \E k \in 1..Len(r) : i = Len(q) + k
  <2> SUFFICES ASSUME NEW i \in 1..Len(c), i \notin 1..Len(q)
               PROVE  \E k \in 1..Len(r) : i = Len(q) + k
    OBVIOUS
  <2>1. i - Len(q) \in 1..Len(r) /\ i = Len(q) + (i - Len(q))
    BY <1>2, <1>3
  <2> QED BY <2>1
<1>7. Elems(c) = Elems(q) \cup Elems(r)
  <2>1. ASSUME NEW n \in Elems(c) PROVE n \in Elems(q) \cup Elems(r)
    <3>1. PICK i \in 1..Len(c) : n = c[i]
      BY DEF Elems
    <3>2. CASE i \in 1..Len(q)
      BY <1>4, <3>1, <3>2 DEF Elems
    <3>3. CASE i \notin 1..Len(q)
      <4>1. PICK k \in 1..Len(r) : i = Len(q) + k
        BY <1>6, <3>3
      <4>2. n = r[k]
        BY <1>5, <3>1, <4>1
      <4> QED BY <4>2 DEF Elems
    <3> QED BY <3>2, <3>3
  <2>2. ASSUME NEW n \in Elems(q) PROVE n \in Elems(c)
    <3>1. PICK i \in 1..Len(q) : n = q[i]
      BY DEF Elems
    <3>2. i \in 1..Len(c)
      BY <1>2, <1>3
    <3> QED BY <3>1, <3>2, <1>4 DEF Elems
  <2>3. ASSUME NEW n \in Elems(r) PROVE n \in Elems(c)
    <3>1. PICK i \in 1..Len(r) : n = r[i]
      BY DEF Elems
    <3>2. Len(q) + i \in 1..Len(c)
      BY <1>2, <1>3
    <3> QED BY <3>1, <3>2, <1>5 DEF Elems
  <2> QED BY <2>1, <2>2, <2>3
<1>8. Inj(c)
  <2> SUFFICES ASSUME NEW i \in 1..Len(c), NEW j \in 1..Len(c), c[i] = c[j]
               PROVE  i = j
    BY DEF Inj
  <2>1. CASE i \in 1..Len(q) /\ j \in 1..Len(q)
    BY <2>1, <1>4, SeqsFacts
  <2>2. ASSUME NEW k \in 1..Len(r), NEW l \in 1..Len(r), i = Len(q) + k, j = Len(q) + l
        PROVE  i = j
    BY <2>2, <1>5, SeqsFacts
  <2>3. ASSUME NEW k \in 1..Len(r), i \in 1..Len(q), j = Len(q) + k
        PROVE  FALSE
    BY <2>3, <1>4, <1>5 DEF Elems
  <2>4. ASSUME NEW k \in 1..Len(r), j \in 1..Len(q), i = Len(q) + k
        PROVE  FALSE
    BY <2>4, <1>4, <1>5 DEF Elems
  <2> QED BY <1>6, <2>1, <2>2, <2>3, <2>4
<1> QED BY <1>2, <1>4, <1>5, <1>7, <1>8 DEF Seqs, c

\* Concatenation is associative.
LEMMA Thrice ==
  ASSUME NEW a \in Seq(Node), NEW b \in Seq(Node), NEW c \in Seq(Node)
  PROVE  (a \o b) \o c = a \o (b \o c)
BY ConcatAssociative

\* The sequence of one node.
LEMMA Single ==
  ASSUME NEW n \in Node
  PROVE  /\ <<n>> \in Seqs /\ Len(<<n>>) = 1 /\ <<n>>[1] = n /\ Elems(<<n>>) = {n}
         /\ << >> \in Seqs /\ Len(<< >>) = 0 /\ Elems(<< >>) = {}
<1>1. <<n>> \in Seq(Node) /\ Len(<<n>>) = 1 /\ <<n>>[1] = n
  OBVIOUS
<1>2. << >> \in Seq(Node) /\ Len(<< >>) = 0
  OBVIOUS
<1> QED BY <1>1, <1>2 DEF Seqs, Inj, Elems

\* p is the first k nodes of q, and r the others.
IsCut(q, k, p, r) ==
  /\ p \in Seqs /\ Len(p) = k /\ \A i \in 1..k : p[i] = q[i]
  /\ r \in Seqs /\ Len(r) = Len(q) - k /\ \A i \in 1..(Len(q) - k) : r[i] = q[k + i]
  /\ Elems(p) \cup Elems(r) = Elems(q) /\ Elems(p) \cap Elems(r) = {}
  /\ p \o r = q

\* A sequence can be cut behind any of its elements.
LEMMA Cutting ==
  ASSUME NEW q \in Seqs, NEW k \in 0..Len(q)
  PROVE  IsCut(q, k, SubSeq(q, 1, k), SubSeq(q, k + 1, Len(q)))
<1> DEFINE p == SubSeq(q, 1, k)
           r == SubSeq(q, k + 1, Len(q))
<1>1. Len(q) \in Nat /\ k \in Nat /\ \A i \in 1..Len(q) : q[i] \in Node
  BY SeqsFacts
<1>2. p \in Seq(Node) /\ Len(p) = k /\ \A i \in 1..k : p[i] = q[i]
  <2>1. \A i \in 1..k : q[i] \in Node
    BY <1>1
  <2>2. /\ p \in Seq(Node) /\ Len(p) = (IF 1 <= k THEN k - 1 + 1 ELSE 0)
        /\ \A i \in 1..(k - 1 + 1) : p[i] = q[1 + i - 1]
    BY <1>1, <2>1, SubSeqProperties
  <2> QED BY <1>1, <2>2
<1>3. r \in Seq(Node) /\ Len(r) = Len(q) - k /\ \A i \in 1..(Len(q) - k) : r[i] = q[k + i]
  <2>1. \A i \in (k + 1)..Len(q) : q[i] \in Node
    BY <1>1
  <2>2. /\ r \in Seq(Node) /\ Len(r) = (IF k + 1 <= Len(q) THEN Len(q) - (k + 1) + 1 ELSE 0)
        /\ \A i \in 1..(Len(q) - (k + 1) + 1) : r[i] = q[k + 1 + i - 1]
    BY <1>1, <2>1, SubSeqProperties
  <2> QED BY <1>1, <2>2
<1> HIDE DEF p, r
<1>4. Inj(p) /\ Inj(r)
  <2>1. ASSUME NEW i \in 1..Len(p), NEW j \in 1..Len(p), p[i] = p[j]
        PROVE  i = j
    <3>1. i \in 1..Len(q) /\ j \in 1..Len(q) /\ p[i] = q[i] /\ p[j] = q[j]
      BY <1>1, <1>2
    <3> QED BY <2>1, <3>1, SeqsFacts
  <2>2. ASSUME NEW i \in 1..Len(r), NEW j \in 1..Len(r), r[i] = r[j]
        PROVE  i = j
    <3>1. k + i \in 1..Len(q) /\ k + j \in 1..Len(q) /\ r[i] = q[k + i] /\ r[j] = q[k + j]
      BY <1>1, <1>3
    <3>2. k + i = k + j
      BY <2>2, <3>1, SeqsFacts
    <3>3. i \in Int /\ j \in Int
      BY <1>1, <1>3
    <3> QED BY <3>2, <3>3, <1>1
  <2> QED BY <2>1, <2>2 DEF Inj
<1>5. Elems(p) \cap Elems(r) = {}
  <2> SUFFICES ASSUME NEW i \in 1..k, NEW j \in 1..(Len(q) - k), p[i] = r[j]
               PROVE  FALSE
    BY <1>2, <1>3 DEF Elems
  <2>1. i \in 1..Len(q) /\ k + j \in 1..Len(q) /\ i # k + j
    BY <1>1
  <2>2. p[i] = q[i] /\ r[j] = q[k + j]
    BY <1>2, <1>3
  <2>3. q[i] = q[k + j]
    BY <2>2
  <2> QED BY <2>1, <2>3, SeqsFacts
<1>6. Elems(p) \cup Elems(r) = Elems(q)
  <2>1. ASSUME NEW n \in Elems(q) PROVE n \in Elems(p) \cup Elems(r)
    <3>1. PICK i \in 1..Len(q) : n = q[i]
      BY DEF Elems
    <3>2. CASE i \in 1..k
      BY <3>1, <3>2, <1>2 DEF Elems
    <3>3. CASE i \notin 1..k
      <4>1. i - k \in 1..(Len(q) - k) /\ k + (i - k) = i
        BY <3>3, <1>1
      <4> QED BY <3>1, <4>1, <1>3 DEF Elems
    <3> QED BY <3>2, <3>3
  <2>2. ASSUME NEW n \in Elems(p) PROVE n \in Elems(q)
    <3>1. PICK i \in 1..k : n = q[i]
      BY <1>2 DEF Elems
    <3>2. i \in 1..Len(q)
      BY <1>1
    <3> QED BY <3>1, <3>2 DEF Elems
  <2>3. ASSUME NEW n \in Elems(r) PROVE n \in Elems(q)
    <3>1. PICK i \in 1..(Len(q) - k) : n = q[k + i]
      BY <1>3 DEF Elems
    <3>2. k + i \in 1..Len(q)
      BY <1>1
    <3> QED BY <3>1, <3>2 DEF Elems
  <2> QED BY <2>1, <2>2, <2>3
<1>7. p \in Seqs /\ r \in Seqs
  BY <1>2, <1>3, <1>4 DEF Seqs
<1>8. p \o r = q
  <2>1. 1 \in 1..(Len(q) + 1) /\ k \in (1 - 1)..Len(q) /\ Len(q) \in k..Len(q) /\ q \in Seq(Node)
    BY <1>1, SeqsFacts
  <2>2. p \o r = SubSeq(q, 1, Len(q))
    BY <2>1, ConcatAdjacentSubSeq, Zenon DEF p, r
  <2> QED BY <2>1, <2>2, SubSeqFull
<1> QED BY <1>2, <1>3, <1>5, <1>6, <1>7, <1>8 DEF IsCut, p, r

-----------------------------------------------------------------------------
(* Paths: the links of nxt lead from h through the nodes of q to g.        *)

\* The same, with what follows the sequence given.
To(q, i, g) == IF i \in 1..Len(q) THEN q[i] ELSE g

\* The nodes of q, linked one to the next from h on, lead to g.
Path(nxt, h, q, g) ==
  /\ h = To(q, 1, g)
  /\ \A i \in 1..Len(q) : nxt[q[i]] = To(q, i + 1, g)

\* A list is a path that ends at Nil.
LEMMA ListIsPath ==
  ASSUME NEW nxt, NEW h, NEW q
  PROVE  IsList(nxt, h, q) <=> Path(nxt, h, q, Nil)
BY DEF IsList, Path, At, To

\* A path stays one when the links of other nodes change.
LEMMA PathFrame ==
  ASSUME NEW nxt, NEW nxt2, NEW h, NEW q, NEW g,
         Path(nxt, h, q, g), \A n \in Elems(q) : nxt2[n] = nxt[n]
  PROVE  Path(nxt2, h, q, g)
BY DEF Path, Elems

\* Linking the last node of a path elsewhere changes where it leads.
LEMMA PathRelink ==
  ASSUME NEW nxt, NEW nxt2, NEW h, NEW q \in Seqs, NEW g, NEW k,
         q # << >>, Path(nxt, h, q, g),
         \A n \in Elems(q) : n # q[Len(q)] => nxt2[n] = nxt[n],
         nxt2[q[Len(q)]] = k
  PROVE  Path(nxt2, h, q, k)
<1>1. Len(q) \in Nat /\ Len(q) # 0
  BY SeqsFacts, EmptySeq
<1>2. h = To(q, 1, k)
  BY <1>1 DEF Path, To
<1>3. ASSUME NEW i \in 1..Len(q)
      PROVE  nxt2[q[i]] = To(q, i + 1, k)
  <2>1. CASE i = Len(q)
    <3>1. i + 1 \notin 1..Len(q)
      BY <1>1, <2>1
    <3> QED BY <2>1, <3>1 DEF To
  <2>2. CASE i # Len(q)
    <3>1. i + 1 \in 1..Len(q) /\ Len(q) \in 1..Len(q)
      BY <1>1, <2>2
    <3>2. q[i] \in Elems(q) /\ q[i] # q[Len(q)]
      BY <2>2, <3>1, SeqsFacts DEF Elems
    <3> QED BY <3>1, <3>2 DEF Path, To
  <2> QED BY <2>1, <2>2
<1> QED BY <1>2, <1>3 DEF Path

\* Two paths are one, when the first leads to the second, and the other way round.
LEMMA PathJoined ==
  ASSUME NEW nxt, NEW h, NEW q \in Seqs, NEW r \in Seqs, Elems(q) \cap Elems(r) = {}, NEW g
  PROVE  Path(nxt, h, q \o r, g) <=> Path(nxt, h, q, To(r, 1, g)) /\ Path(nxt, To(r, 1, g), r, g)
<1> DEFINE c == q \o r
           k == To(r, 1, g)
<1>1. /\ Len(q) \in Nat /\ Len(r) \in Nat /\ Len(c) = Len(q) + Len(r)
      /\ \A i \in 1..Len(q) : c[i] = q[i]
      /\ \A i \in 1..Len(r) : c[Len(q) + i] = r[i]
  BY Joined, SeqsFacts
<1> HIDE DEF c
<1>2. \A i \in 1..(Len(q) + 1) : To(c, i, g) = To(q, i, k)
  <2> SUFFICES ASSUME NEW i \in 1..(Len(q) + 1) PROVE To(c, i, g) = To(q, i, k)
    OBVIOUS
  <2>1. CASE i \in 1..Len(q)
    <3>1. i \in 1..Len(c)
      BY <1>1, <2>1
    <3> QED BY <1>1, <2>1, <3>1 DEF To
  <2>2. CASE i = Len(q) + 1
    <3>1. i \notin 1..Len(q)
      BY <1>1, <2>2
    <3>2. i \in 1..Len(c) <=> 1 \in 1..Len(r)
      BY <1>1, <2>2
    <3>3. 1 \in 1..Len(r) => c[i] = r[1]
      BY <1>1, <2>2
    <3> QED BY <3>1, <3>2, <3>3 DEF To
  <2> QED BY <1>1, <2>1, <2>2
<1>3. \A i \in 1..(Len(r) + 1) : To(c, Len(q) + i, g) = To(r, i, g)
  <2> SUFFICES ASSUME NEW i \in 1..(Len(r) + 1) PROVE To(c, Len(q) + i, g) = To(r, i, g)
    OBVIOUS
  <2>1. Len(q) + i \in 1..Len(c) <=> i \in 1..Len(r)
    BY <1>1
  <2> QED BY <1>1, <2>1 DEF To
<1>4. h = To(c, 1, g) <=> h = To(q, 1, k)
  BY <1>1, <1>2
<1>5. (\A i \in 1..Len(c) : nxt[c[i]] = To(c, i + 1, g)) <=>
        /\ \A i \in 1..Len(q) : nxt[q[i]] = To(q, i + 1, k)
        /\ \A i \in 1..Len(r) : nxt[r[i]] = To(r, i + 1, g)
  <2>1. ASSUME \A i \in 1..Len(c) : nxt[c[i]] = To(c, i + 1, g)
        PROVE  /\ \A i \in 1..Len(q) : nxt[q[i]] = To(q, i + 1, k)
               /\ \A i \in 1..Len(r) : nxt[r[i]] = To(r, i + 1, g)
    <3>1. ASSUME NEW i \in 1..Len(q) PROVE nxt[q[i]] = To(q, i + 1, k)
      <4>1. i \in 1..Len(c) /\ i + 1 \in 1..(Len(q) + 1)
        BY <1>1
      <4> QED BY <1>1, <1>2, <2>1, <4>1
    <3>2. ASSUME NEW i \in 1..Len(r) PROVE nxt[r[i]] = To(r, i + 1, g)
      <4>1. Len(q) + i \in 1..Len(c) /\ i + 1 \in 1..(Len(r) + 1) /\ (Len(q) + i) + 1 = Len(q) + (i + 1)
        BY <1>1
      <4> QED BY <1>1, <1>3, <2>1, <4>1
    <3> QED BY <3>1, <3>2
  <2>2. ASSUME \A i \in 1..Len(q) : nxt[q[i]] = To(q, i + 1, k),
               \A i \in 1..Len(r) : nxt[r[i]] = To(r, i + 1, g),
               NEW i \in 1..Len(c)
        PROVE  nxt[c[i]] = To(c, i + 1, g)
    <3>1. CASE i \in 1..Len(q)
      <4>1. i + 1 \in 1..(Len(q) + 1)
        BY <1>1, <3>1
      <4> QED BY <1>1, <1>2, <2>2, <3>1, <4>1
    <3>2. CASE i \notin 1..Len(q)
      <4>1. PICK j \in 1..Len(r) : i = Len(q) + j
        <5>1. i - Len(q) \in 1..Len(r) /\ i = Len(q) + (i - Len(q))
          BY <1>1, <3>2
        <5> QED BY <5>1
      <4>2. j + 1 \in 1..(Len(r) + 1) /\ i + 1 = Len(q) + (j + 1)
        BY <1>1, <4>1
      <4> QED BY <1>1, <1>3, <2>2, <4>1, <4>2
    <3> QED BY <3>1, <3>2
  <2> QED BY <2>1, <2>2
<1>6. k = To(r, 1, g)
  OBVIOUS
<1> HIDE DEF k
<1>7. Path(nxt, h, c, g) <=> Path(nxt, h, q, k) /\ Path(nxt, k, r, g)
  BY <1>4, <1>5, <1>6 DEF Path
<1> QED BY <1>7 DEF c, k

\* The first node of a path, and nothing if it has none.
LEMMA PathFrom ==
  ASSUME NEW nxt, NEW h, NEW q \in Seqs, NEW g, Path(nxt, h, q, g)
  PROVE  /\ q = << >> => h = g
         /\ q # << >> => h = q[1] /\ h \in Elems(q) /\ q[Len(q)] \in Elems(q) /\ Len(q) \in 1..Len(q)
<1>1. Len(q) \in Nat /\ (q # << >> => Len(q) # 0)
  BY SeqsFacts, EmptySeq
<1>2. Len(<< >>) = 0
  OBVIOUS
<1>3. q # << >> => 1 \in 1..Len(q) /\ Len(q) \in 1..Len(q)
  BY <1>1
<1> QED BY <1>1, <1>2, <1>3 DEF Path, To, Elems

\* The last node of a path links to where the path leads.
LEMMA PathLast ==
  ASSUME NEW nxt, NEW h, NEW q \in Seqs, NEW g, q # << >>, Path(nxt, h, q, g)
  PROVE  nxt[q[Len(q)]] = g
<1>1. Len(q) \in 1..Len(q) /\ Len(q) + 1 \notin 1..Len(q)
  BY SeqsFacts, EmptySeq
<1> QED BY <1>1 DEF Path, To

\* Lists linked one behind the other.
LEMMA LinkLists ==
  ASSUME NEW nxt \in Links, NEW h, NEW g, NEW q \in Seqs, NEW r \in Seqs,
         q # << >>, Elems(q) \cap Elems(r) = {},
         Path(nxt, h, q, Nil), Path(nxt, g, r, Nil)
  PROVE  Path([nxt EXCEPT ![q[Len(q)]] = g], h, q \o r, Nil)
<1> DEFINE nxt2 == [nxt EXCEPT ![q[Len(q)]] = g]
<1>1. q[Len(q)] \in Elems(q) /\ q[Len(q)] \in Node
  BY PathFrom, SeqsFacts
<1>2. nxt2[q[Len(q)]] = g /\ \A n \in Node : n # q[Len(q)] => nxt2[n] = nxt[n]
  BY <1>1 DEF Links
<1>3. Elems(q) \subseteq Node /\ Elems(r) \subseteq Node
  BY SeqsFacts DEF Elems
<1> HIDE DEF nxt2
<1>4. Path(nxt2, h, q, g)
  BY <1>1, <1>2, <1>3, PathRelink
<1>5. Path(nxt2, g, r, Nil)
  BY <1>1, <1>2, <1>3, PathFrame
<1>6. g = To(r, 1, Nil)
  BY DEF Path
<1> QED BY <1>4, <1>5, <1>6, PathJoined DEF nxt2

\* A front part of one list is linked in the middle of another.
LEMMA MoveFront ==
  ASSUME NEW nxt \in Links, NEW h, NEW b,
         NEW u \in Seqs, NEW v \in Seqs, NEW x \in Seqs, NEW y \in Seqs,
         u # << >>, x # << >>,
         Elems(u) \cap Elems(v) = {}, Elems(x) \cap Elems(y) = {},
         (Elems(u) \cup Elems(v)) \cap (Elems(x) \cup Elems(y)) = {},
         Path(nxt, h, u \o v, Nil), Path(nxt, b, x \o y, Nil)
  PROVE  LET nxt2 == [nxt EXCEPT ![u[Len(u)]] = b, ![x[Len(x)]] = nxt[u[Len(u)]]]
         IN /\ Path(nxt2, h, (u \o x) \o v, Nil)
            /\ Path(nxt2, nxt[x[Len(x)]], y, Nil)
            /\ nxt[u[Len(u)]] = To(v, 1, Nil) /\ nxt[x[Len(x)]] = To(y, 1, Nil)
<1> DEFINE a == nxt[u[Len(u)]]
           nxt2 == [nxt EXCEPT ![u[Len(u)]] = b, ![x[Len(x)]] = a]
<1>1. /\ Path(nxt, h, u, To(v, 1, Nil)) /\ Path(nxt, To(v, 1, Nil), v, Nil)
      /\ Path(nxt, b, x, To(y, 1, Nil)) /\ Path(nxt, To(y, 1, Nil), y, Nil)
  BY PathJoined
<1>2. nxt[u[Len(u)]] = To(v, 1, Nil) /\ nxt[x[Len(x)]] = To(y, 1, Nil)
  BY <1>1, PathLast
<1>3. u[Len(u)] \in Elems(u) /\ x[Len(x)] \in Elems(x) /\ b = x[1]
  BY <1>1, PathFrom
<1>4. /\ Elems(u) \subseteq Node /\ Elems(v) \subseteq Node
      /\ Elems(x) \subseteq Node /\ Elems(y) \subseteq Node
  BY SeqsFacts DEF Elems
<1>5. /\ nxt2[u[Len(u)]] = b /\ nxt2[x[Len(x)]] = a
      /\ \A n \in Node : n # u[Len(u)] /\ n # x[Len(x)] => nxt2[n] = nxt[n]
  BY <1>3, <1>4 DEF Links
<1> HIDE DEF nxt2, a
<1>6. Path(nxt2, h, u, b)
  BY <1>1, <1>3, <1>4, <1>5, PathRelink
<1>7. Path(nxt2, b, x, a)
  BY <1>1, <1>3, <1>4, <1>5, PathRelink
<1>8. Path(nxt2, To(v, 1, Nil), v, Nil)
  <2>1. \A n \in Elems(v) : nxt2[n] = nxt[n]
    BY <1>3, <1>4, <1>5
  <2> QED BY <1>1, <2>1, PathFrame
<1>9. Path(nxt2, To(y, 1, Nil), y, Nil)
  <2>1. \A n \in Elems(y) : nxt2[n] = nxt[n]
    BY <1>3, <1>4, <1>5
  <2> QED BY <1>1, <2>1, PathFrame
<1>10. Path(nxt2, h, u \o x, a)
  <2>1. b = To(x, 1, a) /\ Elems(u) \cap Elems(x) = {}
    BY <1>7 DEF Path
  <2> QED BY <1>6, <1>7, <2>1, PathJoined
<1>11. u \o x \in Seqs /\ Elems(u \o x) = Elems(u) \cup Elems(x)
  BY Joined
<1>12. Path(nxt2, h, (u \o x) \o v, Nil)
  <2>1. a = To(v, 1, Nil) /\ Elems(u \o x) \cap Elems(v) = {}
    BY <1>2, <1>11 DEF a
  <2> QED BY <1>8, <1>10, <1>11, <2>1, PathJoined
<1> QED BY <1>2, <1>9, <1>12 DEF nxt2, a

-----------------------------------------------------------------------------
(* Stacks as sequences                                                     *)

\* The fields of the stacks.
Stacks == [Stk -> [head : Node \cup {Nil}, tail : Node \cup {Nil}, size : Nat]]

\* The stacks stk, linked by nxt, are the sequences c, and with the nodes lse they
\* hold every node once.
Represented(nxt, stk, lse, c) ==
  /\ nxt \in Links /\ stk \in Stacks /\ lse \subseteq Node /\ c \in [Stk -> Seqs]
  /\ \A s \in Stk : Path(nxt, stk[s].head, c[s], Nil) /\ stk[s].size = Len(c[s])
  /\ \A s, o \in Stk : s # o => Elems(c[s]) \cap Elems(c[o]) = {}
  /\ \A s \in Stk : Elems(c[s]) \cap lse = {}
  /\ \A n \in Node : n \in lse \/ \E s \in Stk : n \in Elems(c[s])

\* One stack changes, and exchanges nodes with the client.
LEMMA OneChanges ==
  ASSUME NEW c, Represented(next, stack, loose, c),
         next' \in Links, stack' \in Stacks, loose' \in SUBSET Node,
         NEW s \in Stk, NEW q \in Seqs,
         \A x \in Stk : x # s => stack'[x] = stack[x],
         Path(next', stack'[s].head, q, Nil), stack'[s].size = Len(q),
         \A n \in Node : n \notin Elems(c[s]) \cup loose => next'[n] = next[n],
         Elems(q) \cup loose' = Elems(c[s]) \cup loose, Elems(q) \cap loose' = {}
  PROVE  Represented(next', stack', loose', [c EXCEPT ![s] = q])
<1> DEFINE d == [c EXCEPT ![s] = q]
<1>1. d \in [Stk -> Seqs] /\ d[s] = q /\ \A x \in Stk : x # s => d[x] = c[x]
  BY DEF Represented
<1> HIDE DEF d
<1>2. \A x \in Stk : Elems(c[x]) \subseteq Node
  BY SeqsFacts DEF Represented, Elems
<1>3. \A x \in Stk : Path(next', stack'[x].head, d[x], Nil) /\ stack'[x].size = Len(d[x])
  <2> SUFFICES ASSUME NEW x \in Stk, x # s
               PROVE  Path(next', stack'[x].head, d[x], Nil) /\ stack'[x].size = Len(d[x])
    BY <1>1
  <2>1. \A n \in Elems(c[x]) : next'[n] = next[n]
    BY <1>2 DEF Represented
  <2>2. Path(next, stack[x].head, c[x], Nil) /\ stack[x].size = Len(c[x])
    BY DEF Represented
  <2> QED BY <1>1, <2>1, <2>2, PathFrame
<1>4. \A x, y \in Stk : x # y => Elems(d[x]) \cap Elems(d[y]) = {}
  <2>1. \A x \in Stk : x # s => Elems(c[x]) \cap Elems(q) = {}
    BY DEF Represented
  <2> QED BY <1>1, <2>1 DEF Represented
<1>5. \A x \in Stk : Elems(d[x]) \cap loose' = {}
  BY <1>1 DEF Represented
<1>6. \A n \in Node : n \in loose' \/ \E x \in Stk : n \in Elems(d[x])
  BY <1>1 DEF Represented
<1>7. Represented(next', stack', loose', d)
  BY <1>1, <1>3, <1>4, <1>5, <1>6 DEF Represented
<1> QED BY <1>7 DEF d

\* Two stacks change, and exchange nodes with one another.
LEMMA TwoChange ==
  ASSUME NEW c, Represented(next, stack, loose, c),
         next' \in Links, stack' \in Stacks, loose' = loose,
         NEW s \in Stk, NEW o \in Stk, s # o, NEW q \in Seqs, NEW r \in Seqs,
         \A x \in Stk : x # s /\ x # o => stack'[x] = stack[x],
         Path(next', stack'[s].head, q, Nil), stack'[s].size = Len(q),
         Path(next', stack'[o].head, r, Nil), stack'[o].size = Len(r),
         \A n \in Node : n \notin Elems(c[s]) \cup Elems(c[o]) => next'[n] = next[n],
         Elems(q) \cup Elems(r) = Elems(c[s]) \cup Elems(c[o]), Elems(q) \cap Elems(r) = {}
  PROVE  Represented(next', stack', loose', [c EXCEPT ![s] = q, ![o] = r])
<1> DEFINE d == [c EXCEPT ![s] = q, ![o] = r]
<1>1. /\ d \in [Stk -> Seqs] /\ d[s] = q /\ d[o] = r
      /\ \A x \in Stk : x # s /\ x # o => d[x] = c[x]
  BY DEF Represented
<1> HIDE DEF d
<1>2. \A x \in Stk : Elems(c[x]) \subseteq Node
  BY SeqsFacts DEF Represented, Elems
<1>3. \A x \in Stk : Path(next', stack'[x].head, d[x], Nil) /\ stack'[x].size = Len(d[x])
  <2> SUFFICES ASSUME NEW x \in Stk, x # s, x # o
               PROVE  Path(next', stack'[x].head, d[x], Nil) /\ stack'[x].size = Len(d[x])
    BY <1>1
  <2>1. \A n \in Elems(c[x]) : next'[n] = next[n]
    BY <1>2 DEF Represented
  <2>2. Path(next, stack[x].head, c[x], Nil) /\ stack[x].size = Len(c[x])
    BY DEF Represented
  <2> QED BY <1>1, <2>1, <2>2, PathFrame
<1>4. \A x, y \in Stk : x # y => Elems(d[x]) \cap Elems(d[y]) = {}
  <2>1. \A x \in Stk : x # s /\ x # o => Elems(c[x]) \cap (Elems(q) \cup Elems(r)) = {}
    BY DEF Represented
  <2> QED BY <1>1, <2>1 DEF Represented
<1>5. \A x \in Stk : Elems(d[x]) \cap loose = {}
  <2>1. (Elems(q) \cup Elems(r)) \cap loose = {}
    BY DEF Represented
  <2> QED BY <1>1, <2>1 DEF Represented
<1>6. \A n \in Node : n \in loose \/ \E x \in Stk : n \in Elems(d[x])
  <2> SUFFICES ASSUME NEW n \in Node, n \notin loose PROVE \E x \in Stk : n \in Elems(d[x])
    OBVIOUS
  <2>1. PICK x \in Stk : n \in Elems(c[x])
    BY DEF Represented
  <2>2. CASE x = s \/ x = o
    BY <1>1, <2>1, <2>2
  <2>3. CASE x # s /\ x # o
    BY <1>1, <2>1, <2>3
  <2> QED BY <2>2, <2>3
<1>7. Represented(next', stack', loose', d)
  BY <1>1, <1>3, <1>4, <1>5, <1>6 DEF Represented
<1> QED BY <1>7 DEF d

\* What a representation says of one stack.
LEMMA RepresentedFacts ==
  ASSUME NEW c, Represented(next, stack, loose, c), NEW s \in Stk
  PROVE  /\ c[s] \in Seqs /\ Elems(c[s]) \subseteq Node /\ Elems(c[s]) \cap loose = {}
         /\ stack[s].head \in Node \cup {Nil} /\ stack[s].tail \in Node \cup {Nil}
         /\ stack[s].size = Len(c[s]) /\ Len(c[s]) \in Nat
         /\ stack[s].head = Nil <=> c[s] = << >>
         /\ Len(c[s]) = 0 <=> c[s] = << >>
         /\ c[s] # << >> => /\ stack[s].head = c[s][1] /\ stack[s].head \in Elems(c[s])
                            /\ c[s][Len(c[s])] \in Elems(c[s]) /\ Len(c[s]) \in 1..Len(c[s])
<1>1. c[s] \in Seqs /\ stack[s] \in [head : Node \cup {Nil}, tail : Node \cup {Nil}, size : Nat]
  BY DEF Represented, Stacks
<1>2. Elems(c[s]) \subseteq Node /\ Len(c[s]) \in Nat
  BY <1>1, SeqsFacts DEF Elems
<1>3. Path(next, stack[s].head, c[s], Nil)
  BY DEF Represented
<1>4. /\ c[s] = << >> => stack[s].head = Nil
      /\ c[s] # << >> => /\ stack[s].head = c[s][1] /\ stack[s].head \in Elems(c[s])
                         /\ c[s][Len(c[s])] \in Elems(c[s]) /\ Len(c[s]) \in 1..Len(c[s])
  BY <1>1, <1>3, PathFrom
<1>5. stack[s].head = Nil <=> c[s] = << >>
  BY <1>2, <1>4, NodeAssumption
<1>6. Len(c[s]) = 0 <=> c[s] = << >>
  BY <1>1, EmptySeq DEF Seqs
<1> QED BY <1>1, <1>2, <1>4, <1>5, <1>6 DEF Represented

\* The sequence that represents a stack is the one an Iterator visits.
LEMMA NodesOfRepresented ==
  ASSUME NEW c, Represented(next, stack, loose, c), NEW s \in Stk
  PROVE  /\ NodesOf(s) = c[s]
         /\ IsEmpty(s) <=> c[s] = << >>
         /\ TailExact(s) <=> stack[s].tail = IF c[s] = << >> THEN Nil ELSE c[s][Len(c[s])]
         /\ sortedBy(s) <=> \A i \in 1..(Len(c[s]) - 1) : ~Less(c[s][i + 1], c[s][i])
<1>1. next \in Links /\ c[s] \in Seqs /\ Path(next, stack[s].head, c[s], Nil)
  BY DEF Represented
<1>2. NodesOf(s) = c[s]
  BY <1>1, ListIsPath, ChainList DEF NodesOf
<1>3. IsEmpty(s) <=> c[s] = << >>
  BY RepresentedFacts DEF IsEmpty
<1>4. TailExact(s) <=> stack[s].tail = IF c[s] = << >> THEN Nil ELSE c[s][Len(c[s])]
  BY <1>2, Zenon DEF TailExact
<1>5. sortedBy(s) <=> \A i \in 1..(Len(c[s]) - 1) : ~Less(c[s][i + 1], c[s][i])
  BY <1>2, Zenon DEF sortedBy
<1> QED BY <1>2, <1>3, <1>4, <1>5

\* Nothing changes when no variable does.
LEMMA SameRepresented ==
  ASSUME NEW c, Represented(next, stack, loose, c), UNCHANGED vars
  PROVE  Represented(next', stack', loose', c)
<1>1. next' = next /\ stack' = stack /\ loose' = loose
  BY DEF vars
<1> QED BY <1>1

\* Stack::push(Node*) puts the node in front.
LEMMA PushFrontStep ==
  ASSUME NEW c, Represented(next, stack, loose, c), NEW s \in Stk, NEW n \in loose,
         PushFront(s, n), loose' = loose \ {n}
  PROVE  Represented(next', stack', loose', [c EXCEPT ![s] = <<n>> \o c[s]])
<1> DEFINE q == <<n>> \o c[s]
<1>1. n \in Node /\ n \notin Elems(c[s]) /\ c[s] \in Seqs
  BY RepresentedFacts DEF Represented
<1>2. /\ q \in Seqs /\ Len(q) = 1 + Len(c[s]) /\ Elems(q) = {n} \cup Elems(c[s])
      /\ <<n>> \in Seqs /\ Elems(<<n>>) = {n} /\ Len(<<n>>) = 1 /\ <<n>>[1] = n
  BY <1>1, Joined, Single
<1>3. next \in Links /\ stack \in Stacks /\ loose \in SUBSET Node
  BY DEF Represented
<1>4. next' = [next EXCEPT ![n] = stack[s].head]
  BY DEF PushFront
<1>5. next' \in Links /\ next'[n] = stack[s].head /\ \A m \in Node : m # n => next'[m] = next[m]
  BY <1>1, <1>3, <1>4, RepresentedFacts DEF Links
<1>6. Path(next', n, q, Nil)
  <2>1. Path(next, stack[s].head, c[s], Nil)
    BY DEF Represented
  <2>2. Path(next', stack[s].head, c[s], Nil)
    <3>1. \A m \in Elems(c[s]) : next'[m] = next[m]
      BY <1>1, <1>5, RepresentedFacts
    <3> QED BY <2>1, <3>1, PathFrame
  <2>4. stack[s].head = To(c[s], 1, Nil)
    BY <2>1 DEF Path
  <2>3. Path(next', n, <<n>>, stack[s].head)
    BY <1>2, <1>5 DEF Path, To
  <2> QED BY <1>1, <1>2, <2>2, <2>3, <2>4, PathJoined
<1>7. /\ stack' \in Stacks /\ stack'[s].head = n /\ stack'[s].size = stack[s].size + 1
      /\ \A x \in Stk : x # s => stack'[x] = stack[x]
  BY <1>1, <1>3, RepresentedFacts DEF PushFront, Stacks
<1> HIDE DEF q
<1>8. stack'[s].size = Len(q)
  <2>1. stack[s].size = Len(c[s]) /\ Len(c[s]) \in Nat
    BY RepresentedFacts
  <2> QED BY <1>2, <1>7, <2>1
<1>9. Elems(q) \cup loose' = Elems(c[s]) \cup loose /\ Elems(q) \cap loose' = {}
  BY <1>2, RepresentedFacts
<1>10. \A m \in Node : m \notin Elems(c[s]) \cup loose => next'[m] = next[m]
  BY <1>5
<1>11. loose' \in SUBSET Node
  BY <1>3
<1>12. Represented(next', stack', loose', [c EXCEPT ![s] = q])
  BY <1>2, <1>5, <1>6, <1>7, <1>8, <1>9, <1>10, <1>11, OneChanges
<1> QED BY <1>12 DEF q

\* Stack::pop gives the first node to the client.
LEMMA PopStep ==
  ASSUME NEW c, Represented(next, stack, loose, c), NEW s \in Stk, Pop(s)
  PROVE  /\ c[s] # << >>
         /\ loose' = loose \cup {c[s][1]}
         /\ Represented(next', stack', loose', [c EXCEPT ![s] = Tail(c[s])])
<1> DEFINE p == SubSeq(c[s], 1, 1)
           q == Tail(c[s])
<1>1. c[s] # << >> /\ c[s] \in Seqs /\ Len(c[s]) \in Nat /\ Len(c[s]) # 0
  BY RepresentedFacts DEF Pop, IsEmpty
<1>2. loose' = loose \cup {c[s][1]} /\ next' = next
  BY <1>1, RepresentedFacts DEF Pop
<1>3. q = SubSeq(c[s], 1 + 1, Len(c[s]))
  BY <1>1, TailIsSubSeq DEF Seqs
<1>4. /\ p \in Seqs /\ Len(p) = 1 /\ p[1] = c[s][1]
      /\ q \in Seqs /\ Len(q) = Len(c[s]) - 1
      /\ Elems(p) \cup Elems(q) = Elems(c[s]) /\ Elems(p) \cap Elems(q) = {}
      /\ p \o q = c[s]
  <2>1. 1 \in 0..Len(c[s]) /\ c[s] \in Seqs
    BY <1>1
  <2>2. IsCut(c[s], 1, p, q)
    BY <1>3, <2>1, Cutting
  <2> HIDE DEF p, q
  <2> QED BY <2>2 DEF IsCut
<1>5. Elems(p) = {c[s][1]}
  BY <1>4 DEF Elems
<1> HIDE DEF p, q
<1>6. next[stack[s].head] = To(q, 1, Nil) /\ Path(next, To(q, 1, Nil), q, Nil)
  <2>1. Path(next, stack[s].head, p \o q, Nil)
    BY <1>4 DEF Represented
  <2>2. Path(next, stack[s].head, p, To(q, 1, Nil)) /\ Path(next, To(q, 1, Nil), q, Nil)
    BY <1>4, <2>1, PathJoined
  <2>3. p # << >>
    BY <1>4, EmptySeq
  <2>4. next[p[Len(p)]] = To(q, 1, Nil)
    BY <1>4, <2>2, <2>3, PathLast
  <2> QED BY <1>1, <1>4, <2>2, <2>4, RepresentedFacts
<1>7. /\ stack' \in Stacks /\ stack'[s].head = next[stack[s].head] /\ stack'[s].size = stack[s].size - 1
      /\ \A x \in Stk : x # s => stack'[x] = stack[x]
  <2>1. stack[s].head \in Node /\ next[stack[s].head] \in Node \cup {Nil}
    BY <1>1, RepresentedFacts DEF Represented, Links
  <2>2. stack[s].size - 1 \in Nat /\ PoppedTail(s) \in Node \cup {Nil}
    BY <1>1, RepresentedFacts DEF PoppedTail
  <2> QED BY <2>1, <2>2 DEF Pop, Stacks, Represented
<1>8. stack'[s].size = Len(q)
  BY <1>4, <1>7, RepresentedFacts
<1>9. Elems(q) \cup loose' = Elems(c[s]) \cup loose /\ Elems(q) \cap loose' = {}
  BY <1>2, <1>4, <1>5, RepresentedFacts
<1>10. loose' \in SUBSET Node /\ next' \in Links
  BY <1>2, <1>4, <1>5, RepresentedFacts DEF Represented
<1>11. Path(next', stack'[s].head, q, Nil)
  BY <1>2, <1>6, <1>7
<1>12. \A n \in Node : n \notin Elems(c[s]) \cup loose => next'[n] = next[n]
  BY <1>2
<1>13. Represented(next', stack', loose', [c EXCEPT ![s] = q])
  BY <1>4, <1>7, <1>8, <1>9, <1>10, <1>11, <1>12, OneChanges
<1> QED BY <1>1, <1>2, <1>13 DEF q

\* Stack::swap exchanges the sequences.
LEMMA ExchangeStep ==
  ASSUME NEW c, Represented(next, stack, loose, c), NEW s \in Stk, NEW o \in Stk, s # o,
         Exchange(s, o), next' = next, loose' = loose
  PROVE  Represented(next', stack', loose', [c EXCEPT ![s] = c[o], ![o] = c[s]])
<1>1. /\ stack' \in Stacks /\ stack'[s] = stack[o] /\ stack'[o] = stack[s]
      /\ \A x \in Stk : x # s /\ x # o => stack'[x] = stack[x]
  BY DEF Exchange, Represented, Stacks
<1>2. next' \in Links /\ c[s] \in Seqs /\ c[o] \in Seqs
  BY DEF Represented
<1>3. /\ Path(next', stack'[s].head, c[o], Nil) /\ stack'[s].size = Len(c[o])
      /\ Path(next', stack'[o].head, c[s], Nil) /\ stack'[o].size = Len(c[s])
  BY <1>1 DEF Represented
<1>4. Elems(c[o]) \cap Elems(c[s]) = {} /\ Elems(c[o]) \cup Elems(c[s]) = Elems(c[s]) \cup Elems(c[o])
  BY DEF Represented
<1>5. Represented(next', stack', loose', [c EXCEPT ![s] = c[o], ![o] = c[s]])
  BY <1>1, <1>2, <1>3, <1>4, TwoChange
<1> QED BY <1>5

\* An empty path is where it leads.
LEMMA EmptyList ==
  ASSUME NEW nxt
  PROVE  /\ << >> \in Seqs /\ Len(<< >>) = 0 /\ Elems(<< >>) = {}
         /\ Path(nxt, Nil, << >>, Nil)
<1>1. << >> \in Seq(Node) /\ Len(<< >>) = 0
  OBVIOUS
<1> QED BY <1>1 DEF Seqs, Inj, Elems, Path, To

\* Stack::pushBack(Node*) puts the node behind, if m_tail is the last one.
LEMMA PushBackStep ==
  ASSUME NEW c, Represented(next, stack, loose, c), NEW s \in Stk, NEW n, PushBack(s, n), TailExact(s)
  PROVE  Represented(next', stack', loose', [c EXCEPT ![s] = c[s] \o <<n>>])
<1> DEFINE q == c[s] \o <<n>>
           base == [next EXCEPT ![n] = Nil]
<1>1. n \in loose /\ n \in Node /\ n \notin Elems(c[s]) /\ c[s] \in Seqs /\ loose' = loose \ {n}
  BY RepresentedFacts DEF Represented, PushBack
<1>2. /\ q \in Seqs /\ Len(q) = Len(c[s]) + 1 /\ Elems(q) = Elems(c[s]) \cup {n}
      /\ <<n>> \in Seqs /\ Elems(<<n>>) = {n} /\ Len(<<n>>) = 1 /\ <<n>>[1] = n
  BY <1>1, Joined, Single
<1>3. next \in Links /\ stack \in Stacks /\ loose \in SUBSET Node
  BY DEF Represented
<1>4. base \in Links /\ base[n] = Nil /\ \A m \in Node : m # n => base[m] = next[m]
  BY <1>1, <1>3 DEF Links
<1> HIDE DEF base
<1>5. Path(base, n, <<n>>, Nil)
  BY <1>2, <1>4 DEF Path, To
<1>6. Path(base, stack[s].head, c[s], Nil)
  <2>1. Path(next, stack[s].head, c[s], Nil)
    BY DEF Represented
  <2>2. \A m \in Elems(c[s]) : base[m] = next[m]
    BY <1>1, <1>4, RepresentedFacts
  <2> QED BY <2>1, <2>2, PathFrame
<1>7. /\ next' \in Links /\ stack' \in Stacks
      /\ Path(next', stack'[s].head, q, Nil) /\ stack'[s].size = stack[s].size + 1
      /\ \A x \in Stk : x # s => stack'[x] = stack[x]
      /\ \A m \in Node : m \notin Elems(c[s]) \cup loose => next'[m] = next[m]
  <2>1. CASE c[s] = << >>
    <3>1. /\ next' = base
          /\ stack' = [stack EXCEPT ![s] = [head |-> n, tail |-> n, size |-> @.size + 1]]
      BY <2>1, NodesOfRepresented DEF PushBack, base
    <3>2. q = <<n>>
      BY <1>2, <2>1, ConcatEmptySeq DEF Seqs
    <3>3. stack' \in Stacks /\ stack'[s].head = n /\ stack'[s].size = stack[s].size + 1
      BY <1>1, <1>3, <3>1, RepresentedFacts DEF Stacks
    <3>4. \A x \in Stk : x # s => stack'[x] = stack[x]
      BY <1>3, <3>1 DEF Stacks
    <3>5. Path(next', stack'[s].head, q, Nil)
      BY <1>5, <3>1, <3>2, <3>3
    <3>6. \A m \in Node : m \notin Elems(c[s]) \cup loose => next'[m] = next[m]
      BY <1>1, <1>4, <3>1
    <3> QED BY <1>4, <3>1, <3>3, <3>4, <3>5, <3>6
  <2>2. CASE c[s] # << >>
    <3> DEFINE last == c[s][Len(c[s])]
    <3>1. stack[s].tail = last /\ last \in Elems(c[s]) /\ last \in Node /\ last # n
      BY <1>1, <2>2, NodesOfRepresented, RepresentedFacts
    <3>2. next' = [base EXCEPT ![last] = n]
      <4>1. next' = [next EXCEPT ![n] = Nil, ![last] = n]
        BY <2>2, <3>1, NodesOfRepresented DEF PushBack
      <4> QED BY <1>1, <1>3, <3>1, <4>1 DEF Links, base
    <3>3. stack' = [stack EXCEPT ![s] = [head |-> @.head, tail |-> n, size |-> @.size + 1]]
      BY <2>2, NodesOfRepresented DEF PushBack
    <3> HIDE DEF last
    <3>4. /\ stack' \in Stacks /\ stack'[s].head = stack[s].head /\ stack'[s].size = stack[s].size + 1
          /\ \A x \in Stk : x # s => stack'[x] = stack[x]
      <4> DEFINE rec == [head |-> stack[s].head, tail |-> n, size |-> stack[s].size + 1]
      <4>1. stack[s].head \in Node \cup {Nil} /\ stack[s].size + 1 \in Nat
        BY RepresentedFacts
      <4>2. /\ rec \in [head : Node \cup {Nil}, tail : Node \cup {Nil}, size : Nat]
            /\ rec.head = stack[s].head /\ rec.size = stack[s].size + 1
        BY <1>1, <4>1
      <4>3. stack' = [stack EXCEPT ![s] = rec]
        BY <3>3, <1>3 DEF Stacks
      <4> HIDE DEF rec
      <4> QED BY <1>3, <4>2, <4>3 DEF Stacks
    <3>5. Path(next', stack[s].head, q, Nil)
      <4>1. Elems(c[s]) \cap Elems(<<n>>) = {}
        BY <1>1, <1>2
      <4> QED BY <1>1, <1>2, <1>4, <1>5, <1>6, <2>2, <3>2, <4>1, LinkLists DEF last
    <3>6. next' \in Links
      BY <1>1, <1>4, <3>1, <3>2 DEF Links
    <3>7. \A m \in Node : m \notin Elems(c[s]) \cup loose => next'[m] = next[m]
      BY <1>1, <1>4, <3>1, <3>2 DEF Links
    <3> QED BY <3>4, <3>5, <3>6, <3>7
  <2> QED BY <2>1, <2>2
<1> HIDE DEF q
<1>8. stack'[s].size = Len(q)
  BY <1>2, <1>7, RepresentedFacts
<1>9. Elems(q) \cup loose' = Elems(c[s]) \cup loose /\ Elems(q) \cap loose' = {}
  BY <1>1, <1>2, RepresentedFacts
<1>10. loose' \in SUBSET Node
  BY <1>1, <1>3
<1>11. Represented(next', stack', loose', [c EXCEPT ![s] = q])
  BY <1>2, <1>7, <1>8, <1>9, <1>10, OneChanges
<1> QED BY <1>11 DEF q

\* Stack::push(Stack&) puts the other stack in front, if its m_tail is its last node.
LEMMA SpliceFrontStep ==
  ASSUME NEW c, Represented(next, stack, loose, c), NEW s \in Stk, NEW o \in Stk, s # o,
         SpliceFront(s, o), loose' = loose, TailExact(o)
  PROVE  Represented(next', stack', loose', [c EXCEPT ![s] = c[o] \o c[s], ![o] = << >>])
<1> DEFINE q == c[o] \o c[s]
<1>1. c[s] \in Seqs /\ c[o] \in Seqs /\ Elems(c[o]) \cap Elems(c[s]) = {}
  BY DEF Represented
<1>2. q \in Seqs /\ Len(q) = Len(c[o]) + Len(c[s]) /\ Elems(q) = Elems(c[o]) \cup Elems(c[s])
  BY <1>1, Joined
<1>3. next \in Links /\ stack \in Stacks
  BY DEF Represented
<1>4. CASE c[o] = << >>
  <2>1. next' = next /\ stack' = stack
    BY <1>4, NodesOfRepresented DEF SpliceFront
  <2>2. q = c[s]
    BY <1>1, <1>4, ConcatEmptySeq DEF Seqs
  <2> HIDE DEF q
  <2>3. [c EXCEPT ![s] = q, ![o] = << >>] = c
    BY <1>4, <2>2 DEF Represented
  <2> QED BY <2>1, <2>3 DEF q
<1>5. CASE c[o] # << >>
  <2> DEFINE last == c[o][Len(c[o])]
  <2>1. stack[o].tail = last /\ last \in Elems(c[o]) /\ last \in Node
    BY <1>5, NodesOfRepresented, RepresentedFacts
  <2>2. /\ next' = [next EXCEPT ![last] = stack[s].head]
        /\ stack' = [stack EXCEPT
            ![s] = [head |-> stack[o].head,
                    tail |-> IF @.size = 0 THEN stack[o].tail ELSE @.tail,
                    size |-> SplicedSize(s, o)],
            ![o] = Empty]
    BY <1>5, <2>1, NodesOfRepresented DEF SpliceFront
  <2>3. Len(c[o]) \in Nat /\ Len(c[s]) \in Nat /\ stack[s].size = Len(c[s]) /\ stack[o].size = Len(c[o])
    BY RepresentedFacts
  <2>4. SplicedSize(s, o) = Len(c[o]) + Len(c[s])
    <3>1. \A i, j \in Nat : i + 1 + (j - 1) = j + i
      OBVIOUS
    <3> QED BY <2>3, <3>1 DEF SplicedSize
  <2>5. /\ stack[s].head \in Node \cup {Nil} /\ stack[s].tail \in Node \cup {Nil}
        /\ stack[o].head \in Node \cup {Nil} /\ stack[o].tail \in Node \cup {Nil}
    BY RepresentedFacts
  <2>6. /\ stack' \in Stacks
        /\ stack'[s].head = stack[o].head /\ stack'[s].size = Len(c[o]) + Len(c[s])
        /\ stack'[o].head = Nil /\ stack'[o].size = 0
        /\ \A x \in Stk : x # s /\ x # o => stack'[x] = stack[x]
    <3> DEFINE rec == [head |-> stack[o].head,
                       tail |-> IF stack[s].size = 0 THEN stack[o].tail ELSE stack[s].tail,
                       size |-> SplicedSize(s, o)]
    <3>1. SplicedSize(s, o) \in Nat
      <4>1. \A i, j \in Nat : j + i \in Nat
        OBVIOUS
      <4> QED BY <2>3, <2>4, <4>1
    <3>2. /\ rec \in [head : Node \cup {Nil}, tail : Node \cup {Nil}, size : Nat]
          /\ rec.head = stack[o].head /\ rec.size = Len(c[o]) + Len(c[s])
      BY <2>4, <2>5, <3>1
    <3>3. /\ Empty \in [head : Node \cup {Nil}, tail : Node \cup {Nil}, size : Nat]
          /\ Empty.head = Nil /\ Empty.size = 0
      BY DEF Empty
    <3>4. stack' = [stack EXCEPT ![s] = rec, ![o] = Empty]
      BY <1>3, <2>2 DEF Stacks
    <3> HIDE DEF rec
    <3> QED BY <1>3, <3>2, <3>3, <3>4 DEF Stacks
  <2>7. Path(next', stack[o].head, q, Nil)
    <3>1. Path(next, stack[o].head, c[o], Nil) /\ Path(next, stack[s].head, c[s], Nil)
      BY DEF Represented
    <3> QED BY <1>1, <1>3, <1>5, <2>2, <3>1, LinkLists
  <2>8. next' \in Links /\ \A m \in Node : m \notin Elems(c[s]) \cup Elems(c[o]) => next'[m] = next[m]
    BY <1>3, <2>1, <2>2, <2>5 DEF Links
  <2> HIDE DEF q
  <2>9. Path(next', stack'[s].head, q, Nil) /\ stack'[s].size = Len(q)
    BY <1>2, <2>6, <2>7
  <2>10. << >> \in Seqs /\ Path(next', stack'[o].head, << >>, Nil) /\ stack'[o].size = Len(<< >>)
    BY <2>6, EmptyList
  <2>11. Elems(q) \cup Elems(<< >>) = Elems(c[s]) \cup Elems(c[o]) /\ Elems(q) \cap Elems(<< >>) = {}
    BY <1>2, EmptyList
  <2>12. Represented(next', stack', loose', [c EXCEPT ![s] = q, ![o] = << >>])
    BY <1>2, <2>6, <2>8, <2>9, <2>10, <2>11, TwoChange
  <2> QED BY <2>12 DEF q
<1> QED BY <1>4, <1>5

\* Stack::pushBack(Stack&) puts the other stack behind, if m_tail is the last node.
LEMMA PushBackStackStep ==
  ASSUME NEW c, Represented(next, stack, loose, c), NEW s \in Stk, NEW o \in Stk,
         PushBackStack(s, o), TailExact(s), TailExact(o)
  PROVE  Represented(next', stack', loose', [c EXCEPT ![s] = c[s] \o c[o], ![o] = << >>])
<1>1. s # o /\ c[s] \in Seqs /\ c[o] \in Seqs /\ Elems(c[s]) \cap Elems(c[o]) = {} /\ loose' = loose
  BY DEF Represented, PushBackStack
<1>2. CASE c[s] = << >>
  <2>1. SpliceFront(s, o)
    BY <1>2, NodesOfRepresented DEF PushBackStack
  <2>2. Represented(next', stack', loose', [c EXCEPT ![s] = c[o] \o c[s], ![o] = << >>])
    BY <1>1, <2>1, SpliceFrontStep
  <2>3. c[o] \o c[s] = c[s] \o c[o]
    BY <1>1, <1>2, ConcatEmptySeq DEF Seqs
  <2> QED BY <2>2, <2>3
<1>3. CASE c[s] # << >>
  <2> DEFINE q == c[s] \o c[o]
             last == c[s][Len(c[s])]
  <2>1. q \in Seqs /\ Len(q) = Len(c[s]) + Len(c[o]) /\ Elems(q) = Elems(c[s]) \cup Elems(c[o])
    BY <1>1, Joined
  <2>2. stack[s].tail = last /\ last \in Elems(c[s]) /\ last \in Node
    BY <1>3, NodesOfRepresented, RepresentedFacts
  <2>3. next \in Links /\ stack \in Stacks
    BY DEF Represented
  <2>4. /\ next' = [next EXCEPT ![last] = stack[o].head]
        /\ stack' = [stack EXCEPT
             ![s] = [head |-> @.head, tail |-> stack[o].tail, size |-> @.size + stack[o].size],
             ![o] = Empty]
    BY <1>3, <2>2, NodesOfRepresented DEF PushBackStack, LinkBehind
  <2>5. Len(c[o]) \in Nat /\ Len(c[s]) \in Nat /\ stack[s].size = Len(c[s]) /\ stack[o].size = Len(c[o])
    BY RepresentedFacts
  <2>6. /\ stack[s].head \in Node \cup {Nil}
        /\ stack[o].head \in Node \cup {Nil} /\ stack[o].tail \in Node \cup {Nil}
    BY RepresentedFacts
  <2>7. /\ stack' \in Stacks
        /\ stack'[s].head = stack[s].head /\ stack'[s].size = Len(c[s]) + Len(c[o])
        /\ stack'[o].head = Nil /\ stack'[o].size = 0
        /\ \A x \in Stk : x # s /\ x # o => stack'[x] = stack[x]
    <3> DEFINE rec == [head |-> stack[s].head, tail |-> stack[o].tail,
                       size |-> stack[s].size + stack[o].size]
    <3>1. stack[s].size + stack[o].size = Len(c[s]) + Len(c[o]) /\ Len(c[s]) + Len(c[o]) \in Nat
      <4>1. \A i, j \in Nat : i + j \in Nat
        OBVIOUS
      <4> QED BY <2>5, <4>1
    <3>2. /\ rec \in [head : Node \cup {Nil}, tail : Node \cup {Nil}, size : Nat]
          /\ rec.head = stack[s].head /\ rec.size = Len(c[s]) + Len(c[o])
      BY <2>6, <3>1
    <3>3. /\ Empty \in [head : Node \cup {Nil}, tail : Node \cup {Nil}, size : Nat]
          /\ Empty.head = Nil /\ Empty.size = 0
      BY DEF Empty
    <3>4. stack' = [stack EXCEPT ![s] = rec, ![o] = Empty]
      BY <2>3, <2>4 DEF Stacks
    <3> HIDE DEF rec
    <3> QED BY <1>1, <2>3, <3>2, <3>3, <3>4 DEF Stacks
  <2>8. Path(next', stack[s].head, q, Nil)
    <3>1. Path(next, stack[s].head, c[s], Nil) /\ Path(next, stack[o].head, c[o], Nil)
      BY DEF Represented
    <3> QED BY <1>1, <1>3, <2>3, <2>4, <3>1, LinkLists
  <2>9. next' \in Links /\ \A m \in Node : m \notin Elems(c[s]) \cup Elems(c[o]) => next'[m] = next[m]
    BY <2>2, <2>3, <2>4, <2>6 DEF Links
  <2> HIDE DEF q
  <2>10. Path(next', stack'[s].head, q, Nil) /\ stack'[s].size = Len(q)
    BY <2>1, <2>7, <2>8
  <2>11. << >> \in Seqs /\ Path(next', stack'[o].head, << >>, Nil) /\ stack'[o].size = Len(<< >>)
    BY <2>7, EmptyList
  <2>12. Elems(q) \cup Elems(<< >>) = Elems(c[s]) \cup Elems(c[o]) /\ Elems(q) \cap Elems(<< >>) = {}
    BY <2>1, EmptyList
  <2>13. Represented(next', stack', loose', [c EXCEPT ![s] = q, ![o] = << >>])
    BY <1>1, <2>1, <2>7, <2>9, <2>10, <2>11, <2>12, TwoChange
  <2> QED BY <2>13 DEF q
<1> QED BY <1>2, <1>3

\* Stacks s and o before and after the first k nodes of s go to o.
SplitAt(s, o, c, k) ==
  /\ k \in 0..Len(c[s])
  /\ Represented(next', stack', loose',
                 [c EXCEPT ![o] = SubSeq(c[s], 1, k), ![s] = SubSeq(c[s], k + 1, Len(c[s]))])
  /\ \A x \in Stk : x # s /\ x # o => stack'[x] = stack[x]
  /\ stack[s].tail = TailOf(c[s]) /\ stack[o].tail = Nil =>
       /\ stack'[o].tail = TailOf(SubSeq(c[s], 1, k))
       /\ stack'[s].tail = TailOf(SubSeq(c[s], k + 1, Len(c[s])))

\* Stack::popStack gives the other stack the first count nodes, or all there are.
LEMMA PopStackStep ==
  ASSUME NEW c, Represented(next, stack, loose, c), NEW s \in Stk, NEW o \in Stk,
         NEW count \in Nat, PopStack(s, o, count)
  PROVE  /\ s # o /\ c[o] = << >> /\ loose' = loose
         /\ SplitAt(s, o, c, IF count >= Len(c[s]) THEN Len(c[s]) ELSE count)
<1>1. s # o /\ c[s] \in Seqs /\ c[o] \in Seqs /\ Elems(c[s]) \cap Elems(c[o]) = {} /\ loose' = loose
  BY DEF Represented, PopStack
<1>2. c[o] = << >>
  <2>1. stack[o].head = Nil
    BY DEF PopStack, Empty
  <2> QED BY <2>1, RepresentedFacts
<1>3. Len(c[s]) \in Nat /\ stack[s].size = Len(c[s])
  BY RepresentedFacts
<1>4. next \in Links /\ stack \in Stacks
  BY DEF Represented
<1>5. CASE count >= stack[s].size
  <2>1. Exchange(s, o) /\ next' = next
    BY <1>5 DEF PopStack
  <2>2. Represented(next', stack', loose', [c EXCEPT ![s] = c[o], ![o] = c[s]])
    BY <1>1, <2>1, ExchangeStep
  <2>3. SubSeq(c[s], 1, Len(c[s])) = c[s] /\ SubSeq(c[s], Len(c[s]) + 1, Len(c[s])) = c[o]
    <3>1. IsCut(c[s], Len(c[s]), SubSeq(c[s], 1, Len(c[s])), SubSeq(c[s], Len(c[s]) + 1, Len(c[s])))
      <4>1. Len(c[s]) \in 0..Len(c[s])
        BY <1>3
      <4> QED BY <1>1, <4>1, Cutting
    <3>2. Len(SubSeq(c[s], Len(c[s]) + 1, Len(c[s]))) = 0 /\ SubSeq(c[s], Len(c[s]) + 1, Len(c[s])) \in Seqs
      BY <1>3, <3>1 DEF IsCut
    <3>3. SubSeq(c[s], Len(c[s]) + 1, Len(c[s])) = << >>
      BY <3>2, EmptySeq DEF Seqs
    <3> QED BY <1>1, <1>2, <3>3, SubSeqFull DEF Seqs
  <2>4. [c EXCEPT ![s] = c[o], ![o] = c[s]] = [c EXCEPT ![o] = c[s], ![s] = c[o]]
    BY <1>1 DEF Represented
  <2>5. Len(c[s]) \in 0..Len(c[s])
    BY <1>3
  <2>6. /\ stack'[s] = stack[o] /\ stack'[o] = stack[s]
        /\ \A x \in Stk : x # s /\ x # o => stack'[x] = stack[x]
    BY <1>1, <1>4, <2>1 DEF Exchange, Stacks
  <2>7. TailOf(c[o]) = Nil
    BY <1>2 DEF TailOf
  <2>8. SplitAt(s, o, c, Len(c[s]))
    BY <1>2, <2>2, <2>3, <2>4, <2>5, <2>6, <2>7 DEF SplitAt
  <2> QED BY <1>1, <1>2, <1>3, <1>5, <2>8
<1>6. CASE ~(count >= stack[s].size) /\ count = 0
  <2>1. next' = next /\ stack' = stack
    BY <1>6 DEF PopStack
  <2>2. SubSeq(c[s], 1, 0) = << >> /\ SubSeq(c[s], 0 + 1, Len(c[s])) = c[s]
    <3>1. IsCut(c[s], 0, SubSeq(c[s], 1, 0), SubSeq(c[s], 0 + 1, Len(c[s])))
      <4>1. 0 \in 0..Len(c[s])
        BY <1>3
      <4> QED BY <1>1, <4>1, Cutting
    <3>2. SubSeq(c[s], 1, 0) = << >>
      BY <3>1, EmptySeq DEF IsCut, Seqs
    <3> QED BY <1>1, <3>2, SubSeqFull DEF Seqs
  <2>3. [c EXCEPT ![o] = << >>, ![s] = c[s]] = c
    BY <1>2 DEF Represented
  <2>4. 0 \in 0..Len(c[s])
    BY <1>3
  <2>5. TailOf(<< >>) = Nil
    BY DEF TailOf
  <2>6. SplitAt(s, o, c, 0)
    BY <1>1, <2>1, <2>2, <2>3, <2>4, <2>5 DEF SplitAt
  <2> QED BY <1>1, <1>2, <1>3, <1>6, <2>6
<1>7. CASE ~(count >= stack[s].size) /\ count # 0
  <2> DEFINE p == SubSeq(c[s], 1, count)
             r == SubSeq(c[s], count + 1, Len(c[s]))
             last == c[s][count]
  <2>1. count \in 0..Len(c[s]) /\ count \in 1..Len(c[s]) /\ c[s] # << >>
    BY <1>3, <1>7
  <2>2. /\ p \in Seqs /\ Len(p) = count /\ \A i \in 1..count : p[i] = c[s][i]
        /\ r \in Seqs /\ Len(r) = Len(c[s]) - count
        /\ \A i \in 1..(Len(c[s]) - count) : r[i] = c[s][count + i]
        /\ Elems(p) \cup Elems(r) = Elems(c[s]) /\ Elems(p) \cap Elems(r) = {}
        /\ p \o r = c[s]
    <3>1. IsCut(c[s], count, p, r)
      BY <1>1, <2>1, Cutting
    <3> HIDE DEF p, r
    <3> QED BY <3>1 DEF IsCut
  <2> HIDE DEF p, r
  <2>3. Path(next, stack[s].head, c[s], Nil)
    BY DEF Represented
  <2>4. Walk(next, stack[s].head)[count - 1] = last
    <3>1. IsList(next, stack[s].head, c[s])
      BY <2>3, ListIsPath
    <3>2. count - 1 \in 0..N /\ (count - 1) + 1 = count
      BY <1>1, <1>3, <2>1, SeqsLen, CountNodes
    <3>3. Walk(next, stack[s].head)[count - 1] = At(c[s], (count - 1) + 1)
      BY <1>1, <1>4, <3>1, <3>2, WalkList
    <3> QED BY <2>1, <3>2, <3>3 DEF At
  <2>5. last \in Node /\ last = p[Len(p)] /\ last \in Elems(p) /\ p # << >>
    <3>1. Len(p) \in 1..Len(p)
      BY <2>1, <2>2
    <3> QED BY <1>1, <2>1, <2>2, <3>1, SeqsFacts DEF Elems
  <2>6. /\ next' = [next EXCEPT ![last] = Nil]
        /\ stack' = [stack EXCEPT
             ![o] = [head |-> stack[s].head, tail |-> last, size |-> count],
             ![s] = [head |-> next[last], tail |-> @.tail, size |-> @.size - count]]
    BY <1>7, <2>1, <2>4, NodesOfRepresented DEF PopStack, Cut
  <2>7. /\ next' \in Links /\ next'[last] = Nil
        /\ \A m \in Node : m # last => next'[m] = next[m]
    BY <1>4, <2>5, <2>6 DEF Links
  <2>8. /\ Path(next, stack[s].head, p, To(r, 1, Nil)) /\ Path(next, To(r, 1, Nil), r, Nil)
        /\ next[last] = To(r, 1, Nil)
    <3>1. /\ Path(next, stack[s].head, p, To(r, 1, Nil)) /\ Path(next, To(r, 1, Nil), r, Nil)
      <4>1. Path(next, stack[s].head, p \o r, Nil)
        BY <2>2, <2>3
      <4>2. p \in Seqs /\ r \in Seqs /\ Elems(p) \cap Elems(r) = {}
        BY <2>2
      <4> QED BY <4>1, <4>2, PathJoined
    <3>2. next[p[Len(p)]] = To(r, 1, Nil)
      BY <2>2, <2>5, <3>1, PathLast
    <3> QED BY <2>5, <3>1, <3>2
  <2>9. Path(next', stack[s].head, p, Nil)
    <3>1. \A m \in Elems(p) : m # last => next'[m] = next[m]
      BY <2>2, <2>7, RepresentedFacts
    <3>2. (\A m \in Elems(p) : m # p[Len(p)] => next'[m] = next[m]) /\ next'[p[Len(p)]] = Nil
      BY <2>5, <2>7, <3>1
    <3> DEFINE h == stack[s].head
               g == To(r, 1, Nil)
               nxt2 == next'
    <3>3. p \in Seqs /\ p # << >> /\ Path(next, h, p, g)
      BY <2>2, <2>5, <2>8
    <3>4. (\A m \in Elems(p) : m # p[Len(p)] => nxt2[m] = next[m]) /\ nxt2[p[Len(p)]] = Nil
      BY <3>2
    <3> HIDE DEF h, g, nxt2
    <3>5. Path(nxt2, h, p, Nil)
      BY <3>3, <3>4, PathRelink
    <3> QED BY <3>5 DEF h, nxt2
  <2>10. Path(next', next[last], r, Nil)
    <3>1. \A m \in Elems(r) : next'[m] = next[m]
      BY <2>2, <2>5, <2>7, RepresentedFacts
    <3> QED BY <2>8, <3>1, PathFrame
  <2> HIDE DEF last
  <2>11. /\ stack' \in Stacks
         /\ stack'[o].head = stack[s].head /\ stack'[o].size = Len(p)
         /\ stack'[s].head = next[last] /\ stack'[s].size = Len(r)
         /\ stack'[o].tail = last /\ stack'[s].tail = stack[s].tail
         /\ \A x \in Stk : x # s /\ x # o => stack'[x] = stack[x]
    <3> DEFINE front == [head |-> stack[s].head, tail |-> last, size |-> count]
               rest == [head |-> next[last], tail |-> stack[s].tail, size |-> stack[s].size - count]
    <3>1. stack[s].size - count = Len(r) /\ Len(r) \in Nat
      BY <1>3, <2>2, SeqsFacts
    <3>2. /\ front \in [head : Node \cup {Nil}, tail : Node \cup {Nil}, size : Nat]
          /\ front.head = stack[s].head /\ front.size = Len(p) /\ front.tail = last
      BY <2>2, <2>5, RepresentedFacts
    <3>3. /\ rest \in [head : Node \cup {Nil}, tail : Node \cup {Nil}, size : Nat]
          /\ rest.head = next[last] /\ rest.size = Len(r) /\ rest.tail = stack[s].tail
      BY <1>4, <2>5, <3>1, RepresentedFacts DEF Links
    <3>4. stack' = [stack EXCEPT ![o] = front, ![s] = rest]
      BY <1>1, <1>4, <2>6 DEF Stacks
    <3> HIDE DEF front, rest
    <3> QED BY <1>1, <1>4, <3>2, <3>3, <3>4 DEF Stacks
  <2>12. Elems(p) \cup Elems(r) = Elems(c[o]) \cup Elems(c[s])
    BY <1>2, <2>2, EmptyList
  <2>13. \A m \in Node : m \notin Elems(c[o]) \cup Elems(c[s]) => next'[m] = next[m]
    BY <2>2, <2>5, <2>7
  <2>14. Path(next', stack'[o].head, p, Nil) /\ Path(next', stack'[s].head, r, Nil)
    BY <2>9, <2>10, <2>11
  <2>15. Represented(next', stack', loose', [c EXCEPT ![o] = p, ![s] = r])
    BY <1>1, <2>2, <2>7, <2>11, <2>12, <2>13, <2>14, TwoChange
  <2>16. TailOf(p) = last /\ TailOf(r) = TailOf(c[s])
    <3>1. Len(r) \in 1..Len(r) /\ count + Len(r) = Len(c[s]) /\ r # << >>
      BY <1>3, <1>7, <2>1, <2>2, SeqsFacts
    <3>2. r[Len(r)] = c[s][count + Len(r)]
      BY <2>2, <3>1
    <3> QED BY <2>1, <2>5, <3>1, <3>2 DEF TailOf
  <2>17. SplitAt(s, o, c, count)
    BY <2>1, <2>11, <2>15, <2>16 DEF SplitAt, p, r
  <2> QED BY <1>1, <1>2, <1>3, <1>7, <2>17
<1> QED BY <1>5, <1>6, <1>7

-----------------------------------------------------------------------------
(* Order                                                                   *)

\* Every element, not only its neighbour, is in order.
Ordered(q) == \A i, j \in 1..Len(q) : i < j => Value[q[i]] <= Value[q[j]]

\* Values are integers, and Less is their order.
LEMMA Values == \A n \in Node : Value[n] \in Int
BY ValueAssumption

\* sortedBy compares neighbours only.
LEMMA NeighboursOrdered ==
  ASSUME NEW q \in Seqs, \A i \in 1..(Len(q) - 1) : ~Less(q[i + 1], q[i])
  PROVE  Ordered(q)
<1> DEFINE T == {k \in Nat : \A i, j \in 1..Len(q) : i < j /\ j <= k => Value[q[i]] <= Value[q[j]]}
<1>1. Len(q) \in Nat /\ \A i \in 1..Len(q) : Value[q[i]] \in Int
  BY SeqsFacts, Values
<1>2. 0 \in T
  BY <1>1
<1>3. ASSUME NEW k \in 0..(Len(q) - 1), k \in T
      PROVE  k + 1 \in T
  <2> SUFFICES ASSUME NEW i \in 1..Len(q), NEW j \in 1..Len(q), i < j, j <= k + 1
               PROVE  Value[q[i]] <= Value[q[j]]
    BY <1>1
  <2>1. CASE j <= k
    BY <1>3, <2>1
  <2>2. CASE j = k + 1 /\ i = k
    <3>1. i \in 1..(Len(q) - 1) /\ j = i + 1
      BY <1>1, <2>2
    <3>2. ~(Value[q[j]] < Value[q[i]])
      BY <3>1 DEF Less
    <3> QED BY <1>1, <3>2
  <2>3. CASE j = k + 1 /\ i < k
    <3>1. k \in 1..(Len(q) - 1) /\ k \in 1..Len(q)
      BY <1>1, <2>3
    <3>2. Value[q[i]] <= Value[q[k]]
      BY <1>3, <2>3, <3>1
    <3>3. ~(Value[q[j]] < Value[q[k]])
      BY <2>3, <3>1 DEF Less
    <3> QED BY <1>1, <3>1, <3>2, <3>3
  <2> QED BY <1>1, <2>1, <2>2, <2>3
<1> HIDE DEF T
<1>4. \A k \in 0..Len(q) : k \in T
  BY <1>1, <1>2, <1>3, Climb
<1>5. Len(q) \in T
  BY <1>1, <1>4
<1> QED BY <1>1, <1>5 DEF T, Ordered

\* sortedBy, on a represented stack, says that its sequence is ordered.
LEMMA SortedOrdered ==
  ASSUME NEW c, Represented(next, stack, loose, c), NEW s \in Stk, sortedBy(s)
  PROVE  Ordered(c[s])
<1>1. \A i \in 1..(Len(c[s]) - 1) : ~Less(c[s][i + 1], c[s][i])
  BY NodesOfRepresented
<1>2. c[s] \in Seqs
  BY RepresentedFacts
<1> QED BY <1>1, <1>2, NeighboursOrdered

\* n may stand behind the first i nodes of q.
Fits(q, i, n) ==
  /\ \A j \in 1..i : Value[q[j]] <= Value[n]
  /\ \A j \in (i + 1)..Len(q) : Value[n] <= Value[q[j]]

\* n in q behind the first i nodes.
Inserted(q, i, n) == (SubSeq(q, 1, i) \o <<n>>) \o SubSeq(q, i + 1, Len(q))

\* The place where Advance stops.
LEMMA AdvanceFits ==
  ASSUME NEW nxt \in Links, NEW x, NEW q \in Seqs, IsList(nxt, x, q), q # << >>, Ordered(q),
         NEW n \in Node, ~Less(n, x)
  PROVE  \E i \in 1..Len(q) : Advance(nxt, x, n) = q[i] /\ Fits(q, i, n)
<1>1. PICK i \in 1..Len(q) :
           /\ Advance(nxt, x, n) = q[i]
           /\ i < Len(q) => ~Less(q[i + 1], n)
           /\ \A j \in 1..(i - 1) : Less(q[j + 1], n)
  BY AdvanceList
<1>2. Len(q) \in Nat /\ (\A j \in 1..Len(q) : Value[q[j]] \in Int) /\ Value[n] \in Int
  BY SeqsFacts, Values
<1>3. ASSUME NEW j \in 1..i
      PROVE  Value[q[j]] <= Value[n]
  <2>1. CASE j = 1
    <3>1. x = q[1] /\ 1 \in 1..Len(q)
      BY <1>2 DEF IsList, At
    <3> QED BY <1>2, <2>1, <3>1 DEF Less
  <2>2. CASE j # 1
    <3>1. j - 1 \in 1..(i - 1) /\ (j - 1) + 1 = j /\ j \in 1..Len(q)
      BY <1>2, <2>2
    <3>2. Less(q[j], n)
      BY <1>1, <3>1
    <3> QED BY <1>2, <3>1, <3>2 DEF Less
  <2> QED BY <2>1, <2>2
<1>4. ASSUME NEW j \in (i + 1)..Len(q)
      PROVE  Value[n] <= Value[q[j]]
  <2>1. i < Len(q) /\ i + 1 \in 1..Len(q) /\ j \in 1..Len(q)
    BY <1>2
  <2>2. Value[n] <= Value[q[i + 1]]
    BY <1>1, <1>2, <2>1 DEF Less
  <2>3. Value[q[i + 1]] <= Value[q[j]]
    BY <1>2, <2>1 DEF Ordered
  <2> QED BY <1>2, <2>1, <2>2, <2>3
<1> QED BY <1>1, <1>3, <1>4 DEF Fits

\* Stack::push(Node*, Compare) puts the node behind those that are less, and the result is ordered.
LEMMA PushSortedStep ==
  ASSUME NEW c, Represented(next, stack, loose, c), NEW s \in Stk, NEW n, PushSorted(s, n)
  PROVE  /\ n \in loose /\ loose' = loose \ {n} /\ Ordered(c[s])
         /\ \E i \in 0..Len(c[s]) :
              /\ Fits(c[s], i, n)
              /\ Represented(next', stack', loose', [c EXCEPT ![s] = Inserted(c[s], i, n)])
<1>1. /\ n \in loose /\ n \in Node /\ n \notin Elems(c[s]) /\ c[s] \in Seqs /\ Len(c[s]) \in Nat
      /\ loose' = loose \ {n} /\ Ordered(c[s])
  BY RepresentedFacts, SortedOrdered DEF Represented, PushSorted
<1>2. /\ <<n>> \in Seqs /\ Elems(<<n>>) = {n} /\ Len(<<n>>) = 1 /\ <<n>>[1] = n
  BY <1>1, Single
<1>3. next \in Links /\ stack \in Stacks /\ loose \in SUBSET Node /\ Path(next, stack[s].head, c[s], Nil)
  BY DEF Represented
<1>4. (\A j \in 1..Len(c[s]) : Value[c[s][j]] \in Int) /\ Value[n] \in Int
  BY <1>1, SeqsFacts, Values
<1>5. CASE IsEmpty(s) \/ Less(n, stack[s].head)
  <2>1. PushFront(s, n)
    BY <1>5 DEF PushSorted
  <2>2. Represented(next', stack', loose', [c EXCEPT ![s] = <<n>> \o c[s]])
    BY <1>1, <2>1, PushFrontStep
  <2>3. Inserted(c[s], 0, n) = <<n>> \o c[s]
    <3>1. SubSeq(c[s], 0 + 1, Len(c[s])) = c[s]
      BY <1>1, SubSeqFull DEF Seqs
    <3>2. IsCut(c[s], 0, SubSeq(c[s], 1, 0), SubSeq(c[s], 0 + 1, Len(c[s])))
      <4>1. 0 \in 0..Len(c[s])
        BY <1>1
      <4> QED BY <1>1, <4>1, Cutting
    <3>3. SubSeq(c[s], 1, 0) = << >>
      BY <3>2, EmptySeq DEF IsCut, Seqs
    <3>4. << >> \o <<n>> = <<n>>
      BY <1>2, ConcatEmptySeq DEF Seqs
    <3> QED BY <3>1, <3>3, <3>4 DEF Inserted
  <2>4. Fits(c[s], 0, n)
    <3>1. CASE c[s] = << >>
      BY <3>1 DEF Fits
    <3>2. CASE c[s] # << >>
      <4>1. Less(n, stack[s].head) /\ stack[s].head = c[s][1] /\ 1 \in 1..Len(c[s])
        <5>1. ~IsEmpty(s) /\ stack[s].head = c[s][1]
          BY <3>2, RepresentedFacts DEF IsEmpty
        <5>2. Len(c[s]) # 0
          BY <1>1, <3>2, EmptySeq DEF Seqs
        <5> QED BY <1>1, <1>5, <5>1, <5>2
      <4>2. ASSUME NEW j \in 1..Len(c[s]) PROVE Value[n] <= Value[c[s][j]]
        <5>1. Value[c[s][1]] <= Value[c[s][j]]
          BY <1>1, <1>4, <4>1 DEF Ordered
        <5> QED BY <1>4, <4>1, <5>1 DEF Less
      <4> QED BY <4>2 DEF Fits
    <3> QED BY <3>1, <3>2
  <2>5. 0 \in 0..Len(c[s])
    BY <1>1
  <2>6. Represented(next', stack', loose', [c EXCEPT ![s] = Inserted(c[s], 0, n)])
    BY <2>2, <2>3
  <2> QED BY <1>1, <2>4, <2>5, <2>6
<1>6. CASE ~(IsEmpty(s) \/ Less(n, stack[s].head))
  <2>1. c[s] # << >> /\ IsList(next, stack[s].head, c[s])
    BY <1>3, <1>6, RepresentedFacts, ListIsPath DEF IsEmpty
  <2>2. PICK i \in 1..Len(c[s]) :
           Advance(next, stack[s].head, n) = c[s][i] /\ Fits(c[s], i, n)
    BY <1>1, <1>3, <1>6, <2>1, AdvanceFits
  <2> DEFINE before == c[s][i]
             base == [next EXCEPT ![n] = Nil]
             u == SubSeq(c[s], 1, i)
             v == SubSeq(c[s], i + 1, Len(c[s]))
  <2>3. i \in 0..Len(c[s])
    BY <1>1
  <2>4. /\ u \in Seqs /\ Len(u) = i /\ (\A j \in 1..i : u[j] = c[s][j])
        /\ v \in Seqs /\ Elems(u) \cup Elems(v) = Elems(c[s]) /\ Elems(u) \cap Elems(v) = {}
        /\ u \o v = c[s] /\ Len(v) = Len(c[s]) - i
    <3>1. IsCut(c[s], i, u, v)
      BY <1>1, <2>3, Cutting
    <3> HIDE DEF u, v
    <3> QED BY <3>1 DEF IsCut
  <2>5. Inserted(c[s], i, n) = (u \o <<n>>) \o v
    BY DEF Inserted
  <2> HIDE DEF u, v
  <2>6. u # << >> /\ u[Len(u)] = before /\ before \in Elems(c[s]) /\ before \in Node /\ before # n
    BY <1>1, <2>4, SeqsFacts DEF Elems
  <2>7. next' = [next EXCEPT ![n] = next[before], ![before] = n]
    BY <1>6, <2>2 DEF PushSorted
  <2>8. stack' = [stack EXCEPT ![s] = [head |-> @.head, tail |-> @.tail, size |-> @.size + 1]]
    BY <1>6 DEF PushSorted
  <2> HIDE DEF before
  <2>9. base \in Links /\ base[n] = Nil /\ \A m \in Node : m # n => base[m] = next[m]
    BY <1>1, <1>3 DEF Links
  <2>10. next' = [base EXCEPT ![before] = n, ![n] = base[before]]
    BY <1>1, <1>3, <2>6, <2>7 DEF Links, base
  <2> HIDE DEF base
  <2>11. Path(base, stack[s].head, u \o v, Nil)
    <3>1. \A m \in Elems(c[s]) : base[m] = next[m]
      BY <1>1, <2>9, RepresentedFacts
    <3>2. Path(base, stack[s].head, c[s], Nil)
      BY <1>3, <3>1, PathFrame
    <3> QED BY <2>4, <3>2
  <2>12. Path(base, n, <<n>> \o << >>, Nil)
    <3>1. <<n>> \o << >> = <<n>>
      BY <1>2, ConcatEmptySeq DEF Seqs
    <3>2. Path(base, n, <<n>>, Nil)
      BY <1>2, <2>9 DEF Path, To
    <3> QED BY <3>1, <3>2
  <2>13. Path(next', stack[s].head, (u \o <<n>>) \o v, Nil)
    <3>1. << >> \in Seqs /\ Elems(<< >>) = {} /\ <<n>> # << >>
      BY <1>2, EmptyList
    <3>2. (Elems(u) \cup Elems(v)) \cap (Elems(<<n>>) \cup Elems(<< >>)) = {}
      BY <1>1, <1>2, <2>4, <3>1
    <3>3. Elems(<<n>>) \cap Elems(<< >>) = {}
      BY <3>1
    <3>4. Path([base EXCEPT ![u[Len(u)]] = n, ![<<n>>[Len(<<n>>)]] = base[u[Len(u)]]],
               stack[s].head, (u \o <<n>>) \o v, Nil)
      BY <1>2, <2>4, <2>6, <2>9, <2>11, <2>12, <3>1, <3>2, <3>3, MoveFront
    <3> QED BY <1>2, <2>6, <2>10, <3>4
  <2>14. /\ (u \o <<n>>) \o v \in Seqs
         /\ Len((u \o <<n>>) \o v) = Len(c[s]) + 1
         /\ Elems((u \o <<n>>) \o v) = Elems(c[s]) \cup {n}
    <3>1. u \o <<n>> \in Seqs /\ Len(u \o <<n>>) = i + 1 /\ Elems(u \o <<n>>) = Elems(u) \cup {n}
      BY <1>1, <1>2, <2>4, Joined
    <3>2. Elems(u \o <<n>>) \cap Elems(v) = {}
      BY <1>1, <2>4, <3>1
    <3> DEFINE w == u \o <<n>>
    <3>6. w \in Seqs /\ Elems(w) \cap Elems(v) = {} /\ v \in Seqs
      BY <2>4, <3>1, <3>2
    <3> HIDE DEF w
    <3>7. w \o v \in Seqs /\ Len(w \o v) = Len(w) + Len(v) /\ Elems(w \o v) = Elems(w) \cup Elems(v)
      BY <3>6, Joined
    <3>3. /\ (u \o <<n>>) \o v \in Seqs
          /\ Len((u \o <<n>>) \o v) = (i + 1) + (Len(c[s]) - i)
          /\ Elems((u \o <<n>>) \o v) = Elems(u \o <<n>>) \cup Elems(v)
      BY <2>4, <3>1, <3>7, Zenon DEF w
    <3>4. (i + 1) + (Len(c[s]) - i) = Len(c[s]) + 1
      <4>1. \A x, y \in Int : (x + 1) + (y - x) = y + 1
        OBVIOUS
      <4>2. i \in Int /\ Len(c[s]) \in Int
        BY <1>1
      <4> QED BY <4>1, <4>2
    <3>5. Elems(u \o <<n>>) \cup Elems(v) = Elems(c[s]) \cup {n}
      BY <2>4, <3>1
    <3> QED BY <3>3, <3>4, <3>5, Zenon
  <2> DEFINE q == (u \o <<n>>) \o v
  <2> HIDE DEF q
  <2>15. q \in Seqs /\ Len(q) = Len(c[s]) + 1 /\ Elems(q) = Elems(c[s]) \cup {n}
    BY <2>14 DEF q
  <2>16. /\ stack' \in Stacks /\ stack'[s].head = stack[s].head /\ stack'[s].size = Len(q)
         /\ \A x \in Stk : x # s => stack'[x] = stack[x]
    <3> DEFINE rec == [head |-> stack[s].head, tail |-> stack[s].tail, size |-> stack[s].size + 1]
    <3>1. stack[s].size + 1 = Len(q) /\ Len(q) \in Nat
      BY <2>15, RepresentedFacts
    <3>2. /\ rec \in [head : Node \cup {Nil}, tail : Node \cup {Nil}, size : Nat]
          /\ rec.head = stack[s].head /\ rec.size = Len(q)
      BY <3>1, RepresentedFacts
    <3>3. stack' = [stack EXCEPT ![s] = rec]
      BY <2>8, <1>3 DEF Stacks
    <3> HIDE DEF rec
    <3> QED BY <1>3, <3>2, <3>3 DEF Stacks
  <2>17. next' \in Links /\ \A m \in Node : m \notin Elems(c[s]) \cup loose => next'[m] = next[m]
    BY <1>1, <1>3, <2>6, <2>7 DEF Links
  <2>18. Path(next', stack'[s].head, q, Nil)
    BY <2>13, <2>16 DEF q
  <2>19. Elems(q) \cup loose' = Elems(c[s]) \cup loose /\ Elems(q) \cap loose' = {}
    BY <1>1, <2>15, RepresentedFacts
  <2>20. loose' \in SUBSET Node
    BY <1>1, <1>3
  <2>21. Represented(next', stack', loose', [c EXCEPT ![s] = q])
    BY <2>15, <2>16, <2>17, <2>18, <2>19, <2>20, OneChanges
  <2> QED BY <1>1, <2>2, <2>3, <2>5, <2>21 DEF q
<1> QED BY <1>5, <1>6

-----------------------------------------------------------------------------
(* Merging sequences                                                       *)

\* The elements of two sequences, one behind the other.
LEMMA JoinedAt ==
  ASSUME NEW q \in Seqs, NEW r \in Seqs, Elems(q) \cap Elems(r) = {}, NEW i \in 1..Len(q \o r)
  PROVE  \/ i \in 1..Len(q) /\ (q \o r)[i] = q[i]
         \/ \E k \in 1..Len(r) : i = Len(q) + k /\ (q \o r)[i] = r[k]
<1>1. /\ Len(q) \in Nat /\ Len(r) \in Nat /\ Len(q \o r) = Len(q) + Len(r)
      /\ \A j \in 1..Len(q) : (q \o r)[j] = q[j]
      /\ \A j \in 1..Len(r) : (q \o r)[Len(q) + j] = r[j]
  BY Joined, SeqsFacts
<1>2. CASE i \in 1..Len(q)
  BY <1>1, <1>2
<1>3. CASE i \notin 1..Len(q)
  <2>1. i - Len(q) \in 1..Len(r) /\ i = Len(q) + (i - Len(q))
    BY <1>1, <1>3
  <2>2. (q \o r)[i] = r[i - Len(q)]
    BY <1>1, <2>1
  <2> QED BY <2>1, <2>2
<1> QED BY <1>2, <1>3

\* Nothing in Y is less than what is in X.
Below(X, Y) == \A x \in X, y \in Y : Value[x] <= Value[y]

\* Ordered sequences, the first below the second, are ordered when joined.
LEMMA OrderedJoined ==
  ASSUME NEW q \in Seqs, NEW r \in Seqs, Elems(q) \cap Elems(r) = {}
  PROVE  Ordered(q \o r) <=> Ordered(q) /\ Ordered(r) /\ Below(Elems(q), Elems(r))
<1> DEFINE c == q \o r
<1>1. /\ Len(q) \in Nat /\ Len(r) \in Nat /\ Len(c) = Len(q) + Len(r)
      /\ \A i \in 1..Len(q) : c[i] = q[i]
      /\ \A i \in 1..Len(r) : c[Len(q) + i] = r[i]
  BY Joined, SeqsFacts
<1>2. \A i \in 1..Len(c) : \/ i \in 1..Len(q) /\ c[i] = q[i]
                           \/ \E k \in 1..Len(r) : i = Len(q) + k /\ c[i] = r[k]
  BY JoinedAt
<1> HIDE DEF c
<1>3. ASSUME Ordered(c) PROVE Ordered(q)
  <2>1. \A i \in 1..Len(q) : i \in 1..Len(c)
    BY <1>1
  <2> QED BY <1>1, <1>3, <2>1 DEF Ordered
<1>4. ASSUME Ordered(c) PROVE Ordered(r)
  <2> SUFFICES ASSUME NEW i \in 1..Len(r), NEW j \in 1..Len(r), i < j
               PROVE  Value[r[i]] <= Value[r[j]]
    BY DEF Ordered
  <2>1. Len(q) + i \in 1..Len(c) /\ Len(q) + j \in 1..Len(c) /\ Len(q) + i < Len(q) + j
    BY <1>1
  <2> QED BY <1>1, <1>4, <2>1 DEF Ordered
<1>5. ASSUME Ordered(c) PROVE Below(Elems(q), Elems(r))
  <2> SUFFICES ASSUME NEW i \in 1..Len(q), NEW j \in 1..Len(r)
               PROVE  Value[q[i]] <= Value[r[j]]
    BY DEF Below, Elems
  <2>1. i \in 1..Len(c) /\ Len(q) + j \in 1..Len(c) /\ i < Len(q) + j
    BY <1>1
  <2> QED BY <1>1, <1>5, <2>1 DEF Ordered
<1>6. ASSUME Ordered(q), Ordered(r), Below(Elems(q), Elems(r)) PROVE Ordered(c)
  <2> SUFFICES ASSUME NEW i \in 1..Len(c), NEW j \in 1..Len(c), i < j
               PROVE  Value[c[i]] <= Value[c[j]]
    BY DEF Ordered
  <2>1. CASE i \in 1..Len(q) /\ j \in 1..Len(q)
    BY <1>1, <1>6, <2>1 DEF Ordered
  <2>2. CASE i \in 1..Len(q) /\ j \notin 1..Len(q)
    <3>1. PICK k \in 1..Len(r) : j = Len(q) + k /\ c[j] = r[k]
      BY <1>2, <2>2
    <3>2. q[i] \in Elems(q) /\ r[k] \in Elems(r)
      BY <2>2 DEF Elems
    <3>3. c[i] = q[i]
      BY <1>1, <2>2
    <3> QED BY <1>6, <3>1, <3>2, <3>3 DEF Below
  <2>3. CASE i \notin 1..Len(q)
    <3>1. PICK k \in 1..Len(r) : i = Len(q) + k /\ c[i] = r[k]
      BY <1>2, <2>3
    <3>2. j \notin 1..Len(q)
      BY <1>1, <3>1
    <3>3. PICK l \in 1..Len(r) : j = Len(q) + l /\ c[j] = r[l]
      BY <1>2, <3>2
    <3>4. k < l
      BY <1>1, <3>1, <3>3
    <3> QED BY <1>6, <3>1, <3>3, <3>4 DEF Ordered
  <2> QED BY <2>1, <2>2, <2>3
<1> QED BY <1>3, <1>4, <1>5, <1>6 DEF c

\* A sequence in order within another stays so when more is appended, to one or to both.
LEMMA InOrderJoined ==
  ASSUME NEW M \in Seqs, NEW P \in Seqs, NEW X \in Seqs,
         Elems(M) \cap Elems(X) = {}, Elems(P) \cap Elems(X) = {},
         Sequence!InOrder(P, M)
  PROVE  Sequence!InOrder(P \o X, M \o X)
<1> DEFINE c == M \o X
           d == P \o X
<1>1. /\ Len(M) \in Nat /\ Len(P) \in Nat /\ Len(X) \in Nat
      /\ Len(c) = Len(M) + Len(X) /\ Len(d) = Len(P) + Len(X)
      /\ \A i \in 1..Len(P) : d[i] = P[i]
      /\ \A i \in 1..Len(M) : c[i] = M[i]
      /\ \A i \in 1..Len(X) : c[Len(M) + i] = X[i]
  BY Joined, SeqsFacts
<1>2. \A i \in 1..Len(d) : \/ i \in 1..Len(P) /\ d[i] = P[i]
                           \/ \E k \in 1..Len(X) : i = Len(P) + k /\ d[i] = X[k]
  BY JoinedAt
<1> HIDE DEF c, d
<1>3. ASSUME NEW i \in 1..Len(d), NEW j \in 1..Len(d), i <= j
      PROVE  \E k, l \in 1..Len(c) : k <= l /\ c[k] = d[i] /\ c[l] = d[j]
  <2>1. \A k \in 1..Len(M) : k \in 1..Len(c)
    BY <1>1
  <2>2. \A k \in 1..Len(X) : Len(M) + k \in 1..Len(c)
    BY <1>1
  <2>3. CASE i \in 1..Len(P) /\ j \in 1..Len(P)
    <3>1. PICK k, l \in 1..Len(M) : k <= l /\ M[k] = P[i] /\ M[l] = P[j]
      BY <1>3, <2>3 DEF Sequence!InOrder
    <3>2. d[i] = P[i] /\ d[j] = P[j]
      BY <1>1, <1>2, <2>3
    <3> QED BY <1>1, <2>1, <3>1, <3>2
  <2>4. CASE i \in 1..Len(P) /\ j \notin 1..Len(P)
    <3>1. PICK k, l \in 1..Len(M) : k <= l /\ M[k] = P[i] /\ M[l] = P[i]
      <4>1. i \in 1..Len(P) /\ i <= i
        BY <1>1, <2>4
      <4> QED BY <4>1 DEF Sequence!InOrder
    <3>2. PICK x \in 1..Len(X) : j = Len(P) + x /\ d[j] = X[x]
      BY <1>2, <2>4
    <3>3. d[i] = P[i]
      BY <1>1, <1>2, <2>4
    <3>4. c[k] = M[k] /\ c[Len(M) + x] = X[x] /\ k <= Len(M) + x
      BY <1>1
    <3> QED BY <2>1, <2>2, <3>1, <3>2, <3>3, <3>4
  <2>5. CASE i \notin 1..Len(P)
    <3>1. PICK x \in 1..Len(X) : i = Len(P) + x /\ d[i] = X[x]
      BY <1>2, <2>5
    <3>2. j \notin 1..Len(P)
      BY <1>1, <1>3, <3>1
    <3>3. PICK y \in 1..Len(X) : j = Len(P) + y /\ d[j] = X[y]
      BY <1>2, <3>2
    <3>4. Len(M) + x <= Len(M) + y
      BY <1>1, <1>3, <3>1, <3>3
    <3> QED BY <1>1, <2>2, <3>1, <3>3, <3>4
  <2> QED BY <2>3, <2>4, <2>5
<1>4. Sequence!InOrder(d, c)
  BY <1>3 DEF Sequence!InOrder
<1> QED BY <1>4 DEF c, d

\* A sequence is in order within what it is the front of.
LEMMA InOrderBefore ==
  ASSUME NEW M \in Seqs, NEW R \in Seqs, NEW X \in Seqs,
         Elems(M) \cap Elems(X) = {}, Sequence!InOrder(R, M)
  PROVE  Sequence!InOrder(R, M \o X)
<1> DEFINE c == M \o X
<1>1. /\ Len(M) \in Nat /\ Len(X) \in Nat /\ Len(c) = Len(M) + Len(X)
      /\ \A i \in 1..Len(M) : c[i] = M[i]
  BY Joined, SeqsFacts
<1> HIDE DEF c
<1>2. ASSUME NEW i \in 1..Len(R), NEW j \in 1..Len(R), i <= j
      PROVE  \E k, l \in 1..Len(c) : k <= l /\ c[k] = R[i] /\ c[l] = R[j]
  <2>1. PICK k, l \in 1..Len(M) : k <= l /\ M[k] = R[i] /\ M[l] = R[j]
    BY <1>2 DEF Sequence!InOrder
  <2>2. k \in 1..Len(c) /\ l \in 1..Len(c)
    BY <1>1
  <2> QED BY <1>1, <2>1, <2>2
<1>3. Sequence!InOrder(R, c)
  BY <1>2 DEF Sequence!InOrder
<1> QED BY <1>3 DEF c

\* M is P and R merged.
Mix(M, P, R) ==
  /\ M \in Seqs /\ P \in Seqs /\ R \in Seqs
  /\ Elems(P) \cap Elems(R) = {}
  /\ Elems(M) = Elems(P) \cup Elems(R)
  /\ Len(M) = Len(P) + Len(R)
  /\ Sequence!InOrder(P, M) /\ Sequence!InOrder(R, M)
  /\ Ordered(M)

\* A merge stays one when what follows both sequences is appended to it.
LEMMA MixExtended ==
  ASSUME NEW M, NEW P, NEW R, Mix(M, P, R), NEW X \in Seqs, Ordered(X),
         Elems(X) \cap Elems(M) = {}, Below(Elems(M), Elems(X))
  PROVE  Mix(M \o X, P \o X, R)
<1>1. M \in Seqs /\ P \in Seqs /\ R \in Seqs /\ Elems(M) = Elems(P) \cup Elems(R)
  BY DEF Mix
<1>2. Elems(M) \cap Elems(X) = {} /\ Elems(P) \cap Elems(X) = {}
  BY <1>1
<1>3. /\ M \o X \in Seqs /\ Elems(M \o X) = Elems(M) \cup Elems(X) /\ Len(M \o X) = Len(M) + Len(X)
      /\ P \o X \in Seqs /\ Elems(P \o X) = Elems(P) \cup Elems(X) /\ Len(P \o X) = Len(P) + Len(X)
  BY <1>1, <1>2, Joined
<1>4. Elems(P \o X) \cap Elems(R) = {} /\ Elems(M \o X) = Elems(P \o X) \cup Elems(R)
  BY <1>1, <1>3 DEF Mix
<1>5. Len(M \o X) = Len(P \o X) + Len(R)
  <2>1. \A i, j, k \in Nat : (i + j) + k = (i + k) + j
    OBVIOUS
  <2>2. Len(M) = Len(P) + Len(R) /\ Len(P) \in Nat /\ Len(R) \in Nat /\ Len(X) \in Nat
    BY <1>1, SeqsFacts DEF Mix
  <2> QED BY <1>3, <2>1, <2>2
<1>6. Sequence!InOrder(P \o X, M \o X)
  BY <1>1, <1>2, InOrderJoined DEF Mix
<1>7. Sequence!InOrder(R, M \o X)
  BY <1>1, <1>2, InOrderBefore DEF Mix
<1>8. Ordered(M \o X)
  BY <1>1, <1>2, OrderedJoined DEF Mix
<1> QED BY <1>1, <1>3, <1>4, <1>5, <1>6, <1>7, <1>8 DEF Mix

\* A merge is one of its sequences in either order.
LEMMA MixSymmetric ==
  ASSUME NEW M, NEW P, NEW R, Mix(M, P, R)
  PROVE  Mix(M, R, P)
<1>1. Len(P) + Len(R) = Len(R) + Len(P)
  <2>1. \A i, j \in Nat : i + j = j + i
    OBVIOUS
  <2> QED BY <2>1, SeqsFacts DEF Mix
<1> QED BY <1>1 DEF Mix

\* P of p and R of r are merged in M; A and B are what is left.
Parts(p, r, P, A, R, B, M) ==
  /\ A \in Seqs /\ B \in Seqs
  /\ P \o A = p /\ Elems(P) \cap Elems(A) = {}
  /\ R \o B = r /\ Elems(R) \cap Elems(B) = {}
  /\ Mix(M, P, R)
  /\ Below(Elems(M), Elems(A)) /\ Below(Elems(M), Elems(B))

\* Two ordered sequences to merge.
Mergeable(p, r) ==
  /\ p \in Seqs /\ r \in Seqs /\ p # << >> /\ r # << >>
  /\ Ordered(p) /\ Ordered(r) /\ Elems(p) \cap Elems(r) = {}

\* So is one in progress.
LEMMA PartsSymmetric ==
  ASSUME NEW p, NEW r, NEW P, NEW A, NEW R, NEW B, NEW M, Parts(p, r, P, A, R, B, M)
  PROVE  Parts(r, p, R, B, P, A, M)
BY MixSymmetric DEF Parts

\* The front of A goes next, when nothing in B is less than it.
LEMMA TakeFront ==
  ASSUME NEW p, NEW r, Mergeable(p, r),
         NEW P, NEW A, NEW R, NEW B, NEW M, Parts(p, r, P, A, R, B, M),
         NEW X \in Seqs, NEW Y \in Seqs, X \o Y = A, Elems(X) \cap Elems(Y) = {},
         Below(Elems(X), Elems(B))
  PROVE  Parts(p, r, P \o X, Y, R, B, M \o X)
<1>1. /\ P \in Seqs /\ A \in Seqs /\ R \in Seqs /\ B \in Seqs /\ M \in Seqs
      /\ P \o A = p /\ R \o B = r /\ Elems(P) \cap Elems(A) = {} /\ Elems(R) \cap Elems(B) = {}
      /\ Elems(M) = Elems(P) \cup Elems(R)
      /\ Below(Elems(M), Elems(A)) /\ Below(Elems(M), Elems(B))
  BY DEF Parts, Mix
<1>2. Elems(A) = Elems(X) \cup Elems(Y)
  BY Joined
<1>3. Elems(p) = Elems(P) \cup Elems(A) /\ Elems(r) = Elems(R) \cup Elems(B)
  BY <1>1, Joined
<1>4. Elems(p) \cap Elems(r) = {} /\ Ordered(p)
  BY DEF Mergeable
<1>5. Ordered(A)
  BY <1>1, <1>4, OrderedJoined
<1>6. Ordered(X) /\ Ordered(Y) /\ Below(Elems(X), Elems(Y))
  BY <1>5, OrderedJoined
<1>7. Elems(X) \cap Elems(M) = {} /\ Elems(M) \cap Elems(X) = {} /\ Elems(P) \cap Elems(X) = {}
  BY <1>1, <1>2, <1>3, <1>4
<1>8. Below(Elems(M), Elems(X)) /\ Below(Elems(M), Elems(Y))
  BY <1>1, <1>2 DEF Below
<1>9. Mix(M \o X, P \o X, R)
  BY <1>6, <1>7, <1>8, MixExtended DEF Parts
<1>10. Elems(M \o X) = Elems(M) \cup Elems(X) /\ Elems(P \o X) = Elems(P) \cup Elems(X)
  BY <1>1, <1>7, Joined
<1>11. Below(Elems(M \o X), Elems(Y)) /\ Below(Elems(M \o X), Elems(B))
  BY <1>1, <1>6, <1>8, <1>10 DEF Below
<1>12. (P \o X) \o Y = p
  <2>1. (P \o X) \o Y = P \o (X \o Y)
    <3>1. P \in Seq(Node) /\ X \in Seq(Node) /\ Y \in Seq(Node)
      BY <1>1 DEF Seqs
    <3> QED BY <3>1, Thrice
  <2> QED BY <1>1, <2>1
<1>13. Elems(P \o X) \cap Elems(Y) = {}
  BY <1>1, <1>2, <1>10
<1> QED BY <1>1, <1>9, <1>11, <1>12, <1>13 DEF Parts

\* A sequence that is not empty has a first and a last node.
LEMMA NotEmpty ==
  ASSUME NEW q \in Seqs
  PROVE  /\ q # << >> <=> Len(q) # 0
         /\ q # << >> => /\ 1 \in 1..Len(q) /\ Len(q) \in 1..Len(q)
                         /\ q[1] \in Elems(q) /\ q[Len(q)] \in Elems(q)
                         /\ q[1] \in Node /\ q[Len(q)] \in Node /\ q[1] # Nil
<1>1. Len(q) \in Nat /\ (q = << >> <=> Len(q) = 0)
  BY SeqsFacts, EmptySeq DEF Seqs
<1>2. q # << >> => 1 \in 1..Len(q) /\ Len(q) \in 1..Len(q)
  BY <1>1
<1> QED BY <1>1, <1>2, SeqsFacts DEF Elems

\* The last node of two sequences, one behind the other.
LEMMA LastJoined ==
  ASSUME NEW q \in Seqs, NEW r \in Seqs, Elems(q) \cap Elems(r) = {}, r # << >>
  PROVE  (q \o r)[Len(q \o r)] = r[Len(r)] /\ q \o r # << >>
<1>1. /\ Len(q \o r) = Len(q) + Len(r) /\ (q \o r)[Len(q) + Len(r)] = r[Len(r)]
      /\ q \o r \in Seqs
  BY Joined, NotEmpty
<1>2. Len(q \o r) # 0
  BY <1>1, NotEmpty, SeqsFacts
<1> QED BY <1>1, <1>2, NotEmpty

\* Nothing in an ordered sequence is less than its first node.
LEMMA OrderedFirst ==
  ASSUME NEW q \in Seqs, Ordered(q), NEW n \in Elems(q)
  PROVE  q # << >> /\ Value[q[1]] <= Value[n]
<1>1. PICK i \in 1..Len(q) : n = q[i]
  BY DEF Elems
<1>2. Len(q) \in Nat /\ 1 \in 1..Len(q) /\ q[i] \in Node /\ Len(q) # 0
  BY <1>1, SeqsFacts
<1>3. Value[n] \in Int
  BY <1>1, <1>2, Values
<1>4. CASE i = 1
  BY <1>1, <1>2, <1>3, <1>4, NotEmpty
<1>5. CASE i # 1
  BY <1>1, <1>2, <1>5, NotEmpty DEF Ordered
<1> QED BY <1>4, <1>5

\* Advance stops at the last node of X, where Y begins.
StopsAt(nxt, x, q, y, X, Y) ==
  /\ X \o Y = q /\ Elems(X) \cap Elems(Y) = {} /\ X # << >>
  /\ Advance(nxt, x, y) = X[Len(X)]
  /\ nxt[X[Len(X)]] = To(Y, 1, Nil)
  /\ Y # << >> => ~Less(Y[1], y)
  /\ \A n \in Elems(X) : n = q[1] \/ Less(n, y)

\* Where Advance stops, it cuts the list into what precedes y and the rest.
LEMMA AdvanceCut ==
  ASSUME NEW nxt \in Links, NEW x, NEW q \in Seqs, q # << >>, Path(nxt, x, q, Nil), NEW y
  PROVE  \E X, Y \in Seqs : StopsAt(nxt, x, q, y, X, Y)
<1>1. PICK i \in 1..Len(q) :
           /\ Advance(nxt, x, y) = q[i]
           /\ i < Len(q) => ~Less(q[i + 1], y)
           /\ \A j \in 1..(i - 1) : Less(q[j + 1], y)
  BY ListIsPath, AdvanceList
<1> DEFINE X == SubSeq(q, 1, i)
           Y == SubSeq(q, i + 1, Len(q))
<1>2. Len(q) \in Nat /\ i \in 0..Len(q)
  BY SeqsFacts
<1>3. IsCut(q, i, X, Y)
  BY <1>2, Cutting
<1> HIDE DEF X, Y
<1>4. /\ X \in Seqs /\ Len(X) = i /\ \A j \in 1..i : X[j] = q[j]
      /\ Y \in Seqs /\ Len(Y) = Len(q) - i /\ \A j \in 1..(Len(q) - i) : Y[j] = q[i + j]
      /\ Elems(X) \cap Elems(Y) = {} /\ X \o Y = q
  BY <1>3 DEF IsCut
<1>5. X # << >> /\ X[Len(X)] = q[i]
  BY <1>2, <1>4, NotEmpty
<1>6. nxt[X[Len(X)]] = To(Y, 1, Nil)
  <2>1. Path(nxt, x, X, To(Y, 1, Nil))
    <3>1. Path(nxt, x, X \o Y, Nil)
      BY <1>4
    <3> QED BY <1>4, <3>1, PathJoined
  <2> QED BY <1>4, <1>5, <2>1, PathLast
<1>7. Y # << >> => ~Less(Y[1], y)
  <2> SUFFICES ASSUME Y # << >> PROVE ~Less(Y[1], y)
    OBVIOUS
  <2>1. 1 \in 1..(Len(q) - i) /\ i < Len(q)
    BY <1>2, <1>4, NotEmpty
  <2> QED BY <1>1, <1>4, <2>1
<1>8. ASSUME NEW n \in Elems(X)
      PROVE  n = q[1] \/ Less(n, y)
  <2>1. PICK j \in 1..i : n = q[j]
    BY <1>4 DEF Elems
  <2>2. CASE j = 1
    BY <2>1, <2>2
  <2>3. CASE j # 1
    <3>1. j - 1 \in 1..(i - 1) /\ (j - 1) + 1 = j
      BY <1>2, <2>3
    <3> QED BY <1>1, <2>1, <3>1
  <2> QED BY <2>2, <2>3
<1>9. StopsAt(nxt, x, q, y, X, Y)
  BY <1>1, <1>4, <1>5, <1>6, <1>7, <1>8 DEF StopsAt
<1> QED BY <1>4, <1>9

-----------------------------------------------------------------------------
(* The loop of the merge                                                   *)

\* The variables of the loop.
MergeStates == [a : Node \cup {Nil}, b : Node \cup {Nil}, next : Links]

\* The list from h on is M and then A; the list from m.b on is B.
Halfway(m, h, p, r, P, A, R, B, M) ==
  /\ Parts(p, r, P, A, R, B, M)
  /\ A # << >> /\ m.a = A[1] /\ m.b = To(B, 1, Nil)
  /\ B # << >> => Value[A[1]] <= Value[B[1]]
  /\ Path(m.next, h, M \o A, Nil) /\ Path(m.next, m.b, B, Nil)

\* A has come to its end first: B is linked behind it.
Finished(m, h, p, r, L) ==
  /\ m.a = Nil /\ m.b # Nil
  /\ Mix(L, p, r) /\ Path(m.next, h, L, Nil) /\ L[Len(L)] = r[Len(r)]

\* The loop invariant after k rounds.
LoopAt(m, k, h, p, r) ==
  /\ m \in MergeStates
  /\ \A n \in Node : n \notin Elems(p) \cup Elems(r) => m.next[n] = next[n]
  /\ \/ \E P, A, R, B, M \in Seqs :
          Halfway(m, h, p, r, P, A, R, B, M) /\ (B # << >> => Len(B) + k <= Len(r))
     \/ \E L \in Seqs : Finished(m, h, p, r, L)

\* One round of the loop keeps its invariant, and leaves less of the other stack.
LEMMA RoundStep ==
  ASSUME NEW p, NEW r, Mergeable(p, r), NEW h, NEW m, NEW k \in Nat,
         LoopAt(m, k, h, p, r), Merging(m)
  PROVE  LoopAt(MergeRound(m), k + 1, h, p, r)
<1>1. m \in MergeStates /\ m.next \in Links
  BY DEF LoopAt, MergeStates
<1>2. PICK P \in Seqs, A \in Seqs, R \in Seqs, B \in Seqs, M \in Seqs :
        Halfway(m, h, p, r, P, A, R, B, M) /\ (B # << >> => Len(B) + k <= Len(r))
  BY DEF LoopAt, Finished, Merging
<1>3. /\ Parts(p, r, P, A, R, B, M)
      /\ A # << >> /\ m.a = A[1] /\ m.b = To(B, 1, Nil)
      /\ Path(m.next, h, M \o A, Nil) /\ Path(m.next, m.b, B, Nil)
  BY <1>2 DEF Halfway
<1>4. B # << >> /\ m.b = B[1] /\ Value[A[1]] <= Value[B[1]] /\ Len(B) + k <= Len(r)
  <2>1. B # << >>
    <3>1. SUFFICES ASSUME B = << >> PROVE FALSE
      OBVIOUS
    <3>2. m.b = Nil
      BY <1>3, <3>1, EmptyList DEF To
    <3> QED BY <3>2 DEF Merging
  <2> QED BY <1>2, <1>3, <2>1, NotEmpty DEF To, Halfway
<1>5. /\ p \in Seqs /\ r \in Seqs /\ Ordered(p) /\ Ordered(r) /\ Elems(p) \cap Elems(r) = {}
  BY DEF Mergeable
<1>6. /\ P \o A = p /\ R \o B = r /\ Elems(P) \cap Elems(A) = {} /\ Elems(R) \cap Elems(B) = {}
      /\ Elems(M) = Elems(P) \cup Elems(R)
  BY <1>3 DEF Parts, Mix
<1>7. /\ Elems(p) = Elems(P) \cup Elems(A) /\ Elems(r) = Elems(R) \cup Elems(B)
      /\ Ordered(A) /\ Ordered(B)
  BY <1>5, <1>6, Joined, OrderedJoined
<1>8. Elems(M) \cap Elems(A) = {} /\ Elems(M) \cap Elems(B) = {} /\ Elems(A) \cap Elems(B) = {}
  BY <1>5, <1>6, <1>7
<1>9. Path(m.next, m.a, A, Nil)
  <2>1. m.a = To(A, 1, Nil)
    BY <1>3, NotEmpty DEF To
  <2> QED BY <1>3, <1>8, <2>1, PathJoined
<1>20. PICK X \in Seqs, Y \in Seqs : StopsAt(m.next, m.a, A, m.b, X, Y)
  BY <1>1, <1>3, <1>9, AdvanceCut
<1>10. /\ X \o Y = A /\ Elems(X) \cap Elems(Y) = {} /\ X # << >>
       /\ Advance(m.next, m.a, m.b) = X[Len(X)]
       /\ m.next[X[Len(X)]] = To(Y, 1, Nil)
       /\ Y # << >> => ~Less(Y[1], m.b)
       /\ \A n \in Elems(X) : n = A[1] \/ Less(n, m.b)
  BY <1>20 DEF StopsAt
<1>11. Elems(A) = Elems(X) \cup Elems(Y) /\ Elems(A) \subseteq Node /\ Elems(B) \subseteq Node
  <2>1. Elems(A) = Elems(X) \cup Elems(Y)
    BY <1>10, Joined
  <2> QED BY <2>1, ElemsNodes
<1>12. Below(Elems(X), Elems(B))
  <2> SUFFICES ASSUME NEW n \in Elems(X), NEW b \in Elems(B) PROVE Value[n] <= Value[b]
    BY DEF Below
  <2>1. Value[B[1]] <= Value[b]
    BY <1>7, OrderedFirst
  <2>2. Value[n] \in Int /\ Value[b] \in Int /\ Value[B[1]] \in Int
    BY <1>4, <1>11, NotEmpty, Values
  <2>3. n = A[1] \/ Less(n, B[1])
    BY <1>4, <1>10
  <2>4. Value[n] <= Value[B[1]]
    <3>1. CASE n = A[1]
      BY <1>4, <3>1
    <3>2. CASE Less(n, B[1])
      BY <2>2, <3>2 DEF Less
    <3> QED BY <2>3, <3>1, <3>2
  <2> QED BY <2>1, <2>2, <2>4
<1>13. Parts(p, r, P \o X, Y, R, B, M \o X)
  BY <1>3, <1>10, <1>12, TakeFront
<1>14. X[Len(X)] \in Elems(X) /\ X[Len(X)] \in Node
  BY <1>10, NotEmpty
<1>15. CASE Y = << >>
  <2> DEFINE q == M \o A
             L == (M \o A) \o B
             nxt == [m.next EXCEPT ![X[Len(X)]] = m.b]
  <2>1. X = A
    BY <1>10, <1>15, ConcatEmptySeq DEF Seqs
  <2>2. MergeRound(m) = [a |-> Nil, b |-> m.b, next |-> nxt]
    <3>1. m.next[X[Len(X)]] = Nil
      BY <1>10, <1>15, EmptyList DEF To
    <3> QED BY <1>10, <3>1 DEF MergeRound, AtEndOfA
  <2>3. /\ q \in Seqs /\ Elems(q) = Elems(M) \cup Elems(A) /\ q # << >>
        /\ q[Len(q)] = X[Len(X)]
    BY <1>3, <1>8, <2>1, Joined, LastJoined
  <2>4. Elems(q) \cap Elems(B) = {}
    BY <1>8, <2>3
  <2> HIDE DEF q
  <2>5. L \in Seqs /\ L[Len(L)] = B[Len(B)] /\ r[Len(r)] = B[Len(B)]
    <3>1. L = q \o B
      BY DEF q
    <3> HIDE DEF L
    <3>2. L \in Seqs /\ L[Len(L)] = B[Len(B)]
      BY <1>4, <2>3, <2>4, <3>1, Joined, LastJoined
    <3>3. r[Len(r)] = B[Len(B)]
      BY <1>4, <1>6, LastJoined
    <3> QED BY <3>2, <3>3
  <2>6. Path(nxt, h, L, Nil)
    <3>1. Path(m.next, h, q, Nil)
      BY <1>3 DEF q
    <3>2. Path([m.next EXCEPT ![q[Len(q)]] = m.b], h, q \o B, Nil)
      BY <1>1, <1>3, <2>3, <2>4, <3>1, LinkLists
    <3> QED BY <2>3, <3>2 DEF q
  <2>7. Mix(L, p, r)
    <3>1. Parts(p, r, P \o A, << >>, R, B, M \o A)
      BY <1>13, <1>15, <2>1
    <3>2. Parts(r, p, R, B, P \o A, << >>, M \o A)
      BY <3>1, PartsSymmetric
    <3>3. Mergeable(r, p)
      BY DEF Mergeable
    <3>4. B \o << >> = B /\ << >> \in Seqs /\ Elems(<< >>) = {} /\ Below(Elems(B), Elems(<< >>))
      BY EmptyList, ConcatEmptySeq DEF Seqs, Below
    <3>5. Parts(r, p, R \o B, << >>, P \o A, << >>, L)
      BY <3>2, <3>3, <3>4, TakeFront
    <3>6. Mix(L, r, p)
      BY <1>6, <3>5 DEF Parts
    <3> QED BY <3>6, MixSymmetric
  <2>8. /\ nxt \in Links
        /\ \A n \in Node : n \notin Elems(p) \cup Elems(r) => nxt[n] = next[n]
    <3>1. \A n \in Node : n \notin Elems(p) \cup Elems(r) => m.next[n] = next[n]
      BY DEF LoopAt
    <3>2. X[Len(X)] \in Elems(p) /\ m.b \in Node
      BY <1>4, <1>7, <1>11, <1>14, NotEmpty
    <3> QED BY <1>1, <1>14, <3>1, <3>2 DEF Links
  <2> HIDE DEF nxt, L
  <2> DEFINE m2 == [a |-> Nil, b |-> m.b, next |-> nxt]
  <2>9. m.b \in Node /\ m.b # Nil
    BY <1>4, NotEmpty
  <2>10. m2 \in MergeStates /\ m2.a = Nil /\ m2.b = m.b /\ m2.next = nxt
    BY <2>8, <2>9 DEF MergeStates
  <2> HIDE DEF m2
  <2>11. Finished(m2, h, p, r, L)
    BY <2>5, <2>6, <2>7, <2>9, <2>10 DEF Finished
  <2>12. LoopAt(m2, k + 1, h, p, r)
    BY <2>5, <2>8, <2>10, <2>11 DEF LoopAt
  <2> QED BY <2>2, <2>12 DEF m2
<1>16. CASE Y # << >>
  <2>1. Y[1] \in Elems(Y) /\ Y[1] \in Node /\ m.next[X[Len(X)]] = Y[1] /\ Y[1] # Nil
    BY <1>10, <1>16, NotEmpty DEF To
  <2>2. PICK Z \in Seqs, W \in Seqs : StopsAt(m.next, m.b, B, Y[1], Z, W)
    BY <1>1, <1>3, <1>4, AdvanceCut
  <2>3. /\ Z \o W = B /\ Elems(Z) \cap Elems(W) = {} /\ Z # << >>
        /\ Advance(m.next, m.b, Y[1]) = Z[Len(Z)]
        /\ m.next[Z[Len(Z)]] = To(W, 1, Nil)
        /\ W # << >> => ~Less(W[1], Y[1])
        /\ \A n \in Elems(Z) : n = B[1] \/ Less(n, Y[1])
    BY <2>2 DEF StopsAt
  <2>4. Elems(B) = Elems(Z) \cup Elems(W) /\ Z[Len(Z)] \in Elems(Z) /\ Z[Len(Z)] \in Node
    BY <2>3, Joined, NotEmpty
  <2>5. Value[B[1]] <= Value[Y[1]]
    <3>1. B[1] \in Node
      BY <1>4, NotEmpty
    <3> QED BY <1>4, <1>10, <1>16, <2>1, <3>1, Values DEF Less
  <2>6. Ordered(Y)
    BY <1>7, <1>10, OrderedJoined
  <2>7. Below(Elems(Z), Elems(Y))
    <3> SUFFICES ASSUME NEW n \in Elems(Z), NEW y \in Elems(Y) PROVE Value[n] <= Value[y]
      BY DEF Below
    <3>1. Value[Y[1]] <= Value[y]
      BY <2>6, OrderedFirst
    <3>2. n \in Node /\ y \in Node
      BY <1>11, <2>4
    <3>3. Value[n] \in Int /\ Value[y] \in Int /\ Value[Y[1]] \in Int
      BY <2>1, <3>2, Values
    <3>4. Value[n] <= Value[Y[1]]
      BY <2>3, <2>5, <3>3 DEF Less
    <3> QED BY <3>1, <3>3, <3>4
  <2>8. Parts(p, r, P \o X, Y, R \o Z, W, (M \o X) \o Z)
    <3>1. Parts(r, p, R, B, P \o X, Y, M \o X)
      BY <1>13, PartsSymmetric
    <3>2. Mergeable(r, p)
      BY DEF Mergeable
    <3>3. Parts(r, p, R \o Z, W, P \o X, Y, (M \o X) \o Z)
      BY <2>3, <2>7, <3>1, <3>2, TakeFront
    <3> QED BY <3>3, PartsSymmetric
  <2>9. P \o X \in Seqs /\ R \o Z \in Seqs /\ (M \o X) \o Z \in Seqs
    BY <2>8 DEF Parts, Mix
  <2> DEFINE q == M \o X
             nxt == [m.next EXCEPT ![X[Len(X)]] = m.b, ![Z[Len(Z)]] = Y[1]]
  <2>10. MergeRound(m) = [a |-> Y[1], b |-> m.next[Z[Len(Z)]], next |-> nxt]
    BY <1>10, <2>1, <2>3 DEF MergeRound
  <2>11. /\ q \in Seqs /\ Elems(q) = Elems(M) \cup Elems(X) /\ q # << >>
         /\ q[Len(q)] = X[Len(X)]
    <3>1. Elems(M) \cap Elems(X) = {}
      BY <1>8, <1>11
    <3> QED BY <1>3, <1>10, <3>1, Joined, LastJoined
  <2>12. Path(m.next, h, q \o Y, Nil)
    <3>1. M \in Seq(Node) /\ X \in Seq(Node) /\ Y \in Seq(Node)
      BY DEF Seqs
    <3>2. (M \o X) \o Y = M \o A
      BY <1>10, <3>1, Thrice
    <3> QED BY <1>3, <3>2
  <2> HIDE DEF q
  <2>13. Path(m.next, m.b, Z \o W, Nil)
    BY <1>3, <2>3
  <2>14. /\ Elems(q) \cap Elems(Y) = {}
         /\ (Elems(q) \cup Elems(Y)) \cap (Elems(Z) \cup Elems(W)) = {}
    BY <1>8, <1>10, <1>11, <2>4, <2>11
  <2>15. /\ Path(nxt, h, (q \o Z) \o Y, Nil)
         /\ Path(nxt, m.next[Z[Len(Z)]], W, Nil)
    <3> DEFINE n0 == m.next
               b0 == m.b
               nxt2 == [n0 EXCEPT ![q[Len(q)]] = b0, ![Z[Len(Z)]] = n0[q[Len(q)]]]
    <3>1. n0 \in Links /\ Path(n0, h, q \o Y, Nil) /\ Path(n0, b0, Z \o W, Nil)
      BY <1>1, <2>12, <2>13
    <3>2. nxt2 = nxt
      BY <2>1, <2>11 DEF nxt
    <3> HIDE DEF n0, b0
    <3>3. q # << >> /\ Z # << >> /\ q \in Seqs /\ Elems(Z) \cap Elems(W) = {}
      BY <2>3, <2>11
    <3>4. Path(nxt2, h, (q \o Z) \o Y, Nil) /\ Path(nxt2, n0[Z[Len(Z)]], W, Nil)
      BY <2>14, <3>1, <3>3, MoveFront
    <3> QED BY <3>2, <3>4 DEF n0
  <2>16. /\ nxt \in Links
         /\ \A n \in Node : n \notin Elems(p) \cup Elems(r) => nxt[n] = next[n]
    <3>1. \A n \in Node : n \notin Elems(p) \cup Elems(r) => m.next[n] = next[n]
      BY DEF LoopAt
    <3>2. X[Len(X)] \in Elems(p) /\ Z[Len(Z)] \in Elems(r) /\ m.b \in Node
      BY <1>4, <1>7, <1>11, <1>14, <2>4, NotEmpty
    <3> QED BY <1>1, <1>14, <2>1, <2>4, <3>1, <3>2 DEF Links
  <2> HIDE DEF nxt
  <2> DEFINE m2 == [a |-> Y[1], b |-> m.next[Z[Len(Z)]], next |-> nxt]
  <2>17. m.next[Z[Len(Z)]] \in Node \cup {Nil}
    BY <1>1, <2>4 DEF Links
  <2>18. m2 \in MergeStates /\ m2.a = Y[1] /\ m2.b = To(W, 1, Nil) /\ m2.next = nxt
    BY <2>1, <2>3, <2>16, <2>17 DEF MergeStates
  <2> HIDE DEF m2
  <2>19. W # << >> => Value[Y[1]] <= Value[W[1]]
    <3> SUFFICES ASSUME W # << >> PROVE Value[Y[1]] <= Value[W[1]]
      OBVIOUS
    <3>1. W[1] \in Node /\ ~Less(W[1], Y[1])
      BY <2>3, NotEmpty
    <3> QED BY <2>1, <3>1, Values DEF Less
  <2>20. Halfway(m2, h, p, r, P \o X, Y, R \o Z, W, (M \o X) \o Z)
    <3>1. Path(nxt, h, ((M \o X) \o Z) \o Y, Nil) /\ Path(nxt, m2.b, W, Nil)
      BY <2>3, <2>15, <2>18 DEF q
    <3> QED BY <1>16, <2>8, <2>18, <2>19, <3>1 DEF Halfway
  <2>21. Len(W) + (k + 1) <= Len(r)
    <3>1. Len(B) = Len(Z) + Len(W) /\ Len(Z) \in Nat /\ Len(W) \in Nat /\ Len(Z) # 0 /\ Len(r) \in Nat
      BY <1>5, <2>3, Joined, SeqsFacts, NotEmpty
    <3>2. \A z, w, i \in Nat : z # 0 /\ (z + w) + k <= i => w + (k + 1) <= i
      OBVIOUS
    <3> QED BY <1>4, <3>1, <3>2
  <2>22. LoopAt(m2, k + 1, h, p, r)
    <3>1. m2 \in MergeStates /\ \A n \in Node : n \notin Elems(p) \cup Elems(r) => m2.next[n] = next[n]
      BY <2>16, <2>18
    <3>2. \E P2, A2, R2, B2, M2 \in Seqs :
            Halfway(m2, h, p, r, P2, A2, R2, B2, M2) /\ (B2 # << >> => Len(B2) + (k + 1) <= Len(r))
      <4>1. Halfway(m2, h, p, r, P \o X, Y, R \o Z, W, (M \o X) \o Z) /\ (W # << >> => Len(W) + (k + 1) <= Len(r))
        BY <2>20, <2>21
      <4> QED BY <2>9, <4>1, Zenon
    <3> QED BY <3>1, <3>2 DEF LoopAt
  <2> QED BY <2>10, <2>22 DEF m2
<1> QED BY <1>15, <1>16

\* A merge begins with the first nodes of the smaller front.
LEMMA PartsBegin ==
  ASSUME NEW p, NEW r, Mergeable(p, r)
  PROVE  Parts(p, r, << >>, p, << >>, r, << >>)
<1>1. p \in Seqs /\ r \in Seqs
  BY DEF Mergeable
<1>2. << >> \in Seqs /\ Len(<< >>) = 0 /\ Elems(<< >>) = {}
  BY EmptyList
<1>3. << >> \o p = p /\ << >> \o r = r
  BY <1>1, ConcatEmptySeq DEF Seqs
<1>4. Mix(<< >>, << >>, << >>)
  BY <1>2 DEF Mix, Sequence!InOrder, Ordered
<1> QED BY <1>1, <1>2, <1>3, <1>4 DEF Parts, Below

\* The head of the merged list.
MergedHead(s, o) == IF Less(stack[o].head, stack[s].head) THEN stack[o].head ELSE stack[s].head

\* Two stacks that are merged.
Merged(s, o, c) ==
  /\ Represented(next, stack, loose, c) /\ s \in Stk /\ o \in Stk /\ s # o
  /\ ~IsEmpty(s) /\ ~IsEmpty(o) /\ sortedBy(s) /\ sortedBy(o)

\* The two sequences that a merge starts from.
LEMMA MergedFacts ==
  ASSUME NEW s, NEW o, NEW c, Merged(s, o, c)
  PROVE  /\ Mergeable(c[s], c[o])
         /\ next \in Links
         /\ stack[s].head = c[s][1] /\ stack[o].head = c[o][1]
         /\ c[s][1] \in Node /\ c[o][1] \in Node /\ c[s][1] # Nil
         /\ Path(next, c[s][1], c[s], Nil) /\ Path(next, c[o][1], c[o], Nil)
<1>1. Represented(next, stack, loose, c) /\ s \in Stk /\ o \in Stk /\ s # o
  BY DEF Merged
<1>2. c[s] # << >> /\ c[o] # << >>
  BY <1>1, NodesOfRepresented DEF Merged
<1>3. c[s] \in Seqs /\ c[o] \in Seqs /\ Elems(c[s]) \cap Elems(c[o]) = {} /\ next \in Links
  BY <1>1 DEF Represented
<1>4. Ordered(c[s]) /\ Ordered(c[o])
  BY <1>1, SortedOrdered DEF Merged
<1>5. stack[s].head = c[s][1] /\ stack[o].head = c[o][1]
  BY <1>1, <1>2, RepresentedFacts
<1>6. Path(next, stack[s].head, c[s], Nil) /\ Path(next, stack[o].head, c[o], Nil)
  BY <1>1 DEF Represented
<1>7. c[s][1] \in Node /\ c[o][1] \in Node /\ c[s][1] # Nil
  BY <1>2, <1>3, NotEmpty
<1> QED BY <1>2, <1>3, <1>4, <1>5, <1>6, <1>7 DEF Mergeable

\* Inserting what precedes the start of A establishes the invariant of the loop.
LEMMA FrontStep ==
  ASSUME NEW s, NEW o, NEW c, Merged(s, o, c)
  PROVE  LoopAt(MergeFront(s, o), 0, MergedHead(s, o), c[s], c[o])
<1> DEFINE p == c[s]
           r == c[o]
           a == stack[s].head
           b == stack[o].head
<1>1. /\ Mergeable(p, r) /\ next \in Links
      /\ a = p[1] /\ b = r[1] /\ a \in Node /\ b \in Node /\ a # Nil
      /\ Path(next, a, p, Nil) /\ Path(next, b, r, Nil)
  BY MergedFacts
<1>2. MergedHead(s, o) = IF Less(b, a) THEN b ELSE a
  BY DEF MergedHead
<1>3. MergeFront(s, o) =
        IF Less(b, a)
          THEN [a |-> a, b |-> next[Advance(next, b, a)], next |-> [next EXCEPT ![Advance(next, b, a)] = a]]
          ELSE [a |-> a, b |-> b, next |-> next]
  BY DEF MergeFront
<1> HIDE DEF p, r, a, b
<1>4. p \in Seqs /\ r \in Seqs /\ p # << >> /\ r # << >> /\ Ordered(p) /\ Elems(p) \cap Elems(r) = {}
  BY <1>1 DEF Mergeable
<1>5. << >> \in Seqs /\ << >> \o p = p
  BY <1>4, EmptyList, ConcatEmptySeq DEF Seqs
<1>6. Parts(p, r, << >>, p, << >>, r, << >>)
  BY <1>1, PartsBegin
<1>7. CASE ~Less(b, a)
  <2> DEFINE m == [a |-> a, b |-> b, next |-> next]
  <2>1. m \in MergeStates /\ m.a = a /\ m.b = b /\ m.next = next
    BY <1>1 DEF MergeStates
  <2> HIDE DEF m
  <2>2. b = To(r, 1, Nil)
    BY <1>1, <1>4, NotEmpty DEF To
  <2>3. Value[p[1]] <= Value[r[1]]
    BY <1>1, <1>7, Values DEF Less
  <2>4. Halfway(m, a, p, r, << >>, p, << >>, r, << >>)
    BY <1>1, <1>4, <1>5, <1>6, <2>1, <2>2, <2>3 DEF Halfway
  <2>5. Len(r) + 0 <= Len(r)
    BY <1>4, SeqsFacts
  <2>6. \E P, A, R, B, M \in Seqs :
          Halfway(m, a, p, r, P, A, R, B, M) /\ (B # << >> => Len(B) + 0 <= Len(r))
    BY <1>4, <1>5, <2>4, <2>5, Zenon
  <2>7. LoopAt(m, 0, a, p, r)
    BY <2>1, <2>6 DEF LoopAt
  <2> QED BY <1>2, <1>3, <1>7, <2>7 DEF m, p, r
<1>8. CASE Less(b, a)
  <2>1. PICK Z \in Seqs, W \in Seqs : StopsAt(next, b, r, a, Z, W)
    BY <1>1, <1>4, AdvanceCut
  <2>2. /\ Z \o W = r /\ Elems(Z) \cap Elems(W) = {} /\ Z # << >>
        /\ Advance(next, b, a) = Z[Len(Z)]
        /\ next[Z[Len(Z)]] = To(W, 1, Nil)
        /\ W # << >> => ~Less(W[1], a)
        /\ \A n \in Elems(Z) : n = r[1] \/ Less(n, a)
    BY <2>1 DEF StopsAt
  <2>3. /\ Elems(r) = Elems(Z) \cup Elems(W) /\ Z[Len(Z)] \in Elems(Z) /\ Z[Len(Z)] \in Node
        /\ Elems(p) \subseteq Node /\ Elems(r) \subseteq Node
    BY <1>4, <2>2, Joined, NotEmpty, ElemsNodes
  <2>4. Below(Elems(Z), Elems(p))
    <3> SUFFICES ASSUME NEW n \in Elems(Z), NEW y \in Elems(p) PROVE Value[n] <= Value[y]
      BY DEF Below
    <3>1. Value[p[1]] <= Value[y]
      BY <1>4, OrderedFirst
    <3>2. Value[n] \in Int /\ Value[y] \in Int /\ Value[a] \in Int
      BY <1>1, <2>3, Values
    <3>3. Value[n] < Value[a]
      BY <1>1, <1>8, <2>2 DEF Less
    <3> QED BY <1>1, <3>1, <3>2, <3>3
  <2>5. Parts(p, r, << >>, p, Z, W, Z)
    <3>1. Parts(r, p, << >>, r, << >>, p, << >>)
      BY <1>6, PartsSymmetric
    <3>2. Mergeable(r, p)
      BY <1>1 DEF Mergeable
    <3>3. Parts(r, p, << >> \o Z, W, << >>, p, << >> \o Z)
      BY <2>2, <2>4, <3>1, <3>2, TakeFront
    <3>4. << >> \o Z = Z
      BY ConcatEmptySeq DEF Seqs
    <3> QED BY <3>3, <3>4, PartsSymmetric
  <2> DEFINE nxt == [next EXCEPT ![Z[Len(Z)]] = a]
  <2>6. nxt \in Links /\ nxt[Z[Len(Z)]] = a /\ \A n \in Node : n # Z[Len(Z)] => nxt[n] = next[n]
    BY <1>1, <2>3 DEF Links
  <2>7. MergeFront(s, o) = [a |-> a, b |-> next[Z[Len(Z)]], next |-> nxt]
    BY <1>3, <1>8, <2>2
  <2> HIDE DEF nxt
  <2>8. Path(next, b, Z, To(W, 1, Nil)) /\ Path(next, To(W, 1, Nil), W, Nil)
    <3>1. Path(next, b, Z \o W, Nil)
      BY <1>1, <2>2
    <3> QED BY <2>2, <3>1, PathJoined
  <2>9. Path(nxt, b, Z, a)
    <3>1. \A n \in Elems(Z) : n # Z[Len(Z)] => nxt[n] = next[n]
      BY <2>3, <2>6
    <3> QED BY <2>2, <2>6, <2>8, <3>1, PathRelink
  <2>10. Path(nxt, a, p, Nil) /\ Path(nxt, To(W, 1, Nil), W, Nil)
    <3>1. (\A n \in Elems(p) : nxt[n] = next[n]) /\ (\A n \in Elems(W) : nxt[n] = next[n])
      BY <1>4, <2>2, <2>3, <2>6
    <3> QED BY <1>1, <2>8, <3>1, PathFrame
  <2>11. Path(nxt, b, Z \o p, Nil)
    <3>1. a = To(p, 1, Nil) /\ Elems(Z) \cap Elems(p) = {}
      BY <1>1, <1>4, <2>3, NotEmpty DEF To
    <3> QED BY <1>4, <2>9, <2>10, <3>1, PathJoined
  <2> DEFINE m == [a |-> a, b |-> next[Z[Len(Z)]], next |-> nxt]
  <2>12. m \in MergeStates /\ m.a = a /\ m.b = To(W, 1, Nil) /\ m.next = nxt
    <3>1. next[Z[Len(Z)]] \in Node \cup {Nil}
      BY <1>1, <2>3 DEF Links
    <3> QED BY <1>1, <2>2, <2>6, <3>1 DEF MergeStates
  <2> HIDE DEF m
  <2>13. W # << >> => Value[p[1]] <= Value[W[1]]
    <3> SUFFICES ASSUME W # << >> PROVE Value[p[1]] <= Value[W[1]]
      OBVIOUS
    <3>1. W[1] \in Node /\ ~Less(W[1], a)
      BY <2>2, NotEmpty
    <3> QED BY <1>1, <3>1, Values DEF Less
  <2>14. Halfway(m, b, p, r, << >>, p, Z, W, Z)
    BY <1>1, <1>4, <2>5, <2>10, <2>11, <2>12, <2>13 DEF Halfway
  <2>15. Len(W) + 0 <= Len(r)
    <3>1. Len(r) = Len(Z) + Len(W) /\ Len(Z) \in Nat /\ Len(W) \in Nat
      BY <2>2, Joined, SeqsFacts
    <3> QED BY <3>1
  <2>16. \E P, A, R, B, M \in Seqs :
           Halfway(m, b, p, r, P, A, R, B, M) /\ (B # << >> => Len(B) + 0 <= Len(r))
    BY <1>4, <1>5, <2>14, <2>15, Zenon
  <2>17. \A n \in Node : n \notin Elems(p) \cup Elems(r) => m.next[n] = next[n]
    BY <2>3, <2>6, <2>12
  <2>18. LoopAt(m, 0, b, p, r)
    BY <2>12, <2>16, <2>17 DEF LoopAt
  <2> QED BY <1>2, <1>8, <2>7, <2>18 DEF m, p, r
<1> QED BY <1>7, <1>8

\* The bound on what is left of the other stack may be forgotten.
LEMMA LoopSooner ==
  ASSUME NEW m, NEW k \in Nat, NEW h, NEW p, NEW r \in Seqs, LoopAt(m, k, h, p, r)
  PROVE  LoopAt(m, 0, h, p, r)
<1>1. \A B \in Seqs : Len(B) + k <= Len(r) => Len(B) + 0 <= Len(r)
  <2>1. \A i, j \in Nat : i + k <= j => i + 0 <= j
    OBVIOUS
  <2> QED BY <2>1, SeqsFacts
<1> QED BY <1>1 DEF LoopAt

\* A loop that is over stays as it is in later rounds.
LEMMA LoopLater ==
  ASSUME NEW m, NEW k \in Nat, NEW h, NEW p, NEW r, LoopAt(m, k, h, p, r), ~Merging(m)
  PROVE  LoopAt(m, k + 1, h, p, r)
<1>1. ASSUME NEW P \in Seqs, NEW A \in Seqs, NEW R \in Seqs, NEW B \in Seqs, NEW M \in Seqs,
             Halfway(m, h, p, r, P, A, R, B, M)
      PROVE  B = << >>
  <2>1. m.a # Nil
    BY <1>1, NotEmpty DEF Halfway
  <2>2. m.b = Nil
    BY <2>1 DEF Merging
  <2>3. m.b = To(B, 1, Nil)
    BY <1>1 DEF Halfway
  <2> QED BY <2>2, <2>3, NotEmpty DEF To
<1> QED BY <1>1 DEF LoopAt

\* The recursive function in Merge exists, and LoopAt holds after any number of rounds.
LEMMA MergeLoop ==
  ASSUME NEW s, NEW o, NEW c, Merged(s, o, c)
  PROVE  /\ DOMAIN Merge(s, o) = 0..N
         /\ \A k \in 0..N : LoopAt(Merge(s, o)[k], k, MergedHead(s, o), c[s], c[o])
<1> DEFINE h == MergedHead(s, o)
           p == c[s]
           r == c[o]
           S == {m \in MergeStates : LoopAt(m, 0, h, p, r)}
           g == [m \in S |-> IF Merging(m) THEN MergeRound(m) ELSE m]
           x == MergeFront(s, o)
           Steps(f) == f = [k \in 0..N |->
             IF k = 0 THEN MergeFront(s, o)
             ELSE IF Merging(f[k - 1]) THEN MergeRound(f[k - 1]) ELSE f[k - 1]]
<1> HIDE DEF S, g, x, Steps, h
<1>1. Mergeable(p, r) /\ p \in Seqs /\ r \in Seqs
  <2>1. Mergeable(c[s], c[o])
    BY MergedFacts
  <2> QED BY <2>1 DEF Mergeable
<1>2. LoopAt(x, 0, h, p, r)
  BY FrontStep DEF x, h
<1> USE DEF S, g, Steps
<1> HIDE DEF h, p, r, x
<1>3. x \in S
  BY <1>2 DEF LoopAt
<1>4. ASSUME NEW m \in S PROVE (IF Merging(m) THEN MergeRound(m) ELSE m) \in S
  <2>1. CASE Merging(m)
    <3>1. LoopAt(MergeRound(m), 0 + 1, h, p, r)
      BY <1>1, <2>1, RoundStep
    <3>2. LoopAt(MergeRound(m), 0, h, p, r)
      <4>1. 0 + 1 \in Nat
        OBVIOUS
      <4> QED BY <1>1, <3>1, <4>1, LoopSooner
    <3>3. MergeRound(m) \in MergeStates
      BY <3>2 DEF LoopAt
    <3> QED BY <2>1, <3>2, <3>3
  <2>2. CASE ~Merging(m)
    BY <2>2
  <2> QED BY <2>1, <2>2
<1> HIDE DEF S
<1>5. g \in [S -> S]
  BY <1>4
<1> HIDE DEF g
<1>6. PICK f : Iterates(f, N, S, x, g)
  BY <1>3, <1>5, CountNodes, Iteration
<1>7. f \in [0..N -> S] /\ f = [k \in 0..N |-> IF k = 0 THEN x ELSE g[f[k - 1]]]
  BY <1>6, Zenon DEF Iterates
<1>8. Steps(f)
  <2> SUFFICES ASSUME NEW k \in 0..N
               PROVE  f[k] = IF k = 0 THEN MergeFront(s, o)
                             ELSE IF Merging(f[k - 1]) THEN MergeRound(f[k - 1]) ELSE f[k - 1]
    BY <1>7
  <2>1. CASE k = 0
    BY <1>7, <2>1 DEF x
  <2>2. CASE k # 0
    <3>1. k - 1 \in 0..N
      BY <2>2, CountNodes
    <3>2. f[k] = g[f[k - 1]] /\ f[k - 1] \in S
      BY <1>7, <2>2, <3>1
    <3> QED BY <2>2, <3>2 DEF g
  <2> QED BY <2>1, <2>2
<1>9. Merge(s, o) = CHOOSE f0 : Steps(f0)
  BY Zenon DEF Merge, N
<1> HIDE DEF Steps
<1>10. Steps(Merge(s, o))
  BY <1>8, <1>9, Zenon
<1> DEFINE at == Merge(s, o)
           T == {k \in 0..N : LoopAt(at[k], k, h, p, r)}
<1> HIDE DEF at
<1>11. at = [k \in 0..N |->
             IF k = 0 THEN MergeFront(s, o)
             ELSE IF Merging(at[k - 1]) THEN MergeRound(at[k - 1]) ELSE at[k - 1]]
  BY <1>10 DEF at, Steps
<1>12. 0 \in T
  <2>1. 0 \in 0..N
    BY CountNodes
  <2>2. at[0] = x
    BY <1>11, <2>1 DEF x
  <2> QED BY <1>2, <2>1, <2>2
<1>13. ASSUME NEW k \in 0..(N - 1), k \in T
       PROVE  k + 1 \in T
  <2>1. k + 1 \in 0..N /\ k + 1 # 0 /\ (k + 1) - 1 = k /\ k \in Nat
    BY CountNodes
  <2>2. at[k + 1] = IF Merging(at[k]) THEN MergeRound(at[k]) ELSE at[k]
    BY <1>11, <2>1
  <2>3. LoopAt(at[k], k, h, p, r)
    BY <1>13
  <2>4. LoopAt(at[k + 1], k + 1, h, p, r)
    BY <1>1, <2>1, <2>2, <2>3, RoundStep, LoopLater
  <2> QED BY <2>1, <2>4
<1> HIDE DEF T
<1>14. \A k \in 0..N : k \in T
  BY <1>12, <1>13, CountNodes, Climb
<1>15. DOMAIN at = 0..N
  BY <1>11
<1> QED BY <1>14, <1>15 DEF T, at, h, p, r

\* When the loop is over, the list is c[s] and c[o] merged.
MergeOver(m, h, p, r, L) ==
  /\ ~Merging(m)
  /\ m.next \in Links
  /\ \A n \in Node : n \notin Elems(p) \cup Elems(r) => m.next[n] = next[n]
  /\ L \in Seqs /\ Mix(L, p, r) /\ Path(m.next, h, L, Nil)
  /\ L[Len(L)] = IF m.b # Nil THEN r[Len(r)] ELSE p[Len(p)]

\* The loop ends within a round per node, with the merge of the two sequences.
LEMMA MergeEnd ==
  ASSUME NEW s, NEW o, NEW c, Merged(s, o, c)
  PROVE  \E L : MergeOver(Merge(s, o)[N], MergedHead(s, o), c[s], c[o], L)
<1> DEFINE h == MergedHead(s, o)
           p == c[s]
           r == c[o]
           m == Merge(s, o)[N]
<1>1. Mergeable(p, r)
  BY MergedFacts
<1>2. LoopAt(m, N, h, p, r)
  <2>1. N \in 0..N
    BY CountNodes
  <2> QED BY <2>1, MergeLoop
<1> HIDE DEF h, p, r, m
<1>3. m.next \in Links /\ \A n \in Node : n \notin Elems(p) \cup Elems(r) => m.next[n] = next[n]
  BY <1>2 DEF LoopAt, MergeStates
<1>4. CASE \E L \in Seqs : Finished(m, h, p, r, L)
  BY <1>3, <1>4 DEF Finished, Merging, MergeOver, h, p, r, m
<1>5. CASE \E P, A, R, B, M \in Seqs :
             Halfway(m, h, p, r, P, A, R, B, M) /\ (B # << >> => Len(B) + N <= Len(r))
  <2>1. PICK P \in Seqs, A \in Seqs, R \in Seqs, B \in Seqs, M \in Seqs :
             Halfway(m, h, p, r, P, A, R, B, M) /\ (B # << >> => Len(B) + N <= Len(r))
    BY <1>5
  <2>2. B = << >>
    <3> SUFFICES ASSUME B # << >> PROVE FALSE
      OBVIOUS
    <3>1. Len(B) + N <= Len(r) /\ Len(B) \in Nat /\ Len(B) # 0
      BY <2>1, SeqsFacts, NotEmpty
    <3>2. Len(r) <= N /\ Len(r) \in Nat
      BY <1>1, SeqsLen, SeqsFacts DEF Mergeable
    <3> QED BY <3>1, <3>2, CountNodes
  <2>3. /\ Parts(p, r, P, A, R, << >>, M) /\ A # << >> /\ m.b = To(<< >>, 1, Nil)
        /\ Path(m.next, h, M \o A, Nil)
    BY <2>1, <2>2 DEF Halfway
  <2>4. m.b = Nil
    BY <2>3, EmptyList DEF To
  <2>5. P \o A = p /\ Elems(P) \cap Elems(A) = {} /\ P \in Seqs
    BY <2>3 DEF Parts, Mix
  <2>6. R = r
    <3>1. R \o << >> = r
      BY <2>3 DEF Parts
    <3> QED BY <3>1, ConcatEmptySeq DEF Seqs
  <2>7. Parts(p, r, P \o A, << >>, R, << >>, M \o A)
    <3>1. A \o << >> = A /\ << >> \in Seqs /\ Elems(<< >>) = {} /\ Below(Elems(A), Elems(<< >>))
      BY EmptyList, ConcatEmptySeq DEF Seqs, Below
    <3> QED BY <1>1, <2>3, <3>1, TakeFront
  <2>8. Mix(M \o A, p, r) /\ M \o A \in Seqs
    BY <2>5, <2>6, <2>7 DEF Parts, Mix
  <2>9. (M \o A)[Len(M \o A)] = p[Len(p)]
    <3>1. p[Len(p)] = A[Len(A)]
      BY <2>3, <2>5, LastJoined
    <3>2. Elems(M) \cap Elems(A) = {}
      <4>1. Elems(M) = Elems(P) \cup Elems(R) /\ Elems(p) \cap Elems(r) = {}
        BY <1>1, <2>3 DEF Parts, Mix, Mergeable
      <4>2. Elems(p) = Elems(P) \cup Elems(A)
        BY <2>5, Joined
      <4> QED BY <2>5, <2>6, <4>1, <4>2
    <3> QED BY <2>3, <3>1, <3>2, LastJoined
  <2>10. MergeOver(m, h, p, r, M \o A)
    BY <1>3, <2>3, <2>4, <2>8, <2>9 DEF MergeOver, Merging
  <2> QED BY <2>10 DEF h, p, r, m
<1> QED BY <1>2, <1>4, <1>5 DEF LoopAt

\* A sequence is its own merge with an empty one.
LEMMA MixWithNone ==
  ASSUME NEW q \in Seqs, Ordered(q)
  PROVE  Mix(q, q, << >>) /\ Mix(q, << >>, q)
<1>1. << >> \in Seqs /\ Len(<< >>) = 0 /\ Elems(<< >>) = {} /\ << >> \o q = q
  BY EmptyList, ConcatEmptySeq DEF Seqs
<1>2. Mix(<< >>, << >>, << >>)
  BY <1>1 DEF Mix, Sequence!InOrder, Ordered
<1>3. Mix(<< >> \o q, << >> \o q, << >>)
  BY <1>1, <1>2, MixExtended DEF Below
<1> QED BY <1>1, <1>3, MixSymmetric

\* What a sorted push of a stack does.
MergedInto(s, o, c, L) ==
  /\ Mix(L, c[s], c[o]) /\ Ordered(c[s]) /\ Ordered(c[o])
  /\ Represented(next', stack', loose', [c EXCEPT ![s] = L, ![o] = << >>])
  /\ stack'[o].tail = Nil
  /\ stack[s].tail = TailOf(c[s]) /\ stack[o].tail = TailOf(c[o]) => stack'[s].tail = TailOf(L)

\* Stack::push(Stack&&, Compare) leaves the merge of the two stacks in one, and nothing in the other.
LEMMA PushSortedMovedStep ==
  ASSUME NEW c, Represented(next, stack, loose, c), NEW s \in Stk, NEW o \in Stk,
         PushSortedMoved(s, o)
  PROVE  s # o /\ loose' = loose /\ \E L \in Seqs : MergedInto(s, o, c, L)
<1>1. /\ s # o /\ loose' = loose /\ sortedBy(s) /\ sortedBy(o)
      /\ c[s] \in Seqs /\ c[o] \in Seqs /\ Elems(c[s]) \cap Elems(c[o]) = {}
      /\ next \in Links /\ stack \in Stacks
  BY DEF PushSortedMoved, MergeInto, Represented
<1>2. Ordered(c[s]) /\ Ordered(c[o])
  BY <1>1, SortedOrdered
<1>3. /\ stack[s].head \in Node \cup {Nil} /\ stack[s].tail \in Node \cup {Nil}
      /\ stack[o].head \in Node \cup {Nil} /\ stack[o].tail \in Node \cup {Nil}
      /\ stack[s].size = Len(c[s]) /\ stack[o].size = Len(c[o])
      /\ Len(c[s]) \in Nat /\ Len(c[o]) \in Nat
  BY RepresentedFacts
<1>4. /\ << >> \in Seqs /\ Len(<< >>) = 0 /\ Elems(<< >>) = {}
      /\ Empty \in [head : Node \cup {Nil}, tail : Node \cup {Nil}, size : Nat]
      /\ Empty.head = Nil /\ Empty.tail = Nil /\ Empty.size = 0
  BY EmptyList DEF Empty
<1>5. CASE IsEmpty(s)
  <2>1. /\ stack' = [stack EXCEPT ![s] = stack[o], ![o] = Empty] /\ next' = next
    BY <1>5 DEF PushSortedMoved, MergeInto
  <2>2. c[s] = << >>
    BY <1>5, NodesOfRepresented
  <2>3. /\ stack' \in Stacks /\ stack'[s] = stack[o] /\ stack'[o] = Empty
        /\ \A x \in Stk : x # s /\ x # o => stack'[x] = stack[x]
    BY <1>1, <1>4, <2>1 DEF Stacks
  <2>4. Path(next', stack'[s].head, c[o], Nil) /\ Path(next', stack'[o].head, << >>, Nil)
    BY <1>4, <2>1, <2>3, EmptyList DEF Represented
  <2>5. /\ stack'[s].size = Len(c[o]) /\ stack'[o].size = Len(<< >>)
        /\ Elems(c[o]) \cup Elems(<< >>) = Elems(c[s]) \cup Elems(c[o])
        /\ Elems(c[o]) \cap Elems(<< >>) = {}
    BY <1>3, <1>4, <2>2, <2>3
  <2>6. Represented(next', stack', loose', [c EXCEPT ![s] = c[o], ![o] = << >>])
    BY <1>1, <1>4, <2>1, <2>3, <2>4, <2>5, TwoChange
  <2>7. Mix(c[o], c[s], c[o])
    BY <1>1, <1>2, <2>2, MixWithNone
  <2>8. MergedInto(s, o, c, c[o])
    BY <1>2, <1>4, <2>3, <2>6, <2>7 DEF MergedInto
  <2> QED BY <1>1, <2>8
<1>6. CASE ~IsEmpty(s) /\ IsEmpty(o)
  <2>1. /\ stack' = [stack EXCEPT ![o] = Empty] /\ next' = next
    BY <1>6 DEF PushSortedMoved, MergeInto
  <2>2. c[o] = << >>
    BY <1>6, NodesOfRepresented
  <2>3. /\ stack' \in Stacks /\ stack'[s] = stack[s] /\ stack'[o] = Empty
        /\ \A x \in Stk : x # s /\ x # o => stack'[x] = stack[x]
    BY <1>1, <1>4, <2>1 DEF Stacks
  <2>4. Path(next', stack'[s].head, c[s], Nil) /\ Path(next', stack'[o].head, << >>, Nil)
    BY <1>4, <2>1, <2>3, EmptyList DEF Represented
  <2>5. /\ stack'[s].size = Len(c[s]) /\ stack'[o].size = Len(<< >>)
        /\ Elems(c[s]) \cup Elems(<< >>) = Elems(c[s]) \cup Elems(c[o])
        /\ Elems(c[s]) \cap Elems(<< >>) = {}
    BY <1>3, <1>4, <2>2, <2>3
  <2>6. Represented(next', stack', loose', [c EXCEPT ![s] = c[s], ![o] = << >>])
    BY <1>1, <1>4, <2>1, <2>3, <2>4, <2>5, TwoChange
  <2>7. Mix(c[s], c[s], c[o])
    BY <1>1, <1>2, <2>2, MixWithNone
  <2>8. MergedInto(s, o, c, c[s])
    BY <1>2, <1>4, <2>3, <2>6, <2>7 DEF MergedInto
  <2> QED BY <1>1, <2>8
<1>7. CASE ~IsEmpty(s) /\ ~IsEmpty(o)
  <2> DEFINE m == Merge(s, o)[N]
  <2>1. /\ next' = m.next
        /\ stack' = [stack EXCEPT
             ![s] = [head |-> IF Less(stack[o].head, @.head) THEN stack[o].head ELSE @.head,
                     tail |-> IF m.b # Nil THEN stack[o].tail ELSE @.tail,
                     size |-> @.size + stack[o].size],
             ![o] = Empty]
    BY <1>7 DEF PushSortedMoved, MergeInto, N
  <2>2. Merged(s, o, c)
    BY <1>1, <1>7 DEF Merged
  <2>3. PICK L : MergeOver(m, MergedHead(s, o), c[s], c[o], L)
    BY <2>2, MergeEnd
  <2> HIDE DEF m
  <2>4. /\ L \in Seqs /\ Mix(L, c[s], c[o]) /\ Path(m.next, MergedHead(s, o), L, Nil)
        /\ L[Len(L)] = (IF m.b # Nil THEN c[o][Len(c[o])] ELSE c[s][Len(c[s])])
        /\ m.next \in Links
        /\ \A n \in Node : n \notin Elems(c[s]) \cup Elems(c[o]) => m.next[n] = next[n]
    BY <2>3 DEF MergeOver
  <2>5. Len(L) = Len(c[s]) + Len(c[o]) /\ Elems(L) = Elems(c[s]) \cup Elems(c[o]) /\ Len(L) \in Nat
    BY <2>4, SeqsFacts DEF Mix
  <2>6. c[s] # << >> /\ c[o] # << >> /\ L # << >>
    <3>1. c[s] # << >> /\ c[o] # << >>
      BY <1>7, NodesOfRepresented
    <3>2. Len(c[s]) # 0
      BY <1>1, <3>1, NotEmpty
    <3>3. Len(L) # 0
      <4>1. \A i, j \in Nat : i # 0 => i + j # 0
        OBVIOUS
      <4> QED BY <1>3, <2>5, <3>2, <4>1
    <3>4. L # << >>
      BY <1>4, <3>3
    <3> QED BY <3>1, <3>4
  <2>7. /\ stack' \in Stacks /\ stack'[s].head = MergedHead(s, o) /\ stack'[s].size = Len(L)
        /\ stack'[s].tail = (IF m.b # Nil THEN stack[o].tail ELSE stack[s].tail)
        /\ stack'[o] = Empty
        /\ \A x \in Stk : x # s /\ x # o => stack'[x] = stack[x]
    <3> DEFINE rec == [head |-> MergedHead(s, o),
                       tail |-> IF m.b # Nil THEN stack[o].tail ELSE stack[s].tail,
                       size |-> stack[s].size + stack[o].size]
    <3>1. stack[s].size + stack[o].size = Len(L)
      BY <1>3, <2>5
    <3>2. MergedHead(s, o) \in Node \cup {Nil}
      BY <1>3 DEF MergedHead
    <3>3. /\ rec \in [head : Node \cup {Nil}, tail : Node \cup {Nil}, size : Nat]
          /\ rec.head = MergedHead(s, o) /\ rec.size = Len(L)
          /\ rec.tail = (IF m.b # Nil THEN stack[o].tail ELSE stack[s].tail)
      BY <1>3, <2>5, <3>1, <3>2
    <3>4. stack' = [stack EXCEPT ![s] = rec, ![o] = Empty]
      BY <1>1, <2>1 DEF Stacks, MergedHead
    <3> HIDE DEF rec
    <3> QED BY <1>1, <1>4, <3>3, <3>4 DEF Stacks
  <2>8. Path(next', stack'[s].head, L, Nil) /\ Path(next', stack'[o].head, << >>, Nil)
    BY <1>4, <2>1, <2>4, <2>7, EmptyList
  <2>9. /\ stack'[o].size = Len(<< >>) /\ next' \in Links
        /\ \A n \in Node : n \notin Elems(c[s]) \cup Elems(c[o]) => next'[n] = next[n]
    BY <1>4, <2>1, <2>4, <2>7
  <2>10. Elems(L) \cup Elems(<< >>) = Elems(c[s]) \cup Elems(c[o]) /\ Elems(L) \cap Elems(<< >>) = {}
    BY <1>4, <2>5
  <2>11. Represented(next', stack', loose', [c EXCEPT ![s] = L, ![o] = << >>])
    BY <1>1, <1>4, <2>4, <2>7, <2>8, <2>9, <2>10, TwoChange
  <2>12. stack[s].tail = TailOf(c[s]) /\ stack[o].tail = TailOf(c[o]) => stack'[s].tail = TailOf(L)
    BY <2>4, <2>6, <2>7 DEF TailOf
  <2>13. MergedInto(s, o, c, L)
    BY <1>2, <1>4, <2>4, <2>7, <2>11, <2>12 DEF MergedInto
  <2> QED BY <1>1, <2>4, <2>13
<1> QED BY <1>5, <1>6, <1>7

-----------------------------------------------------------------------------
(* The inductive invariant                                                 *)

\* The nodes of each stack, as an Iterator visits them.
Content == [s \in Stk |-> NodesOf(s)]

\* The stacks are the sequences an iteration visits, and they share no nodes.
Linked == Represented(next, stack, loose, Content)

\* Only one family of sequences represents a state: the one Iterators visit.
LEMMA ContentOf ==
  \A c : Represented(next, stack, loose, c) => c = Content
<1> SUFFICES ASSUME NEW c, Represented(next, stack, loose, c) PROVE c = Content
  OBVIOUS
<1>1. \A s \in Stk : NodesOf(s) = c[s]
  BY NodesOfRepresented
<1>2. c = [s \in Stk |-> c[s]]
  BY DEF Represented
<1> QED BY <1>1, <1>2 DEF Content

\* So a representation of the next state is its Linked.
LEMMA ContentNext ==
  ASSUME NEW d, Represented(next', stack', loose', d)
  PROVE  Linked' /\ Content' = d
<1>1. (\A c : Represented(next, stack, loose, c) => c = Content)'
  BY ContentOf, PTL
<1>2. d = Content'
  BY <1>1
<1> QED BY <1>2 DEF Linked

\* Empty stacks are linked.
LEMMA InitLinked == Init => Linked
<1> SUFFICES ASSUME Init PROVE Linked
  OBVIOUS
<1> DEFINE c == [s \in Stk |-> << >>]
<1>1. << >> \in Seqs /\ Len(<< >>) = 0 /\ Elems(<< >>) = {} /\ Path(next, Nil, << >>, Nil)
  BY EmptyList
<1>2. c \in [Stk -> Seqs] /\ \A s \in Stk : c[s] = << >>
  BY <1>1
<1> HIDE DEF c
<1>3. next \in Links /\ stack \in Stacks /\ loose = Node /\ \A s \in Stk : stack[s].head = Nil /\ stack[s].size = 0
  BY DEF Init, Empty, Links, Stacks
<1>4. Represented(next, stack, loose, c)
  BY <1>1, <1>2, <1>3 DEF Represented
<1>5. c = Content
  BY <1>4, ContentOf
<1> QED BY <1>4, <1>5 DEF Linked

\* Stack::push(Node*) keeps Linked and is PushFront of the sequences.
LEMMA PushMaps ==
  ASSUME Linked, NEW s \in Stk, NEW n \in Node, Push(s, n)
  PROVE  Linked' /\ Sequence!PushFront(s, n)
<1>1. n \in loose /\ PushFront(s, n) /\ loose' = loose \ {n}
  BY DEF Push
<1>2. Represented(next', stack', loose', [Content EXCEPT ![s] = <<n>> \o Content[s]])
  BY <1>1, PushFrontStep DEF Linked
<1>3. Linked' /\ Content' = [Content EXCEPT ![s] = <<n>> \o Content[s]]
  BY <1>2, ContentNext
<1> QED BY <1>1, <1>3 DEF Sequence!PushFront, Sequence!Put, Content

\* Stack::push(Node*, Compare) keeps Linked and is PushSorted of the sequences.
LEMMA PushSortedMaps ==
  ASSUME Linked, NEW s \in Stk, NEW n \in Node, PushSorted(s, n)
  PROVE  Linked' /\ Sequence!PushSorted(s, n)
<1>1. /\ n \in loose /\ loose' = loose \ {n} /\ Ordered(Content[s])
      /\ \E i \in 0..Len(Content[s]) :
           /\ Fits(Content[s], i, n)
           /\ Represented(next', stack', loose', [Content EXCEPT ![s] = Inserted(Content[s], i, n)])
  BY PushSortedStep DEF Linked
<1>2. PICK i \in 0..Len(Content[s]) :
           /\ Fits(Content[s], i, n)
           /\ Represented(next', stack', loose', [Content EXCEPT ![s] = Inserted(Content[s], i, n)])
  BY <1>1
<1>3. Linked' /\ Content' = [Content EXCEPT ![s] = Inserted(Content[s], i, n)]
  BY <1>2, ContentNext
<1>4. Inserted(Content[s], i, n) = Sequence!InsertAt(Content[s], i + 1, n)
  <2>1. (i + 1) - 1 = i
    BY <1>2
  <2> QED BY <2>1 DEF Inserted, Sequence!InsertAt
<1>5. Content' = [Content EXCEPT ![s] = Sequence!InsertAt(Content[s], i + 1, n)]
  BY <1>3, <1>4
<1>6. Sequence!Put(s, Sequence!InsertAt(Content[s], i + 1, n), n)
  BY <1>1, <1>5 DEF Sequence!Put, Content
<1>7. Sequence!PushSorted(s, n)
  BY <1>1, <1>2, <1>6, Zenon DEF Sequence!PushSorted, Sequence!Sorted, Ordered, Fits, Content
<1> QED BY <1>3, <1>7

\* Stack::pop keeps Linked and is Pop of the sequences.
LEMMA PopMaps ==
  ASSUME Linked, NEW s \in Stk, Pop(s)
  PROVE  Linked' /\ Sequence!Pop(s)
<1>1. /\ Content[s] # << >> /\ loose' = loose \cup {Content[s][1]}
      /\ Represented(next', stack', loose', [Content EXCEPT ![s] = Tail(Content[s])])
  BY PopStep DEF Linked
<1>2. Linked' /\ Content' = [Content EXCEPT ![s] = Tail(Content[s])]
  BY <1>1, ContentNext
<1>3. Content[s] \in Seq(Node)
  BY DEF Linked, Represented, Seqs
<1>4. Content[s][1] = Head(Content[s])
  BY <1>1, <1>3
<1>5. Sequence!Pop(s)
  BY <1>1, <1>2, <1>4 DEF Sequence!Pop, Content
<1> QED BY <1>2, <1>5

\* Stack::swap keeps Linked and is Exchange of the sequences.
LEMMA SwapMaps ==
  ASSUME Linked, NEW s \in Stk, NEW o \in Stk, Swap(s, o)
  PROVE  Linked' /\ Sequence!Exchange(s, o)
<1>1. s # o /\ Exchange(s, o) /\ next' = next /\ loose' = loose
  BY DEF Swap
<1>2. Represented(next', stack', loose', [Content EXCEPT ![s] = Content[o], ![o] = Content[s]])
  BY <1>1, ExchangeStep DEF Linked
<1>3. Linked' /\ Content' = [Content EXCEPT ![s] = Content[o], ![o] = Content[s]]
  BY <1>2, ContentNext
<1> QED BY <1>1, <1>3 DEF Sequence!Exchange, Content

\* Stack::popStack keeps Linked and is Split of the sequences.
LEMMA PopStackMaps ==
  ASSUME Linked, NEW s \in Stk, NEW o \in Stk, NEW count \in Counts, PopStack(s, o, count)
  PROVE  Linked' /\ Sequence!Split(s, o)
<1>1. count \in Nat
  BY ValueAssumption
<1>2. /\ s # o /\ Content[o] = << >> /\ loose' = loose
      /\ \E k \in 0..Len(Content[s]) :
           Represented(next', stack', loose',
                       [Content EXCEPT ![o] = SubSeq(Content[s], 1, k),
                                       ![s] = SubSeq(Content[s], k + 1, Len(Content[s]))])
  BY <1>1, PopStackStep, Zenon DEF Linked, SplitAt
<1>3. PICK k \in 0..Len(Content[s]) :
           Represented(next', stack', loose',
                       [Content EXCEPT ![o] = SubSeq(Content[s], 1, k),
                                       ![s] = SubSeq(Content[s], k + 1, Len(Content[s]))])
  BY <1>2
<1>4. /\ Linked'
      /\ Content' = [Content EXCEPT ![o] = SubSeq(Content[s], 1, k),
                                    ![s] = SubSeq(Content[s], k + 1, Len(Content[s]))]
  BY <1>3, ContentNext
<1>5. Content' = [Content EXCEPT ![o] = SubSeq(Content[s], 1, k),
                                 ![s] = SubSeq(@, k + 1, Len(@))]
  BY <1>2, <1>4 DEF Content
<1> QED BY <1>2, <1>4, <1>5 DEF Sequence!Split, Content

\* Stack::push(Stack&&, Compare) keeps Linked and is Merge of the sequences.
LEMMA PushSortedMovedMaps ==
  ASSUME Linked, NEW s \in Stk, NEW o \in Stk, PushSortedMoved(s, o)
  PROVE  /\ Linked' /\ Sequence!Merge(s, o) /\ s # o
         /\ stack'[o].tail = TailOf(Content'[o])
         /\ stack[s].tail = TailOf(Content[s]) /\ stack[o].tail = TailOf(Content[o]) =>
              stack'[s].tail = TailOf(Content'[s])
<1>1. s # o /\ loose' = loose /\ \E L \in Seqs : MergedInto(s, o, Content, L)
  BY PushSortedMovedStep DEF Linked
<1>2. PICK L \in Seqs : MergedInto(s, o, Content, L)
  BY <1>1
<1>3. Linked' /\ Content' = [Content EXCEPT ![s] = L, ![o] = << >>]
  BY <1>2, ContentNext DEF MergedInto
<1>4. Content'[s] = L /\ Content'[o] = << >>
  BY <1>1, <1>3 DEF Content
<1>5. Sequence!Splice(s, o, Content'[s])
  BY <1>1, <1>3, <1>4 DEF Sequence!Splice, Content
<1>6. /\ Sequence!Sorted(Content[s]) /\ Sequence!Sorted(Content[o]) /\ Sequence!Sorted(Content'[s])
      /\ Len(Content'[s]) = Len(Content[s]) + Len(Content[o])
      /\ Sequence!InOrder(Content[s], Content'[s]) /\ Sequence!InOrder(Content[o], Content'[s])
  BY <1>2, <1>4 DEF MergedInto, Mix, Sequence!Sorted, Ordered
<1>7. Sequence!Merge(s, o)
  BY <1>5, <1>6, Zenon DEF Sequence!Merge, Content
<1>8. /\ stack'[o].tail = TailOf(Content'[o])
      /\ stack[s].tail = TailOf(Content[s]) /\ stack[o].tail = TailOf(Content[o]) =>
           stack'[s].tail = TailOf(Content'[s])
  BY <1>2, <1>4 DEF MergedInto, TailOf
<1> QED BY <1>1, <1>3, <1>7, <1>8

\* Stack::pushBack(Node*) on a stack with an exact tail keeps Linked and is PushBack of the sequences.
LEMMA PushBackMaps ==
  ASSUME Linked, NEW s \in Stk, NEW n \in Node, TailExact(s), PushBack(s, n)
  PROVE  Linked' /\ Sequence!PushBack(s, n)
<1>1. Represented(next', stack', loose', [Content EXCEPT ![s] = Content[s] \o <<n>>])
  BY PushBackStep DEF Linked
<1>2. Linked' /\ Content' = [Content EXCEPT ![s] = Content[s] \o <<n>>]
  BY <1>1, ContentNext
<1>3. n \in loose /\ loose' = loose \ {n}
  BY DEF PushBack
<1> QED BY <1>2, <1>3 DEF Sequence!PushBack, Sequence!Put, Content

\* Stack::push(Stack&) of a stack with an exact tail keeps Linked and is SpliceFront of the sequences.
LEMMA PushStackMaps ==
  ASSUME Linked, NEW s \in Stk, NEW o \in Stk, TailExact(o), PushStack(s, o)
  PROVE  Linked' /\ Sequence!SpliceFront(s, o)
<1>1. s # o /\ SpliceFront(s, o) /\ loose' = loose
  BY DEF PushStack
<1>2. Represented(next', stack', loose', [Content EXCEPT ![s] = Content[o] \o Content[s], ![o] = << >>])
  BY <1>1, SpliceFrontStep DEF Linked
<1>3. Linked' /\ Content' = [Content EXCEPT ![s] = Content[o] \o Content[s], ![o] = << >>]
  BY <1>2, ContentNext
<1> QED BY <1>1, <1>3 DEF Sequence!SpliceFront, Sequence!Splice, Content

\* Stack::pushBack(Stack&) on stacks with exact tails keeps Linked and is SpliceBack of the sequences.
LEMMA PushBackStackMaps ==
  ASSUME Linked, NEW s \in Stk, NEW o \in Stk, TailExact(s), TailExact(o), PushBackStack(s, o)
  PROVE  Linked' /\ Sequence!SpliceBack(s, o)
<1>1. Represented(next', stack', loose', [Content EXCEPT ![s] = Content[s] \o Content[o], ![o] = << >>])
  BY PushBackStackStep DEF Linked
<1>2. Linked' /\ Content' = [Content EXCEPT ![s] = Content[s] \o Content[o], ![o] = << >>]
  BY <1>1, ContentNext
<1>3. s # o /\ loose' = loose
  BY DEF PushBackStack
<1> QED BY <1>2, <1>3 DEF Sequence!SpliceBack, Sequence!Splice, Content

\* A step that changes no variable changes no sequence.
LEMMA StutterMaps ==
  ASSUME Linked, UNCHANGED vars
  PROVE  Linked' /\ UNCHANGED Sequence!vars
<1>1. Represented(next', stack', loose', Content)
  BY SameRepresented DEF Linked
<1>2. Linked' /\ Content' = Content
  BY <1>1, ContentNext
<1>3. loose' = loose
  BY DEF vars
<1> QED BY <1>2, <1>3 DEF Sequence!vars, Content

\* Every step of a client that never lets a wrong m_tail be read keeps Linked and is a step of StackSeq.
LEMMA StepMaps ==
  ASSUME Linked, [TidyNext]_vars
  PROVE  Linked' /\ [Sequence!Next]_(Sequence!vars)
<1>1. ASSUME NEW s \in Stk, NEW n \in Node, Push(s, n) \/ PushSorted(s, n)
      PROVE  Linked' /\ Sequence!Next
  <2>1. Linked' /\ (Sequence!PushFront(s, n) \/ Sequence!PushSorted(s, n))
    BY <1>1, PushMaps, PushSortedMaps
  <2> QED BY <2>1 DEF Sequence!Next
<1>2. ASSUME NEW s \in Stk, Pop(s)
      PROVE  Linked' /\ Sequence!Next
  <2>1. Linked' /\ Sequence!Pop(s)
    BY <1>2, PopMaps
  <2> QED BY <2>1 DEF Sequence!Next
<1>3. ASSUME NEW s \in Stk, NEW o \in Stk, Swap(s, o) \/ PushSortedMoved(s, o)
      PROVE  Linked' /\ Sequence!Next
  <2>1. Linked' /\ (Sequence!Exchange(s, o) \/ Sequence!Merge(s, o))
    BY <1>3, SwapMaps, PushSortedMovedMaps
  <2> QED BY <2>1 DEF Sequence!Next
<1>4. ASSUME NEW s \in Stk, NEW o \in Stk, NEW count \in Counts, PopStack(s, o, count)
      PROVE  Linked' /\ Sequence!Next
  <2>1. Linked' /\ Sequence!Split(s, o)
    BY <1>4, PopStackMaps
  <2> QED BY <2>1 DEF Sequence!Next
<1>5. ASSUME NEW s \in Stk, NEW n \in Node, TailExact(s), PushBack(s, n)
      PROVE  Linked' /\ Sequence!Next
  <2>1. Linked' /\ Sequence!PushBack(s, n)
    BY <1>5, PushBackMaps
  <2> QED BY <2>1 DEF Sequence!Next
<1>6. ASSUME NEW s \in Stk, NEW o \in Stk, TailExact(o), PushStack(s, o)
      PROVE  Linked' /\ Sequence!Next
  <2>1. Linked' /\ Sequence!SpliceFront(s, o)
    BY <1>6, PushStackMaps
  <2> QED BY <2>1 DEF Sequence!Next
<1>7. ASSUME NEW s \in Stk, NEW o \in Stk, TailExact(s), TailExact(o), PushBackStack(s, o)
      PROVE  Linked' /\ Sequence!Next
  <2>1. Linked' /\ Sequence!SpliceBack(s, o)
    BY <1>7, PushBackStackMaps
  <2> QED BY <2>1 DEF Sequence!Next
<1>8. CASE UNCHANGED vars
  BY <1>8, StutterMaps
<1> QED BY <1>1, <1>2, <1>3, <1>4, <1>5, <1>6, <1>7, <1>8 DEF TidyNext, Untailed

\* The inductive invariant: as long as no wrong m_tail is read, every stack of
\* splice-pool.hpp is a chain of distinct nodes that ends in nullptr, as long as
\* its m_size, and every node is in one chain or with the client.
THEOREM TidyLinked == TidySpec => []Linked
<1>1. Linked /\ [TidyNext]_vars => Linked'
  BY StepMaps
<1> QED BY <1>1, InitLinked, PTL DEF TidySpec

-----------------------------------------------------------------------------
(* What follows from it                                                    *)

\* What Linked says of one stack.
LEMMA LinkedFacts ==
  ASSUME Linked, NEW s \in Stk
  PROVE  /\ NodesOf(s) = Content[s] /\ NodesOf(s) \in Seqs
         /\ stack[s].size = Len(NodesOf(s)) /\ Members(s) = Elems(NodesOf(s))
         /\ TailExact(s) <=> stack[s].tail = TailOf(Content[s])
<1>1. NodesOf(s) = Content[s]
  BY DEF Content
<1>2. Content[s] \in Seqs /\ stack[s].size = Len(Content[s])
  BY DEF Linked, Represented
<1>3. Members(s) = Elems(NodesOf(s))
  BY DEF Members, Elems
<1>4. TailExact(s) <=> stack[s].tail = TailOf(Content[s])
  BY <1>1, Zenon DEF TailExact, TailOf
<1> QED BY <1>1, <1>2, <1>3, <1>4

\* Heads, tails, sizes and links of the stacks keep their types.
THEOREM StackTypes == TidySpec => []TypeOK
<1>1. Linked => TypeOK
  BY DEF Linked, Represented, Links, Stacks, TypeOK
<1> QED BY <1>1, TidyLinked, PTL

\* m_size is the number of nodes an Iterator visits, and no chain is cyclic,
\* after any operations of a client that never lets a wrong m_tail be read.
THEOREM StackSizes == TidySpec => []SizeExact
<1>1. ASSUME Linked PROVE SizeExact
  BY <1>1, LinkedFacts, SeqsLen DEF SizeExact, N
<1> QED BY <1>1, TidyLinked, PTL

\* No operation leaves a node on two stacks, or on a stack and with the client:
\* what push, popStack and the merge take from one stack is gone from it.
THEOREM StacksApart == TidySpec => []NoSharing
<1>1. ASSUME Linked PROVE NoSharing
  <2>1. \A s \in Stk : Members(s) = Elems(Content[s])
    BY <1>1, LinkedFacts
  <2> QED BY <1>1, <2>1 DEF NoSharing, Linked, Represented
<1> QED BY <1>1, TidyLinked, PTL

\* No operation drops a node: each is on a stack or with the client.
THEOREM StacksKeepNodes == TidySpec => []NodesKept
<1>1. ASSUME Linked PROVE NodesKept
  <2>1. \A s \in Stk : Members(s) = Elems(Content[s]) /\ Elems(Content[s]) \subseteq Node
    BY <1>1, LinkedFacts, ElemsNodes
  <2>2. loose \subseteq Node /\ \A n \in Node : n \in loose \/ \E s \in Stk : n \in Elems(Content[s])
    BY <1>1 DEF Linked, Represented
  <2> QED BY <2>1, <2>2 DEF NodesKept
<1> QED BY <1>1, TidyLinked, PTL

\* Relinking implements sequences: every operation of Stack does to the sequences
\* of nodes what its name promises; the sorted pushes insert and merge in order.
THEOREM StacksAreSequences == TidySpec => ImplementsSequences
<1>1. Init => Sequence!Init
  <2> SUFFICES ASSUME Init PROVE Sequence!Init
    OBVIOUS
  <2>1. Linked
    BY InitLinked
  <2>2. \A s \in Stk : NodesOf(s) = << >>
    <3> SUFFICES ASSUME NEW s \in Stk PROVE NodesOf(s) = << >>
      OBVIOUS
    <3>1. NodesOf(s) \in Seqs /\ Len(NodesOf(s)) = 0
      BY <2>1, LinkedFacts DEF Init, Empty
    <3> QED BY <3>1, NotEmpty
  <2> QED BY <2>2 DEF Init, Sequence!Init
<1>2. Linked /\ [TidyNext]_vars => [Sequence!Next]_(Sequence!vars)
  BY StepMaps
<1> QED BY <1>1, <1>2, TidyLinked, PTL DEF TidySpec, ImplementsSequences, Sequence!Spec

-----------------------------------------------------------------------------
(* A client that never sorts                                               *)

\* The tails are exact, too.  A client that never sorts keeps them so.
Exact(nxt, stk, lse, c) ==
  /\ Represented(nxt, stk, lse, c)
  /\ \A s \in Stk : stk[s].tail = TailOf(c[s])

\* TailExact, in terms of the sequences.
LEMMA TailsOf ==
  Linked => \A x \in Stk : TailExact(x) <=> stack[x].tail = TailOf(Content[x])
BY LinkedFacts

\* Before the first operation all stacks are empty.
LEMMA InitExact == Init => Exact(next, stack, loose, [s \in Stk |-> << >>])
<1> SUFFICES ASSUME Init PROVE Exact(next, stack, loose, [s \in Stk |-> << >>])
  OBVIOUS
<1>1. Linked
  BY InitLinked
<1>2. \A s \in Stk : Content[s] = << >>
  <2> SUFFICES ASSUME NEW s \in Stk PROVE Content[s] = << >>
    OBVIOUS
  <2>1. Content[s] \in Seqs /\ Len(Content[s]) = 0
    BY <1>1, LinkedFacts DEF Init, Empty
  <2> QED BY <2>1, NotEmpty
<1>3. Content = [s \in Stk |-> << >>]
  BY <1>2 DEF Content
<1>4. \A s \in Stk : stack[s].tail = Nil
  BY DEF Init, Empty
<1> QED BY <1>1, <1>3, <1>4 DEF Exact, Linked, TailOf

\* Stack::push(Node*) puts the node in front.
LEMMA PushExact ==
  ASSUME NEW c, Exact(next, stack, loose, c), NEW s \in Stk, NEW n, Push(s, n)
  PROVE  /\ n \in loose /\ loose' = loose \ {n}
         /\ Exact(next', stack', loose', [c EXCEPT ![s] = <<n>> \o c[s]])
<1> DEFINE q == c[s]
           d == [c EXCEPT ![s] = <<n>> \o c[s]]
<1>1. Represented(next, stack, loose, c) /\ n \in loose /\ loose' = loose \ {n}
  BY DEF Exact, Push
<1>2. Represented(next', stack', loose', d)
  BY <1>1, PushFrontStep DEF Push
<1>3. \A x \in Stk : x # s => stack'[x] = stack[x] /\ d[x] = c[x]
  BY <1>1 DEF Push, PushFront, Represented, Stacks
<1>4. d[s] = <<n>> \o q /\ stack'[s].tail = IF stack[s].size = 0 THEN n ELSE stack[s].tail
  BY <1>1 DEF Push, PushFront, Represented, Stacks
<1>5. q \in Seqs /\ stack[s].size = Len(q) /\ n \in Node /\ Elems(q) \cap loose = {} /\ stack[s].tail = TailOf(q)
  BY <1>1 DEF Represented, Exact
<1> HIDE DEF q, d
<1>6. /\ <<n>> \in Seqs /\ Elems(<<n>>) = {n} /\ Len(<<n>>) = 1 /\ <<n>>[1] = n
      /\ <<n>> \o << >> = <<n>>
  BY <1>5, Single, ConcatEmptySeq DEF Seqs
<1>7. stack'[s].tail = TailOf(<<n>> \o q)
  <2>1. CASE q = << >>
    <3>1. stack'[s].tail = n
      BY <1>4, <1>5, <2>1, NotEmpty
    <3>2. <<n>> # << >> /\ TailOf(<<n>>) = n
      BY <1>6, NotEmpty DEF TailOf
    <3> QED BY <1>6, <2>1, <3>1, <3>2
  <2>2. CASE q # << >>
    <3>1. stack'[s].tail = q[Len(q)]
      BY <1>4, <1>5, <2>2, NotEmpty DEF TailOf
    <3>2. (<<n>> \o q)[Len(<<n>> \o q)] = q[Len(q)] /\ <<n>> \o q # << >>
      BY <1>1, <1>5, <1>6, <2>2, LastJoined
    <3> QED BY <3>1, <3>2 DEF TailOf
  <2> QED BY <2>1, <2>2
<1>8. \A x \in Stk : stack'[x].tail = TailOf(d[x])
  BY <1>3, <1>4, <1>7 DEF Exact
<1> QED BY <1>1, <1>2, <1>8 DEF d, Exact

\* Stack::pop gives the first node to the client.
LEMMA PopExact ==
  ASSUME NEW c, Exact(next, stack, loose, c), NEW s \in Stk, Pop(s)
  PROVE  /\ c[s] # << >> /\ loose' = loose \cup {c[s][1]}
         /\ Exact(next', stack', loose', [c EXCEPT ![s] = Tail(c[s])])
<1> DEFINE q == c[s]
           d == [c EXCEPT ![s] = Tail(c[s])]
<1>1. Represented(next, stack, loose, c)
  BY DEF Exact
<1>2. q # << >> /\ loose' = loose \cup {q[1]} /\ Represented(next', stack', loose', d)
  BY <1>1, PopStep
<1>3. \A x \in Stk : x # s => stack'[x] = stack[x] /\ d[x] = c[x]
  BY <1>1 DEF Pop, Represented, Stacks
<1>4. d[s] = Tail(q) /\ stack'[s].tail = IF stack[s].size = 1 THEN Nil ELSE stack[s].tail
  BY <1>1 DEF Pop, PoppedTail, Represented, Stacks
<1>5. q \in Seqs /\ stack[s].size = Len(q) /\ stack[s].tail = TailOf(q)
  BY <1>1 DEF Represented, Exact
<1>9. d[s] \in Seqs
  BY <1>2 DEF Represented
<1> HIDE DEF q, d
<1>10. Tail(q) \in Seqs
  BY <1>4, <1>9
<1>6. Len(q) \in Nat \ {0} /\ Len(Tail(q)) = Len(q) - 1 /\ \A i \in 1..(Len(q) - 1) : Tail(q)[i] = q[i + 1]
  BY <1>2, <1>5, HeadTailProperties, NotEmpty, SeqsFacts DEF Seqs
<1>7. stack'[s].tail = TailOf(Tail(q))
  <2>1. CASE Len(q) = 1
    <3>1. Len(Tail(q)) = 0
      BY <1>6, <2>1
    <3>2. Tail(q) = << >>
      BY <1>10, <3>1, NotEmpty
    <3> QED BY <1>4, <1>5, <2>1, <3>2 DEF TailOf
  <2>2. CASE Len(q) # 1
    <3>1. Tail(q) # << >> /\ Len(q) - 1 \in 1..(Len(q) - 1) /\ (Len(q) - 1) + 1 = Len(q)
      BY <1>4, <1>6, <1>10, <2>2, NotEmpty
    <3>2. Tail(q)[Len(Tail(q))] = q[Len(q)]
      BY <1>6, <3>1
    <3> QED BY <1>2, <1>4, <1>5, <2>2, <3>1, <3>2 DEF TailOf
  <2> QED BY <2>1, <2>2
<1>8. \A x \in Stk : stack'[x].tail = TailOf(d[x])
  BY <1>3, <1>4, <1>7 DEF Exact
<1> QED BY <1>2, <1>8 DEF d, q, Exact

\* Stack::push(Stack&) puts the other stack in front.
LEMMA PushStackExact ==
  ASSUME NEW c, Exact(next, stack, loose, c), NEW s \in Stk, NEW o \in Stk, PushStack(s, o)
  PROVE  /\ s # o /\ loose' = loose
         /\ Exact(next', stack', loose', [c EXCEPT ![s] = c[o] \o c[s], ![o] = << >>])
<1> DEFINE q == c[s]
           r == c[o]
           d == [c EXCEPT ![s] = c[o] \o c[s], ![o] = << >>]
<1>1. Represented(next, stack, loose, c) /\ s # o /\ loose' = loose /\ SpliceFront(s, o)
  BY DEF Exact, PushStack
<1>2. TailExact(o)
  BY <1>1, NodesOfRepresented, Zenon DEF TailExact, TailOf, Exact
<1>3. Represented(next', stack', loose', d)
  BY <1>1, <1>2, SpliceFrontStep
<1>4. d[s] = r \o q /\ d[o] = << >> /\ \A x \in Stk : x # s /\ x # o => d[x] = c[x]
  BY <1>1 DEF Represented
<1>5. /\ q \in Seqs /\ r \in Seqs /\ Elems(r) \cap Elems(q) = {}
      /\ stack[s].tail = TailOf(q) /\ stack[o].tail = TailOf(r)
      /\ stack[s].size = 0 <=> q = << >>
      /\ stack[o].head = Nil <=> r = << >>
  <2>1. stack[s].size = 0 <=> q = << >>
    BY <1>1, RepresentedFacts
  <2>2. stack[o].head = Nil <=> r = << >>
    BY <1>1, RepresentedFacts
  <2> QED BY <1>1, <2>1, <2>2 DEF Represented, Exact
<1> HIDE DEF q, r, d
<1>6. stack \in Stacks
  BY <1>1 DEF Represented
<1>7. CASE r = << >>
  <2>1. stack' = stack
    BY <1>1, <1>5, <1>7 DEF SpliceFront, IsEmpty
  <2>2. r \o q = q
    BY <1>5, <1>7, ConcatEmptySeq DEF Seqs
  <2>3. \A x \in Stk : stack'[x].tail = TailOf(d[x])
    BY <1>4, <1>5, <1>7, <2>1, <2>2 DEF Exact
  <2> QED BY <1>1, <1>3, <2>3 DEF d, Exact
<1>8. CASE r # << >>
  <2>1. /\ stack'[s].tail = IF q = << >> THEN stack[o].tail ELSE stack[s].tail
        /\ stack'[o].tail = Nil
        /\ \A x \in Stk : x # s /\ x # o => stack'[x] = stack[x]
    BY <1>1, <1>5, <1>6, <1>8 DEF SpliceFront, IsEmpty, Empty, Stacks
  <2>2. stack'[s].tail = TailOf(r \o q)
    <3>1. CASE q = << >>
      <4>1. r \o q = r
        BY <1>5, <3>1, ConcatEmptySeq DEF Seqs
      <4> QED BY <1>5, <2>1, <3>1, <4>1
    <3>2. CASE q # << >>
      <4>1. (r \o q)[Len(r \o q)] = q[Len(q)] /\ r \o q # << >>
        BY <1>5, <3>2, LastJoined
      <4> QED BY <1>5, <2>1, <3>2, <4>1 DEF TailOf
    <3> QED BY <3>1, <3>2
  <2>3. \A x \in Stk : stack'[x].tail = TailOf(d[x])
    BY <1>4, <2>1, <2>2 DEF Exact, TailOf
  <2> QED BY <1>1, <1>3, <2>3 DEF d, Exact
<1> QED BY <1>7, <1>8

\* Stack::swap exchanges the sequences.
LEMMA SwapExact ==
  ASSUME NEW c, Exact(next, stack, loose, c), NEW s \in Stk, NEW o \in Stk, Swap(s, o)
  PROVE  /\ s # o /\ loose' = loose
         /\ Exact(next', stack', loose', [c EXCEPT ![s] = c[o], ![o] = c[s]])
<1> DEFINE d == [c EXCEPT ![s] = c[o], ![o] = c[s]]
<1>1. Represented(next, stack, loose, c) /\ s # o /\ next' = next /\ loose' = loose /\ Exchange(s, o)
  BY DEF Exact, Swap
<1>2. Represented(next', stack', loose', d)
  BY <1>1, ExchangeStep
<1>3. d[s] = c[o] /\ d[o] = c[s] /\ \A x \in Stk : x # s /\ x # o => d[x] = c[x]
  BY <1>1 DEF Represented
<1>4. stack'[s] = stack[o] /\ stack'[o] = stack[s] /\ \A x \in Stk : x # s /\ x # o => stack'[x] = stack[x]
  BY <1>1 DEF Represented, Exchange, Stacks
<1> HIDE DEF d
<1>5. \A x \in Stk : stack'[x].tail = TailOf(d[x])
  BY <1>3, <1>4 DEF Exact
<1> QED BY <1>1, <1>2, <1>5 DEF d, Exact

\* Stack::popStack gives the other stack the first count nodes, or all there are.
LEMMA PopStackExact ==
  ASSUME NEW c, Exact(next, stack, loose, c), NEW s \in Stk, NEW o \in Stk,
         NEW count \in Nat, PopStack(s, o, count),
         NEW k, k = IF count >= Len(c[s]) THEN Len(c[s]) ELSE count
  PROVE  /\ s # o /\ loose' = loose /\ c[o] = << >>
         /\ Exact(next', stack', loose',
                  [c EXCEPT ![o] = SubSeq(c[s], 1, k), ![s] = SubSeq(c[s], k + 1, Len(c[s]))])
<1> DEFINE p == SubSeq(c[s], 1, k)
           r == SubSeq(c[s], k + 1, Len(c[s]))
           d == [c EXCEPT ![o] = p, ![s] = r]
<1>1. Represented(next, stack, loose, c)
  BY DEF Exact
<1>2. s # o /\ c[o] = << >> /\ loose' = loose /\ SplitAt(s, o, c, k)
  BY <1>1, PopStackStep
<1>3. stack[s].tail = TailOf(c[s]) /\ stack[o].tail = Nil
  BY <1>2 DEF Exact, TailOf
<1>4. /\ Represented(next', stack', loose', d)
      /\ stack'[o].tail = TailOf(p) /\ stack'[s].tail = TailOf(r)
      /\ \A x \in Stk : x # s /\ x # o => stack'[x] = stack[x]
  BY <1>2, <1>3 DEF SplitAt
<1> HIDE DEF p, r
<1>5. d[s] = r /\ d[o] = p /\ \A x \in Stk : x # s /\ x # o => d[x] = c[x]
  BY <1>1, <1>2 DEF Represented
<1> HIDE DEF d
<1>6. \A x \in Stk : stack'[x].tail = TailOf(d[x])
  BY <1>4, <1>5 DEF Exact
<1> QED BY <1>2, <1>4, <1>6 DEF d, p, r, Exact

\* Represented stacks with exact tails are what LinkedStack says of each stack.
LEMMA ExactFacts ==
  ASSUME NEW c, Exact(next, stack, loose, c)
  PROVE  /\ \A s \in Stk : NodesOf(s) = c[s] /\ (IsEmpty(s) <=> c[s] = << >>)
         /\ \A s \in Stk : stack[s].size = Len(c[s])
         /\ TailsExact /\ SizeExact
<1>1. Represented(next, stack, loose, c)
  BY DEF Exact
<1>2. Linked /\ c = Content
  BY <1>1, ContentOf DEF Linked
<1>3. TailsExact
  BY <1>2, TailsOf DEF TailsExact, Exact
<1>4. SizeExact
  BY <1>2, LinkedFacts, SeqsLen DEF SizeExact, N
<1>5. \A s \in Stk : NodesOf(s) = c[s] /\ (IsEmpty(s) <=> c[s] = << >>) /\ stack[s].size = Len(c[s])
  BY <1>1, NodesOfRepresented, RepresentedFacts DEF IsEmpty
<1> QED BY <1>3, <1>4, <1>5

-----------------------------------------------------------------------------
(* The client that merges                                                  *)

\* A client that only pushes nodes and merges stacks lets no wrong m_tail be read.
LEMMA MergeIsTidy == MergeSpec => TidySpec
<1>1. [MergeNext]_vars => [TidyNext]_vars
  BY DEF MergeNext, TidyNext, Untailed
<1> QED BY <1>1, PTL DEF MergeSpec, TidySpec

\* The inductive invariant, for a client that pushes and merges.
THEOREM MergeLinked == MergeSpec => []Linked
BY MergeIsTidy, TidyLinked, PTL

\* Merging implements sequences, for a client that pushes and merges.
THEOREM MergesAreSequences == MergeSpec => ImplementsSequences
BY MergeIsTidy, StacksAreSequences, PTL

\* Inside the loop, the front of the other stack is not less than a.
LEMMA LoopAsserts ==
  ASSUME NEW m, NEW k \in Nat, NEW h, NEW p, NEW r, Mergeable(p, r), LoopAt(m, k, h, p, r), Merging(m)
  PROVE  ~Less(m.b, m.a)
<1>1. PICK P \in Seqs, A \in Seqs, R \in Seqs, B \in Seqs, M \in Seqs : Halfway(m, h, p, r, P, A, R, B, M)
  BY DEF LoopAt, Finished, Merging
<1>2. B # << >>
  <2> SUFFICES ASSUME B = << >> PROVE FALSE
    OBVIOUS
  <2>1. m.b = Nil
    BY <1>1, EmptyList DEF Halfway, To
  <2> QED BY <2>1 DEF Merging
<1>3. m.a = A[1] /\ m.b = B[1] /\ A[1] \in Node /\ B[1] \in Node /\ Value[A[1]] <= Value[B[1]]
  BY <1>1, <1>2, NotEmpty DEF Halfway, To
<1> QED BY <1>3, Values DEF Less

\* The assertion in the loop of Stack::push(Stack&&, Compare) never fails on sorted
\* stacks, and the loop ends: after a round for every node nothing is left to merge.
THEOREM MergeAssertionHolds == TidySpec => []MergeAssertion
<1>1. ASSUME Linked PROVE MergeAssertion
  <2> SUFFICES ASSUME NEW s \in Stk, NEW o \in Stk,
                      s # o, ~IsEmpty(s), ~IsEmpty(o), sortedBy(s), sortedBy(o)
               PROVE  /\ \A k \in DOMAIN Merge(s, o) :
                           Merging(Merge(s, o)[k]) =>
                             \/ Less(Merge(s, o)[k].a, Merge(s, o)[k].b)
                             \/ ~Less(Merge(s, o)[k].b, Merge(s, o)[k].a)
                      /\ ~Merging(Merge(s, o)[N])
    BY Zenon DEF MergeAssertion, N
  <2>1. Merged(s, o, Content)
    BY <1>1 DEF Merged, Linked
  <2>2. Mergeable(Content[s], Content[o])
    BY <2>1, MergedFacts
  <2>3. DOMAIN Merge(s, o) = 0..N
        /\ \A k \in 0..N : LoopAt(Merge(s, o)[k], k, MergedHead(s, o), Content[s], Content[o])
    BY <2>1, MergeLoop
  <2>4. \A k \in 0..N : Merging(Merge(s, o)[k]) => ~Less(Merge(s, o)[k].b, Merge(s, o)[k].a)
    <3> SUFFICES ASSUME NEW k \in 0..N, Merging(Merge(s, o)[k])
                 PROVE  ~Less(Merge(s, o)[k].b, Merge(s, o)[k].a)
      OBVIOUS
    <3>1. k \in Nat
      BY CountNodes
    <3> QED BY <2>2, <2>3, <3>1, LoopAsserts
  <2>5. ~Merging(Merge(s, o)[N])
    BY <2>1, MergeEnd DEF MergeOver
  <2> QED BY <2>3, <2>4, <2>5
<1> QED BY <1>1, TidyLinked, PTL

\* Stack::push(Node*) keeps tails exact.
LEMMA PushKeepsTails ==
  ASSUME Linked, TailsExact, NEW s \in Stk, NEW n \in Node, Push(s, n), NEW x \in Stk
  PROVE  stack'[x].tail = TailOf(Content'[x])
<1>1. Exact(next, stack, loose, Content)
  BY TailsOf DEF Exact, Linked, TailsExact
<1>2. Exact(next', stack', loose', [Content EXCEPT ![s] = <<n>> \o Content[s]])
  BY <1>1, PushExact
<1>3. Content' = [Content EXCEPT ![s] = <<n>> \o Content[s]]
  BY <1>2, ContentNext DEF Exact
<1> QED BY <1>2, <1>3 DEF Exact

\* Stack::push(Stack&&, Compare) keeps tails exact.
LEMMA MergeKeepsTails ==
  ASSUME Linked, TailsExact, NEW s \in Stk, NEW o \in Stk, PushSortedMoved(s, o), NEW x \in Stk
  PROVE  stack'[x].tail = TailOf(Content'[x])
<1>1. \A y \in Stk : stack[y].tail = TailOf(Content[y])
  BY TailsOf DEF TailsExact
<1>2. CASE x = s \/ x = o
  BY <1>1, <1>2, PushSortedMovedMaps
<1>3. CASE x # s /\ x # o
  <2>1. Sequence!Merge(s, o)
    BY PushSortedMovedMaps
  <2>2. Content'[x] = Content[x]
    BY <1>3, <2>1 DEF Sequence!Merge, Sequence!Splice, Content
  <2>3. stack'[x] = stack[x]
    BY <1>3 DEF PushSortedMoved, MergeInto, Linked, Represented, Stacks
  <2> QED BY <1>1, <2>2, <2>3
<1> QED BY <1>2, <1>3

\* For a client that pushes and merges m_tail is always the last node: the merge
\* takes the tail of the stack whose last node comes last.
THEOREM MergeTails == MergeSpec => []TailsExact
<1>1. Init => TailsExact
  <2> SUFFICES ASSUME Init, NEW s \in Stk PROVE TailExact(s)
    BY DEF TailsExact
  <2>1. Linked
    BY InitLinked
  <2>2. NodesOf(s) \in Seqs /\ Len(NodesOf(s)) = 0 /\ stack[s].tail = Nil
    BY <2>1, LinkedFacts DEF Init, Empty
  <2>3. NodesOf(s) = << >>
    BY <2>2, NotEmpty
  <2> QED BY <2>1, <2>2, <2>3, LinkedFacts DEF TailOf
<1>2. ASSUME Linked, Linked', TailsExact, [MergeNext]_vars PROVE TailsExact'
  <2>1. (\A x \in Stk : TailExact(x) <=> stack[x].tail = TailOf(Content[x]))'
    BY <1>2, TailsOf, PTL
  <2>2. ASSUME NEW x \in Stk PROVE stack'[x].tail = TailOf(Content'[x])
    <3>1. CASE UNCHANGED vars
      <4>1. stack' = stack /\ Content' = Content
        BY <1>2, <3>1, StutterMaps DEF Sequence!vars, Content, vars
      <4> QED BY <1>2, <4>1, TailsOf DEF TailsExact
    <3> QED BY <1>2, <3>1, PushKeepsTails, MergeKeepsTails DEF MergeNext
  <2> QED BY <2>1, <2>2 DEF TailsExact
<1> QED BY <1>1, <1>2, MergeLinked, PTL DEF MergeSpec
==============================================================================
