----------------------- MODULE SplicePoolCustodyProofs -----------------------
(***************************************************************************)
(* No node is lost and none is in two places, for any number of threads,   *)
(* block size and counts.  The placement of the nodes is one function from *)
(* places to sequences; every action moves a prefix of one place to the    *)
(* front of another, puts fresh nodes in front of a place, or does both    *)
(* one after the other, and neither can lose or double a node.             *)
(***************************************************************************)
EXTENDS SplicePoolProofs

Placement == [Place -> Seq(Nat)]
PerThread == [Thread -> Seq(Nat)]

\* OnePlace, and the union of NoNodeLost, for an arbitrary placement c.
OneEach(c) ==
  \A p, q \in Place :
    \A i \in 1..Len(c[p]), j \in 1..Len(c[q]) : c[p][i] = c[q][j] => p = q /\ i = j
AllOf(c) == UNION {Range(c[p]) : p \in Place}

\* The first count nodes of p, or all of them, go to the front of q.
Moved(c, d, p, q, count) ==
  /\ d[p] = Left(c[p], count)
  /\ d[q] = Popped(c[p], count) \o c[q]
  /\ \A r \in Place \ {p, q} : d[r] = c[r]

\* The nodes s are put in front of place p.
Supplied(c, d, p, s) ==
  /\ d[p] = s \o c[p]
  /\ \A r \in Place \ {p} : d[r] = c[r]

LEMMA InAllOf ==
  ASSUME NEW c \in Placement, NEW n
  PROVE  n \in AllOf(c) <=> \E r \in Place : \E i \in 1..Len(c[r]) : n = c[r][i]
<1>1. \A r \in Place : DOMAIN c[r] = 1..Len(c[r])
  BY DEF Placement
<1> QED
  BY <1>1 DEF AllOf, Range

LEMMA ConcatParts ==
  ASSUME NEW q \in Seq(Nat), NEW r \in Seq(Nat)
  PROVE  /\ Len(q) \in Nat /\ Len(r) \in Nat
         /\ Len(q \o r) = Len(q) + Len(r)
         /\ \A i \in 1..Len(q) : (q \o r)[i] = q[i]
         /\ \A i \in 1..Len(r) : (q \o r)[Len(q) + i] = r[i]
<1>1. Len(q) \in Nat /\ Len(r) \in Nat /\ Len(q \o r) = Len(q) + Len(r)
  BY ConcatProperties
<1>2. \A i \in 1..(Len(q) + Len(r)) : (q \o r)[i] = IF i <= Len(q) THEN q[i] ELSE r[i - Len(q)]
  BY ConcatProperties
<1>3. \A i \in 1..Len(r) : Len(q) + i \in 1..(Len(q) + Len(r)) /\ ~(Len(q) + i <= Len(q)) /\ (Len(q) + i) - Len(q) = i
  BY <1>1
<1>4. \A i \in 1..Len(q) : i \in 1..(Len(q) + Len(r)) /\ i <= Len(q)
  BY <1>1
<1>5. \A i \in 1..Len(r) : (q \o r)[Len(q) + i] = r[i]
  <2> TAKE i \in 1..Len(r)
  <2> DEFINE j == Len(q) + i
  <2>1. j \in 1..(Len(q) + Len(r)) /\ ~(j <= Len(q)) /\ j - Len(q) = i
    BY <1>3
  <2> HIDE DEF j
  <2>2. (q \o r)[j] = r[i]
    BY <1>2, <2>1
  <2> QED
    BY <2>2 DEF j
<1> QED
  BY <1>1, <1>2, <1>4, <1>5

\* Where the positions of a place come from when a prefix moves.
LEMMA MovedPositions ==
  ASSUME NEW c \in Placement, NEW d \in Placement,
         NEW p \in Place, NEW q \in Place, p # q, NEW count \in Nat,
         Moved(c, d, p, q, count),
         NEW k, k = PopCount(c[p], count)
  PROVE  /\ k \in Nat /\ Len(c[p]) \in Nat /\ Len(c[q]) \in Nat /\ k <= Len(c[p])
         /\ Len(d[p]) = Len(c[p]) - k
         /\ Len(d[q]) = k + Len(c[q])
         /\ \A i \in 1..(Len(c[p]) - k) : d[p][i] = c[p][k + i]
         /\ \A i \in 1..k : d[q][i] = c[p][i]
         /\ \A i \in 1..Len(c[q]) : d[q][k + i] = c[q][i]
<1>1. c[p] \in Seq(Nat) /\ c[q] \in Seq(Nat)
  BY DEF Placement
<1> DEFINE front == Popped(c[p], count)
           back == Left(c[p], count)
<1>2. /\ PopCount(c[p], count) \in 0..Len(c[p])
      /\ front \in Seq(Nat)
      /\ Len(front) = PopCount(c[p], count)
      /\ Len(back) = Len(c[p]) - PopCount(c[p], count)
      /\ \A i \in 1..PopCount(c[p], count) : front[i] = c[p][i]
      /\ \A i \in 1..(Len(c[p]) - PopCount(c[p], count)) : back[i] = c[p][PopCount(c[p], count) + i]
  BY <1>1, PopParts, ZenonT(40)
<1>3. d[p] = back /\ d[q] = front \o c[q]
  BY DEF Moved
<1> HIDE DEF front, back
<1>4. /\ Len(c[q]) \in Nat
      /\ Len(front \o c[q]) = Len(front) + Len(c[q])
      /\ \A i \in 1..Len(front) : (front \o c[q])[i] = front[i]
      /\ \A i \in 1..Len(c[q]) : (front \o c[q])[Len(front) + i] = c[q][i]
  BY <1>1, <1>2, ConcatParts, Zenon
<1>5. Len(front) = k /\ k \in 0..Len(c[p]) /\ Len(c[p]) \in Nat
  BY <1>1, <1>2
<1>6. /\ Len(d[q]) = k + Len(c[q])
      /\ \A i \in 1..k : d[q][i] = front[i]
      /\ \A i \in 1..Len(c[q]) : d[q][k + i] = c[q][i]
  BY <1>3, <1>4, <1>5, Zenon
<1>7. /\ Len(d[p]) = Len(c[p]) - k
      /\ \A i \in 1..k : front[i] = c[p][i]
      /\ \A i \in 1..(Len(c[p]) - k) : d[p][i] = c[p][k + i]
  BY <1>2, <1>3, Zenon
<1> QED
  BY <1>4, <1>5, <1>6, <1>7

LEMMA MoveKeepsNodes ==
  ASSUME NEW c \in Placement, NEW d \in Placement,
         NEW p \in Place, NEW q \in Place, p # q, NEW count \in Nat,
         Moved(c, d, p, q, count)
  PROVE  /\ OneEach(c) => OneEach(d)
         /\ AllOf(d) = AllOf(c)
<1> DEFINE k == PopCount(c[p], count)
<1>1. /\ k \in Nat /\ Len(c[p]) \in Nat /\ Len(c[q]) \in Nat /\ k <= Len(c[p])
      /\ Len(d[p]) = Len(c[p]) - k
      /\ Len(d[q]) = k + Len(c[q])
      /\ \A i \in 1..(Len(c[p]) - k) : d[p][i] = c[p][k + i]
      /\ \A i \in 1..k : d[q][i] = c[p][i]
      /\ \A i \in 1..Len(c[q]) : d[q][k + i] = c[q][i]
  BY MovedPositions, SMTT(20)
<1>2. \A r \in Place \ {p, q} : d[r] = c[r]
  BY DEF Moved
<1> HIDE DEF k
<1> DEFINE Source(r, i) == IF r = q /\ i <= k THEN p ELSE r
           At(r, i) == IF r = p THEN k + i ELSE IF r = q /\ i > k THEN i - k ELSE i
<1>3. \A r \in Place : \A i \in 1..Len(d[r]) :
        /\ Source(r, i) \in Place
        /\ At(r, i) \in 1..Len(c[Source(r, i)])
        /\ d[r][i] = c[Source(r, i)][At(r, i)]
  <2> TAKE r \in Place
  <2> TAKE i \in 1..Len(d[r])
  <2>1. CASE r = p
    <3>1. i \in 1..(Len(c[p]) - k)
      BY <1>1, <2>1
    <3> QED
      BY <1>1, <2>1, <3>1
  <2>2. CASE r = q
    <3>1. CASE i <= k
      BY <1>1, <2>2, <3>1
    <3>2. CASE i > k
      <4> DEFINE j == i - k
      <4>1. j \in 1..Len(c[q]) /\ k + j = i /\ ~(i <= k)
        BY <1>1, <2>2, <3>2
      <4>2. Source(r, i) = q /\ At(r, i) = j
        BY <2>2, <3>2, <4>1
      <4> HIDE DEF j, Source, At
      <4>3. d[q][k + j] = c[q][j]
        BY <1>1, <4>1, Zenon
      <4> QED
        BY <2>2, <4>1, <4>2, <4>3, Zenon
    <3> QED
      BY <1>1, <2>2, <3>1, <3>2
  <2>3. CASE r # p /\ r # q
    BY <1>1, <1>2, <2>3 DEF Placement
  <2> QED
    BY <2>1, <2>2, <2>3
<1>4. \A r, s \in Place : \A i \in 1..Len(d[r]), j \in 1..Len(d[s]) :
        Source(r, i) = Source(s, j) /\ At(r, i) = At(s, j) => r = s /\ i = j
  BY <1>1, SMTT(20)
<1> HIDE DEF Source, At
<1>5. OneEach(c) => OneEach(d)
  <2> SUFFICES ASSUME OneEach(c),
                      NEW r \in Place, NEW s \in Place,
                      NEW i \in 1..Len(d[r]), NEW j \in 1..Len(d[s]), d[r][i] = d[s][j]
               PROVE  r = s /\ i = j
    BY DEF OneEach
  <2>1. /\ Source(r, i) \in Place /\ At(r, i) \in 1..Len(c[Source(r, i)])
        /\ Source(s, j) \in Place /\ At(s, j) \in 1..Len(c[Source(s, j)])
        /\ c[Source(r, i)][At(r, i)] = c[Source(s, j)][At(s, j)]
    BY <1>3
  <2>2. Source(r, i) = Source(s, j) /\ At(r, i) = At(s, j)
    BY <2>1 DEF OneEach
  <2> QED
    BY <1>4, <2>2
<1>6. ASSUME NEW n, n \in AllOf(d) PROVE n \in AllOf(c)
  <2>1. PICK r \in Place : \E i \in 1..Len(d[r]) : n = d[r][i]
    BY <1>6, InAllOf
  <2>2. PICK i \in 1..Len(d[r]) : n = d[r][i]
    BY <2>1
  <2>3. /\ Source(r, i) \in Place /\ At(r, i) \in 1..Len(c[Source(r, i)])
        /\ n = c[Source(r, i)][At(r, i)]
    BY <1>3, <2>2
  <2> QED
    BY <2>3, InAllOf
<1>7. ASSUME NEW n, n \in AllOf(c) PROVE n \in AllOf(d)
  <2>1. PICK r \in Place : \E i \in 1..Len(c[r]) : n = c[r][i]
    BY <1>7, InAllOf
  <2>2. PICK i \in 1..Len(c[r]) : n = c[r][i]
    BY <2>1
  <2>3. \E s \in Place : \E j \in 1..Len(d[s]) : n = d[s][j]
    <3>1. CASE r = p /\ i <= k
      BY <1>1, <2>2, <3>1
    <3>2. CASE r = p /\ i > k
      <4>1. i - k \in 1..(Len(c[p]) - k) /\ k + (i - k) = i
        BY <1>1, <2>2, <3>2
      <4>2. d[p][i - k] = c[p][k + (i - k)]
        BY <1>1, <4>1
      <4> QED
        BY <1>1, <2>2, <3>2, <4>1, <4>2
    <3>3. CASE r = q
      <4>1. k + i \in 1..Len(d[q]) /\ d[q][k + i] = c[q][i]
        BY <1>1, <2>2, <3>3
      <4> QED
        BY <2>2, <3>3, <4>1
    <3>4. CASE r # p /\ r # q
      BY <1>2, <2>2, <3>4
    <3> QED
      BY <3>1, <3>2, <3>3, <3>4, <1>1
  <2> QED
    BY <2>3, InAllOf
<1> QED
  BY <1>5, <1>6, <1>7

LEMMA SupplyAddsNodes ==
  ASSUME NEW c \in Placement, NEW d \in Placement, NEW p \in Place, NEW s \in Seq(Nat),
         Supplied(c, d, p, s),
         \A i, j \in 1..Len(s) : s[i] = s[j] => i = j,
         \A i \in 1..Len(s) : s[i] \notin AllOf(c)
  PROVE  /\ OneEach(c) => OneEach(d)
         /\ AllOf(d) = AllOf(c) \cup Range(s)
<1> DEFINE k == Len(s)
<1>1. /\ k \in Nat /\ Len(c[p]) \in Nat
      /\ Len(d[p]) = k + Len(c[p])
      /\ \A i \in 1..k : d[p][i] = s[i]
      /\ \A i \in 1..Len(c[p]) : d[p][k + i] = c[p][i]
  <2>1. d[p] = s \o c[p] /\ c[p] \in Seq(Nat)
    BY DEF Supplied, Placement
  <2>2. /\ Len(s) \in Nat /\ Len(c[p]) \in Nat
        /\ Len(s \o c[p]) = Len(s) + Len(c[p])
        /\ \A i \in 1..Len(s) : (s \o c[p])[i] = s[i]
        /\ \A i \in 1..Len(c[p]) : (s \o c[p])[Len(s) + i] = c[p][i]
    BY <2>1, ConcatParts, Zenon
  <2> QED
    BY <2>1, <2>2, Zenon
<1>2. \A r \in Place \ {p} : d[r] = c[r]
  BY DEF Supplied
<1>3. \A n : n \in Range(s) <=> \E i \in 1..k : n = s[i]
  BY DEF Range
<1>4. \A i, j \in 1..k : s[i] = s[j] => i = j
  OBVIOUS
<1>5. \A i \in 1..k : s[i] \notin AllOf(c)
  OBVIOUS
<1> HIDE DEF k
\* A position of d is new, or an old position of c.
<1> DEFINE New(r, i) == r = p /\ i <= k
           At(r, i) == IF r = p THEN i - k ELSE i
<1>6. \A r \in Place : \A i \in 1..Len(d[r]) :
        /\ i \in Nat
        /\ New(r, i) => i \in 1..k /\ d[r][i] = s[i]
        /\ ~New(r, i) => At(r, i) \in 1..Len(c[r]) /\ d[r][i] = c[r][At(r, i)]
  <2> TAKE r \in Place
  <2> TAKE i \in 1..Len(d[r])
  <2>1. CASE r = p /\ i <= k
    BY <1>1, <2>1
  <2>2. CASE r = p /\ ~(i <= k)
    <3> DEFINE j == i - k
    <3>1. j \in 1..Len(c[p]) /\ k + j = i /\ i \in Nat
      BY <1>1, <2>2
    <3>2. ~New(r, i) /\ At(r, i) = j
      BY <2>2
    <3> HIDE DEF j, New, At
    <3>3. d[p][k + j] = c[p][j]
      BY <1>1, <3>1, Zenon
    <3> QED
      BY <2>2, <3>1, <3>2, <3>3, Zenon
  <2>3. CASE r # p
    BY <1>1, <1>2, <2>3 DEF Placement
  <2> QED
    BY <2>1, <2>2, <2>3
<1>7. \A r, q \in Place : \A i, j \in Nat :
        /\ ~New(r, i) /\ ~New(q, j) /\ r = q /\ At(r, i) = At(q, j) => i = j
        /\ New(r, i) /\ New(q, j) => r = q
  BY <1>1
<1> HIDE DEF New, At
<1>8. OneEach(c) => OneEach(d)
  <2> SUFFICES ASSUME OneEach(c),
                      NEW r \in Place, NEW q \in Place,
                      NEW i \in 1..Len(d[r]), NEW j \in 1..Len(d[q]), d[r][i] = d[q][j]
               PROVE  r = q /\ i = j
    BY DEF OneEach
  <2>1. CASE New(r, i) /\ New(q, j)
    BY <1>4, <1>6, <1>7, <2>1
  <2>2. CASE ~New(r, i) /\ ~New(q, j)
    <3>1. /\ i \in Nat /\ j \in Nat
          /\ At(r, i) \in 1..Len(c[r]) /\ At(q, j) \in 1..Len(c[q])
          /\ c[r][At(r, i)] = c[q][At(q, j)]
      BY <1>6, <2>2
    <3>2. r = q /\ At(r, i) = At(q, j)
      BY <3>1 DEF OneEach
    <3> QED
      BY <1>7, <2>2, <3>1, <3>2
  <2>3. ASSUME NEW x \in Place, NEW y \in Place,
               NEW m \in 1..Len(d[x]), NEW n \in 1..Len(d[y]), New(x, m), ~New(y, n)
        PROVE  d[x][m] # d[y][n]
    <3>1. m \in 1..k /\ d[x][m] = s[m]
      BY <1>6, <2>3
    <3>2. At(y, n) \in 1..Len(c[y]) /\ d[y][n] = c[y][At(y, n)]
      BY <1>6, <2>3
    <3>3. d[y][n] \in AllOf(c)
      BY <3>2, InAllOf
    <3> QED
      BY <1>5, <3>1, <3>3
  <2> QED
    BY <2>1, <2>2, <2>3
<1>9. ASSUME NEW n, n \in AllOf(d) PROVE n \in AllOf(c) \cup Range(s)
  <2>1. PICK r \in Place : \E i \in 1..Len(d[r]) : n = d[r][i]
    BY <1>9, InAllOf
  <2>2. PICK i \in 1..Len(d[r]) : n = d[r][i]
    BY <2>1
  <2>3. CASE New(r, i)
    BY <1>3, <1>6, <2>2, <2>3
  <2>4. CASE ~New(r, i)
    BY <1>6, <2>2, <2>4, InAllOf
  <2> QED
    BY <2>3, <2>4
<1>10. ASSUME NEW n, n \in AllOf(c) \cup Range(s) PROVE n \in AllOf(d)
  <2>1. CASE n \in Range(s)
    <3>1. PICK i \in 1..k : n = s[i]
      BY <1>3, <2>1
    <3>2. i \in 1..Len(d[p]) /\ d[p][i] = n
      BY <1>1, <3>1
    <3> QED
      BY <3>2, InAllOf
  <2>2. CASE n \in AllOf(c)
    <3>1. PICK r \in Place : \E i \in 1..Len(c[r]) : n = c[r][i]
      BY <2>2, InAllOf
    <3>2. PICK i \in 1..Len(c[r]) : n = c[r][i]
      BY <3>1
    <3>3. CASE r = p
      <4>1. k + i \in 1..Len(d[p]) /\ d[p][k + i] = c[p][i]
        BY <1>1, <3>2, <3>3
      <4> QED
        BY <3>2, <3>3, <4>1, InAllOf
    <3>4. CASE r # p
      BY <1>2, <3>2, <3>4, InAllOf
    <3> QED
      BY <3>3, <3>4
  <2> QED
    BY <1>10, <2>1, <2>2
<1> QED
  BY <1>8, <1>9, <1>10

LEMMA PopAll ==
  ASSUME NEW s \in Seq(Nat)
  PROVE  Left(s, Len(s)) = << >> /\ Popped(s, Len(s)) = s
<1>1. Len(s) \in Nat /\ PopCount(s, Len(s)) = Len(s)
  BY DEF PopCount
<1>2. /\ Left(s, Len(s)) \in Seq(Nat) /\ Popped(s, Len(s)) \in Seq(Nat)
      /\ Len(Popped(s, Len(s))) = PopCount(s, Len(s))
      /\ Len(Left(s, Len(s))) = Len(s) - PopCount(s, Len(s))
      /\ \A i \in 1..PopCount(s, Len(s)) : Popped(s, Len(s))[i] = s[i]
  BY <1>1, PopParts, ZenonT(40)
<1>3. Left(s, Len(s)) = << >>
  BY <1>1, <1>2, EmptySeq
<1>4. /\ Len(Popped(s, Len(s))) = Len(s)
      /\ \A i \in 1..Len(s) : Popped(s, Len(s))[i] = s[i]
  BY <1>1, <1>2, Zenon
<1>5. Popped(s, Len(s)) = s
  BY <1>2, <1>4, SeqEqual, Zenon
<1> QED
  BY <1>3, <1>5

LEMMA WholeMoved ==
  ASSUME NEW c \in Placement, NEW d, NEW p \in Place, NEW q \in Place,
         d[p] = << >>, d[q] = c[p] \o c[q], \A r \in Place \ {p, q} : d[r] = c[r]
  PROVE  Moved(c, d, p, q, Len(c[p])) /\ Len(c[p]) \in Nat
<1>1. c[p] \in Seq(Nat) /\ Len(c[p]) \in Nat
  BY DEF Placement
<1> QED
  BY <1>1, PopAll DEF Moved

-----------------------------------------------------------------------------
(* The placement of a state                                                *)

AtOther(t) == <<"other", t>>
AtAlloc(t) == <<"alloc", t>>
AtHeld(t) == <<"held", t>>

PlacementOf(stack, o, a, h) ==
  [p \in Place |->
     CASE p[1] = "pool"  -> stack
       [] p[1] = "other" -> o[p[2]]
       [] p[1] = "alloc" -> a[p[2]]
       [] p[1] = "held"  -> h[p[2]]]

Nodes == PlacementOf(m_stack, other, alloc, held)

\* OnePlace and NoNodeLost, together.
Custody == OneEach(Nodes) /\ AllOf(Nodes) = 0..(created - 1)

LEMMA Places ==
  /\ Pool \in Place
  /\ \A t \in Thread : AtOther(t) \in Place /\ AtAlloc(t) \in Place /\ AtHeld(t) \in Place
  /\ \A r \in Place : \/ r = Pool
                      \/ \E t \in Thread : r = AtOther(t) \/ r = AtAlloc(t) \/ r = AtHeld(t)
  /\ \A t, u \in Thread :
       /\ Pool # AtOther(t) /\ Pool # AtAlloc(t) /\ Pool # AtHeld(t)
       /\ AtOther(t) # AtAlloc(u) /\ AtOther(t) # AtHeld(u) /\ AtAlloc(t) # AtHeld(u)
       /\ t # u => AtOther(t) # AtOther(u) /\ AtAlloc(t) # AtAlloc(u) /\ AtHeld(t) # AtHeld(u)
BY DEF Place, Pool, AtOther, AtAlloc, AtHeld

LEMMA PlacementParts ==
  ASSUME NEW stack \in Seq(Nat), NEW o \in PerThread,
         NEW a \in PerThread, NEW h \in PerThread
  PROVE  /\ PlacementOf(stack, o, a, h) \in Placement
         /\ PlacementOf(stack, o, a, h)[Pool] = stack
         /\ \A t \in Thread :
              /\ PlacementOf(stack, o, a, h)[AtOther(t)] = o[t]
              /\ PlacementOf(stack, o, a, h)[AtAlloc(t)] = a[t]
              /\ PlacementOf(stack, o, a, h)[AtHeld(t)] = h[t]
<1> DEFINE c == PlacementOf(stack, o, a, h)
<1>1. c[Pool] = stack
  BY DEF PlacementOf, Place, Pool
<1>2. \A t \in Thread : c[AtOther(t)] = o[t] /\ c[AtAlloc(t)] = a[t] /\ c[AtHeld(t)] = h[t]
  BY DEF PlacementOf, Place, AtOther, AtAlloc, AtHeld
<1> DEFINE at(p) == CASE p[1] = "pool"  -> stack
                      [] p[1] = "other" -> o[p[2]]
                      [] p[1] = "alloc" -> a[p[2]]
                      [] p[1] = "held"  -> h[p[2]]
<1>3. ASSUME NEW r \in Place PROVE at(r) \in Seq(Nat)
  <2>1. CASE r = Pool
    BY <2>1 DEF Pool
  <2>2. CASE \E t \in Thread : r = AtOther(t) \/ r = AtAlloc(t) \/ r = AtHeld(t)
    <3>1. PICK t \in Thread : r = AtOther(t) \/ r = AtAlloc(t) \/ r = AtHeld(t)
      BY <2>2
    <3> QED
      BY <3>1 DEF AtOther, AtAlloc, AtHeld, PerThread
  <2> QED
    BY <2>1, <2>2, Places
<1>4. c = [p \in Place |-> at(p)]
  BY DEF PlacementOf
<1> HIDE DEF c, at
<1>5. c \in Placement
  BY <1>3, <1>4 DEF Placement
<1> QED
  BY <1>1, <1>2, <1>5 DEF c

\* The two invariants are about this placement.
LEMMA CustodyIs == Custody <=> OnePlace /\ NoNodeLost
<1>1. \A p \in Place : Nodes[p] = NodesAt(p)
  BY DEF Nodes, PlacementOf, NodesAt
<1>2. AllOf(Nodes) = UNION {Range(NodesAt(p)) : p \in Place}
  BY <1>1 DEF AllOf
<1>3. OneEach(Nodes) <=> OnePlace
  BY <1>1 DEF OneEach, OnePlace
<1> QED
  BY <1>2, <1>3 DEF Custody, NoNodeLost

\* The placement before and after a step, place by place.
LEMMA Before ==
  ASSUME TypeOK
  PROVE  /\ Nodes \in Placement /\ Nodes[Pool] = m_stack
         /\ \A t \in Thread : /\ Nodes[AtOther(t)] = other[t]
                             /\ Nodes[AtAlloc(t)] = alloc[t]
                             /\ Nodes[AtHeld(t)] = held[t]
<1>1. m_stack \in Seq(Nat) /\ other \in PerThread /\ alloc \in PerThread /\ held \in PerThread
  BY DEF TypeOK, PerThread
<1> QED
  BY <1>1, PlacementParts DEF Nodes

LEMMA After ==
  ASSUME TypeOK'
  PROVE  /\ Nodes' \in Placement /\ Nodes'[Pool] = m_stack'
         /\ \A t \in Thread : /\ Nodes'[AtOther(t)] = other'[t]
                             /\ Nodes'[AtAlloc(t)] = alloc'[t]
                             /\ Nodes'[AtHeld(t)] = held'[t]
<1>1. m_stack' \in Seq(Nat) /\ other' \in PerThread /\ alloc' \in PerThread /\ held' \in PerThread
  BY DEF TypeOK, PerThread
<1> QED
  BY <1>1, PlacementParts DEF Nodes

\* A step that moves nodes once, creating none.
LEMMA OneMove ==
  ASSUME TypeOK, TypeOK', Custody, created' = created,
         NEW p \in Place, NEW q \in Place, p # q, NEW count \in Nat,
         Moved(Nodes, Nodes', p, q, count)
  PROVE  Custody'
<1>1. Nodes \in Placement /\ Nodes' \in Placement
  BY Before, After
<1>2. OneEach(Nodes) /\ AllOf(Nodes) = 0..(created - 1)
  BY DEF Custody
<1>3. OneEach(Nodes') /\ AllOf(Nodes') = AllOf(Nodes)
  BY <1>1, <1>2, MoveKeepsNodes
<1> QED
  BY <1>2, <1>3 DEF Custody

\* A step that leaves every node where it is.
LEMMA NoMove ==
  ASSUME Custody, UNCHANGED <<m_stack, other, alloc, held, created>>
  PROVE  Custody'
BY DEF Custody, Nodes

\* The nodes of doAllocate are new and differ from one another.
LEMMA FreshAreNew ==
  ASSUME NEW a \in Nat, NEW n \in Nat
  PROVE  /\ \A i, j \in 1..n : Fresh(a, n)[i] = Fresh(a, n)[j] => i = j
         /\ \A i \in 1..n : Fresh(a, n)[i] \notin 0..(a - 1)
         /\ 0..(a - 1) \cup Range(Fresh(a, n)) = 0..(a + n - 1)
<1>1. /\ Fresh(a, n) \in Seq(Nat) /\ Len(Fresh(a, n)) = n
      /\ \A i \in 1..n : Fresh(a, n)[i] = a + n - i
  BY FreshNodes, Zenon
<1>2. Range(Fresh(a, n)) = {a + n - i : i \in 1..n}
  BY DEF Fresh, Range
<1>3. {a + n - i : i \in 1..n} = a..(a + n - 1)
  <2>1. ASSUME NEW x \in a..(a + n - 1) PROVE \E i \in 1..n : x = a + n - i
    <3>1. a + n - x \in 1..n /\ x = a + n - (a + n - x)
      OBVIOUS
    <3> QED
      BY <3>1
  <2>2. \A i \in 1..n : a + n - i \in a..(a + n - 1)
    OBVIOUS
  <2> QED
    BY <2>1, <2>2
<1>4. 0..(a - 1) \cup a..(a + n - 1) = 0..(a + n - 1)
  OBVIOUS
<1>5. \A i \in 1..n : a + n - i \notin 0..(a - 1)
  OBVIOUS
<1>6. \A i, j \in 1..n : a + n - i = a + n - j => i = j
  OBVIOUS
<1> QED
  BY <1>1, <1>2, <1>3, <1>4, <1>5, <1>6

\* The allocating step of acquireOne and of acquire: all nodes of the fresh blocks
\* go to the call, the first count of them to its handle, the rest to alloc.
LEMMA Allocation ==
  ASSUME TypeOK, TypeOK', Custody, NEW t \in Thread, NEW n \in Nat, NEW count \in Nat,
         alloc[t] = << >>,
         m_stack' = m_stack, held' = held, created' = created + n,
         other' = [other EXCEPT ![t] = Popped(Fresh(created, n), count) \o @],
         alloc' = [alloc EXCEPT ![t] = Left(Fresh(created, n), count)]
  PROVE  Custody'
<1> DEFINE fresh == Fresh(created, n)
           between == [alloc EXCEPT ![t] = fresh]
           c == PlacementOf(m_stack, other, between, held)
<1>1. created \in Nat /\ fresh \in Seq(Nat) /\ Len(fresh) = n
  BY FreshNodes DEF TypeOK
<1>2. between \in PerThread
  BY <1>1 DEF TypeOK, PerThread
<1>3. between[t] = fresh /\ \A u \in Thread \ {t} : between[u] = alloc[u]
  BY DEF TypeOK
<1>4. /\ \A i, j \in 1..Len(fresh) : fresh[i] = fresh[j] => i = j
      /\ \A i \in 1..Len(fresh) : fresh[i] \notin 0..(created - 1)
      /\ 0..(created - 1) \cup Range(fresh) = 0..(created + n - 1)
  BY <1>1, FreshAreNew
<1>5. other' = [other EXCEPT ![t] = Popped(fresh, count) \o @]
  OBVIOUS
<1>6. alloc' = [alloc EXCEPT ![t] = Left(fresh, count)]
  OBVIOUS
<1> HIDE DEF fresh, between
<1>7. /\ c \in Placement /\ c[Pool] = m_stack
      /\ \A u \in Thread : /\ c[AtOther(u)] = other[u]
                          /\ c[AtAlloc(u)] = between[u]
                          /\ c[AtHeld(u)] = held[u]
  <2>1. m_stack \in Seq(Nat) /\ other \in PerThread /\ held \in PerThread
    BY DEF TypeOK, PerThread
  <2> QED
    BY <1>2, <2>1, PlacementParts
<1> HIDE DEF c
<1>8. Nodes \in Placement /\ Nodes' \in Placement
  BY Before, After
<1>9. OneEach(Nodes) /\ AllOf(Nodes) = 0..(created - 1)
  BY DEF Custody
<1>10. Supplied(Nodes, c, AtAlloc(t), fresh)
  <2>1. fresh \o << >> = fresh
    BY <1>1, ConcatEmptySeq
  <2>2. c[AtAlloc(t)] = fresh \o Nodes[AtAlloc(t)]
    BY <1>3, <1>7, <2>1, Before
  <2>3. \A r \in Place \ {AtAlloc(t)} : c[r] = Nodes[r]
    BY <1>3, <1>7, Before, Places
  <2> QED
    BY <2>2, <2>3 DEF Supplied
<1>11. OneEach(c) /\ AllOf(c) = 0..(created + n - 1)
  <2>1. AtAlloc(t) \in Place /\ c \in Placement
    BY <1>7, Places
  <2>2. \A i \in 1..Len(fresh) : fresh[i] \notin AllOf(Nodes)
    BY <1>4, <1>9
  <2>3. OneEach(c) /\ AllOf(c) = AllOf(Nodes) \cup Range(fresh)
    BY <1>1, <1>4, <1>8, <1>9, <1>10, <2>1, <2>2, SupplyAddsNodes
  <2> QED
    BY <1>4, <1>9, <2>3
<1>12. Moved(c, Nodes', AtAlloc(t), AtOther(t), count)
  <2>1. Nodes'[AtAlloc(t)] = Left(c[AtAlloc(t)], count)
    <3>1. alloc'[t] = Left(fresh, count)
      BY <1>6 DEF TypeOK
    <3> QED
      BY <1>3, <1>7, <3>1, After
  <2>2. Nodes'[AtOther(t)] = Popped(c[AtAlloc(t)], count) \o c[AtOther(t)]
    <3>1. other'[t] = Popped(fresh, count) \o other[t]
      BY <1>5, Zenon DEF TypeOK
    <3> QED
      BY <1>3, <1>7, <3>1, After
  <2>3. \A u \in Thread \ {t} : other'[u] = other[u] /\ alloc'[u] = between[u]
    BY <1>3, <1>5, <1>6, Zenon DEF TypeOK
  <2>4. \A r \in Place \ {AtAlloc(t), AtOther(t)} : Nodes'[r] = c[r]
    BY <1>7, <2>3, After, Places
  <2> QED
    BY <2>1, <2>2, <2>4 DEF Moved
<1>13. OneEach(Nodes') /\ AllOf(Nodes') = AllOf(c)
  BY <1>7, <1>8, <1>11, <1>12, Places, MoveKeepsNodes
<1>14. AllOf(Nodes') = 0..(created' - 1)
  <2>1. created' = created + n
    OBVIOUS
  <2>2. AllOf(Nodes') = 0..(created + n - 1)
    BY <1>11, <1>13
  <2>3. created' - 1 = created + n - 1
    BY <1>1, <2>1
  <2> QED
    BY <2>2, <2>3, Zenon
<1> QED
  BY <1>13, <1>14 DEF Custody

-----------------------------------------------------------------------------

\* The first count nodes of the free stack, or all of them, go to a call or a client.
LEMMA FromPool ==
  ASSUME TypeOK, TypeOK', Custody, NEW t \in Thread, NEW count \in Nat,
         m_stack' = Left(m_stack, count), alloc' = alloc, created' = created,
         \/ /\ held' = held
            /\ other' = [other EXCEPT ![t] = Popped(m_stack, count) \o @]
         \/ /\ other' = other
            /\ held' = [held EXCEPT ![t] = Popped(m_stack, count) \o @]
  PROVE  Custody'
<1>1. Nodes'[Pool] = Left(Nodes[Pool], count)
  BY Before, After
<1>2. CASE held' = held /\ other' = [other EXCEPT ![t] = Popped(m_stack, count) \o @]
  <2>1. other'[t] = Popped(m_stack, count) \o other[t] /\ \A u \in Thread \ {t} : other'[u] = other[u]
    BY <1>2, Zenon DEF TypeOK
  <2>2. Nodes'[AtOther(t)] = Popped(Nodes[Pool], count) \o Nodes[AtOther(t)]
    BY <2>1, Before, After
  <2>3. \A r \in Place \ {Pool, AtOther(t)} : Nodes'[r] = Nodes[r]
    BY <1>2, <2>1, Before, After, Places
  <2>4. Moved(Nodes, Nodes', Pool, AtOther(t), count)
    BY <1>1, <2>2, <2>3 DEF Moved
  <2> QED
    BY <2>4, OneMove, Places
<1>3. CASE other' = other /\ held' = [held EXCEPT ![t] = Popped(m_stack, count) \o @]
  <2>1. held'[t] = Popped(m_stack, count) \o held[t] /\ \A u \in Thread \ {t} : held'[u] = held[u]
    BY <1>3, Zenon DEF TypeOK
  <2>2. Nodes'[AtHeld(t)] = Popped(Nodes[Pool], count) \o Nodes[AtHeld(t)]
    BY <2>1, Before, After
  <2>3. \A r \in Place \ {Pool, AtHeld(t)} : Nodes'[r] = Nodes[r]
    BY <1>3, <2>1, Before, After, Places
  <2>4. Moved(Nodes, Nodes', Pool, AtHeld(t), count)
    BY <1>1, <2>2, <2>3 DEF Moved
  <2> QED
    BY <2>4, OneMove, Places
<1> QED
  BY <1>2, <1>3

\* A client's nodes, or some of them, go to its call.
LEMMA FromHeld ==
  ASSUME TypeOK, TypeOK', Custody, NEW t \in Thread, NEW count \in Nat,
         m_stack' = m_stack, alloc' = alloc, created' = created, other[t] = << >>,
         other' = [other EXCEPT ![t] = Popped(held[t], count)],
         held' = [held EXCEPT ![t] = Left(@, count)]
  PROVE  Custody'
<1>1. held'[t] = Left(held[t], count) /\ \A u \in Thread \ {t} : held'[u] = held[u]
  BY Zenon DEF TypeOK
<1>2. other'[t] = Popped(held[t], count) /\ \A u \in Thread \ {t} : other'[u] = other[u]
  BY Zenon DEF TypeOK
<1>3. Popped(held[t], count) \in Seq(Nat)
  BY PopParts DEF TypeOK
<1>4. other'[t] = Popped(held[t], count) \o other[t]
  BY <1>2, <1>3, ConcatEmptySeq
<1>5. /\ Nodes'[AtHeld(t)] = Left(Nodes[AtHeld(t)], count)
      /\ Nodes'[AtOther(t)] = Popped(Nodes[AtHeld(t)], count) \o Nodes[AtOther(t)]
  BY <1>1, <1>4, Before, After
<1>6. \A r \in Place \ {AtHeld(t), AtOther(t)} : Nodes'[r] = Nodes[r]
  BY <1>1, <1>2, Before, After, Places
<1> QED
  BY <1>5, <1>6, OneMove, Places, ZenonT(40) DEF Moved

\* All nodes of a call go to its client, or to the pool.
LEMMA FromOther ==
  ASSUME TypeOK, TypeOK', Custody, NEW t \in Thread,
         alloc' = alloc, created' = created,
         other' = [other EXCEPT ![t] = << >>],
         \/ m_stack' = m_stack /\ held' = [held EXCEPT ![t] = other[t] \o @]
         \/ m_stack' = other[t] \o m_stack /\ held' = held
  PROVE  Custody'
<1>1. other'[t] = << >> /\ \A u \in Thread \ {t} : other'[u] = other[u]
  BY DEF TypeOK
<1>2. Nodes \in Placement
  BY Before
<1>3. CASE m_stack' = m_stack /\ held' = [held EXCEPT ![t] = other[t] \o @]
  <2>1. held'[t] = other[t] \o held[t] /\ \A u \in Thread \ {t} : held'[u] = held[u]
    BY <1>3, Zenon DEF TypeOK
  <2>2. /\ Nodes'[AtOther(t)] = << >>
        /\ Nodes'[AtHeld(t)] = Nodes[AtOther(t)] \o Nodes[AtHeld(t)]
    BY <1>1, <2>1, Before, After
  <2>3. \A r \in Place \ {AtOther(t), AtHeld(t)} : Nodes'[r] = Nodes[r]
    BY <1>1, <1>3, <2>1, Before, After, Places
  <2>4. Moved(Nodes, Nodes', AtOther(t), AtHeld(t), Len(Nodes[AtOther(t)])) /\ Len(Nodes[AtOther(t)]) \in Nat
    BY <1>2, <2>2, <2>3, WholeMoved, Places
  <2> QED
    BY <2>4, OneMove, Places
<1>4. CASE m_stack' = other[t] \o m_stack /\ held' = held
  <2>1. /\ Nodes'[AtOther(t)] = << >>
        /\ Nodes'[Pool] = Nodes[AtOther(t)] \o Nodes[Pool]
    BY <1>1, <1>4, Before, After
  <2>2. \A r \in Place \ {AtOther(t), Pool} : Nodes'[r] = Nodes[r]
    BY <1>1, <1>4, Before, After, Places
  <2>3. Moved(Nodes, Nodes', AtOther(t), Pool, Len(Nodes[AtOther(t)])) /\ Len(Nodes[AtOther(t)]) \in Nat
    BY <1>2, <2>1, <2>2, WholeMoved, Places
  <2> QED
    BY <2>3, OneMove, Places
<1> QED
  BY <1>3, <1>4

\* The rest of the fresh nodes goes to the pool and, in acquire, the nodes of the
\* handle to the client.
LEMMA Splice ==
  ASSUME TypeOK, TypeOK', Custody, NEW t \in Thread,
         m_stack' = alloc[t] \o m_stack, created' = created,
         alloc' = [alloc EXCEPT ![t] = << >>],
         \/ UNCHANGED <<other, held>>
         \/ /\ other' = [other EXCEPT ![t] = << >>]
            /\ held' = [held EXCEPT ![t] = other[t] \o @]
  PROVE  Custody'
<1> DEFINE stack == m_stack'
           a == alloc'
           c == PlacementOf(stack, other, a, held)
<1>1. stack \in Seq(Nat) /\ other \in PerThread /\ a \in PerThread /\ held \in PerThread
  BY DEF TypeOK, PerThread
<1> HIDE DEF stack, a
<1>2. alloc'[t] = << >> /\ \A u \in Thread \ {t} : alloc'[u] = alloc[u]
  BY DEF TypeOK
<1>3. /\ c \in Placement /\ c[Pool] = m_stack'
      /\ \A u \in Thread : /\ c[AtOther(u)] = other[u]
                          /\ c[AtAlloc(u)] = alloc'[u]
                          /\ c[AtHeld(u)] = held[u]
  <2>1. /\ c \in Placement /\ c[Pool] = stack
        /\ \A u \in Thread : /\ c[AtOther(u)] = other[u]
                            /\ c[AtAlloc(u)] = a[u]
                            /\ c[AtHeld(u)] = held[u]
    BY <1>1, PlacementParts
  <2> QED
    BY <2>1 DEF stack, a
<1>4. Nodes \in Placement /\ Nodes' \in Placement
  BY Before, After
<1>5. CASE UNCHANGED <<other, held>>
  <2>1. /\ Nodes'[AtAlloc(t)] = << >>
        /\ Nodes'[Pool] = Nodes[AtAlloc(t)] \o Nodes[Pool]
    BY <1>2, Before, After
  <2>2. \A r \in Place \ {AtAlloc(t), Pool} : Nodes'[r] = Nodes[r]
    BY <1>2, <1>5, Before, After, Places
  <2>3. Moved(Nodes, Nodes', AtAlloc(t), Pool, Len(Nodes[AtAlloc(t)])) /\ Len(Nodes[AtAlloc(t)]) \in Nat
    BY <1>4, <2>1, <2>2, WholeMoved, Places
  <2> QED
    BY <2>3, OneMove, Places
<1>6. CASE other' = [other EXCEPT ![t] = << >>] /\ held' = [held EXCEPT ![t] = other[t] \o @]
  <2> HIDE DEF c
  <2>1. OneEach(c) /\ AllOf(c) = AllOf(Nodes)
    <3>1. c[AtAlloc(t)] = << >> /\ c[Pool] = Nodes[AtAlloc(t)] \o Nodes[Pool]
      BY <1>2, <1>3, Before
    <3>2. \A r \in Place \ {AtAlloc(t), Pool} : c[r] = Nodes[r]
      BY <1>2, <1>3, Before, Places
    <3>3. Moved(Nodes, c, AtAlloc(t), Pool, Len(Nodes[AtAlloc(t)])) /\ Len(Nodes[AtAlloc(t)]) \in Nat
      BY <1>4, <3>1, <3>2, WholeMoved, Places
    <3>4. OneEach(Nodes)
      BY DEF Custody
    <3> QED
      BY <1>3, <1>4, <3>3, <3>4, MoveKeepsNodes, Places
  <2>2. OneEach(Nodes') /\ AllOf(Nodes') = AllOf(c)
    <3>1. other'[t] = << >> /\ \A u \in Thread \ {t} : other'[u] = other[u]
      BY <1>6 DEF TypeOK
    <3>2. held'[t] = other[t] \o held[t] /\ \A u \in Thread \ {t} : held'[u] = held[u]
      BY <1>6, Zenon DEF TypeOK
    <3>3. Nodes'[AtOther(t)] = << >> /\ Nodes'[AtHeld(t)] = c[AtOther(t)] \o c[AtHeld(t)]
      <4>1. /\ Nodes'[AtOther(t)] = other'[t] /\ Nodes'[AtHeld(t)] = held'[t]
            /\ c[AtOther(t)] = other[t] /\ c[AtHeld(t)] = held[t]
        BY <1>3, After
      <4> QED
        BY <3>1, <3>2, <4>1, Zenon
    <3>4. \A r \in Place \ {AtOther(t), AtHeld(t)} : Nodes'[r] = c[r]
      <4>1. m_stack' = c[Pool] /\ \A u \in Thread : alloc'[u] = c[AtAlloc(u)]
        BY <1>3
      <4>2. \A u \in Thread \ {t} : other'[u] = c[AtOther(u)] /\ held'[u] = c[AtHeld(u)]
        BY <1>3, <3>1, <3>2, Zenon
      <4> QED
        BY <4>1, <4>2, After, Places
    <3>5. Moved(c, Nodes', AtOther(t), AtHeld(t), Len(c[AtOther(t)])) /\ Len(c[AtOther(t)]) \in Nat
      BY <1>3, <3>3, <3>4, WholeMoved, Places, ZenonT(40)
    <3> QED
      BY <1>3, <1>4, <2>1, <3>5, MoveKeepsNodes, Places
  <2>3. AllOf(Nodes) = 0..(created - 1) /\ created' = created
    BY DEF Custody
  <2> QED
    BY <2>1, <2>2, <2>3 DEF Custody
<1> QED
  BY <1>5, <1>6

\* A client's nodes go to another client.
LEMMA FromClient ==
  ASSUME TypeOK, TypeOK', Custody, NEW t \in Thread, NEW u \in Thread, t # u,
         UNCHANGED <<m_stack, other, alloc, created>>,
         held' = [held EXCEPT ![t] = << >>, ![u] = held[t] \o held[u]]
  PROVE  Custody'
<1>1. /\ held'[t] = << >> /\ held'[u] = held[t] \o held[u]
      /\ \A v \in Thread \ {t, u} : held'[v] = held[v]
  BY Zenon DEF TypeOK
<1>2. Nodes'[AtHeld(t)] = << >> /\ Nodes'[AtHeld(u)] = Nodes[AtHeld(t)] \o Nodes[AtHeld(u)]
  BY <1>1, Before, After
<1>3. \A r \in Place \ {AtHeld(t), AtHeld(u)} : Nodes'[r] = Nodes[r]
  <2>1. \A v \in Thread \ {t, u} : Nodes'[AtHeld(v)] = Nodes[AtHeld(v)]
    BY <1>1, Before, After
  <2>2. /\ Nodes'[Pool] = Nodes[Pool]
        /\ \A v \in Thread : /\ Nodes'[AtOther(v)] = Nodes[AtOther(v)]
                            /\ Nodes'[AtAlloc(v)] = Nodes[AtAlloc(v)]
    BY Before, After
  <2> QED
    BY <2>1, <2>2, Places
<1>4. Nodes \in Placement
  BY Before
<1>5. /\ Moved(Nodes, Nodes', AtHeld(t), AtHeld(u), Len(Nodes[AtHeld(t)]))
      /\ Len(Nodes[AtHeld(t)]) \in Nat
  BY <1>2, <1>3, <1>4, WholeMoved, Places
<1> QED
  BY <1>5, OneMove, Places

LEMMA CustodyInit == Init => Custody
<1> SUFFICES ASSUME Init PROVE Custody
  OBVIOUS
<1>1. TypeOK
  BY ControlInit DEF Control
<1>2. \A r \in Place : Nodes[r] = << >>
  BY <1>1, Before, Places DEF Init
<1>3. OneEach(Nodes)
  BY <1>2, EmptySeq DEF OneEach
<1>4. AllOf(Nodes) = {}
  BY <1>1, <1>2, Before, InAllOf, EmptySeq
<1>5. 0..(created - 1) = {}
  BY DEF Init
<1> QED
  BY <1>3, <1>4, <1>5 DEF Custody

LEMMA CustodyStep == Control /\ Custody /\ [Next]_vars => Custody'
<1> SUFFICES ASSUME Control, Custody, [Next]_vars PROVE Custody'
  OBVIOUS
<1>0. TypeOK /\ TypeOK' /\ CallLocals
  BY TypeStep DEF Control
<1>1. ASSUME NEW t \in Thread,
             \/ Lock(t) \/ CallAcquireOne(t) \/ AcquireOneThrows(t) \/ AcquireBadAlloc(t)
             \/ ReleaseReset(t) \/ CallAvailable(t) \/ AvailableRead(t) \/ Use(t)
             \/ \E count \in Counts : CallAcquire(t, count)
      PROVE  Custody'
  BY <1>1, NoMove
     DEF Lock, CallAcquireOne, AcquireOneThrows, AcquireBadAlloc, ReleaseReset, CallAvailable,
         AvailableRead, Use, CallAcquire, shared, locals
<1>2. ASSUME NEW t \in Thread, AcquireOnePop(t) PROVE Custody'
  <2>1. other[t] = << >> /\ Popped(m_stack, 1) \in Seq(Nat)
    BY <1>0, <1>2, PopParts DEF AcquireOnePop, Goto, CallLocals, LocalsOf, TypeOK
  <2>2. Popped(m_stack, 1) \o other[t] = Popped(m_stack, 1)
    BY <2>1, ConcatEmptySeq
  <2>3. other' = [other EXCEPT ![t] = Popped(m_stack, 1) \o @]
    BY <1>2, <2>2 DEF AcquireOnePop
  <2>4. m_stack' = Left(m_stack, 1) /\ alloc' = alloc /\ created' = created /\ held' = held
    BY <1>2 DEF AcquireOnePop
  <2> QED
    BY <1>0, <2>3, <2>4, FromPool
<1>3. ASSUME NEW t \in Thread, AcquireOneAllocate(t) PROVE Custody'
  <2> DEFINE first == Popped(Fresh(created, BlockSize), 1)
  <2>1. other[t] = << >> /\ alloc[t] = << >>
    BY <1>0, <1>3 DEF AcquireOneAllocate, Goto, CallLocals, LocalsOf, Splicing
  <2>2. BlockSize \in Nat /\ first \in Seq(Nat)
    BY <1>0, SizeAssumption, FreshNodes, PopParts DEF TypeOK
  <2>3. first \o other[t] = first
    BY <2>1, <2>2, ConcatEmptySeq
  <2>4. other' = [other EXCEPT ![t] = first]
    BY <1>3 DEF AcquireOneAllocate
  <2>5. other' = [other EXCEPT ![t] = first \o @]
    BY <2>3, <2>4
  <2>6. /\ m_stack' = m_stack /\ held' = held /\ created' = created + BlockSize
        /\ alloc' = [alloc EXCEPT ![t] = Left(Fresh(created, BlockSize), 1)]
    BY <1>3 DEF AcquireOneAllocate
  <2> QED
    BY <1>0, <2>1, <2>2, <2>5, <2>6, Allocation
<1>4. ASSUME NEW t \in Thread, AcquireAllocate(t) PROVE Custody'
  <2> DEFINE numNodes == need[t] - Len(other[t])
             n == (numNodes \div BlockSize + 1) * BlockSize
  <2>1. alloc[t] = << >> /\ Len(other[t]) < need[t]
    BY <1>0, <1>4 DEF AcquireAllocate, NumNodes, NumBlocks, Goto, CallLocals, LocalsOf, Splicing
  <2>2. numNodes \in Nat
    <3>1. other[t] \in Seq(Nat) /\ need[t] \in Nat
      BY <1>0 DEF TypeOK
    <3>2. Len(other[t]) \in Nat
      BY <3>1
    <3> QED
      BY <2>1, <3>1, <3>2
  <2>3. /\ m_stack' = m_stack /\ held' = held /\ created' = created + n
        /\ other' = [other EXCEPT ![t] = Popped(Fresh(created, n), numNodes) \o @]
        /\ alloc' = [alloc EXCEPT ![t] = Left(Fresh(created, n), numNodes)]
    <3>1. m_stack' = m_stack /\ held' = held
      BY <1>4, Zenon DEF AcquireAllocate, NumNodes, NumBlocks
    <3>2. created' = created + n
      BY <1>4, Zenon DEF AcquireAllocate, NumNodes, NumBlocks
    <3>3. other' = [other EXCEPT ![t] = Popped(Fresh(created, n), numNodes) \o @]
      BY <1>4, Zenon DEF AcquireAllocate, NumNodes, NumBlocks
    <3>4. alloc' = [alloc EXCEPT ![t] = Left(Fresh(created, n), numNodes)]
      BY <1>4, Zenon DEF AcquireAllocate, NumNodes, NumBlocks
    <3> QED
      BY <3>1, <3>2, <3>3, <3>4
  <2> HIDE DEF numNodes
  <2>4. n \in Nat
    BY <2>2, AcquireAllocateSizes
  <2> HIDE DEF n
  <2> QED
    BY <1>0, <2>1, <2>2, <2>3, <2>4, Allocation
<1>5. ASSUME NEW t \in Thread, AcquireOneBadAlloc(t) PROVE Custody'
  <2>1. other[t] = << >> /\ << >> \o held[t] = held[t]
    BY <1>0, <1>5, ConcatEmptySeq DEF AcquireOneBadAlloc, CallLocals, LocalsOf, TypeOK
  <2>2. other' = other /\ held' = held
    BY <1>0, <1>5, <2>1 DEF AcquireOneBadAlloc, Return, TypeOK
  <2> QED
    BY <1>5, <2>2, NoMove DEF AcquireOneBadAlloc, shared
<1>6. ASSUME NEW t \in Thread, AcquireOneSplice(t) PROVE Custody'
  BY <1>0, <1>6, Splice DEF AcquireOneSplice, Spliced, Counted
<1>7. ASSUME NEW t \in Thread, AcquireOneConstruct(t) PROVE Custody'
  BY <1>0, <1>7, FromOther DEF AcquireOneConstruct, Return, shared
<1>8. ASSUME NEW t \in Thread, AcquireTakeAll(t) PROVE Custody'
  <2>1. other[t] = << >>
    BY <1>0, <1>8 DEF AcquireTakeAll, CallLocals, LocalsOf
  <2>2. /\ m_stack \in Seq(Nat) /\ Len(m_stack) \in Nat
        /\ Left(m_stack, Len(m_stack)) = << >> /\ Popped(m_stack, Len(m_stack)) = m_stack
        /\ m_stack \o << >> = m_stack
    BY <1>0, PopAll, ConcatEmptySeq DEF TypeOK
  <2>3. m_stack' = Left(m_stack, Len(m_stack)) /\ alloc' = alloc /\ created' = created
    BY <1>8, <2>2 DEF AcquireTakeAll
  <2>4. CASE need[t] > Len(m_stack)
    <3>1. held' = held /\ other' = [other EXCEPT ![t] = m_stack]
      BY <1>8, <2>4 DEF AcquireTakeAll
    <3>2. other' = [other EXCEPT ![t] = Popped(m_stack, Len(m_stack)) \o @]
      BY <2>1, <2>2, <3>1
    <3> QED
      BY <1>0, <2>2, <2>3, <3>1, <3>2, FromPool
  <2>5. CASE ~(need[t] > Len(m_stack))
    <3>1. held' = [held EXCEPT ![t] = m_stack \o @] /\ other' = [other EXCEPT ![t] = << >>]
      BY <1>8, <2>5 DEF AcquireTakeAll, Return
    <3>2. other' = other
      BY <1>0, <2>1, <3>1 DEF TypeOK
    <3>3. held' = [held EXCEPT ![t] = Popped(m_stack, Len(m_stack)) \o @]
      BY <2>2, <3>1
    <3> QED
      BY <1>0, <2>2, <2>3, <3>2, <3>3, FromPool
  <2> QED
    BY <2>4, <2>5
<1>9. ASSUME NEW t \in Thread, AcquireTakeSome(t) PROVE Custody'
  <2>1. other[t] = << >> /\ need[t] \in Nat
    BY <1>0, <1>9 DEF AcquireTakeSome, CallLocals, LocalsOf, TypeOK
  <2>2. other' = other
    BY <1>0, <1>9, <2>1 DEF AcquireTakeSome, Return, TypeOK
  <2>3. /\ m_stack' = Left(m_stack, need[t]) /\ alloc' = alloc /\ created' = created
        /\ held' = [held EXCEPT ![t] = Popped(m_stack, need[t]) \o @]
    BY <1>9 DEF AcquireTakeSome, Return
  <2> QED
    BY <1>0, <2>1, <2>2, <2>3, FromPool
<1>10. ASSUME NEW t \in Thread, AcquireSplice(t) PROVE Custody'
  BY <1>0, <1>10, Splice DEF AcquireSplice, Spliced, Counted, Return
<1>11. ASSUME NEW t \in Thread, NEW count \in Counts \cup {1},
              \/ CallReleaseOne(t) /\ count = 1
              \/ CallRelease(t, count)
       PROVE  Custody'
  <2>1. other[t] = << >> /\ count \in Nat
    BY <1>0, <1>11, CountsAssumption DEF CallReleaseOne, CallRelease, Goto, CallLocals, LocalsOf
  <2>2. /\ m_stack' = m_stack /\ alloc' = alloc /\ created' = created
        /\ other' = [other EXCEPT ![t] = Popped(held[t], count)]
        /\ held' = [held EXCEPT ![t] = Left(@, count)]
    BY <1>11 DEF CallReleaseOne, CallRelease, shared
  <2> QED
    BY <1>0, <2>1, <2>2, FromHeld
<1>12. ASSUME NEW t \in Thread, ReleasePush(t) PROVE Custody'
  BY <1>0, <1>12, FromOther DEF ReleasePush
<1>13. ASSUME NEW t \in Thread, NEW u \in Thread, Give(t, u) PROVE Custody'
  <2>1. UNCHANGED <<m_stack, other, alloc, created>> /\ t # u
    BY <1>13 DEF Give, shared, locals
  <2>2. held' = [held EXCEPT ![t] = << >>, ![u] = held[t] \o held[u]]
    BY <1>13 DEF Give
  <2> QED
    BY <1>0, <2>1, <2>2, FromClient
<1>14. CASE UNCHANGED vars
  BY <1>14, NoMove DEF vars, shared, locals
<1> QED
  BY <1>1, <1>2, <1>3, <1>4, <1>5, <1>6, <1>7, <1>8, <1>9, <1>10, <1>11, <1>12, <1>13, <1>14
     DEF Next, Step, Call, AcquireOneStep, AcquireStep

LEMMA CustodyInvariant == Spec => []Custody
<1>1. Init => Custody
  BY CustodyInit
<1> QED
  BY <1>1, CustodyStep, ControlInvariant, PTL DEF Spec

\* A node is never in two places: not in the free stack while a client, or a call in
\* progress, has it, and not with two clients or two calls.
THEOREM OnePlaceSafe == Spec => []OnePlace
<1>1. Custody => OnePlace
  BY CustodyIs
<1> QED
  BY CustodyInvariant, <1>1, PTL

\* No interleaving of calls, no failed allocation and no throwing constructor loses a
\* node: what doAllocate created is in the pool, in a call or with a client.
THEOREM NoNodeLostSafe == Spec => []NoNodeLost
<1>1. Custody => NoNodeLost
  BY CustodyIs
<1> QED
  BY CustodyInvariant, <1>1, PTL

=============================================================================
