----------------------- MODULE SplicePoolPromiseProofs -----------------------
(***************************************************************************)
(* What the pool promises, for any number of threads, block size and       *)
(* counts.  First, what calls hand out: exactly as many nodes as were      *)
(* asked for, and none that still holds what a client wrote; this follows  *)
(* from where written nodes can be (OnlyClientsDirty) and from custody: a  *)
(* node about to be handed out is in no other place.  Then allocated() and *)
(* available() count right: the invariant names the nodes each call has    *)
(* created and not yet counted, which are still with that call, and        *)
(* m_allocated is the number of the others.  And every step of SplicePool  *)
(* is one of PoolSpec or changes nothing a client sees.                    *)
(***************************************************************************)
EXTENDS SplicePoolCustodyProofs, FiniteSetTheorems

-----------------------------------------------------------------------------
(* What calls hand out                                                     *)

LEMMA ConcatRange ==
  ASSUME NEW q \in Seq(Nat), NEW r \in Seq(Nat)
  PROVE  Range(q \o r) = Range(q) \cup Range(r)
<1>1. \A S : \A s \in Seq(S), u \in Seq(S) : Range(s \o u) = Range(s) \cup Range(u)
  BY RangeConcatenation, Zenon
<1> QED
  BY <1>1, SMT

LEMMA PopRange ==
  ASSUME NEW s \in Seq(Nat), NEW count \in Nat
  PROVE  /\ Range(s) = Range(Popped(s, count)) \cup Range(Left(s, count))
         /\ Popped(s, count) \in Seq(Nat) /\ Left(s, count) \in Seq(Nat)
<1> DEFINE k == PopCount(s, count)
           front == Popped(s, count)
           back == Left(s, count)
<1>1. /\ k \in 0..Len(s) /\ Len(s) \in Nat
      /\ front \in Seq(Nat) /\ back \in Seq(Nat)
      /\ Len(front) = k /\ Len(back) = Len(s) - k
      /\ \A i \in 1..k : front[i] = s[i]
      /\ \A i \in 1..(Len(s) - k) : back[i] = s[k + i]
  BY PopParts, LenProperties, ZenonT(40)
<1> HIDE DEF k, front, back
<1>2. /\ Range(s) = {s[i] : i \in 1..Len(s)}
      /\ Range(front) = {front[i] : i \in 1..k}
      /\ Range(back) = {back[i] : i \in 1..(Len(s) - k)}
  BY <1>1, LenProperties DEF Range
<1>3. \A i \in 1..Len(s) : s[i] \in Range(front) \cup Range(back)
  <2> TAKE i \in 1..Len(s)
  <2>1. CASE i <= k
    BY <1>1, <1>2, <2>1
  <2>2. CASE i > k
    <3> DEFINE j == i - k
    <3>1. j \in 1..(Len(s) - k) /\ k + j = i
      BY <1>1, <2>2
    <3> HIDE DEF j
    <3> QED
      BY <1>1, <1>2, <3>1
  <2> QED
    BY <1>1, <2>1, <2>2
<1>4. \A i \in 1..k : front[i] \in Range(s)
  <2> TAKE i \in 1..k
  <2>1. i \in 1..Len(s) /\ front[i] = s[i]
    BY <1>1
  <2> QED
    BY <1>2, <2>1, Zenon
<1>5. \A i \in 1..(Len(s) - k) : back[i] \in Range(s)
  <2> TAKE i \in 1..(Len(s) - k)
  <2>1. k + i \in 1..Len(s)
    BY <1>1
  <2> QED
    BY <1>1, <1>2, <2>1
<1>6. Range(s) = Range(front) \cup Range(back)
  BY <1>2, <1>3, <1>4, <1>5
<1> QED
  BY <1>1, <1>6 DEF front, back

-----------------------------------------------------------------------------
(* Where the nodes are that a client has written                           *)

\* A step of a call that has no nodes to be reset and gives its client none.
LEMMA ElsewhereStep ==
  ASSUME NEW t \in Thread, held' = held, pc[t] # "rel_reset",
         \A u \in Thread \ {t} : other'[u] = other[u] /\ pc'[u] = pc[u],
         dirty' = dirty, OnlyClientsDirty
  PROVE  OnlyClientsDirty'
BY DEF OnlyClientsDirty

\* A call that returns the nodes q.
LEMMA ReturnStep ==
  ASSUME TypeOK, NEW t \in Thread, NEW q \in Seq(Nat), Return(t, q),
         pc[t] # "rel_reset", dirty' \subseteq dirty \cup Range(q), OnlyClientsDirty
  PROVE  OnlyClientsDirty'
<1>1. Range(held'[t]) = Range(q) \cup Range(held[t])
  <2>1. held[t] \in Seq(Nat) /\ held'[t] = q \o held[t]
    BY DEF TypeOK, Return
  <2> QED
    BY <2>1, ConcatRange
<1>2. \A u \in Thread \ {t} : held'[u] = held[u] /\ other'[u] = other[u] /\ pc'[u] = pc[u]
  BY DEF TypeOK, Return
<1> QED
  BY <1>1, <1>2 DEF OnlyClientsDirty

\* A client that starts to release nodes of its own.
LEMMA ReleaseStep ==
  ASSUME TypeOK, NEW t \in Thread, NEW count \in Nat, pc[t] = "idle",
         pc' = [pc EXCEPT ![t] = "rel_reset"],
         other' = [other EXCEPT ![t] = Popped(held[t], count)],
         held' = [held EXCEPT ![t] = Left(@, count)],
         dirty' = dirty, OnlyClientsDirty
  PROVE  OnlyClientsDirty'
<1>1. Range(held[t]) = Range(other'[t]) \cup Range(held'[t]) /\ pc'[t] = "rel_reset"
  <2>1. held[t] \in Seq(Nat)
    BY DEF TypeOK
  <2>2. other'[t] = Popped(held[t], count) /\ held'[t] = Left(held[t], count) /\ pc'[t] = "rel_reset"
    BY DEF TypeOK
  <2> QED
    BY <2>1, <2>2, PopRange
<1>2. \A u \in Thread \ {t} : held'[u] = held[u] /\ other'[u] = other[u] /\ pc'[u] = pc[u]
  BY DEF TypeOK
<1> QED
  BY <1>1, <1>2 DEF OnlyClientsDirty

LEMMA DirtyStep == Control /\ OnlyClientsDirty /\ [Next]_vars => OnlyClientsDirty'
<1> SUFFICES ASSUME Control, OnlyClientsDirty, [Next]_vars PROVE OnlyClientsDirty'
  OBVIOUS
<1>0. TypeOK /\ CallLocals
  BY DEF Control
<1>e. << >> \in Seq(Nat) /\ Range(<< >>) = {}
  BY EmptySeq DEF Range
<1>1. ASSUME NEW t \in Thread,
             \/ Lock(t) \/ CallAcquireOne(t) \/ AcquireOnePop(t) \/ AcquireOneAllocate(t)
             \/ AcquireOneSplice(t) \/ AcquireAllocate(t) \/ CallAvailable(t)
             \/ AvailableRead(t) \/ ReleasePush(t) \/ AcquireBadAlloc(t)
             \/ \E count \in Counts : CallAcquire(t, count)
      PROVE  OnlyClientsDirty'
  <2>1. held' = held /\ dirty' = dirty /\ pc[t] # "rel_reset"
    BY <1>1 DEF Lock, LockAt, CallAcquireOne, AcquireOnePop, AcquireOneAllocate, AcquireOneSplice,
                AcquireAllocate, CallAvailable, AvailableRead, ReleasePush, AcquireBadAlloc,
                CallAcquire, Goto
  <2>2. \E to : pc' = [pc EXCEPT ![t] = to]
    BY <1>1 DEF Lock, LockAt, CallAcquireOne, AcquireOnePop, AcquireOneAllocate, AcquireOneSplice,
                AcquireAllocate, CallAvailable, AvailableRead, ReleasePush, AcquireBadAlloc,
                CallAcquire, Goto
  <2>3. \E q : other' = other \/ other' = [other EXCEPT ![t] = q]
    BY <1>1 DEF Lock, CallAcquireOne, AcquireOnePop, AcquireOneAllocate, AcquireOneSplice,
                AcquireAllocate, CallAvailable, AvailableRead, ReleasePush, AcquireBadAlloc,
                CallAcquire, locals
  <2>4. \A u \in Thread \ {t} : other'[u] = other[u] /\ pc'[u] = pc[u]
    BY <2>2, <2>3, <1>0 DEF TypeOK
  <2> QED
    BY <2>1, <2>4, ElsewhereStep
<1>2. ASSUME NEW t \in Thread,
             \/ AcquireOneBadAlloc(t) \/ AcquireTakeAll(t) \/ AcquireTakeSome(t)
             \/ AcquireOneConstruct(t) \/ AcquireSplice(t)
      PROVE  OnlyClientsDirty'
  <2>1. pc[t] # "rel_reset"
    BY <1>2 DEF AcquireOneBadAlloc, AcquireTakeAll, AcquireTakeSome, AcquireOneConstruct, AcquireSplice
  <2>2. m_stack \in Seq(Nat) /\ other[t] \in Seq(Nat) /\ Popped(m_stack, need[t]) \in Seq(Nat)
    BY <1>0, PopParts DEF TypeOK
  <2>3. CASE AcquireTakeAll(t) /\ need[t] > Len(m_stack)
    <3>1. /\ held' = held /\ dirty' = dirty
          /\ \A u \in Thread \ {t} : other'[u] = other[u] /\ pc'[u] = pc[u]
      BY <2>3, <1>0 DEF AcquireTakeAll, TypeOK
    <3> QED
      BY <2>1, <3>1, ElsewhereStep
  <2>4. CASE ~(AcquireTakeAll(t) /\ need[t] > Len(m_stack))
    <3>1. \E q \in Seq(Nat) : Return(t, q) /\ dirty' \subseteq dirty \cup Range(q)
      <4>1. CASE AcquireOneBadAlloc(t)
        BY <4>1, <1>e, Zenon DEF AcquireOneBadAlloc
      <4>2. CASE AcquireTakeAll(t)
        BY <4>2, <2>2, <2>4 DEF AcquireTakeAll
      <4>3. CASE AcquireTakeSome(t)
        BY <4>3, <2>2, Zenon DEF AcquireTakeSome
      <4>4. CASE AcquireOneConstruct(t)
        <5>1. dirty' \subseteq dirty \cup Range(other[t])
          BY <4>4 DEF AcquireOneConstruct
        <5> QED
          BY <4>4, <5>1, <2>2, Zenon DEF AcquireOneConstruct
      <4>5. CASE AcquireSplice(t)
        BY <4>5, <2>2, Zenon DEF AcquireSplice
      <4> QED
        BY <1>2, <4>1, <4>2, <4>3, <4>4, <4>5, Zenon
    <3> QED
      BY <1>0, <2>1, <3>1, ReturnStep
  <2> QED
    BY <2>3, <2>4
<1>3. ASSUME NEW t \in Thread, AcquireOneThrows(t) PROVE OnlyClientsDirty'
  <2>1. /\ held' = held /\ other' = other /\ dirty' = dirty \cup Range(other[t])
        /\ pc'[t] = "rel_reset" /\ pc[t] # "rel_reset"
        /\ \A u \in Thread \ {t} : pc'[u] = pc[u]
    BY <1>3, <1>0 DEF AcquireOneThrows, Goto, TypeOK
  <2> QED
    BY <2>1 DEF OnlyClientsDirty
<1>4. ASSUME NEW t \in Thread, NEW count \in Counts \cup {1},
             \/ CallReleaseOne(t) /\ count = 1
             \/ CallRelease(t, count)
      PROVE  OnlyClientsDirty'
  <2>1. /\ pc[t] = "idle" /\ pc' = [pc EXCEPT ![t] = "rel_reset"] /\ dirty' = dirty
        /\ other' = [other EXCEPT ![t] = Popped(held[t], count)]
        /\ held' = [held EXCEPT ![t] = Left(@, count)]
    BY <1>4 DEF CallReleaseOne, CallRelease, Goto
  <2>2. count \in Nat
    BY CountsAssumption
  <2> QED
    BY <1>0, <2>1, <2>2, ReleaseStep
<1>5. ASSUME NEW t \in Thread, ReleaseReset(t) PROVE OnlyClientsDirty'
  <2>1. /\ held' = held /\ other' = other /\ dirty' = dirty \ Range(other[t])
        /\ \A u \in Thread \ {t} : pc'[u] = pc[u]
    BY <1>5, <1>0 DEF ReleaseReset, Goto, TypeOK, locals
  <2> QED
    BY <2>1 DEF OnlyClientsDirty
<1>6. ASSUME NEW t \in Thread, Use(t) PROVE OnlyClientsDirty'
  <2>1. held' = held /\ other' = other /\ pc' = pc /\ dirty' = dirty \cup Range(held[t])
    BY <1>6 DEF Use, locals
  <2> QED
    BY <2>1 DEF OnlyClientsDirty
<1>7. ASSUME NEW t \in Thread, NEW u \in Thread, Give(t, u) PROVE OnlyClientsDirty'
  <2>1. /\ other' = other /\ pc' = pc /\ dirty' = dirty /\ t # u
        /\ held'[u] = held[t] \o held[u]
        /\ \A w \in Thread \ {t, u} : held'[w] = held[w]
    BY <1>7, <1>0 DEF Give, locals, TypeOK
  <2>2. Range(held'[u]) = Range(held[t]) \cup Range(held[u])
    <3>1. held[t] \in Seq(Nat) /\ held[u] \in Seq(Nat)
      BY <1>0 DEF TypeOK
    <3> QED
      BY <2>1, <3>1, ConcatRange
  <2> QED
    BY <2>1, <2>2 DEF OnlyClientsDirty
<1>8. CASE UNCHANGED vars
  BY <1>8 DEF vars, shared, locals, OnlyClientsDirty
<1> QED
  BY <1>1, <1>2, <1>3, <1>4, <1>5, <1>6, <1>7, <1>8
     DEF Next, Step, Call, AcquireOneStep, AcquireStep

\* The values in free nodes, and in nodes on their way to or from the pool, are reset
\* ones: only nodes of a client, or nodes about to be reset, have been written.
THEOREM OnlyClientsDirtySafe == Spec => []OnlyClientsDirty
<1>1. Init => OnlyClientsDirty
  BY DEF Init, OnlyClientsDirty
<1> QED
  BY <1>1, DirtyStep, ControlInvariant, PTL DEF Spec

-----------------------------------------------------------------------------
(* What a call that returns does                                           *)

\* The steps that end a call which asked for nodes.
Ends(t) ==
  \/ AcquireOneConstruct(t) \/ AcquireOneBadAlloc(t)
  \/ (AcquireTakeAll(t) /\ ~(need[t] > Len(m_stack))) \/ AcquireTakeSome(t)
  \/ AcquireBadAlloc(t) \/ AcquireSplice(t)

LEMMA OnlyEnds ==
  ASSUME TypeOK, Next, NEW t \in Thread,
         pc[t] \in {"one_construct", "acq_take", "acq_splice", "one_alloc", "acq_alloc"},
         pc'[t] = "idle"
  PROVE  Ends(t)
<1>1. PICK u \in Thread : Step(u) \/ Call(u)
  BY DEF Next
<1>2. ASSUME NEW from, NEW to, Goto(u, from, to), to # "idle" PROVE FALSE
  BY <1>2 DEF Goto, TypeOK
<1>3. ASSUME NEW from, Goto(u, from, "idle"), from \in {"rel_push", "avail_read"} PROVE FALSE
  BY <1>3 DEF Goto, TypeOK
<1>4. ~(Lock(u) \/ ReleaseReset(u) \/ ReleasePush(u) \/ AvailableRead(u))
  BY <1>2, <1>3 DEF Lock, LockAt, ReleaseReset, ReleasePush, AvailableRead
<1>5. ~Call(u)
  <2>1. ~(CallAcquireOne(u) \/ CallReleaseOne(u) \/ CallAvailable(u))
    BY <1>2 DEF CallAcquireOne, CallReleaseOne, CallAvailable
  <2>2. \A count \in Counts : ~(CallAcquire(u, count) \/ CallRelease(u, count))
    BY <1>2 DEF CallAcquire, CallRelease
  <2>3. ~Use(u) /\ \A v \in Thread : ~Give(u, v)
    BY DEF Use, Give
  <2> QED
    BY <2>1, <2>2, <2>3 DEF Call
<1>6. ~(AcquireOnePop(u) \/ AcquireOneAllocate(u) \/ AcquireOneSplice(u) \/ AcquireOneThrows(u) \/ AcquireAllocate(u))
  BY <1>2 DEF AcquireOnePop, AcquireOneAllocate, AcquireOneSplice, AcquireOneThrows, AcquireAllocate
<1>7. ~(AcquireTakeAll(u) /\ need[u] > Len(m_stack))
  BY DEF AcquireTakeAll, TypeOK
<1>8. Ends(u)
  BY <1>1, <1>4, <1>5, <1>6, <1>7 DEF Step, AcquireOneStep, AcquireStep, Ends
<1>9. \E to : pc' = [pc EXCEPT ![u] = to]
  BY <1>8 DEF Ends, AcquireOneConstruct, AcquireOneBadAlloc, AcquireTakeAll, AcquireTakeSome,
              AcquireBadAlloc, AcquireSplice, Return
<1>10. u = t
  BY <1>9 DEF TypeOK
<1> QED
  BY <1>8, <1>10

\* The nodes each of them hands to its client, and their number.
LEMMA EndsHandOver ==
  ASSUME Control, NEW t \in Thread, Ends(t)
  PROVE  \E q \in Seq(Nat) :
           /\ held'[t] = q \o held[t]
           /\ \/ pc[t] \in {"one_alloc", "acq_alloc"} /\ q = << >>
              \/ pc[t] \in {"one_construct", "acq_splice"} /\ q = other[t] /\ Len(q) = need[t]
              \/ pc[t] = "acq_take" /\ q = Popped(m_stack, need[t]) /\ Len(q) = need[t]
<1>0. TypeOK /\ CallLocals
  BY DEF Control
<1>1. /\ m_stack \in Seq(Nat) /\ other[t] \in Seq(Nat) /\ held[t] \in Seq(Nat)
      /\ need[t] \in Nat /\ << >> \in Seq(Nat)
  BY <1>0, EmptySeq DEF TypeOK
<1>2. ASSUME NEW q, Return(t, q) PROVE held'[t] = q \o held[t]
  BY <1>2, <1>0 DEF Return, TypeOK
<1>3. CASE AcquireOneBadAlloc(t)
  <2>1. held'[t] = << >> \o held[t] /\ pc[t] = "one_alloc"
    BY <1>2, <1>3 DEF AcquireOneBadAlloc
  <2> QED
    BY <1>1, <2>1
<1>4. CASE AcquireBadAlloc(t)
  <2>1. held'[t] = held[t] /\ pc[t] = "acq_alloc"
    BY <1>4 DEF AcquireBadAlloc
  <2>2. << >> \o held[t] = held[t]
    BY <1>1, ConcatEmptySeq
  <2> QED
    BY <1>1, <2>1, <2>2
<1>5. CASE AcquireOneConstruct(t) \/ AcquireSplice(t)
  <2>1. /\ pc[t] \in {"one_construct", "acq_splice"}
        /\ held'[t] = other[t] \o held[t]
    BY <1>2, <1>5 DEF AcquireOneConstruct, AcquireSplice
  <2>2. Len(other[t]) = need[t]
    BY <1>0, <2>1 DEF CallLocals, LocalsOf, Splicing
  <2> QED
    BY <1>1, <2>1, <2>2
<1>6. CASE AcquireTakeAll(t) /\ ~(need[t] > Len(m_stack))
  <2>1. pc[t] = "acq_take" /\ held'[t] = m_stack \o held[t] /\ Len(m_stack) = need[t]
    <3>1. Return(t, m_stack) /\ need[t] >= Len(m_stack) /\ pc[t] = "acq_take"
      BY <1>6 DEF AcquireTakeAll
    <3> QED
      BY <1>1, <1>2, <1>6, <3>1, LenProperties
  <2>2. Popped(m_stack, need[t]) = m_stack
    BY <1>1, <2>1, PopAll
  <2> QED
    BY <1>1, <2>1, <2>2
<1>7. CASE AcquireTakeSome(t)
  <2>1. /\ pc[t] = "acq_take" /\ need[t] < Len(m_stack)
        /\ held'[t] = Popped(m_stack, need[t]) \o held[t]
    BY <1>2, <1>7 DEF AcquireTakeSome
  <2>2. Popped(m_stack, need[t]) \in Seq(Nat) /\ Len(Popped(m_stack, need[t])) = need[t]
    <3>1. Popped(m_stack, need[t]) \in Seq(Nat)
      BY <1>1, PopParts, Zenon
    <3>2. need[t] <= Len(m_stack)
      BY <1>1, <2>1, LenProperties
    <3> QED
      BY <1>1, <3>1, <3>2, PopLengths, Zenon
  <2> QED
    BY <2>1, <2>2
<1> QED
  BY <1>3, <1>4, <1>5, <1>6, <1>7 DEF Ends

\* A call that returns normally hands over exactly the nodes asked for, pooled or
\* fresh, and a call that fails none.
THEOREM ExactCountSafe == Spec => ExactCount
<1> DEFINE Exact ==
      \A t \in Thread :
        /\ Returning(t, {"one_construct", "acq_take", "acq_splice"}) =>
             Len(held'[t]) = Len(held[t]) + need[t]
        /\ Returning(t, {"one_alloc", "acq_alloc"}) => held'[t] = held[t]
<1>1. Control /\ [Next]_vars => [Exact]_vars
  <2> SUFFICES ASSUME Control, Next, NEW t \in Thread,
                      pc[t] \in {"one_construct", "acq_take", "acq_splice", "one_alloc", "acq_alloc"},
                      pc'[t] = "idle"
               PROVE  /\ pc[t] \in {"one_construct", "acq_take", "acq_splice"} =>
                           Len(held'[t]) = Len(held[t]) + need[t]
                      /\ pc[t] \in {"one_alloc", "acq_alloc"} => held'[t] = held[t]
    BY DEF Returning
  <2>1. Ends(t)
    BY OnlyEnds DEF Control
  <2>2. PICK q \in Seq(Nat) :
          /\ held'[t] = q \o held[t]
          /\ \/ pc[t] \in {"one_alloc", "acq_alloc"} /\ q = << >>
             \/ pc[t] \in {"one_construct", "acq_splice"} /\ q = other[t] /\ Len(q) = need[t]
             \/ pc[t] = "acq_take" /\ q = Popped(m_stack, need[t]) /\ Len(q) = need[t]
    BY <2>1, EndsHandOver, Zenon
  <2>3. held[t] \in Seq(Nat) /\ need[t] \in Nat /\ Len(held[t]) \in Nat
    BY LenProperties DEF Control, TypeOK
  <2>4. Len(q \o held[t]) = Len(q) + Len(held[t])
    BY <2>3, ConcatParts
  <2>5. << >> \o held[t] = held[t]
    BY <2>3, ConcatEmptySeq
  <2>6. CASE pc[t] \in {"one_alloc", "acq_alloc"}
    <3>1. held'[t] = held[t] /\ pc[t] \notin {"one_construct", "acq_take", "acq_splice"}
      BY <2>2, <2>5, <2>6
    <3> QED
      BY <3>1
  <2>7. CASE pc[t] \in {"one_construct", "acq_take", "acq_splice"}
    <3>1. held'[t] = q \o held[t] /\ Len(q) = need[t] /\ pc[t] \notin {"one_alloc", "acq_alloc"}
      BY <2>2, <2>7
    <3> QED
      BY <2>3, <2>4, <3>1
  <2> QED
    BY <2>6, <2>7
<1> QED
  BY <1>1, ControlInvariant, PTL DEF Spec, ExactCount

-----------------------------------------------------------------------------
(* Nothing written is handed out                                           *)

\* A node in the free stack, or in a handle that is not being reset, is not one a
\* client has written.
LEMMA NotWritten ==
  ASSUME TypeOK, OnePlace, OnlyClientsDirty
  PROVE  /\ \A n \in Range(m_stack) : n \notin dirty
         /\ \A t \in Thread : pc[t] # "rel_reset" =>
              \A n \in Range(other[t]) : n \notin dirty
<1>1. /\ Pool \in Place
      /\ \A t \in Thread : AtOther(t) \in Place /\ AtHeld(t) \in Place
  BY Places
<1>2. /\ NodesAt(Pool) = m_stack
      /\ \A t \in Thread : NodesAt(AtOther(t)) = other[t] /\ NodesAt(AtHeld(t)) = held[t]
  BY DEF NodesAt, Pool, AtOther, AtHeld
<1>3. \A p, q \in Place, n \in Nat :
        NodesAt(p) \in Seq(Nat) /\ NodesAt(q) \in Seq(Nat)
        /\ n \in Range(NodesAt(p)) /\ n \in Range(NodesAt(q)) => p = q
  <2> SUFFICES ASSUME NEW p \in Place, NEW q \in Place, NEW n \in Nat,
                      NodesAt(p) \in Seq(Nat), NodesAt(q) \in Seq(Nat),
                      n \in Range(NodesAt(p)), n \in Range(NodesAt(q))
               PROVE  p = q
    OBVIOUS
  <2>1. DOMAIN NodesAt(p) = 1..Len(NodesAt(p)) /\ DOMAIN NodesAt(q) = 1..Len(NodesAt(q))
    BY LenProperties, Zenon
  <2>2. PICK i \in 1..Len(NodesAt(p)) : n = NodesAt(p)[i]
    BY <2>1, Zenon DEF Range
  <2>3. PICK j \in 1..Len(NodesAt(q)) : n = NodesAt(q)[j]
    BY <2>1, Zenon DEF Range
  <2>4. \A k \in 1..Len(NodesAt(p)), m \in 1..Len(NodesAt(q)) :
          NodesAt(p)[k] = NodesAt(q)[m] => p = q /\ k = m
    BY Zenon DEF OnePlace
  <2> QED
    BY <2>2, <2>3, <2>4, Zenon
<1>4. /\ m_stack \in Seq(Nat)
      /\ \A t \in Thread : other[t] \in Seq(Nat) /\ held[t] \in Seq(Nat)
  BY DEF TypeOK
<1>5. \A n \in dirty : n \in Nat
  BY DEF TypeOK
<1>6. /\ \A t \in Thread : Pool # AtOther(t) /\ Pool # AtHeld(t)
      /\ \A t, u \in Thread : AtOther(t) # AtHeld(u) /\ (t # u => AtOther(t) # AtOther(u))
  BY Places
<1>7. ASSUME NEW n \in Range(m_stack), n \in dirty PROVE FALSE
  <2>1. PICK u \in Thread : n \in Range(held[u]) \/ n \in Range(other[u])
    BY <1>7 DEF OnlyClientsDirty
  <2> QED
    BY <1>1, <1>2, <1>3, <1>4, <1>5, <1>6, <1>7, <2>1, Zenon
<1>8. ASSUME NEW t \in Thread, pc[t] # "rel_reset", NEW n \in Range(other[t]), n \in dirty
      PROVE  FALSE
  <2>1. PICK u \in Thread : n \in Range(held[u]) \/ (n \in Range(other[u]) /\ u # t)
    BY <1>8 DEF OnlyClientsDirty
  <2> QED
    BY <1>1, <1>2, <1>3, <1>4, <1>5, <1>6, <1>8, <2>1, Zenon
<1> QED
  BY <1>7, <1>8

\* What acquire returns, and in a BufferPool what acquireOne returns, has been reset
\* since any client last wrote it.
THEOREM CleanHandOutSafe == Spec => CleanHandOut
<1> DEFINE Labels == {"acq_take", "acq_splice"}
                       \cup (IF IsPointer THEN {"one_construct"} ELSE {})
           Clean ==
      \A t \in Thread :
        Returning(t, Labels) => (Range(held'[t]) \ Range(held[t])) \cap dirty' = {}
<1>1. Control /\ OnePlace /\ OnlyClientsDirty /\ [Next]_vars => [Clean]_vars
  <2> SUFFICES ASSUME Control, OnePlace, OnlyClientsDirty, Next,
                      NEW t \in Thread, pc[t] \in Labels, pc'[t] = "idle"
               PROVE  (Range(held'[t]) \ Range(held[t])) \cap dirty' = {}
    BY DEF Returning
  <2>0. TypeOK
    BY DEF Control
  <2>1. pc[t] \in {"acq_take", "acq_splice", "one_construct"} /\ (pc[t] = "one_construct" => IsPointer)
    OBVIOUS
  <2>2. Ends(t)
    BY <2>0, <2>1, OnlyEnds
  <2>3. dirty' = dirty
    BY <2>1, <2>2 DEF Ends, AcquireOneConstruct, AcquireOneBadAlloc, AcquireTakeAll,
                      AcquireTakeSome, AcquireBadAlloc, AcquireSplice
  <2>4. PICK q \in Seq(Nat) :
          /\ held'[t] = q \o held[t]
          /\ \/ pc[t] \in {"one_alloc", "acq_alloc"} /\ q = << >>
             \/ pc[t] \in {"one_construct", "acq_splice"} /\ q = other[t] /\ Len(q) = need[t]
             \/ pc[t] = "acq_take" /\ q = Popped(m_stack, need[t]) /\ Len(q) = need[t]
    BY <2>2, EndsHandOver, Zenon
  <2>5. Range(q) \subseteq Range(m_stack) \/ q = other[t]
    <3>1. m_stack \in Seq(Nat) /\ need[t] \in Nat
      BY <2>0 DEF TypeOK
    <3>2. Range(Popped(m_stack, need[t])) \subseteq Range(m_stack)
      <4>1. Range(m_stack) = Range(Popped(m_stack, need[t])) \cup Range(Left(m_stack, need[t]))
        BY <3>1, PopRange, Zenon
      <4> QED
        BY <4>1, Zenon
    <3> QED
      BY <2>1, <2>4, <3>2
  <2>6. Range(q) \cap dirty = {}
    BY <2>0, <2>1, <2>5, NotWritten
  <2>7. Range(held'[t]) = Range(q) \cup Range(held[t])
    <3>1. held[t] \in Seq(Nat)
      BY <2>0 DEF TypeOK
    <3> QED
      BY <2>4, <3>1, ConcatRange
  <2> QED
    BY <2>3, <2>6, <2>7
<1> QED
  BY <1>1, ControlInvariant, OnePlaceSafe, OnlyClientsDirtySafe, PTL DEF Spec, CleanHandOut

-----------------------------------------------------------------------------
(* What the pool has created and counted                                   *)

Created == 0..(created - 1)

\* uncounted[t]: the nodes of the blocks that numBlocks[t] counts.
Uncounted(uncounted) ==
  /\ \A t \in Thread :
       /\ uncounted[t] \subseteq Range(other[t]) \cup Range(alloc[t])
       /\ Cardinality(uncounted[t]) = numBlocks[t] * BlockSize
  /\ Cardinality(Created \ UNION {uncounted[t] : t \in Thread}) = m_allocated
Account == \E uncounted \in [Thread -> SUBSET Created] : Uncounted(uncounted)

-----------------------------------------------------------------------------
(* What custody says of the nodes as sets                                  *)

LEMMA RangeApart ==
  ASSUME TypeOK, Custody, NEW p \in Place, NEW q \in Place
  PROVE  /\ Range(Nodes[p]) \subseteq Created
         /\ p # q => Range(Nodes[p]) \cap Range(Nodes[q]) = {}
<1>1. Nodes \in Placement
  BY Before
<1>2. Range(Nodes[p]) = {Nodes[p][i] : i \in 1..Len(Nodes[p])}
      /\ Range(Nodes[q]) = {Nodes[q][i] : i \in 1..Len(Nodes[q])}
  BY <1>1 DEF Range, Placement
<1>3. AllOf(Nodes) = Created /\ OneEach(Nodes)
  BY DEF Custody, Created
<1>4. Range(Nodes[p]) \subseteq Created
  BY <1>3, Zenon DEF AllOf
<1>5. p # q => Range(Nodes[p]) \cap Range(Nodes[q]) = {}
  <2> SUFFICES ASSUME p # q, NEW i \in 1..Len(Nodes[p]), NEW j \in 1..Len(Nodes[q]),
                      Nodes[p][i] = Nodes[q][j]
               PROVE  FALSE
    BY <1>2
  <2> QED
    BY <1>3, Zenon DEF OneEach
<1> QED
  BY <1>4, <1>5

LEMMA ApartParts ==
  ASSUME TypeOK, Custody, NEW t \in Thread
  PROVE  /\ Range(m_stack) \subseteq Created
         /\ Range(other[t]) \cup Range(alloc[t]) \subseteq Created
         /\ Range(m_stack) \cap (Range(other[t]) \cup Range(alloc[t])) = {}
         /\ Range(m_stack) \cap Range(held[t]) = {}
         /\ \A u \in Thread \ {t} : (Range(other[t]) \cup Range(alloc[t]))
                                      \cap (Range(other[u]) \cup Range(alloc[u])) = {}
<1>1. /\ Nodes[Pool] = m_stack
      /\ \A u \in Thread : /\ Nodes[AtOther(u)] = other[u]
                           /\ Nodes[AtAlloc(u)] = alloc[u]
                           /\ Nodes[AtHeld(u)] = held[u]
  BY Before
<1>2. Range(m_stack) \subseteq Created
  BY <1>1, RangeApart, Places, Zenon
<1>3. Range(other[t]) \subseteq Created /\ Range(alloc[t]) \subseteq Created
  BY <1>1, RangeApart, Places, Zenon
<1>4. /\ Range(m_stack) \cap Range(other[t]) = {} /\ Range(m_stack) \cap Range(alloc[t]) = {}
      /\ Range(m_stack) \cap Range(held[t]) = {}
  <2>1. /\ Pool \in Place /\ AtOther(t) \in Place /\ AtAlloc(t) \in Place /\ AtHeld(t) \in Place
        /\ Pool # AtOther(t) /\ Pool # AtAlloc(t) /\ Pool # AtHeld(t)
    BY Places, Zenon
  <2> QED
    BY <1>1, <2>1, RangeApart, Zenon
<1>5. ASSUME NEW u \in Thread \ {t}
      PROVE  /\ Range(other[t]) \cap Range(other[u]) = {}
             /\ Range(other[t]) \cap Range(alloc[u]) = {}
             /\ Range(alloc[t]) \cap Range(other[u]) = {}
             /\ Range(alloc[t]) \cap Range(alloc[u]) = {}
  <2>1. /\ {AtOther(t), AtAlloc(t), AtOther(u), AtAlloc(u)} \subseteq Place
        /\ AtOther(t) # AtOther(u) /\ AtOther(t) # AtAlloc(u)
        /\ AtAlloc(t) # AtOther(u) /\ AtAlloc(t) # AtAlloc(u)
    BY Places
  <2>2. \A p, q \in Place : p # q => Range(Nodes[p]) \cap Range(Nodes[q]) = {}
    BY RangeApart, Zenon
  <2> QED
    BY <1>1, <2>1, <2>2
<1> QED
  BY <1>2, <1>3, <1>4, <1>5

\* A sequence without repetition has as many nodes as its length.
LEMMA Distinct ==
  ASSUME NEW s \in Seq(Nat), \A i, j \in 1..Len(s) : s[i] = s[j] => i = j
  PROVE  IsFiniteSet(Range(s)) /\ Cardinality(Range(s)) = Len(s)
<1>1. Len(s) \in Nat /\ DOMAIN s = 1..Len(s) /\ s \in [1..Len(s) -> Range(s)]
  BY DEF Range
<1>2. s \in Bijection(1..Len(s), Range(s))
  BY <1>1 DEF Bijection, Injection, Surjection, IsInjective, Range
<1>3. ExistsBijection(1..Len(s), Range(s))
  BY <1>2 DEF ExistsBijection
<1>4. IsFiniteSet(1..Len(s)) /\ Cardinality(1..Len(s)) = Len(s)
  BY <1>1, FS_Interval
<1> QED
  BY <1>3, <1>4, FS_Bijection

LEMMA StackDistinct ==
  ASSUME TypeOK, Custody
  PROVE  IsFiniteSet(Range(m_stack)) /\ Cardinality(Range(m_stack)) = Len(m_stack)
<1>1. \A i, j \in 1..Len(m_stack) : m_stack[i] = m_stack[j] => i = j
  <2>1. Pool \in Place /\ Nodes[Pool] = m_stack
    BY Before, Places, Zenon
  <2>2. \A i, j \in 1..Len(Nodes[Pool]) : Nodes[Pool][i] = Nodes[Pool][j] => i = j
    BY <2>1, Zenon DEF Custody, OneEach
  <2> QED
    BY <2>1, <2>2, Zenon
<1> QED
  BY <1>1, Distinct DEF TypeOK

LEMMA CreatedFinite ==
  ASSUME TypeOK
  PROVE  /\ IsFiniteSet(Created) /\ Cardinality(Created) = created
         /\ \A S \in SUBSET Created : IsFiniteSet(S)
<1>1. created \in Nat
  BY DEF TypeOK
<1>2. IsFiniteSet(Created) /\ Cardinality(Created) = created
  <2>1. IsFiniteSet(0..(created - 1))
        /\ Cardinality(0..(created - 1)) = IF 0 > created - 1 THEN 0 ELSE (created - 1) - 0 + 1
    BY <1>1, FS_Interval
  <2> QED
    BY <1>1, <2>1 DEF Created
<1>3. \A S \in SUBSET Created : IsFiniteSet(S)
  BY <1>2, FS_Subset
<1> QED
  BY <1>2, <1>3

\* A call without blocks to count has no uncounted nodes.
LEMMA NoneUncounted ==
  ASSUME TypeOK, NEW uncounted \in [Thread -> SUBSET Created], Uncounted(uncounted),
         NEW t \in Thread, numBlocks[t] = 0
  PROVE  uncounted[t] = {}
<1>1. Cardinality(uncounted[t]) = 0
  BY SizeAssumption DEF Uncounted
<1> QED
  BY <1>1, CreatedFinite, FS_EmptySet

-----------------------------------------------------------------------------
(* The steps                                                               *)

\* Steps that neither create nor count nodes; a call that splices keeps its own.
LEMMA SameAccount ==
  ASSUME TypeOK, Account, UNCHANGED <<created, m_allocated, numBlocks>>,
         \A t \in Thread : numBlocks[t] # 0 => other'[t] = other[t] /\ alloc'[t] = alloc[t]
  PROVE  Account'
<1>1. PICK uncounted \in [Thread -> SUBSET Created] : Uncounted(uncounted)
  BY Zenon DEF Account
<1>2. Created' = Created
  BY DEF Created
<1>3. ASSUME NEW t \in Thread
      PROVE  uncounted[t] \subseteq Range(other'[t]) \cup Range(alloc'[t])
  <2>1. CASE numBlocks[t] = 0
    BY <1>1, <2>1, NoneUncounted
  <2>2. CASE numBlocks[t] # 0
    BY <1>1, <2>2 DEF Uncounted
  <2> QED
    BY <2>1, <2>2
<1>4. Uncounted(uncounted)'
  BY <1>1, <1>2, <1>3 DEF Uncounted
<1> QED
  BY <1>2, <1>4 DEF Account

\* A call creates blocks: their nodes are uncounted, and with the call.
LEMMA AddBlocks ==
  ASSUME TypeOK, TypeOK', Account, NEW t \in Thread, NEW blocks \in Nat,
         numBlocks[t] = 0, numBlocks' = [numBlocks EXCEPT ![t] = blocks],
         m_allocated' = m_allocated, created' = created + blocks * BlockSize,
         created..(created + blocks * BlockSize - 1) \subseteq Range(other'[t]) \cup Range(alloc'[t]),
         \A u \in Thread \ {t} : other'[u] = other[u] /\ alloc'[u] = alloc[u]
  PROVE  Account'
<1> DEFINE n == blocks * BlockSize
           new == created..(created + n - 1)
<1>1. n \in Nat /\ created \in Nat /\ created' = created + n
  BY SizeAssumption DEF TypeOK
<1>2. PICK uncounted \in [Thread -> SUBSET Created] : Uncounted(uncounted)
  BY Zenon DEF Account
<1>3. uncounted[t] = {}
  BY <1>2, NoneUncounted
<1>4. numBlocks'[t] * BlockSize = n /\ \A u \in Thread \ {t} : numBlocks'[u] = numBlocks[u]
  BY DEF TypeOK
<1>5. new \subseteq Range(other'[t]) \cup Range(alloc'[t])
  OBVIOUS
<1> HIDE DEF n
<1>6. Cardinality(new) = n
  <2>1. Cardinality(new) = IF created > created + n - 1 THEN 0 ELSE created + n - 1 - created + 1
    BY <1>1, FS_Interval
  <2> QED
    BY <1>1, <2>1
<1>7. Created' = Created \cup new /\ Created \cap new = {}
  BY <1>1 DEF Created
<1>8. PICK more \in [Thread -> SUBSET Created'] :
        more[t] = new /\ \A u \in Thread \ {t} : more[u] = uncounted[u]
  <2> DEFINE extended == [uncounted EXCEPT ![t] = new]
  <2>1. /\ extended \in [Thread -> SUBSET Created'] /\ extended[t] = new
        /\ \A u \in Thread \ {t} : extended[u] = uncounted[u]
    BY <1>7
  <2> HIDE DEF extended
  <2> QED
    BY <2>1, Zenon
<1> HIDE DEF new
<1> DEFINE before == UNION {uncounted[u] : u \in Thread}
           after == UNION {more[u] : u \in Thread}
<1>9. after = before \cup new
  <2>1. \A m \in after : m \in before \cup new
    BY <1>8
  <2>2. \A m \in before : m \in after
    BY <1>3, <1>8
  <2>3. \A m \in new : m \in after
    BY <1>8
  <2> HIDE DEF before, after
  <2> QED
    BY <2>1, <2>2, <2>3
<1>10. Created' \ after = Created \ before
  BY <1>7, <1>9
<1>11. Uncounted(more)'
  <2>1. ASSUME NEW u \in Thread
        PROVE  /\ more[u] \subseteq Range(other'[u]) \cup Range(alloc'[u])
               /\ Cardinality(more[u]) = numBlocks'[u] * BlockSize
    <3>1. CASE u = t
      BY <1>4, <1>5, <1>6, <1>8, <3>1
    <3>2. CASE u # t
      BY <1>2, <1>4, <1>8, <3>2 DEF Uncounted
    <3> QED
      BY <3>1, <3>2
  <2>2. Cardinality(Created' \ after) = m_allocated'
    BY <1>2, <1>10, Zenon DEF Uncounted
  <2> QED
    BY <2>1, <2>2, Zenon DEF Uncounted
<1> QED
  BY <1>8, <1>11 DEF Account

\* A call counts its blocks: their nodes are no longer uncounted.
LEMMA CountBlocks ==
  ASSUME TypeOK, Custody, Account, NEW t \in Thread,
         numBlocks' = [numBlocks EXCEPT ![t] = 0], created' = created,
         m_allocated' = m_allocated + numBlocks[t] * BlockSize,
         \A u \in Thread \ {t} : other'[u] = other[u] /\ alloc'[u] = alloc[u]
  PROVE  Account'
<1>1. PICK uncounted \in [Thread -> SUBSET Created] : Uncounted(uncounted)
  BY Zenon DEF Account
<1> DEFINE rest == [uncounted EXCEPT ![t] = {}]
           counted == Created \ UNION {uncounted[u] : u \in Thread}
<1>2. Created' = Created
  BY DEF Created
<1>3. /\ rest \in [Thread -> SUBSET Created] /\ rest[t] = {}
      /\ \A u \in Thread \ {t} : rest[u] = uncounted[u]
  OBVIOUS
<1>4. \A u \in Thread \ {t} : uncounted[t] \cap uncounted[u] = {}
  <2>1. \A u \in Thread : uncounted[u] \subseteq Range(other[u]) \cup Range(alloc[u])
    BY <1>1 DEF Uncounted
  <2>2. \A u \in Thread \ {t} : (Range(other[t]) \cup Range(alloc[t]))
                                  \cap (Range(other[u]) \cup Range(alloc[u])) = {}
    BY ApartParts
  <2> QED
    BY <2>1, <2>2
<1> HIDE DEF rest
<1>5. /\ Created \ UNION {rest[u] : u \in Thread} = counted \cup uncounted[t]
      /\ counted \cap uncounted[t] = {}
  BY <1>3, <1>4
<1>6. /\ IsFiniteSet(counted) /\ Cardinality(counted) = m_allocated
      /\ IsFiniteSet(uncounted[t]) /\ Cardinality(uncounted[t]) = numBlocks[t] * BlockSize
  <2>1. counted \subseteq Created /\ uncounted[t] \subseteq Created
    OBVIOUS
  <2> QED
    BY <1>1, <2>1, CreatedFinite DEF Uncounted
<1> HIDE DEF counted
<1>7. Cardinality(counted \cup uncounted[t]) = m_allocated + numBlocks[t] * BlockSize
  <2>1. Cardinality(counted \cup uncounted[t])
          = Cardinality(counted) + Cardinality(uncounted[t]) - Cardinality(counted \cap uncounted[t])
    BY <1>6, FS_Union, Zenon
  <2>2. Cardinality(counted \cap uncounted[t]) = 0
    BY <1>5, FS_EmptySet
  <2>3. m_allocated \in Nat /\ numBlocks[t] * BlockSize \in Nat
    <3>1. m_allocated \in Nat /\ numBlocks[t] \in Nat /\ BlockSize \in Nat
      BY SizeAssumption DEF TypeOK
    <3>2. \A x, y \in Nat : x * y \in Nat
      OBVIOUS
    <3> QED
      BY <3>1, <3>2
  <2> QED
    BY <1>6, <2>1, <2>2, <2>3
<1>8. Uncounted(rest)'
  <2>1. ASSUME NEW u \in Thread
        PROVE  /\ rest[u] \subseteq Range(other'[u]) \cup Range(alloc'[u])
               /\ Cardinality(rest[u]) = numBlocks'[u] * BlockSize
    <3>1. CASE u = t
      <4>1. rest[u] = {} /\ Cardinality({}) = 0
        BY <1>3, <3>1, FS_EmptySet, Zenon
      <4>2. numBlocks'[u] * BlockSize = 0
        BY <3>1, SizeAssumption DEF TypeOK
      <4> QED
        BY <4>1, <4>2
    <3>2. CASE u # t
      <4>1. numBlocks'[u] = numBlocks[u]
        BY <3>2 DEF TypeOK
      <4> QED
        BY <1>1, <1>3, <3>2, <4>1 DEF Uncounted
    <3> QED
      BY <3>1, <3>2
  <2> QED
    BY <1>2, <1>5, <1>7, <2>1 DEF Uncounted
<1> QED
  BY <1>2, <1>3, <1>8 DEF Account

LEMMA AccountInit == Init => Account
<1> SUFFICES ASSUME Init PROVE Account
  OBVIOUS
<1>1. PICK none \in [Thread -> SUBSET Created] : \A t \in Thread : none[t] = {}
  <2> DEFINE f == [t \in Thread |-> {}]
  <2>1. f \in [Thread -> SUBSET Created] /\ \A t \in Thread : f[t] = {}
    OBVIOUS
  <2> QED
    BY <2>1, Zenon
<1>2. Created \ UNION {none[t] : t \in Thread} = {}
  BY DEF Created, Init
<1>3. Cardinality({}) = 0 /\ 0 * BlockSize = 0
  BY FS_EmptySet, SizeAssumption
<1>4. \A t \in Thread : numBlocks[t] = 0
  BY DEF Init
<1>5. m_allocated = 0
  BY DEF Init
<1>6. Uncounted(none)
  BY <1>1, <1>2, <1>3, <1>4, <1>5 DEF Uncounted
<1> QED
  BY <1>6 DEF Account

\* The fresh nodes are those the call takes and those it gives to the pool.
LEMMA FreshRange ==
  ASSUME TypeOK, NEW n \in Nat, NEW count \in Nat
  PROVE  /\ Range(Popped(Fresh(created, n), count)) \cup Range(Left(Fresh(created, n), count))
              = created..(created + n - 1)
         /\ Popped(Fresh(created, n), count) \in Seq(Nat)
<1>1. created \in Nat /\ Fresh(created, n) \in Seq(Nat)
  BY FreshNodes DEF TypeOK
<1>2. /\ 0..(created - 1) \cup Range(Fresh(created, n)) = 0..(created + n - 1)
      /\ Range(Fresh(created, n)) \cap 0..(created - 1) = {}
  <2> DEFINE fresh == Fresh(created, n)
  <2>1. /\ \A i \in 1..n : fresh[i] \notin 0..(created - 1)
        /\ 0..(created - 1) \cup Range(fresh) = 0..(created + n - 1)
    BY <1>1, FreshAreNew, Zenon
  <2>2. Len(fresh) = n /\ fresh \in Seq(Nat)
    BY <1>1, FreshNodes, Zenon
  <2> HIDE DEF fresh
  <2>3. Range(fresh) = {fresh[i] : i \in 1..n}
    BY <2>2 DEF Range
  <2>4. 0..(created - 1) \cup Range(fresh) = 0..(created + n - 1)
        /\ Range(fresh) \cap 0..(created - 1) = {}
    BY <2>1, <2>3
  <2> QED
    BY <2>4 DEF fresh
<1>3. Range(Fresh(created, n)) = created..(created + n - 1)
  <2> DEFINE F == Range(Fresh(created, n))
  <2> HIDE DEF F
  <2>1. created..(created + n - 1) = 0..(created + n - 1) \ 0..(created - 1)
    BY <1>1
  <2>2. F = 0..(created + n - 1) \ 0..(created - 1)
    BY <1>2 DEF F
  <2> QED
    BY <2>1, <2>2 DEF F
<1> QED
  BY <1>1, <1>3, PopRange, Zenon

LEMMA AccountStep == Control /\ Custody /\ Account /\ [Next]_vars => Account'
<1> SUFFICES ASSUME Control, Custody, Account, [Next]_vars PROVE Account'
  OBVIOUS
<1>0. TypeOK /\ TypeOK' /\ CallLocals
  BY TypeStep DEF Control
<1>1. ASSUME NEW t \in Thread,
             \/ Lock(t) \/ CallAcquireOne(t) \/ AcquireOneThrows(t) \/ AcquireBadAlloc(t)
             \/ ReleaseReset(t) \/ CallAvailable(t) \/ AvailableRead(t) \/ Use(t)
             \/ \E count \in Counts : CallAcquire(t, count)
             \/ \E u \in Thread : Give(t, u)
      PROVE  Account'
  BY <1>0, <1>1, SameAccount
     DEF Lock, CallAcquireOne, AcquireOneThrows, AcquireBadAlloc, ReleaseReset, CallAvailable,
         AvailableRead, Use, CallAcquire, Give, shared, locals
<1>2. ASSUME NEW t \in Thread,
             \/ AcquireOnePop(t) \/ AcquireOneBadAlloc(t) \/ AcquireOneConstruct(t)
             \/ AcquireTakeAll(t) \/ AcquireTakeSome(t) \/ ReleasePush(t) \/ CallReleaseOne(t)
             \/ \E count \in Counts : CallRelease(t, count)
      PROVE  Account'
  <2>1. numBlocks[t] = 0
    BY <1>0, <1>2
       DEF AcquireOnePop, AcquireOneBadAlloc, AcquireOneConstruct, AcquireTakeAll,
           AcquireTakeSome, ReleasePush, CallReleaseOne, CallRelease, Goto, CallLocals, LocalsOf,
           Splicing
  <2>2. UNCHANGED <<created, m_allocated, numBlocks, alloc>>
    BY <1>2
       DEF AcquireOnePop, AcquireOneBadAlloc, AcquireOneConstruct, AcquireTakeAll,
           AcquireTakeSome, ReleasePush, CallReleaseOne, CallRelease, shared
  <2>3. \A u \in Thread \ {t} : other'[u] = other[u]
    BY <1>0, <1>2
       DEF AcquireOnePop, AcquireOneBadAlloc, AcquireOneConstruct, AcquireTakeAll,
           AcquireTakeSome, ReleasePush, CallReleaseOne, CallRelease, Return, TypeOK
  <2> QED
    BY <1>0, <2>1, <2>2, <2>3, SameAccount
<1>3. ASSUME NEW t \in Thread, AcquireOneAllocate(t) PROVE Account'
  <2>1. /\ numBlocks[t] = 0 /\ numBlocks' = [numBlocks EXCEPT ![t] = 1]
        /\ m_allocated' = m_allocated /\ created' = created + BlockSize
        /\ other' = [other EXCEPT ![t] = Popped(Fresh(created, BlockSize), 1)]
        /\ alloc' = [alloc EXCEPT ![t] = Left(Fresh(created, BlockSize), 1)]
    BY <1>0, <1>3 DEF AcquireOneAllocate, Goto, CallLocals, LocalsOf, Splicing
  <2>2. /\ other'[t] = Popped(Fresh(created, BlockSize), 1)
        /\ alloc'[t] = Left(Fresh(created, BlockSize), 1)
        /\ \A u \in Thread \ {t} : other'[u] = other[u] /\ alloc'[u] = alloc[u]
    BY <1>0, <2>1 DEF TypeOK
  <2>3. BlockSize \in Nat /\ 1 * BlockSize = BlockSize
    BY SizeAssumption
  <2>4. created..(created + 1 * BlockSize - 1) \subseteq Range(other'[t]) \cup Range(alloc'[t])
    BY <1>0, <2>2, <2>3, FreshRange
  <2>5. created' = created + 1 * BlockSize
    BY <2>1, <2>3
  <2> QED
    BY <1>0, <2>1, <2>2, <2>4, <2>5, AddBlocks
<1>4. ASSUME NEW t \in Thread, AcquireAllocate(t) PROVE Account'
  <2> DEFINE blocks == NumBlocks(t)
             n == blocks * BlockSize
             first == Popped(Fresh(created, n), NumNodes(t))
  <2>1. /\ numBlocks[t] = 0 /\ Len(other[t]) < need[t]
    BY <1>0, <1>4 DEF AcquireAllocate, Goto, CallLocals, LocalsOf, Splicing
  <2>2. /\ numBlocks' = [numBlocks EXCEPT ![t] = blocks]
        /\ m_allocated' = m_allocated /\ created' = created + n
        /\ other' = [other EXCEPT ![t] = first \o @]
        /\ alloc' = [alloc EXCEPT ![t] = Left(Fresh(created, n), NumNodes(t))]
    BY <1>4, Zenon DEF AcquireAllocate
  <2>3. NumNodes(t) \in Nat
    <3>1. other[t] \in Seq(Nat) /\ need[t] \in Nat
      BY <1>0 DEF TypeOK
    <3>2. Len(other[t]) \in Nat
      BY <3>1
    <3> QED
      BY <2>1, <3>1, <3>2 DEF NumNodes
  <2>4. blocks \in Nat /\ n \in Nat
    BY <2>3, AcquireAllocateSizes DEF NumBlocks
  <2> HIDE DEF n, blocks
  <2>5. /\ Range(first) \cup Range(Left(Fresh(created, n), NumNodes(t))) = created..(created + n - 1)
        /\ first \in Seq(Nat)
    BY <1>0, <2>3, <2>4, FreshRange
  <2> HIDE DEF first
  <2>6. other[t] \in Seq(Nat)
    BY <1>0 DEF TypeOK
  <2>7. /\ other'[t] = first \o other[t]
        /\ alloc'[t] = Left(Fresh(created, n), NumNodes(t))
        /\ \A u \in Thread \ {t} : other'[u] = other[u] /\ alloc'[u] = alloc[u]
    BY <1>0, <2>2 DEF TypeOK
  <2>8. created..(created + n - 1) \subseteq Range(other'[t]) \cup Range(alloc'[t])
    BY <2>5, <2>6, <2>7, ConcatRange
  <2> QED
    BY <1>0, <2>1, <2>2, <2>4, <2>7, <2>8, AddBlocks DEF n
<1>5. ASSUME NEW t \in Thread, AcquireOneSplice(t) \/ AcquireSplice(t) PROVE Account'
  <2>1. /\ numBlocks' = [numBlocks EXCEPT ![t] = 0] /\ created' = created
        /\ alloc' = [alloc EXCEPT ![t] = << >>]
    BY <1>5 DEF AcquireOneSplice, AcquireSplice
  <2>2. m_allocated' = m_allocated + numBlocks[t] * BlockSize
    <3>1. CASE AcquireOneSplice(t)
      <4>1. numBlocks[t] = 1 /\ m_allocated' = m_allocated + 1 * BlockSize
        BY <1>0, <3>1 DEF AcquireOneSplice, Goto, CallLocals, LocalsOf, Splicing, Counted
      <4> QED
        BY <4>1, Zenon
    <3>2. CASE AcquireSplice(t)
      BY <3>2, Zenon DEF AcquireSplice, Counted
    <3> QED
      BY <1>5, <3>1, <3>2
  <2>3. \A u \in Thread \ {t} : other'[u] = other[u] /\ alloc'[u] = alloc[u]
    BY <1>0, <1>5, <2>1 DEF AcquireOneSplice, AcquireSplice, Return, TypeOK
  <2> QED
    BY <1>0, <2>1, <2>2, <2>3, CountBlocks
<1>6. CASE UNCHANGED vars
  BY <1>0, <1>6, SameAccount DEF vars, shared, locals
<1> QED
  BY <1>1, <1>2, <1>3, <1>4, <1>5, <1>6
     DEF Next, Step, Call, AcquireOneStep, AcquireStep

LEMMA AccountInvariant == Spec => []Account
<1> QED
  BY AccountInit, AccountStep, CustodyInvariant, ControlInvariant, PTL DEF Spec

-----------------------------------------------------------------------------
(* The theorems                                                            *)

LEMMA StackCounted ==
  ASSUME TypeOK, Custody, Account
  PROVE  Len(m_stack) <= m_allocated
<1>1. PICK uncounted \in [Thread -> SUBSET Created] : Uncounted(uncounted)
  BY Zenon DEF Account
<1> DEFINE counted == Created \ UNION {uncounted[u] : u \in Thread}
<1>2. Range(m_stack) \subseteq counted
  <2>1. \A t \in Thread : Range(m_stack) \cap uncounted[t] = {}
    <3> TAKE t \in Thread
    <3>1. Range(m_stack) \cap (Range(other[t]) \cup Range(alloc[t])) = {}
      BY ApartParts, Zenon
    <3>2. uncounted[t] \subseteq Range(other[t]) \cup Range(alloc[t])
      BY <1>1 DEF Uncounted
    <3> QED
      BY <3>1, <3>2
  <2>2. Range(m_stack) \subseteq Created
    <3>1. Nodes[Pool] = m_stack /\ Pool \in Place
      BY Before, Places, Zenon
    <3> QED
      BY <3>1, RangeApart, Zenon
  <2> QED
    BY <2>1, <2>2
<1>3. IsFiniteSet(counted) /\ Cardinality(counted) = m_allocated
  BY <1>1, CreatedFinite DEF Uncounted
<1> HIDE DEF counted
<1>4. Cardinality(Range(m_stack)) <= Cardinality(counted)
  BY <1>2, <1>3, FS_Subset, Zenon
<1> QED
  BY <1>3, <1>4, StackDistinct

\* available() never returned more than allocated() returns from then on: a call puts
\* nodes into the free stack and counts them in the same critical section.
THEOREM AvailableBoundSafe == Spec => []AvailableBound
<1>1. Init => AvailableBound
  BY DEF Init, AvailableBound
<1>2. Control /\ Custody /\ Account /\ AvailableBound /\ [Next]_vars => AvailableBound'
  <2> SUFFICES ASSUME Control, Custody, Account, AvailableBound, [Next]_vars
               PROVE  AvailableBound'
    OBVIOUS
  <2>0. TypeOK /\ TypeOK' /\ Len(m_stack) <= m_allocated
    BY TypeStep, StackCounted DEF Control
  <2>1. ASSUME NEW t \in Thread, AvailableRead(t) PROVE AvailableBound'
    BY <2>0, <2>1 DEF AvailableRead, AvailableBound, TypeOK, shared
  <2>2. ASSUME NEW t \in Thread, AcquireOneSplice(t) \/ AcquireSplice(t) PROVE AvailableBound'
    <3>1. seen' = seen
      BY <2>2 DEF AcquireOneSplice, AcquireSplice
    <3>2. PICK blocks \in Nat : m_allocated' = m_allocated + blocks * BlockSize
      BY <2>0, <2>2 DEF AcquireOneSplice, AcquireSplice, Counted, TypeOK
    <3>3. m_allocated' >= m_allocated
      <4>1. blocks * BlockSize \in Nat /\ m_allocated \in Nat
        BY <2>0, SizeAssumption DEF TypeOK
      <4> QED
        BY <3>2, <4>1
    <3>4. \A t1 \in Thread : seen[t1] \in Nat /\ seen[t1] <= m_allocated
      BY <2>0 DEF AvailableBound, TypeOK
    <3>5. m_allocated \in Nat /\ m_allocated' \in Nat
      BY <2>0 DEF TypeOK
    <3>6. \A t1 \in Thread : seen[t1] <= m_allocated'
      BY <3>3, <3>4, <3>5
    <3> QED
      BY <3>1, <3>6, Zenon DEF AvailableBound
  <2>3. ASSUME seen' = seen, m_allocated' = m_allocated PROVE AvailableBound'
    BY <2>3 DEF AvailableBound
  <2>4. ASSUME NEW t \in Thread,
               \/ Lock(t) \/ CallAcquireOne(t) \/ AcquireOneThrows(t) \/ AcquireBadAlloc(t)
               \/ ReleaseReset(t) \/ CallAvailable(t) \/ Use(t)
               \/ \E count \in Counts : CallAcquire(t, count) \/ CallRelease(t, count)
               \/ \E u \in Thread : Give(t, u)
        PROVE  seen' = seen /\ m_allocated' = m_allocated
    BY <2>4 DEF Lock, CallAcquireOne, AcquireOneThrows, AcquireBadAlloc, ReleaseReset,
                CallAvailable, Use, CallAcquire, CallRelease, Give, shared, locals
  <2>5. ASSUME NEW t \in Thread,
               \/ AcquireOnePop(t) \/ AcquireOneAllocate(t) \/ AcquireOneBadAlloc(t)
               \/ AcquireOneConstruct(t) \/ AcquireTakeAll(t) \/ AcquireTakeSome(t)
               \/ AcquireAllocate(t) \/ ReleasePush(t) \/ CallReleaseOne(t)
        PROVE  seen' = seen /\ m_allocated' = m_allocated
    BY <2>5 DEF AcquireOnePop, AcquireOneAllocate, AcquireOneBadAlloc, AcquireOneConstruct,
                AcquireTakeAll, AcquireTakeSome, AcquireAllocate, ReleasePush, CallReleaseOne,
                shared
  <2>6. CASE UNCHANGED vars
    BY <2>3, <2>6 DEF vars, shared
  <2> QED
    BY <2>1, <2>2, <2>3, <2>4, <2>5, <2>6 DEF Next, Step, Call, AcquireOneStep, AcquireStep
<1> QED
  BY <1>1, <1>2, AccountInvariant, CustodyInvariant, ControlInvariant, PTL DEF Spec

\* When no call is in progress, every created node is counted, and the free stack has
\* all of them that no client holds.
THEOREM QuiescentSafe == Spec => []Quiescent
<1>1. Control /\ Custody /\ Account => Quiescent
  <2> SUFFICES ASSUME Control, Custody, Account, \A t \in Thread : pc[t] = "idle"
               PROVE  /\ m_allocated = created
                      /\ Len(m_stack)
                           = m_allocated - Cardinality(UNION {Range(held[t]) : t \in Thread})
    BY DEF Quiescent
  <2> DEFINE clients == UNION {Range(held[t]) : t \in Thread}
  <2>1. TypeOK /\ CallLocals
    BY DEF Control
  <2>2. \A t \in Thread : numBlocks[t] = 0 /\ other[t] = << >> /\ alloc[t] = << >>
    BY <2>1 DEF CallLocals, LocalsOf, Splicing
  <2>3. PICK uncounted \in [Thread -> SUBSET Created] : Uncounted(uncounted)
    BY Zenon DEF Account
  <2>4. m_allocated = created
    <3>1. \A t \in Thread : uncounted[t] = {}
      BY <2>1, <2>2, <2>3, NoneUncounted
    <3>2. Created \ UNION {uncounted[t] : t \in Thread} = Created
      BY <3>1
    <3> QED
      BY <2>1, <2>3, <3>2, CreatedFinite DEF Uncounted
  <2>5. Range(m_stack) \cap clients = {}
    BY <2>1, ApartParts
  <2>6. Range(m_stack) \cup clients = Created
    <3>1. Created = UNION {Range(Nodes[p]) : p \in Place}
      BY Zenon DEF Custody, Created, AllOf
    <3>2. Range(m_stack) \cup clients \subseteq Created
      BY <2>1, <3>1, Before, Places
    <3>3. ASSUME NEW p \in Place PROVE Range(Nodes[p]) \subseteq Range(m_stack) \cup clients
      <4>1. CASE p = Pool
        BY <2>1, <4>1, Before
      <4>2. ASSUME NEW t \in Thread, p = AtHeld(t)
            PROVE  Range(Nodes[p]) \subseteq Range(m_stack) \cup clients
        BY <2>1, <4>2, Before
      <4>3. ASSUME NEW t \in Thread, p = AtOther(t) \/ p = AtAlloc(t)
            PROVE  Range(Nodes[p]) = {}
        <5>1. Nodes[p] = << >>
          BY <2>1, <2>2, <4>3, Before
        <5> QED
          BY <5>1 DEF Range
      <4> QED
        BY <4>1, <4>2, <4>3, Places
    <3> HIDE DEF clients
    <3> QED
      BY <3>1, <3>2, <3>3
  <2> HIDE DEF clients
  <2>7. IsFiniteSet(clients) /\ Cardinality(clients) \in Nat
    BY <2>1, <2>6, CreatedFinite, FS_CardinalityType
  <2>8. Cardinality(Range(m_stack) \cup clients)
          = Cardinality(Range(m_stack)) + Cardinality(clients)
            - Cardinality(Range(m_stack) \cap clients)
    BY <2>1, <2>7, StackDistinct, FS_Union, Zenon
  <2>9. Cardinality(Range(m_stack) \cap clients) = 0 /\ Cardinality(Range(m_stack)) = Len(m_stack)
    BY <2>1, <2>5, StackDistinct, FS_EmptySet
  <2>10. Len(m_stack) \in Nat /\ created \in Nat
    BY <2>1 DEF TypeOK
  <2>11. created = Len(m_stack) + Cardinality(clients)
    <3>1. Cardinality(Range(m_stack) \cup clients) = created
      BY <2>1, <2>6, CreatedFinite, Zenon
    <3> QED
      BY <2>7, <2>8, <2>9, <2>10, <3>1
  <2>12. Len(m_stack) = m_allocated - Cardinality(clients)
    BY <2>4, <2>7, <2>10, <2>11
  <2> QED
    BY <2>4, <2>12 DEF clients
<1> QED
  BY <1>1, AccountInvariant, CustodyInvariant, ControlInvariant, PTL

-----------------------------------------------------------------------------
(* The abstract state: PoolSpec's variables                                *)

Free == Range(m_stack) \cup UNION {Range(other[t]) \cup Range(alloc[t]) : t \in Thread}
Owned == [t \in Thread |-> Range(held[t])]
Want == [t \in Thread |-> IF pc[t] \in Asking THEN need[t] ELSE -1]
Clients == UNION {Range(held[t]) : t \in Thread}

\* What is free is what was created and no client owns.
FreeExact == Clients \subseteq Created /\ Free = Created \ Clients

LEMMA FreeIs == TypeOK /\ Custody => FreeExact
<1> SUFFICES ASSUME TypeOK, Custody PROVE Clients \subseteq Created /\ Free = Created \ Clients
  BY DEF FreeExact
<1>1. Created = UNION {Range(Nodes[p]) : p \in Place}
  BY Zenon DEF Custody, Created, AllOf
<1>2. ASSUME NEW n \in Free PROVE n \in Created /\ n \notin Clients
  <2>1. PICK p \in Place : n \in Range(Nodes[p]) /\ \A t \in Thread : p # AtHeld(t)
    BY <1>2, Before, Places DEF Free
  <2>2. \A t \in Thread : Range(Nodes[p]) \cap Range(held[t]) = {}
    BY <2>1, Before, Places, RangeApart
  <2> QED
    BY <1>1, <2>1, <2>2 DEF Clients
<1>3. ASSUME NEW n \in Created, n \notin Clients PROVE n \in Free
  <2>1. PICK p \in Place : n \in Range(Nodes[p])
    BY <1>1, <1>3
  <2>2. \A t \in Thread : p # AtHeld(t)
    BY <1>3, <2>1, Before DEF Clients
  <2>3. CASE p = Pool
    BY <2>1, <2>3, Before DEF Free
  <2>4. ASSUME NEW t \in Thread, p = AtOther(t) \/ p = AtAlloc(t) PROVE n \in Free
    BY <2>1, <2>4, Before DEF Free
  <2> QED
    BY <2>2, <2>3, <2>4, Places
<1>4. Clients \subseteq Created
  BY <1>1, Before, Places DEF Clients
<1> QED
  BY <1>2, <1>3, <1>4

LEMMA FreeIsAfter == TypeOK' /\ Custody' => FreeExact'
BY FreeIs, PTL

AbstractStep == [Promise!Next]_(Promise!vars)

\* The actions of PoolSpec, on the abstract state.
LEMMA Stutters ==
  ASSUME UNCHANGED <<Free, Owned, Want>>
  PROVE  AbstractStep
BY DEF AbstractStep, Promise!vars, Free, Owned, Want

LEMMA Asks ==
  ASSUME NEW t \in Thread, NEW n \in Counts \cup {1},
         Want[t] = -1, Want' = [Want EXCEPT ![t] = n], UNCHANGED <<Free, Owned>>
  PROVE  AbstractStep
<1>1. Promise!Ask(t)
  BY Zenon DEF Promise!Ask, Free, Owned, Want
<1> QED
  BY <1>1, Zenon DEF AbstractStep, Promise!Next

LEMMA Grows ==
  ASSUME NEW t \in Thread,
         NEW S \in SUBSET ((0..(MaxNodes - 1)) \ (Free \cup UNION {Owned[u] : u \in Thread})),
         Want[t] > 0, Free' = Free \cup S, UNCHANGED <<Owned, Want>>
  PROVE  AbstractStep
<1>1. Promise!Grow(t)
  BY Zenon DEF Promise!Grow, Promise!Owned, Free, Owned, Want
<1> QED
  BY <1>1, Zenon DEF AbstractStep, Promise!Next

LEMMA Acquires ==
  ASSUME NEW t \in Thread, NEW S \in SUBSET Free, Want[t] >= 0, Cardinality(S) = Want[t],
         Owned' = [Owned EXCEPT ![t] = @ \cup S], Free' = Free \ S,
         Want' = [Want EXCEPT ![t] = -1]
  PROVE  AbstractStep
<1>0. Promise!Cardinality(S) = Want[t]
  BY Zenon DEF Promise!Cardinality, Cardinality
<1>1. Promise!Acquire(t)
  BY <1>0, Zenon DEF Promise!Acquire, Free, Owned, Want
<1> QED
  BY <1>1, Zenon DEF AbstractStep, Promise!Next

LEMMA Fails ==
  ASSUME NEW t \in Thread, Want[t] > 0, Want' = [Want EXCEPT ![t] = -1],
         UNCHANGED <<Free, Owned>>
  PROVE  AbstractStep
<1>1. Promise!Fail(t)
  BY Zenon DEF Promise!Fail, Free, Owned, Want
<1> QED
  BY <1>1, Zenon DEF AbstractStep, Promise!Next

LEMMA Releases ==
  ASSUME NEW t \in Thread, NEW S \in SUBSET Owned[t], Want[t] = -1,
         Owned' = [Owned EXCEPT ![t] = @ \ S], Free' = Free \cup S, UNCHANGED Want
  PROVE  AbstractStep
<1>1. Promise!Release(t)
  BY Zenon DEF Promise!Release, Free, Owned, Want
<1> QED
  BY <1>1, Zenon DEF AbstractStep, Promise!Next

LEMMA Gives ==
  ASSUME NEW t \in Thread, NEW u \in Thread \ {t}, Want[t] = -1, Want[u] = -1,
         Owned' = [Owned EXCEPT ![t] = {}, ![u] = @ \cup Owned[t]], UNCHANGED <<Free, Want>>
  PROVE  AbstractStep
<1>1. Promise!Give(t, u)
  BY Zenon DEF Promise!Give, Free, Owned, Want
<1> QED
  BY <1>1, Zenon DEF AbstractStep, Promise!Next

-----------------------------------------------------------------------------
(* What the steps of the pool do to the abstract state                     *)

\* The other threads stay where they are, and ask for what they did.
OthersWait(t) == \A u \in Thread \ {t} : pc'[u] = pc[u] /\ need'[u] = need[u]

LEMMA WantChanges ==
  ASSUME NEW t \in Thread, OthersWait(t)
  PROVE  /\ Want' = [Want EXCEPT ![t] = IF pc'[t] \in Asking THEN need'[t] ELSE -1]
         /\ Want[t] = IF pc[t] \in Asking THEN need[t] ELSE -1
         /\ Want'[t] = IF pc'[t] \in Asking THEN need'[t] ELSE -1
         /\ Want'[t] = Want[t] => Want' = Want
<1>1. Want[t] = IF pc[t] \in Asking THEN need[t] ELSE -1
  BY DEF Want
<1>2. \A u \in Thread \ {t} : Want'[u] = Want[u]
  BY DEF Want, OthersWait
<1>3. Want'[t] = IF pc'[t] \in Asking THEN need'[t] ELSE -1
  BY DEF Want
<1>4. Want = [u \in Thread |-> Want[u]] /\ Want' = [u \in Thread |-> Want'[u]]
  BY DEF Want
<1> HIDE DEF Want
<1> QED
  BY <1>1, <1>2, <1>3, <1>4

LEMMA OwnedChanges ==
  ASSUME NEW t \in Thread, \A u \in Thread \ {t} : held'[u] = held[u],
         NEW R, R = Range(held'[t])
  PROVE  Owned' = [Owned EXCEPT ![t] = R] /\ Owned[t] = Range(held[t])
<1>1. Owned[t] = Range(held[t]) /\ Owned'[t] = R
  BY DEF Owned
<1>2. \A u \in Thread \ {t} : Owned'[u] = Owned[u]
  BY DEF Owned
<1>3. Owned = [u \in Thread |-> Owned[u]] /\ Owned' = [u \in Thread |-> Owned'[u]]
  BY DEF Owned
<1> HIDE DEF Owned
<1> QED
  BY <1>1, <1>2, <1>3

\* Nodes that move within the pool and its calls stay free.
LEMMA FreeSame ==
  ASSUME TypeOK, TypeOK', Custody, Custody', held' = held, created' = created
  PROVE  UNCHANGED <<Free, Owned>>
<1>1. FreeExact /\ FreeExact'
  BY FreeIs, FreeIsAfter
<1> QED
  BY <1>1 DEF FreeExact, Created, Clients, Owned

LEMMA QuietStep ==
  ASSUME TypeOK, TypeOK', Custody, Custody', held' = held, created' = created,
         NEW t \in Thread, OthersWait(t),
         NEW before, before = (IF pc[t] \in Asking THEN need[t] ELSE -1),
         NEW after, after = (IF pc'[t] \in Asking THEN need'[t] ELSE -1),
         \/ after = before
         \/ before = -1 /\ after \in Counts \cup {1}
         \/ before > 0 /\ after = -1
  PROVE  AbstractStep
<1>1. UNCHANGED <<Free, Owned>>
  BY FreeSame
<1>2. /\ Want' = [Want EXCEPT ![t] = after] /\ Want[t] = before
      /\ Want = [u \in Thread |-> Want[u]]
  BY WantChanges DEF Want
<1>3. CASE after = before
  <2>1. Want' = Want
    BY <1>2, <1>3
  <2> QED
    BY <1>1, <2>1, Stutters
<1>4. CASE before = -1 /\ after \in Counts \cup {1}
  BY <1>1, <1>2, <1>4, Asks
<1>5. CASE before > 0 /\ after = -1
  BY <1>1, <1>2, <1>5, Fails
<1> QED
  BY <1>3, <1>4, <1>5

LEMMA GrowStep ==
  ASSUME TypeOK, TypeOK', Custody, Custody', held' = held,
         NEW n \in Nat, created' = created + n, created + n <= MaxNodes,
         NEW t \in Thread, OthersWait(t), need' = need,
         pc[t] \in Asking, pc'[t] \in Asking, need[t] > 0
  PROVE  AbstractStep
<1> DEFINE S == created..(created + n - 1)
<1>1. FreeExact /\ FreeExact'
  BY FreeIs, FreeIsAfter
<1>2. Want' = Want /\ Want[t] = need[t]
  BY WantChanges
<1>3. Owned' = Owned /\ Clients' = Clients /\ Clients = UNION {Owned[u] : u \in Thread}
  BY DEF Owned, Clients
<1>4. created \in Nat /\ MaxNodes \in Nat
  BY SizeAssumption DEF TypeOK
<1>5. /\ Created' = Created \cup S /\ S \cap Created = {}
      /\ S \subseteq 0..(MaxNodes - 1)
  BY <1>4 DEF Created
<1> HIDE DEF S
<1>6. Free' = Free \cup S /\ S \cap (Free \cup Clients) = {}
  BY <1>1, <1>3, <1>5 DEF FreeExact
<1> QED
  BY <1>2, <1>3, <1>5, <1>6, Grows

\* A call hands the nodes q to its client.
LEMMA HandOverStep ==
  ASSUME TypeOK, TypeOK', Custody, Custody', created' = created,
         NEW t \in Thread, OthersWait(t), pc[t] \in Asking, pc'[t] \notin Asking,
         NEW q \in Seq(Nat), \A i, j \in 1..Len(q) : q[i] = q[j] => i = j,
         Range(q) \subseteq Free, Len(q) = need[t],
         held' = [held EXCEPT ![t] = q \o @]
  PROVE  AbstractStep
<1>1. FreeExact /\ FreeExact'
  BY FreeIs, FreeIsAfter
<1>2. Want' = [Want EXCEPT ![t] = -1] /\ Want[t] = need[t]
  BY WantChanges
<1>3. Cardinality(Range(q)) = need[t] /\ need[t] >= 0
  <2>1. Cardinality(Range(q)) = Len(q)
    BY Distinct, Zenon
  <2>2. need[t] \in Nat
    BY DEF TypeOK
  <2> QED
    BY <2>1, <2>2
<1>4. /\ Range(held'[t]) = Range(q) \cup Range(held[t])
      /\ \A u \in Thread \ {t} : held'[u] = held[u]
  BY ConcatRange DEF TypeOK
<1>5. Owned' = [Owned EXCEPT ![t] = @ \cup Range(q)]
  <2>1. /\ Owned' = [Owned EXCEPT ![t] = Range(q) \cup Range(held[t])]
        /\ Owned[t] = Range(held[t])
    BY <1>4, OwnedChanges
  <2> QED
    BY <2>1
<1>6. Clients' = Clients \cup Range(q)
  <2>1. \A m \in Clients' : m \in Clients \cup Range(q)
    BY <1>4 DEF Clients
  <2>2. \A m \in Clients \cup Range(q) : m \in Clients'
    BY <1>4 DEF Clients
  <2> QED
    BY <2>1, <2>2
<1>7. Free' = Free \ Range(q)
  BY <1>1, <1>6 DEF FreeExact, Created
<1> QED
  BY <1>2, <1>3, <1>5, <1>7, Acquires

\* A client takes count nodes off its stack, to release them.
LEMMA TakeBackStep ==
  ASSUME TypeOK, TypeOK', Custody, Custody', created' = created,
         NEW t \in Thread, OthersWait(t), pc[t] \notin Asking, pc'[t] \notin Asking,
         NEW count \in Nat, other'[t] = Popped(held[t], count),
         held' = [held EXCEPT ![t] = Left(@, count)]
  PROVE  AbstractStep
<1> DEFINE S == Range(other'[t])
<1>1. FreeExact /\ FreeExact'
  BY FreeIs, FreeIsAfter
<1>2. Want' = Want /\ Want[t] = -1
  BY WantChanges
<1>3. /\ Range(held[t]) = S \cup Range(held'[t])
      /\ \A u \in Thread \ {t} : held'[u] = held[u]
  BY PopRange DEF TypeOK
<1>4. S \subseteq Free'
  BY DEF Free
<1>5. \A u \in Thread : S \cap Range(held'[u]) = {}
  BY <1>1, <1>4 DEF FreeExact, Clients
<1> HIDE DEF S
<1>6. Owned' = [Owned EXCEPT ![t] = @ \ S] /\ S \subseteq Owned[t]
  <2>1. Range(held'[t]) = Range(held[t]) \ S /\ S \subseteq Range(held[t])
    BY <1>3, <1>5
  <2>2. /\ Owned' = [Owned EXCEPT ![t] = Range(held[t]) \ S]
        /\ Owned[t] = Range(held[t])
    BY <1>3, <2>1, OwnedChanges
  <2> QED
    BY <2>1, <2>2
<1>7. Clients' = Clients \ S
  <2>1. \A m \in Clients' : m \in Clients \ S
    BY <1>3, <1>5 DEF Clients
  <2>2. \A m \in Clients \ S : m \in Clients'
    BY <1>3 DEF Clients
  <2> QED
    BY <2>1, <2>2
<1>8. S \subseteq Clients
  BY <1>3 DEF Clients
<1>9. Free' = Free \cup S
  BY <1>1, <1>7, <1>8 DEF FreeExact, Created
<1> QED
  BY <1>2, <1>6, <1>9, Releases

LEMMA GiveStep ==
  ASSUME TypeOK, TypeOK', Custody, Custody', NEW t \in Thread, NEW u \in Thread, Give(t, u)
  PROVE  AbstractStep
<1>1. FreeExact /\ FreeExact'
  BY FreeIs, FreeIsAfter
<1>2. Want' = Want /\ Want[t] = -1 /\ Want[u] = -1 /\ t # u /\ created' = created
  BY DEF Give, Want, Asking, shared, locals
<1>3. /\ held'[t] = << >> /\ Range(held'[u]) = Range(held[u]) \cup Range(held[t])
      /\ \A v \in Thread \ {t, u} : held'[v] = held[v]
  <2>1. held' = [held EXCEPT ![t] = << >>, ![u] = held[t] \o held[u]]
    BY DEF Give
  <2>2. /\ held'[t] = << >> /\ held'[u] = held[t] \o held[u]
        /\ \A v \in Thread \ {t, u} : held'[v] = held[v]
    BY <1>2, <2>1, Zenon DEF TypeOK
  <2>3. held[t] \in Seq(Nat) /\ held[u] \in Seq(Nat)
    BY DEF TypeOK
  <2> QED
    BY <2>2, <2>3, ConcatRange
<1>4. Range(held'[t]) = {}
  BY <1>3 DEF Range
<1>5. Owned' = [Owned EXCEPT ![t] = {}, ![u] = @ \cup Owned[t]]
  BY <1>2, <1>3, <1>4 DEF Owned
<1>6. Clients' = Clients
  <2>1. \A m \in Clients' : m \in Clients
    BY <1>3, <1>4 DEF Clients
  <2>2. \A m \in Clients : m \in Clients'
    BY <1>3 DEF Clients
  <2> QED
    BY <2>1, <2>2
<1>7. Free' = Free
  BY <1>1, <1>2, <1>6 DEF FreeExact, Created
<1> QED
  BY <1>2, <1>5, <1>7, Gives

\* The nodes a call hands over are different ones, and free: its own, or the first of
\* the free stack.
LEMMA Takeable ==
  ASSUME TypeOK, Custody, NEW t \in Thread, NEW count \in Nat,
         NEW q, q = other[t] \/ q = Popped(m_stack, count)
  PROVE  /\ q \in Seq(Nat) /\ Range(q) \subseteq Free
         /\ \A i, j \in 1..Len(q) : q[i] = q[j] => i = j
<1>1. \A p \in Place : \A i, j \in 1..Len(Nodes[p]) : Nodes[p][i] = Nodes[p][j] => i = j
  BY Zenon DEF Custody, OneEach
<1>2. CASE q = other[t]
  <2>1. AtOther(t) \in Place /\ Nodes[AtOther(t)] = q
    BY <1>2, Before, Places, Zenon
  <2>2. q \in Seq(Nat) /\ Range(q) \subseteq Free
    BY <1>2 DEF TypeOK, Free
  <2> QED
    BY <1>1, <2>1, <2>2, Zenon
<1>3. CASE q = Popped(m_stack, count)
  <2>1. Pool \in Place /\ Nodes[Pool] = m_stack
    BY Before, Places, Zenon
  <2>2. \A i, j \in 1..Len(m_stack) : m_stack[i] = m_stack[j] => i = j
    BY <1>1, <2>1, Zenon
  <2>3. m_stack \in Seq(Nat)
    BY DEF TypeOK
  <2>4. q \in Seq(Nat) /\ Range(q) \subseteq Range(m_stack)
    BY <1>3, <2>3, PopRange
  <2> DEFINE k == PopCount(m_stack, count)
  <2>5. k \in 0..Len(m_stack) /\ Len(q) = k /\ \A i \in 1..k : q[i] = m_stack[i]
    BY <1>3, <2>3, PopParts, Zenon
  <2> HIDE DEF k
  <2>6. Len(m_stack) \in Nat /\ \A i \in 1..k : i \in 1..Len(m_stack)
    BY <2>3, <2>5
  <2>7. \A i, j \in 1..Len(q) : q[i] = q[j] => i = j
    BY <2>2, <2>5, <2>6
  <2> QED
    BY <2>4, <2>7 DEF Free
<1> QED
  BY <1>2, <1>3

LEMMA PromiseStep ==
  Control /\ Custody /\ Custody' /\ [Next]_vars => AbstractStep
<1> SUFFICES ASSUME Control, Custody, Custody', [Next]_vars PROVE AbstractStep
  OBVIOUS
<1>0. TypeOK /\ TypeOK' /\ CallLocals
  BY TypeStep DEF Control
<1> USE DEF Asking
<1>1. ASSUME NEW t \in Thread,
             \/ Lock(t) \/ CallAvailable(t) \/ AvailableRead(t) \/ ReleaseReset(t) \/ ReleasePush(t)
             \/ AcquireOnePop(t) \/ AcquireOneSplice(t)
             \/ Use(t)
      PROVE  AbstractStep
  <2>1. held' = held /\ created' = created /\ need' = need
    BY <1>1 DEF Lock, CallAvailable, AvailableRead, ReleaseReset, ReleasePush, AcquireOnePop,
                AcquireOneSplice, Use, shared, locals
  <2>2. /\ pc'[t] \in Asking <=> pc[t] \in Asking
        /\ \A u \in Thread \ {t} : pc'[u] = pc[u]
    BY <1>0, <1>1 DEF Lock, LockAt, CallAvailable, AvailableRead, ReleaseReset, ReleasePush,
                      AcquireOnePop, AcquireOneSplice, Use, Goto, TypeOK
  <2>3. OthersWait(t)
    BY <2>1, <2>2 DEF OthersWait
  <2>4. (IF pc'[t] \in Asking THEN need'[t] ELSE -1) = (IF pc[t] \in Asking THEN need[t] ELSE -1)
    BY <2>1, <2>2
  <2> QED
    BY <1>0, <2>1, <2>3, <2>4, QuietStep
<1>2. ASSUME NEW t \in Thread, NEW count \in Counts \cup {1},
             (CallAcquireOne(t) /\ count = 1) \/ CallAcquire(t, count)
      PROVE  AbstractStep
  <2>1. held' = held /\ created' = created /\ need' = [need EXCEPT ![t] = count]
    BY <1>2 DEF CallAcquireOne, CallAcquire, shared
  <2>2. /\ pc[t] = "idle" /\ pc'[t] \in {"one_lock", "acq_lock"} /\ need'[t] = count
        /\ OthersWait(t)
    BY <1>0, <1>2, <2>1 DEF CallAcquireOne, CallAcquire, Goto, TypeOK, OthersWait
  <2>3. (IF pc[t] \in Asking THEN need[t] ELSE -1) = -1
        /\ (IF pc'[t] \in Asking THEN need'[t] ELSE -1) = count
    BY <2>2
  <2> QED
    BY <1>0, <2>1, <2>2, <2>3, QuietStep
<1>3. ASSUME NEW t \in Thread,
             AcquireOneBadAlloc(t) \/ AcquireOneThrows(t) \/ AcquireBadAlloc(t)
      PROVE  AbstractStep
  <2>1. created' = created /\ held' = held
    <3>1. CASE AcquireOneBadAlloc(t)
      <4>1. held' = [held EXCEPT ![t] = << >> \o @] /\ << >> \o held[t] = held[t]
        BY <1>0, <3>1, ConcatEmptySeq DEF AcquireOneBadAlloc, Return, TypeOK
      <4> QED
        BY <1>0, <3>1, <4>1 DEF AcquireOneBadAlloc, shared, TypeOK
    <3>2. CASE AcquireOneThrows(t) \/ AcquireBadAlloc(t)
      BY <3>2 DEF AcquireOneThrows, AcquireBadAlloc, shared
    <3> QED
      BY <1>3, <3>1, <3>2
  <2>2. pc[t] \in Asking /\ need[t] > 0
    <3>1. CASE AcquireBadAlloc(t)
      <4>1. pc[t] = "acq_alloc" /\ Len(other[t]) < need[t]
        BY <1>0, <3>1 DEF AcquireBadAlloc, CallLocals, LocalsOf
      <4>2. Len(other[t]) \in Nat /\ need[t] \in Nat
        <5>1. other[t] \in Seq(Nat) /\ need[t] \in Nat
          BY <1>0 DEF TypeOK
        <5> QED
          BY <5>1
      <4> QED
        BY <4>1, <4>2
    <3>2. CASE AcquireOneBadAlloc(t) \/ AcquireOneThrows(t)
      BY <1>0, <3>2 DEF AcquireOneBadAlloc, AcquireOneThrows, Goto, CallLocals, LocalsOf
    <3> QED
      BY <1>3, <3>1, <3>2
  <2>3. pc'[t] \notin Asking /\ OthersWait(t)
    BY <1>0, <1>3 DEF AcquireOneBadAlloc, AcquireOneThrows, AcquireBadAlloc, Goto, Return, TypeOK,
                      OthersWait
  <2>4. (IF pc[t] \in Asking THEN need[t] ELSE -1) = need[t]
        /\ (IF pc'[t] \in Asking THEN need'[t] ELSE -1) = -1
    BY <2>2, <2>3
  <2> QED
    BY <1>0, <2>1, <2>2, <2>3, <2>4, QuietStep
<1>4. ASSUME NEW t \in Thread, AcquireOneAllocate(t) PROVE AbstractStep
  <2>1. /\ held' = held /\ need' = need /\ created' = created + BlockSize
        /\ created + BlockSize <= MaxNodes
    BY <1>4 DEF AcquireOneAllocate
  <2>2. /\ pc[t] = "one_alloc" /\ pc'[t] = "one_splice_lock" /\ need[t] = 1 /\ OthersWait(t)
    BY <1>0, <1>4, <2>1 DEF AcquireOneAllocate, Goto, CallLocals, LocalsOf, TypeOK, OthersWait
  <2>3. BlockSize \in Nat /\ pc[t] \in Asking /\ pc'[t] \in Asking /\ need[t] > 0
    BY <2>2, SizeAssumption
  <2> QED
    BY <1>0, <2>1, <2>2, <2>3, GrowStep
<1>5. ASSUME NEW t \in Thread, AcquireAllocate(t) PROVE AbstractStep
  <2> DEFINE n == NumBlocks(t) * BlockSize
  <2>1. held' = held /\ need' = need /\ created' = created + n /\ created + n <= MaxNodes
    BY <1>5, Zenon DEF AcquireAllocate
  <2>2. /\ pc[t] = "acq_alloc" /\ pc'[t] = "acq_splice_lock" /\ Len(other[t]) < need[t]
        /\ \A u \in Thread \ {t} : pc'[u] = pc[u]
    BY <1>0, <1>5 DEF AcquireAllocate, Goto, CallLocals, LocalsOf, TypeOK
  <2>3. Len(other[t]) \in Nat /\ need[t] \in Nat
    <3>1. other[t] \in Seq(Nat) /\ need[t] \in Nat
      BY <1>0 DEF TypeOK
    <3> QED
      BY <3>1
  <2>4. NumNodes(t) \in Nat /\ need[t] > 0
    BY <2>2, <2>3 DEF NumNodes
  <2>5. n \in Nat
    BY <2>4, AcquireAllocateSizes DEF NumBlocks
  <2> HIDE DEF n
  <2>6. pc[t] \in Asking /\ pc'[t] \in Asking /\ OthersWait(t)
    BY <2>1, <2>2 DEF OthersWait
  <2> QED
    BY <1>0, <2>1, <2>4, <2>5, <2>6, GrowStep
<1>6. ASSUME NEW t \in Thread, NEW q, NEW count \in Nat, created' = created,
             Return(t, q), q = other[t] \/ q = Popped(m_stack, count),
             Len(q) = need[t], pc[t] \in Asking
      PROVE  AbstractStep
  <2>1. /\ q \in Seq(Nat) /\ Range(q) \subseteq Free
        /\ \A i, j \in 1..Len(q) : q[i] = q[j] => i = j
    BY <1>0, <1>6, Takeable
  <2>2. /\ pc'[t] \notin Asking /\ OthersWait(t) /\ held' = [held EXCEPT ![t] = q \o @]
    BY <1>0, <1>6 DEF Return, TypeOK, OthersWait
  <2> QED
    BY <1>0, <1>6, <2>1, <2>2, HandOverStep
<1>7. ASSUME NEW t \in Thread, AcquireOneConstruct(t) \/ AcquireSplice(t) PROVE AbstractStep
  <2>1. created' = created /\ Return(t, other[t]) /\ pc[t] \in Asking
    BY <1>7 DEF AcquireOneConstruct, AcquireSplice, shared
  <2>2. Len(other[t]) = need[t] /\ 0 \in Nat
    BY <1>0, <1>7 DEF AcquireOneConstruct, AcquireSplice, CallLocals, LocalsOf, Splicing
  <2> QED
    BY <1>6, <2>1, <2>2
<1>8. ASSUME NEW t \in Thread, AcquireTakeSome(t) PROVE AbstractStep
  <2>1. /\ created' = created /\ Return(t, Popped(m_stack, need[t])) /\ pc[t] \in Asking
        /\ need[t] < Len(m_stack)
    BY <1>8 DEF AcquireTakeSome
  <2>2. need[t] \in Nat /\ m_stack \in Seq(Nat)
    BY <1>0 DEF TypeOK
  <2>3. Len(Popped(m_stack, need[t])) = need[t]
    <3>1. need[t] <= Len(m_stack)
      BY <2>1, <2>2
    <3> QED
      BY <2>2, <3>1, PopLengths, Zenon
  <2> QED
    BY <1>6, <2>1, <2>2, <2>3
<1>9. ASSUME NEW t \in Thread, AcquireTakeAll(t) PROVE AbstractStep
  <2>1. created' = created /\ pc[t] = "acq_take" /\ need[t] >= Len(m_stack)
    BY <1>9 DEF AcquireTakeAll
  <2>2. /\ need[t] \in Nat /\ m_stack \in Seq(Nat) /\ Len(m_stack) \in Nat
        /\ Popped(m_stack, Len(m_stack)) = m_stack
    BY <1>0, PopAll DEF TypeOK
  <2>3. CASE need[t] > Len(m_stack)
    <3>1. held' = held /\ need' = need /\ pc' = [pc EXCEPT ![t] = "acq_alloc"]
      BY <1>9, <2>3 DEF AcquireTakeAll
    <3>2. pc'[t] = "acq_alloc" /\ OthersWait(t)
      BY <1>0, <3>1 DEF TypeOK, OthersWait
    <3>3. (IF pc'[t] \in Asking THEN need'[t] ELSE -1) = (IF pc[t] \in Asking THEN need[t] ELSE -1)
      BY <2>1, <3>1, <3>2
    <3> QED
      BY <1>0, <2>1, <3>1, <3>2, <3>3, QuietStep
  <2>4. CASE ~(need[t] > Len(m_stack))
    <3>1. Return(t, m_stack) /\ Len(m_stack) = need[t] /\ pc[t] \in Asking
      BY <1>9, <2>1, <2>2, <2>4 DEF AcquireTakeAll
    <3> QED
      BY <1>6, <2>1, <2>2, <3>1
  <2> QED
    BY <2>3, <2>4
<1>10. ASSUME NEW t \in Thread, NEW count \in Counts \cup {1},
              (CallReleaseOne(t) /\ count = 1) \/ CallRelease(t, count)
       PROVE  AbstractStep
  <2>1. /\ created' = created /\ count \in Nat /\ need' = need
        /\ other' = [other EXCEPT ![t] = Popped(held[t], count)]
        /\ held' = [held EXCEPT ![t] = Left(@, count)]
    BY <1>10, CountsAssumption DEF CallReleaseOne, CallRelease, shared
  <2>2. /\ pc[t] \notin Asking /\ pc'[t] \notin Asking /\ OthersWait(t)
        /\ other'[t] = Popped(held[t], count)
    BY <1>0, <1>10, <2>1 DEF CallReleaseOne, CallRelease, Goto, TypeOK, OthersWait
  <2> QED
    BY <1>0, <2>1, <2>2, TakeBackStep
<1>11. ASSUME NEW t \in Thread, NEW u \in Thread, Give(t, u) PROVE AbstractStep
  BY <1>0, <1>11, GiveStep
<1>12. CASE UNCHANGED vars
  BY <1>12, Stutters DEF vars, shared, locals, Free, Owned, Want
<1> QED
  BY <1>1, <1>2, <1>3, <1>4, <1>5, <1>7, <1>8, <1>9, <1>10, <1>11, <1>12
     DEF Next, Step, Call, AcquireOneStep, AcquireStep

\* The pool keeps its promise: seen from its clients, each call takes its nodes all at
\* once or not at all, and gives them back all at once, in every interleaving.
THEOREM ImplementsPromiseSafe == Spec => ImplementsPromise
<1>1. Init => Promise!Init
  <2> SUFFICES ASSUME Init PROVE Promise!Init
    OBVIOUS
  <2>1. Range(<< >>) = {}
    BY DEF Range
  <2>2. Free = {}
    BY <2>1 DEF Free, Init
  <2>3. Owned = [t \in Thread |-> {}]
    BY <2>1 DEF Owned, Init
  <2>4. Want = [t \in Thread |-> -1]
    BY DEF Want, Init, Asking
  <2> QED
    BY <2>2, <2>3, <2>4, Zenon DEF Promise!Init, Free, Owned, Want
<1>2. Control /\ Custody /\ Custody' /\ [Next]_vars => [Promise!Next]_(Promise!vars)
  BY PromiseStep DEF AbstractStep
<1> QED
  BY <1>1, <1>2, CustodyInvariant, ControlInvariant, PTL DEF Spec, ImplementsPromise, Promise!Spec
=============================================================================
