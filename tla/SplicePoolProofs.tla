-------------------------- MODULE SplicePoolProofs --------------------------
(***************************************************************************)
(* The types of SplicePool, mutual exclusion, and what the locals of a call *)
(* hold at each of its steps, for any threads, block size and counts.  The *)
(* three are proved from one inductive invariant, Control.                 *)
(***************************************************************************)
EXTENDS SplicePool, SequenceTheorems, TLAPS

LEMMA PopParts ==
  ASSUME NEW S, NEW s \in Seq(S), NEW count \in Nat
  PROVE  /\ PopCount(s, count) \in 0..Len(s)
         /\ Popped(s, count) \in Seq(S)
         /\ Left(s, count) \in Seq(S)
         /\ Len(Popped(s, count)) = PopCount(s, count)
         /\ Len(Left(s, count)) = Len(s) - PopCount(s, count)
         /\ \A i \in 1..PopCount(s, count) : Popped(s, count)[i] = s[i]
         /\ \A i \in 1..(Len(s) - PopCount(s, count)) :
              Left(s, count)[i] = s[PopCount(s, count) + i]
<1> DEFINE k == PopCount(s, count)
<1>1. Len(s) \in Nat /\ k \in 0..Len(s)
  BY DEF PopCount
<1>2. /\ SubSeq(s, 1, k) \in Seq(S)
      /\ Len(SubSeq(s, 1, k)) = k
      /\ \A i \in 1..k : SubSeq(s, 1, k)[i] = s[i]
  <2>1. \A i \in 1..k : s[i] \in S
    BY <1>1, ElementOfSeq
  <2> HIDE DEF k
  <2>2. QED
    BY <1>1, <2>1, SubSeqProperties
<1>3. /\ SubSeq(s, k + 1, Len(s)) \in Seq(S)
      /\ Len(SubSeq(s, k + 1, Len(s))) = Len(s) - k
      /\ \A i \in 1..(Len(s) - k) : SubSeq(s, k + 1, Len(s))[i] = s[k + i]
  <2>1. \A i \in (k + 1)..Len(s) : s[i] \in S
    BY <1>1, ElementOfSeq
  <2> HIDE DEF k
  <2>2. QED
    BY <1>1, <2>1, SubSeqProperties
<1> QED
  BY <1>1, <1>2, <1>3 DEF Popped, Left

LEMMA PopLengths ==
  ASSUME NEW S, NEW s \in Seq(S), NEW count \in Nat
  PROVE  /\ count <= Len(s) => Len(Popped(s, count)) = count
         /\ s = << >> => Popped(s, count) = << >>
         /\ (s # << >> /\ count > 0) => Popped(s, count) # << >>
<1>1. Len(Popped(s, count)) = PopCount(s, count) /\ Popped(s, count) \in Seq(S)
  BY PopParts, Zenon
<1>2. Len(s) \in Nat /\ (s # << >> => Len(s) > 0) /\ (s = << >> => Len(s) = 0)
  BY EmptySeq
<1>3. count <= Len(s) => Len(Popped(s, count)) = count
  BY <1>1, <1>2 DEF PopCount
<1>4. s = << >> => Len(Popped(s, count)) = 0
  BY <1>1, <1>2 DEF PopCount
<1>5. (s # << >> /\ count > 0) => Len(Popped(s, count)) > 0
  BY <1>1, <1>2 DEF PopCount
<1> QED
  BY <1>1, <1>3, <1>4, <1>5, EmptySeq

LEMMA FreshNodes ==
  ASSUME NEW a \in Nat, NEW n \in Nat
  PROVE  /\ Fresh(a, n) \in Seq(Nat)
         /\ Len(Fresh(a, n)) = n
         /\ \A i \in 1..n : Fresh(a, n)[i] = a + n - i
<1>1. \A i \in 1..n : a + n - i \in Nat
  OBVIOUS
<1> QED
  BY <1>1 DEF Fresh

LEMMA ConcatType ==
  ASSUME NEW S, NEW q \in Seq(S), NEW r \in Seq(S)
  PROVE  q \o r \in Seq(S)
BY ConcatProperties

LEMMA RangeType ==
  ASSUME NEW S, NEW q \in Seq(S)
  PROVE  Range(q) \subseteq S
BY ElementOfSeq, LenProperties DEF Range

-----------------------------------------------------------------------------
(* Type correctness                                                        *)

\* What Return does to the typed variables.
LEMMA ReturnType ==
  ASSUME TypeOK, NEW t \in Thread, NEW q \in Seq(Nat), Return(t, q)
  PROVE  /\ pc' \in [Thread -> Waiting \cup Critical \cup Outside]
         /\ held' \in [Thread -> Seq(Nat)]
         /\ need' \in [Thread -> Nat]
         /\ other' \in [Thread -> Seq(Nat)]
<1>1. q \o held[t] \in Seq(Nat)
  BY ConcatType DEF TypeOK
<1>2. << >> \in Seq(Nat)
  BY EmptySeq
<1> QED
  BY <1>1, <1>2 DEF TypeOK, Return, Outside

\* Labels a transition can lead to.
LEMMA GotoType ==
  ASSUME TypeOK, NEW t \in Thread, NEW from,
         NEW to \in Waiting \cup Critical \cup Outside, Goto(t, from, to)
  PROVE  pc' \in [Thread -> Waiting \cup Critical \cup Outside]
BY DEF TypeOK, Goto

LEMMA AcquireAllocateSizes ==
  ASSUME NEW n \in Nat
  PROVE  /\ n \div BlockSize + 1 \in Nat
         /\ (n \div BlockSize + 1) * BlockSize \in Nat
         /\ (n \div BlockSize + 1) * BlockSize > n
<1>1. BlockSize \in Nat /\ BlockSize > 0
  BY SizeAssumption
<1>2. n \div BlockSize \in Nat
  BY <1>1
<1>3. n = BlockSize * (n \div BlockSize) + (n % BlockSize) /\ n % BlockSize \in 0..(BlockSize - 1)
  BY <1>1
<1>4. (n \div BlockSize + 1) * BlockSize = BlockSize * (n \div BlockSize) + BlockSize
  BY <1>1, <1>2
<1> QED
  BY <1>1, <1>2, <1>3, <1>4

Control == TypeOK /\ CallLocals /\ MutualExclusion

LEMMA ControlInit == Init => Control
BY EmptySeq, SizeAssumption, ThreadAssumption
   DEF Control, TypeOK, CallLocals, LocalsOf, MutualExclusion, Init, Splicing, Waiting, Critical, Outside

LEMMA TypeStep == Control /\ [Next]_vars => TypeOK'
<1> SUFFICES ASSUME Control, [Next]_vars PROVE TypeOK'
  OBVIOUS
<1> DEFINE Labels == Waiting \cup Critical \cup Outside
<1>0. TypeOK /\ CallLocals
  BY DEF Control
<1>c. << >> \in Seq(Nat) /\ BlockSize \in Nat /\ BlockSize > 0 /\ MaxNodes \in Nat
  BY EmptySeq, SizeAssumption
<1>l. /\ {"one_lock", "one_splice_lock", "acq_lock", "acq_splice_lock", "rel_lock", "avail_lock"} \subseteq Labels
      /\ {"one_pop", "one_splice", "acq_take", "acq_splice", "rel_push", "avail_read"} \subseteq Labels
      /\ {"idle", "one_alloc", "one_construct", "acq_alloc", "rel_reset"} \subseteq Labels
  BY DEF Waiting, Critical, Outside
<1> HIDE DEF Labels
<1>lock. ASSUME NEW t \in Thread, Lock(t) PROVE TypeOK'
  BY <1>lock, <1>0, <1>l DEF TypeOK, Lock, LockAt, Goto, shared, locals, Labels
<1>1. ASSUME NEW t \in Thread, CallAcquireOne(t) PROVE TypeOK'
  BY <1>1, <1>0, <1>l DEF TypeOK, CallAcquireOne, Goto, shared, Labels
<1>2. ASSUME NEW t \in Thread, AcquireOnePop(t) PROVE TypeOK'
  <2>1. Popped(m_stack, 1) \in Seq(Nat) /\ Left(m_stack, 1) \in Seq(Nat)
    BY <1>0, PopParts DEF TypeOK
  <2> QED
    BY <1>2, <2>1, <1>0, <1>l DEF TypeOK, AcquireOnePop, Goto, Unlock, Labels
<1>3. ASSUME NEW t \in Thread, AcquireOneAllocate(t) PROVE TypeOK'
  <2> DEFINE fresh == Fresh(created, BlockSize)
  <2>1. fresh \in Seq(Nat)
    BY <1>0, <1>c, FreshNodes DEF TypeOK
  <2> HIDE DEF fresh
  <2>2. Popped(fresh, 1) \in Seq(Nat) /\ Left(fresh, 1) \in Seq(Nat)
    BY <2>1, PopParts
  <2>3. /\ other' = [other EXCEPT ![t] = Popped(fresh, 1)]
        /\ alloc' = [alloc EXCEPT ![t] = Left(fresh, 1)]
    BY <1>3 DEF AcquireOneAllocate, fresh
  <2>4. other' \in [Thread -> Seq(Nat)] /\ alloc' \in [Thread -> Seq(Nat)]
    BY <2>2, <2>3, <1>0 DEF TypeOK
  <2>5. created' \in Nat /\ numBlocks' \in [Thread -> Nat]
    BY <1>3, <1>0, <1>c DEF TypeOK, AcquireOneAllocate
  <2> QED
    BY <1>3, <2>4, <2>5, <1>0, <1>l DEF TypeOK, AcquireOneAllocate, Goto, Labels
<1>4. ASSUME NEW t \in Thread, AcquireOneBadAlloc(t) PROVE TypeOK'
  BY <1>4, <1>0, <1>c, ReturnType DEF TypeOK, AcquireOneBadAlloc, shared
<1>5. ASSUME NEW t \in Thread, AcquireOneSplice(t) PROVE TypeOK'
  <2>1. alloc[t] \o m_stack \in Seq(Nat)
    BY <1>0, ConcatType DEF TypeOK
  <2>2. m_stack' \in Seq(Nat) /\ m_allocated' \in Nat /\ m_mutex' \in Thread \cup {NoThread}
    BY <1>5, <2>1, <1>0, <1>c DEF TypeOK, AcquireOneSplice, Spliced, Counted, Unlock
  <2>3. alloc' \in [Thread -> Seq(Nat)] /\ numBlocks' \in [Thread -> Nat]
    BY <1>5, <1>0, <1>c DEF TypeOK, AcquireOneSplice, Spliced, Counted
  <2>4. pc' \in [Thread -> Labels]
    BY <1>5, <1>0, <1>l DEF TypeOK, AcquireOneSplice, Spliced, Counted, Goto, Labels
  <2> QED
    BY <1>5, <2>2, <2>3, <2>4, <1>0 DEF TypeOK, AcquireOneSplice, Spliced, Counted, Labels
<1>6. ASSUME NEW t \in Thread, AcquireOneConstruct(t) PROVE TypeOK'
  <2>1. other[t] \in Seq(Nat) /\ Range(other[t]) \subseteq Nat
    BY <1>0, RangeType DEF TypeOK
  <2> QED
    BY <1>6, <2>1, <1>0, ReturnType DEF TypeOK, AcquireOneConstruct, shared
<1>7. ASSUME NEW t \in Thread, AcquireOneThrows(t) PROVE TypeOK'
  <2>1. Range(other[t]) \subseteq Nat
    BY <1>0, RangeType DEF TypeOK
  <2> QED
    BY <1>7, <2>1, <1>0, <1>l DEF TypeOK, AcquireOneThrows, Goto, shared, Labels
<1>8. ASSUME NEW t \in Thread, NEW count \in Counts, CallAcquire(t, count) PROVE TypeOK'
  BY <1>8, <1>0, <1>l, CountsAssumption DEF TypeOK, CallAcquire, Goto, shared, Labels
<1>9. ASSUME NEW t \in Thread, AcquireTakeAll(t) PROVE TypeOK'
  <2>1. CASE need[t] > Len(m_stack)
    BY <1>9, <2>1, <1>0, <1>c, <1>l DEF TypeOK, AcquireTakeAll, Unlock, Labels
  <2>2. CASE ~(need[t] > Len(m_stack))
    BY <1>9, <2>2, <1>0, <1>c, ReturnType DEF TypeOK, AcquireTakeAll, Unlock
  <2> QED
    BY <2>1, <2>2
<1>10. ASSUME NEW t \in Thread, AcquireTakeSome(t) PROVE TypeOK'
  <2>1. Popped(m_stack, need[t]) \in Seq(Nat) /\ Left(m_stack, need[t]) \in Seq(Nat)
    BY <1>0, PopParts DEF TypeOK
  <2> QED
    <3>1. Return(t, Popped(m_stack, need[t]))
      BY <1>10 DEF AcquireTakeSome
    <3>2. /\ pc' \in [Thread -> Waiting \cup Critical \cup Outside]
          /\ held' \in [Thread -> Seq(Nat)]
          /\ need' \in [Thread -> Nat] /\ other' \in [Thread -> Seq(Nat)]
      BY <1>0, <2>1, <3>1, ReturnType, Zenon
    <3> QED
      BY <1>10, <2>1, <3>2, <1>0 DEF TypeOK, AcquireTakeSome, Unlock
<1>11. ASSUME NEW t \in Thread, AcquireAllocate(t) PROVE TypeOK'
  <2> DEFINE numNodes == need[t] - Len(other[t])
             blocks == numNodes \div BlockSize + 1
             fresh == Fresh(created, blocks * BlockSize)
  <2>1. numNodes \in Nat
    <3>1. pc[t] = "acq_alloc"
      BY <1>11, Zenon DEF AcquireAllocate, Goto
    <3>2. Len(other[t]) < need[t] /\ need[t] \in Nat /\ Len(other[t]) \in Nat
      BY <3>1, <1>0, LenProperties DEF TypeOK, CallLocals, LocalsOf
    <3> QED
      BY <3>2
  <2> HIDE DEF numNodes
  <2>2. blocks \in Nat /\ blocks * BlockSize \in Nat
    BY <2>1, AcquireAllocateSizes
  <2> HIDE DEF blocks
  <2>3. fresh \in Seq(Nat)
    BY <1>0, <2>2, FreshNodes DEF TypeOK
  <2> HIDE DEF fresh
  <2>4. Popped(fresh, numNodes) \in Seq(Nat) /\ Left(fresh, numNodes) \in Seq(Nat)
    BY <2>1, <2>3, PopParts
  <2>5. Popped(fresh, numNodes) \o other[t] \in Seq(Nat)
    BY <2>4, <1>0, ConcatType DEF TypeOK
  <2>6. /\ other' = [other EXCEPT ![t] = Popped(fresh, numNodes) \o @]
        /\ alloc' = [alloc EXCEPT ![t] = Left(fresh, numNodes)]
        /\ numBlocks' = [numBlocks EXCEPT ![t] = blocks]
        /\ created' = created + blocks * BlockSize
    BY <1>11 DEF AcquireAllocate, NumNodes, NumBlocks, fresh, blocks, numNodes
  <2>7. /\ other' \in [Thread -> Seq(Nat)] /\ alloc' \in [Thread -> Seq(Nat)]
        /\ numBlocks' \in [Thread -> Nat] /\ created' \in Nat
    <3>1. other' \in [Thread -> Seq(Nat)]
      BY <2>5, <2>6, <1>0, Zenon DEF TypeOK
    <3>2. alloc' \in [Thread -> Seq(Nat)] /\ numBlocks' \in [Thread -> Nat]
      BY <2>2, <2>4, <2>6, <1>0, Zenon DEF TypeOK
    <3>3. created' \in Nat
      <4> DEFINE size == blocks * BlockSize
      <4>1. size \in Nat /\ created \in Nat /\ created' = created + size
        BY <2>2, <2>6, <1>0, Zenon DEF TypeOK
      <4> HIDE DEF size
      <4> QED
        BY <4>1
    <3> QED
      BY <3>1, <3>2, <3>3
  <2> QED
    BY <1>11, <2>7, <1>0, <1>l DEF TypeOK, AcquireAllocate, NumNodes, NumBlocks, Goto, Labels
<1>12. ASSUME NEW t \in Thread, AcquireBadAlloc(t) PROVE TypeOK'
  BY <1>12, <1>0, <1>l DEF TypeOK, AcquireBadAlloc, shared, Labels
<1>13. ASSUME NEW t \in Thread, AcquireSplice(t) PROVE TypeOK'
  <2>1. alloc[t] \o m_stack \in Seq(Nat) /\ other[t] \in Seq(Nat)
    BY <1>0, ConcatType DEF TypeOK
  <2>2. numBlocks[t] * BlockSize \in Nat
    BY <1>0, <1>c DEF TypeOK
  <2>3. /\ pc' \in [Thread -> Waiting \cup Critical \cup Outside]
        /\ held' \in [Thread -> Seq(Nat)]
        /\ need' \in [Thread -> Nat] /\ other' \in [Thread -> Seq(Nat)]
    BY <1>13, <2>1, <1>0, ReturnType DEF AcquireSplice, Spliced, Counted
  <2>4. m_stack' \in Seq(Nat) /\ m_allocated' \in Nat /\ m_mutex' \in Thread \cup {NoThread}
    <3> DEFINE size == numBlocks[t] * BlockSize
    <3>1. size \in Nat /\ m_allocated \in Nat /\ m_allocated' = m_allocated + size
      BY <1>13, <2>2, <1>0, Zenon DEF TypeOK, AcquireSplice, Spliced, Counted
    <3> HIDE DEF size
    <3>2. m_allocated' \in Nat
      BY <3>1
    <3>3. m_stack' \in Seq(Nat) /\ m_mutex' \in Thread \cup {NoThread}
      BY <1>13, <2>1, Zenon DEF AcquireSplice, Spliced, Counted, Unlock
    <3> QED
      BY <3>2, <3>3
  <2>5. alloc' \in [Thread -> Seq(Nat)] /\ numBlocks' \in [Thread -> Nat]
    BY <1>13, <1>0, <1>c DEF TypeOK, AcquireSplice, Spliced, Counted
  <2> QED
    BY <1>13, <2>3, <2>4, <2>5, <1>0 DEF TypeOK, AcquireSplice, Spliced, Counted
<1>14. ASSUME NEW t \in Thread, CallReleaseOne(t) PROVE TypeOK'
  <2>1. Popped(held[t], 1) \in Seq(Nat) /\ Left(held[t], 1) \in Seq(Nat)
    BY <1>0, PopParts DEF TypeOK
  <2> QED
    BY <1>14, <2>1, <1>0, <1>l DEF TypeOK, CallReleaseOne, Goto, shared, Labels
<1>15. ASSUME NEW t \in Thread, NEW count \in Counts, CallRelease(t, count) PROVE TypeOK'
  <2>1. Popped(held[t], count) \in Seq(Nat) /\ Left(held[t], count) \in Seq(Nat)
    BY <1>0, PopParts, CountsAssumption DEF TypeOK
  <2> QED
    BY <1>15, <2>1, <1>0, <1>l DEF TypeOK, CallRelease, Goto, shared, Labels
<1>16. ASSUME NEW t \in Thread, ReleaseReset(t) PROVE TypeOK'
  BY <1>16, <1>0, <1>l DEF TypeOK, ReleaseReset, Goto, shared, locals, Labels
<1>17. ASSUME NEW t \in Thread, ReleasePush(t) PROVE TypeOK'
  <2>1. other[t] \o m_stack \in Seq(Nat)
    BY <1>0, ConcatType DEF TypeOK
  <2> QED
    BY <1>17, <2>1, <1>0, <1>c, <1>l DEF TypeOK, ReleasePush, Goto, Unlock, Labels
<1>18. ASSUME NEW t \in Thread, CallAvailable(t) PROVE TypeOK'
  BY <1>18, <1>0, <1>l DEF TypeOK, CallAvailable, Goto, shared, locals, Labels
<1>19. ASSUME NEW t \in Thread, AvailableRead(t) PROVE TypeOK'
  BY <1>19, <1>0, <1>l, LenProperties DEF TypeOK, AvailableRead, Goto, Unlock, shared, locals, Labels
<1>20. ASSUME NEW t \in Thread, Use(t) PROVE TypeOK'
  <2>1. Range(held[t]) \subseteq Nat
    BY <1>0, RangeType DEF TypeOK
  <2> QED
    BY <1>20, <2>1, <1>0 DEF TypeOK, Use, shared, locals
<1>21. ASSUME NEW t \in Thread, NEW u \in Thread, Give(t, u) PROVE TypeOK'
  <2>1. held[t] \o held[u] \in Seq(Nat)
    BY <1>0, ConcatType DEF TypeOK
  <2> QED
    BY <1>21, <2>1, <1>0, <1>c DEF TypeOK, Give, shared, locals
<1>22. CASE UNCHANGED vars
  BY <1>22, <1>0 DEF TypeOK, vars, shared, locals
<1> QED
  BY <1>lock, <1>1, <1>2, <1>3, <1>4, <1>5, <1>6, <1>7, <1>8, <1>9, <1>10, <1>11,
     <1>12, <1>13, <1>14, <1>15, <1>16, <1>17, <1>18, <1>19, <1>20, <1>21, <1>22
     DEF Next, Step, Call, AcquireOneStep, AcquireStep

-----------------------------------------------------------------------------
(* Mutual exclusion                                                        *)

\* A step that stays outside of the critical sections and leaves the mutex alone.
LEMMA StayOutside ==
  ASSUME Control, NEW t \in Thread, m_mutex' = m_mutex,
         pc[t] \notin Critical,
         \E to \in Waiting \cup Outside : pc' = [pc EXCEPT ![t] = to]
  PROVE  MutualExclusion'
BY DEF Control, TypeOK, MutualExclusion, Waiting, Critical, Outside

\* A step out of a critical section, which unlocks the mutex.
LEMMA LeaveSection ==
  ASSUME Control, NEW t \in Thread, Unlock, pc[t] \in Critical,
         \E to \in Waiting \cup Outside : pc' = [pc EXCEPT ![t] = to]
  PROVE  MutualExclusion'
<1>1. m_mutex = t
  BY DEF Control, MutualExclusion
<1>2. \A u \in Thread : u # t => pc[u] \notin Critical
  BY <1>1 DEF Control, MutualExclusion
<1>3. \A u \in Thread : pc'[u] \notin Critical
  BY <1>2 DEF Control, TypeOK, Waiting, Critical, Outside
<1> QED
  BY <1>3, ThreadAssumption DEF Unlock, MutualExclusion

\* A step into a critical section, which takes the free mutex.
LEMMA EnterSection ==
  ASSUME Control, NEW t \in Thread, NEW from, NEW to \in Critical, LockAt(t, from, to)
  PROVE  MutualExclusion'
<1>1. \A u \in Thread : pc[u] \notin Critical
  BY ThreadAssumption DEF Control, MutualExclusion, LockAt
<1> QED
  BY <1>1 DEF LockAt, Goto, Control, TypeOK, MutualExclusion

LEMMA MutexStep == Control /\ [Next]_vars => MutualExclusion'
<1> SUFFICES ASSUME Control, [Next]_vars PROVE MutualExclusion'
  OBVIOUS
<1> USE DEF Waiting, Critical, Outside
<1>1. ASSUME NEW t \in Thread, Lock(t) PROVE MutualExclusion'
  BY <1>1, EnterSection DEF Lock
<1>2. ASSUME NEW t \in Thread,
             \/ CallAcquireOne(t) \/ AcquireOneAllocate(t) \/ AcquireOneThrows(t)
             \/ CallReleaseOne(t) \/ CallAvailable(t) \/ ReleaseReset(t)
             \/ \E count \in Counts : CallAcquire(t, count) \/ CallRelease(t, count)
      PROVE  MutualExclusion'
  BY <1>2, StayOutside
     DEF CallAcquireOne, AcquireOneAllocate, AcquireOneThrows, CallReleaseOne, CallAvailable,
         ReleaseReset, CallAcquire, CallRelease, Goto
<1>3. ASSUME NEW t \in Thread,
             AcquireOneBadAlloc(t) \/ AcquireOneConstruct(t) \/ AcquireBadAlloc(t) \/ AcquireAllocate(t)
      PROVE  MutualExclusion'
  BY <1>3, StayOutside
     DEF AcquireOneBadAlloc, AcquireOneConstruct, AcquireBadAlloc, AcquireAllocate, NumNodes, NumBlocks, Goto, Return
<1>4. ASSUME NEW t \in Thread,
             AcquireOnePop(t) \/ AcquireOneSplice(t) \/ ReleasePush(t) \/ AvailableRead(t)
      PROVE  MutualExclusion'
  BY <1>4, LeaveSection
     DEF AcquireOnePop, AcquireOneSplice, Spliced, Counted, ReleasePush, AvailableRead, Goto
<1>5. ASSUME NEW t \in Thread, AcquireTakeAll(t) \/ AcquireTakeSome(t) \/ AcquireSplice(t)
      PROVE  MutualExclusion'
  BY <1>5, LeaveSection DEF AcquireTakeAll, AcquireTakeSome, AcquireSplice, Spliced, Counted, Return
<1>6. CASE \E t \in Thread : Use(t) \/ \E u \in Thread : Give(t, u)
  BY <1>6 DEF Use, Give, Control, MutualExclusion
<1>7. CASE UNCHANGED vars
  BY <1>7 DEF vars, Control, MutualExclusion
<1> QED
  BY <1>1, <1>2, <1>3, <1>4, <1>5, <1>6, <1>7 DEF Next, Step, Call, AcquireOneStep, AcquireStep

-----------------------------------------------------------------------------
(* The locals of the calls                                                 *)

\* A step of t only changes the control and the locals of t.
LEMMA OnlyCaller ==
  ASSUME CallLocals, NEW t \in Thread, LocalsOf(t)',
         \A u \in Thread \ {t} :
           /\ pc'[u] = pc[u] /\ need'[u] = need[u] /\ numBlocks'[u] = numBlocks[u]
           /\ other'[u] = other[u] /\ alloc'[u] = alloc[u]
  PROVE  CallLocals'
BY DEF CallLocals, LocalsOf

\* A call that ends leaves its locals empty.
LEMMA ReturnLocals ==
  ASSUME Control, NEW t \in Thread, NEW q, Return(t, q),
         alloc'[t] = << >> /\ numBlocks'[t] = 0,
         \A u \in Thread \ {t} : alloc'[u] = alloc[u] /\ numBlocks'[u] = numBlocks[u]
  PROVE  CallLocals'
<1>1. /\ pc'[t] = "idle" /\ need'[t] = 0 /\ other'[t] = << >>
      /\ \A u \in Thread \ {t} : pc'[u] = pc[u] /\ need'[u] = need[u] /\ other'[u] = other[u]
  BY DEF Return, Control, TypeOK
<1>2. LocalsOf(t)'
  BY <1>1 DEF LocalsOf, Splicing
<1> QED
  BY <1>1, <1>2, OnlyCaller DEF Control

LEMMA LocalsStep == Control /\ [Next]_vars => CallLocals'
<1> SUFFICES ASSUME Control, [Next]_vars PROVE CallLocals'
  OBVIOUS
<1>0. TypeOK /\ CallLocals
  BY DEF Control
<1>c. BlockSize \in Nat /\ BlockSize > 0
  BY SizeAssumption
<1>1. ASSUME NEW t \in Thread,
             \/ CallAcquireOne(t) \/ CallAvailable(t) \/ Lock(t)
             \/ ReleaseReset(t) \/ AcquireOneThrows(t) \/ AvailableRead(t)
             \/ \E count \in Counts : CallAcquire(t, count)
      PROVE  CallLocals'
  <2>1. LocalsOf(t)'
    BY <1>1, <1>0
       DEF CallAcquireOne, CallAvailable, Lock, LockAt, ReleaseReset, AcquireOneThrows, AvailableRead,
           CallAcquire, Goto, locals, TypeOK, CallLocals, LocalsOf, Splicing
  <2> QED
    BY <1>1, <1>0, <2>1, OnlyCaller
       DEF CallAcquireOne, CallAvailable, Lock, LockAt, ReleaseReset, AcquireOneThrows, AvailableRead,
           CallAcquire, Goto, locals, TypeOK
<1>2. ASSUME NEW t \in Thread, AcquireOnePop(t) PROVE CallLocals'
  <2>1. m_stack \in Seq(Nat) /\ Len(m_stack) \in Nat /\ (m_stack # << >> => 1 <= Len(m_stack))
    BY <1>0, EmptySeq DEF TypeOK
  <2>2. m_stack # << >> => Len(Popped(m_stack, 1)) = 1
    BY <2>1, PopLengths
  <2>3. m_stack = << >> => Popped(m_stack, 1) = << >>
    BY <2>1, PopLengths
  <2>4. LocalsOf(t)'
    BY <1>2, <1>0, <2>2, <2>3 DEF AcquireOnePop, Goto, TypeOK, CallLocals, LocalsOf, Splicing
  <2> QED
    BY <1>2, <1>0, <2>4, OnlyCaller DEF AcquireOnePop, Goto, TypeOK
<1>3. ASSUME NEW t \in Thread, AcquireOneAllocate(t) PROVE CallLocals'
  <2> DEFINE fresh == Fresh(created, BlockSize)
  <2>1. fresh \in Seq(Nat) /\ Len(fresh) = BlockSize
    BY <1>0, <1>c, FreshNodes DEF TypeOK
  <2>2. other' = [other EXCEPT ![t] = Popped(fresh, 1)]
    BY <1>3 DEF AcquireOneAllocate
  <2> HIDE DEF fresh
  <2>a. fresh \in Seq(Nat) /\ 1 <= Len(fresh) /\ 1 \in Nat
    BY <2>1, <1>c
  <2>3. Len(Popped(fresh, 1)) = 1
    BY <2>a, PopLengths, Zenon
  <2>4. LocalsOf(t)'
    BY <1>3, <1>0, <2>2, <2>3 DEF AcquireOneAllocate, Goto, TypeOK, CallLocals, LocalsOf, Splicing
  <2> QED
    BY <1>3, <1>0, <2>2, <2>4, OnlyCaller DEF AcquireOneAllocate, Goto, TypeOK
<1>4. ASSUME NEW t \in Thread, AcquireOneSplice(t) PROVE CallLocals'
  <2>1. LocalsOf(t)'
    BY <1>4, <1>0 DEF AcquireOneSplice, Spliced, Counted, Goto, TypeOK, CallLocals, LocalsOf, Splicing
  <2> QED
    BY <1>4, <1>0, <2>1, OnlyCaller DEF AcquireOneSplice, Spliced, Counted, Goto, TypeOK
<1>5. ASSUME NEW t \in Thread,
             AcquireOneBadAlloc(t) \/ AcquireOneConstruct(t) \/ AcquireTakeSome(t) \/ AcquireSplice(t)
      PROVE  CallLocals'
  <2>1. /\ alloc'[t] = << >> /\ numBlocks'[t] = 0
        /\ \A u \in Thread \ {t} : alloc'[u] = alloc[u] /\ numBlocks'[u] = numBlocks[u]
    BY <1>5, <1>0
       DEF AcquireOneBadAlloc, AcquireOneConstruct, AcquireTakeSome, AcquireSplice, Spliced, Counted,
           TypeOK, CallLocals, LocalsOf, Splicing
  <2> QED
    BY <1>5, <2>1, ReturnLocals
       DEF AcquireOneBadAlloc, AcquireOneConstruct, AcquireTakeSome, AcquireSplice, Spliced, Counted
<1>6. ASSUME NEW t \in Thread, AcquireTakeAll(t) PROVE CallLocals'
  <2>1. /\ alloc'[t] = << >> /\ numBlocks'[t] = 0
        /\ \A u \in Thread \ {t} : alloc'[u] = alloc[u] /\ numBlocks'[u] = numBlocks[u]
    BY <1>6, <1>0 DEF AcquireTakeAll, TypeOK, CallLocals, LocalsOf, Splicing
  <2>2. CASE need[t] > Len(m_stack)
    <3>1. LocalsOf(t)'
      BY <1>6, <2>1, <2>2, <1>0 DEF AcquireTakeAll, TypeOK, LocalsOf, Splicing
    <3> QED
      BY <1>6, <2>1, <2>2, <1>0, <3>1, OnlyCaller DEF AcquireTakeAll, TypeOK
  <2>3. CASE ~(need[t] > Len(m_stack))
    BY <1>6, <2>1, <2>3, ReturnLocals DEF AcquireTakeAll
  <2> QED
    BY <2>2, <2>3
<1>7. ASSUME NEW t \in Thread, AcquireAllocate(t) PROVE CallLocals'
  <2> DEFINE numNodes == need[t] - Len(other[t])
             blocks == numNodes \div BlockSize + 1
             fresh == Fresh(created, blocks * BlockSize)
  <2>1. numNodes \in Nat /\ Len(other[t]) + numNodes = need[t] /\ other[t] \in Seq(Nat)
    <3>1. pc[t] = "acq_alloc"
      BY <1>7 DEF AcquireAllocate, NumNodes, NumBlocks, Goto
    <3>2. Len(other[t]) < need[t]
      BY <3>1, <1>0 DEF CallLocals, LocalsOf
    <3>3. other[t] \in Seq(Nat) /\ Len(other[t]) \in Nat /\ need[t] \in Nat
      BY <1>0 DEF TypeOK
    <3> QED
      BY <3>2, <3>3
  <2>2. other' = [other EXCEPT ![t] = Popped(fresh, numNodes) \o @]
    BY <1>7 DEF AcquireAllocate, NumNodes, NumBlocks
  <2> HIDE DEF numNodes
  <2>3. blocks \in Nat /\ blocks * BlockSize \in Nat /\ blocks * BlockSize > numNodes
    BY <2>1, AcquireAllocateSizes
  <2> HIDE DEF blocks
  <2>4. fresh \in Seq(Nat) /\ Len(fresh) = blocks * BlockSize
    BY <1>0, <2>3, FreshNodes DEF TypeOK
  <2> HIDE DEF fresh
  <2>5. Popped(fresh, numNodes) \in Seq(Nat) /\ Len(Popped(fresh, numNodes)) = numNodes
    BY <2>1, <2>3, <2>4, PopParts, PopLengths
  <2>a. Len(Popped(fresh, numNodes) \o other[t]) = Len(Popped(fresh, numNodes)) + Len(other[t])
    BY <2>1, <2>5, ConcatProperties, Zenon
  <2>6. Len(Popped(fresh, numNodes) \o other[t]) = need[t]
    BY <2>1, <2>5, <2>a
  <2>7. Len(other'[t]) = need[t]
    BY <2>2, <2>6, <1>0, Zenon DEF TypeOK
  <2>8. LocalsOf(t)'
    BY <1>7, <1>0, <2>7 DEF AcquireAllocate, NumNodes, NumBlocks, Goto, TypeOK, LocalsOf, Splicing
  <2>9. \A u \in Thread \ {t} : other'[u] = other[u]
    BY <2>2, <1>0, Zenon DEF TypeOK
  <2> QED
    BY <1>7, <1>0, <2>8, <2>9, OnlyCaller DEF AcquireAllocate, NumNodes, NumBlocks, Goto, TypeOK
<1>8. ASSUME NEW t \in Thread, AcquireBadAlloc(t) PROVE CallLocals'
  <2>1. LocalsOf(t)'
    BY <1>8, <1>0 DEF AcquireBadAlloc, TypeOK, CallLocals, LocalsOf, Splicing
  <2> QED
    BY <1>8, <1>0, <2>1, OnlyCaller DEF AcquireBadAlloc, TypeOK
<1>9. ASSUME NEW t \in Thread,
             \/ CallReleaseOne(t) \/ ReleasePush(t)
             \/ \E count \in Counts : CallRelease(t, count)
      PROVE  CallLocals'
  <2>1. LocalsOf(t)'
    BY <1>9, <1>0
       DEF CallReleaseOne, ReleasePush, CallRelease, Goto, TypeOK, CallLocals, LocalsOf, Splicing
  <2> QED
    BY <1>9, <1>0, <2>1, OnlyCaller DEF CallReleaseOne, ReleasePush, CallRelease, Goto, TypeOK
<1>10. CASE \E t \in Thread : Use(t) \/ \E u \in Thread : Give(t, u)
  BY <1>10, <1>0, ZenonT(40) DEF Use, Give, locals, CallLocals, LocalsOf
<1>11. CASE UNCHANGED vars
  BY <1>11, <1>0 DEF vars, locals, CallLocals, LocalsOf
<1> QED
  BY <1>1, <1>2, <1>3, <1>4, <1>5, <1>6, <1>7, <1>8, <1>9, <1>10, <1>11
     DEF Next, Step, Call, AcquireOneStep, AcquireStep

-----------------------------------------------------------------------------

\* Control is the inductive invariant behind the three theorems below.
LEMMA ControlInvariant == Spec => []Control
<1>1. Control /\ [Next]_vars => Control'
  BY TypeStep, MutexStep, LocalsStep DEF Control
<1> QED
  BY ControlInit, <1>1, PTL DEF Spec

\* Every variable of the pool and of its calls keeps its type, whatever the block
\* size, the counts and the number of threads; in particular the unsigned
\* count - other.size() of acquire never goes below zero.
THEOREM TypeCorrect == Spec => []TypeOK
<1>1. Control => TypeOK
  BY DEF Control
<1> QED
  BY ControlInvariant, <1>1, PTL

\* A thread is inside a critical section of the pool exactly while it holds m_mutex.
THEOREM MutexSafe == Spec => []MutualExclusion
<1>1. Control => MutualExclusion
  BY DEF Control
<1> QED
  BY ControlInvariant, <1>1, PTL

\* At each step of acquireOne, acquire and release, the handle in the call's locals
\* has the nodes it must: the missing ones exactly are taken from the fresh blocks.
THEOREM LocalsCorrect == Spec => []CallLocals
<1>1. Control => CallLocals
  BY DEF Control
<1> QED
  BY ControlInvariant, <1>1, PTL

=============================================================================
