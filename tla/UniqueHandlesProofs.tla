-------------------------- MODULE UniqueHandlesProofs --------------------------
(***************************************************************************)
(* Proofs about UniqueHandles: for a client that keeps to TidySpec, every   *)
(* node has exactly one owner and goes back to the pool it came from,       *)
(* whatever the pools, the nodes and the variables are.                     *)
(***************************************************************************)
EXTENDS UniqueHandles, FiniteSetTheorems, TLAPS

\* The type of the variables, without the bound on the nodes of a UniqueNode.
Types ==
  /\ free \in [Pool -> SUBSET Node]
  /\ handle \in [Var -> [pool : Pool \cup {NoPool}, nodes : SUBSET Node]]
  /\ raw \subseteq Node

LEMMA HandleParts ==
  ASSUME Types, NEW v \in Var
  PROVE  /\ Nodes(v) \in SUBSET Node /\ PoolOf(v) \in Pool \cup {NoPool}
         /\ handle[v] = [pool |-> PoolOf(v), nodes |-> Nodes(v)]
BY DEF Types, Nodes, PoolOf

\* What each kind of update of the handles does to each handle.
LEMMA OneUpdate ==
  ASSUME Types, NEW v \in Var, NEW p \in Pool \cup {NoPool}, NEW S \in SUBSET Node,
         handle' = [handle EXCEPT ![v] = [pool |-> p, nodes |-> S]]
  PROVE  /\ handle' \in [Var -> [pool : Pool \cup {NoPool}, nodes : SUBSET Node]]
         /\ Nodes(v)' = S /\ PoolOf(v)' = p
         /\ \A w \in Var \ {v} : Nodes(w)' = Nodes(w) /\ PoolOf(w)' = PoolOf(w)
BY DEF Types, Nodes, PoolOf

LEMMA NodesUpdate ==
  ASSUME Types, NEW v \in Var, NEW S \in SUBSET Node,
         handle' = [handle EXCEPT ![v].nodes = S]
  PROVE  /\ handle' \in [Var -> [pool : Pool \cup {NoPool}, nodes : SUBSET Node]]
         /\ Nodes(v)' = S /\ PoolOf(v)' = PoolOf(v)
         /\ \A w \in Var \ {v} : Nodes(w)' = Nodes(w) /\ PoolOf(w)' = PoolOf(w)
BY DEF Types, Nodes, PoolOf

LEMMA TwoNodesUpdate ==
  ASSUME Types, NEW v \in Var, NEW w \in Var, v # w,
         NEW S \in SUBSET Node, NEW T \in SUBSET Node,
         handle' = [handle EXCEPT ![v].nodes = S, ![w].nodes = T]
  PROVE  /\ handle' \in [Var -> [pool : Pool \cup {NoPool}, nodes : SUBSET Node]]
         /\ Nodes(v)' = S /\ Nodes(w)' = T
         /\ PoolOf(v)' = PoolOf(v) /\ PoolOf(w)' = PoolOf(w)
         /\ \A x \in Var \ {v, w} : Nodes(x)' = Nodes(x) /\ PoolOf(x)' = PoolOf(x)
BY DEF Types, Nodes, PoolOf

LEMMA CreateUpdate ==
  ASSUME Types, NEW v \in Var, NEW w \in Var, v # w, NEW p \in Pool \cup {NoPool},
         NEW S \in SUBSET Node, NEW T \in SUBSET Node,
         handle' = [handle EXCEPT ![w] = [pool |-> p, nodes |-> S], ![v].nodes = T]
  PROVE  /\ handle' \in [Var -> [pool : Pool \cup {NoPool}, nodes : SUBSET Node]]
         /\ Nodes(w)' = S /\ PoolOf(w)' = p
         /\ Nodes(v)' = T /\ PoolOf(v)' = PoolOf(v)
         /\ \A x \in Var \ {v, w} : Nodes(x)' = Nodes(x) /\ PoolOf(x)' = PoolOf(x)
BY DEF Types, Nodes, PoolOf
-----------------------------------------------------------------------------
(* The inductive invariant.  A node goes home because every handle refers  *)
(* to the home of its nodes.                                               *)

OwnNodes == \A v \in Var : \A n \in Nodes(v) : Home[n] = PoolOf(v)

Custody ==
  /\ Types
  /\ OneOwner
  /\ NoLeak
  /\ HomeAgain
  /\ OwnNodes

\* The nodes of the places an operation on v and w and on the pool p can change.
Around(v, w, p) == Nodes(v) \cup Nodes(w) \cup free[p] \cup raw

LEMMA KeepsCustody ==
  ASSUME Custody, Types', NEW v \in Var, NEW w \in Var, NEW p \in Pool,
         \A x \in Var \ {v, w} : Nodes(x)' = Nodes(x) /\ PoolOf(x)' = PoolOf(x),
         \A r \in Pool \ {p} : free'[r] = free[r],
         Around(v, w, p)' = Around(v, w, p),
         v # w => Nodes(v)' \cap Nodes(w)' = {},
         \A x \in {v, w} : /\ Nodes(x)' \cap (free'[p] \cup raw') = {}
                           /\ \A n \in Nodes(x)' : Home[n] = PoolOf(x)',
         free'[p] \cap raw' = {},
         \A n \in free'[p] : Home[n] = p
  PROVE  Custody'
<1>0. Types /\ OneOwner /\ NoLeak /\ HomeAgain /\ OwnNodes
  BY DEF Custody
<1>1. \A x \in Var \ {v, w} : Nodes(x) \cap Around(v, w, p) = {}
  BY <1>0 DEF OneOwner, Around
<1>2. \A r \in Pool \ {p} : free[r] \cap Around(v, w, p) = {}
  BY <1>0 DEF OneOwner, Around
<1>3. Around(v, w, p)' = Nodes(v)' \cup Nodes(w)' \cup free'[p] \cup raw'
  BY DEF Around
<1>4. OneOwner'
  <2>1. ASSUME NEW x \in Var, NEW y \in Var, x # y
        PROVE  Nodes(x)' \cap Nodes(y)' = {}
    <3>1. CASE x \in {v, w} /\ y \in {v, w}
      BY <2>1, <3>1
    <3>2. CASE x \in {v, w} /\ y \notin {v, w}
      BY <1>1, <1>3, <3>2
    <3>3. CASE x \notin {v, w} /\ y \in {v, w}
      BY <1>1, <1>3, <3>3
    <3>4. CASE x \notin {v, w} /\ y \notin {v, w}
      BY <1>0, <2>1, <3>4 DEF OneOwner
    <3> QED
      BY <3>1, <3>2, <3>3, <3>4
  <2>2. ASSUME NEW r \in Pool, NEW x \in Var
        PROVE  free'[r] \cap Nodes(x)' = {}
    <3>1. CASE r = p /\ x \in {v, w}
      BY <3>1
    <3>2. CASE r = p /\ x \notin {v, w}
      BY <1>1, <1>3, <3>2
    <3>3. CASE r # p /\ x \in {v, w}
      BY <1>2, <1>3, <3>3
    <3>4. CASE r # p /\ x \notin {v, w}
      BY <1>0, <3>4 DEF OneOwner
    <3> QED
      BY <3>1, <3>2, <3>3, <3>4
  <2>3. ASSUME NEW r \in Pool
        PROVE  free'[r] \cap raw' = {}
    BY <1>2, <1>3
  <2>4. ASSUME NEW q \in Pool, NEW r \in Pool, q # r
        PROVE  free'[q] \cap free'[r] = {}
    <3>1. CASE q # p /\ r # p
      BY <1>0, <2>4, <3>1 DEF OneOwner
    <3>2. CASE q = p \/ r = p
      BY <1>2, <1>3, <2>4, <3>2
    <3> QED
      BY <3>1, <3>2
  <2>5. ASSUME NEW x \in Var
        PROVE  Nodes(x)' \cap raw' = {}
    <3>1. CASE x \in {v, w}
      BY <3>1
    <3>2. CASE x \notin {v, w}
      BY <1>1, <1>3, <3>2
    <3> QED
      BY <3>1, <3>2
  <2> QED
    BY <2>1, <2>2, <2>3, <2>4, <2>5, Zenon DEF OneOwner
<1>5. NoLeak'
  <2> SUFFICES ASSUME NEW n \in Node
               PROVE  \/ \E r \in Pool : n \in free'[r]
                      \/ \E x \in Var : n \in Nodes(x)'
                      \/ n \in raw'
    BY Zenon DEF NoLeak
  <2>1. CASE n \in Around(v, w, p)
    BY <1>3, <2>1
  <2>2. CASE n \notin Around(v, w, p)
    <3>1. n \notin raw /\ n \notin free[p] /\ n \notin Nodes(v) /\ n \notin Nodes(w)
      BY <2>2 DEF Around
    <3>2. (\E r \in Pool : n \in free[r]) \/ (\E x \in Var : n \in Nodes(x)) \/ n \in raw
      BY <1>0, Zenon DEF NoLeak
    <3> QED
      BY <3>1, <3>2
  <2> QED
    BY <2>1, <2>2
<1>6. HomeAgain'
  BY <1>0 DEF HomeAgain
<1>7. OwnNodes'
  BY <1>0 DEF OwnNodes
<1> QED
  BY <1>4, <1>5, <1>6, <1>7 DEF Custody

-----------------------------------------------------------------------------
(* Every operation keeps the invariant.                                    *)

LEMMA Facts ==
  ASSUME Custody, NEW v \in Var
  PROVE  /\ Types
         /\ Alive(v) => PoolOf(v) \in Pool
         /\ ~Alive(v) => Nodes(v) = {} /\ PoolOf(v) = NoPool
         /\ Nodes(v) \in SUBSET Node
         /\ \A n \in Nodes(v) : Home[n] = PoolOf(v)
<1>1. Types /\ OwnNodes
  BY DEF Custody
<1>2. Nodes(v) \in SUBSET Node /\ PoolOf(v) \in Pool \cup {NoPool}
  BY <1>1, HandleParts
<1>3. Alive(v) <=> PoolOf(v) # NoPool
  BY DEF Alive, PoolOf
<1>4. \A n \in Nodes(v) : Home[n] = PoolOf(v)
  BY <1>1 DEF OwnNodes
<1>5. ~Alive(v) => Nodes(v) = {}
  BY <1>2, <1>3, <1>4, PoolAssumption
<1> QED
  BY <1>1, <1>2, <1>3, <1>4, <1>5

\* What OneOwner and HomeAgain say of the places around two variables and a pool.
LEMMA Apart ==
  ASSUME Custody, NEW v \in Var, NEW w \in Var, NEW p \in Pool
  PROVE  /\ v # w => Nodes(v) \cap Nodes(w) = {}
         /\ Nodes(v) \cap (free[p] \cup raw) = {}
         /\ Nodes(w) \cap (free[p] \cup raw) = {}
         /\ free[p] \cap raw = {}
         /\ \A n \in free[p] : Home[n] = p
         /\ free[p] \in SUBSET Node
<1>1. Types /\ OneOwner /\ HomeAgain
  BY DEF Custody
<1>2. free[p] \in SUBSET Node
  BY <1>1 DEF Types
<1>3. \A n \in free[p] : Home[n] = p
  BY <1>1, <1>2 DEF HomeAgain
<1> QED
  BY <1>1, <1>2, <1>3 DEF OneOwner

LEMMA ConstructStep ==
  ASSUME Custody, NEW v \in Var, NEW p \in Pool, Construct(v, p)
  PROVE  Custody'
<1>1. /\ Types /\ Nodes(v) = {}
  BY Facts DEF Construct
<1>2. /\ handle' \in [Var -> [pool : Pool \cup {NoPool}, nodes : SUBSET Node]]
      /\ Nodes(v)' = {} /\ PoolOf(v)' = p
      /\ \A x \in Var \ {v} : Nodes(x)' = Nodes(x) /\ PoolOf(x)' = PoolOf(x)
  BY <1>1 DEF Construct, Types, Nodes, PoolOf
<1>3. free' = free /\ raw' = raw
  BY DEF Construct
<1>4. Types'
  BY <1>1, <1>2, <1>3 DEF Types
<1>5. Around(v, v, p)' = Around(v, v, p)
  BY <1>1, <1>2, <1>3 DEF Around
<1> QED
  BY <1>1, <1>2, <1>3, <1>4, <1>5, Apart, KeepsCustody

LEMMA AcquireStep ==
  ASSUME Custody, NEW v \in Var, NEW p \in Pool, NEW count \in Counts, Acquire(v, p, count)
  PROVE  Custody'
<1>1. PICK S \in SUBSET free[p] :
        /\ free' = [free EXCEPT ![p] = @ \ S]
        /\ handle' = [handle EXCEPT ![v] = [pool |-> p, nodes |-> S]]
  BY DEF Acquire
<1>2. /\ Types /\ Nodes(v) = {} /\ raw' = raw
  BY Facts DEF Acquire
<1>3. S \in SUBSET Node
  BY <1>2 DEF Types
<1>4. /\ handle' \in [Var -> [pool : Pool \cup {NoPool}, nodes : SUBSET Node]]
      /\ Nodes(v)' = S /\ PoolOf(v)' = p
      /\ \A x \in Var \ {v} : Nodes(x)' = Nodes(x) /\ PoolOf(x)' = PoolOf(x)
  BY <1>1, <1>2, <1>3, OneUpdate
<1>5. /\ free' \in [Pool -> SUBSET Node] /\ free'[p] = free[p] \ S
      /\ \A r \in Pool \ {p} : free'[r] = free[r]
  BY <1>1, <1>2 DEF Types
<1>6. Types'
  BY <1>2, <1>4, <1>5 DEF Types
<1>7. Around(v, v, p)' = Around(v, v, p)
  BY <1>1, <1>2, <1>4, <1>5 DEF Around
<1> QED
  BY <1>1, <1>2, <1>4, <1>5, <1>6, <1>7, Apart, KeepsCustody

LEMMA MoveToStep ==
  ASSUME Custody, NEW v \in Var, NEW w \in Var, MoveTo(v, w)
  PROVE  Custody'
<1>1. /\ Types /\ PoolOf(v) \in Pool /\ Nodes(w) = {} /\ v # w
      /\ Nodes(v) \in SUBSET Node /\ \A n \in Nodes(v) : Home[n] = PoolOf(v)
  BY Facts DEF MoveTo
<1>2. handle' = [handle EXCEPT ![w] = [pool |-> PoolOf(v), nodes |-> Nodes(v)], ![v].nodes = {}]
  BY <1>1, HandleParts DEF MoveTo
<1>3. /\ handle' \in [Var -> [pool : Pool \cup {NoPool}, nodes : SUBSET Node]]
      /\ Nodes(w)' = Nodes(v) /\ PoolOf(w)' = PoolOf(v)
      /\ Nodes(v)' = {} /\ PoolOf(v)' = PoolOf(v)
      /\ \A x \in Var \ {v, w} : Nodes(x)' = Nodes(x) /\ PoolOf(x)' = PoolOf(x)
  BY <1>1, <1>2, CreateUpdate
<1>4. free' = free /\ raw' = raw
  BY DEF MoveTo
<1>5. Types'
  BY <1>1, <1>3, <1>4 DEF Types
<1>6. Around(v, w, PoolOf(v))' = Around(v, w, PoolOf(v))
  <2>1. PoolOf(v)' = PoolOf(v) /\ free'[PoolOf(v)] = free[PoolOf(v)]
    BY <1>3, <1>4
  <2> QED
    BY <1>1, <1>3, <1>4, <2>1 DEF Around
<1> QED
  BY <1>1, <1>3, <1>4, <1>5, <1>6, Apart, KeepsCustody

LEMMA PopToStep ==
  ASSUME Custody, NEW v \in Var, NEW w \in Var, NEW count \in Counts, PopTo(v, w, count)
  PROVE  Custody'
<1>1. /\ Types /\ PoolOf(v) \in Pool /\ Nodes(w) = {} /\ v # w
      /\ Nodes(v) \in SUBSET Node /\ \A n \in Nodes(v) : Home[n] = PoolOf(v)
  BY Facts DEF PopTo
<1>2. PICK S \in SUBSET Nodes(v) :
        handle' = [handle EXCEPT ![w] = [pool |-> PoolOf(v), nodes |-> S], ![v].nodes = @ \ S]
  BY DEF PopTo
<1>3. handle' = [handle EXCEPT ![w] = [pool |-> PoolOf(v), nodes |-> S], ![v].nodes = Nodes(v) \ S]
  BY <1>1, <1>2 DEF Types, Nodes
<1>4. /\ handle' \in [Var -> [pool : Pool \cup {NoPool}, nodes : SUBSET Node]]
      /\ Nodes(w)' = S /\ PoolOf(w)' = PoolOf(v)
      /\ Nodes(v)' = Nodes(v) \ S /\ PoolOf(v)' = PoolOf(v)
      /\ \A x \in Var \ {v, w} : Nodes(x)' = Nodes(x) /\ PoolOf(x)' = PoolOf(x)
  <2>1. S \in SUBSET Node /\ Nodes(v) \ S \in SUBSET Node /\ PoolOf(v) \in Pool \cup {NoPool}
    BY <1>1
  <2> QED
    BY <1>1, <1>3, <2>1, CreateUpdate, Zenon
<1>5. free' = free /\ raw' = raw
  BY DEF PopTo
<1>6. Types'
  BY <1>1, <1>4, <1>5 DEF Types
<1>7. PICK p \in Pool : p = PoolOf(v)
  BY <1>1
<1>8. Around(v, w, p)' = Around(v, w, p)
  BY <1>1, <1>4, <1>5 DEF Around
<1> QED
  BY <1>1, <1>4, <1>5, <1>6, <1>7, <1>8, Apart, KeepsCustody

LEMMA WrapStep ==
  ASSUME Custody, NEW v \in Var, NEW p \in Pool, Wrap(v, p)
  PROVE  Custody'
<1>1. PICK S \in SUBSET raw :
        /\ \A n \in S : Home[n] = p
        /\ handle' = [handle EXCEPT ![v] = [pool |-> p, nodes |-> S]]
        /\ raw' = raw \ S
  BY DEF Wrap
<1>2. Types /\ Nodes(v) = {} /\ free' = free
  BY Facts DEF Wrap
<1>3. S \in SUBSET Node
  BY <1>2 DEF Types
<1>4. /\ handle' \in [Var -> [pool : Pool \cup {NoPool}, nodes : SUBSET Node]]
      /\ Nodes(v)' = S /\ PoolOf(v)' = p
      /\ \A x \in Var \ {v} : Nodes(x)' = Nodes(x) /\ PoolOf(x)' = PoolOf(x)
  BY <1>1, <1>2, <1>3, OneUpdate
<1>5. Types'
  BY <1>1, <1>2, <1>4 DEF Types
<1>6. Around(v, v, p)' = Around(v, v, p)
  BY <1>1, <1>2, <1>4 DEF Around
<1> QED
  BY <1>1, <1>2, <1>4, <1>5, <1>6, Apart, KeepsCustody

LEMMA GiveBackParts ==
  ASSUME Types, NEW v \in Var, NEW p \in Pool, p = PoolOf(v),
         NEW S \in SUBSET Node, GiveBack(v, S)
  PROVE  /\ free' \in [Pool -> SUBSET Node]
         /\ free'[p] = free[p] \cup S
         /\ \A r \in Pool \ {p} : free'[r] = free[r]
BY DEF GiveBack, Types

\* The pool's release of plain nodes: they go from raw to the free nodes of their home.
LEMMA ReleaseRawStep ==
  ASSUME Custody, NEW p \in Pool, ReleaseRaw(p)
  PROVE  Custody'
<1>1. Types /\ OneOwner /\ NoLeak /\ HomeAgain /\ OwnNodes
  BY DEF Custody
<1>2. PICK S \in SUBSET raw :
        /\ \A n \in S : Home[n] = p
        /\ free' = [free EXCEPT ![p] = @ \cup S]
        /\ raw' = raw \ S
  BY DEF ReleaseRaw
<1>3. handle' = handle
  BY DEF ReleaseRaw
<1>4. /\ free' \in [Pool -> SUBSET Node]
      /\ free'[p] = free[p] \cup S
      /\ \A r \in Pool \ {p} : free'[r] = free[r]
  BY <1>1, <1>2 DEF Types
<1>5. \A x \in Var : Nodes(x)' = Nodes(x) /\ PoolOf(x)' = PoolOf(x)
  BY <1>3 DEF Nodes, PoolOf
<1>6. Types'
  BY <1>1, <1>2, <1>3, <1>4 DEF Types
<1>7. OneOwner'
  <2>1. \A x, y \in Var : x # y => Nodes(x)' \cap Nodes(y)' = {}
    BY <1>1, <1>5 DEF OneOwner
  <2>2. \A r \in Pool, x \in Var : free'[r] \cap (Nodes(x)' \cup raw') = {}
    BY <1>1, <1>2, <1>4, <1>5 DEF OneOwner
  <2>3. \A q, r \in Pool : q # r => free'[q] \cap free'[r] = {}
    <3>1. \A r \in Pool : \A n \in free'[r] : Home[n] = r
      BY <1>1, <1>2, <1>4 DEF HomeAgain, Types
    <3> QED
      BY <3>1
  <2>4. \A x \in Var : Nodes(x)' \cap raw' = {}
    BY <1>1, <1>2, <1>5 DEF OneOwner
  <2> QED
    BY <2>1, <2>2, <2>3, <2>4, Zenon DEF OneOwner
<1>8. NoLeak'
  BY <1>1, <1>2, <1>4, <1>5 DEF NoLeak
<1>9. HomeAgain' /\ OwnNodes'
  BY <1>1, <1>2, <1>4, <1>5 DEF HomeAgain, OwnNodes
<1> QED
  BY <1>6, <1>7, <1>8, <1>9 DEF Custody

LEMMA ResetStep ==
  ASSUME Custody, NEW v \in Var, Reset(v) \/ Destroy(v)
  PROVE  Custody'
<1>1. /\ Types /\ PoolOf(v) \in Pool /\ Nodes(v) \in SUBSET Node
      /\ \A n \in Nodes(v) : Home[n] = PoolOf(v)
  BY Facts DEF Reset, Destroy
<1>2. PICK p \in Pool : p = PoolOf(v)
  BY <1>1
<1>3. /\ free' \in [Pool -> SUBSET Node]
      /\ free'[p] = free[p] \cup Nodes(v)
      /\ \A r \in Pool \ {p} : free'[r] = free[r]
      /\ raw' = raw
  BY <1>1, <1>2, GiveBackParts DEF Reset, Destroy
<1>4. /\ handle' \in [Var -> [pool : Pool \cup {NoPool}, nodes : SUBSET Node]]
      /\ Nodes(v)' = {}
      /\ \A x \in Var \ {v} : Nodes(x)' = Nodes(x) /\ PoolOf(x)' = PoolOf(x)
  <2>0. {} \in SUBSET Node /\ NoPool \in Pool \cup {NoPool}
    OBVIOUS
  <2>1. CASE handle' = [handle EXCEPT ![v].nodes = {}]
    BY <1>1, <2>0, <2>1, NodesUpdate, Zenon
  <2>2. CASE handle' = [handle EXCEPT ![v] = [pool |-> NoPool, nodes |-> {}]]
    BY <1>1, <2>0, <2>2, OneUpdate, Zenon
  <2> QED
    BY <2>1, <2>2 DEF Reset, Destroy, Nowhere
<1>5. Types'
  BY <1>1, <1>3, <1>4 DEF Types
<1>6. Around(v, v, p)' = Around(v, v, p)
  BY <1>3, <1>4 DEF Around
<1> QED
  BY <1>1, <1>2, <1>3, <1>4, <1>5, <1>6, Apart, KeepsCustody

LEMMA ResetToStep ==
  ASSUME Custody, NEW v \in Var, ResetTo(v)
  PROVE  Custody'
<1>1. /\ Types /\ PoolOf(v) \in Pool /\ Nodes(v) \in SUBSET Node
      /\ \A n \in Nodes(v) : Home[n] = PoolOf(v)
  BY Facts DEF ResetTo
<1>2. PICK p \in Pool : p = PoolOf(v)
  BY <1>1
<1>3. PICK S \in SUBSET raw :
        /\ \A n \in S : Home[n] = p
        /\ handle' = [handle EXCEPT ![v].nodes = S]
        /\ raw' = raw \ S
  BY <1>2 DEF ResetTo
<1>4. /\ free' \in [Pool -> SUBSET Node]
      /\ free'[p] = free[p] \cup Nodes(v)
      /\ \A r \in Pool \ {p} : free'[r] = free[r]
  BY <1>1, <1>2, GiveBackParts DEF ResetTo
<1>5. S \in SUBSET Node
  BY <1>1 DEF Types
<1>6. /\ handle' \in [Var -> [pool : Pool \cup {NoPool}, nodes : SUBSET Node]]
      /\ Nodes(v)' = S /\ PoolOf(v)' = p
      /\ \A x \in Var \ {v} : Nodes(x)' = Nodes(x) /\ PoolOf(x)' = PoolOf(x)
  BY <1>1, <1>2, <1>3, <1>5, NodesUpdate
<1>7. Types'
  BY <1>1, <1>3, <1>4, <1>6 DEF Types
<1>8. Around(v, v, p)' = Around(v, v, p)
  BY <1>3, <1>4, <1>6 DEF Around
<1> QED
  BY <1>1, <1>2, <1>3, <1>4, <1>6, <1>7, <1>8, Apart, KeepsCustody

\* What both assignments do to the handles.
LEMMA TakenOver ==
  ASSUME Types, NEW v \in Var, NEW w \in Var,
         handle' = [Emptied(w) EXCEPT ![v].nodes = Nodes(w)]
  PROVE  /\ handle' \in [Var -> [pool : Pool \cup {NoPool}, nodes : SUBSET Node]]
         /\ Nodes(v)' = Nodes(w) /\ (v # w => Nodes(w)' = {})
         /\ PoolOf(v)' = PoolOf(v) /\ PoolOf(w)' = PoolOf(w)
         /\ \A x \in Var \ {v, w} : Nodes(x)' = Nodes(x) /\ PoolOf(x)' = PoolOf(x)
BY DEF Types, Emptied, Nodes, PoolOf

\* The handle assigned to owns nothing when w's nodes are taken out of itself.
LEMMA EmptiedNodes ==
  ASSUME Types, NEW v \in Var, NEW w \in Var
  PROVE  Emptied(w)[v].nodes = IF v = w THEN {} ELSE Nodes(v)
BY DEF Types, Emptied, Nodes

LEMMA AssignNodeStep ==
  ASSUME Custody, NEW v \in Var, NEW w \in Var, PoolOf(v) = PoolOf(w),
         AssignNode(v, w), v = w \/ Nodes(v) = {}
  PROVE  Custody'
<1>1. /\ Types /\ PoolOf(v) \in Pool /\ Nodes(w) \in SUBSET Node
      /\ \A n \in Nodes(w) : Home[n] = PoolOf(v)
  BY Facts DEF AssignNode
<1>2. PICK p \in Pool : p = PoolOf(v)
  BY <1>1
<1>3. free' = free /\ raw' = raw
  BY DEF AssignNode
<1>4. /\ handle' \in [Var -> [pool : Pool \cup {NoPool}, nodes : SUBSET Node]]
      /\ Nodes(v)' = Nodes(w) /\ (v # w => Nodes(w)' = {})
      /\ PoolOf(v)' = p /\ PoolOf(w)' = p
      /\ \A x \in Var \ {v, w} : Nodes(x)' = Nodes(x) /\ PoolOf(x)' = PoolOf(x)
  BY <1>1, <1>2, TakenOver, Zenon DEF AssignNode
<1>5. Types'
  BY <1>1, <1>3, <1>4 DEF Types
<1>6. Around(v, w, p)' = Around(v, w, p)
  BY <1>3, <1>4 DEF Around
<1> QED
  BY <1>1, <1>2, <1>3, <1>4, <1>5, <1>6, Apart, KeepsCustody

LEMMA AssignStackStep ==
  ASSUME Custody, NEW v \in Var, NEW w \in Var, PoolOf(v) = PoolOf(w), AssignStack(v, w)
  PROVE  Custody'
<1>1. /\ Types /\ PoolOf(v) \in Pool
      /\ Nodes(v) \in SUBSET Node /\ Nodes(w) \in SUBSET Node
      /\ \A n \in Nodes(v) \cup Nodes(w) : Home[n] = PoolOf(v)
  BY Facts DEF AssignStack
<1>2. PICK p \in Pool : p = PoolOf(v)
  BY <1>1
<1>3. raw' = raw
  BY DEF AssignStack
<1>4. PICK S \in SUBSET Node : S = IF v = w THEN {} ELSE Nodes(v)
  BY <1>1
<1>5. /\ free' \in [Pool -> SUBSET Node]
      /\ free'[p] = free[p] \cup S
      /\ \A r \in Pool \ {p} : free'[r] = free[r]
  <2>1. GiveBack(v, S)
    BY <1>1, <1>4, EmptiedNodes DEF AssignStack
  <2>2. Types /\ p = PoolOf(v)
    BY <1>1, <1>2
  <2> QED
    BY <2>1, <2>2, GiveBackParts
<1>6. /\ handle' \in [Var -> [pool : Pool \cup {NoPool}, nodes : SUBSET Node]]
      /\ Nodes(v)' = Nodes(w) /\ (v # w => Nodes(w)' = {})
      /\ PoolOf(v)' = p /\ PoolOf(w)' = p
      /\ \A x \in Var \ {v, w} : Nodes(x)' = Nodes(x) /\ PoolOf(x)' = PoolOf(x)
  BY <1>1, <1>2, TakenOver, Zenon DEF AssignStack
<1>7. Types'
  BY <1>1, <1>3, <1>5, <1>6 DEF Types
<1>8. Around(v, w, p)' = Around(v, w, p)
  BY <1>3, <1>4, <1>5, <1>6 DEF Around
<1> QED
  BY <1>1, <1>2, <1>3, <1>4, <1>5, <1>6, <1>7, <1>8, Apart, KeepsCustody

\* Swap and Push: the nodes of two handles of one pool go to the two handles.
LEMMA BetweenStep ==
  ASSUME Custody, NEW v \in Var, NEW w \in Var, v # w, PoolOf(v) = PoolOf(w), Alive(v),
         NEW S \in SUBSET Node, NEW T \in SUBSET Node,
         S \cap T = {}, S \cup T = Nodes(v) \cup Nodes(w),
         handle' = [handle EXCEPT ![v].nodes = S, ![w].nodes = T],
         free' = free, raw' = raw
  PROVE  Custody'
<1>1. /\ Types /\ PoolOf(v) \in Pool
      /\ \A n \in Nodes(v) \cup Nodes(w) : Home[n] = PoolOf(v)
  BY Facts
<1>2. PICK p \in Pool : p = PoolOf(v)
  BY <1>1
<1>3. /\ handle' \in [Var -> [pool : Pool \cup {NoPool}, nodes : SUBSET Node]]
      /\ Nodes(v)' = S /\ Nodes(w)' = T
      /\ PoolOf(v)' = p /\ PoolOf(w)' = p
      /\ \A x \in Var \ {v, w} : Nodes(x)' = Nodes(x) /\ PoolOf(x)' = PoolOf(x)
  <2>1. /\ handle' \in [Var -> [pool : Pool \cup {NoPool}, nodes : SUBSET Node]]
        /\ Nodes(v)' = S /\ Nodes(w)' = T
        /\ PoolOf(v)' = PoolOf(v) /\ PoolOf(w)' = PoolOf(w)
        /\ \A x \in Var \ {v, w} : Nodes(x)' = Nodes(x) /\ PoolOf(x)' = PoolOf(x)
    BY <1>1, TwoNodesUpdate, ZenonT(30)
  <2> QED
    BY <1>2, <2>1, Zenon
<1>4. Types'
  BY <1>1, <1>3 DEF Types
<1>5. Around(v, w, p)' = Around(v, w, p)
  BY <1>3 DEF Around
<1>6. /\ S \cap (free[p] \cup raw) = {} /\ T \cap (free[p] \cup raw) = {}
      /\ free[p] \cap raw = {} /\ \A n \in free[p] : Home[n] = p
  BY Apart
<1> QED
  BY <1>1, <1>2, <1>3, <1>4, <1>5, <1>6, KeepsCustody

LEMMA SwapStep ==
  ASSUME Custody, NEW v \in Var, NEW w \in Var, PoolOf(v) = PoolOf(w), Swap(v, w)
  PROVE  Custody'
<1>1. Types /\ Nodes(v) \in SUBSET Node /\ Nodes(w) \in SUBSET Node
  BY Facts
<1>2. /\ handle' = [handle EXCEPT ![v].nodes = Nodes(w), ![w].nodes = Nodes(v)]
      /\ free' = free /\ raw' = raw /\ Alive(v)
  BY DEF Swap
<1>3. CASE v # w
  <2>1. Nodes(v) \cap Nodes(w) = {}
    BY <1>3 DEF Custody, OneOwner
  <2> QED
    BY <1>1, <1>2, <1>3, <2>1, BetweenStep, ZenonT(40)
<1>4. CASE v = w
  <2>1. handle' = handle
    BY <1>1, <1>2, <1>4 DEF Types, Nodes
  <2> QED
    BY <1>2, <2>1, SMTT(20)
       DEF Custody, Types, OneOwner, NoLeak, HomeAgain, OwnNodes, Nodes, PoolOf
<1> QED
  BY <1>3, <1>4

LEMMA PushStep ==
  ASSUME Custody, NEW v \in Var, NEW w \in Var, PoolOf(v) = PoolOf(w), Push(v, w)
  PROVE  Custody'
<1>1. Types /\ Nodes(v) \in SUBSET Node /\ Nodes(w) \in SUBSET Node
  BY Facts
<1>2. v # w /\ free' = free /\ raw' = raw /\ Alive(v)
  BY DEF Push
<1>3. handle' = [handle EXCEPT ![v].nodes = Nodes(v) \cup Nodes(w), ![w].nodes = {}]
  BY <1>1 DEF Push, Types, Nodes
<1>4. /\ Nodes(v) \cup Nodes(w) \in SUBSET Node /\ {} \in SUBSET Node
      /\ (Nodes(v) \cup Nodes(w)) \cap {} = {}
      /\ (Nodes(v) \cup Nodes(w)) \cup {} = Nodes(v) \cup Nodes(w)
  BY <1>1
<1> QED
  BY <1>2, <1>3, <1>4, BetweenStep, Zenon

LEMMA PushRawStep ==
  ASSUME Custody, NEW v \in Var, PushRaw(v)
  PROVE  Custody'
<1>1. /\ Types /\ PoolOf(v) \in Pool /\ Nodes(v) \in SUBSET Node /\ free' = free
      /\ \A n \in Nodes(v) : Home[n] = PoolOf(v)
  BY Facts DEF PushRaw
<1>2. PICK p \in Pool : p = PoolOf(v)
  BY <1>1
<1>3. PICK S \in SUBSET raw :
        /\ \A n \in S : Home[n] = p
        /\ handle' = [handle EXCEPT ![v].nodes = Nodes(v) \cup S]
        /\ raw' = raw \ S
  BY <1>1, <1>2 DEF PushRaw, Types, Nodes
<1>4. Nodes(v) \cup S \in SUBSET Node
  BY <1>1 DEF Types
<1>5. /\ handle' \in [Var -> [pool : Pool \cup {NoPool}, nodes : SUBSET Node]]
      /\ Nodes(v)' = Nodes(v) \cup S /\ PoolOf(v)' = p
      /\ \A x \in Var \ {v} : Nodes(x)' = Nodes(x) /\ PoolOf(x)' = PoolOf(x)
  BY <1>1, <1>2, <1>3, <1>4, NodesUpdate, Zenon
<1>6. Types'
  BY <1>1, <1>3, <1>5 DEF Types
<1>7. Around(v, v, p)' = Around(v, v, p)
  BY <1>1, <1>3, <1>5 DEF Around
<1> QED
  BY <1>1, <1>2, <1>3, <1>5, <1>6, <1>7, Apart, KeepsCustody

LEMMA ReleaseStep ==
  ASSUME Custody, NEW v \in Var, Release(v)
  PROVE  Custody'
<1>1. /\ Types /\ PoolOf(v) \in Pool /\ Nodes(v) \in SUBSET Node
      /\ free' = free /\ raw' = raw \cup Nodes(v)
      /\ handle' = [handle EXCEPT ![v].nodes = {}]
  BY Facts DEF Release
<1>2. PICK p \in Pool : p = PoolOf(v)
  BY <1>1
<1>3. {} \in SUBSET Node
  OBVIOUS
<1>4. /\ handle' \in [Var -> [pool : Pool \cup {NoPool}, nodes : SUBSET Node]]
      /\ Nodes(v)' = {} /\ PoolOf(v)' = p
      /\ \A x \in Var \ {v} : Nodes(x)' = Nodes(x) /\ PoolOf(x)' = PoolOf(x)
  BY <1>1, <1>2, <1>3, NodesUpdate, Zenon
<1>5. Types'
  BY <1>1, <1>4 DEF Types
<1>6. Around(v, v, p)' = Around(v, v, p)
  BY <1>1, <1>4 DEF Around
<1> QED
  BY <1>1, <1>2, <1>4, <1>5, <1>6, Apart, KeepsCustody

-----------------------------------------------------------------------------

LEMMA CustodyInit == Init => Custody
<1> SUFFICES ASSUME Init PROVE Custody
  OBVIOUS
<1>1. Types
  BY DEF Init, Types, Nowhere
<1>2. \A v \in Var : Nodes(v) = {}
  BY DEF Init, Nodes, Nowhere
<1>3. raw = {} /\ \A p \in Pool : free[p] = {n \in Node : Home[n] = p}
  BY DEF Init
<1>4. OneOwner /\ HomeAgain
  BY <1>2, <1>3 DEF OneOwner, HomeAgain
<1>5. NoLeak
  BY <1>3, PoolAssumption DEF NoLeak
<1>6. OwnNodes
  BY <1>2 DEF OwnNodes
<1> QED
  BY <1>1, <1>4, <1>5, <1>6 DEF Custody

LEMMA CustodyStep == Custody /\ [TidyNext]_vars => Custody'
<1> SUFFICES ASSUME Custody, [TidyNext]_vars PROVE Custody'
  OBVIOUS
<1>1. ASSUME NEW v \in Var, OwnPool(v) PROVE Custody'
  <2>1. CASE Reset(v) \/ Destroy(v)
    BY <2>1, ResetStep
  <2>2. CASE ResetTo(v)
    BY <2>2, ResetToStep
  <2>3. CASE PushRaw(v)
    BY <2>3, PushRawStep
  <2>4. CASE Release(v)
    BY <2>4, ReleaseStep
  <2>5. CASE \E p \in Pool : Construct(v, p)
    BY <2>5, ConstructStep
  <2>6. CASE \E p \in Pool : Wrap(v, p)
    BY <2>6, WrapStep
  <2>7. CASE \E p \in Pool, count \in Counts : Acquire(v, p, count)
    BY <2>7, AcquireStep
  <2>8. CASE \E w \in Var : MoveTo(v, w)
    BY <2>8, MoveToStep
  <2>9. CASE \E w \in Var, count \in Counts : PopTo(v, w, count)
    BY <2>9, PopToStep
  <2> QED
    BY <1>1, <2>1, <2>2, <2>3, <2>4, <2>5, <2>6, <2>7, <2>8, <2>9, Zenon DEF OwnPool
<1>2. ASSUME NEW v \in Var, NEW w \in Var, PoolOf(v) = PoolOf(w),
             Between(v, w) \/ (AssignNode(v, w) /\ (v = w \/ Nodes(v) = {}))
      PROVE  Custody'
  <2>1. CASE AssignStack(v, w)
    BY <1>2, <2>1, AssignStackStep
  <2>2. CASE Swap(v, w)
    BY <1>2, <2>2, SwapStep
  <2>3. CASE Push(v, w)
    BY <1>2, <2>3, PushStep
  <2>4. CASE AssignNode(v, w) /\ (v = w \/ Nodes(v) = {})
    BY <1>2, <2>4, AssignNodeStep
  <2> QED
    BY <1>2, <2>1, <2>2, <2>3, <2>4, Zenon DEF Between
<1>3. CASE UNCHANGED vars
  BY <1>3 DEF vars, Custody, Types, OneOwner, NoLeak, HomeAgain, OwnNodes, Nodes, PoolOf
<1>4. CASE \E p \in Pool : ReleaseRaw(p)
  BY <1>4, ReleaseRawStep
<1> QED
  BY <1>1, <1>2, <1>3, <1>4, Zenon DEF TidyNext

\* The invariant holds in every state a tidy client reaches.
THEOREM CustodyInvariant == TidySpec => []Custody
<1> QED
  BY CustodyInit, CustodyStep, PTL DEF TidySpec

\* A node never has two owners: no handle's destructor gives back what another
\* handle, a plain pointer or a pool has.
THEOREM OneOwnerSafe == TidySpec => []OneOwner
<1>1. Custody => OneOwner
  BY DEF Custody
<1> QED
  BY <1>1, CustodyInvariant, PTL

\* No operation on handles loses a node.
THEOREM NoLeakSafe == TidySpec => []NoLeak
<1>1. Custody => NoLeak
  BY DEF Custody
<1> QED
  BY <1>1, CustodyInvariant, PTL

\* A node that is free is in the pool that allocated it.
THEOREM HomeAgainSafe == TidySpec => []HomeAgain
<1>1. Custody => HomeAgain
  BY DEF Custody
<1> QED
  BY <1>1, CustodyInvariant, PTL

-----------------------------------------------------------------------------
(* A UniqueNode owns at most one node.  What a step writes into one comes   *)
(* out of another one, or is counted.                                       *)

OneEach == \A v \in NodeVar : \A m, n \in Nodes(v) : m = n

LEMMA CountedOne ==
  ASSUME NEW S \in SUBSET Node, Cardinality(S) <= 1
  PROVE  \A m, n \in S : m = n
<1>1. IsFiniteSet(S) /\ Cardinality(S) \in Nat
  BY NodeAssumption, FS_Subset, FS_CardinalityType
<1>2. Cardinality(S) = 0 \/ Cardinality(S) = 1
  BY <1>1
<1>3. CASE Cardinality(S) = 0
  BY <1>1, <1>3, FS_EmptySet
<1>4. CASE Cardinality(S) = 1
  <2>1. PICK x : S = {x}
    BY <1>1, <1>4, FS_Singleton
  <2> QED
    BY <2>1
<1> QED
  BY <1>2, <1>3, <1>4

\* popOne() pops at most one node.
LEMMA PoppedOne ==
  ASSUME NEW v \in Var, Nodes(v) \in SUBSET Node,
         NEW S \in SUBSET Nodes(v), Cardinality(S) = PopCount(v, 1)
  PROVE  \A m, n \in S : m = n
<1>1. Cardinality(Nodes(v)) \in Nat
  BY NodeAssumption, FS_Subset, FS_CardinalityType
<1>2. Cardinality(S) <= 1
  BY <1>1 DEF PopCount
<1> QED
  BY <1>2, CountedOne

LEMMA OneEachStep ==
  ASSUME Custody, OneEach, [TidyNext]_vars
  PROVE  OneEach'
<1>0. Types
  BY DEF Custody
<1>1. ASSUME NEW v \in Var, Reset(v) \/ Destroy(v) \/ Release(v) PROVE OneEach'
  <2>1. \A x \in Var : Nodes(x)' = Nodes(x) \/ Nodes(x)' = {}
    BY <1>0, <1>1 DEF Reset, Destroy, Release, Types, Nodes, Nowhere
  <2> QED
    BY <2>1, VarAssumption DEF OneEach, Var
<1>2. ASSUME NEW v \in Var, ResetTo(v) PROVE OneEach'
  <2>1. PICK S \in SUBSET raw :
          /\ v \in NodeVar => Cardinality(S) = 1
          /\ handle' = [handle EXCEPT ![v].nodes = S]
    BY <1>2 DEF ResetTo
  <2>2. S \in SUBSET Node
    BY <1>0 DEF Types
  <2>3. Nodes(v)' = S /\ \A x \in Var \ {v} : Nodes(x)' = Nodes(x)
    BY <1>0, <2>1, <2>2, NodesUpdate, Zenon
  <2>4. v \in NodeVar => \A m, n \in S : m = n
    BY <2>1, <2>2, CountedOne
  <2> QED
    BY <2>3, <2>4 DEF OneEach, Var
<1>3. ASSUME NEW v \in Var, NEW p \in Pool, Construct(v, p) PROVE OneEach'
  <2>1. \A x \in Var : Nodes(x)' = Nodes(x)
    BY <1>0, <1>3 DEF Construct, Types, Nodes
  <2> QED
    BY <2>1 DEF OneEach, Var
<1>4. ASSUME NEW v \in Var, NEW p \in Pool,
             Wrap(v, p) \/ \E count \in Counts : Acquire(v, p, count)
      PROVE  OneEach'
  <2>1. PICK S \in SUBSET Node :
          /\ v \in NodeVar => Cardinality(S) = 1
          /\ handle' = [handle EXCEPT ![v] = [pool |-> p, nodes |-> S]]
    BY <1>0, <1>4 DEF Wrap, Acquire, Types
  <2>2. Nodes(v)' = S /\ \A x \in Var \ {v} : Nodes(x)' = Nodes(x)
    BY <1>0, <2>1, OneUpdate
  <2>3. v \in NodeVar => \A m, n \in S : m = n
    BY <2>1, CountedOne
  <2> QED
    BY <2>2, <2>3 DEF OneEach, Var
<1>5. ASSUME NEW v \in Var, NEW w \in Var, MoveTo(v, w) PROVE OneEach'
  <2>1. /\ Nodes(w)' = Nodes(v) \/ Nodes(w)' = {}
        /\ \A x \in Var \ {w} : Nodes(x)' = Nodes(x) \/ Nodes(x)' = {}
        /\ w \in NodeVar => v \in NodeVar
    BY <1>0, <1>5, VarAssumption DEF MoveTo, Alike, Types, Nodes
  <2> QED
    BY <2>1 DEF OneEach, Var
<1>6. ASSUME NEW v \in Var, NEW w \in Var, NEW count \in Counts, PopTo(v, w, count)
      PROVE  OneEach'
  <2>1. /\ v # w /\ v \notin NodeVar
        /\ w \in NodeVar => count = 1
    BY <1>6, VarAssumption DEF PopTo
  <2>2. PICK S \in SUBSET Nodes(v) :
          /\ Cardinality(S) = PopCount(v, count)
          /\ handle' = [handle EXCEPT ![w] = [pool |-> PoolOf(v), nodes |-> S], ![v].nodes = @ \ S]
    BY <1>6 DEF PopTo
  <2>3. Nodes(w)' = S /\ \A x \in Var \ {v, w} : Nodes(x)' = Nodes(x)
    BY <1>0, <2>1, <2>2 DEF Types, Nodes
  <2>4. w \in NodeVar => \A m, n \in S : m = n
    BY <1>0, <2>1, <2>2, HandleParts, PoppedOne
  <2> QED
    BY <2>1, <2>3, <2>4 DEF OneEach, Var
<1>7. ASSUME NEW v \in Var, PushRaw(v) PROVE OneEach'
  <2>1. v \notin NodeVar /\ \A x \in Var \ {v} : Nodes(x)' = Nodes(x)
    BY <1>0, <1>7, VarAssumption DEF PushRaw, Types, Nodes
  <2> QED
    BY <2>1 DEF OneEach, Var
<1>8. ASSUME NEW v \in Var, NEW w \in Var, Push(v, w) PROVE OneEach'
  <2>1. v \notin NodeVar /\ \A x \in Var \ {v} : Nodes(x)' = Nodes(x) \/ Nodes(x)' = {}
    BY <1>0, <1>8, VarAssumption DEF Push, Types, Nodes
  <2> QED
    BY <2>1 DEF OneEach, Var
<1>9. ASSUME NEW v \in Var, NEW w \in Var,
             AssignNode(v, w) \/ AssignStack(v, w) \/ Swap(v, w)
      PROVE  OneEach'
  <2>1. v \in NodeVar <=> w \in NodeVar
    BY <1>9, VarAssumption DEF AssignNode, AssignStack, Swap, Alike
  <2>2. \A x \in Var : \/ Nodes(x)' = Nodes(x) \/ Nodes(x)' = {}
                       \/ x = v /\ Nodes(x)' = Nodes(w)
                       \/ x = w /\ Nodes(x)' = Nodes(v)
    <3>1. CASE AssignNode(v, w) \/ AssignStack(v, w)
      BY <1>0, <3>1, TakenOver DEF AssignNode, AssignStack
    <3>2. CASE Swap(v, w)
      BY <1>0, <3>2 DEF Swap, Types, Nodes
    <3> QED
      BY <1>9, <3>1, <3>2
  <2> QED
    BY <2>1, <2>2 DEF OneEach, Var
<1>10. CASE UNCHANGED vars
  BY <1>10 DEF vars, OneEach, Nodes
<1>11. ASSUME NEW p \in Pool, ReleaseRaw(p) PROVE OneEach'
  BY <1>11 DEF ReleaseRaw, OneEach, Nodes
<1> QED
  BY <1>1, <1>2, <1>3, <1>4, <1>5, <1>6, <1>7, <1>8, <1>9, <1>10, <1>11, Zenon
  DEF TidyNext, OwnPool, Between

\* Pools and handles hold nodes; a UniqueNode at most one, and a variable outside of its
\* lifetime none, whatever was moved, assigned, swapped and popped before.
THEOREM HandlesTypeCorrect == TidySpec => []TypeOK
<1>1. Init => OneEach
  BY DEF Init, OneEach, Nodes, Nowhere, Var
<1>2. Custody /\ OneEach /\ [TidyNext]_vars => OneEach'
  BY OneEachStep
<1>3. Custody /\ OneEach => TypeOK
  <2> SUFFICES ASSUME Custody, OneEach PROVE TypeOK
    OBVIOUS
  <2>1. Types /\ \A v \in Var : ~Alive(v) => Nodes(v) = {}
    BY Facts DEF Custody
  <2>2. \A v \in NodeVar, m, n \in Node : {m, n} \subseteq Nodes(v) => m = n
    BY DEF OneEach
  <2> QED
    BY <2>1, <2>2 DEF Types, TypeOK
<1> QED
  BY <1>1, <1>2, <1>3, CustodyInvariant, PTL DEF TidySpec

-----------------------------------------------------------------------------
(* What the pools take back                                                *)

\* A pool gains all the nodes of a handle, or plain nodes, or none.
LEMMA FreeChanges ==
  ASSUME Types, [TidyNext]_vars
  PROVE  \/ free' = free
         \/ \E v \in Var : GiveBack(v, Nodes(v))
         \/ \E p \in Pool : \E S \in SUBSET free[p] : free' = [free EXCEPT ![p] = @ \ S]
         \/ \E p \in Pool : ReleaseRaw(p)
<1>1. ASSUME NEW v \in Var, Reset(v) \/ Destroy(v) \/ ResetTo(v)
      PROVE  GiveBack(v, Nodes(v))
  BY <1>1 DEF Reset, Destroy, ResetTo
<1>2. ASSUME NEW v \in Var, NEW w \in Var, AssignStack(v, w)
      PROVE  free' = free \/ GiveBack(v, Nodes(v))
  <2>1. GiveBack(v, IF v = w THEN {} ELSE Nodes(v))
    BY <1>2, EmptiedNodes DEF AssignStack
  <2>2. CASE v = w
    BY <2>1, <2>2 DEF GiveBack, Types
  <2> QED
    BY <2>1, <2>2
<1>3. ASSUME NEW v \in Var, NEW p \in Pool, NEW count \in Counts, Acquire(v, p, count)
      PROVE  \E S \in SUBSET free[p] : free' = [free EXCEPT ![p] = @ \ S]
  BY <1>3 DEF Acquire
<1>4. ASSUME NEW v \in Var,
             \/ PushRaw(v) \/ Release(v)
             \/ \E p \in Pool : Construct(v, p) \/ Wrap(v, p)
      PROVE  free' = free
  BY <1>4 DEF PushRaw, Release, Construct, Wrap
<1>5. ASSUME NEW v \in Var, NEW w \in Var,
             \/ MoveTo(v, w) \/ AssignNode(v, w) \/ Swap(v, w) \/ Push(v, w)
             \/ \E count \in Counts : PopTo(v, w, count)
      PROVE  free' = free
  BY <1>5 DEF MoveTo, AssignNode, Swap, Push, PopTo
<1>6. CASE UNCHANGED vars
  BY <1>6 DEF vars
<1> QED
  BY <1>1, <1>2, <1>3, <1>4, <1>5, <1>6, Zenon DEF TidyNext, OwnPool, Between

\* A pool takes back what one handle of it owned until then, and all of it, or plain
\* nodes that the client has no more: no operation returns nodes of two handles at once,
\* a part of those of one, or plain nodes that stay with the client.
THEOREM GivenByOwnerSafe == TidySpec => GivenByOwner
<1>. DEFINE Given == \A p \in Pool :
                       LET given == free'[p] \ free[p] IN
                       given # {} =>
                         \/ \E v \in Var : PoolOf(v) = p /\ Nodes(v) = given
                         \/ given \subseteq raw \ raw'
<1>1. Custody /\ [TidyNext]_vars => [Given]_vars
  <2> SUFFICES ASSUME Custody, [TidyNext]_vars PROVE Given
    OBVIOUS
  <2>1. Types
    BY DEF Custody
  <2>2. CASE free' = free
    BY <2>2
  <2>3. ASSUME NEW p \in Pool, NEW S, free' = [free EXCEPT ![p] = @ \ S] PROVE Given
    BY <2>1, <2>3 DEF Types
  <2>4. ASSUME NEW v \in Var, GiveBack(v, Nodes(v)) PROVE Given
    <3>1. \A p \in Pool : free'[p] = IF p = PoolOf(v) THEN free[p] \cup Nodes(v) ELSE free[p]
      BY <2>4 DEF GiveBack
    <3>2. \A p \in Pool : Nodes(v) \cap free[p] = {}
      BY DEF Custody, OneOwner
    <3> QED
      BY <3>1, <3>2
  <2>5. ASSUME NEW q \in Pool, ReleaseRaw(q) PROVE Given
    <3>1. PICK S \in SUBSET raw : free' = [free EXCEPT ![q] = @ \cup S] /\ raw' = raw \ S
      BY <2>5 DEF ReleaseRaw
    <3>2. \A p \in Pool : free'[p] \ free[p] \subseteq S
      BY <2>1, <3>1 DEF Types
    <3>3. \A p \in Pool : free'[p] \ free[p] \subseteq raw \ raw'
      BY <3>1, <3>2
    <3> QED
      BY <3>3
  <2>6. \/ free' = free
        \/ \E v \in Var : GiveBack(v, Nodes(v))
        \/ \E p \in Pool : \E S \in SUBSET free[p] : free' = [free EXCEPT ![p] = @ \ S]
        \/ \E p \in Pool : ReleaseRaw(p)
    BY <2>1, FreeChanges
  <2> QED
    BY <2>2, <2>3, <2>4, <2>5, <2>6
<1> QED
  BY <1>1, CustodyInvariant, PTL DEF TidySpec, GivenByOwner
=============================================================================
