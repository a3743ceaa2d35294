-------------------------- MODULE ObjectSlotsProofs --------------------------
(***************************************************************************)
(* What holds of the objects in nodes for every set of nodes and handles,   *)
(* whatever throws: free nodes have default values, acquireOne forgets no    *)
(* object, and a node is lost in an assignment only.                        *)
(***************************************************************************)
EXTENDS ObjectSlots, TLAPS

\* TypeOK has two parts, the types of the values and the custody of the nodes: a
\* UniqueNode owns at most one, and no node is in two places.
Values ==
  /\ value \in [Node -> State]
  /\ forgotten \subseteq Node

Custody ==
  /\ free \subseteq Node /\ owned \in [Var -> SUBSET Node]
  /\ \A v \in NodeVar, m, n \in Node : {m, n} \subseteq owned[v] => m = n
  /\ \A v \in Var : owned[v] \cap free = {} /\ \A w \in Var \ {v} : owned[v] \cap owned[w] = {}

Slots == Values /\ Custody /\ FreeDefault

LEMMA SlotsParts == Slots <=> TypeOK /\ FreeDefault
BY DEF Slots, Values, Custody, TypeOK

-----------------------------------------------------------------------------
(* Values                                                                  *)

\* A constructor that runs touches the value of its node only.
LEMMA ConstructValues ==
  ASSUME Values, NEW n \in Node, Construct(n)
  PROVE  /\ Values'
         /\ \A m \in Node \ {n} : value'[m] = value[m]
BY DEF Values, Construct, SetState, InState, State

\* A constructor that throws is followed by the reset of the node.
LEMMA ConstructThrowsValues ==
  ASSUME Values, NEW n \in Node, ConstructThrows(n)
  PROVE  /\ Values'
         /\ value'[n] = "default"
         /\ \A m \in Node \ {n} : value'[m] = value[m]
BY DEF Values, ConstructThrows, SetState, InState, State

\* A reset leaves default values in all nodes of S.
LEMMA ResetValues ==
  ASSUME Values, NEW S \in SUBSET Node, Reset(S)
  PROVE  /\ Values'
         /\ \A n \in S : value'[n] = "default"
         /\ \A n \in Node \ S : value'[n] = value[n]
BY DEF Values, Reset, SetState, State

\* One that throws leaves a dead value in S, and those outside of S alone.
LEMMA ResetThrowsValues ==
  ASSUME Values, NEW S \in SUBSET Node, ResetThrows(S)
  PROVE  /\ Values'
         /\ \E n \in S : value'[n] = "dead"
         /\ \A n \in Node \ S : value'[n] = value[n]
  <1>1. PICK R \in SUBSET S : \E n \in S \ R :
          value' = [SetState(R, "default") EXCEPT ![n] = "dead"]
    BY DEF ResetThrows
  <1>2. PICK n \in S \ R : value' = [SetState(R, "default") EXCEPT ![n] = "dead"]
    BY <1>1
  <1>3. forgotten' = forgotten
    BY DEF ResetThrows
  <1>4. SetState(R, "default") \in [Node -> State]
    BY DEF Values, SetState, State
  <1>5. \A m \in Node \ S : SetState(R, "default")[m] = value[m]
    BY DEF SetState
  <1>6. /\ value' \in [Node -> State] /\ value'[n] = "dead"
        /\ \A m \in Node \ S : value'[m] = value[m]
    BY <1>2, <1>4, <1>5 DEF State
  <1>. QED  BY <1>2, <1>3, <1>6 DEF Values

-----------------------------------------------------------------------------
(* Nodes that change hands.  Each of these lemmas is about the nodes alone: *)
(* what an operation does to owned and free.                                *)

\* A handle's nodes go to the pool.
LEMMA ToPool ==
  ASSUME Custody, NEW v \in Var, NEW S \in SUBSET owned[v],
         owned' = [owned EXCEPT ![v] = @ \ S], free' = free \cup S
  PROVE  Custody' /\ Kept' = Kept
  <1>1. /\ owned' \in [Var -> SUBSET Node] /\ free' \subseteq Node
        /\ owned'[v] = owned[v] \ S
        /\ \A x \in Var \ {v} : owned'[x] = owned[x]
    BY DEF Custody
  <1>2. Custody'
    BY <1>1, SMTT(20) DEF Custody, Var
  <1>3. UNION {owned[x] : x \in Var} = (UNION {owned'[x] : x \in Var}) \cup S
    BY <1>1, SMTT(20)
  <1>4. Kept' = free' \cup UNION {owned'[x] : x \in Var}
    BY DEF Kept
  <1>. QED  BY <1>2, <1>3, <1>4 DEF Kept

\* An empty handle gets nodes of the pool.
LEMMA FromPool ==
  ASSUME Custody, NEW v \in Var, owned[v] = {}, NEW S \in SUBSET free,
         v \in NodeVar => \A m, n \in S : m = n,
         owned' = [owned EXCEPT ![v] = S], free' = free \ S
  PROVE  Custody' /\ Kept' = Kept
  <1>1. /\ owned' \in [Var -> SUBSET Node] /\ free' \subseteq Node
        /\ owned'[v] = S
        /\ \A x \in Var \ {v} : owned'[x] = owned[x]
    BY DEF Custody
  <1>2. \A x \in NodeVar, m, n \in Node : {m, n} \subseteq owned'[x] => m = n
    BY <1>1, SMTT(20) DEF Custody, Var
  <1>3. \A x \in Var : owned'[x] \cap free' = {} /\ \A y \in Var \ {x} : owned'[x] \cap owned'[y] = {}
    BY <1>1, SMTT(20) DEF Custody
  <1>4. UNION {owned'[x] : x \in Var} = (UNION {owned[x] : x \in Var}) \cup S
    BY <1>1, SMTT(20)
  <1>5. Kept' = free' \cup UNION {owned'[x] : x \in Var}
    BY DEF Kept
  <1>6. Custody'
    BY <1>1, <1>2, <1>3 DEF Custody
  <1>. QED  BY <1>4, <1>5, <1>6 DEF Kept

\* Nodes of v go to w, which has them in addition to its own.
LEMMA ToHandle ==
  ASSUME Custody, NEW v \in Var, NEW w \in Var, v # w, NEW S \in SUBSET owned[v],
         w \in NodeVar => owned[w] = {} /\ \A m, n \in S : m = n,
         owned' = [owned EXCEPT ![v] = @ \ S, ![w] = @ \cup S], free' = free
  PROVE  Custody' /\ Kept' = Kept
  <1>1. /\ owned' \in [Var -> SUBSET Node] /\ free' \subseteq Node
        /\ owned'[v] = owned[v] \ S /\ owned'[w] = owned[w] \cup S
        /\ \A x \in Var \ {v, w} : owned'[x] = owned[x]
    BY DEF Custody
  <1>2. \A x \in NodeVar, m, n \in Node : {m, n} \subseteq owned'[x] => m = n
    BY <1>1, SMTT(20) DEF Custody, Var
  <1>3. \A x \in Var : owned'[x] \cap free' = {} /\ \A y \in Var \ {x} : owned'[x] \cap owned'[y] = {}
    BY <1>1, SMTT(20) DEF Custody
  <1>4. UNION {owned'[x] : x \in Var} = UNION {owned[x] : x \in Var}
    BY <1>1, SMTT(20)
  <1>5. Kept' = free' \cup UNION {owned'[x] : x \in Var}
    BY DEF Kept
  <1>6. Custody'
    BY <1>1, <1>2, <1>3 DEF Custody
  <1>. QED  BY <1>4, <1>5, <1>6 DEF Kept

\* v has w's nodes instead of its own, which go to the pool or nowhere.
LEMMA Replaced ==
  ASSUME Custody, NEW v \in Var, NEW w \in Var, v # w, v \in NodeVar => w \in NodeVar,
         owned' = HandedOver(v, w), free' = free \/ free' = free \cup owned[v]
  PROVE  /\ Custody'
         /\ Kept \ Kept' \subseteq owned[v]
         /\ free' = free \cup owned[v] => Kept' = Kept
         /\ owned'[v] = owned[w]
  <1>1. /\ owned' \in [Var -> SUBSET Node] /\ free' \subseteq Node
        /\ owned'[v] = owned[w] /\ owned'[w] = {}
        /\ \A x \in Var \ {v, w} : owned'[x] = owned[x]
    BY DEF Custody, HandedOver
  <1>2. \A x \in NodeVar, m, n \in Node : {m, n} \subseteq owned'[x] => m = n
    BY <1>1, SMTT(20) DEF Custody, Var
  <1>3. \A x \in Var : owned'[x] \cap free' = {} /\ \A y \in Var \ {x} : owned'[x] \cap owned'[y] = {}
    BY <1>1, SMTT(20) DEF Custody
  <1>4. (UNION {owned'[x] : x \in Var}) \cup owned[v] = UNION {owned[x] : x \in Var}
    BY <1>1, SMTT(20)
  <1>5. Kept' = free' \cup UNION {owned'[x] : x \in Var}
    BY DEF Kept
  <1>6. Custody'
    BY <1>1, <1>2, <1>3 DEF Custody
  <1>. QED  BY <1>1, <1>4, <1>5, <1>6 DEF Kept

\* w's nodes go nowhere.
LEMMA Dropped ==
  ASSUME Custody, NEW w \in Var, owned' = [owned EXCEPT ![w] = {}], free' = free
  PROVE  Custody' /\ Kept \ Kept' \subseteq owned[w]
  <1>1. /\ owned' \in [Var -> SUBSET Node] /\ free' \subseteq Node
        /\ owned'[w] = {}
        /\ \A x \in Var \ {w} : owned'[x] = owned[x]
    BY DEF Custody
  <1>2. Custody'
    BY <1>1, SMTT(20) DEF Custody, Var
  <1>3. (UNION {owned'[x] : x \in Var}) \cup owned[w] = UNION {owned[x] : x \in Var}
    BY <1>1, SMTT(20)
  <1>4. Kept' = free' \cup UNION {owned'[x] : x \in Var}
    BY DEF Kept
  <1>. QED  BY <1>2, <1>3, <1>4 DEF Kept

-----------------------------------------------------------------------------
(* Each action                                                             *)

LEMMA AcquireOneKeeps ==
  ASSUME Slots, NEW v \in Var, NEW n \in Node, AcquireOne(v, n)
  PROVE  Slots' /\ forgotten' = forgotten /\ Kept' = Kept
  <1>1. /\ v \in NodeVar /\ owned[v] = {} /\ n \in free /\ value[n] = "default"
        /\ Values /\ Custody /\ FreeDefault
    BY DEF AcquireOne, Slots, FreeDefault
  <1>2. CASE /\ Construct(n)
             /\ free' = free \ {n}
             /\ owned' = [owned EXCEPT ![v] = {n}]
    <2>1. Values' /\ \A m \in Node \ {n} : value'[m] = value[m]
      BY <1>1, <1>2, ConstructValues
    <2>2. Custody' /\ Kept' = Kept
      <3>1. {n} \in SUBSET free /\ \A a, b \in {n} : a = b
        BY <1>1
      <3>. QED  BY <1>1, <1>2, <3>1, FromPool
    <2>3. FreeDefault'
      BY <1>1, <1>2, <2>1 DEF Custody, FreeDefault
    <2>4. forgotten' = forgotten
      BY <1>1, <1>2 DEF Construct, InState
    <2>. QED  BY <2>1, <2>2, <2>3, <2>4 DEF Slots
  <1>3. CASE ConstructThrows(n) /\ UNCHANGED <<free, owned>>
    <2>1. /\ Values' /\ value'[n] = "default"
          /\ \A m \in Node \ {n} : value'[m] = value[m]
      BY <1>1, <1>3, ConstructThrowsValues
    <2>2. Custody' /\ FreeDefault' /\ Kept' = Kept
      BY <1>1, <1>3, <2>1 DEF Custody, FreeDefault, Kept
    <2>3. forgotten' = forgotten
      BY <1>1, <1>3 DEF ConstructThrows, InState
    <2>. QED  BY <2>1, <2>2, <2>3 DEF Slots
  <1>. QED  BY <1>2, <1>3 DEF AcquireOne

LEMMA AcquireKeeps ==
  ASSUME Slots, NEW s \in Var, NEW count \in Counts, Acquire(s, count)
  PROVE  Slots' /\ forgotten' = forgotten /\ Kept' = Kept
  <1>1. PICK S \in SUBSET free : free' = free \ S /\ owned' = [owned EXCEPT ![s] = S]
    BY DEF Acquire
  <1>2. /\ s \notin NodeVar /\ owned[s] = {} /\ UNCHANGED <<value, forgotten>>
        /\ Values /\ Custody /\ FreeDefault
    BY VarAssumption DEF Acquire, Slots
  <1>3. Custody' /\ Kept' = Kept
    BY <1>1, <1>2, FromPool
  <1>4. Values' /\ FreeDefault'
    BY <1>1, <1>2 DEF Values, FreeDefault
  <1>. QED  BY <1>2, <1>3, <1>4 DEF Slots

LEMMA MoveKeeps ==
  ASSUME Slots, NEW v \in Var, NEW w \in Var, Move(v, w)
  PROVE  Slots' /\ forgotten' = forgotten /\ Kept' = Kept
  <1>1. PICK S \in SUBSET owned[v] :
          /\ w \in NodeVar => owned[w] = {} /\ \A m, n \in S : m = n
          /\ owned' = [owned EXCEPT ![v] = @ \ S, ![w] = @ \cup S]
    BY DEF Move
  <1>2. /\ v # w /\ free' = free /\ UNCHANGED <<value, forgotten>>
        /\ Values /\ Custody /\ FreeDefault
    BY DEF Move, Slots
  <1>3. Custody' /\ Kept' = Kept
    BY <1>1, <1>2, ToHandle
  <1>4. Values' /\ FreeDefault'
    BY <1>2 DEF Values, FreeDefault
  <1>. QED  BY <1>2, <1>3, <1>4 DEF Slots

LEMMA PopOneArgsKeeps ==
  ASSUME Slots, NEW s \in Var, NEW v \in Var, NEW n \in Node, PopOneArgs(s, v, n)
  PROVE  /\ Slots' /\ Kept' = Kept
         /\ \A m \in forgotten' \ forgotten : \E o \in StackVar : m \in owned[o]
  <1>1. /\ s \in StackVar /\ n \in owned[s] /\ v \in NodeVar /\ owned[v] = {}
        /\ s # v /\ Values /\ Custody /\ FreeDefault
    BY VarAssumption DEF PopOneArgs, Slots
  <1>2. n \notin free /\ {n} \in SUBSET owned[s] /\ \A a, b \in {n} : a = b
    BY <1>1 DEF Custody
  <1>3. CASE /\ Construct(n)
             /\ owned' = [owned EXCEPT ![s] = @ \ {n}, ![v] = {n}]
             /\ UNCHANGED free
    <2>1. Values' /\ \A m \in Node \ {n} : value'[m] = value[m]
      BY <1>1, <1>3, ConstructValues
    <2>2. owned' = [owned EXCEPT ![s] = @ \ {n}, ![v] = @ \cup {n}]
      BY <1>1, <1>3 DEF Custody
    <2>3. Custody' /\ Kept' = Kept
      BY <1>1, <1>2, <1>3, <2>2, ToHandle
    <2>4. FreeDefault'
      BY <1>1, <1>2, <1>3, <2>1 DEF Custody, FreeDefault
    <2>5. forgotten' \ forgotten \subseteq {n}
      BY <1>3 DEF Construct, InState
    <2>. QED  BY <1>1, <2>1, <2>3, <2>4, <2>5 DEF Slots
  <1>4. CASE /\ ConstructThrows(n)
             /\ owned' = [owned EXCEPT ![s] = @ \ {n}]
             /\ free' = free \cup {n}
    <2>1. /\ Values' /\ value'[n] = "default"
          /\ \A m \in Node \ {n} : value'[m] = value[m]
      BY <1>1, <1>4, ConstructThrowsValues
    <2>2. Custody' /\ Kept' = Kept
      BY <1>1, <1>2, <1>4, ToPool
    <2>3. FreeDefault'
      BY <1>1, <1>4, <2>1 DEF Custody, FreeDefault
    <2>4. forgotten' \ forgotten \subseteq {n}
      BY <1>4 DEF ConstructThrows, InState
    <2>. QED  BY <1>1, <2>1, <2>2, <2>3, <2>4 DEF Slots
  <1>. QED  BY <1>3, <1>4 DEF PopOneArgs

LEMMA ReleaseKeeps ==
  ASSUME Slots, NEW v \in Var, Release(v)
  PROVE  Slots' /\ forgotten' = forgotten /\ Kept' = Kept
  <1>1. /\ Reset(owned[v]) /\ owned[v] \in SUBSET Node
        /\ free' = free \cup owned[v]
        /\ owned' = [owned EXCEPT ![v] = @ \ owned[v]]
        /\ Values /\ Custody /\ FreeDefault
    BY DEF Release, Slots, Custody
  <1>2. /\ Values'
        /\ \A n \in owned[v] : value'[n] = "default"
        /\ \A n \in Node \ owned[v] : value'[n] = value[n]
    BY <1>1, ResetValues
  <1>3. Custody' /\ Kept' = Kept
    BY <1>1, ToPool
  <1>4. FreeDefault' /\ forgotten' = forgotten
    BY <1>1, <1>2 DEF Custody, FreeDefault, Reset
  <1>. QED  BY <1>2, <1>3, <1>4 DEF Slots

LEMMA ReleaseThrowsKeeps ==
  ASSUME Slots, NEW v \in Var, ReleaseThrows(v)
  PROVE  Slots' /\ forgotten' = forgotten /\ Kept' = Kept
  <1>1. /\ ResetThrows(owned[v]) /\ UNCHANGED <<free, owned>>
        /\ owned[v] \in SUBSET Node
        /\ Values /\ Custody /\ FreeDefault
    BY DEF ReleaseThrows, Slots, Custody
  <1>2. Values' /\ \A n \in Node \ owned[v] : value'[n] = value[n]
    BY <1>1, ResetThrowsValues
  <1>3. Custody' /\ FreeDefault' /\ Kept' = Kept
    BY <1>1, <1>2 DEF Custody, FreeDefault, Kept
  <1>4. forgotten' = forgotten
    BY <1>1 DEF ResetThrows
  <1>. QED  BY <1>2, <1>3, <1>4 DEF Slots

\* The two ways in which an assignment loses a node n.
Overwritten(n) ==
  \E v, w \in NodeVar : n \in owned[v] /\ owned'[v] = owned[w] /\ UNCHANGED <<value, free>>
LostInThrow(n) ==
  \E s, o \in StackVar :
    /\ n \in owned[o]
    /\ owned'[s] = owned[s] /\ \E m \in owned[s] : value'[m] = "dead"

LEMMA AssignNodeKeeps ==
  ASSUME Slots, NEW v \in Var, NEW w \in Var, AssignNode(v, w)
  PROVE  /\ Slots' /\ forgotten' = forgotten
         /\ \A n \in Kept \ Kept' : Overwritten(n)
  <1>1. /\ v \in NodeVar /\ w \in NodeVar /\ v # w
        /\ owned' = HandedOver(v, w) /\ UNCHANGED <<value, free, forgotten>>
        /\ Values /\ Custody /\ FreeDefault
    BY DEF AssignNode, Slots
  <1>2. Custody' /\ Kept \ Kept' \subseteq owned[v] /\ owned'[v] = owned[w]
    BY <1>1, Replaced
  <1>3. \A n \in Kept \ Kept' : Overwritten(n)
    BY <1>1, <1>2 DEF Overwritten
  <1>4. Values' /\ FreeDefault'
    BY <1>1 DEF Values, FreeDefault
  <1>. QED  BY <1>1, <1>2, <1>3, <1>4 DEF Slots

LEMMA AssignStackKeeps ==
  ASSUME Slots, NEW s \in Var, NEW o \in Var, AssignStack(s, o)
  PROVE  /\ Slots' /\ forgotten' = forgotten
         /\ \A n \in Kept \ Kept' : LostInThrow(n)
  <1>1. /\ s \in StackVar /\ o \in StackVar /\ s # o /\ s \notin NodeVar
        /\ owned[s] \in SUBSET Node
        /\ Values /\ Custody /\ FreeDefault
    BY VarAssumption DEF AssignStack, Slots, Custody
  <1>2. CASE /\ Reset(owned[s])
             /\ free' = free \cup owned[s]
             /\ owned' = HandedOver(s, o)
    <2>1. /\ Values'
          /\ \A n \in owned[s] : value'[n] = "default"
          /\ \A n \in Node \ owned[s] : value'[n] = value[n]
      BY <1>1, <1>2, ResetValues
    <2>2. Custody' /\ Kept' = Kept
      BY <1>1, <1>2, Replaced
    <2>3. FreeDefault' /\ forgotten' = forgotten
      BY <1>1, <1>2, <2>1 DEF Custody, FreeDefault, Reset
    <2>. QED  BY <2>1, <2>2, <2>3 DEF Slots
  <1>3. CASE /\ ResetThrows(owned[s])
             /\ owned' = [owned EXCEPT ![o] = {}]
             /\ UNCHANGED free
    <2>1. /\ Values'
          /\ \E n \in owned[s] : value'[n] = "dead"
          /\ \A n \in Node \ owned[s] : value'[n] = value[n]
      BY <1>1, <1>3, ResetThrowsValues
    <2>2. Custody' /\ Kept \ Kept' \subseteq owned[o]
      BY <1>1, <1>3, Dropped
    <2>3. owned'[s] = owned[s]
      BY <1>1, <1>3 DEF Custody
    <2>4. \A n \in Kept \ Kept' : LostInThrow(n)
      BY <1>1, <2>1, <2>2, <2>3 DEF LostInThrow
    <2>5. FreeDefault' /\ forgotten' = forgotten
      BY <1>1, <1>3, <2>1 DEF Custody, FreeDefault, ResetThrows
    <2>. QED  BY <2>1, <2>2, <2>4, <2>5 DEF Slots
  <1>. QED  BY <1>2, <1>3 DEF AssignStack

-----------------------------------------------------------------------------
(* The theorems                                                            *)

LEMMA InitSlots == Init => Slots
BY DEF Init, Slots, Values, Custody, FreeDefault, State, Var

\* A step keeps the invariant, forgets an object only out of a stack, and loses a node
\* in an assignment only.
LEMMA NextSlots ==
  ASSUME Slots, [Next]_vars
  PROVE  /\ Slots'
         /\ \A m \in forgotten' \ forgotten : \E o \in StackVar : m \in owned[o]
         /\ \A n \in Kept \ Kept' : Overwritten(n) \/ LostInThrow(n)
  <1>1. CASE \E v \in Var : Release(v) \/ ReleaseThrows(v)
    BY <1>1, ReleaseKeeps, ReleaseThrowsKeeps
  <1>2. CASE \E v, w \in Var : Move(v, w) \/ AssignNode(v, w) \/ AssignStack(v, w)
    <2>1. ASSUME NEW v \in Var, NEW w \in Var,
                 Move(v, w) \/ AssignNode(v, w) \/ AssignStack(v, w)
          PROVE  /\ Slots' /\ forgotten' = forgotten
                 /\ \A n \in Kept \ Kept' : Overwritten(n) \/ LostInThrow(n)
      <3>1. CASE Move(v, w)
        BY <3>1, MoveKeeps
      <3>2. CASE AssignNode(v, w)
        BY <3>2, AssignNodeKeeps
      <3>3. CASE AssignStack(v, w)
        BY <3>3, AssignStackKeeps
      <3>. QED  BY <2>1, <3>1, <3>2, <3>3
    <2>. QED  BY <1>2, <2>1
  <1>3. CASE \E v \in Var, n \in Node : AcquireOne(v, n)
    BY <1>3, AcquireOneKeeps
  <1>4. CASE \E s \in Var, count \in Counts : Acquire(s, count)
    BY <1>4, AcquireKeeps
  <1>5. CASE \E s, v \in Var, n \in Node : PopOneArgs(s, v, n)
    BY <1>5, PopOneArgsKeeps
  <1>6. CASE UNCHANGED vars
    BY <1>6 DEF vars, Slots, Values, Custody, FreeDefault, Kept
  <1>. QED  BY <1>1, <1>2, <1>3, <1>4, <1>5, <1>6 DEF Next

LEMMA SlotsInvariant == Spec => []Slots
  <1>1. Slots /\ [Next]_vars => Slots'
    BY NextSlots
  <1>. QED  BY InitSlots, <1>1, PTL DEF Spec

\* Every variable of the slots has its type, and every node one place.
THEOREM SlotsTypeCorrect == Spec => []TypeOK
BY SlotsInvariant, SlotsParts, PTL

\* The free nodes of an ObjectPool have default values, for every set of nodes and
\* handles and whichever constructors throw.
THEOREM FreeDefaultSafe == Spec => []FreeDefault
BY SlotsInvariant, SlotsParts, PTL

\* No constructor that throws, in an acquire, a pop, a release or a reset, loses a node:
\* only the two assignments do.
THEOREM LostInAssignmentSafe == Spec => LostInAssignment
  <1>. DEFINE Lost ==
         \A n \in Kept \ Kept' :
           \/ \E v, w \in NodeVar :
                n \in owned[v] /\ owned'[v] = owned[w] /\ UNCHANGED <<value, free>>
           \/ \E s, o \in StackVar :
                /\ n \in owned[o]
                /\ owned'[s] = owned[s] /\ \E m \in owned[s] : value'[m] = "dead"
  <1>1. Slots /\ [Next]_vars => [Lost]_vars
    BY NextSlots, Zenon DEF Overwritten, LostInThrow
  <1>. QED  BY SlotsInvariant, <1>1, PTL DEF Spec, LostInAssignment

\* acquireOne constructs over no object of a client: FreeDefault is the reason.
THEOREM AcquireForgetsNoneSafe == Spec => AcquireForgetsNone
  <1>1. Slots /\ [Next]_vars =>
          [\A n \in forgotten' \ forgotten : \E s \in StackVar : n \in owned[s]]_vars
    BY NextSlots
  <1>. QED  BY SlotsInvariant, <1>1, PTL DEF Spec, AcquireForgetsNone
=============================================================================
