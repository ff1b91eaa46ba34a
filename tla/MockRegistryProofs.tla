------------------------- MODULE MockRegistryProofs -------------------------
(***************************************************************************)
(* Proofs about MockRegistry, for every set of nodes, names, types and     *)
(* addresses and every number of entities and mocks.                       *)
(***************************************************************************)
EXTENDS MockRegistry, WellFoundedInduction, TLAPS

(***************************************************************************)
(* Operators.                                                              *)
(***************************************************************************)

(* A non-empty set of entities has a first one, and FirstOf is it.         *)
LEMMA FirstOfIsFirst ==
  ASSUME NEW S \in SUBSET Entities, S # {}
  PROVE  FirstOf(S) \in S /\ \A f \in S : FirstOf(S) <= f
<1>1. S \subseteq Nat
  BY BoundsAssumption DEF Entities
<1>2. PICK x \in S : \A y \in S : ~(<<y, x>> \in OpToRel(<, Nat))
  BY <1>1, NatLessThanWellFounded, WFMin
<1>3. \A y \in S : ~(y < x)
  BY <1>1, <1>2, Zenon DEF OpToRel
<1>4. \A y \in S : x <= y
  BY <1>1, <1>3
<1>. QED
  BY <1>4 DEF FirstOf

(* Registering keeps a name a name.                                        *)
LEMMA RegisteredNameType ==
  ASSUME NEW k, NEW s \in Names
  PROVE  RegisteredName(k, s) \in Names
BY DEF RegisteredName, Names

LEMMA LookupNameType ==
  ASSUME NEW k, NEW s \in Names
  PROVE  LookupName(k, s) \in Names
BY DEF LookupName, Names

-----------------------------------------------------------------------------
(***************************************************************************)
(* Type correctness.                                                       *)
(***************************************************************************)

(* Lazy initialisation leaves every entry an entity or None.               *)
LEMMA LazyRegType ==
  ASSUME TypeOK, NEW k
  PROVE  RegSeenBy(k) \in [Keys -> Entities \cup {None}]
<1>1. ASSUME NEW key \in Keys, Candidates(key) # {}
      PROVE  FirstOf(Candidates(key)) \in Entities
  <2>1. Candidates(key) \in SUBSET Entities
    BY DEF TypeOK, Candidates
  <2>. QED
    BY <1>1, <2>1, FirstOfIsFirst
<1>2. \A key \in Keys : reg[key] \in Entities \cup {None}
  BY DEF TypeOK
<1>3. tryLazyInit(k) \in [Keys -> Entities \cup {None}]
  BY <1>1, <1>2 DEF tryLazyInit
<1>. QED
  BY <1>3 DEF RegSeenBy, TypeOK

(* What a find returns is None or a live entity of the registry.            *)
LEMMA LookupType ==
  ASSUME TypeOK, NEW k \in Kinds \cap NamedKinds, NEW n \in Nodes, NEW s \in Names,
         Lookup(k, n, s) # None
  PROVE  /\ Lookup(k, n, s) \in Entities
         /\ state[Lookup(k, n, s)] = "alive"
         /\ obj[Lookup(k, n, s)] \in Object
<1>1. <<k, NodeId(n), LookupName(k, s)>> \in Keys
  BY LookupNameType DEF Keys, NodeId
<1>2. Lookup(k, n, s) \in Entities /\ state[Lookup(k, n, s)] = "alive"
  BY <1>1, LazyRegType DEF Lookup, Alive
<1>. QED
  BY <1>2 DEF TypeOK

LEMMA InitTypeOK == Init => TypeOK
BY NoneAssumption DEF Init, TypeOK, EmptyReg

(* Storing a new object, in a state the constructor chooses.               *)
LEMMA ConstructedTypeOK ==
  ASSUME TypeOK, NEW e \in Entities, NEW o \in Object, NEW st \in {"constructing", "alive"},
         obj' = [obj EXCEPT ![e] = o], state' = [state EXCEPT ![e] = st]
  PROVE  /\ state' \in [Entities -> {"new", "constructing", "alive", "dead"}]
         /\ obj' \in [Entities -> Object \cup {None}]
         /\ \A f \in Entities : obj'[f] = None <=> state'[f] = "new"
<1>1. o # None
  BY NoneAssumption
<1>. QED
  BY <1>1 DEF TypeOK

LEMMA NextTypeOK == TypeOK /\ [Next]_vars => TypeOK'
<1>. SUFFICES ASSUME TypeOK, [Next]_vars
              PROVE  TypeOK'
  OBVIOUS
<1>1. ASSUME NEW e \in Entities, NEW k \in Kinds, NEW n \in Nodes, NEW s \in Names,
             NEW t \in Types, NEW a \in Addrs, Create(e, k, n, s, t, a)
      PROVE  TypeOK'
  <2>. DEFINE o == [kind |-> k, node |-> n, name |-> RegisteredName(k, s),
                    type |-> t, addr |-> a]
  <2>1. o \in Object
    BY <1>1, RegisteredNameType DEF Create, Object
  <2>2. KeyOf(o) \in Keys
    BY <1>1, RegisteredNameType DEF Create, KeyOf, Keys, NodeId
  <2>3. reg' \in [Keys -> Entities \cup {None}]
    BY <1>1, <2>2 DEF Create, registerEntity, TypeOK
  <2>4. obj' = [obj EXCEPT ![e] = o] /\ state' = [state EXCEPT ![e] = "alive"]
    BY <1>1 DEF Create, Fresh
  <2>. QED
    BY <1>1, <2>1, <2>3, <2>4, ConstructedTypeOK DEF Create, TypeOK
<1>2. ASSUME NEW e \in Entities, NEW n \in Nodes, NEW a \in Addrs, CreateTimer(e, n, a)
      PROVE  TypeOK'
  <2>. DEFINE o == [kind |-> "timer", node |-> n, name |-> None, type |-> None, addr |-> a]
  <2>1. o \in Object
    BY DEF Object
  <2>2. obj' = [obj EXCEPT ![e] = o] /\ state' = [state EXCEPT ![e] = "alive"]
    BY <1>2 DEF CreateTimer
  <2>3. timersReg' \in [Nodes -> SUBSET Entities]
    BY <1>2 DEF CreateTimer, TypeOK, NodeId
  <2>. QED
    BY <1>2, <2>1, <2>2, <2>3, ConstructedTypeOK DEF CreateTimer, TypeOK
<1>3. ASSUME NEW e \in Entities, NEW k \in Kinds, NEW n \in Nodes, NEW s \in Names,
             NEW t \in Types, NEW a \in Addrs, Construct(e, k, n, s, t, a)
      PROVE  TypeOK'
  <2>. DEFINE o == [kind |-> k, node |-> n, name |-> RegisteredName(k, s),
                    type |-> t, addr |-> a]
  <2>1. o \in Object
    BY <1>3, RegisteredNameType DEF Construct, Object, NamedKinds
  <2>2. obj' = [obj EXCEPT ![e] = o] /\ state' = [state EXCEPT ![e] = "constructing"]
    BY <1>3 DEF Construct, Fresh
  <2>. QED
    BY <1>3, <2>1, <2>2, ConstructedTypeOK DEF Construct, TypeOK
<1>4. ASSUME NEW e \in Entities, Adopt(e)
      PROVE  TypeOK'
  BY <1>4 DEF Adopt, TypeOK
<1>5. ASSUME NEW e \in Entities, Destroy(e)
      PROVE  TypeOK'
  BY <1>5 DEF Destroy, TypeOK, removeLazyInit
<1>6. ASSUME NEW m \in Mocks, NEW k \in Kinds, NEW n \in Nodes, NEW s \in Names,
             NEW t \in Types, FindAttach(m, k, n, s, t)
      PROVE  TypeOK'
  <2>. DEFINE e == Lookup(k, n, s)
              r == [addr |-> obj[e].addr, type |-> t, alive |-> TRUE, owner |-> e]
  <2>1. k \in Kinds \cap NamedKinds /\ e # None
    BY <1>6 DEF FindAttach, Found, MockedKinds
  <2>2. e \in Entities /\ obj[e].addr \in Addrs
    BY <2>1, LookupType DEF Object
  <2>3. r \in Mock
    BY <2>2 DEF Mock
  <2>4. mocks' = [mocks EXCEPT ![m] = r] /\ mockReg' = [mockReg EXCEPT ![obj[e].addr] = m]
    BY <1>6 DEF FindAttach
  <2>5. reg' \in [Keys -> Entities \cup {None}] /\ pending' \subseteq Entities
    BY <1>6, LazyRegType DEF FindAttach, LazyInitEffect, TypeOK
  <2>6. mocks' \in [Mocks -> Mock \cup {None}]
    BY <2>3, <2>4 DEF TypeOK
  <2>7. mockReg' \in [Addrs -> Mocks \cup {None}]
    BY <2>4 DEF TypeOK
  <2>. QED
    BY <1>6, <2>5, <2>6, <2>7 DEF FindAttach, TypeOK
<1>7. ASSUME NEW k \in Kinds, NEW n \in Nodes, NEW s \in Names,
             NEW t \in Types, FindNothing(k, n, s, t)
      PROVE  TypeOK'
  BY <1>7, LazyRegType DEF FindNothing, LazyInitEffect, TypeOK
<1>8. ASSUME NEW m \in Mocks, DestroyMock(m)
      PROVE  TypeOK'
  <2>1. mocks[m] \in Mock
    BY <1>8 DEF DestroyMock, TypeOK
  <2>2. mocks' \in [Mocks -> Mock \cup {None}]
    BY <1>8, <2>1 DEF DestroyMock, TypeOK, Mock
  <2>3. mockReg' \in [Addrs -> Mocks \cup {None}]
    BY <1>8 DEF DestroyMock, TypeOK
  <2>. QED
    BY <1>8, <2>2, <2>3 DEF DestroyMock, TypeOK
<1>9. ASSUME Reset
      PROVE  TypeOK'
  BY <1>9 DEF Reset, TypeOK, EmptyReg
<1>10. CASE UNCHANGED vars
  BY <1>10 DEF vars, TypeOK
<1>. QED
  BY <1>1, <1>2, <1>3, <1>4, <1>5, <1>6, <1>7, <1>8, <1>9, <1>10 DEF Next

(* Every reachable state is well typed: registry, lazy-init queue and mock  *)
(* map only ever refer to entities and mocks that were made.                *)
THEOREM TypeCorrect == Spec => []TypeOK
BY InitTypeOK, NextTypeOK, PTL DEF Spec

-----------------------------------------------------------------------------
(***************************************************************************)
(* The registry, whatever the test does.                                   *)
(*                                                                         *)
(* LookupIsolation, PendingLive and SuiteIsolation together are inductive   *)
(* once one adds that nothing refers to an entity not constructed yet (its  *)
(* object would be written under the reference), and says isolation by key. *)
(***************************************************************************)
KeysMatch == \A key \in Keys : reg[key] # None => KeyOf(obj[reg[key]]) = key

TimersMatch == \A n \in Nodes : \A e \in timersReg[n] :
                 obj[e].kind = "timer" /\ obj[e].node = n

NothingUnborn ==
  /\ \A key \in Keys : reg[key] # None => state[reg[key]] # "new"
  /\ \A n \in Nodes : \A e \in timersReg[n] : state[e] # "new"
  /\ \A e \in forgotten : state[e] # "new"

RegistryInv == KeysMatch /\ TimersMatch /\ PendingLive /\ SuiteIsolation /\ NothingUnborn

(* What lazy initialisation puts in the registry comes from the queue and   *)
(* is alive and of the right key; the rest it leaves alone.                 *)
LEMMA LazyRegSource ==
  ASSUME TypeOK, NEW k, NEW key \in Keys, RegSeenBy(k)[key] # reg[key]
  PROVE  LET e == RegSeenBy(k)[key]
         IN  /\ e \in pending /\ Alive(e) /\ KeyOf(obj[e]) = key /\ obj[e].kind = k
             /\ ~Alive(reg[key]) /\ k \in LazyKinds
<1>1. k \in LazyKinds /\ key[1] = k /\ Candidates(key) # {} /\ ~Alive(reg[key])
      /\ RegSeenBy(k)[key] = FirstOf(Candidates(key))
  BY DEF RegSeenBy, tryLazyInit
<1>2. Candidates(key) \in SUBSET Entities
  BY DEF TypeOK, Candidates
<1>3. RegSeenBy(k)[key] \in Candidates(key)
  BY <1>1, <1>2, FirstOfIsFirst
<1>. QED
  BY <1>1, <1>3 DEF Candidates

(* A new entity is not referred to by anything that existed.                *)
LEMMA NewIsFresh ==
  ASSUME TypeOK, RegistryInv, NEW e \in Entities, state[e] = "new"
  PROVE  /\ \A key \in Keys : reg[key] # e
         /\ \A n \in Nodes : e \notin timersReg[n]
         /\ e \notin pending /\ e \notin forgotten
BY NoneAssumption DEF RegistryInv, NothingUnborn, PendingLive, Exists, TypeOK

LEMMA InitRegistryInv == Init => RegistryInv
BY DEF Init, RegistryInv, KeysMatch, TimersMatch, PendingLive, SuiteIsolation, NothingUnborn,
       EmptyReg

(* The two find actions change the registry by lazy initialisation only.    *)
LEMMA FindRegistryInv ==
  ASSUME TypeOK, RegistryInv, NEW k \in Kinds, LazyInitEffect(k),
         UNCHANGED <<state, obj, timersReg, forgotten>>
  PROVE  RegistryInv'
<1>1. \A key \in Keys : \/ reg'[key] = reg[key]
                        \/ /\ reg'[key] \in pending /\ Alive(reg'[key])
                           /\ KeyOf(obj[reg'[key]]) = key
  BY LazyRegSource DEF LazyInitEffect
<1>2. pending' \subseteq pending
  BY DEF LazyInitEffect
<1>3. KeysMatch'
  BY <1>1 DEF RegistryInv, KeysMatch, KeyOf, NodeId
<1>4. SuiteIsolation'
  BY <1>1, <1>2 DEF RegistryInv, SuiteIsolation
<1>5. NothingUnborn'
  BY <1>1 DEF RegistryInv, NothingUnborn, Alive
<1>6. PendingLive' /\ TimersMatch'
  BY <1>2 DEF RegistryInv, PendingLive, TimersMatch, Exists
<1>. QED
  BY <1>3, <1>4, <1>5, <1>6 DEF RegistryInv

LEMMA NextRegistryInv == TypeOK /\ RegistryInv /\ [Next]_vars => RegistryInv'
<1>. SUFFICES ASSUME TypeOK, RegistryInv, [Next]_vars
              PROVE  RegistryInv'
  OBVIOUS
<1>. USE DEF RegistryInv
<1>1. ASSUME NEW e \in Entities, NEW k \in Kinds, NEW n \in Nodes, NEW s \in Names,
             NEW t \in Types, NEW a \in Addrs, Create(e, k, n, s, t, a)
      PROVE  RegistryInv'
  <2>. DEFINE o == [kind |-> k, node |-> n, name |-> RegisteredName(k, s),
                    type |-> t, addr |-> a]
  <2>1. KeyOf(o) \in Keys /\ state[e] = "new"
    BY <1>1, RegisteredNameType DEF Create, KeyOf, Keys, NodeId, Fresh, NewEntity
  <2>2. obj' = [obj EXCEPT ![e] = o] /\ state' = [state EXCEPT ![e] = "alive"]
    BY <1>1 DEF Create, Fresh
  <2>3. \A key \in Keys : reg'[key] = reg[key] \/ (key = KeyOf(o) /\ reg'[key] = e)
    BY <1>1, <2>1 DEF Create, registerEntity, TypeOK
  <2>4. \A key \in Keys : reg[key] # e
    BY <2>1, NewIsFresh
  <2>5. e \notin pending /\ e \notin forgotten /\ \A x \in Nodes : e \notin timersReg[x]
    BY <2>1, NewIsFresh
  <2>6. obj'[e] = o /\ \A f \in Entities : f # e => obj'[f] = obj[f] /\ state'[f] = state[f]
    BY <2>2 DEF TypeOK
  <2>7. KeysMatch'
    BY <2>3, <2>4, <2>6 DEF KeysMatch, KeyOf, NodeId, TypeOK
  <2>8. NothingUnborn'
    BY <1>1, <2>2, <2>3, <2>4, <2>5 DEF NothingUnborn, TypeOK, Create
  <2>9. SuiteIsolation'
    BY <1>1, <2>3, <2>5 DEF SuiteIsolation, Create
  <2>10. PendingLive' /\ TimersMatch'
    BY <1>1, <2>5, <2>6 DEF PendingLive, TimersMatch, Exists, TypeOK, Create
  <2>. QED
    BY <2>7, <2>8, <2>9, <2>10
<1>2. ASSUME NEW e \in Entities, NEW n \in Nodes, NEW a \in Addrs, CreateTimer(e, n, a)
      PROVE  RegistryInv'
  <2>. DEFINE o == [kind |-> "timer", node |-> n, name |-> None, type |-> None, addr |-> a]
  <2>1. state[e] = "new" /\ reg' = reg /\ pending' = pending /\ forgotten' = forgotten
    BY <1>2 DEF CreateTimer, NewEntity
  <2>2. obj' = [obj EXCEPT ![e] = o] /\ state' = [state EXCEPT ![e] = "alive"]
    BY <1>2 DEF CreateTimer
  <2>3. \A x \in Nodes : timersReg'[x] = timersReg[x] \/ (x = n /\ timersReg'[x] = timersReg[x] \cup {e})
    BY <1>2 DEF CreateTimer, NodeId, TypeOK
  <2>4. \A key \in Keys : reg[key] # e
    BY <2>1, NewIsFresh
  <2>5. e \notin pending /\ e \notin forgotten /\ \A x \in Nodes : e \notin timersReg[x]
    BY <2>1, NewIsFresh
  <2>6. /\ obj'[e] = o /\ state'[e] = "alive"
        /\ \A f \in Entities : f # e => obj'[f] = obj[f] /\ state'[f] = state[f]
    BY <2>2 DEF TypeOK
  <2>7. KeysMatch'
    BY <2>1, <2>4, <2>6 DEF KeysMatch, KeyOf, NodeId, TypeOK
  <2>8. NothingUnborn'
    BY <2>1, <2>3, <2>4, <2>5, <2>6 DEF NothingUnborn, TypeOK
  <2>9. SuiteIsolation'
    BY <2>1, <2>3, <2>5 DEF SuiteIsolation
  <2>10. TimersMatch'
    BY <2>3, <2>5, <2>6 DEF TimersMatch, TypeOK
  <2>11. PendingLive'
    BY <2>1, <2>5, <2>6 DEF PendingLive, Exists, TypeOK
  <2>. QED
    BY <2>7, <2>8, <2>9, <2>10, <2>11
<1>3. ASSUME NEW e \in Entities, NEW k \in Kinds, NEW n \in Nodes, NEW s \in Names,
             NEW t \in Types, NEW a \in Addrs, Construct(e, k, n, s, t, a)
      PROVE  RegistryInv'
  <2>. DEFINE o == [kind |-> k, node |-> n, name |-> RegisteredName(k, s),
                    type |-> t, addr |-> a]
  <2>1. /\ state[e] = "new" /\ reg' = reg /\ timersReg' = timersReg /\ forgotten' = forgotten
        /\ pending' = pending \cup {e} /\ k \in LazyKinds
    BY <1>3 DEF Construct, Fresh, NewEntity
  <2>2. obj' = [obj EXCEPT ![e] = o] /\ state' = [state EXCEPT ![e] = "constructing"]
    BY <1>3 DEF Construct, Fresh
  <2>3. \A key \in Keys : reg[key] # e
    BY <2>1, NewIsFresh
  <2>4. e \notin pending /\ e \notin forgotten /\ \A x \in Nodes : e \notin timersReg[x]
    BY <2>1, NewIsFresh
  <2>5. /\ obj'[e] = o /\ state'[e] = "constructing"
        /\ \A f \in Entities : f # e => obj'[f] = obj[f] /\ state'[f] = state[f]
    BY <2>2 DEF TypeOK
  <2>6. KeysMatch'
    BY <2>1, <2>3, <2>5 DEF KeysMatch, KeyOf, NodeId, TypeOK
  <2>7. NothingUnborn'
    BY <2>1, <2>3, <2>4, <2>5 DEF NothingUnborn, TypeOK
  <2>8. SuiteIsolation'
    BY <2>1, <2>4 DEF SuiteIsolation
  <2>9. TimersMatch'
    BY <2>1, <2>4, <2>5 DEF TimersMatch, TypeOK
  <2>10. PendingLive'
    BY <2>1, <2>4, <2>5 DEF PendingLive, Exists, TypeOK
  <2>. QED
    BY <2>6, <2>7, <2>8, <2>9, <2>10
<1>4. ASSUME NEW e \in Entities, Adopt(e)
      PROVE  RegistryInv'
  BY <1>4 DEF Adopt, KeysMatch, KeyOf, NodeId, TimersMatch, PendingLive, SuiteIsolation,
              NothingUnborn, Exists, TypeOK
<1>5. ASSUME NEW e \in Entities, Destroy(e)
      PROVE  RegistryInv'
  <2>1. UNCHANGED <<obj, reg, timersReg, forgotten>> /\ pending' = removeLazyInit(e)
    BY <1>5 DEF Destroy
  <2>2. state' = [state EXCEPT ![e] = "dead"] /\ state[e] = "alive"
    BY <1>5 DEF Destroy
  <2>3. pending' \subseteq pending /\ e \notin pending'
    BY <2>1 DEF removeLazyInit, PendingLive
  <2>4. PendingLive'
    BY <2>1, <2>2, <2>3 DEF PendingLive, Exists, TypeOK
  <2>5. SuiteIsolation'
    BY <2>1, <2>3 DEF SuiteIsolation
  <2>6. NothingUnborn'
    BY <2>1, <2>2 DEF NothingUnborn, TypeOK
  <2>7. KeysMatch' /\ TimersMatch'
    BY <2>1 DEF KeysMatch, TimersMatch, KeyOf, NodeId
  <2>. QED
    BY <2>4, <2>5, <2>6, <2>7
<1>6. ASSUME NEW m \in Mocks, NEW k \in Kinds, NEW n \in Nodes, NEW s \in Names,
             NEW t \in Types, FindAttach(m, k, n, s, t)
      PROVE  RegistryInv'
  BY <1>6, FindRegistryInv DEF FindAttach
<1>7. ASSUME NEW k \in Kinds, NEW n \in Nodes, NEW s \in Names,
             NEW t \in Types, FindNothing(k, n, s, t)
      PROVE  RegistryInv'
  BY <1>7, FindRegistryInv DEF FindNothing
<1>8. ASSUME NEW m \in Mocks, DestroyMock(m)
      PROVE  RegistryInv'
  BY <1>8 DEF DestroyMock, KeysMatch, KeyOf, NodeId, TimersMatch, PendingLive, SuiteIsolation,
              NothingUnborn, Exists
<1>9. ASSUME Reset
      PROVE  RegistryInv'
  <2>1. /\ \A key \in Keys : reg'[key] = None
        /\ \A n \in Nodes : timersReg'[n] = {}
        /\ pending' = {} /\ UNCHANGED <<state, obj>>
        /\ forgotten' = {e \in Entities : state[e] # "new"}
    BY <1>9 DEF Reset, EmptyReg
  <2>2. None \notin forgotten'
    BY <2>1, NoneAssumption
  <2>. QED
    BY <2>1, <2>2 DEF KeysMatch, TimersMatch, PendingLive, SuiteIsolation, NothingUnborn
<1>10. CASE UNCHANGED vars
  BY <1>10 DEF vars, KeysMatch, KeyOf, NodeId, TimersMatch, PendingLive, SuiteIsolation,
               NothingUnborn, Exists
<1>. QED
  BY <1>1, <1>2, <1>3, <1>4, <1>5, <1>6, <1>7, <1>8, <1>9, <1>10 DEF Next

LEMMA IsolationFromInv == TypeOK /\ RegistryInv => LookupIsolation
BY DEF RegistryInv, KeysMatch, TimersMatch, LookupIsolation, KeyOf, NodeId, Keys

(* Whatever the test does, a lookup for a node never yields another node's  *)
(* entity, nor one of another kind or name: the keys are control blocks.    *)
THEOREM LookupIsolated == Spec => []LookupIsolation
BY InitTypeOK, NextTypeOK, InitRegistryInv, NextRegistryInv, IsolationFromInv, PTL DEF Spec

(* tryLazyInit never runs the init_callback of a destroyed action entity.   *)
THEOREM PendingIsLive == Spec => []PendingLive
<1>1. RegistryInv => PendingLive
  BY DEF RegistryInv
<1>. QED
  BY <1>1, InitTypeOK, NextTypeOK, InitRegistryInv, NextRegistryInv, PTL DEF Spec

(* Nothing constructed before a reset() is found after it.                  *)
THEOREM SuitesIsolated == Spec => []SuiteIsolation
<1>1. RegistryInv => SuiteIsolation
  BY DEF RegistryInv
<1>. QED
  BY <1>1, InitTypeOK, NextTypeOK, InitRegistryInv, NextRegistryInv, PTL DEF Spec

(* An entry that refers to a live entity keeps it until reset().            *)
THEOREM FirstEntityWins == Spec => FirstWins
<1>. DEFINE Keep == \A k \in Keys : Alive(reg[k]) => reg'[k] = reg[k] \/ reg' = EmptyReg
<1>1. ASSUME TypeOK, [Next]_vars
      PROVE  [Keep]_vars
  <2>. SUFFICES ASSUME Next
                PROVE  Keep
    BY <1>1
  <2>1. ASSUME NEW e \in Entities, NEW k \in Kinds, NEW n \in Nodes, NEW s \in Names,
               NEW t \in Types, NEW a \in Addrs, Create(e, k, n, s, t, a)
        PROVE  Keep
    <3>. DEFINE o == [kind |-> k, node |-> n, name |-> RegisteredName(k, s),
                      type |-> t, addr |-> a]
    <3>1. KeyOf(o) \in Keys /\ reg' = registerEntity(KeyOf(o), e)
      BY <2>1, RegisteredNameType DEF Create, KeyOf, Keys, NodeId
    <3>. HIDE DEF o
    <3>. QED
      BY <1>1, <3>1 DEF registerEntity, TypeOK
  <2>2. ASSUME NEW k \in Kinds, NEW n \in Nodes, NEW s \in Names, NEW t \in Types,
               (\E m \in Mocks : FindAttach(m, k, n, s, t)) \/ FindNothing(k, n, s, t)
        PROVE  Keep
    <3>1. reg' = RegSeenBy(k)
      BY <2>2 DEF FindAttach, FindNothing, LazyInitEffect
    <3>. QED
      BY <1>1, <3>1, LazyRegSource
  <2>3. CASE Reset
    BY <2>3 DEF Reset
  <2>4. CASE UNCHANGED reg
    BY <2>4
  <2>5. ASSUME NEW e \in Entities, Adopt(e) \/ Destroy(e)
        PROVE  Keep
    BY <2>4, <2>5 DEF Adopt, Destroy
  <2>6. ASSUME NEW e \in Entities, NEW n \in Nodes, NEW a \in Addrs, CreateTimer(e, n, a)
        PROVE  Keep
    BY <2>4, <2>6 DEF CreateTimer
  <2>7. ASSUME NEW e \in Entities, NEW k \in Kinds, NEW n \in Nodes, NEW s \in Names,
               NEW t \in Types, NEW a \in Addrs, Construct(e, k, n, s, t, a)
        PROVE  Keep
    BY <2>4, <2>7 DEF Construct
  <2>8. ASSUME NEW m \in Mocks, DestroyMock(m)
        PROVE  Keep
    BY <2>4, <2>8 DEF DestroyMock
  <2>. HIDE DEF Keep
  <2>. QED
    BY <2>1, <2>2, <2>3, <2>5, <2>6, <2>7, <2>8 DEF Next
<1>. QED
  BY <1>1, InitTypeOK, NextTypeOK, PTL DEF Spec, FirstWins

-----------------------------------------------------------------------------
(***************************************************************************)
(* Mocks.                                                                  *)
(*                                                                         *)
(* mockRegistry_ is keyed by address, so the argument is about addresses:   *)
(* entities that exist at the same time have different ones, what is        *)
(* attached at an address is a live mock made for it and, when tests drop   *)
(* mocks no later than their entities, that mock's entity is still there.   *)
(***************************************************************************)
LiveMock(m) == mocks[m] # None /\ mocks[m].alive

AddrUnique ==
  \A e, f \in Entities : (Exists(e) /\ Exists(f) /\ obj[e].addr = obj[f].addr) => e = f

AttachedLive ==
  \A a \in Addrs : mockReg[a] # None => LiveMock(mockReg[a]) /\ mocks[mockReg[a]].addr = a

OwnerThere ==
  \A m \in Mocks : LiveMock(m) =>
    LET e == mocks[m].owner
    IN  /\ state[e] = "alive" /\ obj[e].addr = mocks[m].addr
        /\ obj[e].kind \in MockedKinds
        /\ obj[e].kind \in CheckedKinds => obj[e].type = mocks[m].type

MockInv == AddrUnique /\ AttachedLive /\ (ScopedMocks => OwnerThere) /\ (QuietReset => NoOrphanMock)

LEMMA InitMockInv == Init => MockInv
BY DEF Init, MockInv, AddrUnique, AttachedLive, OwnerThere, NoOrphanMock, LiveMock, Exists

(* Constructing takes a free address and leaves the mocks alone.            *)
LEMMA ConstructedMockInv ==
  ASSUME TypeOK, MockInv, NEW e \in Entities, NEW o \in Object,
         NEW st \in {"constructing", "alive"}, state[e] = "new", FreeAddr(o.addr),
         obj' = [obj EXCEPT ![e] = o], state' = [state EXCEPT ![e] = st],
         UNCHANGED <<mockReg, mocks>>
  PROVE  MockInv'
<1>1. /\ obj'[e] = o /\ state'[e] = st
      /\ \A f \in Entities : f # e => obj'[f] = obj[f] /\ state'[f] = state[f]
  BY DEF TypeOK
<1>2. \A f \in Entities : Exists(f) => obj[f].addr # o.addr
  BY DEF FreeAddr, Exists
<1>3. AddrUnique'
  BY <1>1, <1>2 DEF MockInv, AddrUnique, Exists
<1>4. AttachedLive' /\ (NoOrphanMock => NoOrphanMock')
  BY DEF MockInv, AttachedLive, NoOrphanMock, LiveMock
<1>5. OwnerThere => OwnerThere'
  BY <1>1 DEF OwnerThere, LiveMock, TypeOK, Mock
<1>. QED
  BY <1>3, <1>4, <1>5 DEF MockInv

LEMMA NextMockInv == TypeOK /\ RegistryInv /\ MockInv /\ [Next]_vars => MockInv'
<1>. SUFFICES ASSUME TypeOK, RegistryInv, MockInv, [Next]_vars
              PROVE  MockInv'
  OBVIOUS
<1>1. ASSUME NEW e \in Entities, NEW k \in Kinds, NEW n \in Nodes, NEW s \in Names,
             NEW t \in Types, NEW a \in Addrs,
             Create(e, k, n, s, t, a) \/ Construct(e, k, n, s, t, a)
      PROVE  MockInv'
  <2>. DEFINE o == [kind |-> k, node |-> n, name |-> RegisteredName(k, s),
                    type |-> t, addr |-> a]
  <2>1. o \in Object
    BY <1>1, RegisteredNameType DEF Create, Construct, Object, NamedKinds
  <2>2. /\ state[e] = "new" /\ FreeAddr(o.addr) /\ obj' = [obj EXCEPT ![e] = o]
        /\ UNCHANGED <<mockReg, mocks>>
    BY <1>1 DEF Create, Construct, Fresh, NewEntity
  <2>3. \E st \in {"constructing", "alive"} : state' = [state EXCEPT ![e] = st]
    BY <1>1 DEF Create, Construct
  <2>. HIDE DEF o
  <2>. QED
    BY <2>1, <2>2, <2>3, ConstructedMockInv
<1>2. ASSUME NEW e \in Entities, NEW n \in Nodes, NEW a \in Addrs, CreateTimer(e, n, a)
      PROVE  MockInv'
  <2>. DEFINE o == [kind |-> "timer", node |-> n, name |-> None, type |-> None, addr |-> a]
  <2>1. o \in Object
    BY DEF Object
  <2>2. /\ state[e] = "new" /\ FreeAddr(o.addr) /\ obj' = [obj EXCEPT ![e] = o]
        /\ state' = [state EXCEPT ![e] = "alive"] /\ UNCHANGED <<mockReg, mocks>>
    BY <1>2 DEF CreateTimer, NewEntity
  <2>. HIDE DEF o
  <2>. QED
    BY <2>1, <2>2, ConstructedMockInv
<1>3. ASSUME NEW e \in Entities, Adopt(e)
      PROVE  MockInv'
  <2>1. /\ state[e] = "constructing" /\ UNCHANGED <<obj, mockReg, mocks>>
        /\ state' = [state EXCEPT ![e] = "alive"]
    BY <1>3 DEF Adopt
  <2>2. AddrUnique'
    BY <2>1 DEF MockInv, AddrUnique, Exists, TypeOK
  <2>3. AttachedLive' /\ (NoOrphanMock => NoOrphanMock')
    BY <2>1 DEF MockInv, AttachedLive, NoOrphanMock, LiveMock
  <2>4. OwnerThere => OwnerThere'
    BY <2>1 DEF OwnerThere, LiveMock, TypeOK, Mock
  <2>. QED
    BY <2>2, <2>3, <2>4 DEF MockInv
<1>4. ASSUME NEW e \in Entities, Destroy(e)
      PROVE  MockInv'
  <2>1. /\ state[e] = "alive" /\ UNCHANGED <<obj, mockReg, mocks>>
        /\ state' = [state EXCEPT ![e] = "dead"]
        /\ ScopedMocks => \A m \in Mocks : LiveMock(m) => mocks[m].owner # e
    BY <1>4 DEF Destroy, LiveMock
  <2>2. AddrUnique'
    BY <2>1 DEF MockInv, AddrUnique, Exists, TypeOK
  <2>3. AttachedLive' /\ (NoOrphanMock => NoOrphanMock')
    BY <2>1 DEF MockInv, AttachedLive, NoOrphanMock, LiveMock
  <2>4. ScopedMocks /\ OwnerThere => OwnerThere'
    BY <2>1 DEF OwnerThere, LiveMock, TypeOK, Mock
  <2>. QED
    BY <2>2, <2>3, <2>4 DEF MockInv
<1>5. ASSUME NEW m \in Mocks, NEW k \in Kinds, NEW n \in Nodes, NEW s \in Names,
             NEW t \in Types, FindAttach(m, k, n, s, t)
      PROVE  MockInv'
  <2>. DEFINE e == Lookup(k, n, s)
              r == [addr |-> obj[e].addr, type |-> t, alive |-> TRUE, owner |-> e]
  <2>1. /\ k \in Kinds \cap NamedKinds /\ e # None /\ UNCHANGED <<state, obj>>
        /\ k \in MockedKinds /\ (k \in CheckedKinds => obj[e].type = t)
        /\ getMock(obj[e].addr) = None /\ mocks[m] = None
    BY <1>5 DEF FindAttach, Found, MockedKinds
  <2>2. e \in Entities /\ state[e] = "alive" /\ obj[e].addr \in Addrs
    BY <2>1, LookupType DEF Object
  <2>3. obj[e].kind = k
    <3>1. <<k, NodeId(n), LookupName(k, s)>> \in Keys
      BY <2>1, LookupNameType DEF Keys, NodeId
    <3>2. RegSeenBy(k)[<<k, NodeId(n), LookupName(k, s)>>] = e
      BY <2>1 DEF Lookup
    <3>. HIDE DEF e
    <3>. QED
      BY <2>1, <3>1, <3>2, LazyRegSource DEF RegistryInv, KeysMatch, KeyOf
  <2>4. mocks' = [mocks EXCEPT ![m] = r] /\ mockReg' = [mockReg EXCEPT ![obj[e].addr] = m]
    BY <1>5 DEF FindAttach
  <2>. HIDE DEF e
  <2>5. mockReg[obj[e].addr] = None
    BY <2>1, <2>2 DEF MockInv, AttachedLive, LiveMock, getMock
  <2>6. /\ mocks'[m] = r /\ mockReg'[obj[e].addr] = m
        /\ \A x \in Mocks : x # m => mocks'[x] = mocks[x]
        /\ \A a \in Addrs : a # obj[e].addr => mockReg'[a] = mockReg[a]
    BY <2>2, <2>4 DEF TypeOK
  <2>7. r # None
    <3>1. r \in Mock
      BY <2>2 DEF Mock
    <3>. QED
      BY <3>1, NoneAssumption
  <2>8. AddrUnique'
    BY <2>1 DEF MockInv, AddrUnique, Exists
  <2>9. AttachedLive'
    <3>1. \A a \in Addrs : mockReg[a] # m
      BY <2>1, NoneAssumption DEF MockInv, AttachedLive, LiveMock
    <3>. QED
      BY <2>6, <2>7, <3>1 DEF MockInv, AttachedLive, LiveMock, TypeOK
  <2>10. OwnerThere => OwnerThere'
    BY <2>1, <2>2, <2>3, <2>6 DEF OwnerThere, LiveMock
  <2>11. NoOrphanMock => NoOrphanMock'
    BY <2>5, <2>6, NoneAssumption DEF NoOrphanMock, TypeOK, Mock
  <2>. QED
    BY <2>8, <2>9, <2>10, <2>11 DEF MockInv
<1>6. ASSUME NEW m \in Mocks, DestroyMock(m)
      PROVE  MockInv'
  <2>1. mocks[m] \in Mock /\ LiveMock(m) /\ UNCHANGED <<state, obj>>
    BY <1>6 DEF DestroyMock, TypeOK, LiveMock
  <2>2. /\ ~LiveMock(m)' /\ mockReg'[mocks[m].addr] = None
        /\ \A x \in Mocks : x # m => mocks'[x] = mocks[x]
        /\ \A a \in Addrs : a # mocks[m].addr => mockReg'[a] = mockReg[a]
    BY <1>6, <2>1 DEF DestroyMock, TypeOK, LiveMock, Mock
  <2>3. AddrUnique'
    BY <2>1 DEF MockInv, AddrUnique, Exists
  <2>4. AttachedLive'
    BY <2>1, <2>2, NoneAssumption DEF MockInv, AttachedLive, LiveMock, TypeOK
  <2>5. OwnerThere => OwnerThere'
    BY <2>1, <2>2 DEF OwnerThere, LiveMock
  <2>6. NoOrphanMock => NoOrphanMock'
    BY <2>1, <2>2 DEF NoOrphanMock, LiveMock, TypeOK, Mock
  <2>. QED
    BY <2>3, <2>4, <2>5, <2>6 DEF MockInv
<1>7. ASSUME Reset
      PROVE  MockInv'
  <2>1. /\ UNCHANGED <<state, obj, mocks>> /\ \A a \in Addrs : mockReg'[a] = None
        /\ QuietReset => \A m \in Mocks : ~LiveMock(m)
    BY <1>7 DEF Reset, LiveMock
  <2>2. AddrUnique' /\ AttachedLive' /\ (OwnerThere => OwnerThere')
    BY <2>1 DEF MockInv, AddrUnique, AttachedLive, OwnerThere, Exists, LiveMock
  <2>3. QuietReset => NoOrphanMock'
    BY <2>1 DEF NoOrphanMock, LiveMock
  <2>. QED
    BY <2>2, <2>3 DEF MockInv
<1>8. ASSUME UNCHANGED <<state, obj, mocks, mockReg>>
      PROVE  MockInv'
  BY <1>8 DEF MockInv, AddrUnique, AttachedLive, OwnerThere, NoOrphanMock, Exists, LiveMock
<1>. QED
  BY <1>1, <1>2, <1>3, <1>4, <1>5, <1>6, <1>7, <1>8 DEF Next, FindNothing, vars

(* The mock found at a live entity's address was made for that entity.     *)
LEMMA FoundMockIsOwn ==
  ASSUME ScopedMocks, TypeOK, MockInv, NEW e \in Entities, state[e] = "alive",
         getMock(obj[e].addr) # None
  PROVE  LET m == getMock(obj[e].addr)
         IN  m \in Mocks /\ LiveMock(m) /\ mocks[m].owner = e
<1>. DEFINE m == getMock(obj[e].addr)
<1>1. obj[e].addr \in Addrs
  BY DEF TypeOK, Object
<1>2. m \in Mocks /\ LiveMock(m) /\ mocks[m].addr = obj[e].addr
  BY <1>1 DEF getMock, MockInv, AttachedLive, LiveMock, TypeOK
<1>3. /\ mocks[m].owner \in Entities /\ state[mocks[m].owner] = "alive"
      /\ obj[mocks[m].owner].addr = obj[e].addr
  BY <1>2 DEF MockInv, OwnerThere, LiveMock, TypeOK, Mock
<1>4. mocks[m].owner = e
  BY <1>3 DEF MockInv, AddrUnique, Exists
<1>. QED
  BY <1>2, <1>4

(* With disciplined tests a call on an entity reaches that entity's mock.   *)
LEMMA RoutedFromInv == ScopedMocks /\ TypeOK /\ MockInv => RoutedToOwnMock
BY FoundMockIsOwn DEF RoutedToOwnMock

(* Calls are routed to the mock made for the very entity, memory reuse      *)
(* included, when no mock outlives its entity.                              *)
THEOREM CallsRouted == ASSUME ScopedMocks PROVE Spec => []RoutedToOwnMock
BY RoutedFromInv, InitTypeOK, NextTypeOK, InitRegistryInv, NextRegistryInv, InitMockInv,
   NextMockInv, PTL DEF Spec

(* A mock the test holds stays attached when no suite ends while one is     *)
(* held.                                                                    *)
THEOREM NoMockOrphaned == ASSUME QuietReset PROVE Spec => []NoOrphanMock
<1>1. MockInv => NoOrphanMock
  BY DEF MockInv
<1>. QED
  BY <1>1, InitTypeOK, NextTypeOK, InitRegistryInv, NextRegistryInv, InitMockInv, NextMockInv,
     PTL DEF Spec

-----------------------------------------------------------------------------
(***************************************************************************)
(* Retrieval.                                                              *)
(*                                                                         *)
(* With unique keys every live entity of this suite has its entry, or its  *)
(* init_callback is queued and will take the entry at the next look: no    *)
(* other live entity can hold the key, and removing a queued callback by   *)
(* address removes no one else's.                                          *)
(***************************************************************************)
Named(e) == obj[e].kind # "timer"

KeyTyped == \A e \in Entities : state[e] # "new" /\ Named(e) => KeyOf(obj[e]) \in Keys

KeysUnique ==
  \A e, f \in Entities :
    (Exists(e) /\ Exists(f) /\ Named(e) /\ Named(f) /\ KeyOf(obj[e]) = KeyOf(obj[f])) => e = f

Reachable(e) ==
  /\ state[e] = "constructing" => e \in pending
  /\ state[e] = "alive" => IF Named(e) THEN reg[KeyOf(obj[e])] = e \/ e \in pending
                                       ELSE e \in timersReg[obj[e].node]

RetrievalInv == KeyTyped /\ KeysUnique /\ \A e \in Entities \ forgotten : Reachable(e)

(* At a look an entity that is in the registry or queued has its entry.     *)
LEMMA SeenAtLook ==
  ASSUME TypeOK, RegistryInv, KeyTyped, KeysUnique, NEW e \in Entities, state[e] = "alive",
         Named(e), reg[KeyOf(obj[e])] = e \/ e \in pending
  PROVE  RegSeenBy(obj[e].kind)[KeyOf(obj[e])] = e
<1>. DEFINE key == KeyOf(obj[e])
<1>1. key = KeyOf(obj[e]) /\ key \in Keys /\ key[1] = obj[e].kind /\ e # None
  BY NoneAssumption DEF KeyTyped, KeyOf
<1>2. CASE reg[key] = e
  <2>1. Alive(reg[key])
    BY <1>1, <1>2 DEF Alive
  <2>. HIDE DEF key
  <2>. QED
    BY <1>1, <1>2, <2>1 DEF RegSeenBy, tryLazyInit
<1>3. CASE reg[key] # e
  <2>1. e \in pending /\ obj[e].kind \in LazyKinds
    BY <1>3 DEF RegistryInv, PendingLive
  <2>2. ~Alive(reg[key])
    <3>. SUFFICES ASSUME Alive(reg[key])
                  PROVE  FALSE
      OBVIOUS
    <3>1. reg[key] \in Entities /\ KeyOf(obj[reg[key]]) = key
      BY <1>1 DEF Alive, TypeOK, RegistryInv, KeysMatch
    <3>2. obj[reg[key]].kind = obj[e].kind
      BY <1>1, <3>1 DEF KeyOf
    <3>. QED
      BY <1>3, <3>1, <3>2 DEF KeysUnique, Exists, Alive, Named
  <2>3. e \in Candidates(key)
    BY <1>1, <2>1 DEF Candidates, Alive
  <2>4. ASSUME NEW f \in Candidates(key)
        PROVE  f = e
    <3>1. f \in Entities /\ state[f] = "alive" /\ KeyOf(obj[f]) = key /\ obj[f].kind = obj[e].kind
      BY <1>1 DEF Candidates, Alive, TypeOK
    <3>. QED
      BY <3>1 DEF KeysUnique, Exists, Named
  <2>5. FirstOf(Candidates(key)) = e
    <3>1. Candidates(key) \in SUBSET Entities
      BY DEF Candidates, TypeOK
    <3>. QED
      BY <2>3, <2>4, <3>1, FirstOfIsFirst
  <2>. HIDE DEF key
  <2>. QED
    BY <1>1, <2>1, <2>2, <2>3, <2>5 DEF RegSeenBy, tryLazyInit
<1>. QED
  BY <1>2, <1>3

LEMMA InitRetrievalInv == Init => RetrievalInv
BY DEF Init, RetrievalInv, KeyTyped, KeysUnique, Reachable, Exists

(* A named entity is constructed under a key that no existing one has.      *)
LEMMA ConstructedKeys ==
  ASSUME UniqueKeys, TypeOK, KeyTyped, KeysUnique, NEW e \in Entities, NEW o,
         NEW st \in {"constructing", "alive"}, Fresh(e, o), o.kind # "timer", KeyOf(o) \in Keys,
         state' = [state EXCEPT ![e] = st]
  PROVE  KeyTyped' /\ KeysUnique'
<1>1. /\ obj'[e] = o /\ state'[e] = st /\ state[e] = "new"
      /\ \A f \in Entities : f # e => obj'[f] = obj[f] /\ state'[f] = state[f]
  BY DEF Fresh, NewEntity, TypeOK
<1>2. \A f \in Entities : Exists(f) /\ Named(f) => KeyOf(obj[f]) # KeyOf(o)
  BY DEF Fresh, Named
<1>3. KeyTyped'
  BY <1>1 DEF KeyTyped, Named, KeyOf, NodeId
<1>4. ASSUME NEW f \in Entities, NEW g \in Entities, Exists(f)', Exists(g)', Named(f)', Named(g)',
             KeyOf(obj'[f]) = KeyOf(obj'[g])
      PROVE  f = g
  <2>1. CASE f # e /\ g # e
    BY <1>1, <1>4, <2>1 DEF KeysUnique, Exists, Named
  <2>2. CASE f = e /\ g # e
    BY <1>1, <1>2, <1>4, <2>2 DEF Exists, Named
  <2>3. CASE f # e /\ g = e
    BY <1>1, <1>2, <1>4, <2>3 DEF Exists, Named
  <2>. QED
    BY <2>1, <2>2, <2>3
<1>5. KeysUnique'
  BY <1>4 DEF KeysUnique, KeyOf, NodeId
<1>. QED
  BY <1>3, <1>5

(* A step that destroys entities at most, and adopts some, keeps the keys.  *)
LEMMA KeysKept ==
  ASSUME TypeOK, KeyTyped, KeysUnique, UNCHANGED obj,
         \A f \in Entities : (Exists(f)' => Exists(f)) /\ (state'[f] # "new" => state[f] # "new")
  PROVE  KeyTyped' /\ KeysUnique'
<1>1. KeyTyped'
  BY DEF KeyTyped, Named, KeyOf, NodeId
<1>2. \A f \in Entities : (Named(f)' <=> Named(f)) /\ KeyOf(obj[f])' = KeyOf(obj[f])
  BY DEF Named, KeyOf, NodeId
<1>3. KeysUnique'
  BY <1>2 DEF KeysUnique
<1>. QED
  BY <1>1, <1>3

LEMMA NextRetrievalInv ==
  ASSUME UniqueKeys
  PROVE  TypeOK /\ RegistryInv /\ MockInv /\ RetrievalInv /\ [Next]_vars => RetrievalInv'
<1>. SUFFICES ASSUME TypeOK, RegistryInv, MockInv, RetrievalInv, [Next]_vars
              PROVE  RetrievalInv'
  OBVIOUS
<1>0. KeyTyped /\ KeysUnique /\ \A f \in Entities \ forgotten : Reachable(f)
  BY DEF RetrievalInv
<1>1. ASSUME NEW e \in Entities, NEW k \in Kinds, NEW n \in Nodes, NEW s \in Names,
             NEW t \in Types, NEW a \in Addrs, Create(e, k, n, s, t, a)
      PROVE  RetrievalInv'
  <2>. DEFINE o == [kind |-> k, node |-> n, name |-> RegisteredName(k, s),
                    type |-> t, addr |-> a]
  <2>1. /\ KeyOf(o) \in Keys /\ o.kind = k /\ k # "timer" /\ Fresh(e, o)
        /\ state' = [state EXCEPT ![e] = "alive"] /\ reg' = registerEntity(KeyOf(o), e)
        /\ UNCHANGED <<timersReg, pending, forgotten>>
    BY <1>1, RegisteredNameType DEF Create, KeyOf, Keys, NodeId, NamedKinds, TopicKinds,
                                    ServiceKinds, LazyKinds
  <2>. HIDE DEF o
  <2>2. KeyTyped' /\ KeysUnique'
    BY <1>0, <2>1, ConstructedKeys
  <2>3. /\ obj'[e] = o /\ state'[e] = "alive"
        /\ \A f \in Entities : f # e => obj'[f] = obj[f] /\ state'[f] = state[f]
    BY <2>1 DEF Fresh, TypeOK
  <2>4. \A f \in Entities : Exists(f) /\ Named(f) => KeyOf(obj[f]) # KeyOf(o)
    BY <2>1 DEF Fresh, Named
  <2>5. ~Alive(reg[KeyOf(o)])
    <3>. SUFFICES ASSUME Alive(reg[KeyOf(o)])
                  PROVE  FALSE
      OBVIOUS
    <3>1. reg[KeyOf(o)] \in Entities /\ KeyOf(obj[reg[KeyOf(o)]]) = KeyOf(o)
      BY <2>1 DEF Alive, TypeOK, RegistryInv, KeysMatch
    <3>2. obj[reg[KeyOf(o)]].kind = k
      BY <2>1, <3>1 DEF KeyOf
    <3>. QED
      BY <2>1, <2>4, <3>1, <3>2 DEF Exists, Alive, Named
  <2>6. reg' = [reg EXCEPT ![KeyOf(o)] = e]
    BY <2>1, <2>5 DEF registerEntity
  <2>7. ASSUME NEW f \in Entities \ forgotten'
        PROVE  Reachable(f)'
    <3>1. CASE f = e
      <4>1. reg'[KeyOf(o)] = e
        BY <2>1, <2>6 DEF TypeOK
      <4>. QED
        BY <2>1, <2>3, <3>1, <4>1 DEF Reachable, Named, KeyOf, NodeId
    <3>2. CASE f # e
      <4>1. Reachable(f) /\ obj'[f] = obj[f] /\ state'[f] = state[f]
        BY <1>0, <2>1, <2>3, <3>2
      <4>2. state[f] = "alive" /\ Named(f) => reg'[KeyOf(obj[f])] = reg[KeyOf(obj[f])]
        BY <1>0, <2>4, <2>6 DEF Exists, TypeOK, KeyTyped
      <4>3. KeyOf(obj'[f]) = KeyOf(obj[f]) /\ KeyOf(obj[f])' = KeyOf(obj[f])
        BY <4>1 DEF KeyOf, NodeId
      <4>. QED
        BY <2>1, <4>1, <4>2, <4>3 DEF Reachable, Named
    <3>. QED
      BY <3>1, <3>2
  <2>. QED
    BY <2>2, <2>7 DEF RetrievalInv
<1>2. ASSUME NEW e \in Entities, NEW n \in Nodes, NEW a \in Addrs, CreateTimer(e, n, a)
      PROVE  RetrievalInv'
  <2>1. /\ obj'[e].kind = "timer" /\ obj'[e].node = n /\ state'[e] = "alive" /\ state[e] = "new"
        /\ \A f \in Entities : f # e => obj'[f] = obj[f] /\ state'[f] = state[f]
    BY <1>2 DEF CreateTimer, NewEntity, TypeOK
  <2>2. /\ UNCHANGED <<reg, pending, forgotten>> /\ e \in timersReg'[n]
        /\ \A x \in Nodes : timersReg[x] \subseteq timersReg'[x]
    BY <1>2 DEF CreateTimer, TypeOK, NodeId
  <2>3. \A f \in Entities : f # e => KeyOf(obj[f])' = KeyOf(obj[f]) /\ (Named(f)' <=> Named(f))
                                     /\ (Exists(f)' <=> Exists(f))
    BY <2>1 DEF KeyOf, NodeId, Named, Exists
  <2>4. ~Named(e)'
    BY <2>1 DEF Named
  <2>5. KeyTyped'
    BY <1>0, <2>1, <2>3, <2>4 DEF KeyTyped
  <2>6. KeysUnique'
    BY <1>0, <2>3, <2>4 DEF KeysUnique
  <2>7. ASSUME NEW f \in Entities \ forgotten'
        PROVE  Reachable(f)'
    <3>1. CASE f = e
      BY <2>1, <2>2, <2>4, <3>1 DEF Reachable
    <3>2. CASE f # e
      <4>1. Reachable(f) /\ obj'[f] = obj[f] /\ state'[f] = state[f]
        BY <1>0, <2>1, <2>2, <3>2
      <4>2. state[f] = "alive" => obj[f].node \in Nodes
        BY DEF TypeOK, Object
      <4>. QED
        BY <2>2, <2>3, <3>2, <4>1, <4>2 DEF Reachable
    <3>. QED
      BY <3>1, <3>2
  <2>. QED
    BY <2>5, <2>6, <2>7 DEF RetrievalInv
<1>3. ASSUME NEW e \in Entities, NEW k \in Kinds, NEW n \in Nodes, NEW s \in Names,
             NEW t \in Types, NEW a \in Addrs, Construct(e, k, n, s, t, a)
      PROVE  RetrievalInv'
  <2>. DEFINE o == [kind |-> k, node |-> n, name |-> RegisteredName(k, s),
                    type |-> t, addr |-> a]
  <2>1. /\ KeyOf(o) \in Keys /\ o.kind # "timer" /\ Fresh(e, o)
        /\ state' = [state EXCEPT ![e] = "constructing"] /\ pending' = pending \cup {e}
        /\ UNCHANGED <<reg, timersReg, forgotten>>
    BY <1>3, RegisteredNameType DEF Construct, KeyOf, Keys, NodeId, NamedKinds, LazyKinds
  <2>. HIDE DEF o
  <2>2. KeyTyped' /\ KeysUnique'
    BY <1>0, <2>1, ConstructedKeys
  <2>3. /\ state'[e] = "constructing"
        /\ \A f \in Entities : f # e => obj'[f] = obj[f] /\ state'[f] = state[f]
    BY <2>1 DEF Fresh, TypeOK
  <2>4. ASSUME NEW f \in Entities \ forgotten', f # e
        PROVE  Reachable(f)'
    <3>1. Reachable(f) /\ obj'[f] = obj[f] /\ state'[f] = state[f]
      BY <1>0, <2>1, <2>3, <2>4
    <3>2. KeyOf(obj[f])' = KeyOf(obj[f])
      BY <3>1 DEF KeyOf, NodeId
    <3>. QED
      BY <2>1, <3>1, <3>2 DEF Reachable, Named
  <2>5. Reachable(e)'
    BY <2>1, <2>3 DEF Reachable
  <2>. QED
    BY <2>2, <2>4, <2>5 DEF RetrievalInv
<1>4. ASSUME NEW e \in Entities, Adopt(e)
      PROVE  RetrievalInv'
  <2>1. /\ UNCHANGED <<obj, reg, timersReg, pending, forgotten>>
        /\ state[e] = "constructing" /\ state'[e] = "alive"
        /\ \A f \in Entities : f # e => state'[f] = state[f]
    BY <1>4 DEF Adopt, TypeOK
  <2>2. KeyTyped' /\ KeysUnique'
    BY <1>0, <2>1, KeysKept DEF Exists
  <2>3. \A f \in Entities : KeyOf(obj[f])' = KeyOf(obj[f])
    BY <2>1 DEF KeyOf, NodeId
  <2>4. ASSUME NEW f \in Entities \ forgotten', f # e
        PROVE  Reachable(f)'
    BY <1>0, <2>1, <2>3, <2>4 DEF Reachable, Named
  <2>5. e \notin forgotten' => Reachable(e)'
    <3>1. e \notin forgotten => e \in pending
      BY <1>0, <2>1 DEF Reachable
    <3>2. e \in pending => Named(e)
      BY DEF RegistryInv, PendingLive, Named, LazyKinds
    <3>. QED
      BY <2>1, <3>1, <3>2 DEF Reachable, Named
  <2>. QED
    BY <2>2, <2>4, <2>5 DEF RetrievalInv
<1>5. ASSUME NEW e \in Entities, Destroy(e)
      PROVE  RetrievalInv'
  <2>1. /\ UNCHANGED <<obj, reg, timersReg, forgotten>> /\ pending' = removeLazyInit(e)
        /\ state[e] = "alive" /\ state'[e] = "dead"
        /\ \A f \in Entities : f # e => state'[f] = state[f]
    BY <1>5 DEF Destroy, TypeOK
  <2>2. KeyTyped' /\ KeysUnique'
    BY <1>0, <2>1, KeysKept DEF Exists
  <2>3. \A f \in Entities : KeyOf(obj[f])' = KeyOf(obj[f])
    BY <2>1 DEF KeyOf, NodeId
  <2>4. \A f \in pending : f # e => f \in pending'
    <3>1. ASSUME NEW f \in pending, f # e
          PROVE  obj[f].addr # obj[e].addr
      BY <2>1, <3>1 DEF RegistryInv, PendingLive, MockInv, AddrUnique, Exists, TypeOK
    <3>. QED
      BY <2>1, <3>1 DEF removeLazyInit
  <2>5. ASSUME NEW f \in Entities \ forgotten'
        PROVE  Reachable(f)'
    BY <1>0, <2>1, <2>3, <2>4 DEF Reachable, Named
  <2>. QED
    BY <2>2, <2>5 DEF RetrievalInv
<1>6. ASSUME NEW k \in Kinds, LazyInitEffect(k), UNCHANGED <<state, obj, timersReg, forgotten>>
      PROVE  RetrievalInv'
  <2>1. KeyTyped' /\ KeysUnique'
    BY <1>0, <1>6, KeysKept DEF Exists
  <2>2. \A f \in Entities : KeyOf(obj[f])' = KeyOf(obj[f]) /\ (Named(f)' <=> Named(f))
    BY <1>6 DEF KeyOf, NodeId, Named
  <2>3. ASSUME NEW f \in Entities \ forgotten'
        PROVE  Reachable(f)'
    <3>1. Reachable(f)
      BY <1>0, <1>6
    <3>2. state[f] = "constructing" => f \in pending'
      BY <1>6, <3>1 DEF Reachable, LazyInitEffect, Initialised, Alive
    <3>3. ASSUME state[f] = "alive", Named(f)
          PROVE  reg'[KeyOf(obj[f])] = f \/ f \in pending'
      <4>1. reg[KeyOf(obj[f])] = f \/ f \in pending
        BY <3>1, <3>3 DEF Reachable
      <4>2. KeyOf(obj[f]) \in Keys /\ f # None
        BY <1>0, <3>3, NoneAssumption DEF KeyTyped
      <4>3. RegSeenBy(obj[f].kind)[KeyOf(obj[f])] = f
        BY <1>0, <3>3, <4>1, SeenAtLook
      <4>4. CASE obj[f].kind = k
        BY <1>6, <4>3, <4>4 DEF LazyInitEffect
      <4>5. CASE obj[f].kind # k
        <5>1. f \in pending => f \in pending'
          BY <1>6, <4>5 DEF LazyInitEffect, Initialised
        <5>2. reg[KeyOf(obj[f])] = f => Alive(reg[KeyOf(obj[f])])
          BY <3>3, <4>2 DEF Alive
        <5>3. reg[KeyOf(obj[f])] = f => reg'[KeyOf(obj[f])] = f
          BY <1>6, <4>2, <5>2, LazyRegSource DEF LazyInitEffect
        <5>. QED
          BY <4>1, <5>1, <5>3
      <4>. QED
        BY <4>4, <4>5
    <3>. QED
      BY <1>6, <2>2, <3>1, <3>2, <3>3 DEF Reachable
  <2>. QED
    BY <2>1, <2>3 DEF RetrievalInv
<1>7. ASSUME UNCHANGED <<state, obj, reg, timersReg, pending, forgotten>>
      PROVE  RetrievalInv'
  BY <1>7 DEF RetrievalInv, KeyTyped, KeysUnique, Reachable, Named, KeyOf, NodeId, Exists
<1>8. ASSUME Reset
      PROVE  RetrievalInv'
  <2>1. UNCHANGED <<state, obj>> /\ forgotten' = {e \in Entities : state[e] # "new"}
    BY <1>8 DEF Reset
  <2>2. KeyTyped' /\ KeysUnique'
    BY <1>0, <2>1, KeysKept DEF Exists
  <2>3. \A f \in Entities \ forgotten' : Reachable(f)'
    BY <2>1 DEF Reachable
  <2>. QED
    BY <2>2, <2>3 DEF RetrievalInv
<1>9. ASSUME NEW m \in Mocks, NEW k \in Kinds, NEW n \in Nodes, NEW s \in Names, NEW t \in Types,
             FindAttach(m, k, n, s, t)
      PROVE  RetrievalInv'
  BY <1>6, <1>9 DEF FindAttach
<1>10. ASSUME NEW k \in Kinds, NEW n \in Nodes, NEW s \in Names, NEW t \in Types,
             FindNothing(k, n, s, t)
      PROVE  RetrievalInv'
  BY <1>6, <1>10 DEF FindNothing
<1>11. ASSUME NEW m \in Mocks, DestroyMock(m)
      PROVE  RetrievalInv'
  BY <1>7, <1>11 DEF DestroyMock
<1>12. CASE UNCHANGED vars
  BY <1>7, <1>12 DEF vars
<1>. QED
  BY <1>1, <1>2, <1>3, <1>4, <1>5, <1>8, <1>9, <1>10, <1>11, <1>12 DEF Next

LEMMA RetrievableFromInv == TypeOK /\ RegistryInv /\ RetrievalInv => Retrievable
<1>. SUFFICES ASSUME TypeOK, RegistryInv, RetrievalInv, NEW e \in Entities \ forgotten,
                     state[e] = "alive"
              PROVE  IF obj[e].kind = "timer" THEN e \in findTimers(obj[e].node)
                     ELSE \A s \in Names : RegisteredName(obj[e].kind, s) = obj[e].name
                                             => Lookup(obj[e].kind, obj[e].node, s) = e
  BY DEF Retrievable
<1>1. Reachable(e) /\ KeyTyped /\ KeysUnique /\ e # None
  BY NoneAssumption DEF RetrievalInv
<1>2. CASE obj[e].kind = "timer"
  BY <1>1, <1>2 DEF Reachable, Named, findTimers, NodeId, Alive
<1>3. CASE obj[e].kind # "timer"
  <2>1. RegSeenBy(obj[e].kind)[KeyOf(obj[e])] = e
    BY <1>1, <1>3, SeenAtLook DEF Reachable, Named
  <2>2. ASSUME NEW s \in Names, RegisteredName(obj[e].kind, s) = obj[e].name
        PROVE  Lookup(obj[e].kind, obj[e].node, s) = e
    <3>1. LookupName(obj[e].kind, s) = obj[e].name
      BY <2>2 DEF LookupName, RegisteredName
    <3>2. <<obj[e].kind, NodeId(obj[e].node), LookupName(obj[e].kind, s)>> = KeyOf(obj[e])
      BY <3>1 DEF KeyOf
    <3>. QED
      BY <1>1, <2>1, <3>2 DEF Lookup, Alive
  <2>. QED
    BY <1>3, <2>2
<1>. QED
  BY <1>2, <1>3

(* When a node names its live entities uniquely, the test finds every one   *)
(* of them by every spelling the node could have used, from construction to *)
(* destruction, whatever else is created, destroyed, looked up and mocked.  *)
THEOREM EntitiesRetrievable == ASSUME UniqueKeys PROVE Spec => []Retrievable
<1>1. TypeOK /\ RegistryInv /\ MockInv /\ RetrievalInv /\ [Next]_vars => RetrievalInv'
  BY NextRetrievalInv
<1>. QED
  BY <1>1, RetrievableFromInv, InitTypeOK, NextTypeOK, InitRegistryInv, NextRegistryInv,
     InitMockInv, NextMockInv, InitRetrievalInv, PTL DEF Spec

=============================================================================
