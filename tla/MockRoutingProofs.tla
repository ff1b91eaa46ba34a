------------------------- MODULE MockRoutingProofs --------------------------
(***************************************************************************)
(* What a disciplined test may rely on: the cast of getMock's result is    *)
(* safe, and the address-keyed registry implements MockRouting.            *)
(***************************************************************************)
EXTENDS MockRegistryProofs

(***************************************************************************)
(* Casts.                                                                  *)
(***************************************************************************)

LEMMA CastFromInv == ScopedMocks /\ TypeOK /\ MockInv => CastSafe
<1>. SUFFICES ASSUME ScopedMocks, TypeOK, MockInv, NEW e \in Entities, state[e] = "alive",
                     obj[e].kind \notin {"client", "action_client"},
                     getMock(obj[e].addr) # None
              PROVE  mocks[getMock(obj[e].addr)].type = obj[e].type
  BY DEF CastSafe
<1>. DEFINE m == getMock(obj[e].addr)
<1>1. m \in Mocks /\ LiveMock(m) /\ mocks[m].owner = e
  BY FoundMockIsOwn
<1>. HIDE DEF m
<1>2. obj[e].kind \in MockedKinds /\ (obj[e].kind \in CheckedKinds => obj[e].type = mocks[m].type)
  BY <1>1 DEF MockInv, OwnerThere
<1>3. obj[e].kind \in CheckedKinds
  BY <1>2 DEF MockedKinds, NamedKinds, TopicKinds, ServiceKinds, LazyKinds, CheckedKinds
<1>. QED
  BY <1>2, <1>3 DEF m

(* The static_pointer_cast of getMock's result is to the mock's own type in *)
(* publishers, services and action servers, and subscriptions and timers    *)
(* never reach a mock, although mockRegistry_ knows addresses only.         *)
THEOREM CastsAreSafe == ASSUME ScopedMocks PROVE Spec => []CastSafe
BY CastFromInv, InitTypeOK, NextTypeOK, InitRegistryInv, NextRegistryInv, InitMockInv,
   NextMockInv, PTL DEF Spec

-----------------------------------------------------------------------------
(***************************************************************************)
(* Refinement of MockRouting.                                              *)
(*                                                                         *)
(* With both disciplines the routing of the abstract specification is a    *)
(* function of the mocks alone: an entity is bound to the live mock made   *)
(* for it.  So a step that leaves the mocks alone leaves it alone.         *)
(***************************************************************************)
BoundIsLiveMock ==
  \A e \in Entities :
    /\ BoundTo(e) \in Mocks \cup {None}
    /\ \A m \in Mocks : BoundTo(e) = m <=> LiveMock(m) /\ mocks[m].owner = e

(* No live mock was made for an entity that is not alive.                   *)
OwnersAlive == \A m \in Mocks : LiveMock(m) => state[mocks[m].owner] = "alive"

MapInv == TypeOK /\ BoundIsLiveMock /\ OwnersAlive

LEMMA MapInvFromInv == ScopedMocks /\ QuietReset /\ TypeOK /\ MockInv => MapInv
<1>. SUFFICES ASSUME ScopedMocks, QuietReset, TypeOK, MockInv
              PROVE  MapInv
  OBVIOUS
<1>1. OwnersAlive
  BY DEF MockInv, OwnerThere, OwnersAlive
<1>2. ASSUME NEW e \in Entities
      PROVE  BoundTo(e) \in Mocks \cup {None}
  BY FoundMockIsOwn DEF BoundTo
<1>3. ASSUME NEW e \in Entities, NEW m \in Mocks, BoundTo(e) = m
      PROVE  LiveMock(m) /\ mocks[m].owner = e
  BY <1>3, FoundMockIsOwn, NoneAssumption DEF BoundTo
<1>4. ASSUME NEW e \in Entities, NEW m \in Mocks, LiveMock(m), mocks[m].owner = e
      PROVE  BoundTo(e) = m
  <2>1. state[e] = "alive" /\ obj[e].addr = mocks[m].addr
    BY <1>4 DEF MockInv, OwnerThere
  <2>2. mockReg[obj[e].addr] = m
    BY <1>4, <2>1 DEF MockInv, NoOrphanMock, LiveMock
  <2>. QED
    BY <1>4, <2>1, <2>2, NoneAssumption DEF BoundTo, getMock, LiveMock
<1>. QED
  BY <1>1, <1>2, <1>3, <1>4 DEF MapInv, BoundIsLiveMock

(* The abstract state, and how it may change.                               *)
life  == [e \in Entities |-> LifeOf(e)]
bound == [e \in Entities |-> BoundTo(e)]
owner == [m \in Mocks |-> OwnerOf(m)]

LEMMA MocksKeepRouting ==
  ASSUME MapInv, MapInv', UNCHANGED mocks
  PROVE  UNCHANGED <<bound, owner>>
<1>1. ASSUME NEW e \in Entities
      PROVE  BoundTo(e)' = BoundTo(e)
  <2>1. \A m \in Mocks : LiveMock(m)' <=> LiveMock(m)
    BY DEF LiveMock
  <2>2. \A m \in Mocks : BoundTo(e)' = m <=> BoundTo(e) = m
    BY <2>1 DEF MapInv, BoundIsLiveMock
  <2>3. BoundTo(e) \in Mocks \cup {None} /\ BoundTo(e)' \in Mocks \cup {None}
    BY DEF MapInv, BoundIsLiveMock
  <2>. QED
    BY <2>2, <2>3, NoneAssumption
<1>2. UNCHANGED bound
  BY <1>1 DEF bound
<1>3. UNCHANGED owner
  BY DEF owner, OwnerOf
<1>. QED
  BY <1>2, <1>3

LEMMA StateKeepsLife ==
  ASSUME UNCHANGED state
  PROVE  UNCHANGED life
BY DEF life, LifeOf

LEMMA InitRefines == Init => Routing!Init
<1>. SUFFICES ASSUME Init
              PROVE  Routing!Init
  OBVIOUS
<1>1. \A e \in Entities : LifeOf(e) = "unborn" /\ BoundTo(e) = None
  BY DEF Init, LifeOf, BoundTo
<1>2. \A m \in Mocks : OwnerOf(m) = None
  BY DEF Init, OwnerOf
<1>. QED
  BY <1>1, <1>2 DEF Routing!Init

(* An entity becomes alive: Appear.                                         *)
LEMMA AppearRefines ==
  ASSUME MapInv, MapInv', UNCHANGED mocks, NEW e \in Entities,
         state[e] \in {"new", "constructing"}, state' = [state EXCEPT ![e] = "alive"]
  PROVE  Routing!Appear(e)
<1>1. LifeOf(e) = "unborn" /\ LifeOf(e)' = "live"
      /\ \A f \in Entities : f # e => LifeOf(f)' = LifeOf(f)
  BY DEF LifeOf, MapInv, TypeOK
<1>2. UNCHANGED <<bound, owner>>
  BY MocksKeepRouting
<1>. QED
  BY <1>1, <1>2 DEF Routing!Appear, bound, owner

(* Destroy: Vanish; the discipline says that no live mock is left.          *)
LEMMA VanishRefines ==
  ASSUME ScopedMocks, MapInv, MapInv', NEW e \in Entities, Destroy(e)
  PROVE  Routing!Vanish(e)
<1>1. /\ state[e] = "alive" /\ state' = [state EXCEPT ![e] = "dead"] /\ UNCHANGED mocks
      /\ \A m \in Mocks : LiveMock(m) => mocks[m].owner # e
  BY DEF Destroy, LiveMock
<1>2. BoundTo(e) = None
  BY <1>1 DEF MapInv, BoundIsLiveMock
<1>3. LifeOf(e) = "live" /\ LifeOf(e)' = "gone"
      /\ \A f \in Entities : f # e => LifeOf(f)' = LifeOf(f)
  BY <1>1 DEF LifeOf, MapInv, TypeOK
<1>4. UNCHANGED <<bound, owner>>
  BY <1>1, MocksKeepRouting
<1>. QED
  BY <1>2, <1>3, <1>4 DEF Routing!Vanish, bound, owner

(* find...() with a result: Attach.                                         *)
LEMMA AttachRefines ==
  ASSUME MapInv, MapInv', NEW m \in Mocks, NEW k \in Kinds, NEW n \in Nodes,
         NEW s \in Names, NEW t \in Types, FindAttach(m, k, n, s, t)
  PROVE  \E e \in Entities : Routing!Attach(m, e)
<1>0. k \in Kinds \cap NamedKinds /\ Lookup(k, n, s) # None
  BY DEF FindAttach, Found, MockedKinds
<1>. PICK e \in Entities : e = Lookup(k, n, s) /\ state[e] = "alive" /\ obj[e] \in Object
  BY <1>0, LookupType DEF MapInv
<1>. DEFINE r == [addr |-> obj[e].addr, type |-> t, alive |-> TRUE, owner |-> e]
<1>1. /\ UNCHANGED state /\ getMock(obj[e].addr) = None /\ mocks[m] = None
      /\ mocks' = [mocks EXCEPT ![m] = r]
  BY DEF FindAttach, Found
<1>2. e \in Entities /\ state[e] = "alive" /\ obj[e].addr \in Addrs
  BY DEF Object
<1>3. r # None
  <2>1. r \in Mock
    BY <1>2 DEF Mock
  <2>. QED
    BY <2>1, NoneAssumption
<1>4. /\ LiveMock(m)' /\ mocks'[m].owner = e /\ mocks'[m] # None /\ ~LiveMock(m)
      /\ \A x \in Mocks : x # m => mocks'[x] = mocks[x]
  BY <1>1, <1>3 DEF MapInv, TypeOK, LiveMock
<1>5. BoundTo(e) = None /\ LifeOf(e) = "live"
  BY <1>1, <1>2 DEF BoundTo, LifeOf
<1>6. BoundTo(e)' = m
  BY <1>2, <1>4 DEF MapInv, BoundIsLiveMock
<1>7. ASSUME NEW f \in Entities, f # e
      PROVE  BoundTo(f)' = BoundTo(f)
  <2>1. \A x \in Mocks : (LiveMock(x) /\ mocks[x].owner = f)' <=> LiveMock(x) /\ mocks[x].owner = f
    BY <1>4, <1>7 DEF LiveMock
  <2>2. \A x \in Mocks : BoundTo(f)' = x <=> BoundTo(f) = x
    BY <2>1 DEF MapInv, BoundIsLiveMock
  <2>3. BoundTo(f) \in Mocks \cup {None} /\ BoundTo(f)' \in Mocks \cup {None}
    BY DEF MapInv, BoundIsLiveMock
  <2>. QED
    BY <2>2, <2>3, NoneAssumption
<1>8. OwnerOf(m) = None /\ OwnerOf(m)' = e /\ \A x \in Mocks : x # m => OwnerOf(x)' = OwnerOf(x)
  BY <1>1, <1>4 DEF OwnerOf
<1>9. UNCHANGED life
  BY <1>1, StateKeepsLife
<1>10. bound' = [bound EXCEPT ![e] = m] /\ bound[e] = None
  BY <1>2, <1>5, <1>6, <1>7 DEF bound
<1>11. owner' = [owner EXCEPT ![m] = e] /\ owner[m] = None
  BY <1>8 DEF owner
<1>12. life[e] = "live"
  BY <1>2, <1>5 DEF life
<1>. QED
  BY <1>2, <1>9, <1>10, <1>11, <1>12 DEF Routing!Attach, life, bound, owner

(* The destructor of a mock: Drop.                                          *)
LEMMA DropRefines ==
  ASSUME MapInv, MapInv', NEW m \in Mocks, DestroyMock(m)
  PROVE  \E e \in Entities : Routing!Drop(m, e)
<1>1. mocks[m] \in Mock /\ LiveMock(m) /\ UNCHANGED state
  BY DEF DestroyMock, MapInv, TypeOK, LiveMock
<1>. PICK e \in Entities : mocks[m].owner = e
  BY <1>1 DEF Mock
<1>2. mocks[m].owner = e
  OBVIOUS
<1>3. /\ ~LiveMock(m)' /\ mocks'[m].owner = e /\ mocks'[m] # None
      /\ \A x \in Mocks : x # m => mocks'[x] = mocks[x]
  <2>1. mocks'[m] = [mocks[m] EXCEPT !.alive = FALSE] /\ mocks'[m] \in Mock
    BY <1>1 DEF DestroyMock, MapInv, TypeOK, Mock
  <2>2. \A x \in Mocks : x # m => mocks'[x] = mocks[x]
    BY DEF DestroyMock, MapInv, TypeOK
  <2>. QED
    BY <1>1, <2>1, <2>2, NoneAssumption DEF LiveMock, Mock
<1>4. BoundTo(e) = m
  BY <1>1, <1>2 DEF MapInv, BoundIsLiveMock
<1>5. BoundTo(e)' = None
  <2>1. \A x \in Mocks : x # m => ~(LiveMock(x) /\ mocks[x].owner = e)
    BY <1>2, <1>4 DEF MapInv, BoundIsLiveMock
  <2>2. \A x \in Mocks : ~(LiveMock(x)' /\ mocks'[x].owner = e)
    BY <1>3, <2>1 DEF LiveMock
  <2>. QED
    BY <1>2, <2>2 DEF MapInv, BoundIsLiveMock
<1>6. ASSUME NEW f \in Entities, f # e
      PROVE  BoundTo(f)' = BoundTo(f)
  <2>1. \A x \in Mocks : (LiveMock(x)' /\ mocks'[x].owner = f) <=> LiveMock(x) /\ mocks[x].owner = f
    BY <1>3, <1>2, <1>6 DEF LiveMock
  <2>2. \A x \in Mocks : BoundTo(f)' = x <=> BoundTo(f) = x
    BY <2>1 DEF MapInv, BoundIsLiveMock
  <2>3. BoundTo(f) \in Mocks \cup {None} /\ BoundTo(f)' \in Mocks \cup {None}
    BY DEF MapInv, BoundIsLiveMock
  <2>. QED
    BY <2>2, <2>3, NoneAssumption
<1>7. \A x \in Mocks : OwnerOf(x)' = OwnerOf(x)
  BY <1>1, <1>2, <1>3, NoneAssumption DEF OwnerOf, LiveMock
<1>8. UNCHANGED life /\ UNCHANGED owner
  BY <1>1, <1>7, StateKeepsLife DEF owner
<1>9. bound' = [bound EXCEPT ![e] = None] /\ bound[e] = m
  BY <1>2, <1>4, <1>5, <1>6 DEF bound
<1>. QED
  BY <1>2, <1>8, <1>9 DEF Routing!Drop, life, bound, owner

LEMMA NextRefines ==
  ASSUME ScopedMocks, MapInv, MapInv', [Next]_vars
  PROVE  [Routing!Next]_(Routing!vars)
<1>0. ASSUME UNCHANGED <<state, mocks>>
      PROVE  UNCHANGED Routing!vars
  <2>1. UNCHANGED <<life, bound, owner>>
    BY <1>0, MocksKeepRouting, StateKeepsLife
  <2>. QED
    BY <2>1 DEF Routing!vars, life, bound, owner
<1>1. ASSUME NEW e \in Entities, NEW k \in Kinds, NEW n \in Nodes, NEW s \in Names,
             NEW t \in Types, NEW a \in Addrs, Create(e, k, n, s, t, a)
      PROVE  Routing!Next
  <2>1. state[e] = "new" /\ state' = [state EXCEPT ![e] = "alive"] /\ UNCHANGED mocks
    BY <1>1 DEF Create, Fresh, NewEntity
  <2>. QED
    BY <2>1, AppearRefines DEF Routing!Next
<1>2. ASSUME NEW e \in Entities, NEW n \in Nodes, NEW a \in Addrs, CreateTimer(e, n, a)
      PROVE  Routing!Next
  <2>1. state[e] = "new" /\ state' = [state EXCEPT ![e] = "alive"] /\ UNCHANGED mocks
    BY <1>2 DEF CreateTimer, NewEntity
  <2>. QED
    BY <2>1, AppearRefines DEF Routing!Next
<1>3. ASSUME NEW e \in Entities, Adopt(e)
      PROVE  Routing!Next
  <2>1. /\ state[e] = "constructing" /\ state' = [state EXCEPT ![e] = "alive"]
        /\ UNCHANGED mocks
    BY <1>3 DEF Adopt
  <2>. QED
    BY <2>1, AppearRefines DEF Routing!Next
<1>4. ASSUME NEW e \in Entities, Destroy(e)
      PROVE  Routing!Next
  BY <1>4, VanishRefines DEF Routing!Next
<1>5. ASSUME NEW m \in Mocks, NEW k \in Kinds, NEW n \in Nodes, NEW s \in Names,
             NEW t \in Types, FindAttach(m, k, n, s, t)
      PROVE  Routing!Next
  BY <1>5, AttachRefines DEF Routing!Next
<1>6. ASSUME NEW m \in Mocks, DestroyMock(m)
      PROVE  Routing!Next
  BY <1>6, DropRefines DEF Routing!Next
<1>7. ASSUME NEW e \in Entities, NEW k \in Kinds, NEW n \in Nodes, NEW s \in Names,
             NEW t \in Types, NEW a \in Addrs, Construct(e, k, n, s, t, a)
      PROVE  UNCHANGED Routing!vars
  <2>1. state[e] = "new" /\ state' = [state EXCEPT ![e] = "constructing"] /\ UNCHANGED mocks
    BY <1>7 DEF Construct, Fresh, NewEntity
  <2>2. \A f \in Entities : LifeOf(f)' = LifeOf(f)
    BY <2>1 DEF LifeOf, MapInv, TypeOK
  <2>3. UNCHANGED <<life, bound, owner>>
    BY <2>1, <2>2, MocksKeepRouting DEF life
  <2>. QED
    BY <2>3 DEF Routing!vars, life, bound, owner
<1>8. ASSUME NEW k \in Kinds, NEW n \in Nodes, NEW s \in Names, NEW t \in Types,
             FindNothing(k, n, s, t)
      PROVE  UNCHANGED Routing!vars
  BY <1>0, <1>8 DEF FindNothing
<1>9. ASSUME Reset \/ UNCHANGED vars
      PROVE  UNCHANGED Routing!vars
  BY <1>0, <1>9 DEF Reset, vars
<1>. QED
  BY <1>1, <1>2, <1>3, <1>4, <1>5, <1>6, <1>7, <1>8, <1>9 DEF Next

(* The address-keyed registry of weak references implements MockRouting     *)
(* for every number of entities, mocks and addresses: attaching, dropping   *)
(* and destroying in any order, memory reused, changes the routing of the   *)
(* entity and the mock concerned only.                                      *)
THEOREM RegistryImplementsRouting ==
  ASSUME ScopedMocks, QuietReset
  PROVE  Spec => ImplementsRouting
<1>1. TypeOK /\ MockInv => MapInv
  BY MapInvFromInv
<1>2. MapInv /\ MapInv' /\ [Next]_vars => [Routing!Next]_(Routing!vars)
  BY NextRefines
<1>. QED
  BY <1>1, <1>2, InitRefines, InitTypeOK, NextTypeOK, InitRegistryInv, NextRegistryInv,
     InitMockInv, NextMockInv, PTL DEF Spec, ImplementsRouting, Routing!Spec

=============================================================================
