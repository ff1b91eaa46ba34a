---------------------------- MODULE MockRegistry ----------------------------
(***************************************************************************)
(* The static registry through which a test reaches the entities (publish- *)
(* ers, subscriptions, services, clients, timers, action servers, action   *)
(* clients) that the node under test creates, and the mocks a test attaches *)
(* to them.                                                                *)
(*                                                                         *)
(* The registry owns nothing: it maps (node, name) to weak references and  *)
(* the ADDRESS of an entity to a weak reference to its mock.  Everything   *)
(* that can go wrong comes from the lifetimes around it, so the model      *)
(* keeps them: objects are constructed, adopted by a shared_ptr and        *)
(* destroyed, memory is reused, mocks outlive their entities, and a test   *)
(* suite ends (reset) while objects of it are still alive.                 *)
(*                                                                         *)
(* Three constants describe the discipline of the test code; a property    *)
(* that needs one says so.  With all three FALSE the test does whatever    *)
(* the interface allows.                                                   *)
(***************************************************************************)
EXTENDS Naturals

CONSTANTS
  Nodes,         \* control blocks of the rcl_node_t handles
  Bases,         \* names of topics, services and actions without the slash
  Types,         \* message, service and action types
  Kinds,         \* the kinds of entity the instance has
  Addrs,         \* addresses an entity can be allocated at
  MaxEntities,   \* bound: entities constructed in a behaviour
  MaxMocks,      \* bound: mocks made in a behaviour
  None,          \* a null or expired weak_ptr
  ScopedMocks,   \* a test drops a mock no later than its entity
  QuietReset,    \* no mock is held when a test suite ends
  UniqueKeys     \* a node never has two live entities of a kind and name

Entities == 1 .. MaxEntities
Mocks    == 1 .. MaxMocks

TopicKinds   == {"publisher", "subscription"}
ServiceKinds == {"service", "client"}
LazyKinds    == {"action_server", "action_client"}
NamedKinds   == TopicKinds \cup ServiceKinds \cup LazyKinds
MockedKinds  == NamedKinds \ {"subscription"}
(* Mutant: ServiceMock's constructor without its dynamic_cast check.       *)
CheckedKinds_NoServiceCheck == {"publisher", "action_server"}

(* find...() compares the entity's dynamic type with the requested one;    *)
(* findServiceClient and findActionClient do not.                          *)
CheckedKinds == {"publisher", "service", "action_server"}

ASSUME KindsAssumption == Kinds \subseteq NamedKinds \cup {"timer"}
ASSUME BoundsAssumption == MaxEntities \in Nat /\ MaxMocks \in Nat
ASSUME DisciplineAssumption ==
  ScopedMocks \in BOOLEAN /\ QuietReset \in BOOLEAN /\ UniqueKeys \in BOOLEAN

(***************************************************************************)
(* Names.  A name is spelled with or without its leading slash.            *)
(***************************************************************************)
Names == [abs : BOOLEAN, base : Bases]

(* The spelling an entity is registered under: get_topic_name() of a topic  *)
(* is fully qualified, registerService and registerServiceClient strip the  *)
(* slash, actions are registered as the node spelled them.                  *)
RegisteredName(k, s) ==
  CASE k \in TopicKinds   -> [s EXCEPT !.abs = TRUE]
    [] k \in ServiceKinds -> [s EXCEPT !.abs = FALSE]
    [] OTHER              -> s

(* The spelling a find...() function looks up.                             *)
LookupName(k, s) ==
  CASE k \in TopicKinds   -> [s EXCEPT !.abs = TRUE]
    [] k \in ServiceKinds -> [s EXCEPT !.abs = FALSE]
    [] OTHER              -> s

(* Mutant: nodes keyed by their name, which both nodes share.              *)
NodeId_ByName(n) == CHOOSE x \in Nodes : TRUE

(* The key of a node in every map: owner_less on the weak_ptr compares     *)
(* control blocks, so two nodes of the same name are two keys.             *)
NodeId(n) == n

Keys == (Kinds \cap NamedKinds) \X Nodes \X Names

Object == [kind : NamedKinds \cup {"timer"}, node : Nodes,
           name : Names \cup {None}, type : Types \cup {None}, addr : Addrs]
Mock   == [addr : Addrs, type : Types, alive : BOOLEAN, owner : Entities]

ASSUME NoneAssumption ==
  None \notin Entities \cup Mocks \cup Nodes \cup Types \cup Names \cup Object \cup Mock

VARIABLES
  state,      \* [Entities -> "new" | "constructing" | "alive" | "dead"]
  obj,        \* what the constructor fixed: kind, node, name, type, address
  reg,        \* the six NodeRegistry maps: key -> weak_ptr
  timersReg,  \* timersRegistry_: node -> the vector's weak_ptrs
  pending,    \* lazy_init_action_clients_ and lazy_init_action_servers_
  mockReg,    \* mockRegistry_: address -> weak_ptr
  mocks,      \* mocks made so far: address held as raw pointer, type, alive;
              \* owner is a history field, the entity the mock was made for
  forgotten   \* history: entities constructed before the last reset

vars == <<state, obj, reg, timersReg, pending, mockReg, mocks, forgotten>>

EmptyReg == [k \in Keys |-> None]

Init ==
  /\ state     = [e \in Entities |-> "new"]
  /\ obj       = [e \in Entities |-> None]
  /\ reg       = EmptyReg
  /\ timersReg = [n \in Nodes |-> {}]
  /\ pending   = {}
  /\ mockReg   = [a \in Addrs |-> None]
  /\ mocks     = [m \in Mocks |-> None]
  /\ forgotten = {}

-----------------------------------------------------------------------------
(***************************************************************************)
(* Lookups.                                                                *)
(***************************************************************************)
Alive(e)   == e # None /\ state[e] = "alive"          \* weak_ptr::lock()
Exists(e)  == state[e] \in {"constructing", "alive"}
KeyOf(o)   == <<o.kind, NodeId(o.node), o.name>>

(* getMock(this): the mock that receives what the entity at a does.        *)
getMock(a) == IF mockReg[a] # None /\ mocks[mockReg[a]].alive
              THEN mockReg[a] ELSE None

(* A weak_ptr keeps the control block.  Publishers, subscriptions,         *)
(* services, clients and timers share one allocation with it, so a weak    *)
(* reference left in the registry pins their address; an action entity is  *)
(* allocated on its own and frees its address when it dies.                *)
Pinned(e) == /\ obj[e].kind \notin LazyKinds
             /\ \/ \E k \in Keys : reg[k] = e
                \/ \E n \in Nodes : e \in timersReg[n]

FreeAddr(a) ==
  \A e \in Entities :
    (state[e] # "new" /\ obj[e].addr = a) => state[e] = "dead" /\ ~Pinned(e)

(* Mutants: an expired entry is kept; a live entry is overwritten.         *)
registerEntity_KeepExpired(key, e) ==
  IF reg[key] # None THEN reg ELSE [reg EXCEPT ![key] = e]

registerEntity_LastWins(key, e) == [reg EXCEPT ![key] = e]

(* registerEntity: an entry is replaced only when what it refers to died.  *)
registerEntity(key, e) ==
  IF Alive(reg[key]) THEN reg ELSE [reg EXCEPT ![key] = e]

(* tryLazyInit runs the callbacks of one kind in construction order.  A    *)
(* callback registers its entity; while no shared_ptr owns the entity yet  *)
(* shared_from_this() throws and the callback stays for the next try.      *)
Initialised(k) == {e \in pending : obj[e].kind = k /\ Alive(e)}

Candidates(key) == {e \in pending : obj[e].kind = key[1] /\ Alive(e) /\ KeyOf(obj[e]) = key}

FirstOf(S) == CHOOSE e \in S : \A f \in S : e <= f

tryLazyInit(k) ==
  [key \in Keys |->
     IF key[1] = k /\ Candidates(key) # {} /\ ~Alive(reg[key])
     THEN FirstOf(Candidates(key)) ELSE reg[key]]

(* What get...() finds in the registry, lazy initialisation included.      *)
RegSeenBy(k) == IF k \in LazyKinds THEN tryLazyInit(k) ELSE reg

(* Mutant: the weak_ptr is used without lock().                            *)
Lookup_NoLock(k, n, s) == RegSeenBy(k)[<<k, NodeId(n), LookupName(k, s)>>]

Lookup(k, n, s) ==
  LET e == RegSeenBy(k)[<<k, NodeId(n), LookupName(k, s)>>]
  IN  IF Alive(e) THEN e ELSE None

findTimers(n) == {e \in timersReg[NodeId(n)] : Alive(e)}

-----------------------------------------------------------------------------
(***************************************************************************)
(* The node under test creates and destroys entities.                      *)
(***************************************************************************)
NewEntity(e) == state[e] = "new" /\ \A f \in Entities : f < e => state[f] # "new"

(* Mutant: the constructor does not keep what it was given.                *)
Fresh_NotRecorded(e, o) == NewEntity(e) /\ FreeAddr(o.addr) /\ UNCHANGED obj

Fresh(e, o) ==
  /\ NewEntity(e)
  /\ FreeAddr(o.addr)
  /\ UniqueKeys => \A f \in Entities :
                     (Exists(f) /\ obj[f].kind # "timer") => KeyOf(obj[f]) # KeyOf(o)
  /\ obj' = [obj EXCEPT ![e] = o]

(* make_shared and post_init_setup() of a publisher, subscription, service *)
(* or client.                                                              *)
Create(e, k, n, s, t, a) ==
  LET o == [kind |-> k, node |-> n, name |-> RegisteredName(k, s), type |-> t, addr |-> a]
  IN  /\ k \in Kinds \cap (NamedKinds \ LazyKinds)
      /\ Fresh(e, o)
      /\ state' = [state EXCEPT ![e] = "alive"]
      /\ reg' = registerEntity(KeyOf(o), e)
      /\ UNCHANGED <<timersReg, pending, mockReg, mocks, forgotten>>

CreateTimer(e, n, a) ==
  /\ "timer" \in Kinds
  /\ NewEntity(e)
  /\ FreeAddr(a)
  /\ obj' = [obj EXCEPT ![e] = [kind |-> "timer", node |-> n, name |-> None,
                                type |-> None, addr |-> a]]
  /\ state' = [state EXCEPT ![e] = "alive"]
  /\ timersReg' = [timersReg EXCEPT ![NodeId(n)] = @ \cup {e}]
  /\ UNCHANGED <<reg, pending, mockReg, mocks, forgotten>>

(* The constructor of an action server or client only queues its           *)
(* registration ...                                                        *)
Construct(e, k, n, s, t, a) ==
  /\ k \in Kinds \cap LazyKinds
  /\ Fresh(e, [kind |-> k, node |-> n, name |-> RegisteredName(k, s), type |-> t, addr |-> a])
  /\ state' = [state EXCEPT ![e] = "constructing"]
  /\ pending' = pending \cup {e}
  /\ UNCHANGED <<reg, timersReg, mockReg, mocks, forgotten>>

(* ... and create_server or create_client then puts it in a shared_ptr.    *)
Adopt(e) ==
  /\ state[e] = "constructing"
  /\ state' = [state EXCEPT ![e] = "alive"]
  /\ UNCHANGED <<obj, reg, timersReg, pending, mockReg, mocks, forgotten>>

(* Mutant: the destructor leaves its init_callback queued.                 *)
removeLazyInit_Kept(e) == pending

(* removeLazyInitClient / removeLazyInitServer, by raw pointer.            *)
removeLazyInit(e) ==
  IF obj[e].kind \in LazyKinds
  THEN {f \in pending : ~(obj[f].kind = obj[e].kind /\ obj[f].addr = obj[e].addr)}
  ELSE pending

(* The last shared_ptr goes.  No destructor touches mockRegistry_.         *)
Destroy(e) ==
  /\ state[e] = "alive"
  /\ ScopedMocks => \A m \in Mocks : mocks[m] # None /\ mocks[m].alive => mocks[m].owner # e
  /\ state' = [state EXCEPT ![e] = "dead"]
  /\ pending' = removeLazyInit(e)
  /\ UNCHANGED <<obj, reg, timersReg, mockReg, mocks, forgotten>>

-----------------------------------------------------------------------------
(***************************************************************************)
(* The test finds entities, holds mocks, and ends.                         *)
(***************************************************************************)
(* Mutant: find...() without the "already attached" test.                  *)
Found_Reattach(k, n, s, t) ==
  LET e == Lookup(k, n, s)
  IN  e # None /\ (k \in CheckedKinds => obj[e].type = t)

Found(k, n, s, t) ==
  LET e == Lookup(k, n, s)
  IN  e # None /\ (k \in CheckedKinds => obj[e].type = t) /\ getMock(obj[e].addr) = None

LazyInitEffect(k) ==
  /\ reg' = RegSeenBy(k)
  /\ pending' = IF k \in LazyKinds THEN pending \ Initialised(k) ELSE pending

(* find...() makes a mock and attaches it at the entity's address.         *)
FindAttach(m, k, n, s, t) ==
  LET e == Lookup(k, n, s)
  IN  /\ k \in Kinds \cap MockedKinds
      /\ mocks[m] = None /\ \A x \in Mocks : x < m => mocks[x] # None
      /\ Found(k, n, s, t)
      /\ LazyInitEffect(k)
      /\ mocks' = [mocks EXCEPT ![m] = [addr |-> obj[e].addr, type |-> t,
                                        alive |-> TRUE, owner |-> e]]
      /\ mockReg' = [mockReg EXCEPT ![obj[e].addr] = m]
      /\ UNCHANGED <<state, obj, timersReg, forgotten>>

(* find...() returns null or throws: nothing found, another type, or a     *)
(* mock is attached already.                                               *)
FindNothing(k, n, s, t) ==
  /\ k \in Kinds \cap MockedKinds
  /\ ~Found(k, n, s, t)
  /\ LazyInitEffect(k)
  /\ UNCHANGED <<state, obj, timersReg, mockReg, mocks, forgotten>>

(* The destructor of a mock: detachMock(pub_), whatever is attached there. *)
DestroyMock(m) ==
  /\ mocks[m] # None /\ mocks[m].alive
  /\ mocks' = [mocks EXCEPT ![m].alive = FALSE]
  /\ mockReg' = [mockReg EXCEPT ![mocks[m].addr] = None]
  /\ UNCHANGED <<state, obj, reg, timersReg, pending, forgotten>>

(* Mutant: reset() forgets the two lazy_init vectors.                      *)
Reset_KeepsPending ==
  /\ QuietReset => \A m \in Mocks : mocks[m] # None => ~mocks[m].alive
  /\ reg'       = EmptyReg
  /\ timersReg' = [n \in Nodes |-> {}]
  /\ mockReg'   = [a \in Addrs |-> None]
  /\ forgotten' = {e \in Entities : state[e] # "new"}
  /\ UNCHANGED <<state, obj, mocks, pending>>

(* MockRegistryCleaner::OnTestSuiteEnd.                                    *)
Reset ==
  /\ QuietReset => \A m \in Mocks : mocks[m] # None => ~mocks[m].alive
  /\ reg'       = EmptyReg
  /\ timersReg' = [n \in Nodes |-> {}]
  /\ mockReg'   = [a \in Addrs |-> None]
  /\ pending'   = {}
  /\ forgotten' = {e \in Entities : state[e] # "new"}
  /\ UNCHANGED <<state, obj, mocks>>

Next ==
  \/ \E e \in Entities, k \in Kinds, n \in Nodes, s \in Names, t \in Types, a \in Addrs :
       Create(e, k, n, s, t, a) \/ Construct(e, k, n, s, t, a)
  \/ \E e \in Entities, n \in Nodes, a \in Addrs : CreateTimer(e, n, a)
  \/ \E e \in Entities : Adopt(e) \/ Destroy(e)
  \/ \E k \in Kinds, n \in Nodes, s \in Names, t \in Types :
       \/ \E m \in Mocks : FindAttach(m, k, n, s, t)
       \/ FindNothing(k, n, s, t)
  \/ \E m \in Mocks : DestroyMock(m)
  \/ Reset

Spec == Init /\ [][Next]_vars

-----------------------------------------------------------------------------
(***************************************************************************)
(* Properties.                                                             *)
(***************************************************************************)

(* Every variable has its type, and an entity has an object exactly once    *)
(* it was constructed.                                                      *)
TypeOK ==
  /\ state \in [Entities -> {"new", "constructing", "alive", "dead"}]
  /\ obj \in [Entities -> Object \cup {None}]
  /\ \A e \in Entities : obj[e] = None <=> state[e] = "new"
  /\ reg \in [Keys -> Entities \cup {None}]
  /\ timersReg \in [Nodes -> SUBSET Entities]
  /\ pending \subseteq Entities
  /\ mockReg \in [Addrs -> Mocks \cup {None}]
  /\ mocks \in [Mocks -> Mock \cup {None}]
  /\ forgotten \subseteq Entities

(* What the registry holds for a node and a name was created by THAT node,  *)
(* as that kind and under that name, also when another node has the same    *)
(* name (NodeId compares control blocks), and a node's timer list holds     *)
(* its own timers only.                                                     *)
LookupIsolation ==
  /\ \A k \in Kinds \cap NamedKinds, n \in Nodes, s \in Names :
       LET e == reg[<<k, n, s>>]
       IN  e # None => obj[e].kind = k /\ obj[e].node = n /\ obj[e].name = s
  /\ \A n \in Nodes : \A e \in timersReg[n] : obj[e].kind = "timer" /\ obj[e].node = n

(* An init_callback captured a raw this; a queued one always belongs to an  *)
(* action entity that still exists, so tryLazyInit never calls into a       *)
(* destroyed one.                                                           *)
PendingLive == \A e \in pending : Exists(e) /\ obj[e].kind \in LazyKinds

(* What a suite can find was created in that suite: neither an entry nor a  *)
(* queued registration survives reset().                                    *)
SuiteIsolation ==
  /\ \A k \in Keys : reg[k] \notin forgotten
  /\ \A n \in Nodes : timersReg[n] \cap forgotten = {}
  /\ pending \cap forgotten = {}

(* A node that names its live entities uniquely gives the test a handle to  *)
(* each of them, by every spelling the node could have used: publishers,    *)
(* subscriptions, services and clients at once, action entities at the      *)
(* first look, timers by findTimers.  Needs UniqueKeys.                     *)
Retrievable ==
  \A e \in Entities \ forgotten :
    state[e] = "alive" =>
      IF obj[e].kind = "timer" THEN e \in findTimers(obj[e].node)
      ELSE \A s \in Names : RegisteredName(obj[e].kind, s) = obj[e].name
                              => Lookup(obj[e].kind, obj[e].node, s) = e

(* A call on an entity (getMock(this)) reaches a mock only if that mock was *)
(* made for this very entity, even when memory is reused.  Needs            *)
(* ScopedMocks.                                                             *)
RoutedToOwnMock ==
  \A e \in Entities :
    (state[e] = "alive" /\ obj[e].kind \in MockedKinds /\ getMock(obj[e].addr) # None)
      => mocks[getMock(obj[e].addr)].owner = e

(* The static_pointer_cast an entity applies to its mock is to the mock's   *)
(* own type, for the kinds whose find...() compares types.  Needs           *)
(* ScopedMocks.                                                             *)
CastSafe ==
  \A e \in Entities :
    LET m == getMock(obj[e].addr)
    IN  (state[e] = "alive" /\ obj[e].kind \notin {"client", "action_client"} /\ m # None)
          => mocks[m].type = obj[e].type

(* A mock the test still holds is the one attached at its entity's address: *)
(* nobody else's destructor detached it and nothing replaced it.  Needs     *)
(* QuietReset.                                                              *)
NoOrphanMock ==
  \A m \in Mocks : mocks[m] # None /\ mocks[m].alive => mockReg[mocks[m].addr] = m

(* The first live entity of a key keeps it: an entry that refers to a live  *)
(* entity changes only by reset().                                          *)
FirstWins ==
  [][\A k \in Keys : Alive(reg[k]) => reg'[k] = reg[k] \/ reg' = EmptyReg]_vars

-----------------------------------------------------------------------------
(***************************************************************************)
(* Refinement of MockRouting.                                              *)
(***************************************************************************)
LifeOf(e)  == CASE state[e] = "alive" -> "live"
                [] state[e] = "dead"  -> "gone"
                [] OTHER              -> "unborn"
BoundTo(e) == IF state[e] = "alive" THEN getMock(obj[e].addr) ELSE None
OwnerOf(m) == IF mocks[m] = None THEN None ELSE mocks[m].owner

Routing == INSTANCE MockRouting WITH
  life  <- [e \in Entities |-> LifeOf(e)],
  bound <- [e \in Entities |-> BoundTo(e)],
  owner <- [m \in Mocks |-> OwnerOf(m)]

(* The registry's address-keyed map of weak references implements the       *)
(* promise: attaching, dropping and destroying in any order, with memory    *)
(* reused, only ever changes the routing of the entity and the mock         *)
(* concerned.  Needs ScopedMocks and QuietReset.                            *)
ImplementsRouting == Routing!Spec

=============================================================================
