-------------------------- MODULE LoggerMockProofs --------------------------
(***************************************************************************)
(* Proofs about LoggerMock, for every set of threads and any number of     *)
(* LoggerMock objects constructed one after the other.                     *)
(***************************************************************************)
EXTENDS LoggerMock, FiniteSetTheorems, TLAPS

(***************************************************************************)
(* The object and the pointer.                                             *)
(*                                                                         *)
(* While the base class's flag is set there is one object, the last one    *)
(* made; instance_ points to it from the first statement of its            *)
(* constructor to the first statement of its destructor.                   *)
(***************************************************************************)
ObjectInv ==
  /\ memory = IF flag["LoggerMock"] THEN {made} ELSE {}
  /\ step # "idle" => flag["LoggerMock"]
  /\ instance_ = IF flag["LoggerMock"] /\ step # "dtor" THEN made ELSE None
  /\ flag["LoggerMock"] => made \in Mocks

Simple ==
  /\ handler \in Handlers
  /\ flag \in [Classes -> BOOLEAN] /\ saved \in [Classes -> Handlers]
  /\ step \in {"idle", "ctor", "dtor"} /\ made \in 0 .. MaxMocks
  /\ pc \in [Threads -> {"idle", "test", "format", "read", "call"}]
  /\ held \in [Threads -> Mocks \cup {None}]

TypeInv == Simple /\ ObjectInv

LEMMA InitTypeInv == Init => TypeInv
<1>1. 0 \in 0 .. MaxMocks
  BY BoundAssumption
<1>. QED
  BY <1>1 DEF Init, TypeInv, Simple, ObjectInv, Classes, Handlers

LEMMA NextTypeInv == TypeInv /\ [Next]_vars => TypeInv'
<1>. SUFFICES ASSUME TypeInv, [Next]_vars
              PROVE  TypeInv'
  OBVIOUS
<1>. USE DEF TypeInv, Simple, ObjectInv
<1>1. CASE BeginLoggerMock
  <2>1. made + 1 \in Mocks /\ made + 1 \in 0 .. MaxMocks
    BY <1>1, BoundAssumption DEF BeginLoggerMock, Mocks
  <2>. QED
    BY <1>1, <2>1 DEF BeginLoggerMock, MayCreate, Classes
<1>2. CASE EndLoggerMock
  BY <1>2 DEF EndLoggerMock, Install, Classes, Handlers
<1>3. CASE BeginDestroyLoggerMock
  BY <1>3 DEF BeginDestroyLoggerMock, MayDestroy
<1>4. CASE EndDestroyLoggerMock
  BY <1>4 DEF EndDestroyLoggerMock, Restore, Classes
<1>5. CASE CreateDisableLogs
  BY <1>5 DEF CreateDisableLogs, Install, Classes, Handlers
<1>6. CASE DestroyDisableLogs
  BY <1>6 DEF DestroyDisableLogs, Restore, MayDestroy, Classes
<1>7. ASSUME NEW t \in Threads, Log(t) \/ TestInstance(t) \/ Format(t)
      PROVE  TypeInv'
  BY <1>7 DEF Log, TestInstance, Format, Goto, testVars
<1>8. ASSUME NEW t \in Threads, ReadInstance(t) \/ CallMock(t)
      PROVE  TypeInv'
  BY <1>8 DEF ReadInstance, CallMock, Goto, testVars
<1>9. CASE UNCHANGED vars
  BY <1>9 DEF vars
<1>. QED
  BY <1>1, <1>2, <1>3, <1>4, <1>5, <1>6, <1>7, <1>8, <1>9 DEF Next

LEMMA TypeFromInv == TypeInv => TypeOK
<1>. SUFFICES ASSUME TypeInv
              PROVE  TypeOK
  OBVIOUS
<1>1. memory \subseteq Mocks /\ instance_ \in memory \cup {None}
  BY DEF TypeInv, ObjectInv
<1>2. Cardinality(memory) <= 1
  BY FS_EmptySet, FS_Singleton DEF TypeInv, ObjectInv
<1>. QED
  BY <1>1, <1>2 DEF TypeInv, Simple, TypeOK

(* SingleInstance keeps at most one LoggerMock in existence and instance_   *)
(* never points to a destroyed one, however the test creates and destroys.  *)
THEOREM TypeCorrect == Spec => []TypeOK
BY InitTypeInv, NextTypeInv, TypeFromInv, PTL DEF Spec

-----------------------------------------------------------------------------
(***************************************************************************)
(* Threads that log.                                                       *)
(*                                                                         *)
(* A thread past the test of instance_ relies on it until its call; the    *)
(* pointer is cleared only by the destructor, which joined threads exclude. *)
(***************************************************************************)
ThreadInv ==
  \A t \in Threads :
    /\ pc[t] \in {"format", "read", "call"} => instance_ # None
    /\ pc[t] = "call" => held[t] = instance_

LEMMA InitThreadInv == Init => ThreadInv
BY DEF Init, ThreadInv

LEMMA NextThreadInv ==
  ASSUME JoinedThreads
  PROVE  TypeInv /\ ThreadInv /\ [Next]_vars => ThreadInv'
<1>. SUFFICES ASSUME TypeInv, ThreadInv, [Next]_vars
              PROVE  ThreadInv'
  OBVIOUS
<1>1. CASE BeginLoggerMock
  <2>1. instance_ = None
    BY <1>1 DEF BeginLoggerMock, MayCreate, TypeInv, ObjectInv
  <2>. QED
    BY <1>1, <2>1 DEF BeginLoggerMock, ThreadInv
<1>2. CASE BeginDestroyLoggerMock
  BY <1>2 DEF BeginDestroyLoggerMock, MayDestroy, ThreadInv
<1>3. ASSUME UNCHANGED <<instance_, pc, held>>
      PROVE  ThreadInv'
  BY <1>3 DEF ThreadInv
<1>4. CASE EndLoggerMock \/ EndDestroyLoggerMock \/ CreateDisableLogs \/ DestroyDisableLogs
           \/ UNCHANGED vars
  BY <1>3, <1>4 DEF EndLoggerMock, EndDestroyLoggerMock, CreateDisableLogs,
                    DestroyDisableLogs, vars
<1>5. ASSUME NEW t \in Threads, Log(t) \/ TestInstance(t) \/ Format(t)
      PROVE  ThreadInv'
  BY <1>5 DEF Log, TestInstance, Format, Goto, testVars, ThreadInv, TypeInv, Simple
<1>6. ASSUME NEW t \in Threads, ReadInstance(t) \/ CallMock(t)
      PROVE  ThreadInv'
  BY <1>6 DEF ReadInstance, CallMock, Goto, testVars, ThreadInv, TypeInv, Simple
<1>. QED
  BY <1>1, <1>2, <1>4, <1>5, <1>6 DEF Next

LEMMA CallFromInv == TypeInv /\ ThreadInv => NoCallOnDestroyed
BY DEF TypeInv, ObjectInv, ThreadInv, NoCallOnDestroyed

(* When the test joins its threads before it destroys the object, no thread *)
(* calls log() through a pointer to a destroyed LoggerMock, although        *)
(* logHandler reads instance_ twice without a lock.                         *)
THEOREM NoDanglingCall == ASSUME JoinedThreads PROVE Spec => []NoCallOnDestroyed
<1>1. TypeInv /\ ThreadInv /\ [Next]_vars => ThreadInv'
  BY NextThreadInv
<1>. QED
  BY <1>1, InitTypeInv, NextTypeInv, InitThreadInv, CallFromInv, PTL DEF Spec

-----------------------------------------------------------------------------
(***************************************************************************)
(* Handlers.                                                               *)
(*                                                                         *)
(* While objects are destroyed newest first, each one's saved handler is   *)
(* that of the object below it on the stack.                               *)
(***************************************************************************)
Below(s, i) == IF i = 0 THEN "default" ELSE HandlerOf(s[i])

(* The classes whose object exists and has taken the handler.               *)
installed == {c \in Classes : flag[c] /\ ~(c = "LoggerMock" /\ step = "ctor")}

StackInv ==
  /\ scopes \in Seq(Classes)
  /\ \A i, j \in 1 .. Len(scopes) : scopes[i] = scopes[j] => i = j
  /\ \A c \in Classes : c \in installed <=> \E i \in 1 .. Len(scopes) : scopes[i] = c
  /\ \A i \in 1 .. Len(scopes) : saved[scopes[i]] = Below(scopes, i - 1)
  /\ handler = Below(scopes, Len(scopes))

LEMMA InitStackInv == Init => StackInv
BY DEF Init, StackInv, Below, installed, Classes

(* A constructor saves the handler in force and puts its own.               *)
LEMMA InstallKeepsStack ==
  ASSUME TypeInv, StackInv, NEW c \in Classes, c \notin installed, Install(c, HandlerOf(c)),
         installed' = installed \cup {c}
  PROVE  StackInv'
<1>1. /\ scopes' = Append(scopes, c) /\ saved' = [saved EXCEPT ![c] = handler]
      /\ handler' = HandlerOf(c) /\ scopes \in Seq(Classes)
  BY DEF Install, StackInv
<1>2. /\ scopes' \in Seq(Classes) /\ Len(scopes') = Len(scopes) + 1 /\ Len(scopes) \in Nat
      /\ scopes'[Len(scopes) + 1] = c
      /\ \A i \in 1 .. Len(scopes) : scopes'[i] = scopes[i]
  BY <1>1
<1>3. \A i \in 1 .. Len(scopes) : scopes[i] \in Classes /\ scopes[i] # c
  BY <1>1 DEF StackInv
<1>4. \A i, j \in 1 .. Len(scopes') : scopes'[i] = scopes'[j] => i = j
  BY <1>2, <1>3 DEF StackInv
<1>5. \A d \in Classes : d \in installed' <=> \E i \in 1 .. Len(scopes') : scopes'[i] = d
  <2>1. ASSUME NEW d \in Classes, d \in installed'
        PROVE  \E i \in 1 .. Len(scopes') : scopes'[i] = d
    <3>1. CASE d = c
      BY <1>2, <3>1
    <3>2. CASE d # c
      <4>1. PICK i \in 1 .. Len(scopes) : scopes[i] = d
        BY <2>1, <3>2 DEF StackInv
      <4>. QED
        BY <1>2, <4>1
    <3>. QED
      BY <3>1, <3>2
  <2>2. ASSUME NEW i \in 1 .. Len(scopes')
        PROVE  scopes'[i] \in installed'
    <3>1. CASE i = Len(scopes) + 1
      BY <1>2, <3>1
    <3>2. CASE i # Len(scopes) + 1
      BY <1>2, <1>3, <2>2, <3>2 DEF StackInv
    <3>. QED
      BY <3>1, <3>2
  <2>. QED
    BY <2>1, <2>2
<1>6. \A i \in 1 .. Len(scopes) + 1 : Below(scopes', i - 1) = Below(scopes, i - 1)
  BY <1>2 DEF Below
<1>7. ASSUME NEW i \in 1 .. Len(scopes')
      PROVE  saved'[scopes'[i]] = Below(scopes', i - 1)
  <2>1. CASE i = Len(scopes) + 1
    <3>1. saved'[c] = handler
      BY <1>1 DEF TypeInv, Simple
    <3>2. handler = Below(scopes, Len(scopes)) /\ i - 1 = Len(scopes)
      BY <1>2, <2>1 DEF StackInv
    <3>. QED
      BY <1>2, <1>6, <2>1, <3>1, <3>2
  <2>2. CASE i # Len(scopes) + 1
    <3>1. i \in 1 .. Len(scopes)
      BY <1>2, <2>2
    <3>2. saved'[scopes'[i]] = saved[scopes[i]]
      BY <1>1, <1>2, <1>3, <3>1 DEF TypeInv, Simple
    <3>. QED
      BY <1>2, <1>6, <3>1, <3>2 DEF StackInv
  <2>. QED
    BY <2>1, <2>2
<1>8. handler' = Below(scopes', Len(scopes'))
  BY <1>1, <1>2 DEF Below
<1>. QED
  BY <1>2, <1>4, <1>5, <1>7, <1>8 DEF StackInv

(* The destructor of the newest object puts back the handler below it.      *)
LEMMA RestoreKeepsStack ==
  ASSUME StackInv, NEW c \in Classes, c \in installed, scopes[Len(scopes)] = c,
         scopes' = Without(scopes, c), handler' = saved[c], UNCHANGED saved,
         installed' = installed \ {c}
  PROVE  StackInv'
<1>. PICK n \in Nat : n = Len(scopes)
  BY DEF StackInv
<1>1. n >= 1 /\ \A i \in 1 .. n : scopes[i] \in Classes
  BY DEF StackInv
<1>2. (CHOOSE i \in 1 .. n : scopes[i] = c) = n
  BY <1>1 DEF StackInv
<1>3. scopes' = [j \in 1 .. n - 1 |-> scopes[j]]
  <2>1. scopes' = [j \in 1 .. n - 1 |-> IF j < n THEN scopes[j] ELSE scopes[j + 1]]
    BY <1>2 DEF Without
  <2>. QED
    BY <2>1
<1>4. scopes' \in Seq(Classes) /\ Len(scopes') = n - 1
  BY <1>1, <1>3
<1>5. \A i \in 1 .. n - 1 : scopes'[i] = scopes[i] /\ scopes[i] # c
  BY <1>1, <1>3 DEF StackInv
<1>6. ASSUME NEW i \in 1 .. Len(scopes'), NEW j \in 1 .. Len(scopes'), scopes'[i] = scopes'[j]
      PROVE  i = j
  <2>1. i \in 1 .. n - 1 /\ j \in 1 .. n - 1 /\ i \in 1 .. n /\ j \in 1 .. n
    BY <1>1, <1>4
  <2>2. scopes[i] = scopes[j]
    BY <1>5, <1>6, <2>1
  <2>3. \A x, y \in 1 .. n : scopes[x] = scopes[y] => x = y
    BY DEF StackInv
  <2>. QED
    BY <2>1, <2>2, <2>3
<1>7. \A d \in Classes : d \in installed' <=> \E i \in 1 .. Len(scopes') : scopes'[i] = d
  <2>1. ASSUME NEW d \in Classes, d \in installed'
        PROVE  \E i \in 1 .. Len(scopes') : scopes'[i] = d
    <3>1. PICK i \in 1 .. n : scopes[i] = d
      BY <2>1 DEF StackInv
    <3>2. i # n /\ i \in 1 .. n - 1
      BY <2>1, <3>1
    <3>. QED
      BY <1>4, <1>5, <3>1, <3>2
  <2>2. ASSUME NEW i \in 1 .. Len(scopes')
        PROVE  scopes'[i] \in installed'
    <3>1. i \in 1 .. n - 1 /\ i \in 1 .. n
      BY <1>1, <1>4
    <3>2. scopes[i] \in installed
      BY <1>1, <3>1 DEF StackInv
    <3>. QED
      BY <1>5, <3>1, <3>2
  <2>. QED
    BY <2>1, <2>2
<1>8. \A i \in 1 .. n : Below(scopes', i - 1) = Below(scopes, i - 1)
  BY <1>1, <1>5 DEF Below
<1>9. ASSUME NEW i \in 1 .. Len(scopes')
      PROVE  saved'[scopes'[i]] = Below(scopes', i - 1)
  <2>1. i \in 1 .. n - 1 /\ i \in 1 .. n
    BY <1>1, <1>4
  <2>2. saved[scopes[i]] = Below(scopes, i - 1)
    BY <2>1 DEF StackInv
  <2>. QED
    BY <1>5, <1>8, <2>1, <2>2
<1>10. handler' = Below(scopes', Len(scopes'))
  BY <1>1, <1>4, <1>8 DEF StackInv
<1>. QED
  BY <1>4, <1>6, <1>7, <1>9, <1>10 DEF StackInv

(* A step that leaves the stack alone.                                      *)
LEMMA StackKept ==
  ASSUME StackInv, UNCHANGED <<scopes, saved, handler, installed>>
  PROVE  StackInv'
BY DEF StackInv, Below, HandlerOf

LEMMA LifoNeverComesBack ==
  ASSUME NEW c, Restore(c), lifo'
  PROVE  lifo /\ scopes[Len(scopes)] = c
BY Zenon DEF Restore

LEMMA NextStackInv == TypeInv /\ (lifo => StackInv) /\ [Next]_vars => (lifo' => StackInv')
<1>. SUFFICES ASSUME TypeInv, lifo => StackInv, [Next]_vars, lifo'
              PROVE  StackInv'
  OBVIOUS
<1>. USE DEF TypeInv, Simple, ObjectInv
<1>1. CASE BeginLoggerMock
  <2>1. UNCHANGED <<scopes, saved, handler, lifo>> /\ UNCHANGED installed
    BY <1>1 DEF BeginLoggerMock, MayCreate, installed, Classes
  <2>. QED
    BY <2>1, StackKept
<1>2. CASE EndLoggerMock
  <2>1. /\ "LoggerMock" \in Classes \ installed /\ Install("LoggerMock", HandlerOf("LoggerMock"))
        /\ installed' = installed \cup {"LoggerMock"}
    BY <1>2 DEF EndLoggerMock, installed, Classes, HandlerOf
  <2>2. UNCHANGED lifo
    BY <1>2 DEF EndLoggerMock, Install
  <2>. QED
    BY <2>1, <2>2, InstallKeepsStack
<1>3. CASE BeginDestroyLoggerMock
  <2>1. UNCHANGED <<scopes, saved, handler, lifo>> /\ UNCHANGED installed
    BY <1>3 DEF BeginDestroyLoggerMock, MayDestroy, installed, Classes
  <2>. QED
    BY <2>1, StackKept
<1>4. CASE EndDestroyLoggerMock
  <2>1. /\ "LoggerMock" \in Classes /\ "LoggerMock" \in installed
        /\ installed' = installed \ {"LoggerMock"}
    BY <1>4 DEF EndDestroyLoggerMock, installed, Classes
  <2>2. /\ scopes' = Without(scopes, "LoggerMock") /\ handler' = saved["LoggerMock"]
        /\ UNCHANGED saved /\ Restore("LoggerMock")
    BY <1>4 DEF EndDestroyLoggerMock, Restore
  <2>3. lifo /\ scopes[Len(scopes)] = "LoggerMock"
    BY <2>2, LifoNeverComesBack
  <2>. QED
    BY <2>1, <2>2, <2>3, RestoreKeepsStack
<1>5. CASE CreateDisableLogs
  <2>1. /\ "DisableLogs" \in Classes \ installed /\ Install("DisableLogs", HandlerOf("DisableLogs"))
        /\ installed' = installed \cup {"DisableLogs"}
    BY <1>5 DEF CreateDisableLogs, MayCreate, installed, Classes, HandlerOf
  <2>2. UNCHANGED lifo
    BY <1>5 DEF CreateDisableLogs, Install
  <2>. QED
    BY <2>1, <2>2, InstallKeepsStack
<1>6. CASE DestroyDisableLogs
  <2>1. /\ "DisableLogs" \in Classes /\ "DisableLogs" \in installed
        /\ installed' = installed \ {"DisableLogs"}
    BY <1>6 DEF DestroyDisableLogs, MayDestroy, installed, Classes
  <2>2. /\ scopes' = Without(scopes, "DisableLogs") /\ handler' = saved["DisableLogs"]
        /\ UNCHANGED saved /\ Restore("DisableLogs")
    BY <1>6 DEF DestroyDisableLogs, Restore
  <2>3. lifo /\ scopes[Len(scopes)] = "DisableLogs"
    BY <2>2, LifoNeverComesBack
  <2>. QED
    BY <2>1, <2>2, <2>3, RestoreKeepsStack
<1>7. ASSUME UNCHANGED testVars
      PROVE  StackInv'
  BY <1>7, StackKept DEF testVars, installed
<1>8. ASSUME NEW t \in Threads,
             Log(t) \/ TestInstance(t) \/ Format(t) \/ ReadInstance(t) \/ CallMock(t)
      PROVE  StackInv'
  BY <1>7, <1>8 DEF Log, TestInstance, Format, ReadInstance, CallMock
<1>9. CASE UNCHANGED vars
  BY <1>7, <1>9 DEF vars, testVars
<1>. QED
  BY <1>1, <1>2, <1>3, <1>4, <1>5, <1>6, <1>8, <1>9 DEF Next

LEMMA InnermostFromInv == (lifo => StackInv) => InnermostInForce
<1>. SUFFICES ASSUME StackInv
              PROVE  handler = IF scopes = <<>> THEN "default" ELSE HandlerOf(scopes[Len(scopes)])
  BY Zenon DEF InnermostInForce
<1>1. Len(scopes) \in Nat /\ (Len(scopes) = 0 <=> scopes = <<>>)
  BY DEF StackInv
<1>. QED
  BY <1>1 DEF StackInv, Below

(* Objects destroyed newest first leave the handler of the newest existing  *)
(* one in force, and the original handler once all are gone, for any number *)
(* of LoggerMock and DisableLogs objects and any interleaving of threads.   *)
THEOREM HandlersNest == Spec => []InnermostInForce
<1>. DEFINE SInv == lifo => StackInv
<1>1. Init => SInv
  BY InitStackInv
<1>2. TypeInv /\ SInv /\ [Next]_vars => SInv'
  BY NextStackInv
<1>3. SInv => InnermostInForce
  BY InnermostFromInv
<1>. HIDE DEF SInv
<1>. QED
  BY <1>1, <1>2, <1>3, InitTypeInv, NextTypeInv, PTL DEF Spec

=============================================================================
