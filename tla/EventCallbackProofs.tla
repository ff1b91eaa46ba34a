------------------------ MODULE EventCallbackProofs -------------------------
(***************************************************************************)
(* Proofs about EventCallback, for every set of threads and callables.     *)
(***************************************************************************)
EXTENDS EventCallback, TLAPS

(***************************************************************************)
(* The inductive invariant, in four parts.                                 *)
(***************************************************************************)

(* callback_mutex_: its owner is the one thread between Lock and Unlock,   *)
(* and the object is whole while a thread is in set or clear.              *)
MutexInv ==
  \A t \in Threads :
    /\ pc[t] \notin {"idle", "lock"} <=> mutex = t
    /\ pc[t] # "idle" => live = 3

(* What a thread in set or clear has done so far.                          *)
ProgressInv ==
  \A t \in Threads :
    /\ pc[t] \in {"lock"} \cup SetSteps => temp[t] # "null"
    /\ pc[t] \in {"store", "permanent"} => installed = t
    /\ pc[t] = "permanent" => member = temp[t]
    /\ pc[t] = "uninstall" => member # "null"
    /\ pc[t] = "reset" => installed = "none"
    /\ installed = t => pc[t] \in {"store", "permanent"}

(* Where the middleware points, seen from the object.                      *)
PointerInv ==
  /\ ~HandleExists => installed = "none"
  /\ ~Alive("callback") => member = "null"
  /\ installed = "member" /\ ~Outlived => member # "null"
  /\ installed # "none" => unread = 0
  /\ (member # "null" /\ Alive("handle") /\ \A t \in Threads : pc[t] # "reset")
       => installed # "none"

(* A running call is of the function object the middleware points at, and  *)
(* that object is what it was when the call began.                         *)
CallInv ==
  call # Idle =>
    /\ HandleExists
    /\ call.at = installed /\ installed # "none"
    /\ ~Outlived => Deref(installed) = call.fn

IInv == TypeOK /\ MutexInv /\ ProgressInv /\ PointerInv /\ CallInv

(* The members that are left, as conditions on live.                       *)
Whole ==
  /\ Alive("handle") <=> live = 3 \/ (live = 2 /\ kind = "service")
  /\ Alive("callback") <=> live \in {2, 3} \/ (live = 1 /\ kind = "service")
  /\ Alive("logger") <=> live = 3 \/ (live \in {1, 2} /\ kind = "client")

-----------------------------------------------------------------------------
(* Destruction goes through the members in the reverse of their            *)
(* declaration, which for three members is a table.                        *)
LEMMA MembersLeft == TypeOK => Whole
BY DEF TypeOK, Whole, Alive, Members, ClientMembers, ServiceMembers, Kinds

LEMMA MembersLeftNext == TypeOK' => Whole'
BY DEF TypeOK, Whole, Alive, Members, ClientMembers, ServiceMembers, Kinds

LEMMA LastMember ==
  TypeOK /\ live > 0 =>
    /\ Members[live] = "handle" <=> (kind = "client" /\ live = 3) \/ (kind = "service" /\ live = 2)
    /\ Members[live] = "callback" <=> (kind = "client" /\ live = 2) \/ (kind = "service" /\ live = 1)
BY DEF TypeOK, Members, ClientMembers, ServiceMembers, Kinds

(* What the middleware may be handed and what it calls have their types.   *)
LEMMA DerefType == ASSUME TypeOK, NEW p \in Pointers PROVE Deref(p) \in Functions
BY DEF TypeOK, Deref, Pointers, Functions

LEMMA InstallType ==
  ASSUME TypeOK, NEW p \in Pointers, NEW t \in Threads, Install(p, t)
  PROVE  installed' \in Pointers /\ unread' \in 0 .. MaxUnread
         /\ call' \in [at : Pointers, fn : Functions, by : Threads \cup {"none", "rmw"},
                       caught : BOOLEAN]
<1>1. Deref(p) \in Functions
  BY DerefType
<1>2. CallOf(p, Deref(p), t) \in [at : Pointers, fn : Functions,
                                  by : Threads \cup {"none", "rmw"}, caught : BOOLEAN]
  BY <1>1 DEF CallOf
<1>3. 0 \in 0 .. MaxUnread
  BY NamesAssumption
<1>4. CASE p # "none" /\ unread > 0
  BY <1>2, <1>3, <1>4 DEF Install
<1>5. CASE ~(p # "none" /\ unread > 0)
  BY <1>5 DEF Install, TypeOK
<1> QED
  BY <1>4, <1>5

-----------------------------------------------------------------------------
LEMMA NoneUnread == 0 \in 0 .. MaxUnread
BY NamesAssumption

LEMMA TypeInit == Init => TypeOK
<1> SUFFICES ASSUME Init PROVE TypeOK
  OBVIOUS
<1>1. live \in 0 .. 3
  BY DEF Init
<1>2. unread \in 0 .. MaxUnread
  BY NoneUnread DEF Init
<1>3. temp \in [Threads -> Functions]
  BY DEF Init, Functions
<1> QED
  BY <1>1, <1>2, <1>3 DEF Init, TypeOK, Idle, Functions, Pointers

LEMMA TypeStep == TypeOK /\ [Next]_vars => TypeOK'
<1> SUFFICES ASSUME TypeOK, [Next]_vars PROVE TypeOK'
  OBVIOUS
<1> USE DEF objectVars, SetSteps, ClearSteps, Goto
<1>1. ASSUME NEW t \in Threads, NEW c \in Callbacks, Set(t, c) PROVE TypeOK'
  BY <1>1 DEF Set, TypeOK, Functions
<1>2. ASSUME NEW t \in Threads, Lock(t) PROVE TypeOK'
  BY <1>2 DEF Lock, TypeOK
<1>3. ASSUME NEW t \in Threads, InstallTemporary(t) PROVE TypeOK'
  <2>1. Install(t, t) /\ t \in Pointers
    BY <1>3 DEF InstallTemporary, Pointers
  <2> QED
    BY <1>3, <2>1, InstallType DEF InstallTemporary, TypeOK
<1>4. ASSUME NEW t \in Threads, Store(t) PROVE TypeOK'
  BY <1>4 DEF Store, TypeOK
<1>5. ASSUME NEW t \in Threads, InstallMember(t) PROVE TypeOK'
  <2>1. Install("member", t) /\ "member" \in Pointers
    BY <1>5 DEF InstallMember, Pointers
  <2> QED
    BY <1>5, <2>1, InstallType DEF InstallMember, TypeOK
<1>6. ASSUME NEW t \in Threads, Clear(t) PROVE TypeOK'
  BY <1>6 DEF Clear, TypeOK
<1>7. ASSUME NEW t \in Threads, Uninstall(t) PROVE TypeOK'
  <2>1. Install("none", t) /\ "none" \in Pointers
    BY <1>7 DEF Uninstall, Pointers
  <2> QED
    BY <1>7, <2>1, InstallType DEF Uninstall, TypeOK
<1>8. ASSUME NEW t \in Threads, ResetMember(t) PROVE TypeOK'
  BY <1>8 DEF ResetMember, TypeOK, Functions
<1>9. ASSUME NEW t \in Threads, Unlock(t) PROVE TypeOK'
  BY <1>9 DEF Unlock, TypeOK, Functions
<1>10. CASE Arrive
  <2>1. CallOf(installed, Deref(installed), "rmw")
          \in [at : Pointers, fn : Functions, by : Threads \cup {"none", "rmw"},
              caught : BOOLEAN]
    BY DerefType DEF CallOf, TypeOK
  <2>2. CASE installed = "none"
    BY <1>10, <2>2, NamesAssumption DEF Arrive, TypeOK
  <2>3. CASE installed # "none"
    BY <1>10, <2>1, <2>3 DEF Arrive, TypeOK
  <2> QED
    BY <2>2, <2>3
<1>11. CASE Throw
  BY <1>11 DEF Throw, TypeOK
<1>12. CASE EndCall
  BY <1>12 DEF EndCall, TypeOK, Idle, Functions, Pointers
<1>13. CASE ShareHandle
  BY <1>13 DEF ShareHandle, TypeOK
<1>14. CASE DropHandle
  <2>1. CASE Alive("handle")
    BY <1>14, <2>1 DEF DropHandle, TypeOK
  <2>2. CASE ~Alive("handle")
    BY <1>14, <2>2, NoneUnread DEF DropHandle, Finalise, TypeOK, Pointers
  <2> QED
    BY <2>1, <2>2
<1>15. CASE DestroyMember
  <2>1. live' \in 0 .. 3 /\ member' \in Functions /\ installed' \in Pointers
          /\ unread' \in 0 .. MaxUnread
    <3>1. CASE Members[live] = "handle" /\ ~shared
      BY <1>15, <3>1, NamesAssumption DEF DestroyMember, Finalise, TypeOK, Pointers
    <3>2. CASE Members[live] = "callback"
      BY <1>15, <3>2 DEF DestroyMember, TypeOK, Functions
    <3>3. CASE ~(Members[live] = "handle" /\ ~shared) /\ Members[live] # "callback"
      BY <1>15, <3>3 DEF DestroyMember, TypeOK
    <3> QED
      BY <3>1, <3>2, <3>3
  <2> QED
    BY <1>15, <2>1 DEF DestroyMember, TypeOK
<1>16. CASE Construct
  BY <1>16 DEF Construct, TypeOK
<1>17. CASE UNCHANGED vars
  BY <1>17 DEF vars, TypeOK
<1>18. ASSUME NEW t \in Threads, InstallFails(t) PROVE TypeOK'
  BY <1>18 DEF InstallFails, TypeOK
<1> QED
  BY <1>1, <1>2, <1>3, <1>4, <1>5, <1>6, <1>7, <1>8, <1>9, <1>10, <1>11, <1>12,
     <1>13, <1>14, <1>15, <1>16, <1>17, <1>18 DEF Next, ThreadStep

(* Every variable of the model keeps its type, whoever sets, clears,       *)
(* calls, shares and destroys.                                             *)
THEOREM CallbackTypeCorrect == Spec => []TypeOK
BY TypeInit, TypeStep, PTL DEF Spec

-----------------------------------------------------------------------------
LEMMA IInvInit == Init => IInv
<1> SUFFICES ASSUME Init PROVE IInv
  OBVIOUS
<1>1. TypeOK
  BY TypeInit
<1>2. Whole
  BY <1>1, MembersLeft
<1>3. MutexInv /\ ProgressInv
  BY NamesAssumption DEF Init, MutexInv, ProgressInv, SetSteps
<1>4. PointerInv /\ CallInv
  BY <1>2 DEF Init, PointerInv, CallInv, HandleExists, Outlived
<1> QED
  BY <1>1, <1>3, <1>4 DEF IInv

(***************************************************************************)
(* One lemma per action, one step per part of the invariant.               *)
(***************************************************************************)
LEMMA SetKeeps ==
  ASSUME IInv, TypeOK', Whole, Whole', NEW t \in Threads, NEW c \in Callbacks, Set(t, c)
  PROVE  IInv'
<1> USE NamesAssumption DEF IInv, objectVars, Goto
<1>1. MutexInv'
  BY DEF Set, MutexInv, TypeOK, Intact
<1>2. ProgressInv'
  BY DEF Set, MutexInv, ProgressInv, TypeOK, SetSteps
<1>3. PointerInv'
  BY DEF Set, MutexInv, ProgressInv, PointerInv, TypeOK, SetSteps, HandleExists,
     Outlived, Whole
<1>4. CallInv'
  BY DEF Set, MutexInv, ProgressInv, PointerInv, CallInv, TypeOK, HandleExists,
     Outlived, Whole, Deref, Idle
<1> QED
  BY <1>1, <1>2, <1>3, <1>4

LEMMA LockKeeps ==
  ASSUME IInv, TypeOK', Whole, Whole', NEW t \in Threads, Lock(t)
  PROVE  IInv'
<1> USE NamesAssumption DEF IInv, objectVars, Goto
<1>1. MutexInv'
  BY DEF Lock, MutexInv, TypeOK, Intact
<1>2. ProgressInv'
  BY DEF Lock, MutexInv, ProgressInv, TypeOK, SetSteps
<1>3. PointerInv'
  BY DEF Lock, MutexInv, ProgressInv, PointerInv, TypeOK, SetSteps,
     HandleExists, Outlived, Whole
<1>4. CallInv'
  BY DEF Lock, MutexInv, ProgressInv, PointerInv, CallInv, TypeOK, HandleExists,
     Outlived, Whole, Deref, Idle
<1> QED
  BY <1>1, <1>2, <1>3, <1>4

LEMMA InstallTemporaryKeeps ==
  ASSUME IInv, TypeOK', Whole, Whole', NEW t \in Threads, InstallTemporary(t)
  PROVE  IInv'
<1> USE NamesAssumption DEF IInv, objectVars, Goto
<1>1. MutexInv'
  BY DEF InstallTemporary, MutexInv, TypeOK, Intact
<1>2. ProgressInv'
  BY DEF InstallTemporary, Install, CallOf, MutexInv, ProgressInv, TypeOK, SetSteps
<1>3. PointerInv'
  BY DEF InstallTemporary, Install, CallOf, MutexInv, ProgressInv, PointerInv,
     TypeOK, SetSteps, HandleExists, Outlived, Whole
<1>4. CallInv'
  BY DEF InstallTemporary, Install, CallOf, MutexInv, ProgressInv, PointerInv,
     CallInv, TypeOK, HandleExists, Outlived, Whole, Deref, Idle
<1> QED
  BY <1>1, <1>2, <1>3, <1>4

LEMMA StoreKeeps ==
  ASSUME IInv, TypeOK', Whole, Whole', NEW t \in Threads, Store(t)
  PROVE  IInv'
<1> USE NamesAssumption DEF IInv, objectVars, Goto
<1>1. MutexInv'
  BY DEF Store, MutexInv, TypeOK, Intact
<1>2. ProgressInv'
  BY DEF Store, MutexInv, ProgressInv, TypeOK, SetSteps
<1>3. PointerInv'
  BY DEF Store, MutexInv, ProgressInv, PointerInv, TypeOK, SetSteps,
     HandleExists, Outlived, Whole
<1>4. CallInv'
  BY DEF Store, MutexInv, ProgressInv, PointerInv, CallInv, TypeOK,
     HandleExists, Outlived, Whole, Deref, Idle
<1> QED
  BY <1>1, <1>2, <1>3, <1>4

LEMMA InstallMemberKeeps ==
  ASSUME IInv, TypeOK', Whole, Whole', NEW t \in Threads, InstallMember(t)
  PROVE  IInv'
<1> USE NamesAssumption DEF IInv, objectVars, Goto
<1>1. MutexInv'
  BY DEF InstallMember, MutexInv, TypeOK, Intact
<1>2. ProgressInv'
  BY DEF InstallMember, Install, CallOf, MutexInv, ProgressInv, TypeOK, SetSteps
<1>3. PointerInv'
  BY DEF InstallMember, Install, CallOf, MutexInv, ProgressInv, PointerInv,
     TypeOK, SetSteps, HandleExists, Outlived, Whole
<1>4. CallInv'
  BY DEF InstallMember, Install, CallOf, MutexInv, ProgressInv, PointerInv,
     CallInv, TypeOK, HandleExists, Outlived, Whole, Deref, Idle
<1> QED
  BY <1>1, <1>2, <1>3, <1>4

LEMMA ClearKeeps ==
  ASSUME IInv, TypeOK', Whole, Whole', NEW t \in Threads, Clear(t)
  PROVE  IInv'
<1> USE NamesAssumption DEF IInv, objectVars, Goto
<1>1. MutexInv'
  BY DEF Clear, MutexInv, TypeOK, Intact
<1>2. ProgressInv'
  BY DEF Clear, MutexInv, ProgressInv, TypeOK, SetSteps
<1>3. PointerInv'
  BY DEF Clear, MutexInv, ProgressInv, PointerInv, TypeOK, SetSteps,
     HandleExists, Outlived, Whole
<1>4. CallInv'
  BY DEF Clear, MutexInv, ProgressInv, PointerInv, CallInv, TypeOK,
     HandleExists, Outlived, Whole, Deref, Idle
<1> QED
  BY <1>1, <1>2, <1>3, <1>4

LEMMA UninstallKeeps ==
  ASSUME IInv, TypeOK', Whole, Whole', NEW t \in Threads, Uninstall(t)
  PROVE  IInv'
<1> USE NamesAssumption DEF IInv, objectVars, Goto
<1>1. MutexInv'
  BY DEF Uninstall, MutexInv, TypeOK, Intact
<1>2. ProgressInv'
  BY DEF Uninstall, Install, CallOf, MutexInv, ProgressInv, TypeOK, SetSteps
<1>3. PointerInv'
  BY DEF Uninstall, Install, CallOf, MutexInv, ProgressInv, PointerInv, TypeOK,
     SetSteps, HandleExists, Outlived, Whole
<1>4. CallInv'
  BY DEF Uninstall, Install, CallOf, MutexInv, ProgressInv, PointerInv, CallInv,
     TypeOK, HandleExists, Outlived, Whole, Deref, Idle
<1> QED
  BY <1>1, <1>2, <1>3, <1>4

LEMMA ResetMemberKeeps ==
  ASSUME IInv, TypeOK', Whole, Whole', NEW t \in Threads, ResetMember(t)
  PROVE  IInv'
<1> USE NamesAssumption DEF IInv, objectVars, Goto
<1>1. MutexInv'
  BY DEF ResetMember, MutexInv, TypeOK, Intact
<1>2. ProgressInv'
  BY DEF ResetMember, MutexInv, ProgressInv, TypeOK, SetSteps
<1>3. PointerInv'
  BY DEF ResetMember, MutexInv, ProgressInv, PointerInv, TypeOK, SetSteps,
     HandleExists, Outlived, Whole
<1>4. CallInv'
  BY DEF ResetMember, MutexInv, ProgressInv, PointerInv, CallInv, TypeOK,
     HandleExists, Outlived, Whole, Deref, Idle
<1> QED
  BY <1>1, <1>2, <1>3, <1>4

LEMMA InstallFailsKeeps ==
  ASSUME IInv, TypeOK', Whole, Whole', NEW t \in Threads, InstallFails(t)
  PROVE  IInv'
<1> USE NamesAssumption DEF IInv, objectVars, Goto
<1>1. MutexInv'
  BY DEF InstallFails, MutexInv, TypeOK, Intact
<1>2. ProgressInv'
  BY DEF InstallFails, MutexInv, ProgressInv, TypeOK, SetSteps
<1>3. PointerInv'
  BY DEF InstallFails, MutexInv, ProgressInv, PointerInv, TypeOK, SetSteps,
     HandleExists, Outlived, Whole
<1>4. CallInv'
  BY DEF InstallFails, MutexInv, ProgressInv, PointerInv, CallInv, TypeOK,
     HandleExists, Outlived, Whole, Deref, Idle
<1> QED
  BY <1>1, <1>2, <1>3, <1>4

LEMMA UnlockKeeps ==
  ASSUME IInv, TypeOK', Whole, Whole', NEW t \in Threads, Unlock(t)
  PROVE  IInv'
<1> USE NamesAssumption DEF IInv, objectVars, Goto
<1>1. MutexInv'
  BY DEF Unlock, MutexInv, TypeOK, Intact
<1>2. ProgressInv'
  BY DEF Unlock, MutexInv, ProgressInv, TypeOK, SetSteps
<1>3. PointerInv'
  BY DEF Unlock, MutexInv, ProgressInv, PointerInv, TypeOK, SetSteps,
     HandleExists, Outlived, Whole
<1>4. CallInv'
  BY DEF Unlock, MutexInv, ProgressInv, PointerInv, CallInv, TypeOK,
     HandleExists, Outlived, Whole, Deref, Idle
<1> QED
  BY <1>1, <1>2, <1>3, <1>4

LEMMA ArriveKeeps == IInv /\ TypeOK' /\ Whole /\ Whole' /\ Arrive => IInv'
<1> SUFFICES ASSUME IInv, TypeOK', Whole, Whole', Arrive PROVE IInv'
  OBVIOUS
<1> USE NamesAssumption DEF IInv, objectVars
<1>1. MutexInv'
  BY DEF Arrive, CallOf, MutexInv, TypeOK
<1>2. ProgressInv'
  BY DEF Arrive, CallOf, MutexInv, ProgressInv, TypeOK, SetSteps
<1>3. PointerInv'
  BY DEF Arrive, CallOf, MutexInv, ProgressInv, PointerInv, TypeOK, SetSteps,
     HandleExists, Outlived, Whole
<1>4. CallInv'
  BY DEF Arrive, CallOf, MutexInv, ProgressInv, PointerInv, CallInv, TypeOK,
     HandleExists, Outlived, Whole, Deref, Idle
<1> QED
  BY <1>1, <1>2, <1>3, <1>4

LEMMA ThrowKeeps == IInv /\ TypeOK' /\ Whole /\ Whole' /\ Throw => IInv'
<1> SUFFICES ASSUME IInv, TypeOK', Whole, Whole', Throw PROVE IInv'
  OBVIOUS
<1> USE NamesAssumption DEF IInv, objectVars
<1>1. MutexInv'
  BY DEF Throw, MutexInv, TypeOK
<1>2. ProgressInv'
  BY DEF Throw, MutexInv, ProgressInv, TypeOK, SetSteps
<1>3. PointerInv'
  BY DEF Throw, MutexInv, ProgressInv, PointerInv, TypeOK, SetSteps,
     HandleExists, Outlived, Whole
<1>4. CallInv'
  BY DEF Throw, MutexInv, ProgressInv, PointerInv, CallInv, TypeOK,
     HandleExists, Outlived, Whole, Deref, Idle
<1> QED
  BY <1>1, <1>2, <1>3, <1>4

LEMMA EndCallKeeps == IInv /\ TypeOK' /\ Whole /\ Whole' /\ EndCall => IInv'
<1> SUFFICES ASSUME IInv, TypeOK', Whole, Whole', EndCall PROVE IInv'
  OBVIOUS
<1> USE NamesAssumption DEF IInv, objectVars
<1>1. MutexInv'
  BY DEF EndCall, MutexInv, TypeOK
<1>2. ProgressInv'
  BY DEF EndCall, MutexInv, ProgressInv, TypeOK, SetSteps
<1>3. PointerInv'
  BY DEF EndCall, MutexInv, ProgressInv, PointerInv, TypeOK, SetSteps,
     HandleExists, Outlived, Whole
<1>4. CallInv'
  BY DEF EndCall, MutexInv, ProgressInv, PointerInv, CallInv, TypeOK,
     HandleExists, Outlived, Whole, Deref, Idle
<1> QED
  BY <1>1, <1>2, <1>3, <1>4

LEMMA ShareHandleKeeps == IInv /\ TypeOK' /\ Whole /\ Whole' /\ ShareHandle => IInv'
<1> SUFFICES ASSUME IInv, TypeOK', Whole, Whole', ShareHandle PROVE IInv'
  OBVIOUS
<1> USE NamesAssumption DEF IInv, objectVars
<1>1. MutexInv'
  BY DEF ShareHandle, Intact, MutexInv, TypeOK
<1>2. ProgressInv'
  BY DEF ShareHandle, Intact, MutexInv, ProgressInv, TypeOK, SetSteps
<1>3. PointerInv'
  BY DEF ShareHandle, Intact, MutexInv, ProgressInv, PointerInv, TypeOK,
     SetSteps, HandleExists, Outlived, Whole
<1>4. CallInv'
  BY DEF ShareHandle, Intact, MutexInv, ProgressInv, PointerInv, CallInv,
     TypeOK, HandleExists, Outlived, Whole, Deref, Idle
<1> QED
  BY <1>1, <1>2, <1>3, <1>4

LEMMA DropHandleKeeps == IInv /\ TypeOK' /\ Whole /\ Whole' /\ DropHandle => IInv'
<1> SUFFICES ASSUME IInv, TypeOK', Whole, Whole', DropHandle PROVE IInv'
  OBVIOUS
<1> USE NamesAssumption DEF IInv, objectVars
<1>1. MutexInv'
  BY DEF DropHandle, Finalise, MutexInv, TypeOK
<1>2. ProgressInv'
  <2>1. CASE Alive("handle")
    BY <2>1 DEF DropHandle, ProgressInv, TypeOK, SetSteps
  <2>2. CASE ~Alive("handle")
    <3>1. installed' = "none" /\ \A t \in Threads : pc'[t] = "idle"
      BY <2>2 DEF DropHandle, Finalise, MutexInv, TypeOK, Whole
    <3> QED
      BY <3>1 DEF ProgressInv, SetSteps
  <2> QED
    BY <2>1, <2>2
<1>3. PointerInv'
  BY DEF DropHandle, Finalise, MutexInv, ProgressInv, PointerInv, TypeOK,
     SetSteps, HandleExists, Outlived, Whole
<1>4. CallInv'
  BY DEF DropHandle, Finalise, MutexInv, ProgressInv, PointerInv, CallInv,
     TypeOK, HandleExists, Outlived, Whole, Deref, Idle
<1> QED
  BY <1>1, <1>2, <1>3, <1>4

LEMMA DestroyMemberKeeps == IInv /\ TypeOK' /\ Whole /\ Whole' /\ DestroyMember => IInv'
<1> SUFFICES ASSUME IInv, TypeOK', Whole, Whole', DestroyMember PROVE IInv'
  OBVIOUS
<1> USE NamesAssumption DEF IInv, objectVars
<1>1. MutexInv'
  BY DEF DestroyMember, Finalise, MutexInv, TypeOK
<1>2. ProgressInv'
  BY LastMember DEF DestroyMember, Finalise, MutexInv, ProgressInv, TypeOK, SetSteps
<1>3. live' = live - 1 /\ live \in 1 .. 3 /\ kind \in {"client", "service"}
  BY DEF DestroyMember, TypeOK, Kinds
<1>4. PointerInv' /\ CallInv'
  <2>1. CASE Members[live] = "handle" /\ ~shared
    BY <2>1, <1>3, LastMember
    DEF DestroyMember, Finalise, PointerInv, CallInv, HandleExists, Outlived, Whole
  <2>2. CASE Members[live] = "handle" /\ shared
    BY <2>2, <1>3, LastMember
    DEF DestroyMember, PointerInv, CallInv, HandleExists, Outlived, Whole, Deref
  <2>3. CASE Members[live] = "callback"
    BY <2>3, <1>3, LastMember
    DEF DestroyMember, PointerInv, CallInv, HandleExists, Outlived, Whole, Deref
  <2>4. CASE Members[live] \notin {"handle", "callback"}
    BY <2>4, <1>3, LastMember
    DEF DestroyMember, PointerInv, CallInv, HandleExists, Outlived, Whole, Deref
  <2> QED
    BY <2>1, <2>2, <2>3, <2>4
<1> QED
  BY <1>1, <1>2, <1>4

LEMMA ConstructKeeps == IInv /\ TypeOK' /\ Whole /\ Whole' /\ Construct => IInv'
<1> SUFFICES ASSUME IInv, TypeOK', Whole, Whole', Construct PROVE IInv'
  OBVIOUS
<1> USE NamesAssumption DEF IInv, objectVars
<1>1. MutexInv'
  BY DEF Construct, MutexInv, TypeOK
<1>2. ProgressInv'
  BY DEF Construct, MutexInv, ProgressInv, TypeOK, SetSteps
<1>3. PointerInv'
  BY DEF Construct, MutexInv, ProgressInv, PointerInv, TypeOK, SetSteps,
     HandleExists, Outlived, Whole
<1>4. CallInv'
  BY DEF Construct, MutexInv, ProgressInv, PointerInv, CallInv, TypeOK,
     HandleExists, Outlived, Whole, Deref, Idle
<1> QED
  BY <1>1, <1>2, <1>3, <1>4

LEMMA IInvStep == IInv /\ [Next]_vars => IInv'
<1> SUFFICES ASSUME IInv, [Next]_vars PROVE IInv'
  OBVIOUS
<1>1. TypeOK /\ TypeOK'
  BY TypeStep DEF IInv
<1>2. Whole /\ Whole'
  BY <1>1, MembersLeft, MembersLeftNext
<1>3. ASSUME NEW t \in Threads, ThreadStep(t) PROVE IInv'
  BY <1>1, <1>2, <1>3, SetKeeps, LockKeeps, InstallTemporaryKeeps, StoreKeeps,
     InstallMemberKeeps, ClearKeeps, UninstallKeeps, ResetMemberKeeps,
     InstallFailsKeeps, UnlockKeeps
  DEF ThreadStep
<1>4. CASE Arrive \/ Throw \/ EndCall
  BY <1>1, <1>2, <1>4, ArriveKeeps, ThrowKeeps, EndCallKeeps
<1>5. CASE ShareHandle \/ DropHandle \/ DestroyMember \/ Construct
  BY <1>1, <1>2, <1>5, ShareHandleKeeps, DropHandleKeeps, DestroyMemberKeeps, ConstructKeeps
<1>6. CASE UNCHANGED vars
  BY <1>6 DEF vars, IInv, TypeOK, MutexInv, ProgressInv, PointerInv, CallInv, Alive,
     Members, HandleExists, Outlived, Deref
<1> QED
  BY <1>3, <1>4, <1>5, <1>6 DEF Next

LEMMA IInvHolds == Spec => []IInv
BY IInvInit, IInvStep, PTL DEF Spec

-----------------------------------------------------------------------------
(* The middleware never points at a function object that is gone or empty, *)
(* unless the handle is kept longer than the object: through any number of *)
(* concurrent calls of set and clear, and through destruction.             *)
THEOREM PointerIsLive == Spec => []InstalledIsLive
<1>1. IInv => InstalledIsLive
  <2> SUFFICES ASSUME IInv, installed # "none", ~Outlived PROVE Deref(installed) # "null"
    BY DEF InstalledIsLive
  <2>1. CASE installed = "member"
    BY <2>1 DEF IInv, PointerInv, Deref
  <2>2. CASE installed \in Threads
    BY <2>2, NamesAssumption DEF IInv, ProgressInv, SetSteps, Deref
  <2> QED
    BY <2>1, <2>2 DEF IInv, TypeOK, Pointers
<1> QED
  BY <1>1, IInvHolds, PTL

(* The function object that a call executes is neither replaced nor        *)
(* destroyed before the call is over.                                      *)
THEOREM CallUndisturbed == Spec => []NotReplacedUnderCall
<1>1. IInv /\ InstalledIsLive => NotReplacedUnderCall
  BY DEF IInv, CallInv, InstalledIsLive, NotReplacedUnderCall
<1> QED
  BY <1>1, IInvHolds, PointerIsLive, PTL

(* The comment in set_on_new_response_callback: between the old and the    *)
(* new callback there is no gap in which events go unreported.             *)
THEOREM SetLeavesNoGap == Spec => []NoGap
<1>1. IInv => NoGap
  BY DEF IInv, PointerInv, NoGap
<1> QED
  BY <1>1, IInvHolds, PTL

(* An exception in a user's callback is logged to a logger that exists,    *)
(* but for the window in which a service has lost its logger and not yet   *)
(* its handle.                                                             *)
THEOREM LoggerOutlivesCalls == Spec => []LoggerAlive
<1>1. IInv /\ Whole => LoggerAlive
  <2> SUFFICES ASSUME IInv, Whole, call.caught PROVE
        Alive("logger") \/ Outlived \/ (kind = "service" /\ live = 2)
    BY DEF LoggerAlive
  <2>1. call # Idle
    BY DEF Idle
  <2>2. HandleExists
    BY <2>1 DEF IInv, CallInv
  <2>3. kind \in {"client", "service"}
    BY DEF IInv, TypeOK, Kinds
  <2> QED
    BY <2>2, <2>3 DEF HandleExists, Outlived, Whole
<1>2. IInv => Whole
  BY MembersLeft DEF IInv
<1> QED
  BY <1>1, <1>2, IInvHolds, PTL

(* The member is assigned or destroyed only while the middleware neither   *)
(* points at it nor runs it, unless the handle outlived the object.        *)
THEOREM AssignmentOutOfSight == Spec => AssignedOutOfSight
<1> DEFINE Step == member' # member =>
             (installed # "member" /\ call.at # "member") \/ Outlived
<1>1. IInv /\ Whole /\ [Next]_vars => [Step]_vars
  <2> SUFFICES ASSUME IInv, Whole, Next, member' # member, ~Outlived
               PROVE  installed # "member" /\ call.at # "member"
    OBVIOUS
  <2> USE DEF IInv
  <2>1. call.at = "none" \/ call.at = installed
    BY DEF CallInv, Idle
  <2>2. ASSUME NEW t \in Threads, ThreadStep(t) PROVE installed # "member"
    <3>1. Store(t) \/ ResetMember(t)
      BY <2>2 DEF ThreadStep, Set, Lock, InstallTemporary, InstallMember, Clear,
         Uninstall, InstallFails, Unlock
    <3> QED
      BY <3>1, NamesAssumption DEF Store, ResetMember, Goto, ProgressInv
  <2>3. CASE DestroyMember
    <3>1. live > 0 /\ Members[live] = "callback"
      BY <2>3 DEF DestroyMember, TypeOK
    <3>2. ~Alive("handle") /\ ~shared
      BY <3>1, LastMember DEF Whole, Outlived
    <3> QED
      BY <3>2, <2>1 DEF PointerInv, HandleExists
  <2>4. CASE Arrive \/ Throw \/ EndCall \/ ShareHandle \/ DropHandle \/ Construct
    BY <2>4 DEF Arrive, Throw, EndCall, ShareHandle, DropHandle, Construct
  <2> QED
    BY <2>1, <2>2, <2>3, <2>4 DEF Next
<1>2. IInv => Whole
  BY MembersLeft DEF IInv
<1> QED
  BY <1>1, <1>2, IInvHolds, PTL DEF Spec, AssignedOutOfSight

=============================================================================
