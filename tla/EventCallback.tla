--------------------------- MODULE EventCallback ----------------------------
(***************************************************************************)
(* The "on new response" callback of ClientBase and the "on new request"   *)
(* callback of ServiceBase: a std::function that the application sets and  *)
(* clears from any thread while the middleware calls it from its own.      *)
(*                                                                         *)
(* The middleware is given a pointer to the function object, never a copy. *)
(* Setting a callback therefore takes two steps under callback_mutex_: the *)
(* middleware is pointed at a temporary on the setter's stack, the member  *)
(* is assigned, and the middleware is pointed at the member.  The headers  *)
(* of the three distributions and of both classes do this alike; the       *)
(* classes differ in the order in which they declare their members, and so *)
(* in the order in which an object falls apart.                            *)
(*                                                                         *)
(* The middleware (external) has a lock of its own: it calls the callback  *)
(* under that lock, and installing a pointer, or finalising the rcl        *)
(* handle, waits for the call that is running.  The code leans on both.    *)
(* It may refuse a pointer, which the code turns into an exception.        *)
(* User callbacks return or throw, and do not call set or clear.           *)
(***************************************************************************)
EXTENDS Naturals, Sequences

CONSTANTS
  Threads,     \* application threads that set and clear the callback
  Callbacks,   \* the callables they set
  MaxUnread    \* bound: events that arrive while no callback is installed

ASSUME NamesAssumption ==
  /\ Threads \cap {"none", "member", "rmw"} = {}
  /\ "null" \notin Callbacks
  /\ MaxUnread \in Nat

(* Mutant: the client declares its logger last, as the service does.       *)
ClientMembers_LoggerLast == <<"callback", "handle", "logger">>

(* The members in the order of their declaration.                          *)
ClientMembers == <<"logger", "callback", "handle">>
ServiceMembers == <<"callback", "handle", "logger">>

Kinds == {"client", "service"}

VARIABLES
  kind,       \* which of the two classes the object is of
  live,       \* how many of its members, in this order, are not destroyed
  shared,     \* somebody else holds the handle (get_client_handle)
  mutex,      \* owner of callback_mutex_, or "none"
  pc,         \* [Threads -> where the thread is in set or clear]
  temp,       \* [Threads -> its new_callback, "null" outside set]
  member,     \* on_new_response_callback_ / on_new_request_callback_
  installed,  \* where the middleware points: "none", "member" or a thread's temp
  unread,     \* events the middleware has not reported to any callback
  call        \* the call that is running, Idle when there is none

vars == <<kind, live, shared, mutex, pc, temp, member, installed, unread, call>>
objectVars == <<kind, live, shared>>

Idle == [at |-> "none", fn |-> "null", by |-> "none", caught |-> FALSE]

Members == IF kind = "client" THEN ClientMembers ELSE ServiceMembers
Alive(m) == \E i \in 1 .. live : Members[i] = m
Intact == live = 3

(* The rcl client or service still exists: the object's own reference, or  *)
(* somebody else's.                                                        *)
HandleExists == Alive("handle") \/ shared

(* The handle is kept beyond the object it was taken from.                 *)
Outlived == shared /\ ~Alive("handle")

Deref(p) == IF p = "member" THEN member ELSE IF p \in Threads THEN temp[p] ELSE "null"

Init ==
  /\ kind \in Kinds /\ live = 3 /\ shared = FALSE
  /\ mutex = "none"
  /\ pc = [t \in Threads |-> "idle"]
  /\ temp = [t \in Threads |-> "null"]
  /\ member = "null"
  /\ installed = "none" /\ unread = 0 /\ call = Idle

-----------------------------------------------------------------------------
(***************************************************************************)
(* The middleware (external).                                              *)
(***************************************************************************)
CallOf(p, fn, by) == [at |-> p, fn |-> fn, by |-> by, caught |-> FALSE]

(* The middleware is given pointer p.  Events that arrived before are      *)
(* reported at once, on the thread that installs.                          *)
Install(p, t) ==
  /\ call = Idle
  /\ installed' = p
  /\ IF p # "none" /\ unread > 0
     THEN call' = CallOf(p, Deref(p), t) /\ unread' = 0
     ELSE UNCHANGED <<call, unread>>

Arrive ==
  /\ HandleExists /\ call = Idle
  /\ IF installed = "none"
     THEN unread < MaxUnread /\ unread' = unread + 1 /\ UNCHANGED call
     ELSE call' = CallOf(installed, Deref(installed), "rmw") /\ UNCHANGED unread
  /\ UNCHANGED <<objectVars, mutex, pc, temp, member, installed>>

(* The user's callback throws: the wrapper catches it and writes to        *)
(* node_logger_ of the object.                                             *)
Throw ==
  /\ call # Idle /\ ~call.caught
  /\ call' = [call EXCEPT !.caught = TRUE]
  /\ UNCHANGED <<objectVars, mutex, pc, temp, member, installed, unread>>

EndCall ==
  /\ call # Idle
  /\ call' = Idle
  /\ UNCHANGED <<objectVars, mutex, pc, temp, member, installed, unread>>

-----------------------------------------------------------------------------
(***************************************************************************)
(* set_on_new_response_callback(callback).  A null callback throws before  *)
(* anything changes.                                                       *)
(***************************************************************************)
Goto(t, from, to) == pc[t] = from /\ call.by # t /\ pc' = [pc EXCEPT ![t] = to]

(* new_callback wraps the callback, before the mutex is taken.             *)
Set(t, c) ==
  /\ Intact
  /\ Goto(t, "idle", "lock")
  /\ temp' = [temp EXCEPT ![t] = c]
  /\ UNCHANGED <<objectVars, mutex, member, installed, unread, call>>

(* Mutant: set without the lock_guard.                                     *)
Lock_NoGuard(t) ==
  /\ Goto(t, "lock", "temporary")
  /\ mutex' = t
  /\ UNCHANGED <<objectVars, temp, member, installed, unread, call>>

Lock(t) ==
  /\ mutex = "none"
  /\ Goto(t, "lock", "temporary")
  /\ mutex' = t
  /\ UNCHANGED <<objectVars, temp, member, installed, unread, call>>

(* Mutants: the member is assigned at once; the old callback is taken away *)
(* while the member is replaced.                                           *)
InstallTemporary_Skipped(t) ==
  /\ Goto(t, "temporary", "store")
  /\ UNCHANGED <<objectVars, mutex, temp, member, installed, unread, call>>

InstallTemporary_Unset(t) ==
  /\ Goto(t, "temporary", "store")
  /\ Install("none", t)
  /\ UNCHANGED <<objectVars, mutex, temp, member>>

InstallTemporary(t) ==
  /\ Goto(t, "temporary", "store")
  /\ Install(t, t)
  /\ UNCHANGED <<objectVars, mutex, temp, member>>

Store(t) ==
  /\ Goto(t, "store", "permanent")
  /\ member' = temp[t]
  /\ UNCHANGED <<objectVars, mutex, temp, installed, unread, call>>

(* Mutant: the middleware is left with the temporary.                      *)
InstallMember_Skipped(t) ==
  /\ Goto(t, "permanent", "unlock")
  /\ UNCHANGED <<objectVars, mutex, temp, member, installed, unread, call>>

InstallMember(t) ==
  /\ Goto(t, "permanent", "unlock")
  /\ Install("member", t)
  /\ UNCHANGED <<objectVars, mutex, temp, member>>

(* set and clear return: the mutex is released, then new_callback dies.    *)
Unlock(t) ==
  /\ Goto(t, "unlock", "idle")
  /\ mutex' = "none"
  /\ temp' = [temp EXCEPT ![t] = "null"]
  /\ UNCHANGED <<objectVars, member, installed, unread, call>>

(***************************************************************************)
(* clear_on_new_request_callback().                                        *)
(***************************************************************************)
Clear(t) ==
  /\ Intact
  /\ mutex = "none" /\ mutex' = t
  /\ Goto(t, "idle", IF member # "null" THEN "uninstall" ELSE "unlock")
  /\ UNCHANGED <<objectVars, temp, member, installed, unread, call>>

Uninstall(t) ==
  /\ Goto(t, "uninstall", "reset")
  /\ Install("none", t)
  /\ UNCHANGED <<objectVars, mutex, temp, member>>

ResetMember(t) ==
  /\ Goto(t, "reset", "unlock")
  /\ member' = "null"
  /\ UNCHANGED <<objectVars, mutex, temp, installed, unread, call>>

(* The middleware refuses: the error is thrown out of set or clear before  *)
(* anything is assigned.  Having taken the temporary, it takes the member  *)
(* of the same object too.                                                 *)
InstallFails(t) ==
  /\ Goto(t, "temporary", "unlock") \/ Goto(t, "uninstall", "unlock")
  /\ UNCHANGED <<objectVars, mutex, temp, member, installed, unread, call>>

-----------------------------------------------------------------------------
(***************************************************************************)
(* The object.                                                             *)
(***************************************************************************)

(* get_client_handle / get_service_handle.                                 *)
ShareHandle ==
  /\ Intact /\ ~shared /\ shared' = TRUE
  /\ UNCHANGED <<kind, live, mutex, pc, temp, member, installed, unread, call>>

(* Finalising the rcl handle ends the calls.                               *)
Finalise == call = Idle /\ installed' = "none" /\ unread' = 0

DropHandle ==
  /\ shared /\ shared' = FALSE
  /\ IF Alive("handle") THEN UNCHANGED <<installed, unread>> ELSE Finalise
  /\ UNCHANGED <<kind, live, mutex, pc, temp, member, call>>

(* The defaulted destructor: the members go one by one, the last declared  *)
(* first, and the handle with its last reference.  Nobody may be in set or *)
(* clear any more.                                                         *)
DestroyMember ==
  /\ \A t \in Threads : pc[t] = "idle"
  /\ live > 0 /\ live' = live - 1
  /\ CASE Members[live] = "handle" /\ ~shared -> Finalise /\ UNCHANGED member
       [] Members[live] = "callback" -> member' = "null" /\ UNCHANGED <<installed, unread>>
       [] OTHER -> UNCHANGED <<member, installed, unread>>
  /\ UNCHANGED <<kind, shared, mutex, pc, temp, call>>

(* A later object of either class.                                         *)
Construct ==
  /\ live = 0 /\ ~shared
  /\ kind' \in Kinds /\ live' = 3
  /\ UNCHANGED <<shared, mutex, pc, temp, member, installed, unread, call>>

ThreadStep(t) ==
  \/ \E c \in Callbacks : Set(t, c)
  \/ Lock(t) \/ InstallTemporary(t) \/ Store(t) \/ InstallMember(t)
  \/ Clear(t) \/ Uninstall(t) \/ ResetMember(t)
  \/ InstallFails(t) \/ Unlock(t)

Next ==
  \/ \E t \in Threads : ThreadStep(t)
  \/ Arrive \/ Throw \/ EndCall
  \/ ShareHandle \/ DropHandle \/ DestroyMember \/ Construct

Spec == Init /\ [][Next]_vars

-----------------------------------------------------------------------------
(***************************************************************************)
(* Properties.                                                             *)
(***************************************************************************)
SetSteps == {"temporary", "store", "permanent"}
ClearSteps == {"uninstall", "reset"}
Pointers == {"none", "member"} \cup Threads
Functions == Callbacks \cup {"null"}

(* Every variable has its type.                                            *)
TypeOK ==
  /\ kind \in Kinds /\ live \in 0 .. 3 /\ shared \in BOOLEAN
  /\ mutex \in Threads \cup {"none"}
  /\ pc \in [Threads -> {"idle", "lock", "unlock"} \cup SetSteps \cup ClearSteps]
  /\ temp \in [Threads -> Functions]
  /\ member \in Functions
  /\ installed \in Pointers
  /\ unread \in 0 .. MaxUnread
  /\ call \in [at : Pointers, fn : Functions, by : Threads \cup {"none", "rmw"},
               caught : BOOLEAN]

(* Wherever the middleware points is a function object that exists and     *)
(* holds a callback, through every set and clear of several threads and    *)
(* through destruction; the one way to a dangling pointer is a handle kept *)
(* longer than its client or service.                                      *)
InstalledIsLive == (installed # "none" /\ ~Outlived) => Deref(installed) # "null"

(* The function object a call executes is not replaced or destroyed before *)
(* the call is over.                                                       *)
NotReplacedUnderCall ==
  (call # Idle /\ ~Outlived) => call.fn # "null" /\ Deref(call.at) = call.fn

(* The member is only ever assigned or destroyed when the middleware       *)
(* neither points at it nor runs it.                                       *)
AssignedOutOfSight ==
  [][member' # member => (installed # "member" /\ call.at # "member") \/ Outlived]_vars

(* The comment in set: there is no gap where the old function has been     *)
(* replaced but the middleware not been told.  An object that has a        *)
(* callback, and whose callback nobody is clearing, never counts an event  *)
(* it could report.                                                        *)
NoGap ==
  (member # "null" /\ Alive("handle") /\ \A t \in Threads : pc[t] # "reset")
    => installed # "none" /\ unread = 0

(* The handler of an exception writes to a logger that exists, except      *)
(* while a service is being destroyed: its logger is declared after the    *)
(* handle and goes first.                                                  *)
LoggerAlive ==
  call.caught =>
    \/ Alive("logger") \/ Outlived
    \/ kind = "service" /\ live = 2

=============================================================================
