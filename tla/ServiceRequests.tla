-------------------------- MODULE ServiceRequests ---------------------------
(***************************************************************************)
(* Requests of a service client whose calls go to a ServiceClientMock, as  *)
(* the example node ServiceClient issues them: send, wait with a timeout,  *)
(* take the response or give the request up.                               *)
(*                                                                         *)
(* Four parties: the node's caller, which runs one call at a time; the     *)
(* housekeeping of the node on another thread (cancelPendingRequests,      *)
(* dropRequestsOlderThan); whoever answers; and the test, which may let go *)
(* of the mock at any time.  The attached mock plays rclcpp's client       *)
(* (external): it keeps a request with its promise until it is answered,   *)
(* removed or pruned, and a request that goes unanswered breaks its        *)
(* promise, which makes the future ready with an exception.                *)
(***************************************************************************)
EXTENDS Naturals

CONSTANTS
  MaxRequests,   \* bound: requests sent in a behaviour
  MayDropMock    \* the test may let go of the mock in a behaviour

Ids == 1 .. MaxRequests

Methods == {"setState", "setStateWithCallback", "setStateWithRequestCallback",
            "setStateWithTimeout"}

ASSUME BoundsAssumption == MaxRequests \in Nat /\ MayDropMock \in BOOLEAN

VARIABLES
  attached,            \* getMock(this) of the client is alive
  request,             \* [Ids -> "unsent" | "pending" | "answered" | "dropped"]
  success,             \* [Ids -> response->success of an answered request]
  pc,                  \* where the caller is
  method,              \* the method it runs
  cur,                 \* the id in its future_and_id, 0 before it has one
  last_call_success_,
  outcome              \* history: what the last call returned, or "thrown"

vars == <<attached, request, success, pc, method, cur, last_call_success_, outcome>>
clientVars == <<attached, request, success>>

Pending == {i \in Ids : request[i] = "pending"}
Ready(i) == request[i] # "pending"      \* of the future of a request that was sent

Init ==
  /\ attached = TRUE
  /\ request = [i \in Ids |-> "unsent"]
  /\ success = [i \in Ids |-> FALSE]
  /\ pc = "idle"
  /\ method = "setState"
  /\ cur = 0
  /\ last_call_success_ = FALSE
  /\ outcome = "none"

-----------------------------------------------------------------------------
(***************************************************************************)
(* The client and its mock.                                                *)
(***************************************************************************)

(* The mock's side of a removal (external): the promises of S break.       *)
Dropped(S) == [i \in Ids |-> IF i \in S \cap Pending THEN "dropped" ELSE request[i]]

(* remove_pending_request, prune_pending_requests and                      *)
(* prune_requests_older_than are no-ops without a mock.                    *)
Forwarded(S) == request' = IF attached THEN Dropped(S) ELSE request

(* A response arrives; a request sent with a callback has it called.       *)
handle_response(i, ok) ==
  /\ request[i] = "pending"
  /\ request' = [request EXCEPT ![i] = "answered"]
  /\ success' = [success EXCEPT ![i] = ok]
  /\ UNCHANGED <<attached, pc, method, cur, last_call_success_, outcome>>

(* cancelPendingRequests: prune_pending_requests.                          *)
cancelPendingRequests ==
  /\ Forwarded(Ids)
  /\ UNCHANGED <<attached, success, pc, method, cur, last_call_success_, outcome>>

(* dropRequestsOlderThan: prune_requests_older_than a time before which    *)
(* exactly the requests below some id were sent.                           *)
dropRequestsOlderThan(i) ==
  /\ Forwarded(1 .. (i - 1))
  /\ UNCHANGED <<attached, success, pc, method, cur, last_call_success_, outcome>>

(* The test lets go of the mock; promises it held break with it, promises  *)
(* the test keeps elsewhere stay open.                                     *)
DropMock ==
  /\ MayDropMock /\ attached
  /\ attached' = FALSE
  /\ \E S \in {{}, Ids} : request' = Dropped(S)
  /\ UNCHANGED <<success, pc, method, cur, last_call_success_, outcome>>

-----------------------------------------------------------------------------
(***************************************************************************)
(* The caller.                                                             *)
(***************************************************************************)
Finish(result) ==
  /\ pc' = "idle"
  /\ outcome' = IF result THEN "true" ELSE "false"
  /\ last_call_success_' = result

(* Mutant: the wait begins before a request was sent.                      *)
Call_WaitsUnsent(m) ==
  /\ pc = "idle"
  /\ method' = m
  /\ cur' = 0
  /\ outcome' = "none"
  /\ pc' = "wait"
  /\ UNCHANGED <<clientVars, last_call_success_>>

(* A method is called.  setStateWithTimeout does not ask whether the       *)
(* service is ready.                                                       *)
Call(m) ==
  /\ pc = "idle"
  /\ method' = m
  /\ cur' = 0
  /\ outcome' = "none"
  /\ pc' = IF m = "setStateWithTimeout" THEN "send" ELSE "ask"
  /\ UNCHANGED <<clientVars, last_call_success_>>

(* service_is_ready(): the mock's answer, false without a mock.            *)
service_is_ready ==
  /\ pc = "ask"
  /\ \/ attached /\ pc' = "send" /\ UNCHANGED <<last_call_success_, outcome>>
     \/ Finish(FALSE)
  /\ UNCHANGED <<clientVars, method, cur>>

(* async_send_request throws when no mock is attached, and the methods do  *)
(* not catch that.                                                         *)
async_send_request ==
  /\ pc = "send"
  /\ \/ /\ attached
        /\ \E i \in Ids :
             /\ request[i] = "unsent" /\ \A j \in 1 .. (i - 1) : request[j] # "unsent"
             /\ request' = [request EXCEPT ![i] = "pending"]
             /\ cur' = i
        /\ pc' = "wait"
        /\ UNCHANGED outcome
     \/ /\ ~attached
        /\ pc' = "idle" /\ outcome' = "thrown"
        /\ UNCHANGED <<request, cur>>
  /\ UNCHANGED <<attached, success, method, last_call_success_>>

(* spin_until_future_complete or wait_for returns because the future is    *)
(* ready, whether it holds a response or an exception ...                  *)
FutureReady ==
  /\ pc = "wait" /\ Ready(cur)
  /\ pc' = "get"
  /\ UNCHANGED <<clientVars, method, cur, last_call_success_, outcome>>

(* Mutant: the wait has no time limit.                                     *)
WaitTimeout_Never == pc = "wait" /\ FALSE /\ UNCHANGED vars

(* ... or because the time is up; an answer may still come before the      *)
(* request is removed.                                                     *)
WaitTimeout ==
  /\ pc = "wait" /\ ~Ready(cur)
  /\ pc' = "remove"
  /\ UNCHANGED <<clientVars, method, cur, last_call_success_, outcome>>

(* Mutant: a call that timed out leaves its request with the client.       *)
GiveUp_NotRemoved == pc = "remove" /\ Finish(FALSE) /\ UNCHANGED <<clientVars, method, cur>>

GiveUp ==
  /\ pc = "remove"
  /\ Forwarded({cur})          \* remove_pending_request
  /\ Finish(FALSE)
  /\ UNCHANGED <<attached, success, method, cur>>

(* Mutant: a ready future is taken for a response.                         *)
TakeResponse_ReadyIsSuccess == pc = "get" /\ Finish(TRUE) /\ UNCHANGED <<clientVars, method, cur>>

(* future.get() inside try: the response, or a broken promise caught.      *)
TakeResponse ==
  /\ pc = "get"
  /\ Finish(request[cur] = "answered" /\ success[cur])
  /\ UNCHANGED <<clientVars, method, cur>>

CallerStep ==
  service_is_ready \/ async_send_request \/ FutureReady \/ WaitTimeout \/ GiveUp \/ TakeResponse

(* A call is made only while the bound leaves a request for it.            *)
Next ==
  \/ \E m \in Methods : (\E i \in Ids : request[i] = "unsent") /\ Call(m)
  \/ CallerStep
  \/ \E i \in Ids, ok \in BOOLEAN : handle_response(i, ok)
  \/ cancelPendingRequests
  \/ \E i \in Ids : dropRequestsOlderThan(i)
  \/ DropMock

(* The caller's thread runs, and its waits are bounded by their timeout.   *)
(* Nobody has to answer.                                                   *)
Spec == Init /\ [][Next]_vars /\ WF_vars(CallerStep)

-----------------------------------------------------------------------------
(***************************************************************************)
(* Properties.                                                             *)
(***************************************************************************)

(* Every variable has its type; the caller waits for a request that was     *)
(* sent.                                                                    *)
TypeOK ==
  /\ attached \in BOOLEAN
  /\ request \in [Ids -> {"unsent", "pending", "answered", "dropped"}]
  /\ success \in [Ids -> BOOLEAN]
  /\ pc \in {"idle", "ask", "send", "wait", "get", "remove"} /\ method \in Methods
  /\ cur \in Ids \cup {0} /\ (pc \in {"wait", "get", "remove"} => cur # 0)
  /\ last_call_success_ \in BOOLEAN
  /\ outcome \in {"none", "true", "false", "thrown"}

(* Whatever the race between the answer, the timeout and the housekeeping,  *)
(* while the mock is attached the client keeps no request but that of the   *)
(* running call: none is retained for the lifetime of the client, and no    *)
(* callback of a request runs after its method has returned.                *)
NoRequestRetained == attached => Pending \subseteq (IF pc = "idle" THEN {} ELSE {cur})

(* A call reports success only when a response to its own request said so,  *)
(* never for a request that was pruned under it or for an earlier answer;   *)
(* and getLastCallSuccess() then agrees, unless the call threw.             *)
SuccessIsReal ==
  /\ outcome = "true" => cur # 0 /\ request[cur] = "answered" /\ success[cur]
  /\ pc = "idle" /\ outcome \in {"true", "false"} => last_call_success_ = (outcome = "true")

(* Every call returns or throws, also when nobody answers.                  *)
CallEnds == pc # "idle" ~> pc = "idle"

=============================================================================
