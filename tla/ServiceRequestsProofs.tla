----------------------- MODULE ServiceRequestsProofs ------------------------
(***************************************************************************)
(* Proofs about ServiceRequests, for every number of requests and whether  *)
(* or not the test lets go of its mock.                                    *)
(***************************************************************************)
EXTENDS ServiceRequests, TLAPS

(* What the caller knows about its request: it holds an id only from the    *)
(* send on, its future is ready once the wait said so and stays ready, and  *)
(* what a finished call reported is still true.                             *)
CallerInv ==
  /\ pc \in {"ask", "send"} => cur = 0
  /\ pc = "get" => request[cur] # "pending"
  /\ pc # "idle" => outcome = "none"

Inv == TypeOK /\ CallerInv /\ NoRequestRetained /\ SuccessIsReal

(* Breaking the promises of some requests changes the pending ones only.    *)
LEMMA DroppedEffect ==
  ASSUME TypeOK, NEW S
  PROVE  /\ Dropped(S) \in [Ids -> {"unsent", "pending", "answered", "dropped"}]
         /\ \A i \in Ids : request[i] # "pending" => Dropped(S)[i] = request[i]
         /\ \A i \in Ids : Dropped(S)[i] = "pending" => request[i] = "pending" /\ i \notin S
  BY DEF TypeOK, Dropped, Pending

(* The same for the calls that reach the mock only if there is one.         *)
LEMMA ForwardedEffect ==
  ASSUME TypeOK, NEW S, Forwarded(S)
  PROVE  /\ request' \in [Ids -> {"unsent", "pending", "answered", "dropped"}]
         /\ \A i \in Ids : request[i] # "pending" => request'[i] = request[i]
         /\ \A i \in Ids : request'[i] = "pending" => request[i] = "pending"
         /\ attached => \A i \in Ids \cap S : request'[i] # "pending"
  BY DroppedEffect DEF TypeOK, Forwarded

(* The invariant survives every step that leaves the caller where it is and *)
(* lets no request become pending again.                                    *)
LEMMA OthersKeepInv ==
  ASSUME Inv,
         UNCHANGED <<pc, method, cur, last_call_success_, outcome>>,
         attached' \in BOOLEAN, attached' => attached,
         success' \in [Ids -> BOOLEAN],
         request' \in [Ids -> {"unsent", "pending", "answered", "dropped"}],
         \A i \in Ids : request[i] # "pending" =>
                          request'[i] = request[i] /\ success'[i] = success[i],
         \A i \in Ids : request'[i] = "pending" => request[i] = "pending"
  PROVE  Inv'
<1> USE DEF Inv
<1>1. TypeOK'
  BY DEF TypeOK
<1>2. CallerInv'
  BY DEF CallerInv, TypeOK
<1>3. NoRequestRetained'
  BY DEF NoRequestRetained, Pending
<1>4. SuccessIsReal'
  BY DEF SuccessIsReal, TypeOK
<1> QED BY <1>1, <1>2, <1>3, <1>4

LEMMA InitInv == Init => Inv
  BY BoundsAssumption
  DEF Init, Inv, TypeOK, CallerInv, NoRequestRetained, SuccessIsReal, Pending, Methods, Ids

LEMMA NextInv == Inv /\ [Next]_vars => Inv'
<1> SUFFICES ASSUME Inv, [Next]_vars PROVE Inv'
  OBVIOUS
<1>a. TypeOK /\ CallerInv /\ NoRequestRetained /\ SuccessIsReal
  BY DEF Inv
<1>z. 0 \notin Ids
  BY BoundsAssumption DEF Ids
<1>1. ASSUME NEW m \in Methods, Call(m) PROVE Inv'
  BY <1>1, <1>a, <1>z
  DEF Call, clientVars, Inv, TypeOK, CallerInv, NoRequestRetained, SuccessIsReal, Pending
<1>2. CASE service_is_ready
  <2>1. CASE /\ attached /\ pc = "ask" /\ pc' = "send"
             /\ UNCHANGED <<clientVars, method, cur, last_call_success_, outcome>>
    BY <2>1, <1>a
    DEF clientVars, Inv, TypeOK, CallerInv, NoRequestRetained, SuccessIsReal, Pending
  <2>2. CASE pc = "ask" /\ Finish(FALSE) /\ UNCHANGED <<clientVars, method, cur>>
    BY <2>2, <1>a, <1>z
    DEF Finish, clientVars, Inv, TypeOK, CallerInv, NoRequestRetained, SuccessIsReal, Pending
  <2> QED BY <1>2, <2>1, <2>2 DEF service_is_ready
<1>3. CASE async_send_request
  <2>1. CASE attached
    <3>1. PICK i \in Ids : /\ request' = [request EXCEPT ![i] = "pending"]
                           /\ request[i] = "unsent" /\ cur' = i
      BY <1>3, <2>1 DEF async_send_request
    <3>2. /\ pc = "send" /\ pc' = "wait" /\ outcome' = outcome
          /\ UNCHANGED <<attached, success, method, last_call_success_>>
      BY <1>3, <2>1 DEF async_send_request
    <3>3. TypeOK'
      BY <3>1, <3>2, <1>a, <1>z DEF TypeOK
    <3>4. CallerInv'
      BY <3>2, <1>a DEF CallerInv
    <3>5. NoRequestRetained'
      BY <3>1, <3>2, <1>a, <1>z, <2>1 DEF NoRequestRetained, Pending, TypeOK, CallerInv
    <3>6. SuccessIsReal'
      BY <3>2, <1>a DEF SuccessIsReal, CallerInv
    <3> QED BY <3>3, <3>4, <3>5, <3>6 DEF Inv
  <2>2. CASE ~attached
    <3>1. /\ pc = "send" /\ pc' = "idle" /\ outcome' = "thrown"
          /\ UNCHANGED <<attached, request, success, method, cur, last_call_success_>>
      BY <1>3, <2>2 DEF async_send_request
    <3> QED BY <3>1, <2>2, <1>a
      DEF Inv, TypeOK, CallerInv, NoRequestRetained, SuccessIsReal, Pending
  <2> QED BY <2>1, <2>2
<1>4. CASE FutureReady
  BY <1>4, <1>a
  DEF FutureReady, Ready, clientVars, Inv, TypeOK, CallerInv, NoRequestRetained,
      SuccessIsReal, Pending
<1>5. CASE WaitTimeout
  BY <1>5, <1>a
  DEF WaitTimeout, clientVars, Inv, TypeOK, CallerInv, NoRequestRetained, SuccessIsReal, Pending
<1>6. CASE GiveUp
  <2>1. /\ pc = "remove" /\ Forwarded({cur}) /\ Finish(FALSE)
        /\ UNCHANGED <<attached, success, method, cur>>
    BY <1>6 DEF GiveUp
  <2>2. /\ request' \in [Ids -> {"unsent", "pending", "answered", "dropped"}]
        /\ \A i \in Ids : request'[i] = "pending" => request[i] = "pending"
        /\ attached => \A i \in Ids \cap {cur} : request'[i] # "pending"
    BY <2>1, <1>a, ForwardedEffect
  <2>3. TypeOK' /\ CallerInv' /\ SuccessIsReal'
    BY <2>1, <2>2, <1>a DEF Finish, TypeOK, CallerInv, SuccessIsReal
  <2>4. NoRequestRetained'
    BY <2>1, <2>2, <1>a DEF Finish, NoRequestRetained, Pending, TypeOK
  <2> QED BY <2>3, <2>4 DEF Inv
<1>7. CASE TakeResponse
  <2>1. /\ pc = "get" /\ Finish(request[cur] = "answered" /\ success[cur])
        /\ UNCHANGED <<attached, request, success, method, cur>>
    BY <1>7 DEF TakeResponse, clientVars
  <2>2. TypeOK'
    BY <2>1, <1>a DEF Finish, TypeOK
  <2>3. CallerInv'
    BY <2>1, <1>a DEF Finish, CallerInv
  <2>4. NoRequestRetained'
    BY <2>1, <1>a DEF Finish, NoRequestRetained, Pending, CallerInv, TypeOK
  <2>5. SuccessIsReal'
    BY <2>1, <1>a DEF Finish, SuccessIsReal, TypeOK
  <2> QED BY <2>2, <2>3, <2>4, <2>5 DEF Inv
<1>8. ASSUME NEW i \in Ids, NEW ok \in BOOLEAN, handle_response(i, ok) PROVE Inv'
  BY <1>8, <1>a, OthersKeepInv DEF handle_response, TypeOK
<1>9. CASE cancelPendingRequests
  BY <1>9, <1>a, ForwardedEffect, OthersKeepInv DEF cancelPendingRequests, TypeOK
<1>10. ASSUME NEW i \in Ids, dropRequestsOlderThan(i) PROVE Inv'
  BY <1>10, <1>a, ForwardedEffect, OthersKeepInv DEF dropRequestsOlderThan, TypeOK
<1>11. CASE DropMock
  <2>1. PICK S \in {{}, Ids} : request' = Dropped(S)
    BY <1>11 DEF DropMock
  <2>2. /\ request' \in [Ids -> {"unsent", "pending", "answered", "dropped"}]
        /\ \A i \in Ids : request[i] # "pending" => request'[i] = request[i]
        /\ \A i \in Ids : request'[i] = "pending" => request[i] = "pending"
    BY <2>1, <1>a, DroppedEffect
  <2>3. attached /\ attached' = FALSE
        /\ UNCHANGED <<success, pc, method, cur, last_call_success_, outcome>>
    BY <1>11 DEF DropMock
  <2> QED BY <2>2, <2>3, <1>a, OthersKeepInv DEF TypeOK
<1>12. CASE UNCHANGED vars
  BY <1>12, <1>a, OthersKeepInv DEF vars, TypeOK
<1> QED
  BY <1>1, <1>2, <1>3, <1>4, <1>5, <1>6, <1>7, <1>8, <1>9, <1>10, <1>11, <1>12
  DEF Next, CallerStep

LEMMA AlwaysInv == Spec => []Inv
  BY InitInv, NextInv, PTL DEF Spec

(* The caller only ever waits for a request it has sent.                    *)
THEOREM RequestsTypeCorrect == Spec => []TypeOK
  BY AlwaysInv, PTL DEF Inv

(* Whatever the race between answer, timeout and housekeeping, while the    *)
(* mock is attached no request outlives its call.                           *)
THEOREM NothingRetained == Spec => []NoRequestRetained
  BY AlwaysInv, PTL DEF Inv

(* A call reports success only for a response to its own request.           *)
THEOREM SuccessReported == Spec => []SuccessIsReal
  BY AlwaysInv, PTL DEF Inv

=============================================================================
