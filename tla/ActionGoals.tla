---------------------------- MODULE ActionGoals -----------------------------
(***************************************************************************)
(* The goals of a mocked action client: rclcpp_action::Client, its         *)
(* ClientGoalHandle and the ActionClientMock, used by the example node     *)
(* ActionClient.                                                           *)
(*                                                                         *)
(* The node sends a goal and waits up to one second for the answer.  The   *)
(* test plays the server: its mock returns the future of the answer, and   *)
(* the test calls the callbacks that came with the goal (SendGoalOptions)  *)
(* or resolves the goal's handle, whenever it likes: from another thread   *)
(* while the node waits, or from inside the mocked async_send_goal.        *)
(*                                                                         *)
(* Whoever holds a handle may ask the client for the result's future, or   *)
(* to stop the handle's callbacks.                                         *)
(*                                                                         *)
(* A goal and its handle have one name.  Feedback and cancel requests pass *)
(* through without changing what is modelled here.                         *)
(***************************************************************************)
EXTENDS Naturals, FiniteSets

CONSTANTS
  Goals,      \* the goals the node sends, one call of async_send_goal each
  Codes,      \* the result codes the test uses
  MaxResults  \* bound: different results the node is told in a behaviour

ResultCode == {"UNKNOWN", "SUCCEEDED", "CANCELED", "ABORTED"}

ASSUME GoalsAssumption == "nullptr" \notin Goals
ASSUME CodesAssumption == Codes \subseteq ResultCode /\ MaxResults \in Nat

VARIABLES
  attached,              \* getMock(client) is alive
  future,                \* [Goals -> the state of the goal handle future]
  handle,                \* [Goals -> ClientGoalHandle]
  resolving,             \* the resolve_result that is running, or None
  got,                   \* the goal for which the last async_get_result made a future itself
  pc,                    \* where the node is in send_goal
  goal,                  \* the goal it sends
  current_goal_handle_,  \* of the node
  responded,             \* goals whose goal_response_callback has been called
  stored,                \* history: goals whose handle the node has stored
  told,                  \* history: the results the node was told
  overtaken              \* history: goals with a result before send_goal stored them

vars == <<attached, future, handle, resolving, got, pc, goal, current_goal_handle_,
          responded, stored, told, overtaken>>
nodeVars == <<pc, goal, current_goal_handle_, responded, stored, told, overtaken>>
resultVars == <<handle, resolving, got>>

None == [goal |-> "nullptr", code |-> "none"]

(* result_callback, the promise's value, and as history whether a callback *)
(* was registered when that value's resolve_result began.                  *)
NewHandle == [callback |-> FALSE, result |-> "none", armed |-> FALSE]

Accepted == {g \in Goals : future[g] = "accepted"}

(* The results the node was told for g.                                    *)
Told(g) == {r.code : r \in {t \in told : t.goal = g}}

Init ==
  /\ attached = TRUE
  /\ future = [g \in Goals |-> "unsent"]
  /\ handle = [g \in Goals |-> NewHandle]
  /\ resolving = None
  /\ got = "nullptr"
  /\ pc = "idle" /\ goal = "nullptr"
  /\ current_goal_handle_ = "nullptr"
  /\ responded = {} /\ stored = {}
  /\ told = {}
  /\ overtaken = {}

-----------------------------------------------------------------------------
(***************************************************************************)
(* The node: send_goal.                                                    *)
(***************************************************************************)

(* The mock's answer, which a test may set to true; false without a mock.  *)
action_server_is_ready == attached

(* The node returns at once when the server is not ready.                  *)
send_goal(g) ==
  /\ pc = "idle" /\ future[g] = "unsent"
  /\ action_server_is_ready
  /\ pc' = "send" /\ goal' = g
  /\ UNCHANGED <<attached, future, resultVars, current_goal_handle_, responded,
                 stored, told, overtaken>>

(* Client::async_send_goal rejects when the mock returns an empty future,  *)
(* as an unexpected call of a mock does.                                   *)
Returned(f) == IF f = "invalid" THEN "rejected" ELSE f

(* What a promise of the test's ends up with: a handle, a null handle, or  *)
(* nothing when it is destroyed before.                                    *)
Answers == {"accepted", "rejected", "broken"}

(* What a mocked async_send_goal returns.                                  *)
MockAnswers == {"invalid", "pending"} \cup Answers

(* Without a mock the goal is rejected too.                                *)
async_send_goal ==
  /\ pc = "send"
  /\ \E f \in MockAnswers :
       /\ ~attached => f = "rejected"
       /\ future' = [future EXCEPT ![goal] = Returned(f)]
  /\ pc' = "wait"
  /\ UNCHANGED <<attached, resultVars, goal, current_goal_handle_, responded,
                 stored, told, overtaken>>

(* The node takes a handle, or a null handle, for its current goal.        *)
Take(g) ==
  /\ current_goal_handle_' = IF g \in Accepted THEN g ELSE "nullptr"
  /\ stored' = IF g \in Accepted THEN stored \cup {g} ELSE stored

(* wait_for finds the future ready, and what it holds is stored.           *)
FutureReady ==
  /\ pc = "wait" /\ future[goal] \in {"accepted", "rejected"}
  /\ Take(goal)
  /\ pc' = "idle" /\ goal' = "nullptr"
  /\ UNCHANGED <<attached, future, resultVars, responded, told, overtaken>>

(* The promise is broken: get() throws out of send_goal before it stores.  *)
FutureThrows ==
  /\ pc = "wait" /\ future[goal] = "broken"
  /\ pc' = "idle" /\ goal' = "nullptr"
  /\ UNCHANGED <<attached, future, resultVars, current_goal_handle_, responded,
                 stored, told, overtaken>>

(* Mutants: wait() instead of wait_for(1s); the handle is cleared when the *)
(* wait is given up, as it is when a goal is rejected.                     *)
WaitTimeout_Never == FALSE /\ UNCHANGED vars

WaitTimeout_Clears ==
  /\ pc = "wait" /\ future[goal] = "pending"
  /\ pc' = "idle" /\ goal' = "nullptr"
  /\ current_goal_handle_' = "nullptr"
  /\ UNCHANGED <<attached, future, resultVars, responded, stored, told, overtaken>>

(* The second is over: send_goal returns, the goal stays on its way.       *)
WaitTimeout ==
  /\ pc = "wait" /\ future[goal] = "pending"
  /\ pc' = "idle" /\ goal' = "nullptr"
  /\ UNCHANGED <<attached, future, resultVars, current_goal_handle_, responded,
                 stored, told, overtaken>>

(***************************************************************************)
(* The node: the callbacks it sent along.                                  *)
(***************************************************************************)

(* A test that plays a server calls it at most once for a goal, when the   *)
(* goal is answered and before its result.                                 *)
goal_response_callback(g) ==
  /\ future[g] \in {"accepted", "rejected"}
  /\ g \notin responded /\ Told(g) = {}
  /\ responded' = responded \cup {g}
  /\ Take(g)
  /\ UNCHANGED <<attached, future, resultVars, pc, goal, told, overtaken>>

(* Mutant: only a successful goal is let go of.                            *)
result_callback_OnSuccess(g, c) ==
  /\ current_goal_handle_' = IF c = "SUCCEEDED" THEN "nullptr" ELSE current_goal_handle_
  /\ told' = told \cup {[goal |-> g, code |-> c]} /\ Cardinality(told') <= MaxResults
  /\ overtaken' = IF goal = g THEN overtaken \cup {g} ELSE overtaken
  /\ UNCHANGED <<pc, goal, responded, stored>>

(* The node lets go of the current goal, whichever goal the result is of,  *)
(* and remembers the outcome.                                              *)
result_callback(g, c) ==
  /\ current_goal_handle_' = "nullptr"
  /\ told' = told \cup {[goal |-> g, code |-> c]} /\ Cardinality(told') <= MaxResults
  /\ overtaken' = IF goal = g THEN overtaken \cup {g} ELSE overtaken
  /\ UNCHANGED <<pc, goal, responded, stored>>

-----------------------------------------------------------------------------
(***************************************************************************)
(* The test.                                                               *)
(***************************************************************************)

(* The promise behind a pending future is set, or destroyed.               *)
Answer(g, f) ==
  /\ future[g] = "pending"
  /\ future' = [future EXCEPT ![g] = f]
  /\ UNCHANGED <<attached, resultVars, nodeVars>>

(* The test calls the result_callback it captured from SendGoalOptions.    *)
CallResultCallback(g, c) ==
  /\ g \in Accepted
  /\ result_callback(g, c)
  /\ UNCHANGED <<attached, future, resultVars>>

(* Mutant: the promise is set before the callback is called.               *)
BeginResolve_PromiseFirst(g, c) ==
  /\ g \in Accepted /\ resolving = None
  /\ resolving' = [goal |-> g, code |-> c]
  /\ handle' = [handle EXCEPT
       ![g].result = IF @ = "none" THEN c ELSE @,
       ![g].armed = IF handle[g].result = "none" THEN handle[g].callback ELSE @]
  /\ UNCHANGED <<attached, future, got, nodeVars>>

(* simulate_result, and resolve_result of the handle: first the callback.  *)
BeginResolve(g, c) ==
  /\ g \in Accepted /\ resolving = None
  /\ resolving' = [goal |-> g, code |-> c]
  /\ handle' = [handle EXCEPT
       ![g].armed = IF handle[g].result = "none" THEN handle[g].callback ELSE @]
  /\ IF handle[g].callback THEN result_callback(g, c) ELSE UNCHANGED nodeVars
  /\ UNCHANGED <<attached, future, got>>

(* Then the promise: set_value, which throws if it was set before.         *)
EndResolve ==
  /\ resolving # None
  /\ handle' = [handle EXCEPT ![resolving.goal].result =
                   IF @ = "none" THEN resolving.code ELSE @]
  /\ resolving' = None
  /\ UNCHANGED <<attached, future, got, nodeVars>>

(* Client::async_get_result, with a callback (the node's) or without.  The *)
(* handle gets the callback, mock or not.  The future is the mock's, which *)
(* is the handle's own, or empty if the call was not expected.  Without a  *)
(* mock it is a new one that holds SUCCEEDED already, and nobody is told.  *)
async_get_result(g, withCallback) ==
  /\ g \in Accepted
  /\ handle' = [handle EXCEPT ![g].callback = @ \/ withCallback]
  /\ got' = IF attached THEN "nullptr" ELSE g
  /\ UNCHANGED <<attached, future, resolving, nodeVars>>

(* Declared, searched and erased from, but nothing is ever put into it.    *)
goal_handles_ == {}

(* Client::stop_callbacks, given a handle or a goal id.  With a mock the   *)
(* call goes to the mock and the handle keeps its callbacks; an id is only *)
(* looked up in goal_handles_.                                             *)
stop_callbacks(g, by) ==
  /\ g \in Accepted
  /\ handle' = IF ~attached /\ (by = "handle" \/ g \in goal_handles_)
               THEN [handle EXCEPT ![g].callback = FALSE]
               ELSE handle
  /\ UNCHANGED <<attached, future, resolving, got, nodeVars>>

(* findActionClient makes a mock, and the test lets go of it.              *)
FindMock ==
  /\ attached' = ~attached
  /\ UNCHANGED <<future, resultVars, nodeVars>>

NodeStep == async_send_goal \/ FutureReady \/ FutureThrows \/ WaitTimeout

Next ==
  \/ \E g \in Goals : send_goal(g)
  \/ NodeStep
  \/ \E g \in Goals : goal_response_callback(g)
  \/ \E g \in Goals, withCallback \in BOOLEAN : async_get_result(g, withCallback)
  \/ \E g \in Goals, by \in {"handle", "uuid"} : stop_callbacks(g, by)
  \/ \E g \in Goals, f \in Answers : Answer(g, f)
  \/ \E g \in Goals, c \in Codes : CallResultCallback(g, c) \/ BeginResolve(g, c)
  \/ EndResolve
  \/ FindMock

(* send_goal runs on the node's thread, and the wait has a timeout.        *)
Spec == Init /\ [][Next]_vars /\ WF_vars(NodeStep)

-----------------------------------------------------------------------------
(***************************************************************************)
(* Properties.                                                             *)
(***************************************************************************)

(* Every variable has its type.                                            *)
TypeOK ==
  /\ attached \in BOOLEAN
  /\ future \in [Goals -> {"unsent", "pending"} \cup Answers]
  /\ handle \in [Goals -> [callback : BOOLEAN, result : Codes \cup {"none"},
                           armed : BOOLEAN]]
  /\ resolving \in [goal : Goals, code : Codes] \cup {None}
  /\ got \in Goals \cup {"nullptr"}
  /\ pc \in {"idle", "send", "wait"} /\ goal \in Goals \cup {"nullptr"}
  /\ current_goal_handle_ \in Goals \cup {"nullptr"}
  /\ responded \subseteq Goals /\ stored \subseteq Goals /\ overtaken \subseteq Goals
  /\ told \subseteq [goal : Goals, code : Codes]

(* has_active_goal: the goal the node takes for active was accepted and    *)
(* the node has not been told its result, whatever other goals timed out,  *)
(* were answered late or ended in the meantime; except when the result     *)
(* came before send_goal stored the handle, which send_goal then stores    *)
(* for good.                                                               *)
ActiveGoalIsOpen ==
  \A g \in Goals : current_goal_handle_ = g =>
    future[g] = "accepted" /\ (Told(g) = {} \/ g \in overtaken)

(* The other direction: a goal the node has stored and knows no result of  *)
(* stays its active goal as long as nobody answers another one.  Sending   *)
(* more goals that time out, whose promise breaks or that are accepted too *)
(* late for send_goal does not make the node forget it.  The handle, the   *)
(* rejection and the result of another goal do, whichever came when.       *)
OpenGoalStaysActive ==
  \A g \in stored :
    \/ current_goal_handle_ = g
    \/ Told(g) # {}
    \/ \E h \in Goals \ {g} : h \in stored \/ Told(h) # {} \/ future[h] = "rejected"

(* What the ready futures of g's result hold: the handle's own, and the    *)
(* one that a client without a mock made.                                  *)
Ready(g) ==
  ({handle[g].result} \ {"none"}) \cup (IF got = g THEN {"SUCCEEDED"} ELSE {})

(* Whoever finds a result future ready finds the node told the same        *)
(* result, if its callback was registered when the result came:            *)
(* resolve_result calls the callback first, and a second call of it cannot *)
(* change the future.  The future of a client without a mock is the        *)
(* exception: it holds SUCCEEDED whatever becomes of the goal.             *)
CallbackBeforeFuture ==
  \A g \in Goals : \A v \in Ready(g) :
    \/ v \in Told(g)
    \/ ~handle[g].armed
    \/ got = g /\ v = "SUCCEEDED"

(* Every call of send_goal returns, answered or not.                       *)
SendEnds == pc # "idle" ~> pc = "idle"

=============================================================================
