----------------------------- MODULE MoveServer -----------------------------
(***************************************************************************)
(* The example action server: goals are accepted or rejected, and each     *)
(* accepted goal is executed by a detached thread of its own that moves    *)
(* the robot until it is there, is canceled, or the node shuts down.       *)
(*                                                                         *)
(* The callbacks of the node and the execution threads share is_moving_    *)
(* and the position without a lock.  Between handle_goal, which reads      *)
(* is_moving_, and handle_accepted, which sets it, other requests may be   *)
(* handled: a test calls the callbacks in the order it likes               *)
(* (ActionServerMock), and an executor with several threads may too.       *)
(*                                                                         *)
(* Positions are integers on one axis; a goal and its handle have one      *)
(* name.  A test may also move an accepted goal along by hand              *)
(* (execute_single_step, check_and_complete_goal), while no thread runs.   *)
(***************************************************************************)
EXTENDS Integers

CONSTANTS
  Goals,      \* the goals of a behaviour
  Target,     \* [Goals -> Int]
  Limit,      \* the farthest target that is accepted (10.0)
  Step,       \* step_size (0.01)
  Tolerance   \* of is_goal_reached (0.1)

ASSUME TargetAssumption == Target \in [Goals -> Int]
ASSUME StepAssumption ==
  Limit \in Nat /\ Step \in Nat \ {0} /\ Tolerance \in Nat /\ Step <= Tolerance

VARIABLES
  is_moving_,
  position,   \* current_x_, current_y_
  state,      \* [Goals -> what the server answered, and how the goal ended]
  canceling,  \* [Goals -> what is_canceling() of its handle returns]
  pc,         \* [Goals -> where its thread is in execute_move]
  next,       \* [Goals -> new_x, new_y of its thread]
  final,      \* [Goals -> final_x, final_y of its result]
  ok,         \* rclcpp::ok()
  atRest,     \* history: [Goals -> handle_goal found the robot at rest]
  overlap     \* history: a goal answered at rest was started while another moved

vars == <<is_moving_, position, state, canceling, pc, next, final, ok, atRest, overlap>>

Abs(x) == IF x < 0 THEN -x ELSE x

Executing(g) == pc[g] \notin {"none", "done"}
Terminal == {"succeeded", "canceled"}

Init ==
  /\ is_moving_ = FALSE /\ position = 0
  /\ state = [g \in Goals |-> "new"]
  /\ canceling = [g \in Goals |-> FALSE]
  /\ pc = [g \in Goals |-> "none"]
  /\ next = [g \in Goals |-> 0]
  /\ final = [g \in Goals |-> 0]
  /\ ok = TRUE /\ overlap = FALSE
  /\ atRest = [g \in Goals |-> FALSE]

-----------------------------------------------------------------------------
(***************************************************************************)
(* The geometry.                                                           *)
(***************************************************************************)

(* Mutant: the robot stays where it is.                                    *)
calculate_next_position_Stuck(p, t) == p

(* One step towards the target, none on the spot.                          *)
calculate_next_position(p, t) == IF p = t THEN p ELSE IF p < t THEN p + Step ELSE p - Step

is_goal_reached(p, t) == Abs(t - p) < Tolerance

(* Mutant: the target without abs().                                       *)
TooFar_Signed(g) == Target[g] > Limit

TooFar(g) == Abs(Target[g]) > Limit

-----------------------------------------------------------------------------
(***************************************************************************)
(* The callbacks of the server.                                            *)
(***************************************************************************)

(* Mutant: a goal is accepted whether or not the robot moves.              *)
handle_goal_Always(g) ==
  /\ state[g] = "new"
  /\ state' = [state EXCEPT ![g] = IF TooFar(g) THEN "rejected" ELSE "accepted"]
  /\ atRest' = [atRest EXCEPT ![g] = ~is_moving_]
  /\ UNCHANGED <<is_moving_, position, canceling, pc, next, final, ok, overlap>>

handle_goal(g) ==
  /\ state[g] = "new"
  /\ state' = [state EXCEPT ![g] = IF TooFar(g) \/ is_moving_ THEN "rejected" ELSE "accepted"]
  /\ atRest' = [atRest EXCEPT ![g] = ~is_moving_]
  /\ UNCHANGED <<is_moving_, position, canceling, pc, next, final, ok, overlap>>

(* handle_cancel accepts every request; the handle is set canceling.       *)
handle_cancel(g) ==
  /\ state[g] \in {"accepted", "executing"} /\ ~canceling[g]
  /\ canceling' = [canceling EXCEPT ![g] = TRUE]
  /\ UNCHANGED <<is_moving_, position, state, pc, next, final, ok, atRest, overlap>>

(* The goal's thread is started, whatever happened since handle_goal.      *)
handle_accepted(g) ==
  /\ state[g] = "accepted"
  /\ state' = [state EXCEPT ![g] = "executing"]
  /\ overlap' = (overlap \/ (atRest[g] /\ is_moving_))
  /\ is_moving_' = TRUE
  /\ pc' = [pc EXCEPT ![g] = "loop"]
  /\ UNCHANGED <<position, canceling, next, final, ok, atRest>>

-----------------------------------------------------------------------------
(***************************************************************************)
(* execute_move, the thread of goal g.                                     *)
(***************************************************************************)
Goto(g, from, to) == pc[g] = from /\ pc' = [pc EXCEPT ![g] = to]

(* The head of the loop.                                                   *)
Loop(g) ==
  /\ Goto(g, "loop", IF ok /\ is_moving_ THEN "ask" ELSE "done")
  /\ UNCHANGED <<is_moving_, position, state, canceling, next, final, ok, atRest, overlap>>

(* The goal ends in state s with a result that names the position read at  *)
(* this moment; is_moving_ is cleared after that.                          *)
End(g, s) ==
  /\ state' = [state EXCEPT ![g] = s]
  /\ final' = [final EXCEPT ![g] = position]

(* Mutant: is_canceling is not asked inside the loop.                      *)
AskCanceling_Never(g) ==
  /\ Goto(g, "ask", "reach")
  /\ UNCHANGED <<is_moving_, position, state, canceling, next, final, ok, atRest, overlap>>

AskCanceling(g) ==
  /\ IF canceling[g]
     THEN Goto(g, "ask", "clear") /\ End(g, "canceled")
     ELSE Goto(g, "ask", "reach") /\ UNCHANGED <<state, final>>
  /\ UNCHANGED <<is_moving_, position, canceling, next, ok, atRest, overlap>>

AskReached(g) ==
  /\ Goto(g, "reach", IF is_goal_reached(position, Target[g]) THEN "succeed" ELSE "move")
  /\ UNCHANGED <<is_moving_, position, state, canceling, next, final, ok, atRest, overlap>>

Succeed(g) ==
  /\ Goto(g, "succeed", "clear")
  /\ End(g, "succeeded")
  /\ UNCHANGED <<is_moving_, position, canceling, next, ok, atRest, overlap>>

(* Mutant: is_moving_ stays set.                                           *)
ClearMoving_Kept(g) ==
  /\ Goto(g, "clear", "done")
  /\ UNCHANGED <<is_moving_, position, state, canceling, next, final, ok, atRest, overlap>>

ClearMoving(g) ==
  /\ Goto(g, "clear", "done")
  /\ is_moving_' = FALSE
  /\ UNCHANGED <<position, state, canceling, next, final, ok, atRest, overlap>>

Calculate(g) ==
  /\ Goto(g, "move", "store")
  /\ next' = [next EXCEPT ![g] = calculate_next_position(position, Target[g])]
  /\ UNCHANGED <<is_moving_, position, state, canceling, final, ok, atRest, overlap>>

(* The position is stored, feedback published, and the thread sleeps.      *)
StorePosition(g) ==
  /\ Goto(g, "store", "loop")
  /\ position' = next[g]
  /\ UNCHANGED <<is_moving_, state, canceling, next, final, ok, atRest, overlap>>

ThreadStep(g) ==
  \/ Loop(g) \/ AskCanceling(g) \/ AskReached(g) \/ Succeed(g) \/ ClearMoving(g)
  \/ Calculate(g) \/ StorePosition(g)

-----------------------------------------------------------------------------
(***************************************************************************)
(* A test that moves an accepted goal by hand, and the end of the process. *)
(***************************************************************************)
ByHand(g) == state[g] = "accepted" /\ \A h \in Goals : ~Executing(h)

execute_single_step(g) ==
  /\ ByHand(g)
  /\ position' = calculate_next_position(position, Target[g])
  /\ UNCHANGED <<is_moving_, state, canceling, pc, next, final, ok, atRest, overlap>>

check_and_complete_goal(g) ==
  /\ ByHand(g)
  /\ \/ canceling[g] /\ End(g, "canceled")
     \/ ~canceling[g] /\ is_goal_reached(position, Target[g]) /\ End(g, "succeeded")
  /\ is_moving_' = FALSE
  /\ UNCHANGED <<position, canceling, pc, next, ok, atRest, overlap>>

Shutdown ==
  /\ ok /\ ok' = FALSE
  /\ UNCHANGED <<is_moving_, position, state, canceling, pc, next, final, atRest, overlap>>

Next ==
  \/ \E g \in Goals :
       \/ handle_goal(g) \/ handle_cancel(g) \/ handle_accepted(g)
       \/ ThreadStep(g)
       \/ execute_single_step(g) \/ check_and_complete_goal(g)
  \/ Shutdown

(* A thread that has been started goes on; nobody has to call the server.  *)
Spec == Init /\ [][Next]_vars /\ \A g \in Goals : WF_vars(ThreadStep(g))

-----------------------------------------------------------------------------
(***************************************************************************)
(* Properties.                                                             *)
(***************************************************************************)

(* Every variable has its type.                                            *)
TypeOK ==
  /\ is_moving_ \in BOOLEAN /\ ok \in BOOLEAN /\ overlap \in BOOLEAN
  /\ position \in Int
  /\ state \in [Goals -> {"new", "rejected", "accepted", "executing"} \cup Terminal]
  /\ canceling \in [Goals -> BOOLEAN] /\ atRest \in [Goals -> BOOLEAN]
  /\ pc \in [Goals -> {"none", "loop", "ask", "reach", "succeed", "move", "store",
                       "clear", "done"}]
  /\ next \in [Goals -> Int] /\ final \in [Goals -> Int]

(* "Goal rejected: already moving": two threads move the robot at a time   *)
(* only if their goals were both answered before either was started.       *)
OneMover == \A g, h \in Goals : g # h /\ Executing(g) /\ Executing(h) => overlap

(* A thread leaves no goal without an answer: it ends canceled, or at its  *)
(* target with a result that says so; unless goals overlapped (the thread  *)
(* that ends first stops the others) or the process shuts down.            *)
EndsProperly ==
  \A g \in Goals : pc[g] = "done" =>
    \/ state[g] = "canceled"
    \/ state[g] = "succeeded" /\ (is_goal_reached(final[g], Target[g]) \/ overlap)
    \/ overlap \/ ~ok

(* However the goals interleave, the robot stays where goals are accepted, *)
(* up to the last step.                                                    *)
InRange == Abs(position) < Limit + Step

(* The server does not lock itself up: is_moving_ is only set while there  *)
(* is a thread that will clear it.                                         *)
MovingHasMover == is_moving_ /\ ok => \E g \in Goals : Executing(g)

(* A goal that was started ends, unless goals overlap (two of them may     *)
(* pull the robot to and fro).                                             *)
GoalFinishes == \A g \in Goals : Executing(g) ~> (~Executing(g) \/ overlap)

(* A goal that is canceled while it executes ends, overlap or not.         *)
CancelEnds == \A g \in Goals : (Executing(g) /\ canceling[g]) ~> ~Executing(g)

=============================================================================
