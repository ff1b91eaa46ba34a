-------------------------- MODULE MoveServerProofs --------------------------
(***************************************************************************)
(* Proofs about MoveServer, for every set of goals and targets, every      *)
(* limit, and every step that is no longer than the tolerance.             *)
(***************************************************************************)
EXTENDS MoveServer, TLAPS

(***************************************************************************)
(* The inductive invariant, in four parts.                                 *)
(***************************************************************************)

(* The state of a goal and the place of its thread agree.                  *)
StateInv ==
  \A g \in Goals :
    /\ state[g] \in {"new", "rejected", "accepted"} => pc[g] = "none"
    /\ state[g] = "accepted" => atRest[g]
    /\ state[g] \notin {"new", "rejected"} => ~TooFar(g)

(* Unless goals overlap, is_moving_ is set while a thread executes, and    *)
(* only one does.                                                          *)
MoverInv ==
  /\ \A g \in Goals : Executing(g) => is_moving_ \/ overlap
  /\ OneMover
  /\ MovingHasMover

(* Position, and the position a thread is about to store, are in range.    *)
RangeInv ==
  /\ InRange
  /\ \A g \in Goals : pc[g] = "store" => Abs(next[g]) < Limit + Step

(* What a thread knows about its goal near the end.                        *)
EndInv ==
  /\ \A g \in Goals :
       /\ pc[g] = "succeed" => is_goal_reached(position, Target[g]) \/ overlap
       /\ pc[g] = "clear" =>
            \/ state[g] = "canceled"
            \/ state[g] = "succeeded" /\ (is_goal_reached(final[g], Target[g]) \/ overlap)
  /\ EndsProperly

IInv == TypeOK /\ StateInv /\ MoverInv /\ RangeInv /\ EndInv

-----------------------------------------------------------------------------
(* A step towards a target in range stays in range, up to the step.        *)
LEMMA StepInRange ==
  ASSUME NEW p \in Int, NEW g \in Goals, ~TooFar(g), Abs(p) < Limit + Step
  PROVE  /\ calculate_next_position(p, Target[g]) \in Int
         /\ Abs(calculate_next_position(p, Target[g])) < Limit + Step
BY TargetAssumption, StepAssumption DEF TooFar, Abs, calculate_next_position

LEMMA NextIsInt ==
  ASSUME NEW p \in Int, NEW g \in Goals
  PROVE  calculate_next_position(p, Target[g]) \in Int
BY TargetAssumption, StepAssumption DEF calculate_next_position

LEMMA IInvInit == Init => IInv
<1> SUFFICES ASSUME Init PROVE IInv
  OBVIOUS
<1>1. TypeOK
  <2>1. next \in [Goals -> Int] /\ final \in [Goals -> Int] /\ position \in Int
    BY DEF Init
  <2>2. canceling \in [Goals -> BOOLEAN] /\ atRest \in [Goals -> BOOLEAN]
    BY DEF Init
  <2> QED
    BY <2>1, <2>2 DEF Init, TypeOK
<1>2. StateInv /\ MoverInv /\ EndInv
  BY DEF Init, StateInv, MoverInv, OneMover, MovingHasMover, Executing, EndInv,
     EndsProperly
<1>3. RangeInv
  BY StepAssumption DEF Init, RangeInv, InRange, Abs
<1> QED
  BY <1>1, <1>2, <1>3 DEF IInv

LEMMA HandleGoalKeeps == ASSUME IInv, NEW g \in Goals, handle_goal(g) PROVE IInv'
<1> USE DEF IInv
<1>1. TypeOK'
  BY DEF handle_goal, Goto, TypeOK, Terminal
<1>2. StateInv'
  BY DEF handle_goal, Goto, StateInv, TypeOK, Terminal, TooFar
<1>3. MoverInv'
  BY DEF handle_goal, Goto, StateInv, MoverInv, OneMover, MovingHasMover,
     Executing, TypeOK
<1>4. RangeInv'
  BY DEF handle_goal, Goto, StateInv, RangeInv, InRange, TypeOK, Executing
<1>5. EndInv'
  BY DEF handle_goal, Goto, StateInv, MoverInv, OneMover, EndInv, EndsProperly,
     Executing, TypeOK
<1> QED
  BY <1>1, <1>2, <1>3, <1>4, <1>5

LEMMA HandleCancelKeeps == ASSUME IInv, NEW g \in Goals, handle_cancel(g) PROVE IInv'
<1> USE DEF IInv
<1>1. TypeOK'
  BY DEF handle_cancel, Goto, TypeOK, Terminal
<1>2. StateInv'
  BY DEF handle_cancel, Goto, StateInv, TypeOK, Terminal, TooFar
<1>3. MoverInv'
  BY DEF handle_cancel, Goto, StateInv, MoverInv, OneMover, MovingHasMover,
     Executing, TypeOK
<1>4. RangeInv'
  BY DEF handle_cancel, Goto, StateInv, RangeInv, InRange, TypeOK, Executing
<1>5. EndInv'
  BY DEF handle_cancel, Goto, StateInv, MoverInv, OneMover, EndInv,
     EndsProperly, Executing, TypeOK
<1> QED
  BY <1>1, <1>2, <1>3, <1>4, <1>5

LEMMA HandleAcceptedKeeps == ASSUME IInv, NEW g \in Goals, handle_accepted(g) PROVE IInv'
<1> USE DEF IInv
<1>1. TypeOK'
  BY DEF handle_accepted, Goto, TypeOK, Terminal
<1>2. StateInv'
  BY DEF handle_accepted, Goto, StateInv, TypeOK, Terminal, TooFar
<1>3. MoverInv'
  BY DEF handle_accepted, Goto, StateInv, MoverInv, OneMover, MovingHasMover,
     Executing, TypeOK
<1>4. RangeInv'
  BY DEF handle_accepted, Goto, StateInv, RangeInv, InRange, TypeOK, Executing
<1>5. EndInv'
  BY DEF handle_accepted, Goto, StateInv, MoverInv, OneMover, EndInv,
     EndsProperly, Executing, TypeOK
<1> QED
  BY <1>1, <1>2, <1>3, <1>4, <1>5

LEMMA LoopKeeps == ASSUME IInv, NEW g \in Goals, Loop(g) PROVE IInv'
<1> USE DEF IInv
<1>1. TypeOK'
  BY DEF Loop, Goto, TypeOK, Terminal
<1>2. StateInv'
  BY DEF Loop, Goto, StateInv, TypeOK, Terminal, TooFar
<1>3. MoverInv'
  BY DEF Loop, Goto, StateInv, MoverInv, OneMover, MovingHasMover, Executing, TypeOK
<1>4. RangeInv'
  BY DEF Loop, Goto, StateInv, RangeInv, InRange, TypeOK, Executing
<1>5. EndInv'
  BY DEF Loop, Goto, StateInv, MoverInv, OneMover, EndInv, EndsProperly,
     Executing, TypeOK
<1> QED
  BY <1>1, <1>2, <1>3, <1>4, <1>5

LEMMA AskCancelingKeeps == ASSUME IInv, NEW g \in Goals, AskCanceling(g) PROVE IInv'
<1> USE DEF IInv
<1>1. TypeOK'
  BY DEF AskCanceling, End, Goto, TypeOK, Terminal
<1>2. StateInv'
  BY DEF AskCanceling, End, Goto, StateInv, TypeOK, Terminal, TooFar
<1>3. MoverInv'
  BY DEF AskCanceling, End, Goto, StateInv, MoverInv, OneMover, MovingHasMover,
     Executing, TypeOK
<1>4. RangeInv'
  BY DEF AskCanceling, End, Goto, StateInv, RangeInv, InRange, TypeOK, Executing
<1>5. EndInv'
  BY DEF AskCanceling, End, Goto, StateInv, MoverInv, OneMover, EndInv,
     EndsProperly, Executing, TypeOK
<1> QED
  BY <1>1, <1>2, <1>3, <1>4, <1>5

LEMMA AskReachedKeeps == ASSUME IInv, NEW g \in Goals, AskReached(g) PROVE IInv'
<1> USE DEF IInv
<1>1. TypeOK'
  BY DEF AskReached, Goto, TypeOK, Terminal
<1>2. StateInv'
  BY DEF AskReached, Goto, StateInv, TypeOK, Terminal, TooFar
<1>3. MoverInv'
  BY DEF AskReached, Goto, StateInv, MoverInv, OneMover, MovingHasMover,
     Executing, TypeOK
<1>4. RangeInv'
  BY DEF AskReached, Goto, StateInv, RangeInv, InRange, TypeOK, Executing
<1>5. EndInv'
  BY DEF AskReached, Goto, StateInv, MoverInv, OneMover, EndInv, EndsProperly,
     Executing, TypeOK
<1> QED
  BY <1>1, <1>2, <1>3, <1>4, <1>5

LEMMA SucceedKeeps == ASSUME IInv, NEW g \in Goals, Succeed(g) PROVE IInv'
<1> USE DEF IInv
<1>1. TypeOK'
  BY DEF Succeed, End, Goto, TypeOK, Terminal
<1>2. StateInv'
  BY DEF Succeed, End, Goto, StateInv, TypeOK, Terminal, TooFar
<1>3. MoverInv'
  BY DEF Succeed, End, Goto, StateInv, MoverInv, OneMover, MovingHasMover,
     Executing, TypeOK
<1>4. RangeInv'
  BY DEF Succeed, End, Goto, StateInv, RangeInv, InRange, TypeOK, Executing
<1>5. EndInv'
  BY DEF Succeed, End, Goto, StateInv, MoverInv, OneMover, EndInv, EndsProperly,
     Executing, TypeOK
<1> QED
  BY <1>1, <1>2, <1>3, <1>4, <1>5

LEMMA ClearMovingKeeps == ASSUME IInv, NEW g \in Goals, ClearMoving(g) PROVE IInv'
<1> USE DEF IInv
<1>1. TypeOK'
  BY DEF ClearMoving, Goto, TypeOK, Terminal
<1>2. StateInv'
  BY DEF ClearMoving, Goto, StateInv, TypeOK, Terminal, TooFar
<1>3. MoverInv'
  BY DEF ClearMoving, Goto, StateInv, MoverInv, OneMover, MovingHasMover,
     Executing, TypeOK
<1>4. RangeInv'
  BY DEF ClearMoving, Goto, StateInv, RangeInv, InRange, TypeOK, Executing
<1>5. EndInv'
  BY DEF ClearMoving, Goto, StateInv, MoverInv, OneMover, EndInv, EndsProperly,
     Executing, TypeOK
<1> QED
  BY <1>1, <1>2, <1>3, <1>4, <1>5

LEMMA CalculateKeeps == ASSUME IInv, NEW g \in Goals, Calculate(g) PROVE IInv'
<1> USE DEF IInv
<1>1. TypeOK'
  BY NextIsInt DEF Calculate, Goto, TypeOK, Terminal
<1>2. StateInv'
  BY DEF Calculate, Goto, StateInv, TypeOK, Terminal, TooFar
<1>3. MoverInv'
  BY DEF Calculate, Goto, StateInv, MoverInv, OneMover, MovingHasMover,
     Executing, TypeOK
<1>4. RangeInv'
  BY StepInRange DEF Calculate, Goto, StateInv, RangeInv, InRange, TypeOK, Executing
<1>5. EndInv'
  BY DEF Calculate, Goto, StateInv, MoverInv, OneMover, EndInv, EndsProperly,
     Executing, TypeOK
<1> QED
  BY <1>1, <1>2, <1>3, <1>4, <1>5

LEMMA StorePositionKeeps == ASSUME IInv, NEW g \in Goals, StorePosition(g) PROVE IInv'
<1> USE DEF IInv
<1>1. TypeOK'
  BY DEF StorePosition, Goto, TypeOK, Terminal
<1>2. StateInv'
  BY DEF StorePosition, Goto, StateInv, TypeOK, Terminal, TooFar
<1>3. MoverInv'
  BY DEF StorePosition, Goto, StateInv, MoverInv, OneMover, MovingHasMover,
     Executing, TypeOK
<1>4. RangeInv'
  BY DEF StorePosition, Goto, StateInv, RangeInv, InRange, TypeOK, Executing
<1>5. EndInv'
  BY DEF StorePosition, Goto, StateInv, MoverInv, OneMover, EndInv,
     EndsProperly, Executing, TypeOK
<1> QED
  BY <1>1, <1>2, <1>3, <1>4, <1>5

LEMMA ExecuteSingleStepKeeps == ASSUME IInv, NEW g \in Goals, execute_single_step(g) PROVE IInv'
<1> USE DEF IInv
<1>1. TypeOK'
  BY NextIsInt DEF execute_single_step, ByHand, Goto, TypeOK, Terminal
<1>2. StateInv'
  BY DEF execute_single_step, ByHand, Goto, StateInv, TypeOK, Terminal, TooFar
<1>3. MoverInv'
  BY DEF execute_single_step, ByHand, Goto, StateInv, MoverInv, OneMover,
     MovingHasMover, Executing, TypeOK
<1>4. RangeInv'
  BY StepInRange DEF execute_single_step, ByHand, Goto, StateInv, RangeInv,
     InRange, TypeOK, Executing
<1>5. EndInv'
  BY DEF execute_single_step, ByHand, Goto, StateInv, MoverInv, OneMover,
     EndInv, EndsProperly, Executing, TypeOK
<1> QED
  BY <1>1, <1>2, <1>3, <1>4, <1>5

LEMMA CheckAndCompleteGoalKeeps == ASSUME IInv, NEW g \in Goals, check_and_complete_goal(g) PROVE IInv'
<1> USE DEF IInv
<1>1. TypeOK'
  BY DEF check_and_complete_goal, End, ByHand, Goto, TypeOK, Terminal
<1>2. StateInv'
  BY DEF check_and_complete_goal, End, ByHand, Goto, StateInv, TypeOK, Terminal,
     TooFar
<1>3. MoverInv'
  BY DEF check_and_complete_goal, End, ByHand, Goto, StateInv, MoverInv,
     OneMover, MovingHasMover, Executing, TypeOK
<1>4. RangeInv'
  BY DEF check_and_complete_goal, End, ByHand, Goto, StateInv, RangeInv,
     InRange, TypeOK, Executing
<1>5. EndInv'
  BY DEF check_and_complete_goal, End, ByHand, Goto, StateInv, MoverInv,
     OneMover, EndInv, EndsProperly, Executing, TypeOK
<1> QED
  BY <1>1, <1>2, <1>3, <1>4, <1>5

LEMMA IInvStep == IInv /\ [Next]_vars => IInv'
<1> SUFFICES ASSUME IInv, [Next]_vars PROVE IInv'
  OBVIOUS
<1>1. ASSUME NEW g \in Goals, handle_goal(g) \/ handle_cancel(g) \/ handle_accepted(g)
      PROVE  IInv'
  BY <1>1, HandleGoalKeeps, HandleCancelKeeps, HandleAcceptedKeeps
<1>2. ASSUME NEW g \in Goals, ThreadStep(g) PROVE IInv'
  BY <1>2, LoopKeeps, AskCancelingKeeps, AskReachedKeeps, SucceedKeeps,
     ClearMovingKeeps, CalculateKeeps, StorePositionKeeps DEF ThreadStep
<1>3. ASSUME NEW g \in Goals, execute_single_step(g) \/ check_and_complete_goal(g)
      PROVE  IInv'
  BY <1>3, ExecuteSingleStepKeeps, CheckAndCompleteGoalKeeps
<1>4. CASE Shutdown
  BY <1>4 DEF Shutdown, IInv, TypeOK, StateInv, MoverInv, OneMover, MovingHasMover,
     Executing, RangeInv, InRange, EndInv, EndsProperly
<1>5. CASE UNCHANGED vars
  BY <1>5 DEF vars, IInv, TypeOK, StateInv, MoverInv, OneMover, MovingHasMover,
     Executing, RangeInv, InRange, EndInv, EndsProperly
<1> QED
  BY <1>1, <1>2, <1>3, <1>4, <1>5 DEF Next

LEMMA IInvHolds == Spec => []IInv
BY IInvInit, IInvStep, PTL DEF Spec

-----------------------------------------------------------------------------
(* With any number of goals, two threads move the robot at a time only     *)
(* when both goals were answered before either was started.                *)
THEOREM OneGoalMoves == Spec => []OneMover
<1>1. IInv => OneMover
  BY DEF IInv, MoverInv
<1> QED
  BY <1>1, IInvHolds, PTL

(* While the node is up, is_moving_ is never left set without a thread     *)
(* that executes a goal, so the server goes on accepting goals.            *)
THEOREM NeverLockedUp == Spec => []MovingHasMover
<1>1. IInv => MovingHasMover
  BY DEF IInv, MoverInv
<1> QED
  BY <1>1, IInvHolds, PTL

(* Wherever goals in range drive the robot, overlapping or not, it is      *)
(* never more than a step beyond the limit.                                *)
THEOREM StaysInRange == Spec => []InRange
<1>1. IInv => InRange
  BY DEF IInv, RangeInv
<1> QED
  BY <1>1, IInvHolds, PTL

(* A thread that is done has answered its goal, with a result that is      *)
(* true, unless goals overlapped or the process shut down.                 *)
THEOREM GoalsEndProperly == Spec => []EndsProperly
<1>1. IInv => EndsProperly
  BY DEF IInv, EndInv, EndsProperly
<1> QED
  BY <1>1, IInvHolds, PTL

=============================================================================
