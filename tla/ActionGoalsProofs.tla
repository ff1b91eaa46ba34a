-------------------------- MODULE ActionGoalsProofs -------------------------
(***************************************************************************)
(* Proofs about ActionGoals, for every set of goals and result codes and   *)
(* any number of results.                                                  *)
(***************************************************************************)
EXTENDS ActionGoals, TLAPS

(***************************************************************************)
(* The inductive invariant, in three parts.                                *)
(***************************************************************************)

(* The goal that send_goal is busy with: a result it has been told has     *)
(* overtaken it; and only accepted goals are stored or have results.       *)
SendInv ==
  /\ pc = "idle" <=> goal = "nullptr"
  /\ pc = "send" => future[goal] = "unsent"
  /\ pc = "wait" => future[goal] # "unsent"
  /\ goal \in Goals => Told(goal) = {} \/ goal \in overtaken
  /\ \A g \in Goals : Told(g) # {} \/ g \in stored => future[g] = "accepted"

(* The node was told what a handle's promise holds, and a resolve_result   *)
(* between its callback and its promise, if it is the first of its handle, *)
(* has told the node what it is about to promise.                          *)
ResolveInv ==
  /\ \A g \in Goals : handle[g].armed /\ handle[g].result # "none"
                        => handle[g].result \in Told(g)
  /\ resolving # None =>
       LET h == handle[resolving.goal] IN
       h.armed /\ h.result = "none" => resolving.code \in Told(resolving.goal)

IInv == TypeOK /\ SendInv /\ ActiveGoalIsOpen /\ OpenGoalStaysActive /\ ResolveInv

-----------------------------------------------------------------------------
(* One more result the node was told.                                      *)
LEMMA ToldAfter ==
  ASSUME TypeOK, NEW g \in Goals, NEW c \in Codes,
         told' = told \cup {[goal |-> g, code |-> c]}
  PROVE  \A h \in Goals : Told(h)' = IF h = g THEN Told(h) \cup {c} ELSE Told(h)
<1> DEFINE new == [goal |-> g, code |-> c]
<1>1. new.goal = g /\ new.code = c /\ told' = told \cup {new}
  OBVIOUS
<1> HIDE DEF new
<1>2. TAKE h \in Goals
<1>3. CASE h = g
  BY <1>1, <1>3 DEF Told
<1>4. CASE h # g
  BY <1>1, <1>4 DEF Told
<1> QED
  BY <1>3, <1>4

LEMMA ToldSame == ASSUME told' = told PROVE \A h \in Goals : Told(h)' = Told(h)
BY DEF Told

LEMMA IInvInit == Init => IInv
<1> SUFFICES ASSUME Init PROVE IInv
  OBVIOUS
<1>1. TypeOK
  BY DEF Init, TypeOK, NewHandle
<1>2. \A g \in Goals : Told(g) = {}
  BY DEF Init, Told
<1> QED
  BY <1>1, <1>2, GoalsAssumption
  DEF Init, IInv, SendInv, ActiveGoalIsOpen, OpenGoalStaysActive, ResolveInv, NewHandle

-----------------------------------------------------------------------------
(* result_callback of the node, whoever calls it.                          *)
LEMMA ResultTold ==
  ASSUME IInv, NEW g \in Goals, NEW c \in Codes, result_callback(g, c),
         future' = future, future[g] = "accepted"
  PROVE  /\ SendInv' /\ ActiveGoalIsOpen' /\ OpenGoalStaysActive'
         /\ told' \subseteq [goal : Goals, code : Codes]
         /\ overtaken' \subseteq Goals
         /\ \A h \in Goals : Told(h) \subseteq Told(h)'
         /\ c \in Told(g)'
<1>1. \A h \in Goals : Told(h)' = IF h = g THEN Told(h) \cup {c} ELSE Told(h)
  BY ToldAfter DEF IInv, result_callback
<1>2. SendInv'
  BY <1>1, GoalsAssumption DEF IInv, SendInv, TypeOK, result_callback
<1>3. ActiveGoalIsOpen'
  BY GoalsAssumption DEF ActiveGoalIsOpen, result_callback
<1>4. told' \subseteq [goal : Goals, code : Codes] /\ overtaken' \subseteq Goals
  BY DEF IInv, TypeOK, result_callback
<1>5. OpenGoalStaysActive'
  BY <1>1 DEF IInv, OpenGoalStaysActive, TypeOK, result_callback
<1> QED
  BY <1>1, <1>2, <1>3, <1>4, <1>5

LEMMA SendGoalKeeps == ASSUME IInv, NEW g \in Goals, send_goal(g) PROVE IInv'
<1> USE GoalsAssumption DEF IInv, resultVars, nodeVars
<1>1. \A h \in Goals : Told(h)' = Told(h)
  BY ToldSame DEF send_goal
<1>2. TypeOK'
  BY DEF send_goal, TypeOK, SendInv
<1>3. SendInv'
  BY <1>1 DEF send_goal, SendInv, TypeOK
<1>4. ActiveGoalIsOpen'
  BY <1>1 DEF send_goal, ActiveGoalIsOpen, SendInv, TypeOK
<1>5. OpenGoalStaysActive'
  BY <1>1 DEF send_goal, OpenGoalStaysActive, SendInv, TypeOK
<1>6. ResolveInv'
  BY <1>1 DEF send_goal, ResolveInv, TypeOK, None
<1> QED
  BY <1>2, <1>3, <1>4, <1>5, <1>6

LEMMA AsyncSendGoalKeeps == ASSUME IInv, async_send_goal PROVE IInv'
<1> USE GoalsAssumption DEF IInv, resultVars, nodeVars
<1>1. \A h \in Goals : Told(h)' = Told(h)
  BY ToldSame DEF async_send_goal, Returned, MockAnswers, Answers
<1>2. TypeOK'
  BY DEF async_send_goal, Returned, MockAnswers, Answers, TypeOK, SendInv
<1>3. SendInv'
  BY <1>1 DEF async_send_goal, Returned, MockAnswers, Answers, SendInv, TypeOK
<1>4. ActiveGoalIsOpen'
  BY <1>1 DEF async_send_goal, Returned, MockAnswers, Answers, ActiveGoalIsOpen, SendInv, TypeOK
<1>5. OpenGoalStaysActive'
  BY <1>1 DEF async_send_goal, Returned, MockAnswers, Answers, OpenGoalStaysActive, SendInv, TypeOK
<1>6. ResolveInv'
  BY <1>1 DEF async_send_goal, Returned, MockAnswers, Answers, ResolveInv, TypeOK, None
<1> QED
  BY <1>2, <1>3, <1>4, <1>5, <1>6

(* Taking the handle of an answered goal, or none when it was rejected.    *)
LEMMA TakeKeepsOpen ==
  ASSUME TypeOK, SendInv, NEW g \in Goals, Take(g), future' = future,
         future[g] \in {"accepted", "rejected"},
         \A h \in Goals : Told(h)' = Told(h)
  PROVE  OpenGoalStaysActive'
<1>1. CASE future[g] = "accepted"
  BY <1>1 DEF Take, Accepted, OpenGoalStaysActive, TypeOK
<1>2. CASE future[g] = "rejected"
  <2>1. stored' = stored /\ g \notin stored
    BY <1>2 DEF Take, Accepted, SendInv
  <2> QED
    BY <1>2, <2>1 DEF OpenGoalStaysActive
<1> QED
  BY <1>1, <1>2

LEMMA FutureReadyKeeps == ASSUME IInv, FutureReady PROVE IInv'
<1> USE GoalsAssumption DEF IInv, resultVars, nodeVars
<1>1. \A h \in Goals : Told(h)' = Told(h)
  BY ToldSame DEF FutureReady, Take, Accepted
<1>2. TypeOK'
  BY DEF FutureReady, Take, Accepted, TypeOK, SendInv
<1>3. SendInv'
  BY <1>1 DEF FutureReady, Take, Accepted, SendInv, TypeOK
<1>4. ActiveGoalIsOpen'
  BY <1>1 DEF FutureReady, Take, Accepted, ActiveGoalIsOpen, SendInv, TypeOK
<1>5. OpenGoalStaysActive'
  BY <1>1, TakeKeepsOpen DEF FutureReady, SendInv, TypeOK
<1>6. ResolveInv'
  BY <1>1 DEF FutureReady, Take, Accepted, ResolveInv, TypeOK, None
<1> QED
  BY <1>2, <1>3, <1>4, <1>5, <1>6

LEMMA FutureThrowsKeeps == ASSUME IInv, FutureThrows PROVE IInv'
<1> USE GoalsAssumption DEF IInv, resultVars, nodeVars
<1>1. \A h \in Goals : Told(h)' = Told(h)
  BY ToldSame DEF FutureThrows
<1>2. TypeOK'
  BY DEF FutureThrows, TypeOK, SendInv
<1>3. SendInv'
  BY <1>1 DEF FutureThrows, SendInv, TypeOK
<1>4. ActiveGoalIsOpen'
  BY <1>1 DEF FutureThrows, ActiveGoalIsOpen, SendInv, TypeOK
<1>5. OpenGoalStaysActive'
  BY <1>1 DEF FutureThrows, OpenGoalStaysActive, SendInv, TypeOK
<1>6. ResolveInv'
  BY <1>1 DEF FutureThrows, ResolveInv, TypeOK, None
<1> QED
  BY <1>2, <1>3, <1>4, <1>5, <1>6

LEMMA WaitTimeoutKeeps == ASSUME IInv, WaitTimeout PROVE IInv'
<1> USE GoalsAssumption DEF IInv, resultVars, nodeVars
<1>1. \A h \in Goals : Told(h)' = Told(h)
  BY ToldSame DEF WaitTimeout
<1>2. TypeOK'
  BY DEF WaitTimeout, TypeOK, SendInv
<1>3. SendInv'
  BY <1>1 DEF WaitTimeout, SendInv, TypeOK
<1>4. ActiveGoalIsOpen'
  BY <1>1 DEF WaitTimeout, ActiveGoalIsOpen, SendInv, TypeOK
<1>5. OpenGoalStaysActive'
  BY <1>1 DEF WaitTimeout, OpenGoalStaysActive, SendInv, TypeOK
<1>6. ResolveInv'
  BY <1>1 DEF WaitTimeout, ResolveInv, TypeOK, None
<1> QED
  BY <1>2, <1>3, <1>4, <1>5, <1>6

LEMMA GoalResponseKeeps ==
  ASSUME IInv, NEW g \in Goals, goal_response_callback(g)
  PROVE  IInv'
<1> USE GoalsAssumption DEF IInv, resultVars, nodeVars
<1>1. \A h \in Goals : Told(h)' = Told(h)
  BY ToldSame DEF goal_response_callback, Take, Accepted
<1>2. TypeOK'
  BY DEF goal_response_callback, Take, Accepted, TypeOK, SendInv
<1>3. SendInv'
  BY <1>1 DEF goal_response_callback, Take, Accepted, SendInv, TypeOK
<1>4. ActiveGoalIsOpen'
  BY <1>1 DEF goal_response_callback, Take, Accepted, ActiveGoalIsOpen, SendInv, TypeOK
<1>5. OpenGoalStaysActive'
  BY <1>1, TakeKeepsOpen DEF goal_response_callback
<1>6. ResolveInv'
  BY <1>1 DEF goal_response_callback, Take, Accepted, ResolveInv, TypeOK, None
<1> QED
  BY <1>2, <1>3, <1>4, <1>5, <1>6

LEMMA AnswerKeeps ==
  ASSUME IInv, NEW g \in Goals, NEW f \in Answers, Answer(g, f)
  PROVE  IInv'
<1> USE GoalsAssumption DEF IInv, resultVars, nodeVars
<1>1. \A h \in Goals : Told(h)' = Told(h)
  BY ToldSame DEF Answer, Answers
<1>2. TypeOK'
  BY DEF Answer, Answers, TypeOK, SendInv
<1>3. SendInv'
  BY <1>1 DEF Answer, Answers, SendInv, TypeOK
<1>4. ActiveGoalIsOpen'
  BY <1>1 DEF Answer, Answers, ActiveGoalIsOpen, SendInv, TypeOK
<1>5. OpenGoalStaysActive'
  BY <1>1 DEF Answer, Answers, OpenGoalStaysActive, SendInv, TypeOK
<1>6. ResolveInv'
  BY <1>1 DEF Answer, Answers, ResolveInv, TypeOK, None
<1> QED
  BY <1>2, <1>3, <1>4, <1>5, <1>6

LEMMA EndResolveKeeps == ASSUME IInv, EndResolve PROVE IInv'
<1> USE GoalsAssumption DEF IInv, resultVars, nodeVars
<1>1. \A h \in Goals : Told(h)' = Told(h)
  BY ToldSame DEF EndResolve, None
<1>2. TypeOK'
  BY DEF EndResolve, None, TypeOK, SendInv
<1>3. SendInv'
  BY <1>1 DEF EndResolve, None, SendInv, TypeOK
<1>4. ActiveGoalIsOpen'
  BY <1>1 DEF EndResolve, None, ActiveGoalIsOpen, SendInv, TypeOK
<1>5. OpenGoalStaysActive'
  BY <1>1 DEF EndResolve, None, OpenGoalStaysActive, SendInv, TypeOK
<1>6. ResolveInv'
  BY <1>1 DEF EndResolve, None, ResolveInv, TypeOK
<1> QED
  BY <1>2, <1>3, <1>4, <1>5, <1>6

LEMMA GetResultKeeps ==
  ASSUME IInv, NEW g \in Goals, NEW b \in BOOLEAN, async_get_result(g, b)
  PROVE  IInv'
<1> USE GoalsAssumption DEF IInv, resultVars, nodeVars
<1>1. \A h \in Goals : Told(h)' = Told(h)
  BY ToldSame DEF async_get_result, Accepted
<1>2. TypeOK'
  <2>1. handle' \in [Goals -> [callback : BOOLEAN, result : Codes \cup {"none"},
                               armed : BOOLEAN]]
    BY DEF async_get_result, TypeOK
  <2>2. got' \in Goals \cup {"nullptr"}
    BY DEF async_get_result
  <2> QED
    BY <2>1, <2>2 DEF async_get_result, TypeOK
<1>3. SendInv'
  BY <1>1 DEF async_get_result, Accepted, SendInv, TypeOK
<1>4. ActiveGoalIsOpen'
  BY <1>1 DEF async_get_result, Accepted, ActiveGoalIsOpen, SendInv, TypeOK
<1>5. OpenGoalStaysActive'
  BY <1>1 DEF async_get_result, Accepted, OpenGoalStaysActive, SendInv, TypeOK
<1>6. ResolveInv'
  BY <1>1 DEF async_get_result, Accepted, ResolveInv, TypeOK, None
<1> QED
  BY <1>2, <1>3, <1>4, <1>5, <1>6

LEMMA StopCallbacksKeeps ==
  ASSUME IInv, NEW g \in Goals, NEW by, stop_callbacks(g, by)
  PROVE  IInv'
<1> USE GoalsAssumption DEF IInv, resultVars, nodeVars
<1>1. \A h \in Goals : Told(h)' = Told(h)
  BY ToldSame DEF stop_callbacks
<1>2. TypeOK'
  BY DEF stop_callbacks, TypeOK, SendInv
<1>3. SendInv'
  BY <1>1 DEF stop_callbacks, SendInv, TypeOK
<1>4. ActiveGoalIsOpen'
  BY <1>1 DEF stop_callbacks, ActiveGoalIsOpen, SendInv, TypeOK
<1>5. OpenGoalStaysActive'
  BY <1>1 DEF stop_callbacks, OpenGoalStaysActive, SendInv, TypeOK
<1>6. ResolveInv'
  BY <1>1 DEF stop_callbacks, ResolveInv, TypeOK, None
<1> QED
  BY <1>2, <1>3, <1>4, <1>5, <1>6

LEMMA FindMockKeeps == ASSUME IInv, FindMock PROVE IInv'
<1> USE GoalsAssumption DEF IInv, resultVars, nodeVars
<1>1. \A h \in Goals : Told(h)' = Told(h)
  BY ToldSame DEF FindMock
<1>2. TypeOK'
  BY DEF FindMock, TypeOK, SendInv
<1>3. SendInv'
  BY <1>1 DEF FindMock, SendInv, TypeOK
<1>4. ActiveGoalIsOpen'
  BY <1>1 DEF FindMock, ActiveGoalIsOpen, SendInv, TypeOK
<1>5. OpenGoalStaysActive'
  BY <1>1 DEF FindMock, OpenGoalStaysActive, SendInv, TypeOK
<1>6. ResolveInv'
  BY <1>1 DEF FindMock, ResolveInv, TypeOK, None
<1> QED
  BY <1>2, <1>3, <1>4, <1>5, <1>6

LEMMA CallResultKeeps ==
  ASSUME IInv, NEW g \in Goals, NEW c \in Codes, CallResultCallback(g, c) PROVE IInv'
<1>1. /\ SendInv' /\ ActiveGoalIsOpen' /\ OpenGoalStaysActive'
      /\ told' \subseteq [goal : Goals, code : Codes] /\ overtaken' \subseteq Goals
      /\ \A h \in Goals : Told(h) \subseteq Told(h)'
  BY ResultTold DEF CallResultCallback, Accepted
<1>2. TypeOK'
  BY <1>1 DEF IInv, TypeOK, CallResultCallback, result_callback, resultVars
<1>3. ResolveInv'
  BY <1>1 DEF IInv, TypeOK, ResolveInv, CallResultCallback, resultVars, None
<1> QED
  BY <1>1, <1>2, <1>3 DEF IInv

LEMMA BeginResolveKeeps ==
  ASSUME IInv, NEW g \in Goals, NEW c \in Codes, BeginResolve(g, c) PROVE IInv'
<1>1. /\ g \in Goals /\ future[g] = "accepted" /\ future' = future /\ attached' = attached
      /\ got' = got
      /\ resolving' = [goal |-> g, code |-> c] /\ resolving = None
      /\ handle' = [handle EXCEPT ![g].armed = IF handle[g].result = "none"
                                               THEN handle[g].callback ELSE @]
  BY DEF BeginResolve, Accepted
<1>2. handle' \in [Goals -> [callback : BOOLEAN, result : Codes \cup {"none"},
                             armed : BOOLEAN]]
  BY <1>1 DEF IInv, TypeOK
<1>3. CASE handle[g].callback
  <2>1. result_callback(g, c)
    BY <1>3 DEF BeginResolve
  <2>2. /\ SendInv' /\ ActiveGoalIsOpen' /\ OpenGoalStaysActive'
        /\ told' \subseteq [goal : Goals, code : Codes] /\ overtaken' \subseteq Goals
        /\ \A h \in Goals : Told(h) \subseteq Told(h)'
        /\ c \in Told(g)'
    BY <1>1, <2>1, ResultTold
  <2>3. TypeOK'
    BY <1>1, <1>2, <2>1, <2>2 DEF IInv, TypeOK, result_callback
  <2>4. ResolveInv'
    BY <1>1, <2>2 DEF IInv, TypeOK, ResolveInv
  <2> QED
    BY <2>2, <2>3, <2>4 DEF IInv
<1>4. CASE ~handle[g].callback
  <2>1. UNCHANGED nodeVars
    BY <1>4 DEF BeginResolve
  <2>2. \A h \in Goals : Told(h)' = Told(h)
    BY <2>1, ToldSame DEF nodeVars
  <2>3. TypeOK'
    BY <1>1, <1>2, <2>1 DEF IInv, TypeOK, nodeVars
  <2>4. SendInv' /\ ActiveGoalIsOpen' /\ OpenGoalStaysActive'
    BY <1>1, <2>1, <2>2 DEF IInv, TypeOK, SendInv, ActiveGoalIsOpen, OpenGoalStaysActive, nodeVars
  <2>5. ResolveInv'
    BY <1>1, <1>4, <2>2 DEF IInv, TypeOK, ResolveInv
  <2> QED
    BY <2>3, <2>4, <2>5 DEF IInv
<1> QED
  BY <1>3, <1>4

LEMMA IInvStep == IInv /\ [Next]_vars => IInv'
<1> SUFFICES ASSUME IInv, [Next]_vars PROVE IInv'
  OBVIOUS
<1>1. ASSUME NEW g \in Goals, send_goal(g) PROVE IInv'
  BY <1>1, SendGoalKeeps
<1>2. CASE NodeStep
  BY <1>2, AsyncSendGoalKeeps, FutureReadyKeeps, FutureThrowsKeeps, WaitTimeoutKeeps
  DEF NodeStep
<1>3. ASSUME NEW g \in Goals, goal_response_callback(g) PROVE IInv'
  BY <1>3, GoalResponseKeeps
<1>4. ASSUME NEW g \in Goals, NEW f \in Answers, Answer(g, f) PROVE IInv'
  BY <1>4, AnswerKeeps
<1>5. ASSUME NEW g \in Goals, NEW c \in Codes, CallResultCallback(g, c) \/ BeginResolve(g, c)
      PROVE  IInv'
  BY <1>5, CallResultKeeps, BeginResolveKeeps
<1>6. CASE EndResolve \/ FindMock
  BY <1>6, EndResolveKeeps, FindMockKeeps
<1>7. ASSUME NEW g \in Goals, NEW b \in BOOLEAN, async_get_result(g, b) PROVE IInv'
  BY <1>7, GetResultKeeps
<1>8. ASSUME NEW g \in Goals, NEW by \in {"handle", "uuid"}, stop_callbacks(g, by) PROVE IInv'
  BY <1>8, StopCallbacksKeeps
<1>9. CASE UNCHANGED vars
  <2>1. \A h \in Goals : Told(h)' = Told(h)
    BY <1>9, ToldSame DEF vars
  <2>2. TypeOK' /\ SendInv' /\ ActiveGoalIsOpen' /\ OpenGoalStaysActive'
    BY <1>9, <2>1 DEF vars, IInv, TypeOK, SendInv, ActiveGoalIsOpen, OpenGoalStaysActive
  <2>3. ResolveInv'
    BY <1>9, <2>1 DEF vars, IInv, TypeOK, ResolveInv, None
  <2> QED
    BY <2>2, <2>3 DEF IInv
<1> QED
  BY <1>1, <1>2, <1>3, <1>4, <1>5, <1>6, <1>7, <1>8, <1>9 DEF Next

LEMMA IInvHolds == Spec => []IInv
BY IInvInit, IInvStep, PTL DEF Spec

-----------------------------------------------------------------------------
(* With any number of goals in flight, the goal the example node takes for *)
(* active is accepted and not over, except when its result overtook the    *)
(* goal response.                                                          *)
THEOREM ActiveIsOpen == Spec => []ActiveGoalIsOpen
<1>1. IInv => ActiveGoalIsOpen
  BY DEF IInv
<1> QED
  BY <1>1, IInvHolds, PTL

(* A goal the node stored and has no result of stays its active goal,      *)
(* however many other goals it sends, unless one of them is answered in    *)
(* time, rejected or has a result.                                         *)
THEOREM OpenIsActive == Spec => []OpenGoalStaysActive
<1>1. IInv => OpenGoalStaysActive
  BY DEF IInv
<1> QED
  BY <1>1, IInvHolds, PTL

(* When a handle had a callback as it was resolved, and its future is      *)
(* ready, the node has been told that very result, whatever was stopped,   *)
(* registered or resolved again; only the future that a client without a   *)
(* mock made up is exempt.                                                 *)
THEOREM ToldBeforePromised == Spec => []CallbackBeforeFuture
<1>1. IInv => CallbackBeforeFuture
  BY DEF IInv, ResolveInv, CallbackBeforeFuture, Ready
<1> QED
  BY <1>1, IInvHolds, PTL

=============================================================================
