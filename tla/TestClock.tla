----------------------------- MODULE TestClock ------------------------------
(***************************************************************************)
(* TestClock and TriggeringTestClock: a test moves a node's simulated time *)
(* by hand, and the triggering clock fires the node's timers on the way.   *)
(*                                                                         *)
(* One call of TriggeringTestClock::advance is several steps here: it      *)
(* takes a snapshot of the node's timers, then alternates moving the ROS   *)
(* clock and firing the timers of the snapshot one by one.  A timer        *)
(* callback is the node's code and may cancel, reset, let go of or create  *)
(* timers; between calls of advance the node and the test may do the same. *)
(*                                                                         *)
(* The timers themselves are rcl's (external): ready when the next call    *)
(* time has come, moved on by their period when called, adjusted when the  *)
(* clock jumps.  A wall timer runs on the steady clock, which the test     *)
(* does not control: whether one is ready is left open.                    *)
(***************************************************************************)
EXTENDS Integers

CONSTANTS
  MaxTimers,      \* bound: timers created in a behaviour
  Periods,        \* timer periods; 0 is accepted by safe_cast_to_period_in_ns
  Amounts,        \* durations given to advance
  ResetTimes,     \* time points given to resetClock
  MaxTime,        \* bound: latest value of now_ and of the ROS clock
  WallFlags,      \* {FALSE}, or BOOLEAN when the node also has wall timers
  CallbackEffects \* what timer callbacks do, besides nothing

Timers == 1 .. MaxTimers
Effects == {"cancel", "reset", "drop", "create"}

ASSUME BoundsAssumption == MaxTimers \in Nat /\ MaxTime \in Nat
ASSUME PeriodsAssumption == Periods \subseteq Nat
ASSUME AmountsAssumption == Amounts \subseteq Int /\ ResetTimes \subseteq Nat
ASSUME FlagsAssumption == WallFlags \subseteq BOOLEAN /\ CallbackEffects \subseteq Effects

VARIABLES
  rosTime,   \* the time the node's clock reads (rcl_set_ros_time_override)
  now_,      \* TestClock::now_
  timer,     \* the timers created so far, None before
  pc,        \* "idle", or where advance is: "head" of the loop or "fire"
  target,    \* target_time of the running advance
  start,     \* start_point of the running advance
  snapshot,  \* its vector of shared_ptrs, by creation order
  unvisited, \* the part of it fire_all_timer_callbacks has still to visit
  origin     \* history: now_ when the running or last advance was called

vars == <<rosTime, now_, timer, pc, target, start, snapshot, unvisited, origin>>
advanceVars == <<now_, pc, target, start, snapshot, unvisited, origin>>

None == [created |-> FALSE]

MinOf(S) == CHOOSE x \in S : \A y \in S : x <= y

Created == {t \in Timers : timer[t].created}

(* detail::findTimers: the registry's weak references that are not expired. *)
findTimers == {t \in Created : timer[t].owned}

Init ==
  /\ rosTime = 0          \* the constructor's resetClock()
  /\ now_ = 0
  /\ timer = [t \in Timers |-> None]
  /\ pc = "idle"
  /\ target = 0 /\ start = 0
  /\ snapshot = {} /\ unvisited = {}
  /\ origin = 0

-----------------------------------------------------------------------------
(***************************************************************************)
(* rcl timers (external).                                                  *)
(***************************************************************************)

(* anchor and calls are history: the time the timer was last started at,   *)
(* and how often it was called since.                                      *)
NewTimer(p, wall, autostart) ==
  [created |-> TRUE, owned |-> TRUE, wall |-> wall, canceled |-> ~autostart,
   period |-> p, next |-> rosTime + p, last |-> rosTime,
   anchor |-> rosTime, calls |-> 0]

IsReady(r) == ~r.canceled /\ r.next <= rosTime

(* rcl_timer_call: exactly one period further, and past now if cycles were *)
(* missed.                                                                 *)
NextCallTime(r) ==
  LET n == r.next + r.period
  IN  IF n >= rosTime THEN n
      ELSE IF r.period = 0 THEN rosTime
      ELSE n + (1 + (rosTime - n - 1) \div r.period) * r.period

(* (calls of a period-0 timer have no meaning and are not counted)         *)
Called(r) == [r EXCEPT !.next = NextCallTime(r), !.last = rosTime,
                       !.calls = IF r.period = 0 THEN @ ELSE @ + 1]

Restarted(r) == [r EXCEPT !.canceled = FALSE, !.next = rosTime + r.period,
                          !.anchor = rosTime, !.calls = 0]

(* The jump callback of a timer when the clock was set to t.               *)
Jumped(r, t) ==
  IF r.created /\ ~r.wall /\ r.next > t /\ t < r.last
  THEN [r EXCEPT !.next = t + r.period, !.last = t, !.anchor = t, !.calls = 0]
  ELSE r

SetRosTime(t) ==
  /\ rosTime' = t
  /\ timer' = [x \in Timers |-> Jumped(timer[x], t)]

-----------------------------------------------------------------------------
(***************************************************************************)
(* The node and the test between two calls of advance.                     *)
(***************************************************************************)
NextFree(t) == ~timer[t].created /\ \A x \in Timers : x < t => timer[x].created

(* create_timer / create_wall_timer.                                       *)
CreateTimer(t, p, wall, autostart) ==
  /\ pc = "idle"
  /\ NextFree(t)
  /\ timer' = [timer EXCEPT ![t] = NewTimer(p, wall, autostart)]
  /\ UNCHANGED <<rosTime, advanceVars>>

CancelTimer(t) ==
  /\ pc = "idle" /\ t \in findTimers /\ ~timer[t].canceled
  /\ timer' = [timer EXCEPT ![t].canceled = TRUE]
  /\ UNCHANGED <<rosTime, advanceVars>>

ResetTimer(t) ==
  /\ pc = "idle" /\ t \in findTimers
  /\ timer' = [timer EXCEPT ![t] = Restarted(@)]
  /\ UNCHANGED <<rosTime, advanceVars>>

DropTimer(t) ==
  /\ pc = "idle" /\ t \in findTimers
  /\ timer' = [timer EXCEPT ![t].owned = FALSE]
  /\ UNCHANGED <<rosTime, advanceVars>>

(* TestClock::resetClock sets the ROS clock and leaves now_ as it was.     *)
resetClock(tv) ==
  /\ pc = "idle"
  /\ SetRosTime(tv)
  /\ UNCHANGED advanceVars

-----------------------------------------------------------------------------
(***************************************************************************)
(* TriggeringTestClock::advance.                                           *)
(***************************************************************************)

(* Mutant: the step is added to what the ROS clock reads.                  *)
ClockAdvance_Relative(d) == now_' = now_ + d /\ SetRosTime(rosTime + d)

(* TestClock::advance(d), the clock's own part of every step.              *)
ClockAdvance(d) == now_' = now_ + d /\ SetRosTime(now_ + d)

(* The call.  Without timers it only moves the clock.                      *)
Advance(d) ==
  /\ pc = "idle"
  /\ now_ + d \in 0 .. MaxTime
  /\ origin' = now_
  /\ target' = d
  /\ start' = 0
  /\ snapshot' = findTimers
  /\ unvisited' = {}
  /\ IF findTimers = {}
     THEN ClockAdvance(d) /\ UNCHANGED pc
     ELSE pc' = "head" /\ UNCHANGED <<now_, rosTime, timer>>

(* Mutant: the running minimum starts from 0 instead of the largest value. *)
get_timers_min_period_FromZero == MinOf({0} \cup {timer[t].period : t \in snapshot})

(* get_timers_min_period, over the snapshot, canceled timers included.     *)
get_timers_min_period == MinOf({timer[t].period : t \in snapshot})

(* Mutants: the step is the whole rest; the last step is not cut short.    *)
StepSize_WholeRest == target - start
StepSize_NotCut == get_timers_min_period

StepSize == MinOf({get_timers_min_period, target - start})

(* One iteration up to fire_all_timer_callbacks.                           *)
Step ==
  /\ pc = "head" /\ start < target
  /\ start' = start + StepSize
  /\ ClockAdvance(StepSize)
  /\ pc' = "fire"
  /\ unvisited' = snapshot
  /\ UNCHANGED <<target, snapshot, origin>>

(* What the callback of a timer does to the node's timers.                 *)
AfterCallback(tm) ==
  \/ timer' = tm
  \/ \E x \in Timers :
       /\ tm[x].created /\ tm[x].owned
       /\ \/ "cancel" \in CallbackEffects /\ timer' = [tm EXCEPT ![x].canceled = TRUE]
          \/ "reset" \in CallbackEffects /\ timer' = [tm EXCEPT ![x] = Restarted(@)]
          \/ "drop" \in CallbackEffects /\ timer' = [tm EXCEPT ![x].owned = FALSE]
  \/ /\ "create" \in CallbackEffects
     /\ \E x \in Timers, p \in Periods :
          NextFree(x) /\ timer' = [tm EXCEPT ![x] = NewTimer(p, FALSE, TRUE)]

(* fire_all_timer_callbacks visits the snapshot in order.                  *)
Visit(t) == pc = "fire" /\ unvisited # {} /\ t = MinOf(unvisited)

Fire(t) ==
  /\ Visit(t)
  /\ ~timer[t].canceled /\ (timer[t].wall \/ IsReady(timer[t]))
  /\ unvisited' = unvisited \ {t}
  /\ AfterCallback([timer EXCEPT ![t] = IF timer[t].wall THEN timer[t] ELSE Called(@)])
  /\ UNCHANGED <<rosTime, now_, pc, target, start, snapshot, origin>>

Skip(t) ==
  /\ Visit(t)
  /\ timer[t].wall \/ ~IsReady(timer[t])
  /\ unvisited' = unvisited \ {t}
  /\ UNCHANGED <<rosTime, now_, timer, pc, target, start, snapshot, origin>>

NextIteration ==
  /\ pc = "fire" /\ unvisited = {}
  /\ pc' = "head"
  /\ UNCHANGED <<rosTime, now_, timer, target, start, snapshot, unvisited, origin>>

(* Mutant: "return" where a timer that is not ready is skipped, and the    *)
(* timers still to visit are left behind.                                  *)
Return_Early ==
  /\ pc \in {"fire", "head"} /\ (pc = "head" => start >= target)
  /\ pc' = "idle"
  /\ snapshot' = {}
  /\ UNCHANGED <<rosTime, now_, timer, target, start, unvisited, origin>>

(* advance returns and its vector of shared_ptrs goes.                     *)
Return ==
  /\ pc = "head" /\ start >= target
  /\ pc' = "idle"
  /\ snapshot' = {}
  /\ UNCHANGED <<rosTime, now_, timer, target, start, unvisited, origin>>

AdvanceStep ==
  Step \/ NextIteration \/ Return \/ \E t \in Timers : Fire(t) \/ Skip(t)

Next ==
  \/ \E t \in Timers, p \in Periods, wall \in WallFlags, autostart \in BOOLEAN :
       CreateTimer(t, p, wall, autostart)
  \/ \E t \in Timers : CancelTimer(t) \/ ResetTimer(t) \/ DropTimer(t)
  \/ \E tv \in ResetTimes : resetClock(tv)
  \/ \E d \in Amounts : Advance(d)
  \/ AdvanceStep

(* advance is a loop of the calling thread: nothing else keeps it from     *)
(* taking its next step, and nothing obliges the test to call anything.    *)
Spec == Init /\ [][Next]_vars /\ WF_vars(AdvanceStep)

-----------------------------------------------------------------------------
(***************************************************************************)
(* Properties.                                                             *)
(***************************************************************************)
TimerRecord(r) ==
  /\ r.owned \in BOOLEAN /\ r.wall \in BOOLEAN /\ r.canceled \in BOOLEAN
  /\ r.period \in Periods
  /\ r.next \in Int /\ r.last \in Int /\ r.anchor \in Int /\ r.calls \in Nat

(* Every variable has its type, and advance only ever visits timers that    *)
(* exist.                                                                   *)
TypeOK ==
  /\ rosTime \in Int /\ now_ \in Int /\ origin \in Int
  /\ target \in Int /\ start \in Int
  /\ pc \in {"idle", "head", "fire"}
  /\ \A t \in Timers : timer[t] = None \/ TimerRecord(timer[t])
  /\ snapshot \subseteq Created /\ unvisited \subseteq snapshot

(* The timers that the test's time drives.  A wall timer is not one of      *)
(* them, although the publisher tutorial has advance fire one: it runs on   *)
(* the steady clock, and the code promises nothing about when it is ready.  *)
Driven(t) == /\ t \in findTimers
             /\ ~timer[t].wall /\ ~timer[t].canceled /\ timer[t].period > 0

(* advance(d) moves the test clock by exactly d however it is cut into      *)
(* steps (a negative d only where there are no timers), and at every step   *)
(* by what was walked so far.                                               *)
LandsOnTarget ==
  IF pc = "idle"
  THEN now_ = origin + target \/ (target < 0 /\ now_ = origin)
  ELSE now_ = origin + start /\ (start <= target \/ start = 0)

(* Whatever resetClock did before, from its first step on an advance has    *)
(* the ROS clock and now() agree.                                           *)
AgreeAfterStep == (pc # "idle" /\ start > 0) => rosTime = now_

(* No tick is lost and none is delivered twice: whenever advance is between *)
(* two iterations or not running, a started timer was called exactly once   *)
(* per full period since it was started, however the test cut the time into *)
(* calls of advance, and whatever other callbacks canceled, reset or        *)
(* dropped.                                                                 *)
TickCount ==
  pc # "fire" =>
    \A t \in Timers : Driven(t) =>
      LET r == timer[t]
      IN  r.calls * r.period <= rosTime - r.anchor /\ rosTime - r.anchor < (r.calls + 1) * r.period

(* A callback runs late by less than the step of the loop, the shortest     *)
(* period of the snapshot.                                                  *)
LateByLessThanAStep ==
  [][\A t \in Timers : (Fire(t) /\ ~timer[t].wall)
       => rosTime - timer[t].next < get_timers_min_period]_vars

(* now() is the time the node's clock reads whenever the test can look.     *)
NowIsClock == pc = "idle" => now_ = rosTime

(* Every call of advance returns.                                           *)
AdvanceEnds == pc # "idle" ~> pc = "idle"

=============================================================================
