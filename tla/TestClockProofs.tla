--------------------------- MODULE TestClockProofs ---------------------------
(***************************************************************************)
(* Proofs about TestClock, for any number of timers, any periods, amounts  *)
(* and reset times, and whatever callbacks do to the timers.               *)
(***************************************************************************)
EXTENDS TestClock, WellFoundedInduction, TLAPS

(***************************************************************************)
(* Operators.                                                              *)
(***************************************************************************)

(* A non-empty set of natural numbers has a least one, and MinOf is it.     *)
LEMMA MinOfNat ==
  ASSUME NEW S \in SUBSET Nat, S # {}
  PROVE  MinOf(S) \in S /\ \A y \in S : MinOf(S) <= y
<1>1. PICK x \in S : \A y \in S : ~(<<y, x>> \in OpToRel(<, Nat))
  BY NatLessThanWellFounded, WFMin
<1>2. \A y \in S : ~(y < x)
  BY <1>1, Zenon DEF OpToRel
<1>3. \A y \in S : x <= y
  BY <1>2
<1>. QED
  BY <1>3 DEF MinOf

LEMMA MinOfPair ==
  ASSUME NEW a \in Int, NEW b \in Int
  PROVE  MinOf({a, b}) = IF a <= b THEN a ELSE b
BY DEF MinOf

(***************************************************************************)
(* Timer records.                                                          *)
(***************************************************************************)
TimerRec ==
  [created : {TRUE}, owned : BOOLEAN, wall : BOOLEAN, canceled : BOOLEAN,
   period : Periods, next : Int, last : Int, anchor : Int, calls : Nat]

LEMMA NoneIsNoTimer == None \notin TimerRec
BY DEF None, TimerRec

LEMMA RecordFields ==
  ASSUME NEW r \in TimerRec
  PROVE  /\ r.created = TRUE /\ r.owned \in BOOLEAN /\ r.wall \in BOOLEAN /\ r.canceled \in BOOLEAN
         /\ r.period \in Nat /\ r.next \in Int /\ r.last \in Int /\ r.anchor \in Int
         /\ r.calls \in Nat
<1>1. r.period \in Periods
  BY DEF TimerRec
<1>2. r.period \in Nat
  BY <1>1, PeriodsAssumption
<1>. QED
  BY <1>2 DEF TimerRec

LEMMA DivType ==
  ASSUME NEW a \in Int, NEW p \in Nat, p # 0
  PROVE  a \div p \in Int
OBVIOUS

(* What rcl does to a timer, and what the node may do to it.                *)
Canceled(r) == [r EXCEPT !.canceled = TRUE]
Dropped(r)  == [r EXCEPT !.owned = FALSE]

LEMMA NewTimerType ==
  ASSUME NEW p \in Periods, NEW wall \in BOOLEAN, NEW autostart \in BOOLEAN, rosTime \in Int
  PROVE  NewTimer(p, wall, autostart) \in TimerRec
BY PeriodsAssumption DEF NewTimer, TimerRec

LEMMA NextCallTimeType ==
  ASSUME NEW r \in TimerRec, rosTime \in Int
  PROVE  NextCallTime(r) \in Int
<1>0. r.period \in Nat /\ r.next \in Int
  BY RecordFields
<1>1. r.period \in Nat /\ r.next + r.period \in Int
  BY <1>0
<1>2. CASE r.period = 0
  BY <1>1, <1>2 DEF NextCallTime
<1>3. CASE r.period # 0
  <2>. DEFINE n == r.next + r.period
              q == (rosTime - n - 1) \div r.period
  <2>1. n \in Int /\ rosTime - n - 1 \in Int
    BY <1>1
  <2>2. q \in Int
    BY <1>1, <1>3, <2>1, DivType
  <2>. HIDE DEF q
  <2>3. n + (1 + q) * r.period \in Int
    BY <1>1, <2>1, <2>2
  <2>4. NextCallTime(r) = IF n >= rosTime THEN n ELSE n + (1 + q) * r.period
    BY <1>3 DEF NextCallTime, q
  <2>. QED
    BY <2>1, <2>3, <2>4
<1>. QED
  BY <1>2, <1>3

LEMMA CalledType ==
  ASSUME NEW r \in TimerRec, rosTime \in Int
  PROVE  /\ Called(r) \in TimerRec
         /\ Called(r).next = NextCallTime(r) /\ Called(r).last = rosTime
         /\ Called(r).calls = (IF r.period = 0 THEN r.calls ELSE r.calls + 1)
         /\ Called(r).period = r.period /\ Called(r).wall = r.wall /\ Called(r).owned = r.owned
         /\ Called(r).canceled = r.canceled /\ Called(r).anchor = r.anchor
<1>. DEFINE c == IF r.period = 0 THEN r.calls ELSE r.calls + 1
<1>1. NextCallTime(r) \in Int
  BY NextCallTimeType
<1>2. c \in Nat
  <2>1. r.calls \in Nat
    BY RecordFields
  <2>. QED
    BY <2>1
<1>3. Called(r) = [r EXCEPT !.next = NextCallTime(r), !.last = rosTime, !.calls = c]
  BY DEF Called
<1>. HIDE DEF c
<1>4. Called(r) \in TimerRec
  BY <1>1, <1>2, <1>3 DEF TimerRec
<1>5. /\ Called(r).next = NextCallTime(r) /\ Called(r).last = rosTime /\ Called(r).calls = c
      /\ Called(r).period = r.period /\ Called(r).wall = r.wall /\ Called(r).owned = r.owned
      /\ Called(r).canceled = r.canceled /\ Called(r).anchor = r.anchor
  BY <1>3 DEF TimerRec
<1>. QED
  BY <1>4, <1>5 DEF c

LEMMA RestartedType ==
  ASSUME NEW r \in TimerRec, rosTime \in Int
  PROVE  /\ Restarted(r) \in TimerRec
         /\ Restarted(r).next = rosTime + r.period /\ Restarted(r).anchor = rosTime
         /\ Restarted(r).calls = 0 /\ Restarted(r).last = r.last
         /\ Restarted(r).period = r.period /\ Restarted(r).wall = r.wall
         /\ Restarted(r).owned = r.owned
<1>0. r.period \in Nat
  BY RecordFields
<1>1. rosTime + r.period \in Int
  BY <1>0
<1>2. Restarted(r) \in TimerRec
  BY <1>1 DEF Restarted, TimerRec
<1>. QED
  BY <1>2 DEF Restarted, TimerRec

LEMMA CanceledType ==
  ASSUME NEW r \in TimerRec
  PROVE  /\ Canceled(r) \in TimerRec /\ Canceled(r).canceled = TRUE
         /\ Canceled(r).period = r.period /\ Canceled(r).wall = r.wall
         /\ Canceled(r).owned = r.owned /\ Canceled(r).last = r.last
BY DEF Canceled, TimerRec

LEMMA DroppedType ==
  ASSUME NEW r \in TimerRec
  PROVE  /\ Dropped(r) \in TimerRec /\ Dropped(r).owned = FALSE
         /\ Dropped(r).period = r.period /\ Dropped(r).wall = r.wall
         /\ Dropped(r).canceled = r.canceled /\ Dropped(r).last = r.last
         /\ Dropped(r).next = r.next /\ Dropped(r).anchor = r.anchor
         /\ Dropped(r).calls = r.calls
BY DEF Dropped, TimerRec

LEMMA JumpedType ==
  ASSUME NEW r \in TimerRec, NEW tv \in Int
  PROVE  /\ Jumped(r, tv) \in TimerRec /\ Jumped(r, tv).period = r.period
         /\ Jumped(r, tv).owned = r.owned
         /\ r.last <= tv => Jumped(r, tv) = r
<1>. DEFINE j == [r EXCEPT !.next = tv + r.period, !.last = tv, !.anchor = tv, !.calls = 0]
<1>0. r.period \in Nat /\ r.last \in Int
  BY RecordFields
<1>1. tv + r.period \in Int /\ r.last \in Int
  BY <1>0
<1>2. j \in TimerRec /\ j.period = r.period /\ j.owned = r.owned
  BY <1>1 DEF TimerRec
<1>3. CASE tv < r.last
  <2>1. ~(r.last <= tv)
    BY <1>1, <1>3
  <2>2. Jumped(r, tv) = j \/ Jumped(r, tv) = r
    BY DEF Jumped
  <2>. HIDE DEF j
  <2>. QED
    BY <1>2, <2>1, <2>2
<1>4. CASE ~(tv < r.last)
  BY <1>4 DEF Jumped
<1>. QED
  BY <1>3, <1>4

LEMMA JumpedNone ==
  ASSUME NEW tv
  PROVE  Jumped(None, tv) = None
BY DEF Jumped, None

-----------------------------------------------------------------------------
(***************************************************************************)
(* Type correctness.  advance is inside its loop only with timers to       *)
(* visit, and leaves it with none left.                                    *)
(***************************************************************************)
TypeInv ==
  /\ rosTime \in Int /\ now_ \in Int /\ origin \in Int
  /\ target \in Int /\ start \in Int
  /\ pc \in {"idle", "head", "fire"}
  /\ timer \in [Timers -> {None} \cup TimerRec]
  /\ snapshot \subseteq Created /\ unvisited \subseteq snapshot
  /\ pc # "fire" => unvisited = {}
  /\ pc # "idle" => snapshot # {}

LEMMA CreatedIsRecord ==
  ASSUME TypeInv, NEW t \in Timers
  PROVE  timer[t].created <=> timer[t] \in TimerRec
<1>1. CASE timer[t] = None
  BY <1>1, NoneIsNoTimer DEF None
<1>2. CASE timer[t] \in TimerRec
  BY <1>2, RecordFields
<1>. QED
  BY <1>1, <1>2 DEF TypeInv

(* The timers change but none is lost.                                      *)
LEMMA CreatedGrows ==
  ASSUME TypeInv, timer' \in [Timers -> {None} \cup TimerRec],
         \A t \in Timers : timer[t] \in TimerRec => timer'[t] \in TimerRec
  PROVE  Created \subseteq Created'
<1>1. ASSUME NEW t \in Created
      PROVE  t \in Created'
  <2>1. t \in Timers /\ timer'[t] \in TimerRec
    BY CreatedIsRecord DEF Created
  <2>. QED
    BY <2>1 DEF Created, TimerRec
<1>. QED
  BY <1>1

(* The shortest period of the snapshot, and the step made of it.            *)
LEMMA MinPeriod ==
  ASSUME TypeInv, snapshot # {}
  PROVE  /\ get_timers_min_period \in Nat
         /\ \E t \in snapshot : get_timers_min_period = timer[t].period
         /\ \A t \in snapshot : get_timers_min_period <= timer[t].period
<1>. DEFINE S == {timer[t].period : t \in snapshot}
<1>1. \A t \in snapshot : timer[t] \in TimerRec
  BY CreatedIsRecord DEF TypeInv, Created
<1>2. S \in SUBSET Nat /\ S # {}
  BY <1>1, PeriodsAssumption DEF TimerRec
<1>3. MinOf(S) \in S /\ \A y \in S : MinOf(S) <= y
  BY <1>2, MinOfNat
<1>. QED
  BY <1>2, <1>3 DEF get_timers_min_period

LEMMA StepSizeBounds ==
  ASSUME TypeInv, snapshot # {}, start < target
  PROVE  /\ StepSize \in Nat /\ StepSize <= target - start
         /\ \A t \in snapshot : StepSize <= timer[t].period
<1>1. target - start \in Int /\ target - start > 0
  BY DEF TypeInv
<1>2. StepSize = IF get_timers_min_period <= target - start THEN get_timers_min_period
                 ELSE target - start
  BY <1>1, MinPeriod, MinOfPair DEF StepSize
<1>3. \A t \in snapshot : timer[t].period \in Nat
  BY CreatedIsRecord, PeriodsAssumption DEF TypeInv, Created, TimerRec
<1>. QED
  BY <1>1, <1>2, <1>3, MinPeriod

(* Moving the clock keeps every timer a timer.                              *)
LEMMA SetRosTimeType ==
  ASSUME TypeInv, NEW tv \in Int, SetRosTime(tv)
  PROVE  /\ timer' \in [Timers -> {None} \cup TimerRec] /\ rosTime' = tv
         /\ \A t \in Timers : timer'[t] = Jumped(timer[t], tv)
         /\ \A t \in Timers : timer[t] \in TimerRec => timer'[t] \in TimerRec
         /\ \A t \in Timers : timer[t] = None => timer'[t] = None
<1>1. \A t \in Timers : timer[t] \in TimerRec => Jumped(timer[t], tv) \in TimerRec
  BY JumpedType
<1>2. \A t \in Timers : timer[t] = None => Jumped(timer[t], tv) = None
  BY JumpedNone
<1>3. timer' = [x \in Timers |-> Jumped(timer[x], tv)] /\ rosTime' = tv
  BY DEF SetRosTime
<1>. QED
  BY <1>1, <1>2, <1>3 DEF TypeInv

(* What the node and its callbacks may do to one timer.                     *)
NodeMayDo(r, r2) ==
  \/ r2 = r
  \/ /\ r \in TimerRec /\ r.owned
     /\ r2 = Canceled(r) \/ r2 = Restarted(r) \/ r2 = Dropped(r)
  \/ r = None /\ "create" \in CallbackEffects /\ \E p \in Periods : r2 = NewTimer(p, FALSE, TRUE)

(* The timers as the fired timer's callback finds them.                     *)
AfterCall(t) == [timer EXCEPT ![t] = IF timer[t].wall THEN timer[t] ELSE Called(@)]

LEMMA AfterCallType ==
  ASSUME TypeInv, NEW t \in Timers, t \in unvisited
  PROVE  /\ AfterCall(t) \in [Timers -> {None} \cup TimerRec]
         /\ \A x \in Timers : x # t => AfterCall(t)[x] = timer[x]
         /\ AfterCall(t)[t] = (IF timer[t].wall THEN timer[t] ELSE Called(timer[t]))
         /\ timer[t] \in TimerRec /\ AfterCall(t)[t] \in TimerRec
<1>1. timer[t] \in TimerRec
  BY CreatedIsRecord DEF TypeInv, Created
<1>2. Called(timer[t]) \in TimerRec
  BY <1>1, CalledType DEF TypeInv
<1>. QED
  BY <1>1, <1>2 DEF AfterCall, TypeInv

LEMMA VisitedIsUnvisited ==
  ASSUME TypeInv, NEW t \in Timers, Visit(t)
  PROVE  t \in unvisited
<1>1. unvisited \in SUBSET Nat /\ unvisited # {}
  BY BoundsAssumption DEF Visit, TypeInv, Created, Timers
<1>. QED
  BY <1>1, MinOfNat DEF Visit

LEMMA FireEffects ==
  ASSUME TypeInv, NEW t \in Timers, Fire(t)
  PROVE  /\ t \in unvisited
         /\ \A x \in Timers : NodeMayDo(AfterCall(t)[x], timer'[x])
         /\ DOMAIN timer' = Timers /\ timer' = [x \in Timers |-> timer'[x]]
<1>. DEFINE tm == AfterCall(t)
<1>1. t \in unvisited
  BY VisitedIsUnvisited DEF Fire
<1>2. tm \in [Timers -> {None} \cup TimerRec] /\ AfterCallback(tm)
      /\ \A x \in Timers : x # t => tm[x] = timer[x]
  BY <1>1, AfterCallType DEF Fire, AfterCall
<1>3. timer[t] \in TimerRec
  BY <1>1, AfterCallType
<1>. HIDE DEF tm
<1>4. ASSUME timer' = tm
      PROVE  (\A y \in Timers : NodeMayDo(tm[y], timer'[y])) /\ timer' = [y \in Timers |-> timer'[y]]
  BY <1>2, <1>4 DEF NodeMayDo
<1>5. ASSUME NEW x \in Timers, tm[x].created, tm[x].owned,
             \/ timer' = [tm EXCEPT ![x].canceled = TRUE]
             \/ timer' = [tm EXCEPT ![x] = Restarted(@)]
             \/ timer' = [tm EXCEPT ![x].owned = FALSE]
      PROVE  (\A y \in Timers : NodeMayDo(tm[y], timer'[y])) /\ timer' = [y \in Timers |-> timer'[y]]
  <2>1. tm[x] \in TimerRec
    <3>1. tm[x] # None
      BY <1>5 DEF None
    <3>. QED
      BY <1>2, <3>1
  <2>2. \/ timer'[x] = Canceled(tm[x])
        \/ timer'[x] = Restarted(tm[x])
        \/ timer'[x] = Dropped(tm[x])
    BY <1>2, <1>5 DEF Canceled, Dropped
  <2>3. \A y \in Timers : y # x => timer'[y] = tm[y]
    BY <1>2, <1>5
  <2>4. timer' = [y \in Timers |-> timer'[y]]
    BY <1>2, <1>5
  <2>. QED
    BY <1>5, <2>1, <2>2, <2>3, <2>4 DEF NodeMayDo
<1>6. ASSUME NEW x \in Timers, NEW p \in Periods, "create" \in CallbackEffects, NextFree(x),
             timer' = [tm EXCEPT ![x] = NewTimer(p, FALSE, TRUE)]
      PROVE  (\A y \in Timers : NodeMayDo(tm[y], timer'[y])) /\ timer' = [y \in Timers |-> timer'[y]]
  <2>1. timer[x] = None /\ x # t
    BY <1>3, <1>6, CreatedIsRecord DEF NextFree, TypeInv
  <2>2. tm[x] = None
    BY <1>2, <2>1
  <2>3. timer'[x] = NewTimer(p, FALSE, TRUE) /\ \A y \in Timers : y # x => timer'[y] = tm[y]
    BY <1>2, <1>6
  <2>4. timer' = [y \in Timers |-> timer'[y]]
    BY <1>2, <1>6
  <2>. QED
    BY <1>6, <2>2, <2>3, <2>4 DEF NodeMayDo
<1>7. (\A y \in Timers : NodeMayDo(tm[y], timer'[y])) /\ timer' = [y \in Timers |-> timer'[y]]
  <2>1. CASE timer' = tm
    BY <1>2, <1>4, <2>1
  <2>2. ASSUME NEW x \in Timers, tm[x].created /\ tm[x].owned,
               \/ timer' = [tm EXCEPT ![x].canceled = TRUE]
               \/ timer' = [tm EXCEPT ![x] = Restarted(@)]
               \/ timer' = [tm EXCEPT ![x].owned = FALSE]
        PROVE  (\A y \in Timers : NodeMayDo(tm[y], timer'[y])) /\ timer' = [y \in Timers |-> timer'[y]]
    BY <1>5, <2>2
  <2>. QED
    BY <1>2, <1>6, <2>1, <2>2, Zenon DEF AfterCallback
<1>. QED
  BY <1>1, <1>7 DEF tm

LEMMA NodeMayDoType ==
  ASSUME NEW r \in {None} \cup TimerRec, NEW r2, NodeMayDo(r, r2), rosTime \in Int
  PROVE  r2 \in {None} \cup TimerRec /\ (r \in TimerRec => r2 \in TimerRec)
<1>1. \A p \in Periods : NewTimer(p, FALSE, TRUE) \in TimerRec
  BY NewTimerType
<1>2. CASE r \in TimerRec
  <2>1. Canceled(r) \in TimerRec /\ Restarted(r) \in TimerRec /\ Dropped(r) \in TimerRec
    BY <1>2, CanceledType, RestartedType, DroppedType
  <2>. QED
    BY <1>2, <2>1, NoneIsNoTimer DEF NodeMayDo
<1>3. CASE r = None
  BY <1>1, <1>3, NoneIsNoTimer DEF NodeMayDo
<1>. QED
  BY <1>2, <1>3

LEMMA FireType ==
  ASSUME TypeInv, NEW t \in Timers, Fire(t)
  PROVE  /\ timer' \in [Timers -> {None} \cup TimerRec]
         /\ \A x \in Timers : timer[x] \in TimerRec => timer'[x] \in TimerRec
<1>1. \A x \in Timers : AfterCall(t)[x] \in {None} \cup TimerRec
                        /\ (timer[x] \in TimerRec => AfterCall(t)[x] \in TimerRec)
  BY FireEffects, AfterCallType
<1>2. \A x \in Timers : timer'[x] \in {None} \cup TimerRec
                        /\ (timer[x] \in TimerRec => timer'[x] \in TimerRec)
  BY <1>1, FireEffects, NodeMayDoType DEF TypeInv
<1>. QED
  BY <1>2, FireEffects

LEMMA InitTypeInv == Init => TypeInv
BY DEF Init, TypeInv, None, Created

LEMMA NextTypeInv == TypeInv /\ [Next]_vars => TypeInv'
<1>. SUFFICES ASSUME TypeInv, [Next]_vars
              PROVE  TypeInv'
  OBVIOUS
(* The node and the test change one timer while advance does not run.       *)
<1>0. ASSUME NEW t \in Timers, NEW r \in TimerRec, timer' = [timer EXCEPT ![t] = r],
             UNCHANGED <<rosTime, advanceVars>>
      PROVE  TypeInv'
  <2>1. timer' \in [Timers -> {None} \cup TimerRec]
        /\ \A x \in Timers : timer[x] \in TimerRec => timer'[x] \in TimerRec
    BY <1>0 DEF TypeInv
  <2>2. Created \subseteq Created'
    BY <2>1, CreatedGrows
  <2>. QED
    BY <1>0, <2>1, <2>2 DEF TypeInv, advanceVars
<1>1. ASSUME NEW t \in Timers, NEW p \in Periods, NEW wall \in WallFlags, NEW autostart \in BOOLEAN,
             CreateTimer(t, p, wall, autostart)
      PROVE  TypeInv'
  <2>1. NewTimer(p, wall, autostart) \in TimerRec
    BY NewTimerType, FlagsAssumption DEF TypeInv
  <2>. QED
    BY <1>0, <1>1, <2>1 DEF CreateTimer
<1>2. ASSUME NEW t \in Timers, CancelTimer(t) \/ ResetTimer(t) \/ DropTimer(t)
      PROVE  TypeInv'
  <2>1. timer[t] \in TimerRec
    BY <1>2, CreatedIsRecord DEF CancelTimer, ResetTimer, DropTimer, findTimers, Created
  <2>2. Canceled(timer[t]) \in TimerRec /\ Restarted(timer[t]) \in TimerRec
        /\ Dropped(timer[t]) \in TimerRec
    BY <2>1, CanceledType, RestartedType, DroppedType DEF TypeInv
  <2>3. CASE CancelTimer(t)
    <3>1. timer' = [timer EXCEPT ![t] = Canceled(timer[t])]
      BY <2>3 DEF CancelTimer, Canceled
    <3>. QED
      BY <1>0, <2>2, <2>3, <3>1 DEF CancelTimer
  <2>4. CASE ResetTimer(t)
    <3>1. timer' = [timer EXCEPT ![t] = Restarted(timer[t])]
      BY <2>4 DEF ResetTimer
    <3>. QED
      BY <1>0, <2>2, <2>4, <3>1 DEF ResetTimer
  <2>5. CASE DropTimer(t)
    <3>1. timer' = [timer EXCEPT ![t] = Dropped(timer[t])]
      BY <2>5 DEF DropTimer, Dropped
    <3>. QED
      BY <1>0, <2>2, <2>5, <3>1 DEF DropTimer
  <2>. QED
    BY <1>2, <2>3, <2>4, <2>5
<1>3. ASSUME NEW tv \in ResetTimes, resetClock(tv)
      PROVE  TypeInv'
  <2>1. tv \in Int /\ SetRosTime(tv)
    BY <1>3, AmountsAssumption DEF resetClock
  <2>2. timer' \in [Timers -> {None} \cup TimerRec] /\ rosTime' = tv
        /\ \A x \in Timers : timer[x] \in TimerRec => timer'[x] \in TimerRec
    BY <2>1, SetRosTimeType
  <2>3. Created \subseteq Created'
    BY <2>2, CreatedGrows
  <2>. QED
    BY <1>3, <2>1, <2>2, <2>3 DEF TypeInv, resetClock, advanceVars
<1>4. ASSUME NEW d \in Amounts, Advance(d)
      PROVE  TypeInv'
  <2>1. d \in Int /\ now_ + d \in Int
    BY AmountsAssumption DEF TypeInv
  <2>2. CASE findTimers = {}
    <3>1. SetRosTime(now_ + d) /\ now_' = now_ + d /\ pc' = "idle"
      BY <1>4, <2>2 DEF Advance, ClockAdvance
    <3>2. timer' \in [Timers -> {None} \cup TimerRec] /\ rosTime' = now_ + d
      BY <2>1, <3>1, SetRosTimeType
    <3>. QED
      BY <1>4, <2>1, <2>2, <3>1, <3>2 DEF TypeInv, Advance
  <2>3. CASE findTimers # {}
    <3>1. Created' = Created
      BY <1>4, <2>3 DEF Advance, Created
    <3>. QED
      BY <1>4, <2>1, <2>3, <3>1 DEF TypeInv, Advance, findTimers
  <2>. QED
    BY <2>2, <2>3
<1>5. CASE Step
  <2>1. snapshot # {} /\ start < target /\ pc = "head"
    BY <1>5 DEF Step, TypeInv
  <2>2. StepSize \in Int /\ now_ + StepSize \in Int
    BY <2>1, StepSizeBounds DEF TypeInv
  <2>3. SetRosTime(now_ + StepSize) /\ now_' = now_ + StepSize
    BY <1>5 DEF Step, ClockAdvance
  <2>4. timer' \in [Timers -> {None} \cup TimerRec] /\ rosTime' = now_ + StepSize
        /\ \A x \in Timers : timer[x] \in TimerRec => timer'[x] \in TimerRec
    BY <2>2, <2>3, SetRosTimeType
  <2>5. Created \subseteq Created'
    BY <2>4, CreatedGrows
  <2>. QED
    BY <1>5, <2>1, <2>2, <2>3, <2>4, <2>5 DEF TypeInv, Step
<1>6. ASSUME NEW t \in Timers, Fire(t)
      PROVE  TypeInv'
  <2>1. timer' \in [Timers -> {None} \cup TimerRec] /\ Created \subseteq Created'
    BY <1>6, FireType, CreatedGrows
  <2>. QED
    BY <1>6, <2>1 DEF TypeInv, Fire, Visit
<1>7. ASSUME NEW t \in Timers, Skip(t)
      PROVE  TypeInv'
  BY <1>7 DEF TypeInv, Skip, Visit, Created
<1>8. CASE NextIteration
  BY <1>8 DEF TypeInv, NextIteration, Created
<1>9. CASE Return
  BY <1>9 DEF TypeInv, Return, Created
<1>10. CASE UNCHANGED vars
  BY <1>10 DEF TypeInv, vars, Created
<1>. QED
  BY <1>1, <1>2, <1>3, <1>4, <1>5, <1>6, <1>7, <1>8, <1>9, <1>10 DEF Next, AdvanceStep

LEMMA TypeFromInv == TypeInv => TypeOK
BY DEF TypeInv, TypeOK, TimerRec, TimerRecord

(* Every variable has its type, and advance only visits timers that exist,  *)
(* whatever is canceled, dropped or created on the way.                     *)
THEOREM TypeCorrect == Spec => []TypeOK
BY InitTypeInv, NextTypeInv, TypeFromInv, PTL DEF Spec

-----------------------------------------------------------------------------
(***************************************************************************)
(* The clock.                                                              *)
(***************************************************************************)

(* One iteration neither stays behind nor overshoots.                       *)
LEMMA StepEffect ==
  ASSUME TypeInv, Step
  PROVE  /\ start' = start + StepSize /\ now_' = now_ + StepSize /\ rosTime' = now_'
         /\ StepSize \in Nat /\ start' <= target /\ target' = target /\ origin' = origin
         /\ \A t \in snapshot : StepSize <= timer[t].period
<1>1. snapshot # {} /\ start < target
  BY DEF Step, TypeInv
<1>2. /\ StepSize \in Nat /\ StepSize <= target - start
      /\ \A t \in snapshot : StepSize <= timer[t].period
  BY <1>1, StepSizeBounds
<1>3. start' = start + StepSize /\ now_' = now_ + StepSize /\ rosTime' = now_ + StepSize
      /\ target' = target /\ origin' = origin
  BY DEF Step, ClockAdvance, SetRosTime
<1>. HIDE DEF StepSize
<1>. QED
  BY <1>2, <1>3 DEF TypeInv

LEMMA InitLands == Init => LandsOnTarget
BY DEF Init, LandsOnTarget

LEMMA NextLands == TypeInv /\ LandsOnTarget /\ [Next]_vars => LandsOnTarget'
<1>. SUFFICES ASSUME TypeInv, LandsOnTarget, [Next]_vars
              PROVE  LandsOnTarget'
  OBVIOUS
<1>. USE DEF LandsOnTarget
<1>1. ASSUME NEW d \in Amounts, Advance(d)
      PROVE  LandsOnTarget'
  <2>1. d \in Int
    BY AmountsAssumption
  <2>2. CASE findTimers = {}
    BY <1>1, <2>1, <2>2 DEF Advance, ClockAdvance, TypeInv
  <2>3. CASE findTimers # {}
    BY <1>1, <2>1, <2>3 DEF Advance, TypeInv
  <2>. QED
    BY <2>2, <2>3
<1>2. CASE Step
  <2>1. pc = "head" /\ pc' = "fire" /\ start < target
    BY <1>2 DEF Step
  <2>. QED
    BY <1>2, <2>1, StepEffect DEF TypeInv
<1>3. CASE Return
  BY <1>3 DEF Return, TypeInv
<1>4. ASSUME UNCHANGED <<now_, origin, target, start>>, pc # "idle", pc' # "idle"
      PROVE  LandsOnTarget'
  BY <1>4
<1>5. ASSUME NEW t \in Timers, Fire(t) \/ Skip(t)
      PROVE  LandsOnTarget'
  BY <1>4, <1>5 DEF Fire, Skip, Visit
<1>6. CASE NextIteration
  BY <1>4, <1>6 DEF NextIteration
<1>7. ASSUME UNCHANGED advanceVars
      PROVE  LandsOnTarget'
  BY <1>7 DEF advanceVars
<1>8. ASSUME NEW t \in Timers, CancelTimer(t) \/ ResetTimer(t) \/ DropTimer(t)
      PROVE  LandsOnTarget'
  BY <1>7, <1>8 DEF CancelTimer, ResetTimer, DropTimer
<1>9. ASSUME NEW t \in Timers, NEW p \in Periods, NEW wall \in WallFlags, NEW autostart \in BOOLEAN,
             CreateTimer(t, p, wall, autostart)
      PROVE  LandsOnTarget'
  BY <1>7, <1>9 DEF CreateTimer
<1>10. ASSUME NEW tv \in ResetTimes, resetClock(tv)
       PROVE  LandsOnTarget'
  BY <1>7, <1>10 DEF resetClock
<1>11. CASE UNCHANGED vars
  BY <1>7, <1>11 DEF vars, advanceVars
<1>. QED
  BY <1>1, <1>2, <1>3, <1>5, <1>6, <1>8, <1>9, <1>10, <1>11 DEF Next, AdvanceStep

(* advance(d) moves the test clock by exactly d whatever the periods of the *)
(* timers are and whatever their callbacks do; a negative d is ignored when *)
(* there are timers.                                                        *)
THEOREM AdvanceLandsOnTarget == Spec => []LandsOnTarget
BY InitTypeInv, NextTypeInv, InitLands, NextLands, PTL DEF Spec

LEMMA NextAgree == TypeInv /\ AgreeAfterStep /\ [Next]_vars => AgreeAfterStep'
<1>. SUFFICES ASSUME TypeInv, AgreeAfterStep, [Next]_vars
              PROVE  AgreeAfterStep'
  OBVIOUS
<1>. USE DEF AgreeAfterStep
<1>1. ASSUME NEW d \in Amounts, Advance(d)
      PROVE  AgreeAfterStep'
  BY <1>1 DEF Advance
<1>2. CASE Step
  BY <1>2, StepEffect
<1>3. ASSUME UNCHANGED <<rosTime, now_, start>>, pc # "idle"
      PROVE  AgreeAfterStep'
  BY <1>3
<1>4. ASSUME NEW t \in Timers, Fire(t) \/ Skip(t)
      PROVE  AgreeAfterStep'
  BY <1>3, <1>4 DEF Fire, Skip, Visit
<1>5. CASE NextIteration \/ Return
  BY <1>3, <1>5 DEF NextIteration, Return
<1>6. ASSUME UNCHANGED pc, pc = "idle"
      PROVE  AgreeAfterStep'
  BY <1>6
<1>7. ASSUME NEW t \in Timers, CancelTimer(t) \/ ResetTimer(t) \/ DropTimer(t)
      PROVE  AgreeAfterStep'
  BY <1>6, <1>7 DEF CancelTimer, ResetTimer, DropTimer, advanceVars
<1>8. ASSUME NEW t \in Timers, NEW p \in Periods, NEW wall \in WallFlags, NEW autostart \in BOOLEAN,
             CreateTimer(t, p, wall, autostart)
      PROVE  AgreeAfterStep'
  BY <1>6, <1>8 DEF CreateTimer, advanceVars
<1>9. ASSUME NEW tv \in ResetTimes, resetClock(tv)
      PROVE  AgreeAfterStep'
  BY <1>6, <1>9 DEF resetClock, advanceVars
<1>10. CASE UNCHANGED vars
  BY <1>10 DEF vars
<1>. QED
  BY <1>1, <1>2, <1>4, <1>5, <1>7, <1>8, <1>9, <1>10 DEF Next, AdvanceStep

(* From its first step on, an advance has the node's clock and now() agree, *)
(* also when resetClock had set them apart.                                 *)
THEOREM ClocksAgreeAfterStep == Spec => []AgreeAfterStep
<1>1. Init => AgreeAfterStep
  BY DEF Init, AgreeAfterStep
<1>. QED
  BY <1>1, InitTypeInv, NextTypeInv, NextAgree, PTL DEF Spec

-----------------------------------------------------------------------------
(***************************************************************************)
(* Ticks.                                                                  *)
(*                                                                         *)
(* While nobody calls resetClock and no callback creates timers, every     *)
(* timer that can be fired is in the snapshot of a running advance, so the  *)
(* loop never moves the clock by more than its period.  Between iterations *)
(* the next call is due within one period; after the clock moved, a timer  *)
(* still to be visited is overdue by less than every period of the         *)
(* snapshot, so that calling it once brings it past the clock.             *)
(***************************************************************************)
Tracked(t) == t \in Created /\ (timer[t].owned \/ t \in snapshot)

Ticking(t) == Tracked(t) /\ ~timer[t].wall /\ ~timer[t].canceled /\ timer[t].period > 0

Regular(t) ==
  LET r == timer[t]
  IN  /\ r.next = r.anchor + (r.calls + 1) * r.period
      /\ r.next - r.period <= rosTime
      /\ IF t \in unvisited THEN \A x \in snapshot : rosTime - r.next < timer[x].period
         ELSE rosTime < r.next

TickInv ==
  /\ rosTime = now_
  /\ pc = "idle" => snapshot = {}
  /\ pc # "idle" => findTimers \subseteq snapshot
  /\ \A t \in Timers : Tracked(t) => timer[t].last <= rosTime
  /\ \A t \in Timers : Ticking(t) => Regular(t)

LEMMA Multiples ==
  ASSUME NEW c \in Nat, NEW p \in Nat
  PROVE  /\ c * p \in Int /\ (c + 1) * p \in Int
         /\ (c + 1) * p = c * p + p /\ ((c + 1) + 1) * p = (c + 1) * p + p
         /\ (0 + 1) * p = p
OBVIOUS

(* A timer whose next call is due within one period.                        *)
Due(r) ==
  /\ r.next = r.anchor + (r.calls + 1) * r.period
  /\ r.next - r.period <= rosTime
  /\ rosTime < r.next

(* A timer that is due later is not late for anyone.                        *)
LEMMA DueIsRegular ==
  ASSUME TypeInv, NEW t \in Timers, timer[t] \in TimerRec, Due(timer[t])
  PROVE  Regular(t)
<1>1. timer[t].next \in Int /\ rosTime \in Int
  BY RecordFields DEF TypeInv
<1>2. \A x \in snapshot : timer[x].period \in Nat
  BY CreatedIsRecord, RecordFields DEF TypeInv, Created
<1>3. \A x \in snapshot : rosTime - timer[t].next < timer[x].period
  BY <1>1, <1>2 DEF Due
<1>. QED
  BY <1>3 DEF Regular, Due

LEMMA RestartedIsDue ==
  ASSUME NEW r \in TimerRec, r.period > 0, rosTime \in Int
  PROVE  Due(Restarted(r))
<1>1. r.period \in Nat
  BY RecordFields
<1>2. (0 + 1) * r.period = r.period
  BY <1>1, Multiples
<1>3. /\ Restarted(r).next = rosTime + r.period /\ Restarted(r).anchor = rosTime
      /\ Restarted(r).calls = 0 /\ Restarted(r).period = r.period
  BY RestartedType
<1>. QED
  BY <1>1, <1>2, <1>3 DEF Due

LEMMA NewTimerIsDue ==
  ASSUME NEW p \in Periods, NEW wall \in BOOLEAN, NEW autostart \in BOOLEAN, p > 0, rosTime \in Int
  PROVE  Due(NewTimer(p, wall, autostart))
<1>1. p \in Nat
  BY PeriodsAssumption
<1>2. (0 + 1) * p = p
  BY <1>1, Multiples
<1>. QED
  BY <1>1, <1>2 DEF Due, NewTimer

(* A ready timer that is late by less than its period is called for one     *)
(* cycle: rcl skips none.                                                   *)
LEMMA CalledIsDue ==
  ASSUME NEW r \in TimerRec, r.period > 0, rosTime \in Int,
         r.next = r.anchor + (r.calls + 1) * r.period,
         r.next <= rosTime, rosTime - r.next < r.period
  PROVE  Due(Called(r))
<1>1. r.period \in Nat /\ r.next \in Int /\ r.anchor \in Int /\ r.calls \in Nat
  BY RecordFields
<1>2. NextCallTime(r) = r.next + r.period
  BY <1>1 DEF NextCallTime
<1>3. /\ Called(r).next = r.next + r.period /\ Called(r).anchor = r.anchor
      /\ Called(r).calls = r.calls + 1 /\ Called(r).period = r.period
  BY <1>1, <1>2, CalledType
<1>4. (r.calls + 1) * r.period \in Int
      /\ ((r.calls + 1) + 1) * r.period = (r.calls + 1) * r.period + r.period
  BY <1>1, Multiples
<1>5. Called(r).next = Called(r).anchor + (Called(r).calls + 1) * Called(r).period
  BY <1>1, <1>3, <1>4
<1>. QED
  BY <1>1, <1>3, <1>5 DEF Due

LEMMA TrackedIsRecord ==
  ASSUME TypeInv, NEW t \in Timers, Tracked(t)
  PROVE  timer[t] \in TimerRec
BY CreatedIsRecord DEF Tracked, Created

LEMMA TrackedIsRecordNext ==
  ASSUME TypeInv', NEW t \in Timers, Tracked(t)'
  PROVE  timer'[t] \in TimerRec
<1>1. timer'[t].created
  BY DEF Tracked, Created
<1>2. timer'[t] # None
  BY <1>1 DEF None
<1>. QED
  BY <1>2 DEF TypeInv

(* Between iterations, and between calls of advance, every ticking timer is *)
(* due within its period.                                                   *)
LEMMA TickingIsDue ==
  ASSUME TypeInv, TickInv, pc # "fire", NEW t \in Timers, Ticking(t)
  PROVE  Due(timer[t])
<1>1. unvisited = {}
  BY DEF TypeInv
<1>. QED
  BY <1>1 DEF TickInv, Regular, Due

LEMMA InitTickInv == Init => TickInv
BY DEF Init, TickInv, Tracked, Ticking, Created, None

(* The node or the test changes one timer while advance does not run.       *)
LEMMA IdleChangeTicks ==
  ASSUME TypeInv, TypeInv', TickInv, pc = "idle", UNCHANGED <<rosTime, advanceVars>>,
         NEW t \in Timers, NEW r \in TimerRec, timer' = [timer EXCEPT ![t] = r],
         r.owned => r.last <= rosTime,
         r.owned /\ ~r.wall /\ ~r.canceled /\ r.period > 0 => Due(r)
  PROVE  TickInv'
<1>1. /\ snapshot = {} /\ snapshot' = {} /\ pc' = "idle" /\ rosTime' = now_' /\ rosTime' = rosTime
      /\ unvisited = {} /\ unvisited' = {}
  BY DEF TickInv, advanceVars, TypeInv
<1>2. timer'[t] = r /\ \A x \in Timers : x # t => timer'[x] = timer[x]
  BY DEF TypeInv
<1>3. ASSUME NEW x \in Timers, Tracked(x)'
      PROVE  timer'[x].last <= rosTime' /\ (Ticking(x)' => Regular(x)')
  <2>1. x \in Created' /\ timer'[x].owned
    BY <1>1, <1>3 DEF Tracked
  <2>2. CASE x = t
    BY <1>1, <1>2, <2>1, <2>2 DEF Ticking, Regular, Due
  <2>3. CASE x # t
    <3>1. Tracked(x) /\ timer'[x] = timer[x]
      BY <1>2, <2>1, <2>3 DEF Tracked, Created
    <3>2. timer[x].last <= rosTime /\ (Ticking(x) => Regular(x))
      BY <3>1 DEF TickInv
    <3>3. Ticking(x)' => Ticking(x)
      BY <3>1 DEF Ticking
    <3>4. Regular(x) => Regular(x)'
      BY <1>1, <3>1 DEF Regular
    <3>. QED
      BY <1>1, <3>1, <3>2, <3>3, <3>4
  <2>. QED
    BY <2>2, <2>3
<1>. QED
  BY <1>1, <1>3 DEF TickInv, Ticking

(* The clock moves on by one step.                                          *)
LEMMA StepTicks ==
  ASSUME TypeInv, TypeInv', TickInv, Step
  PROVE  TickInv'
<1>1. /\ pc = "head" /\ pc' = "fire" /\ unvisited' = snapshot /\ snapshot' = snapshot
      /\ findTimers \subseteq snapshot /\ rosTime = now_ /\ unvisited = {}
  BY DEF Step, TickInv, TypeInv
<1>2. /\ rosTime' = now_' /\ rosTime' = rosTime + StepSize /\ StepSize \in Nat
      /\ \A y \in snapshot : StepSize <= timer[y].period
  BY <1>1, StepEffect
<1>. HIDE DEF StepSize
<1>3. rosTime \in Int /\ rosTime' \in Int /\ rosTime <= rosTime'
  BY <1>2 DEF TypeInv
<1>4. SetRosTime(rosTime') /\ DOMAIN timer = Timers
  BY <1>2 DEF Step, ClockAdvance, TypeInv, SetRosTime
<1>5. \A x \in Timers : timer'[x] = Jumped(timer[x], rosTime')
  BY <1>4 DEF SetRosTime
<1>6. ASSUME NEW x \in Timers, Tracked(x)'
      PROVE  Tracked(x)
  <2>1. timer'[x] \in TimerRec
    BY <1>6, TrackedIsRecordNext
  <2>2. timer[x] \in TimerRec
    <3>1. timer[x] # None
      BY <1>5, <2>1, JumpedNone, NoneIsNoTimer
    <3>. QED
      BY <3>1 DEF TypeInv
  <2>3. timer'[x].owned = timer[x].owned
    BY <1>3, <1>5, <2>2, JumpedType
  <2>4. x \in Created
    BY <2>2, RecordFields DEF Created
  <2>. QED
    BY <1>1, <1>6, <2>3, <2>4 DEF Tracked
<1>7. ASSUME NEW x \in Timers, Tracked(x)
      PROVE  timer'[x] = timer[x] /\ timer[x] \in TimerRec /\ timer[x].last <= rosTime'
  <2>1. timer[x] \in TimerRec /\ timer[x].last <= rosTime
    BY <1>7, TrackedIsRecord DEF TickInv
  <2>2. timer[x].last \in Int
    BY <2>1, RecordFields
  <2>3. timer[x].last <= rosTime'
    BY <1>3, <2>1, <2>2
  <2>. QED
    BY <1>3, <1>5, <2>1, <2>3, JumpedType
<1>8. \A y \in snapshot : y \in Timers /\ timer'[y] = timer[y] /\ timer[y].period \in Nat
  <2>1. \A y \in snapshot : y \in Timers /\ Tracked(y)
    BY DEF TypeInv, Tracked, Created
  <2>. QED
    BY <1>7, <2>1, RecordFields
<1>9. findTimers' \subseteq snapshot'
  <2>1. ASSUME NEW x \in findTimers'
        PROVE  x \in snapshot
    <3>1. x \in Timers /\ Tracked(x)'
      BY DEF findTimers, Created, Tracked
    <3>2. Tracked(x) /\ timer'[x] = timer[x]
      BY <1>6, <1>7, <3>1
    <3>3. x \in findTimers
      BY <3>2 DEF findTimers, Tracked
    <3>. QED
      BY <1>1, <3>3
  <2>. QED
    BY <1>1, <2>1
<1>10. ASSUME NEW x \in Timers, Ticking(x)'
       PROVE  Regular(x)'
  <2>1. Tracked(x) /\ timer'[x] = timer[x] /\ timer[x] \in TimerRec
    BY <1>6, <1>7, <1>10 DEF Ticking
  <2>2. Ticking(x)
    BY <1>10, <2>1 DEF Ticking
  <2>3. Due(timer[x])
    BY <1>1, <2>2, TickingIsDue
  <2>4. timer[x].next \in Int /\ timer[x].period \in Nat
    BY <2>1, RecordFields
  <2>5. timer[x].next - timer[x].period <= rosTime'
    BY <1>3, <2>3, <2>4 DEF Due
  <2>6. x \in unvisited'
    BY <1>1, <2>1 DEF Tracked, findTimers
  <2>7. \A y \in snapshot : rosTime' - timer[x].next < timer[y].period
    BY <1>2, <1>3, <1>8, <2>3, <2>4 DEF Due
  <2>. QED
    BY <1>1, <1>8, <2>1, <2>3, <2>5, <2>6, <2>7 DEF Regular, Due
<1>. QED
  BY <1>1, <1>2, <1>6, <1>7, <1>9, <1>10 DEF TickInv

(* A timer is fired, and its callback does something to the timers.         *)
LEMMA FireTicks ==
  ASSUME "create" \notin CallbackEffects, TypeInv, TypeInv', TickInv, NEW t \in Timers, Fire(t)
  PROVE  TickInv'
<1>1. /\ pc = "fire" /\ unvisited' = unvisited \ {t} /\ t \in unvisited
      /\ UNCHANGED <<rosTime, now_, pc, snapshot>>
      /\ ~timer[t].canceled /\ (timer[t].wall \/ timer[t].next <= rosTime)
  BY FireEffects DEF Fire, Visit, IsReady
<1>2. t \in snapshot /\ timer[t] \in TimerRec /\ rosTime \in Int
  BY <1>1, AfterCallType DEF TypeInv
<1>. DEFINE a(x) == AfterCall(t)[x]
<1>3. \A x \in Timers : a(x) \in {None} \cup TimerRec /\ NodeMayDo(a(x), timer'[x])
  BY <1>1, FireEffects, AfterCallType
<1>4. (\A x \in Timers : x # t => a(x) = timer[x])
      /\ a(t) = IF timer[t].wall THEN timer[t] ELSE Called(timer[t])
  BY <1>1, AfterCallType
<1>. HIDE DEF a
(* The call alone.                                                          *)
<1>5. ASSUME NEW x \in Timers, a(x) \in TimerRec
      PROVE  /\ timer[x] \in TimerRec /\ a(x).owned = timer[x].owned
             /\ a(x).period = timer[x].period /\ a(x).wall = timer[x].wall
             /\ Tracked(x) => a(x).last <= rosTime
  <2>1. CASE x # t
    BY <1>4, <1>5, <2>1 DEF TickInv
  <2>2. CASE x = t /\ timer[t].wall
    BY <1>2, <1>4, <2>2 DEF TickInv
  <2>3. CASE x = t /\ ~timer[t].wall
    BY <1>2, <1>4, <2>3, CalledType
  <2>. QED
    BY <2>1, <2>2, <2>3
<1>6. ASSUME NEW x \in Timers, a(x) \in TimerRec, Tracked(x), ~a(x).wall, ~a(x).canceled,
             a(x).period > 0
      PROVE  \/ Due(a(x))
             \/ a(x) = timer[x] /\ Regular(x) /\ x # t
  <2>1. CASE x # t
    BY <1>4, <1>6, <2>1 DEF TickInv, Ticking
  <2>2. CASE x = t
    <3>1. ~timer[t].wall /\ timer[t].period > 0 /\ a(t) = Called(timer[t])
      BY <1>4, <1>5, <1>6, <2>2
    <3>2. Regular(t)
      BY <1>1, <1>6, <2>2, <3>1 DEF TickInv, Ticking
    <3>3. /\ timer[t].next = timer[t].anchor + (timer[t].calls + 1) * timer[t].period
          /\ rosTime - timer[t].next < timer[t].period /\ timer[t].next <= rosTime
      BY <1>1, <1>2, <3>1, <3>2 DEF Regular
    <3>. QED
      BY <1>2, <2>2, <3>1, <3>3, CalledIsDue
  <2>. QED
    BY <2>1, <2>2
(* Then what the callback does.                                             *)
<1>7. ASSUME NEW x \in Timers, timer'[x] \in TimerRec
      PROVE  /\ a(x) \in TimerRec /\ timer[x] \in TimerRec
             /\ timer'[x].period = timer[x].period
             /\ timer'[x].owned => timer[x].owned
             /\ timer'[x].last = a(x).last
  <2>1. a(x) \in TimerRec
    BY <1>3, <1>7, NoneIsNoTimer DEF NodeMayDo
  <2>2. /\ timer'[x].period = a(x).period /\ timer'[x].last = a(x).last
        /\ timer'[x].owned => a(x).owned
    <3>1. CASE timer'[x] = a(x)
      BY <3>1
    <3>2. CASE timer'[x] = Canceled(a(x))
      BY <2>1, <3>2, CanceledType
    <3>3. CASE timer'[x] = Restarted(a(x))
      BY <1>2, <2>1, <3>3, RestartedType
    <3>4. CASE timer'[x] = Dropped(a(x))
      BY <2>1, <3>4, DroppedType
    <3>. QED
      BY <1>3, <2>1, <3>1, <3>2, <3>3, <3>4, NoneIsNoTimer DEF NodeMayDo
  <2>. QED
    BY <1>5, <2>1, <2>2
<1>8. ASSUME NEW x \in Timers, Tracked(x)'
      PROVE  timer'[x] \in TimerRec /\ Tracked(x)
  <2>1. timer'[x] \in TimerRec
    BY <1>8, TrackedIsRecordNext
  <2>2. x \in Created /\ (timer'[x].owned => timer[x].owned)
    BY <1>7, <2>1, RecordFields DEF Created
  <2>. QED
    BY <1>1, <1>8, <2>1, <2>2 DEF Tracked
<1>9. \A y \in snapshot : y \in Timers /\ timer'[y].period = timer[y].period
  <2>1. \A y \in snapshot : y \in Timers /\ timer[y] \in TimerRec
    BY CreatedIsRecord DEF TypeInv, Created
  <2>2. \A y \in snapshot : timer'[y] \in TimerRec
    BY <2>1, FireType
  <2>. QED
    BY <1>7, <2>1, <2>2
<1>10. ASSUME NEW x \in Timers, Tracked(x)'
       PROVE  timer'[x].last <= rosTime'
  BY <1>1, <1>5, <1>7, <1>8, <1>10
<1>11. ASSUME NEW x \in Timers, Ticking(x)'
       PROVE  Regular(x)'
  <2>1. timer'[x] \in TimerRec /\ Tracked(x) /\ a(x) \in TimerRec
    BY <1>7, <1>8, <1>11 DEF Ticking
  <2>2. a(x).period > 0 /\ timer'[x].period > 0 /\ ~timer'[x].canceled /\ ~timer'[x].wall
    BY <1>5, <1>7, <1>11, <2>1 DEF Ticking
  <2>3. ASSUME Due(timer'[x])
        PROVE  Regular(x)'
    <3>1. \A y \in snapshot : timer'[y].period \in Nat
      BY <1>9, CreatedIsRecord, RecordFields DEF TypeInv, Created
    <3>2. timer'[x].next \in Int
      BY <2>1, RecordFields
    <3>3. \A y \in snapshot : rosTime - timer'[x].next < timer'[y].period
      BY <1>2, <2>3, <3>1, <3>2 DEF Due
    <3>. QED
      BY <1>1, <2>3, <3>3 DEF Due, Regular
  <2>4. CASE timer'[x] = Canceled(a(x))
    BY <2>1, <2>2, <2>4, CanceledType
  <2>5. CASE timer'[x] = Restarted(a(x))
    BY <1>2, <2>1, <2>2, <2>3, <2>5, RestartedIsDue
  <2>6. ASSUME timer'[x] = a(x) \/ timer'[x] = Dropped(a(x))
        PROVE  Regular(x)'
    <3>1. /\ timer'[x].next = a(x).next /\ timer'[x].anchor = a(x).anchor
          /\ timer'[x].calls = a(x).calls /\ timer'[x].period = a(x).period
          /\ timer'[x].canceled = a(x).canceled /\ timer'[x].wall = a(x).wall
      BY <2>1, <2>6, DroppedType
    <3>2. ~a(x).wall /\ ~a(x).canceled
      BY <2>2, <3>1
    <3>3. CASE Due(a(x))
      BY <2>3, <3>1, <3>3 DEF Due
    <3>4. CASE a(x) = timer[x] /\ Regular(x) /\ x # t
      BY <1>1, <1>9, <3>1, <3>4 DEF Regular
    <3>. QED
      BY <1>6, <2>1, <2>2, <3>2, <3>3, <3>4
  <2>. QED
    BY <1>3, <2>1, <2>4, <2>5, <2>6, NoneIsNoTimer DEF NodeMayDo
<1>12. findTimers' \subseteq snapshot'
  <2>1. ASSUME NEW x \in findTimers'
        PROVE  x \in snapshot
    <3>1. x \in Timers /\ Tracked(x)' /\ timer'[x].owned
      BY DEF findTimers, Created, Tracked
    <3>2. Tracked(x) /\ timer[x].owned
      BY <1>7, <1>8, <3>1
    <3>. QED
      BY <1>1, <3>2 DEF TickInv, findTimers, Tracked
  <2>. QED
    BY <1>1, <2>1
<1>. QED
  BY <1>1, <1>10, <1>11, <1>12 DEF TickInv

(* The timers and the clock stay, and the snapshot does not grow beyond     *)
(* what is tracked.                                                         *)
LEMMA QuietTicks ==
  ASSUME TypeInv, TickInv, UNCHANGED <<timer, rosTime, now_>>, unvisited' = {}, pc # "fire",
         pc' = "idle" => snapshot' = {},
         pc' # "idle" => findTimers \subseteq snapshot',
         \A x \in snapshot' : Tracked(x)
  PROVE  TickInv'
<1>1. findTimers' = findTimers /\ Created' = Created
  BY DEF findTimers, Created
<1>2. \A x \in Timers : Tracked(x)' => Tracked(x)
  BY <1>1 DEF Tracked
<1>3. \A x \in Timers : Ticking(x)' => Ticking(x)
  BY <1>2 DEF Ticking
<1>4. \A x \in Timers : Ticking(x)' => Regular(x)'
  BY <1>3, TickingIsDue DEF Regular, Due
<1>. QED
  BY <1>1, <1>2, <1>4 DEF TickInv

LEMMA NextTickInv ==
  ASSUME ResetTimes = {}, "create" \notin CallbackEffects
  PROVE  TypeInv /\ TypeInv' /\ TickInv /\ [Next]_vars => TickInv'
<1>. SUFFICES ASSUME TypeInv, TypeInv', TickInv, [Next]_vars
              PROVE  TickInv'
  OBVIOUS
<1>1. ASSUME NEW t \in Timers, NEW p \in Periods, NEW wall \in WallFlags, NEW autostart \in BOOLEAN,
             CreateTimer(t, p, wall, autostart)
      PROVE  TickInv'
  <2>. DEFINE r == NewTimer(p, wall, autostart)
  <2>1. wall \in BOOLEAN /\ rosTime \in Int
    BY FlagsAssumption DEF TypeInv
  <2>2. r \in TimerRec /\ (r.period > 0 => Due(r)) /\ r.last <= rosTime
    <3>1. r \in TimerRec /\ r.period = p /\ r.last = rosTime
      BY <2>1, NewTimerType DEF NewTimer
    <3>2. r.period > 0 => Due(r)
      BY <2>1, <3>1, NewTimerIsDue
    <3>. HIDE DEF r
    <3>. QED
      BY <2>1, <3>1, <3>2
  <2>3. pc = "idle" /\ timer' = [timer EXCEPT ![t] = r] /\ UNCHANGED <<rosTime, advanceVars>>
    BY <1>1 DEF CreateTimer
  <2>. HIDE DEF r
  <2>. QED
    BY <2>2, <2>3, IdleChangeTicks
<1>2. ASSUME NEW t \in Timers, CancelTimer(t) \/ ResetTimer(t) \/ DropTimer(t)
      PROVE  TickInv'
  <2>1. /\ timer[t] \in TimerRec /\ Tracked(t) /\ pc = "idle" /\ rosTime \in Int
        /\ UNCHANGED <<rosTime, advanceVars>>
    BY <1>2, CreatedIsRecord DEF CancelTimer, ResetTimer, DropTimer, findTimers, Created,
                                 Tracked, TypeInv
  <2>2. timer[t].last <= rosTime
    BY <2>1 DEF TickInv
  <2>3. CASE CancelTimer(t)
    <3>1. timer' = [timer EXCEPT ![t] = Canceled(timer[t])]
      BY <2>3 DEF CancelTimer, Canceled
    <3>. QED
      BY <2>1, <2>2, <3>1, CanceledType, IdleChangeTicks
  <2>4. CASE ResetTimer(t)
    <3>1. timer' = [timer EXCEPT ![t] = Restarted(timer[t])]
      BY <2>4 DEF ResetTimer
    <3>2. Restarted(timer[t]).period > 0 => Due(Restarted(timer[t]))
      BY <2>1, RestartedType, RestartedIsDue
    <3>. QED
      BY <2>1, <2>2, <3>1, <3>2, RestartedType, IdleChangeTicks
  <2>5. CASE DropTimer(t)
    <3>1. timer' = [timer EXCEPT ![t] = Dropped(timer[t])]
      BY <2>5 DEF DropTimer, Dropped
    <3>. QED
      BY <2>1, <3>1, DroppedType, IdleChangeTicks
  <2>. QED
    BY <1>2, <2>3, <2>4, <2>5
<1>3. ASSUME NEW d \in Amounts, Advance(d), findTimers = {}
      PROVE  TickInv'
  <2>1. d \in Int /\ now_ + d \in Int
    BY AmountsAssumption DEF TypeInv
  <2>2. /\ SetRosTime(now_ + d) /\ rosTime' = now_' /\ pc' = "idle" /\ snapshot' = {}
    BY <1>3 DEF Advance, ClockAdvance, SetRosTime
  <2>3. ASSUME NEW x \in Timers
        PROVE  ~Tracked(x)'
    <3>. SUFFICES ASSUME Tracked(x)'
                  PROVE  FALSE
      OBVIOUS
    <3>1. timer'[x] \in TimerRec /\ timer'[x].owned
      BY <2>2, TrackedIsRecordNext DEF Tracked
    <3>2. timer'[x] = Jumped(timer[x], now_ + d)
      BY <2>2 DEF SetRosTime
    <3>3. timer[x] \in TimerRec
      <4>1. timer[x] # None
        BY <3>1, <3>2, JumpedNone, NoneIsNoTimer
      <4>. QED
        BY <4>1 DEF TypeInv
    <3>4. timer[x].owned
      BY <2>1, <3>1, <3>2, <3>3, JumpedType
    <3>5. x \in findTimers
      BY <3>3, <3>4, RecordFields DEF findTimers, Created
    <3>. QED
      BY <1>3, <3>5
  <2>. QED
    BY <2>2, <2>3 DEF TickInv, Ticking
<1>4. ASSUME NEW d \in Amounts, Advance(d), findTimers # {}
      PROVE  TickInv'
  <2>1. /\ pc = "idle" /\ pc' = "head" /\ snapshot' = findTimers /\ unvisited' = {}
        /\ UNCHANGED <<timer, rosTime, now_>>
    BY <1>4 DEF Advance
  <2>2. \A x \in snapshot' : Tracked(x)
    BY <2>1 DEF findTimers, Tracked
  <2>. QED
    BY <2>1, <2>2, QuietTicks
<1>5. CASE Step
  BY <1>5, StepTicks
<1>6. ASSUME NEW t \in Timers, Fire(t)
      PROVE  TickInv'
  BY <1>6, FireTicks
<1>7. ASSUME NEW t \in Timers, Skip(t)
      PROVE  TickInv'
  <2>1. /\ pc = "fire" /\ unvisited' = unvisited \ {t}
        /\ UNCHANGED <<rosTime, now_, timer, pc, snapshot>>
        /\ timer[t].wall \/ timer[t].canceled \/ ~(timer[t].next <= rosTime)
    BY <1>7 DEF Skip, Visit, IsReady
  <2>2. /\ findTimers' = findTimers
        /\ \A x \in Timers : (Tracked(x)' <=> Tracked(x)) /\ (Ticking(x)' <=> Ticking(x))
    BY <2>1 DEF findTimers, Tracked, Ticking, Created
  <2>3. ASSUME NEW x \in Timers, Ticking(x)
        PROVE  Regular(x)'
    <3>1. Regular(x)
      BY <2>3 DEF TickInv
    <3>2. CASE x # t
      BY <2>1, <3>1, <3>2 DEF Regular
    <3>3. CASE x = t
      <4>1. timer[t].next \in Int /\ rosTime \in Int
        BY <2>3, <3>3, TrackedIsRecord, RecordFields DEF Ticking, TypeInv
      <4>2. rosTime < timer[t].next
        BY <2>1, <2>3, <3>3, <4>1 DEF Ticking
      <4>. QED
        BY <2>1, <3>1, <3>3, <4>2 DEF Regular
    <3>. QED
      BY <3>2, <3>3
  <2>. QED
    BY <2>1, <2>2, <2>3 DEF TickInv
<1>8. CASE NextIteration
  <2>1. /\ pc = "fire" /\ pc' = "head" /\ unvisited = {} /\ unvisited' = {}
        /\ UNCHANGED <<rosTime, now_, timer, snapshot>>
    BY <1>8 DEF NextIteration
  <2>2. /\ findTimers' = findTimers
        /\ \A x \in Timers : /\ (Tracked(x)' <=> Tracked(x)) /\ (Ticking(x)' <=> Ticking(x))
                             /\ (Regular(x)' <=> Regular(x))
    BY <2>1 DEF findTimers, Tracked, Ticking, Created, Regular
  <2>. QED
    BY <2>1, <2>2 DEF TickInv
<1>9. CASE Return
  <2>1. /\ pc = "head" /\ pc' = "idle" /\ snapshot' = {} /\ UNCHANGED <<timer, rosTime, now_>>
        /\ unvisited' = {}
    BY <1>9 DEF Return, TypeInv
  <2>. QED
    BY <2>1, QuietTicks
<1>10. CASE UNCHANGED vars
  <2>1. /\ findTimers' = findTimers
        /\ \A x \in Timers : /\ (Tracked(x)' <=> Tracked(x)) /\ (Ticking(x)' <=> Ticking(x))
                             /\ (Regular(x)' <=> Regular(x))
    BY <1>10 DEF vars, findTimers, Tracked, Ticking, Created, Regular
  <2>. QED
    BY <1>10, <2>1 DEF TickInv, vars
<1>. QED
  BY <1>1, <1>2, <1>3, <1>4, <1>5, <1>6, <1>7, <1>8, <1>9, <1>10 DEF Next, AdvanceStep

LEMMA TickCountFromInv == TypeInv /\ TickInv => TickCount
<1>. SUFFICES ASSUME TypeInv, TickInv, pc # "fire", NEW t \in Timers, Driven(t)
              PROVE  /\ timer[t].calls * timer[t].period <= rosTime - timer[t].anchor
                     /\ rosTime - timer[t].anchor < (timer[t].calls + 1) * timer[t].period
  BY DEF TickCount
<1>1. Ticking(t) /\ Tracked(t)
  BY DEF Driven, Ticking, Tracked, findTimers
<1>2. Due(timer[t])
  BY <1>1, TickingIsDue
<1>3. timer[t].calls \in Nat /\ timer[t].period \in Nat /\ timer[t].anchor \in Int /\ rosTime \in Int
  BY <1>1, TrackedIsRecord, RecordFields DEF TypeInv
<1>4. /\ timer[t].calls * timer[t].period \in Int
      /\ (timer[t].calls + 1) * timer[t].period = timer[t].calls * timer[t].period + timer[t].period
  BY <1>3, Multiples
<1>. QED
  BY <1>2, <1>3, <1>4 DEF Due

(* No tick is lost and none is delivered twice, for any number of timers    *)
(* and any periods (also when a timer of period 0 keeps advance from        *)
(* returning), as long as nobody calls resetClock and no callback creates   *)
(* timers.                                                                  *)
THEOREM TicksCounted ==
  ASSUME ResetTimes = {}, "create" \notin CallbackEffects
  PROVE  Spec => []TickCount
<1>1. TypeInv /\ TypeInv' /\ TickInv /\ [Next]_vars => TickInv'
  BY NextTickInv
<1>. QED
  BY <1>1, TickCountFromInv, InitTypeInv, NextTypeInv, InitTickInv, PTL DEF Spec

LEMMA LateFromInv ==
  ASSUME 0 \notin Periods, TypeInv, TickInv, NEW t \in Timers, Fire(t), ~timer[t].wall
  PROVE  rosTime - timer[t].next < get_timers_min_period
<1>1. t \in unvisited /\ t \in snapshot /\ ~timer[t].canceled /\ timer[t] \in TimerRec
  BY FireEffects, AfterCallType DEF Fire, TypeInv
<1>2. timer[t].period > 0
  <2>1. timer[t].period \in Periods /\ timer[t].period \in Nat
    BY <1>1, RecordFields DEF TimerRec
  <2>. QED
    BY <2>1
<1>3. Ticking(t)
  BY <1>1, <1>2 DEF Ticking, Tracked, TypeInv
<1>4. \A x \in snapshot : rosTime - timer[t].next < timer[x].period
  BY <1>1, <1>3 DEF TickInv, Regular
<1>. QED
  BY <1>1, <1>4, MinPeriod

(* A callback runs late by less than the shortest period of the snapshot,   *)
(* for any number of timers of positive period, under the same conditions.  *)
THEOREM LateByLess ==
  ASSUME ResetTimes = {}, "create" \notin CallbackEffects, 0 \notin Periods
  PROVE  Spec => LateByLessThanAStep
<1>. DEFINE A == \A t \in Timers : (Fire(t) /\ ~timer[t].wall)
                    => rosTime - timer[t].next < get_timers_min_period
<1>1. TypeInv /\ TypeInv' /\ TickInv /\ [Next]_vars => TickInv'
  BY NextTickInv
<1>2. TypeInv /\ TickInv /\ [Next]_vars => [A]_vars
  BY LateFromInv
<1>. HIDE DEF A
<1>3. Spec => [][A]_vars
  BY <1>1, <1>2, InitTypeInv, NextTypeInv, InitTickInv, PTL DEF Spec
<1>. QED
  BY <1>3 DEF A, LateByLessThanAStep

=============================================================================
