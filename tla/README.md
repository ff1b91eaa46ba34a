# TLA+ model of rtest

rtest lets a unit test observe and drive one ROS 2 node in one process. The
headers of `rtest/include/rtest` replace those of rclcpp and rclcpp_action: the
publishers, subscriptions, services, clients, timers and action entities that
the node creates register themselves in a static registry, the test finds them
there and attaches gmock objects, moves the node's clock and runs its timers,
and intercepts its logs. This directory models the parts of rtest that keep
state.

## Inventory

| Component | State | Operations | Interacts with | What makes it correct |
|---|---|---|---|---|
| `StaticMocksRegistry` (`static_registry.hpp`, `registry_cleaner.cpp`) | six maps node -> name -> weak_ptr, timers per node, mocks by raw address, two queues of deferred registrations | register..., get..., tryLazyInit, attachMock, detachMock, reset | every entity (registers), every find...() (looks up), gtest (reset at the end of a suite) | a test finds exactly the live entities of its node; nothing crosses suites or nodes; nothing dangling is called |
| Publisher, Subscription, Service, Client (`*_mock.hpp`) | none of their own but their address | constructor, post_init_setup, destructor, calls that go to `getMock(this)` | registry, their mock | a call reaches the mock made for this entity, cast to its type |
| Action client and server (`action_*_mock.hpp`) | as above; goal handles with a promise and callbacks | constructor queues a registration, destructor removes it; send_goal, get_result, cancel, stop_callbacks | registry (two-phase registration, because `shared_from_this` does not work in a constructor) | registered at the first lookup after construction, never after destruction |
| Mocks (`PublisherMock`, `ServiceMock`, `ServiceClientMock`, `ActionClientMock`, `ActionServerMock`) | raw pointer to the entity | constructor (with a type check in some), destructor detaches by address | registry | at most one attached per entity; stays attached while held |
| Timers (`create_timer_mock.hpp`) | rcl timer | create_timer, create_wall_timer, findTimers | registry, rcl | period within range |
| `TestClock`, `TriggeringTestClock` (`test_clock.hpp`) | `now_`, the node's rcl clock | advance, resetClock, now | registry's timers, rcl clock, the node's timer callbacks | time arrives where asked; every tick once; advance ends |
| `LoggerMock`, `DisableLogs`, `SingleInstance` | rcutils' output handler, `instance_`, an atomic flag per class, saved handler per object | constructors, destructors, logHandler | rcutils, the node's threads | handlers are restored; no call on a destroyed mock |
| Client and service bases (`jazzy`, `kilted`, `lyrical`) | new-response / new-request callback under a recursive mutex, the rcl handle, the logger | set/clear callback, get handle, destructor | middleware threads, other threads of the node | the middleware never runs a callback that is replaced or destroyed, and never has none while one is set |
| Example nodes (`examples/`) | goal handle, `is_moving_`, position, futures | callbacks, detached threads, timers | the mocked entities | timeouts and late answers are handled; one goal moves the robot at a time; every goal is answered |

What is hard here: lifetimes (the registry owns nothing and identifies mocks by
address, memory is reused, objects survive the suite that made them); two-phase
registration; an advance that runs arbitrary node code in the middle of its own
loop; destruction orders of objects that save and restore a global; threads of
the node that log while the test tears down; callbacks handed to a middleware by
pointer; answers, results and timeouts of goals that cross each other. `PROJECT.json` lists each hazard
at its line.

## Modules

| Module | Models |
|---|---|
| `MockRegistry` | the registry, and creation, destruction, lookup and mocking of the seven kinds of entity |
| `MockRouting` | the abstract promise about mocks that `MockRegistry` implements |
| `MockRegistryProofs` | TLAPS proofs about `MockRegistry` |
| `MockRoutingProofs` | TLAPS proofs that mocks are cast safely and that `MockRegistry` implements `MockRouting` |
| `TestClock` | `TestClock` and `TriggeringTestClock` with rcl timers and the node's callbacks |
| `LoggerMock` | `LoggerMock`, `DisableLogs`, `SingleInstance`, `logHandler` |
| `ServiceRequests` | requests of a service client and the example node `ServiceClient` that sends them |
| `ServiceRequestsProofs` | TLAPS proofs about `ServiceRequests` |
| `EventCallback` | the event callback of `ClientBase` and `ServiceBase`, and their destruction |
| `ActionGoals` | goals of a mocked action client and the example node `ActionClient` |
| `MoveServer` | the example node `ActionServer` and its execution threads |
| `EventCallbackProofs`, `ActionGoalsProofs`, `MoveServerProofs`, `TestClockProofs`, `LoggerMockProofs` | TLAPS proofs about these components |
| `MC...` | values and symmetry for TLC |

### MockRegistry

`state` and `obj` are the life and the fixed attributes of each entity, `reg`
the six maps (one function, keyed by kind, node and name), `timersReg`,
`pending` (both lazy-init vectors: construction order is the order of entity
numbers) and `mockReg` the remaining maps. Actions: `Create` (make_shared and
post_init_setup), `CreateTimer`, `Construct` and `Adopt` (an action entity's
constructor, then the shared_ptr that owns it: lookups may come in between),
`Destroy`, `FindAttach` and `FindNothing` (the two outcomes of every find...(),
lazy initialisation included), `DestroyMock`, `Reset`.

Addresses are modelled because mocks are found by them. `FreeAddr` says when
memory can be reused: an entity made by make_shared shares its allocation with
the control block, so a weak_ptr left in the registry keeps its address taken;
an action entity (`new` and a separate control block) does not.

Three constants state what test code usually does: `ScopedMocks` (a mock is
dropped no later than its entity), `QuietReset` (no mock is held over the end
of a suite), `UniqueKeys` (no two live entities of a kind and name on a node).
Properties say which they need; the rest holds without them.

Abstractions: a name is a base with or without leading slash, so namespaces and
remapping are left out; node handles are never reused as map keys (that is what
`owner_less` buys, see `NodeId`); messages and mock expectations are left out;
only one thread uses the registry. `Subscription` can throw in its constructor
(intra-process QoS): nothing is registered then.

### TestClock

`advance` is split where node code can run or state is observed: `Advance` (the
call, which takes the snapshot of timers), `Step` (one iteration up to
fire_all_timer_callbacks), `Fire` / `Skip` for each timer of the snapshot in
order, `NextIteration`, `Return`. `AfterCallback` is what the node's callback
may do to the node's timers. rcl is external: `NextCallTime`, `Jumped` and
`Restarted` follow the documented behaviour of `rcl_timer_call`, the jump
callback and `rcl_timer_reset`. A wall timer runs on the steady clock, which a
test does not move, and may be ready or not at any visit.
Times are small integers; overflow of the 64-bit `now_` is out of scope.
Callbacks that call `advance` themselves are not modelled.

### LoggerMock

The test thread's constructor and destructor of `LoggerMock` are two steps each
(`instance_`, then the handler), because a logging thread can see the state in
between. `logHandler` is `TestInstance`, `Format`, `ReadInstance`, `CallMock`:
it reads `instance_` twice. `JoinedThreads` says that no thread is in a log call
during a destructor; `lifo` records whether objects were destroyed newest first,
`scopes` which ones exist in which order (`Without` takes one out, wherever it is).

### ServiceRequests

The example node's four `setState...` methods share one course: ask whether the
service is ready (`service_is_ready`; `setStateWithTimeout` does not), send
(`async_send_request`, which throws without a mock), wait (`FutureReady` or
`WaitTimeout`), then `TakeResponse` or `GiveUp`. Between any two of these steps
an answer may arrive (`handle_response`), the node's housekeeping on another
thread may prune (`cancelPendingRequests`, `dropRequestsOlderThan`), and the
test may let go of the mock (`DropMock`). What the mock does with requests is
rclcpp's behaviour (external): a request is kept until answered or removed, and
removing it breaks its promise. `MockRegistry` says when a mock is attached;
here that is the Boolean `attached`. One caller at a time: the node's
`last_call_success_` is not meant for several.

### EventCallback

`set_on_new_response_callback` hands the middleware a pointer, first to a
temporary on its own stack and then to the member, and the model keeps the
steps apart: `Set` (the wrapper lambda), `Lock`, `InstallTemporary`, `Store`,
`InstallMember`, `Unlock`; clearing is `Clear`, `Uninstall`, `ResetMember`,
`Unlock`. `installed` is the pointer, and `Deref` what it points at. Both
classes run this code. They differ in the order of their members
(`ClientMembers`, `ServiceMembers`), and `DestroyMember` takes one member at a
time in the reverse of it, so the middleware may call in between. The headers
of the three distributions are copies of one another at the same lines, apart
from dates and `const &` in signatures; the map cites the jazzy copy for single
steps and the others for the operations as a whole.

The middleware is external, and what the code needs of it is an assumption: it
calls under a lock of its own, and installing a pointer or finalising the
handle waits for a call that is running (`Install` and `Finalise` have the
guard `call = Idle`). Events that arrived without a callback are reported when
one is installed. User callbacks do not call set or clear themselves. Nobody
destroys the object during set or clear. The middleware may refuse the temporary
or the removal, and the exception then leaves set or clear (`InstallFails`). It is
assumed not to refuse the member right after it took the temporary on the same
handle: that exception would leave it with a pointer to the temporary on a stack
that is gone, and the code has no provision for it.

Where the code does not keep its promise the properties name the exact case:
`Outlived` (a handle from `get_client_handle` kept longer than its client, whose
function the middleware still points at), and for `LoggerAlive` the moment in
which a service's logger is gone and its handle is not yet (the member order of
`service_base.hpp`; the client's order is right).

### ActionGoals

`send_goal` of the node is `send_goal` (the readiness test), `async_send_goal`
(`Client::async_send_goal` with what the mock returns, an invalid future
included), then `FutureReady`, `FutureThrows` (the promise was broken, and `get`
throws out of `send_goal`) or `WaitTimeout`. Everything else is the test's
and may happen between any two of these: the answer (`Answer`), the callbacks
of `SendGoalOptions` (`goal_response_callback`, `CallResultCallback`), the
handle's own result (`BeginResolve`, `EndResolve`: callback, then promise),
`async_get_result`, `stop_callbacks`, and the mock itself (`FindMock`).
`told` records the results the node was given, `stored` the goals whose handle
it took, `overtaken` the goals whose result came before `send_goal` stored their
handle; `armed` is history too. A server answers a goal once, and before its
result.

With a mock `async_get_result` returns the mock's future: the handle's own, or an
empty one when the call was not expected. Without a mock the client makes one
that holds SUCCEEDED already, and calls nobody; `got` is the goal of that future,
and `CallbackBeforeFuture` names it as its exception. `stop_callbacks` is both
overloads: with a mock neither touches the handle, and without one the goal id
is looked up in `goal_handles_`, which nothing ever fills, so only the overload
with a handle stops anything.

Left out: feedback (stored under its own mutex and not connected to anything
else), the cancel family and `wait_for_action_server` (they forward to the
mock), a null handle given to `stop_callbacks` or `async_get_result` (undefined
behaviour), and futures of a test's own making returned for a result. The node's
fields are not synchronised; the model interleaves whole statements, and the
test of `result_callback` in `resolve_result` and the call are one step.

### MoveServer

`handle_goal`, `handle_cancel`, `handle_accepted` are the callbacks that
`ActionServerMock` exposes, called in any order the state of a goal allows;
between `handle_goal` and `handle_accepted` anything may happen. `execute_move`
is a thread per goal, split wherever it reads or writes `is_moving_` or the
position: `Loop`, `AskCanceling`, `AskReached`, `Succeed`, `ClearMoving`,
`Calculate`, `StorePosition`. `execute_single_step` and
`check_and_complete_goal` are what a test does by hand, while no thread runs.
Positions are integers on one axis with a step no longer than the tolerance
(`StepAssumption`; 0.01 and 0.1 in the code), so floating point is left out.
`overlap` records that a goal answered at rest was started while another moved:
the code does not exclude it, and the properties say what still holds then.
The server does not check a goal's state when it ends it; `GoalHandleMock` has
no state machine. Destruction of the node under a detached thread is left out.

## Runs

| Run | Instance | Shows |
|---|---|---|
| `registry_core` | 1 node, 4 kinds (one with each way of naming, registering and type checking), 2 types, 3 entities, 2 addresses, 2 mocks; all disciplines | `Retrievable`, `RoutedToOwnMock`, `CastSafe`, `NoOrphanMock`, refinement of `MockRouting` |
| `registry_free` | 2 nodes, all 7 kinds, 2 entities, 2 mocks; no discipline | `LookupIsolation`, `PendingLive`, `SuiteIsolation`, `FirstWins` |
| `registry_stale` | as `registry_core` without `ScopedMocks` | violation of `RoutedToOwnMock`: a mock that outlives its entity gets the calls of the next entity at that address |
| `clock_ticks` | 2 timers, periods 2 and 3, durations -1 to 5, callbacks that cancel, reset and drop | `TickCount`, `LateByLessThanAStep` |
| `clock_resets` | resetClock to 0 and 3, wall timers, callbacks that create timers | `LandsOnTarget`, `AgreeAfterStep`, `AdvanceEnds` |
| `clock_reset_now` | 1 timer, resetClock | violation of `NowIsClock` |
| `clock_zero` | a timer of period 0 | violation of `AdvanceEnds` |
| `logger` | 3 LoggerMocks in sequence, DisableLogs, 2 threads, joined | `InnermostInForce`, `NoCallOnDestroyed` |
| `requests` | 3 requests, mock dropped at any time | `NoRequestRetained`, `SuccessIsReal`, `CallEnds` |
| `callbacks` | 3 threads, 2 callables, up to 2 unread events, both classes in sequence | `InstalledIsLive`, `NotReplacedUnderCall`, `AssignedOutOfSight`, `NoGap`, `LoggerAlive` |
| `goals` | 2 goals, 2 result codes, up to 2 different results told | `ActiveGoalIsOpen`, `OpenGoalStaysActive`, `CallbackBeforeFuture`, `SendEnds` |
| `move` | goals at 3 (the limit), -2 and -7 (rejected), step 2, tolerance 2 | `OneMover`, `EndsProperly`, `InRange`, `MovingHasMover`, `GoalFinishes`, `CancelEnds` |

Bounds. Three entities on two addresses are enough for an address to be left,
reused and left again while a third entity holds a name; two mocks for one to
detach the other's; two nodes for isolation. Periods 2 and 3 are coprime, so
timers come due inside steps; `MaxTime` 6 is one full cycle of both. Three
LoggerMocks let a thread meet the next-but-one object. Three requests let an
answer to the first arrive while a later one is waited for. Three threads are
one that sets, one that clears and one that waits for the mutex; two callables
tell old from new. Two goals let the late answer or result of one meet the
other's; two results are enough for one goal to be told both codes or both goals
one each, and two codes tell a first result from a later one.
The targets pull in opposite directions, so two overlapping goals can undo each
other's steps, and the limit is reached.

Fairness. `TestClock` has `WF_vars(AdvanceStep)`, because advance is a loop of
the calling thread that waits for nobody; callbacks are assumed to return.
`ServiceRequests` has `WF_vars(CallerStep)`: the caller's waits are bounded by
their timeout. `ActionGoals` has `WF_vars(NodeStep)`: the node's thread goes on, and its wait is
`wait_for(1s)`. `MoveServer` has weak fairness of each `ThreadStep(g)`: a started
thread runs. Nothing obliges a test to call anything or a service to answer.

Deadlock is checked in every run but `move`, where all goals of the behaviour
have been served in the end.

## Proofs

`MockRegistryProofs` proves for every set of nodes, names, types, kinds and
addresses and every bound: `TypeCorrect`, `LookupIsolated`, `PendingIsLive`,
`SuitesIsolated`, `FirstEntityWins`, and under the discipline each needs
`CallsRouted` (`ScopedMocks`), `NoMockOrphaned` (`QuietReset`) and
`EntitiesRetrievable` (`UniqueKeys`).

Three inductive invariants carry them. `RegistryInv`: an entry's key is the key
of the object it refers to, a timer entry's node is the timer's, a queued entity
exists and was built after the last reset, and nothing refers to an entity that
was not constructed yet. The last part is what makes `forgotten` work: a new
entity cannot already be in a map. `MockInv`: two existing entities have
different addresses; a mock that is attached and alive is attached at the
address it stores; under `ScopedMocks` its owner is alive, lives there and is of a
kind that has mocks.
Together the last two give `RoutedToOwnMock`: the entity at the address of an
attached mock is the mock's owner because two existing entities cannot share it.
`RetrievalInv`: existing entities have different keys, and each one made since
the last reset has its entry or is queued for it. Uniqueness turns every choice
of the registry into a choice of one: when an entity is queued, no live entity
can hold its entry, and of the entities queued for that entry it is the only one
that a lookup can register. The entry may still hold a dead reference, and a
lookup may come before the shared_ptr exists; neither loses the registration.
Destroying a queued entity removes callbacks by address, which takes no other
entity's callback by the first part of `MockInv`.

`MockRoutingProofs` builds on these. `CastsAreSafe` (`ScopedMocks`): the mock an
entity finds is its own, and the mocks of publishers, services and action
servers were made with a type compared to the entity's; a subscription or a
timer finds none, because the owner of an attached mock has mocks.
`RegistryImplementsRouting` (`ScopedMocks` and `QuietReset`) is the refinement.
`MapInv` says that the abstract binding is a function of the mocks alone: an
entity is bound to the live mock made for it. So `Construct`, `FindNothing`
and `Reset` map to stuttering, although `Reset` empties the registry, and each
of the other actions maps to one abstract action (`Appear`, `Vanish`, `Attach`,
`Drop`), with a lemma for each.

`TestClockProofs` proves for any timers, periods and durations `TypeCorrect`,
`AdvanceLandsOnTarget` and `ClocksAgreeAfterStep`, and with two hypotheses
`TicksCounted`: nobody calls resetClock (`ResetTimes = {}`) and no callback
creates a timer. Both are needed: resetClock moves the node's clock by an
arbitrary amount, and a timer a callback creates is not in the list of the
running advance, which may pass its period by. Wall timers, cancelling,
resetting and dropping timers, also from a callback, are included. `LateByLess`
needs positive periods as well, because a timer of period 0 is ready at any time
and makes the bound 0. `TypeInv` says what the loop has at hand: nothing is left
to visit outside the firing phase, and a running advance has a timer.
`StepSizeBounds` bounds a step by the shortest period and the remaining
duration. `TickInv` is the argument: a timer that can fire is in the snapshot,
its next call is at `anchor + (calls + 1) * period`, it is due within a period
when it need not be visited, and while it must, it is overdue by less than every
period of the snapshot, hence by less than its own: one call brings its next
call past the clock, so one visit per step is enough and none fires twice.

`LoggerMockProofs` proves for any number of objects and threads `TypeCorrect`,
`HandlersNest`, and with `JoinedThreads` `NoDanglingCall`. `ObjectInv` says
that the only `LoggerMock` is the last one made and when `instance_` points to
it, `ThreadInv` that a thread between its two reads of `instance_` meets an
object that exists. `StackInv`: as long as destruction is newest first, the
handler an object saved is that of the object below it, so restoring takes the
stack down by one.

`ServiceRequestsProofs` proves `RequestsTypeCorrect`, `NothingRetained` and
`SuccessReported` for any number of requests. The strengthening `CallerInv` adds
that a future found ready stays ready (its request is no longer pending when
`TakeResponse` runs), that a call has no id before it sends, and that a running
call has reported nothing yet. All steps of the other parties are one case
(`OthersKeepInv`): they never make a request pending.

`EventCallbackProofs` proves all five properties of the run for any number of
threads and callables, and type correctness. Its invariant has four parts
beside the types. `MutexInv`: the owner of `callback_mutex_` is the one thread
between `Lock` and `Unlock`, and the object is whole while a thread is in set or
clear. `ProgressInv`: what each step of set and clear has reached, above all
that a temporary is installed exactly in the steps `store` and `permanent` of
its thread. `PointerInv` and `CallInv`: nothing is installed once the handle is
gone, and a running call is of the installed function, unchanged since the call
began. `Whole` turns the order of the members into conditions on `live`.

`ActionGoalsProofs` proves the three safety properties for any number of goals
and results: `ActiveIsOpen`, `OpenIsActive` and `ToldBeforePromised`. `SendInv` says
that the goal `send_goal` is busy with has no result unless it was overtaken, and
that only accepted goals are stored or have results, so a rejected goal is never
the one the node forgets. `ResolveInv` says that the node was told what an armed
handle's promise holds, and that a first `resolve_result` between callback and
promise has already told what it is about to promise. The last theorem speaks of
the handle's own future; the future of a client without a mock is exempt.

`MoveServerProofs` proves the four safety properties for any goals, targets,
limit and step. `MoverInv` is the heart of it: without overlap, a thread that
executes implies `is_moving_`, and there is one; a goal that is started while
another executes was answered at rest (`StateInv`), and that is what `overlap`
records. `RangeInv` adds the position a thread is about to store, `EndInv` what
a thread knows between reaching its target and reporting it.

Assumptions of the proofs: names of threads, goals and callables differ from the
special values (`NamesAssumption`, `GoalsAssumption`, `NoneAssumption`); targets
are integers and the step is positive (`TargetAssumption`, `StepAssumption`);
periods are natural numbers, as `safe_cast_to_period_in_ns` rejects negative ones,
and durations integers (`PeriodsAssumption`, `AmountsAssumption`). The rest say
that bounds are naturals and switches Booleans.

Every invariant, every safety action property and the refinement that a passing
run checks is also proved. Only model-checked are `AdvanceEnds`, `CallEnds`,
`SendEnds`, `GoalFinishes` and `CancelEnds`: liveness under fairness is out of the
prover's reach.

## Findings

Three disagreements between the code and its documentation or tests, each shown
by a violation run and quoted in `PROJECT.json`: mocks inherited through a
reused address, `now()` after `resetClock`, and a timer of period 0.

A fourth needs no run. The publisher tutorial (`rtest/doc/Tutorials/Publisher.md`)
creates the node's timer with `create_wall_timer(500ms, ...)` (line 71), and its test
`WhenTheTimeIsMovedByTimerPeriodCallbackShouldBeExecuted` (line 182) advances a
`TriggeringTestClock` by 499 ms and 1 ms with the comment "We expect the timer to
trigger every 500ms" (line 202). The code makes an `rclcpp::WallTimer` on the
steady clock (`create_timer_mock.hpp:179`), which advance does not move, so whether
the callback runs depends on real time. In the model a wall timer may be fired or
skipped at every visit, and `TickCount` is stated for the timers that the test's
time drives (`Driven`). The example node (`examples/src/publisher.cpp:30`) uses
`create_timer`, as the tutorial's test needs.

Seen while modelling and not given a run of their own: objects of `LoggerMock`
and `DisableLogs` destroyed out of order leave the wrong handler behind
(`InnermostInForce` has the premise `lifo`); a timer callback may run late by
less than the shortest period (`LateByLessThanAStep` is the exact bound); the
example service client keeps its old `last_call_success_` when the send throws;
a timer that a callback creates is not fired by the advance that is running; a
service's logger is destroyed before its handle; a handle kept longer than its
client leaves the middleware with a dangling callback; a result that overtakes
the goal response leaves the example action client with an active goal for good,
and the late result of another goal makes it forget the one that is executed;
`async_get_result` without a mock reports success at once and never calls the
callback; `stop_callbacks` with a goal id stops nothing;
two goals answered before either is started both move the robot, and the first
to end leaves the other without an answer.

## Plan

Done: the registry (most of the framework depends on it), the clock, the logger,
the service client's requests, the event callbacks, the action client's goals,
the action server, and the proofs of all their safety properties. What is left,
in this order:

1. `LazyInit`: two threads around `lazy_init_mutex_`, the deadlock of a callback
   that holds the last reference.
2. Pure operators for the range check of timer periods and for names with
   namespaces, with lemmas.

## Not modelled

The version and include shims, the action base classes (stubs that return
constants), printing (`dumpRegistry`, verbose logs), build scripts and
documentation tooling. Of the mocked publisher and subscription: message types,
serialisation, loaned messages and QoS, which pass through to rclcpp or to the
mock. The example publisher, subscriber, service provider and debouncer, which
are one assignment each. The arithmetic of `safe_cast_to_period_in_ns` and names
with namespaces are left for pure operators later.
