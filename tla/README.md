# A verification project for the robot's skill system

This directory holds TLA+ models of the software in `src/`: a mobile robot whose
behaviour tree commands skills, each a Qt SCXML statechart behind a YARP RPC
port, which call components (navigation, arm, battery, blackboard) over RPC,
while a Monitor listens to their connections through a port monitor carrier.
The models are checked with TLC on small instances, and the main safety
properties are proved with TLAPS for every value of the constants.

## 1. The system

| Component | State | Operations | Model |
|---|---|---|---|
| Blackboard (`Blackboard_component`) | `m_storage`, `m_initialization_values`, one mutex | `lock`, `unlock`, `readData*`, `writeData*`, `clearData`, `clearAll`, `resetData`, `listAll`, `init` | `Blackboard` |
| GoTo component (`GoTo_component`) | flag `running`, one mutex; target and status live in the navigation server | `goTo`, `getStatus`, `halt`, `isAtLocation` | `GoToComponent` |
| GoTo skill (`GoTo_skill`) | active state (31 states), `currVal`, `resourceCount`, three reply variables, queues and timers | events of the statechart | `GoToSkill` |
| Condition skills (`IsAt`, `IsFetched`, `BatteryLevel`, `BatteryNotCharging`), Fetch skill | active state, event queue, timer | `CMD_START`, `CMD_OK`, `CMD_STOP`, one blocking call per state | `SkillCharts` |
| Behaviour tree (`BT`) | the children remembered as RUNNING, one thread, one tick per second | `YARPNode::tick`, `YARPAction::halt`, `YARPCondition::tick`, the control nodes | `SkillProtocol` (one leaf), `BehaviorTree` (which leaf is next), `GoToSystem` (any order) |
| Generated skill wrapper (`skill-code-gen/skill-template-files`) | the machine of the skill | `request_ack`, `send_start`, `send_stop`, `start`, `setup` | `GoToSkill`, `SkillProtocol`, `SkillStartup` |
| Arm component (`Arm_component`) | extracted, opened, grasped, failure counter | `preGrasp` ... `hasGrasped`, `home` | `ArmComponent` |
| Battery component, charging station | charge and current of the device; `prev_docked`, `discharge_current` | `level`, `charging_status`, `updateModule`, `close` | `Battery` |
| Id component (`Id_component`) | the ids in use | `request_id`, `release_id` | `IdComponent` |
| Generated protocol code (`*_protocol`) | none; what is on the way | stubs, `read`, `help`, monitor objects | `Protocols`, `RemoteCall`, `MonitorObjects` |
| Monitors (`Monitor`) | properties of `MonitorReader`; four statecharts | `read`, the signals, the delegate | `MonitorReader`, `Monitors` |
| Port monitor carrier (`portmonitor_carrier`) | per connection a thread, a lock, a binding; the group of peers; the event record; Lua stacks | `configure`, `acceptIncomingData`, `modifyIncomingData`, destructor, the operations of `MonitorLua` | `PortMonitor`, `MonitorLua`, `MonitorEvents` |
| Skill compiler (`skill-code-gen`) | the description of the skill, `m_values`, five files | `write`, the five `generate_` functions, `classnameForDocument` | `SkillGenerator`, `SkillBuild` |
| Traces, maps, deployment | - | - | not modelled |

How they interact.  The tree's thread calls `request_ack`, `send_start` and
`send_stop` on a skill.  These run on the skill's RPC thread; commands become
events in the queue of its statechart.  The statechart runs on the Qt event
loop: it takes one event, follows at most one transition, and the `onentry` of
the target makes a blocking RPC to a component and sends itself the next event.
The components serve RPCs under a mutex.  Two instances of the GoTo skill share
one resource, `navigation`, whose single unit is a number in the blackboard: a
skill locks the key, reads, writes the number less one, unlocks, drives, and
gives the unit back with the same four requests.  Connections are made with the
carrier `portmonitor2`: a monitor object is shown each call and each reply and
publishes it to `/monitor`, where `MonitorReader` turns messages into signals,
a QML delegate turns signals into events, and statecharts raise alarms.

What is hard.  A protocol of several requests meets other skills and
`CMD_STOP` between any two of them.  Delayed events survive the state that sent
them.  The tree polls, asks twice in a tick, and every question also submits
`CMD_OK`; what it sends waits in a queue.  The conditions of one tick look at the world at different times.
Handlers of different processes interleave with the device, the station and the
operator.  Calls may be lost, or executed when
their caller has long been given a default, and a stub cannot tell.  Threads of the carrier
take three kinds of locks and call into scripts.  `PROJECT.json` lists these as
hazards, at their lines.

## 2. Modules

Each module is one component; those named in the second table compose them.

- `Blackboard`: the store.  A handler holds `m_mutex` from its first to its last
  line, so it is one action; its reply is a parameter the caller binds.
- `GoToComponent`: the component and, marked external in `PROJECT.json`, the
  navigation server behind it.
- `GoToSkill`: the statechart, as a table of transitions (`Transitions`), their
  conditions (`Confirmed`) and one operator per kind of `onentry` (`Enter...`).
  `Consume`, `Fire`, `Follow` and `Discard` are the interpreter: internal
  events first, one event per step, an event that enables nothing is lost,
  delays are timers that nothing cancels.
- `NavigationUnit`: what skills and blackboard promise together: the unit is
  taken when free, its holder commands the robot, and gives it back.
- `SkillCharts`: the small statecharts (conditions, Fetch) as tables, with the
  call each state makes and what its answer raises.
- `SkillProtocol`: one leaf of the tree against the wrapper of its skill.
  `request_ack` is two steps, `Ask` (the active state is read) and
  `Acknowledge` (`CMD_OK` is submitted, the answer returned); the statechart
  runs in between.  `Stranded` is the tick that waits for an idle skill.
- `ArmComponent`: the handlers as compiled with `FAKE_ARM`; `home` calls two of
  them before it takes the mutex for itself, so it is three actions.
- `Battery`: device, station and the two readings.  `running` and
  `StationCrash`/`StationRestart` are the life of the station process: what it
  remembers is lost, the current it has set in the device is not.
- `BehaviorTree`: `release3_BT.xml` as the library runs it.  A tick visits one
  leaf at a time, an action in two steps (`Ask`, `Visit`); `running_` is what
  the library remembers, which decides what it halts, and when.
- `Protocols`: how each stub writes a call, how each reader joins words until
  they name a method, and how replies are written and read.  `RemoteCall` is
  what a stub promises: a call is executed once at most, while its caller waits
  or any time after it was given the default.
- `MonitorObjects`, `MonitorReader`, `Monitors`: a call as it is published, the
  message as the reader takes it, the signals as events of the statecharts.
- `MonitorEvents`, `MonitorLua`, `DummyConnector`, `PortMonitor`: the event
  record and the rules, the effect of every operation on the stack of a Lua
  state, the connection that a message is copied through, and the threads.  A
  step of `PortMonitor` is what a thread does between two lock operations: the
  names of a rule are looked up in a step each (`Look`), before the rule is
  evaluated (`Decide`).
- `SkillGenerator`, `SkillBuild`: what each generated file is made of, and the
  order in which `write` fills them; runs are repeated over edited statecharts
  and skip files they cannot open.  A statechart is a record with those it
  invokes inside it; `Documents` is the set they come from, closed under
  invocation, and `Depth` a number that an invoked one has less of
  (`DocumentsAssumption`): no statechart invokes itself, which would have
  `collectAllDocuments` run for ever.  `Builds` is what the compiler of the
  generated program accepts of the five files: the types of arguments and
  parameters, no name declared twice, none that a template uses itself.
- `SkillStartup`: a process has a phase, the number of its next call of `setup`
  and what the calls before have done.  `Step` is one call, `Return` the
  `return true` after the last.
- `IdComponent`: both handlers, with clients that may lose an answer.

| Composition | Of | With |
|---|---|---|
| `BlackboardClients` | `Blackboard` | clients and an operator, any requests in any order |
| `GoToSystem` | `Blackboard`, `GoToSkill`, `GoToComponent` | the tree: any node ticked or halted at any time |
| `FetchSystem` | `SkillProtocol`, `SkillCharts`, `ArmComponent` | the fetching branch of `release3_BT (copy).xml`, an operator who calls `home` |
| `ChargingMission` | `BehaviorTree`, `Battery` | the GoTo skills as `NavigationUnit` describes them, their commands in queues, and three faults |
| `MonitoredFetch` | `SkillCharts`, `ArmComponent`, `Protocols`, `MonitorObjects`, `Monitors` | calls that are lost or executed too late, `home`, the ticks |
| `MonitoredNavigation` | `MonitorObjects`, `Monitors` | journeys, halts and readings in any order |
| `PortMonitor` | `MonitorLua`, `MonitorEvents`, `DummyConnector` | trigger threads and the administrator of the port |
| `SkillStartup` | `SkillBuild`, `SkillGenerator` | the processes of generated skills and the tree's requests |

`MC...` modules are the instances for TLC; `...Proofs` modules hold theorems.
Operators whose comment begins with "Mutant" are faulty variants of the
definition that follows them: no specification uses them, and substituting one
shows that a property tells it from the code.  `TypeOK` is in every module; the
run `goto_system` checks it, and it has been found true in the instances of the
other runs.

Abstractions.  Locations, levels and words are members of small sets.  A float
datum is an integer.  The three reply variables of the GoTo statechart are one
(`reply`): each condition reads the one its own state has assigned.  The
blackboard stays up and answers in `GoToSystem`.  The conditions of the tree are
open in `GoToSystem` and exact in `ChargingMission` and `FetchSystem`.  The 31
states of the GoTo statechart are eight phases in `ChargingMission`
(`SkillPhases`): all that it does to take the unit is `waiting`, all that it
does after `CMD_STOP` `stopping`.  Of what may pass between the two questions of
a tick nothing is left out; the condition skills answer within the tick.  Time is
order only: lifetimes and thresholds are counted in ticks.  A text (an event
name in a rule, a generated file, a port name) is the parts that its readers
look at.

## 3. What is checked

| Run | Instance | Shows |
|---|---|---|
| `blackboard_clients` | 2 clients, 2 keys (a number, a string) | `ViewCoherent`, `NoLockStolen`: the lock protects read-modify-write |
| `goto_system` | 2 skills, queries may fail, 2 waiting events | `TypeOK`, `UnitConserved`, `OneSkillDrives`, `RestingHoldsNothing`, `ImplementsNavigationUnit` (refinement of `NavigationUnit`) |
| `goto_comes_to_rest` | 2 skills, queries answered, fairness | `RobotMovesForHolder`, `LockReleased`, `ComesToRest`: competition for the unit ends well |
| `goto_stopped` | 1 skill, 3 waiting events, fairness | `ComesToRest`: every clean-up path ends, whatever commands wait |
| `goto_stale_success` | 2 skills | `SuccessIsOfThisRun` violated: a node that was not running is told the `SUCCESS` of an earlier run |
| `fetch` | IsFetched, IsAtUser, Fetch, the arm (one miss), `home` at any point | `GraspedOnSuccess`, `NeverDrops`, `FetchEnds`, `ReportsFreshAnswer`, `TickEnds` |
| `fetch_acked_twice` | the same without `home` | `SuccessIsReturned` violated: a tick reads SUCCESS and never returns it |
| `monitored_fetch` | Fetch and the arm over stubs, one call that is refused, lost, not answered or executed too late, `home`, alarm after 3 ticks | `KeepsPromise` (refinement of `RemoteCall`), `GraspedOnSuccess`, `ShownArmIsTrue`, `GraspAlarmJustified`, `LoopIsNoticed`, `CallsAreServed` |
| `charging_mission` | charge 0..3, low 1; station dies, stops are missed, journeys fail | `OneActionAtWork`, `LowReachesStation`, `LeavesFull`, `PhantomChargeEnds`, `DischargesAway` |
| `monitored_navigation` | 3 destinations, 3 charges, alarms after 2 ticks | `BatteryAlarmIff`, `EndedIsNotShown`, `DestinationAlarmJustified`, `TargetAlarmJustified` |
| `port_monitor` | 3 connections: a script that goes first, one that gives way, a library; 4 messages, copies that fail, a rule of two names, events of one tick, one rule that fails | `NoDeletedPeer`, `MessageIsDecided`, `DataIsDelivered`, `StackIsRestored`, `RuleHolds` |
| `skill_startup` | 3 statecharts, 3 processes, 2 components | `GeneratedBuilds`, `SetupConnects`, `InstancesDoNotClash`, `RequestsAnswered` |

Bounds, and why they are enough.

- `GoToSystem`: two skills are the two instances the tree has.  `MaxQueue`
  bounds how many events wait when the tree sends another command: with 2, a
  `CMD_STOP` and a `CMD_START` may both wait behind an event of the statechart.
  `MaxStale = 0` lets a skill be started only when no timer of an earlier run is
  pending: the tree ticks once per second and the longest delay is 500 ms.
- `FetchSystem`: `MaxQueue = 2` is one `CMD_OK` and one `CMD_START`; `KeepsUp`
  says that a statechart that is not waiting for an answer empties its queue
  between two ticks.  `FakeArmFailures = 1` (3 in the code): one retry shows
  what a retry can lose.
- `MonitoredFetch`: `MaxBreaks = 1`: a second lost call meets the states that
  the first does; the theorems hold for any number.  `GraspTheta = 2`,
  fewer than in the statechart, more than the ticks a retry needs.
- `ChargingMission`: four levels tell empty, low, medium and full apart (five,
  and a load of two, pass as well); the faults may happen any number of times.
  `KeepsUp` says that the statecharts take their commands in the second
  between two ticks, and while the robot moves; within a tick they may wait
  for any time.
- `PortMonitor`: the rule has two names, both of events of one script, so that
  they are looked up while another thread sets one and takes back the other;
  three connections make a circle of locks possible and let two peers be
  triggered in one election; the messages (2, 1, 1) let one connection receive
  again after a rule failed; `Lifetime = 1` lets events expire between any two
  steps.
- `SkillStartup`: the three statecharts differ in services, options, invoked
  charts and errors; a skill is developed before the first process is started.
  One has no options, one has two, one of them of a chart that it invokes, and
  one does not compile.  All that compile are well formed: what happens to the
  others is up to the compiler of the generated program.
  The options of the three processes tell their clients apart, which TLC checks
  (`OptionsAssumption`).

Fairness.  Weak fairness of what runs by itself: the event loop and the timers
of each skill, a component's answer to a call it has received, the operator's
`home` once it has begun, the main loop of the tree where a property needs ticks
(it runs for ever in `main`), the periodic `updateModule`, the restart of a dead
station, and in `PortMonitor` a thread that has a message.  In `ChargingMission`
a skill that waits for the unit gets it when it is free, which takes a blackboard
that does not refuse its lock for ever (`FairSpec`).  Nothing is assumed of a handler of
the arm whose caller is gone: it may wake at any time or never.  The tree owes a
single node nothing, components need not come up, an operator need not act, and
locks are granted in no order: `ComesToRest` excepts a skill that others keep
refusing (`Contended`) instead of assuming strong fairness.

Exceptions a property states are the code's.

- `FetchEnds` excepts `home`, since a Fetch whose arm was drawn back loops
  (`LoopIsNoticed` says that the monitor sees that).
- `ShownArmIsTrue` excepts lost calls and `home`, which no port monitor shows.
- `GraspedOnSuccess` excepts, in `MonitoredFetch`, an `openHand` or `extractHand`
  that the arm executes for nobody after the skill was started: without the
  exception TLC finds a Fetch that is started again and whose object falls when
  the handler of its earlier run wakes up.
- `LowReachesStation` and `PhantomChargeEnds` except two standstills of the tree
  (`Standstill`): GoToChargingStation keeps telling the outcome of an old journey
  (`Stale`), or a tick waits for a skill that it has not started (`Stranded`).
- `DataIsDelivered` excepts a copy that fails.
- `TickEnds` excepts the tick of `fetch_acked_twice`.

## 4. Limits found

Two have a run that shows them and a finding in `PROJECT.json`:

- `goto_stale_success`: `success` is left only on `CMD_START` or `CMD_STOP`, and
  `tick` sends `CMD_START` only to a skill that is idle;
- `fetch_acked_twice`: `tick` (`yarp_node.cpp:79`) asks again after a final
  answer, and the `CMD_OK` of its first question may make that answer IDLE.

The rest was found while modelling and is kept in the models as the code does it:

- a stop that reaches a GoTo skill in `lockKey`, `unlockBusy` or `unlockKey` is
  discarded and the skill drives on; one that reaches it in `unlockKey_1` or
  `unlockKey_2` is too, and the skill keeps its outcome (`Misses` in
  `ChargingMission`);
- `tick` sends `CMD_START` on its first answer only.  A GoTo skill that is still
  cleaning up after `CMD_STOP` answers RUNNING, and IDLE when `tick` asks again
  (`yarp_node.cpp:79`): nobody starts it, and the loop at line 80 never ends.  A
  robot with a low battery stands still then (`Stranded`): without that
  exception TLC finds `LowReachesStation` violated, even when nothing else fails;
- the stub of a call returns its default when the connection breaks, while the
  handler sleeps and changes the arm afterwards (`ArmComponent.cpp:210`): a later
  call may come before it.  Each connection has a thread, and nothing orders the
  two (`ServesNobody`);
- a status query that fails gives the unit back while the robot moves: why
  `RobotMovesForHolder` is stated for a server that answers;
- a condition that is calling its component declares `SKILL_IDLE`
  (`IsAtSkillStateMachine.scxml:52`), which `BT_wrappers.thrift:16` reserves for
  a node that has not run;
- `writeDataInt32` (`BlackboardComponent.cpp:223`) refuses a write to a key that
  nobody has locked, which the comment at line 210 allows;
- the reply to `home` changes `isArmExtracted` and emits `isHandOpenChanged`
  (`Monitor/main.cpp:347`, against the property at line 100);
- `hasEvent` (`MonitorEvent.h:71`) looks at the first event of a name only: one
  that has expired hides one that lives, of another owner; `searchReplace`
  (`MonitorLua.cpp:463`) also replaces a name inside a longer one.  `RuleHolds`
  is checked for names of one owner, none inside another;
- the names of a rule are looked up under one lock each (`MonitorLua.cpp:429`).
  A rule `not e_high and not e_busy` may accept a message although at each moment
  one of the events lived: one is set after it was looked up and the other taken
  back before.  That no event lives when a message is accepted holds for one name
  and TLC refutes it for two; `RuleHolds` says that an event which lives all the
  while refuses the message;
- a copy of a message whose `write` fails (`PortMonitor.cpp:167`, `:186`, `:223`,
  which has no else) leaves the drained reader of the network, or of the earlier
  copy, and the port is handed an empty message;
- the trigger thread that a `create` has started goes on when that `create` then
  fails and the state is closed (`MonitorLua.cpp:44`): undefined, and left out;
- a rule that cannot be evaluated (`MonitorLua.cpp:445`) leaves its message on
  the Lua stack, and the callbacks of the script are not found from then on:
  `StackIsRestored` counts these messages;
- `canAccept` uses the Lua state without `luaMutex`; `setTrigInterval`
  (`MonitorLua.cpp:625`) gives milliseconds to a thread that takes seconds;
- the generated `main` takes every option as a `std::string`
  (`SkillGenerator.cpp:214`), whatever `cpp_type` the constructor has for it;
  names that the templates use themselves (`dataModel`, `yarp`) are not refused;
  two documents of a statechart that declare data of the same name give the
  generated constructor one parameter twice (`SkillGenerator.cpp:592`), a state
  without `bt_status` is answered with `SKILL_UNDEFINED`, which is no `SkillAck`,
  and a port may be said to be named after an attribute that is not a member
  (`SkillGenerator.cpp:455`).  The generator reports none of these; the compiler
  of the generated program does.  `GeneratedBuilds` is stated for statecharts
  without them (`WellFormed`).  What else a compiler refuses is not in `Builds`:
  names that are keywords of C++ or of a Qt base class, an attribute that is
  called like the port of a client;
- `classnameForDocument` (`skill-code-gen/main.cpp:160`) is written and never
  read, so what it numbers has no effect, and is left out;
- generated client ports are named after service and skill
  (`SkillGenerator.cpp:457`), not after the skill as
  `ports-connect-description.txt:29` says.

## 5. What is proved

Every safety invariant and action property of the passing runs is a theorem; so
are both refinements.  The theorems hold for
every value of the constants that the named assumptions in the modules admit: a
marker is not one of the names it stands beside (`Nobody`, `Nowhere`, `NoEvent`,
`NoNode`, the empty word), charges and levels lie in 0..100, counts are naturals,
a low battery is not full and a load not zero, a port has finitely many
connections, a rule is a sequence of names, and a statechart that a process runs
has a state besides the one that wraps the others.

`BlackboardProofs`, for all keys, clients and data: `TypeCorrect`,
`LockProtectsReadModifyWrite`, `LockNeverStolen`.  The invariant adds to the
types and to `ViewCoherent` that the entries of the file are unlocked, without
which a reset could create an owner whose view is stale.

`GoToSystemProofs`, for any number of skills, any bounds and any data with one
unit in `entries.ini` (`EntriesAssumption`): `TypeCorrect`, `UnitNeverLost`,
`MutualExclusion`, `RestLeavesNothing`, `NoSkillIsStuck`, `Implementation` (the
refinement of `NavigationUnit`) and, if queries are answered, `RobotServesHolder`.
`UnitConserved` is not inductive: it has to be known who may write.  `IInv` adds,
per skill,

- `Counted`: which states come with a unit (`Taken`); only `halted` and
  `checkResource` serve both cases, and tell them apart by `resourceCount`;
- `LockKnown`: the owner of the lock is known from the state and its reply;
- `Granted`: a request of the owner is never refused;
- `Current`: what the owner has read is in the store until it writes;
- `StoreFilled`: before the store is filled nobody has a unit.

It says nothing of the queues and timers: late events are harmless because each
transition compares the reply that its state has kept.  `TransitionArrives`
reads off the table what is known of a skill when it enters a state (`Arrival`);
one lemma per kind of `onentry` then shows that `IInv` is kept.  For the robot,
`MoveFollowed` adds that a moving robot is followed by the skill whose location
is its target.  `NoSkillIsStuck` is the safety part of `ComesToRest` and
`LockReleased`, and does speak of the queues: a skill that is not at rest has an
event in a queue or behind a timer (`Pending`) that a transition of its state
takes (`Awaited`).  `EntrySubmits` shows that each
`onentry` submits such an event whatever it is answered, which is where `Granted`
and `Current` are needed; and an event that is taken in vain is never the awaited
one.

`BlackboardProofs` also holds the Id component, as the instance `I`, for any clients, preferred ids, radix and largest number:
`IdTypeCorrect` and `IdsAreUnique`.  The invariant adds the ids on their way: an id
that a client is about to receive or is giving back counts as held, and nobody
else holds it.  It needs nothing of how names and numbers are joined: `request_id`
searches the set it adds to.

`FetchSystemProofs`, for any bound on the waiting events, any misses of the hand
and any calls of `home`: `TypeCorrect`, `GraspedOnSuccessHolds`,
`NeverDropsHolds`, `ReportsFreshAnswerHolds`.  `NeverDrops` is about two calls
that are many steps apart: IsFetched is told that the hand is empty, and much
later Fetch opens it.  The invariant follows an event from the call that raises
it to the transition that takes it (`Scripted`), and a start from the question
that guards it to the chart that takes it (`Started`, `Unacknowledged`,
`EmptyHand`); no second start waits behind the first.

`ChargingMissionProofs`, for any levels, any currents and every combination of
faults: `TypeCorrect`, `OneActionAtWorkHolds`, `DischargesAwayHolds`,
`LeavesFullHolds`.  For the second, `Remembered`: a skill that is at work and has
missed no stop is in `running_`, or a `CMD_STOP` waits for it, or its tick has not
returned; never are both in `running_`, and of the commands at most one waits.
`LeavesFull` needs to know why the robot is where it is, in every state that the
faults, and stops that wait, lead to:

- `DockFollows`: at the station, a battery that is not charged makes the tree
  choose the station (`Needs`), unless the robot came there without the tree
  (`Uncalled`) or GoToDestination keeps its old outcome (`Over`, and `Stuck` when
  the tree does not stop it any more); the tree may still be in the tick that
  starts the one before it halts the other (`Starting`);
- `RoadFollows`: on the way to the station the tree needs it, unless
  GoToDestination has missed its stop and run away (`Runaway`) or
  GoToChargingStation has come to its end;
- `CameFollows`: of a robot that came with a low battery none of these
  exceptions is left.

`MonitoredNavigationProofs`, for any destinations, charges, thresholds:
`TypeCorrect`, `BatteryAlarmIffHolds`, `EndedIsNotShownHolds`,
`DestinationAlarmJustifiedHolds`, `TargetAlarmJustifiedHolds`.  What a chart has
counted is bounded by the history: `late` and `kept` are at least the theta less
the counter (`DestinationFollows`, `TargetFollows`).

`MonitoredFetchProofs`, for any number of lost calls, misses, ticks and any words
for places: `TypeCorrect`, `CallsAreServedHolds`, `GraspedOnSuccessHolds`,
`KeepsPromiseHolds` (the refinement of `RemoteCall`, a step for each action),
`GraspAlarmJustifiedHolds`, `ShownArmIsTrueHolds`.  `CallsAreServed` rests on
`ReadFinds` (the first words that name a method decide) and `ReadersApart` (no name
of a protocol is the first part of another).  The invariant `FInv` says that the
skill has one thing under way, where the call is and what its answer will be
(`ChartFollows`, `CallFollows`), and what the arm has done stays true until the
skill calls it again (`HandFollows`): `home` can only draw the hand back and
close it, and of the calls that the arm executes for nobody only two undo
anything (`Held` and `Drawn` say which, `NobodyStep`).  `KeepsPromise` maps
`abandoned` to what `RemoteCall` still executes: a call that `Break` leaves to
the arm is `GiveUp`, and what `ServesNobody` executes is one of these
(`LostFollows`).  `MonitorFollows` ties the counter of GraspMonitor to the ticks
since the hand was opened.

`PortMonitorProofs`, for any number of connections, scripts, rules and messages:
`NoDeletedPeerHolds`, `DataIsDeliveredHolds`, `StackIsRestoredHolds`,
`NoCircularWaitHolds`, `TypeCorrect`, `RuleHoldsOf`.  `Whole` says what is at
hand, from the reader of the network or from the dummy connection: the message, or
nothing if a copy of it has failed; it needs that `reset` empties the writer
(`CopiedHolds`).  `Locking` says where each lock is held, by the place of its thread;
`Stacked` what each operation finds on the Lua stack.  `NoCircularWait` is the
safety part of `MessageIsDecided`: a thread may wait for one that waits in turn, but
then that third one waits for nobody.  It needs the converse of `Locking`: who holds
the lock of a monitor is in a callback of it (`Held`).  An event record holds at
most one event of a script (`Recorded`).  `RuleHoldsOf` is about any number of
names: `Lived` says that no value which was looked up misses an event that has
lived since all peers were triggered.  It has two hypotheses, the limits of `hasEvent` and `searchReplace` named in section 4: different scripts
raise events of different names (`NamesApart`), and no name of a rule lies
inside one that follows it (`Unmixed`).  What
a loop over a rule or a record computes is shown by a least counterexample
(`NatLessThanWellFounded`, `WFMin`), since the library's induction rules cannot
be instantiated.

`SkillStartupProofs`, for any statecharts, skills, options and components:
`GeneratedBuildsHolds`, `SetupConnectsHolds`, `InstancesDoNotClashHolds`,
`TypeCorrect`, `AnswerIsAlwaysThere`.  It has three parts.

- What the generator computes.  `collectAllDocuments` is a recursive function,
  and a recursive function is a `CHOOSE` of which nothing is known before one is
  shown to exist.  `Recursion` builds it from the graphs of its values up to n,
  for any step that is given as a set of pairs; the documents come from it by
  their `Depth` (`CollectsExists`).  `FlattenKeeps` and `AmongKeeps` say which
  elements the lists of `write` hold.  `GenerationBuilds` puts the five files
  together: every argument is declared with the type of its parameter
  (`Passing`, `MembersAre`), for which the options have to be strings.
- `BuildInv`: while a run goes on, `values` are the parameters of the statechart
  as soon as `Skill_h` has had its turn, and a file that was written holds what
  this run makes of it; `unwritten` names the others.  A file left by an earlier
  run is among them, and so `GeneratedBuilds` says nothing of it.
- `StartupInv` and `RunInv`: every call of `setup` before `next` has done what it
  says, and the ports a process has opened are those of its calls
  (`StartupInv`); a process runs a program made from one of its `Sources`, and is
  in a state of it (`RunInv`).  Two port names are equal only if both begin with
  the same word, of service type and skill, and end with the same option
  (`PortsDiffer`), so with different options no name is taken, and a setup can
  fail only at a connection (`OnlyConnectFails`).

`InstancesDoNotClashHolds` has the hypothesis `OptionsTellApart`: of the clients
whose port names begin with the same word, in all processes together, at most one
is named after no option and the others after values that differ.  That is up to
whoever configures the processes; the generator only makes it possible.

`AnswerIsAlwaysThere` is the safety part of
`RequestsAnswered`: every state that a running statechart can be in is in the list
that `request_ack` searches.

Where an invariant was not inductive TLC found the step that breaks it, from the
type-correct states of a small instance.

Model-checked only:

- the liveness properties (`ComesToRest`, `LockReleased`, `FetchEnds`, `TickEnds`,
  `LoopIsNoticed`, `LowReachesStation`, `PhantomChargeEnds`, `MessageIsDecided`,
  `RequestsAnswered`): fairness and `ENABLED` are out of the prover's reach; what is
  proved of four of them is their safety part, named above;
- the two violations of section 4, which are runs.

## 6. Not modelled

- The bulk of `qscxmlcompiler.cpp` (Qt's SCXML compiler, vendored) and
  `swigluarun.h` (generated by SWIG): only the parts that were added or that the
  skill compiler depends on.
- The branches of `ArmComponent.cpp` for a real arm: the file defines `FAKE_ARM`
  (line 38), so they are not in the program.
- The sending side of the port monitor beyond what is published
  (`modifyOutgoingData`, `acceptOutgoingData`, `modifyReply` as locks), and the
  Lua functions that convert values.
- `toString`/`fromString` of the enumerations, the text of `help`, logs, the
  Monitor's window.
- `FlipFlopCondition`, which no tree registers; `SkillConfigReader`, whose
  result `main` does not use.
- A blackboard that restarts: its store comes back with a unit that a skill
  still holds, and no document says what should happen.
- `trace_generator.py`, maps and deployment files: they keep no state.

## 7. Plan

Done: the modules above, their runs, eight proof modules.  Open:

1. the safety part of the other liveness properties, as for `ComesToRest`,
   `LockReleased`, `MessageIsDecided` and `RequestsAnswered`: that the fetching branch
   and the tick of the tree always have a step that they wait for;
2. `RuleHolds` for rules whose names lie inside each other, once it is known which
   messages are then accepted;
3. `GeneratedBuilds` without `WellFormed`, once the generator refuses statecharts
   that are not, and `LowReachesStation` without `Stranded`, once `tick` starts a
   skill on any answer that is IDLE.
