# DroneControlSystem: TLA+ models, model checking and proofs

DroneControlSystem simulates a control centre for a formation of drones that
survey an area. Waves of 300 drones leave the base in the middle of the area,
gather at its western edge (the *starting line*), sweep it from west to east
and come back to charge. The program is a set of processes that share Redis, a
PostgreSQL database, POSIX semaphores and message queues.

This directory holds the formal models of that program. Source paths below are
relative to the repository; `PROJECT.json` maps every definition to its lines,
lists the runs, the hazards, the findings and the theorems.

## 1. Inventory

| Component | State | Operations | Talks to |
| --- | --- | --- | --- |
| **Main** `src/main.cpp` | `tick_n`, six named semaphores | fork, tick loop, join | DroneControl, ScannerManager, ChargeBase by a start and a done semaphore each; waits for the Monitors process |
| **DroneControl** `src/DroneControl/` | `tick_n`, consumer threads, `buffer`, database writer | tick loop, `SendWaveSpawnCommand`, consumers, `WriteDroneDataToDB` | ScannerManager by the Redis counter `spawn_wave`; reads `scanner_stream` |
| **ScannerManager** `src/Scanner/ScannerManager.*` | `tick`, `wave_id`, map `waves`, pool, barrier | `CheckSpawnWave`, `SpawnWave`, forwarding of faults | Main, waves (barrier, `tg_data`), TestGenerator (message queue) |
| **ThreadPool** `src/Scanner/ThreadUtils.*` | `tasks`, `stop`, 8 workers | `enqueue_task`, `worker`, `shutdown` | runs `Wave::Run` |
| **ThreadSemaphore** `src/Scanner/ThreadUtils.*` | `active_threads`, `waiting_threads`, a counting semaphore | `add_thread`, `remove_thread`, `sync` | shared by the ScannerManager and the waves |
| **Wave** `src/Scanner/Wave.*` | 300 drones, `tick`, `ready_drones`, `drones_not_waiting`, `tg_data`, `drones_to_delete` | `Run`, `setDroneFault`, `DeleteDrones`, `RecycleDrones` | its drones, the barrier, Redis |
| **Drone, DroneState** `src/Scanner/Drone*` | state, `previous`, position, charge, their hidden copies, `reconnect_tick`, `disconnected_tick` | `enter` and `run` of eight states | counters of the wave, `charge_stream` |
| **ChargeBase** `src/ChargeBase/` | `charging_drones`, `current_stream_id` | `ChargeDrone`, `ReadChargeStream`, `ReleaseDrone` | Main, `charge_stream`, `charged_drones`, `scanner_stream` |
| **TestGenerator** `src/TestGenerator/` | random engines | five scenarios | ScannerManager and ChargeBase by message queues |
| **Buffer, Database** `src/Database/` | vector under a mutex; connection | read, write, execute | DroneControl, Monitors |
| **Monitors** `src/Monitors/` | per monitor: time stamps `latest_processed_time`, `old_processed_time`, and what it knows of each drone | poll `drone_logs`, write verdicts to tables of their own, `CheckSimulationEnd` | database only |
| Redis and log helpers `utils/` | none | | |
| Former drone class `src/Drone/` | not built | | |

What is hard, and where:

* *Barrier* (`ThreadUtils.cpp:80-116`). `sync()` counts arrivals under a mutex
  but takes its permit outside it; permits belong to no round and no thread.
  Threads join and leave at any time, and may die without leaving.
* *Tick protocol* (`main.cpp:185-201`). Six semaphores keep four processes in
  step, and in every 125th tick two of them also shake hands through Redis; one
  side polls for 7 s, the other without a limit.
* *Wave counters* (`DroneState.cpp:23,50,161,227,305`). Whether a wave may start
  is decided by comparing two counters that five handlers increment, with drones
  that die, disconnect, arrive unseen and come back.
* *Faults* (`Wave.cpp:90-112`). They are chosen by another process and arrive
  in whatever state the drone is by then, also when it is disconnected or gone.
* *Charging* (`ChargeBase.cpp:74-118, 202-214`). A drone moves between a stream,
  a map and two sets in Redis, one command at a time, with waves and the
  TestGenerator looking on; an error in the middle repeats half of it.
* *Data path* (`DroneControl.cpp:5-66, 148-208`). Five consumers share a stream
  and one writer empties their buffer; records are handed out before they
  arrive, and the first record of the last tick ends it all.
* *Monitors* (`src/Monitors/`). They read a table that grows out of order between
  two of their queries, remember how far they are by a time stamp, and take a
  stamp that does not change for the end of the simulation.

What makes each component correct: the barrier opens exactly at a rendezvous and
lets everybody through; the tick protocol is one global clock that settles each
due tick once, by its wave or a failure to spawn it; the Drone process ends; a wave never waits for a drone that will not
come, every drone meets exactly one end and every wave empties; the ChargeBase
loses no drone and returns each once; the data path writes each record at most
once, knows where the others are, and ends; what the monitors log is true, what
they pass over fell into a gap one can name, and they end after the simulation.

## 2. Modules

    Rendezvous        <- implemented by -  ThreadSemaphore  <- used by - ScannerManager
    LockstepClock     <- implemented by -  TickLoop
                                           DroneWave  <- instantiated by - MCDroneWave
    ChargeService     <- implemented by -  ChargeBase
    Delivery          <- implemented by -  DronePipeline
                                           Monitors   <- instantiated by - MCMonitors
    *_proofs             theorems about each of the seven component modules

**ThreadSemaphore.** The class of the same name. Each critical section is one
action (`AddThread`, `RemoveThread`, `SyncEarly` or `SyncLast`), the acquisition
is another (`SyncAcquire`), so any thread may run between the two.
`AbandonThread` is the catch clause of `Wave::Run`, which does not leave the
barrier. `pc` says for each thread whether it is outside, inside, blocked in
`sync()` or lost.

**Rendezvous.** What that class does promise, without counters of arrivals: a
round opens when all members wait, with as many passes as members. It
deliberately does not say *who* passes.

**ScannerManager.** The Drone process: `ScannerManager::Run` (`SM...` actions),
the pool (`tasks`, `Workers`, `WaveStart`, `SMJoin`) and the life of each
wave's thread (`Wave...` actions). All barrier operations are those of
`ThreadSemaphore`, taken by INSTANCE: that the threads call them in no other order is
how the module is written, and no property. What a wave does in a tick is abstracted
to the choice, from `MinLife` ticks on, to have no drone left. `SMTickPlain` is
also a tick in which `CheckSpawnWave` gave up or the wave could not be created; that
Main goes on posting after the first of these is an over-approximation (in `TickLoop`
DroneControl stays behind).

**TickLoop.** Main and the loops of DroneControl, ScannerManager and ChargeBase.
`start` and `done` are the semaphores; `DCSend`, `DCSpawned`, `SMSeen`, `SMDecr`,
`SpawnWave` and `SMGiveUp` are the two ends of the `spawn_wave` hand-shake, with
the Redis commands as separate steps. `SMGiveUp` stands for the time-out and for
a GET that throws. Each of the other calls may throw, too. `SMDecrFails` is a DECR
that throws, carried out or not, `SpawnWaveFails` the SADD in the constructor of the
wave: Run catches both and goes on with the tick, so DroneControl's command may end
without a wave (`missed` counts these). DroneControl and the ChargeBase have no try
block around their calls and die of the error (`DCDies`, `CBDies`).

**LockstepClock.** The specification of the tick loop: one tick, every component
acts once in it, the tick ends when all have, and a due tick is settled once before
it ends, by its wave or by a failure to spawn it.

**DroneWave.** `Wave::Run` with the drone state machine. One action per branch of
each state's `run()`; entering a state is part of the action (`EnterDead`,
`EnterReady`, `EnterCharging`). A tick is: take one fault (`NoFault`,
`ApplyFault`, `FaultOnDeleted`), run the drones in index order (`cursor`),
delete and advance (`EndTick`). `Inject` is a message arriving from the
TestGenerator; the wave looks at its queue once per tick, so arrivals are
allowed only then. Abstractions: positions are the x coordinate (every
decision is on x, y follows it), charges are integers, records written to
`scanner_stream` are left out, `RecycleDrones` does not touch the wave.

**ChargeBase.** The process with everybody it meets in Redis: `Land` (a drone's
XADD to `charge_stream`), `RecycleDrones` (a wave's SPOP), `PickFault` and
`SendFault` (the TestGenerator, with its SRANDMEMBER and the message apart). A
tick is `ReceiveFaults`, `ChargeDrone`, the three commands of `ReleaseDrone`
for each full drone (`ReleaseAdd`, `ReleaseRemove`, `ReleaseLog`), `ReadStream`,
one `SetChargeData` per record, `SetDone` and `TrimStream`. `ReadError` is an
exception anywhere in `ReadChargeStream`: the position in the stream stays, the
entries made so far too. `ReleaseError` ends the process. `slot` is the value of
a key of the map, `Blank` what `operator[]` creates for a key that is not there.
Charges and rates are integers and `Gain` keeps what matters: below a factor of 1
the increment is `rate * (1 - factor)`, and one that is smaller than the
resolution of the battery is lost. `ReleaseLog` takes the drone out of the map; the
code does that after its loop over all drones, which nobody can tell apart, since the
map is private and the loop visits each entry once.

**ChargeService.** What that promises: away, base, ready, reused, in this order,
each at most once, and one announcement.

**DronePipeline.** From the stream `scanner_stream` to the table `drone_logs`. A
record is its place in the stream, of which only the tick matters.
`Upload` and `Leave` are the drones. The ChargeBase is a source, too (`Charger`): it
records any number of drones in a tick (`ReleaseDrone`), or none, and goes on to the
next (`PassTick`). The records of a source are in order; those of two sources are in
any, since a wave may be ahead of another or behind (`ScannerManager_NoWaveAhead`, or
a wave in the queue), and the ChargeBase waits for none. DroneControl's own loop ends
when Main has begun and it has reported the last tick, which is after the ChargeBase
has ended the one before (`EndTicks`, by `Lockstep` of TickLoop). `Connect` and `ConnectFails` are `get_DB`, `CreateGroup` starts the
threads, whether or not the group exists. `Read` and `ReadLost` are an
XREADGROUP with and without its reply, `WriteToBuffer` and `ReadFromBuffer` the
two critical sections of `Buffer`, `Insert` one turn of the loop over the rows,
with or without success. `EndRound` decides whether the writer is done,
`JoinWriter` lets DroneControl go; a consumer then finishes what it has in its
hands. Which rows of the buffer share an INSERT is left open. Exceptions while a
record is parsed are as good as a lost reply.

**Delivery.** At-most-once: rows are produced, and written or given up.

**Monitors.** `Commit` is one INSERT of the writer, of any rows still to come, and
the stamp it gives them (CURRENT_TIME of its transaction; there is one writer, so
stamps are in the order of the INSERTs). The monitors share only that table and
do not change it, so a behaviour follows one of them, `self`. A poll of
`RechargeTimeMonitor` or `DroneChargeMonitor` is two queries and the end of the
poll, since each query sees the table of its own moment (read committed); one of
`WaveCoverageMonitor` is its query and its write. `AreaCoverageMonitor` reads
once and is followed for one checkpoint, visit by visit. `EndPoll` is the same
code in the first three, with `CheckSimulationEnd`. An error of the `DroneChargeMonitor`
(`ChargeError`) is caught inside its loop; if it broke the connection (`down`) every
later query fails at once, since nothing opens it again, and no further action but the
writer's is possible. A broken connection ends the other monitors. `windows` is a
history variable: the polls whose mark went beyond what their first query saw;
`unwritten` another: the stamps the mark of the `WaveCoverageMonitor` passed although
its write had failed. Left
out: the margin in the comparison of consumptions, the bound of 6000 bits per
checkpoint, the rows lost on the way (they are `DronePipeline`'s), midnight. A drone
with high consumption is taken to have it from its start.

**MCDroneWave, MCMonitors.** Constants for TLC: the ways of the drones and the
fault messages; the tables a simulation may leave.

Each component module also holds its *mutants*, definitions whose comment starts
with "Mutant": plausible bugs, each put in place of the definition after it to
see that a property fails. No specification uses them.

## 3. Runs

| Run | Instance | States | Shows |
| --- | --- | --- | --- |
| `ThreadSemaphore` | 4 threads | 511 | `Accounting`, `ReleaseMeetsAll`, `OnlyDepartureStarves`, `LostIsFatal`, refinement of `Rendezvous` |
| `ScannerManager` | 3 waves, 2 workers, Redis failures | 11 707 | `ShutdownDrains`, `StuckOnlyByDeparture`, `HangsOnlyOnBarrier` |
| `TickLoop` | 5 ticks, a wave every 2, failing Redis calls | 2 207 | `Lockstep`, `Handshake`, refinement of `LockstepClock`, `HangsOnlyOnGiveUp` |
| `DroneWave` | 2 drones, 2 faults of any kind at any tick | 131 230 | `CountsCover`, `OnlyDoubleCountStartsEarly`, `WaitsOnlyForSomeone`, `OneFate`, `ResumeSurvives`, `WaveEmpties` |
| `ChargeBase` | 2 drones, 2 malfunctions, 2 Redis errors | 182 776 | `OneBerth`, `SetFollowsMap`, `GhostsAreReturned`, refinement of `ChargeService`, `ChargedInTheEnd` |
| `DronePipeline` | 1 drone, the ChargeBase, 2 consumers, 2 ticks, 1 error | 429 455 | `Accounted`, `LateLossBounded`, refinement of `Delivery`, `HangsOnlyWithoutLast` |
| `Monitors` | 4 monitors, every small table, 3 INSERTs, 1 error | 1 289 180 | `LogsTellTruth`, `NothingSkipped`, `AreaBrackets`, `EndsUnlessStuck` |

What they say of the code is not all good news. The properties are as
strong as it allows, and their exceptions are behaviours the runs reach:

* `Handshake`, `ImplementsClock`: a due tick may pass without a wave, when the DECR or
  the constructor fails; nothing is tried again, and DroneControl does not learn of it.
* `HangsOnlyOnGiveUp`: Main waits for ever if the ScannerManager gives up a command
  that comes later, or if DroneControl or the ChargeBase dies of a Redis error.
* `OnlyDoubleCountStartsEarly`: a wave may start while a drone is on its way, if some
  drone was counted twice.
* `WaveEmpties` is about waves with enough ticks left (726 with the numbers of the
  code); the last waves of a simulation are still out when it ends.
* `ChargedInTheEnd`: a malfunction just below 1 stops the charge of a drone, and
  an error in `ReleaseDrone` the process.
* `OneBerth`, `SetFollowsMap`: a drone is in `charged_drones`, and may fly again,
  while `charging_drones` still holds it; the TestGenerator may then draw it, and
  the message leaves an entry that is never released (`GhostsAreReturned`).
* `LateLossBounded`: DroneControl ends at the first record of the last tick its writer
  sees. Of what stood before that in the stream it may leave `(consumers - 1) * 900`
  records unwritten; the bound is reached. Nothing bounds what comes after it: when the
  ChargeBase wrote that record, all drones may be behind.
* `HangsOnlyWithoutLast`: without the consumer group, or when the records of the
  last tick are lost, DroneControl never ends.
* `NothingSkipped`: rows inserted between the two queries of a poll are passed
  over by the first query for ever; a completed charge is, once the row of the
  landing was passed over or comes after it; an issue is lost with a failed write, or
  when a poll passes one of the two rows that make it before the other is inserted
  (`Split`): a death in one INSERT and the rows of the drones still at work in the next
  is enough. A monitor that takes a pause of the writer for the end of the simulation
  never looks at what comes later (`Horizon`).
* `AreaBrackets` leaves the tick `Gap` after a visit open. The report says that the
  unverified ticks begin 126 after the last visit (`res/doc/Relazione.md:917-918`); the
  code begins with 125 (`AreaCoverageMonitor.cpp:94`).
* `EndsUnlessStuck`: a monitor that never finds a row polls for ever; so does the
  `DroneChargeMonitor` once its connection is broken, or once an INSERT can only fail
  (a key that is there already, or a drone of no ticks).

Runs that find a disagreement (expected violations):

* `ScannerManager_NoWaveAhead`. A wave that passes the barrier quickly comes
  back and takes the permit meant for the ScannerManager: it is two ticks ahead
  while the report says that the barrier synchronises all threads at every tick
  (`res/doc/Relazione.md:281`).
* `ScannerManager_Terminates`. The last drone of a wave is gone; the
  ScannerManager reaches `sync()` before the wave calls `remove_thread()`.
  Nobody releases the permits, Main waits for `sem_sc` for ever.
* `DroneWave_StartsTogether`. A READY drone disconnects and reconnects, is
  counted in `ready_drones` twice, and the wave starts with one drone missing
  (`Relazione.md:148`).
* `DroneWave_FaultsMeetFlying`. A fault for a drone that has landed:
  `setDroneFault` dereferences a null pointer (`Wave.cpp:96`,
  `Relazione.md:164`).
* `DroneWave_HealthyReturn`. A drone is lost for good shortly before it reaches the line.
  The others wait until it is declared dead 20 ticks later; the battery pays for about
  17 more than the nominal flight, and a corner drone that no fault met dies on its way
  home (`DroneState.cpp:224`, `Relazione.md:231`).

Bounds and why they are enough:

* Four threads: the barrier's hazards need a thread that passes twice, one that
  is robbed and one that leaves; the fourth is a bystander.
* Three waves and two workers: at least one wave has to queue while two others
  are members, and waves overlap in every stage.
* Five ticks with a wave every two: due and plain ticks alternate, and a
  hand-shake can meet the one before.
* Two drones, one with a longer way, `Border` 3, `Step` 1, a charge of 18:
  the flight takes long enough for a fault to meet every state, and short enough
  for two faults to exhaust a battery. `FaultTicks` is every tick, `MaxFaults` 2:
  one fault on top of another, or one for each drone. `Grace` 2 stands for 20.
  `StartsTogether` needs a third drone.
* `ChargeBase`: two drones, one to be released while the other is read again; two
  errors, so that a batch is repeated twice; two malfunctions, one in the queue
  (`QueueLimit` 1) while the next is drawn, faster (8) or slower (3) than `Unit`
  4. `Full` 9 takes three to five ticks. `BriefErrors` says that Redis does not fail
  as often in a row as a charge takes ticks, about 3000 in the code.
* `DronePipeline`: one drone and the ChargeBase are two sources that may be a tick apart
  either way; a stream of up to five records (`MaxStream` 3 for those of the ChargeBase)
  and batches of two, so that one record of the last tick can overtake others in the
  hands of the second consumer; three rows per INSERT, so that a round has one or two;
  `MaxTries` 2 stands for 5.
* `Monitors`: charges with or without the row of the landing, flights of up to three
  ticks, waves of up to two, visits at any of five ticks with `Gap` 2 for 125; with
  three INSERTs one falls between the two queries of a poll and another before it.
* `DroneWave_HealthyReturn` takes 2990, 20 and 0.13444 % in thousandths and
  hundred-thousandths, the directions of the corner and the centre drones, and
  a loss at a tick around that of their arrival.

The specifications may stop (the simulation ends, or, as the properties say,
gets stuck), so the runs do not check for deadlock.

## 4. Fairness

* `ScannerManager`: weak fairness of the ScannerManager thread and of each
  worker. The threads are scheduled by the operating system; a blocked
  `acquire` with no permit is not enabled and nothing is assumed of it. A
  failing Redis call is never forced. That Main goes on posting is what
  `TickLoop` shows of it, as long as no component dies.
* `TickLoop`: weak fairness of each of the four processes. It forces neither the
  time-out nor its absence: `SMGiveUp` and `SMSeen` are alternatives of one
  process.
* `DroneWave`: weak fairness of the wave's thread; faults are never forced.
* `ChargeBase`: weak fairness of its process, for which Main starts tick after
  tick. The drones, the waves and the TestGenerator owe nothing. An error is one
  of the process's alternatives, never forced, and bounded.
* `DronePipeline`: weak fairness of DroneControl's main thread, of each consumer,
  of the writer (threads of the operating system), of the drones together and of the
  ChargeBase's ticks (Main's ticks). No drone need ever be charged. XREADGROUP does not
  wait for records but polls.
* `Monitors`: weak fairness of the monitor's thread and of the writer.

## 5. Proofs

Checked by TLAPS for all values of the constants that satisfy the named
assumptions (`ThreadsAssumption`, `ManagerAssumption`, `TickLoopAssumption`,
`WaveAssumption`, `ChargeAssumption`, `PipelineAssumption`, `MonitorsAssumption`,
`TablesAssumption`, and `BriefErrors` of the ChargeBase).

**ThreadSemaphore_proofs**: `TypeCorrect`, `AccountingHolds`,
`ReleaseMeetsAllHolds`, `OnlyDepartureStarvesHolds`, `LostIsFatalHolds`,
`ImplementsRendezvousHolds`. `TypeOK` and `Accounting` together are inductive: `waiting +
permits` is the number of blocked threads, `active` the number of members.
Since the blocked threads are among the members, `waiting + 1 = active` at an
arrival is possible only if every other member is blocked and no permit is left
(`ArrivalCount`); the action properties and the refinement follow from that.

**ScannerManager_proofs**: `TypeCorrect`, `PoolAccounts`, `ShutdownDrainsHolds`,
`StuckOnlyByDepartureHolds`, for any number of waves and workers. Every step of the
process is an operation of the barrier or leaves it alone (`BarrierStep`), so what is
proved of `ThreadSemaphore` can be used in the process. `ShutdownDrains` needs that a wave that was created is in the queue,
with a worker or over, and that the queue stays empty once the workers have
left (`DrainInv`). `TypeCorrect` takes the barrier's own invariant over (`bar` for
`pc`) and adds that the number of waves follows from the tick (`CountInv`) and
that the queue holds each of them once (`QueueInv`); `PoolAccounts` states these
two, and that no waiting wave is missing from the queue. `StuckOnlyByDeparture`
follows from `OnlyDepartureStarves` of the barrier, since only the end of the
manager's loop and that of a wave call `remove_thread()`.

**TickLoop_proofs**: `TypeCorrect`, `LockstepHolds`, `HandshakeHolds`,
`ImplementsClockHolds`. `Lockstep` is not inductive. The invariant says where
the single token of the tick is for each component: in its start semaphore, in
its hands, or in its done semaphore (`TokenInv`, by Main's place in the order of
posts and waits); and how many commands were given at each point of DroneControl's
tick, and that all but the one under way ended in a wave or a failure (`SpawnInv`;
`Commands` counts them by what became of them). A component that died keeps its token,
so the tick it died in never ends. That ticks only advance after their wave is arithmetic
about multiples of the wave distance (`NextMultiple`, `CoversDue`).

**DroneWave_proofs**: `TypeCorrect`, `CountsCoverHolds`,
`OnlyDoubleCountStartsEarlyHolds`, `WaitsOnlyForSomeoneHolds`, `OneFateHolds`, `ResumeSurvivesHolds`, for waves of any
size, any distances and any set of faults. Every turn of a drone is one of three
kinds: it goes on, dies or lands (`VisibleKinds`, `HiddenKinds`). Of `CountsCover`,
`Passed` gains at most the drone whose turn it is and then a counter grows
(`OneMore`). `OnlyDoubleCountStartsEarly` needs that nobody is past the start before the
counters have reached the size of the wave (`StartInv`): if they equal the number of
drones in `Passed` then, `Passed` is the wave. `OneFate` needs that a drone that died or landed is in
`drones_to_delete` and has had its turn in this tick (`FateInv`): it is deleted
before anything else can happen to it. `ResumeSurvives` needs that no drone is cut
off before the first message is taken, so a single fault always meets a flying state
(`ResumeInv`); it fails with the second fault, which `DroneWave` reaches.

The nominal flight is proved as long as no message has arrived (`injected = 0`, also
in runs in which one comes later; with a fault `HealthyReturn` is false, as the run of that name
shows), from hypotheses about the battery. `Reachable(L)`:
`L` ticks are enough to reach the line from anywhere, and the battery lasts for them.
`InFormationHolds` takes the invariant `FormationInv(L)`: the number of turns a drone
has had (`Turns`) determines its place and charge on the way to the line (`Approach`);
once nobody is on that way, there are a tick `t` and a drone `l`, the last to arrive,
from which every place in the column follows (`Column(t, l)`): the drones after `l`
start in tick `t`, since they still have their turn, and the others in the next.
`Affordable(L, W, H)`: the battery and the remaining ticks pay for `L` turns to the
line, `W` over the area and `H` back. `HealthyReturnHolds` takes `HomeInv(L, W)`: the
charge is what the turns have left, and on the way back a drone is at most as far as
if it had left the area as late as possible. `NominalFlight` shows that the numbers
of the code are such: `L` 212 (14.142 per tick on the diagonal), `W` 299, `H` 213,
97.6 % of the battery. A wave with fewer than 726 ticks left is still out when the
simulation ends.

**ChargeBase_proofs**: `TypeCorrect`, `OneBerthHolds`, `SetFollowsMapHolds`,
`GhostsAreReturnedHolds`, `ImplementsServiceHolds`. `OneBerth` is not inductive.
The invariant adds that the records of the stream are of different drones
(`Records1`); that those of the batch up to `index` are in the map and those after
it are not (`Progress`); where the drone in `ReleaseDrone` is at each command
(`Control`); that a drone drawn or named in a message has been in the map
(`Reached`); and that a drone that will be read again has charged for no more
ticks than there were errors (`Slack`). The last is why a drone cannot be
released before its record is behind `current_stream_id`, and the only use of
`BriefErrors`: if Redis failed as often as a charge takes ticks, the drone would
be released, read again and released a second time.

**DronePipeline_proofs**: `TypeCorrect`, `AccountedHolds`,
`ImplementsDeliveryHolds`, `LateLossBoundedHolds`. The invariant is `Accounted` place
by place (`Spread`), with what makes it inductive (`Quiet`): nothing is uploaded
before the group is created, so its position is the end of an empty stream; and the
writer has no rows left when it goes back to the buffer, so it overwrites none.
`LateLossBounded` follows from any record `k` of the last tick that the writer has
had (`Seen`): records are handed out in the order of the stream, so when `k` is put
into the buffer, all that stands before it and is not there yet is in the hands of the
other consumers, each of which holds one reply (`OneReply`, `OthersHold`). What is read
later is behind `k`, and what the writer takes, it takes together with `k` or with what
was there before (`Overtaken`). `LateInv` is the conjunction of the three.

**Monitors_proofs**: `TypeCorrect`, `LogsTellTruthHolds`, `NothingSkippedHolds`,
`AreaBracketsHolds`, `IssuesAreReal`, for every table, every interleaving and any number
of errors. The stamps are in order (`ClockInv`: mark, what the first query saw,
`temp_time`, `commits`), and a row only ever gains its stamp (`RowsBecome`); so a row
that fell into a window between two queries, or came after a later row of its drone,
stays so (`Gone`, `GoneKept`). What a monitor knows of a drone is the tick of a row
that it has seen. Three invariants say, for every stamped row, what must be known by
the phase of the poll (`pc`): `RechargeInv` of landings and completed charges,
`ChargeInv` of first and last rows and of drones ready to be judged, `WaveInv` of
issues: two stamped rows of which one is behind the mark have their issues reported, or
lost with a failed write, or a window lies between them. That a monitor which ends has
used all its last poll could see needs a fourth (`QuietInv`): a poll that leaves the mark
where it is found nothing to use. `LogInv` is all of them with the types. `EarliestTick`
and `Latest` choose the least and the greatest element of a set; that there is one
follows from the minimal element of a well-founded order (`WFMin` of the library) and,
for a bounded set, from its least upper bound. The invariant behind `AreaBrackets` is
the exact set of logged ticks (`AreaExact`): a visit adds the ticks from the previous
one plus `Gap`, and since visits are taken in order no other lies between.

So every safety property of the passing runs (invariants, action properties and the
refinements) is a theorem for all values of the constants. Two theorems, `InFormationHolds`
and `NominalFlight`, are about a wave without faults, which no run repeats.

Only model-checked: liveness (`HangsOnlyOnBarrier`, `HangsOnlyOnGiveUp`,
`WaveEmpties`, `ChargedInTheEnd`, `HangsOnlyWithoutLast`, `EndsUnlessStuck`), which is
beyond TLAPS with its fairness and ENABLED.

## 6. What could follow

1. The safety parts of the liveness arguments: that a component which has not ended
   has a step to take, as an invariant about its guards.
2. ThreadPool with its mutex and condition variable, as an implementation of the
   queue of `ScannerManager`.
3. The effect of the permit stealing on a wave of `DroneWave`.

## 7. Not modelled

* Vendored libraries: `src/libs` holds copies of Boost and of a JSON library, more
  than three million lines and nearly all of the repository. The program's own code
  is about twenty files.
* SQL, credentials, Redis connections, logging, formatting, and the start scripts
  have no state the properties are about. `src/Drone` is not built.
* `SystemPerformanceMonitor` is one query and a quotient for each of its rows.
  `GetDronePaths` is geometry whose result is the flag `checked`; `Monitors` has
  rows with and without it (`UNCHECKED`). `Consume`, `TickCompleted` and
  `ChargeDroneMegaSpeed` are called by nobody.
* The data race on the map `waves` between the pool threads and the
  ScannerManager and the drone index 300 the TestGenerator may draw have no
  defined outcome to enumerate; they are listed as hazards.
* `created_at` has no date: a simulation that crosses midnight is outside of
  `Monitors` (a hazard, too).
* A process that has died is never replaced. `ChargeBase` has its death
  (`ReleaseError`), `TickLoop` what becomes of the tick loop that waits for it (`CBDies`).
