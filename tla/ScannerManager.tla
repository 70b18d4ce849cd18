--------------------------- MODULE ScannerManager ----------------------------
(***************************************************************************)
(* The Drone process: the ScannerManager thread, the worker threads of its *)
(* pool and the waves they run, composed with the barrier ThreadSemaphore  *)
(* that all of them share (src/Scanner/ScannerManager.cpp, Wave.cpp,       *)
(* ThreadUtils.cpp).                                                       *)
(*                                                                         *)
(* What a wave does in a tick with its drones is DroneWave's subject; here *)
(* a wave is its tick counter, the moment it enters and leaves the barrier *)
(* and the choice, from MinLife ticks on, of having no drone left.  The    *)
(* semaphores that tie the ScannerManager to Main are TickLoop's subject;  *)
(* here sem_wait returns after any delay.                                  *)
(***************************************************************************)
EXTENDS Naturals, Sequences, FiniteSets

CONSTANTS
    SM,             \* the ScannerManager thread
    Duration,       \* sim_duration_ticks
    WaveDistance,   \* WAVE_DISTANCE_TICKS
    Workers,        \* threads of the pool: 8 in the code
    MinLife,        \* ticks before which a wave still has drones
    RedisFails      \* TRUE: a Redis call of a wave may throw

ASSUME ScannerAssumption ==
    /\ Duration \in Nat \ {0}
    /\ WaveDistance \in Nat \ {0}
    /\ Workers \in Nat \ {0}
    /\ MinLife \in Nat \ {0}
    /\ RedisFails \in BOOLEAN

Waves == 0 .. (Duration - 1) \div WaveDistance

ASSUME ManagerAssumption == SM \notin Waves

Threads == {SM} \cup Waves

VARIABLES
    active, waiting, permits,   \* the counters of synchronizer
    bar,        \* where each thread is with respect to synchronizer
    smPc,       \* control point of ScannerManager::Run
    smTick,     \* ScannerManager::tick
    waveId,     \* ScannerManager::wave_id, the next wave to create
    tasks,      \* ThreadPool::tasks: the waves whose Run waits for a worker
    stage,      \* life of each wave
    born,       \* Wave::starting_tick
    tick        \* Wave::tick

barrierVars == <<active, waiting, permits, bar>>
vars == <<active, waiting, permits, bar, smPc, smTick, waveId, tasks, stage, born, tick>>

Barrier == INSTANCE ThreadSemaphore WITH pc <- bar

SmPcSet == {"init", "await", "work", "sync", "remove", "join", "done"}

(* "none": not created.  "queued": its task is in the pool's queue.        *)
(* "started": a worker runs Wave::Run, not yet a member.  "running": in    *)
(* the loop.  "leaving": out of the loop, still a member.  "gone", and     *)
(* "failed" when Run ended in a catch clause.                              *)
StageSet == {"none", "queued", "started", "running", "leaving", "gone", "failed"}

(* A worker is taken from the moment it pops a task to the task's return.  *)
Busy == {w \in Waves : stage[w] \in {"started", "running", "leaving"}}

Init ==
    /\ Barrier!Init
    /\ smPc = "init"
    /\ smTick = 0
    /\ waveId = 0
    /\ tasks = <<>>
    /\ stage = [w \in Waves |-> "none"]
    /\ born = [w \in Waves |-> 0]
    /\ tick = [w \in Waves |-> 0]

-----------------------------------------------------------------------------
(* ScannerManager::Run                                                     *)

SMAdd ==
    /\ smPc = "init"
    /\ Barrier!AddThread(SM)
    /\ smPc' = "await"
    /\ UNCHANGED <<smTick, waveId, tasks, stage, born, tick>>

(* sem_wait returned in a tick in which no wave is spawned: it is not a    *)
(* spawn tick, CheckSpawnWave gave up, or the wave could not be created,   *)
(* which leaves wave_id as it was.                                         *)
SMTickPlain ==
    /\ smPc = "await"
    /\ smPc' = "work"
    /\ UNCHANGED <<barrierVars, smTick, waveId, tasks, stage, born, tick>>

(* SpawnWave: the wave takes the manager's tick; its Run goes to the pool. *)
SMTickSpawn ==
    /\ smPc = "await"
    /\ smTick % WaveDistance = 0
    /\ born' = [born EXCEPT ![waveId] = smTick]
    /\ tick' = [tick EXCEPT ![waveId] = smTick]
    /\ stage' = [stage EXCEPT ![waveId] = "queued"]
    /\ tasks' = Append(tasks, waveId)
    /\ waveId' = waveId + 1
    /\ smPc' = "work"
    /\ UNCHANGED <<barrierVars, smTick>>

SMSync ==
    /\ smPc = "work"
    /\ Barrier!SyncArrive(SM)
    /\ smPc' = "sync"
    /\ UNCHANGED <<smTick, waveId, tasks, stage, born, tick>>

(* Past the barrier: sem_post(sem_sc), tick++.                             *)
SMPass ==
    /\ smPc = "sync"
    /\ Barrier!SyncAcquire(SM)
    /\ smTick' = smTick + 1
    /\ smPc' = IF smTick' < Duration THEN "await" ELSE "remove"
    /\ UNCHANGED <<waveId, tasks, stage, born, tick>>

SMRemove ==
    /\ smPc = "remove"
    /\ Barrier!RemoveThread(SM)
    /\ smPc' = "join"
    /\ UNCHANGED <<smTick, waveId, tasks, stage, born, tick>>

(* Mutant: the workers leave at once, whatever is still queued.            *)
SMJoinDropsQueue ==
    /\ smPc = "join"
    /\ Busy = {}
    /\ smPc' = "done"
    /\ UNCHANGED <<barrierVars, smTick, waveId, tasks, stage, born, tick>>

(* pool.shutdown(): the workers first run what is still queued.            *)
SMJoin ==
    /\ smPc = "join"
    /\ tasks = <<>>
    /\ Busy = {}
    /\ smPc' = "done"
    /\ UNCHANGED <<barrierVars, smTick, waveId, tasks, stage, born, tick>>

-----------------------------------------------------------------------------
(* A pool worker and the wave it runs                                      *)

WaveStart(w) ==
    /\ tasks # <<>>
    /\ w = Head(tasks)
    /\ Cardinality(Busy) < Workers
    /\ tasks' = Tail(tasks)
    /\ stage' = [stage EXCEPT ![w] = "started"]
    /\ UNCHANGED <<barrierVars, smPc, smTick, waveId, born, tick>>

(* Mutant: the wave is registered by its creator and again by its thread.  *)
WaveRegisterTwice(w) ==
    /\ stage[w] = "started"
    /\ active' = active + 2
    /\ bar' = [bar EXCEPT ![w] = "inside"]
    /\ stage' = [stage EXCEPT ![w] = "running"]
    /\ UNCHANGED <<waiting, permits, smPc, smTick, waveId, tasks, born, tick>>

WaveRegister(w) ==
    /\ stage[w] = "started"
    /\ Barrier!AddThread(w)
    /\ stage' = [stage EXCEPT ![w] = "running"]
    /\ UNCHANGED <<smPc, smTick, waveId, tasks, born, tick>>

(* Mutant: the loop's test allows a tick too many.                         *)
WaveSyncPastEnd(w) ==
    /\ stage[w] = "running"
    /\ tick[w] <= Duration
    /\ Barrier!SyncArrive(w)
    /\ UNCHANGED <<smPc, smTick, waveId, tasks, stage, born, tick>>

(* One turn of the loop up to sync(): the tick's work is DroneWave's.      *)
WaveSync(w) ==
    /\ stage[w] = "running"
    /\ tick[w] < Duration
    /\ Barrier!SyncArrive(w)
    /\ UNCHANGED <<smPc, smTick, waveId, tasks, stage, born, tick>>

WavePass(w) ==
    /\ stage[w] = "running"
    /\ Barrier!SyncAcquire(w)
    /\ tick' = [tick EXCEPT ![w] = @ + 1]
    /\ UNCHANGED <<smPc, smTick, waveId, tasks, stage, born>>

(* Mutant: the loop ends only after the last tick has been exceeded.       *)
WaveEndLate(w) ==
    /\ stage[w] = "running"
    /\ bar[w] = "inside"
    /\ tick[w] > Duration
    /\ stage' = [stage EXCEPT ![w] = "leaving"]
    /\ UNCHANGED <<barrierVars, smPc, smTick, waveId, tasks, born, tick>>

(* The loop's test fails: no drone is left, or the simulation is over.     *)
WaveEnd(w) ==
    /\ stage[w] = "running"
    /\ bar[w] = "inside"
    /\ tick[w] = Duration \/ tick[w] >= born[w] + MinLife
    /\ stage' = [stage EXCEPT ![w] = "leaving"]
    /\ UNCHANGED <<barrierVars, smPc, smTick, waveId, tasks, born, tick>>

WaveLeave(w) ==
    /\ stage[w] = "leaving"
    /\ Barrier!RemoveThread(w)
    /\ stage' = [stage EXCEPT ![w] = "gone"]
    /\ UNCHANGED <<smPc, smTick, waveId, tasks, born, tick>>

(* A Redis call throws inside Wave::Run: pipe.exec() in the loop or srem   *)
(* after it.  The catch clauses log; remove_thread() is not called.        *)
WaveFail(w) ==
    /\ RedisFails
    /\ stage[w] \in {"running", "leaving"}
    /\ Barrier!AbandonThread(w)
    /\ stage' = [stage EXCEPT ![w] = "failed"]
    /\ UNCHANGED <<smPc, smTick, waveId, tasks, born, tick>>

-----------------------------------------------------------------------------
SMNext == SMAdd \/ SMTickPlain \/ SMTickSpawn \/ SMSync \/ SMPass \/ SMRemove \/ SMJoin

(* The steps a worker takes without a Redis failure.                       *)
WaveNext(w) ==
    \/ WaveStart(w)
    \/ WaveRegister(w)
    \/ WaveSync(w)
    \/ WavePass(w)
    \/ WaveEnd(w)
    \/ WaveLeave(w)

Next == SMNext \/ \E w \in Waves : WaveNext(w) \/ WaveFail(w)

Spec == Init /\ [][Next]_vars

(* Every thread that can run does: the operating system's scheduling, and  *)
(* Main posting sem_sync_sc for every tick that was acknowledged.          *)
FairSpec == Spec /\ WF_vars(SMNext) /\ \A w \in Waves : WF_vars(WaveNext(w))

-----------------------------------------------------------------------------
(* Properties                                                              *)

(* Types of the process's shared state (ScannerManager.h:28-32, Wave.h).   *)
TypeOK ==
    /\ Barrier!TypeOK
    /\ smPc \in SmPcSet
    /\ smTick \in 0 .. Duration
    /\ waveId \in 0 .. Cardinality(Waves)
    /\ tasks \in Seq(Waves)
    /\ stage \in [Waves -> StageSet]
    /\ born \in [Waves -> 0 .. Duration]
    /\ tick \in [Waves -> 0 .. Duration]

(* All members of the barrier wait without a permit only after somebody    *)
(* has left it: late registrations, full pools and stolen permits alone    *)
(* never stop the process (ThreadUtils.cpp:80-116, Wave.cpp:178,258,       *)
(* ScannerManager.cpp:152).                                                *)
StuckOnlyByDeparture ==
    Barrier!Starved =>
        smPc \in {"join", "done"} \/ \E w \in Waves : stage[w] = "gone"

(* When the pool has been shut down every wave that was spawned has run to *)
(* its end, also those still queued when stop was set                      *)
(* (ThreadUtils.cpp:43-59, ScannerManager.cpp:153).                        *)
ShutdownDrains ==
    smPc = "done" => \A w \in Waves : w < waveId => stage[w] \in {"gone", "failed"}

(* The process runs to its end unless the barrier gets stuck: neither the  *)
(* pool running out of workers, nor a late registration, nor a stolen      *)
(* permit can hang it (ScannerManager.cpp:103-153).                        *)
HangsOnlyOnBarrier == <>(smPc = "done" \/ Barrier!Starved \/ Barrier!Lost # {})

(* Claim of the documentation, not of the code: threads are synchronised   *)
(* at every tick.  A wave in its loop is not ahead of the manager by more  *)
(* than the tick the manager is about to leave (Wave.cpp:250-252).         *)
NoWaveAhead == \A w \in Waves : stage[w] = "running" => tick[w] <= smTick + 1

(* Claim of the documentation: every tick is finished by all threads, so   *)
(* the process ends (ScannerManager.cpp:103-164).                          *)
Terminates == <>(smPc = "done")
=============================================================================
