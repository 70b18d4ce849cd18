------------------------ MODULE ScannerManager_proofs ------------------------
(***************************************************************************)
(* Proofs about the Drone process, for every number of waves and workers.  *)
(* Its steps are those of ThreadSemaphore or leave the barrier alone, so   *)
(* the invariant proved there holds of the barrier in the process.         *)
(***************************************************************************)
EXTENDS ScannerManager, FiniteSetTheorems, TLAPS

(* A step of the process that is one of a thread's barrier operations.     *)
LEMMA BarrierStep ==
    ASSUME NEW t \in Threads,
           \/ Barrier!AddThread(t) \/ Barrier!RemoveThread(t)
           \/ Barrier!SyncArrive(t) \/ Barrier!SyncAcquire(t)
           \/ Barrier!AbandonThread(t)
    PROVE  Barrier!Next
BY DEF Barrier!Next

(* Every step of the process is a barrier operation of the thread that     *)
(* takes it, or leaves the barrier alone.                                  *)
LEMMA RefineNext == [Next]_vars => [Barrier!Next]_(Barrier!vars)
<1> SUFFICES ASSUME [Next]_vars PROVE [Barrier!Next]_(Barrier!vars)
  OBVIOUS
<1>0. SM \in Threads /\ \A w \in Waves : w \in Threads
  BY DEF Threads
<1>1. CASE SMAdd
  BY <1>0, <1>1, BarrierStep DEF SMAdd
<1>2. CASE SMTickPlain \/ SMTickSpawn \/ SMJoin
  BY <1>2 DEF SMTickPlain, SMTickSpawn, SMJoin, barrierVars, Barrier!vars
<1>3. CASE SMSync
  BY <1>0, <1>3, BarrierStep DEF SMSync
<1>4. CASE SMPass
  BY <1>0, <1>4, BarrierStep DEF SMPass
<1>5. CASE SMRemove
  BY <1>0, <1>5, BarrierStep DEF SMRemove
<1>6. ASSUME NEW w \in Waves, WaveNext(w) PROVE [Barrier!Next]_(Barrier!vars)
  <2>1. CASE WaveStart(w) \/ WaveEnd(w)
    BY <2>1 DEF WaveStart, WaveEnd, barrierVars, Barrier!vars
  <2>2. CASE WaveRegister(w)
    BY <1>0, <2>2, BarrierStep DEF WaveRegister
  <2>3. CASE WaveSync(w)
    BY <1>0, <2>3, BarrierStep DEF WaveSync
  <2>4. CASE WavePass(w)
    BY <1>0, <2>4, BarrierStep DEF WavePass
  <2>5. CASE WaveLeave(w)
    BY <1>0, <2>5, BarrierStep DEF WaveLeave
  <2> QED BY <1>6, <2>1, <2>2, <2>3, <2>4, <2>5 DEF WaveNext
<1>7. ASSUME NEW w \in Waves, WaveFail(w) PROVE [Barrier!Next]_(Barrier!vars)
  BY <1>0, <1>7, BarrierStep DEF WaveFail
<1>8. CASE UNCHANGED vars
  BY <1>8 DEF vars, Barrier!vars
<1> QED BY <1>1, <1>2, <1>3, <1>4, <1>5, <1>6, <1>7, <1>8 DEF Next, SMNext

-----------------------------------------------------------------------------
(* ShutdownDrains.  A wave that was created is in the queue, with a worker *)
(* or over; once the workers have left nothing enters the queue any more.  *)

Worked == {"started", "running", "leaving"}

DrainType ==
    /\ stage \in [Waves -> StageSet]
    /\ waveId \in Nat
    /\ tasks \in Seq(Nat)

Created == \A w \in Waves : w < waveId => stage[w] # "none"

Queued == \A w \in Waves :
            stage[w] = "queued" => \E i \in 1 .. Len(tasks) : tasks[i] = w

Drained == smPc = "done" => tasks = <<>> /\ \A w \in Waves : stage[w] \notin Worked

DrainInv == DrainType /\ Created /\ Queued /\ Drained

(* A wave that moves on from one stage to another, the queue as it was.    *)
LEMMA StageStep ==
    ASSUME DrainInv, NEW w \in Waves, NEW s \in StageSet \ {"none", "queued"},
           stage[w] \in Worked, stage' = [stage EXCEPT ![w] = s],
           UNCHANGED <<smPc, waveId, tasks>>
    PROVE  DrainInv'
<1>1. DrainType'
  BY DEF DrainInv, DrainType
<1>2. smPc' # "done"
  BY DEF DrainInv, Drained
<1>3. Created' /\ Queued'
  BY DEF DrainInv, DrainType, Created, Queued
<1> QED BY <1>1, <1>2, <1>3 DEF DrainInv, Drained

(* Steps that leave the stages, the queue and the number of waves alone.   *)
LEMMA StageFrame ==
    ASSUME DrainInv, UNCHANGED <<stage, waveId, tasks>>,
           smPc' = "done" => Drained'
    PROVE  DrainInv'
BY DEF DrainInv, DrainType, Created, Queued, Drained

(* SpawnWave: the new wave is created and queued.                          *)
LEMMA SpawnDrain == DrainInv /\ SMTickSpawn => DrainInv'
<1> SUFFICES ASSUME DrainInv, SMTickSpawn PROVE DrainInv'
  OBVIOUS
<1>1. /\ stage' = [stage EXCEPT ![waveId] = "queued"]
      /\ tasks' = Append(tasks, waveId)
      /\ waveId' = waveId + 1
      /\ smPc' = "work"
  BY DEF SMTickSpawn
<1>2. /\ Len(tasks) \in Nat /\ Len(tasks') = Len(tasks) + 1
      /\ tasks'[Len(tasks) + 1] = waveId
      /\ \A i \in 1 .. Len(tasks) : tasks'[i] = tasks[i]
  BY <1>1 DEF DrainInv, DrainType
<1>3. DrainType'
  <2>1. waveId + 1 \in Nat
    BY DEF DrainInv, DrainType
  <2>2. Append(tasks, waveId) \in Seq(Nat)
    BY DEF DrainInv, DrainType
  <2>3. [stage EXCEPT ![waveId] = "queued"] \in [Waves -> StageSet]
    BY DEF DrainInv, DrainType, StageSet
  <2> QED BY <1>1, <2>1, <2>2, <2>3 DEF DrainType
<1>4. Created'
  <2> SUFFICES ASSUME NEW w \in Waves, w < waveId' PROVE stage'[w] # "none"
    BY DEF Created
  <2>1. w \in Nat
    BY ScannerAssumption DEF Waves
  <2>2. CASE w = waveId
    BY <1>1, <2>2 DEF DrainInv, DrainType
  <2>3. CASE w # waveId
    <3>1. w < waveId
      BY <1>1, <2>1, <2>3 DEF DrainInv, DrainType
    <3> QED BY <1>1, <2>3, <3>1 DEF DrainInv, DrainType, Created
  <2> QED BY <2>2, <2>3
<1>5. Queued'
  <2> SUFFICES ASSUME NEW w \in Waves, stage'[w] = "queued"
               PROVE  \E i \in 1 .. Len(tasks') : tasks'[i] = w
    BY DEF Queued
  <2>1. CASE w = waveId
    BY <1>2, <2>1
  <2>2. CASE w # waveId
    <3>1. stage[w] = "queued"
      BY <1>1, <2>2 DEF DrainInv, DrainType
    <3>2. PICK i \in 1 .. Len(tasks) : tasks[i] = w
      BY <3>1 DEF DrainInv, Queued
    <3> QED BY <1>2, <3>2
  <2> QED BY <2>1, <2>2
<1> QED BY <1>1, <1>3, <1>4, <1>5 DEF DrainInv, Drained

(* A worker takes the first wave of the queue.                             *)
LEMMA StartDrain ==
    ASSUME DrainInv, NEW w \in Waves, WaveStart(w)
    PROVE  DrainInv'
<1>1. /\ tasks # <<>> /\ w = Head(tasks) /\ tasks' = Tail(tasks)
      /\ stage' = [stage EXCEPT ![w] = "started"]
      /\ waveId' = waveId /\ smPc' = smPc
  BY DEF WaveStart
<1>2. /\ Len(tasks) \in Nat \ {0} /\ Len(tasks') = Len(tasks) - 1
      /\ w = tasks[1]
      /\ \A i \in 1 .. Len(tasks') : tasks'[i] = tasks[i + 1]
  BY <1>1 DEF DrainInv, DrainType
<1>3. DrainType' /\ Created'
  BY <1>1 DEF DrainInv, DrainType, Created, StageSet
<1>4. Queued'
  <2> SUFFICES ASSUME NEW v \in Waves, stage'[v] = "queued"
               PROVE  \E i \in 1 .. Len(tasks') : tasks'[i] = v
    BY DEF Queued
  <2>1. v # w /\ stage[v] = "queued"
    BY <1>1 DEF DrainInv, DrainType
  <2>2. PICK i \in 1 .. Len(tasks) : tasks[i] = v
    BY <2>1 DEF DrainInv, Queued
  <2>3. i # 1
    BY <1>2, <2>1, <2>2
  <2>4. i - 1 \in 1 .. Len(tasks') /\ tasks'[i - 1] = v
    BY <1>2, <2>2, <2>3
  <2> QED BY <2>4
<1>5. smPc' # "done"
  BY <1>1 DEF DrainInv, Drained
<1> QED BY <1>3, <1>4, <1>5 DEF DrainInv, Drained

(* Every step preserves the invariant.                                     *)
LEMMA NextDrain == DrainInv /\ [Next]_vars => DrainInv'
<1> SUFFICES ASSUME DrainInv, [Next]_vars PROVE DrainInv'
  OBVIOUS
<1>1. CASE SMAdd \/ SMTickPlain \/ SMSync \/ SMRemove
  <2>1. smPc' # "done" /\ UNCHANGED <<stage, waveId, tasks>>
    BY <1>1 DEF SMAdd, SMTickPlain, SMSync, SMRemove
  <2> QED BY <2>1, StageFrame
<1>2. CASE SMPass
  <2>1. smPc' # "done" /\ UNCHANGED <<stage, waveId, tasks>>
    BY <1>2 DEF SMPass
  <2> QED BY <2>1, StageFrame
<1>3. CASE SMTickSpawn
  BY <1>3, SpawnDrain
<1>4. CASE SMJoin
  <2>1. /\ tasks = <<>> /\ tasks' = tasks /\ stage' = stage /\ waveId' = waveId
        /\ Busy = {}
    BY <1>4 DEF SMJoin
  <2>2. \A w \in Waves : stage[w] \notin Worked
    BY <2>1 DEF Busy, Worked
  <2> QED BY <2>1, <2>2, StageFrame DEF Drained
<1>5. ASSUME NEW w \in Waves, WaveNext(w) PROVE DrainInv'
  <2>1. CASE WaveStart(w)
    BY <2>1, StartDrain
  <2>2. CASE WaveRegister(w)
    BY <2>2, StageStep DEF WaveRegister, Worked, StageSet
  <2>3. CASE WaveSync(w) \/ WavePass(w)
    BY <2>3, StageFrame DEF WaveSync, WavePass, DrainInv, Drained
  <2>4. CASE WaveEnd(w)
    BY <2>4, StageStep DEF WaveEnd, Worked, StageSet
  <2>5. CASE WaveLeave(w)
    BY <2>5, StageStep DEF WaveLeave, Worked, StageSet
  <2> QED BY <1>5, <2>1, <2>2, <2>3, <2>4, <2>5 DEF WaveNext
<1>6. ASSUME NEW w \in Waves, WaveFail(w) PROVE DrainInv'
  BY <1>6, StageStep DEF WaveFail, Worked, StageSet
<1>7. CASE UNCHANGED vars
  BY <1>7, StageFrame DEF vars, DrainInv, Drained
<1> QED BY <1>1, <1>2, <1>3, <1>4, <1>5, <1>6, <1>7 DEF Next, SMNext

(* Initially nothing is created and nothing queued.                        *)
LEMMA InitDrain == Init => DrainInv
<1> SUFFICES ASSUME Init PROVE DrainInv
  OBVIOUS
<1>1. /\ waveId = 0 /\ tasks = <<>> /\ smPc = "init"
      /\ stage = [w \in Waves |-> "none"]
  BY DEF Init
<1>2. \A w \in Waves : w \in Nat
  BY ScannerAssumption DEF Waves
<1> QED BY <1>1, <1>2 DEF DrainInv, DrainType, Created, Queued, Drained, StageSet

(* When the pool has been shut down every spawned wave has run to its end, *)
(* however many were queued and however few workers there are              *)
(* (ThreadUtils.cpp:43-59, ScannerManager.cpp:153).                        *)
THEOREM ShutdownDrainsHolds == Spec => []ShutdownDrains
<1>1. DrainInv => ShutdownDrains
  <2> SUFFICES ASSUME DrainInv, smPc = "done", NEW w \in Waves, w < waveId
               PROVE  stage[w] \in {"gone", "failed"}
    BY DEF ShutdownDrains
  <2>1. stage[w] \in StageSet /\ stage[w] # "none" /\ stage[w] \notin Worked
    BY DEF DrainInv, DrainType, Created, Drained
  <2>2. stage[w] # "queued"
    BY DEF DrainInv, Queued, Drained
  <2> QED BY <2>1, <2>2 DEF StageSet, Worked
<1> QED BY <1>1, InitDrain, NextDrain, PTL DEF Spec

-----------------------------------------------------------------------------
(* The barrier in the process: what ThreadSemaphore_proofs shows of a step *)
(* of the barrier holds of every step of the process.                      *)

BarrierProofs == INSTANCE ThreadSemaphore_proofs WITH pc <- bar

LEMMA FiniteThreads ==
    /\ IsFiniteSet(Threads)
    /\ Cardinality(Waves) = (Duration - 1) \div WaveDistance + 1
    /\ (Duration - 1) \div WaveDistance \in Nat
<1>1. (Duration - 1) \div WaveDistance \in Nat
  BY ScannerAssumption
<1>2. IsFiniteSet(Waves) /\ Cardinality(Waves) = (Duration - 1) \div WaveDistance + 1
  BY <1>1, FS_Interval DEF Waves
<1> QED
  BY <1>1, <1>2, FS_Union, FS_Singleton DEF Threads

LEMMA BarrierFinite == BarrierProofs!IsFiniteSet(Threads)
BY FiniteThreads DEF IsFiniteSet, BarrierProofs!IsFiniteSet

LEMMA BarrierInit == Init => BarrierProofs!IInv
BY BarrierFinite, BarrierProofs!InitInv DEF Init, Barrier!Init, BarrierProofs!Init

LEMMA BarrierStepping == [Next]_vars => [BarrierProofs!Next]_(BarrierProofs!vars)
BY RefineNext
   DEF Barrier!Next, Barrier!vars, BarrierProofs!Next, BarrierProofs!vars,
       Barrier!AddThread, BarrierProofs!AddThread, Barrier!RemoveThread,
       BarrierProofs!RemoveThread, Barrier!SyncArrive, BarrierProofs!SyncArrive,
       Barrier!SyncEarly, BarrierProofs!SyncEarly, Barrier!SyncLast, BarrierProofs!SyncLast,
       Barrier!SyncAcquire, BarrierProofs!SyncAcquire, Barrier!AbandonThread,
       BarrierProofs!AbandonThread, Barrier!Move, BarrierProofs!Move

LEMMA BarrierNext == BarrierProofs!IInv /\ [Next]_vars => BarrierProofs!IInv'
BY BarrierStepping, BarrierFinite, BarrierProofs!NextInv

LEMMA BarrierTypes == BarrierProofs!IInv => Barrier!TypeOK
BY DEF BarrierProofs!IInv, BarrierProofs!TypeOK, Barrier!TypeOK, BarrierProofs!PcSet,
       Barrier!PcSet

-----------------------------------------------------------------------------
(* TypeOK.  The manager spawns at most one wave per WaveDistance ticks, so *)
(* no wave is created beyond the last.                                     *)

LEMMA QuotientBound ==
    ASSUME NEW n \in Nat, NEW U \in Nat, NEW D \in Nat \ {0}, n * D < U
    PROVE  n <= (U - 1) \div D
<1> DEFINE q == (U - 1) \div D
           m == (U - 1) % D
<1>1. q \in Int /\ m \in 0 .. D - 1 /\ U - 1 = D * q + m
  OBVIOUS
<1>2. n * D < D * q + D
  BY <1>1
<1> HIDE DEF q, m
<1>3. CASE n >= q + 1
  <2>1. PICK j \in Nat : n = q + 1 + j
    <3>1. n - (q + 1) \in Nat
      BY <1>1, <1>3
    <3> QED BY <3>1, <1>1
  <2>2. n * D = D * q + D + j * D
    BY <1>1, <2>1
  <2>3. j * D \in Nat
    BY <2>1
  <2>4. D * q \in Int
    BY <1>1
  <2> QED BY <1>2, <2>2, <2>3, <2>4
<1>4. n <= q
  BY <1>1, <1>3
<1> QED BY <1>4 DEF q

(* What a spawn tick adds to the bound.                                    *)
LEMMA MultipleBound ==
    ASSUME NEW n \in Nat, NEW T \in Nat, NEW D \in Nat \ {0}, T % D = 0, n * D < T + D
    PROVE  n * D <= T
<1> DEFINE q == T \div D
<1>1. q \in Nat /\ T = D * q
  OBVIOUS
<1> HIDE DEF q
<1>2. CASE n >= q + 1
  <2>1. PICK j \in Nat : n = q + 1 + j
    <3>1. n - (q + 1) \in Nat
      BY <1>1, <1>2
    <3> QED BY <3>1, <1>1
  <2>2. n * D = D * q + D + j * D
    BY <1>1, <2>1
  <2>3. j * D \in Nat
    BY <2>1
  <2> QED BY <1>1, <2>2, <2>3
<1>3. CASE n <= q
  <2>1. PICK j \in Nat : q = n + j
    <3>1. q - n \in Nat
      BY <1>1, <1>3
    <3> QED BY <3>1, <1>1
  <2>2. D * q = n * D + j * D
    BY <1>1, <2>1
  <2>3. j * D \in Nat /\ n * D \in Nat
    BY <2>1
  <2> QED BY <1>1, <2>2, <2>3
<1> QED BY <1>1, <1>2, <1>3

Span == waveId * WaveDistance

(* The manager: its control point, its tick and the waves it has created.  *)
CountInv ==
    /\ smPc \in SmPcSet
    /\ smTick \in 0 .. Duration
    /\ smPc \in {"init", "await", "work", "sync"} => smTick < Duration
    /\ waveId \in Nat
    /\ Span <= smTick + WaveDistance
    /\ smPc \notin {"work", "sync"} => Span < smTick + WaveDistance

(* The queue holds waves that exist, each once; those to come have no      *)
(* stage yet.                                                              *)
QueueInv ==
    /\ tasks \in Seq(Waves)
    /\ \A i \in 1 .. Len(tasks) : tasks[i] < waveId /\ stage[tasks[i]] = "queued"
    /\ \A i, j \in 1 .. Len(tasks) : tasks[i] = tasks[j] => i = j
    /\ stage \in [Waves -> StageSet]
    /\ \A w \in Waves : w >= waveId => stage[w] = "none"

(* A wave in sync() has a tick to go.                                      *)
TickInv ==
    /\ born \in [Waves -> 0 .. Duration]
    /\ tick \in [Waves -> 0 .. Duration]
    /\ \A w \in Waves : bar[w] = "blocked" => tick[w] < Duration

TypeInv == BarrierProofs!IInv /\ CountInv /\ QueueInv /\ TickInv

(* A spawn stays within the waves there are.                               *)
LEMMA SpawnInRange ==
    ASSUME CountInv, SMTickSpawn
    PROVE  waveId \in Waves /\ Span <= smTick /\ smTick < Duration
<1>1. /\ smTick \in Nat /\ smTick < Duration /\ smTick % WaveDistance = 0
      /\ waveId \in Nat /\ Span < smTick + WaveDistance
  BY DEF CountInv, SMTickSpawn
<1>2. Span <= smTick
  BY <1>1, MultipleBound, ScannerAssumption DEF Span
<1>3. Span \in Nat
  BY <1>1, ScannerAssumption DEF Span
<1>4. waveId * WaveDistance < Duration
  BY <1>1, <1>2, <1>3, ScannerAssumption DEF Span
<1>5. waveId <= (Duration - 1) \div WaveDistance
  BY <1>1, <1>4, QuotientBound, ScannerAssumption
<1> QED
  BY <1>1, <1>2, <1>5, FiniteThreads DEF Waves

LEMMA CountFrame ==
    ASSUME CountInv, UNCHANGED <<smPc, smTick, waveId>>
    PROVE  CountInv'
BY DEF CountInv, Span

LEMMA NextCount == CountInv /\ [Next]_vars => CountInv'
<1> SUFFICES ASSUME CountInv, [Next]_vars PROVE CountInv'
  OBVIOUS
<1>1. Span \in Nat /\ WaveDistance \in Nat \ {0}
  BY ScannerAssumption DEF CountInv, Span
<1>2. CASE SMAdd \/ SMTickPlain \/ SMSync \/ SMRemove \/ SMJoin
  <2>1. Span' = Span
    BY <1>2 DEF SMAdd, SMTickPlain, SMSync, SMRemove, SMJoin, Span
  <2> QED
    BY <1>1, <1>2, <2>1
       DEF SMAdd, SMTickPlain, SMSync, SMRemove, SMJoin, CountInv, SmPcSet
<1>3. CASE SMTickSpawn
  <2>1. Span <= smTick /\ smTick < Duration
    BY <1>3, SpawnInRange
  <2>2. smPc' = "work" /\ smTick' = smTick /\ waveId' = waveId + 1
    BY <1>3 DEF SMTickSpawn
  <2>3. Span' = Span + WaveDistance
    BY <2>2, <1>1 DEF Span, CountInv
  <2> QED
    BY <1>1, <2>1, <2>2, <2>3 DEF CountInv, SmPcSet
<1>4. CASE SMPass
  <2>1. /\ smPc = "sync" /\ smTick' = smTick + 1 /\ waveId' = waveId /\ Span' = Span
        /\ smPc' = IF smTick' < Duration THEN "await" ELSE "remove"
    BY <1>4 DEF SMPass, Span
  <2> QED
    BY <1>1, <2>1, ScannerAssumption DEF CountInv, SmPcSet
<1>5. ASSUME NEW w \in Waves, WaveNext(w) \/ WaveFail(w) PROVE CountInv'
  BY <1>5, CountFrame DEF WaveNext, WaveStart, WaveRegister, WaveSync, WavePass, WaveEnd,
     WaveLeave, WaveFail
<1>6. CASE UNCHANGED vars
  BY <1>6, CountFrame DEF vars
<1> QED
  BY <1>2, <1>3, <1>4, <1>5, <1>6 DEF Next, SMNext

LEMMA NextQueue == CountInv /\ QueueInv /\ [Next]_vars => QueueInv'
<1> SUFFICES ASSUME CountInv, QueueInv, [Next]_vars PROVE QueueInv'
  OBVIOUS
<1>0. waveId \in Nat /\ \A w \in Waves : w \in Nat
  BY FiniteThreads DEF CountInv, Waves
<1>1. CASE SMTickSpawn
  <2>1. waveId \in Waves
    BY <1>1, SpawnInRange
  <2>2. /\ stage' = [stage EXCEPT ![waveId] = "queued"]
        /\ tasks' = Append(tasks, waveId) /\ waveId' = waveId + 1
    BY <1>1 DEF SMTickSpawn
  <2>3. /\ tasks' \in Seq(Waves) /\ Len(tasks') = Len(tasks) + 1 /\ Len(tasks) \in Nat
        /\ tasks'[Len(tasks) + 1] = waveId
        /\ \A i \in 1 .. Len(tasks) : tasks'[i] = tasks[i] /\ tasks[i] \in Waves
    BY <2>1, <2>2 DEF QueueInv
  <2>4. ASSUME NEW i \in 1 .. Len(tasks')
        PROVE  tasks'[i] < waveId' /\ stage'[tasks'[i]] = "queued"
    <3>1. CASE i = Len(tasks) + 1
      BY <1>0, <2>1, <2>2, <2>3, <3>1 DEF QueueInv
    <3>2. CASE i \in 1 .. Len(tasks)
      <4>1. /\ tasks'[i] = tasks[i] /\ tasks[i] < waveId /\ tasks[i] \in Waves
            /\ stage[tasks[i]] = "queued"
        BY <2>3, <3>2 DEF QueueInv
      <4> QED
        BY <1>0, <2>2, <4>1 DEF QueueInv
    <3> QED
      BY <2>3, <3>1, <3>2
  <2>6. ASSUME NEW i \in 1 .. Len(tasks'), NEW j \in 1 .. Len(tasks'), tasks'[i] = tasks'[j]
        PROVE  i = j
    <3>1. \A k \in 1 .. Len(tasks) : tasks'[k] = tasks[k] /\ tasks[k] < waveId
      BY <2>3 DEF QueueInv
    <3>2. CASE i = Len(tasks) + 1 /\ j \in 1 .. Len(tasks)
      BY <1>0, <2>3, <2>6, <3>1, <3>2
    <3>3. CASE j = Len(tasks) + 1 /\ i \in 1 .. Len(tasks)
      BY <1>0, <2>3, <2>6, <3>1, <3>3
    <3>4. CASE i \in 1 .. Len(tasks) /\ j \in 1 .. Len(tasks)
      BY <2>6, <3>1, <3>4 DEF QueueInv
    <3> QED
      BY <2>3, <3>2, <3>3, <3>4
  <2>5. /\ stage' \in [Waves -> StageSet]
        /\ \A w \in Waves : w >= waveId' => stage'[w] = "none"
    <3>1. stage' \in [Waves -> StageSet]
      BY <2>2 DEF QueueInv, StageSet
    <3>2. ASSUME NEW w \in Waves, w >= waveId + 1 PROVE w >= waveId /\ w # waveId
      BY <1>0, <3>2
    <3>3. \A w \in Waves : w # waveId => stage'[w] = stage[w]
      BY <2>2 DEF QueueInv
    <3> QED
      BY <2>2, <3>1, <3>2, <3>3 DEF QueueInv
  <2> QED
    BY <2>3, <2>4, <2>5, <2>6 DEF QueueInv
<1>2. ASSUME NEW w \in Waves, WaveStart(w) PROVE QueueInv'
  <2>1. /\ tasks # <<>> /\ w = Head(tasks) /\ tasks' = Tail(tasks)
        /\ stage' = [stage EXCEPT ![w] = "started"] /\ waveId' = waveId
    BY <1>2 DEF WaveStart
  <2>2. /\ tasks' \in Seq(Waves) /\ w = tasks[1] /\ Len(tasks) \in Nat \ {0}
        /\ Len(tasks') = Len(tasks) - 1
        /\ \A i \in 1 .. Len(tasks') : tasks'[i] = tasks[i + 1]
    BY <2>1 DEF QueueInv
  <2>3. w < waveId
    BY <2>2 DEF QueueInv
  <2>4. ASSUME NEW i \in 1 .. Len(tasks')
        PROVE  tasks'[i] < waveId' /\ stage'[tasks'[i]] = "queued"
    <3>1. /\ i + 1 \in 1 .. Len(tasks) /\ tasks'[i] = tasks[i + 1] /\ 1 \in 1 .. Len(tasks)
          /\ i + 1 # 1
      BY <2>2
    <3>2. /\ tasks'[i] # w /\ tasks'[i] \in Waves /\ tasks'[i] < waveId
          /\ stage[tasks'[i]] = "queued"
      BY <2>2, <3>1 DEF QueueInv
    <3> QED
      BY <2>1, <3>2 DEF QueueInv
  <2>5. /\ stage' \in [Waves -> StageSet]
        /\ \A v \in Waves : v >= waveId' => stage'[v] = "none"
    BY <1>0, <2>1, <2>3 DEF QueueInv, StageSet
  <2>6. ASSUME NEW i \in 1 .. Len(tasks'), NEW j \in 1 .. Len(tasks'), tasks'[i] = tasks'[j]
        PROVE  i = j
    <3>1. /\ i + 1 \in 1 .. Len(tasks) /\ j + 1 \in 1 .. Len(tasks)
          /\ tasks[i + 1] = tasks[j + 1]
      BY <2>2, <2>6
    <3>2. i + 1 = j + 1
      BY <3>1 DEF QueueInv
    <3> QED
      BY <3>2
  <2> QED
    BY <2>2, <2>4, <2>5, <2>6 DEF QueueInv
<1>3. ASSUME NEW w \in Waves, NEW s \in StageSet, stage[w] \notin {"none", "queued"},
             stage' = [stage EXCEPT ![w] = s], UNCHANGED <<tasks, waveId>>
      PROVE  QueueInv'
  <2>1. \A i \in 1 .. Len(tasks) : tasks[i] \in Waves /\ tasks[i] # w
    BY <1>3 DEF QueueInv
  <2> QED
    BY <1>3, <2>1 DEF QueueInv
<1>4. ASSUME UNCHANGED <<tasks, waveId, stage>> PROVE QueueInv'
  BY <1>4 DEF QueueInv
<1>5. ASSUME NEW w \in Waves, WaveNext(w) \/ WaveFail(w) PROVE QueueInv'
  <2>1. CASE WaveStart(w)
    BY <1>2, <2>1
  <2>2. CASE WaveRegister(w) \/ WaveEnd(w) \/ WaveLeave(w) \/ WaveFail(w)
    <3>1. /\ stage[w] \notin {"none", "queued"} /\ UNCHANGED <<tasks, waveId>>
          /\ \E s \in StageSet : stage' = [stage EXCEPT ![w] = s]
      BY <2>2 DEF WaveRegister, WaveEnd, WaveLeave, WaveFail, StageSet
    <3> QED
      BY <1>3, <3>1
  <2>3. CASE WaveSync(w) \/ WavePass(w)
    BY <1>4, <2>3 DEF WaveSync, WavePass
  <2> QED
    BY <1>5, <2>1, <2>2, <2>3 DEF WaveNext
<1>6. CASE SMAdd \/ SMTickPlain \/ SMSync \/ SMPass \/ SMRemove \/ SMJoin \/ UNCHANGED vars
  BY <1>4, <1>6 DEF SMAdd, SMTickPlain, SMSync, SMPass, SMRemove, SMJoin, vars
<1> QED
  BY <1>1, <1>5, <1>6 DEF Next, SMNext

LEMMA NextTick ==
    TypeInv /\ Barrier!TypeOK /\ [Next]_vars => TickInv'
<1> SUFFICES ASSUME TypeInv, Barrier!TypeOK, [Next]_vars PROVE TickInv'
  OBVIOUS
<1>0. /\ SM \in Threads /\ \A w \in Waves : w \in Threads
      /\ \A w \in Waves : tick[w] \in 0 .. Duration
  BY DEF Threads, TypeInv, TickInv
<1>1. bar \in [Threads -> Barrier!PcSet] /\ Duration \in Nat /\ TickInv
  BY ScannerAssumption DEF TypeInv, Barrier!TypeOK
<1>2. ASSUME NEW t \in Threads, NEW to \in Barrier!PcSet \ {"blocked"},
             bar' = [bar EXCEPT ![t] = to], UNCHANGED <<born, tick>>
      PROVE  TickInv'
  BY <1>0, <1>1, <1>2 DEF TickInv
<1>3. CASE SMTickSpawn
  <2>1. /\ smTick \in 0 .. Duration /\ smTick < Duration /\ bar' = bar
        /\ born' = [born EXCEPT ![waveId] = smTick]
        /\ tick' = [tick EXCEPT ![waveId] = smTick]
    BY <1>3, SpawnInRange DEF SMTickSpawn, barrierVars, TypeInv, CountInv
  <2> QED
    BY <1>1, <2>1 DEF TickInv
<1>4. CASE SMSync
  <2>1. bar' = [bar EXCEPT ![SM] = "blocked"] /\ UNCHANGED <<born, tick>>
    BY <1>4 DEF SMSync, Barrier!SyncArrive, Barrier!SyncEarly, Barrier!SyncLast, Barrier!Move
  <2>2. ASSUME NEW w \in Waves, bar'[w] = "blocked" PROVE bar[w] = "blocked"
    <3>1. w # SM
      BY <2>2, ManagerAssumption
    <3> QED
      BY <1>0, <1>1, <2>1, <2>2, <3>1
  <2> QED
    BY <1>1, <2>1, <2>2 DEF TickInv
<1>5. CASE SMAdd \/ SMPass \/ SMRemove
  <2>1. /\ UNCHANGED <<born, tick>>
        /\ \E to \in Barrier!PcSet \ {"blocked"} : bar' = [bar EXCEPT ![SM] = to]
    BY <1>5 DEF SMAdd, SMPass, SMRemove, Barrier!AddThread, Barrier!SyncAcquire,
       Barrier!RemoveThread, Barrier!Move, Barrier!PcSet
  <2> QED
    BY <1>0, <1>2, <2>1
<1>6. CASE SMTickPlain \/ SMJoin \/ UNCHANGED vars
  BY <1>1, <1>6 DEF SMTickPlain, SMJoin, vars, barrierVars, TickInv
<1>7. ASSUME NEW w \in Waves, WaveNext(w) \/ WaveFail(w) PROVE TickInv'
  <2>1. CASE WaveStart(w) \/ WaveEnd(w)
    BY <1>1, <2>1 DEF WaveStart, WaveEnd, barrierVars, TickInv
  <2>2. CASE WaveRegister(w) \/ WaveLeave(w) \/ WaveFail(w)
    <3>1. /\ UNCHANGED <<born, tick>>
          /\ \E to \in Barrier!PcSet \ {"blocked"} : bar' = [bar EXCEPT ![w] = to]
      BY <2>2 DEF WaveRegister, WaveLeave, WaveFail, Barrier!AddThread,
         Barrier!RemoveThread, Barrier!AbandonThread, Barrier!Move, Barrier!PcSet
    <3> QED
      BY <1>0, <1>2, <3>1
  <2>3. CASE WaveSync(w)
    <3>1. /\ bar' = [bar EXCEPT ![w] = "blocked"] /\ UNCHANGED <<born, tick>>
          /\ tick[w] < Duration
      BY <2>3 DEF WaveSync, Barrier!SyncArrive, Barrier!SyncEarly, Barrier!SyncLast,
         Barrier!Move
    <3> QED
      BY <1>0, <1>1, <3>1 DEF TickInv
  <2>4. CASE WavePass(w)
    <3>1. /\ bar[w] = "blocked" /\ bar' = [bar EXCEPT ![w] = "inside"]
          /\ tick' = [tick EXCEPT ![w] = @ + 1] /\ UNCHANGED born
      BY <2>4 DEF WavePass, Barrier!SyncAcquire, Barrier!Move
    <3>2. tick[w] + 1 \in 0 .. Duration
      BY <1>0, <1>1, <3>1 DEF TickInv
    <3>3. ASSUME NEW v \in Waves, bar'[v] = "blocked" PROVE tick'[v] < Duration
      BY <1>0, <1>1, <3>1, <3>3 DEF TickInv
    <3> QED
      BY <1>1, <3>1, <3>2, <3>3 DEF TickInv
  <2> QED
    BY <1>7, <2>1, <2>2, <2>3, <2>4 DEF WaveNext
<1> QED
  BY <1>3, <1>4, <1>5, <1>6, <1>7 DEF Next, SMNext

LEMMA InitTypes == Init => TypeInv
<1> SUFFICES ASSUME Init PROVE TypeInv
  OBVIOUS
<1>1. Duration \in Nat \ {0} /\ WaveDistance \in Nat \ {0}
  BY ScannerAssumption
<1>2. CountInv
  BY <1>1 DEF Init, CountInv, Span, SmPcSet
<1>3. QueueInv
  BY DEF Init, QueueInv, StageSet
<1>4. TickInv
  BY <1>1 DEF Init, TickInv
<1> QED
  BY <1>2, <1>3, <1>4, BarrierInit DEF TypeInv

LEMMA NextTypes == TypeInv /\ [Next]_vars => TypeInv'
BY BarrierNext, BarrierTypes, NextCount, NextQueue, NextTick DEF TypeInv

(* No wave is created beyond the last of the simulation, and no wave's     *)
(* clock passes its end, for every duration, distance and number of        *)
(* workers (ScannerManager.cpp:103-148, Wave.cpp:180-252).                 *)
THEOREM TypeCorrect == Spec => []TypeOK
<1>1. TypeInv => TypeOK
  <2> SUFFICES ASSUME TypeInv PROVE TypeOK
    OBVIOUS
  <2>1. waveId \in 0 .. Cardinality(Waves)
    <3> DEFINE n == waveId - 1
    <3>1. CASE waveId = 0
      BY <3>1, FiniteThreads
    <3>2. CASE waveId # 0
      <4>1. n \in Nat /\ waveId = n + 1
        BY <3>2 DEF TypeInv, CountInv
      <4>2. Span < Duration + WaveDistance
        <5>1. Span \in Nat /\ Duration \in Nat /\ WaveDistance \in Nat
          BY ScannerAssumption DEF Span, TypeInv, CountInv
        <5> QED
          BY <5>1 DEF TypeInv, CountInv
      <4>3. n * WaveDistance < Duration
        <5> HIDE DEF n
        <5>1. Span = n * WaveDistance + WaveDistance
          BY <4>1, ScannerAssumption DEF Span
        <5>2. n * WaveDistance \in Nat
          BY <4>1, ScannerAssumption
        <5> QED
          BY <4>2, <5>1, <5>2, ScannerAssumption
      <4> HIDE DEF n
      <4>4. n <= (Duration - 1) \div WaveDistance
        BY <4>1, <4>3, QuotientBound, ScannerAssumption
      <4> QED
        BY <4>1, <4>4, FiniteThreads
    <3> QED
      BY <3>1, <3>2
  <2> QED
    BY <2>1, BarrierTypes DEF TypeInv, CountInv, QueueInv, TickInv, TypeOK
<1> QED
  BY <1>1, InitTypes, NextTypes, PTL DEF Spec

(* Every wave that waits for a worker is in the queue, once, with nothing  *)
(* else in it; and since wave_id grows by one for each wave, there are no  *)
(* more waves than due ticks up to the manager's (ScannerManager.cpp:53-63,*)
(* ThreadUtils.cpp:33-40,61-78).                                           *)
PoolInv ==
    /\ \A w \in Waves : stage[w] = "queued" => \E i \in 1 .. Len(tasks) : tasks[i] = w
    /\ QueueInv
    /\ CountInv

THEOREM PoolAccounts == Spec => []PoolInv
<1>1. DrainInv /\ TypeInv => PoolInv
  BY DEF DrainInv, Queued, TypeInv, PoolInv
<1>2. Init => DrainInv
  BY InitDrain
<1> QED
  BY <1>1, <1>2, NextDrain, InitTypes, NextTypes, PTL DEF Spec

-----------------------------------------------------------------------------
(* StuckOnlyByDeparture.  Only remove_thread() starves the barrier, and    *)
(* only the end of the manager's loop and of a wave's call it.             *)

StuckInv == TypeInv /\ StuckOnlyByDeparture

LEMMA NextStuck == StuckInv /\ [Next]_vars => StuckInv'
<1> SUFFICES ASSUME StuckInv, [Next]_vars, Barrier!Starved'
             PROVE  smPc' \in {"join", "done"} \/ \E w \in Waves : stage'[w] = "gone"
  BY NextTypes DEF StuckInv, StuckOnlyByDeparture
<1>1. smPc \in {"join", "done"} => smPc' \in {"join", "done"}
  BY DEF Next, SMNext, WaveNext, SMAdd, SMTickPlain, SMTickSpawn, SMSync, SMPass, SMRemove,
     SMJoin, WaveStart, WaveRegister, WaveSync, WavePass, WaveEnd, WaveLeave, WaveFail, vars
<1>2. CASE Barrier!Starved
  <2>1. ASSUME NEW v \in Waves, stage[v] = "gone" PROVE stage'[v] = "gone"
    <3>1. /\ stage \in [Waves -> StageSet] /\ v < waveId /\ waveId \in Nat
      BY <2>1 DEF StuckInv, TypeInv, QueueInv, CountInv, Waves
    <3>2. CASE SMTickSpawn
      BY <2>1, <3>1, <3>2 DEF SMTickSpawn
    <3>3. CASE SMAdd \/ SMTickPlain \/ SMSync \/ SMPass \/ SMRemove \/ SMJoin \/ UNCHANGED vars
      BY <2>1, <3>3 DEF SMAdd, SMTickPlain, SMSync, SMPass, SMRemove, SMJoin, vars
    <3>4. ASSUME NEW w \in Waves, WaveSync(w) \/ WavePass(w) PROVE stage'[v] = "gone"
      BY <2>1, <3>4 DEF WaveSync, WavePass
    <3>5. ASSUME NEW w \in Waves, WaveStart(w) \/ WaveRegister(w) \/ WaveEnd(w)
                                  \/ WaveLeave(w) \/ WaveFail(w)
          PROVE  stage'[v] = "gone"
      <4>1. CASE WaveStart(w)
        <5>1. w = Head(tasks) /\ tasks # <<>> /\ stage' = [stage EXCEPT ![w] = "started"]
          BY <4>1 DEF WaveStart
        <5>2. stage[w] = "queued"
          BY <5>1 DEF StuckInv, TypeInv, QueueInv
        <5> QED
          BY <2>1, <3>1, <5>1, <5>2
      <4>2. CASE WaveRegister(w) \/ WaveEnd(w) \/ WaveLeave(w) \/ WaveFail(w)
        BY <2>1, <3>1, <4>2 DEF WaveRegister, WaveEnd, WaveLeave, WaveFail
      <4> QED
        BY <3>5, <4>1, <4>2
    <3> QED
      BY <3>2, <3>3, <3>4, <3>5 DEF Next, SMNext, WaveNext
  <2> QED
    BY <1>1, <1>2, <2>1 DEF StuckInv, StuckOnlyByDeparture
<1>3. CASE ~Barrier!Starved
  <2>1. \E t \in Threads : BarrierProofs!RemoveThread(t)
    BY <1>3, BarrierStepping, BarrierFinite, BarrierProofs!StarvingStep
       DEF StuckInv, TypeInv, Barrier!Starved, BarrierProofs!Starved, Barrier!Registered,
           BarrierProofs!Registered, Barrier!Blocked, BarrierProofs!Blocked
  <2>2. active \in Nat /\ active' = active - 1
    BY <2>1, BarrierTypes DEF BarrierProofs!RemoveThread, StuckInv, TypeInv, Barrier!TypeOK
  <2>3. SMRemove \/ \E w \in Waves : WaveLeave(w)
    BY <2>2 DEF Next, SMNext, WaveNext, SMAdd, SMTickPlain, SMTickSpawn, SMSync, SMPass,
       SMJoin, WaveStart, WaveRegister, WaveSync, WavePass, WaveEnd, WaveFail, vars,
       barrierVars, Barrier!AddThread, Barrier!SyncArrive, Barrier!SyncEarly,
       Barrier!SyncLast, Barrier!SyncAcquire, Barrier!AbandonThread
  <2> QED
    <3>1. CASE SMRemove
      BY <3>1 DEF SMRemove
    <3>2. ASSUME NEW w \in Waves, WaveLeave(w) PROVE stage'[w] = "gone"
      BY <3>2 DEF WaveLeave, StuckInv, TypeInv, QueueInv
    <3> QED
      BY <2>3, <3>1, <3>2
<1> QED
  BY <1>2, <1>3

(* Late registrations, full pools and stolen permits alone never stop the  *)
(* process, for every duration, distance and number of workers             *)
(* (ThreadUtils.cpp:80-116, Wave.cpp:178,258, ScannerManager.cpp:152).     *)
THEOREM StuckOnlyByDepartureHolds == Spec => []StuckOnlyByDeparture
<1>1. Init => StuckInv
  <2>1. Init => ~Barrier!Starved
    BY DEF Init, Barrier!Init, Barrier!Starved, Barrier!Registered
  <2> QED
    BY <2>1, InitTypes DEF StuckInv, StuckOnlyByDeparture
<1>2. StuckInv => StuckOnlyByDeparture
  BY DEF StuckInv
<1> QED
  BY <1>1, <1>2, NextStuck, PTL DEF Spec
=============================================================================
