------------------------------ MODULE TickLoop -------------------------------
(***************************************************************************)
(* The tick protocol between the processes: Main (src/main.cpp), the       *)
(* DroneControl, the ScannerManager and the ChargeBase.  Each component    *)
(* has a pair of POSIX semaphores, one to start its tick and one to report *)
(* it done.  In every WaveDistance-th tick DroneControl and ScannerManager *)
(* also shake hands through the Redis counter spawn_wave.                  *)
(*                                                                         *)
(* The work of a tick is left to the modules of the components.            *)
(***************************************************************************)
EXTENDS Naturals, Sequences

CONSTANTS
    Duration,       \* sim_duration_ticks
    WaveDistance    \* WAVE_DISTANCE_TICKS

ASSUME TickLoopAssumption ==
    /\ Duration \in Nat \ {0}
    /\ WaveDistance \in Nat \ {0}

Components == {"DC", "SM", "CB"}

(* The order in which Main posts and awaits them.                          *)
Order == <<"DC", "SM", "CB">>

VARIABLES
    mainPc,     \* "post", "wait", "join" or "done"
    mainIdx,    \* the component Main posts or awaits next, in Order
    mainTick,   \* Main's tick_n
    start,      \* values of sem_sync_dc, sem_sync_sc, sem_sync_cb
    done,       \* values of sem_dc, sem_sc, sem_cb
    cpc,        \* control point of each component
    ctick,      \* tick counter of each component
    spawnWave,  \* the Redis counter spawn_wave
    waves,      \* waves created by SpawnWave
    missed      \* commands taken off the counter that led to no wave

mainVars == <<mainPc, mainIdx, mainTick>>
spawnVars == <<spawnWave, waves, missed>>
vars == <<mainPc, mainIdx, mainTick, start, done, cpc, ctick, spawnWave, waves, missed>>

(* "wait": at sem_wait.  "work": in the tick.  "poll": DroneControl after  *)
(* its INCR.  "decr": ScannerManager between GET and DECR.  "spawn": after *)
(* its DECR.  "post": at sem_post.  "exit": out of the loop.  "dead": ended *)
(* by an exception nobody catches.                                         *)
CpcSet == {"wait", "work", "poll", "decr", "spawn", "post", "exit", "dead"}

Due(t) == t % WaveDistance = 0

Go(c, to) == cpc' = [cpc EXCEPT ![c] = to]

Init ==
    /\ mainPc = "post"
    /\ mainIdx = 1
    /\ mainTick = 0
    /\ start = [c \in Components |-> 0]
    /\ done = [c \in Components |-> 0]
    /\ cpc = [c \in Components |-> "wait"]
    /\ ctick = [c \in Components |-> 0]
    /\ spawnWave = 0
    /\ waves = 0
    /\ missed = 0

-----------------------------------------------------------------------------
(* Main                                                                    *)

MainPost ==
    /\ mainPc = "post"
    /\ start' = [start EXCEPT ![Order[mainIdx]] = @ + 1]
    /\ IF mainIdx < Len(Order)
         THEN mainIdx' = mainIdx + 1 /\ UNCHANGED mainPc
         ELSE mainIdx' = 1 /\ mainPc' = "wait"
    /\ UNCHANGED <<mainTick, done, cpc, ctick, spawnVars>>

(* Mutant: Main waits only for the last of the components.                 *)
MainWaitNextSkips ==
    /\ mainPc = "wait"
    /\ mainIdx < Len(Order)
    /\ mainIdx' = mainIdx + 1
    /\ UNCHANGED <<mainPc, mainTick, start, done, cpc, ctick, spawnVars>>

MainWaitNext ==
    /\ mainPc = "wait"
    /\ mainIdx < Len(Order)
    /\ done[Order[mainIdx]] > 0
    /\ done' = [done EXCEPT ![Order[mainIdx]] = @ - 1]
    /\ mainIdx' = mainIdx + 1
    /\ UNCHANGED <<mainPc, mainTick, start, cpc, ctick, spawnVars>>

MainWaitLast ==
    /\ mainPc = "wait"
    /\ mainIdx = Len(Order)
    /\ done[Order[mainIdx]] > 0
    /\ done' = [done EXCEPT ![Order[mainIdx]] = @ - 1]
    /\ mainIdx' = 1
    /\ mainTick' = mainTick + 1
    /\ mainPc' = IF mainTick' < Duration THEN "post" ELSE "join"
    /\ UNCHANGED <<start, cpc, ctick, spawnVars>>

(* waitpid on the component processes; what they do after their loops is   *)
(* not modelled here.                                                      *)
MainJoin ==
    /\ mainPc = "join"
    /\ \A c \in Components : cpc[c] = "exit"
    /\ mainPc' = "done"
    /\ UNCHANGED <<mainIdx, mainTick, start, done, cpc, ctick, spawnVars>>

-----------------------------------------------------------------------------
(* The loop every component has: sem_wait, work, sem_post, tick++          *)

(* Mutant: sem_wait returns although nothing was posted.                   *)
BeginUnposted(c) ==
    /\ cpc[c] = "wait"
    /\ start' = [start EXCEPT ![c] = @ - 1]
    /\ Go(c, "work")
    /\ UNCHANGED <<mainVars, done, ctick, spawnVars>>

Begin(c) ==
    /\ cpc[c] = "wait"
    /\ start[c] > 0
    /\ start' = [start EXCEPT ![c] = @ - 1]
    /\ Go(c, "work")
    /\ UNCHANGED <<mainVars, done, ctick, spawnVars>>

(* A tick without the hand-shake; for the ChargeBase every tick is one.    *)
Plain(c) ==
    /\ cpc[c] = "work"
    /\ c = "CB" \/ ~Due(ctick[c])
    /\ Go(c, "post")
    /\ UNCHANGED <<mainVars, start, done, ctick, spawnVars>>

(* Mutant: the component does not report the end of its tick.              *)
EndSilent(c) ==
    /\ cpc[c] = "post"
    /\ ctick' = [ctick EXCEPT ![c] = @ + 1]
    /\ Go(c, IF ctick[c] + 1 < Duration THEN "wait" ELSE "exit")
    /\ UNCHANGED <<mainVars, start, done, spawnVars>>

End(c) ==
    /\ cpc[c] = "post"
    /\ done' = [done EXCEPT ![c] = @ + 1]
    /\ ctick' = [ctick EXCEPT ![c] = @ + 1]
    /\ Go(c, IF ctick[c] + 1 < Duration THEN "wait" ELSE "exit")
    /\ UNCHANGED <<mainVars, start, spawnVars>>

-----------------------------------------------------------------------------
(* The spawn_wave hand-shake                                               *)

(* SendWaveSpawnCommand: INCR, then poll until the counter is 0 again.     *)
DCSend ==
    /\ cpc["DC"] = "work"
    /\ Due(ctick["DC"])
    /\ spawnWave' = spawnWave + 1
    /\ Go("DC", "poll")
    /\ UNCHANGED <<mainVars, start, done, ctick, waves, missed>>

DCSpawned ==
    /\ cpc["DC"] = "poll"
    /\ spawnWave = 0
    /\ Go("DC", "post")
    /\ UNCHANGED <<mainVars, start, done, ctick, spawnVars>>

(* The INCR throws, carried out or not, or a GET does: no try block.       *)
DCDies ==
    /\ \/ /\ cpc["DC"] = "work" /\ Due(ctick["DC"])
          /\ spawnWave' \in {spawnWave, spawnWave + 1}
       \/ cpc["DC"] = "poll" /\ UNCHANGED spawnWave
    /\ Go("DC", "dead")
    /\ UNCHANGED <<mainVars, start, done, ctick, waves, missed>>

(* Nor has ChargeDrone's use of Redis one.                                 *)
CBDies ==
    /\ cpc["CB"] = "work"
    /\ Go("CB", "dead")
    /\ UNCHANGED <<mainVars, start, done, ctick, spawnVars>>

(* CheckSpawnWave: a GET that returns 1, then DECR.                        *)
SMSeen ==
    /\ cpc["SM"] = "work"
    /\ Due(ctick["SM"])
    /\ spawnWave = 1
    /\ Go("SM", "decr")
    /\ UNCHANGED <<mainVars, start, done, ctick, spawnVars>>

(* Mutant: the DECR is forgotten.                                          *)
SMDecrForgotten ==
    /\ cpc["SM"] = "decr"
    /\ Go("SM", "spawn")
    /\ UNCHANGED <<mainVars, start, done, ctick, spawnVars>>

SMDecr ==
    /\ cpc["SM"] = "decr"
    /\ spawnWave' = spawnWave - 1
    /\ Go("SM", "spawn")
    /\ UNCHANGED <<mainVars, start, done, ctick, waves, missed>>

(* The DECR throws, carried out or not; CheckSpawnWave returns false.      *)
SMDecrFails ==
    /\ cpc["SM"] = "decr"
    /\ \/ spawnWave' = spawnWave - 1 /\ missed' = missed + 1
       \/ UNCHANGED <<spawnWave, missed>>
    /\ Go("SM", "post")
    /\ UNCHANGED <<mainVars, start, done, ctick, waves>>

(* Mutant: the wave is forgotten.                                          *)
SpawnWaveNothing ==
    /\ cpc["SM"] = "spawn"
    /\ Go("SM", "post")
    /\ UNCHANGED <<mainVars, start, done, ctick, spawnVars>>

SpawnWave ==
    /\ cpc["SM"] = "spawn"
    /\ waves' = waves + 1
    /\ Go("SM", "post")
    /\ UNCHANGED <<mainVars, start, done, ctick, spawnWave, missed>>

(* The constructor of the Wave throws at its SADD; Run reports it and goes *)
(* on with the tick.                                                       *)
SpawnWaveFails ==
    /\ cpc["SM"] = "spawn"
    /\ missed' = missed + 1
    /\ Go("SM", "post")
    /\ UNCHANGED <<mainVars, start, done, ctick, spawnWave, waves>>

(* CheckSpawnWave returns false: timeout_ms are over, or GET threw.        *)
SMGiveUp ==
    /\ cpc["SM"] = "work"
    /\ Due(ctick["SM"])
    /\ Go("SM", "post")
    /\ UNCHANGED <<mainVars, start, done, ctick, spawnVars>>

-----------------------------------------------------------------------------
MainNext == MainPost \/ MainWaitNext \/ MainWaitLast \/ MainJoin

Loop(c) == Begin(c) \/ Plain(c) \/ End(c)

DCNext == Loop("DC") \/ DCSend \/ DCSpawned \/ DCDies
SMNext ==
    \/ Loop("SM")
    \/ SMSeen \/ SMGiveUp \/ SMDecr \/ SMDecrFails
    \/ SpawnWave \/ SpawnWaveFails
CBNext == Loop("CB") \/ CBDies

Next == MainNext \/ DCNext \/ SMNext \/ CBNext

Spec == Init /\ [][Next]_vars

(* Each process is scheduled again and again by the operating system.      *)
FairSpec ==
    /\ Spec
    /\ WF_vars(MainNext)
    /\ WF_vars(DCNext)
    /\ WF_vars(SMNext)
    /\ WF_vars(CBNext)

-----------------------------------------------------------------------------
(* Properties                                                              *)

(* Types of the semaphores, counters and control points.                   *)
TypeOK ==
    /\ mainPc \in {"post", "wait", "join", "done"}
    /\ mainIdx \in 1 .. 3
    /\ mainTick \in 0 .. Duration
    /\ start \in [Components -> Nat]
    /\ done \in [Components -> Nat]
    /\ cpc \in [Components -> CpcSet]
    /\ ctick \in [Components -> 0 .. Duration]
    /\ spawnWave \in Nat
    /\ waves \in Nat
    /\ missed \in Nat

(* No component is ever a whole tick away from Main: the start and done    *)
(* semaphores never hold a token of another tick (main.cpp:190-197).       *)
Lockstep ==
    \A c \in Components :
        /\ mainTick <= ctick[c] /\ ctick[c] <= mainTick + 1
        /\ start[c] + done[c] <= 1

(* The commands DroneControl has given, by what became of them.            *)
Commands == waves + missed + spawnWave + (IF cpc["SM"] = "spawn" THEN 1 ELSE 0)

(* The two sides of the hand-shake meet in the same tick.  The counter is  *)
(* 1 only while DroneControl waits, or has died; the ScannerManager takes  *)
(* it back in the tick of the command; DroneControl has given one command  *)
(* for each due tick, and when it comes to the next, all before have ended *)
(* in a wave or in an error that was reported (DroneControl.cpp:210-245,   *)
(* ScannerManager.cpp:5-62,112-123).                                       *)
Handshake ==
    /\ spawnWave \in {0, 1}
    /\ spawnWave = 1 => cpc["DC"] \in {"poll", "dead"}
    /\ cpc["SM"] = "decr" => spawnWave = 1 /\ ctick["SM"] = ctick["DC"]
    /\ cpc["SM"] = "spawn" => spawnWave = 0 /\ Due(ctick["SM"])
    /\ cpc["DC"] = "poll" => (Commands - 1) * WaveDistance = ctick["DC"]
    /\ cpc["DC"] = "work" /\ Due(ctick["DC"]) => (waves + missed) * WaveDistance = ctick["DC"]

(* The semaphores and the counter implement one global clock: each due     *)
(* tick is settled once, by its wave or by a failure to spawn it.          *)
Clock == INSTANCE LockstepClock
            WITH Spawner <- "SM",
                 tick <- mainTick,
                 pending <- {c \in Components : mainTick < Duration /\ ctick[c] = mainTick}

(* main.cpp:185-201 with the loops of DroneControl.cpp:297-314,            *)
(* ScannerManager.cpp:103-151 and ChargeBase.cpp:34-66.                    *)
ImplementsClock == Clock!Spec

(* The ScannerManager has given up the wave of the tick in which           *)
(* DroneControl waits for it, without a time limit.                        *)
Abandoned == cpc["DC"] = "poll" /\ ctick["SM"] > ctick["DC"] /\ spawnWave = 1

(* Main's loop and those of the three components come to an end unless a   *)
(* hand-shake is given up on one side, or a component has died: no process *)
(* waits for one that waits for it, and a wave that could not be created   *)
(* stops nobody (main.cpp:185-213, ScannerManager.cpp:25,120,              *)
(* DroneControl.cpp:223).                                                  *)
HangsOnlyOnGiveUp ==
    <>(mainPc = "done" \/ Abandoned \/ \E c \in Components : cpc[c] = "dead")
=============================================================================
