---------------------------- MODULE LockstepClock ----------------------------
(***************************************************************************)
(* What the simulation's tick loop promises: one global tick; within a     *)
(* tick every component acts once, in any order; the tick advances when    *)
(* all of them have; and a tick at which a wave is due does not end before *)
(* it was settled, once: by its wave, or by a failure to spawn it.         *)
(***************************************************************************)
EXTENDS Naturals

CONSTANTS
    Components,     \* the processes driven by the clock
    Spawner,        \* the component that spawns the waves
    Duration,       \* number of ticks
    WaveDistance    \* a wave is due every WaveDistance ticks

VARIABLES
    tick,       \* the current tick
    pending,    \* components that have not finished it
    waves,      \* waves spawned so far
    missed      \* waves that could not be spawned

vars == <<tick, pending, waves, missed>>

Due(t) == t % WaveDistance = 0

Init ==
    /\ tick = 0
    /\ pending = Components
    /\ waves = 0
    /\ missed = 0

Settled == waves + missed

(* In a tick of WaveDistance the first wave is number 0.                   *)
Awaited ==
    /\ Spawner \in pending
    /\ Due(tick)
    /\ Settled * WaveDistance = tick
    /\ UNCHANGED <<tick, pending>>

Spawn == Awaited /\ waves' = waves + 1 /\ UNCHANGED missed

Miss == Awaited /\ missed' = missed + 1 /\ UNCHANGED waves

Finish(c) ==
    /\ c \in pending
    /\ pending' = pending \ {c}
    /\ UNCHANGED <<tick, waves, missed>>

Advance ==
    /\ tick < Duration
    /\ pending = {}
    /\ Settled * WaveDistance > tick
    /\ tick' = tick + 1
    /\ pending' = IF tick' < Duration THEN Components ELSE {}
    /\ UNCHANGED <<waves, missed>>

Next == Spawn \/ Miss \/ Advance \/ \E c \in Components : Finish(c)

Spec == Init /\ [][Next]_vars
=============================================================================
