------------------------------ MODULE DroneWave ------------------------------
(***************************************************************************)
(* One wave of drones: Wave::Run with the drone state machine of           *)
(* src/Scanner/DroneState.cpp.  In a tick the wave's thread takes at most  *)
(* one fault from its queue tg_data, then runs its drones in index order;  *)
(* they share the counters ready_drones and drones_not_waiting, by which a *)
(* READY drone decides whether the whole wave has reached the line.        *)
(*                                                                         *)
(* Positions are the x coordinate only: every decision of the code is on   *)
(* x, and y follows it.  Charges are integers.  The barrier the wave ends  *)
(* a tick in is ScannerManager's subject.                                  *)
(***************************************************************************)
EXTENDS Integers, Sequences, FiniteSets

CONSTANTS
    Size,       \* drones in a wave: 300
    Border,     \* the line is at x = -Border, the far side at x = Border: 2990
    Step,       \* DRONE_STEP_SIZE
    DirStep,    \* DirStep[d]: what a step in direction dir moves drone d in x
    FullCharge, \* charge of a new drone: 100 %
    Rate,       \* DRONE_CONSUMPTION_RATE
    Grace,      \* ticks after which an unreachable drone is given up: 20
    Duration,   \* ticks left in the simulation when the wave is created
    Faults,     \* the messages the TestGenerator may send
    FaultTicks, \* ticks at which messages may arrive (a bound for TLC)
    MaxFaults   \* how many may arrive in all (a bound for TLC)

Drones == 0 .. Size - 1

FlyingStates == {"TO_STARTING_LINE", "READY", "WORKING", "TO_BASE"}

States == FlyingStates \cup {"CHARGING", "DISCONNECTED", "RECONNECTED", "DEAD"}

(* TG_data: new_state "NONE" only changes the consumption.                 *)
Fault == [drone : Drones, state : {"NONE", "DEAD", "DISCONNECTED"},
          reconnect : Int, factor : Nat \ {0}]

ASSUME WaveAssumption ==
    /\ Size \in Nat \ {0}
    /\ Border \in Nat \ {0}
    /\ Step \in Nat \ {0}
    /\ DirStep \in [Drones -> Nat \ {0}]
    /\ FullCharge \in Nat /\ Rate \in Nat /\ Grace \in Nat
    /\ Duration \in Nat
    /\ Faults \subseteq Fault
    /\ FaultTicks \subseteq Nat
    /\ MaxFaults \in Nat

VARIABLES
    st,         \* currentState of each drone
    prev,       \* Drone::previous
    phys,       \* [x, charge]: position.x and charge, what the system sees
    hidden,     \* [x, charge]: hidden_coords.x and hidden_charge
    link,       \* [reconnect, since, factor]: reconnect_tick,
                \*   disconnected_tick, high_consumption_factor
    present,    \* drones whose unique_ptr is not null
    doomed,     \* Wave::drones_to_delete
    ready,      \* Wave::ready_drones
    notWaiting, \* Wave::drones_not_waiting
    tick,       \* Wave::tick, counted from the wave's first
    phase,      \* where Wave::Run is: "faults", "run", "over" or "crashed"
    cursor,     \* the drone to run next
    tgData,     \* Wave::tg_data
    injected,   \* messages that have arrived
    chargeStream    \* the records of this wave in charge_stream

droneVars == <<st, prev, phys, hidden, link>>
countVars == <<ready, notWaiting>>
loopVars == <<tick, phase, tgData, injected>>
vars == <<st, prev, phys, hidden, link, present, doomed, ready, notWaiting,
          tick, phase, cursor, tgData, injected, chargeStream>>

Init ==
    /\ st = [d \in Drones |-> "TO_STARTING_LINE"]
    /\ prev = [d \in Drones |-> "NONE"]
    /\ phys = [d \in Drones |-> [x |-> 0, charge |-> FullCharge]]
    /\ hidden = [d \in Drones |-> [x |-> 0, charge |-> 0]]
    /\ link = [d \in Drones |-> [reconnect |-> 0, since |-> 0, factor |-> 1]]
    /\ present = Drones
    /\ doomed = {}
    /\ ready = 0
    /\ notWaiting = 0
    /\ tick = 0
    /\ phase = "faults"
    /\ cursor = 0
    /\ tgData = <<>>
    /\ injected = 0
    /\ chargeStream = <<>>

-----------------------------------------------------------------------------
(* What entering a state does to the wave: Dead::enter, Ready::enter,      *)
(* Charging::enter; the other states' enter leaves the wave alone.         *)

(* Mutant: a death is not counted.                                         *)
EnterDeadUncounted(d, uncounted) ==
    /\ notWaiting' = notWaiting + uncounted
    /\ doomed' = doomed \cup {d}
    /\ UNCHANGED <<ready, chargeStream>>

EnterDead(d, uncounted) ==
    /\ notWaiting' = notWaiting + 1 + uncounted
    /\ doomed' = doomed \cup {d}
    /\ UNCHANGED <<ready, chargeStream>>

EnterReady ==
    /\ ready' = ready + 1
    /\ UNCHANGED <<notWaiting, doomed, chargeStream>>

(* The ChargeBase is told of the drone and its visible charge.             *)
EnterCharging(d, charge) ==
    /\ chargeStream' = Append(chargeStream, [drone |-> d, charge |-> charge])
    /\ doomed' = doomed \cup {d}
    /\ UNCHANGED countVars

EnterPlain == UNCHANGED <<countVars, doomed, chargeStream>>

Cost(d) == Rate * link[d].factor

(* The test every visible state begins with.                               *)
Exhausted(d) == phys[d].charge - Cost(d) <= 0

(* Fly(d, x): the drone is now at x and has paid for the tick.             *)
Fly(d, x) ==
    /\ phys' = [phys EXCEPT ![d] = [x |-> x, charge |-> @.charge - Cost(d)]]
    /\ UNCHANGED <<prev, hidden, link>>

Stay(d) == Fly(d, phys[d].x)

-----------------------------------------------------------------------------
(* The loop of Wave::Run                                                   *)

Alive == present # {} /\ tick < Duration

(* ScannerManager pushes a message of the TestGenerator to tg_data.  The   *)
(* wave looks at the queue once per tick, at its start, so arrivals at     *)
(* other moments of the tick add nothing.                                  *)
Inject(m) ==
    /\ phase = "faults"
    /\ Alive
    /\ tick \in FaultTicks
    /\ injected < MaxFaults
    /\ tgData' = Append(tgData, m)
    /\ injected' = injected + 1
    /\ UNCHANGED <<droneVars, present, doomed, countVars, tick, phase, cursor, chargeStream>>

NoFault ==
    /\ phase = "faults"
    /\ Alive
    /\ tgData = <<>>
    /\ phase' = "run"
    /\ UNCHANGED <<droneVars, present, doomed, countVars, tick, cursor, tgData, injected, chargeStream>>

(* setDroneFault: previous is overwritten whatever the drone's state is,   *)
(* and so are reconnect_tick and the consumption factor.                   *)
ApplyFault(m, d) ==
    /\ phase = "faults"
    /\ Alive
    /\ tgData # <<>>
    /\ m = Head(tgData)
    /\ d = m.drone
    /\ d \in present
    /\ prev' = [prev EXCEPT ![d] = st[d]]
    /\ link' = [link EXCEPT ![d] =
                  [reconnect |-> m.reconnect,
                   since |-> IF m.state = "DISCONNECTED" THEN tick ELSE @.since,
                   factor |-> m.factor]]
    /\ \/ m.state = "NONE" /\ EnterPlain /\ UNCHANGED <<st, hidden>>
       \/ /\ m.state = "DEAD"
          /\ st' = [st EXCEPT ![d] = "DEAD"]
          /\ EnterDead(d, 0)
          /\ UNCHANGED hidden
       \/ /\ m.state = "DISCONNECTED"
          /\ st' = [st EXCEPT ![d] = "DISCONNECTED"]
          /\ hidden' = [hidden EXCEPT ![d] = phys[d]]
          /\ EnterPlain
    /\ tgData' = Tail(tgData)
    /\ phase' = "run"
    /\ UNCHANGED <<phys, present, tick, cursor, injected>>

(* drones[drone_id] is null: the drone was deleted.  The process dies of   *)
(* the dereference.                                                        *)
FaultOnDeleted ==
    /\ phase = "faults"
    /\ Alive
    /\ tgData # <<>>
    /\ Head(tgData).drone \notin present
    /\ phase' = "crashed"
    /\ UNCHANGED <<droneVars, present, doomed, countVars, tick, cursor, tgData, injected, chargeStream>>

(* The turn of drone d: Drone::run takes it from state s to state t.       *)
Runs(d, s, t) ==
    /\ phase = "run"
    /\ cursor = d
    /\ d \in present
    /\ st[d] = s
    /\ cursor' = cursor + 1
    /\ st' = [st EXCEPT ![d] = t]
    /\ UNCHANGED <<present, loopVars>>

(* Mutant: the loop over the drones does not stop at the last.             *)
SkipPastEnd ==
    /\ phase = "run"
    /\ cursor \notin present
    /\ cursor' = cursor + 1
    /\ UNCHANGED <<droneVars, present, doomed, countVars, loopVars, chargeStream>>

SkipDeleted ==
    /\ phase = "run"
    /\ cursor \in Drones \ present
    /\ cursor' = cursor + 1
    /\ UNCHANGED <<droneVars, present, doomed, countVars, loopVars, chargeStream>>

(* Mutant: only the drones that are dead are deleted.                      *)
EndTickKeepsLanded ==
    /\ phase = "run"
    /\ cursor = Size
    /\ present' = {d \in present : st[d] # "DEAD"}
    /\ tick' = tick + 1
    /\ phase' = "faults"
    /\ cursor' = 0
    /\ UNCHANGED <<droneVars, doomed, countVars, tgData, injected, chargeStream>>

(* DeleteDrones, sync(), tick++.                                           *)
EndTick ==
    /\ phase = "run"
    /\ cursor = Size
    /\ present' = present \ doomed
    /\ tick' = tick + 1
    /\ phase' = "faults"
    /\ cursor' = 0
    /\ UNCHANGED <<droneVars, doomed, countVars, tgData, injected, chargeStream>>

Finish ==
    /\ phase = "faults"
    /\ ~Alive
    /\ phase' = "over"
    /\ UNCHANGED <<droneVars, present, doomed, countVars, tick, cursor, tgData, injected, chargeStream>>

-----------------------------------------------------------------------------
(* ToStartingLine::run, Ready::run, Working::run, ToBase::run, Dead::run   *)

(* The battery runs out.  On the way to the line the drone is counted as   *)
(* not waiting here and once more by Dead::enter.                          *)
RunExhausted(d, s) ==
    /\ s \in FlyingStates
    /\ Runs(d, s, "DEAD")
    /\ Exhausted(d)
    /\ EnterDead(d, IF s = "TO_STARTING_LINE" THEN 1 ELSE 0)
    /\ UNCHANGED <<prev, phys, hidden, link>>

RunFlying(d, s, t) ==
    /\ Runs(d, s, t)
    /\ ~Exhausted(d)

FlyToLine(d) ==
    /\ RunFlying(d, "TO_STARTING_LINE", "TO_STARTING_LINE")
    /\ phys[d].x - DirStep[d] > -Border
    /\ Fly(d, phys[d].x - DirStep[d])
    /\ EnterPlain

ReachLine(d) ==
    /\ RunFlying(d, "TO_STARTING_LINE", "READY")
    /\ phys[d].x - DirStep[d] <= -Border
    /\ Fly(d, -Border)
    /\ EnterReady

(* Mutant: the wave starts one drone too early.                            *)
LineNearlyComplete == ready >= Size - 1 - notWaiting

LineComplete == ready >= Size - notWaiting

ReadyWaits(d) ==
    /\ RunFlying(d, "READY", "READY")
    /\ ~LineComplete
    /\ Stay(d)
    /\ EnterPlain

ReadyStarts(d) ==
    /\ RunFlying(d, "READY", "WORKING")
    /\ LineComplete
    /\ Stay(d)
    /\ EnterPlain

Work(d) ==
    /\ RunFlying(d, "WORKING", "WORKING")
    /\ phys[d].x < Border
    /\ Fly(d, phys[d].x + Step)
    /\ EnterPlain

WorkDone(d) ==
    /\ RunFlying(d, "WORKING", "TO_BASE")
    /\ phys[d].x >= Border
    /\ Stay(d)
    /\ EnterPlain

FlyToBase(d) ==
    /\ RunFlying(d, "TO_BASE", "TO_BASE")
    /\ phys[d].x - DirStep[d] > 0
    /\ Fly(d, phys[d].x - DirStep[d])
    /\ EnterPlain

ReachBase(d) ==
    /\ RunFlying(d, "TO_BASE", "CHARGING")
    /\ phys[d].x - DirStep[d] <= 0
    /\ Fly(d, 0)
    /\ EnterCharging(d, phys[d].charge - Cost(d))

RunDead(d) ==
    /\ Runs(d, "DEAD", "DEAD")
    /\ EnterPlain
    /\ UNCHANGED <<prev, phys, hidden, link>>

-----------------------------------------------------------------------------
(* Disconnected::run                                                       *)

(* No reconnection is planned: wait for Grace ticks, then die.  A drone    *)
(* that had not started yet is counted twice.                              *)
RunUnreachable(d) ==
    /\ Runs(d, "DISCONNECTED", "DISCONNECTED")
    /\ link[d].reconnect = -1
    /\ tick < link[d].since + Grace
    /\ EnterPlain
    /\ UNCHANGED <<prev, phys, hidden, link>>

(* Mutant: only a drone that was lost in flight is given up.               *)
RunGivenUpFlying(d) ==
    /\ Runs(d, "DISCONNECTED", "DEAD")
    /\ link[d].reconnect = -1
    /\ tick >= link[d].since + Grace
    /\ prev[d] \in FlyingStates
    /\ EnterDead(d, IF prev[d] \in {"READY", "TO_STARTING_LINE"} THEN 1 ELSE 0)
    /\ UNCHANGED <<prev, phys, hidden, link>>

RunGivenUp(d) ==
    /\ Runs(d, "DISCONNECTED", "DEAD")
    /\ link[d].reconnect = -1
    /\ tick >= link[d].since + Grace
    /\ EnterDead(d, IF prev[d] \in {"READY", "TO_STARTING_LINE"} THEN 1 ELSE 0)
    /\ UNCHANGED <<prev, phys, hidden, link>>

(* A reconnection is planned: the visible charge, which does not change    *)
(* while disconnected, is tested all the same.                             *)
HiddenExhausted(d) ==
    /\ Runs(d, "DISCONNECTED", "DEAD")
    /\ link[d].reconnect # -1
    /\ Exhausted(d)
    /\ EnterDead(d, 0)
    /\ UNCHANGED <<prev, phys, hidden, link>>

ReconnectDue(d) == tick >= link[d].reconnect - 1 + link[d].since

(* The hidden flight of a drone whose previous state is p: it is at x in   *)
(* previous state q and state s, and reconnects if its tick has come.      *)
HiddenFlight(d, p, x, q, s) ==
    /\ Runs(d, "DISCONNECTED", IF ReconnectDue(d) THEN "RECONNECTED" ELSE s)
    /\ link[d].reconnect # -1
    /\ ~Exhausted(d)
    /\ prev[d] = p
    /\ prev' = [prev EXCEPT ![d] = q]
    /\ hidden' = [hidden EXCEPT ![d] = [x |-> x, charge |-> @.charge - Cost(d)]]
    /\ phys' = IF ReconnectDue(d) THEN [phys EXCEPT ![d] = hidden'[d]] ELSE phys
    /\ UNCHANGED link

HiddenToLine(d) ==
    /\ hidden[d].x - DirStep[d] > -Border
    /\ HiddenFlight(d, "TO_STARTING_LINE", hidden[d].x - DirStep[d], "TO_STARTING_LINE", "DISCONNECTED")
    /\ EnterPlain

(* Mutant: an unseen arrival at the line is not counted.                   *)
HiddenReachLineUncounted(d) ==
    /\ hidden[d].x - DirStep[d] <= -Border
    /\ HiddenFlight(d, "TO_STARTING_LINE", -Border, "READY", "DISCONNECTED")
    /\ EnterPlain

HiddenReachLine(d) ==
    /\ hidden[d].x - DirStep[d] <= -Border
    /\ HiddenFlight(d, "TO_STARTING_LINE", -Border, "READY", "DISCONNECTED")
    /\ EnterReady

HiddenReady(d) ==
    /\ HiddenFlight(d, "READY", hidden[d].x, IF LineComplete THEN "WORKING" ELSE "READY", "DISCONNECTED")
    /\ EnterPlain

HiddenWork(d) ==
    /\ HiddenFlight(d, "WORKING", hidden[d].x + Step,
                    IF hidden[d].x + Step >= Border THEN "TO_BASE" ELSE "WORKING", "DISCONNECTED")
    /\ EnterPlain

HiddenToBase(d) ==
    /\ hidden[d].x - DirStep[d] > 0
    /\ HiddenFlight(d, "TO_BASE", hidden[d].x - DirStep[d], "TO_BASE", "DISCONNECTED")
    /\ EnterPlain

(* The drone reaches the base unseen: setState(Charging) with the visible  *)
(* charge, and the test for the reconnection still follows.                *)
HiddenReachBase(d) ==
    /\ hidden[d].x - DirStep[d] <= 0
    /\ HiddenFlight(d, "TO_BASE", hidden[d].x - DirStep[d], "TO_BASE", "CHARGING")
    /\ EnterCharging(d, phys[d].charge)

(* previous is none of the flying states: only the tick is looked at.      *)
HiddenLost(d) ==
    /\ Runs(d, "DISCONNECTED", IF ReconnectDue(d) THEN "RECONNECTED" ELSE "DISCONNECTED")
    /\ link[d].reconnect # -1
    /\ ~Exhausted(d)
    /\ prev[d] \notin FlyingStates
    /\ phys' = IF ReconnectDue(d) THEN [phys EXCEPT ![d] = hidden[d]] ELSE phys
    /\ EnterPlain
    /\ UNCHANGED <<prev, hidden, link>>

(* Reconnected::run.  "CHARGING" is never a previous state: a drone that   *)
(* lands is deleted before the wave looks for the next fault.              *)
ResumeReady(d) ==
    /\ prev[d] = "READY"
    /\ Runs(d, "RECONNECTED", "READY")
    /\ EnterReady

ResumeFlight(d) ==
    /\ prev[d] \in FlyingStates \ {"READY"}
    /\ Runs(d, "RECONNECTED", prev[d])
    /\ EnterPlain

(* Mutant: the cases of the switch fall through to its default.            *)
ResumeFallsThrough(d) ==
    /\ Runs(d, "RECONNECTED", "DEAD")
    /\ EnterDead(d, 0)

ResumeFails(d) ==
    /\ prev[d] \notin FlyingStates
    /\ Runs(d, "RECONNECTED", "DEAD")
    /\ EnterDead(d, 0)

Resume(d) ==
    /\ ResumeReady(d) \/ ResumeFlight(d) \/ ResumeFails(d)
    /\ UNCHANGED <<prev, phys, hidden, link>>

-----------------------------------------------------------------------------
RunVisible(d) ==
    \/ \E s \in FlyingStates : RunExhausted(d, s)
    \/ FlyToLine(d) \/ ReachLine(d)
    \/ ReadyWaits(d) \/ ReadyStarts(d)
    \/ Work(d) \/ WorkDone(d)
    \/ FlyToBase(d) \/ ReachBase(d)
    \/ RunDead(d)

RunHidden(d) ==
    \/ RunUnreachable(d) \/ RunGivenUp(d)
    \/ HiddenExhausted(d)
    \/ HiddenToLine(d) \/ HiddenReachLine(d)
    \/ HiddenReady(d) \/ HiddenWork(d)
    \/ HiddenToBase(d) \/ HiddenReachBase(d)
    \/ HiddenLost(d)
    \/ Resume(d)

(* A step of the wave's thread.                                            *)
WaveStep ==
    \/ NoFault
    \/ \E m \in Faults, d \in Drones : ApplyFault(m, d)
    \/ FaultOnDeleted
    \/ SkipDeleted
    \/ EndTick
    \/ Finish
    \/ \E d \in Drones : RunVisible(d) \/ RunHidden(d)

Next == WaveStep \/ \E m \in Faults : Inject(m)

Spec == Init /\ [][Next]_vars

(* The thread of the wave is scheduled again and again.                    *)
FairSpec == Spec /\ WF_vars(WaveStep)

-----------------------------------------------------------------------------
(* Properties                                                              *)

Body == [x : Int, charge : Int]

(* Types of the wave's and the drones' fields (Wave.h:19-38, Drone.h).     *)
TypeOK ==
    /\ st \in [Drones -> States]
    /\ prev \in [Drones -> States \cup {"NONE"}]
    /\ phys \in [Drones -> Body]
    /\ hidden \in [Drones -> Body]
    /\ link \in [Drones -> [reconnect : Int, since : Nat, factor : Nat]]
    /\ present \subseteq Drones
    /\ doomed \subseteq Drones
    /\ ready \in Nat
    /\ notWaiting \in Nat
    /\ tick \in 0 .. Duration
    /\ phase \in {"faults", "run", "over", "crashed"}
    /\ cursor \in 0 .. Size
    /\ tgData \in Seq(Faults)
    /\ injected \in 0 .. MaxFaults
    /\ chargeStream \in Seq([drone : Drones, charge : Int])

(* The drones nobody has to wait for at the line: those that have been     *)
(* there, seen or unseen, and those that are dead.                         *)
Passed == {d \in Drones :
             \/ st[d] \in {"READY", "WORKING", "TO_BASE", "CHARGING", "DEAD"}
             \/ /\ st[d] \in {"DISCONNECTED", "RECONNECTED"}
                /\ prev[d] \in {"READY", "WORKING", "TO_BASE"}}

(* No drone is forgotten in the two counters by which the wave decides to  *)
(* start: they may count one twice, never leave one out.  The increments   *)
(* are spread over five handlers (DroneState.cpp:23,50,161,227,305).       *)
CountsCover == Cardinality(Passed) <= ready + notWaiting

(* So the wave never waits for a drone that will not come: a READY drone   *)
(* stays READY only while some drone is still on its way to the line       *)
(* (DroneState.cpp:59-61).                                                 *)
WaitsOnlyForSomeone == [][\A d \in Drones : ReadyWaits(d) => Passed # Drones]_vars

(* And a wave starts before its last drone has come, or died, only if some *)
(* drone has been counted twice, as a reconnection to READY or a death on  *)
(* the way is: drones that are past the start and counters that count each *)
(* drone once mean that every drone has passed the line, whatever faults   *)
(* the wave met (DroneState.cpp:50,59-61,161,164-174,227,260).             *)
OnlyDoubleCountStartsEarly ==
    /\ \E d \in Drones : st[d] \in {"WORKING", "TO_BASE"}
    /\ ready + notWaiting = Cardinality(Passed)
    => Passed = Drones

Sent(d) == \E i \in DOMAIN chargeStream : chargeStream[i].drone = d

(* Every deleted drone has met exactly one end: it died, or the ChargeBase *)
(* has been told of it, once (DroneState.cpp:133-142,184-192,304-307).     *)
OneFate ==
    /\ \A d \in Drones \ present : (st[d] = "DEAD") # Sent(d)
    /\ \A i, j \in DOMAIN chargeStream :
          chargeStream[i].drone = chargeStream[j].drone => i = j

(* Every wave comes to its end before the simulation does, if that is far  *)
(* enough away (Duration; 726 ticks with the numbers of the code): no      *)
(* drone stays for ever, whatever faults it and the others meet            *)
(* (Wave.cpp:158-163,185).                                                 *)
WaveEmpties == <>(present = {} \/ phase = "crashed")

(* A drone that reconnects resumes its flight: a single fault does not     *)
(* leave it with a previous state Reconnected::run can do nothing with     *)
(* (Wave.cpp:96, DroneState.cpp:246-297).                                  *)
ResumeSurvives == [][injected = 1 => \A d \in Drones : ~ResumeFails(d)]_vars

(* The wave works as a column: drones that work are at most one step apart *)
(* and no drone that is still there is on its way to the line              *)
(* (DroneState.cpp:53-68,78-93).                                           *)
InFormation ==
    \A d, e \in present :
        st[d] = "WORKING" =>
            /\ st[e] # "TO_STARTING_LINE"
            /\ st[e] = "WORKING" => phys[d].x - phys[e].x <= Step

(* Claim of the report (requirement 3.1): the system sees to it that every *)
(* drone is back in time to be charged.  So a drone that no fault has met  *)
(* comes home, whatever happens to the others (DroneState.cpp:62,224).     *)
HealthyReturn ==
    phase = "over" => \A d \in Drones : prev[d] = "NONE" => Sent(d)

(* Claim of the report: a fault meets a drone in a flying state            *)
(* (TestGenerator.cpp:180-198, Wave.cpp:90-112).                           *)
FaultsMeetFlying == phase # "crashed"

(* Claim of the report: a drone waits at the line until all the others     *)
(* that still fly have arrived.                                            *)
StartsTogether ==
    \A d, e \in present : st[d] = "WORKING" => st[e] # "TO_STARTING_LINE"
=============================================================================
