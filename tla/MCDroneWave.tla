----------------------------- MODULE MCDroneWave -----------------------------
(***************************************************************************)
(* Values of DroneWave's constants for TLC: small waves in which the       *)
(* drones reach the line and the base at different times, and a wave with  *)
(* the distances and the battery of the real one.                          *)
(***************************************************************************)
EXTENDS DroneWave

(* A long and a short way to the line.                                     *)
TwoWays == [d \in 0 .. 1 |-> IF d = 0 THEN 1 ELSE 3]

ThreeWays == [d \in 0 .. 2 |-> IF d = 0 THEN 1 ELSE 3]

(* In units of a millimetre of the simulated area: the drones of the two   *)
(* corners and one near the centre line.                                   *)
RealWays == [d \in 0 .. 2 |-> IF d = 1 THEN 20000 ELSE 14142]

(* The messages the scenarios of the TestGenerator send, for a drone d.    *)
HighConsumption(d) == [drone |-> d, state |-> "NONE", reconnect |-> -1, factor |-> 2]
Failure(d) == [drone |-> d, state |-> "DEAD", reconnect |-> -1, factor |-> 1]
Lost(d) == [drone |-> d, state |-> "DISCONNECTED", reconnect |-> -1, factor |-> 1]
LostFor(d, n) == [drone |-> d, state |-> "DISCONNECTED", reconnect |-> n, factor |-> 1]

(* A drone lost for good, about when the corner drones reach the line.     *)
Losses == {Lost(d) : d \in Drones}

LineTicks == 200 .. 212

AllFaults == UNION {{HighConsumption(d), Failure(d), Lost(d), LostFor(d, 1), LostFor(d, 3)} : d \in Drones}

Reconnections == {LostFor(d, n) : d \in Drones, n \in {1, 3}}

Ticks == 0 .. Duration
=============================================================================
