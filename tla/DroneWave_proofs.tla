--------------------------- MODULE DroneWave_proofs ---------------------------
(***************************************************************************)
(* Theorems about DroneWave, for a wave of any size, any distances and     *)
(* batteries, and any messages of the TestGenerator.                       *)
(***************************************************************************)
EXTENDS DroneWave, TLAPS, FiniteSetTheorems, SequenceTheorems

-----------------------------------------------------------------------------
(* Type correctness.  The loop's guard bounds its tick only while the      *)
(* drones run: that is what makes TypeOK inductive.                        *)

Running == phase = "run" => tick < Duration

TypeInv == TypeOK /\ Running

(* TypeInv in three parts: what the loop and Runs write, what entering a   *)
(* state writes, and what the flight of a drone writes.                    *)

LoopOK ==
    /\ st \in [Drones -> States]
    /\ present \subseteq Drones
    /\ tick \in 0 .. Duration
    /\ phase \in {"faults", "run", "over", "crashed"}
    /\ cursor \in 0 .. Size
    /\ tgData \in Seq(Faults)
    /\ injected \in 0 .. MaxFaults
    /\ Running

CountOK ==
    /\ ready \in Nat
    /\ notWaiting \in Nat
    /\ doomed \subseteq Drones
    /\ chargeStream \in Seq([drone : Drones, charge : Int])

Links == [reconnect : Int, since : Nat, factor : Nat]

BodyOK ==
    /\ prev \in [Drones -> States \cup {"NONE"}]
    /\ phys \in [Drones -> Body]
    /\ hidden \in [Drones -> Body]
    /\ link \in [Drones -> Links]

(* The three parts are TypeInv.                                            *)
LEMMA TypeParts ==
    /\ TypeInv <=> LoopOK /\ CountOK /\ BodyOK
    /\ TypeInv' <=> LoopOK' /\ CountOK' /\ BodyOK'
  BY DEF TypeInv, TypeOK, LoopOK, CountOK, BodyOK, Links

(* Entering a state keeps the wave's counters and lists well-typed.        *)
LEMMA EnterType ==
    ASSUME CountOK, NEW d \in Drones,
           \/ EnterPlain
           \/ EnterReady
           \/ EnterDead(d, 0)
           \/ EnterDead(d, 1)
           \/ \E c \in Int : EnterCharging(d, c)
    PROVE  CountOK'
  <1>1. CASE EnterPlain BY <1>1 DEF EnterPlain, countVars, CountOK
  <1>2. CASE EnterReady BY <1>2 DEF EnterReady, CountOK
  <1>3. CASE EnterDead(d, 0) BY <1>3 DEF EnterDead, CountOK
  <1>4. CASE EnterDead(d, 1) BY <1>4 DEF EnterDead, CountOK
  <1>5. ASSUME NEW c \in Int, EnterCharging(d, c) PROVE CountOK'
    <2> DEFINE e == [drone |-> d, charge |-> c]
               E == [drone : Drones, charge : Int]
    <2>1. e \in E OBVIOUS
    <2>2. chargeStream \in Seq(E) BY DEF CountOK
    <2>3. chargeStream' = Append(chargeStream, e) BY <1>5 DEF EnterCharging
    <2> HIDE DEF e, E
    <2>4. chargeStream' \in Seq(E) BY <2>1, <2>2, <2>3, AppendProperties
    <2> QED BY <1>5, <2>4 DEF E, EnterCharging, countVars, CountOK
  <1> QED BY <1>1, <1>2, <1>3, <1>4, <1>5

(* A run keeps the loop's state well-typed, whatever the drone does.       *)
LEMMA RunsType ==
    ASSUME LoopOK, NEW d \in Drones, NEW s, NEW t \in States, Runs(d, s, t)
    PROVE  LoopOK'
  <1>1. cursor' \in 0 .. Size BY WaveAssumption DEF Runs, Drones, LoopOK
  <1>2. st' \in [Drones -> States]
    BY DEF Runs, LoopOK
  <1> QED BY <1>1, <1>2 DEF Runs, loopVars, LoopOK, Running

(* What the flights are made of are integers.                              *)
LEMMA Numbers ==
    ASSUME BodyOK, NEW d \in Drones
    PROVE  /\ phys[d].x \in Int /\ phys[d].charge \in Int
           /\ hidden[d].x \in Int /\ hidden[d].charge \in Int
           /\ Cost(d) \in Int
           /\ DirStep[d] \in Int /\ Border \in Int /\ Step \in Int
  BY WaveAssumption DEF BodyOK, Body, Links, Cost

(* A flight of a visible drone leaves its position and charge integers.    *)
LEMMA FlyType ==
    ASSUME BodyOK, NEW d \in Drones, NEW x \in Int, Fly(d, x)
    PROVE  BodyOK'
  <1>1. [x |-> x, charge |-> phys[d].charge - Cost(d)] \in Body BY Numbers DEF Body
  <1> QED BY <1>1 DEF Fly, BodyOK

(* So does a hidden flight, whether or not the drone reconnects.           *)
LEMMA HiddenFlightType ==
    ASSUME BodyOK, LoopOK, NEW d \in Drones, NEW p, NEW x \in Int, NEW q \in States,
           NEW s \in States, HiddenFlight(d, p, x, q, s)
    PROVE  BodyOK' /\ LoopOK'
  <1>1. [x |-> x, charge |-> hidden[d].charge - Cost(d)] \in Body BY Numbers DEF Body
  <1>2. hidden' \in [Drones -> Body] BY <1>1 DEF HiddenFlight, BodyOK
  <1>3. phys' \in [Drones -> Body] BY <1>2 DEF HiddenFlight, BodyOK
  <1>4. LoopOK'
    <2>1. PICK t \in States : Runs(d, "DISCONNECTED", t) BY DEF HiddenFlight, States
    <2> QED BY <2>1, RunsType
  <1> QED BY <1>2, <1>3, <1>4 DEF HiddenFlight, BodyOK

(* Steps that leave the bodies alone keep their types.                     *)
LEMMA SameBody == ASSUME BodyOK, UNCHANGED <<prev, phys, hidden, link>> PROVE BodyOK'
  BY DEF BodyOK

(* Every turn of a visible drone keeps the wave well-typed.                *)
LEMMA VisibleType ==
    ASSUME LoopOK, CountOK, BodyOK, NEW d \in Drones, RunVisible(d)
    PROVE  LoopOK' /\ CountOK' /\ BodyOK'
  <1>1. ASSUME NEW s \in FlyingStates, RunExhausted(d, s) PROVE LoopOK' /\ CountOK' /\ BodyOK'
    <2>1. LoopOK' BY <1>1, RunsType DEF RunExhausted, States
    <2>2. EnterDead(d, 0) \/ EnterDead(d, 1) BY <1>1 DEF RunExhausted
    <2> QED BY <1>1, <2>1, <2>2, EnterType, SameBody DEF RunExhausted
  <1>2. CASE FlyToLine(d)
    <2>1. LoopOK' BY <1>2, RunsType DEF FlyToLine, RunFlying, States, FlyingStates
    <2>2. CountOK' BY <1>2, EnterType DEF FlyToLine
    <2>3. BodyOK' BY <1>2, FlyType, Numbers DEF FlyToLine
    <2> QED BY <2>1, <2>2, <2>3
  <1>3. CASE ReachLine(d)
    <2>1. LoopOK' BY <1>3, RunsType DEF ReachLine, RunFlying, States, FlyingStates
    <2>2. CountOK' BY <1>3, EnterType DEF ReachLine
    <2>3. BodyOK' BY <1>3, FlyType, Numbers DEF ReachLine
    <2> QED BY <2>1, <2>2, <2>3
  <1>4. CASE ReadyWaits(d)
    <2>1. LoopOK' BY <1>4, RunsType DEF ReadyWaits, RunFlying, States, FlyingStates
    <2>2. CountOK' BY <1>4, EnterType DEF ReadyWaits
    <2>3. BodyOK' BY <1>4, FlyType, Numbers DEF ReadyWaits, Stay
    <2> QED BY <2>1, <2>2, <2>3
  <1>5. CASE ReadyStarts(d)
    <2>1. LoopOK' BY <1>5, RunsType DEF ReadyStarts, RunFlying, States, FlyingStates
    <2>2. CountOK' BY <1>5, EnterType DEF ReadyStarts
    <2>3. BodyOK' BY <1>5, FlyType, Numbers DEF ReadyStarts, Stay
    <2> QED BY <2>1, <2>2, <2>3
  <1>6. CASE Work(d)
    <2>1. LoopOK' BY <1>6, RunsType DEF Work, RunFlying, States, FlyingStates
    <2>2. CountOK' BY <1>6, EnterType DEF Work
    <2>3. BodyOK' BY <1>6, FlyType, Numbers DEF Work
    <2> QED BY <2>1, <2>2, <2>3
  <1>7. CASE WorkDone(d)
    <2>1. LoopOK' BY <1>7, RunsType DEF WorkDone, RunFlying, States, FlyingStates
    <2>2. CountOK' BY <1>7, EnterType DEF WorkDone
    <2>3. BodyOK' BY <1>7, FlyType, Numbers DEF WorkDone, Stay
    <2> QED BY <2>1, <2>2, <2>3
  <1>8. CASE FlyToBase(d)
    <2>1. LoopOK' BY <1>8, RunsType DEF FlyToBase, RunFlying, States, FlyingStates
    <2>2. CountOK' BY <1>8, EnterType DEF FlyToBase
    <2>3. BodyOK' BY <1>8, FlyType, Numbers DEF FlyToBase
    <2> QED BY <2>1, <2>2, <2>3
  <1>9. CASE ReachBase(d)
    <2>1. LoopOK' BY <1>9, RunsType DEF ReachBase, RunFlying, States
    <2>2. CountOK' BY <1>9, EnterType, Numbers DEF ReachBase
    <2>3. BodyOK' BY <1>9, FlyType, Numbers DEF ReachBase
    <2> QED BY <2>1, <2>2, <2>3
  <1>10. CASE RunDead(d) BY <1>10, RunsType, EnterType, SameBody DEF RunDead, States
  <1> QED BY <1>1, <1>2, <1>3, <1>4, <1>5, <1>6, <1>7, <1>8, <1>9, <1>10 DEF RunVisible

(* Every turn of a disconnected or reconnected drone does.                 *)
LEMMA HiddenType ==
    ASSUME LoopOK, CountOK, BodyOK, NEW d \in Drones, RunHidden(d)
    PROVE  LoopOK' /\ CountOK' /\ BodyOK'
  <1>1. CASE RunUnreachable(d) BY <1>1, RunsType, EnterType, SameBody DEF RunUnreachable, States
  <1>2. CASE RunGivenUp(d)
    <2>1. LoopOK' BY <1>2, RunsType DEF RunGivenUp, States
    <2>2. EnterDead(d, 0) \/ EnterDead(d, 1) BY <1>2 DEF RunGivenUp
    <2> QED BY <1>2, <2>1, <2>2, EnterType, SameBody DEF RunGivenUp
  <1>3. CASE HiddenExhausted(d) BY <1>3, RunsType, EnterType, SameBody DEF HiddenExhausted, States
  <1>4. CASE HiddenToLine(d)
    <2>1. CountOK' BY <1>4, EnterType DEF HiddenToLine
    <2> QED BY <1>4, <2>1, HiddenFlightType, Numbers DEF HiddenToLine, States, FlyingStates
  <1>5. CASE HiddenReachLine(d)
    <2>1. CountOK' BY <1>5, EnterType DEF HiddenReachLine
    <2> QED BY <1>5, <2>1, HiddenFlightType, Numbers DEF HiddenReachLine, States, FlyingStates
  <1>6. CASE HiddenReady(d)
    <2>1. CountOK' BY <1>6, EnterType DEF HiddenReady
    <2> QED BY <1>6, <2>1, HiddenFlightType, Numbers DEF HiddenReady, States, FlyingStates
  <1>7. CASE HiddenWork(d)
    <2>1. CountOK' BY <1>7, EnterType DEF HiddenWork
    <2> QED BY <1>7, <2>1, HiddenFlightType, Numbers DEF HiddenWork, States, FlyingStates
  <1>8. CASE HiddenToBase(d)
    <2>1. CountOK' BY <1>8, EnterType DEF HiddenToBase
    <2> QED BY <1>8, <2>1, HiddenFlightType, Numbers DEF HiddenToBase, States, FlyingStates
  <1>9. CASE HiddenReachBase(d)
    <2>1. CountOK' BY <1>9, EnterType, Numbers DEF HiddenReachBase
    <2> QED BY <1>9, <2>1, HiddenFlightType, Numbers DEF HiddenReachBase, States, FlyingStates
  <1>10. CASE HiddenLost(d)
    <2>1. CountOK' BY <1>10, EnterType DEF HiddenLost
    <2>2. LoopOK'
      <3>1. PICK t \in States : Runs(d, "DISCONNECTED", t) BY <1>10 DEF HiddenLost, States
      <3> QED BY <3>1, RunsType
    <2>3. BodyOK' BY <1>10 DEF HiddenLost, BodyOK
    <2> QED BY <2>1, <2>2, <2>3
  <1>11. CASE Resume(d)
    <2>1. BodyOK' BY <1>11, SameBody DEF Resume
    <2>2. CASE ResumeReady(d) BY <2>1, <2>2, EnterType, RunsType DEF ResumeReady, States, FlyingStates
    <2>3. CASE ResumeFlight(d) BY <2>1, <2>3, EnterType, RunsType DEF ResumeFlight, States
    <2>4. CASE ResumeFails(d) BY <2>1, <2>4, EnterType, RunsType DEF ResumeFails, States
    <2> QED BY <1>11, <2>2, <2>3, <2>4 DEF Resume
  <1> QED BY <1>1, <1>2, <1>3, <1>4, <1>5, <1>6, <1>7, <1>8, <1>9, <1>10, <1>11 DEF RunHidden

(* Applying a fault does.                                                  *)
LEMMA ApplyFaultType ==
    ASSUME LoopOK, CountOK, BodyOK, NEW m \in Faults, NEW d \in Drones, ApplyFault(m, d)
    PROVE  LoopOK' /\ CountOK' /\ BodyOK'
  <1> m \in Fault BY WaveAssumption
  <1>1. link' \in [Drones -> Links]
    <2>1. tick \in Nat /\ link[d].since \in Nat BY DEF LoopOK, BodyOK, Links
    <2>2. [reconnect |-> m.reconnect,
           since |-> IF m.state = "DISCONNECTED" THEN tick ELSE link[d].since,
           factor |-> m.factor] \in Links
      BY <2>1 DEF Fault, Links
    <2> QED BY <2>2 DEF ApplyFault, BodyOK
  <1>2. hidden' \in [Drones -> Body] BY DEF ApplyFault, BodyOK
  <1>3. prev' \in [Drones -> States \cup {"NONE"}] BY DEF ApplyFault, BodyOK, LoopOK
  <1>4. EnterPlain \/ EnterDead(d, 0) BY DEF ApplyFault
  <1>5. st' \in [Drones -> States] BY DEF ApplyFault, LoopOK, States
  <1>6. tgData' \in Seq(Faults) BY HeadTailProperties DEF ApplyFault, LoopOK
  <1>7. LoopOK' BY <1>5, <1>6 DEF ApplyFault, LoopOK, Running, Alive
  <1>8. BodyOK' BY <1>1, <1>2, <1>3 DEF ApplyFault, BodyOK
  <1> QED BY <1>4, <1>7, <1>8, EnterType

(* The inductive typing invariant holds in every reachable state.          *)
LEMMA TypeInvHolds == Spec => []TypeInv
  <1>1. Init => TypeInv
    <2> SUFFICES ASSUME Init PROVE TypeInv OBVIOUS
    <2>1. tgData \in Seq(Faults) /\ chargeStream \in Seq([drone : Drones, charge : Int])
      BY EmptySeq DEF Init
    <2> QED BY <2>1, WaveAssumption DEF Init, TypeInv, TypeOK, Running, Drones, Body, States, FlyingStates
  <1>2. TypeInv /\ [Next]_vars => TypeInv'
    <2> SUFFICES ASSUME LoopOK, CountOK, BodyOK, [Next]_vars
                 PROVE  LoopOK' /\ CountOK' /\ BodyOK'
      BY TypeParts
    <2> USE DEF Running, droneVars, countVars, loopVars
    <2>1. CASE NoFault BY <2>1 DEF NoFault, Alive, LoopOK, CountOK, BodyOK
    <2>2. ASSUME NEW m \in Faults, NEW d \in Drones, ApplyFault(m, d)
          PROVE  LoopOK' /\ CountOK' /\ BodyOK'
      BY <2>2, ApplyFaultType
    <2>3. CASE FaultOnDeleted BY <2>3 DEF FaultOnDeleted, LoopOK, CountOK, BodyOK
    <2>4. CASE SkipDeleted
      <3>1. cursor' \in 0 .. Size BY <2>4, WaveAssumption DEF SkipDeleted, Drones
      <3> QED BY <2>4, <3>1 DEF SkipDeleted, LoopOK, CountOK, BodyOK
    <2>5. CASE EndTick
      <3>1. cursor' \in 0 .. Size BY <2>5, WaveAssumption DEF EndTick
      <3>2. tick' \in 0 .. Duration
        BY <2>5, WaveAssumption DEF EndTick, LoopOK
      <3> QED BY <2>5, <3>1, <3>2 DEF EndTick, LoopOK, CountOK, BodyOK
    <2>6. CASE Finish BY <2>6 DEF Finish, LoopOK, CountOK, BodyOK
    <2>7. ASSUME NEW d \in Drones, RunVisible(d) PROVE LoopOK' /\ CountOK' /\ BodyOK'
      BY <2>7, VisibleType
    <2>8. ASSUME NEW d \in Drones, RunHidden(d) PROVE LoopOK' /\ CountOK' /\ BodyOK'
      BY <2>8, HiddenType
    <2>9. ASSUME NEW m \in Faults, Inject(m) PROVE LoopOK' /\ CountOK' /\ BodyOK'
      <3>1. tgData' \in Seq(Faults) BY <2>9, AppendProperties DEF Inject, LoopOK
      <3>2. injected' \in 0 .. MaxFaults BY <2>9, WaveAssumption DEF Inject, LoopOK
      <3> QED BY <2>9, <3>1, <3>2 DEF Inject, LoopOK, CountOK, BodyOK
    <2>10. CASE UNCHANGED vars BY <2>10 DEF vars, LoopOK, CountOK, BodyOK
    <2> QED BY <2>1, <2>2, <2>3, <2>4, <2>5, <2>6, <2>7, <2>8, <2>9, <2>10 DEF Next, WaveStep
  <1> QED BY <1>1, <1>2, PTL DEF Spec

(* Types of the wave's and the drones' fields, for every size and fault.   *)
THEOREM TypeCorrect == Spec => []TypeOK
  <1>1. TypeInv => TypeOK BY DEF TypeInv
  <1> QED BY <1>1, TypeInvHolds, PTL

-----------------------------------------------------------------------------
(* The three kinds of run.  A drone goes on (or lies dead), dies, or lands.*)

GoesOn(d) ==
    /\ doomed' = doomed
    /\ chargeStream' = chargeStream
    /\ notWaiting' = notWaiting
    /\ \/ ready' = ready + 1
       \/ ready' = ready /\ (d \in Passed' => d \in Passed)
    /\ IF st[d] = "DEAD" THEN st'[d] = "DEAD" ELSE st'[d] \notin {"DEAD", "CHARGING"}

Dies(d) ==
    /\ st[d] # "DEAD"
    /\ st'[d] = "DEAD"
    /\ doomed' = doomed \cup {d}
    /\ chargeStream' = chargeStream
    /\ notWaiting' \in {notWaiting + 1, notWaiting + 2}
    /\ ready' = ready

Lands(d) ==
    /\ st[d] # "DEAD"
    /\ st'[d] # "DEAD"
    /\ d \in Passed
    /\ doomed' = doomed \cup {d}
    /\ \E c \in Int : chargeStream' = Append(chargeStream, [drone |-> d, charge |-> c])
    /\ UNCHANGED countVars

(* What every run has in common.                                           *)
Turn(d) ==
    /\ phase = "run" /\ phase' = "run"
    /\ d \in present /\ present' = present
    /\ cursor = d /\ cursor' = d + 1
    /\ \A e \in Drones \ {d} : st'[e] = st[e] /\ prev'[e] = prev[e]

(* Runs is the turn of drone d.                                            *)
LEMMA RunsTurn ==
    ASSUME TypeInv, NEW d \in Drones, NEW s, NEW t, Runs(d, s, t),
           prev' = prev \/ \E q : prev' = [prev EXCEPT ![d] = q]
    PROVE  Turn(d) /\ st[d] = s /\ st'[d] = t
  BY DEF Runs, Turn, loopVars, TypeInv, TypeOK

(* A visible drone goes on, dies or lands.                                 *)
LEMMA VisibleKinds ==
    ASSUME TypeInv, NEW d \in Drones, RunVisible(d)
    PROVE  Turn(d) /\ (GoesOn(d) \/ Dies(d) \/ Lands(d))
  <1> prev \in [Drones -> States \cup {"NONE"}] BY DEF TypeInv, TypeOK
  <1> notWaiting \in Nat BY DEF TypeInv, TypeOK
  <1>1. ASSUME NEW s \in FlyingStates, RunExhausted(d, s)
        PROVE  Turn(d) /\ Dies(d)
    <2>1. Turn(d) /\ st[d] = s /\ st'[d] = "DEAD" BY <1>1, RunsTurn DEF RunExhausted
    <2> QED BY <1>1, <2>1 DEF RunExhausted, EnterDead, Dies, FlyingStates
  <1>2. CASE FlyToLine(d)
    <2>1. prev' = prev BY <1>2 DEF FlyToLine, Fly
    <2>2. Turn(d) /\ st[d] = "TO_STARTING_LINE" /\ st'[d] = "TO_STARTING_LINE" BY <1>2, <2>1, RunsTurn DEF FlyToLine, RunFlying
    <2> QED BY <1>2, <2>1, <2>2 DEF FlyToLine, EnterPlain, GoesOn, Passed, countVars
  <1>3. CASE ReachLine(d)
    <2>1. prev' = prev BY <1>3 DEF ReachLine, Fly
    <2>2. Turn(d) /\ st[d] = "TO_STARTING_LINE" /\ st'[d] = "READY" BY <1>3, <2>1, RunsTurn DEF ReachLine, RunFlying
    <2> QED BY <1>3, <2>1, <2>2 DEF ReachLine, EnterReady, GoesOn, Passed, countVars
  <1>4. CASE ReadyWaits(d)
    <2>1. prev' = prev BY <1>4 DEF ReadyWaits, Fly, Stay
    <2>2. Turn(d) /\ st[d] = "READY" /\ st'[d] = "READY" BY <1>4, <2>1, RunsTurn DEF ReadyWaits, RunFlying
    <2> QED BY <1>4, <2>1, <2>2 DEF ReadyWaits, EnterPlain, GoesOn, Passed, countVars
  <1>5. CASE ReadyStarts(d)
    <2>1. prev' = prev BY <1>5 DEF ReadyStarts, Fly, Stay
    <2>2. Turn(d) /\ st[d] = "READY" /\ st'[d] = "WORKING" BY <1>5, <2>1, RunsTurn DEF ReadyStarts, RunFlying
    <2> QED BY <1>5, <2>1, <2>2 DEF ReadyStarts, EnterPlain, GoesOn, Passed, countVars
  <1>6. CASE Work(d)
    <2>1. prev' = prev BY <1>6 DEF Work, Fly
    <2>2. Turn(d) /\ st[d] = "WORKING" /\ st'[d] = "WORKING" BY <1>6, <2>1, RunsTurn DEF Work, RunFlying
    <2> QED BY <1>6, <2>1, <2>2 DEF Work, EnterPlain, GoesOn, Passed, countVars
  <1>7. CASE WorkDone(d)
    <2>1. prev' = prev BY <1>7 DEF WorkDone, Fly, Stay
    <2>2. Turn(d) /\ st[d] = "WORKING" /\ st'[d] = "TO_BASE" BY <1>7, <2>1, RunsTurn DEF WorkDone, RunFlying
    <2> QED BY <1>7, <2>1, <2>2 DEF WorkDone, EnterPlain, GoesOn, Passed, countVars
  <1>8. CASE FlyToBase(d)
    <2>1. prev' = prev BY <1>8 DEF FlyToBase, Fly
    <2>2. Turn(d) /\ st[d] = "TO_BASE" /\ st'[d] = "TO_BASE" BY <1>8, <2>1, RunsTurn DEF FlyToBase, RunFlying
    <2> QED BY <1>8, <2>1, <2>2 DEF FlyToBase, EnterPlain, GoesOn, Passed, countVars
  <1>9. CASE ReachBase(d)
    <2>1. prev' = prev BY <1>9 DEF ReachBase, Fly
    <2>2. Turn(d) /\ st[d] = "TO_BASE" /\ st'[d] = "CHARGING" BY <1>9, <2>1, RunsTurn DEF ReachBase, RunFlying
    <2>3. phys[d].charge - Cost(d) \in Int BY Numbers, TypeParts
    <2> QED BY <1>9, <2>2, <2>3 DEF ReachBase, EnterCharging, Lands, Passed
  <1>10. CASE RunDead(d)
    <2>1. Turn(d) /\ st[d] = "DEAD" /\ st'[d] = "DEAD" BY <1>10, RunsTurn DEF RunDead
    <2> QED BY <1>10, <2>1 DEF RunDead, EnterPlain, GoesOn, Passed, countVars
  <1> QED BY <1>1, <1>2, <1>3, <1>4, <1>5, <1>6, <1>7, <1>8, <1>9, <1>10 DEF RunVisible

(* A hidden flight is a turn that leaves the drone's previous state as q.  *)
LEMMA HiddenTurn ==
    ASSUME TypeInv, NEW d \in Drones, NEW p, NEW x, NEW q, NEW s, HiddenFlight(d, p, x, q, s)
    PROVE  /\ Turn(d)
           /\ st[d] = "DISCONNECTED" /\ st'[d] \in {"RECONNECTED", s}
           /\ prev[d] = p /\ prev'[d] = q
  <1>1. PICK t \in {"RECONNECTED", s} : Runs(d, "DISCONNECTED", t) BY DEF HiddenFlight
  <1>2. prev' = [prev EXCEPT ![d] = q] /\ prev[d] = p BY DEF HiddenFlight
  <1>3. prev'[d] = q BY <1>2 DEF TypeInv, TypeOK
  <1> QED BY <1>1, <1>2, <1>3, RunsTurn

(* A disconnected or reconnected drone goes on, dies or lands.             *)
LEMMA HiddenKinds ==
    ASSUME TypeInv, NEW d \in Drones, RunHidden(d)
    PROVE  Turn(d) /\ (GoesOn(d) \/ Dies(d) \/ Lands(d))
  <1> notWaiting \in Nat BY DEF TypeInv, TypeOK
  <1>1. CASE RunUnreachable(d)
    <2>1. prev' = prev BY <1>1 DEF RunUnreachable
    <2>2. Turn(d) /\ st[d] = "DISCONNECTED" /\ st'[d] = "DISCONNECTED"
      BY <1>1, RunsTurn DEF RunUnreachable
    <2> QED BY <1>1, <2>1, <2>2 DEF RunUnreachable, EnterPlain, GoesOn, Passed, countVars
  <1>2. CASE RunGivenUp(d)
    <2>1. Turn(d) /\ st[d] = "DISCONNECTED" /\ st'[d] = "DEAD" BY <1>2, RunsTurn DEF RunGivenUp
    <2> QED BY <1>2, <2>1 DEF RunGivenUp, EnterDead, Dies
  <1>3. CASE HiddenExhausted(d)
    <2>1. Turn(d) /\ st[d] = "DISCONNECTED" /\ st'[d] = "DEAD" BY <1>3, RunsTurn DEF HiddenExhausted
    <2> QED BY <1>3, <2>1 DEF HiddenExhausted, EnterDead, Dies
  <1>4. CASE HiddenToLine(d)
    <2>1. Turn(d) /\ st[d] = "DISCONNECTED" /\ st'[d] \in {"RECONNECTED", "DISCONNECTED"} /\ prev[d] = "TO_STARTING_LINE" /\ prev'[d] = "TO_STARTING_LINE"
      BY <1>4, HiddenTurn DEF HiddenToLine
    <2> QED BY <1>4, <2>1 DEF HiddenToLine, EnterPlain, GoesOn, Passed, countVars
  <1>5. CASE HiddenReachLine(d)
    <2>1. Turn(d) /\ st[d] = "DISCONNECTED" /\ st'[d] \in {"RECONNECTED", "DISCONNECTED"} /\ prev[d] = "TO_STARTING_LINE" /\ prev'[d] = "READY"
      BY <1>5, HiddenTurn DEF HiddenReachLine
    <2> QED BY <1>5, <2>1 DEF HiddenReachLine, EnterReady, GoesOn, Passed, countVars
  <1>6. CASE HiddenReady(d)
    <2>1. Turn(d) /\ st[d] = "DISCONNECTED" /\ st'[d] \in {"RECONNECTED", "DISCONNECTED"} /\ prev[d] = "READY"
      BY <1>6, HiddenTurn DEF HiddenReady
    <2> QED BY <1>6, <2>1 DEF HiddenReady, EnterPlain, GoesOn, Passed, countVars
  <1>7. CASE HiddenWork(d)
    <2>1. Turn(d) /\ st[d] = "DISCONNECTED" /\ st'[d] \in {"RECONNECTED", "DISCONNECTED"} /\ prev[d] = "WORKING"
      BY <1>7, HiddenTurn DEF HiddenWork
    <2> QED BY <1>7, <2>1 DEF HiddenWork, EnterPlain, GoesOn, Passed, countVars
  <1>8. CASE HiddenToBase(d)
    <2>1. Turn(d) /\ st[d] = "DISCONNECTED" /\ st'[d] \in {"RECONNECTED", "DISCONNECTED"} /\ prev[d] = "TO_BASE"
      BY <1>8, HiddenTurn DEF HiddenToBase
    <2> QED BY <1>8, <2>1 DEF HiddenToBase, EnterPlain, GoesOn, Passed, countVars
  <1>9. CASE HiddenReachBase(d)
    <2>1. Turn(d) /\ st[d] = "DISCONNECTED" /\ st'[d] \in {"RECONNECTED", "CHARGING"} /\ prev[d] = "TO_BASE"
      BY <1>9, HiddenTurn DEF HiddenReachBase
    <2>2. phys[d].charge \in Int BY Numbers, TypeParts
    <2> QED BY <1>9, <2>1, <2>2 DEF HiddenReachBase, EnterCharging, Lands, Passed
  <1>10. CASE HiddenLost(d)
    <2>1. prev' = prev BY <1>10 DEF HiddenLost
    <2>2. Turn(d) /\ st[d] = "DISCONNECTED" /\ st'[d] \in {"RECONNECTED", "DISCONNECTED"}
      BY <1>10, <2>1, RunsTurn DEF HiddenLost
    <2> QED BY <1>10, <2>1, <2>2 DEF HiddenLost, EnterPlain, GoesOn, Passed, countVars
  <1>11. CASE Resume(d)
    <2>1. prev' = prev BY <1>11 DEF Resume
    <2>2. CASE ResumeReady(d)
      <3>1. Turn(d) /\ st[d] = "RECONNECTED" /\ st'[d] = "READY" BY <2>1, <2>2, RunsTurn DEF ResumeReady
      <3> QED BY <2>2, <3>1 DEF ResumeReady, EnterReady, GoesOn
    <2>3. CASE ResumeFlight(d)
      <3>1. Turn(d) /\ st[d] = "RECONNECTED" /\ st'[d] = prev[d] BY <2>1, <2>3, RunsTurn DEF ResumeFlight
      <3>2. prev[d] \in {"TO_STARTING_LINE", "WORKING", "TO_BASE"} BY <2>3 DEF ResumeFlight, FlyingStates
      <3> QED BY <2>1, <2>3, <3>1, <3>2 DEF ResumeFlight, EnterPlain, GoesOn, Passed, countVars
    <2>4. CASE ResumeFails(d)
      <3>1. Turn(d) /\ st[d] = "RECONNECTED" /\ st'[d] = "DEAD" BY <2>1, <2>4, RunsTurn DEF ResumeFails
      <3> QED BY <2>4, <3>1 DEF ResumeFails, EnterDead, Dies
    <2> QED BY <1>11, <2>2, <2>3, <2>4 DEF Resume
  <1> QED BY <1>1, <1>2, <1>3, <1>4, <1>5, <1>6, <1>7, <1>8, <1>9, <1>10, <1>11 DEF RunHidden

-----------------------------------------------------------------------------
(* CountsCover: a drone passes the line, or dies, only in a step that      *)
(* raises a counter.                                                       *)

(* A set of drones that gains at most d, and only when a counter rises.    *)
LEMMA OneMore ==
    ASSUME NEW P \in SUBSET Drones, NEW Q \in SUBSET Drones, NEW d \in Drones,
           Q \subseteq P \cup {d},
           NEW r \in Nat, NEW w \in Nat, Cardinality(P) <= r + w,
           NEW r2 \in Nat, NEW w2 \in Nat, r2 >= r, w2 >= w,
           r2 = r /\ w2 = w => d \notin Q \ P
    PROVE  Cardinality(Q) <= r2 + w2
  <1>1. IsFiniteSet(Drones) BY WaveAssumption, FS_Interval DEF Drones
  <1>2. IsFiniteSet(P) /\ IsFiniteSet(Q) BY <1>1, FS_Subset
  <1>3. Cardinality(P) \in Nat /\ Cardinality(Q) \in Nat BY <1>2, FS_CardinalityType
  <1>4. CASE d \in Q \ P
    <2>1. IsFiniteSet(P \cup {d}) /\ Cardinality(P \cup {d}) = Cardinality(P) + 1
      BY <1>2, <1>4, FS_AddElement
    <2>2. Cardinality(Q) <= Cardinality(P \cup {d}) BY <2>1, FS_Subset
    <2>3. r2 + w2 >= r + w + 1 BY <1>4
    <2> QED BY <1>3, <2>1, <2>2, <2>3
  <1>5. CASE d \notin Q \ P
    <2>1. Q \subseteq P BY <1>5
    <2>2. Cardinality(Q) <= Cardinality(P) BY <1>2, <2>1, FS_Subset
    <2> QED BY <1>3, <2>2
  <1> QED BY <1>4, <1>5

(* Steps that leave the drones and the counters alone.                     *)
LEMMA SamePassed ==
    ASSUME CountsCover, UNCHANGED <<st, prev, ready, notWaiting>>
    PROVE  CountsCover'
  <1>1. Passed' = Passed BY DEF Passed
  <1> QED BY <1>1 DEF CountsCover

(* CountsCover is preserved by the turn of a drone.                        *)
LEMMA TurnCounts ==
    ASSUME TypeInv, TypeInv', CountsCover, NEW d \in Drones, Turn(d), GoesOn(d) \/ Dies(d) \/ Lands(d)
    PROVE  CountsCover'
  <1>1. ready \in Nat /\ notWaiting \in Nat /\ ready' \in Nat /\ notWaiting' \in Nat
    BY TypeParts DEF CountOK
  <1>2. Passed \in SUBSET Drones /\ Passed' \in SUBSET Drones BY DEF Passed
  <1>3. Passed' \subseteq Passed \cup {d} BY DEF Turn, Passed
  <1>4. /\ ready' >= ready
        /\ notWaiting' >= notWaiting
        /\ ready' = ready /\ notWaiting' = notWaiting => d \notin Passed' \ Passed
    <2>1. CASE GoesOn(d) BY <1>1, <2>1 DEF GoesOn
    <2>2. CASE Dies(d) BY <1>1, <2>2 DEF Dies
    <2>3. CASE Lands(d) BY <1>1, <2>3 DEF Lands, countVars
    <2> QED BY <2>1, <2>2, <2>3
  <1> QED BY <1>1, <1>2, <1>3, <1>4, OneMore DEF CountsCover

(* CountsCover is preserved when a fault is applied to a drone.            *)
LEMMA FaultCounts ==
    ASSUME TypeInv, TypeInv', CountsCover, NEW m \in Faults, NEW d \in Drones, ApplyFault(m, d)
    PROVE  CountsCover'
  <1>1. ready \in Nat /\ notWaiting \in Nat /\ ready' \in Nat /\ notWaiting' \in Nat
    BY TypeParts DEF CountOK
  <1>2. Passed \in SUBSET Drones /\ Passed' \in SUBSET Drones BY DEF Passed
  <1>3. \A e \in Drones \ {d} : st'[e] = st[e] /\ prev'[e] = prev[e]
    BY DEF ApplyFault, TypeInv, TypeOK
  <1>4. Passed' \subseteq Passed \cup {d} BY <1>3 DEF Passed
  <1>5. /\ ready' >= ready
        /\ notWaiting' >= notWaiting
        /\ ready' = ready /\ notWaiting' = notWaiting => d \notin Passed' \ Passed
    <2>1. prev'[d] = st[d] BY DEF ApplyFault, TypeInv, TypeOK
    <2>2. CASE m.state = "NONE"
      <3>1. st' = st /\ UNCHANGED countVars BY <2>2 DEF ApplyFault, EnterPlain
      <3> QED BY <1>1, <2>1, <3>1 DEF Passed, countVars
    <2>3. CASE m.state = "DEAD" BY <1>1, <2>3 DEF ApplyFault, EnterDead
    <2>4. CASE m.state = "DISCONNECTED"
      <3>1. st'[d] = "DISCONNECTED" BY <2>4 DEF ApplyFault, TypeInv, TypeOK
      <3>2. UNCHANGED countVars BY <2>4 DEF ApplyFault, EnterPlain
      <3> QED BY <1>1, <2>1, <3>1, <3>2 DEF Passed, countVars
    <2> QED BY <2>2, <2>3, <2>4 DEF ApplyFault
  <1> QED BY <1>1, <1>2, <1>4, <1>5, OneMore DEF CountsCover

(* The counters never leave a drone out, for a wave of any size and any    *)
(* faults: Passed grows by at most one drone in a step, and then a counter *)
(* grows too (DroneState.cpp:23,50,161,227,305).                           *)
THEOREM CountsCoverHolds == Spec => []CountsCover
  <1>1. Init => CountsCover
    <2> SUFFICES ASSUME Init PROVE CountsCover OBVIOUS
    <2>1. Passed = {} BY DEF Init, Passed
    <2> QED BY <2>1, FS_EmptySet DEF Init, CountsCover
  <1>2. TypeInv /\ TypeInv' /\ CountsCover /\ [Next]_vars => CountsCover'
    <2> SUFFICES ASSUME TypeInv, TypeInv', CountsCover, [Next]_vars PROVE CountsCover' OBVIOUS
    <2> USE DEF droneVars, countVars, loopVars
    <2>1. CASE NoFault BY <2>1, SamePassed DEF NoFault
    <2>2. ASSUME NEW m \in Faults, NEW d \in Drones, ApplyFault(m, d) PROVE CountsCover'
      BY <2>2, FaultCounts
    <2>3. CASE FaultOnDeleted BY <2>3, SamePassed DEF FaultOnDeleted
    <2>4. CASE SkipDeleted BY <2>4, SamePassed DEF SkipDeleted
    <2>5. CASE EndTick BY <2>5, SamePassed DEF EndTick
    <2>6. CASE Finish BY <2>6, SamePassed DEF Finish
    <2>7. ASSUME NEW d \in Drones, RunVisible(d) PROVE CountsCover'
      BY <2>7, VisibleKinds, TurnCounts
    <2>8. ASSUME NEW d \in Drones, RunHidden(d) PROVE CountsCover'
      BY <2>8, HiddenKinds, TurnCounts
    <2>9. ASSUME NEW m \in Faults, Inject(m) PROVE CountsCover' BY <2>9, SamePassed DEF Inject
    <2>10. CASE UNCHANGED vars BY <2>10, SamePassed DEF vars
    <2> QED BY <2>1, <2>2, <2>3, <2>4, <2>5, <2>6, <2>7, <2>8, <2>9, <2>10 DEF Next, WaveStep
  <1> QED BY <1>1, <1>2, TypeInvHolds, PTL DEF Spec

(* The wave never waits for a drone that will not come: while the counters *)
(* fall short of the wave's size, some drone has yet to reach the line     *)
(* (DroneState.cpp:59-61).                                                 *)
THEOREM WaitsOnlyForSomeoneHolds == Spec => WaitsOnlyForSomeone
  <1>1. TypeInv /\ CountsCover => [\A d \in Drones : ReadyWaits(d) => Passed # Drones]_vars
    <2> SUFFICES ASSUME TypeInv, CountsCover, NEW d \in Drones, ReadyWaits(d)
                 PROVE  Passed # Drones
      OBVIOUS
    <2>1. ready < Size - notWaiting BY WaveAssumption DEF ReadyWaits, LineComplete, TypeInv, TypeOK
    <2>2. Cardinality(Drones) = Size BY WaveAssumption, FS_Interval DEF Drones
    <2> QED BY <2>1, <2>2, WaveAssumption DEF CountsCover, TypeInv, TypeOK
  <1> QED BY <1>1, TypeInvHolds, CountsCoverHolds, PTL DEF WaitsOnlyForSomeone

-----------------------------------------------------------------------------
(* OnlyDoubleCountStartsEarly: nobody is past the start before the two     *)
(* counters have reached the size of the wave, and they never fall.        *)

Past(d) == st[d] \in {"WORKING", "TO_BASE"} \/ prev[d] \in {"WORKING", "TO_BASE"}

StartInv == (\E d \in Drones : Past(d)) => ready + notWaiting >= Size

(* The visible turns that take a drone past the start test the counters.   *)
LEMMA VisibleStarts ==
    ASSUME TypeInv, NEW d \in Drones, RunVisible(d), Past(d)', ~Past(d)
    PROVE  LineComplete
  <1> prev \in [Drones -> States \cup {"NONE"}] BY DEF TypeInv, TypeOK
  <1> USE DEF Past
  <1>1. ASSUME NEW s \in FlyingStates, RunExhausted(d, s) PROVE FALSE
    <2>1. st'[d] = "DEAD" /\ prev' = prev BY <1>1, RunsTurn DEF RunExhausted
    <2> QED BY <2>1
  <1>2. ASSUME NEW s, NEW t, RunFlying(d, s, t), prev' = prev
        PROVE  st[d] = s /\ st'[d] = t
    BY <1>2, RunsTurn DEF RunFlying
  <1>3. CASE FlyToLine(d) BY <1>2, <1>3 DEF FlyToLine, Fly
  <1>4. CASE ReachLine(d) BY <1>2, <1>4 DEF ReachLine, Fly
  <1>5. CASE ReadyWaits(d) BY <1>2, <1>5 DEF ReadyWaits, Stay, Fly
  <1>6. CASE ReadyStarts(d) BY <1>6 DEF ReadyStarts
  <1>7. CASE Work(d) BY <1>2, <1>7 DEF Work, Fly
  <1>8. CASE WorkDone(d) BY <1>2, <1>8 DEF WorkDone, Stay, Fly
  <1>9. CASE FlyToBase(d) BY <1>2, <1>9 DEF FlyToBase, Fly
  <1>10. CASE ReachBase(d) BY <1>2, <1>10 DEF ReachBase, Fly
  <1>11. CASE RunDead(d)
    <2>1. st'[d] = "DEAD" /\ prev' = prev BY <1>11, RunsTurn DEF RunDead
    <2> QED BY <2>1
  <1> QED BY <1>1, <1>3, <1>4, <1>5, <1>6, <1>7, <1>8, <1>9, <1>10, <1>11 DEF RunVisible

(* So do the hidden ones.                                                  *)
LEMMA HiddenStarts ==
    ASSUME TypeInv, NEW d \in Drones, RunHidden(d), Past(d)', ~Past(d)
    PROVE  LineComplete
  <1> USE DEF Past
  <1>1. ASSUME NEW t \in {"DISCONNECTED", "RECONNECTED", "DEAD", "READY"},
               NEW s, Runs(d, s, t), prev' = prev
        PROVE  FALSE
    BY <1>1, RunsTurn
  <1>2. CASE RunUnreachable(d) BY <1>1, <1>2 DEF RunUnreachable
  <1>3. CASE RunGivenUp(d) BY <1>1, <1>3 DEF RunGivenUp
  <1>4. CASE HiddenExhausted(d) BY <1>1, <1>4 DEF HiddenExhausted
  <1>5. ASSUME NEW p, NEW x, NEW q, NEW s \in {"DISCONNECTED", "CHARGING"}, HiddenFlight(d, p, x, q, s)
        PROVE  st'[d] \in {"RECONNECTED", "DISCONNECTED", "CHARGING"} /\ prev[d] = p /\ prev'[d] = q
    BY <1>5, HiddenTurn
  <1>6. CASE HiddenToLine(d) BY <1>5, <1>6 DEF HiddenToLine
  <1>7. CASE HiddenReachLine(d) BY <1>5, <1>7 DEF HiddenReachLine
  <1>8. CASE HiddenReady(d)
    <2>1. prev'[d] = (IF LineComplete THEN "WORKING" ELSE "READY")
          /\ st'[d] \in {"RECONNECTED", "DISCONNECTED", "CHARGING"}
      BY <1>5, <1>8 DEF HiddenReady
    <2> QED BY <2>1
  <1>9. CASE HiddenWork(d) BY <1>5, <1>9 DEF HiddenWork
  <1>10. CASE HiddenToBase(d) BY <1>5, <1>10 DEF HiddenToBase
  <1>11. CASE HiddenReachBase(d) BY <1>5, <1>11 DEF HiddenReachBase
  <1>12. CASE HiddenLost(d) BY <1>1, <1>12 DEF HiddenLost
  <1>13. CASE Resume(d)
    <2>1. prev' = prev BY <1>13 DEF Resume
    <2>2. CASE ResumeReady(d) BY <1>1, <2>1, <2>2 DEF ResumeReady
    <2>3. CASE ResumeFlight(d)
      <3>1. st'[d] = prev[d] BY <2>1, <2>3, RunsTurn DEF ResumeFlight
      <3> QED BY <2>1, <3>1
    <2>4. CASE ResumeFails(d) BY <1>1, <2>1, <2>4 DEF ResumeFails
    <2> QED BY <1>13, <2>2, <2>3, <2>4 DEF Resume
  <1> QED
    BY <1>2, <1>3, <1>4, <1>6, <1>7, <1>8, <1>9, <1>10, <1>11, <1>12, <1>13 DEF RunHidden

(* Counters that have reached the size of the wave and rise stay there.    *)
LEMMA Rising ==
    ASSUME NEW r \in Nat, NEW w \in Nat, NEW r2 \in Nat, NEW w2 \in Nat,
           r2 >= r, w2 >= w, r + w >= Size
    PROVE  r2 + w2 >= Size
  BY WaveAssumption

(* StartInv is preserved by the turn of a drone.                           *)
LEMMA TurnStarts ==
    ASSUME TypeInv, TypeInv', StartInv, NEW d \in Drones, Turn(d),
           GoesOn(d) \/ Dies(d) \/ Lands(d),
           Past(d)' /\ ~Past(d) => LineComplete
    PROVE  StartInv'
  <1>1. /\ ready \in Nat /\ notWaiting \in Nat /\ ready' \in Nat /\ notWaiting' \in Nat
        /\ Size \in Nat
    BY TypeParts, WaveAssumption DEF CountOK
  <1>2. ready' >= ready /\ notWaiting' >= notWaiting
    BY <1>1 DEF GoesOn, Dies, Lands, countVars
  <1>3. \A e \in Drones \ {d} : Past(e)' => Past(e) BY DEF Turn, Past
  <1>4. LineComplete => ready + notWaiting >= Size BY <1>1 DEF LineComplete
  <1>5. ASSUME NEW e \in Drones, Past(e)' PROVE ready' + notWaiting' >= Size
    <2>1. ready + notWaiting >= Size
      <3>1. CASE e = d BY <1>4, <1>5, <3>1 DEF StartInv, Past
      <3>2. CASE e # d BY <1>3, <1>5, <3>2 DEF StartInv
      <3> QED BY <3>1, <3>2
    <2> QED BY <1>1, <1>2, <2>1, Rising
  <1> QED BY <1>5 DEF StartInv, Past

(* StartInv is preserved by the application of a fault.                    *)
LEMMA FaultStarts ==
    ASSUME TypeInv, TypeInv', StartInv, NEW m \in Faults, NEW d \in Drones, ApplyFault(m, d)
    PROVE  StartInv'
  <1>1. /\ ready \in Nat /\ notWaiting \in Nat /\ ready' \in Nat /\ notWaiting' \in Nat
        /\ Size \in Nat
    BY TypeParts, WaveAssumption DEF CountOK
  <1>2. ready' >= ready /\ notWaiting' >= notWaiting
    BY <1>1 DEF ApplyFault, EnterPlain, EnterDead, countVars
  <1>3. \A e \in Drones : Past(e)' => Past(e)
    BY DEF ApplyFault, Past, TypeInv, TypeOK
  <1>4. ASSUME NEW e \in Drones, Past(e)' PROVE ready' + notWaiting' >= Size
    <2>1. ready + notWaiting >= Size BY <1>3, <1>4 DEF StartInv
    <2> QED BY <1>1, <1>2, <2>1, Rising
  <1> QED BY <1>4 DEF StartInv, Past

(* Whatever faults a wave of any size meets, drones past the start while   *)
(* some drone is still missing at the line mean that a drone was counted   *)
(* twice: no handler lets a drone start on counters that are too low, and  *)
(* a set as large as the wave is the wave (DroneState.cpp:59-61,164-174).  *)
THEOREM OnlyDoubleCountStartsEarlyHolds == Spec => []OnlyDoubleCountStartsEarly
  <1>1. Init => StartInv BY DEF Init, StartInv, Past
  <1>2. TypeInv /\ TypeInv' /\ StartInv /\ [Next]_vars => StartInv'
    <2> SUFFICES ASSUME TypeInv, TypeInv', StartInv, [Next]_vars PROVE StartInv' OBVIOUS
    <2> USE DEF droneVars, countVars, loopVars
    <2>1. ASSUME UNCHANGED <<st, prev, ready, notWaiting>> PROVE StartInv'
      BY <2>1 DEF StartInv, Past
    <2>2. CASE \/ NoFault \/ FaultOnDeleted \/ SkipDeleted \/ EndTick \/ Finish
               \/ \E m \in Faults : Inject(m)
      BY <2>1, <2>2 DEF NoFault, FaultOnDeleted, SkipDeleted, EndTick, Finish, Inject
    <2>3. ASSUME NEW m \in Faults, NEW d \in Drones, ApplyFault(m, d) PROVE StartInv'
      BY <2>3, FaultStarts
    <2>4. ASSUME NEW d \in Drones, RunVisible(d) PROVE StartInv'
      BY <2>4, VisibleKinds, VisibleStarts, TurnStarts
    <2>5. ASSUME NEW d \in Drones, RunHidden(d) PROVE StartInv'
      BY <2>5, HiddenKinds, HiddenStarts, TurnStarts
    <2>6. CASE UNCHANGED vars BY <2>1, <2>6 DEF vars
    <2> QED BY <2>2, <2>3, <2>4, <2>5, <2>6 DEF Next, WaveStep
  <1>3. TypeInv /\ StartInv => OnlyDoubleCountStartsEarly
    <2> SUFFICES ASSUME TypeInv, StartInv, \E d \in Drones : st[d] \in {"WORKING", "TO_BASE"},
                        ready + notWaiting = Cardinality(Passed)
                 PROVE  Passed = Drones
      BY DEF OnlyDoubleCountStartsEarly
    <2>1. Cardinality(Passed) >= Size BY DEF StartInv, Past
    <2>2. IsFiniteSet(Drones) /\ Cardinality(Drones) = Size
      BY WaveAssumption, FS_Interval DEF Drones
    <2>3. Passed \subseteq Drones BY DEF Passed
    <2>4. Cardinality(Passed) <= Cardinality(Drones) BY <2>2, <2>3, FS_Subset
    <2>5. Cardinality(Passed) \in Nat BY <2>2, <2>3, FS_Subset, FS_CardinalityType
    <2>6. Cardinality(Passed) = Cardinality(Drones) BY <2>1, <2>2, <2>4, <2>5, WaveAssumption
    <2> QED BY <2>2, <2>3, <2>6, FS_Subset
  <1> QED BY <1>1, <1>2, <1>3, TypeInvHolds, PTL DEF Spec

-----------------------------------------------------------------------------
(* OneFate.  A drone is doomed in the step in which it dies or lands, and  *)
(* deleted at the end of that tick, before its next turn: no other step    *)
(* can give it a second fate.                                              *)

Doom ==
    /\ \A d \in Drones \ present : d \in doomed
    /\ \A d \in doomed : st[d] = "DEAD" <=> ~Sent(d)
    /\ \A d \in Drones \ doomed : st[d] # "DEAD" /\ ~Sent(d)

(* A doomed drone that is not deleted has had its turn or is dead.         *)
Turned ==
    /\ phase # "run" => doomed \cap present = {}
    /\ \A d \in doomed \cap present : d < cursor \/ st[d] = "DEAD"

SentOnce ==
    \A i, j \in DOMAIN chargeStream :
        chargeStream[i].drone = chargeStream[j].drone => i = j

FateInv == Doom /\ Turned /\ SentOnce

(* What a landing adds to the charge stream.                               *)
LEMMA SentByLanding ==
    ASSUME TypeInv, NEW d \in Drones, NEW c \in Int,
           chargeStream' = Append(chargeStream, [drone |-> d, charge |-> c])
    PROVE  /\ \A e \in Drones : Sent(e)' <=> (Sent(e) \/ e = d)
           /\ SentOnce /\ ~Sent(d) => SentOnce'
  <1> DEFINE r == [drone |-> d, charge |-> c]
             E == [drone : Drones, charge : Int]
  <1>1. chargeStream \in Seq(E) /\ r \in E BY DEF TypeInv, TypeOK
  <1>2. /\ Len(chargeStream) \in Nat
        /\ DOMAIN chargeStream = 1 .. Len(chargeStream)
        /\ DOMAIN chargeStream' = 1 .. Len(chargeStream) + 1
        /\ \A i \in 1 .. Len(chargeStream) : chargeStream'[i] = chargeStream[i]
        /\ chargeStream'[Len(chargeStream) + 1] = r
    BY <1>1
  <1>3. chargeStream'[Len(chargeStream) + 1].drone = d BY <1>2
  <1>4. \A e \in Drones : Sent(e)' <=> (Sent(e) \/ e = d)
    BY <1>2, <1>3 DEF Sent
  <1>5. ASSUME SentOnce, ~Sent(d) PROVE SentOnce'
    <2> SUFFICES ASSUME NEW i \in 1 .. Len(chargeStream) + 1, NEW j \in 1 .. Len(chargeStream) + 1,
                        chargeStream'[i].drone = chargeStream'[j].drone
                 PROVE  i = j
      BY <1>2 DEF SentOnce
    <2>1. CASE i \in 1 .. Len(chargeStream) /\ j \in 1 .. Len(chargeStream)
      BY <1>2, <1>5, <2>1 DEF SentOnce
    <2>2. CASE i = Len(chargeStream) + 1 /\ j \in 1 .. Len(chargeStream)
      BY <1>2, <1>3, <1>5, <2>2 DEF Sent
    <2>3. CASE j = Len(chargeStream) + 1 /\ i \in 1 .. Len(chargeStream)
      BY <1>2, <1>3, <1>5, <2>3 DEF Sent
    <2> QED BY <1>2, <2>1, <2>2, <2>3
  <1> QED BY <1>4, <1>5

(* A turn that dooms at most its own drone and revives none keeps Turned.  *)
LEMMA TurnTurned ==
    ASSUME TypeInv, Turned, NEW d \in Drones, Turn(d),
           doomed' \subseteq doomed \cup {d},
           \A e \in Drones : st[e] = "DEAD" => st'[e] = "DEAD"
    PROVE  Turned'
  <1>1. /\ phase = "run" /\ phase' = "run" /\ present' = present
        /\ cursor = d /\ cursor' = d + 1
    BY DEF Turn
  <1>2. doomed \subseteq Drones BY DEF TypeInv, TypeOK
  <1>3. d < cursor' /\ \A e \in Drones : e < cursor => e < cursor'
    BY <1>1, WaveAssumption DEF Drones
  <1>4. ASSUME NEW e \in doomed' \cap present'
        PROVE  e < cursor' \/ st'[e] = "DEAD"
    <2>1. CASE e = d BY <1>3, <2>1
    <2>2. CASE e # d
      <3>1. e \in doomed \cap present /\ e \in Drones BY <1>1, <1>2, <1>4, <2>2
      <3>2. e < cursor \/ st[e] = "DEAD" BY <3>1 DEF Turned
      <3> QED BY <1>3, <3>1, <3>2
    <2> QED BY <2>1, <2>2
  <1> QED BY <1>1, <1>4 DEF Turned

(* FateInv is preserved by a turn: a doomed drone whose turn it is is dead.*)
LEMMA TurnFate ==
    ASSUME TypeInv, FateInv, NEW d \in Drones, Turn(d), GoesOn(d) \/ Dies(d) \/ Lands(d)
    PROVE  FateInv'
  <1>1. d \in doomed => st[d] = "DEAD" BY DEF FateInv, Turned, Turn, Drones
  <1>2. doomed \subseteq Drones /\ cursor \in Int /\ Drones \subseteq Int
    BY WaveAssumption DEF TypeInv, TypeOK, Drones
  <1>3. CASE GoesOn(d)
    <2>1. \A e \in Drones : Sent(e)' <=> Sent(e) BY <1>3 DEF GoesOn, Sent
    <2>2. \A e \in Drones : (st[e] = "DEAD") <=> (st'[e] = "DEAD") BY <1>3 DEF GoesOn, Turn
    <2>3. Doom' BY <1>2, <1>3, <2>1, <2>2 DEF Doom, FateInv, GoesOn, Turn
    <2>4. Turned' BY <1>3, <2>2, TurnTurned DEF FateInv, GoesOn
    <2>5. SentOnce' BY <1>3 DEF SentOnce, FateInv, GoesOn
    <2> QED BY <2>3, <2>4, <2>5 DEF FateInv
  <1>4. CASE Dies(d)
    <2>1. \A e \in Drones : Sent(e)' <=> Sent(e) BY <1>4 DEF Dies, Sent
    <2>2. d \notin doomed BY <1>1, <1>4 DEF Dies
    <2>3. Doom' BY <1>2, <1>4, <2>1, <2>2 DEF Doom, FateInv, Dies, Turn
    <2>4. Turned'
      <3>1. \A e \in Drones : st[e] = "DEAD" => st'[e] = "DEAD" BY <1>4 DEF Dies, Turn
      <3> QED BY <1>4, <3>1, TurnTurned DEF FateInv, Dies
    <2>5. SentOnce' BY <1>4 DEF SentOnce, FateInv, Dies
    <2> QED BY <2>3, <2>4, <2>5 DEF FateInv
  <1>5. CASE Lands(d)
    <2>1. PICK c \in Int : chargeStream' = Append(chargeStream, [drone |-> d, charge |-> c])
      BY <1>5 DEF Lands
    <2>2. d \notin doomed BY <1>1, <1>5 DEF Lands
    <2>3. ~Sent(d) BY <2>2 DEF FateInv, Doom
    <2>4. \A e \in Drones : Sent(e)' <=> (Sent(e) \/ e = d) BY <2>1, SentByLanding
    <2>5. SentOnce' BY <2>1, <2>3, SentByLanding DEF FateInv
    <2>6. Doom' BY <1>2, <1>5, <2>2, <2>4 DEF Doom, FateInv, Lands, Turn
    <2>7. \A e \in Drones : st[e] = "DEAD" => st'[e] = "DEAD" BY <1>5 DEF Lands, Turn
    <2>8. Turned' BY <1>5, <2>7, TurnTurned DEF FateInv, Lands
    <2> QED BY <2>5, <2>6, <2>8 DEF FateInv
  <1> QED BY <1>3, <1>4, <1>5

(* FateInv is preserved when a fault is applied: the drone is not doomed,  *)
(* for it is still there at the start of a tick.                           *)
LEMMA FaultFate ==
    ASSUME TypeInv, FateInv, NEW m \in Faults, NEW d \in Drones, ApplyFault(m, d)
    PROVE  FateInv'
  <1>1. /\ d \notin doomed /\ doomed \cap present = {}
        /\ st[d] # "DEAD" /\ ~Sent(d)
    BY DEF FateInv, Turned, Doom, ApplyFault
  <1>2. \A e \in Drones \ {d} : st'[e] = st[e] BY DEF ApplyFault, TypeInv, TypeOK
  <1>3. /\ present' = present /\ chargeStream' = chargeStream /\ cursor' = cursor
    BY DEF ApplyFault, EnterPlain, EnterDead
  <1>4. \A e \in Drones : Sent(e)' <=> Sent(e) BY <1>3 DEF Sent
  <1>5. SentOnce' BY <1>3 DEF SentOnce, FateInv
  <1>6. doomed \subseteq Drones BY DEF TypeInv, TypeOK
  <1>7. \/ st'[d] = "DEAD" /\ doomed' = doomed \cup {d}
        \/ st'[d] # "DEAD" /\ doomed' = doomed
    BY <1>1 DEF ApplyFault, EnterPlain, EnterDead, TypeInv, TypeOK
  <1>8. Doom' BY <1>1, <1>2, <1>3, <1>4, <1>6, <1>7 DEF Doom, FateInv
  <1>9. Turned'
    <2>1. phase' = "run" BY DEF ApplyFault
    <2> QED BY <1>1, <1>3, <1>7, <2>1 DEF Turned
  <1> QED BY <1>5, <1>8, <1>9 DEF FateInv

(* Steps that move only the loop.                                          *)
LEMMA LoopFate ==
    ASSUME FateInv, UNCHANGED <<st, doomed, chargeStream, present>>,
           phase' # "run" => phase # "run",
           \A d \in doomed \cap present : d < cursor => d < cursor'
    PROVE  FateInv'
  <1>1. \A d : Sent(d)' <=> Sent(d) BY DEF Sent
  <1> QED BY <1>1 DEF FateInv, Doom, Turned, SentOnce

(* FateInv holds of every wave.                                            *)
LEMMA FateInvHolds == Spec => []FateInv
  <1>1. Init => FateInv BY DEF Init, FateInv, Doom, Turned, SentOnce, Sent
  <1>2. TypeInv /\ FateInv /\ [Next]_vars => FateInv'
    <2> SUFFICES ASSUME TypeInv, FateInv, [Next]_vars PROVE FateInv' OBVIOUS
    <2> USE DEF droneVars, countVars, loopVars
    <2>1. CASE NoFault BY <2>1, LoopFate DEF NoFault
    <2>2. ASSUME NEW m \in Faults, NEW d \in Drones, ApplyFault(m, d) PROVE FateInv'
      BY <2>2, FaultFate
    <2>3. CASE FaultOnDeleted BY <2>3, LoopFate DEF FaultOnDeleted
    <2>4. CASE SkipDeleted
      <3>1. doomed \subseteq Int /\ cursor \in Int BY WaveAssumption DEF TypeInv, TypeOK, Drones
      <3>2. \A d \in doomed \cap present : d < cursor => d < cursor' BY <2>4, <3>1 DEF SkipDeleted
      <3> QED BY <2>4, <3>2, LoopFate DEF SkipDeleted
    <2>5. CASE EndTick
      <3>1. \A d : Sent(d)' <=> Sent(d) BY <2>5 DEF EndTick, Sent
      <3> QED BY <2>5, <3>1 DEF EndTick, FateInv, Doom, Turned, SentOnce
    <2>6. CASE Finish BY <2>6, LoopFate DEF Finish
    <2>7. ASSUME NEW d \in Drones, RunVisible(d) PROVE FateInv'
      BY <2>7, VisibleKinds, TurnFate
    <2>8. ASSUME NEW d \in Drones, RunHidden(d) PROVE FateInv'
      BY <2>8, HiddenKinds, TurnFate
    <2>9. ASSUME NEW m \in Faults, Inject(m) PROVE FateInv' BY <2>9, LoopFate DEF Inject
    <2>10. CASE UNCHANGED vars BY <2>10, LoopFate DEF vars
    <2> QED BY <2>1, <2>2, <2>3, <2>4, <2>5, <2>6, <2>7, <2>8, <2>9, <2>10 DEF Next, WaveStep
  <1> QED BY <1>1, <1>2, TypeInvHolds, PTL DEF Spec

(* Every deleted drone has met exactly one end, for a wave of any size and *)
(* any faults (DroneState.cpp:133-142,184-192,304-307, Wave.cpp:137-156).  *)
THEOREM OneFateHolds == Spec => []OneFate
  <1>1. FateInv => OneFate
    <2> SUFFICES ASSUME FateInv PROVE OneFate OBVIOUS
    <2>1. \A d \in Drones \ present : st[d] = "DEAD" <=> ~Sent(d) BY DEF FateInv, Doom
    <2> QED BY <2>1 DEF FateInv, SentOnce, OneFate, Sent
  <1> QED BY <1>1, FateInvHolds, PTL

-----------------------------------------------------------------------------
(* ResumeSurvives.  A single fault meets a drone that flies: one that is   *)
(* dead or has landed is deleted by then, and none has been disconnected   *)
(* yet.  What it flew as, or went on to unseen, Reconnected::run can       *)
(* resume.                                                                 *)

Cut == {"DISCONNECTED", "RECONNECTED"}

(* A drone that charges is to be deleted.                                  *)
LandedDoomed == \A d \in Drones : st[d] = "CHARGING" => d \in doomed

(* Up to the first message no drone is cut off, and until the second one   *)
(* comes a drone that is cut off has a flying state to go back to.         *)
SingleFault ==
    /\ Len(tgData) <= injected
    /\ injected = Len(tgData) => \A d \in Drones : st[d] \notin Cut
    /\ injected <= 1 => \A d \in Drones : st[d] \in Cut => prev[d] \in FlyingStates

ResumeInv == LandedDoomed /\ SingleFault

(* A visible drone is not cut off in its turn.                             *)
LEMMA VisibleStays ==
    ASSUME TypeInv, NEW d \in Drones, RunVisible(d)
    PROVE  st'[d] \notin Cut
  <1>1. PICK s \in States \ Cut, t \in States \ Cut : Runs(d, s, t)
    BY DEF RunVisible, RunExhausted, RunFlying, FlyToLine, ReachLine, ReadyWaits, ReadyStarts,
           Work, WorkDone, FlyToBase, ReachBase, RunDead, Cut, States, FlyingStates
  <1> QED BY <1>1 DEF Runs, TypeInv, TypeOK

(* The hidden flight of a drone keeps its previous state a flying one.     *)
LEMMA HiddenKeeps ==
    ASSUME TypeInv, NEW d \in Drones, RunHidden(d)
    PROVE  st[d] \in Cut /\ (prev'[d] = prev[d] \/ prev'[d] \in FlyingStates)
  <1>1. ASSUME NEW p, NEW x, NEW s, NEW q \in FlyingStates, HiddenFlight(d, p, x, q, s)
        PROVE  st[d] \in Cut /\ prev'[d] \in FlyingStates
    BY <1>1, HiddenTurn DEF Cut
  <1>2. CASE prev' = prev /\ \E s \in Cut : \E t : Runs(d, s, t)
    BY <1>2 DEF Runs
  <1>3. CASE \/ RunUnreachable(d) \/ RunGivenUp(d) \/ HiddenExhausted(d) \/ HiddenLost(d) \/ Resume(d)
    BY <1>2, <1>3 DEF RunUnreachable, RunGivenUp, HiddenExhausted, HiddenLost, Resume, ResumeReady,
       ResumeFlight, ResumeFails, Cut
  <1>4. CASE \/ HiddenToLine(d) \/ HiddenReachLine(d) \/ HiddenReady(d)
             \/ HiddenWork(d) \/ HiddenToBase(d) \/ HiddenReachBase(d)
    <2> {"TO_STARTING_LINE", "READY", "WORKING", "TO_BASE"} = FlyingStates
      BY DEF FlyingStates
    <2>1. CASE HiddenToLine(d) BY <1>1, <2>1 DEF HiddenToLine
    <2>2. CASE HiddenReachLine(d) BY <1>1, <2>2 DEF HiddenReachLine
    <2>3. CASE HiddenReady(d) BY <1>1, <2>3 DEF HiddenReady
    <2>4. CASE HiddenWork(d) BY <1>1, <2>4 DEF HiddenWork
    <2>5. CASE HiddenToBase(d) BY <1>1, <2>5 DEF HiddenToBase
    <2>6. CASE HiddenReachBase(d) BY <1>1, <2>6 DEF HiddenReachBase
    <2> QED BY <1>4, <2>1, <2>2, <2>3, <2>4, <2>5, <2>6
  <1> QED BY <1>3, <1>4 DEF RunHidden

(* ResumeInv is preserved by the turn of a drone.                          *)
LEMMA TurnResume ==
    ASSUME TypeInv, ResumeInv, NEW d \in Drones, RunVisible(d) \/ RunHidden(d)
    PROVE  ResumeInv'
  <1>1. Turn(d) /\ (GoesOn(d) \/ Dies(d) \/ Lands(d))
    BY VisibleKinds, HiddenKinds
  <1>2. \A e \in Drones \ {d} : st'[e] = st[e] /\ prev'[e] = prev[e]
    BY <1>1 DEF Turn
  <1>3. UNCHANGED <<tgData, injected>>
    <2>1. PICK s, t : Runs(d, s, t)
      BY DEF RunVisible, RunHidden, RunExhausted, RunFlying, FlyToLine, ReachLine, ReadyWaits,
         ReadyStarts, Work, WorkDone, FlyToBase, ReachBase, RunDead, RunUnreachable, RunGivenUp,
         HiddenExhausted, HiddenToLine, HiddenReachLine, HiddenReady, HiddenWork, HiddenToBase,
         HiddenReachBase, HiddenFlight, HiddenLost, Resume, ResumeReady, ResumeFlight, ResumeFails
    <2> QED BY <2>1 DEF Runs, loopVars
  <1>4. LandedDoomed'
    BY <1>1, <1>2 DEF LandedDoomed, ResumeInv, GoesOn, Dies, Lands
  <1>5. \/ st'[d] \notin Cut
        \/ st[d] \in Cut /\ (prev'[d] = prev[d] \/ prev'[d] \in FlyingStates)
    BY VisibleStays, HiddenKeeps
  <1>6. SingleFault'
    BY <1>2, <1>3, <1>5 DEF SingleFault, ResumeInv
  <1> QED BY <1>4, <1>6 DEF ResumeInv

(* ResumeInv is preserved when a fault is applied.                         *)
LEMMA FaultResume ==
    ASSUME TypeInv, FateInv, ResumeInv, NEW m \in Faults, NEW d \in Drones, ApplyFault(m, d)
    PROVE  ResumeInv'
  <1>1. d \notin doomed /\ st[d] # "DEAD" /\ st[d] # "CHARGING"
    BY DEF FateInv, Turned, Doom, ApplyFault, ResumeInv, LandedDoomed
  <1>2. \A e \in Drones \ {d} : st'[e] = st[e] /\ prev'[e] = prev[e]
    BY DEF ApplyFault, TypeInv, TypeOK
  <1>3. prev'[d] = st[d] /\ injected' = injected
    BY DEF ApplyFault, TypeInv, TypeOK
  <1>4. st'[d] \in {st[d], "DEAD", "DISCONNECTED"} /\ doomed \subseteq doomed'
    BY DEF ApplyFault, EnterPlain, EnterDead, TypeInv, TypeOK
  <1>5. Len(tgData) \in Nat \ {0} /\ Len(tgData') = Len(tgData) - 1 /\ injected \in Nat
    BY HeadTailProperties, WaveAssumption DEF ApplyFault, TypeInv, TypeOK
  <1>6. LandedDoomed'
    BY <1>1, <1>2, <1>4 DEF LandedDoomed, ResumeInv
  <1>7. ASSUME injected <= 1
        PROVE  \A e \in Drones : st'[e] \in Cut => prev'[e] \in FlyingStates
    <2>1. \A e \in Drones : st[e] \notin Cut
      BY <1>5, <1>7 DEF SingleFault, ResumeInv
    <2>2. st[d] \in FlyingStates
      BY <1>1, <2>1 DEF Cut, TypeInv, TypeOK, States
    <2> QED BY <1>2, <1>3, <2>1, <2>2
  <1>8. SingleFault'
    BY <1>3, <1>5, <1>7 DEF SingleFault, ResumeInv
  <1> QED BY <1>6, <1>8 DEF ResumeInv

(* Steps that move only the loop.                                          *)
LEMMA LoopResume ==
    ASSUME ResumeInv, UNCHANGED <<st, prev, doomed, tgData, injected>>
    PROVE  ResumeInv'
  BY DEF ResumeInv, LandedDoomed, SingleFault

(* ResumeInv holds of every wave.                                          *)
LEMMA ResumeInvHolds == Spec => []ResumeInv
  <1>1. Init => ResumeInv
    BY DEF Init, ResumeInv, LandedDoomed, SingleFault, Cut
  <1>2. TypeInv /\ FateInv /\ ResumeInv /\ [Next]_vars => ResumeInv'
    <2> SUFFICES ASSUME TypeInv, FateInv, ResumeInv, [Next]_vars PROVE ResumeInv' OBVIOUS
    <2> USE DEF droneVars, countVars
    <2>1. CASE NoFault \/ FaultOnDeleted \/ SkipDeleted \/ EndTick \/ Finish \/ UNCHANGED vars
      BY <2>1, LoopResume DEF NoFault, FaultOnDeleted, SkipDeleted, EndTick, Finish, vars, loopVars
    <2>2. ASSUME NEW m \in Faults, NEW d \in Drones, ApplyFault(m, d) PROVE ResumeInv'
      BY <2>2, FaultResume
    <2>3. ASSUME NEW d \in Drones, RunVisible(d) \/ RunHidden(d) PROVE ResumeInv'
      BY <2>3, TurnResume
    <2>4. ASSUME NEW m \in Faults, Inject(m) PROVE ResumeInv'
      <3>1. Len(tgData') = Len(tgData) + 1 /\ injected' = injected + 1
        BY <2>4, AppendProperties DEF Inject, TypeInv, TypeOK
      <3>2. Len(tgData) \in Nat /\ injected \in Nat
        BY WaveAssumption DEF TypeInv, TypeOK
      <3>3. UNCHANGED <<st, prev, doomed>>
        BY <2>4 DEF Inject
      <3> QED BY <3>1, <3>2, <3>3 DEF ResumeInv, LandedDoomed, SingleFault
    <2> QED BY <2>1, <2>2, <2>3, <2>4 DEF Next, WaveStep
  <1> QED BY <1>1, <1>2, TypeInvHolds, FateInvHolds, PTL DEF Spec

(* A drone that reconnects after the only fault of its wave resumes its    *)
(* flight, for a wave of any size and any fault                            *)
(* (Wave.cpp:96, DroneState.cpp:246-297).                                  *)
THEOREM ResumeSurvivesHolds == Spec => ResumeSurvives
  <1>1. ResumeInv => [injected = 1 => \A d \in Drones : ~ResumeFails(d)]_vars
    BY DEF ResumeInv, SingleFault, ResumeFails, Runs, Cut
  <1> QED BY <1>1, ResumeInvHolds, PTL DEF ResumeSurvives

-----------------------------------------------------------------------------
(* InFormation.  Until the first message arrives the wave is in step: the  *)
(* turns a drone has had give its place and its charge on the way to the   *)
(* line, and nobody leaves the line before the last one has come.          *)

Turns(d) == tick + (IF d < cursor THEN 1 ELSE 0)

OnWay == {d \in Drones : st[d] = "TO_STARTING_LINE"}

(* No message has done anything yet.                                       *)
Plain ==
    /\ tgData = <<>>
    /\ \A d \in Drones :
         /\ prev[d] = "NONE" /\ link[d].factor = 1
         /\ st[d] \in FlyingStates \cup {"CHARGING", "DEAD"}
         /\ st[d] \in FlyingStates => d \notin doomed

Approach ==
    /\ ready = Cardinality(Drones \ OnWay)
    /\ \A d \in OnWay :
         /\ phys[d].x = -(DirStep[d] * Turns(d))
         /\ DirStep[d] * Turns(d) < Border
    /\ OnWay # {} =>
         /\ notWaiting = 0
         /\ \A d \in Drones :
              /\ st[d] \in {"TO_STARTING_LINE", "READY"}
              /\ phys[d].charge = FullCharge - Rate * Turns(d)
    /\ \A d \in Drones : st[d] = "READY" => phys[d].x = -Border

(* The last drone, l, has come in tick t: those after it in the loop start *)
(* in that tick, the others in the next.                                   *)
Start(d, t, l) == IF d > l THEN t ELSE t + 1

Column(t, l) ==
    \A d \in Drones :
        /\ st[d] = "READY" => Turns(d) = Start(d, t, l)
        /\ st[d] = "WORKING" => /\ Turns(d) > Start(d, t, l)
                                /\ phys[d].x = -Border + Step * (Turns(d) - Start(d, t, l) - 1)

FormationInv(L) ==
    injected = 0 =>
        /\ Plain
        /\ Approach
        /\ OnWay = {} => \E t \in 0 .. L - 1, l \in Drones : Column(t, l)

(* L ticks are enough to reach the line from anywhere, and the battery     *)
(* lasts for them.                                                         *)
Reachable(L) ==
    /\ \A d \in Drones : DirStep[d] * L >= Border
    /\ Rate * L < FullCharge

(* Multiples, which the provers take for nonlinear arithmetic.             *)
LEMMA Multiples ==
    ASSUME NEW a \in Nat
    PROVE  /\ \A n \in Int : a * n \in Int /\ a * (n + 1) = a * n + a
           /\ \A n, m \in Int : n <= m => a * n <= a * m
           /\ a * 0 = 0
  <1>1. \A n \in Int : a * n \in Int /\ a * (n + 1) = a * n + a OBVIOUS
  <1>2. ASSUME NEW n \in Int, NEW m \in Int, n <= m PROVE a * n <= a * m
    <2>1. PICK k \in Nat : m = n + k
      <3>1. m - n \in Nat /\ m = n + (m - n) BY <1>2
      <3> QED BY <3>1
    <2>2. a * m = a * n + a * k /\ a * k \in Nat /\ a * n \in Int BY <2>1
    <2> QED BY <2>2
  <1> QED BY <1>1, <1>2

LEMMA NextMultiple ==
    ASSUME NEW a \in Nat, NEW n \in Int
    PROVE  a * (n + 1) = a * n + a /\ a * n \in Int
  BY Multiples

(* A drone that is still on its way has had fewer than L turns.            *)
LEMMA FewTurns ==
    ASSUME NEW L \in Nat, Reachable(L), NEW d \in Drones, NEW n \in Nat, DirStep[d] * n < Border
    PROVE  n < L /\ FullCharge - Rate * n - Rate > 0
  <1>1. DirStep[d] \in Nat /\ Border \in Nat /\ Rate \in Nat /\ FullCharge \in Nat
    BY WaveAssumption
  <1>2. n < L
    <2>1. L <= n => DirStep[d] * L <= DirStep[d] * n BY <1>1, Multiples
    <2>2. DirStep[d] * n \in Int /\ DirStep[d] * L \in Int BY <1>1, Multiples
    <2> QED BY <1>1, <2>1, <2>2 DEF Reachable
  <1>3. Rate * (n + 1) <= Rate * L /\ Rate * (n + 1) = Rate * n + Rate
    BY <1>1, <1>2, Multiples
  <1>4. Rate * n \in Int /\ Rate * L \in Int BY <1>1, Multiples
  <1> QED BY <1>1, <1>2, <1>3, <1>4 DEF Reachable

(* The turn of drone d is one more for d and for nobody else.              *)
LEMMA TurnTaken ==
    ASSUME TypeInv, NEW d \in Drones, cursor = d, cursor' = cursor + 1, tick' = tick
    PROVE  /\ Turns(d) = tick /\ Turns(d)' = Turns(d) + 1
           /\ \A e \in Drones : e # d => Turns(e)' = Turns(e)
           /\ \A e \in Drones : Turns(e) \in tick .. tick + 1 /\ Turns(e) \in Nat
           /\ \A e \in Drones : Turns(e)' = IF e > d THEN tick ELSE tick + 1
  BY WaveAssumption DEF Turns, Drones, TypeInv, TypeOK

(* A turn changes nothing of the other drones.                             *)
LEMMA OneTurn ==
    ASSUME TypeInv, Plain, NEW d \in Drones, RunVisible(d)
    PROVE  /\ cursor = d /\ cursor' = cursor + 1
           /\ UNCHANGED <<tick, tgData, injected, prev, link, present>>
           /\ Cost(d) = Rate
           /\ st[d] \in FlyingStates \cup {"DEAD"}
           /\ \A e \in Drones : e # d => st'[e] = st[e] /\ phys'[e] = phys[e]
  <1>1. /\ UNCHANGED <<prev, link>>
        /\ \A e \in Drones : e # d => phys'[e] = phys[e]
    BY DEF RunVisible, RunExhausted, FlyToLine, ReachLine, ReadyWaits, ReadyStarts,
           Work, WorkDone, FlyToBase, ReachBase, RunDead, Fly, Stay, TypeInv, TypeOK
  <1>2. PICK s \in FlyingStates \cup {"DEAD"}, t \in States : Runs(d, s, t)
    BY DEF RunVisible, RunExhausted, RunFlying, FlyToLine, ReachLine, ReadyWaits, ReadyStarts,
           Work, WorkDone, FlyToBase, ReachBase, RunDead, States, FlyingStates
  <1>3. Cost(d) = Rate BY WaveAssumption DEF Cost, Plain
  <1> QED BY <1>1, <1>2, <1>3 DEF Runs, loopVars, TypeInv, TypeOK

(* How the visible drone d flies: to x, in state t, if its battery lasts.  *)
LEMMA Flown ==
    ASSUME TypeInv, Plain, NEW d \in Drones, NEW x \in Int, NEW s, NEW t \in States,
           RunFlying(d, s, t), Fly(d, x)
    PROVE  /\ st[d] = s /\ st'[d] = t
           /\ phys[d].charge - Rate > 0
           /\ phys'[d].x = x /\ phys'[d].charge = phys[d].charge - Rate
  <1>1. Cost(d) = Rate BY WaveAssumption DEF Cost, Plain
  <1> QED BY <1>1, WaveAssumption DEF RunFlying, Runs, Exhausted, Fly, TypeInv, TypeOK, Body

LEMMA PlainTurn ==
    ASSUME TypeInv, Plain, NEW d \in Drones, RunVisible(d)
    PROVE  Plain'
  <1>1. /\ UNCHANGED <<tgData, prev, link>>
        /\ \A e \in Drones : e # d => st'[e] = st[e]
    BY OneTurn
  <1>2. /\ st'[d] \in FlyingStates \cup {"CHARGING", "DEAD"}
        /\ st'[d] \in FlyingStates => st[d] \in FlyingStates /\ doomed' = doomed
        /\ doomed' \subseteq doomed \cup {d}
    BY DEF RunVisible, RunExhausted, RunFlying, Runs, FlyToLine, ReachLine, ReadyWaits, ReadyStarts,
           Work, WorkDone, FlyToBase, ReachBase, RunDead, FlyingStates, EnterDead, EnterPlain,
           EnterReady, EnterCharging, countVars, TypeInv, TypeOK
  <1> QED BY <1>1, <1>2 DEF Plain

(* The drones that have passed the line are all, or fewer.                 *)
LEMMA LineCounts ==
    ASSUME TypeInv, Approach
    PROVE  /\ OnWay = {} => ready = Size
           /\ OnWay # {} => ready < Size /\ ~LineComplete
           /\ \A d \in OnWay : Cardinality(Drones \ (OnWay \ {d})) = ready + 1
  <1>1. IsFiniteSet(Drones) /\ Cardinality(Drones) = Size BY WaveAssumption, FS_Interval DEF Drones
  <1>2. OnWay \subseteq Drones BY DEF OnWay
  <1>3. OnWay = {} => ready = Size
    <2>1. OnWay = {} => Drones \ OnWay = Drones OBVIOUS
    <2> QED BY <1>1, <2>1 DEF Approach
  <1>4. OnWay # {} => ready < Size
    <2>1. OnWay # {} => Drones \ OnWay # Drones BY <1>2
    <2>2. Cardinality(Drones \ OnWay) \in Nat /\ Cardinality(Drones \ OnWay) <= Size
          /\ (Cardinality(Drones \ OnWay) = Size => Drones \ OnWay = Drones)
      BY <1>1, FS_Subset, FS_CardinalityType
    <2> QED BY <2>1, <2>2, WaveAssumption DEF Approach
  <1>5. OnWay # {} => ~LineComplete
    BY <1>4, WaveAssumption DEF Approach, LineComplete, TypeInv, TypeOK
  <1>6. ASSUME NEW d \in OnWay PROVE Cardinality(Drones \ (OnWay \ {d})) = ready + 1
    <2>1. Drones \ (OnWay \ {d}) = (Drones \ OnWay) \cup {d} /\ d \notin Drones \ OnWay BY <1>2
    <2>2. IsFiniteSet(Drones \ OnWay) BY <1>1, FS_Subset
    <2> QED BY <2>1, <2>2, FS_AddElement DEF Approach
  <1> QED BY <1>3, <1>4, <1>5, <1>6

(* As long as a drone is on its way no battery runs out.                   *)
LEMMA BatteryLasts ==
    ASSUME TypeInv, Plain, Approach, NEW L \in Nat, Reachable(L), OnWay # {},
           NEW d \in Drones, cursor = d, cursor' = cursor + 1, tick' = tick
    PROVE  phys[d].charge = FullCharge - Rate * Turns(d) /\ phys[d].charge - Rate > 0 /\ tick < L
  <1>1. PICK e \in OnWay : e \in Drones /\ DirStep[e] * Turns(e) < Border
    BY DEF OnWay, Approach
  <1>2. Turns(e) \in Nat /\ tick <= Turns(e) /\ tick \in Nat /\ Turns(d) = tick
    <2>1. Turns(d) = tick BY TurnTaken
    <2>2. Turns(e) \in tick .. tick + 1 BY <1>1, TurnTaken
    <2>3. tick \in Nat BY DEF TypeInv, TypeOK
    <2> QED BY <2>1, <2>2, <2>3
  <1>3. DirStep[e] * tick < Border
    <2>1. DirStep[e] \in Nat BY <1>1, WaveAssumption
    <2>2. DirStep[e] * tick <= DirStep[e] * Turns(e) /\ DirStep[e] * tick \in Int
          /\ DirStep[e] * Turns(e) \in Int
      BY <1>2, <2>1, Multiples
    <2> QED BY <1>1, <2>2, WaveAssumption
  <1>4. tick < L /\ FullCharge - Rate * tick - Rate > 0 BY <1>1, <1>2, <1>3, FewTurns
  <1> QED BY <1>2, <1>4 DEF Approach

(* A turn while some drone is on its way: it flies on, arrives or waits.   *)
LEMMA ApproachTurn ==
    ASSUME TypeInv, Plain, Approach, NEW L \in Nat, Reachable(L), OnWay # {},
           NEW d \in Drones, RunVisible(d)
    PROVE  /\ Approach'
           /\ OnWay' = {} => ReachLine(d) /\ OnWay = {d}
  <1>1. /\ cursor = d /\ cursor' = cursor + 1 /\ tick' = tick
        /\ \A e \in Drones : e # d => st'[e] = st[e] /\ phys'[e] = phys[e]
        /\ Cost(d) = Rate
    BY OneTurn
  <1>2. /\ Turns(d)' = Turns(d) + 1 /\ Turns(d) = tick /\ Turns(d) \in Nat
        /\ \A e \in Drones : e # d => Turns(e)' = Turns(e)
    BY <1>1, TurnTaken
  <1>3. /\ phys[d].charge = FullCharge - Rate * Turns(d) /\ phys[d].charge - Rate > 0
        /\ phys[d].x \in Int /\ phys[d].charge \in Int
        /\ DirStep[d] \in Nat /\ Border \in Int /\ Rate \in Nat /\ FullCharge \in Int
    <2>1. phys[d].charge = FullCharge - Rate * Turns(d) /\ phys[d].charge - Rate > 0
      BY <1>1, BatteryLasts
    <2> QED BY <2>1, WaveAssumption DEF TypeInv, TypeOK, Body
  <1>4. /\ ready = Cardinality(Drones \ OnWay) /\ notWaiting = 0
        /\ \A e \in Drones : /\ st[e] \in {"TO_STARTING_LINE", "READY"}
                             /\ phys[e].charge = FullCharge - Rate * Turns(e)
                             /\ st[e] = "READY" => phys[e].x = -Border
        /\ \A e \in OnWay : /\ phys[e].x = -(DirStep[e] * Turns(e))
                            /\ DirStep[e] * Turns(e) < Border
    BY DEF Approach
  <1>5. /\ DirStep[d] * (Turns(d) + 1) = DirStep[d] * Turns(d) + DirStep[d]
        /\ Rate * (Turns(d) + 1) = Rate * Turns(d) + Rate
        /\ DirStep[d] * Turns(d) \in Int /\ Rate * Turns(d) \in Int
    <2>1. DirStep[d] \in Nat /\ Rate \in Nat /\ Turns(d) \in Int BY <1>2, <1>3
    <2> QED BY <2>1, NextMultiple, Zenon
  <1>6. ~Exhausted(d) BY <1>1, <1>3 DEF Exhausted
  <1>7. ~LineComplete BY LineCounts
  <1>8. SUFFICES ASSUME FlyToLine(d) \/ ReachLine(d) \/ ReadyWaits(d)
                 PROVE  Approach' /\ (OnWay' = {} => ReachLine(d) /\ OnWay = {d})
    BY <1>4, <1>6, <1>7 DEF RunVisible, RunExhausted, ReadyStarts, Work, WorkDone, FlyToBase, ReachBase,
       RunDead, RunFlying, Runs
  <1>9. ASSUME NEW x \in Int, NEW s, NEW t \in States, RunFlying(d, s, t), Fly(d, x)
        PROVE  /\ st[d] = s /\ st'[d] = t /\ phys'[d].x = x
               /\ phys'[d].charge = FullCharge - Rate * Turns(d)'
    <2>1. /\ st[d] = s /\ st'[d] = t /\ phys'[d].x = x
          /\ phys'[d].charge = phys[d].charge - Rate
      BY <1>9, Flown
    <2> QED BY <1>2, <1>3, <1>5, <2>1
  <1>10. CASE FlyToLine(d)
    <2>1. /\ st[d] = "TO_STARTING_LINE" /\ st'[d] = "TO_STARTING_LINE"
          /\ phys'[d].x = phys[d].x - DirStep[d] /\ phys[d].x - DirStep[d] > -Border
          /\ phys'[d].charge = FullCharge - Rate * Turns(d)'
          /\ UNCHANGED <<ready, notWaiting>>
      <3>1. /\ phys[d].x - DirStep[d] \in Int /\ "TO_STARTING_LINE" \in States
            /\ RunFlying(d, "TO_STARTING_LINE", "TO_STARTING_LINE")
            /\ Fly(d, phys[d].x - DirStep[d]) /\ phys[d].x - DirStep[d] > -Border
            /\ EnterPlain
        BY <1>3, <1>10 DEF FlyToLine, States, FlyingStates
      <3> QED BY <1>9, <3>1 DEF EnterPlain, countVars
    <2>2. OnWay' = OnWay /\ d \in OnWay BY <1>1, <2>1 DEF OnWay
    <2>3. /\ phys'[d].x = -(DirStep[d] * Turns(d)')
          /\ DirStep[d] * Turns(d)' < Border
      BY <1>2, <1>3, <1>4, <1>5, <2>1, <2>2
    <2>4. \A e \in OnWay' : /\ phys'[e].x = -(DirStep[e] * Turns(e)')
                            /\ DirStep[e] * Turns(e)' < Border
      BY <1>1, <1>2, <1>4, <2>2, <2>3 DEF OnWay
    <2> QED BY <1>1, <1>2, <1>4, <2>1, <2>2, <2>4 DEF Approach
  <1>11. CASE ReachLine(d)
    <2>1. /\ st[d] = "TO_STARTING_LINE" /\ st'[d] = "READY" /\ phys'[d].x = -Border
          /\ phys'[d].charge = FullCharge - Rate * Turns(d)'
          /\ ready' = ready + 1 /\ notWaiting' = notWaiting
      <3>1. /\ -Border \in Int /\ "READY" \in States
            /\ RunFlying(d, "TO_STARTING_LINE", "READY") /\ Fly(d, -Border) /\ EnterReady
        BY <1>3, <1>11 DEF ReachLine, States, FlyingStates
      <3> QED BY <1>9, <3>1 DEF EnterReady
    <2>2. OnWay' = OnWay \ {d} /\ d \in OnWay BY <1>1, <2>1 DEF OnWay
    <2>3. ready' = Cardinality(Drones \ OnWay') BY <2>1, <2>2, LineCounts
    <2>4. \A e \in OnWay' : /\ phys'[e].x = -(DirStep[e] * Turns(e)')
                            /\ DirStep[e] * Turns(e)' < Border
      BY <1>1, <1>2, <1>4, <2>2 DEF OnWay
    <2>5. Approach' BY <1>1, <1>2, <1>4, <2>1, <2>3, <2>4 DEF Approach
    <2> QED BY <1>11, <2>2, <2>5
  <1>12. CASE ReadyWaits(d)
    <2>1. /\ st[d] = "READY" /\ st'[d] = "READY" /\ phys'[d].x = phys[d].x
          /\ phys'[d].charge = FullCharge - Rate * Turns(d)'
          /\ UNCHANGED <<ready, notWaiting>>
      <3>1. "READY" \in States /\ RunFlying(d, "READY", "READY") /\ Fly(d, phys[d].x) /\ EnterPlain
        BY <1>12 DEF ReadyWaits, Stay, States, FlyingStates
      <3> QED BY <1>3, <1>9, <3>1 DEF EnterPlain, countVars
    <2>2. OnWay' = OnWay /\ d \notin OnWay BY <1>1, <2>1 DEF OnWay
    <2>3. \A e \in OnWay' : /\ phys'[e].x = -(DirStep[e] * Turns(e)')
                            /\ DirStep[e] * Turns(e)' < Border
      BY <1>1, <1>2, <1>4, <2>2 DEF OnWay
    <2> QED BY <1>1, <1>2, <1>4, <2>1, <2>2, <2>3 DEF Approach
  <1> QED BY <1>8, <1>10, <1>11, <1>12

(* After the last arrival no drone is ever on its way again.               *)
LEMMA ApproachOver ==
    ASSUME TypeInv, Plain, Approach, OnWay = {}, NEW d \in Drones, RunVisible(d)
    PROVE  Approach' /\ OnWay' = {} /\ ~ReadyWaits(d) /\ st[d] # "TO_STARTING_LINE"
  <1>1. /\ \A e \in Drones : e # d => st'[e] = st[e] /\ phys'[e] = phys[e]
        /\ st[d] # "TO_STARTING_LINE"
    BY OneTurn DEF OnWay
  <1>2. LineComplete BY LineCounts, WaveAssumption DEF LineComplete, TypeInv, TypeOK
  <1>3. st'[d] \notin {"TO_STARTING_LINE", "READY"} /\ ready' = ready
    BY <1>1, <1>2 DEF RunVisible, RunExhausted, RunFlying, Runs, FlyToLine, ReachLine, ReadyWaits,
       ReadyStarts, Work, WorkDone, FlyToBase, ReachBase, RunDead, EnterDead, EnterPlain,
       EnterCharging, countVars, TypeInv, TypeOK
  <1>4. OnWay' = {} BY <1>1, <1>3 DEF OnWay
  <1> QED BY <1>1, <1>2, <1>3, <1>4 DEF Approach, ReadyWaits

(* The last arrival fixes who starts when.                                 *)
LEMMA ColumnForms ==
    ASSUME TypeInv, Plain, Approach, NEW L \in Nat, Reachable(L),
           NEW d \in Drones, OnWay = {d}, ReachLine(d), RunVisible(d)
    PROVE  \E t \in 0 .. L - 1, l \in Drones : Column(t, l)'
  <1>1. /\ cursor = d /\ cursor' = cursor + 1 /\ tick' = tick
        /\ \A e \in Drones : e # d => st'[e] = st[e]
    BY OneTurn
  <1>2. tick < L /\ tick \in Nat
    <2>1. tick < L BY <1>1, BatteryLasts
    <2> QED BY <2>1 DEF TypeInv, TypeOK
  <1>3. \A e \in Drones : Turns(e)' = Start(e, tick, d)
    <2>1. \A e \in Drones : Turns(e)' = IF e > d THEN tick ELSE tick + 1
      BY <1>1, TurnTaken
    <2> QED BY <2>1 DEF Start
  <1>4. st'[d] = "READY" BY DEF ReachLine, RunFlying, Runs, TypeInv, TypeOK
  <1>5. \A e \in Drones : st'[e] = "READY" BY <1>1, <1>4 DEF Approach, OnWay
  <1>6. \A t, l : Column(t, l)' <=>
          \A e \in Drones :
            /\ st'[e] = "READY" => Turns(e)' = Start(e, t, l)
            /\ st'[e] = "WORKING" =>
                 /\ Turns(e)' > Start(e, t, l)
                 /\ phys'[e].x = -Border + Step * (Turns(e)' - Start(e, t, l) - 1)
    BY DEF Column, Start
  <1>7. PICK t \in 0 .. L - 1 : t = tick BY <1>2
  <1>8. Column(t, d)' BY <1>3, <1>5, <1>6, <1>7
  <1> QED BY <1>8

(* A drone that starts, or works, keeps its place in the column.           *)
LEMMA ColumnTurn ==
    ASSUME TypeInv, Plain, Approach, OnWay = {}, NEW t \in Nat, NEW l \in Drones, Column(t, l),
           NEW d \in Drones, RunVisible(d)
    PROVE  Column(t, l)'
  <1>1. /\ cursor = d /\ cursor' = cursor + 1 /\ tick' = tick
        /\ \A e \in Drones : e # d => st'[e] = st[e] /\ phys'[e] = phys[e]
    BY OneTurn
  <1>2. /\ Turns(d)' = Turns(d) + 1 /\ Turns(d) \in Nat
        /\ \A e \in Drones : e # d => Turns(e)' = Turns(e)
    BY <1>1, TurnTaken
  <1>3. /\ Start(d, t, l) \in Nat
        /\ phys[d].x \in Int /\ Step \in Nat /\ Border \in Int
    BY WaveAssumption DEF Start, Drones, TypeInv, TypeOK, Body
  <1>4. ~ReadyWaits(d) /\ st[d] # "TO_STARTING_LINE" BY ApproachOver
  <1>5. st'[d] # "READY"
    BY <1>4 DEF RunVisible, RunExhausted, RunFlying, Runs, FlyToLine, ReachLine, ReadyWaits,
       ReadyStarts, Work, WorkDone, FlyToBase, ReachBase, RunDead, TypeInv, TypeOK
  <1>6. st'[d] = "WORKING" => ReadyStarts(d) \/ Work(d)
    BY <1>4 DEF RunVisible, RunExhausted, RunFlying, Runs, FlyToLine, ReachLine, ReadyWaits,
       ReadyStarts, Work, WorkDone, FlyToBase, ReachBase, RunDead, TypeInv, TypeOK
  <1>7. ASSUME ReadyStarts(d)
        PROVE  /\ Turns(d)' > Start(d, t, l)
               /\ phys'[d].x = -Border + Step * (Turns(d)' - Start(d, t, l) - 1)
    <2>1. st[d] = "READY" /\ phys'[d].x = phys[d].x
      <3>1. "WORKING" \in States /\ RunFlying(d, "READY", "WORKING") /\ Fly(d, phys[d].x)
        BY <1>7 DEF ReadyStarts, Stay, States, FlyingStates
      <3> QED BY <1>3, <3>1, Flown
    <2>2. Turns(d) = Start(d, t, l) /\ phys[d].x = -Border BY <2>1 DEF Column, Approach
    <2>3. Turns(d)' - Start(d, t, l) - 1 = 0 /\ Turns(d)' > Start(d, t, l) BY <1>2, <1>3, <2>2
    <2>4. Step * 0 = 0 BY <1>3, Multiples
    <2>5. -Border = -Border + Step * (Turns(d)' - Start(d, t, l) - 1) BY <1>3, <2>3, <2>4
    <2> QED BY <2>1, <2>2, <2>3, <2>5
  <1>8. ASSUME Work(d)
        PROVE  /\ Turns(d)' > Start(d, t, l)
               /\ phys'[d].x = -Border + Step * (Turns(d)' - Start(d, t, l) - 1)
    <2>1. st[d] = "WORKING" /\ phys'[d].x = phys[d].x + Step
      <3>1. "WORKING" \in States /\ RunFlying(d, "WORKING", "WORKING") /\ Fly(d, phys[d].x + Step)
            /\ phys[d].x + Step \in Int
        BY <1>3, <1>8 DEF Work, States, FlyingStates
      <3> QED BY <3>1, Flown
    <2>2. Turns(d) > Start(d, t, l) /\ phys[d].x = -Border + Step * (Turns(d) - Start(d, t, l) - 1)
      BY <2>1 DEF Column
    <2> DEFINE k == Turns(d) - Start(d, t, l) - 1
    <2>3. k \in Int /\ Turns(d)' - Start(d, t, l) - 1 = k + 1 BY <1>2, <1>3
    <2>4. Step * (k + 1) = Step * k + Step /\ Step * k \in Int BY <1>3, <2>3, Multiples
    <2> QED BY <1>2, <1>3, <2>1, <2>2, <2>3, <2>4
  <1>9. \A e \in Drones :
          /\ st'[e] = "READY" => Turns(e)' = Start(e, t, l)
          /\ st'[e] = "WORKING" =>
               /\ Turns(e)' > Start(e, t, l)
               /\ phys'[e].x = -Border + Step * (Turns(e)' - Start(e, t, l) - 1)
    BY <1>1, <1>2, <1>5, <1>6, <1>7, <1>8 DEF Column
  <1> QED BY <1>9 DEF Column, Start

(* Steps of the loop in which no drone that flies has a turn.              *)
LEMMA LoopForms ==
    ASSUME UNCHANGED <<st, prev, link, phys, doomed, ready, notWaiting, tgData>>,
           \A d \in Drones : st[d] \in FlyingStates => Turns(d)' = Turns(d)
    PROVE  /\ Plain => Plain'
           /\ Plain /\ Approach => Approach' /\ OnWay' = OnWay
           /\ \A t, l : Column(t, l) => Column(t, l)'
  <1>1. OnWay' = OnWay BY DEF OnWay
  <1>2. Plain => Plain' BY DEF Plain
  <1>3. ASSUME Plain, Approach PROVE Approach'
    <2>1. \A d \in OnWay : Turns(d)' = Turns(d) BY DEF OnWay, FlyingStates
    <2>2. OnWay # {} => \A d \in Drones : Turns(d)' = Turns(d) BY <1>3 DEF Approach, FlyingStates
    <2> QED BY <1>1, <1>3, <2>1, <2>2 DEF Approach
  <1>4. ASSUME NEW t, NEW l, Column(t, l) PROVE Column(t, l)'
    <2>1. \A d \in Drones : st[d] \in {"READY", "WORKING"} => Turns(d)' = Turns(d) BY DEF FlyingStates
    <2> QED BY <1>4, <2>1 DEF Column, Start
  <1> QED BY <1>1, <1>2, <1>3, <1>4

(* The loop's steps, up to the first message.                              *)
LEMMA PlainLoop ==
    ASSUME TypeInv, FateInv, Plain, [Next]_vars, injected' = 0,
           \A d \in Drones : ~RunVisible(d)
    PROVE  /\ UNCHANGED <<st, prev, link, phys, doomed, ready, notWaiting, tgData, chargeStream>>
           /\ \A d \in Drones : st[d] \in FlyingStates => Turns(d)' = Turns(d)
  <1> USE DEF droneVars, countVars, loopVars
  <1>1. CASE NoFault \/ Finish \/ UNCHANGED vars BY <1>1 DEF NoFault, Finish, vars, Turns
  <1>2. CASE EndTick
    <2>1. \A d \in Drones : Turns(d)' = Turns(d)
      <3>1. cursor = Size /\ cursor' = 0 /\ tick' = tick + 1 /\ tick \in Nat
        BY <1>2 DEF EndTick, TypeInv, TypeOK
      <3>2. \A d \in Drones : d < Size /\ ~(d < 0) BY WaveAssumption DEF Drones
      <3> QED BY <3>1, <3>2 DEF Turns
    <2> QED BY <1>2, <2>1 DEF EndTick
  <1>3. CASE SkipDeleted
    <2>1. \A d \in Drones : st[d] \in FlyingStates => d \in present BY DEF Plain, FateInv, Doom
    <2>2. cursor \in Drones \ present /\ cursor' = cursor + 1 /\ tick' = tick
      BY <1>3 DEF SkipDeleted
    <2>3. \A d \in Drones : d \in Int BY DEF Drones
    <2>4. \A d \in Drones : d # cursor => Turns(d)' = Turns(d) BY <2>2, <2>3 DEF Turns
    <2>5. UNCHANGED <<st, prev, link, phys, doomed, ready, notWaiting, tgData, chargeStream>>
      BY <1>3 DEF SkipDeleted
    <2> QED BY <2>1, <2>2, <2>4, <2>5
  <1>4. ~FaultOnDeleted /\ \A m \in Faults, d \in Drones : ~ApplyFault(m, d)
    BY DEF FaultOnDeleted, ApplyFault, Plain
  <1>5. \A m \in Faults : ~Inject(m) BY DEF Inject, TypeInv, TypeOK
  <1>6. ASSUME NEW d \in Drones, RunHidden(d) PROVE FALSE
    <2>1. st[d] \in {"DISCONNECTED", "RECONNECTED"}
      BY <1>6 DEF RunHidden, RunUnreachable, RunGivenUp, HiddenExhausted, HiddenToLine,
         HiddenReachLine, HiddenReady, HiddenWork, HiddenToBase, HiddenReachBase, HiddenLost,
         HiddenFlight, Resume, ResumeReady, ResumeFlight, ResumeFails, Runs
    <2> QED BY <2>1 DEF Plain, FlyingStates
  <1> QED BY <1>1, <1>2, <1>3, <1>4, <1>5, <1>6 DEF Next, WaveStep

(* Messages are counted, and only counted up.                              *)
LEMMA FirstMessage ==
    ASSUME TypeInv, [Next]_vars, injected' = 0
    PROVE  injected = 0
  <1>1. \A m \in Faults : ~Inject(m) BY DEF Inject, TypeInv, TypeOK
  <1>2. injected' = injected
    <2> USE DEF loopVars
    <2>1. ASSUME NEW d \in Drones, RunVisible(d) PROVE injected' = injected
      BY <2>1 DEF RunVisible, RunExhausted, RunFlying, FlyToLine, ReachLine, ReadyWaits,
         ReadyStarts, Work, WorkDone, FlyToBase, ReachBase, RunDead, Runs
    <2>2. ASSUME NEW d \in Drones, RunHidden(d) PROVE injected' = injected
      BY <2>2 DEF RunHidden, RunUnreachable, RunGivenUp, HiddenExhausted, HiddenToLine,
         HiddenReachLine, HiddenReady, HiddenWork, HiddenToBase, HiddenReachBase, HiddenLost,
         HiddenFlight, Resume, ResumeReady, ResumeFlight, ResumeFails, Runs
    <2>3. ASSUME NEW m \in Faults, NEW d \in Drones, ApplyFault(m, d) PROVE injected' = injected
      BY <2>3 DEF ApplyFault
    <2>4. CASE NoFault \/ FaultOnDeleted \/ SkipDeleted \/ EndTick \/ Finish \/ UNCHANGED vars
      BY <2>4 DEF NoFault, FaultOnDeleted, SkipDeleted, EndTick, Finish, vars
    <2> QED BY <1>1, <2>1, <2>2, <2>3, <2>4 DEF Next, WaveStep
  <1> QED BY <1>2

LEMMA FormationNext ==
    ASSUME TypeInv, FateInv, NEW L \in Nat, Reachable(L), FormationInv(L), [Next]_vars
    PROVE  FormationInv(L)'
  <1> SUFFICES ASSUME injected' = 0
               PROVE  Plain' /\ Approach' /\
                      (OnWay' = {} => \E t \in 0 .. L - 1, l \in Drones : Column(t, l)')
    BY DEF FormationInv
  <1>1. injected = 0 BY FirstMessage
  <1>2. Plain /\ Approach /\ (OnWay = {} => \E t \in 0 .. L - 1, l \in Drones : Column(t, l))
    BY <1>1 DEF FormationInv
  <1>3. ASSUME NEW d \in Drones, RunVisible(d), OnWay # {}
        PROVE  Plain' /\ Approach' /\
               (OnWay' = {} => \E t \in 0 .. L - 1, l \in Drones : Column(t, l)')
    <2>1. Plain' BY <1>2, <1>3, PlainTurn
    <2>2. Approach' /\ (OnWay' = {} => ReachLine(d) /\ OnWay = {d}) BY <1>2, <1>3, ApproachTurn
    <2>3. OnWay' = {} => \E t \in 0 .. L - 1, l \in Drones : Column(t, l)'
      BY <1>2, <1>3, <2>2, ColumnForms
    <2> QED BY <2>1, <2>2, <2>3
  <1>4. ASSUME NEW d \in Drones, RunVisible(d), OnWay = {}
        PROVE  Plain' /\ Approach' /\ \E t \in 0 .. L - 1, l \in Drones : Column(t, l)'
    <2>1. Plain' /\ Approach' BY <1>2, <1>4, PlainTurn, ApproachOver
    <2>2. PICK t \in 0 .. L - 1, l \in Drones : Column(t, l) BY <1>2, <1>4
    <2>3. t \in Nat OBVIOUS
    <2>4. Column(t, l)' BY <1>2, <1>4, <2>2, <2>3, ColumnTurn
    <2> QED BY <2>1, <2>4
  <1>5. ASSUME \A d \in Drones : ~RunVisible(d)
        PROVE  Plain' /\ Approach' /\
               (OnWay' = {} => \E t \in 0 .. L - 1, l \in Drones : Column(t, l)')
    BY <1>2, <1>5, PlainLoop, LoopForms
  <1> QED BY <1>3, <1>4, <1>5

LEMMA FormationInit == ASSUME NEW L \in Nat, Init PROVE FormationInv(L)
  <1>1. OnWay = Drones /\ Drones # {}
    <2>1. \A d \in Drones : st[d] = "TO_STARTING_LINE" BY DEF Init
    <2>2. 0 \in Drones BY WaveAssumption DEF Drones
    <2> QED BY <2>1, <2>2 DEF OnWay
  <1>2. \A d \in Drones : Turns(d) = 0 BY DEF Init, Turns, Drones
  <1>3. Plain BY DEF Init, Plain, FlyingStates
  <1>4. ready = Cardinality(Drones \ OnWay)
    <2>1. Drones \ OnWay = {} BY <1>1
    <2> QED BY <2>1, FS_EmptySet DEF Init
  <1>5. \A d \in Drones : DirStep[d] * 0 = 0 /\ Rate * 0 = 0 BY WaveAssumption, Multiples
  <1>6. Approach BY <1>1, <1>2, <1>4, <1>5, WaveAssumption DEF Init, Approach
  <1> QED BY <1>1, <1>3, <1>6 DEF FormationInv

LEMMA FormationInvHolds ==
    ASSUME NEW L \in Nat, Reachable(L)
    PROVE  Spec => []FormationInv(L)
  <1>1. Init => FormationInv(L) BY FormationInit
  <1>2. TypeInv /\ FateInv /\ FormationInv(L) /\ [Next]_vars => FormationInv(L)' BY FormationNext
  <1> QED BY <1>1, <1>2, TypeInvHolds, FateInvHolds, PTL DEF Spec

(* Until the first message arrives the drones of a wave that work are at   *)
(* most one step apart, and none is left behind on its way to the line: if *)
(* L ticks are enough to reach the line from anywhere, and the battery     *)
(* lasts for them (DroneState.cpp:13-93).                                  *)
THEOREM InFormationHolds ==
    ASSUME NEW L \in Nat, Reachable(L)
    PROVE  Spec => [](injected = 0 => InFormation)
  <1>1. ASSUME TypeInv, FormationInv(L), injected = 0 PROVE InFormation
    <2> SUFFICES ASSUME NEW d \in present, NEW e \in present, st[d] = "WORKING"
                 PROVE  /\ st[e] # "TO_STARTING_LINE"
                        /\ st[e] = "WORKING" => phys[d].x - phys[e].x <= Step
      BY DEF InFormation
    <2>1. Approach /\ d \in Drones /\ e \in Drones BY <1>1 DEF FormationInv, TypeInv, TypeOK
    <2>2. OnWay = {} BY <2>1 DEF Approach
    <2>3. st[e] # "TO_STARTING_LINE" BY <2>1, <2>2 DEF OnWay
    <2>4. PICK t \in 0 .. L - 1, l \in Drones : Column(t, l) BY <1>1, <2>2 DEF FormationInv
    <2>5. ASSUME st[e] = "WORKING" PROVE phys[d].x - phys[e].x <= Step
      <3> DEFINE n == Turns(d) - Start(d, t, l) - 1
                 m == Turns(e) - Start(e, t, l) - 1
      <3>1. /\ phys[d].x = -Border + Step * n /\ phys[e].x = -Border + Step * m
            /\ n \in Int /\ m \in Int /\ n <= m + 1
        <4>1. phys[d].x = -Border + Step * n /\ phys[e].x = -Border + Step * m
          BY <2>1, <2>4, <2>5 DEF Column
        <4>2. n \in Int /\ m \in Int /\ n <= m + 1
          <5>1. /\ t \in Int /\ l \in Int /\ d \in Int /\ e \in Int
                /\ cursor \in Int /\ tick \in Int
            BY <1>1, <2>1, WaveAssumption DEF Drones, TypeInv, TypeOK
          <5>2. /\ Turns(d) = tick + (IF d < cursor THEN 1 ELSE 0)
                /\ Turns(e) = tick + (IF e < cursor THEN 1 ELSE 0)
                /\ Start(d, t, l) = IF d > l THEN t ELSE t + 1
                /\ Start(e, t, l) = IF e > l THEN t ELSE t + 1
            BY DEF Turns, Start
          <5>3. CASE d < e BY <5>1, <5>2, <5>3
          <5>4. CASE e <= d BY <5>1, <5>2, <5>4
          <5> QED BY <5>1, <5>3, <5>4
        <4> QED BY <4>1, <4>2
      <3> HIDE DEF n, m
      <3>2. Step * n <= Step * (m + 1) /\ Step * (m + 1) = Step * m + Step
            /\ Step * n \in Int /\ Step * m \in Int
        BY <3>1, WaveAssumption, Multiples
      <3> QED BY <3>1, <3>2, WaveAssumption
    <2> QED BY <2>3, <2>5
  <1> QED BY <1>1, TypeInvHolds, FormationInvHolds, PTL

-----------------------------------------------------------------------------
(* HealthyReturn.  The way to the line takes fewer than L turns, the work  *)
(* W more, the way back H; a drone that flies has not had so many.         *)

Affordable(L, W, H) ==
    /\ \A d \in Drones : DirStep[d] * L >= Border
    /\ Step * W >= 2 * Border
    /\ \A d \in Drones : DirStep[d] * H >= Border + Step
    /\ Rate * (L + W + H + 2) < FullCharge
    /\ L + W + H + 1 < Duration

(* On its way back a drone is no farther than if it had started it as late *)
(* as it can.                                                              *)
Homeward(L, W, d) ==
    /\ st[d] # "DEAD"
    /\ st[d] \in FlyingStates => phys[d].charge = FullCharge - Rate * Turns(d)
    /\ st[d] = "WORKING" => phys[d].x < Border + Step
    /\ st[d] = "TO_BASE" =>
         /\ 0 < phys[d].x /\ phys[d].x < Border + Step
         /\ phys[d].x + DirStep[d] * (Turns(d) - (L + W + 2)) < Border + Step

HomeInv(L, W) == injected = 0 => \A d \in Drones : Homeward(L, W, d)

LEMMA AffordableReaches ==
    ASSUME NEW L \in Nat, NEW W \in Nat, NEW H \in Nat, Affordable(L, W, H)
    PROVE  Reachable(L)
  <1>1. Rate * L <= Rate * (L + W + H + 2) BY WaveAssumption, Multiples
  <1>2. Rate * L \in Int /\ Rate * (L + W + H + 2) \in Int BY WaveAssumption, Multiples
  <1> QED BY <1>1, <1>2, WaveAssumption DEF Affordable, Reachable

(* What a drone that works can have had of turns.                          *)
LEMMA WorkingTurns ==
    ASSUME TypeInv, NEW L \in Nat, NEW W \in Nat, NEW H \in Nat, Affordable(L, W, H),
           FormationInv(L), injected = 0,
           NEW d \in Drones, Homeward(L, W, d), st[d] = "WORKING"
    PROVE  Turns(d) <= L + W + 1
  <1>1. OnWay = {} BY DEF FormationInv, Approach
  <1>2. PICK t \in 0 .. L - 1, l \in Drones : Column(t, l) BY <1>1 DEF FormationInv
  <1> DEFINE s == Start(d, t, l)
             n == Turns(d) - s - 1
  <1>3. s \in Nat /\ s <= L BY DEF Start
  <1>4. Turns(d) \in Nat /\ phys[d].x \in Int /\ Step \in Nat /\ Border \in Nat
    BY WaveAssumption DEF Turns, TypeInv, TypeOK, Body
  <1>5. phys[d].x = -Border + Step * n /\ n \in Int BY <1>2, <1>3, <1>4 DEF Column
  <1>6. phys[d].x < Border + Step BY DEF Homeward
  <1>7. n <= W
    <2> HIDE DEF n
    <2>1. ~ (n <= W) => Step * (W + 1) <= Step * n BY <1>4, <1>5, Multiples
    <2>2. Step * (W + 1) = Step * W + Step /\ Step * W \in Int /\ Step * n \in Int
      BY <1>4, <1>5, Multiples
    <2> QED BY <1>4, <1>5, <1>6, <2>1, <2>2 DEF Affordable
  <1> QED BY <1>3, <1>4, <1>7

(* And any drone that flies.                                               *)
LEMMA TurnsBounded ==
    ASSUME TypeInv, NEW L \in Nat, NEW W \in Nat, NEW H \in Nat, Affordable(L, W, H),
           FormationInv(L), injected = 0,
           NEW d \in Drones, Homeward(L, W, d), st[d] \in FlyingStates
    PROVE  Turns(d) <= L + W + H + 1
  <1>1. \A e \in Drones : /\ Turns(e) \in Nat /\ DirStep[e] \in Nat
                          /\ tick <= Turns(e) /\ Turns(e) <= tick + 1
    BY WaveAssumption DEF Turns, TypeInv, TypeOK
  <1>2. ASSUME NEW e \in OnWay PROVE e \in Drones /\ Turns(e) < L
    <2>1. e \in Drones /\ DirStep[e] * Turns(e) < Border BY DEF FormationInv, Approach, OnWay
    <2> QED BY <1>1, <2>1, FewTurns, AffordableReaches
  <1>3. CASE st[d] = "TO_STARTING_LINE"
    <2>1. d \in OnWay BY <1>3 DEF OnWay
    <2> QED BY <1>1, <1>2, <2>1
  <1>4. CASE st[d] = "READY"
    <2>1. CASE OnWay # {}
      <3>1. PICK e \in OnWay : e \in Drones /\ Turns(e) < L BY <1>2, <2>1
      <3>2. /\ tick <= Turns(e) /\ Turns(d) <= tick + 1 /\ tick \in Int
            /\ Turns(e) \in Int /\ Turns(d) \in Int
        BY <1>1, <3>1 DEF TypeInv, TypeOK
      <3> QED BY <3>1, <3>2
    <2>2. CASE OnWay = {}
      <3>1. PICK t \in 0 .. L - 1, l \in Drones : Column(t, l) BY <2>2 DEF FormationInv
      <3>2. Turns(d) = t \/ Turns(d) = t + 1 BY <1>4, <3>1 DEF Column, Start
      <3> QED BY <3>2
    <2> QED BY <2>1, <2>2
  <1>5. CASE st[d] = "WORKING" BY <1>1, <1>5, WorkingTurns
  <1>6. CASE st[d] = "TO_BASE"
    <2> DEFINE n == Turns(d) - (L + W + 2)
    <2>1. /\ 0 < phys[d].x /\ phys[d].x + DirStep[d] * n < Border + Step
          /\ n \in Int /\ phys[d].x \in Int /\ Step \in Int /\ Border \in Int
      <3>1. 0 < phys[d].x /\ phys[d].x + DirStep[d] * n < Border + Step
        BY <1>6 DEF Homeward
      <3>2. n \in Int BY <1>1
      <3>3. phys[d].x \in Int /\ Step \in Int /\ Border \in Int
        BY WaveAssumption DEF TypeInv, TypeOK, Body
      <3> QED BY <3>1, <3>2, <3>3
    <2>2. n < H
      <3> HIDE DEF n
      <3>1. ~ (n < H) => DirStep[d] * H <= DirStep[d] * n BY <1>1, <2>1, Multiples
      <3>2. DirStep[d] * H \in Int /\ DirStep[d] * n \in Int BY <1>1, <2>1, Multiples
      <3> QED BY <2>1, <3>1, <3>2 DEF Affordable
    <2> QED BY <1>1, <2>2
  <1> QED BY <1>3, <1>4, <1>5, <1>6 DEF FlyingStates

(* A turn brings a drone that has met no fault nearer to its base.         *)
LEMMA HomeTurn ==
    ASSUME TypeInv, NEW L \in Nat, NEW W \in Nat, NEW H \in Nat, Affordable(L, W, H),
           FormationInv(L), HomeInv(L, W), injected = 0, injected' = 0,
           NEW d \in Drones, RunVisible(d)
    PROVE  HomeInv(L, W)'
  <1>1. /\ cursor = d /\ cursor' = cursor + 1 /\ tick' = tick
        /\ \A e \in Drones : e # d => st'[e] = st[e] /\ phys'[e] = phys[e]
        /\ Cost(d) = Rate /\ st[d] \in FlyingStates \cup {"DEAD"} /\ Plain
    BY OneTurn DEF FormationInv
  <1>2. /\ Turns(d)' = Turns(d) + 1 /\ Turns(d) \in Nat
        /\ \A e \in Drones : e # d => Turns(e)' = Turns(e)
    BY <1>1, TurnTaken
  <1>3. \A e \in Drones : Homeward(L, W, e) BY DEF HomeInv
  <1>4. st[d] \in FlyingStates /\ ~RunDead(d) BY <1>1, <1>3 DEF Homeward, RunDead, Runs
  <1>5. Turns(d) <= L + W + H + 1 BY <1>3, <1>4, TurnsBounded
  <1>6. /\ phys[d].x \in Int /\ phys[d].charge \in Int /\ Rate \in Nat /\ FullCharge \in Nat
        /\ DirStep[d] \in Nat /\ DirStep[d] > 0 /\ Step \in Nat /\ Step > 0
        /\ Border \in Nat /\ Border > 0
    BY WaveAssumption DEF TypeInv, TypeOK, Body
  <1>7. phys[d].charge = FullCharge - Rate * Turns(d) BY <1>3, <1>4 DEF Homeward
  <1>8. /\ Rate * (Turns(d) + 1) = Rate * Turns(d) + Rate /\ Rate * Turns(d) \in Int
        /\ Rate * (Turns(d) + 1) <= Rate * (L + W + H + 2) /\ Rate * (L + W + H + 2) \in Int
    BY <1>2, <1>5, <1>6, Multiples
  <1>9. ~Exhausted(d)
    <2>1. phys[d].charge - Rate > 0 BY <1>6, <1>7, <1>8 DEF Affordable
    <2> QED BY <1>1, <1>6, <2>1 DEF Exhausted
  <1>10. ASSUME NEW x \in Int, NEW s, NEW t \in States, RunFlying(d, s, t), Fly(d, x)
         PROVE  /\ st[d] = s /\ st'[d] = t /\ phys'[d].x = x
                /\ phys'[d].charge = FullCharge - Rate * Turns(d)'
    <2>1. /\ st[d] = s /\ st'[d] = t /\ phys'[d].x = x
          /\ phys'[d].charge = phys[d].charge - Rate
      BY <1>1, <1>10, Flown
    <2> QED BY <1>2, <1>6, <1>7, <1>8, <2>1
  <1>11. /\ phys[d].x \in Int /\ phys[d].x - DirStep[d] \in Int /\ phys[d].x + Step \in Int
         /\ -Border \in Int /\ 0 \in Int
         /\ {"TO_STARTING_LINE", "READY", "WORKING", "TO_BASE", "CHARGING"} \subseteq States
    BY <1>6 DEF States, FlyingStates
  <1>12. Homeward(L, W, d)'
    <2>1. CASE FlyToLine(d) \/ ReachLine(d) \/ ReadyWaits(d)
      <3>1. /\ st'[d] \in {"TO_STARTING_LINE", "READY"}
            /\ phys'[d].charge = FullCharge - Rate * Turns(d)'
        BY <1>10, <1>11, <2>1 DEF FlyToLine, ReachLine, ReadyWaits, Stay
      <3> QED BY <3>1 DEF Homeward
    <2>2. CASE ReadyStarts(d)
      <3>1. /\ st[d] = "READY" /\ st'[d] = "WORKING" /\ phys'[d].x = phys[d].x
            /\ phys'[d].charge = FullCharge - Rate * Turns(d)'
        BY <1>10, <1>11, <2>2 DEF ReadyStarts, Stay
      <3>2. phys[d].x = -Border BY <3>1 DEF FormationInv, Approach
      <3> QED BY <1>6, <3>1, <3>2 DEF Homeward
    <2>3. CASE Work(d)
      <3>1. /\ st'[d] = "WORKING" /\ phys'[d].x = phys[d].x + Step /\ phys[d].x < Border
            /\ phys'[d].charge = FullCharge - Rate * Turns(d)'
        BY <1>10, <1>11, <2>3 DEF Work
      <3> QED BY <1>6, <3>1 DEF Homeward
    <2>4. CASE WorkDone(d)
      <3>1. /\ st[d] = "WORKING" /\ st'[d] = "TO_BASE"
            /\ phys'[d].x = phys[d].x /\ phys[d].x >= Border
            /\ phys'[d].charge = FullCharge - Rate * Turns(d)'
        BY <1>10, <1>11, <2>4 DEF WorkDone, Stay
      <3>2. Turns(d) <= L + W + 1 /\ phys[d].x < Border + Step
        BY <1>3, <3>1, WorkingTurns DEF Homeward
      <3> DEFINE n == Turns(d)' - (L + W + 2)
      <3>3. n \in Int /\ n <= 0 BY <1>2, <3>2
      <3>4. DirStep[d] * n <= 0 /\ DirStep[d] * n \in Int
        <4> HIDE DEF n
        <4>1. DirStep[d] * n <= DirStep[d] * 0 /\ DirStep[d] * 0 = 0 /\ DirStep[d] * n \in Int
          BY <1>6, <3>3, Multiples
        <4> QED BY <4>1
      <3>5. phys'[d].x + DirStep[d] * n < Border + Step
        <4> HIDE DEF n
        <4> QED BY <1>6, <3>1, <3>2, <3>4
      <3> QED BY <1>6, <3>1, <3>2, <3>5 DEF Homeward
    <2>5. CASE FlyToBase(d)
      <3>1. /\ st[d] = "TO_BASE" /\ st'[d] = "TO_BASE"
            /\ phys'[d].x = phys[d].x - DirStep[d] /\ phys[d].x - DirStep[d] > 0
            /\ phys'[d].charge = FullCharge - Rate * Turns(d)'
        BY <1>10, <1>11, <2>5 DEF FlyToBase
      <3> DEFINE n == Turns(d) - (L + W + 2)
      <3>2. phys[d].x < Border + Step /\ phys[d].x + DirStep[d] * n < Border + Step
        BY <1>3, <3>1 DEF Homeward
      <3>3. n \in Int /\ Turns(d)' - (L + W + 2) = n + 1 BY <1>2
      <3>4. phys'[d].x + DirStep[d] * (n + 1) < Border + Step
        <4> HIDE DEF n
        <4>1. DirStep[d] * (n + 1) = DirStep[d] * n + DirStep[d] /\ DirStep[d] * n \in Int
          BY <1>6, <3>3, Multiples
        <4> QED BY <1>6, <3>1, <3>2, <4>1
      <3>5. phys'[d].x + DirStep[d] * (Turns(d)' - (L + W + 2)) < Border + Step
        <4> HIDE DEF n
        <4> QED BY <3>3, <3>4
      <3>6. 0 < phys'[d].x /\ phys'[d].x < Border + Step BY <1>6, <3>1, <3>2
      <3> QED BY <3>1, <3>5, <3>6 DEF Homeward
    <2>6. CASE ReachBase(d)
      <3>1. st'[d] = "CHARGING" BY <1>10, <1>11, <2>6 DEF ReachBase
      <3> QED BY <3>1 DEF Homeward, FlyingStates
    <2> QED
      BY <1>4, <1>9, <2>1, <2>2, <2>3, <2>4, <2>5, <2>6 DEF RunVisible, RunExhausted
  <1>13. ASSUME NEW e \in Drones, e # d PROVE Homeward(L, W, e)'
    BY <1>1, <1>2, <1>3, <1>13 DEF Homeward
  <1> QED BY <1>12, <1>13 DEF HomeInv

LEMMA HomeInvHolds ==
    ASSUME NEW L \in Nat, NEW W \in Nat, NEW H \in Nat, Affordable(L, W, H)
    PROVE  Spec => []HomeInv(L, W)
  <1>1. Init => HomeInv(L, W)
    <2> SUFFICES ASSUME Init, NEW d \in Drones PROVE Homeward(L, W, d) BY DEF HomeInv
    <2>1. Turns(d) = 0 BY DEF Init, Turns, Drones
    <2>2. Rate * 0 = 0 /\ FullCharge \in Int BY WaveAssumption, Multiples
    <2> QED BY <2>1, <2>2 DEF Init, Homeward
  <1>2. TypeInv /\ FateInv /\ FormationInv(L) /\ FormationInv(L)' /\ HomeInv(L, W) /\ [Next]_vars
          => HomeInv(L, W)'
    <2> SUFFICES ASSUME TypeInv, FateInv, FormationInv(L), HomeInv(L, W), [Next]_vars, injected' = 0
                 PROVE  HomeInv(L, W)'
      BY DEF HomeInv
    <2>1. injected = 0 BY FirstMessage
    <2>2. ASSUME NEW d \in Drones, RunVisible(d) PROVE HomeInv(L, W)' BY <2>1, <2>2, HomeTurn
    <2>3. ASSUME \A d \in Drones : ~RunVisible(d) PROVE HomeInv(L, W)'
      <3>1. /\ UNCHANGED <<st, phys>>
            /\ \A d \in Drones : st[d] \in FlyingStates => Turns(d)' = Turns(d)
        BY <2>1, <2>3, PlainLoop DEF FormationInv
      <3> QED BY <2>1, <3>1 DEF HomeInv, Homeward, FlyingStates
    <2> QED BY <2>2, <2>3
  <1>3. Spec => []FormationInv(L) BY AffordableReaches, FormationInvHolds
  <1> QED BY <1>1, <1>2, <1>3, TypeInvHolds, FateInvHolds, PTL DEF Spec

(* Wave::Run ends when the drones are gone, or the simulation is over.     *)
LEMMA OverHolds == Spec => [](phase = "over" => ~Alive)
  <1> DEFINE Over == phase = "over" => ~Alive
  <1>1. Init => Over BY DEF Init
  <1>2. Over /\ [Next]_vars => Over'
    <2> SUFFICES ASSUME Over, [Next]_vars PROVE Over' OBVIOUS
    <2>1. CASE Finish BY <2>1 DEF Finish, Alive
    <2>2. CASE UNCHANGED vars BY <2>2 DEF vars, Alive
    <2>3. CASE Next /\ ~Finish
      <3>1. CASE \/ NoFault \/ \E m \in Faults, d \in Drones : ApplyFault(m, d)
                 \/ FaultOnDeleted \/ SkipDeleted \/ EndTick \/ \E m \in Faults : Inject(m)
        BY <3>1 DEF NoFault, ApplyFault, FaultOnDeleted, SkipDeleted, EndTick, Inject, loopVars
      <3>2. ASSUME NEW d \in Drones, RunVisible(d) \/ RunHidden(d) PROVE Over'
        <4>1. phase = "run" /\ phase' = phase
          BY <3>2 DEF RunVisible, RunExhausted, RunFlying, FlyToLine, ReachLine, ReadyWaits,
             ReadyStarts, Work, WorkDone, FlyToBase, ReachBase, RunDead, RunHidden,
             RunUnreachable, RunGivenUp, HiddenExhausted, HiddenToLine, HiddenReachLine,
             HiddenReady, HiddenWork, HiddenToBase, HiddenReachBase, HiddenLost, HiddenFlight,
             Resume, ResumeReady, ResumeFlight, ResumeFails, Runs, loopVars
        <4> QED BY <4>1
      <3> QED BY <2>3, <3>1, <3>2 DEF Next, WaveStep
    <2> QED BY <2>1, <2>2, <2>3
  <1> QED BY <1>1, <1>2, PTL DEF Spec

(* A wave that no message has met comes home: if the battery and the ticks *)
(* that are left pay for the turns a drone can take to the line, over the  *)
(* area and back, every drone is with the ChargeBase when Wave::Run ends   *)
(* (DroneState.cpp:13-142, Wave.cpp:158-188).                              *)
THEOREM HealthyReturnHolds ==
    ASSUME NEW L \in Nat, NEW W \in Nat, NEW H \in Nat, Affordable(L, W, H)
    PROVE  Spec => [](injected = 0 => HealthyReturn)
  <1>1. ASSUME TypeInv, FateInv, ResumeInv, FormationInv(L), HomeInv(L, W),
               phase = "over" => ~Alive, injected = 0
        PROVE  HealthyReturn
    <2> SUFFICES ASSUME phase = "over", NEW d \in Drones PROVE Sent(d) BY DEF HealthyReturn
    <2>1. Homeward(L, W, d) BY <1>1 DEF HomeInv
    <2>2. d \notin present => Sent(d) BY <1>1, <2>1 DEF FateInv, Doom, Homeward
    <2>3. ASSUME d \in present PROVE FALSE
      <3>1. tick >= Duration BY <1>1, <2>3, WaveAssumption DEF Alive, TypeInv, TypeOK
      <3>2. st[d] # "CHARGING" BY <1>1, <2>3 DEF FateInv, Turned, ResumeInv, LandedDoomed
      <3>3. st[d] \in FlyingStates BY <1>1, <2>1, <3>2 DEF FormationInv, Plain, Homeward
      <3>4. Turns(d) <= L + W + H + 1 BY <1>1, <2>1, <3>3, TurnsBounded
      <3>5. Turns(d) >= tick /\ Turns(d) \in Nat /\ tick \in Nat
        BY <1>1 DEF Turns, TypeInv, TypeOK
      <3> QED BY <3>1, <3>4, <3>5, WaveAssumption DEF Affordable
    <2> QED BY <2>2, <2>3
  <1>2. Spec => []FormationInv(L) BY AffordableReaches, FormationInvHolds
  <1> QED BY <1>1, <1>2, TypeInvHolds, FateInvHolds, ResumeInvHolds, HomeInvHolds, OverHolds, PTL

(* The numbers of the code satisfy these hypotheses: 2990 and 20 in units  *)
(* of a thousandth, a battery of 100 % and 0.13444 % per tick, and drones  *)
(* that fly to the line at most diagonally (Wave.cpp:17-46,                *)
(* globals.h:13).  A wave of any size that has 726 ticks left and that no  *)
(* message meets works in formation, and comes home.                       *)
THEOREM NominalFlight ==
    ASSUME Border = 2990000, Step = 20000, \A d \in Drones : DirStep[d] >= 14142,
           FullCharge = 10000000, Rate = 13444, Duration > 725
    PROVE  Spec => [](injected = 0 => InFormation /\ HealthyReturn)
  <1>1. \A d \in Drones : DirStep[d] * 212 >= Border /\ DirStep[d] * 213 >= Border + Step
    <2> SUFFICES ASSUME NEW d \in Drones
                 PROVE  DirStep[d] * 212 >= Border /\ DirStep[d] * 213 >= Border + Step
      OBVIOUS
    <2>1. DirStep[d] \in Nat /\ DirStep[d] >= 14142 BY WaveAssumption
    <2> QED BY <2>1
  <1>2. Affordable(212, 299, 213) BY <1>1 DEF Affordable
  <1>3. Reachable(212) BY <1>2, AffordableReaches
  <1>4. Spec => [](injected = 0 => InFormation) BY <1>3, InFormationHolds
  <1>5. Spec => [](injected = 0 => HealthyReturn) BY <1>2, HealthyReturnHolds
  <1> QED BY <1>4, <1>5, PTL
=============================================================================
