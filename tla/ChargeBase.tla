----------------------------- MODULE ChargeBase ------------------------------
(***************************************************************************)
(* The ChargeBase process (src/ChargeBase/ChargeBase.cpp) with those it    *)
(* meets in Redis: the drones that land (DroneState.cpp, Charging::enter), *)
(* the waves that take charged drones (Wave.cpp, RecycleDrones) and the    *)
(* charge malfunctions of the TestGenerator.                               *)
(*                                                                         *)
(* One action per Redis command or per stretch of local work, since the    *)
(* others run in between.  A Redis error inside ReadChargeStream ends the  *)
(* reading of this tick; one inside ReleaseDrone ends the process.  Time   *)
(* is left out: ticks follow each other without an end.                    *)
(***************************************************************************)
EXTENDS Integers, Sequences, FiniteSets

CONSTANTS
    Drones,
    None,           \* no drone
    Full,           \* a full battery
    Landings,       \* what may be left in the battery of a landing drone
    Rates,          \* what getChargeRate may draw
    Unit,           \* the charge_rate_factor 1.0
    Factors,        \* the factors the TestGenerator may send
    Grain,          \* the smallest increment a charge can show
    TopGain,        \* a bound on the gain of a tick
    PopLimit,       \* drones a wave takes at once
    QueueLimit,     \* capacity of charge_fault_queue
    MaxFaults,      \* bound: charge malfunctions
    MaxErrors       \* bound: Redis errors in ReadChargeStream

(* Mutant: the normal factor is taken for a slow one.                      *)
GainOffByOne(rate, factor) ==
    (rate * (IF factor <= Unit THEN Unit - factor ELSE factor)) \div Grain

(* The charge of a tick: slower than normal by factors below 1, faster by  *)
(* those above.  Increments are multiples of Grain; less is absorbed.      *)
Gain(rate, factor) ==
    (rate * (IF factor < Unit THEN Unit - factor ELSE factor)) \div Grain

ASSUME ChargeAssumption ==
    /\ None \notin Drones
    /\ Full \in Nat \ {0} /\ Unit \in Nat \ {0} /\ Grain \in Nat \ {0} /\ TopGain \in Nat
    /\ Landings \subseteq Nat /\ Rates \subseteq Nat \ {0} /\ Factors \subseteq Nat
    /\ PopLimit \in Nat \ {0} /\ QueueLimit \in Nat \ {0}
    /\ MaxFaults \in Nat /\ MaxErrors \in Nat
    /\ \A r \in Rates \cup {0}, f \in Factors \cup {Unit} : Gain(r, f) \in 0 .. TopGain

(* Redis does not fail in a row for as long as a battery takes to charge.  *)
ASSUME BriefErrors == \A c \in Landings : c + MaxErrors * TopGain < Full

VARIABLES
    pc,             \* control point of ChargeBase::Run
    held,           \* keys of the map charging_drones
    slot,           \* its values; Blank for a drone that is not a key
    releasing,      \* drones the loop of ChargeDrone still has to release
    relDrone,       \* the drone in ReleaseDrone, or None
    relStep,        \* the next Redis command of ReleaseDrone
    stream,         \* charge_stream: landed drones, oldest first
    seen,           \* records of stream up to current_stream_id
    batch,          \* records of stream that XREAD covered
    index,          \* records of stream that were set
    chargingSet,    \* the Redis set charging_drones
    charged,        \* the Redis set charged_drones
    reused,         \* drones taken out of it by RecycleDrones
    completed,      \* CHARGING_COMPLETED records in scanner_stream, per drone
    landed,         \* drones that have entered CHARGING
    picked,         \* the drone TestGenerator has drawn, or None
    faultQueue,     \* charge_fault_queue
    faults, errors  \* how many there were

baseVars == <<held, slot, releasing, relDrone, relStep>>
readVars == <<seen, batch, index>>
redisVars == <<stream, chargingSet, charged, completed>>
outerVars == <<reused, landed, picked, faultQueue, faults>>
vars == <<pc, held, slot, releasing, relDrone, relStep, stream, seen, batch, index,
          chargingSet, charged, reused, completed, landed, picked, faultQueue,
          faults, errors>>

Slots == [charge : Nat, rate : Rates \cup {0}, factor : Factors \cup {Unit}]

(* What operator[] of the map creates.                                     *)
Blank == [charge |-> 0, rate |-> 0, factor |-> Unit]

Records == [drone : Drones, charge : Landings]

Messages == [drone : Drones, factor : Factors]

Init ==
    /\ pc = "idle"
    /\ held = {} /\ slot = [d \in Drones |-> Blank]
    /\ releasing = {} /\ relDrone = None /\ relStep = "sadd"
    /\ stream = <<>> /\ seen = 0 /\ batch = 0 /\ index = 0
    /\ chargingSet = {} /\ charged = {} /\ reused = {}
    /\ completed = [d \in Drones |-> 0]
    /\ landed = {} /\ picked = None /\ faultQueue = <<>>
    /\ faults = 0 /\ errors = 0

-----------------------------------------------------------------------------
(* The other processes                                                     *)

(* Charging::enter.                                                        *)
Land(d) ==
    /\ d \notin landed
    /\ landed' = landed \cup {d}
    /\ \E c \in Landings : stream' = Append(stream, [drone |-> d, charge |-> c])
    /\ UNCHANGED <<pc, baseVars, readVars, chargingSet, charged, completed,
                   reused, picked, faultQueue, faults, errors>>

(* SPOP takes all there are, but PopLimit at most.                         *)
RecycleDrones ==
    /\ charged # {}
    /\ \E S \in SUBSET charged :
         /\ Cardinality(S) <= PopLimit
         /\ Cardinality(S) < PopLimit => S = charged
         /\ charged' = charged \ S
         /\ reused' = reused \cup S
    /\ UNCHANGED <<pc, baseVars, readVars, stream, chargingSet, completed,
                   landed, picked, faultQueue, faults, errors>>

(* SRANDMEMBER, and later the message: send() blocks while it is full.     *)
PickFault ==
    /\ picked = None /\ faults < MaxFaults
    /\ picked' \in chargingSet
    /\ faults' = faults + 1
    /\ UNCHANGED <<pc, baseVars, readVars, redisVars, reused, landed, faultQueue, errors>>

SendFault ==
    /\ picked # None /\ Len(faultQueue) < QueueLimit
    /\ \E f \in Factors : faultQueue' = Append(faultQueue, [drone |-> picked, factor |-> f])
    /\ picked' = None
    /\ UNCHANGED <<pc, baseVars, readVars, redisVars, reused, landed, faults, errors>>

-----------------------------------------------------------------------------
(* A tick of ChargeBase::Run: the malfunctions that have arrived           *)

Named == {faultQueue[i].drone : i \in DOMAIN faultQueue}

IsLastFor(i, d) ==
    /\ faultQueue[i].drone = d
    /\ \A j \in DOMAIN faultQueue : faultQueue[j].drone = d => j <= i

(* operator[] creates an entry for a drone that is not charging any more.  *)
ReceiveFaults ==
    /\ pc = "idle"
    /\ pc' = "charge"
    /\ held' = held \cup Named
    /\ \E last \in [Named -> DOMAIN faultQueue] :
         /\ \A d \in Named : IsLastFor(last[d], d)
         /\ slot' = [d \in Drones |->
                       IF d \in Named
                         THEN [slot[d] EXCEPT !.factor = faultQueue[last[d]].factor]
                         ELSE slot[d]]
    /\ faultQueue' = <<>>
    /\ UNCHANGED <<releasing, relDrone, relStep, readVars, redisVars, reused, landed,
                   picked, faults, errors>>

-----------------------------------------------------------------------------
(* ChargeDrone and ReleaseDrone                                            *)

FullDrones == {d \in held : slot[d].charge >= Full}

ChargeDrone ==
    /\ pc = "charge"
    /\ pc' = "release"
    /\ slot' = [d \in Drones |->
                  IF d \in held \ FullDrones
                    THEN [slot[d] EXCEPT !.charge = @ + Gain(slot[d].rate, slot[d].factor)]
                    ELSE slot[d]]
    /\ releasing' = FullDrones
    /\ UNCHANGED <<held, relDrone, relStep, readVars, redisVars, outerVars, errors>>

(* The three commands of ReleaseDrone.  The code erases the drones from    *)
(* the map together, after the last of them (ChargeBase.cpp:165-169); here *)
(* each goes with its own last command.  Nobody can tell: the map is       *)
(* private, nothing reads it in between, and an error there ends it.       *)
ReleaseAdd ==
    /\ pc = "release" /\ relDrone = None
    /\ relDrone' \in releasing
    /\ charged' = charged \cup {relDrone'}
    /\ relStep' = "srem"
    /\ UNCHANGED <<pc, held, slot, releasing, readVars, stream, chargingSet, completed,
                   outerVars, errors>>

(* Mutant: the drone stays in the Redis set of charging drones.            *)
ReleaseRemoveNothing ==
    /\ pc = "release" /\ relStep = "srem"
    /\ relStep' = "xadd"
    /\ UNCHANGED <<pc, held, slot, releasing, relDrone, readVars, redisVars, outerVars, errors>>

ReleaseRemove ==
    /\ pc = "release" /\ relStep = "srem"
    /\ chargingSet' = chargingSet \ {relDrone}
    /\ relStep' = "xadd"
    /\ UNCHANGED <<pc, held, slot, releasing, relDrone, readVars, stream, charged,
                   completed, outerVars, errors>>

(* Mutant: the drone is not erased from the map.                           *)
ReleaseLogKeeps ==
    /\ pc = "release" /\ relStep = "xadd"
    /\ completed' = [completed EXCEPT ![relDrone] = @ + 1]
    /\ releasing' = releasing \ {relDrone}
    /\ relDrone' = None /\ relStep' = "sadd"
    /\ UNCHANGED <<pc, held, slot, readVars, stream, chargingSet, charged, outerVars, errors>>

ReleaseLog ==
    /\ pc = "release" /\ relStep = "xadd"
    /\ completed' = [completed EXCEPT ![relDrone] = @ + 1]
    /\ held' = held \ {relDrone}
    /\ slot' = [slot EXCEPT ![relDrone] = Blank]
    /\ releasing' = releasing \ {relDrone}
    /\ relDrone' = None /\ relStep' = "sadd"
    /\ UNCHANGED <<pc, readVars, stream, chargingSet, charged, outerVars, errors>>

(* An error in one of them is caught nowhere.                              *)
ReleaseError ==
    /\ pc = "release" /\ releasing # {}
    /\ pc' = "dead"
    /\ UNCHANGED <<baseVars, readVars, redisVars, outerVars, errors>>

EndCharge ==
    /\ pc = "release" /\ releasing = {}
    /\ pc' = "read"
    /\ UNCHANGED <<baseVars, readVars, redisVars, outerVars, errors>>

-----------------------------------------------------------------------------
(* ReadChargeStream and SetChargeData                                      *)

(* Mutant: the position is moved before the records are processed.         *)
ReadStreamEarly ==
    /\ pc = "read"
    /\ batch' = Len(stream) /\ index' = seen
    /\ seen' = Len(stream)
    /\ pc' = "set"
    /\ UNCHANGED <<baseVars, redisVars, outerVars, errors>>

(* XLEN and XREAD.  A record that arrives between the two is as good as    *)
(* one that arrives after them.                                            *)
ReadStream ==
    /\ pc = "read"
    /\ batch' = Len(stream) /\ index' = seen
    /\ pc' = "set"
    /\ UNCHANGED <<baseVars, seen, redisVars, outerVars, errors>>

(* The next drone of the batch: its entry is replaced and its SADD sent,   *)
(* which has an effect (added) unless the command is lost.                 *)
Set(added) ==
    /\ pc = "set" /\ index < batch
    /\ LET r == stream[index + 1]
       IN  /\ held' = held \cup {r.drone}
           /\ \E rate \in Rates :
                slot' = [slot EXCEPT ![r.drone] =
                            [charge |-> r.charge, rate |-> rate, factor |-> Unit]]
           /\ chargingSet' = IF added THEN chargingSet \cup {r.drone} ELSE chargingSet
    /\ UNCHANGED <<releasing, relDrone, relStep, seen, stream, charged, completed, outerVars>>

SetChargeData ==
    /\ Set(TRUE)
    /\ index' = index + 1
    /\ UNCHANGED <<pc, batch, errors>>

(* The position in the stream advances only after the whole batch.         *)
SetDone ==
    /\ pc = "set" /\ index = batch
    /\ seen' = batch
    /\ batch' = 0 /\ index' = 0
    /\ pc' = "trim"
    /\ UNCHANGED <<baseVars, redisVars, outerVars, errors>>

(* Mutant: the last record read is trimmed, too.                           *)
TrimStreamAll ==
    /\ pc = "trim"
    /\ stream' = SubSeq(stream, seen + 1, Len(stream))
    /\ seen' = IF seen = 0 THEN 0 ELSE 1
    /\ pc' = "idle"
    /\ UNCHANGED <<baseVars, batch, index, chargingSet, charged, completed, outerVars, errors>>

(* XTRIM MINID keeps the last record read.                                 *)
TrimStream ==
    /\ pc = "trim"
    /\ stream' = IF seen = 0 THEN stream ELSE SubSeq(stream, seen, Len(stream))
    /\ seen' = IF seen = 0 THEN 0 ELSE 1
    /\ pc' = "idle"
    /\ UNCHANGED <<baseVars, batch, index, chargingSet, charged, completed, outerVars, errors>>

(* Mutant: SADD comes before the entry of the map, and fails after its     *)
(* effect.                                                                 *)
ReadErrorBeforeEntry ==
    /\ errors < MaxErrors
    /\ errors' = errors + 1
    /\ pc = "set" /\ index < batch
    /\ pc' = "idle"
    /\ batch' = 0 /\ index' = 0
    /\ chargingSet' = chargingSet \cup {stream[index + 1].drone}
    /\ UNCHANGED <<baseVars, seen, stream, charged, completed, outerVars>>

(* The catch clause.  An error of SADD may come before or after its        *)
(* effect.                                                                 *)
ReadError ==
    /\ errors < MaxErrors
    /\ errors' = errors + 1
    /\ pc' = "idle"
    /\ batch' = 0 /\ index' = 0
    /\ \/ /\ pc \in {"read", "trim"}
          /\ UNCHANGED <<baseVars, seen, redisVars, outerVars>>
       \/ \E added \in BOOLEAN : Set(added)

-----------------------------------------------------------------------------
Base ==
    \/ ReceiveFaults \/ ChargeDrone
    \/ ReleaseAdd \/ ReleaseRemove \/ ReleaseLog \/ ReleaseError \/ EndCharge
    \/ ReadStream \/ SetChargeData \/ SetDone \/ TrimStream \/ ReadError

Outside ==
    \/ \E d \in Drones : Land(d)
    \/ RecycleDrones \/ PickFault \/ SendFault

Next == Base \/ Outside

Spec == Init /\ [][Next]_vars

(* Main starts a tick of the ChargeBase again and again.                   *)
FairSpec == Spec /\ WF_vars(Base)

-----------------------------------------------------------------------------
(* Properties                                                              *)

(* Types of the process and of what it shares.                             *)
TypeOK ==
    /\ pc \in {"idle", "charge", "release", "read", "set", "trim", "dead"}
    /\ held \subseteq Drones /\ slot \in [Drones -> Slots]
    /\ releasing \subseteq held
    /\ relDrone \in Drones \cup {None} /\ relStep \in {"sadd", "srem", "xadd"}
    /\ stream \in Seq(Records)
    /\ seen \in 0 .. Len(stream) /\ batch \in Nat /\ index \in Nat
    /\ chargingSet \subseteq Drones /\ charged \subseteq Drones /\ reused \subseteq Drones
    /\ completed \in [Drones -> Nat]
    /\ landed \subseteq Drones /\ picked \in Drones \cup {None}
    /\ faultQueue \in Seq(Messages)
    /\ faults \in 0 .. MaxFaults /\ errors \in 0 .. MaxErrors

Unread == {stream[i].drone : i \in seen + 1 .. Len(stream)}
Charging == {d \in held : slot[d].rate > 0}
Ghosts == held \ Charging
Returned == charged \cup reused

(* No drone is lost between the stream, the map and the set of charged     *)
(* drones, whatever fails while the stream is read; and none is in two     *)
(* stages at once except for the one that is being released                *)
(* (ChargeBase.cpp:74-118, 202-214).                                       *)
OneBerth ==
    /\ landed = Unread \cup Charging \cup Returned
    /\ Unread \cap Returned = {}
    /\ Charging \cap Returned \subseteq {relDrone}

(* The Redis set the TestGenerator draws from lags behind the map only for *)
(* a drone whose record will be read again, and runs ahead of it only in   *)
(* the middle of a release (ChargeBase.cpp:134, 205-208).                  *)
SetFollowsMap ==
    /\ chargingSet \subseteq Charging
    /\ Charging \ chargingSet \subseteq Unread \cup {relDrone}
    /\ chargingSet \cap Returned \subseteq {relDrone}

(* A malfunction that comes too late leaves an entry without a rate, but   *)
(* only for a drone that was returned: it never hides one that has still   *)
(* to charge (ChargeBase.cpp:54).                                          *)
GhostsAreReturned == Ghosts \subseteq Returned

(* The stages of a drone, as the rest of the system sees them.             *)
Stage == [d \in Drones |->
            CASE d \in reused -> "reused"
              [] d \in charged \ reused -> "ready"
              [] d \in landed \ Returned -> "base"
              [] OTHER -> "away"]

Service == INSTANCE ChargeService
             WITH where <- Stage, announced <- {d \in Drones : completed[d] = 1}

(* Each landed drone is returned and announced once, although records are  *)
(* read again after an error and malfunctions meet drones that have left   *)
(* (ChargeBase.cpp:25-214).                                                *)
ImplementsService == Service!Spec

Slowed(d) == d \in Charging /\ slot[d].factor < Unit

(* Every landed drone is charged in the end, unless a malfunction slows it *)
(* down, with a factor below 1, or an error in ReleaseDrone ends the       *)
(* process (ChargeBase.cpp:137-170).                                       *)
ChargedInTheEnd ==
    \A d \in Drones : d \in landed ~> d \in Returned \/ Slowed(d) \/ pc = "dead"
=============================================================================
