-------------------------- MODULE ChargeBase_proofs --------------------------
(***************************************************************************)
(* Proofs about the ChargeBase, for every set of drones and every number   *)
(* of errors that is short of a charge.  The inductive invariant IInv adds *)
(* to the checked ones what holds at each control point.                   *)
(***************************************************************************)
EXTENDS ChargeBase, SequenceTheorems, TLAPS

-----------------------------------------------------------------------------
(* The inductive invariant                                                 *)

Control ==
    /\ relStep = "sadd" <=> relDrone = None
    /\ relDrone # None => relDrone \in releasing /\ relDrone \in Returned
    /\ relStep = "xadd" => relDrone \notin chargingSet
    /\ pc \notin {"release", "dead"} => releasing = {}
    /\ pc = "set" => seen <= index /\ index <= batch /\ batch <= Len(stream)

(* A drone without a rate does not charge; those to be released are full.  *)
Entries ==
    /\ \A d \in Drones \ held : slot[d] = Blank
    /\ \A d \in held : slot[d].rate = 0 => slot[d].charge = 0
    /\ \A d \in releasing : slot[d].charge >= Full

(* Malfunctions are for drones that have been in the map.                  *)
Reached ==
    /\ picked \in Charging \cup Returned \cup {None}
    /\ \A i \in DOMAIN faultQueue : faultQueue[i].drone \in Charging \cup Returned

(* The records of the stream are of different drones.                      *)
Records1 ==
    /\ \A i \in DOMAIN stream : stream[i].drone \in landed
    /\ \A i, j \in DOMAIN stream : stream[i].drone = stream[j].drone => i = j

(* How far the batch is; what comes after it is not in the map.            *)
Progress ==
    /\ pc = "set" =>
         /\ \A i \in seen + 1 .. index : stream[i].drone \in Charging \cap chargingSet
         /\ \A i \in batch + 1 .. Len(stream) : stream[i].drone \notin Charging
    /\ pc = "trim" => \A i \in seen + 1 .. Len(stream) : stream[i].drone \notin Charging

(* A drone whose record will be read again has charged for no more ticks   *)
(* than there were errors.                                                 *)
Allowance == errors * TopGain

Slack ==
    \A i \in seen + 1 .. Len(stream) :
        stream[i].drone \in Charging =>
            slot[stream[i].drone].charge + (IF pc \in {"idle", "charge"} THEN TopGain ELSE 0)
              <= stream[i].charge + Allowance

Announced ==
    /\ charged \cap reused = {}
    /\ \A d \in Drones : completed[d] = IF d \in Returned \ {relDrone} THEN 1 ELSE 0

IInv ==
    /\ TypeOK /\ Control /\ Entries /\ Reached /\ Records1 /\ Progress /\ Slack
    /\ OneBerth /\ SetFollowsMap /\ GhostsAreReturned /\ Announced

LEMMA Constants ==
    /\ None \notin Drones
    /\ Full \in Nat /\ Full > 0 /\ TopGain \in Nat /\ Unit \in Nat
    /\ MaxErrors \in Nat /\ MaxFaults \in Nat
    /\ \A c \in Landings : c \in Nat
    /\ \A r \in Rates : r \in Nat /\ r > 0
    /\ \A f \in Factors : f \in Nat
BY ChargeAssumption

(* A drone without a rate gains nothing, and no drone too much.            *)
LEMMA GainBounds ==
    ASSUME NEW f \in Factors \cup {Unit}
    PROVE  /\ Gain(0, f) = 0
           /\ \A r \in Rates \cup {0} : Gain(r, f) \in Nat /\ Gain(r, f) <= TopGain
<1>1. \A r \in Rates \cup {0} : Gain(r, f) \in 0 .. TopGain
  BY ChargeAssumption
<1>2. Gain(0, f) = 0
  <2>1. Grain \in Nat \ {0} /\ f \in Nat /\ Unit \in Nat
    BY ChargeAssumption
  <2>2. 0 * (IF f < Unit THEN Unit - f ELSE f) = 0
    BY <2>1
  <2>3. 0 \div Grain = 0
    BY <2>1
  <2> QED
    BY <2>2, <2>3 DEF Gain
<1> QED
  BY <1>1, <1>2, Constants

LEMMA InitInv == Init => IInv
<1> SUFFICES ASSUME Init PROVE IInv
  OBVIOUS
<1>1. Unread = {} /\ Charging = {} /\ Ghosts = {} /\ Returned = {}
  BY DEF Init, Unread, Charging, Ghosts, Returned
<1>2. slot \in [Drones -> Slots]
  BY DEF Init, Slots, Blank
<1>3. stream \in Seq(Records) /\ faultQueue \in Seq(Messages)
  BY DEF Init
<1>4. TypeOK
  BY <1>2, <1>3, Constants DEF Init, TypeOK
<1>5. Control /\ Entries /\ Reached /\ Records1
  BY DEF Init, Control, Entries, Reached, Records1
<1>6. Progress /\ Slack
  BY DEF Init, Progress, Slack
<1>7. OneBerth /\ SetFollowsMap /\ GhostsAreReturned /\ Announced
  BY <1>1 DEF Init, OneBerth, SetFollowsMap, GhostsAreReturned, Announced
<1> QED
  BY <1>4, <1>5, <1>6, <1>7 DEF IInv

-----------------------------------------------------------------------------
(* The other processes                                                     *)

LEMMA LandInv ==
    ASSUME IInv, NEW d \in Drones, Land(d)
    PROVE  IInv'
<1> USE DEF IInv, baseVars, readVars, redisVars, outerVars
<1>1. PICK c \in Landings : stream' = Append(stream, [drone |-> d, charge |-> c])
  BY DEF Land
<1> DEFINE n == Len(stream)
<1>2. /\ n \in Nat /\ Len(stream') = n + 1 /\ stream' \in Seq(Records)
      /\ stream'[n + 1] = [drone |-> d, charge |-> c]
      /\ \A i \in 1 .. n : stream'[i] = stream[i]
      /\ DOMAIN stream = 1 .. n /\ DOMAIN stream' = 1 .. n + 1
  BY <1>1 DEF TypeOK, Records
<1>3. d \notin landed /\ landed' = landed \cup {d}
  BY DEF Land
<1>4. UNCHANGED <<pc, baseVars, readVars, chargingSet, charged, completed,
                   reused, picked, faultQueue, faults, errors>>
  BY DEF Land
<1>5. Charging' = Charging /\ Ghosts' = Ghosts /\ Returned' = Returned
  BY <1>4 DEF Charging, Ghosts, Returned
<1>6. seen \in 0 .. n
  BY DEF TypeOK
<1>7. Unread' = Unread \cup {d}
  <2>1. Unread' = {stream'[i].drone : i \in seen + 1 .. n + 1}
    BY <1>2, <1>4 DEF Unread
  <2>2. seen + 1 .. n + 1 = (seen + 1 .. n) \cup {n + 1}
    BY <1>2, <1>6
  <2>3. \A i \in seen + 1 .. n : stream'[i].drone = stream[i].drone
    BY <1>2, <1>6
  <2>4. stream'[n + 1].drone = d
    BY <1>2
  <2>5. Unread = {stream[i].drone : i \in seen + 1 .. n}
    BY DEF Unread
  <2> HIDE DEF n
  <2> QED
    BY <2>1, <2>2, <2>3, <2>4, <2>5
<1>8. TypeOK'
  <2>1. seen' \in 0 .. Len(stream')
    BY <1>2, <1>4, <1>6
  <2> QED
    BY <1>2, <1>3, <1>4, <2>1 DEF TypeOK
<1>9. Control' /\ Entries' /\ Reached'
  <2>1. Control'
    BY <1>2, <1>4, <1>5 DEF Control, TypeOK
  <2>2. Entries'
    BY <1>4 DEF Entries
  <2>3. Reached'
    BY <1>4, <1>5 DEF Reached
  <2> QED
    BY <2>1, <2>2, <2>3
<1>10. Records1'
  BY <1>2, <1>3 DEF Records1
<1>11. d \notin Charging /\ d \notin Returned
  BY <1>3 DEF OneBerth
<1>12. Progress'
  <2>1. CASE pc = "set"
    <3>1. index \in Nat /\ batch \in Nat /\ index <= n /\ batch <= n
      BY <2>1 DEF Control, TypeOK
    <3>2. \A i \in seen + 1 .. index : stream'[i].drone \in Charging \cap chargingSet
      BY <1>2, <1>6, <2>1, <3>1 DEF Progress
    <3>3. \A i \in batch + 1 .. n + 1 : stream'[i].drone \notin Charging
      BY <1>2, <1>11, <2>1, <3>1 DEF Progress
    <3> QED
      BY <1>2, <1>4, <1>5, <2>1, <3>2, <3>3 DEF Progress
  <2>2. CASE pc = "trim"
    <3>1. \A i \in seen + 1 .. n : stream[i].drone \notin Charging
      BY <2>2 DEF Progress
    <3>2. \A i \in seen + 1 .. n + 1 : stream'[i].drone \notin Charging
      <4> SUFFICES ASSUME NEW i \in seen + 1 .. n + 1
                   PROVE  stream'[i].drone \notin Charging
        OBVIOUS
      <4>1. CASE i = n + 1
        BY <1>2, <1>11, <4>1
      <4>2. CASE i # n + 1
        <5>1. i \in seen + 1 .. n /\ i \in 1 .. n
          BY <1>2, <1>6, <4>2
        <5> HIDE DEF n
        <5> QED
          BY <1>2, <3>1, <5>1
      <4> QED
        BY <4>1, <4>2
    <3>3. pc' = "trim" /\ seen' = seen /\ Len(stream') = n + 1
      BY <1>2, <1>4, <2>2 DEF readVars
    <3> QED
      BY <1>5, <3>2, <3>3 DEF Progress
  <2> QED
    BY <1>4, <2>1, <2>2 DEF Progress
<1>13. Slack'
  BY <1>2, <1>4, <1>5, <1>6, <1>11 DEF Slack, Allowance
<1>14. OneBerth' /\ SetFollowsMap' /\ GhostsAreReturned'
  BY <1>3, <1>4, <1>5, <1>7, <1>11 DEF OneBerth, SetFollowsMap, GhostsAreReturned
<1>15. Announced'
  BY <1>4, <1>5 DEF Announced
<1> QED
  BY <1>8, <1>9, <1>10, <1>12, <1>13, <1>14, <1>15

(* A step that touches neither the map nor the stream.                     *)
LEMMA Aside ==
    ASSUME IInv, UNCHANGED <<pc, baseVars, readVars, stream, chargingSet, completed, landed, errors>>,
           Returned' = Returned
    PROVE  /\ Control' /\ Entries' /\ Records1' /\ Progress' /\ Slack'
           /\ OneBerth' /\ SetFollowsMap' /\ GhostsAreReturned'
           /\ Charging' = Charging
<1> USE DEF IInv, baseVars, readVars
<1>1. Charging' = Charging /\ Ghosts' = Ghosts /\ Unread' = Unread
  BY DEF Charging, Ghosts, Unread
<1>2. Control' /\ Entries' /\ Records1'
  BY DEF Control, Entries, Records1
<1>3. Progress' /\ Slack'
  BY <1>1 DEF Progress, Slack, Allowance
<1>4. OneBerth' /\ SetFollowsMap' /\ GhostsAreReturned'
  BY <1>1 DEF OneBerth, SetFollowsMap, GhostsAreReturned
<1> QED
  BY <1>1, <1>2, <1>3, <1>4

LEMMA RecycleInv ==
    ASSUME IInv, RecycleDrones
    PROVE  IInv'
<1> USE DEF IInv
<1>1. PICK S \in SUBSET charged : charged' = charged \ S /\ reused' = reused \cup S
  BY DEF RecycleDrones
<1>2. UNCHANGED <<pc, baseVars, readVars, stream, chargingSet, completed,
                   landed, picked, faultQueue, faults, errors>>
  BY DEF RecycleDrones
<1>3. Returned' = Returned
  BY <1>1 DEF Returned
<1>4. TypeOK'
  BY <1>1, <1>2 DEF TypeOK, baseVars, readVars
<1>5. Reached' /\ Announced'
  BY <1>1, <1>2, <1>3, Aside DEF Reached, Announced, baseVars
<1> QED
  BY <1>2, <1>3, <1>4, <1>5, Aside

LEMMA FaultInv ==
    ASSUME IInv, PickFault \/ SendFault
    PROVE  IInv'
<1> USE DEF IInv
<1>1. /\ UNCHANGED <<pc, baseVars, readVars, redisVars, reused, landed, errors>>
  BY DEF PickFault, SendFault
<1>2. Returned' = Returned
  BY <1>1 DEF Returned, redisVars
<1>3. Announced'
  BY <1>1, <1>2 DEF Announced, redisVars, baseVars
<1>4. Charging' = Charging
  BY <1>1, <1>2, Aside DEF redisVars
<1>5. CASE PickFault
  <2>1. /\ picked' \in chargingSet /\ faults' \in 0 .. MaxFaults
        /\ UNCHANGED faultQueue
    BY <1>5, Constants DEF PickFault, TypeOK
  <2>2. picked' \in Charging
    BY <2>1 DEF SetFollowsMap
  <2>3. TypeOK'
    BY <1>1, <2>1 DEF TypeOK, baseVars, readVars, redisVars
  <2>4. Reached'
    BY <1>2, <1>4, <2>1, <2>2 DEF Reached
  <2> QED
    BY <1>1, <1>2, <1>3, <2>3, <2>4, Aside DEF redisVars
<1>6. CASE SendFault
  <2>1. PICK f \in Factors : faultQueue' = Append(faultQueue, [drone |-> picked, factor |-> f])
    BY <1>6 DEF SendFault
  <2>2. picked \in Drones /\ picked' = None /\ UNCHANGED faults
    BY <1>6 DEF SendFault, TypeOK
  <2>3. /\ faultQueue' \in Seq(Messages)
        /\ \A i \in DOMAIN faultQueue' :
             faultQueue'[i].drone = picked \/
               (i \in DOMAIN faultQueue /\ faultQueue'[i] = faultQueue[i])
    BY <2>1, <2>2 DEF TypeOK, Messages
  <2>4. TypeOK'
    BY <1>1, <2>2, <2>3 DEF TypeOK, baseVars, readVars, redisVars
  <2>5. Reached'
    BY <1>2, <1>4, <1>6, <2>2, <2>3 DEF Reached, SendFault
  <2> QED
    BY <1>1, <1>2, <1>3, <2>4, <2>5, Aside DEF redisVars
<1> QED
  BY <1>5, <1>6

-----------------------------------------------------------------------------
(* The malfunctions                                                        *)

LEMMA ReceiveInv ==
    ASSUME IInv, ReceiveFaults
    PROVE  IInv'
<1> USE DEF IInv
<1>1. /\ pc = "idle" /\ pc' = "charge"
      /\ held' = held \cup Named
      /\ faultQueue' = <<>>
      /\ UNCHANGED <<releasing, relDrone, relStep, readVars, redisVars, reused, landed,
                     picked, faults, errors>>
  BY DEF ReceiveFaults
<1>2. Named \subseteq Charging \cup Returned /\ Named \subseteq Drones
  BY DEF Reached, Named, TypeOK, Charging, OneBerth
<1>3. /\ slot' \in [Drones -> Slots]
      /\ \A d \in Drones : slot'[d].charge = slot[d].charge /\ slot'[d].rate = slot[d].rate
      /\ \A d \in Drones \ Named : slot'[d] = slot[d]
  <2>1. PICK last \in [Named -> DOMAIN faultQueue] :
           slot' = [d \in Drones |->
                      IF d \in Named
                        THEN [slot[d] EXCEPT !.factor = faultQueue[last[d]].factor]
                        ELSE slot[d]]
    BY DEF ReceiveFaults
  <2> SUFFICES ASSUME NEW d \in Drones
               PROVE  /\ slot'[d] \in Slots
                      /\ slot'[d].charge = slot[d].charge /\ slot'[d].rate = slot[d].rate
                      /\ d \notin Named => slot'[d] = slot[d]
    BY <2>1
  <2>2. slot[d] \in Slots
    BY DEF TypeOK
  <2>3. CASE d \in Named
    <3>0. faultQueue[last[d]] \in Messages
      BY <2>3 DEF TypeOK
    <3>1. faultQueue[last[d]].factor \in Factors
      BY <3>0 DEF Messages
    <3>2. slot'[d] = [slot[d] EXCEPT !.factor = faultQueue[last[d]].factor]
      BY <2>1, <2>3
    <3> QED
      BY <2>2, <2>3, <3>1, <3>2 DEF Slots
  <2>4. CASE d \notin Named
    <3>1. slot'[d] = slot[d]
      BY <2>1, <2>4
    <3> QED
      BY <2>2, <2>4, <3>1
  <2> QED
    BY <2>3, <2>4
<1>4. Charging' = Charging
  BY <1>1, <1>2, <1>3, Constants DEF Charging, Entries, Blank, TypeOK
<1>5. Returned' = Returned /\ Unread' = Unread
  BY <1>1 DEF Returned, Unread, redisVars, readVars
<1>6. TypeOK'
  <2>1. faultQueue' \in Seq(Messages)
    BY <1>1
  <2> QED
    BY <1>1, <1>2, <1>3, <2>1 DEF TypeOK, readVars, redisVars
<1>7. Control'
  BY <1>1, <1>5 DEF Control, redisVars, readVars
<1>8. Entries'
  BY <1>1, <1>2, <1>3 DEF Entries, Control, Blank, TypeOK
<1>9. Reached' /\ Records1' /\ Announced'
  BY <1>1, <1>4, <1>5 DEF Reached, Records1, Announced, redisVars, readVars
<1>10. Progress'
  BY <1>1 DEF Progress
<1>11. Slack'
  <2>1. \A d \in Charging : d \in Drones
    BY DEF Charging, TypeOK
  <2> QED
    BY <1>1, <1>3, <1>4, <2>1 DEF Slack, Allowance, redisVars, readVars
<1>12. OneBerth' /\ SetFollowsMap'
  BY <1>1, <1>4, <1>5 DEF OneBerth, SetFollowsMap, redisVars
<1>13. GhostsAreReturned'
  BY <1>1, <1>2, <1>4, <1>5 DEF GhostsAreReturned, Ghosts
<1> QED
  BY <1>6, <1>7, <1>8, <1>9, <1>10, <1>11, <1>12, <1>13

-----------------------------------------------------------------------------
(* The charging and the release                                            *)

LEMMA ErrorBounds ==
    ASSUME errors \in 0 .. MaxErrors
    PROVE  /\ Allowance \in Nat
           /\ \A c \in Landings : c + Allowance < Full
           /\ UNCHANGED errors => Allowance' = Allowance
           /\ errors' = errors + 1 => Allowance' = Allowance + TopGain
<1>1. errors \in Nat /\ MaxErrors \in Nat /\ TopGain \in Nat /\ MaxErrors - errors \in Nat
  BY Constants
<1>2. \A a, b \in Nat : a * b \in Nat
  OBVIOUS
<1>3. \A a, b, c \in Nat : (a + b) * c = a * c + b * c
  OBVIOUS
<1>4. MaxErrors * TopGain = errors * TopGain + (MaxErrors - errors) * TopGain
  <2>1. MaxErrors = errors + (MaxErrors - errors)
    BY <1>1
  <2> QED
    BY <1>1, <1>3, <2>1
<1>5. (errors + 1) * TopGain = errors * TopGain + TopGain
  BY <1>1, <1>3
<1>6. (MaxErrors - errors) * TopGain \in Nat /\ errors * TopGain \in Nat
  BY <1>1, <1>2
<1>7. \A c \in Landings : c + errors * TopGain < Full
  <2> TAKE c \in Landings
  <2>1. c \in Nat /\ c + MaxErrors * TopGain < Full /\ Full \in Nat
    BY Constants, BriefErrors
  <2> QED
    BY <1>4, <1>6, <2>1
<1> QED
  BY <1>5, <1>6, <1>7 DEF Allowance

LEMMA Record ==
    ASSUME TypeOK, NEW i \in DOMAIN stream
    PROVE  /\ stream[i].drone \in Drones
           /\ stream[i].charge \in Landings /\ stream[i].charge \in Nat
<1>1. stream[i] \in Records
  BY DEF TypeOK
<1> QED
  BY <1>1, Constants DEF Records

(* A drone to be released does charge, and its record was dealt with.      *)
LEMMA Releasable ==
    ASSUME IInv, NEW d \in releasing
    PROVE  d \in Charging /\ d \notin Unread /\ d \in Drones
<1> USE DEF IInv
<1>1. d \in held /\ d \in Drones /\ slot[d].charge >= Full /\ slot[d] \in Slots
  BY DEF TypeOK, Entries
<1>2. slot[d].rate # 0
  BY <1>1, Constants DEF Entries
<1>3. d \in Charging
  BY <1>1, <1>2, Constants DEF Charging, Slots
<1>4. ASSUME NEW i \in seen + 1 .. Len(stream), stream[i].drone = d
      PROVE  FALSE
  <2>1. stream[i].charge \in Landings /\ stream[i].charge \in Nat
    BY Record DEF TypeOK
  <2>2. pc \notin {"idle", "charge"}
    BY DEF Control
  <2>3. slot[d].charge <= stream[i].charge + Allowance
    <3>1. slot[d].charge + 0 <= stream[i].charge + Allowance
      BY <1>3, <1>4, <2>2 DEF Slack
    <3> QED
      BY <1>1, <3>1 DEF Slots
  <2>4. stream[i].charge + Allowance < Full
    BY <2>1, ErrorBounds DEF TypeOK
  <2>5. slot[d].charge \in Nat /\ Allowance \in Nat
    BY <1>1, ErrorBounds DEF TypeOK, Slots
  <2> QED
    BY <1>1, <2>1, <2>3, <2>4, <2>5, Constants
<1> QED
  BY <1>1, <1>3, <1>4 DEF Unread

LEMMA ChargeInv ==
    ASSUME IInv, ChargeDrone
    PROVE  IInv'
<1> USE DEF IInv
<1>1. /\ pc = "charge" /\ pc' = "release" /\ releasing' = FullDrones
      /\ UNCHANGED <<held, relDrone, relStep, readVars, redisVars, outerVars, errors>>
  BY DEF ChargeDrone
<1>2. releasing = {} /\ relDrone = None /\ relStep = "sadd"
  BY <1>1 DEF Control
<1>3. \A d \in Drones :
        /\ slot'[d] \in Slots
        /\ slot'[d].rate = slot[d].rate
        /\ slot'[d].charge >= slot[d].charge /\ slot'[d].charge <= slot[d].charge + TopGain
        /\ d \in FullDrones \/ d \notin held => slot'[d] = slot[d]
        /\ slot[d].rate = 0 /\ slot[d].charge = 0 => slot'[d].charge = 0
  <2> TAKE d \in Drones
  <2>1. slot[d] \in Slots /\ slot[d].charge \in Nat /\ TopGain \in Nat
    BY Constants DEF TypeOK, Slots
  <2>2. CASE d \in held \ FullDrones
    <3> DEFINE g == Gain(slot[d].rate, slot[d].factor)
    <3>1. g \in Nat /\ g <= TopGain /\ (slot[d].rate = 0 => g = 0)
      BY <2>1, GainBounds DEF Slots
    <3> HIDE DEF g
    <3>2. slot'[d] = [slot[d] EXCEPT !.charge = @ + g]
      BY <2>2 DEF ChargeDrone, g
    <3> QED
      BY <2>1, <2>2, <3>1, <3>2 DEF Slots
  <2>3. CASE d \notin held \ FullDrones
    <3>1. slot'[d] = slot[d]
      BY <2>3 DEF ChargeDrone
    <3> QED
      BY <2>1, <3>1
  <2> QED
    BY <2>2, <2>3
<1>4. Charging' = Charging /\ Returned' = Returned /\ Unread' = Unread /\ Ghosts' = Ghosts
  BY <1>1, <1>3 DEF Charging, Returned, Unread, Ghosts, redisVars, readVars, outerVars, TypeOK
<1>5. TypeOK'
  <2>1. slot' \in [Drones -> Slots]
    BY <1>3 DEF ChargeDrone
  <2>2. releasing' \subseteq held'
    BY <1>1 DEF FullDrones
  <2> QED
    BY <1>1, <2>1, <2>2 DEF TypeOK, readVars, redisVars, outerVars
<1>6. Control'
  BY <1>1, <1>2 DEF Control
<1>7. Entries'
  <2>1. \A d \in FullDrones : slot'[d].charge >= Full
    BY <1>3 DEF FullDrones, TypeOK
  <2> QED
    BY <1>1, <1>3, <2>1 DEF Entries, TypeOK
<1>8. Reached' /\ Records1' /\ Progress' /\ Announced'
  BY <1>1, <1>4 DEF Reached, Records1, Progress, Announced, redisVars, readVars, outerVars
<1>9. Slack'
  <2>1. ASSUME NEW i \in seen + 1 .. Len(stream), stream[i].drone \in Charging
        PROVE  slot'[stream[i].drone].charge + 0 <= stream[i].charge + Allowance
    <3> DEFINE d == stream[i].drone
    <3>1. d \in Drones /\ stream[i].charge \in Nat
      BY Record DEF TypeOK
    <3>2. slot[d].charge + TopGain <= stream[i].charge + Allowance
      BY <1>1, <2>1 DEF Slack
    <3>3. slot'[d].charge <= slot[d].charge + TopGain /\ slot[d] \in Slots /\ slot'[d] \in Slots
      BY <1>3, <3>1 DEF TypeOK
    <3>4. slot[d].charge \in Nat /\ slot'[d].charge \in Nat
      BY <3>3 DEF Slots
    <3>5. Allowance \in Nat /\ TopGain \in Nat
      BY ErrorBounds, Constants DEF TypeOK
    <3> DEFINE a == slot[d].charge
               b == slot'[d].charge
               c == stream[i].charge
    <3>6. /\ a \in Nat /\ b \in Nat /\ c \in Nat
          /\ a + TopGain <= c + Allowance /\ b <= a + TopGain
      BY <3>1, <3>2, <3>3, <3>4
    <3>7. b + 0 <= c + Allowance
      <4> HIDE DEF a, b, c, d
      <4> QED
        BY <3>5, <3>6
    <3> QED
      BY <3>7
  <2>2. Allowance' = Allowance
    BY <1>1, ErrorBounds DEF TypeOK
  <2> QED
    BY <1>1, <1>4, <2>1, <2>2 DEF Slack, redisVars, readVars
<1>10. OneBerth' /\ SetFollowsMap' /\ GhostsAreReturned'
  BY <1>1, <1>4 DEF OneBerth, SetFollowsMap, GhostsAreReturned, redisVars, outerVars
<1> QED
  BY <1>5, <1>6, <1>7, <1>8, <1>9, <1>10

LEMMA ReleaseAddInv ==
    ASSUME IInv, ReleaseAdd
    PROVE  /\ IInv'
           /\ relDrone' \in Drones \ Returned /\ relDrone' \in landed
<1> USE DEF IInv
<1>1. /\ pc = "release" /\ relDrone = None /\ relDrone' \in releasing
      /\ charged' = charged \cup {relDrone'} /\ relStep' = "srem"
      /\ UNCHANGED <<pc, held, slot, releasing, readVars, stream, chargingSet, completed,
                     outerVars, errors>>
  BY DEF ReleaseAdd
<1> DEFINE d == relDrone'
<1>2. d \in Charging /\ d \notin Unread /\ d \in Drones /\ d # None
  BY <1>1, Releasable, Constants
<1>3. Charging \cap Returned = {} /\ d \notin Returned /\ d \in landed
  <2>1. None \notin Charging
    BY Constants DEF Charging, TypeOK
  <2> QED
    BY <1>1, <1>2, <2>1 DEF OneBerth
<1>4. Returned' = Returned \cup {d}
  BY <1>1 DEF Returned, outerVars
<1>5. Charging' = Charging /\ Unread' = Unread /\ Ghosts' = Ghosts
  BY <1>1 DEF Charging, Unread, Ghosts, readVars
<1>6. TypeOK'
  BY <1>1, <1>2 DEF TypeOK, readVars, outerVars
<1>7. Control' /\ Entries' /\ Reached' /\ Records1'
  BY <1>1, <1>2, <1>4, <1>5 DEF Control, Entries, Reached, Records1, outerVars, readVars
<1>8. Progress' /\ Slack'
  BY <1>1, <1>5 DEF Progress, Slack, Allowance, readVars
<1>9. OneBerth' /\ SetFollowsMap' /\ GhostsAreReturned'
  <2>1. OneBerth'
    <3> HIDE DEF d
    <3>1. landed' = landed
      BY <1>1 DEF outerVars
    <3>2. landed = Unread \cup Charging \cup Returned /\ Unread \cap Returned = {}
      BY DEF OneBerth
    <3> QED
      BY <1>2, <1>3, <1>4, <1>5, <3>1, <3>2 DEF OneBerth, d
  <2>2. SetFollowsMap'
    <3>1. chargingSet' = chargingSet /\ chargingSet \subseteq Charging
      BY <1>1 DEF SetFollowsMap
    <3>2. Charging \ chargingSet \subseteq Unread
      <4>1. None \notin Charging
        BY Constants DEF Charging, TypeOK
      <4> QED
        BY <1>1, <4>1 DEF SetFollowsMap
    <3> QED
      BY <1>3, <1>4, <1>5, <3>1, <3>2 DEF SetFollowsMap
  <2>3. GhostsAreReturned'
    BY <1>4, <1>5 DEF GhostsAreReturned
  <2> QED
    BY <2>1, <2>2, <2>3
<1>10. Announced'
  <2>1. (charged \cap reused)' = {}
    BY <1>1, <1>3 DEF Announced, Returned, outerVars
  <2>2. (Returned \ {relDrone})' = Returned \ {relDrone}
    BY <1>1, <1>3, <1>4, Constants DEF Returned, TypeOK
  <2> QED
    BY <1>1, <2>1, <2>2 DEF Announced
<1> QED
  BY <1>2, <1>3, <1>6, <1>7, <1>8, <1>9, <1>10

LEMMA ReleaseRemoveInv ==
    ASSUME IInv, ReleaseRemove
    PROVE  IInv'
<1> USE DEF IInv
<1>1. /\ pc = "release" /\ relStep = "srem" /\ relStep' = "xadd"
      /\ chargingSet' = chargingSet \ {relDrone}
      /\ UNCHANGED <<pc, held, slot, releasing, relDrone, readVars, stream, charged,
                     completed, outerVars, errors>>
  BY DEF ReleaseRemove
<1>2. Charging' = Charging /\ Unread' = Unread /\ Ghosts' = Ghosts /\ Returned' = Returned
  BY <1>1 DEF Charging, Unread, Ghosts, Returned, readVars, outerVars
<1>3. TypeOK'
  BY <1>1 DEF TypeOK, readVars, outerVars
<1>4. Control' /\ Entries' /\ Reached' /\ Records1'
  BY <1>1, <1>2 DEF Control, Entries, Reached, Records1, outerVars, readVars
<1>5. Progress' /\ Slack'
  BY <1>1, <1>2 DEF Progress, Slack, Allowance, readVars
<1>6. OneBerth' /\ SetFollowsMap' /\ GhostsAreReturned' /\ Announced'
  BY <1>1, <1>2 DEF OneBerth, SetFollowsMap, GhostsAreReturned, Announced, outerVars
<1> QED
  BY <1>3, <1>4, <1>5, <1>6

LEMMA ReleaseLogInv ==
    ASSUME IInv, ReleaseLog
    PROVE  /\ IInv'
           /\ relDrone \in Drones \cap Returned
           /\ completed[relDrone] = 0 /\ completed' = [completed EXCEPT ![relDrone] = 1]
<1> USE DEF IInv
<1> DEFINE d == relDrone
<1>1. /\ pc = "release" /\ relStep = "xadd"
      /\ completed' = [completed EXCEPT ![d] = @ + 1]
      /\ held' = held \ {d}
      /\ slot' = [slot EXCEPT ![d] = Blank]
      /\ releasing' = releasing \ {d}
      /\ relDrone' = None /\ relStep' = "sadd"
      /\ UNCHANGED <<pc, readVars, stream, chargingSet, charged, outerVars, errors>>
  BY DEF ReleaseLog
<1>2. d \in releasing /\ d \in Returned /\ d \notin chargingSet
  BY <1>1 DEF Control
<1>3. d \in Charging /\ d \notin Unread /\ d \in Drones /\ d # None
  BY <1>2, Releasable, Constants
<1>4. /\ slot' \in [Drones -> Slots] /\ slot'[d] = Blank
      /\ \A e \in Drones \ {d} : slot'[e] = slot[e]
  BY <1>1, <1>3, Constants DEF TypeOK, Slots, Blank
<1>5. Returned' = Returned /\ Unread' = Unread
  BY <1>1 DEF Returned, Unread, readVars, outerVars
<1>6. Charging' = Charging \ {d}
  BY <1>1, <1>4 DEF Charging, TypeOK
<1>7. Ghosts' = Ghosts
  BY <1>1, <1>3, <1>6 DEF Ghosts
<1>8. completed[d] = 0 /\ completed' = [completed EXCEPT ![d] = 1]
  <2>1. completed[d] = 0
    BY <1>3 DEF Announced
  <2>2. completed[d] + 1 = 1
    BY <2>1
  <2> HIDE DEF d
  <2> QED
    BY <1>1, <2>1, <2>2
<1>9. TypeOK'
  <2>1. completed' \in [Drones -> Nat]
    BY <1>3, <1>8 DEF TypeOK
  <2> QED
    BY <1>1, <1>4, <2>1 DEF TypeOK, readVars, outerVars
<1>10. Control' /\ Reached' /\ Records1'
  BY <1>1, <1>2, <1>5, <1>6 DEF Control, Reached, Records1, outerVars, readVars
<1>11. Entries'
  BY <1>1, <1>4 DEF Entries, TypeOK
<1>12. Progress'
  BY <1>1 DEF Progress
<1>13. Slack'
  <2>1. \A i \in seen + 1 .. Len(stream) :
          stream[i].drone \in Charging \ {d} => slot'[stream[i].drone] = slot[stream[i].drone]
    BY <1>4 DEF Charging, TypeOK
  <2> QED
    BY <1>1, <1>6, <2>1 DEF Slack, Allowance, readVars
<1>14. OneBerth'
  BY <1>1, <1>2, <1>5, <1>6 DEF OneBerth, outerVars
<1>15. SetFollowsMap'
  BY <1>1, <1>2, <1>5, <1>6 DEF SetFollowsMap
<1>16. GhostsAreReturned'
  BY <1>5, <1>7 DEF GhostsAreReturned
<1>17. Announced'
  <2>1. (charged \cap reused)' = {}
    BY <1>1 DEF Announced, outerVars
  <2>2. \A e \in Drones : completed'[e] = IF e \in Returned THEN 1 ELSE 0
    BY <1>2, <1>3, <1>8 DEF Announced, TypeOK
  <2> QED
    BY <1>1, <1>5, <2>1, <2>2, Constants DEF Announced
<1> QED
  BY <1>2, <1>3, <1>8, <1>9, <1>10, <1>11, <1>12, <1>13, <1>14, <1>15, <1>16, <1>17

(* A step of the control alone.                                            *)
LEMMA ControlStep ==
    ASSUME IInv,
           UNCHANGED <<held, slot, relDrone, stream, seen, chargingSet, charged, completed,
                       outerVars, errors, releasing>>,
           pc' \in {"idle", "charge"} => pc \in {"idle", "charge"}
    PROVE  /\ Entries' /\ Reached' /\ Records1' /\ Slack'
           /\ OneBerth' /\ SetFollowsMap' /\ GhostsAreReturned' /\ Announced'
<1> USE DEF IInv, outerVars
<1>1. Charging' = Charging /\ Ghosts' = Ghosts /\ Unread' = Unread /\ Returned' = Returned
  BY DEF Charging, Ghosts, Unread, Returned
<1>2. Entries' /\ Reached' /\ Records1' /\ Announced'
  BY <1>1 DEF Entries, Reached, Records1, Announced
<1>3. Slack'
  <2>1. Allowance' = Allowance /\ TopGain \in Nat
    BY Constants DEF Allowance
  <2>2. \A i \in seen + 1 .. Len(stream) : stream[i].drone \in Charging =>
            stream[i].charge \in Nat /\ slot[stream[i].drone].charge \in Nat
    BY Record DEF Charging, TypeOK, Slots
  <2>3. Allowance \in Nat
    BY ErrorBounds DEF TypeOK
  <2> DEFINE Margin == IF pc \in {"idle", "charge"} THEN TopGain ELSE 0
  <2>4. Margin \in Nat /\ Margin' \in Nat /\ Margin' <= Margin
    BY <2>1
  <2>5. \A i \in seen + 1 .. Len(stream) : stream[i].drone \in Charging =>
            slot[stream[i].drone].charge + Margin <= stream[i].charge + Allowance
    BY DEF Slack
  <2>6. UNCHANGED <<slot, stream, seen>>
    OBVIOUS
  <2> HIDE DEF Margin, IInv
  <2>7. \A i \in seen + 1 .. Len(stream) : stream[i].drone \in Charging =>
            slot[stream[i].drone].charge + Margin' <= stream[i].charge + Allowance
    <3> SUFFICES ASSUME NEW i \in seen + 1 .. Len(stream), stream[i].drone \in Charging
                 PROVE  slot[stream[i].drone].charge + Margin' <= stream[i].charge + Allowance
      OBVIOUS
    <3> DEFINE has == slot[stream[i].drone].charge
               top == stream[i].charge + Allowance
    <3>1. has \in Nat /\ stream[i].charge \in Nat /\ has + Margin <= top
      BY <2>2, <2>5
    <3>2. top \in Nat
      BY <2>3, <3>1
    <3> HIDE DEF has, top
    <3>3. has + Margin' <= top
      BY <2>4, <3>1, <3>2
    <3> QED
      BY <3>3 DEF has, top
  <2> SUFFICES ASSUME NEW i \in (seen + 1 .. Len(stream))', (stream[i].drone \in Charging)'
               PROVE  (slot[stream[i].drone].charge + Margin <= stream[i].charge + Allowance)'
    BY DEF Slack, Margin
  <2>8. i \in seen + 1 .. Len(stream) /\ stream[i].drone \in Charging
    BY <1>1, <2>6
  <2> QED
    BY <2>1, <2>6, <2>7, <2>8
<1>4. OneBerth' /\ SetFollowsMap' /\ GhostsAreReturned'
  BY <1>1 DEF OneBerth, SetFollowsMap, GhostsAreReturned
<1> QED
  BY <1>2, <1>3, <1>4

LEMMA ControlInv ==
    ASSUME IInv, ReleaseError \/ EndCharge \/ ReadStream
    PROVE  IInv'
<1> USE DEF IInv
<1>1. pc \in {"release", "read"} /\ pc' \in {"dead", "read", "set"}
  BY DEF ReleaseError, EndCharge, ReadStream
<1>2. UNCHANGED <<held, slot, relDrone, relStep, stream, seen, chargingSet, charged,
                  completed, outerVars, errors, releasing>>
  BY DEF ReleaseError, EndCharge, ReadStream, baseVars, redisVars, readVars
<1>3. Entries' /\ Reached' /\ Records1' /\ Slack' /\ Announced'
      /\ OneBerth' /\ SetFollowsMap' /\ GhostsAreReturned'
  BY <1>1, <1>2, ControlStep
<1>4. Returned' = Returned
  BY <1>2 DEF Returned, outerVars
<1>5. CASE ReleaseError \/ EndCharge
  <2>1. UNCHANGED <<batch, index>> /\ pc' \in {"dead", "read"}
        /\ (pc' = "read" => releasing = {})
    BY <1>5 DEF ReleaseError, EndCharge, readVars
  <2>2. TypeOK'
    BY <1>1, <1>2, <2>1 DEF TypeOK, outerVars
  <2>3. Control' /\ Progress'
    BY <1>1, <1>2, <1>4, <2>1 DEF Control, Progress
  <2> QED
    BY <1>3, <2>2, <2>3
<1>6. CASE ReadStream
  <2>1. pc = "read" /\ pc' = "set" /\ batch' = Len(stream) /\ index' = seen
    BY <1>6 DEF ReadStream
  <2>2. Len(stream) \in Nat /\ seen \in 0 .. Len(stream)
    BY DEF TypeOK
  <2>3. TypeOK'
    BY <1>2, <2>1, <2>2 DEF TypeOK, outerVars
  <2>4. Control'
    BY <1>2, <1>4, <2>1, <2>2 DEF Control
  <2>5. Progress'
    BY <1>2, <2>1, <2>2 DEF Progress
  <2> QED
    BY <1>3, <2>3, <2>4, <2>5
<1> QED
  BY <1>5, <1>6

-----------------------------------------------------------------------------
(* The reading of the stream                                               *)

LEMMA SetEffect ==
    ASSUME IInv, NEW added \in BOOLEAN, Set(added)
    PROVE  /\ held' \subseteq Drones /\ slot' \in [Drones -> Slots]
           /\ chargingSet' \subseteq Drones /\ held \subseteq held'
           /\ stream[index + 1].drone \in Charging' \cap landed
           /\ Charging' = Charging \cup {stream[index + 1].drone}
           /\ added => stream[index + 1].drone \in chargingSet'
           /\ chargingSet \subseteq chargingSet'
           /\ Returned' = Returned /\ Unread' = Unread
           /\ relDrone = None /\ releasing = {}
           /\ Entries' /\ Reached' /\ Records1'
           /\ OneBerth' /\ SetFollowsMap' /\ GhostsAreReturned' /\ Announced'
           /\ \A i \in seen + 1 .. Len(stream) : stream[i].drone \in Charging' =>
                slot'[stream[i].drone].charge + 0 <= stream[i].charge + Allowance
<1> USE DEF IInv
<1> DEFINE r == stream[index + 1]
           d == r.drone
<1>1. /\ pc = "set" /\ index < batch
      /\ held' = held \cup {d}
      /\ chargingSet' = IF added THEN chargingSet \cup {d} ELSE chargingSet
      /\ UNCHANGED <<releasing, relDrone, relStep, seen, stream, charged, completed, outerVars>>
  BY DEF Set
<1>2. PICK rate \in Rates :
        slot' = [slot EXCEPT ![d] = [charge |-> r.charge, rate |-> rate, factor |-> Unit]]
  BY DEF Set
<1>3. index + 1 \in seen + 1 .. Len(stream) /\ index + 1 \in DOMAIN stream
  BY <1>1 DEF Control, TypeOK
<1>4. d \in Drones /\ r.charge \in Nat /\ d \in landed /\ d \in Unread
  BY <1>3, Record DEF TypeOK, Records1, Unread
<1>5. d \notin Returned /\ releasing = {} /\ relDrone = None
  BY <1>1, <1>4 DEF OneBerth, Control
<1> DEFINE new == [charge |-> r.charge, rate |-> rate, factor |-> Unit]
<1>6. new \in Slots /\ new.rate > 0 /\ new.charge = r.charge
  BY <1>4, Constants DEF Slots
<1>7. /\ slot' \in [Drones -> Slots] /\ slot'[d] = new
      /\ \A e \in Drones \ {d} : slot'[e] = slot[e]
  <2> HIDE DEF new, d
  <2> QED
    BY <1>2, <1>4, <1>6 DEF TypeOK, new
<1>8. Charging' = Charging \cup {d}
  <2> HIDE DEF new, d
  <2> QED
    BY <1>1, <1>4, <1>6, <1>7 DEF Charging, TypeOK
<1>9. Returned' = Returned /\ Unread' = Unread
  BY <1>1 DEF Returned, Unread, outerVars
<1>10. Ghosts' \subseteq Ghosts
  BY <1>1, <1>8 DEF Ghosts
<1>11. held' \subseteq Drones /\ chargingSet' \subseteq Drones
  BY <1>1, <1>4 DEF TypeOK
<1>12. Entries'
  <2> HIDE DEF new, d
  <2> QED
    BY <1>1, <1>4, <1>5, <1>6, <1>7 DEF Entries, TypeOK
<1>13. Reached' /\ Records1' /\ Announced'
  BY <1>1, <1>8, <1>9 DEF Reached, Records1, Announced, outerVars
<1>14. OneBerth' /\ SetFollowsMap' /\ GhostsAreReturned'
  <2> HIDE DEF d
  <2>1. landed' = landed
    BY <1>1 DEF outerVars
  <2>2. OneBerth'
    BY <1>1, <1>4, <1>5, <1>8, <1>9, <2>1 DEF OneBerth
  <2>3. SetFollowsMap'
    BY <1>1, <1>4, <1>5, <1>8, <1>9 DEF SetFollowsMap
  <2>4. GhostsAreReturned'
    BY <1>9, <1>10 DEF GhostsAreReturned
  <2> QED
    BY <2>2, <2>3, <2>4
<1>15. ASSUME NEW i \in seen + 1 .. Len(stream), stream[i].drone \in Charging'
       PROVE  slot'[stream[i].drone].charge + 0 <= stream[i].charge + Allowance
  <2>1. i \in DOMAIN stream /\ stream[i].charge \in Nat /\ stream[i].drone \in Drones
    BY Record DEF TypeOK
  <2>2. Allowance \in Nat
    BY ErrorBounds DEF TypeOK
  <2>3. CASE stream[i].drone = d
    <3>1. i = index + 1
      BY <1>3, <2>1, <2>3 DEF Records1
    <3>2. slot'[stream[i].drone].charge = stream[i].charge
      BY <1>6, <1>7, <2>3, <3>1
    <3> QED
      BY <2>1, <2>2, <3>2
  <2>4. CASE stream[i].drone # d
    <3>1. stream[i].drone \in Charging
      BY <1>8, <1>15, <2>4, Zenon
    <3>2. slot'[stream[i].drone] = slot[stream[i].drone]
      BY <1>7, <2>1, <2>4
    <3>3. slot[stream[i].drone].charge + 0 <= stream[i].charge + Allowance
      BY <1>1, <3>1 DEF Slack
    <3> QED
      BY <3>2, <3>3
  <2> QED
    BY <2>3, <2>4
<1> QED
  BY <1>1, <1>4, <1>5, <1>7, <1>8, <1>9, <1>11, <1>12, <1>13, <1>14, <1>15

LEMMA SetChargeInv ==
    ASSUME IInv, SetChargeData
    PROVE  IInv'
<1> USE DEF IInv
<1>1. /\ pc = "set" /\ pc' = "set" /\ index < batch /\ index' = index + 1 /\ Set(TRUE)
      /\ UNCHANGED <<batch, errors, releasing, relDrone, relStep, seen, stream, charged,
                     completed, outerVars>>
  BY DEF SetChargeData, Set
<1> DEFINE d == stream[index + 1].drone
<1>2. /\ Charging' = Charging \cup {d} /\ d \in chargingSet' /\ chargingSet \subseteq chargingSet'
      /\ Returned' = Returned
  BY <1>1, SetEffect
<1>3. /\ Entries' /\ Reached' /\ Records1' /\ OneBerth' /\ SetFollowsMap'
      /\ GhostsAreReturned' /\ Announced'
  BY <1>1, SetEffect
<1>4. index \in Nat /\ batch \in Nat /\ seen \in Nat /\ Len(stream) \in Nat
      /\ seen <= index /\ batch <= Len(stream)
  BY <1>1 DEF TypeOK, Control
<1>5. TypeOK'
  <2>1. held' \subseteq Drones /\ slot' \in [Drones -> Slots] /\ chargingSet' \subseteq Drones
        /\ releasing = {}
    BY <1>1, SetEffect
  <2> QED
    BY <1>1, <1>4, <2>1 DEF TypeOK, outerVars
<1>6. Control'
  <2>1. relDrone = None /\ releasing = {}
    BY <1>1, SetEffect
  <2> QED
    BY <1>1, <1>4, <2>1 DEF Control
<1>7. Progress'
  <2>1. ASSUME NEW i \in seen + 1 .. index + 1
        PROVE  stream[i].drone \in Charging' \cap chargingSet'
    <3>1. CASE i = index + 1
      BY <1>2, <3>1
    <3>2. CASE i # index + 1
      <4>1. i \in seen + 1 .. index
        BY <1>4, <3>2
      <4> QED
        BY <1>1, <1>2, <4>1 DEF Progress
    <3> QED
      BY <3>1, <3>2
  <2>2. ASSUME NEW i \in batch + 1 .. Len(stream)
        PROVE  stream[i].drone \notin Charging'
    <3>1. stream[i].drone \notin Charging
      BY <1>1 DEF Progress
    <3>2. i \in DOMAIN stream /\ index + 1 \in DOMAIN stream /\ i # index + 1
      BY <1>1, <1>4 DEF TypeOK
    <3>3. stream[i].drone # d
      BY <3>2 DEF Records1
    <3> QED
      BY <1>2, <3>1, <3>3
  <2> QED
    BY <1>1, <2>1, <2>2 DEF Progress
<1>8. Slack'
  <2>1. \A i \in seen + 1 .. Len(stream) : stream[i].drone \in Charging' =>
                slot'[stream[i].drone].charge + 0 <= stream[i].charge + Allowance
    BY <1>1, SetEffect
  <2> QED
    BY <1>1, <2>1 DEF Slack, Allowance
<1> QED
  BY <1>3, <1>5, <1>6, <1>7, <1>8

LEMMA SetDoneInv ==
    ASSUME IInv, SetDone
    PROVE  IInv'
<1> USE DEF IInv
<1>1. /\ pc = "set" /\ pc' = "trim" /\ index = batch
      /\ seen' = batch /\ batch' = 0 /\ index' = 0
      /\ UNCHANGED <<held, slot, releasing, relDrone, relStep, stream, chargingSet, charged,
                     completed, reused, landed, picked, faultQueue, faults, errors>>
  BY DEF SetDone, baseVars, redisVars, outerVars
<1>2. index \in Nat /\ batch \in Nat /\ seen \in Nat /\ Len(stream) \in Nat
      /\ seen <= batch /\ batch <= Len(stream)
  BY <1>1 DEF TypeOK, Control
<1>3. Charging' = Charging /\ Returned' = Returned /\ Ghosts' = Ghosts
  BY <1>1 DEF Charging, Returned, Ghosts
<1>4. /\ \A i \in seen + 1 .. batch : stream[i].drone \in Charging \cap chargingSet
      /\ \A i \in batch + 1 .. Len(stream) : stream[i].drone \notin Charging
  BY <1>1 DEF Progress
<1>5. /\ Unread' \subseteq Unread
      /\ Unread \subseteq Unread' \cup (Charging \cap chargingSet)
  <2>1. Unread' = {stream[i].drone : i \in batch + 1 .. Len(stream)}
    BY <1>1 DEF Unread
  <2>2. Unread = {stream[i].drone : i \in seen + 1 .. Len(stream)}
    BY DEF Unread
  <2>3. seen + 1 .. Len(stream) = (seen + 1 .. batch) \cup (batch + 1 .. Len(stream))
    BY <1>2
  <2> QED
    BY <1>4, <2>1, <2>2, <2>3
<1>6. TypeOK'
  BY <1>1, <1>2 DEF TypeOK
<1>7. Control' /\ Entries' /\ Reached' /\ Records1'
  BY <1>1, <1>3 DEF Control, Entries, Reached, Records1
<1>8. Progress'
  BY <1>1, <1>3, <1>4 DEF Progress
<1>9. Slack'
  <2>1. ASSUME NEW i \in batch + 1 .. Len(stream)
        PROVE  stream[i].drone \notin Charging
    BY <1>4
  <2> QED
    BY <1>1, <1>3, <2>1 DEF Slack
<1>10. OneBerth'
  BY <1>1, <1>3, <1>5 DEF OneBerth
<1>11. SetFollowsMap'
  BY <1>1, <1>3, <1>5 DEF SetFollowsMap
<1>12. GhostsAreReturned' /\ Announced'
  BY <1>1, <1>3 DEF GhostsAreReturned, Announced
<1> QED
  BY <1>6, <1>7, <1>8, <1>9, <1>10, <1>11, <1>12

(* Trimming moves the records, but leaves the unread ones.                 *)
LEMMA TrimInv ==
    ASSUME IInv, TrimStream
    PROVE  IInv'
<1> USE DEF IInv
<1>1. /\ pc = "trim" /\ pc' = "idle"
      /\ stream' = IF seen = 0 THEN stream ELSE SubSeq(stream, seen, Len(stream))
      /\ seen' = IF seen = 0 THEN 0 ELSE 1
      /\ UNCHANGED <<held, slot, releasing, relDrone, relStep, batch, index, chargingSet,
                     charged, completed, reused, landed, picked, faultQueue, faults, errors>>
  BY DEF TrimStream, baseVars, outerVars
<1> DEFINE n == Len(stream)
           off == IF seen = 0 THEN 0 ELSE seen - 1
<1>2. n \in Nat /\ seen \in 0 .. n /\ off \in Nat /\ seen = seen' + off /\ off <= n
  BY <1>1 DEF TypeOK
<1>3. /\ stream' \in Seq(Records) /\ Len(stream') = n - off
      /\ \A i \in 1 .. n - off : stream'[i] = stream[i + off]
  <2>1. CASE seen = 0
    BY <1>1, <1>2, <2>1 DEF TypeOK
  <2>2. CASE seen # 0
    <3>1. stream' = SubSeq(stream, seen, n) /\ off = seen - 1
      BY <1>1, <2>2
    <3>2. \A i \in seen .. n : stream[i] \in Records
      BY <1>2, <2>2 DEF TypeOK
    <3>3. /\ SubSeq(stream, seen, n) \in Seq(Records)
          /\ Len(SubSeq(stream, seen, n)) = n - seen + 1
          /\ \A i \in 1 .. n - seen + 1 : SubSeq(stream, seen, n)[i] = stream[seen + i - 1]
      <4>1. seen \in 1 .. n
        BY <1>2, <2>2
      <4> HIDE DEF IInv
      <4> QED
        BY <3>2, <4>1, SubSeqProperties
    <3>4. n - off = n - seen + 1 /\ \A i \in 1 .. n - off : seen + i - 1 = i + off
      BY <1>2, <3>1
    <3> QED
      BY <3>1, <3>3, <3>4
  <2> QED
    BY <2>1, <2>2
<1>4. Charging' = Charging /\ Returned' = Returned /\ Ghosts' = Ghosts
  BY <1>1 DEF Charging, Returned, Ghosts
<1>5. /\ \A i \in seen' + 1 .. n - off : i + off \in seen + 1 .. n
      /\ \A i \in seen + 1 .. n : i - off \in seen' + 1 .. n - off /\ i - off + off = i
      /\ \A i \in seen' + 1 .. n - off : i \in 1 .. n - off
      /\ \A i \in 1 .. n - off : i + off \in 1 .. n
  BY <1>1, <1>2
<1>6. Unread' = Unread
  <2>1. Unread' = {stream'[i].drone : i \in seen' + 1 .. n - off}
    BY <1>3 DEF Unread
  <2>2. Unread = {stream[i].drone : i \in seen + 1 .. n}
    BY DEF Unread
  <2> HIDE DEF n, off
  <2>3. ASSUME NEW i \in seen' + 1 .. n - off
        PROVE  stream'[i].drone \in Unread
    BY <1>3, <1>5, <2>2
  <2>4. ASSUME NEW i \in seen + 1 .. n
        PROVE  stream[i].drone \in Unread'
    <3>1. i - off \in seen' + 1 .. n - off /\ i - off + off = i /\ i - off \in 1 .. n - off
      BY <1>5
    <3>2. stream'[i - off] = stream[i]
      BY <1>3, <3>1
    <3> QED
      BY <2>1, <3>1, <3>2
  <2> QED
    BY <2>1, <2>2, <2>3, <2>4
<1>7. TypeOK'
  <2>1. seen' \in 0 .. Len(stream')
    BY <1>1, <1>2, <1>3
  <2> QED
    BY <1>1, <1>3, <2>1 DEF TypeOK
<1>8. Control' /\ Entries' /\ Reached'
  BY <1>1, <1>4 DEF Control, Entries, Reached
<1>9. Records1'
  <2>1. DOMAIN stream' = 1 .. n - off /\ DOMAIN stream = 1 .. n
    BY <1>3 DEF TypeOK
  <2> HIDE DEF n, off
  <2>2. ASSUME NEW i \in 1 .. n - off
        PROVE  stream'[i].drone \in landed'
    BY <1>1, <1>3, <1>5, <2>1 DEF Records1
  <2>3. ASSUME NEW i \in 1 .. n - off, NEW j \in 1 .. n - off,
               stream'[i].drone = stream'[j].drone
        PROVE  i = j
    <3>1. stream[i + off].drone = stream[j + off].drone
      BY <1>3, <2>3
    <3>2. i + off = j + off
      BY <1>5, <2>1, <3>1 DEF Records1
    <3> QED
      BY <1>2, <3>2
  <2> QED
    BY <2>1, <2>2, <2>3 DEF Records1
<1>10. Progress'
  BY <1>1 DEF Progress
<1>11. Slack'
  <2>1. ASSUME NEW i \in seen' + 1 .. Len(stream')
        PROVE  stream'[i].drone \notin Charging'
    <3>1. stream'[i] = stream[i + off] /\ i + off \in seen + 1 .. n
      BY <1>3, <1>5
    <3> QED
      BY <1>1, <1>4, <3>1 DEF Progress
  <2> QED
    BY <2>1 DEF Slack
<1>12. OneBerth' /\ SetFollowsMap' /\ GhostsAreReturned' /\ Announced'
  BY <1>1, <1>4, <1>6 DEF OneBerth, SetFollowsMap, GhostsAreReturned, Announced
<1> QED
  BY <1>7, <1>8, <1>9, <1>10, <1>11, <1>12

LEMMA ReadErrorInv ==
    ASSUME IInv, ReadError
    PROVE  IInv'
<1> USE DEF IInv
<1>1. /\ errors < MaxErrors /\ errors' = errors + 1
      /\ pc' = "idle" /\ batch' = 0 /\ index' = 0
  BY DEF ReadError
<1>2. errors' \in 0 .. MaxErrors /\ Allowance' = Allowance + TopGain
      /\ Allowance \in Nat /\ TopGain \in Nat
  BY <1>1, ErrorBounds, Constants DEF TypeOK
<1>3. Progress'
  BY <1>1 DEF Progress
<1>4. SUFFICES
        /\ UNCHANGED <<releasing, relDrone, relStep, seen, stream, charged, completed, outerVars>>
        /\ held' \subseteq Drones /\ held \subseteq held' /\ slot' \in [Drones -> Slots]
        /\ chargingSet' \subseteq Drones
        /\ Returned' = Returned /\ relDrone = None /\ releasing = {}
        /\ Entries' /\ Reached' /\ Records1'
        /\ OneBerth' /\ SetFollowsMap' /\ GhostsAreReturned' /\ Announced'
        /\ \A i \in seen + 1 .. Len(stream) : stream[i].drone \in Charging' =>
             slot'[stream[i].drone].charge + 0 <= stream[i].charge + Allowance
  <2>1. TypeOK'
    BY <1>1, <1>2, <1>4 DEF TypeOK, outerVars
  <2>2. Control'
    BY <1>1, <1>4 DEF Control, TypeOK
  <2>3. ASSUME NEW i \in seen + 1 .. Len(stream), stream[i].drone \in Charging'
        PROVE  slot'[stream[i].drone].charge + TopGain <= stream[i].charge + (Allowance + TopGain)
    <3> DEFINE a == slot'[stream[i].drone].charge
               c == stream[i].charge
    <3>1. stream[i].drone \in Drones /\ c \in Nat
      BY Record DEF TypeOK
    <3>2. a \in Nat
      BY <1>4, <3>1 DEF Slots
    <3>3. a + 0 <= c + Allowance
      BY <1>4, <2>3
    <3> HIDE DEF a, c
    <3>4. a + TopGain <= c + (Allowance + TopGain)
      BY <1>2, <3>1, <3>2, <3>3
    <3> QED
      BY <3>4 DEF a, c
  <2>4. Slack'
    BY <1>1, <1>2, <1>4, <2>3 DEF Slack
  <2> QED
    BY <1>3, <1>4, <2>1, <2>2, <2>4
<1>5. CASE \E added \in BOOLEAN : Set(added)
  <2>1. PICK added \in BOOLEAN : Set(added)
    BY <1>5
  <2>2. UNCHANGED <<releasing, relDrone, relStep, seen, stream, charged, completed, outerVars>>
    BY <2>1 DEF Set
  <2> QED
    BY <2>1, <2>2, SetEffect
<1>6. CASE pc \in {"read", "trim"} /\ UNCHANGED <<baseVars, seen, redisVars, outerVars>>
  <2>1. /\ UNCHANGED <<held, slot, releasing, relDrone, relStep, stream, seen, chargingSet,
                       charged, completed, reused, landed, picked, faultQueue, faults>>
        /\ pc \notin {"release", "dead", "idle", "charge"}
    BY <1>6 DEF baseVars, redisVars, outerVars
  <2>2. Charging' = Charging /\ Ghosts' = Ghosts /\ Unread' = Unread /\ Returned' = Returned
    BY <2>1 DEF Charging, Ghosts, Unread, Returned
  <2>3. relDrone = None /\ releasing = {}
    BY <2>1 DEF Control
  <2>4. Entries' /\ Reached' /\ Records1' /\ Announced'
    BY <2>1, <2>2 DEF Entries, Reached, Records1, Announced
  <2>5. OneBerth' /\ SetFollowsMap' /\ GhostsAreReturned'
    BY <2>1, <2>2 DEF OneBerth, SetFollowsMap, GhostsAreReturned
  <2>6. \A i \in seen + 1 .. Len(stream) : stream[i].drone \in Charging' =>
             slot'[stream[i].drone].charge + 0 <= stream[i].charge + Allowance
    BY <2>1, <2>2 DEF Slack
  <2>7. held' \subseteq Drones /\ slot' \in [Drones -> Slots] /\ chargingSet' \subseteq Drones
    BY <2>1 DEF TypeOK
  <2> QED
    BY <2>1, <2>2, <2>3, <2>4, <2>5, <2>6, <2>7 DEF outerVars
<1> QED
  BY <1>5, <1>6 DEF ReadError

-----------------------------------------------------------------------------
(* The invariants                                                          *)

LEMMA NextInv == IInv /\ [Next]_vars => IInv'
<1> SUFFICES ASSUME IInv, [Next]_vars PROVE IInv'
  OBVIOUS
<1>1. CASE UNCHANGED vars
  <2>1. UNCHANGED <<pc, held, slot, releasing, relDrone, relStep, stream, seen, batch, index,
          chargingSet, charged, reused, completed, landed, picked, faultQueue, faults, errors>>
    BY <1>1 DEF vars
  <2>2. Returned' = Returned /\ Charging' = Charging
    BY <2>1 DEF Returned, Charging
  <2>3. TypeOK' /\ Reached' /\ Announced'
    BY <2>1, <2>2 DEF IInv, TypeOK, Reached, Announced
  <2> QED
    BY <2>1, <2>2, <2>3, Aside DEF IInv, baseVars, readVars
<1>2. CASE Base
  BY <1>2, ReceiveInv, ChargeInv, ReleaseAddInv, ReleaseRemoveInv, ReleaseLogInv, ControlInv,
     SetChargeInv, SetDoneInv, TrimInv, ReadErrorInv DEF Base
<1>3. CASE Outside
  BY <1>3, LandInv, RecycleInv, FaultInv DEF Outside
<1> QED
  BY <1>1, <1>2, <1>3 DEF Next

(* The inductive invariant holds (ChargeBase.cpp:25-214).                  *)
THEOREM Invariant == Spec => []IInv
<1>1. Init => IInv
  BY InitInv
<1>2. IInv /\ [Next]_vars => IInv'
  BY NextInv
<1> QED
  BY <1>1, <1>2, PTL DEF Spec

(* The types of the ChargeBase and of what it shares (ChargeBase.cpp).     *)
THEOREM TypeCorrect == Spec => []TypeOK
<1>1. IInv => TypeOK
  BY DEF IInv
<1> QED
  BY <1>1, Invariant, PTL

(* No drone is lost or in two stages at once, for any number of drones and *)
(* of errors while the stream is read (ChargeBase.cpp:74-118, 202-214).    *)
THEOREM OneBerthHolds == Spec => []OneBerth
<1>1. IInv => OneBerth
  BY DEF IInv
<1> QED
  BY <1>1, Invariant, PTL

(* The Redis set of charging drones lags behind the map only where the     *)
(* record is read again (ChargeBase.cpp:134, 205-208).                     *)
THEOREM SetFollowsMapHolds == Spec => []SetFollowsMap
<1>1. IInv => SetFollowsMap
  BY DEF IInv
<1> QED
  BY <1>1, Invariant, PTL

(* A malfunction that comes too late leaves an entry for a returned drone  *)
(* only (ChargeBase.cpp:54).                                               *)
THEOREM GhostsAreReturnedHolds == Spec => []GhostsAreReturned
<1>1. IInv => GhostsAreReturned
  BY DEF IInv
<1> QED
  BY <1>1, Invariant, PTL

-----------------------------------------------------------------------------
(* The refinement                                                          *)

LEMMA RefineInit == Init => Service!Init
<1> SUFFICES ASSUME Init PROVE Service!Init
  OBVIOUS
<1>1. Stage = [d \in Drones |-> "away"]
  BY DEF Init, Stage, Returned
<1>2. {d \in Drones : completed[d] = 1} = {}
  BY DEF Init
<1> QED
  BY <1>1, <1>2 DEF Service!Init

(* What the stages depend on.                                              *)
LEMMA SameStage ==
    ASSUME UNCHANGED <<reused, charged, landed>>
    PROVE  Stage' = Stage
BY DEF Stage, Returned

LEMMA RefineLand ==
    ASSUME IInv, NEW d \in Drones, Land(d)
    PROVE  Service!Land(d)
<1>1. /\ d \notin landed /\ landed' = landed \cup {d}
      /\ UNCHANGED <<charged, completed, reused>>
  BY DEF Land
<1>2. d \notin Returned /\ Returned' = Returned
  BY <1>1 DEF IInv, OneBerth, Returned
<1>3. Stage[d] = "away" /\ d \notin reused /\ d \notin charged
  BY <1>1, <1>2 DEF Stage, Returned
<1>4. Stage' = [e \in Drones |-> IF e \in {d} THEN "base" ELSE Stage[e]]
  <2>1. \A e \in Drones : Stage'[e] = IF e \in {d} THEN "base" ELSE Stage[e]
    BY <1>1, <1>2, <1>3 DEF Stage
  <2> QED
    BY <2>1 DEF Stage
<1>5. {e \in Drones : completed[e] = 1}' = {e \in Drones : completed[e] = 1}
  BY <1>1
<1> QED
  BY <1>3, <1>4, <1>5 DEF Service!Land, Service!Move

LEMMA RefineReturn ==
    ASSUME IInv, ReleaseAdd
    PROVE  \E d \in Drones : Service!Return(d)
<1> DEFINE d == relDrone'
<1>1. d \in Drones \ Returned /\ d \in landed
  BY ReleaseAddInv
<1>2. charged' = charged \cup {d} /\ UNCHANGED <<completed, reused, landed>>
  BY DEF ReleaseAdd, outerVars
<1>3. Stage[d] = "base"
  BY <1>1 DEF Stage, Returned
<1>4. Stage' = [e \in Drones |-> IF e \in {d} THEN "ready" ELSE Stage[e]]
  <2> HIDE DEF d
  <2>1. \A e \in Drones : Stage'[e] = IF e \in {d} THEN "ready" ELSE Stage[e]
    BY <1>1, <1>2 DEF Stage, Returned
  <2> QED
    BY <2>1 DEF Stage
<1>5. {e \in Drones : completed[e] = 1}' = {e \in Drones : completed[e] = 1}
  BY <1>2
<1>6. Service!Return(d)
  <2> HIDE DEF d
  <2> QED
    BY <1>3, <1>4, <1>5 DEF Service!Return, Service!Move
<1> QED
  BY <1>1, <1>6

LEMMA RefineReuse ==
    ASSUME IInv, RecycleDrones
    PROVE  \E S \in SUBSET Drones : Service!Reuse(S)
<1>1. PICK S \in SUBSET charged : charged' = charged \ S /\ reused' = reused \cup S
  BY DEF RecycleDrones
<1>2. UNCHANGED <<completed, landed>>
  BY DEF RecycleDrones
<1>3. S \subseteq Drones /\ S \cap reused = {} /\ Returned' = Returned
  BY <1>1 DEF IInv, TypeOK, Announced, Returned
<1>4. ASSUME NEW d \in S PROVE Stage[d] = "ready"
  <2>1. d \in Drones /\ d \in charged /\ d \notin reused /\ d \in Returned
    BY <1>3 DEF Returned
  <2> QED
    BY <2>1 DEF Stage
<1>5. Stage' = [e \in Drones |-> IF e \in S THEN "reused" ELSE Stage[e]]
  <2>1. ASSUME NEW e \in Drones
        PROVE  Stage'[e] = IF e \in S THEN "reused" ELSE Stage[e]
    <3>1. Stage'[e] = CASE e \in reused' -> "reused"
                        [] e \in charged' \ reused' -> "ready"
                        [] e \in landed' \ Returned' -> "base"
                        [] OTHER -> "away"
      BY DEF Stage
    <3>2. CASE e \in S
      <4>1. e \in reused' /\ e \in Returned'
        BY <1>1, <3>2 DEF Returned
      <4> QED
        BY <3>1, <3>2, <4>1
    <3>3. CASE e \notin S
      <4>1. /\ (e \in reused') <=> (e \in reused)
            /\ (e \in charged') <=> (e \in charged)
        BY <1>1, <3>3
      <4> QED
        BY <1>2, <1>3, <3>1, <3>3, <4>1 DEF Stage
    <3> QED
      BY <3>2, <3>3
  <2> QED
    BY <2>1 DEF Stage
<1>6. {e \in Drones : completed[e] = 1}' = {e \in Drones : completed[e] = 1}
  BY <1>2
<1> QED
  BY <1>3, <1>4, <1>5, <1>6 DEF Service!Reuse, Service!Move

LEMMA RefineAnnounce ==
    ASSUME IInv, ReleaseLog
    PROVE  \E d \in Drones : Service!Announce(d)
<1> DEFINE d == relDrone
<1>1. /\ d \in Drones \cap Returned
      /\ completed[d] = 0 /\ completed' = [completed EXCEPT ![d] = 1]
  BY ReleaseLogInv
<1>2. Stage' = Stage
  <2>1. UNCHANGED <<reused, charged, landed>>
    BY DEF ReleaseLog, outerVars
  <2> QED
    BY <2>1, SameStage
<1>3. Stage[d] \in {"ready", "reused"}
  BY <1>1 DEF Stage, Returned
<1>4. {e \in Drones : completed[e] = 1}' = {e \in Drones : completed[e] = 1} \cup {d}
  <2>1. completed \in [Drones -> Nat]
    BY DEF IInv, TypeOK
  <2> HIDE DEF d
  <2> QED
    BY <1>1, <2>1
<1> QED
  BY <1>1, <1>2, <1>3, <1>4 DEF Service!Announce

(* The other steps touch neither.                                          *)
LEMMA RefineStutter ==
    ASSUME UNCHANGED <<reused, charged, landed, completed>>
    PROVE  UNCHANGED Service!vars
<1>1. Stage' = Stage
  BY SameStage
<1> QED
  BY <1>1 DEF Service!vars

LEMMA RefineNext == IInv /\ [Next]_vars => [Service!Next]_(Service!vars)
<1> SUFFICES ASSUME IInv, [Next]_vars PROVE Service!Next \/ UNCHANGED Service!vars
  OBVIOUS
<1>1. CASE \E d \in Drones : Land(d)
  BY <1>1, RefineLand DEF Service!Next
<1>2. CASE ReleaseAdd
  BY <1>2, RefineReturn DEF Service!Next
<1>3. CASE RecycleDrones
  BY <1>3, RefineReuse DEF Service!Next
<1>4. CASE ReleaseLog
  BY <1>4, RefineAnnounce DEF Service!Next
<1>5. CASE \/ ReceiveFaults \/ ChargeDrone \/ ReleaseRemove \/ ReleaseError \/ EndCharge
           \/ ReadStream \/ SetDone \/ TrimStream \/ PickFault \/ SendFault
           \/ UNCHANGED vars
  <2>1. UNCHANGED <<reused, charged, landed, completed>>
    BY <1>5 DEF ReceiveFaults, ChargeDrone, ReleaseRemove, ReleaseError, EndCharge, ReadStream,
        SetDone, TrimStream, PickFault, SendFault, vars, redisVars, outerVars
  <2> QED
    BY <2>1, RefineStutter
<1>6. CASE SetChargeData \/ ReadError
  <2>1. UNCHANGED <<reused, charged, landed, completed>>
    BY <1>6 DEF SetChargeData, ReadError, Set, redisVars, outerVars
  <2> QED
    BY <2>1, RefineStutter
<1> QED
  BY <1>1, <1>2, <1>3, <1>4, <1>5, <1>6 DEF Next, Base, Outside

(* The ChargeBase, with its errors and late malfunctions, is a charging    *)
(* service: each landed drone returns at most once and is announced at     *)
(* most once (ChargeBase.cpp:25-214).                                      *)
THEOREM ImplementsServiceHolds == Spec => ImplementsService
<1>1. Init => Service!Init
  BY RefineInit
<1>2. IInv /\ [Next]_vars => [Service!Next]_(Service!vars)
  BY RefineNext
<1> QED
  BY <1>1, <1>2, Invariant, PTL DEF Spec, ImplementsService, Service!Spec
=============================================================================
