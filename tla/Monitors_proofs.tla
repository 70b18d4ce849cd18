--------------------------- MODULE Monitors_proofs ---------------------------
(***************************************************************************)
(* Theorems about the monitors, for every table, every gap and every       *)
(* interleaving of their queries with the INSERTs of the writer: what they *)
(* log is true, and what they pass over is only what is said.              *)
(***************************************************************************)
EXTENDS Monitors, TLAPS, WellFoundedInduction

-----------------------------------------------------------------------------
(* Least and greatest elements, which Latest and EarliestTick choose       *)

Less == {ss \in Nat \X Nat : ss[1] < ss[2]}

LEMMA LessWellFounded == IsWellFoundedOn(Less, Nat)
BY NatLessThanWellFounded DEF OpToRel, Less

(* A set of naturals that is not empty has a least element.                *)
LEMMA LeastExists ==
    ASSUME NEW S \in SUBSET Nat, S # {}
    PROVE  \E m \in S : \A n \in S : m <= n
<1>1. PICK m \in S : \A n \in S : ~ (<<n, m>> \in Less)
  BY LessWellFounded, WFMin
<1>2. \A n \in S : ~ (n < m)
  BY <1>1 DEF Less
<1> QED
  BY <1>2

(* If it is bounded it has a greatest one: its least upper bound.          *)
LEMMA GreatestExists ==
    ASSUME NEW k \in Nat, NEW S \in SUBSET (0 .. k), S # {}
    PROVE  \E m \in S : \A n \in S : n <= m
<1> DEFINE B == {b \in Nat : \A n \in S : n <= b}
<1>1. k \in B
  OBVIOUS
<1>2. PICK b \in B : \A c \in B : b <= c
  BY <1>1, LeastExists
<1>3. b \in S
  <2> SUFFICES ASSUME b \notin S PROVE FALSE
    OBVIOUS
  <2>1. PICK s \in S : TRUE
    OBVIOUS
  <2>2. \A n \in S : n < b
    OBVIOUS
  <2>3. b - 1 \in B
    BY <2>1, <2>2
  <2> QED
    BY <1>2, <2>3
<1> QED
  BY <1>2, <1>3

(* What a query leaves in temp_time.                                       *)
LEMMA LatestIsGreatest ==
    ASSUME NEW S, NEW k \in Nat, temp \in 0 .. k, \A r \in S : r.stamp \in 0 .. k
    PROVE  /\ Latest(S) \in 0 .. k
           /\ temp <= Latest(S)
           /\ \A r \in S : r.stamp <= Latest(S)
<1> DEFINE stamps == {temp} \cup {r.stamp : r \in S}
<1>1. stamps \in SUBSET (0 .. k) /\ stamps # {}
  OBVIOUS
<1>2. \E s \in stamps : \A t \in stamps : t <= s
  BY <1>1, GreatestExists
<1>3. Latest(S) \in stamps /\ \A t \in stamps : t <= Latest(S)
  BY <1>2 DEF Latest
<1> QED
  BY <1>1, <1>3

(* The least tick of some rows.                                            *)
LEMMA EarliestIsLeast ==
    ASSUME NEW S, S # {}, \A r \in S : r.tick \in Nat
    PROVE  /\ EarliestTick(S) \in Nat
           /\ \E r \in S : r.tick = EarliestTick(S)
           /\ \A r \in S : EarliestTick(S) <= r.tick
<1> DEFINE ticks == {r.tick : r \in S}
<1>1. ticks \in SUBSET Nat /\ ticks # {}
  OBVIOUS
<1>2. \E t \in ticks : \A u \in ticks : t <= u
  BY <1>1, LeastExists
<1>3. \E t \in ticks : \A r \in S : t <= r.tick
  BY <1>2
<1>4. EarliestTick(S) \in ticks /\ \A r \in S : EarliestTick(S) <= r.tick
  BY <1>3 DEF EarliestTick
<1> QED
  BY <1>1, <1>4

-----------------------------------------------------------------------------
(* The table                                                               *)

(* Rows stay rows while the writer inserts them.                           *)
TableOK ==
    /\ self \in Classes
    /\ table \subseteq Row
    /\ commits \in Nat

LEMMA TableInit == Init => TableOK
<1> SUFFICES ASSUME Init PROVE TableOK
  OBVIOUS
<1>1. self \in Classes /\ table \in Tables[self] /\ commits = 0
  BY DEF Init
<1>2. table \subseteq [drone : Drones, tick : Nat, status : Statuses[self], stamp : {0}]
  BY <1>1, TablesAssumption
<1>3. Statuses[self] \subseteq UNION {Statuses[c] : c \in Classes}
  BY <1>1
<1>4. \A r \in table : r \in Row
  BY <1>2, <1>3 DEF Row
<1> QED
  BY <1>1, <1>4 DEF TableOK

LEMMA TableNext == TableOK /\ [Next]_vars => TableOK'
<1> SUFFICES ASSUME TableOK, [Next]_vars PROVE TableOK'
  OBVIOUS
<1>1. CASE Commit
  <2>1. PICK S \in SUBSET Pending :
          table' = (table \ S) \cup {[r EXCEPT !.stamp = commits + 1] : r \in S}
    BY <1>1 DEF Commit
  <2>2. commits' = commits + 1 /\ self' = self
    BY <1>1 DEF Commit
  <2>3. \A r \in S : [r EXCEPT !.stamp = commits + 1] \in Row
    BY DEF Pending, TableOK, Row
  <2> QED
    BY <2>1, <2>2, <2>3 DEF TableOK
<1>2. CASE Monitor \/ UNCHANGED vars
  <2>1. UNCHANGED world
    BY <1>2 DEF Monitor, world, vars, getChargingDrones, getChargedDrones,
       checkDroneRechargeTime, RechargeError, getNewDrones, getEndedDrones, ElaborateData,
       ElaborateFails, ChargeError, getWaveVerification, checkWaveCoverage, QueryError,
       AreaQuery, readAreaCoverageData, InsertUnverifiedTicks
  <2> QED
    BY <2>1 DEF TableOK, world
<1> QED
  BY <1>1, <1>2 DEF Next

(* Two rows that differ at most in their time stamp.                       *)
Same(r, q) == r.drone = q.drone /\ r.tick = q.tick /\ r.status = q.status

(* What TablesAssumption says of the rows of a drone.                      *)
OneEach ==
    \A r, q \in table : r.drone = q.drone =>
        /\ r.tick = q.tick => r = q
        /\ r.status \in Ended /\ q.status \in Ended => r = q
        /\ r.status = "CHARGING_COMPLETED" /\ q.status = "CHARGING_COMPLETED" => r = q
        /\ r.status = "CHARGING" /\ q.status = "CHARGING_COMPLETED" => r.tick < q.tick

RowsInv ==
    /\ TableOK
    /\ OneEach
    /\ \A r \in table : r.stamp <= commits

(* An INSERT gives some rows their stamp, and leaves the others alone.     *)
LEMMA CommitRows ==
    ASSUME TableOK, Commit
    PROVE  \E S \in SUBSET Pending :
             /\ \A r \in table : (IF r \in S THEN [r EXCEPT !.stamp = commits + 1] ELSE r) \in table'
             /\ \A r \in table' : \E q \in table :
                  /\ r = IF q \in S THEN [q EXCEPT !.stamp = commits + 1] ELSE q
                  /\ Same(r, q)
                  /\ r = q \/ (q.stamp = 0 /\ r.stamp = commits + 1)
<1>1. PICK S \in SUBSET Pending :
        table' = (table \ S) \cup {[r EXCEPT !.stamp = commits + 1] : r \in S}
  BY DEF Commit
<1>2. \A q \in S : /\ q \in table /\ q.stamp = 0
                   /\ Same([q EXCEPT !.stamp = commits + 1], q)
                   /\ [q EXCEPT !.stamp = commits + 1].stamp = commits + 1
  BY DEF Pending, TableOK, Row, Same
<1>3. ASSUME NEW r \in table'
      PROVE  \E q \in table :
               /\ r = IF q \in S THEN [q EXCEPT !.stamp = commits + 1] ELSE q
               /\ Same(r, q)
               /\ r = q \/ (q.stamp = 0 /\ r.stamp = commits + 1)
  <2>1. CASE r \in table \ S
    BY <2>1 DEF Same
  <2>2. CASE r \in {[q EXCEPT !.stamp = commits + 1] : q \in S}
    BY <1>2, <2>2
  <2> QED
    BY <1>1, <2>1, <2>2
<1>4. \A r \in table : (IF r \in S THEN [r EXCEPT !.stamp = commits + 1] ELSE r) \in table'
  BY <1>1
<1> QED
  BY <1>3, <1>4

(* Rows with a stamp do not change, and every row stays, with its stamp or *)
(* with a new one.                                                         *)
LEMMA RowsKept ==
    ASSUME RowsInv, Commit
    PROVE  /\ \A r \in table' : \E q \in table :
                Same(r, q) /\ (r = q \/ (q.stamp = 0 /\ r.stamp = commits + 1))
           /\ \A q \in table : \E r \in table' : Same(r, q) /\ (q.stamp # 0 => r = q)
           /\ \A r \in table' : r.stamp <= commits => r \in table
           /\ \A r \in table : r.stamp # 0 => r \in table'
<1>1. PICK S \in SUBSET Pending :
        /\ \A r \in table : (IF r \in S THEN [r EXCEPT !.stamp = commits + 1] ELSE r) \in table'
        /\ \A r \in table' : \E q \in table :
             /\ r = IF q \in S THEN [q EXCEPT !.stamp = commits + 1] ELSE q
             /\ Same(r, q)
             /\ r = q \/ (q.stamp = 0 /\ r.stamp = commits + 1)
  BY CommitRows DEF RowsInv
<1>2. \A q \in S : q.stamp = 0
  BY DEF Pending
<1>3. commits \in Nat /\ table \subseteq Row
  BY DEF RowsInv, TableOK
<1>4. ASSUME NEW q \in table
      PROVE  \E r \in table' : Same(r, q) /\ (q.stamp # 0 => r = q)
  <2>1. CASE q \in S
    BY <1>1, <1>2, <1>3, <2>1 DEF Same, Row
  <2>2. CASE q \notin S
    BY <1>1, <2>2 DEF Same
  <2> QED
    BY <2>1, <2>2
<1>5. \A r \in table' : r.stamp <= commits => r \in table
  BY <1>1, <1>3
<1>6. \A r \in table : r.stamp # 0 => r \in table'
  BY <1>4 DEF Same
<1>7. \A r \in table' : \E q \in table :
        Same(r, q) /\ (r = q \/ (q.stamp = 0 /\ r.stamp = commits + 1))
  BY <1>1
<1> QED
  BY <1>4, <1>5, <1>6, <1>7

LEMMA RowsInit == Init => RowsInv
<1> SUFFICES ASSUME Init PROVE RowsInv
  OBVIOUS
<1>1. self \in Classes /\ table \in Tables[self] /\ commits = 0
  BY DEF Init
<1>2. \A r \in table : r.stamp <= commits
  BY <1>1, TablesAssumption
<1>3. OneEach
  BY <1>1, TablesAssumption DEF OneEach
<1> QED
  BY <1>2, <1>3, TableInit DEF RowsInv

(* Every step but the writer's leaves the table alone.                     *)
LEMMA MonitorKeepsTable ==
    ASSUME Monitor \/ UNCHANGED vars
    PROVE  UNCHANGED <<self, table, commits>>
BY DEF Monitor, world, vars, getChargingDrones, getChargedDrones,
   checkDroneRechargeTime, RechargeError, getNewDrones, getEndedDrones, ElaborateData,
   ElaborateFails, ChargeError, getWaveVerification, checkWaveCoverage, QueryError,
   AreaQuery, readAreaCoverageData, InsertUnverifiedTicks

LEMMA RowsNext == RowsInv /\ [Next]_vars => RowsInv'
<1> SUFFICES ASSUME RowsInv, [Next]_vars PROVE RowsInv'
  OBVIOUS
<1>1. TableOK'
  BY TableNext DEF RowsInv
<1>2. CASE Commit
  <2>1. PICK S \in SUBSET Pending :
          \A r \in table' : \E q \in table :
            /\ r = IF q \in S THEN [q EXCEPT !.stamp = commits + 1] ELSE q
            /\ Same(r, q)
            /\ r = q \/ (q.stamp = 0 /\ r.stamp = commits + 1)
    BY <1>2, CommitRows DEF RowsInv
  <2>2. commits' = commits + 1 /\ commits \in Nat
    BY <1>2 DEF Commit, RowsInv, TableOK
  <2>3. ASSUME NEW r \in table', NEW q \in table', r.drone = q.drone
        PROVE  /\ r.tick = q.tick => r = q
               /\ r.status \in Ended /\ q.status \in Ended => r = q
               /\ r.status = "CHARGING_COMPLETED" /\ q.status = "CHARGING_COMPLETED" => r = q
               /\ r.status = "CHARGING" /\ q.status = "CHARGING_COMPLETED" => r.tick < q.tick
    <3>1. PICK a \in table : /\ r = IF a \in S THEN [a EXCEPT !.stamp = commits + 1] ELSE a
                             /\ Same(r, a)
      BY <2>1
    <3>2. PICK b \in table : /\ q = IF b \in S THEN [b EXCEPT !.stamp = commits + 1] ELSE b
                             /\ Same(q, b)
      BY <2>1
    <3>3. a = b => r = q
      BY <3>1, <3>2
    <3>4. /\ a.drone = b.drone
          /\ a.tick = r.tick /\ b.tick = q.tick /\ a.status = r.status /\ b.status = q.status
      BY <2>3, <3>1, <3>2 DEF Same
    <3> QED
      BY <3>3, <3>4 DEF RowsInv, OneEach
  <2>4. \A r \in table' : r.stamp <= commits'
    <3>1. \A q \in table : q.stamp \in Nat /\ q.stamp <= commits
      BY DEF RowsInv, TableOK, Row
    <3> QED
      BY <2>1, <2>2, <3>1
  <2> QED
    BY <1>1, <2>3, <2>4 DEF RowsInv, OneEach
<1>3. CASE Monitor \/ UNCHANGED vars
  BY <1>1, <1>3, MonitorKeepsTable DEF RowsInv, OneEach
<1> QED
  BY <1>2, <1>3 DEF Next

-----------------------------------------------------------------------------
(* The AreaCoverageMonitor                                                 *)

(* The ticks that are logged for a checkpoint, exactly: those, up to the   *)
(* last visit, at which the visit before was Gap ticks ago or more, or     *)
(* there had been none.                                                    *)
AreaExact ==
    unverified = {t \in 0 .. visited - 1 : \A v \in visits : v <= t => t - v >= Gap}

AreaInv ==
    /\ TableOK
    /\ visits \subseteq Nat /\ visited \in visits \cup {None}
    /\ self = "area" /\ pc = "poll" => visited = None
    /\ AreaExact

LEMMA AreaInit == Init => AreaInv
<1> SUFFICES ASSUME Init PROVE AreaInv
  OBVIOUS
<1>1. visits = {} /\ visited = -1 /\ unverified = {}
  BY DEF Init, None
<1>2. 0 .. visited - 1 = {}
  BY <1>1
<1>3. AreaExact
  BY <1>1, <1>2 DEF AreaExact
<1> QED
  BY <1>1, <1>3, TableInit DEF AreaInv, Init, None

(* The next visit settles the ticks up to it, and no other.                *)
LEMMA VisitInv ==
    ASSUME AreaInv, readAreaCoverageData
    PROVE  AreaInv'
<1>1. PICK t \in visits :
        /\ t > visited /\ \A u \in visits : u > visited => t <= u
        /\ unverified' = unverified \cup
             (IF visited = None THEN 0 .. t - 1
              ELSE IF t - visited > Gap THEN visited + Gap .. t - 1
              ELSE {})
        /\ visited' = t
  BY DEF readAreaCoverageData
<1>2. /\ UNCHANGED <<self, table, commits, visits>> /\ pc' = "visit"
  BY DEF readAreaCoverageData, world
<1>3. /\ visits \subseteq Nat /\ t \in Nat /\ Gap \in Nat /\ Gap > 0
      /\ visited = -1 \/ visited \in visits
  BY MonitorsAssumption DEF AreaInv, None
<1>4. ASSUME NEW x \in Int
      PROVE  x \in unverified' <=>
               x \in 0 .. t - 1 /\ \A v \in visits : v <= x => x - v >= Gap
  <2>1. x \in unverified <=>
          x \in 0 .. visited - 1 /\ \A v \in visits : v <= x => x - v >= Gap
    BY DEF AreaInv, AreaExact
  <2>2. CASE visited = -1
    <3>1. \A v \in visits : t <= v
      BY <1>1, <1>3, <2>2
    <3>2. unverified' = unverified \cup 0 .. t - 1
      BY <1>1, <2>2 DEF None
    <3> QED
      BY <1>3, <2>1, <2>2, <3>1, <3>2
  <2>3. CASE visited \in visits
    <3>1. visited \in Nat /\ visited < t
      BY <1>1, <1>3, <2>3
    <3>2. \A v \in visits : v <= visited \/ t <= v
      BY <1>1, <1>3, <3>1
    <3>3. unverified' = unverified \cup
            (IF t - visited > Gap THEN visited + Gap .. t - 1 ELSE {})
      BY <1>1, <3>1 DEF None
    <3>4. CASE x < visited
      <4>1. x \in unverified' <=> x \in unverified
        BY <1>3, <3>1, <3>3, <3>4
      <4> QED
        BY <2>1, <3>1, <3>4, <4>1, <1>3
    <3>5. CASE x >= visited /\ x < t
      <4>1. (\A v \in visits : v <= x => x - v >= Gap) <=> x - visited >= Gap
        BY <1>3, <2>3, <3>1, <3>2, <3>5
      <4>2. x \notin unverified
        BY <2>1, <3>1, <3>5
      <4>3. x \in unverified' <=> x - visited >= Gap
        BY <1>3, <3>1, <3>3, <3>5, <4>2
      <4> QED
        BY <1>3, <3>1, <3>5, <4>1, <4>3
    <3>6. CASE x >= t
      BY <1>3, <2>1, <3>1, <3>3, <3>6
    <3> QED
      BY <1>3, <3>1, <3>4, <3>5, <3>6
  <2> QED
    BY <1>3, <2>2, <2>3
<1>5. \A x \in unverified' : x \in Int
  <2>1. \A x \in unverified : x \in Int
    <3>1. 0 .. visited - 1 \subseteq Int
      OBVIOUS
    <3> QED
      BY <3>1 DEF AreaInv, AreaExact
  <2>2. \A x \in 0 .. t - 1 : x \in Int
    OBVIOUS
  <2>3. \A x \in visited + Gap .. t - 1 : x \in Int
    OBVIOUS
  <2> QED
    BY <1>1, <2>1, <2>2, <2>3
<1>6. AreaExact'
  <2>1. \A x \in 0 .. t - 1 : x \in Int
    OBVIOUS
  <2>2. unverified' = {x \in 0 .. t - 1 : \A v \in visits : v <= x => x - v >= Gap}
    BY <1>4, <1>5, <2>1
  <2> QED
    BY <1>1, <1>2, <2>2 DEF AreaExact
<1>7. TableOK'
  BY <1>2 DEF AreaInv, TableOK
<1> QED
  BY <1>1, <1>2, <1>3, <1>6, <1>7 DEF AreaInv

LEMMA AreaNext == AreaInv /\ [Next]_vars => AreaInv'
<1> SUFFICES ASSUME AreaInv, [Next]_vars PROVE AreaInv'
  OBVIOUS
<1>1. TableOK'
  BY TableNext DEF AreaInv
<1>2. CASE readAreaCoverageData
  BY <1>2, VisitInv
<1>3. CASE AreaQuery
  <2>1. /\ visits' \in SUBSET WorkingIn(New) /\ self = "area"
        /\ pc = "poll" /\ pc' = "visit" /\ UNCHANGED <<visited, unverified>>
    BY <1>3 DEF AreaQuery
  <2>2. WorkingIn(New) \subseteq Nat
    BY DEF WorkingIn, New, AreaInv, TableOK, Row
  <2>3. visited = -1
    BY <2>1 DEF AreaInv, None
  <2>4. unverified = {}
    <3>1. 0 .. visited - 1 = {}
      BY <2>3
    <3> QED
      BY <3>1 DEF AreaInv, AreaExact
  <2>5. AreaExact'
    <3>1. (0 .. visited - 1)' = {}
      BY <2>1, <2>3
    <3> QED
      BY <2>1, <2>4, <3>1 DEF AreaExact
  <2> QED
    BY <1>1, <2>1, <2>2, <2>3, <2>5 DEF AreaInv, None
<1>4. CASE ~AreaQuery /\ ~readAreaCoverageData
  <2>1. UNCHANGED <<area, self>> /\ (self = "area" /\ pc' = "poll" => pc = "poll")
    BY <1>4 DEF Next, Commit, Monitor, monitor, vars, getChargingDrones, getChargedDrones,
       checkDroneRechargeTime, RechargeError, getNewDrones, getEndedDrones, ElaborateData,
       ElaborateFails, ChargeError, getWaveVerification, checkWaveCoverage, QueryError,
       InsertUnverifiedTicks, area, world, monitor
  <2> QED
    BY <1>1, <2>1 DEF AreaInv, AreaExact, area
<1> QED
  BY <1>2, <1>3, <1>4

(* For every set of visits and every gap, the ticks before the first visit *)
(* and those more than Gap ticks after the last one are logged, and none   *)
(* less than Gap ticks after it (AreaCoverageMonitor.cpp:81-111).          *)
THEOREM AreaBracketsHolds == Spec => []AreaBrackets
<1>1. Init => AreaInv
  BY AreaInit
<1>2. AreaInv /\ [Next]_vars => AreaInv'
  BY AreaNext
<1>3. ASSUME AreaInv PROVE AreaBrackets
  <2>1. unverified = {t \in 0 .. visited - 1 : \A v \in visits : v <= t => t - v >= Gap}
    BY <1>3 DEF AreaInv, AreaExact
  <2>2. \A t \in 0 .. visited - 1, v \in visits : t - v > Gap => t - v >= Gap
    BY <1>3, MonitorsAssumption DEF AreaInv
  <2> QED
    BY <2>1, <2>2 DEF AreaBrackets
<1> QED
  BY <1>1, <1>2, <1>3, PTL DEF Spec

-----------------------------------------------------------------------------
(* Types.  The mark, temp_time and the history are time stamps of rows     *)
(* that a query has seen, and what the first query saw is no older than    *)
(* the mark.                                                               *)

Queried == {"second", "write"}

ClockInv ==
    /\ RowsInv
    /\ commits \in 0 .. MaxCommits /\ errors \in 0 .. MaxErrors
    /\ pc \in {"poll", "second", "write", "visit", "end", "failed"}
    /\ mark \in 0 .. commits /\ temp \in mark .. commits /\ old \in {-1, mark}
    /\ snap \in 0 .. commits
    /\ pc \in Queried => mark <= snap
    /\ \A w \in windows : w[1] \in Nat /\ w[1] <= commits
    /\ down \in BOOLEAN /\ unwritten \subseteq 1 .. mark

(* The numbers in it, for the arithmetic of the steps.                     *)
LEMMA ClockNumbers ==
    ASSUME ClockInv
    PROVE  /\ commits \in Nat /\ mark \in Nat /\ temp \in Nat /\ snap \in Nat
           /\ mark <= temp /\ temp <= commits /\ snap <= commits
           /\ \A r \in table : r.stamp \in Nat /\ r.stamp <= commits /\ r.tick \in Nat
                               /\ r.drone \in Drones
BY MonitorsAssumption DEF ClockInv, RowsInv, TableOK, Row

(* A query for rows of the table finds a latest time stamp.                *)
LEMMA LatestOf ==
    ASSUME ClockInv, NEW S, \A r \in S : \E q \in table : r.stamp = q.stamp
    PROVE  /\ Latest(S) \in temp .. commits /\ Latest(S) \in mark .. commits
           /\ Latest(S) \in Nat
           /\ \A r \in S : r.stamp <= Latest(S)
<1>1. /\ commits \in Nat /\ temp \in 0 .. commits
      /\ \A r \in S : r.stamp \in 0 .. commits
  BY ClockNumbers
<1> QED
  BY <1>1, ClockNumbers, LatestIsGreatest

(* The issues of some rows have the time stamps of those rows.             *)
LEMMA IssueStamps ==
    ASSUME NEW S, NEW i \in Issues(S)
    PROVE  \E r \in S : i.stamp = r.stamp
<1>1. \A r, t, k : Issue(r, t, k).stamp = r.stamp
  BY DEF Issue
<1>2. \E r \in S : \E t, k : i = Issue(r, t, k)
  <2>1. CASE i \in {Issue(r, r.tick, "UNCHECKED") : r \in {q \in S : q.status = "UNCHECKED"}}
    BY <2>1
  <2>2. CASE i \in {Issue(r, r.tick, "DISCONNECTED") :
                      r \in {q \in S : q.status = "DISCONNECTED" /\ q.tick \in WorkingIn(S)}}
    BY <2>2
  <2>3. CASE i \in UNION {{Issue(r, t, "DIED") : t \in {u \in WorkingIn(S) : u > r.tick}} :
                            r \in {q \in S : q.status = "DEAD"}}
    BY <2>3
  <2> QED
    BY <2>1, <2>2, <2>3 DEF Issues
<1> QED
  BY <1>1, <1>2

LEMMA ClockInit == Init => ClockInv
<1> SUFFICES ASSUME Init PROVE ClockInv
  OBVIOUS
<1>1. down \in BOOLEAN
  BY DEF Init
<1>2. /\ pc = "poll" /\ mark = 0 /\ old = -1 /\ temp = 0 /\ commits = 0 /\ errors = 0 /\ snap = 0
      /\ windows = {} /\ unwritten = {}
  BY DEF Init
<1> QED
  BY <1>1, <1>2, RowsInit, MonitorsAssumption DEF ClockInv, Queried

(* The five queries move temp_time on.                                     *)
LEMMA QueryClock ==
    ASSUME ClockInv, RowsInv', NEW S, \A r \in S : \E q \in table : r.stamp = q.stamp,
           temp' = Latest(S),
           UNCHANGED <<table, commits, self, mark, old, windows, unwritten, errors, down>>,
           snap' = commits \/ (snap' = snap /\ pc \in Queried),
           pc' \in Queried
    PROVE  ClockInv'
<1>1. temp' \in mark .. commits
  BY LatestOf
<1> QED
  BY <1>1, ClockNumbers DEF ClockInv, Queried

(* The end of a poll.                                                      *)
LEMMA EndPollClock ==
    ASSUME ClockInv, RowsInv', EndPoll(temp), UNCHANGED <<table, commits, self, temp, snap>>,
           errors' \in 0 .. MaxErrors, down' \in BOOLEAN, EndWindow,
           unwritten' \subseteq unwritten \cup (mark + 1 .. temp)
    PROVE  ClockInv'
<1>1. mark' \in 0 .. commits /\ temp' \in mark' .. commits
  BY ClockNumbers DEF EndPoll
<1>2. old' \in {-1, mark'}
  BY ClockNumbers DEF EndPoll, ClockInv
<1>3. pc' \in {"poll", "end"}
  BY DEF EndPoll
<1>4. \A w \in windows' : w[1] \in Nat /\ w[1] <= commits
  BY ClockNumbers DEF ClockInv, EndWindow
<1>5. unwritten' \subseteq 1 .. mark'
  BY ClockNumbers DEF ClockInv, EndPoll
<1> QED
  BY <1>1, <1>2, <1>3, <1>4, <1>5 DEF ClockInv, Queried

LEMMA ClockNext == ClockInv /\ [Next]_vars => ClockInv'
<1> SUFFICES ASSUME ClockInv, [Next]_vars PROVE ClockInv'
  OBVIOUS
<1>1. RowsInv'
  BY RowsNext DEF ClockInv
<1> USE DEF world, base, monitor, faults
<1>2. CASE Commit
  BY <1>1, <1>2, ClockNumbers, MonitorsAssumption DEF Commit, ClockInv
<1>3. CASE getChargingDrones
  <2>1. \A r \in {q \in New : q.status = "CHARGING"} : \E q \in table : r.stamp = q.stamp
    BY DEF New
  <2> QED
    BY <1>1, <1>3, <2>1, QueryClock DEF getChargingDrones, Queried
<1>4. CASE getChargedDrones
  <2>1. \A r \in {q \in New : q.status = "CHARGING_COMPLETED"} : \E q \in table : r.stamp = q.stamp
    BY DEF New
  <2> QED
    BY <1>1, <1>4, <2>1, QueryClock DEF getChargedDrones, Queried
<1>5. CASE getNewDrones
  <2>1. \A r \in {q \in New : q.tick = EarliestTick(New \cap RowsOf(q.drone))} :
          \E q \in table : r.stamp = q.stamp
    BY DEF New
  <2> QED
    BY <1>1, <1>5, <2>1, QueryClock DEF getNewDrones, Queried
<1>6. CASE getEndedDrones
  <2>1. \A r \in {q \in New : q.status \in Ended} : \E q \in table : r.stamp = q.stamp
    BY DEF New
  <2> QED
    BY <1>1, <1>6, <2>1, QueryClock DEF getEndedDrones, Queried
<1>7. CASE getWaveVerification
  <2>1. \A r \in Issues(New) : \E q \in table : r.stamp = q.stamp
    BY IssueStamps DEF New
  <2> QED
    BY <1>1, <1>7, <2>1, QueryClock DEF getWaveVerification, Queried
<1>8. CASE checkDroneRechargeTime
  BY <1>1, <1>8, EndPollClock DEF checkDroneRechargeTime, ClockInv
<1>9. CASE ElaborateData
  BY <1>1, <1>9, EndPollClock DEF ElaborateData, ClockInv
<1>10. CASE checkWaveCoverage
  <2>1. /\ EndPoll(temp) /\ EndWindow /\ UNCHANGED <<table, commits, self, temp, snap>>
        /\ errors' = errors \/ (errors < MaxErrors /\ errors' = errors + 1)
        /\ unwritten' \subseteq unwritten \cup (mark + 1 .. temp)
    BY <1>10 DEF checkWaveCoverage
  <2>2. down' \in BOOLEAN
    BY <1>10 DEF checkWaveCoverage, ClockInv
  <2>3. errors' \in 0 .. MaxErrors
    BY <2>1, MonitorsAssumption DEF ClockInv
  <2> QED
    BY <1>1, <2>1, <2>2, <2>3, EndPollClock
<1>11. CASE RechargeError \/ ChargeError \/ QueryError \/ InsertUnverifiedTicks
  <2>1. /\ UNCHANGED <<table, commits, self, mark, old, temp, snap, windows, unwritten>>
        /\ errors' = errors \/ (errors < MaxErrors /\ errors' = errors + 1)
        /\ pc' \in {"poll", "end", "failed"}
    BY <1>11 DEF RechargeError, ChargeError, QueryError, InsertUnverifiedTicks
  <2>2. down' \in BOOLEAN
    BY <1>11 DEF RechargeError, ChargeError, ErrorInCharge, QueryError, InsertUnverifiedTicks,
       ClockInv
  <2>3. errors' \in 0 .. MaxErrors
    BY <2>1, MonitorsAssumption DEF ClockInv
  <2> QED
    BY <1>1, <2>1, <2>2, <2>3 DEF ClockInv, Queried
<1>12. CASE ElaborateFails \/ AreaQuery \/ readAreaCoverageData
  BY <1>1, <1>12 DEF ElaborateFails, AreaQuery, readAreaCoverageData, ClockInv, Queried
<1>13. CASE UNCHANGED vars
  BY <1>1, <1>13 DEF vars, ClockInv
<1> QED
  BY <1>2, <1>3, <1>4, <1>5, <1>6, <1>7, <1>8, <1>9, <1>10, <1>11, <1>12, <1>13 DEF Next, Monitor

TickInv ==
    /\ first \in [Drones -> Nat \cup {None}] /\ last \in [Drones -> Nat \cup {None}]
    /\ written \subseteq Judged /\ ready \subseteq Judged /\ twice \subseteq ready

(* Of the rows a query finds for a drone, the earliest.                    *)
LEMMA EarliestOf ==
    ASSUME ClockInv, NEW S \in SUBSET table, NEW d, S \cap RowsOf(d) # {}
    PROVE  /\ EarliestTick(S \cap RowsOf(d)) \in Nat
           /\ \E r \in S : r.drone = d /\ r.tick = EarliestTick(S \cap RowsOf(d))
           /\ \A r \in S : r.drone = d => EarliestTick(S \cap RowsOf(d)) <= r.tick
<1>1. \A r \in S \cap RowsOf(d) : r.tick \in Nat
  BY ClockNumbers
<1> QED
  BY <1>1, EarliestIsLeast DEF RowsOf

LEMMA NewRows == New \in SUBSET table
BY DEF New

(* drone_recharge_time and drones_data keep ticks, or nothing.             *)
LEMMA TickNext == ClockInv /\ TickInv /\ [Next]_vars => TickInv'
<1> SUFFICES ASSUME ClockInv, TickInv, [Next]_vars PROVE TickInv'
  OBVIOUS
<1> USE DEF world, base, monitor, drones
<1>2. CASE getChargingDrones
  <2> DEFINE R == {r \in New : r.status = "CHARGING"}
             K == {d \in Drones : first[d] = None /\ R \cap RowsOf(d) # {}}
  <2>1. first' = [d \in Drones |-> IF d \in K THEN EarliestTick(R \cap RowsOf(d)) ELSE first[d]]
    BY <1>2 DEF getChargingDrones
  <2>2. UNCHANGED <<last, written, ready, twice>>
    BY <1>2 DEF getChargingDrones
  <2>3. R \in SUBSET table /\ K \in SUBSET Drones /\ \A d \in K : R \cap RowsOf(d) # {}
    BY NewRows
  <2> HIDE DEF R, K
  <2>4. /\ \A d \in K : first'[d] \in Nat
        /\ \A d \in Drones \ K : first'[d] = first[d]
    BY <2>1, <2>3, EarliestOf
  <2>5. first' \in [Drones -> Nat \cup {None}]
    BY <2>1, <2>4 DEF TickInv
  <2> QED
    BY <2>2, <2>5 DEF TickInv, Judged
<1>3. CASE getNewDrones
  <2> DEFINE K == {d \in Drones : first[d] = None /\ New \cap RowsOf(d) # {}}
  <2>1. first' = [d \in Drones |-> IF d \in K THEN EarliestTick(New \cap RowsOf(d)) ELSE first[d]]
    BY <1>3 DEF getNewDrones
  <2>2. UNCHANGED <<last, written, ready, twice>>
    BY <1>3 DEF getNewDrones
  <2>3. New \in SUBSET table /\ K \in SUBSET Drones /\ \A d \in K : New \cap RowsOf(d) # {}
    BY NewRows
  <2> HIDE DEF K
  <2>4. /\ \A d \in K : first'[d] \in Nat
        /\ \A d \in Drones \ K : first'[d] = first[d]
    BY <2>1, <2>3, EarliestOf
  <2>5. first' \in [Drones -> Nat \cup {None}]
    BY <2>1, <2>4 DEF TickInv
  <2> QED
    BY <2>2, <2>5 DEF TickInv, Judged
<1>4. CASE getChargedDrones
  <2> DEFINE R == {r \in New : r.status = "CHARGING_COMPLETED"}
             K == {d \in Drones : first[d] # None /\ R \cap RowsOf(d) # {}}
  <2>1. last' = [d \in Drones |-> IF d \in K THEN EarliestTick(R \cap RowsOf(d)) ELSE last[d]]
    BY <1>4 DEF getChargedDrones
  <2>2. UNCHANGED <<first, written, ready, twice>>
    BY <1>4 DEF getChargedDrones
  <2>3. R \in SUBSET table /\ K \in SUBSET Drones /\ \A d \in K : R \cap RowsOf(d) # {}
    BY NewRows
  <2> HIDE DEF R, K
  <2>4. /\ \A d \in K : last'[d] \in Nat
        /\ \A d \in Drones \ K : last'[d] = last[d]
    BY <2>1, <2>3, EarliestOf
  <2>5. Judged \subseteq Judged'
    BY <2>4 DEF Judged, None
  <2>6. last' \in [Drones -> Nat \cup {None}]
    BY <2>1, <2>4 DEF TickInv
  <2> QED
    BY <2>2, <2>5, <2>6 DEF TickInv
<1>5. CASE getEndedDrones
  <2> DEFINE R == {r \in New : r.status \in Ended}
             K == {d \in Drones : first[d] # None /\ R \cap RowsOf(d) # {}}
  <2>1. last' = [d \in Drones |-> IF d \in K THEN EarliestTick(R \cap RowsOf(d)) ELSE last[d]]
    BY <1>5 DEF getEndedDrones
  <2>2. /\ ready' = ready \cup K /\ twice' = twice \cup (ready \cap K)
        /\ UNCHANGED <<first, written>>
    BY <1>5 DEF getEndedDrones
  <2>3. R \in SUBSET table /\ K \in SUBSET Drones /\ \A d \in K : R \cap RowsOf(d) # {}
    BY NewRows
  <2> HIDE DEF R, K
  <2>4. /\ \A d \in K : last'[d] \in Nat
        /\ \A d \in Drones \ K : last'[d] = last[d]
    BY <2>1, <2>3, EarliestOf
  <2>5. Judged \subseteq Judged' /\ K \subseteq Judged'
    BY <2>3, <2>4 DEF Judged, None
  <2>6. last' \in [Drones -> Nat \cup {None}]
    BY <2>1, <2>4 DEF TickInv
  <2> QED
    BY <2>2, <2>5, <2>6 DEF TickInv
<1>6. CASE checkDroneRechargeTime
  BY <1>6 DEF checkDroneRechargeTime, TickInv, Judged
<1>7. CASE ElaborateData
  BY <1>7 DEF ElaborateData, TickInv, Judged
<1>8. CASE ~ \/ getChargingDrones \/ getChargedDrones \/ checkDroneRechargeTime
             \/ getNewDrones \/ getEndedDrones \/ ElaborateData
  <2>1. UNCHANGED drones
    BY <1>8 DEF Next, Monitor, Commit, RechargeError, ElaborateFails, ChargeError,
       getWaveVerification, checkWaveCoverage, QueryError, AreaQuery, readAreaCoverageData,
       InsertUnverifiedTicks, vars
  <2> QED
    BY <2>1 DEF TickInv, Judged
<1> QED
  BY <1>2, <1>3, <1>4, <1>5, <1>6, <1>7, <1>8

TypeInv == ClockInv /\ TickInv /\ AreaInv

LEMMA TypeInvHolds == Spec => []TypeInv
<1>1. Init => TypeInv
  <2>1. Init => TickInv
    BY DEF Init, TickInv, Judged, None
  <2> QED
    BY <2>1, ClockInit, AreaInit DEF TypeInv
<1>2. TypeInv /\ [Next]_vars => TypeInv'
  BY ClockNext, TickNext, AreaNext DEF TypeInv
<1> QED
  BY <1>1, <1>2, PTL DEF Spec

(* Types of the monitors' state, and marks never run ahead of the time     *)
(* stamps, nor temp_time behind them (Monitor.h, DroneChargeMonitor.cpp).  *)
THEOREM TypeCorrect == Spec => []TypeOK
<1>1. TypeInv => TypeOK
  <2> SUFFICES ASSUME TypeInv PROVE TypeOK
    OBVIOUS
  <2>1. unverified \subseteq 0 .. visited
    <3>1. 0 .. visited - 1 \subseteq 0 .. visited
      BY DEF TypeInv, AreaInv, None
    <3> QED
      BY <3>1 DEF TypeInv, AreaInv, AreaExact
  <2> QED
    BY <2>1 DEF TypeInv, ClockInv, RowsInv, TableOK, TickInv, AreaInv, TypeOK
<1> QED
  BY <1>1, TypeInvHolds, PTL

-----------------------------------------------------------------------------
(* The WaveCoverageMonitor                                                 *)

Faults(T) == {Fault(i) : i \in Issues(T)}

(* The issues of a table, written out.                                     *)
LEMMA FaultsOf ==
    ASSUME NEW T, NEW f
    PROVE  f \in Faults(T) <=>
             \/ \E r \in T : /\ r.status = "UNCHECKED"
                             /\ f = [drone |-> r.drone, tick |-> r.tick, fault |-> "UNCHECKED"]
             \/ \E r, q \in T : /\ r.status = "DISCONNECTED" /\ q.tick = r.tick
                                /\ q.status \in {"WORKING", "UNCHECKED"}
                                /\ f = [drone |-> r.drone, tick |-> r.tick, fault |-> "DISCONNECTED"]
             \/ \E r, q \in T : /\ r.status = "DEAD" /\ q.tick > r.tick
                                /\ q.status \in {"WORKING", "UNCHECKED"}
                                /\ f = [drone |-> r.drone, tick |-> q.tick, fault |-> "DIED"]
<1>1. \A t : t \in WorkingIn(T) <=> \E q \in T : q.status \in {"WORKING", "UNCHECKED"} /\ t = q.tick
  BY DEF WorkingIn
<1>2. \A r, t, k : Fault(Issue(r, t, k)) = [drone |-> r.drone, tick |-> t, fault |-> k]
  BY DEF Fault, Issue
<1>3. \A i : i \in Issues(T) <=>
        \/ \E r \in T : r.status = "UNCHECKED" /\ i = Issue(r, r.tick, "UNCHECKED")
        \/ \E r \in T : /\ r.status = "DISCONNECTED" /\ r.tick \in WorkingIn(T)
                        /\ i = Issue(r, r.tick, "DISCONNECTED")
        \/ \E r \in T, t \in WorkingIn(T) : /\ r.status = "DEAD" /\ t > r.tick
                                            /\ i = Issue(r, t, "DIED")
  BY DEF Issues
<1>4. f \in Faults(T) <=> \E i : i \in Issues(T) /\ f = Fault(i)
  BY DEF Faults
<1>5. f \in Faults(T) <=>
        \/ \E r \in T : r.status = "UNCHECKED" /\ f = Fault(Issue(r, r.tick, "UNCHECKED"))
        \/ \E r \in T : /\ r.status = "DISCONNECTED" /\ r.tick \in WorkingIn(T)
                        /\ f = Fault(Issue(r, r.tick, "DISCONNECTED"))
        \/ \E r \in T, t \in WorkingIn(T) : /\ r.status = "DEAD" /\ t > r.tick
                                            /\ f = Fault(Issue(r, t, "DIED"))
  BY <1>3, <1>4
<1> QED
  BY <1>1, <1>2, <1>5

(* They do not depend on when the rows were inserted.                      *)
LEMMA FaultsMonotone ==
    ASSUME NEW T, NEW U,
           \A r \in T : \E q \in U : q.drone = r.drone /\ q.tick = r.tick /\ q.status = r.status
    PROVE  Faults(T) \subseteq Faults(U)
<1> SUFFICES ASSUME NEW f \in Faults(T) PROVE f \in Faults(U)
  OBVIOUS
<1>1. CASE \E r \in T : /\ r.status = "UNCHECKED"
                        /\ f = [drone |-> r.drone, tick |-> r.tick, fault |-> "UNCHECKED"]
  <2>1. \E r \in U : /\ r.status = "UNCHECKED"
                     /\ f = [drone |-> r.drone, tick |-> r.tick, fault |-> "UNCHECKED"]
    BY <1>1
  <2> QED
    BY <2>1, FaultsOf
<1>2. CASE \E r, q \in T : /\ r.status = "DISCONNECTED" /\ q.tick = r.tick
                           /\ q.status \in {"WORKING", "UNCHECKED"}
                           /\ f = [drone |-> r.drone, tick |-> r.tick, fault |-> "DISCONNECTED"]
  <2>1. \E r, q \in U : /\ r.status = "DISCONNECTED" /\ q.tick = r.tick
                        /\ q.status \in {"WORKING", "UNCHECKED"}
                        /\ f = [drone |-> r.drone, tick |-> r.tick, fault |-> "DISCONNECTED"]
    BY <1>2
  <2> QED
    BY <2>1, FaultsOf
<1>3. CASE \E r, q \in T : /\ r.status = "DEAD" /\ q.tick > r.tick
                           /\ q.status \in {"WORKING", "UNCHECKED"}
                           /\ f = [drone |-> r.drone, tick |-> q.tick, fault |-> "DIED"]
  <2>1. \E r, q \in U : /\ r.status = "DEAD" /\ q.tick > r.tick
                        /\ q.status \in {"WORKING", "UNCHECKED"}
                        /\ f = [drone |-> r.drone, tick |-> q.tick, fault |-> "DIED"]
    <3>1. PICK r \in T, q \in T :
            /\ r.status = "DEAD" /\ q.tick > r.tick
            /\ q.status \in {"WORKING", "UNCHECKED"}
            /\ f = [drone |-> r.drone, tick |-> q.tick, fault |-> "DIED"]
      BY <1>3
    <3>2. PICK a \in U : a.drone = r.drone /\ a.tick = r.tick /\ a.status = r.status
      OBVIOUS
    <3>3. PICK b \in U : b.drone = q.drone /\ b.tick = q.tick /\ b.status = q.status
      OBVIOUS
    <3>4. /\ a.status = "DEAD" /\ b.tick > a.tick
          /\ b.status \in {"WORKING", "UNCHECKED"}
          /\ f = [drone |-> a.drone, tick |-> b.tick, fault |-> "DIED"]
      BY <3>1, <3>2, <3>3
    <3> QED
      BY <3>4
  <2> QED
    BY <2>1, FaultsOf
<1> QED
  BY <1>1, <1>2, <1>3, FaultsOf

CoverageInv ==
    /\ TableOK
    /\ self = "coverage" =>
         /\ {Fault(i) : i \in found} \subseteq Faults(table)
         /\ report \subseteq Faults(table)

LEMMA CoverageNext == CoverageInv /\ [Next]_vars => CoverageInv'
<1> SUFFICES ASSUME CoverageInv, [Next]_vars PROVE CoverageInv'
  OBVIOUS
<1>1. TableOK'
  BY TableNext DEF CoverageInv
<1>2. self' = self
  BY DEF Next, Commit, Monitor, world, vars, getChargingDrones, getChargedDrones,
     checkDroneRechargeTime, RechargeError, getNewDrones, getEndedDrones, ElaborateData,
     ElaborateFails, ChargeError, getWaveVerification, checkWaveCoverage, QueryError,
     AreaQuery, readAreaCoverageData, InsertUnverifiedTicks
<1>3. SUFFICES ASSUME self = "coverage"
               PROVE  /\ {Fault(i) : i \in found'} \subseteq Faults(table')
                      /\ report' \subseteq Faults(table')
  BY <1>1, <1>2 DEF CoverageInv, Faults
<1>4. /\ {Fault(i) : i \in found} \subseteq Faults(table)
      /\ report \subseteq Faults(table)
  BY <1>3 DEF CoverageInv
<1>5. CASE Commit
  <2>1. PICK S \in SUBSET Pending :
          table' = (table \ S) \cup {[r EXCEPT !.stamp = commits + 1] : r \in S}
    BY <1>5 DEF Commit
  <2>2. UNCHANGED <<found, report>>
    BY <1>5 DEF Commit, monitor
  <2>3. ASSUME NEW r \in table
        PROVE  \E q \in table' : q.drone = r.drone /\ q.tick = r.tick /\ q.status = r.status
    <3>1. r \in Row
      BY DEF CoverageInv, TableOK
    <3>2. CASE r \in S
      <4> DEFINE q == [r EXCEPT !.stamp = commits + 1]
      <4>1. q \in table'
        BY <2>1, <3>2
      <4>2. q.drone = r.drone /\ q.tick = r.tick /\ q.status = r.status
        BY <3>1 DEF Row
      <4> QED
        BY <4>1, <4>2
    <3>3. CASE r \notin S
      BY <2>1, <3>3
    <3> QED
      BY <3>2, <3>3
  <2>4. Faults(table) \subseteq Faults(table')
    BY <2>3, FaultsMonotone
  <2> QED
    BY <1>4, <2>2, <2>4
<1>6. CASE getWaveVerification
  <2>1. found' = Issues(New) /\ UNCHANGED <<table, report>>
    BY <1>6 DEF getWaveVerification, world
  <2>2. Faults(New) \subseteq Faults(table)
    <3>1. \A r \in New : \E q \in table : q.drone = r.drone /\ q.tick = r.tick /\ q.status = r.status
      BY DEF New
    <3> QED
      BY <3>1, FaultsMonotone
  <2> QED
    BY <1>4, <2>1, <2>2 DEF Faults
<1>7. CASE checkWaveCoverage
  <2>1. /\ found' = {} /\ table' = table
        /\ report' = report \cup {Fault(i) : i \in found} \/ report' = report
    BY <1>7 DEF checkWaveCoverage, Written, world
  <2> QED
    BY <1>4, <2>1
<1>8. CASE QueryError \/ UNCHANGED vars
  <2>1. UNCHANGED <<table, found, report>>
    BY <1>8 DEF QueryError, vars, world
  <2> QED
    BY <1>4, <2>1
<1> QED
  BY <1>3, <1>5, <1>6, <1>7, <1>8 DEF Next, Monitor, getChargingDrones, getChargedDrones,
     checkDroneRechargeTime, RechargeError, getNewDrones, getEndedDrones, ElaborateData,
     ElaborateFails, ChargeError, AreaQuery, readAreaCoverageData, InsertUnverifiedTicks

(* What the WaveCoverageMonitor logs has happened in the wave, however     *)
(* INSERTs, polls and errors interleave                                    *)
(* (WaveCoverageMonitor.cpp:23-91, 100-146).                               *)
THEOREM IssuesAreReal ==
    Spec => [](self = "coverage" => report \subseteq {Fault(i) : i \in Issues(table)})
<1>1. Init => CoverageInv
  <2>1. Init => {Fault(i) : i \in found} = {} /\ report = {}
    BY DEF Init
  <2> QED
    BY <2>1, TableInit DEF CoverageInv
<1>2. CoverageInv /\ [Next]_vars => CoverageInv'
  BY CoverageNext
<1>3. CoverageInv => (self = "coverage" => report \subseteq {Fault(i) : i \in Issues(table)})
  BY DEF CoverageInv, Faults
<1> QED
  BY <1>1, <1>2, <1>3, PTL DEF Spec

-----------------------------------------------------------------------------
(* What the steps keep.  A row becomes itself, or gets its time stamp; and *)
(* that it was passed over, because it came between two queries or after a *)
(* later row of its drone, stays so.                                       *)

Becomes(r, q) == Same(q, r) /\ (q = r \/ (r.stamp = 0 /\ q.stamp = commits + 1))

LEMMA RowsBecome ==
    ASSUME ClockInv, [Next]_vars
    PROVE  /\ \A q \in table' : \E r \in table : Becomes(r, q)
           /\ \A r \in table : \E q \in table' : Becomes(r, q)
           /\ \A q \in table' : q.stamp <= commits => q \in table
           /\ \A r \in table : r.stamp # 0 => r \in table'
           /\ windows \subseteq windows'
           /\ self' = self
<1>1. CASE Commit
  <2>1. /\ \A q \in table' : \E r \in table : Becomes(r, q)
        /\ \A q \in table' : q.stamp <= commits => q \in table
        /\ \A r \in table : r.stamp # 0 => r \in table'
    BY <1>1, RowsKept DEF ClockInv, Becomes
  <2>2. ASSUME NEW r \in table
        PROVE  \E q \in table' : Becomes(r, q)
    <3>1. PICK q \in table' : Same(q, r) /\ (r.stamp # 0 => q = r)
      BY <1>1, RowsKept DEF ClockInv
    <3>2. PICK s \in table : Same(q, s) /\ (q = s \/ (s.stamp = 0 /\ q.stamp = commits + 1))
      BY <1>1, RowsKept DEF ClockInv
    <3>3. s = r
      BY <3>1, <3>2 DEF Same, ClockInv, RowsInv, OneEach
    <3> QED
      BY <3>1, <3>2, <3>3 DEF Becomes
  <2>3. windows' = windows /\ self' = self
    BY <1>1 DEF Commit, monitor, base
  <2> QED
    BY <2>1, <2>2, <2>3
<1>2. CASE Monitor \/ UNCHANGED vars
  <2>1. table' = table /\ self' = self
    BY <1>2, MonitorKeepsTable
  <2>2. windows \subseteq windows'
    BY <1>2 DEF Monitor, base, vars, EndWindow, getChargingDrones, getChargedDrones,
       checkDroneRechargeTime, RechargeError, getNewDrones, getEndedDrones, ElaborateData,
       ElaborateFails, ChargeError, getWaveVerification, checkWaveCoverage, QueryError,
       AreaQuery, readAreaCoverageData, InsertUnverifiedTicks
  <2> QED
    BY <2>1, <2>2 DEF Becomes, Same
<1> QED
  BY <1>1, <1>2 DEF Next

Gone(r) == InWindow(r) \/ Overtaken(r)

LEMMA GoneKept ==
    ASSUME ClockInv, [Next]_vars, NEW r \in table, NEW q \in table', Becomes(r, q), Gone(r)
    PROVE  Gone(q)'
<1>1. CASE InWindow(r)
  <2>1. r.stamp # 0
    BY <1>1, ClockNumbers DEF InWindow, ClockInv
  <2>2. q = r
    BY <2>1 DEF Becomes
  <2> QED
    BY <1>1, <2>2, RowsBecome DEF InWindow, Gone
<1>2. CASE Overtaken(r)
  <2>1. PICK o \in table : /\ o.drone = r.drone /\ o.tick > r.tick /\ o.stamp # 0
                           /\ r.stamp = 0 \/ o.stamp < r.stamp
    BY <1>2 DEF Overtaken, RowsOf
  <2>2. o \in table' /\ q.drone = r.drone /\ q.tick = r.tick
    BY <2>1, RowsBecome DEF Becomes, Same
  <2>3. q.stamp = 0 \/ o.stamp < q.stamp
    BY <2>1, ClockNumbers DEF Becomes
  <2>4. Overtaken(q)'
    BY <2>1, <2>2, <2>3 DEF Overtaken, RowsOf
  <2> QED
    BY <2>4 DEF Gone
<1> QED
  BY <1>1, <1>2 DEF Gone

HasRow(d, t, s) == \E r \in table : r.drone = d /\ r.tick = t /\ r.status = s

LEMMA HasRowKept ==
    ASSUME ClockInv, [Next]_vars, NEW d, NEW t, NEW s, HasRow(d, t, s)
    PROVE  HasRow(d, t, s)'
BY RowsBecome DEF HasRow, Becomes, Same

-----------------------------------------------------------------------------
(* The RechargeTimeMonitor                                                 *)

(* It has seen the landing of the drones it knows, and the end of their    *)
(* charge only if it had seen the landing before.                          *)
ChargesKnown ==
    \A d \in Drones :
        /\ first[d] # None => HasRow(d, first[d], "CHARGING")
        /\ last[d] # None => first[d] # None /\ HasRow(d, last[d], "CHARGING_COMPLETED")

(* A landing that is behind the mark is known or fell between two queries; *)
(* within a poll, one that the first query could see is known.             *)
LandingSeen(r) ==
    /\ r.stamp <= mark => first[r.drone] = r.tick \/ InWindow(r)
    /\ pc \in Queried /\ mark < r.stamp /\ r.stamp <= snap => first[r.drone] = r.tick

(* The end of a charge that is behind the mark is known, or its landing    *)
(* was passed over; within a poll it may be about to be.                   *)
CompletionSeen(r) ==
    /\ r.stamp <= mark =>
         \/ last[r.drone] = r.tick
         \/ \A q \in RowsOf(r.drone) : q.status = "CHARGING" => Gone(q)
    /\ pc = "write" /\ mark < r.stamp /\ r.stamp <= temp =>
         \/ last[r.drone] = r.tick
         \/ \A q \in RowsOf(r.drone) : q.status = "CHARGING" =>
              Gone(q) \/ (snap < q.stamp /\ q.stamp <= temp)

ChargesReal ==
    \A e \in report :
        /\ \E t, u \in Nat : /\ HasRow(e.drone, t, "CHARGING")
                             /\ HasRow(e.drone, u, "CHARGING_COMPLETED")
                             /\ e.ticks = u - t
        /\ e.ticks \notin MinRecharge .. MaxRecharge

RechargeInv ==
    self = "recharge" =>
        /\ ChargesKnown
        /\ \A r \in table : r.stamp # 0 =>
             /\ r.status = "CHARGING" => LandingSeen(r)
             /\ r.status = "CHARGING_COMPLETED" => CompletionSeen(r)
        /\ ChargesReal

(* Facts about one landing: the tick of a drone that it knows is its own.  *)
LEMMA LandingTick ==
    ASSUME ClockInv, ChargesKnown, NEW r \in table, r.status = "CHARGING", first[r.drone] # None
    PROVE  first[r.drone] = r.tick
<1>1. r.drone \in Drones
  BY ClockNumbers
<1>2. PICK q \in table : q.drone = r.drone /\ q.tick = first[r.drone] /\ q.status = "CHARGING"
  BY <1>1 DEF ChargesKnown, HasRow
<1>3. q = r
  BY <1>2 DEF ClockInv, RowsInv, OneEach, Ended
<1> QED
  BY <1>2, <1>3

LEMMA CompletionTick ==
    ASSUME ClockInv, ChargesKnown, NEW r \in table, r.status = "CHARGING_COMPLETED",
           last[r.drone] # None
    PROVE  last[r.drone] = r.tick
<1>1. r.drone \in Drones
  BY ClockNumbers
<1>2. PICK q \in table : /\ q.drone = r.drone /\ q.tick = last[r.drone]
                         /\ q.status = "CHARGING_COMPLETED"
  BY <1>1 DEF ChargesKnown, HasRow
<1>3. q = r
  BY <1>2 DEF ClockInv, RowsInv, OneEach
<1> QED
  BY <1>2, <1>3

(* INSERTs and errors: what the monitor knows stays true of the table.     *)
LEMMA RechargeIdle ==
    ASSUME ClockInv, RechargeInv, self = "recharge", [Next]_vars,
           UNCHANGED <<first, last, mark, temp, snap, report>>, pc' = pc \/ pc' = "failed"
    PROVE  RechargeInv'
<1>1. ChargesKnown /\ ChargesReal
  BY DEF RechargeInv
<1>2. ChargesKnown'
  <2>1. ASSUME NEW d \in Drones, first[d] # None
        PROVE  HasRow(d, first[d], "CHARGING")'
    BY <1>1, <2>1, HasRowKept DEF ChargesKnown
  <2>2. ASSUME NEW d \in Drones, last[d] # None
        PROVE  first[d] # None /\ HasRow(d, last[d], "CHARGING_COMPLETED")'
    BY <1>1, <2>2, HasRowKept DEF ChargesKnown
  <2> QED
    BY <2>1, <2>2 DEF ChargesKnown
<1>3. ChargesReal'
  <2>1. ASSUME NEW e \in report
        PROVE  \E t, u \in Nat : /\ HasRow(e.drone, t, "CHARGING")'
                                 /\ HasRow(e.drone, u, "CHARGING_COMPLETED")'
                                 /\ e.ticks = u - t
    BY <1>1, HasRowKept DEF ChargesReal
  <2> QED
    BY <1>1, <2>1 DEF ChargesReal
<1>4. ASSUME NEW q \in table', q.stamp # 0, q.status = "CHARGING"
      PROVE  LandingSeen(q)'
  <2>1. q.stamp <= mark \/ q.stamp <= snap => q \in table /\ LandingSeen(q)
    BY <1>4, RowsBecome, ClockNumbers, RowsNext DEF RechargeInv, ClockInv, RowsInv, TableOK, Row
  <2> QED
    BY <2>1, RowsBecome DEF LandingSeen, InWindow, Queried
<1>5. ASSUME NEW q \in table', q.stamp # 0, q.status = "CHARGING_COMPLETED"
      PROVE  CompletionSeen(q)'
  <2>1. q.stamp <= mark \/ q.stamp <= temp => q \in table /\ CompletionSeen(q)
    BY <1>5, RowsBecome, ClockNumbers, RowsNext DEF RechargeInv, ClockInv, RowsInv, TableOK, Row
  <2>2. ASSUME NEW c \in RowsOf(q.drone)', c.status = "CHARGING"
        PROVE  \E b \in RowsOf(q.drone) : Becomes(b, c) /\ b.status = "CHARGING"
    BY <2>2, RowsBecome DEF RowsOf, Becomes, Same
  <2>3. ASSUME NEW c \in RowsOf(q.drone)', NEW b \in RowsOf(q.drone), Becomes(b, c), Gone(b)
        PROVE  Gone(c)'
    BY <2>3, GoneKept DEF RowsOf
  <2>4. ASSUME NEW c, NEW b \in RowsOf(q.drone), Becomes(b, c), snap < b.stamp, b.stamp <= temp
        PROVE  c = b
    BY <2>4, ClockNumbers DEF Becomes
  <2> QED
    BY <2>1, <2>2, <2>3, <2>4 DEF CompletionSeen
<1> QED
  BY <1>2, <1>3, <1>4, <1>5 DEF RechargeInv

(* A poll starts: the landings that are new are known.                     *)
LEMMA RechargeFirst ==
    ASSUME ClockInv, TickInv, RechargeInv, getChargingDrones
    PROVE  RechargeInv'
<1> DEFINE R == {r \in New : r.status = "CHARGING"}
           K == {d \in Drones : first[d] = None /\ R \cap RowsOf(d) # {}}
<1>1. /\ self = "recharge" /\ snap' = commits /\ pc' = "second"
      /\ first' = [d \in Drones |-> IF d \in K THEN EarliestTick(R \cap RowsOf(d)) ELSE first[d]]
      /\ UNCHANGED <<table, mark, windows, last, report>>
  BY DEF getChargingDrones, world
<1>2. ChargesKnown /\ ChargesReal
  BY <1>1 DEF RechargeInv
<1>3. R \in SUBSET table /\ K \in SUBSET Drones
  BY NewRows
<1>4. ASSUME NEW d \in K
      PROVE  /\ first[d] = None /\ first'[d] \in Nat
             /\ \E r \in R : r.drone = d /\ r.tick = first'[d]
  <2>1. R \cap RowsOf(d) # {} /\ first[d] = None /\ d \in Drones
    OBVIOUS
  <2>2. first'[d] = EarliestTick(R \cap RowsOf(d))
    BY <1>1, <2>1
  <2>3. R \in SUBSET table
    BY <1>3
  <2> HIDE DEF R, K
  <2>4. /\ EarliestTick(R \cap RowsOf(d)) \in Nat
        /\ \E r \in R : r.drone = d /\ r.tick = EarliestTick(R \cap RowsOf(d))
    BY <2>1, <2>3, EarliestOf
  <2> QED
    BY <2>1, <2>2, <2>4
<1>5. \A d \in Drones \ K : first'[d] = first[d]
  <2> HIDE DEF K
  <2> QED
    BY <1>1
<1>6. ChargesKnown'
  <2>1. ASSUME NEW d \in Drones, first'[d] # None
        PROVE  HasRow(d, first'[d], "CHARGING")
    BY <1>2, <1>3, <1>4, <1>5, <2>1 DEF ChargesKnown, HasRow
  <2>2. ASSUME NEW d \in Drones, last[d] # None
        PROVE  first'[d] # None /\ HasRow(d, last[d], "CHARGING_COMPLETED")
    BY <1>2, <1>4, <1>5, <2>2 DEF ChargesKnown
  <2>3. last' = last /\ \A d, t, status : HasRow(d, t, status)' <=> HasRow(d, t, status)
    BY <1>1 DEF HasRow
  <2> QED
    BY <2>1, <2>2, <2>3 DEF ChargesKnown
<1>7. ASSUME NEW r \in table, r.stamp # 0, r.status = "CHARGING"
      PROVE  LandingSeen(r)'
  <2>1. LandingSeen(r) /\ r.drone \in Drones /\ r.tick \in Nat /\ r.stamp \in Nat /\ mark \in Nat
    BY <1>1, <1>7, ClockNumbers DEF RechargeInv
  <2>2. r.drone \in K => first'[r.drone] = r.tick
    <3>1. ASSUME NEW q \in R, q.drone = r.drone
          PROVE  q = r
      BY <1>7, <3>1 DEF ClockInv, RowsInv, OneEach, New, Ended
    <3> QED
      BY <1>4, <3>1
  <2>3. mark < r.stamp => r.drone \in K \/ first[r.drone] # None
    <3>1. mark < r.stamp => r \in R \cap RowsOf(r.drone)
      BY <1>7 DEF New, RowsOf
    <3> QED
      BY <2>1, <3>1
  <2> HIDE DEF R, K
  <2>4. mark < r.stamp => first'[r.drone] = r.tick
    BY <1>2, <1>5, <1>7, <2>1, <2>2, <2>3, LandingTick
  <2>5. r.stamp <= mark => first'[r.drone] = r.tick \/ InWindow(r)
    BY <1>5, <2>1, <2>2 DEF LandingSeen
  <2> QED
    BY <1>1, <2>4, <2>5 DEF LandingSeen, InWindow
<1>8. ASSUME NEW r \in table, r.stamp # 0, r.status = "CHARGING_COMPLETED"
      PROVE  CompletionSeen(r)'
  BY <1>1, <1>8 DEF RechargeInv, CompletionSeen, RowsOf, Gone, InWindow, Overtaken
<1> QED
  BY <1>1, <1>2, <1>6, <1>7, <1>8 DEF RechargeInv, ChargesReal, HasRow

(* The second query: the charges that have ended are known, or their       *)
(* landings are not and never will be.                                     *)
LEMMA RechargeSecond ==
    ASSUME ClockInv, TickInv, RechargeInv, getChargedDrones
    PROVE  RechargeInv'
<1> DEFINE R == {r \in New : r.status = "CHARGING_COMPLETED"}
           K == {d \in Drones : first[d] # None /\ R \cap RowsOf(d) # {}}
<1>1. /\ self = "recharge" /\ pc = "second" /\ pc' = "write" /\ temp' = Latest(R)
      /\ last' = [d \in Drones |-> IF d \in K THEN EarliestTick(R \cap RowsOf(d)) ELSE last[d]]
      /\ UNCHANGED <<self, table, commits, mark, snap, windows, first, report>>
  BY DEF getChargedDrones, world
<1>2. ChargesKnown /\ ChargesReal
  BY <1>1 DEF RechargeInv
<1>3. R \in SUBSET table /\ K \in SUBSET Drones
  BY NewRows
<1>4. ASSUME NEW d \in K
      PROVE  /\ first[d] # None /\ last'[d] \in Nat
             /\ \E r \in R : r.drone = d /\ r.tick = last'[d]
  <2>1. R \cap RowsOf(d) # {} /\ first[d] # None /\ d \in Drones
    OBVIOUS
  <2>2. last'[d] = EarliestTick(R \cap RowsOf(d))
    BY <1>1, <2>1
  <2>3. R \in SUBSET table
    BY <1>3
  <2> HIDE DEF R, K
  <2>4. /\ EarliestTick(R \cap RowsOf(d)) \in Nat
        /\ \E r \in R : r.drone = d /\ r.tick = EarliestTick(R \cap RowsOf(d))
    BY <2>1, <2>3, EarliestOf
  <2> QED
    BY <2>1, <2>2, <2>4
<1>5. \A d \in Drones \ K : last'[d] = last[d]
  <2> HIDE DEF K
  <2> QED
    BY <1>1
<1>6. ChargesKnown'
  <2>1. ASSUME NEW d \in Drones, last'[d] # None
        PROVE  first[d] # None /\ HasRow(d, last'[d], "CHARGING_COMPLETED")
    BY <1>2, <1>3, <1>4, <1>5, <2>1 DEF ChargesKnown, HasRow
  <2> QED
    BY <1>1, <1>2, <2>1 DEF ChargesKnown, HasRow
<1>7. ASSUME NEW r \in table, r.stamp # 0, r.status = "CHARGING"
      PROVE  LandingSeen(r)'
  BY <1>1, <1>7 DEF RechargeInv, LandingSeen, InWindow, Queried
<1>8. ASSUME NEW r \in table, r.stamp # 0, r.status = "CHARGING_COMPLETED"
      PROVE  CompletionSeen(r)'
  <2>1. CompletionSeen(r) /\ r.drone \in Drones /\ r.tick \in Nat /\ r.stamp \in Nat
    BY <1>1, <1>8, ClockNumbers DEF RechargeInv
  <2>2. r.drone \in K => last'[r.drone] = r.tick
    <3>1. ASSUME NEW q \in R, q.drone = r.drone
          PROVE  q = r
      BY <1>8, <3>1 DEF ClockInv, RowsInv, OneEach, New
    <3> QED
      BY <1>4, <3>1
  <2>3. mark < r.stamp => r.drone \in K \/ first[r.drone] = None
    <3>1. mark < r.stamp => r \in R \cap RowsOf(r.drone)
      BY <1>8 DEF New, RowsOf
    <3> QED
      BY <2>1, <3>1
  <2>4. ASSUME first[r.drone] = None, NEW q \in RowsOf(r.drone), q.status = "CHARGING"
        PROVE  Gone(q) \/ (snap < q.stamp /\ q.stamp <= r.stamp)
    <3>1. /\ q \in table /\ q.drone = r.drone /\ q.stamp \in Nat /\ q.tick \in Nat
          /\ q.tick < r.tick
      BY <1>8, <2>4, ClockNumbers DEF RowsOf, ClockInv, RowsInv, OneEach
    <3>2. CASE q.stamp = 0 \/ r.stamp < q.stamp
      <4>1. Overtaken(q)
        BY <1>8, <2>1, <3>1, <3>2 DEF Overtaken, RowsOf
      <4> QED
        BY <4>1 DEF Gone
    <3>3. CASE q.stamp # 0 /\ q.stamp <= snap
      <4>1. LandingSeen(q)
        BY <1>1, <2>4, <3>1, <3>3 DEF RechargeInv
      <4>2. first[q.drone] # q.tick
        BY <2>4, <3>1 DEF None
      <4> QED
        BY <1>1, <3>1, <3>3, <4>1, <4>2, ClockNumbers DEF LandingSeen, Queried, Gone
    <3> QED
      BY <2>1, <3>1, <3>2, <3>3, ClockNumbers
  <2>5. r.stamp <= mark =>
          \/ last'[r.drone] = r.tick
          \/ \A q \in RowsOf(r.drone) : q.status = "CHARGING" => Gone(q)
    BY <1>5, <2>1, <2>2 DEF CompletionSeen
  <2>6. mark < r.stamp /\ r.stamp <= temp' =>
          \/ last'[r.drone] = r.tick
          \/ \A q \in RowsOf(r.drone) : q.status = "CHARGING" =>
               Gone(q) \/ (snap < q.stamp /\ q.stamp <= temp')
    <3>1. temp' \in Nat
      <4>1. \A x \in R : \E y \in table : x.stamp = y.stamp
        BY <1>3
      <4> HIDE DEF R
      <4> QED
        BY <1>1, <4>1, LatestOf
    <3>2. r.stamp <= temp' =>
            \A q \in RowsOf(r.drone) : q.stamp <= r.stamp => q.stamp <= temp'
      BY <2>1, <3>1, ClockNumbers DEF RowsOf
    <3> HIDE DEF R, K
    <3> QED
      BY <2>2, <2>3, <2>4, <3>2
  <2>7. UNCHANGED RowsOf(r.drone) /\ \A q : Gone(q)' <=> Gone(q)
    BY <1>1 DEF Gone, InWindow, Overtaken, RowsOf
  <2> QED
    BY <1>1, <2>5, <2>6, <2>7 DEF CompletionSeen
<1> QED
  BY <1>1, <1>2, <1>6, <1>7, <1>8 DEF RechargeInv, ChargesReal, HasRow

(* The end of a poll: what came between its queries fell into a window.    *)
LEMMA RechargeWrite ==
    ASSUME ClockInv, TickInv, RechargeInv, checkDroneRechargeTime
    PROVE  RechargeInv'
<1>1. /\ self = "recharge" /\ pc = "write" /\ mark' = temp /\ pc' \notin Queried
      /\ UNCHANGED <<self, table, temp, snap, first, last>>
      /\ windows \subseteq windows'
      /\ snap < temp => <<snap, temp>> \in windows'
      /\ report' = report \cup
           {[drone |-> d, ticks |-> Duration(d)] :
              d \in {e \in Judged \ written : Duration(e) < MinRecharge \/ Duration(e) > MaxRecharge}}
  BY ClockNumbers DEF checkDroneRechargeTime, world, EndPoll, EndWindow, Queried, ClockInv
<1>2. ChargesKnown /\ ChargesReal
  BY <1>1 DEF RechargeInv
<1>3. ChargesKnown'
  BY <1>1, <1>2 DEF ChargesKnown, HasRow
<1>4. \A r : snap < r.stamp /\ r.stamp <= temp /\ snap < temp => InWindow(r)'
  <2>1. <<snap, temp>>[1] = snap /\ <<snap, temp>>[2] = temp
    OBVIOUS
  <2> QED
    BY <1>1, <2>1 DEF InWindow
<1>5. \A r : InWindow(r) => InWindow(r)'
  BY <1>1 DEF InWindow
<1>6. \A r : Gone(r) => Gone(r)'
  BY <1>1, <1>5 DEF Gone, Overtaken, RowsOf
<1>7. \A r \in table : snap < r.stamp /\ r.stamp <= temp => InWindow(r)'
  BY <1>4, ClockNumbers
<1>8. ASSUME NEW r \in table, r.stamp # 0, r.status = "CHARGING"
      PROVE  LandingSeen(r)'
  <2>1. LandingSeen(r)
    BY <1>1, <1>8 DEF RechargeInv
  <2> QED
    BY <1>1, <1>5, <1>7, <2>1, ClockNumbers DEF LandingSeen, Queried
<1>9. ASSUME NEW r \in table, r.stamp # 0, r.status = "CHARGING_COMPLETED"
      PROVE  CompletionSeen(r)'
  <2>1. CompletionSeen(r)
    BY <1>1, <1>9 DEF RechargeInv
  <2>2. ASSUME NEW q \in RowsOf(r.drone), Gone(q) \/ (snap < q.stamp /\ q.stamp <= temp)
        PROVE  Gone(q)'
    BY <1>6, <1>7, <2>2 DEF RowsOf, Gone
  <2>3. r.stamp <= temp =>
          \/ last[r.drone] = r.tick
          \/ \A q \in RowsOf(r.drone) : q.status = "CHARGING" => Gone(q)'
    BY <1>1, <2>1, <2>2, ClockNumbers DEF CompletionSeen
  <2>4. UNCHANGED RowsOf(r.drone)
    BY <1>1 DEF RowsOf
  <2> QED
    BY <1>1, <2>3, <2>4 DEF CompletionSeen, Queried
<1>10. ChargesReal'
  <2>1. ASSUME NEW d \in Judged, Duration(d) < MinRecharge \/ Duration(d) > MaxRecharge
        PROVE  /\ HasRow(d, first[d], "CHARGING") /\ HasRow(d, last[d], "CHARGING_COMPLETED")
               /\ first[d] \in Nat /\ last[d] \in Nat
               /\ Duration(d) \notin MinRecharge .. MaxRecharge
    <3>1. first[d] \in Nat /\ last[d] \in Nat
      BY <1>2 DEF Judged, ChargesKnown, TickInv
    <3> QED
      BY <1>2, <2>1, <3>1, MonitorsAssumption DEF Judged, ChargesKnown, Duration
  <2>2. ASSUME NEW e \in report'
        PROVE  /\ \E t, u \in Nat : /\ HasRow(e.drone, t, "CHARGING")
                                    /\ HasRow(e.drone, u, "CHARGING_COMPLETED")
                                    /\ e.ticks = u - t
               /\ e.ticks \notin MinRecharge .. MaxRecharge
    <3>1. CASE e \in report
      BY <1>2, <3>1 DEF ChargesReal
    <3>2. CASE e \notin report
      <4>1. PICK d \in Judged : /\ Duration(d) < MinRecharge \/ Duration(d) > MaxRecharge
                                /\ e = [drone |-> d, ticks |-> Duration(d)]
        BY <1>1, <3>2
      <4> QED
        BY <2>1, <4>1 DEF Duration
    <3> QED
      BY <3>1, <3>2
  <2> QED
    BY <1>1, <2>2 DEF ChargesReal, HasRow
<1> QED
  BY <1>1, <1>3, <1>8, <1>9, <1>10 DEF RechargeInv

LEMMA RechargeNext == ClockInv /\ TickInv /\ RechargeInv /\ [Next]_vars => RechargeInv'
<1> SUFFICES ASSUME ClockInv, TickInv, RechargeInv, [Next]_vars PROVE RechargeInv'
  OBVIOUS
<1>1. CASE self # "recharge"
  BY <1>1, RowsBecome DEF RechargeInv
<1>2. CASE self = "recharge"
  <2>1. CASE Commit \/ RechargeError \/ UNCHANGED vars
    <3>1. /\ UNCHANGED <<first, last, mark, temp, snap, report>>
          /\ pc' = pc \/ pc' = "failed"
      BY <2>1 DEF Commit, RechargeError, vars, monitor, base, drones
    <3> QED
      BY <1>2, <3>1, RechargeIdle
  <2>2. CASE getChargingDrones \/ getChargedDrones \/ checkDroneRechargeTime
    BY <2>2, RechargeFirst, RechargeSecond, RechargeWrite
  <2> QED
    BY <1>2, <2>1, <2>2 DEF Next, Monitor, getNewDrones, getEndedDrones, ElaborateData,
       ElaborateFails, ChargeError, getWaveVerification, checkWaveCoverage, QueryError,
       AreaQuery, readAreaCoverageData, InsertUnverifiedTicks
<1> QED
  BY <1>1, <1>2

-----------------------------------------------------------------------------
(* The DroneChargeMonitor                                                  *)

(* The first tick it has of a drone is one of its rows, and an earlier row *)
(* was passed over.                                                        *)
FirstsKnown ==
    \A d \in Drones : first[d] # None =>
        /\ \E r \in RowsOf(d) : r.tick = first[d]
        /\ \A r \in RowsOf(d) : r.tick < first[d] => Gone(r)

StartSeen(r) ==
    /\ r.stamp <= mark => first[r.drone] # None \/ InWindow(r)
    /\ pc \in Queried /\ mark < r.stamp /\ r.stamp <= snap => first[r.drone] # None

EndSeen(r) ==
    /\ r.stamp <= mark => last[r.drone] = r.tick \/ InWindow(r)
    /\ pc = "write" /\ mark < r.stamp /\ r.stamp <= temp => last[r.drone] = r.tick \/ snap < r.stamp

(* The drone's first row was passed over.                                  *)
StartGone(d) == \E r \in RowsOf(d) : Gone(r) /\ \A q \in RowsOf(d) : r.tick <= q.tick

ChargeInv ==
    self = "charge" =>
        /\ FirstsKnown
        /\ \A r \in table : r.stamp # 0 => StartSeen(r) /\ (r.status \in Ended => EndSeen(r))
        /\ \A d \in ready : first[d] # None
        /\ \A d \in report \ Hungry : StartGone(d)

LEMMA StartGoneKept ==
    ASSUME ClockInv, [Next]_vars, NEW d, StartGone(d)
    PROVE  StartGone(d)'
<1>1. PICK r \in RowsOf(d) : Gone(r) /\ \A q \in RowsOf(d) : r.tick <= q.tick
  BY DEF StartGone
<1>2. PICK s \in table' : Becomes(r, s)
  BY RowsBecome DEF RowsOf
<1>3. s \in RowsOf(d)' /\ Gone(s)'
  BY <1>1, <1>2, GoneKept DEF RowsOf, Becomes, Same
<1>4. ASSUME NEW q \in RowsOf(d)'
      PROVE  s.tick <= q.tick
  <2>1. PICK b \in table : Becomes(b, q)
    BY RowsBecome DEF RowsOf
  <2> QED
    BY <1>1, <1>2, <2>1 DEF RowsOf, Becomes, Same
<1> QED
  BY <1>3, <1>4 DEF StartGone

(* INSERTs and errors.                                                     *)
LEMMA ChargeIdle ==
    ASSUME ClockInv, ChargeInv, self = "charge", [Next]_vars,
           UNCHANGED <<first, last, ready, mark, temp, snap>>, pc' = pc \/ pc' = "poll",
           \A d \in report' \ report : d \in Hungry \/ StartGone(d)
    PROVE  ChargeInv'
<1>1. FirstsKnown'
  <2>1. ASSUME NEW d \in Drones, first[d] # None
        PROVE  /\ \E r \in RowsOf(d)' : r.tick = first[d]
               /\ \A r \in RowsOf(d)' : r.tick < first[d] => Gone(r)'
    <3>1. /\ \E r \in RowsOf(d) : r.tick = first[d]
          /\ \A r \in RowsOf(d) : r.tick < first[d] => Gone(r)
      BY <2>1 DEF ChargeInv, FirstsKnown
    <3>2. \E r \in RowsOf(d)' : r.tick = first[d]
      BY <3>1, RowsBecome DEF RowsOf, Becomes, Same
    <3>3. ASSUME NEW r \in RowsOf(d)', r.tick < first[d]
          PROVE  Gone(r)'
      <4>1. PICK b \in table : Becomes(b, r)
        BY RowsBecome DEF RowsOf
      <4>2. b \in RowsOf(d) /\ b.tick < first[d]
        BY <3>3, <4>1 DEF RowsOf, Becomes, Same
      <4> QED
        BY <3>1, <3>3, <4>1, <4>2, GoneKept DEF RowsOf
    <3> QED
      BY <3>2, <3>3
  <2> QED
    BY <2>1 DEF FirstsKnown
<1>2. ASSUME NEW q \in table', q.stamp # 0
      PROVE  StartSeen(q)' /\ (q.status \in Ended => EndSeen(q)')
  <2>1. q.stamp \in Nat
    BY RowsNext DEF ClockInv, RowsInv, TableOK, Row
  <2>2. q.stamp <= mark \/ q.stamp <= snap \/ q.stamp <= temp => 
          q \in table /\ StartSeen(q) /\ (q.status \in Ended => EndSeen(q))
    BY <1>2, <2>1, RowsBecome, ClockNumbers DEF ChargeInv
  <2>3. InWindow(q) => InWindow(q)'
    BY RowsBecome DEF InWindow
  <2> QED
    BY <2>2, <2>3 DEF StartSeen, EndSeen, Queried
<1>3. \A d \in report' \ Hungry : StartGone(d)'
  BY StartGoneKept DEF ChargeInv
<1> QED
  BY <1>1, <1>2, <1>3 DEF ChargeInv

(* A poll starts: the drones with new rows are known, by their earliest    *)
(* new row.  What is earlier has been passed over, or is to come later.    *)
LEMMA ChargeFirst ==
    ASSUME ClockInv, TickInv, ChargeInv, getNewDrones
    PROVE  ChargeInv'
<1> DEFINE K == {d \in Drones : first[d] = None /\ New \cap RowsOf(d) # {}}
<1>1. /\ self = "charge" /\ pc = "poll" /\ snap' = commits /\ pc' = "second"
      /\ first' = [d \in Drones |-> IF d \in K THEN EarliestTick(New \cap RowsOf(d)) ELSE first[d]]
      /\ UNCHANGED <<self, table, mark, windows, last, ready, report>>
  BY DEF getNewDrones, world
<1>2. /\ FirstsKnown
      /\ \A r \in table : r.stamp # 0 => StartSeen(r) /\ (r.status \in Ended => EndSeen(r))
      /\ \A d \in ready : first[d] # None
      /\ \A d \in report \ Hungry : StartGone(d)
  BY <1>1 DEF ChargeInv
<1>3. \A r : Gone(r)' <=> Gone(r)
  BY <1>1 DEF Gone, InWindow, Overtaken, RowsOf
<1>4. ASSUME NEW d \in K
      PROVE  /\ first[d] = None /\ first'[d] \in Nat
             /\ \E r \in New : r.drone = d /\ r.tick = first'[d]
             /\ \A r \in New : r.drone = d => first'[d] <= r.tick
  <2>1. New \cap RowsOf(d) # {} /\ first[d] = None /\ d \in Drones
    OBVIOUS
  <2>2. first'[d] = EarliestTick(New \cap RowsOf(d))
    BY <1>1, <2>1
  <2>3. New \in SUBSET table
    BY NewRows
  <2> HIDE DEF K
  <2>4. /\ EarliestTick(New \cap RowsOf(d)) \in Nat
        /\ \E r \in New : r.drone = d /\ r.tick = EarliestTick(New \cap RowsOf(d))
        /\ \A r \in New : r.drone = d => EarliestTick(New \cap RowsOf(d)) <= r.tick
    BY <2>1, <2>3, EarliestOf
  <2> QED
    BY <2>1, <2>2, <2>4
<1>5. \A d \in Drones \ K : first'[d] = first[d]
  <2> HIDE DEF K
  <2> QED
    BY <1>1
<1>6. \A d \in Drones : first[d] # None => d \notin K /\ first'[d] # None
  BY <1>5
<1>7. FirstsKnown'
  <2>1. ASSUME NEW d \in K
        PROVE  /\ \E r \in RowsOf(d) : r.tick = first'[d]
               /\ \A r \in RowsOf(d) : r.tick < first'[d] => Gone(r)
    <3>1. PICK f \in New : f.drone = d /\ f.tick = first'[d]
      BY <1>4
    <3>2. f \in table /\ f \in RowsOf(d) /\ f.stamp # 0 /\ f.stamp \in Nat /\ f.stamp > mark
      BY <3>1, ClockNumbers DEF New, RowsOf
    <3>3. ASSUME NEW r \in RowsOf(d), r.tick < first'[d]
          PROVE  Gone(r)
      <4>1. /\ r \in table /\ r.drone = d /\ r.stamp \in Nat /\ r.tick \in Nat /\ mark \in Nat
            /\ first'[d] \in Nat
        BY <1>4, ClockNumbers DEF RowsOf
      <4>2. r \notin New
        BY <1>4, <3>3, <4>1
      <4>3. r.stamp <= mark
        BY <4>1, <4>2 DEF New
      <4>4. CASE r.stamp = 0
        <5>1. Overtaken(r)
          BY <3>1, <3>2, <3>3, <4>1, <4>4 DEF Overtaken
        <5> QED
          BY <5>1 DEF Gone
      <4>5. CASE r.stamp # 0
        <5>1. InWindow(r)
          BY <1>2, <1>4, <4>1, <4>3, <4>5 DEF StartSeen
        <5> QED
          BY <5>1 DEF Gone
      <4> QED
        BY <4>4, <4>5
    <3> QED
      BY <3>1, <3>2, <3>3
  <2>2. UNCHANGED table
    BY <1>1
  <2> HIDE DEF K
  <2>3. ASSUME NEW d \in Drones, first'[d] # None
        PROVE  /\ \E r \in RowsOf(d) : r.tick = first'[d]
               /\ \A r \in RowsOf(d) : r.tick < first'[d] => Gone(r)
    BY <1>2, <1>5, <2>1, <2>3 DEF FirstsKnown
  <2>4. \A d : RowsOf(d)' = RowsOf(d)
    BY <2>2 DEF RowsOf
  <2> QED
    BY <1>3, <2>3, <2>4 DEF FirstsKnown
<1>8. ASSUME NEW r \in table, r.stamp # 0
      PROVE  StartSeen(r)' /\ (r.status \in Ended => EndSeen(r)')
  <2>1. StartSeen(r) /\ (r.status \in Ended => EndSeen(r)) /\ r.drone \in Drones
    BY <1>2, <1>8, ClockNumbers
  <2>2. mark < r.stamp => first'[r.drone] # None
    <3>1. mark < r.stamp => r \in New \cap RowsOf(r.drone)
      BY DEF New, RowsOf
    <3>2. mark < r.stamp => r.drone \in K \/ first[r.drone] # None
      BY <2>1, <3>1
    <3>3. r.drone \in K => first'[r.drone] # None
      <4>1. r.drone \in K => first'[r.drone] \in Nat
        BY <1>4
      <4> QED
        BY <4>1 DEF None
    <3> QED
      BY <1>6, <2>1, <3>2, <3>3
  <2>3. InWindow(r)' <=> InWindow(r)
    BY <1>1 DEF InWindow
  <2>4. StartSeen(r)'
    BY <1>1, <1>6, <2>1, <2>2, <2>3 DEF StartSeen
  <2>5. r.status \in Ended => EndSeen(r)'
    BY <1>1, <2>1, <2>3 DEF EndSeen
  <2> QED
    BY <2>4, <2>5
<1>9. \A d \in report \ Hungry : StartGone(d)'
  <2>1. \A d : RowsOf(d)' = RowsOf(d)
    BY <1>1 DEF RowsOf
  <2> QED
    BY <1>2, <1>3, <2>1 DEF StartGone
<1>10. \A d \in ready : first'[d] # None
  <2>1. ready \subseteq Drones
    BY DEF TickInv, Judged
  <2> QED
    BY <1>2, <1>6, <2>1
<1> QED
  BY <1>1, <1>7, <1>8, <1>9, <1>10 DEF ChargeInv

(* The second query: the ends of the drones that are known.                *)
LEMMA ChargeSecond ==
    ASSUME ClockInv, TickInv, ChargeInv, getEndedDrones
    PROVE  ChargeInv'
<1> DEFINE R == {r \in New : r.status \in Ended}
           K == {d \in Drones : first[d] # None /\ R \cap RowsOf(d) # {}}
<1>1. /\ self = "charge" /\ pc = "second" /\ pc' = "write"
      /\ last' = [d \in Drones |-> IF d \in K THEN EarliestTick(R \cap RowsOf(d)) ELSE last[d]]
      /\ ready' = ready \cup K
      /\ UNCHANGED <<self, table, mark, snap, windows, first, report>>
  BY DEF getEndedDrones, world
<1>2. /\ FirstsKnown
      /\ \A r \in table : r.stamp # 0 => StartSeen(r) /\ (r.status \in Ended => EndSeen(r))
      /\ \A d \in ready : first[d] # None
      /\ \A d \in report \ Hungry : StartGone(d)
  BY <1>1 DEF ChargeInv
<1>3. (\A r : Gone(r)' <=> Gone(r)) /\ \A d : RowsOf(d)' = RowsOf(d)
  BY <1>1 DEF Gone, InWindow, Overtaken, RowsOf
<1>4. ASSUME NEW d \in K
      PROVE  \E r \in R : r.drone = d /\ r.tick = last'[d]
  <2>1. R \cap RowsOf(d) # {} /\ d \in Drones
    OBVIOUS
  <2>2. last'[d] = EarliestTick(R \cap RowsOf(d))
    BY <1>1, <2>1
  <2>3. R \in SUBSET table
    BY NewRows
  <2> HIDE DEF R, K
  <2>4. \E r \in R : r.drone = d /\ r.tick = EarliestTick(R \cap RowsOf(d))
    BY <2>1, <2>3, EarliestOf
  <2> QED
    BY <2>2, <2>4
<1>5. \A d \in Drones \ K : last'[d] = last[d]
  <2> HIDE DEF K
  <2> QED
    BY <1>1
<1>6. FirstsKnown'
  BY <1>1, <1>2, <1>3 DEF FirstsKnown
<1>7. ASSUME NEW r \in table, r.stamp # 0
      PROVE  StartSeen(r)' /\ (r.status \in Ended => EndSeen(r)')
  <2>1. StartSeen(r) /\ (r.status \in Ended => EndSeen(r)) /\ r.drone \in Drones
    BY <1>2, <1>7, ClockNumbers
  <2>2. StartSeen(r)'
    BY <1>1, <2>1 DEF StartSeen, InWindow, Queried
  <2>3. ASSUME r.status \in Ended
        PROVE  EndSeen(r)'
    <3>1. r.drone \in K => last'[r.drone] = r.tick
      <4>1. ASSUME NEW q \in R, q.drone = r.drone
            PROVE  q = r
        BY <2>3, <4>1 DEF ClockInv, RowsInv, OneEach, New
      <4> QED
        BY <1>4, <4>1
    <3>2. mark < r.stamp => r.drone \in K \/ first[r.drone] = None
      <4>1. mark < r.stamp => r \in R \cap RowsOf(r.drone)
        BY <2>3 DEF New, RowsOf
      <4> QED
        BY <2>1, <4>1
    <3> HIDE DEF R, K
    <3>3. r.stamp <= mark => last'[r.drone] = r.tick \/ InWindow(r)
      BY <1>5, <2>1, <2>3, <3>1 DEF EndSeen
    <3>4. mark < r.stamp => last'[r.drone] = r.tick \/ snap < r.stamp
      BY <1>1, <2>1, <3>1, <3>2, ClockNumbers DEF StartSeen, Queried
    <3> QED
      BY <1>1, <3>3, <3>4 DEF EndSeen, InWindow
  <2> QED
    BY <2>2, <2>3
<1>8. \A d \in report \ Hungry : StartGone(d)'
  BY <1>2, <1>3 DEF StartGone
<1>9. \A d \in ready' : first[d] # None
  BY <1>1, <1>2
<1> QED
  BY <1>1, <1>6, <1>7, <1>8, <1>9 DEF ChargeInv

(* A drone of normal consumption looks wrong only if its first row was     *)
(* passed over.                                                            *)
LEMMA WrongStart ==
    ASSUME ClockInv, TickInv, ChargeInv, self = "charge", NEW d \in Wrong \ Hungry
    PROVE  StartGone(d)
<1>1. /\ d \in Drones /\ d \in ready /\ first[d] # None
      /\ first[d] \in Nat /\ last[d] \in Nat
  BY DEF Wrong, TickInv, Judged, ChargeInv
<1>2. /\ \E r \in RowsOf(d) : r.tick = first[d]
      /\ \A r \in RowsOf(d) : r.tick < first[d] => Gone(r)
  BY <1>1 DEF ChargeInv, FirstsKnown
<1>3. RowsOf(d) # {} /\ \A r \in RowsOf(d) : r.tick \in Nat
  BY <1>2, ClockNumbers DEF RowsOf
<1>4. /\ FirstTick(d) \in Nat
      /\ \E r \in RowsOf(d) : r.tick = FirstTick(d)
      /\ \A r \in RowsOf(d) : FirstTick(d) <= r.tick
  BY <1>3, EarliestIsLeast DEF FirstTick
<1>5. FirstTick(d) < first[d]
  <2>1. Used(d) > last[d] - first[d] /\ Used(d) = (last[d] - FirstTick(d)) * 1
    BY DEF Wrong, Used
  <2> QED
    BY <1>1, <1>4, <2>1
<1> QED
  BY <1>2, <1>4, <1>5 DEF StartGone

(* The end of a poll.                                                      *)
LEMMA ChargeWrite ==
    ASSUME ClockInv, TickInv, ChargeInv, ElaborateData
    PROVE  ChargeInv'
<1>1. /\ self = "charge" /\ pc = "write" /\ mark' = temp /\ pc' \notin Queried
      /\ UNCHANGED <<self, table, temp, snap, first, last>>
      /\ windows \subseteq windows'
      /\ snap < temp => <<snap, temp>> \in windows'
      /\ report' = report \cup Wrong /\ ready' = {}
  BY ClockNumbers DEF ElaborateData, world, EndPoll, EndWindow, Queried, ClockInv
<1>2. /\ FirstsKnown
      /\ \A r \in table : r.stamp # 0 => StartSeen(r) /\ (r.status \in Ended => EndSeen(r))
      /\ \A d \in report \ Hungry : StartGone(d)
  BY <1>1 DEF ChargeInv
<1>3. \A r : InWindow(r) => InWindow(r)'
  BY <1>1 DEF InWindow
<1>4. (\A r : Gone(r) => Gone(r)') /\ \A d : RowsOf(d)' = RowsOf(d)
  BY <1>1, <1>3 DEF Gone, Overtaken, RowsOf
<1>5. \A r \in table : snap < r.stamp /\ r.stamp <= temp => InWindow(r)'
  <2>1. <<snap, temp>>[1] = snap /\ <<snap, temp>>[2] = temp
    OBVIOUS
  <2> QED
    BY <1>1, <2>1, ClockNumbers DEF InWindow
<1>6. FirstsKnown'
  BY <1>1, <1>2, <1>4 DEF FirstsKnown
<1>7. ASSUME NEW r \in table, r.stamp # 0
      PROVE  StartSeen(r)' /\ (r.status \in Ended => EndSeen(r)')
  <2>1. StartSeen(r) /\ (r.status \in Ended => EndSeen(r))
    BY <1>2, <1>7
  <2> QED
    BY <1>1, <1>3, <1>5, <2>1, ClockNumbers DEF StartSeen, EndSeen, Queried
<1>8. \A d \in report' \ Hungry : StartGone(d)'
  <2>1. \A d \in report' \ Hungry : StartGone(d)
    BY <1>1, <1>2, WrongStart
  <2> QED
    BY <1>4, <2>1 DEF StartGone
<1> QED
  BY <1>1, <1>6, <1>7, <1>8 DEF ChargeInv

LEMMA ChargeNext == ClockInv /\ TickInv /\ ChargeInv /\ [Next]_vars => ChargeInv'
<1> SUFFICES ASSUME ClockInv, TickInv, ChargeInv, [Next]_vars PROVE ChargeInv'
  OBVIOUS
<1>1. CASE self # "charge"
  BY <1>1, RowsBecome DEF ChargeInv
<1>2. CASE self = "charge"
  <2>1. CASE Commit \/ ElaborateFails \/ ChargeError \/ UNCHANGED vars
    <3>1. /\ UNCHANGED <<first, last, ready, mark, temp, snap>>
          /\ pc' = pc \/ pc' = "poll"
          /\ report' = report \/ report' = report \cup Wrong
      BY <2>1 DEF Commit, ElaborateFails, ChargeError, ErrorInCharge, vars, monitor, base, drones
    <3>2. \A d \in report' \ report : d \in Hungry \/ StartGone(d)
      BY <1>2, <3>1, WrongStart
    <3> QED
      BY <1>2, <3>1, <3>2, ChargeIdle
  <2>2. CASE getNewDrones \/ getEndedDrones \/ ElaborateData
    BY <2>2, ChargeFirst, ChargeSecond, ChargeWrite
  <2> QED
    BY <1>2, <2>1, <2>2 DEF Next, Monitor, getChargingDrones, getChargedDrones,
       checkDroneRechargeTime, RechargeError, getWaveVerification, checkWaveCoverage,
       QueryError, AreaQuery, readAreaCoverageData, InsertUnverifiedTicks
<1> QED
  BY <1>1, <1>2

-----------------------------------------------------------------------------
(* How the monitors end.  The rows that the last poll could see, and that  *)
(* the mark has not passed:                                                *)

Unread == {r \in table : mark < r.stamp /\ r.stamp <= snap}

LEMMA UnreadRows ==
    ASSUME ClockInv
    PROVE  /\ \A r \in table : r \in New <=> mark < r.stamp
           /\ Unread \in SUBSET table
           /\ \A r \in Unread : mark < r.stamp /\ r.stamp <= snap
BY DEF New, Unread

LEMMA UnreadIdle ==
    ASSUME ClockInv, [Next]_vars, UNCHANGED <<mark, snap>>
    PROVE  Unread' = Unread
<1>1. \A q \in table' : q.stamp <= snap /\ mark < q.stamp => q \in table
  <2>1. \A q \in table' : q.stamp \in Nat
    BY RowsNext DEF ClockInv, RowsInv, TableOK, Row
  <2> QED
    BY <2>1, RowsBecome, ClockNumbers
<1>2. \A r \in table : mark < r.stamp => r \in table'
  BY RowsBecome, ClockNumbers
<1> QED
  BY <1>1, <1>2 DEF Unread

(* The RechargeTimeMonitor and the DroneChargeMonitor end after a poll     *)
(* without any rows.                                                       *)
QuietInv ==
    /\ \A r \in table : r.status \in Statuses[self]
    /\ self = "recharge" /\ pc = "second" /\ temp = mark => \A r \in Unread : r.status # "CHARGING"
    /\ self = "charge" /\ pc = "second" /\ temp = mark => Unread = {}
    /\ self \in {"recharge", "charge"} /\ pc = "write" /\ temp = mark => Unread = {}
    /\ self \in {"recharge", "charge"} /\ pc = "end" => Unread = {}

LEMMA QuietInit == Init => QuietInv
<1> SUFFICES ASSUME Init PROVE QuietInv
  OBVIOUS
<1>1. self \in Classes /\ table \in Tables[self] /\ pc = "poll"
  BY DEF Init
<1>2. table \subseteq [drone : Drones, tick : Nat, status : Statuses[self], stamp : {0}]
  BY <1>1, TablesAssumption
<1> QED
  BY <1>1, <1>2 DEF QuietInv

(* A query that leaves temp_time at the mark has seen no row.              *)
LEMMA QuietQuery ==
    ASSUME ClockInv, NEW S \in SUBSET table, temp' = Latest(S), temp' = mark
    PROVE  temp = mark /\ \A r \in S : ~ (mark < r.stamp)
<1>1. /\ Latest(S) \in temp .. commits
      /\ \A r \in S : r.stamp <= Latest(S)
  BY LatestOf
<1> QED
  BY <1>1, ClockNumbers

LEMMA QuietNext == ClockInv /\ QuietInv /\ [Next]_vars => QuietInv'
<1> SUFFICES ASSUME ClockInv, QuietInv, [Next]_vars PROVE QuietInv'
  OBVIOUS
<1>1. \A r \in table' : r.status \in Statuses[self']
  BY RowsBecome DEF QuietInv, Becomes, Same
<1>2. self' = self
  BY RowsBecome
<1>3. CASE getChargingDrones
  <2> DEFINE R == {r \in New : r.status = "CHARGING"}
  <2>1. /\ self = "recharge" /\ pc' = "second" /\ snap' = commits /\ temp' = Latest(R)
        /\ UNCHANGED <<table, mark>>
    BY <1>3 DEF getChargingDrones, world
  <2>2. R \in SUBSET table
    BY NewRows
  <2>3. ASSUME temp' = mark, NEW r \in Unread', r.status = "CHARGING"
        PROVE  FALSE
    <3>1. r \in R /\ mark < r.stamp
      BY <2>1, <2>3 DEF Unread, New
    <3> HIDE DEF R
    <3> QED
      BY <2>1, <2>2, <2>3, <3>1, QuietQuery
  <2> QED
    BY <1>1, <1>2, <2>1, <2>3 DEF QuietInv
<1>4. CASE getChargedDrones
  <2> DEFINE R == {r \in New : r.status = "CHARGING_COMPLETED"}
  <2>1. /\ self = "recharge" /\ pc = "second" /\ pc' = "write" /\ temp' = Latest(R)
        /\ UNCHANGED <<table, mark, snap>>
    BY <1>4 DEF getChargedDrones, world
  <2>2. R \in SUBSET table
    BY NewRows
  <2>3. ASSUME temp' = mark, NEW r \in Unread
        PROVE  FALSE
    <3>1. r \in table /\ mark < r.stamp /\ r \in New
      BY UnreadRows
    <3>2. r \notin R /\ temp = mark
      <4>1. r \in R => r.stamp \in Nat /\ r \in table
        BY <3>1, ClockNumbers
      <4> HIDE DEF R
      <4> QED
        BY <2>1, <2>2, <2>3, <3>1, QuietQuery
    <3>3. r.status \in {"CHARGING", "CHARGING_COMPLETED"}
      BY <2>1, <3>1 DEF QuietInv, Statuses
    <3> QED
      BY <2>1, <2>3, <3>1, <3>2, <3>3 DEF QuietInv
  <2>4. Unread' = Unread
    BY <2>1 DEF Unread
  <2> QED
    BY <1>1, <1>2, <2>1, <2>3, <2>4 DEF QuietInv
<1>5. CASE getNewDrones
  <2> DEFINE R == {r \in New : r.tick = EarliestTick(New \cap RowsOf(r.drone))}
  <2>1. /\ self = "charge" /\ pc' = "second" /\ snap' = commits /\ temp' = Latest(R)
        /\ UNCHANGED <<table, mark>>
    BY <1>5 DEF getNewDrones, world
  <2>2. R \in SUBSET table
    BY NewRows
  <2>3. ASSUME temp' = mark, NEW r \in Unread'
        PROVE  FALSE
    <3>1. r \in New /\ r \in New \cap RowsOf(r.drone)
      BY <2>1 DEF Unread, New, RowsOf
    <3>2. \E q \in New : q.drone = r.drone /\ q.tick = EarliestTick(New \cap RowsOf(r.drone))
      BY <3>1, NewRows, EarliestOf
    <3>3. PICK q \in R : TRUE
      BY <3>2
    <3>4. mark < q.stamp
      BY <3>3 DEF New
    <3> HIDE DEF R
    <3> QED
      BY <2>1, <2>2, <2>3, <3>3, <3>4, QuietQuery
  <2> QED
    BY <1>1, <1>2, <2>1, <2>3 DEF QuietInv
<1>6. CASE getEndedDrones
  <2> DEFINE R == {r \in New : r.status \in Ended}
  <2>1. /\ self = "charge" /\ pc = "second" /\ pc' = "write" /\ temp' = Latest(R)
        /\ UNCHANGED <<table, mark, snap>>
    BY <1>6 DEF getEndedDrones, world
  <2>2. R \in SUBSET table
    BY NewRows
  <2> HIDE DEF R
  <2>3. temp' = mark => temp = mark
    BY <2>1, <2>2, QuietQuery
  <2>4. Unread' = Unread
    BY <2>1 DEF Unread
  <2> QED
    BY <1>1, <1>2, <2>1, <2>3, <2>4 DEF QuietInv
<1>7. CASE checkDroneRechargeTime \/ ElaborateData
  <2>1. /\ self \in {"recharge", "charge"} /\ pc = "write" /\ EndPoll(temp)
        /\ UNCHANGED <<table, temp, snap>>
    BY <1>7 DEF checkDroneRechargeTime, ElaborateData, world
  <2>2. pc' \in {"poll", "end"} /\ mark' = temp
    BY <2>1 DEF EndPoll
  <2>3. pc' = "end" => temp = mark
    BY <2>1, ClockNumbers DEF EndPoll, ClockInv
  <2>4. pc' = "end" => Unread' = Unread
    BY <2>1, <2>2, <2>3 DEF Unread
  <2> QED
    BY <1>1, <1>2, <2>1, <2>2, <2>3, <2>4 DEF QuietInv
<1>8. CASE Commit \/ UNCHANGED vars
  <2>1. UNCHANGED <<pc, temp, mark, snap>>
    BY <1>8 DEF Commit, monitor, base, vars
  <2> QED
    BY <1>1, <1>2, <2>1, UnreadIdle DEF QuietInv
<1>9. CASE \/ RechargeError \/ ElaborateFails \/ ChargeError \/ getWaveVerification
           \/ checkWaveCoverage \/ QueryError \/ AreaQuery \/ readAreaCoverageData
           \/ InsertUnverifiedTicks
  <2>1. self \notin {"recharge", "charge"} \/ pc' \in {"poll", "failed"}
    BY <1>9 DEF RechargeError, ElaborateFails, ChargeError, getWaveVerification,
       checkWaveCoverage, QueryError, AreaQuery, readAreaCoverageData, InsertUnverifiedTicks
  <2> QED
    BY <1>1, <1>2, <2>1 DEF QuietInv
<1> QED
  BY <1>3, <1>4, <1>5, <1>6, <1>7, <1>8, <1>9 DEF Next, Monitor

-----------------------------------------------------------------------------
(* What the WaveCoverageMonitor passes over                                *)

(* The issues of some rows are issues of all.                              *)
LEMMA IssuesMonotone ==
    ASSUME NEW T, NEW S \in SUBSET T
    PROVE  Issues(S) \subseteq Issues(T)
<1>1. WorkingIn(S) \subseteq WorkingIn(T)
  BY DEF WorkingIn
<1> SUFFICES ASSUME NEW i \in Issues(S) PROVE i \in Issues(T)
  OBVIOUS
<1>2. CASE i \in {Issue(r, r.tick, "UNCHECKED") : r \in {q \in S : q.status = "UNCHECKED"}}
  BY <1>2 DEF Issues
<1>3. CASE i \in {Issue(r, r.tick, "DISCONNECTED") :
                    r \in {q \in S : q.status = "DISCONNECTED" /\ q.tick \in WorkingIn(S)}}
  BY <1>1, <1>3 DEF Issues
<1>4. CASE i \in UNION {{Issue(r, t, "DIED") : t \in {u \in WorkingIn(S) : u > r.tick}} :
                          r \in {q \in S : q.status = "DEAD"}}
  BY <1>1, <1>4 DEF Issues
<1> QED
  BY <1>2, <1>3, <1>4 DEF Issues

Handled(r, q, i) == Fault(i) \in report \/ i.stamp \in unwritten \/ Split(r, q)

(* An issue of two rows one of which is behind the mark has been handled;  *)
(* what a query has found is in temp_time's reach; and the monitor ends    *)
(* after a poll without issues.                                            *)
WaveInv ==
    self = "coverage" =>
        /\ pc = "write" => /\ found = Issues(Unread) /\ temp <= snap
                           /\ \A i \in found : i.stamp <= temp
        /\ mark > 0 => \E w \in windows : w[2] = mark
        /\ \A r, q \in table :
             /\ r.stamp # 0 /\ q.stamp # 0
             /\ r.stamp <= mark \/ q.stamp <= mark
             => \A i \in Issues({r, q}) : Handled(r, q, i)
        /\ pc = "end" => Issues(Unread) = {}

LEMMA HandledKept ==
    ASSUME NEW r, NEW q, NEW i, Handled(r, q, i),
           report \subseteq report', unwritten \subseteq unwritten', windows \subseteq windows'
    PROVE  Handled(r, q, i)'
BY DEF Handled, Split, Fault

(* An INSERT brings no row that the mark has passed: with a row behind the *)
(* mark, a new one makes a pair that was split.                            *)
LEMMA WaveCommit ==
    ASSUME ClockInv, WaveInv, self = "coverage", Commit
    PROVE  WaveInv'
<1>1. UNCHANGED <<self, pc, mark, temp, snap, windows, unwritten, found, report>>
  BY DEF Commit, monitor, base
<1>2. [Next]_vars
  BY DEF Next
<1>3. Unread' = Unread
  BY <1>1, <1>2, UnreadIdle
<1>4. ASSUME NEW r \in table', NEW q \in table', r.stamp # 0, q.stamp # 0,
             r.stamp <= mark \/ q.stamp <= mark, NEW i \in Issues({r, q})
      PROVE  Handled(r, q, i)'
  <2>1. r.stamp \in Nat /\ q.stamp \in Nat
    BY <1>2, RowsNext DEF ClockInv, RowsInv, TableOK, Row
  <2>2. CASE r.stamp <= commits /\ q.stamp <= commits
    <3>1. r \in table /\ q \in table
      BY <1>2, <2>2, RowsBecome
    <3>2. Handled(r, q, i)
      BY <1>4, <3>1 DEF WaveInv
    <3> QED
      BY <1>1, <3>2, HandledKept
  <2>3. CASE r.stamp > commits \/ q.stamp > commits
    <3>1. PICK w \in windows : w[2] = mark
      BY <1>4, <2>1, ClockNumbers DEF WaveInv
    <3>2. w[1] \in Nat /\ w[1] <= commits
      BY DEF ClockInv
    <3>3. \/ r.stamp <= w[2] /\ q.stamp > w[1]
          \/ q.stamp <= w[2] /\ r.stamp > w[1]
      BY <1>4, <2>1, <2>3, <3>1, <3>2, ClockNumbers
    <3>4. Split(r, q)'
      BY <1>1, <3>3 DEF Split
    <3> QED
      BY <3>4 DEF Handled
  <2> QED
    BY <2>1, <2>2, <2>3, ClockNumbers
<1> QED
  BY <1>1, <1>3, <1>4 DEF WaveInv

(* The query finds the issues of all the rows there are.                   *)
LEMMA WaveQuery ==
    ASSUME ClockInv, WaveInv, getWaveVerification
    PROVE  WaveInv'
<1>1. /\ self = "coverage" /\ pc' = "write" /\ found' = Issues(New) /\ temp' = Latest(found')
      /\ snap' = commits
      /\ UNCHANGED <<self, table, commits, mark, windows, unwritten, report>>
  BY DEF getWaveVerification, world
<1>2. Unread' = New
  <2>1. \A r \in table : r.stamp <= commits
    BY ClockNumbers
  <2> QED
    BY <1>1, <2>1 DEF Unread, New
<1>3. temp' <= snap' /\ \A i \in found' : i.stamp <= temp'
  <2>1. \A i \in Issues(New) : \E q \in table : i.stamp = q.stamp
    BY IssueStamps, NewRows
  <2> QED
    BY <1>1, <2>1, LatestOf, ClockNumbers
<1>4. \A r, q, i : Handled(r, q, i) => Handled(r, q, i)'
  BY <1>1, HandledKept
<1> QED
  BY <1>1, <1>2, <1>3, <1>4 DEF WaveInv

(* The end of a poll: what was found is logged or its write has failed,    *)
(* and a row not seen makes a pair that was split with one that was.       *)
LEMMA WaveWrite ==
    ASSUME ClockInv, WaveInv, checkWaveCoverage
    PROVE  WaveInv'
<1>1. /\ self = "coverage" /\ pc = "write" /\ EndPoll(temp) /\ EndWindow
      /\ UNCHANGED <<self, table, commits, temp, snap>>
  BY DEF checkWaveCoverage, world
<1>2. /\ report \subseteq report' /\ unwritten \subseteq unwritten' /\ windows \subseteq windows'
      /\ \/ \A i \in found : Fault(i) \in report'
         \/ mark + 1 .. temp \subseteq unwritten'
  BY DEF checkWaveCoverage, Written, EndWindow
<1>3. /\ found = Issues(Unread) /\ temp <= snap
      /\ \A i \in found : i.stamp <= temp
      /\ mark > 0 => \E w \in windows : w[2] = mark
  BY <1>1 DEF WaveInv
<1>4. \A i \in found : i.stamp \in Nat /\ mark < i.stamp
  BY <1>3, IssueStamps, UnreadRows, ClockNumbers
<1>5. mark' = temp /\ mark < temp => <<snap, temp>> \in windows'
  BY <1>1 DEF EndWindow
<1>6. pc' \in {"poll", "end"} /\ mark' = temp /\ (pc' = "end" => temp = mark)
  BY <1>1, ClockNumbers DEF EndPoll, ClockInv
<1>7. mark' > 0 => \E w \in windows' : w[2] = mark'
  <2>1. CASE mark < temp
    BY <1>5, <1>6, <2>1
  <2>2. CASE mark = temp
    BY <1>2, <1>3, <1>6, <2>2
  <2> QED
    BY <2>1, <2>2, ClockNumbers
<1>8. ASSUME NEW r \in table, NEW q \in table, r.stamp # 0, q.stamp # 0,
             r.stamp <= temp \/ q.stamp <= temp, NEW i \in Issues({r, q})
      PROVE  Handled(r, q, i)'
  <2>1. r.stamp \in Nat /\ q.stamp \in Nat
    BY ClockNumbers
  <2>2. CASE r.stamp <= mark \/ q.stamp <= mark
    <3>1. Handled(r, q, i)
      BY <1>1, <1>8, <2>2 DEF WaveInv
    <3> QED
      BY <1>2, <3>1, HandledKept
  <2>3. CASE mark < r.stamp /\ r.stamp <= snap /\ mark < q.stamp /\ q.stamp <= snap
    <3>1. {r, q} \in SUBSET Unread
      BY <2>3 DEF Unread
    <3>2. i \in found
      BY <1>3, <1>8, <3>1, IssuesMonotone
    <3>3. i.stamp \in mark + 1 .. temp
      BY <1>3, <1>4, <3>2, ClockNumbers
    <3>4. Fault(i) \in report' \/ i.stamp \in unwritten'
      BY <1>2, <3>2, <3>3
    <3> QED
      BY <3>4 DEF Handled, Fault
  <2>4. CASE mark < r.stamp /\ mark < q.stamp /\ (snap < r.stamp \/ snap < q.stamp)
    <3>1. <<snap, temp>> \in windows'
      BY <1>5, <1>6, <1>8, <2>1, <2>4, ClockNumbers
    <3>2. \/ r.stamp <= temp /\ q.stamp > snap
          \/ q.stamp <= temp /\ r.stamp > snap
      BY <1>3, <1>8, <2>1, <2>4, ClockNumbers
    <3>3. Split(r, q)'
      BY <3>1, <3>2 DEF Split
    <3> QED
      BY <3>3 DEF Handled
  <2> QED
    BY <2>1, <2>2, <2>3, <2>4, ClockNumbers
<1>9. pc' = "end" => Issues(Unread)' = {}
  <2> SUFFICES ASSUME pc' = "end" PROVE Issues(Unread') = {}
    BY DEF Issues, Issue, WorkingIn
  <2>1. temp = mark /\ Unread' = Unread
    BY <1>1, <1>6 DEF Unread
  <2>2. found = {}
    BY <1>3, <1>4, <2>1, ClockNumbers
  <2> QED
    BY <1>3, <2>1, <2>2
<1> QED
  BY <1>1, <1>6, <1>7, <1>8, <1>9 DEF WaveInv

LEMMA WaveNext == ClockInv /\ WaveInv /\ [Next]_vars => WaveInv'
<1> SUFFICES ASSUME ClockInv, WaveInv, [Next]_vars PROVE WaveInv'
  OBVIOUS
<1>1. CASE self # "coverage"
  BY <1>1, RowsBecome DEF WaveInv
<1>2. CASE self = "coverage"
  <2>1. CASE Commit
    BY <1>2, <2>1, WaveCommit
  <2>2. CASE getWaveVerification \/ checkWaveCoverage
    BY <2>2, WaveQuery, WaveWrite
  <2>3. CASE QueryError \/ UNCHANGED vars
    <3>1. /\ UNCHANGED <<self, table, mark, temp, snap, windows, unwritten, found, report>>
          /\ pc' = pc \/ pc' = "failed"
      BY <2>3 DEF QueryError, vars, world, base
    <3>2. \A r, q, i : Handled(r, q, i) => Handled(r, q, i)'
      BY <3>1, HandledKept
    <3>3. Unread' = Unread
      BY <3>1 DEF Unread
    <3> QED
      BY <1>2, <3>1, <3>2, <3>3 DEF WaveInv
  <2> QED
    BY <1>2, <2>1, <2>2, <2>3 DEF Next, Monitor, getChargingDrones, getChargedDrones,
       checkDroneRechargeTime, RechargeError, getNewDrones, getEndedDrones, ElaborateData,
       ElaborateFails, ChargeError, AreaQuery, readAreaCoverageData, InsertUnverifiedTicks
<1> QED
  BY <1>1, <1>2

-----------------------------------------------------------------------------
(* The logs                                                                *)

LogInv ==
    /\ TypeInv
    /\ CoverageInv
    /\ RechargeInv /\ ChargeInv /\ QuietInv /\ WaveInv

LEMMA LogInvHolds == Spec => []LogInv
<1>1. Init => LogInv
  <2> SUFFICES ASSUME Init PROVE LogInv
    OBVIOUS
  <2>1. /\ pc = "poll" /\ mark = 0 /\ temp = 0 /\ snap = 0 /\ report = {} /\ ready = {}
        /\ {Fault(i) : i \in found} = {}
        /\ \A d \in Drones : first[d] = None /\ last[d] = None
    BY DEF Init
  <2>2. TypeInv
    <3>1. TickInv
      BY DEF Init, TickInv, Judged, None
    <3> QED
      BY <3>1, ClockInit, AreaInit DEF TypeInv
  <2>3. CoverageInv
    BY <2>1, TableInit DEF CoverageInv
  <2>4. \A r \in table : r.stamp # 0 => ~ (r.stamp <= 0)
    BY <2>2, ClockNumbers DEF TypeInv
  <2>5. RechargeInv
    BY <2>1, <2>4 DEF RechargeInv, ChargesKnown, ChargesReal, LandingSeen, CompletionSeen, Queried
  <2>6. ChargeInv
    BY <2>1, <2>4 DEF ChargeInv, FirstsKnown, StartSeen, EndSeen, Queried
  <2>7. WaveInv
    BY <2>1, <2>4 DEF WaveInv
  <2> QED
    BY <2>2, <2>3, <2>5, <2>6, <2>7, QuietInit DEF LogInv
<1>2. LogInv /\ [Next]_vars => LogInv'
  BY ClockNext, TickNext, AreaNext, CoverageNext, RechargeNext, ChargeNext, QuietNext,
     WaveNext DEF LogInv, TypeInv
<1> QED
  BY <1>1, <1>2, PTL DEF Spec

(* Whatever is inserted between the queries and whatever fails, the        *)
(* monitors log no charge that was not made and no issue that did not      *)
(* happen, and take a drone for too hungry only if its first row was       *)
(* passed over (RechargeTimeMonitor.cpp:43-68,                             *)
(* DroneChargeMonitor.cpp:53-96, WaveCoverageMonitor.cpp:100-146).         *)
THEOREM LogsTellTruthHolds == Spec => []LogsTellTruth
<1>1. ASSUME LogInv PROVE LogsTellTruth
  <2>1. CASE self = "recharge"
    <3>1. ASSUME NEW e \in report
          PROVE  RealCharge(e.drone, e.ticks) /\ e.ticks \notin MinRecharge .. MaxRecharge
      BY <1>1, <2>1 DEF LogInv, RechargeInv, ChargesReal, HasRow, RealCharge, RowsOf
    <3> QED
      BY <2>1, <3>1 DEF LogsTellTruth
  <2>2. CASE self = "charge"
    <3>1. ASSUME NEW d \in report \ Hungry
          PROVE  \E r \in RowsOf(d) : r.tick = FirstTick(d) /\ Gone(r)
      <4>1. PICK r \in RowsOf(d) : Gone(r) /\ \A q \in RowsOf(d) : r.tick <= q.tick
        BY <1>1, <2>2 DEF LogInv, ChargeInv, StartGone
      <4>2. RowsOf(d) # {} /\ \A q \in RowsOf(d) : q.tick \in Nat
        BY <1>1, ClockNumbers DEF LogInv, TypeInv, RowsOf
      <4>3. /\ FirstTick(d) \in Nat
            /\ \E q \in RowsOf(d) : q.tick = FirstTick(d)
            /\ \A q \in RowsOf(d) : FirstTick(d) <= q.tick
        BY <4>2, EarliestIsLeast DEF FirstTick
      <4>4. r.tick = FirstTick(d)
        BY <4>1, <4>2, <4>3
      <4> QED
        BY <4>1, <4>4
    <3> QED
      BY <2>2, <3>1 DEF LogsTellTruth, Gone
  <2>3. CASE self = "coverage"
    <3>1. report \subseteq {Fault(i) : i \in Issues(table)}
      BY <1>1, <2>3 DEF LogInv, CoverageInv, Faults
    <3> QED
      BY <2>3, <3>1 DEF LogsTellTruth
  <2>4. CASE self = "area"
    BY <2>4 DEF LogsTellTruth
  <2> QED
    BY <1>1, <2>1, <2>2, <2>3, <2>4 DEF LogInv, CoverageInv, TableOK, Classes
<1> QED
  BY <1>1, LogInvHolds, PTL

(* And the mark, or the end of a monitor, passes over nothing but what the *)
(* property names: a row that came between the two queries of a poll, or   *)
(* after a later row of its drone; an issue whose write failed, or whose   *)
(* two rows were split by a poll (RechargeTimeMonitor.cpp:37-71,           *)
(* DroneChargeMonitor.cpp:98-174, WaveCoverageMonitor.cpp:94-186,          *)
(* Monitor.cpp:51-57).                                                     *)
THEOREM NothingSkippedHolds == Spec => []NothingSkipped
<1>1. ASSUME LogInv PROVE NothingSkipped
  <2> SUFFICES ASSUME NEW r \in table, r.stamp \in 1 .. Horizon
      PROVE  /\ self = "recharge" /\ r.status = "CHARGING" =>
                  first[r.drone] = r.tick \/ InWindow(r)
             /\ self = "recharge" /\ r.status = "CHARGING_COMPLETED" =>
                  \/ last[r.drone] = r.tick
                  \/ \A q \in RowsOf(r.drone) : q.status = "CHARGING" => InWindow(q) \/ Overtaken(q)
             /\ self = "charge" =>
                  \/ first[r.drone] # None /\ first[r.drone] <= r.tick
                  \/ InWindow(r) \/ Overtaken(r)
             /\ self = "charge" /\ r.status \in Ended => last[r.drone] = r.tick \/ InWindow(r)
             /\ self = "coverage" =>
                  \A q \in table : q.stamp \in 1 .. Horizon =>
                    \A i \in Issues({r, q}) : Handled(r, q, i)
    BY DEF NothingSkipped, Handled
  <2>1. /\ r.stamp # 0 /\ r.stamp \in Nat /\ mark \in Nat
        /\ r.drone \in Drones /\ r.tick \in Nat /\ ClockInv /\ TickInv
    BY <1>1, ClockNumbers DEF LogInv, TypeInv
  <2>2. \A q \in table : q.stamp \in 1 .. Horizon => q.stamp <= mark \/ (pc = "end" /\ q \in Unread)
    BY <2>1, ClockNumbers DEF Horizon, Unread
  <2>3. self \in {"recharge", "charge"} => r.stamp <= mark
    BY <1>1, <2>2 DEF LogInv, QuietInv
  <2>4. ASSUME self = "recharge"
        PROVE  /\ r.status = "CHARGING" => first[r.drone] = r.tick \/ InWindow(r)
               /\ r.status = "CHARGING_COMPLETED" =>
                    \/ last[r.drone] = r.tick
                    \/ \A q \in RowsOf(r.drone) : q.status = "CHARGING" => InWindow(q) \/ Overtaken(q)
    BY <1>1, <2>1, <2>3, <2>4 DEF LogInv, RechargeInv, LandingSeen, CompletionSeen, Gone
  <2>5. ASSUME self = "charge"
        PROVE  /\ \/ first[r.drone] # None /\ first[r.drone] <= r.tick
                  \/ InWindow(r) \/ Overtaken(r)
               /\ r.status \in Ended => last[r.drone] = r.tick \/ InWindow(r)
    <3>1. StartSeen(r) /\ (r.status \in Ended => EndSeen(r)) /\ FirstsKnown
      BY <1>1, <2>1, <2>5 DEF LogInv, ChargeInv
    <3>2. r \in RowsOf(r.drone)
      BY DEF RowsOf
    <3>3. first[r.drone] # None => first[r.drone] <= r.tick \/ Gone(r)
      <4>1. first[r.drone] # None => first[r.drone] \in Nat
        BY <2>1 DEF TickInv
      <4> QED
        BY <2>1, <3>1, <3>2, <4>1 DEF FirstsKnown
    <3> QED
      BY <2>3, <2>5, <3>1, <3>3 DEF StartSeen, EndSeen, Gone
  <2>6. ASSUME self = "coverage", NEW q \in table, q.stamp \in 1 .. Horizon,
               NEW i \in Issues({r, q})
        PROVE  Handled(r, q, i)
    <3>1. q.stamp # 0
      BY <2>6
    <3>2. CASE r.stamp <= mark \/ q.stamp <= mark
      BY <1>1, <2>1, <2>6, <3>1, <3>2 DEF LogInv, WaveInv
    <3>3. CASE pc = "end" /\ r \in Unread /\ q \in Unread
      <4>1. Issues(Unread) = {}
        BY <1>1, <2>6, <3>3 DEF LogInv, WaveInv
      <4>2. Issues({r, q}) \subseteq Issues(Unread)
        BY <3>3, IssuesMonotone
      <4> QED
        BY <2>6, <4>1, <4>2
    <3> QED
      BY <2>2, <2>6, <3>2, <3>3
  <2> QED
    BY <2>4, <2>5, <2>6
<1> QED
  BY <1>1, LogInvHolds, PTL
=============================================================================
