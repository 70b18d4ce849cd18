------------------------------ MODULE Monitors -------------------------------
(***************************************************************************)
(* The monitors (src/Monitors/): threads of a process of their own that    *)
(* poll the table drone_logs while DroneControl fills it.  A poll asks for *)
(* the rows with a later time stamp than the latest it has processed.      *)
(*                                                                         *)
(* The monitors share nothing but that table, which none of them changes:  *)
(* a behaviour follows one of them, self.  The rows that its queries pass  *)
(* over are left out.                                                      *)
(***************************************************************************)
EXTENDS Integers, FiniteSets

CONSTANTS
    Drones,         \* the drones of a wave
    Hungry,         \* those that use twice the energy
    Tables,         \* the tables the simulation may produce, for each class of monitor
    MinRecharge,    \* the shortest charge that is in order (3000)
    MaxRecharge,    \* the longest (4500)
    Gap,            \* ticks a checkpoint stays verified (125)
    MaxCommits,     \* bound: INSERTs of the writer
    MaxErrors       \* bound: errors of the database

ASSUME MonitorsAssumption ==
    /\ IsFiniteSet(Drones)
    /\ Gap \in Nat \ {0}
    /\ MinRecharge \in Nat /\ MaxRecharge \in Nat
    /\ MaxCommits \in Nat \ {0} /\ MaxErrors \in Nat
    /\ Hungry \subseteq Drones

Classes == {"recharge", "charge", "coverage", "area"}

(* The statuses that the queries of a monitor tell apart.                  *)
Statuses ==
    [recharge |-> {"CHARGING", "CHARGING_COMPLETED"},
     charge |-> {"FLYING", "CHARGING", "DEAD"},
     coverage |-> {"WORKING", "UNCHECKED", "DISCONNECTED", "DEAD"},
     area |-> {"WORKING"}]

(* A row of drone_logs; its stamp is 0 until it is inserted.               *)
Row == [drone : Drones, tick : Nat, status : UNION {Statuses[c] : c \in Classes}, stamp : Nat]

Ended == {"CHARGING", "DEAD"}

(* A drone has one row for a tick, lands or dies, once, and is charged     *)
(* once, after its landing.  The landing itself may have no row: a drone   *)
(* that reconnects in that very tick is uploaded as RECONNECTED.           *)
ASSUME TablesAssumption ==
    \A c \in Classes : \A T \in Tables[c] :
        /\ IsFiniteSet(T)
        /\ T \subseteq [drone : Drones, tick : Nat, status : Statuses[c], stamp : {0}]
        /\ \A r, q \in T : r.drone = q.drone =>
             /\ r.tick = q.tick => r = q
             /\ r.status \in Ended /\ q.status \in Ended => r = q
             /\ r.status = "CHARGING_COMPLETED" /\ q.status = "CHARGING_COMPLETED" => r = q
             /\ r.status = "CHARGING" /\ q.status = "CHARGING_COMPLETED" => r.tick < q.tick

VARIABLES
    self,           \* which monitor this is
    table,          \* drone_logs, with the rows that are still to come
    commits,        \* INSERTs so far: the latest time stamp
    pc,             \* control point of the monitor
    mark,           \* latest_processed_time; 0 is 00:00:00
    old,            \* old_processed_time; -1 is -1:-1:-1
    temp,           \* temp_time
    first, last,    \* drone_recharge_time, or first_tick and last_tick of drones_data
    written,        \* drone_id_written
    ready, twice,   \* drones in data_ready, and those more than once
    found,          \* failed_data
    report,         \* the rows the monitor has written to its own table
    visits,         \* ticks in which a drone was at the checkpoint
    visited,        \* area_coverage_data of the checkpoint
    unverified,     \* unverified_ticks of the checkpoint
    errors,         \* how many errors there were
    down,           \* the connection is broken; it is never opened again
    snap, windows,  \* history: what the first query of a poll saw; and, for each poll
                    \* that moved the mark, that and the mark it moved to
    unwritten       \* history: stamps the mark passed although the write had failed

world == <<self, table, commits>>
base == <<mark, old, temp, snap, windows, unwritten>>
drones == <<first, last, written, ready, twice>>
area == <<visits, visited, unverified>>
faults == <<errors, down>>
monitor == <<pc, base, drones, found, report, area, faults>>
vars == <<self, table, commits, pc, mark, old, temp, first, last, written,
          ready, twice, found, report, visits, visited, unverified, errors, down, snap, windows,
          unwritten>>

None == -1

Init ==
    /\ self \in Classes
    /\ table \in Tables[self] /\ commits = 0
    /\ pc = "poll" /\ mark = 0 /\ old = -1 /\ temp = 0
    /\ first = [d \in Drones |-> None] /\ last = [d \in Drones |-> None]
    /\ written = {} /\ ready = {} /\ twice = {} /\ found = {} /\ report = {}
    /\ visits = {} /\ visited = None /\ unverified = {}
    /\ errors = 0 /\ down = FALSE /\ snap = 0 /\ windows = {} /\ unwritten = {}

-----------------------------------------------------------------------------
(* DroneControl's writer                                                   *)

RowsOf(d) == {r \in table : r.drone = d}

Pending == {r \in table : r.stamp = 0}

(* The consumers may hand on rows in another order than the drones' own.   *)
(* The last INSERT takes all there are.                                    *)
Commit ==
    /\ commits < MaxCommits
    /\ \E S \in SUBSET Pending \ {{}} :
         /\ commits + 1 = MaxCommits => S = Pending
         /\ table' = (table \ S) \cup {[r EXCEPT !.stamp = commits + 1] : r \in S}
    /\ commits' = commits + 1
    /\ UNCHANGED <<self, monitor>>

-----------------------------------------------------------------------------
(* What the monitors have in common                                        *)

(* A query: it sees what is committed, later than the mark.                *)
New == {r \in table : r.stamp > mark}

Latest(S) ==
    LET stamps == {temp} \cup {r.stamp : r \in S}
    IN  CHOOSE s \in stamps : \A t \in stamps : t <= s

(* Mutant: old_processed_time takes the time of the poll before.           *)
EndPollLate(latest) ==
    /\ mark' = latest
    /\ IF latest = 0
         THEN pc' = "poll" /\ UNCHANGED old
         ELSE /\ pc' = IF old = latest THEN "end" ELSE "poll"
              /\ old' = mark

(* Mutant: old_processed_time is not saved.                                *)
EndPollForgets(latest) ==
    /\ mark' = latest
    /\ pc' = IF latest # 0 /\ old = latest THEN "end" ELSE "poll"
    /\ UNCHANGED old

(* The end of a poll, with CheckSimulationEnd.                             *)
EndPoll(latest) ==
    /\ mark' = latest
    /\ IF latest = 0
         THEN pc' = "poll" /\ UNCHANGED old
         ELSE /\ pc' = IF old = latest THEN "end" ELSE "poll"
              /\ old' = latest

EndWindow == windows' = windows \cup (IF mark < temp THEN {<<snap, temp>>} ELSE {})

EarliestTick(S) == CHOOSE t \in {r.tick : r \in S} : \A r \in S : t <= r.tick

-----------------------------------------------------------------------------
(* RechargeTimeMonitor                                                     *)

getChargingDrones ==
    /\ self = "recharge" /\ pc = "poll"
    /\ LET R == {r \in New : r.status = "CHARGING"}
       IN  /\ first' = [d \in Drones |->
                          IF first[d] = None /\ R \cap RowsOf(d) # {}
                            THEN EarliestTick(R \cap RowsOf(d))
                            ELSE first[d]]
           /\ temp' = Latest(R)
    /\ snap' = commits
    /\ pc' = "second"
    /\ UNCHANGED <<world, mark, old, windows, unwritten, last, written, ready, twice, found,
                   report, area, faults>>

(* Mutant: a drone that was not seen charging is not passed over.          *)
getChargedDronesUnknown ==
    /\ self = "recharge" /\ pc = "second"
    /\ LET R == {r \in New : r.status = "CHARGING_COMPLETED"}
       IN  /\ last' = [d \in Drones |->
                         IF R \cap RowsOf(d) # {} THEN EarliestTick(R \cap RowsOf(d)) ELSE last[d]]
           /\ temp' = Latest(R)
    /\ pc' = "write"
    /\ UNCHANGED <<world, mark, old, snap, windows, unwritten, first, written, ready, twice,
                   found, report, area, faults>>

(* The second query sees what was committed in between.                    *)
getChargedDrones ==
    /\ self = "recharge" /\ pc = "second"
    /\ LET R == {r \in New : r.status = "CHARGING_COMPLETED"}
       IN  /\ last' = [d \in Drones |->
                         IF first[d] # None /\ R \cap RowsOf(d) # {}
                           THEN EarliestTick(R \cap RowsOf(d))
                           ELSE last[d]]
           /\ temp' = Latest(R)
    /\ pc' = "write"
    /\ UNCHANGED <<world, mark, old, snap, windows, unwritten, first, written, ready, twice,
                   found, report, area, faults>>

Judged == {d \in Drones : last[d] # None}
Duration(d) == last[d] - first[d]

checkDroneRechargeTime ==
    /\ self = "recharge" /\ pc = "write"
    /\ written' = Judged
    /\ report' = report \cup
         {[drone |-> d, ticks |-> Duration(d)] :
            d \in {e \in Judged \ written : Duration(e) < MinRecharge \/ Duration(e) > MaxRecharge}}
    /\ EndPoll(temp)
    /\ EndWindow
    /\ UNCHANGED <<world, temp, snap, unwritten, first, last, ready, twice, found, area, faults>>

(* Any error leaves the loop and ends the thread.                          *)
RechargeError ==
    /\ self = "recharge" /\ pc \in {"poll", "second", "write"}
    /\ errors < MaxErrors
    /\ errors' = errors + 1
    /\ pc' = "failed"
    /\ UNCHANGED <<world, base, drones, found, report, area, down>>

-----------------------------------------------------------------------------
(* DroneChargeMonitor                                                      *)

(* getDroneData: the first row of each drone, then the row of its end.     *)
getNewDrones ==
    /\ self = "charge" /\ pc = "poll" /\ ~down
    /\ first' = [d \in Drones |->
                   IF first[d] = None /\ New \cap RowsOf(d) # {}
                     THEN EarliestTick(New \cap RowsOf(d))
                     ELSE first[d]]
    /\ temp' = Latest({r \in New : r.tick = EarliestTick(New \cap RowsOf(r.drone))})
    /\ snap' = commits
    /\ pc' = "second"
    /\ UNCHANGED <<world, mark, old, windows, unwritten, last, written, ready, twice, found,
                   report, area, faults>>

getEndedDrones ==
    /\ self = "charge" /\ pc = "second"
    /\ LET R == {r \in New : r.status \in Ended}
           known == {d \in Drones : first[d] # None /\ R \cap RowsOf(d) # {}}
       IN  /\ last' = [d \in Drones |->
                         IF d \in known THEN EarliestTick(R \cap RowsOf(d)) ELSE last[d]]
           /\ ready' = ready \cup known
           /\ twice' = twice \cup (ready \cap known)
           /\ temp' = Latest(R)
    /\ pc' = "write"
    /\ UNCHANGED <<world, mark, old, snap, windows, unwritten, first, written, found, report,
                   area, faults>>

FirstTick(d) == EarliestTick(RowsOf(d))

(* What drone d has used, in ticks of normal consumption, and whether that *)
(* looks too much.  The tolerance of the comparison is left out.           *)
Used(d) == (last[d] - FirstTick(d)) * (IF d \in Hungry THEN 2 ELSE 1)
Wrong == {d \in ready : Used(d) > last[d] - first[d]}

(* A key that is there already, or twice in the statement; and a drone of  *)
(* no ticks, whose consumption is infinite.                                *)
Rejected ==
    \/ Wrong \cap (twice \cup report) # {}
    \/ \E d \in Wrong : last[d] = first[d]

ElaborateData ==
    /\ self = "charge" /\ pc = "write"
    /\ ~Rejected
    /\ report' = report \cup Wrong
    /\ ready' = {} /\ twice' = {}
    /\ EndPoll(temp)
    /\ EndWindow
    /\ UNCHANGED <<world, temp, snap, unwritten, first, last, written, found, area, faults>>

(* The catch clause keeps data_ready.                                      *)
ElaborateFails ==
    /\ self = "charge" /\ pc = "write"
    /\ Rejected
    /\ pc' = "poll"
    /\ UNCHANGED <<world, base, drones, found, report, area, faults>>

(* What an error leaves in drone_charge_logs: an INSERT whose connection   *)
(* broke may have been carried out.                                        *)
ErrorInCharge ==
    \/ pc \in {"poll", "second"} /\ down' \in BOOLEAN /\ UNCHANGED report
    \/ pc = "write" /\ Wrong # {} /\ down' \in BOOLEAN /\ UNCHANGED report
    \/ pc = "write" /\ Wrong # {} /\ ~Rejected /\ down' = TRUE /\ report' = report \cup Wrong

(* Mutant: the mark moves after an error, too.                             *)
ChargeErrorMovesMark ==
    /\ self = "charge" /\ ~down /\ errors < MaxErrors
    /\ errors' = errors + 1
    /\ ErrorInCharge
    /\ pc' = "poll" /\ mark' = temp
    /\ UNCHANGED <<world, old, temp, snap, windows, unwritten, drones, found, area>>

(* A query or the INSERT fails.  The thread tries again, on a connection   *)
(* that may be broken for good: then every further poll fails at once.     *)
ChargeError ==
    /\ self = "charge" /\ ~down /\ errors < MaxErrors
    /\ errors' = errors + 1
    /\ ErrorInCharge
    /\ pc' = "poll"
    /\ UNCHANGED <<world, base, drones, found, area>>

-----------------------------------------------------------------------------
(* WaveCoverageMonitor                                                     *)

WorkingIn(S) == {r.tick : r \in {q \in S : q.status \in {"WORKING", "UNCHECKED"}}}

Issue(r, tick, fault) == [drone |-> r.drone, tick |-> tick, fault |-> fault, stamp |-> r.stamp]

(* The query of getWaveVerification over the rows S.                       *)
Issues(S) ==
    {Issue(r, r.tick, "UNCHECKED") : r \in {q \in S : q.status = "UNCHECKED"}}
    \cup {Issue(r, r.tick, "DISCONNECTED") :
            r \in {q \in S : q.status = "DISCONNECTED" /\ q.tick \in WorkingIn(S)}}
    \cup UNION {{Issue(r, t, "DIED") : t \in {u \in WorkingIn(S) : u > r.tick}} :
                  r \in {q \in S : q.status = "DEAD"}}

Fault(i) == [drone |-> i.drone, tick |-> i.tick, fault |-> i.fault]

(* The mark is to move with the issues, be they written or not.            *)
getWaveVerification ==
    /\ self = "coverage" /\ pc = "poll" /\ ~down
    /\ found' = Issues(New)
    /\ temp' = Latest(found')
    /\ snap' = commits
    /\ pc' = "write"
    /\ UNCHANGED <<world, mark, old, windows, unwritten, drones, report, area, faults>>

Written == report \cup {Fault(i) : i \in found}

(* A failed write is caught in WriteToDB and not repeated.                 *)
checkWaveCoverage ==
    /\ self = "coverage" /\ pc = "write"
    /\ \/ report' = Written /\ UNCHANGED <<faults, unwritten>>
       \/ /\ found # {} /\ errors < MaxErrors
          /\ errors' = errors + 1
          /\ unwritten' = unwritten \cup (mark + 1 .. temp)
          /\ \/ down' \in BOOLEAN /\ UNCHANGED report
             \/ down' = TRUE /\ report' = Written
    /\ found' = {}
    /\ EndPoll(temp)
    /\ EndWindow
    /\ UNCHANGED <<world, temp, snap, drones, area>>

(* An error of the query is caught outside the loop, or, in the            *)
(* AreaCoverageMonitor, not at all.                                        *)
QueryError ==
    /\ self \in {"coverage", "area"} /\ pc = "poll"
    /\ \/ down /\ UNCHANGED errors
       \/ errors < MaxErrors /\ errors' = errors + 1
    /\ pc' = "failed"
    /\ UNCHANGED <<world, base, drones, found, report, area, down>>

-----------------------------------------------------------------------------
(* AreaCoverageMonitor, for one checkpoint.  It starts when the other      *)
(* three have ended, which may be at any time.                             *)

AreaQuery ==
    /\ self = "area" /\ pc = "poll"
    /\ visits' \in SUBSET WorkingIn(New)
    /\ pc' = "visit"
    /\ UNCHANGED <<world, base, drones, found, report, visited, unverified, faults>>

(* Mutant: the special starting case is forgotten.                         *)
readAreaCoverageDataNoStart ==
    /\ self = "area" /\ pc = "visit"
    /\ \E t \in visits :
         /\ t > visited /\ \A u \in visits : u > visited => t <= u
         /\ unverified' = unverified \cup
              (IF t - visited > Gap THEN visited + Gap .. t - 1 ELSE {})
         /\ visited' = t
    /\ UNCHANGED <<world, pc, base, drones, found, report, visits, faults>>

readAreaCoverageData ==
    /\ self = "area" /\ pc = "visit"
    /\ \E t \in visits :
         /\ t > visited /\ \A u \in visits : u > visited => t <= u
         /\ unverified' = unverified \cup
              (IF visited = None THEN 0 .. t - 1
               ELSE IF t - visited > Gap THEN visited + Gap .. t - 1
               ELSE {})
         /\ visited' = t
    /\ UNCHANGED <<world, pc, base, drones, found, report, visits, faults>>

InsertUnverifiedTicks ==
    /\ self = "area" /\ pc = "visit"
    /\ \A t \in visits : t <= visited
    /\ pc' = "end"
    /\ \/ report' = {unverified} /\ UNCHANGED errors
       \/ errors < MaxErrors /\ errors' = errors + 1 /\ UNCHANGED report
    /\ UNCHANGED <<world, base, drones, found, area, down>>

-----------------------------------------------------------------------------
Monitor ==
    \/ getChargingDrones \/ getChargedDrones \/ checkDroneRechargeTime \/ RechargeError
    \/ getNewDrones \/ getEndedDrones \/ ElaborateData \/ ElaborateFails \/ ChargeError
    \/ getWaveVerification \/ checkWaveCoverage \/ QueryError
    \/ AreaQuery \/ readAreaCoverageData \/ InsertUnverifiedTicks

Next == Commit \/ Monitor

Spec == Init /\ [][Next]_vars

(* The rows are all inserted, and the monitor's thread is scheduled.       *)
FairSpec == Spec /\ WF_vars(Commit) /\ WF_vars(Monitor)

-----------------------------------------------------------------------------
(* Properties                                                              *)

(* Types; marks never run ahead of the time stamps.                        *)
TypeOK ==
    /\ self \in Classes
    /\ table \subseteq Row /\ \A r \in table : r.stamp <= commits
    /\ commits \in 0 .. MaxCommits
    /\ pc \in {"poll", "second", "write", "visit", "end", "failed"}
    /\ mark \in 0 .. commits /\ temp \in mark .. commits /\ old \in {-1, mark}
    /\ first \in [Drones -> Nat \cup {None}] /\ last \in [Drones -> Nat \cup {None}]
    /\ written \subseteq Judged /\ ready \subseteq Judged /\ twice \subseteq ready
    /\ visits \subseteq Nat /\ visited \in visits \cup {None}
    /\ unverified \subseteq 0 .. visited
    /\ errors \in 0 .. MaxErrors /\ down \in BOOLEAN
    /\ unwritten \subseteq 1 .. mark

InWindow(r) == \E w \in windows : w[1] < r.stamp /\ r.stamp <= w[2]

(* The row was overtaken by a later one of its drone.                      *)
Overtaken(r) ==
    \E q \in RowsOf(r.drone) : q.tick > r.tick /\ q.stamp # 0 /\ (r.stamp = 0 \/ q.stamp < r.stamp)

RealCharge(d, ticks) ==
    \E r, q \in RowsOf(d) :
        /\ r.status = "CHARGING" /\ q.status = "CHARGING_COMPLETED"
        /\ ticks = q.tick - r.tick

(* What the monitors log is true, however their polls and the INSERTs      *)
(* interleave and whatever fails: charging times are exact and out of      *)
(* range, issues of a wave are real, and a drone of normal consumption is  *)
(* reported only if its first row was overtaken or fell between the two    *)
(* queries of a poll (RechargeTimeMonitor.cpp:43-68,                       *)
(* DroneChargeMonitor.cpp:53-96, WaveCoverageMonitor.cpp:100-146).         *)
LogsTellTruth ==
    CASE self = "recharge" ->
           \A e \in report :
               /\ RealCharge(e.drone, e.ticks)
               /\ e.ticks \notin MinRecharge .. MaxRecharge
      [] self = "charge" ->
           \A d \in report \ Hungry :
               \E r \in RowsOf(d) : r.tick = FirstTick(d) /\ (InWindow(r) \/ Overtaken(r))
      [] self = "coverage" ->
           report \subseteq {Fault(i) : i \in Issues(table)}
      [] OTHER -> TRUE

(* A poll of the WaveCoverageMonitor passed one of two rows and did not    *)
(* see the other, which was not inserted yet.                              *)
Split(r, q) ==
    \E w \in windows :
        \/ r.stamp <= w[2] /\ q.stamp > w[1]
        \/ q.stamp <= w[2] /\ r.stamp > w[1]

(* How far the monitor is answerable for the table: up to its mark, and,   *)
(* when it has ended, for all there was when its last poll began.          *)
Horizon == IF pc = "end" THEN snap ELSE mark

(* No monitor ends, or moves its mark, over a row it should have used:     *)
(*  - the RechargeTimeMonitor has the CHARGING row of each drone, unless   *)
(*    it was inserted between the two queries of a poll, and the end of    *)
(*    the charge, unless that row is missing, was inserted between two     *)
(*    queries or came later;                                               *)
(*  - the DroneChargeMonitor has a first row of each drone, unless that    *)
(*    was inserted between the two queries or overtaken by a later one,    *)
(*    and the row of its end, unless inserted between the two queries;     *)
(*  - the WaveCoverageMonitor has logged every issue, unless its write     *)
(*    failed, or a poll passed one of the two rows that make it before     *)
(*    the other was inserted (a drone is DISCONNECTED, or has died, in a   *)
(*    wave that another row shows at work).                                *)
(* What is inserted after the last poll began nobody looks at: a monitor   *)
(* takes a pause of the writer for the end of the simulation               *)
(* (RechargeTimeMonitor.cpp:37-71, DroneChargeMonitor.cpp:98-174,          *)
(* WaveCoverageMonitor.cpp:94-186, Monitor.cpp:51-57).                     *)
NothingSkipped ==
    \A r \in {q \in table : q.stamp \in 1 .. Horizon} :
        /\ self = "recharge" /\ r.status = "CHARGING" =>
             first[r.drone] = r.tick \/ InWindow(r)
        /\ self = "recharge" /\ r.status = "CHARGING_COMPLETED" =>
             \/ last[r.drone] = r.tick
             \/ \A q \in RowsOf(r.drone) : q.status = "CHARGING" => InWindow(q) \/ Overtaken(q)
        /\ self = "charge" =>
             (first[r.drone] # None /\ first[r.drone] <= r.tick) \/ InWindow(r) \/ Overtaken(r)
        /\ self = "charge" /\ r.status \in Ended =>
             last[r.drone] = r.tick \/ InWindow(r)
        /\ self = "coverage" =>
             \A q \in {p \in table : p.stamp \in 1 .. Horizon} : \A i \in Issues({r, q}) :
                 Fault(i) \in report \/ i.stamp \in unwritten \/ Split(r, q)

(* Every tick that is more than Gap ticks after the last visit, or before  *)
(* the first, is logged, and none that is less.  The tick in between the   *)
(* code logs; by the report (Relazione.md:917-918) it is still verified.   *)
(* The property leaves it open (AreaCoverageMonitor.cpp:81-111).           *)
AreaBrackets ==
    /\ {t \in 0 .. visited - 1 : \A v \in visits : v <= t => t - v > Gap} \subseteq unverified
    /\ \A t \in unverified, v \in visits : v <= t => t - v >= Gap

(* There has never been anything for the monitor to process.               *)
Blind ==
    /\ mark = 0 /\ Pending = {}
    /\ IF self = "coverage" THEN Issues(table) = {} ELSE table = {}

(* Every further INSERT of the DroneChargeMonitor will fail.               *)
Poisoned == self = "charge" /\ Rejected

(* Every further poll of the DroneChargeMonitor will fail.                 *)
CutOff == self = "charge" /\ down

(* A monitor ends, or its thread fails, unless it never finds anything to  *)
(* process.  The DroneChargeMonitor, which catches errors inside its loop, *)
(* tries for ever in two cases more: its connection is broken, or it keeps *)
(* an INSERT that the table can only reject (Monitor.cpp:51-57,            *)
(* DroneChargeMonitor.cpp:25-47, Database.h:22).                           *)
EndsUnlessStuck == <>(pc \in {"end", "failed"} \/ Blind \/ Poisoned \/ CutOff)
=============================================================================
