---------------------------- MODULE DronePipeline ----------------------------
(***************************************************************************)
(* The way of the drones' records from the Redis stream scanner_stream to  *)
(* the table drone_logs: DroneControl's consumer threads, the Buffer, the  *)
(* database writer, and the end of DroneControl                            *)
(* (src/DroneControl/DroneControl.cpp, src/Database/).                     *)
(*                                                                         *)
(* The waves write a record per drone and tick, the ChargeBase one for     *)
(* each drone it releases.  A record is its place in the stream; all that  *)
(* matters of its contents is the tick.  The records of a source are in    *)
(* order; those of two sources need not be: a wave can be ahead of another *)
(* (ScannerManager), and the ChargeBase ends its tick without the waves.   *)
(***************************************************************************)
EXTENDS Integers, Sequences, FiniteSets

CONSTANTS
    Drones,         \* drones, which upload a record in every tick
    Charger,        \* the ChargeBase, which records the drones it releases
    Consumers,      \* the consumer threads
    Duration,       \* sim_duration_ticks
    MaxStream,      \* bound: the ChargeBase adds to a shorter stream only
    ReadCount,      \* records XREADGROUP returns at most
    BatchSize,      \* rows of one INSERT
    MaxTries,       \* attempts of get_DB
    MaxErrors       \* bound: lost replies and failed queries

ASSUME PipelineAssumption ==
    /\ IsFiniteSet(Drones) /\ Charger \notin Drones
    /\ IsFiniteSet(Consumers) /\ Consumers # {}
    /\ {ReadCount, BatchSize, MaxTries} \subseteq Nat \ {0}
    /\ Duration \in Nat /\ Duration > 1
    /\ {MaxStream, MaxErrors} \subseteq Nat

Sources == Drones \cup {Charger}

VARIABLES
    dcPc,       \* control point of DroneControl
    tries,      \* attempts to reach the database
    db,         \* is there a database with its tables?
    group,      \* was the consumer group created?
    alive,      \* drones that still upload
    at,         \* the tick each source is in
    stream,     \* the ticks of the records in scanner_stream
    next,       \* records handed to a consumer of the group
    batch,      \* rows in the hands of each consumer
    buffer,     \* rows in the Buffer
    writerPc,   \* control point of WriteDroneDataToDB
    taken,      \* rows it has taken from the Buffer and not yet inserted
    maxTick,    \* max_tick
    table,      \* rows in drone_logs
    lost,       \* rows whose reply was lost on the way to a consumer
    dropped,    \* rows of a failed query
    errors      \* how many errors there were

controlVars == <<dcPc, tries, db, group>>
sourceVars == <<alive, at, stream>>
consumerVars == <<next, batch, lost>>
writerVars == <<writerPc, taken, maxTick, table, dropped>>
vars == <<dcPc, tries, db, group, alive, at, stream, next, batch, buffer,
          writerPc, taken, maxTick, table, lost, dropped, errors>>

Last == Duration - 1
Rows == 1 .. Len(stream)
Unread == next + 1 .. Len(stream)
Held == UNION {batch[c] : c \in Consumers}

Least(m, n) == IF m < n THEN m ELSE n

Init ==
    /\ dcPc = "connect" /\ tries = 0 /\ db = FALSE /\ group = FALSE
    /\ alive = Drones /\ at = [s \in Sources |-> 0] /\ stream = <<>>
    /\ next = 0 /\ batch = [c \in Consumers |-> {}] /\ lost = {}
    /\ buffer = {}
    /\ writerPc = "off" /\ taken = {} /\ maxTick = 0 /\ table = {} /\ dropped = {}
    /\ errors = 0

-----------------------------------------------------------------------------
(* DroneControl                                                            *)

(* get_DB: connect and create the tables; give up after MaxTries, and go   *)
(* on without.                                                             *)
Connect ==
    /\ dcPc = "connect"
    /\ dcPc' = "group" /\ db' = TRUE /\ tries' = 0
    /\ UNCHANGED <<group, sourceVars, consumerVars, buffer, writerVars, errors>>

(* Mutant: the attempts are not limited.                                   *)
ConnectFailsForever ==
    /\ dcPc = "connect"
    /\ tries' = tries + 1
    /\ UNCHANGED <<dcPc, db, group, sourceVars, consumerVars, buffer, writerVars, errors>>

ConnectFails ==
    /\ dcPc = "connect"
    /\ \/ tries + 1 < MaxTries /\ tries' = tries + 1 /\ UNCHANGED dcPc
       \/ tries + 1 = MaxTries /\ tries' = 0 /\ dcPc' = "group"
    /\ UNCHANGED <<db, group, sourceVars, consumerVars, buffer, writerVars, errors>>

(* xgroup_create at the end of the stream; its failure is only logged.     *)
(* The threads are started after it, and the ticks begin.                  *)
CreateGroup ==
    /\ dcPc = "group"
    /\ group' \in BOOLEAN
    /\ next' = Len(stream)
    /\ dcPc' = "ticks" /\ writerPc' = "take"
    /\ UNCHANGED <<tries, db, sourceVars, batch, lost, buffer, taken, maxTick, table,
                   dropped, errors>>

(* DroneControl's loop is over when it has reported the last tick.  Main   *)
(* begins that tick when the ChargeBase has ended the one before, which is *)
(* TickLoop's Lockstep; a wave may be in any tick.                         *)
EndTicks ==
    /\ dcPc = "ticks" /\ at[Charger] >= Last
    /\ dcPc' = "join"
    /\ UNCHANGED <<tries, db, group, sourceVars, consumerVars, buffer, writerVars, errors>>

JoinWriter ==
    /\ dcPc = "join" /\ writerPc = "end"
    /\ dcPc' = "done"
    /\ UNCHANGED <<tries, db, group, sourceVars, consumerVars, buffer, writerVars, errors>>

-----------------------------------------------------------------------------
(* The sources.  The first drone leaves when DroneControl has begun its    *)
(* ticks, since it commands the first wave.                                *)

Begun == dcPc \notin {"connect", "group"}

Record(s) ==
    /\ Begun
    /\ at[s] <= Last
    /\ stream' = Append(stream, at[s])
    /\ UNCHANGED <<controlVars, alive, consumerVars, buffer, writerVars, errors>>

(* UploadData at the end of the wave's tick.                               *)
Upload(d) ==
    /\ d \in alive
    /\ Record(d)
    /\ at' = [at EXCEPT ![d] = @ + 1]

(* The drone is deleted, or the pipeline of its wave fails.                *)
Leave(d) ==
    /\ Begun
    /\ d \in alive /\ at[d] <= Last
    /\ alive' = alive \ {d}
    /\ UNCHANGED <<controlVars, at, stream, consumerVars, buffer, writerVars, errors>>

(* The ChargeBase releases any number of drones in a tick.                 *)
ReleaseDrone ==
    /\ Len(stream) < MaxStream
    /\ Record(Charger)
    /\ UNCHANGED at

(* The ChargeBase ends its tick.                                           *)
PassTick ==
    /\ Begun
    /\ at[Charger] <= Last
    /\ at' = [at EXCEPT ![Charger] = @ + 1]
    /\ UNCHANGED <<controlVars, alive, stream, consumerVars, buffer, writerVars, errors>>

-----------------------------------------------------------------------------
(* ConsumerThreadRun                                                       *)

(* XREADGROUP hands out the oldest unread records, to this consumer only.  *)
Fetched == next + 1 .. Least(next + ReadCount, Len(stream))

(* Mutant: a consumer reads on before it has handed over what it has.      *)
ReadOn(c) ==
    /\ dcPc \in {"ticks", "join"} /\ group
    /\ Unread # {}
    /\ batch' = [batch EXCEPT ![c] = @ \cup Fetched]
    /\ next' = next + Cardinality(Fetched)
    /\ UNCHANGED <<controlVars, sourceVars, buffer, writerVars, lost, errors>>

Read(c) ==
    /\ dcPc \in {"ticks", "join"} /\ group
    /\ batch[c] = {} /\ Unread # {}
    /\ batch' = [batch EXCEPT ![c] = Fetched]
    /\ next' = next + Cardinality(Fetched)
    /\ UNCHANGED <<controlVars, sourceVars, buffer, writerVars, lost, errors>>

(* Mutant: the records are read from the stream, and not for a group.      *)
ReadLostAgain(c) ==
    /\ dcPc \in {"ticks", "join"} /\ group
    /\ batch[c] = {} /\ Unread # {}
    /\ errors < MaxErrors
    /\ errors' = errors + 1
    /\ lost' = lost \cup Fetched
    /\ UNCHANGED <<controlVars, sourceVars, buffer, writerVars, batch, next>>

(* The reply does not arrive (TimeoutError); nobody asks for it again.     *)
ReadLost(c) ==
    /\ dcPc \in {"ticks", "join"} /\ group
    /\ batch[c] = {} /\ Unread # {}
    /\ errors < MaxErrors
    /\ errors' = errors + 1
    /\ lost' = lost \cup Fetched
    /\ next' = next + Cardinality(Fetched)
    /\ UNCHANGED <<controlVars, sourceVars, buffer, writerVars, batch>>

WriteToBuffer(c) ==
    /\ batch[c] # {}
    /\ buffer' = buffer \cup batch[c]
    /\ batch' = [batch EXCEPT ![c] = {}]
    /\ UNCHANGED <<controlVars, sourceVars, next, lost, writerVars, errors>>

-----------------------------------------------------------------------------
(* WriteDroneDataToDB                                                      *)

(* Mutant: the Buffer is not cleared.                                      *)
ReadFromBufferKeeps ==
    /\ writerPc = "take" /\ buffer # {}
    /\ taken' = buffer
    /\ writerPc' = "insert"
    /\ UNCHANGED <<controlVars, sourceVars, consumerVars, buffer, maxTick, table, dropped,
                   errors>>

ReadFromBuffer ==
    /\ writerPc = "take" /\ buffer # {}
    /\ taken' = buffer /\ buffer' = {}
    /\ writerPc' = "insert"
    /\ UNCHANGED <<controlVars, sourceVars, consumerVars, maxTick, table, dropped, errors>>

(* max_tick with the rows S.                                               *)
Newest(S) ==
    LET ticks == {maxTick} \cup {stream[i] : i \in S}
    IN  {t \in ticks : \A u \in ticks : u <= t}

(* Mutant: only rows that were inserted count for max_tick.                *)
InsertCountsInserted ==
    /\ writerPc = "insert" /\ taken # {}
    /\ \E S \in SUBSET taken :
         /\ Cardinality(S) = Least(BatchSize, Cardinality(taken))
         /\ taken' = taken \ S
         /\ \/ /\ db /\ table' = table \cup S
               /\ maxTick' \in Newest(S)
               /\ UNCHANGED <<dropped, errors>>
            \/ /\ ~db \/ errors < MaxErrors
               /\ dropped' = dropped \cup S
               /\ errors' = IF db THEN errors + 1 ELSE errors
               /\ UNCHANGED <<table, maxTick>>
    /\ UNCHANGED <<controlVars, sourceVars, consumerVars, buffer, writerPc>>

(* The loop over the rows: an INSERT per BatchSize rows and one for the    *)
(* rest, max_tick up to date before each.                                  *)
Insert ==
    /\ writerPc = "insert" /\ taken # {}
    /\ \E S \in SUBSET taken :
         /\ Cardinality(S) = Least(BatchSize, Cardinality(taken))
         /\ taken' = taken \ S
         /\ maxTick' \in Newest(S)
         /\ \/ db /\ table' = table \cup S /\ UNCHANGED <<dropped, errors>>
            \/ /\ ~db \/ errors < MaxErrors
               /\ dropped' = dropped \cup S
               /\ errors' = IF db THEN errors + 1 ELSE errors
               /\ UNCHANGED table
    /\ UNCHANGED <<controlVars, sourceVars, consumerVars, buffer, writerPc>>

EndRound ==
    /\ writerPc = "insert" /\ taken = {}
    /\ writerPc' = IF maxTick < Duration - 1 THEN "take" ELSE "end"
    /\ UNCHANGED <<controlVars, sourceVars, consumerVars, buffer, taken, maxTick, table,
                   dropped, errors>>

-----------------------------------------------------------------------------
Control == Connect \/ ConnectFails \/ CreateGroup \/ EndTicks \/ JoinWriter

Waves == \E d \in Drones : Upload(d) \/ Leave(d)

Consumer(c) == Read(c) \/ ReadLost(c) \/ WriteToBuffer(c)

Writer == ReadFromBuffer \/ Insert \/ EndRound

Next ==
    \/ Control
    \/ Waves
    \/ ReleaseDrone
    \/ PassTick
    \/ Writer
    \/ \E c \in Consumers : Consumer(c)

Spec == Init /\ [][Next]_vars

(* Threads are scheduled by the operating system, the ticks by Main.  No   *)
(* drone need ever be charged.                                             *)
FairSpec ==
    /\ Spec
    /\ WF_vars(Control) /\ WF_vars(Waves) /\ WF_vars(PassTick) /\ WF_vars(Writer)
    /\ \A c \in Consumers : WF_vars(Consumer(c))

-----------------------------------------------------------------------------
(* Properties                                                              *)

(* Types of the threads' states and of the sets of rows.                   *)
TypeOK ==
    /\ dcPc \in {"connect", "group", "ticks", "join", "done"}
    /\ tries \in 0 .. MaxTries - 1
    /\ db \in BOOLEAN /\ group \in BOOLEAN
    /\ alive \subseteq Drones /\ at \in [Sources -> 0 .. Duration]
    /\ stream \in Seq(0 .. Last)
    /\ next \in 0 .. Len(stream)
    /\ batch \in [Consumers -> SUBSET Rows]
    /\ buffer \subseteq Rows /\ taken \subseteq Rows /\ table \subseteq Rows
    /\ lost \subseteq Rows /\ dropped \subseteq Rows
    /\ writerPc \in {"off", "take", "insert", "end"}
    /\ maxTick \in 0 .. Last
    /\ errors \in 0 .. MaxErrors

(* Where the rows are that a consumer has taken from the stream.           *)
Places == <<buffer, taken, table, lost, dropped>>

(* Every record is in exactly one place, however the threads interleave:   *)
(* nothing is inserted twice, and nothing vanishes but by an error         *)
(* (DroneControl.cpp:20, 51, 156; Buffer.cpp:9-37).                        *)
Accounted ==
    /\ 1 .. next = Held \cup UNION {Places[i] : i \in DOMAIN Places}
    /\ \A i, j \in DOMAIN Places : i # j => Places[i] \cap Places[j] = {}
    /\ \A c \in Consumers :
         /\ \A i \in DOMAIN Places : batch[c] \cap Places[i] = {}
         /\ \A d \in Consumers \ {c} : batch[c] \cap batch[d] = {}

(* The pipeline delivers each record at most once.                         *)
AtMostOnce ==
    INSTANCE Delivery WITH produced <- Len(stream), written <- table, givenUp <- lost \cup dropped

(* DroneControl.cpp:5-66, 148-208 and Buffer.cpp:9-37.                     *)
ImplementsDelivery == AtMostOnce!Spec

(* Rows of an earlier tick than the last that DroneControl leaves behind   *)
(* although no error touched them.                                         *)
Late == {i \in Rows \ (table \cup lost \cup dropped) : stream[i] < Last}

(* The records of the last tick that the writer has seen.                  *)
Ending == {k \in table \cup dropped : stream[k] = Last}

(* DroneControl ends at the first record of the last tick its writer sees, *)
(* be it a drone's or the ChargeBase's.  Of what stands before that record *)
(* in the stream it then leaves behind at most what the other consumers    *)
(* had in their hands: one reply each.  Nothing bounds what comes after    *)
(* it, from sources that are behind (DroneControl.cpp:20,53,154,317-325).  *)
LateLossBounded ==
    dcPc = "done" =>
        /\ Ending # {}
        /\ \A k \in Ending :
             Cardinality({i \in Late : i < k}) <= (Cardinality(Consumers) - 1) * ReadCount

(* No record of the last tick can reach the writer any more, or ever.      *)
NoLastRecord ==
    /\ \A s \in alive \cup {Charger} : at[s] > Last
    /\ \A i \in Rows : stream[i] = Last =>
         i \in lost \/ (i \in Unread /\ ~group)

(* DroneControl ends if only one record of the last tick gets through to   *)
(* its writer (DroneControl.cpp:154, 317-325).                             *)
HangsOnlyWithoutLast == <>(dcPc = "done" \/ NoLastRecord)
=============================================================================
