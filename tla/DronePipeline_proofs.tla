------------------------- MODULE DronePipeline_proofs ------------------------
(***************************************************************************)
(* Proofs about the way of the records, for every number of drones and     *)
(* consumers.  The inductive invariant is TypeOK and Spread, the places of *)
(* the rows pair by pair; that each row is delivered at most once follows. *)
(* LateInv says what can still come before a record of the last tick.      *)
(***************************************************************************)
EXTENDS DronePipeline, FiniteSetTheorems, SequenceTheorems, TLAPS

(* Accounted, set by set.                                                  *)
Spread ==
    /\ 1 .. next = Held \cup buffer \cup taken \cup table \cup lost \cup dropped
    /\ Held \cap (buffer \cup taken \cup table \cup lost \cup dropped) = {}
    /\ buffer \cap (taken \cup table \cup lost \cup dropped) = {}
    /\ taken \cap (table \cup lost \cup dropped) = {}
    /\ table \cap (lost \cup dropped) = {}
    /\ lost \cap dropped = {}
    /\ \A c, d \in Consumers : c # d => batch[c] \cap batch[d] = {}

(* Nothing is uploaded before the threads are started, and the writer has  *)
(* no rows left when it goes back to the Buffer.                           *)
Quiet ==
    /\ dcPc \in {"connect", "group"} => Len(stream) = 0 /\ writerPc = "off"
    /\ writerPc # "insert" => taken = {}

IInv == TypeOK /\ Quiet /\ Spread

LEMMA SpreadAccounted == Spread => Accounted
<1> SUFFICES ASSUME Spread PROVE Accounted
  OBVIOUS
<1>1. DOMAIN Places = 1 .. 5
  BY DEF Places
<1>2. /\ Places[1] = buffer /\ Places[2] = taken /\ Places[3] = table
      /\ Places[4] = lost /\ Places[5] = dropped
  BY DEF Places
<1>3. UNION {Places[i] : i \in DOMAIN Places}
        = buffer \cup taken \cup table \cup lost \cup dropped
  <2>1. 1 .. 5 = {1, 2, 3, 4, 5}
    OBVIOUS
  <2>2. {Places[i] : i \in DOMAIN Places} = {buffer, taken, table, lost, dropped}
    BY <1>1, <1>2, <2>1
  <2> QED
    BY <2>2
<1>4. ASSUME NEW i \in 1 .. 5, NEW j \in 1 .. 5, i # j PROVE Places[i] \cap Places[j] = {}
  <2>1. /\ buffer \cap taken = {} /\ buffer \cap table = {} /\ buffer \cap lost = {}
        /\ buffer \cap dropped = {} /\ taken \cap table = {} /\ taken \cap lost = {}
        /\ taken \cap dropped = {} /\ table \cap lost = {} /\ table \cap dropped = {}
        /\ lost \cap dropped = {}
    BY DEF Spread
  <2>2. /\ i = 1 \/ i = 2 \/ i = 3 \/ i = 4 \/ i = 5
        /\ j = 1 \/ j = 2 \/ j = 3 \/ j = 4 \/ j = 5
    OBVIOUS
  <2> QED
    BY <1>2, <1>4, <2>1, <2>2
<1>5. ASSUME NEW c \in Consumers, NEW i \in 1 .. 5 PROVE batch[c] \cap Places[i] = {}
  <2>1. batch[c] \subseteq Held
    BY DEF Held
  <2>2. Places[i] \subseteq buffer \cup taken \cup table \cup lost \cup dropped
    BY <1>1, <1>3
  <2> QED
    BY <2>1, <2>2 DEF Spread
<1> QED
  BY <1>1, <1>3, <1>4, <1>5 DEF Accounted, Spread

(* What a read hands out: the rows that follow next, at least none.        *)
LEMMA FetchedRows ==
    ASSUME TypeOK
    PROVE  /\ next + Cardinality(Fetched) \in next .. Len(stream)
           /\ Fetched = next + 1 .. next + Cardinality(Fetched)
           /\ Fetched \subseteq Rows
<1> DEFINE top == Least(next + ReadCount, Len(stream))
<1>1. next \in Nat /\ Len(stream) \in Nat /\ next <= Len(stream) /\ ReadCount \in Nat
  BY PipelineAssumption DEF TypeOK
<1>2. top \in Nat /\ next <= top /\ top <= Len(stream)
  BY <1>1 DEF Least
<1>3. Cardinality(next + 1 .. top) = IF next + 1 > top THEN 0 ELSE top - (next + 1) + 1
  <2>1. next + 1 \in Int /\ top \in Int
    BY <1>1, <1>2
  <2> HIDE DEF top
  <2> QED
    BY <2>1, FS_Interval
<1>4. Cardinality(next + 1 .. top) = top - next
  <2> HIDE DEF top
  <2> QED
    BY <1>1, <1>2, <1>3
<1>5. Fetched = next + 1 .. top
  BY DEF Fetched
<1> HIDE DEF top
<1> QED
  BY <1>1, <1>2, <1>4, <1>5 DEF Rows

LEMMA Constants ==
    /\ Duration \in Nat /\ Duration >= 2 /\ Last \in Nat /\ Last >= 1 /\ Last = Duration - 1
    /\ ReadCount \in Nat /\ ReadCount >= 1 /\ BatchSize \in Nat
    /\ MaxTries \in Nat /\ MaxTries >= 1 /\ MaxErrors \in Nat
BY PipelineAssumption DEF Last

LEMMA InitInv == Init => IInv
<1> SUFFICES ASSUME Init PROVE IInv
  OBVIOUS
<1>1. TypeOK
  <2>1. stream \in Seq(0 .. Last) /\ Len(stream) = 0
    BY DEF Init
  <2>2. batch \in [Consumers -> SUBSET Rows]
    BY DEF Init
  <2>3. /\ tries \in 0 .. MaxTries - 1 /\ at \in [Sources -> 0 .. Duration]
        /\ maxTick \in 0 .. Last /\ errors \in 0 .. MaxErrors
    BY Constants DEF Init
  <2>4. next \in 0 .. Len(stream)
    BY <2>1 DEF Init
  <2> QED
    BY <2>1, <2>2, <2>3, <2>4 DEF Init, TypeOK
<1>2. Held = {}
  BY DEF Init, Held
<1>3. Spread
  BY <1>2 DEF Init, Spread
<1>4. Quiet
  BY DEF Init, Quiet
<1> QED
  BY <1>1, <1>3, <1>4 DEF IInv

(* The stream only grows, so rows remain rows.                             *)
LEMMA Appended ==
    ASSUME TypeOK, NEW t \in 0 .. Last, stream' = Append(stream, t)
    PROVE  /\ stream' \in Seq(0 .. Last)
           /\ Len(stream') = Len(stream) + 1
           /\ Rows \subseteq Rows'
<1>1. stream' \in Seq(0 .. Last) /\ Len(stream') = Len(stream) + 1 /\ Len(stream) \in Nat
  BY DEF TypeOK
<1> QED
  BY <1>1 DEF Rows

(* A record is of a tick of the simulation.                                *)
LEMMA RecordTick ==
    ASSUME TypeOK, NEW s \in Sources, at[s] <= Last
    PROVE  at[s] \in 0 .. Last /\ at[s] + 1 \in 0 .. Duration
<1>1. at[s] \in 0 .. Duration /\ at[s] <= Last
  BY DEF TypeOK
<1> QED
  BY <1>1, Constants

(* The steps of the sources add at most one record, and leave the threads  *)
(* of DroneControl alone.                                                  *)
SourceStep == Waves \/ ReleaseDrone \/ PassTick

LEMMA SourceSteps ==
    ASSUME SourceStep
    PROVE  /\ dcPc \notin {"connect", "group"}
           /\ UNCHANGED <<controlVars, consumerVars, buffer, writerVars, errors>>
           /\ (\E s \in Sources : Record(s)) \/ UNCHANGED stream
<1> USE DEF sourceVars
<1>1. ASSUME NEW d \in Drones, Upload(d)
      PROVE  \E s \in Sources : Record(s)
  BY <1>1 DEF Upload, Sources
<1>2. ASSUME ReleaseDrone
      PROVE  \E s \in Sources : Record(s)
  BY <1>2 DEF ReleaseDrone, Sources
<1>3. ASSUME NEW s \in Sources, Record(s)
      PROVE  /\ dcPc \notin {"connect", "group"}
             /\ UNCHANGED <<controlVars, consumerVars, buffer, writerVars, errors>>
  BY <1>3 DEF Record, Begun
<1>4. ASSUME PassTick \/ \E d \in Drones : Leave(d)
      PROVE  /\ dcPc \notin {"connect", "group"}
             /\ UNCHANGED <<controlVars, consumerVars, buffer, writerVars, errors, stream>>
  BY <1>4 DEF PassTick, Leave, Begun
<1> QED
  BY <1>1, <1>2, <1>3, <1>4 DEF SourceStep, Waves

LEMMA TypeNext == TypeOK /\ [Next]_vars => TypeOK'
<1> SUFFICES ASSUME TypeOK, [Next]_vars PROVE TypeOK'
  OBVIOUS
<1> USE DEF controlVars, sourceVars, consumerVars, writerVars
<1>1. ASSUME Connect PROVE TypeOK'
  BY <1>1, Constants DEF Connect, TypeOK, Rows
<1>2. ASSUME ConnectFails PROVE TypeOK'
  <2>1. tries' \in 0 .. MaxTries - 1
    BY <1>2, Constants DEF ConnectFails, TypeOK
  <2> QED
    BY <1>2, <2>1 DEF ConnectFails, TypeOK, Rows
<1>3. ASSUME CreateGroup PROVE TypeOK'
  BY <1>3 DEF CreateGroup, TypeOK, Rows
<1>4. ASSUME EndTicks PROVE TypeOK'
  BY <1>4 DEF EndTicks, TypeOK, Rows
<1>5. ASSUME JoinWriter PROVE TypeOK'
  BY <1>5 DEF JoinWriter, TypeOK, Rows
<1>6. ASSUME NEW s \in Sources, Record(s), at' \in [Sources -> 0 .. Duration] PROVE TypeOK'
  <2>1. Rows \subseteq Rows' /\ stream' \in Seq(0 .. Last) /\ Len(stream') = Len(stream) + 1
    BY <1>6, RecordTick, Appended DEF Record
  <2>2. next' \in 0 .. Len(stream')
    BY <1>6, <2>1 DEF Record, TypeOK
  <2>3. batch' \in [Consumers -> SUBSET Rows']
    BY <1>6, <2>1 DEF Record, TypeOK
  <2> QED
    BY <1>6, <2>1, <2>2, <2>3 DEF Record, TypeOK
<1>7. CASE SourceStep
  <2>1. ASSUME NEW s \in Sources, at[s] <= Last, at' = [at EXCEPT ![s] = @ + 1]
        PROVE  at' \in [Sources -> 0 .. Duration]
    BY <2>1, RecordTick DEF TypeOK
  <2>2. ASSUME NEW d \in Drones, Upload(d) PROVE TypeOK'
    <3>1. d \in Sources /\ Record(d) /\ at[d] <= Last /\ at' = [at EXCEPT ![d] = @ + 1]
      BY <2>2 DEF Upload, Record, Sources
    <3> QED
      BY <1>6, <2>1, <3>1
  <2>3. ASSUME NEW d \in Drones, Leave(d) PROVE TypeOK'
    BY <2>3 DEF Leave, TypeOK, Rows
  <2>4. CASE ReleaseDrone
    <3>1. at' \in [Sources -> 0 .. Duration]
      BY <2>4 DEF ReleaseDrone, TypeOK
    <3> QED
      BY <1>6, <2>4, <3>1 DEF ReleaseDrone, Sources
  <2>5. CASE PassTick
    <3>1. at' \in [Sources -> 0 .. Duration]
      BY <2>1, <2>5 DEF PassTick, Sources
    <3> QED
      BY <2>5, <3>1 DEF PassTick, TypeOK, Rows
  <2> QED
    BY <1>7, <2>2, <2>3, <2>4, <2>5 DEF SourceStep, Waves
<1>8. ASSUME NEW c \in Consumers, Read(c) PROVE TypeOK'
  <2>1. batch' \in [Consumers -> SUBSET Rows]
    BY <1>8, FetchedRows DEF Read, TypeOK
  <2>2. next' \in 0 .. Len(stream)
    BY <1>8, FetchedRows DEF Read, TypeOK
  <2> QED
    BY <1>8, <2>1, <2>2 DEF Read, TypeOK, Rows
<1>9. ASSUME NEW c \in Consumers, ReadLost(c) PROVE TypeOK'
  <2>1. next' \in 0 .. Len(stream) /\ lost' \subseteq Rows
    BY <1>9, FetchedRows DEF ReadLost, TypeOK
  <2>2. errors' \in 0 .. MaxErrors
    BY <1>9, Constants DEF ReadLost, TypeOK
  <2> QED
    BY <1>9, <2>1, <2>2 DEF ReadLost, TypeOK, Rows
<1>10. ASSUME NEW c \in Consumers, WriteToBuffer(c) PROVE TypeOK'
  <2>1. batch' \in [Consumers -> SUBSET Rows] /\ buffer' \subseteq Rows
    BY <1>10 DEF WriteToBuffer, TypeOK
  <2> QED
    BY <1>10, <2>1 DEF WriteToBuffer, TypeOK, Rows
<1>11. ASSUME ReadFromBuffer PROVE TypeOK'
  BY <1>11 DEF ReadFromBuffer, TypeOK, Rows
<1>12. ASSUME Insert PROVE TypeOK'
  <2>1. PICK S \in SUBSET taken :
          /\ taken' = taken \ S
          /\ maxTick' \in Newest(S)
          /\ \/ db /\ table' = table \cup S /\ UNCHANGED <<dropped, errors>>
             \/ /\ ~db \/ errors < MaxErrors
                /\ dropped' = dropped \cup S
                /\ errors' = IF db THEN errors + 1 ELSE errors
                /\ UNCHANGED table
    BY <1>12 DEF Insert
  <2>2. \A i \in S : stream[i] \in 0 .. Last
    <3>1. taken \subseteq 1 .. Len(stream) /\ stream \in Seq(0 .. Last)
      BY DEF TypeOK, Rows
    <3> QED
      BY <3>1, ElementOfSeq
  <2>3. maxTick' \in 0 .. Last
    BY <2>1, <2>2 DEF Newest, TypeOK
  <2>4. errors' \in 0 .. MaxErrors
    BY <2>1, Constants DEF TypeOK
  <2>5. taken' \subseteq Rows /\ table' \subseteq Rows /\ dropped' \subseteq Rows
    BY <2>1 DEF TypeOK
  <2> QED
    BY <1>12, <2>3, <2>4, <2>5 DEF Insert, TypeOK, Rows
<1>13. ASSUME EndRound PROVE TypeOK'
  BY <1>13 DEF EndRound, TypeOK, Rows
<1>14. CASE UNCHANGED vars
  BY <1>14 DEF vars, TypeOK, Rows
<1> QED
  BY <1>1, <1>2, <1>3, <1>4, <1>5, <1>7, <1>8, <1>9, <1>10, <1>11, <1>12,
     <1>13, <1>14
     DEF Next, Control, SourceStep, Consumer, Writer

LEMMA QuietNext == TypeOK /\ Quiet /\ [Next]_vars => Quiet'
<1> SUFFICES ASSUME TypeOK, Quiet, [Next]_vars PROVE Quiet'
  OBVIOUS
<1> USE DEF Quiet, controlVars, sourceVars, consumerVars, writerVars
<1>1. CASE Control
  BY <1>1 DEF Control, Connect, ConnectFails, CreateGroup, EndTicks, JoinWriter
<1>2. CASE SourceStep
  BY <1>2, SourceSteps
<1>3. CASE Writer
  BY <1>3 DEF Writer, ReadFromBuffer, Insert, EndRound
<1>4. ASSUME NEW c \in Consumers, Consumer(c) PROVE Quiet'
  BY <1>4 DEF Consumer, Read, ReadLost, WriteToBuffer
<1>5. CASE UNCHANGED vars
  BY <1>5 DEF vars
<1> QED
  BY <1>1, <1>2, <1>3, <1>4, <1>5 DEF Next, SourceStep

(* When one consumer's rows change, the others' do not.                    *)
LEMMA HeldChange ==
    ASSUME TypeOK, NEW c \in Consumers, NEW B, batch' = [batch EXCEPT ![c] = B]
    PROVE  /\ Held' = B \cup UNION {batch[d] : d \in Consumers \ {c}}
           /\ Held = batch[c] \cup UNION {batch[d] : d \in Consumers \ {c}}
           /\ batch'[c] = B /\ \A d \in Consumers \ {c} : batch'[d] = batch[d]
<1>1. batch'[c] = B /\ \A d \in Consumers \ {c} : batch'[d] = batch[d]
  BY DEF TypeOK
<1> QED
  BY <1>1 DEF Held

(* A step that leaves the rows where they are.                             *)
LEMMA SpreadUnchanged ==
    ASSUME Spread, UNCHANGED <<next, batch, buffer, taken, table, lost, dropped>>
    PROVE  Spread'
BY DEF Spread, Held

LEMMA SpreadNext == IInv /\ [Next]_vars => Spread'
<1> SUFFICES ASSUME IInv, [Next]_vars PROVE Spread'
  OBVIOUS
<1> USE DEF IInv, controlVars, sourceVars, consumerVars, writerVars
<1>1. ASSUME CreateGroup PROVE Spread'
  <2>1. next = 0 /\ next' = 0
    BY <1>1 DEF CreateGroup, Quiet, TypeOK
  <2> QED
    BY <1>1, <2>1, SpreadUnchanged DEF CreateGroup
<1>2. CASE Control /\ ~CreateGroup
  BY <1>2, SpreadUnchanged DEF Control, Connect, ConnectFails, EndTicks, JoinWriter
<1>3. CASE SourceStep
  <2>1. UNCHANGED <<next, batch, buffer, taken, table, lost, dropped>>
    BY <1>3, SourceSteps
  <2> QED
    BY <2>1, SpreadUnchanged
<1>4. ASSUME NEW c \in Consumers, Read(c) PROVE Spread'
  <2>1. batch[c] = {} /\ batch' = [batch EXCEPT ![c] = Fetched]
    BY <1>4 DEF Read
  <2>2. Held' = Held \cup Fetched
    <3>1. /\ Held' = Fetched \cup UNION {batch[d] : d \in Consumers \ {c}}
          /\ Held = batch[c] \cup UNION {batch[d] : d \in Consumers \ {c}}
      BY <2>1, HeldChange
    <3> QED
      BY <2>1, <3>1
  <2>3. /\ 1 .. next' = (1 .. next) \cup Fetched
        /\ (1 .. next) \cap Fetched = {}
    BY <1>4, FetchedRows DEF Read, TypeOK
  <2>4. \A d, e \in Consumers : d # e => batch'[d] \cap batch'[e] = {}
    <3>1. \A d \in Consumers : batch[d] \subseteq 1 .. next
      BY DEF Spread, Held
    <3> QED
      BY <2>1, <2>3, <3>1, HeldChange DEF Spread
  <2>5. UNCHANGED <<buffer, taken, table, lost, dropped>>
    BY <1>4 DEF Read
  <2> QED
    BY <2>2, <2>3, <2>4, <2>5 DEF Spread
<1>5. ASSUME NEW c \in Consumers, ReadLost(c) PROVE Spread'
  <2>1. /\ 1 .. next' = (1 .. next) \cup Fetched
        /\ (1 .. next) \cap Fetched = {}
    BY <1>5, FetchedRows DEF ReadLost, TypeOK
  <2>2. lost' = lost \cup Fetched /\ UNCHANGED <<batch, buffer, taken, table, dropped>>
    BY <1>5 DEF ReadLost
  <2>3. Held' = Held
    BY <2>2 DEF Held
  <2> QED
    BY <2>1, <2>2, <2>3 DEF Spread
<1>6. ASSUME NEW c \in Consumers, WriteToBuffer(c) PROVE Spread'
  <2>1. batch' = [batch EXCEPT ![c] = {}] /\ buffer' = buffer \cup batch[c]
    BY <1>6 DEF WriteToBuffer
  <2>2. Held = Held' \cup batch[c] /\ Held' \cap batch[c] = {}
    <3>1. Held' = {} \cup UNION {batch[d] : d \in Consumers \ {c}}
      BY <2>1, HeldChange
    <3>2. Held = batch[c] \cup UNION {batch[d] : d \in Consumers \ {c}}
      BY <2>1, HeldChange
    <3>3. \A d \in Consumers \ {c} : batch[d] \cap batch[c] = {}
      BY DEF Spread
    <3> QED
      BY <3>1, <3>2, <3>3
  <2>3. \A d, e \in Consumers : d # e => batch'[d] \cap batch'[e] = {}
    BY <2>1, HeldChange DEF Spread
  <2>4. UNCHANGED <<next, taken, table, lost, dropped>>
    BY <1>6 DEF WriteToBuffer
  <2> QED
    BY <2>1, <2>2, <2>3, <2>4 DEF Spread
<1>7. ASSUME ReadFromBuffer PROVE Spread'
  <2>1. /\ taken = {} /\ taken' = buffer /\ buffer' = {}
        /\ UNCHANGED <<next, batch, table, lost, dropped>>
    BY <1>7 DEF ReadFromBuffer, Quiet
  <2>2. Held' = Held
    BY <2>1 DEF Held
  <2> QED
    BY <1>7, <2>1, <2>2 DEF Spread
<1>8. ASSUME Insert PROVE Spread'
  <2>1. PICK S \in SUBSET taken :
          /\ taken' = taken \ S
          /\ \/ table' = table \cup S /\ UNCHANGED dropped
             \/ dropped' = dropped \cup S /\ UNCHANGED table
    BY <1>8 DEF Insert
  <2>2. UNCHANGED <<next, batch, buffer, lost>> /\ Held' = Held
    BY <1>8 DEF Insert, Held
  <2> QED
    BY <2>1, <2>2 DEF Spread
<1>9. CASE EndRound
  BY <1>9, SpreadUnchanged DEF EndRound
<1>10. CASE UNCHANGED vars
  BY <1>10, SpreadUnchanged DEF vars
<1> QED
  BY <1>1, <1>2, <1>3, <1>4, <1>5, <1>6, <1>7, <1>8, <1>9, <1>10
     DEF Next, SourceStep, Consumer, Writer

LEMMA InvNext == IInv /\ [Next]_vars => IInv'
BY TypeNext, QuietNext, SpreadNext DEF IInv

(* Types hold for any number of drones, consumers and ticks.               *)
THEOREM TypeCorrect == Spec => []TypeOK
<1>1. IInv => TypeOK
  BY DEF IInv
<1> QED
  BY <1>1, InitInv, InvNext, PTL DEF Spec

(* No row is twice in the hands of the consumers, the Buffer, the writer   *)
(* and the table, and none vanishes without an error (Buffer.cpp:9-37,     *)
(* DroneControl.cpp:20-53, 156-198).                                       *)
THEOREM AccountedHolds == Spec => []Accounted
<1>1. IInv => Accounted
  BY SpreadAccounted DEF IInv
<1> QED
  BY <1>1, InitInv, InvNext, PTL DEF Spec

-----------------------------------------------------------------------------
(* Delivery                                                                *)

LEMMA RefineInit == Init => AtMostOnce!Init
BY DEF Init, AtMostOnce!Init

LEMMA RefineNext == IInv /\ [Next]_vars => [AtMostOnce!Next]_(AtMostOnce!vars)
<1> SUFFICES ASSUME IInv, [Next]_vars PROVE [AtMostOnce!Next]_(AtMostOnce!vars)
  OBVIOUS
<1> USE DEF IInv, controlVars, sourceVars, consumerVars, writerVars
<1>1. ASSUME UNCHANGED <<stream, table, lost, dropped>> PROVE UNCHANGED AtMostOnce!vars
  BY <1>1 DEF AtMostOnce!vars
<1>2. CASE Control
  BY <1>1, <1>2 DEF Control, Connect, ConnectFails, CreateGroup, EndTicks, JoinWriter
<1>3. ASSUME NEW s \in Sources, Record(s) PROVE AtMostOnce!Produce
  BY <1>3, RecordTick, Appended DEF Record, AtMostOnce!Produce
<1>4. CASE SourceStep
  BY <1>1, <1>3, <1>4, SourceSteps DEF AtMostOnce!Next
<1>5. ASSUME NEW c \in Consumers, ReadLost(c) PROVE AtMostOnce!Next
  <2>1. Fetched \subseteq Rows /\ Fetched \cap (1 .. next) = {}
    BY FetchedRows DEF TypeOK
  <2>2. Fetched \subseteq AtMostOnce!Open
    BY <2>1 DEF AtMostOnce!Open, Spread, Rows
  <2>3. lost' = lost \cup Fetched /\ UNCHANGED <<stream, table, dropped>>
    BY <1>5 DEF ReadLost
  <2>4. AtMostOnce!GiveUp(Fetched)
    BY <2>2, <2>3 DEF AtMostOnce!GiveUp
  <2> QED
    BY <2>1, <2>4 DEF AtMostOnce!Next, Rows
<1>6. ASSUME NEW c \in Consumers, Read(c) \/ WriteToBuffer(c) PROVE UNCHANGED AtMostOnce!vars
  BY <1>1, <1>6 DEF Read, WriteToBuffer
<1>7. ASSUME Insert PROVE AtMostOnce!Next
  <2>1. PICK S \in SUBSET taken :
          \/ table' = table \cup S /\ UNCHANGED dropped
          \/ dropped' = dropped \cup S /\ UNCHANGED table
    BY <1>7 DEF Insert
  <2>2. UNCHANGED <<stream, lost>>
    BY <1>7 DEF Insert
  <2>3. S \subseteq Rows /\ S \cap (table \cup lost \cup dropped) = {}
    BY DEF TypeOK, Spread
  <2>4. S \subseteq AtMostOnce!Open
    BY <2>3 DEF AtMostOnce!Open, Rows
  <2>5. AtMostOnce!Write(S) \/ AtMostOnce!GiveUp(S)
    BY <2>1, <2>2, <2>4 DEF AtMostOnce!Write, AtMostOnce!GiveUp
  <2> QED
    BY <2>3, <2>5 DEF AtMostOnce!Next, Rows
<1>8. CASE ReadFromBuffer \/ EndRound
  BY <1>1, <1>8 DEF ReadFromBuffer, EndRound
<1>9. CASE UNCHANGED vars
  BY <1>1, <1>9 DEF vars
<1> QED
  BY <1>2, <1>4, <1>5, <1>6, <1>7, <1>8, <1>9
     DEF Next, SourceStep, Consumer, Writer, AtMostOnce!Next

(* Each record is inserted once or given up once, for every number of      *)
(* drones, consumers, ticks and errors.                                    *)
THEOREM ImplementsDeliveryHolds == Spec => ImplementsDelivery
BY RefineInit, RefineNext, InitInv, InvNext, PTL
   DEF Spec, ImplementsDelivery, AtMostOnce!Spec

-----------------------------------------------------------------------------
(* LateLossBounded.  Every record of the last tick draws a line: of what   *)
(* stands before it in the stream only what the other consumers have in    *)
(* their hands when it reaches the Buffer can be late once the writer has  *)
(* it.                                                                     *)

OthersMax == (Cardinality(Consumers) - 1) * ReadCount

Finals == {k \in Rows : stream[k] = Last}

(* A consumer holds one reply at a time.                                   *)
OneReply == \A c \in Consumers : \E n \in Nat : batch[c] \subseteq n + 1 .. n + ReadCount

Before(k, S) == {i \in S : i < k}

Overtaken ==
    /\ \A k \in Finals \cap buffer : Cardinality(Before(k, Held)) <= OthersMax
    /\ \A k \in Finals \cap (taken \cup table \cup dropped) :
         Cardinality(Before(k, Held \cup buffer)) <= OthersMax

(* The writer ends with a row of the last tick, and DroneControl with it.  *)
Seen ==
    /\ writerPc = "insert" => taken \cup table \cup dropped # {}
    /\ maxTick # 0 => \E k \in table \cup dropped : stream[k] = maxTick
    /\ writerPc = "end" => \E k \in table \cup dropped : stream[k] = Last
    /\ dcPc = "done" => writerPc = "end"

LEMMA BoundIsInteger == OthersMax \in Int
<1>1. Cardinality(Consumers) \in Int
  BY PipelineAssumption, FS_CardinalityType
<1> QED
  BY <1>1, Constants DEF OthersMax

LEMMA RowsFinite == TypeOK => IsFiniteSet(Rows) /\ \A S \in SUBSET Rows : IsFiniteSet(S)
<1> SUFFICES ASSUME TypeOK PROVE IsFiniteSet(Rows) /\ \A S \in SUBSET Rows : IsFiniteSet(S)
  OBVIOUS
<1>1. IsFiniteSet(Rows)
  BY FS_Interval DEF TypeOK, Rows
<1> QED
  BY <1>1, FS_Subset

(* The rows of all consumers but one fit into one reply for each of them:  *)
(* a row is told by its consumer and its place in the reply.               *)
LEMMA OthersHold ==
    ASSUME OneReply, NEW c \in Consumers
    PROVE  LET U == UNION {batch[d] : d \in Consumers \ {c}}
           IN  IsFiniteSet(U) /\ Cardinality(U) <= OthersMax
<1> DEFINE others == Consumers \ {c}
           U == UNION {batch[d] : d \in others}
           base == [d \in Consumers |-> CHOOSE n \in Nat : batch[d] \subseteq n + 1 .. n + ReadCount]
           holder == [i \in U |-> CHOOSE d \in others : i \in batch[d]]
           f == [i \in U |-> <<holder[i], i - base[holder[i]]>>]
           Slots == others \X (1 .. ReadCount)
<1>1. \A d \in Consumers : base[d] \in Nat /\ batch[d] \subseteq base[d] + 1 .. base[d] + ReadCount
  BY DEF OneReply
<1>2. \A i \in U : holder[i] \in others /\ i \in batch[holder[i]]
  OBVIOUS
<1>3. f \in [U -> Slots]
  <2> HIDE DEF base, holder
  <2> SUFFICES ASSUME NEW i \in U PROVE i - base[holder[i]] \in 1 .. ReadCount
    BY <1>2
  <2> QED
    BY <1>1, <1>2, Constants
<1>4. ASSUME NEW i \in U, NEW j \in U, f[i] = f[j] PROVE i = j
  <2> HIDE DEF base, holder
  <2>1. holder[i] = holder[j] /\ i - base[holder[i]] = j - base[holder[j]]
    BY <1>4
  <2>2. i \in Int /\ j \in Int /\ base[holder[i]] \in Int
    BY <1>1, <1>2, Constants
  <2> QED
    BY <2>1, <2>2
<1>5. f \in Injection(U, Slots)
  <2> HIDE DEF f, Slots, U
  <2> QED
    BY <1>3, <1>4 DEF Injection, IsInjective
<1>6. IsFiniteSet(Slots) /\ Cardinality(Slots) = OthersMax
  <2>1. IsFiniteSet(others) /\ Cardinality(others) = Cardinality(Consumers) - 1
    BY PipelineAssumption, FS_RemoveElement
  <2>2. IsFiniteSet(1 .. ReadCount) /\ Cardinality(1 .. ReadCount) = ReadCount
    BY Constants, FS_Interval
  <2> HIDE DEF others
  <2>3. /\ IsFiniteSet(Slots)
        /\ Cardinality(Slots) = Cardinality(others) * Cardinality(1 .. ReadCount)
    BY <2>1, <2>2, FS_Product, Zenon
  <2> QED
    BY <2>1, <2>2, <2>3, Zenon DEF OthersMax
<1> HIDE DEF f, Slots, U
<1>7. IsFiniteSet(U) /\ Cardinality(U) <= OthersMax
  BY <1>5, <1>6, FS_Injection
<1> QED
  BY <1>7 DEF U

LEMMA OneReplyNext == TypeOK /\ OneReply /\ [Next]_vars => OneReply'
<1> SUFFICES ASSUME TypeOK, OneReply, [Next]_vars PROVE OneReply'
  OBVIOUS
<1> USE DEF controlVars, sourceVars, consumerVars, writerVars
<1>1. ASSUME NEW c \in Consumers, Read(c) PROVE OneReply'
  <2>1. batch' = [batch EXCEPT ![c] = Fetched]
    BY <1>1 DEF Read
  <2>2. Fetched \subseteq next + 1 .. next + ReadCount /\ next \in Nat
    BY Constants DEF Fetched, Least, TypeOK
  <2>3. batch'[c] = Fetched /\ \A d \in Consumers \ {c} : batch'[d] = batch[d]
    BY <2>1, HeldChange
  <2> QED
    BY <2>2, <2>3 DEF OneReply
<1>2. ASSUME NEW c \in Consumers, WriteToBuffer(c) PROVE OneReply'
  <2>1. batch' = [batch EXCEPT ![c] = {}]
    BY <1>2 DEF WriteToBuffer
  <2>2. batch'[c] = {} /\ \A d \in Consumers \ {c} : batch'[d] = batch[d]
    BY <2>1, HeldChange
  <2> QED
    BY <2>2 DEF OneReply
<1>3. ASSUME UNCHANGED batch PROVE OneReply'
  BY <1>3 DEF OneReply
<1>4. CASE Control
  BY <1>3, <1>4 DEF Control, Connect, ConnectFails, CreateGroup, EndTicks, JoinWriter
<1>5. CASE SourceStep
  BY <1>3, <1>5, SourceSteps
<1>6. CASE Writer
  BY <1>3, <1>6 DEF Writer, ReadFromBuffer, Insert, EndRound
<1>7. ASSUME NEW c \in Consumers, ReadLost(c) PROVE OneReply'
  BY <1>3, <1>7 DEF ReadLost
<1>8. CASE UNCHANGED vars
  BY <1>3, <1>8 DEF vars
<1> QED
  BY <1>1, <1>2, <1>4, <1>5, <1>6, <1>7, <1>8 DEF Next, SourceStep, Consumer

LEMMA SeenNext == IInv /\ Seen /\ [Next]_vars => Seen'
<1> SUFFICES ASSUME IInv, Seen, [Next]_vars PROVE Seen'
  OBVIOUS
<1> USE DEF IInv, controlVars, sourceVars, consumerVars, writerVars
<1>1. ASSUME UNCHANGED <<maxTick, taken, table, dropped, stream, writerPc>>,
             dcPc' = "done" => dcPc = "done" \/ writerPc = "end"
      PROVE  Seen'
  BY <1>1 DEF Seen
<1>2. ASSUME CreateGroup PROVE Seen'
  <2>1. writerPc = "off" /\ writerPc' = "take" /\ dcPc' = "ticks"
    BY <1>2 DEF CreateGroup, Quiet
  <2> QED
    BY <1>2, <2>1 DEF CreateGroup, Seen
<1>3. CASE Control /\ ~CreateGroup
  BY <1>1, <1>3 DEF Control, Connect, ConnectFails, EndTicks, JoinWriter
<1>4. ASSUME NEW s \in Sources, Record(s) PROVE \A k \in Rows : stream'[k] = stream[k]
  BY <1>4, RecordTick DEF Record, TypeOK, Rows
<1>5. CASE SourceStep
  <2>1. \A k \in Rows : stream'[k] = stream[k]
    BY <1>4, <1>5, SourceSteps
  <2>2. UNCHANGED <<maxTick, taken, table, dropped, writerPc, dcPc>>
    BY <1>5, SourceSteps
  <2>3. table \cup dropped \subseteq Rows
    BY DEF TypeOK
  <2> QED
    BY <2>1, <2>2, <2>3 DEF Seen
<1>6. ASSUME NEW c \in Consumers, Consumer(c) PROVE Seen'
  BY <1>1, <1>6 DEF Consumer, Read, ReadLost, WriteToBuffer
<1>7. CASE ReadFromBuffer
  BY <1>7 DEF ReadFromBuffer, Seen
<1>8. ASSUME Insert PROVE Seen'
  <2>1. PICK S \in SUBSET taken :
          /\ taken' = taken \ S
          /\ maxTick' \in Newest(S)
          /\ \/ table' = table \cup S /\ UNCHANGED dropped
             \/ dropped' = dropped \cup S /\ UNCHANGED table
    BY <1>8 DEF Insert
  <2>2. UNCHANGED <<stream, writerPc, dcPc>> /\ writerPc = "insert"
    BY <1>8 DEF Insert
  <2>3. maxTick' = maxTick \/ \E k \in S : maxTick' = stream[k]
    BY <2>1 DEF Newest
  <2> QED
    BY <2>1, <2>2, <2>3 DEF Seen
<1>9. ASSUME EndRound PROVE Seen'
  <2>1. /\ writerPc = "insert" /\ taken = {}
        /\ UNCHANGED <<maxTick, taken, table, dropped, stream, dcPc>>
        /\ writerPc' \in {"take", "end"}
    BY <1>9 DEF EndRound
  <2>2. PICK k \in table \cup dropped : TRUE
    BY <2>1 DEF Seen
  <2>3. stream[k] \in 0 .. Last
    BY <2>2, ElementOfSeq DEF TypeOK, Rows
  <2>4. writerPc' = "end" => maxTick = Last
    BY <1>9, Constants DEF EndRound, TypeOK
  <2>5. maxTick = Last => \E j \in table \cup dropped : stream[j] = Last
    <3>1. CASE Last = 0
      BY <2>2, <2>3, <3>1
    <3>2. CASE Last # 0
      BY <3>2 DEF Seen
    <3> QED
      BY <3>1, <3>2
  <2> QED
    BY <2>1, <2>4, <2>5 DEF Seen
<1>10. CASE UNCHANGED vars
  BY <1>1, <1>10 DEF vars
<1> QED
  BY <1>2, <1>3, <1>5, <1>6, <1>7, <1>8, <1>9, <1>10 DEF Next, SourceStep, Writer

LEMMA BeforeFewer ==
    ASSUME TypeOK, NEW k, NEW S \in SUBSET Rows, NEW T, Before(k, T) \subseteq Before(k, S),
           Cardinality(Before(k, S)) <= OthersMax
    PROVE  Cardinality(Before(k, T)) <= OthersMax
<1>1. IsFiniteSet(Before(k, S))
  BY RowsFinite DEF Before
<1>2. /\ Cardinality(Before(k, T)) <= Cardinality(Before(k, S))
      /\ Cardinality(Before(k, T)) \in Nat /\ Cardinality(Before(k, S)) \in Nat
  BY <1>1, FS_Subset, FS_CardinalityType
<1>3. OthersMax \in Int
  BY BoundIsInteger
<1> QED
  BY <1>2, <1>3

(* A step that hands nothing to the consumers that is older than a record  *)
(* of the last tick, and that brings no such record closer to the table.   *)
LEMMA OvertakenKept ==
    ASSUME TypeOK, TypeOK', Overtaken,
           \A k \in Finals' : k \in buffer' => k \in Finals \cap buffer,
           \A k \in Finals' : k \in taken' \cup table' \cup dropped' =>
               k \in Finals \cap (taken \cup table \cup dropped),
           \A k \in Finals \cap (buffer \cup taken \cup table \cup dropped) :
               /\ Before(k, Held') \subseteq Before(k, Held)
               /\ Before(k, Held' \cup buffer') \subseteq Before(k, Held \cup buffer)
    PROVE  Overtaken'
<1>1. Held \subseteq Rows /\ Held \cup buffer \subseteq Rows
  BY DEF TypeOK, Held
<1>2. ASSUME NEW k \in Finals', k \in buffer' PROVE Cardinality(Before(k, Held')) <= OthersMax
  <2>1. k \in Finals \cap buffer
    BY <1>2
  <2>2. Cardinality(Before(k, Held)) <= OthersMax /\ Before(k, Held') \subseteq Before(k, Held)
    BY <2>1 DEF Overtaken
  <2> QED
    BY <1>1, <2>2, BeforeFewer
<1>3. ASSUME NEW k \in Finals', k \in taken' \cup table' \cup dropped'
      PROVE  Cardinality(Before(k, Held' \cup buffer')) <= OthersMax
  <2>1. k \in Finals \cap (taken \cup table \cup dropped)
    BY <1>3
  <2>2. /\ Cardinality(Before(k, Held \cup buffer)) <= OthersMax
        /\ Before(k, Held' \cup buffer') \subseteq Before(k, Held \cup buffer)
    BY <2>1 DEF Overtaken
  <2> QED
    BY <1>1, <2>2, BeforeFewer
<1> QED
  BY <1>2, <1>3 DEF Overtaken

LEMMA OvertakenNext == IInv /\ IInv' /\ OneReply /\ Overtaken /\ [Next]_vars => Overtaken'
<1> SUFFICES ASSUME IInv, IInv', OneReply, Overtaken, [Next]_vars PROVE Overtaken'
  OBVIOUS
<1> USE DEF IInv, controlVars, sourceVars, consumerVars, writerVars
<1>1. ASSUME UNCHANGED <<stream, batch, buffer, taken, table, dropped>> PROVE Overtaken'
  BY <1>1 DEF Overtaken, Finals, Rows, Held
<1>2. CASE Control
  BY <1>1, <1>2 DEF Control, Connect, ConnectFails, CreateGroup, EndTicks, JoinWriter
<1>3. ASSUME NEW s \in Sources, Record(s) PROVE \A k \in Rows : stream'[k] = stream[k]
  BY <1>3, RecordTick DEF Record, TypeOK, Rows
<1>4. CASE SourceStep
  <2>1. \A k \in Rows : stream'[k] = stream[k]
    BY <1>3, <1>4, SourceSteps
  <2>2. UNCHANGED <<batch, buffer, taken, table, dropped>> /\ Held' = Held
    BY <1>4, SourceSteps DEF Held
  <2>3. buffer \cup taken \cup table \cup dropped \subseteq Rows
    BY DEF TypeOK
  <2>4. \A k \in Rows : k \in Finals' => k \in Finals
    BY <2>1 DEF Finals
  <2> QED
    BY <2>2, <2>3, <2>4, OvertakenKept
<1>5. ASSUME NEW c \in Consumers, Read(c) PROVE Overtaken'
  <2>1. UNCHANGED <<stream, buffer, taken, table, dropped>> /\ Finals' = Finals
    BY <1>5 DEF Read, Finals, Rows
  <2>2. Held' = Held \cup Fetched
    <3>1. batch[c] = {} /\ batch' = [batch EXCEPT ![c] = Fetched]
      BY <1>5 DEF Read
    <3>2. /\ Held' = Fetched \cup UNION {batch[d] : d \in Consumers \ {c}}
          /\ Held = batch[c] \cup UNION {batch[d] : d \in Consumers \ {c}}
      BY <3>1, HeldChange
    <3> QED
      BY <3>1, <3>2
  <2>3. buffer \cup taken \cup table \cup dropped \subseteq 1 .. next
    BY DEF Spread
  <2>4. \A i \in Fetched : \A k \in 1 .. next : ~(i < k)
    <3>1. Fetched \subseteq next + 1 .. Len(stream) /\ next \in Int /\ Len(stream) \in Int
      BY Constants DEF Fetched, Least, TypeOK
    <3> QED
      BY <3>1
  <2>5. \A k \in 1 .. next : Before(k, Held') \subseteq Before(k, Held)
    BY <2>2, <2>4 DEF Before
  <2>6. \A k \in 1 .. next : Before(k, Held' \cup buffer') \subseteq Before(k, Held \cup buffer)
    BY <2>1, <2>2, <2>4 DEF Before
  <2> QED
    BY <2>1, <2>3, <2>5, <2>6, OvertakenKept
<1>6. ASSUME NEW c \in Consumers, ReadLost(c) PROVE Overtaken'
  BY <1>1, <1>6 DEF ReadLost
<1>7. ASSUME NEW c \in Consumers, WriteToBuffer(c) PROVE Overtaken'
  <2> DEFINE others == UNION {batch[d] : d \in Consumers \ {c}}
  <2>1. /\ batch' = [batch EXCEPT ![c] = {}] /\ buffer' = buffer \cup batch[c]
        /\ UNCHANGED <<stream, taken, table, dropped>> /\ Finals' = Finals
    BY <1>7 DEF WriteToBuffer, Finals, Rows
  <2>2. Held' = others /\ Held = batch[c] \cup others
    BY <2>1, HeldChange
  <2>3. IsFiniteSet(others) /\ Cardinality(others) <= OthersMax
    BY OthersHold
  <2> HIDE DEF others
  <2>4. Held \subseteq Rows /\ others \subseteq Rows /\ Held \cup buffer \subseteq Rows
    BY <2>2 DEF TypeOK, Held
  <2>5. ASSUME NEW k PROVE Cardinality(Before(k, others)) <= OthersMax
    <3>1. Before(k, others) \subseteq others
      BY DEF Before
    <3>2. /\ Cardinality(Before(k, others)) <= Cardinality(others)
          /\ Cardinality(Before(k, others)) \in Nat /\ Cardinality(others) \in Nat
      BY <2>3, <3>1, FS_Subset, FS_CardinalityType
    <3>3. OthersMax \in Int
      BY BoundIsInteger
    <3> QED
      BY <2>3, <3>2, <3>3
  <2>6. Held' \cup buffer' = Held \cup buffer
    BY <2>1, <2>2
  <2> QED
    BY <2>1, <2>2, <2>5, <2>6 DEF Overtaken
<1>8. ASSUME ReadFromBuffer PROVE Overtaken'
  <2>1. /\ taken = {} /\ taken' = buffer /\ buffer' = {}
        /\ UNCHANGED <<stream, batch, table, dropped>>
    BY <1>8 DEF ReadFromBuffer, Quiet
  <2>2. Held' = Held /\ Finals' = Finals
    BY <2>1 DEF Held, Finals, Rows
  <2>3. \A k \in Finals \cap buffer : Cardinality(Before(k, Held)) <= OthersMax
    BY DEF Overtaken
  <2>4. ASSUME NEW k \in Finals, k \in table \cup dropped
        PROVE  Cardinality(Before(k, Held)) <= OthersMax
    <3>1. Held \cup buffer \subseteq Rows
      BY DEF TypeOK, Held
    <3>2. Before(k, Held) \subseteq Before(k, Held \cup buffer)
      BY DEF Before
    <3>3. Cardinality(Before(k, Held \cup buffer)) <= OthersMax
      BY <2>4 DEF Overtaken
    <3> QED
      BY <3>1, <3>2, <3>3, BeforeFewer
  <2>5. Held' \cup buffer' = Held
    BY <2>1, <2>2
  <2> QED
    BY <2>1, <2>2, <2>3, <2>4, <2>5 DEF Overtaken
<1>9. ASSUME Insert PROVE Overtaken'
  <2>1. PICK S \in SUBSET taken :
          /\ taken' = taken \ S
          /\ \/ table' = table \cup S /\ UNCHANGED dropped
             \/ dropped' = dropped \cup S /\ UNCHANGED table
    BY <1>9 DEF Insert
  <2>2. UNCHANGED <<stream, batch, buffer>> /\ Held' = Held /\ Finals' = Finals
    BY <1>9 DEF Insert, Held, Finals, Rows
  <2>3. taken' \cup table' \cup dropped' = taken \cup table \cup dropped
    BY <2>1
  <2> QED
    BY <2>2, <2>3 DEF Overtaken
<1>10. CASE EndRound
  BY <1>1, <1>10 DEF EndRound
<1>11. CASE UNCHANGED vars
  BY <1>1, <1>11 DEF vars
<1> QED
  BY <1>2, <1>4, <1>5, <1>6, <1>7, <1>8, <1>9, <1>10, <1>11
     DEF Next, SourceStep, Consumer, Writer

LateInv == OneReply /\ Overtaken /\ Seen

LEMMA LateInit == Init => LateInv
<1> SUFFICES ASSUME Init PROVE LateInv
  OBVIOUS
<1>1. Rows = {} /\ Finals = {}
  BY DEF Init, Rows, Finals
<1>2. OneReply
  BY DEF Init, OneReply
<1>3. Seen
  BY DEF Init, Seen
<1> QED
  BY <1>1, <1>2, <1>3 DEF LateInv, Overtaken

(* DroneControl ends with a record of the last tick in its writer's hands, *)
(* and leaves behind of what stands before that record no more than the    *)
(* other consumers can have had in their hands, however many waves there   *)
(* are, however far they are apart, and whatever the ChargeBase adds       *)
(* (DroneControl.cpp:20, 53, 154, 317-325; ChargeBase.cpp:213).            *)
THEOREM LateLossBoundedHolds == Spec => []LateLossBounded
<1>1. ASSUME IInv, LateInv, dcPc = "done" PROVE Ending # {}
  BY <1>1 DEF LateInv, Seen, Ending
<1>2. ASSUME IInv, LateInv, dcPc = "done", NEW k \in Ending
      PROVE  Cardinality({i \in Late : i < k}) <= OthersMax
  <2>1. k \in Finals /\ k \in 1 .. next /\ k \in table \cup dropped
    BY <1>2 DEF Ending, Finals, IInv, TypeOK, Spread
  <2>2. Before(k, Late) \subseteq Before(k, Held \cup buffer)
    <3> SUFFICES ASSUME NEW i \in Late, i < k PROVE i \in Held \cup buffer
      BY DEF Before
    <3>1. i \in Rows /\ i \notin table \cup lost \cup dropped
      BY DEF Late
    <3>2. i \in 1 .. next
      BY <1>2, <2>1, <3>1 DEF IInv, TypeOK, Rows
    <3>3. taken = {}
      BY <1>2 DEF LateInv, Seen, IInv, Quiet
    <3> QED
      BY <1>2, <3>1, <3>2, <3>3 DEF IInv, Spread
  <2>3. Cardinality(Before(k, Held \cup buffer)) <= OthersMax
    BY <1>2, <2>1 DEF LateInv, Overtaken
  <2>4. Held \cup buffer \subseteq Rows
    BY <1>2 DEF IInv, TypeOK, Held
  <2>5. Cardinality(Before(k, Late)) <= OthersMax
    BY <1>2, <2>2, <2>3, <2>4, BeforeFewer DEF IInv
  <2> QED
    BY <2>5 DEF Before
<1>3. IInv /\ LateInv => LateLossBounded
  BY <1>1, <1>2 DEF LateLossBounded, OthersMax
<1>4. IInv /\ IInv' /\ LateInv /\ [Next]_vars => LateInv'
  BY OneReplyNext, OvertakenNext, SeenNext DEF LateInv, IInv
<1> QED
  BY <1>3, <1>4, LateInit, InitInv, InvNext, PTL DEF Spec
=============================================================================
