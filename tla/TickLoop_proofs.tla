--------------------------- MODULE TickLoop_proofs ---------------------------
(***************************************************************************)
(* Proofs about the tick protocol, for every duration, every distance of   *)
(* the waves and whatever of the hand-shake fails.                         *)
(*                                                                         *)
(* The inductive invariant says, for each component, where the one token   *)
(* of the current tick is (TokenInv), and, for the hand-shake, how many    *)
(* commands there are at each point of DroneControl's tick and how many of *)
(* them are settled at each point of the ScannerManager's (SpawnInv).      *)
(***************************************************************************)
EXTENDS TickLoop, TLAPS

Pos(c) == IF c = "DC" THEN 1 ELSE IF c = "SM" THEN 2 ELSE 3

(* Main has posted the component's start of this tick and not yet taken    *)
(* its answer; Main has taken the answer.                                  *)
Posted(c) ==
    \/ mainPc = "post" /\ Pos(c) < mainIdx
    \/ mainPc = "wait" /\ mainIdx <= Pos(c)

Answered(c) == mainPc = "wait" /\ Pos(c) < mainIdx

InTick(c) == cpc[c] \in {"work", "poll", "decr", "spawn", "post", "dead"}
Between(c) == cpc[c] \in {"wait", "exit"}

TokenInv(c) ==
    /\ Posted(c) =>
         \/ start[c] = 1 /\ done[c] = 0 /\ cpc[c] = "wait" /\ ctick[c] = mainTick
         \/ start[c] = 0 /\ done[c] = 0 /\ InTick(c) /\ ctick[c] = mainTick
         \/ start[c] = 0 /\ done[c] = 1 /\ Between(c) /\ ctick[c] = mainTick + 1
    /\ ~Posted(c) =>
         /\ start[c] = 0 /\ done[c] = 0 /\ Between(c)
         /\ ctick[c] = IF Answered(c) THEN mainTick + 1 ELSE mainTick
    /\ cpc[c] = "exit" <=> ctick[c] = Duration
    /\ cpc[c] = "poll" => c = "DC"
    /\ cpc[c] \in {"decr", "spawn"} => c = "SM"
    /\ cpc[c] = "dead" => c # "SM"

MainInv ==
    /\ mainPc \in {"post", "wait"} <=> mainTick < Duration
    /\ mainPc \in {"join", "done"} => mainIdx = 1

Settled == waves + missed

(* The commands of all due ticks before t, and no more.                    *)
Covers(t) == Commands * WaveDistance >= t /\ Commands * WaveDistance < t + WaveDistance

(* The command of tick t, which is due, has been given.                    *)
Given(t) == Due(t) /\ Commands * WaveDistance = t + WaveDistance

SpawnInv ==
    /\ spawnWave \in {0, 1}
    /\ spawnWave = 1 =>
         cpc["DC"] \in {"poll", "dead"} /\ cpc["SM"] # "spawn" /\ Given(ctick["DC"])
    /\ cpc["SM"] = "decr" => spawnWave = 1
    /\ cpc["SM"] \in {"decr", "spawn"} =>
         Due(ctick["SM"]) /\ Settled * WaveDistance = ctick["SM"]
    /\ cpc["DC"] \in {"wait", "work", "exit"} => Covers(ctick["DC"])
    /\ cpc["DC"] = "poll" => Given(ctick["DC"])
    /\ cpc["DC"] = "post" => Covers(ctick["DC"] + 1)

IInv ==
    /\ TypeOK
    /\ MainInv
    /\ \A c \in Components : TokenInv(c)
    /\ SpawnInv

-----------------------------------------------------------------------------
(* Arithmetic of the due ticks                                             *)

(* Products of naturals, one step at a time.                               *)
LEMMA Product ==
    ASSUME NEW w \in Nat, NEW d \in Nat
    PROVE  /\ w * d \in Nat
           /\ (w + 1) * d = w * d + d
           /\ w * d = d * w
           /\ 0 * d = 0
OBVIOUS

(* Division with remainder, by which % is brought down to products.        *)
LEMMA Division ==
    ASSUME NEW t \in Nat, NEW d \in Nat \ {0}
    PROVE  \E q, r \in Nat : r < d /\ t = d * q + r /\ r = t % d
<1>1. PICK r \in Nat : r = t % d /\ r < d
  OBVIOUS
<1>2. t \div d \in Nat /\ t = d * (t \div d) + r
  BY <1>1
<1> QED
  BY <1>1, <1>2

(* The only multiple of d from t up to d beyond it is t, if t is one.      *)
LEMMA NextMultiple ==
    ASSUME NEW w \in Nat, NEW d \in Nat \ {0}, NEW t \in Nat,
           t % d = 0, w * d >= t, w * d < t + d
    PROVE  w * d = t
<1>1. PICK q \in Nat : t = d * q
  BY Division
<1>2. w >= q
  <2> SUFFICES ASSUME w + 1 <= q PROVE FALSE
    OBVIOUS
  <2>1. d * (w + 1) <= d * q
    OBVIOUS
  <2> QED
    BY <1>1, <2>1
<1>3. w <= q
  <2> SUFFICES ASSUME q + 1 <= w PROVE FALSE
    OBVIOUS
  <2>1. d * (q + 1) <= d * w
    OBVIOUS
  <2> QED
    BY <1>1, <2>1
<1> QED
  BY <1>1, <1>2, <1>3

(* A wave is due at every multiple of the distance.                        *)
LEMMA MultipleIsDue ==
    ASSUME NEW w \in Nat, NEW d \in Nat \ {0}
    PROVE  (w * d) % d = 0
<1>1. w * d \in Nat
  OBVIOUS
<1>2. PICK q \in Nat, r \in Nat : r < d /\ w * d = d * q + r /\ r = (w * d) % d
  BY <1>1, Division
<1>3. CASE w <= q
  <2>1. d * w <= d * q
    BY <1>3
  <2> QED
    BY <1>2, <2>1
<1>4. CASE q + 1 <= w
  <2>1. d * (q + 1) <= d * w
    BY <1>4
  <2> QED
    BY <1>2, <2>1
<1> QED
  BY <1>3, <1>4

(* The number of commands is a natural number.                             *)
LEMMA CommandsType ==
    ASSUME TypeOK
    PROVE  /\ Settled \in Nat /\ Commands \in Nat /\ spawnWave \in Nat
           /\ Commands = Settled + spawnWave + (IF cpc["SM"] = "spawn" THEN 1 ELSE 0)
           /\ WaveDistance \in Nat \ {0}
           /\ Settled * WaveDistance \in Nat /\ Commands * WaveDistance \in Nat
<1>1. Settled \in Nat /\ Commands \in Nat /\ WaveDistance \in Nat \ {0}
  BY TickLoopAssumption DEF TypeOK, Settled, Commands
<1> QED
  BY <1>1, Product DEF TypeOK, Settled, Commands

(* Before a due tick the commands of the earlier ones are exactly there; a *)
(* tick that is not due needs no new one.                                  *)
LEMMA CoversDue ==
    ASSUME TypeOK, NEW t \in Nat, Covers(t)
    PROVE  /\ Due(t) => Commands * WaveDistance = t
           /\ ~Due(t) => Covers(t + 1)
<1>1. Commands \in Nat /\ WaveDistance \in Nat \ {0} /\ Commands * WaveDistance \in Nat
  BY CommandsType
<1>2. Due(t) => Commands * WaveDistance = t
  BY <1>1, NextMultiple DEF Due, Covers
<1>3. ASSUME ~Due(t) PROVE Commands * WaveDistance # t
  BY <1>1, <1>3, MultipleIsDue DEF Due
<1> QED
  BY <1>1, <1>2, <1>3 DEF Covers

-----------------------------------------------------------------------------
(* The order of the components                                             *)

(* Every component has its place in the order of posts and waits.          *)
LEMMA OrderFacts ==
    /\ Len(Order) = 3
    /\ \A c \in Components : Pos(c) \in 1 .. 3 /\ Order[Pos(c)] = c
    /\ \A i \in 1 .. 3 : Order[i] \in Components /\ Pos(Order[i]) = i
    /\ \A c, e \in Components : Pos(c) = Pos(e) => c = e
BY DEF Order, Components, Pos

(* The inductive invariant holds initially.                                *)
LEMMA InitInv == Init => IInv
<1> SUFFICES ASSUME Init PROVE IInv
  OBVIOUS
<1>1. TypeOK /\ MainInv
  BY TickLoopAssumption DEF Init, TypeOK, MainInv, Components, CpcSet
<1>2. \A c \in Components : TokenInv(c)
  BY TickLoopAssumption, OrderFacts
  DEF Init, TokenInv, Posted, Answered, InTick, Between
<1>3. SpawnInv
  BY TickLoopAssumption, Product DEF Init, SpawnInv, Covers, Components, Commands, Settled
<1> QED
  BY <1>1, <1>2, <1>3 DEF IInv

(* Every step preserves the types.                                         *)
LEMMA TypeInv == IInv /\ [Next]_vars => TypeOK'
<1> SUFFICES ASSUME IInv, [Next]_vars PROVE TypeOK'
  OBVIOUS
<1> USE TickLoopAssumption, OrderFacts DEF TypeOK, IInv
<1>0. "DC" \in Components /\ "SM" \in Components /\ "CB" \in Components
  BY DEF Components
<1>1. CASE MainPost
  BY <1>1 DEF MainPost, spawnVars
<1>2. CASE MainWaitNext
  BY <1>2 DEF MainWaitNext, spawnVars
<1>3. CASE MainWaitLast
  BY <1>3 DEF MainWaitLast, MainInv, spawnVars
<1>4. CASE MainJoin
  BY <1>4 DEF MainJoin, spawnVars
<1>5. ASSUME NEW c \in Components, Begin(c) PROVE TypeOK'
  BY <1>5 DEF Begin, Go, mainVars, spawnVars, CpcSet
<1>6. ASSUME NEW c \in Components, Plain(c) PROVE TypeOK'
  BY <1>6 DEF Plain, Go, mainVars, spawnVars, CpcSet
<1>7. ASSUME NEW c \in Components, End(c) PROVE TypeOK'
  <2>1. ctick[c] < Duration
    BY <1>7 DEF End, TokenInv
  <2> QED
    BY <1>7, <2>1 DEF End, Go, mainVars, spawnVars, CpcSet
<1>8. CASE DCSend
  BY <1>0, <1>8 DEF DCSend, Go, mainVars, CpcSet
<1>9. CASE DCSpawned \/ SMSeen \/ SMGiveUp \/ CBDies
  BY <1>0, <1>9 DEF DCSpawned, SMSeen, SMGiveUp, CBDies, Go, mainVars, spawnVars, CpcSet
<1>10. CASE DCDies
  BY <1>0, <1>10 DEF DCDies, Go, mainVars, CpcSet
<1>11. CASE SMDecr \/ SMDecrFails
  <2>1. spawnWave = 1
    BY <1>11 DEF SMDecr, SMDecrFails, SpawnInv
  <2> QED
    BY <1>0, <1>11, <2>1 DEF SMDecr, SMDecrFails, Go, mainVars, CpcSet
<1>12. CASE SpawnWave \/ SpawnWaveFails
  BY <1>0, <1>12 DEF SpawnWave, SpawnWaveFails, Go, mainVars, CpcSet
<1>13. CASE UNCHANGED vars
  BY <1>13 DEF vars
<1> QED
  BY <1>0, <1>1, <1>2, <1>3, <1>4, <1>5, <1>6, <1>7, <1>8, <1>9, <1>10, <1>11, <1>12, <1>13
  DEF Next, MainNext, DCNext, SMNext, CBNext, Loop

(* Every step keeps Main in its loop for as long as ticks are left.        *)
LEMMA MainInvNext == IInv /\ [Next]_vars => MainInv'
<1> SUFFICES ASSUME IInv, [Next]_vars PROVE MainInv'
  OBVIOUS
<1> USE TickLoopAssumption, OrderFacts DEF TypeOK, IInv, MainInv
<1>1. CASE MainPost
  BY <1>1 DEF MainPost
<1>2. CASE MainWaitNext
  BY <1>2 DEF MainWaitNext
<1>3. CASE MainWaitLast
  BY <1>3 DEF MainWaitLast
<1>4. CASE MainJoin
  BY <1>4 DEF MainJoin
<1>5. CASE UNCHANGED mainVars
  BY <1>5 DEF mainVars
<1> QED
  BY <1>1, <1>2, <1>3, <1>4, <1>5
  DEF Next, MainNext, DCNext, SMNext, CBNext, Loop, Begin, Plain, End,
      DCSend, DCSpawned, DCDies, CBDies, SMSeen, SMGiveUp, SMDecr, SMDecrFails,
      SpawnWave, SpawnWaveFails, vars, mainVars

-----------------------------------------------------------------------------
(* The token of each component                                             *)

(* A step that touches neither Main nor component e keeps e's token.       *)
LEMMA TokenFrame ==
    ASSUME NEW e \in Components, TokenInv(e), UNCHANGED mainVars,
           start'[e] = start[e], done'[e] = done[e],
           cpc'[e] = cpc[e], ctick'[e] = ctick[e]
    PROVE  TokenInv(e)'
BY DEF TokenInv, Posted, Answered, InTick, Between, mainVars

(* A component that moves on inside its tick keeps its token.              *)
LEMMA TokenMove ==
    ASSUME IInv, UNCHANGED <<mainVars, start, done, ctick>>,
           NEW c \in Components, NEW to \in {"poll", "decr", "spawn", "post", "dead"}, Go(c, to),
           InTick(c), to = "poll" => c = "DC", to \in {"decr", "spawn"} => c = "SM",
           to = "dead" => c # "SM",
           NEW e \in Components
    PROVE  TokenInv(e)'
<1> USE DEF IInv, TypeOK
<1>1. CASE e # c
  BY <1>1, TokenFrame DEF Go
<1>2. CASE e = c
  <2>1. cpc'[c] = to
    BY DEF Go
  <2> QED
    BY <1>2, <2>1 DEF TokenInv, Posted, Answered, InTick, Between, mainVars
<1> QED
  BY <1>1, <1>2

(* A step of Main moves a token, or none.                                  *)
LEMMA TokenMain ==
    ASSUME IInv, MainNext, NEW e \in Components
    PROVE  TokenInv(e)'
<1> USE TickLoopAssumption, OrderFacts DEF IInv, TypeOK, MainInv
<1>0. TokenInv(e) /\ Pos(e) \in 1 .. 3
  OBVIOUS
<1>1. CASE MainPost
  <2>1. cpc'[e] = cpc[e] /\ ctick'[e] = ctick[e] /\ done'[e] = done[e] /\ mainTick' = mainTick
    BY <1>1 DEF MainPost
  <2>2. CASE Pos(e) = mainIdx
    <3>1. Order[mainIdx] = e
      BY <2>2
    <3>2. start'[e] = start[e] + 1
      BY <1>1, <3>1 DEF MainPost
    <3>3. ~Posted(e) /\ ~Answered(e) /\ Posted(e)'
      BY <1>1, <2>2 DEF MainPost, Posted, Answered
    <3>4. ctick[e] # Duration
      BY <1>0, <1>1, <3>3 DEF MainPost, TokenInv
    <3> QED
      BY <1>0, <2>1, <3>2, <3>3, <3>4 DEF TokenInv, InTick, Between
  <2>3. CASE Pos(e) # mainIdx
    <3>1. Order[mainIdx] # e
      BY <2>3
    <3>2. start'[e] = start[e]
      BY <1>1, <3>1 DEF MainPost
    <3>3. Posted(e)' = Posted(e) /\ ~Answered(e)' /\ ~Answered(e)
      BY <1>0, <1>1, <2>3 DEF MainPost, Posted, Answered
    <3> QED
      BY <1>0, <2>1, <3>2, <3>3 DEF TokenInv, InTick, Between
  <2> QED
    BY <2>2, <2>3
<1>2. CASE MainWaitNext
  <2>1. cpc'[e] = cpc[e] /\ ctick'[e] = ctick[e] /\ start'[e] = start[e] /\ mainTick' = mainTick
    BY <1>2 DEF MainWaitNext
  <2>2. CASE Pos(e) = mainIdx
    <3>1. Order[mainIdx] = e
      BY <2>2
    <3>2. done[e] > 0 /\ done'[e] = done[e] - 1
      BY <1>2, <3>1 DEF MainWaitNext
    <3>3. Posted(e) /\ ~Posted(e)' /\ Answered(e)'
      BY <1>2, <2>2 DEF MainWaitNext, Posted, Answered
    <3> QED
      BY <1>0, <2>1, <3>2, <3>3 DEF TokenInv, InTick, Between
  <2>3. CASE Pos(e) # mainIdx
    <3>1. Order[mainIdx] # e
      BY <2>3
    <3>2. done'[e] = done[e]
      BY <1>2, <3>1 DEF MainWaitNext
    <3>3. Posted(e)' = Posted(e) /\ Answered(e)' = Answered(e)
      BY <1>0, <1>2, <2>3 DEF MainWaitNext, Posted, Answered
    <3> QED
      BY <1>0, <2>1, <3>2, <3>3 DEF TokenInv, InTick, Between
  <2> QED
    BY <2>2, <2>3
<1>3. CASE MainWaitLast
  <2>1. cpc'[e] = cpc[e] /\ ctick'[e] = ctick[e] /\ start'[e] = start[e] /\ mainTick' = mainTick + 1
    BY <1>3 DEF MainWaitLast
  <2>2. ~Posted(e)' /\ ~Answered(e)'
    BY <1>0, <1>3 DEF MainWaitLast, Posted, Answered
  <2>3. CASE Pos(e) = 3
    <3>1. Order[mainIdx] = e
      BY <1>3, <2>3 DEF MainWaitLast
    <3>2. done[e] > 0 /\ done'[e] = done[e] - 1 /\ Posted(e)
      BY <1>3, <2>3, <3>1 DEF MainWaitLast, Posted
    <3> QED
      BY <1>0, <2>1, <2>2, <3>2 DEF TokenInv, InTick, Between
  <2>4. CASE Pos(e) # 3
    <3>1. Order[mainIdx] # e
      BY <1>3, <2>4 DEF MainWaitLast
    <3>2. done'[e] = done[e] /\ ~Posted(e) /\ Answered(e)
      BY <1>0, <1>3, <2>4, <3>1 DEF MainWaitLast, Posted, Answered
    <3> QED
      BY <1>0, <2>1, <2>2, <3>2 DEF TokenInv, InTick, Between
  <2> QED
    BY <2>3, <2>4
<1>4. CASE MainJoin
  <2>1. ~Posted(e) /\ ~Posted(e)' /\ ~Answered(e) /\ ~Answered(e)'
    BY <1>4 DEF MainJoin, Posted, Answered
  <2> QED
    BY <1>0, <1>4, <2>1 DEF MainJoin, TokenInv, InTick, Between
<1> QED
  BY <1>1, <1>2, <1>3, <1>4 DEF MainNext

(* A step of the loop of a component c moves only the token of c.          *)
LEMMA TokenLoop ==
    ASSUME IInv, NEW c \in Components, Loop(c), NEW e \in Components
    PROVE  TokenInv(e)'
<1> USE TickLoopAssumption DEF IInv, TypeOK
<1>1. CASE Begin(c)
  <2>1. CASE e # c
    BY <1>1, <2>1, TokenFrame DEF Begin, Go
  <2>2. CASE e = c
    <3>1. cpc'[c] = "work" /\ start'[c] = start[c] - 1 /\ done'[c] = done[c] /\ ctick'[c] = ctick[c]
      BY <1>1 DEF Begin, Go
    <3>2. Posted(c) /\ Posted(c)' /\ mainTick' = mainTick
      BY <1>1 DEF Begin, TokenInv, mainVars, Posted
    <3> QED
      BY <1>1, <2>2, <3>1, <3>2 DEF Begin, TokenInv, InTick, Between
  <2> QED
    BY <2>1, <2>2
<1>2. CASE Plain(c)
  BY <1>2, TokenMove DEF Plain, InTick
<1>3. CASE End(c)
  <2>1. CASE e # c
    BY <1>3, <2>1, TokenFrame DEF End, Go
  <2>2. CASE e = c
    <3>1. /\ cpc'[c] = IF ctick[c] + 1 < Duration THEN "wait" ELSE "exit"
          /\ start'[c] = start[c] /\ done'[c] = done[c] + 1 /\ ctick'[c] = ctick[c] + 1
      BY <1>3 DEF End, Go
    <3>2. Posted(c) /\ Posted(c)' /\ mainTick' = mainTick
      BY <1>3 DEF End, TokenInv, Between, mainVars, Posted
    <3> QED
      BY <1>3, <2>2, <3>1, <3>2 DEF End, TokenInv, InTick, Between
  <2> QED
    BY <2>1, <2>2
<1> QED
  BY <1>1, <1>2, <1>3 DEF Loop

(* Every step preserves the tokens.                                        *)
LEMMA TokenNext ==
    ASSUME IInv, [Next]_vars, NEW e \in Components
    PROVE  TokenInv(e)'
<1>0. "DC" \in Components /\ "SM" \in Components /\ "CB" \in Components
  BY DEF Components
<1>1. CASE MainNext
  BY <1>1, TokenMain
<1>2. ASSUME NEW c \in Components, Loop(c) PROVE TokenInv(e)'
  BY <1>2, TokenLoop
<1>3. CASE DCSend \/ DCSpawned \/ DCDies \/ CBDies
  BY <1>0, <1>3, TokenMove DEF DCSend, DCSpawned, DCDies, CBDies, InTick
<1>4. CASE SMSeen \/ SMGiveUp \/ SMDecr \/ SMDecrFails \/ SpawnWave \/ SpawnWaveFails
  BY <1>0, <1>4, TokenMove
  DEF SMSeen, SMGiveUp, SMDecr, SMDecrFails, SpawnWave, SpawnWaveFails, InTick
<1>5. CASE UNCHANGED vars
  BY <1>5, TokenFrame DEF vars, mainVars, IInv
<1> QED
  BY <1>0, <1>1, <1>2, <1>3, <1>4, <1>5 DEF Next, DCNext, SMNext, CBNext

-----------------------------------------------------------------------------
(* The hand-shake                                                          *)

(* Where DroneControl may be, and that components in the same tick agree   *)
(* on its number.                                                          *)
LEMMA TokenFacts ==
    ASSUME IInv
    PROVE  /\ cpc["DC"] \in {"wait", "work", "poll", "post", "exit", "dead"}
           /\ cpc["SM"] # "dead" /\ cpc["SM"] # "poll"
           /\ \A c \in Components : InTick(c) => ctick[c] = mainTick /\ mainTick < Duration
<1>1. \A c \in Components : InTick(c) => ctick[c] = mainTick /\ mainTick < Duration
  BY DEF IInv, TokenInv, InTick, Between, Posted, MainInv
<1> QED
  BY <1>1 DEF IInv, TypeOK, CpcSet, TokenInv, Components

(* While the ScannerManager is between GET and the end of SpawnWave the    *)
(* command of DroneControl's tick has been given.                          *)
LEMMA HandOver ==
    ASSUME IInv, cpc["SM"] \in {"decr", "spawn"}
    PROVE  /\ Commands = Settled + 1
           /\ ctick["SM"] = mainTick
           /\ Commands * WaveDistance = mainTick + WaveDistance
<1>1. ctick["SM"] = mainTick
  BY TokenFacts DEF InTick, Components
<1>2. Commands = Settled + 1
  BY CommandsType DEF IInv, SpawnInv
<1>3. Settled * WaveDistance = mainTick
  BY <1>1 DEF IInv, SpawnInv
<1> QED
  BY <1>1, <1>2, <1>3, CommandsType, Product DEF IInv

(* Every step keeps the hand-shake and the number of commands in step.     *)
LEMMA SpawnNext == IInv /\ [Next]_vars => SpawnInv'
<1> SUFFICES ASSUME IInv, [Next]_vars PROVE SpawnInv'
  OBVIOUS
<1> USE TickLoopAssumption DEF IInv
<1>0. /\ "DC" \in Components /\ "SM" \in Components /\ "CB" \in Components
      /\ ctick["DC"] \in Nat /\ ctick["SM"] \in Nat /\ cpc \in [Components -> CpcSet]
      /\ ctick \in [Components -> 0 .. Duration]
      /\ waves \in Nat /\ missed \in Nat
  BY DEF Components, TypeOK
<1>00. /\ Settled \in Nat /\ Commands \in Nat /\ spawnWave \in Nat
       /\ WaveDistance \in Nat /\ WaveDistance >= 1
       /\ Settled * WaveDistance \in Nat /\ Commands * WaveDistance \in Nat
  BY CommandsType
<1>1. ASSUME UNCHANGED <<spawnVars, cpc, ctick>> PROVE SpawnInv'
  BY <1>1 DEF SpawnInv, Covers, Given, Commands, Settled, spawnVars
<1>2. ASSUME NEW c \in Components, c # "DC", Loop(c) \/ CBDies PROVE SpawnInv'
  <2>1. UNCHANGED spawnVars /\ cpc'["DC"] = cpc["DC"] /\ ctick'["DC"] = ctick["DC"]
    BY <1>0, <1>2 DEF Loop, Begin, Plain, End, CBDies, Go
  <2>2. CASE cpc["SM"] \in {"decr", "spawn"}
    <3>1. cpc'["SM"] = cpc["SM"] /\ ctick'["SM"] = ctick["SM"]
      BY <1>0, <1>2, <2>2 DEF Loop, Begin, Plain, End, CBDies, Go
    <3> QED
      BY <2>1, <3>1 DEF SpawnInv, Covers, Given, Commands, Settled, spawnVars
  <2>3. CASE cpc["SM"] \notin {"decr", "spawn"}
    <3>1. cpc'["SM"] \notin {"decr", "spawn"}
      BY <1>0, <1>2, <2>3 DEF Loop, Begin, Plain, End, CBDies, Go
    <3>2. Commands' = Commands
      BY <2>1, <2>3, <3>1 DEF Commands, spawnVars
    <3> QED
      BY <2>1, <3>1, <3>2 DEF SpawnInv, Covers, Given, spawnVars
  <2> QED
    BY <2>2, <2>3
<1>3. ASSUME UNCHANGED spawnVars, cpc'["SM"] = cpc["SM"], ctick'["SM"] = ctick["SM"]
      PROVE  Commands' = Commands /\ Settled' = Settled /\ spawnWave' = spawnWave
  BY <1>3 DEF Commands, Settled, spawnVars
<1>4. CASE Begin("DC") \/ Plain("DC") \/ End("DC")
  <2>1. UNCHANGED spawnVars /\ cpc'["SM"] = cpc["SM"] /\ ctick'["SM"] = ctick["SM"]
    BY <1>0, <1>4 DEF Begin, Plain, End, Go
  <2>2. spawnWave = 0
    BY <1>4 DEF Begin, Plain, End, SpawnInv
  <2>3. CASE Begin("DC")
    <3>1. cpc'["DC"] = "work" /\ ctick'["DC"] = ctick["DC"] /\ Covers(ctick["DC"])
      BY <1>0, <2>3 DEF Begin, Go, SpawnInv
    <3> QED
      BY <1>3, <2>1, <2>2, <3>1 DEF SpawnInv, Covers
  <2>4. CASE Plain("DC")
    <3>1. cpc'["DC"] = "post" /\ ctick'["DC"] = ctick["DC"] /\ Covers(ctick["DC"])
      BY <1>0, <2>4 DEF Plain, Go, SpawnInv
    <3>2. Covers(ctick["DC"] + 1)
      BY <1>0, <2>4, <3>1, CoversDue DEF Plain
    <3> QED
      BY <1>3, <2>1, <2>2, <3>1, <3>2 DEF SpawnInv, Covers
  <2>5. CASE End("DC")
    <3>1. /\ cpc'["DC"] \in {"wait", "exit"} /\ ctick'["DC"] = ctick["DC"] + 1
          /\ Covers(ctick["DC"] + 1)
      BY <1>0, <2>5 DEF End, Go, SpawnInv
    <3> QED
      BY <1>3, <2>1, <2>2, <3>1 DEF SpawnInv, Covers
  <2> QED
    BY <1>4, <2>3, <2>4, <2>5
<1>5. CASE DCSpawned
  <2>1. UNCHANGED spawnVars /\ cpc'["SM"] = cpc["SM"] /\ ctick' = ctick /\ cpc'["DC"] = "post"
    BY <1>0, <1>5 DEF DCSpawned, Go
  <2>2. spawnWave = 0 /\ Covers(ctick["DC"] + 1)
    BY <1>0, <1>00, <1>5 DEF DCSpawned, SpawnInv, Given, Covers
  <2> QED
    BY <1>3, <2>1, <2>2 DEF SpawnInv, Covers
<1>6. CASE DCSend \/ DCDies
  <2>1. /\ UNCHANGED <<waves, missed>> /\ cpc'["SM"] = cpc["SM"] /\ ctick' = ctick
        /\ cpc'["DC"] \in {"poll", "dead"} /\ cpc["DC"] \in {"work", "poll"}
    BY <1>0, <1>6 DEF DCSend, DCDies, Go
  <2>2. CASE spawnWave' = spawnWave
    <3>1. cpc'["DC"] = "dead"
      BY <1>0, <1>00, <1>6, <2>2 DEF DCSend, DCDies, Go
    <3>2. Commands' = Commands /\ Settled' = Settled
      BY <2>1, <2>2 DEF Commands, Settled
    <3> QED
      BY <2>1, <2>2, <3>1, <3>2 DEF SpawnInv, Given
  <2>3. CASE spawnWave' # spawnWave
    <3>1. cpc["DC"] = "work" /\ Due(ctick["DC"]) /\ spawnWave' = spawnWave + 1
      BY <1>6, <2>3 DEF DCSend, DCDies
    <3>2. spawnWave = 0 /\ Commands * WaveDistance = ctick["DC"]
      BY <1>0, <3>1, CoversDue DEF SpawnInv
    <3>3. cpc["SM"] \notin {"decr", "spawn"}
      <4>1. ctick["DC"] = mainTick
        BY <1>0, <3>1, TokenFacts DEF InTick
      <4> QED
        BY <1>0, <1>00, <3>2, <4>1, HandOver
    <3>4. Commands' = Commands + 1
      BY <1>0, <1>00, <2>1, <3>1, <3>2, <3>3 DEF Commands
    <3>5. Given(ctick["DC"])'
      BY <1>00, <2>1, <3>1, <3>2, <3>4, Product DEF Given, Due
    <3> QED
      BY <2>1, <3>1, <3>2, <3>3, <3>5 DEF SpawnInv
  <2> QED
    BY <2>2, <2>3
<1>7. CASE SMSeen
  <2>1. /\ UNCHANGED spawnVars /\ cpc'["DC"] = cpc["DC"] /\ cpc'["SM"] = "decr" /\ ctick' = ctick
        /\ cpc["SM"] = "work" /\ spawnWave = 1 /\ Due(ctick["SM"])
    BY <1>0, <1>7 DEF SMSeen, Go
  <2>2. Commands' = Commands /\ Settled' = Settled /\ Commands = Settled + 1
    BY <1>0, <2>1 DEF Commands, Settled, spawnVars
  <2>3. ctick["SM"] = ctick["DC"]
    BY <1>0, <2>1, TokenFacts DEF SpawnInv, InTick
  <2>4. Settled * WaveDistance = ctick["SM"]
    BY <1>0, <1>00, <2>1, <2>2, <2>3, Product DEF SpawnInv, Given
  <2> QED
    BY <2>1, <2>2, <2>4 DEF SpawnInv, Covers, Given, spawnVars
<1>8. CASE SMGiveUp
  <2>1. /\ UNCHANGED spawnVars /\ cpc'["DC"] = cpc["DC"] /\ cpc'["SM"] = "post" /\ ctick' = ctick
        /\ cpc["SM"] = "work"
    BY <1>0, <1>8 DEF SMGiveUp, Go
  <2>2. Commands' = Commands
    BY <2>1 DEF Commands, spawnVars
  <2> QED
    BY <2>1, <2>2 DEF SpawnInv, Covers, Given, spawnVars
<1>9. CASE SMDecr \/ SMDecrFails
  <2>1. /\ cpc'["DC"] = cpc["DC"] /\ cpc'["SM"] \in {"spawn", "post"} /\ ctick' = ctick
        /\ cpc["SM"] = "decr" /\ spawnWave = 1
    BY <1>0, <1>9 DEF SMDecr, SMDecrFails, Go, SpawnInv
  <2>2. Commands' = Commands
    BY <1>0, <1>9, <2>1 DEF SMDecr, SMDecrFails, Commands, Go
  <2>3. spawnWave' \in {0, 1} /\ (spawnWave' = 1 => cpc'["SM"] = "post")
    BY <1>0, <1>9, <2>1 DEF SMDecr, SMDecrFails, Go
  <2>4. cpc'["SM"] = "spawn" => Settled' = Settled
    BY <1>0, <1>9 DEF SMDecr, SMDecrFails, Go, Settled
  <2> QED
    BY <2>1, <2>2, <2>3, <2>4 DEF SpawnInv, Covers, Given
<1>10. CASE SpawnWave \/ SpawnWaveFails
  <2>1. /\ cpc'["DC"] = cpc["DC"] /\ cpc'["SM"] = "post" /\ ctick' = ctick
        /\ cpc["SM"] = "spawn" /\ spawnWave' = spawnWave
    BY <1>0, <1>10 DEF SpawnWave, SpawnWaveFails, Go
  <2>2. Commands' = Commands
    BY <1>0, <1>00, <1>10, <2>1 DEF SpawnWave, SpawnWaveFails, Commands
  <2> QED
    BY <2>1, <2>2 DEF SpawnInv, Covers, Given
<1> QED
  BY <1>0, <1>1, <1>2, <1>4, <1>5, <1>6, <1>7, <1>8, <1>9, <1>10
  DEF Next, MainNext, DCNext, SMNext, CBNext, Loop, vars, spawnVars,
      MainPost, MainWaitNext, MainWaitLast, MainJoin

(* Every step preserves the inductive invariant.                           *)
LEMMA NextInv == IInv /\ [Next]_vars => IInv'
BY TypeInv, MainInvNext, TokenNext, SpawnNext DEF IInv

(* One token per component bounds the semaphores and the ticks.            *)
LEMMA InvLockstep == IInv => Lockstep
BY TickLoopAssumption DEF IInv, TypeOK, TokenInv, Lockstep

(* Equal ticks and the SpawnInv of them give the hand-shake.               *)
LEMMA InvHandshake == IInv => Handshake
<1> SUFFICES ASSUME IInv PROVE Handshake
  OBVIOUS
<1>0. "DC" \in Components /\ "SM" \in Components /\ ctick["DC"] \in Nat
  BY TickLoopAssumption DEF Components, IInv, TypeOK
<1>00. /\ Settled \in Nat /\ Commands \in Nat /\ WaveDistance \in Nat
       /\ Commands = Settled + spawnWave + (IF cpc["SM"] = "spawn" THEN 1 ELSE 0)
       /\ WaveDistance >= 1 /\ Commands * WaveDistance \in Nat
  BY CommandsType DEF IInv
<1>1. spawnWave \in {0, 1} /\ (spawnWave = 1 => cpc["DC"] \in {"poll", "dead"})
  BY DEF IInv, SpawnInv
<1>2. cpc["SM"] = "decr" => spawnWave = 1 /\ ctick["SM"] = ctick["DC"]
  BY <1>0, <1>1, TokenFacts DEF IInv, SpawnInv, InTick
<1>3. cpc["SM"] = "spawn" => spawnWave = 0 /\ Due(ctick["SM"])
  BY DEF IInv, SpawnInv
<1>4. ASSUME cpc["DC"] = "poll" PROVE (Commands - 1) * WaveDistance = ctick["DC"]
  <2>1. Commands * WaveDistance = ctick["DC"] + WaveDistance
    BY <1>4 DEF IInv, SpawnInv, Given
  <2>2. (Commands - 1) * WaveDistance = Commands * WaveDistance - WaveDistance
    BY <1>00
  <2> QED
    BY <1>0, <1>00, <2>1, <2>2
<1>5. ASSUME cpc["DC"] = "work", Due(ctick["DC"])
      PROVE  (waves + missed) * WaveDistance = ctick["DC"]
  <2>1. Commands * WaveDistance = ctick["DC"] /\ spawnWave = 0
    BY <1>0, <1>5, CoversDue DEF IInv, SpawnInv
  <2>2. ctick["DC"] = mainTick
    BY <1>0, <1>5, TokenFacts DEF InTick
  <2>3. cpc["SM"] # "spawn"
    BY <1>0, <1>00, <2>1, <2>2, HandOver
  <2> QED
    BY <1>00, <2>1, <2>3 DEF Settled
<1> QED
  BY <1>1, <1>2, <1>3, <1>4, <1>5 DEF Handshake

(* Semaphores, counters and control points keep their types.               *)
THEOREM TypeCorrect == Spec => []TypeOK
<1>1. IInv => TypeOK
  BY DEF IInv
<1> QED
  BY <1>1, InitInv, NextInv, PTL DEF Spec

(* No component is a whole tick ahead of or behind Main (main.cpp:190-197).*)
THEOREM LockstepHolds == Spec => []Lockstep
BY InvLockstep, InitInv, NextInv, PTL DEF Spec

(* DroneControl and ScannerManager shake hands in the same tick, and a     *)
(* command ends in one wave or one reported error, whatever fails          *)
(* (DroneControl.cpp:210-245, ScannerManager.cpp:5-62,112-123).            *)
THEOREM HandshakeHolds == Spec => []Handshake
BY InvHandshake, InitInv, NextInv, PTL DEF Spec

-----------------------------------------------------------------------------
(* The refinement of LockstepClock                                         *)

Pending == {c \in Components : mainTick < Duration /\ ctick[c] = mainTick}

(* The initial states are those of the clock.                              *)
LEMMA RefineInit == Init => Clock!Init
BY TickLoopAssumption DEF Init, Clock!Init

(* Steps that leave Main's tick, the tick counters and the waves alone.    *)
LEMMA RefineStutter ==
    ASSUME UNCHANGED <<mainTick, ctick, waves, missed>>
    PROVE  UNCHANGED Clock!vars
BY DEF Clock!vars

(* A component's sem_post is its Finish of the tick.                       *)
LEMMA RefineFinish ==
    ASSUME IInv, NEW c \in Components, End(c)
    PROVE  Clock!Finish(c)
<1> USE TickLoopAssumption DEF IInv, TypeOK
<1>1. mainTick < Duration /\ ctick[c] = mainTick
  BY DEF End, TokenInv, InTick, Between, Posted, MainInv
<1>2. mainTick' = mainTick /\ UNCHANGED <<waves, missed>> /\ ctick' = [ctick EXCEPT ![c] = mainTick + 1]
  BY <1>1 DEF End, mainVars, spawnVars
<1>3. c \in Pending /\ Pending' = Pending \ {c}
  BY <1>1, <1>2 DEF Pending
<1> QED
  BY <1>2, <1>3 DEF Clock!Finish, Pending

(* Main's last wait of a tick advances the clock.                          *)
LEMMA RefineAdvance ==
    ASSUME IInv, MainWaitLast
    PROVE  Clock!Advance
<1> USE TickLoopAssumption DEF IInv, TypeOK
<1>1. mainTick < Duration /\ mainTick' = mainTick + 1 /\ ctick' = ctick
      /\ UNCHANGED <<waves, missed>>
  BY DEF MainWaitLast, MainInv, spawnVars
<1>2. \A c \in Components : ctick[c] = mainTick + 1 /\ Between(c)
  <2> SUFFICES ASSUME NEW c \in Components PROVE ctick[c] = mainTick + 1 /\ Between(c)
    OBVIOUS
  <2>1. CASE Pos(c) = 3
    <3>1. Order[mainIdx] = c /\ Posted(c)
      BY <2>1, OrderFacts DEF MainWaitLast, Posted
    <3>2. done[c] > 0
      BY <3>1 DEF MainWaitLast
    <3> QED
      BY <3>1, <3>2 DEF TokenInv
  <2>2. CASE Pos(c) # 3
    <3>1. ~Posted(c) /\ Answered(c)
      BY <2>2, OrderFacts DEF MainWaitLast, Posted, Answered
    <3> QED
      BY <3>1 DEF TokenInv
  <2> QED
    BY <2>1, <2>2
<1>3. Pending = {} /\ Pending' = IF mainTick' < Duration THEN Components ELSE {}
  BY <1>1, <1>2 DEF Pending
<1>4. Settled * WaveDistance > mainTick
  <2>1. Covers(mainTick + 1) /\ spawnWave = 0 /\ cpc["SM"] # "spawn"
    BY <1>2 DEF SpawnInv, Between, Components
  <2> QED
    BY <2>1, CommandsType DEF Covers
<1> QED
  BY <1>1, <1>3, <1>4 DEF Clock!Advance, Clock!Settled, Settled, Pending

(* Between GET and the end of SpawnWave the clock awaits the wave.         *)
LEMMA RefineAwaited ==
    ASSUME IInv, cpc["SM"] \in {"decr", "spawn"}, UNCHANGED <<mainTick, ctick>>
    PROVE  Clock!Awaited
<1>1. "SM" \in Components /\ ctick["SM"] = mainTick /\ mainTick < Duration
  BY TokenFacts DEF InTick, Components
<1>2. Due(mainTick) /\ Settled * WaveDistance = mainTick
  BY <1>1 DEF IInv, SpawnInv
<1> QED
  BY <1>1, <1>2 DEF Clock!Awaited, Clock!Due, Clock!Settled, Due, Settled

(* Every step is one of the clock or leaves the clock alone.               *)
LEMMA RefineNext == IInv /\ [Next]_vars => [Clock!Next]_(Clock!vars)
<1> SUFFICES ASSUME IInv, [Next]_vars PROVE [Clock!Next]_(Clock!vars)
  OBVIOUS
<1>0. "DC" \in Components /\ "SM" \in Components /\ "CB" \in Components
  BY DEF Components
<1>1. CASE MainWaitLast
  BY <1>1, RefineAdvance DEF Clock!Next
<1>2. ASSUME NEW c \in Components, End(c) PROVE Clock!Next
  BY <1>2, RefineFinish DEF Clock!Next
<1>3. CASE SpawnWave
  BY <1>3, RefineAwaited DEF SpawnWave, mainVars, Clock!Spawn, Clock!Next
<1>4. CASE SpawnWaveFails
  BY <1>4, RefineAwaited DEF SpawnWaveFails, mainVars, Clock!Miss, Clock!Next
<1>5. CASE SMDecrFails /\ missed' = missed + 1
  BY <1>5, RefineAwaited DEF SMDecrFails, mainVars, Clock!Miss, Clock!Next
<1>6. CASE UNCHANGED <<mainTick, ctick, waves, missed>>
  BY <1>6, RefineStutter
<1> QED
  BY <1>0, <1>1, <1>2, <1>3, <1>4, <1>5, <1>6
  DEF Next, MainNext, DCNext, SMNext, CBNext, Loop, vars, mainVars, spawnVars,
      MainPost, MainWaitNext, MainJoin, Begin, Plain, DCSend, DCSpawned, DCDies, CBDies,
      SMSeen, SMGiveUp, SMDecr, SMDecrFails

(* The semaphores and the counter spawn_wave implement one global clock    *)
(* in which each due tick is settled once, by its wave or by a failure to  *)
(* spawn it (main.cpp:185-201).                                            *)
THEOREM ImplementsClockHolds == Spec => ImplementsClock
BY RefineInit, RefineNext, InitInv, NextInv, PTL DEF Spec, ImplementsClock, Clock!Spec
=============================================================================
