------------------------ MODULE ThreadSemaphore_proofs -----------------------
(***************************************************************************)
(* Proofs about the barrier, for every finite set of threads.  The         *)
(* inductive invariant is TypeOK /\ Accounting; everything else follows    *)
(* from it.                                                                *)
(***************************************************************************)
EXTENDS ThreadSemaphore, FiniteSetTheorems, TLAPS

IInv == TypeOK /\ Accounting

(* Members and waiters are finite sets, and waiters are members.           *)
LEMMA FiniteMembers ==
    /\ IsFiniteSet(Registered)
    /\ IsFiniteSet(Blocked)
    /\ Blocked \subseteq Registered
    /\ Cardinality(Registered) \in Nat
    /\ Cardinality(Blocked) \in Nat
    /\ Cardinality(Blocked) <= Cardinality(Registered)
<1>1. Registered \subseteq Threads /\ Blocked \subseteq Registered
  BY DEF Registered, Blocked
<1>2. IsFiniteSet(Registered)
  BY <1>1, ThreadsAssumption, FS_Subset
<1> QED
  BY <1>1, <1>2, FS_Subset, FS_CardinalityType

(* How the two sets change when one thread moves.                          *)
LEMMA MoveEffect ==
    ASSUME NEW t \in Threads, NEW to \in PcSet, TypeOK, Move(t, to)
    PROVE  /\ pc' \in [Threads -> PcSet]
           /\ Registered' = IF to = "outside" THEN Registered \ {t}
                                              ELSE Registered \cup {t}
           /\ Blocked' = IF to = "blocked" THEN Blocked \cup {t}
                                           ELSE Blocked \ {t}
<1>1. pc' \in [Threads -> PcSet] /\ pc'[t] = to /\ \A u \in Threads \ {t} : pc'[u] = pc[u]
  BY DEF Move, TypeOK
<1> QED
  BY <1>1 DEF Registered, Blocked

(* A waiting thread is counted by waiting_threads or has a permit, so an   *)
(* arriving thread leaves room: it is the last one only if every other     *)
(* member waits and no permit is left.                                     *)
LEMMA ArrivalCount ==
    ASSUME IInv, NEW t \in Threads, pc[t] = "inside"
    PROVE  /\ t \in Registered \ Blocked
           /\ waiting + permits + 1 <= active
           /\ waiting + 1 = active => permits = 0 /\ Registered = Blocked \cup {t}
<1>1. t \in Registered \ Blocked
  BY DEF Registered, Blocked
<1>2. /\ IsFiniteSet(Blocked \cup {t})
      /\ Cardinality(Blocked \cup {t}) = Cardinality(Blocked) + 1
  BY <1>1, FiniteMembers, FS_AddElement
<1>3. Blocked \cup {t} \subseteq Registered
  BY <1>1, FiniteMembers
<1>4. /\ Cardinality(Blocked \cup {t}) <= Cardinality(Registered)
      /\ Cardinality(Blocked \cup {t}) = Cardinality(Registered)
           => Blocked \cup {t} = Registered
  BY <1>3, FiniteMembers, FS_Subset
<1> QED
  BY <1>1, <1>2, <1>4, FiniteMembers DEF IInv, TypeOK, Accounting

(* The inductive invariant holds initially.                                *)
LEMMA InitInv == Init => IInv
<1> SUFFICES ASSUME Init PROVE IInv
  OBVIOUS
<1>1. Registered = {} /\ Blocked = {}
  BY DEF Init, Registered, Blocked
<1> QED
  BY <1>1, FS_EmptySet DEF Init, IInv, TypeOK, Accounting, PcSet

(* Every step of the barrier preserves it.                                 *)
LEMMA NextInv == IInv /\ [Next]_vars => IInv'
<1> SUFFICES ASSUME IInv, [Next]_vars PROVE IInv'
  OBVIOUS
<1> USE DEF IInv
<1>1. ASSUME NEW t \in Threads, AddThread(t) PROVE IInv'
  <2>1. t \notin Registered /\ t \notin Blocked
    BY <1>1 DEF AddThread, Registered, Blocked
  <2>2. Registered' = Registered \cup {t} /\ Blocked' = Blocked /\ TypeOK'
    BY <1>1, <2>1, MoveEffect DEF AddThread, TypeOK, PcSet
  <2> QED
    BY <1>1, <2>1, <2>2, FiniteMembers, FS_AddElement DEF AddThread, Accounting
<1>2. ASSUME NEW t \in Threads, RemoveThread(t) PROVE IInv'
  <2>1. t \in Registered /\ t \notin Blocked
    BY <1>2 DEF RemoveThread, Registered, Blocked
  <2>2. active >= 1
    BY <1>2, ArrivalCount DEF RemoveThread, TypeOK
  <2>3. Registered' = Registered \ {t} /\ Blocked' = Blocked /\ TypeOK'
    BY <1>2, <2>1, <2>2, MoveEffect DEF RemoveThread, TypeOK, PcSet
  <2> QED
    BY <1>2, <2>1, <2>3, FiniteMembers, FS_RemoveElement DEF RemoveThread, Accounting
<1>3. ASSUME NEW t \in Threads, SyncEarly(t) PROVE IInv'
  <2>1. t \in Registered /\ t \notin Blocked
    BY <1>3, ArrivalCount DEF SyncEarly
  <2>2. Registered' = Registered /\ Blocked' = Blocked \cup {t} /\ TypeOK'
    BY <1>3, <2>1, MoveEffect DEF SyncEarly, TypeOK, PcSet
  <2>3. Cardinality(Blocked') = Cardinality(Blocked) + 1
    BY <2>1, <2>2, FiniteMembers, FS_AddElement
  <2> QED
    BY <1>3, <2>2, <2>3 DEF SyncEarly, Accounting, TypeOK
<1>4. ASSUME NEW t \in Threads, SyncLast(t) PROVE IInv'
  <2>1. t \in Registered /\ t \notin Blocked /\ permits = 0
    BY <1>4, ArrivalCount DEF SyncLast
  <2>2. Registered' = Registered /\ Blocked' = Blocked \cup {t} /\ TypeOK'
    BY <1>4, <2>1, MoveEffect DEF SyncLast, TypeOK, PcSet
  <2>3. Cardinality(Blocked') = Cardinality(Blocked) + 1
    BY <2>1, <2>2, FiniteMembers, FS_AddElement
  <2> QED
    BY <1>4, <2>1, <2>2, <2>3 DEF SyncLast, Accounting, TypeOK
<1>5. ASSUME NEW t \in Threads, SyncAcquire(t) PROVE IInv'
  <2>1. t \in Registered /\ t \in Blocked
    BY <1>5 DEF SyncAcquire, Registered, Blocked
  <2>2. Registered' = Registered /\ Blocked' = Blocked \ {t} /\ TypeOK'
    BY <1>5, <2>1, MoveEffect DEF SyncAcquire, TypeOK, PcSet
  <2>3. Cardinality(Blocked') = Cardinality(Blocked) - 1
    BY <2>1, <2>2, FiniteMembers, FS_RemoveElement
  <2> QED
    BY <1>5, <2>2, <2>3 DEF SyncAcquire, Accounting, TypeOK
<1>6. ASSUME NEW t \in Threads, AbandonThread(t) PROVE IInv'
  <2>1. t \in Registered /\ t \notin Blocked
    BY <1>6 DEF AbandonThread, Registered, Blocked
  <2>2. Registered' = Registered /\ Blocked' = Blocked /\ TypeOK'
    BY <1>6, <2>1, MoveEffect DEF AbandonThread, TypeOK, PcSet
  <2> QED
    BY <1>6, <2>2 DEF AbandonThread, Accounting
<1>7. CASE UNCHANGED vars
  BY <1>7 DEF vars, TypeOK, Accounting, Registered, Blocked
<1> QED
  BY <1>1, <1>2, <1>3, <1>4, <1>5, <1>6, <1>7 DEF Next, SyncArrive

(* The barrier's counters stay in range (ThreadUtils.h:93-96).             *)
THEOREM TypeCorrect == Spec => []TypeOK
<1>1. IInv => TypeOK
  BY DEF IInv
<1> QED
  BY <1>1, InitInv, NextInv, PTL DEF Spec

(* active_threads is the number of members and every thread in sync() is   *)
(* counted once, as an arrival or by a permit (ThreadUtils.cpp:80-116).    *)
THEOREM AccountingHolds == Spec => []Accounting
<1>1. IInv => Accounting
  BY DEF IInv
<1> QED
  BY <1>1, InitInv, NextInv, PTL DEF Spec

-----------------------------------------------------------------------------
(* Action properties and the refinement.  Each is a lemma about one step   *)
(* from an IInv state, then a temporal theorem.                            *)

(* A step that releases permits meets every member in sync().              *)
LEMMA ReleaseStep ==
    ASSUME IInv, [Next]_vars, permits' > permits
    PROVE  permits = 0 /\ Blocked' = Registered' /\ Lost = {}
<1> USE DEF IInv, TypeOK
<1>1. PICK t \in Threads : SyncLast(t)
  BY DEF Next, vars, AddThread, RemoveThread, SyncArrive, SyncEarly, SyncAcquire, AbandonThread
<1>2. permits = 0 /\ Registered = Blocked \cup {t} /\ t \in Registered
  BY <1>1, ArrivalCount DEF SyncLast
<1>3. Registered' = Registered /\ Blocked' = Blocked \cup {t}
  BY <1>1, <1>2, MoveEffect DEF SyncLast, PcSet
<1>4. Lost = {}
  BY <1>1, <1>2 DEF SyncLast, Lost, Registered, Blocked
<1> QED
  BY <1>2, <1>3, <1>4

(* A round opens only with every member in sync() and nothing left of the  *)
(* previous one (ThreadUtils.cpp:102-110).                                 *)
THEOREM ReleaseMeetsAllHolds == Spec => ReleaseMeetsAll
<1>1. IInv /\ [Next]_vars
        => [permits' > permits => permits = 0 /\ Blocked' = Registered']_vars
  BY ReleaseStep
<1> QED
  BY <1>1, InitInv, NextInv, PTL DEF Spec, ReleaseMeetsAll

(* A thread that ended without remove_thread closes the barrier for good   *)
(* (Wave.cpp:267-285).                                                     *)
THEOREM LostIsFatalHolds == Spec => LostIsFatal
<1>1. IInv /\ [Next]_vars => [Lost # {} => permits' <= permits]_vars
  <2> SUFFICES ASSUME IInv, [Next]_vars, Lost # {} PROVE permits' <= permits
    OBVIOUS
  <2>1. permits \in Nat /\ permits' \in Nat
    BY NextInv DEF IInv, TypeOK
  <2> QED
    BY <2>1, ReleaseStep
<1> QED
  BY <1>1, InitInv, NextInv, PTL DEF Spec, LostIsFatal

(* Only a departure leads into a starved state.                            *)
LEMMA StarvingStep ==
    ASSUME IInv, [Next]_vars, Starved', ~Starved
    PROVE  \E t \in Threads : RemoveThread(t)
<1> SUFFICES ASSUME \A t \in Threads : ~RemoveThread(t) PROVE FALSE
  OBVIOUS
<1> USE DEF IInv
<1>0. ASSUME NEW t \in Threads, pc'[t] \notin {"outside", "blocked"} PROVE FALSE
  BY <1>0 DEF Starved, Registered, Blocked
<1>1. ASSUME NEW t \in Threads, AddThread(t) PROVE FALSE
  BY <1>0, <1>1 DEF AddThread, Move, TypeOK
<1>2. ASSUME NEW t \in Threads, SyncEarly(t) PROVE FALSE
  <2>1. t \in Registered /\ t \notin Blocked
    BY <1>2, ArrivalCount DEF SyncEarly
  <2>2. Registered' = Registered /\ Blocked' = Blocked \cup {t} /\ permits = 0
    BY <1>2, <2>1, MoveEffect DEF SyncEarly, PcSet, Starved
  <2>3. Cardinality(Registered) = Cardinality(Blocked) + 1
    BY <2>1, <2>2, FiniteMembers, FS_AddElement DEF Starved
  <2> QED
    BY <1>2, <2>2, <2>3 DEF SyncEarly, Accounting, TypeOK
<1>3. ASSUME NEW t \in Threads, SyncLast(t) PROVE FALSE
  <2>1. active >= 1
    BY <1>3, ArrivalCount DEF SyncLast, TypeOK
  <2> QED
    BY <1>3, <2>1 DEF SyncLast, Starved, TypeOK
<1>4. ASSUME NEW t \in Threads, SyncAcquire(t) PROVE FALSE
  BY <1>0, <1>4 DEF SyncAcquire, Move, TypeOK
<1>5. ASSUME NEW t \in Threads, AbandonThread(t) PROVE FALSE
  BY <1>0, <1>5 DEF AbandonThread, Move, TypeOK
<1>6. CASE UNCHANGED vars
  BY <1>6 DEF vars, Starved, Registered, Blocked
<1> QED
  BY <1>1, <1>2, <1>3, <1>4, <1>5, <1>6 DEF Next, SyncArrive

(* Only remove_thread() can leave every member waiting without a permit    *)
(* (ThreadUtils.cpp:88-92).                                                *)
THEOREM OnlyDepartureStarvesHolds == Spec => OnlyDepartureStarves
<1>1. IInv /\ [Next]_vars
        => [Starved' /\ ~Starved => \E t \in Threads : RemoveThread(t)]_vars
  BY StarvingStep
<1> QED
  BY <1>1, InitInv, NextInv, PTL DEF Spec, OnlyDepartureStarves

(* The initial states are those of Rendezvous.                             *)
LEMMA RefineInit == Init => Abstract!Init
BY DEF Init, Abstract!Init, Registered, Blocked

(* Every step of the code is one of Rendezvous or leaves it alone.         *)
LEMMA RefineNext == IInv /\ [Next]_vars => [Abstract!Next]_(Abstract!vars)
<1> SUFFICES ASSUME IInv, [Next]_vars PROVE [Abstract!Next]_(Abstract!vars)
  OBVIOUS
<1> USE DEF IInv
<1>1. ASSUME NEW t \in Threads, AddThread(t) PROVE Abstract!Join(t)
  <2>1. t \notin Registered /\ t \notin Blocked
    BY <1>1 DEF AddThread, Registered, Blocked
  <2> QED
    BY <1>1, <2>1, MoveEffect DEF AddThread, PcSet, Abstract!Join
<1>2. ASSUME NEW t \in Threads, RemoveThread(t) PROVE Abstract!Quit(t)
  <2>1. t \in Registered /\ t \notin Blocked
    BY <1>2 DEF RemoveThread, Registered, Blocked
  <2> QED
    BY <1>2, <2>1, MoveEffect DEF RemoveThread, PcSet, Abstract!Quit
<1>3. ASSUME NEW t \in Threads, SyncEarly(t) PROVE Abstract!Arrive(t)
  <2>1. t \in Registered /\ t \notin Blocked
    BY <1>3, ArrivalCount DEF SyncEarly
  <2>2. Registered' = Registered /\ Blocked' = Blocked \cup {t}
    BY <1>3, <2>1, MoveEffect DEF SyncEarly, PcSet
  <2>3. ~(Blocked' = Registered /\ permits = 0)
    <3>1. Cardinality(Blocked') = Cardinality(Blocked) + 1
      BY <2>1, <2>2, FiniteMembers, FS_AddElement
    <3> QED
      BY <1>3, <3>1 DEF SyncEarly, Accounting, TypeOK
  <2> QED
    BY <1>3, <2>1, <2>2, <2>3 DEF SyncEarly, Abstract!Arrive
<1>4. ASSUME NEW t \in Threads, SyncLast(t) PROVE Abstract!Arrive(t)
  <2>1. t \in Registered \ Blocked /\ permits = 0 /\ Registered = Blocked \cup {t}
    BY <1>4, ArrivalCount DEF SyncLast
  <2>2. Registered' = Registered /\ Blocked' = Blocked \cup {t}
    BY <1>4, <2>1, MoveEffect DEF SyncLast, PcSet
  <2>3. permits' = Cardinality(Registered)
    BY <1>4, <2>1, FiniteMembers DEF SyncLast, Accounting
  <2>4. Abstract!Cardinality(Registered) = Cardinality(Registered)
    BY DEF Cardinality, Abstract!Cardinality
  <2> QED
    BY <2>1, <2>2, <2>3, <2>4 DEF Abstract!Arrive
<1>5. ASSUME NEW t \in Threads, SyncAcquire(t) PROVE Abstract!Pass(t)
  <2>1. t \in Registered /\ t \in Blocked
    BY <1>5 DEF SyncAcquire, Registered, Blocked
  <2> QED
    BY <1>5, <2>1, MoveEffect DEF SyncAcquire, PcSet, Abstract!Pass
<1>6. ASSUME NEW t \in Threads, AbandonThread(t) PROVE UNCHANGED Abstract!vars
  <2>1. t \in Registered /\ t \notin Blocked
    BY <1>6 DEF AbandonThread, Registered, Blocked
  <2> QED
    BY <1>6, <2>1, MoveEffect DEF AbandonThread, PcSet, Abstract!vars
<1>7. CASE UNCHANGED vars
  BY <1>7 DEF vars, Abstract!vars, Registered, Blocked
<1> QED
  BY <1>1, <1>2, <1>3, <1>4, <1>5, <1>6, <1>7 DEF Next, SyncArrive, Abstract!Next

(* The counting barrier implements the rendezvous of sets: every step of   *)
(* the code is a step of Rendezvous or changes nothing there.              *)
THEOREM ImplementsRendezvousHolds == Spec => ImplementsRendezvous
BY RefineInit, RefineNext, InitInv, NextInv, PTL DEF Spec, ImplementsRendezvous, Abstract!Spec
=============================================================================
