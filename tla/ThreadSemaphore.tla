--------------------------- MODULE ThreadSemaphore ---------------------------
(***************************************************************************)
(* The reusable barrier of the Drone process, class ThreadSemaphore of     *)
(* src/Scanner/ThreadUtils.{h,cpp}: the ScannerManager thread and one      *)
(* thread per wave call sync() once per simulated tick.                    *)
(*                                                                         *)
(* The class is a counter of members (active_threads), a counter of        *)
(* arrivals (waiting_threads) and a counting semaphore.  The last arrival  *)
(* releases one permit per member and resets the arrivals; each thread     *)
(* then takes a permit OUTSIDE the mutex.  A critical section under mtx is *)
(* one action; the semaphore acquisition is another, so other threads can  *)
(* run in between.  Nothing ties a permit to the thread it was meant for.  *)
(***************************************************************************)
EXTENDS Naturals, FiniteSets

CONSTANT Threads    \* the threads that may ever use the barrier

ASSUME ThreadsAssumption == IsFiniteSet(Threads)

VARIABLES
    active,     \* active_threads: members of the barrier
    waiting,    \* waiting_threads: arrivals of the current round
    permits,    \* value of the counting semaphore sem
    pc          \* where each thread is with respect to the barrier

vars == <<active, waiting, permits, pc>>

(***************************************************************************)
(* "outside": not a member.  "inside": a member doing its tick.            *)
(* "blocked": in sync(), before sem.acquire().  "lost": the thread ended   *)
(* by an exception after add_thread() and never called remove_thread().    *)
(***************************************************************************)
PcSet == {"outside", "inside", "blocked", "lost"}

Registered == {t \in Threads : pc[t] # "outside"}
Blocked    == {t \in Threads : pc[t] = "blocked"}
Lost       == {t \in Threads : pc[t] = "lost"}

Move(t, to) == pc' = [pc EXCEPT ![t] = to]

Init ==
    /\ active = 0
    /\ waiting = 0
    /\ permits = 0
    /\ pc = [t \in Threads |-> "outside"]

AddThread(t) ==
    /\ pc[t] = "outside"
    /\ active' = active + 1
    /\ Move(t, "inside")
    /\ UNCHANGED <<waiting, permits>>

(* Mutant: remove_thread() of a thread that is not a member.               *)
RemoveThreadTwice(t) ==
    /\ pc[t] \in {"inside", "outside"}
    /\ active' = active - 1
    /\ Move(t, "outside")
    /\ UNCHANGED <<waiting, permits>>

(* remove_thread() only decrements: it does not look whether the threads   *)
(* already waiting are now all the members.                                *)
RemoveThread(t) ==
    /\ pc[t] = "inside"
    /\ active' = active - 1
    /\ Move(t, "outside")
    /\ UNCHANGED <<waiting, permits>>

(* The critical section of sync() when others are still awaited.           *)
SyncEarly(t) ==
    /\ pc[t] = "inside"
    /\ waiting + 1 # active
    /\ waiting' = waiting + 1
    /\ Move(t, "blocked")
    /\ UNCHANGED <<active, permits>>

(* Mutants: the last arrival does not reset the count, does not wait for   *)
(* one of the members, or releases only the others.                        *)
SyncLastNoReset(t) ==
    /\ pc[t] = "inside"
    /\ waiting + 1 = active
    /\ permits' = permits + active
    /\ Move(t, "blocked")
    /\ UNCHANGED <<active, waiting>>

SyncLastEarly(t) ==
    /\ pc[t] = "inside"
    /\ waiting + 2 >= active
    /\ permits' = permits + active
    /\ waiting' = 0
    /\ Move(t, "blocked")
    /\ UNCHANGED active

SyncLastOneShort(t) ==
    /\ pc[t] = "inside"
    /\ waiting + 1 = active
    /\ permits' = permits + active - 1
    /\ waiting' = 0
    /\ Move(t, "blocked")
    /\ UNCHANGED active

(* The critical section of sync() for the arrival that completes the count.*)
SyncLast(t) ==
    /\ pc[t] = "inside"
    /\ waiting + 1 = active
    /\ permits' = permits + active
    /\ waiting' = 0
    /\ Move(t, "blocked")
    /\ UNCHANGED active

SyncArrive(t) == SyncEarly(t) \/ SyncLast(t)

(* Mutant: passing does not use up the permit.                             *)
SyncAcquireFree(t) ==
    /\ pc[t] = "blocked"
    /\ permits > 0
    /\ Move(t, "inside")
    /\ UNCHANGED <<active, waiting, permits>>

(* sem.acquire(), outside the mutex.                                       *)
SyncAcquire(t) ==
    /\ pc[t] = "blocked"
    /\ permits > 0
    /\ permits' = permits - 1
    /\ Move(t, "inside")
    /\ UNCHANGED <<active, waiting>>

(* Mutant: the count is corrected when a thread is lost.                   *)
AbandonThreadCounted(t) ==
    /\ pc[t] = "inside"
    /\ active' = active - 1
    /\ Move(t, "lost")
    /\ UNCHANGED <<waiting, permits>>

(* Wave::Run caught an exception: the thread is gone, the count is not.    *)
AbandonThread(t) ==
    /\ pc[t] = "inside"
    /\ Move(t, "lost")
    /\ UNCHANGED <<active, waiting, permits>>

Next ==
    \E t \in Threads :
        \/ AddThread(t)
        \/ RemoveThread(t)
        \/ SyncArrive(t)
        \/ SyncAcquire(t)
        \/ AbandonThread(t)

Spec == Init /\ [][Next]_vars

-----------------------------------------------------------------------------
(* Properties                                                              *)

(* Types and ranges of the barrier's counters (ThreadUtils.h:93-96).       *)
TypeOK ==
    /\ active \in Nat
    /\ waiting \in Nat
    /\ permits \in Nat
    /\ pc \in [Threads -> PcSet]

(* The three counters account for the threads: active_threads is the       *)
(* number of members, and every thread inside sync() is either one of the  *)
(* counted arrivals or has a permit in store.  The updates in add_thread,  *)
(* remove_thread and sync (ThreadUtils.cpp:80-116) happen in different     *)
(* critical sections, and acquire happens in none.                         *)
Accounting ==
    /\ active = Cardinality(Registered)
    /\ Cardinality(Blocked) = waiting + permits

(* A round is opened only when every member is inside sync() and no permit *)
(* of the previous round is left over: the rendezvous the barrier promises *)
(* (ThreadUtils.cpp:102-110).                                              *)
ReleaseMeetsAll ==
    [][permits' > permits => permits = 0 /\ Blocked' = Registered']_vars

(* Every member waits and no permit is left: nobody can open a new round.  *)
Starved ==
    /\ Registered # {}
    /\ Blocked = Registered
    /\ permits = 0

(* The barrier is stuck only because of a departure: arriving, passing or  *)
(* joining never leaves all members waiting without a permit               *)
(* (remove_thread, ThreadUtils.cpp:88-92).                                 *)
OnlyDepartureStarves ==
    [][Starved' /\ ~Starved => \E t \in Threads : RemoveThread(t)]_vars

(* Once a member has been lost, no round is ever opened again: the error   *)
(* path of Wave::Run (Wave.cpp:267-285) skips remove_thread.               *)
LostIsFatal == [][Lost # {} => permits' <= permits]_vars

-----------------------------------------------------------------------------
(* The counters implement the sets of Rendezvous: waiting_threads, which   *)
(* is reset, never undone and not told which thread took a permit, still   *)
(* opens a round in exactly the states where every member waits.           *)
Abstract == INSTANCE Rendezvous
                WITH members <- Registered, inside <- Blocked, open <- permits

(* The code of ThreadUtils.cpp:80-116 implements the rendezvous.           *)
ImplementsRendezvous == Abstract!Spec
=============================================================================
