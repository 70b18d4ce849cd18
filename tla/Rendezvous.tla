----------------------------- MODULE Rendezvous ------------------------------
(***************************************************************************)
(* What the barrier of ThreadSemaphore does promise, said with sets and    *)
(* without counting arrivals: a round opens exactly when every member is   *)
(* waiting and the previous round is used up, and it lets as many passes   *)
(* through as there are members.  It does not say which member passes, so  *)
(* one may pass twice in a round and another not at all.                   *)
(***************************************************************************)
EXTENDS Naturals, FiniteSets

CONSTANT Threads

VARIABLES
    members,    \* the threads the barrier counts
    inside,     \* the members waiting at the barrier
    open        \* how many passes are left in the current round

vars == <<members, inside, open>>

Init ==
    /\ members = {}
    /\ inside = {}
    /\ open = 0

Join(t) ==
    /\ t \notin members
    /\ members' = members \cup {t}
    /\ UNCHANGED <<inside, open>>

Quit(t) ==
    /\ t \in members \ inside
    /\ members' = members \ {t}
    /\ UNCHANGED <<inside, open>>

Arrive(t) ==
    /\ t \in members \ inside
    /\ inside' = inside \cup {t}
    /\ open' = IF inside' = members /\ open = 0 THEN Cardinality(members) ELSE open
    /\ UNCHANGED members

Pass(t) ==
    /\ t \in inside
    /\ open > 0
    /\ inside' = inside \ {t}
    /\ open' = open - 1
    /\ UNCHANGED members

Next == \E t \in Threads : Join(t) \/ Quit(t) \/ Arrive(t) \/ Pass(t)

Spec == Init /\ [][Next]_vars
=============================================================================
