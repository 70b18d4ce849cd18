------------------------------ MODULE Delivery -------------------------------
(***************************************************************************)
(* At-most-once delivery: what is produced is written once or never.  A    *)
(* row may be given up at any time before it is written.                   *)
(***************************************************************************)
EXTENDS Naturals

VARIABLES
    produced,   \* rows produced so far; they are numbered
    written,    \* rows that have been written
    givenUp     \* rows that never will be

vars == <<produced, written, givenUp>>

Init ==
    /\ produced = 0
    /\ written = {}
    /\ givenUp = {}

Open == (1 .. produced) \ (written \cup givenUp)

Produce ==
    /\ produced' = produced + 1
    /\ UNCHANGED <<written, givenUp>>

Write(S) ==
    /\ S \subseteq Open
    /\ written' = written \cup S
    /\ UNCHANGED <<produced, givenUp>>

GiveUp(S) ==
    /\ S \subseteq Open
    /\ givenUp' = givenUp \cup S
    /\ UNCHANGED <<produced, written>>

Next ==
    \/ Produce
    \/ \E S \in SUBSET (1 .. produced) : Write(S) \/ GiveUp(S)

Spec == Init /\ [][Next]_vars
=============================================================================
