--------------------------- MODULE DeliveryQueue ----------------------------
(***************************************************************************)
(* What the outbox promises for a message, with workers, claims, leases    *)
(* and crashes left out: it is queued once, tried at most MaxAttempts      *)
(* times, and ends completed or as a dead letter, which an operator may    *)
(* put back with all its tries.                                            *)
(***************************************************************************)
EXTENDS Integers

CONSTANTS Messages, MaxAttempts

VARIABLES state, tries

queue == <<state, tries>>

Init ==
    /\ state = [m \in Messages |-> "none"]
    /\ tries = [m \in Messages |-> 0]

Put(m) ==
    /\ state[m] = "none"
    /\ state' = [state EXCEPT ![m] = "queued"]
    /\ UNCHANGED tries

Succeed(m) ==
    /\ state[m] = "queued"
    /\ state' = [state EXCEPT ![m] = "completed"]
    /\ UNCHANGED tries

Fail(m) ==
    /\ state[m] = "queued"
    /\ tries' = [tries EXCEPT ![m] = @ + 1]
    /\ state' = [state EXCEPT ![m] = IF tries[m] + 1 = MaxAttempts THEN "dead_letter" ELSE "queued"]

PutBack(S) ==
    /\ \A m \in S : state[m] = "dead_letter"
    /\ state' = [m \in Messages |-> IF m \in S THEN "queued" ELSE state[m]]
    /\ tries' = [m \in Messages |-> IF m \in S THEN 0 ELSE tries[m]]

Next ==
    \/ \E m \in Messages : Put(m) \/ Succeed(m) \/ Fail(m)
    \/ \E S \in SUBSET Messages : PutBack(S)

Spec == Init /\ [][Next]_queue
=============================================================================
