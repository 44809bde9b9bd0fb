---------------------------- MODULE MCLocalQueue ----------------------------
(* An instance of LocalQueue: two commands that compete for one message, or *)
(* one command, started again and again, with batches of two messages.      *)
EXTENDS LocalQueue

CONSTANT MaxLoad   \* messages and commands together

Unused == [NotRunning EXCEPT !.pc = "unused"]
InUse == {p \in Process : proc[p].pc # "unused"}

MCInit ==
    /\ \E used \in {Process, {CHOOSE p \in Process : TRUE}} :
        proc = [p \in Process |-> IF p \in used THEN NotRunning ELSE Unused]
    /\ arrivals = <<>>
    /\ row = [m \in Message |-> NoRow]
    /\ mail = [p \in Process |-> <<>>]
    /\ busy = [p \in Process |-> None]
    /\ staged = {}

MCNext ==
    LQNext /\ Len(arrivals') + Cardinality(InUse) <= MaxLoad

MCSpec == MCInit /\ [][MCNext]_lqvars /\ LQFairness
=============================================================================
