-------------------------- MODULE SerializedWrites --------------------------
(***************************************************************************)
(* What the control lock promises to the code that writes the control      *)
(* tables: at any moment at most one run of ControlWriter.run holds the    *)
(* lock, a table write is only started by the holder, and the lock is not  *)
(* given up while a write of the holder can still reach the tables.        *)
(***************************************************************************)
CONSTANTS Run, NoOwner

VARIABLES holder,   \* the run that holds the lock, or NoOwner
          writing   \* the runs with a table write that may still commit

vars == <<holder, writing>>

Init == holder = NoOwner /\ writing = {}

Acquire(r) ==
    /\ holder = NoOwner
    /\ holder' = r
    /\ UNCHANGED writing

StartWrite(r) ==
    /\ holder = r
    /\ writing' = writing \cup {r}
    /\ UNCHANGED holder

EndWrite(r) ==
    /\ writing' = writing \ {r}
    /\ UNCHANGED holder

Release(r) ==
    /\ holder = r
    /\ writing = {}
    /\ holder' = NoOwner
    /\ UNCHANGED writing

Next == \E r \in Run : Acquire(r) \/ StartWrite(r) \/ EndWrite(r) \/ Release(r)

Spec == Init /\ [][Next]_vars
=============================================================================
