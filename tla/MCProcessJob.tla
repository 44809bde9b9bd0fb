---------------------------- MODULE MCProcessJob ----------------------------
(* Small instances of ProcessJob.                                           *)
EXTENDS ProcessJob, TLC

Symmetry == Permutations(Run) \cup Permutations(Output)

TwiceContent == {[runtime |-> 1, release |-> 1, duration |-> 1, max_attempts |-> 2]}
OneCall == {[max_items |-> 2, minimum_items |-> 1, active |-> 1, scope |-> Work,
             release |-> 0, lease |-> 2]}
\* Long enough for two works one after the other.
LongCall == {[call EXCEPT !.lease = 3] : call \in OneCall}
=============================================================================
