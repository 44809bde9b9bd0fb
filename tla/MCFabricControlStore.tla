------------------------ MODULE MCFabricControlStore ------------------------
(* Small instances of FabricControlStore.                                   *)
EXTENDS FabricControlStore, TLC

Symmetry == Permutations(Batch)

\* Work that may be tried once, or twice.
Contents == {[runtime |-> 1, release |-> 1, duration |-> 1, max_attempts |-> n] : n \in 1..2}
OneCall == {[max_items |-> 2, minimum_items |-> 1, active |-> 0, scope |-> Work,
             release |-> 0, lease |-> 2]}
=============================================================================
