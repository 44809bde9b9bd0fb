-------------------------- MODULE MCConcurrentJobs --------------------------
(***************************************************************************)
(* Jobs that run at the same time, for TLC.  Fabric jobs take turns by the *)
(* lock row of ControlWriter; the commands of Pipeline share a control     *)
(* database and a gold directory and do not take turns.  A behaviour has   *)
(* one or the other: what is not in focus never starts, so that it has no  *)
(* step fairness could ask for.                                            *)
(***************************************************************************)
EXTENDS ControlWriter, Pipeline

VARIABLE focus

OneKey == [w \in Item |-> "key"]
\* Work that may be tried once and work that may be tried twice.
OneOrTwo == [w \in Item |-> w]

JobsInit == focus \in {"lock", "pipeline"} /\ Init /\ PLInit

JobsNext ==
    /\ UNCHANGED focus
    /\ \/ focus = "lock" /\ Next /\ UNCHANGED plvars
       \/ focus = "pipeline" /\ PLNext /\ UNCHANGED vars

JobsSpec ==
    /\ JobsInit /\ [][JobsNext]_<<focus, vars, plvars>>
    /\ Fairness /\ PLFairness
=============================================================================
