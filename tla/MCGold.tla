------------------------------- MODULE MCGold -------------------------------
(***************************************************************************)
(* Gold for TLC, at its two levels: which runs write which tables and who  *)
(* hears of it (Gold), and which rows they hold (GoldRows).  A behaviour   *)
(* has one of them.                                                        *)
(***************************************************************************)
EXTENDS Gold, GoldRows

VARIABLE focus

\* A video around midnight has rows on two dates, the other on one of them.
MidnightDates == [o \in Output |-> IF o = 1 THEN {1, 2} ELSE {2}]

\* One work is registered, tried twice and replayed the days after its video
\* was captured, another was published before.
CaptureDates == [v \in Video |-> IF v \in Earlier THEN 0 ELSE 1]
OwnCamera == [v \in Video |-> v]
TwoTries == [v \in Video |-> IF v \in Earlier THEN 1 ELSE 2]

MCInit == focus \in {"runs", "rows"} /\ GInit /\ GRInit

MCNext ==
    /\ UNCHANGED focus
    /\ \/ focus = "runs" /\ GNext /\ UNCHANGED grvars
       \/ focus = "rows" /\ GRNext /\ UNCHANGED gvars

MCSpec == MCInit /\ [][MCNext]_<<focus, gvars, grvars>>
=============================================================================
