---------------------------- MODULE MCOperations ----------------------------
(***************************************************************************)
(* What operators and clients do around the jobs, for TLC: the publication *)
(* of videos, the event inbox, the retirement of the tables of the former  *)
(* control plane, and deployment, by the reconciler and by hand.  These    *)
(* share nothing, so each behaviour looks at one of them.                  *)
(***************************************************************************)
EXTENDS EventInbox, Publisher, Cutover, RuntimeReconciler, DeployOperations, TLC

VARIABLE focus

allVars == <<evars, pubvars, cvars, rvars, dovars, focus>>

TwoActive == <<"LEASED", "WRITING">>
SomeCommands ==
    [kind : {"claim_execution", "attempt_update", "succeed", "commit", "release"}]
    \cup {[kind |-> "heartbeat", status |-> "WRITING"]}
    \cup {[kind |-> "failure", retryable |-> TRUE, lease_lost |-> FALSE]}

OneItem == <<"dispatcher">>
TwoSchedules == <<"dispatcher", "gold">>

ThreeRoles == <<"control", "gold", "process">>

Plain == [enable |-> TRUE, bootstrap |-> TRUE, operator |-> "none", activator |-> "off",
          checkpoint |-> "none", terraform |-> 1]
SomeOptions ==
    {Plain, [Plain EXCEPT !.enable = FALSE], [Plain EXCEPT !.bootstrap = FALSE, !.terraform = 2]}
    \cup {[Plain EXCEPT !.operator = s] : s \in {"connections", "access", "powerBi"}}
    \cup {[Plain EXCEPT !.activator = "required", !.checkpoint = c] : c \in {"none", "valid", "expired"}}
    \cup {[Plain EXCEPT !.activator = "deferred"]}

\* What a behaviour does not look at starts in one state.
Chosen(f, value, set) == IF focus = f THEN set ELSE {value}

Pinned ==
    /\ source \in LET all == [Video -> [content : Content, mtime : {0}]]
                  IN  IF focus \in {"publisher", "edits"} THEN all ELSE {CHOOSE s \in all : TRUE}
    /\ table \in Chosen("retirement", [t \in Table |-> [exists |-> TRUE, version |-> 0]],
                        [Table -> [exists : BOOLEAN, version : {0}]])
    /\ views \in Chosen("retirement", Views, SUBSET Views)
    /\ schedules \in Chosen("deployment", [r \in Role |-> <<>>], [Role -> {<<>>, <<TRUE>>}])
    /\ assigned \in Chosen("deployment", [p \in Principal |-> "Admin"], [Principal -> {"Admin", "Member"}])

\* Two looks at the publisher: at edits of any video, fewer when there is a second
\* package, and at one video with edits enough to swap it in an upload.
Edits == SumFunction([v \in Video |-> source[v].mtime])
FewEdits == Edits + package.number <= 3
OneIsEdited == (package.number <= 1 \/ Edits <= 2) /\ \E v \in Video : source[v].mtime = 0

OperationsInit ==
    /\ focus \in {"inbox", "publisher", "edits", "retirement", "cleanup", "bootstrap", "deployment",
                 "operations"}
    /\ Pinned
    /\ EInit /\ PubInit /\ CInit /\ RRInit /\ DOInit

OperationsNext ==
    /\ UNCHANGED focus
    /\ \/ focus = "inbox" /\ ENext /\ UNCHANGED <<pubvars, cvars, rvars, dovars>>
       \/ focus = "publisher" /\ PubNext /\ FewEdits' /\ UNCHANGED <<evars, cvars, rvars, dovars>>
       \/ focus = "edits" /\ PubNext /\ OneIsEdited' /\ UNCHANGED <<evars, cvars, rvars, dovars>>
       \/ focus = "retirement" /\ RetirementNext /\ UNCHANGED <<evars, pubvars, rvars, dovars>>
       \/ focus = "cleanup" /\ CleanupNext /\ UNCHANGED <<evars, pubvars, rvars, dovars>>
       \/ focus = "bootstrap" /\ BootstrapNext /\ UNCHANGED <<evars, pubvars, rvars, dovars>>
       \/ focus = "deployment" /\ RRNext /\ UNCHANGED <<evars, pubvars, cvars, dovars>>
       \/ focus = "operations" /\ DONext /\ UNCHANGED <<evars, pubvars, cvars, rvars>>

OperationsSpec == OperationsInit /\ [][OperationsNext]_allVars

Symmetry ==
    Permutations(Execution) \cup Permutations(Video) \cup Permutations(Content)
=============================================================================
