------------------------- MODULE RuntimeReconciler --------------------------
(***************************************************************************)
(* reconcile_runtime of fabric_reconcilers.py: the steps after Terraform   *)
(* that bring a workspace to one release.  Every schedule is disabled, the *)
(* wheel is staged and published, the lakehouse is bootstrapped, access,   *)
(* reports and the Activator are reconciled, and only then are schedules   *)
(* enabled and the release manifest written.                               *)
(*                                                                         *)
(* Fabric may answer 429 or 503 although it did what was asked, and the    *)
(* client of fabric_automation.py sends such a request again.  Long jobs   *)
(* go on after the reconciler gave up on them.  The deployment workflow    *)
(* runs one reconciler at a time; it may die anywhere and be run again.    *)
(***************************************************************************)
EXTENDS Naturals, Sequences, FiniteSets, SequencesExt

CONSTANTS
    Release,      \* commits; each has one people_counter wheel
    RoleOrder,    \* the Spark job definitions, sorted
    Scheduled,    \* those that have a schedule in the deployment manifest
    Principal,    \* principals with a role in the workspace
    Deprecated,   \* those the contract wants removed
    Option,       \* what runs are asked to do
    MaxSends,     \* requests the client sends for one call: max_retries + 1
    MaxFaults,    \* bound on calls that do not go as they should
    MaxRuns,      \* bound on runs of the reconciler
    NoRelease     \* what is installed before the first run

ASSUME RolesAssumption ==
    /\ RoleOrder \in Seq(ToSet(RoleOrder)) \ {<<>>}
    /\ Scheduled \subseteq ToSet(RoleOrder)
    /\ MaxSends \in Nat \ {0}

VARIABLES
    schedules,    \* role -> the enabled flags of its schedules
    wheels,       \* people_counter wheels in the staging environment
    publish,      \* the environment: what is published, what is being published
    sparkJob,     \* the bootstrap job that runs, if any
    bootstrapped, \* wheels whose bootstrap job has succeeded
    assigned,     \* workspace role of each principal
    manifests,    \* the release manifests in OneLake
    run,          \* the reconciler
    vetted,       \* (history) published sets that passed every step
    faults

rvars == <<schedules, wheels, publish, sparkJob, bootstrapped, assigned, manifests, run,
           vetted, faults>>
items == <<schedules, wheels, publish, sparkJob, bootstrapped, assigned, manifests, vetted>>

Role == ToSet(RoleOrder)

\* The command line and the runtime contract.  operator: the step that only an
\* operator can do, if the contract has one; checkpoint: the Activator evidence.
Options == [enable : BOOLEAN, bootstrap : BOOLEAN,
            operator : {"none", "connections", "access", "powerBi"},
            activator : {"off", "deferred", "required"},
            checkpoint : {"none", "valid", "expired"}, terraform : {1, 2}]

ASSUME OptionAssumption == Option \subseteq Options

NoJob == [state |-> "none", live |-> {}]

NoRun == [pc |-> "idle", release |-> NoRelease, role |-> 1, todo |-> {}, status |-> "none",
          option |-> <<>>, checkpoints |-> {}, tables |-> FALSE, n |-> 0]

RRInit ==
    /\ schedules \in [Role -> {<<>>, <<TRUE>>}]
    /\ wheels = {NoRelease}
    /\ publish = [state |-> "Success", live |-> {NoRelease}, next |-> {}]
    /\ sparkJob = NoJob
    /\ bootstrapped = {NoRelease}
    /\ assigned \in [Principal -> {"Admin", "Member"}]
    /\ \E p \in Principal : assigned[p] = "Admin"
    /\ manifests = [r \in Release |-> <<>>]
    /\ run = NoRun
    /\ vetted = {{NoRelease}}
    /\ faults = 0

-----------------------------------------------------------------------------
(* The client *)

\* How one call ends: how often Fabric did it, and whether the client saw an
\* expected status.  The client gives up after MaxSends answers of 429 or 503,
\* and at once on any other answer.
Reply == {a \in [done : 0..MaxSends, ok : BOOLEAN] : a.ok => a.done > 0}

Good(a) == a.done = 1 /\ a.ok

\* A resource that is deleted twice is not found the second time.
DeleteReply == {a \in Reply : a.done < 2}

Counted(a) == /\ Good(a) \/ faults < MaxFaults
              /\ faults' = IF Good(a) THEN faults ELSE faults + 1

Advance(pc) == run' = [run EXCEPT !.pc = pc]

\* An error leaves the run where it is: nothing is undone.
Fail == run' = [run EXCEPT !.pc = "ended", !.status = "failed"]

Proceed(a, pc) == IF a.ok THEN Advance(pc) ELSE Fail

-----------------------------------------------------------------------------
(* The schedules *)

Begin ==
    /\ run.pc \in {"idle", "ended"} /\ run.n < MaxRuns
    /\ \E r \in Release, o \in Option :
         run' = [NoRun EXCEPT !.pc = "disable", !.release = r, !.option = o, !.n = run.n + 1]
    /\ UNCHANGED <<items, faults>>

\* reconcile_role_schedule: at most one schedule, created or changed for a
\* scheduled role and deleted for an on-demand one.
RoleSchedule(old, scheduled, enabled, done) ==
    CASE scheduled /\ old = <<>> -> [i \in 1..done |-> enabled]
      [] scheduled /\ old # <<>> -> IF done > 0 THEN <<enabled>> ELSE old
      [] ~scheduled              -> IF done > 0 THEN <<>> ELSE old

\* (slip) the first pass leaves a schedule alone until the release is in place.
EnabledInPassAsAsked(pass) == run.option.enable /\ run.checkpoints = {}

EnabledInPass(pass) == pass = "enable" /\ run.option.enable /\ run.checkpoints = {}

NextRole(after) == IF run.role < Len(RoleOrder)
                   THEN run' = [run EXCEPT !.role = @ + 1]
                   ELSE run' = [run EXCEPT !.role = 1, !.pc = after]

ReconcileSchedule(pass, after) ==
    LET role == RoleOrder[run.role]
        old  == schedules[role]
    IN  /\ run.pc = pass
        /\ IF Len(old) > 1
           THEN Fail /\ UNCHANGED <<schedules, faults>>
           ELSE IF old = <<>> /\ role \notin Scheduled
           THEN NextRole(after) /\ UNCHANGED <<schedules, faults>>
           ELSE \E a \in (IF role \in Scheduled THEN Reply ELSE DeleteReply) :
                  /\ Counted(a)
                  /\ schedules' = [schedules EXCEPT ![role] =
                         RoleSchedule(old, role \in Scheduled, EnabledInPass(pass), a.done)]
                  /\ IF a.ok THEN NextRole(after) ELSE Fail
        /\ vetted' = IF pass = "enable" /\ run.checkpoints = {} /\ run.role = 1
                     THEN vetted \cup {publish.live} ELSE vetted
        /\ UNCHANGED <<wheels, publish, sparkJob, bootstrapped, assigned, manifests>>

DisableSchedule == ReconcileSchedule("disable", "stale")
EnableSchedule == ReconcileSchedule("enable", "evidence")

-----------------------------------------------------------------------------
(* The environment *)

\* (slip) the wheels of earlier releases stay staged.
StaleWheelsNone == {}

StaleWheels == wheels \ {run.release}

DeleteStale ==
    /\ run.pc = "stale"
    /\ IF StaleWheels = {}
       THEN Advance("upload") /\ UNCHANGED <<wheels, faults>>
       ELSE \E w \in StaleWheels, a \in DeleteReply :
              /\ Counted(a)
              /\ wheels' = IF a.done > 0 THEN wheels \ {w} ELSE wheels
              /\ Proceed(a, "stale")
    /\ UNCHANGED <<schedules, publish, sparkJob, bootstrapped, assigned, manifests, vetted>>

Upload ==
    /\ run.pc = "upload"
    /\ \E a \in Reply : /\ Counted(a)
                        /\ wheels' = IF a.done > 0 THEN wheels \cup {run.release} ELSE wheels
                        /\ Proceed(a, "publish")
    /\ UNCHANGED <<schedules, publish, sparkJob, bootstrapped, assigned, manifests, vetted>>

\* A publish of what is staged.  Fabric has at most one in progress, so that a
\* publish whose answer was lost is refused when it is sent again.
SubmitPublish ==
    /\ run.pc = "publish"
    /\ IF publish.state = "Running"
       THEN Fail /\ UNCHANGED <<publish, faults>>
       ELSE \E a \in DeleteReply :
              /\ Counted(a)
              /\ publish' = IF a.done > 0 THEN [publish EXCEPT !.state = "Running", !.next = wheels]
                            ELSE publish
              /\ Proceed(a, "published")
    /\ UNCHANGED <<schedules, wheels, sparkJob, bootstrapped, assigned, manifests, vetted>>

EndPublish ==
    /\ publish.state = "Running"
    /\ \/ publish' = [state |-> "Success", live |-> publish.next, next |-> {}] /\ UNCHANGED faults
       \/ /\ faults < MaxFaults /\ faults' = faults + 1
          /\ publish' = [publish EXCEPT !.state = "Failed", !.next = {}]
    /\ UNCHANGED <<schedules, wheels, sparkJob, bootstrapped, assigned, manifests, run, vetted>>

PollPublish ==
    /\ run.pc = "published" /\ publish.state # "Running"
    /\ IF publish.state = "Success" THEN Advance("bootstrap") ELSE Fail
    /\ UNCHANGED <<items, faults>>

-----------------------------------------------------------------------------
(* The lakehouse *)

\* run_spark_job on the control definition: bootstrap, and once more to verify
\* the tables.
SubmitBootstrap ==
    /\ run.pc = "bootstrap"
    /\ IF run.option.bootstrap
       THEN \E a \in Reply : /\ Counted(a)
                             /\ sparkJob' = IF a.done > 0 THEN [state |-> "running", live |-> publish.live]
                                           ELSE sparkJob
                             /\ Proceed(a, "bootstrapping")
       ELSE Advance("folders") /\ UNCHANGED <<sparkJob, faults>>
    /\ UNCHANGED <<schedules, wheels, publish, bootstrapped, assigned, manifests, vetted>>

EndBootstrap ==
    /\ sparkJob.state = "running"
    /\ \/ /\ sparkJob' = [sparkJob EXCEPT !.state = "succeeded"]
          /\ bootstrapped' = bootstrapped \cup sparkJob.live
          /\ UNCHANGED faults
       \/ /\ faults < MaxFaults /\ faults' = faults + 1
          /\ sparkJob' = [sparkJob EXCEPT !.state = "failed"] /\ UNCHANGED bootstrapped
    /\ UNCHANGED <<schedules, wheels, publish, assigned, manifests, run, vetted>>

PollBootstrap ==
    /\ run.pc = "bootstrapping" /\ sparkJob.state # "running"
    /\ run' = CASE sparkJob.state = "failed" -> [run EXCEPT !.pc = "ended", !.status = "failed"]
                [] sparkJob.state # "failed" /\ ~run.tables -> [run EXCEPT !.pc = "bootstrap", !.tables = TRUE]
                [] sparkJob.state # "failed" /\ run.tables -> [run EXCEPT !.pc = "folders"]
    /\ UNCHANGED <<items, faults>>

\* The deadline of a publish or of a job; what was submitted goes on.
DeadlinePasses ==
    /\ run.pc \in {"published", "bootstrapping"} /\ faults < MaxFaults
    /\ faults' = faults + 1 /\ Fail
    /\ UNCHANGED items

-----------------------------------------------------------------------------
(* What the contract lists: folders, connections, access, Power BI, reports *)

\* Calls whose result no later step reads: they pass or fail, and the contract
\* may also list something that only an operator can do.
ContractStep(pc, after) ==
    /\ run.pc = pc
    /\ \E a \in Reply :
         /\ Counted(a)
         /\ IF a.ok THEN run' = [run EXCEPT !.pc = after,
                              !.checkpoints = IF run.option.operator = pc THEN @ \cup {pc} ELSE @]
            ELSE Fail
    /\ UNCHANGED items

Folders == ContractStep("folders", "connections")
\* gateway credentials and credentials that are not in the environment
Connections == ContractStep("connections", "access")
\* the binding of a Direct Lake model
PowerBi == ContractStep("powerBi", "reporting")
Reporting == ContractStep("reporting", "activator")

\* protect_last_admin of _remove_role_assignments.
Refuses(matched) ==
    /\ \E p \in matched : assigned[p] = "Admin"
    /\ Cardinality({p \in Principal : assigned[p] = "Admin"}) <= 1

ListAccess ==
    /\ run.pc = "access"
    /\ LET matched == {p \in Deprecated : assigned[p] # "none"}
       IN  IF Refuses(matched) THEN Fail
           ELSE run' = [run EXCEPT !.pc = "remove", !.todo = matched]
    /\ UNCHANGED <<items, faults>>

RemoveAccess ==
    /\ run.pc = "remove"
    /\ IF run.todo = {}
       THEN /\ run' = [run EXCEPT !.pc = "powerBi",
                         !.checkpoints = IF run.option.operator = "access" THEN @ \cup {"access"} ELSE @]
            /\ UNCHANGED <<assigned, faults>>
       ELSE \E p \in run.todo, a \in DeleteReply :
              /\ Counted(a)
              /\ assigned' = IF a.done > 0 THEN [assigned EXCEPT ![p] = "none"] ELSE assigned
              /\ IF a.ok THEN run' = [run EXCEPT !.todo = @ \ {p}] ELSE Fail
    /\ UNCHANGED <<schedules, wheels, publish, sparkJob, bootstrapped, manifests, vetted>>

-----------------------------------------------------------------------------
(* The Activator *)

\* verify_activator_runtime: the live rule is the one of the bundle, and an
\* operator has seen its actions work, unless the deployment defers that.
ActivatorStatus(matches, readable) ==
    CASE run.option.activator = "off" -> "succeeded"
      [] run.option.activator # "off" /\ ~readable -> "failed"
      [] run.option.activator # "off" /\ readable /\ ~matches -> "raised"
      [] OTHER -> CASE run.option.checkpoint = "valid" -> "succeeded"
                    [] run.option.checkpoint = "expired" -> "raised"
                    [] run.option.checkpoint = "none" ->
                         IF run.option.activator = "deferred" THEN "succeeded"
                         ELSE "operator_checkpoint_required"

\* validate_reflex_definition of the live definition: it can be read, and it is
\* the rule, the source and the actions of the bundle.
Readback == [readable : BOOLEAN, matches : BOOLEAN]

VerifyActivator ==
    /\ run.pc = "activator"
    /\ \E b \in Readback :
         LET status == ActivatorStatus(b.matches, b.readable)
         IN  /\ Counted([done |-> IF b.matches /\ b.readable THEN 1 ELSE 0, ok |-> TRUE])
             /\ run' = CASE status = "raised" -> [run EXCEPT !.pc = "ended", !.status = "failed"]
                         [] status = "succeeded" -> [run EXCEPT !.pc = "enable"]
                         [] OTHER -> [run EXCEPT !.pc = "enable", !.status = status,
                                                 !.checkpoints = @ \cup {"activator"}]
    /\ UNCHANGED items

-----------------------------------------------------------------------------
(* Evidence and the release manifest *)

\* overall_status of _runtime_evidence.
Overall == CASE run.status = "failed" -> "failed"
             [] run.status # "failed" /\ run.checkpoints # {} -> "operator_checkpoint_required"
             [] OTHER -> "succeeded"

Evidence ==
    /\ run.pc = "evidence"
    /\ run' = [run EXCEPT !.status = Overall,
                          !.pc = IF Overall = "succeeded" THEN "manifest" ELSE "ended"]
    /\ UNCHANGED <<items, faults>>

Document == <<run.release, run.option.terraform>>

\* publish_immutable_onelake_json: create, append and flush are three calls.
CreateManifest ==
    /\ run.pc = "manifest"
    /\ IF manifests[run.release] # <<>>
       THEN /\ IF manifests[run.release] = Document THEN Advance("ended") ELSE Fail
            /\ UNCHANGED <<manifests, faults>>
       ELSE \E a \in Reply :
              /\ Counted(a)
              /\ manifests' = IF a.done > 0 THEN [manifests EXCEPT ![run.release] = <<"empty">>]
                              ELSE manifests
              /\ Proceed(a, "flush")
    /\ UNCHANGED <<schedules, wheels, publish, sparkJob, bootstrapped, assigned, vetted>>

FlushManifest ==
    /\ run.pc = "flush"
    /\ \E a \in Reply :
         /\ Counted(a)
         /\ manifests' = IF a.done > 0 THEN [manifests EXCEPT ![run.release] = Document] ELSE manifests
         /\ Proceed(a, "ended")
    /\ UNCHANGED <<schedules, wheels, publish, sparkJob, bootstrapped, assigned, vetted>>

Dies ==
    /\ run.pc \notin {"idle", "ended"} /\ faults < MaxFaults
    /\ faults' = faults + 1
    /\ run' = [run EXCEPT !.pc = "ended", !.status = "dead"]
    /\ UNCHANGED items

RRNext ==
    \/ Begin \/ DisableSchedule \/ EnableSchedule
    \/ DeleteStale \/ Upload \/ SubmitPublish \/ EndPublish \/ PollPublish
    \/ SubmitBootstrap \/ EndBootstrap \/ PollBootstrap \/ DeadlinePasses
    \/ Folders \/ Connections \/ PowerBi \/ Reporting
    \/ ListAccess \/ RemoveAccess \/ VerifyActivator
    \/ Evidence \/ CreateManifest \/ FlushManifest \/ Dies

RRSpec == RRInit /\ [][RRNext]_rvars

-----------------------------------------------------------------------------
(* Properties *)

\* An enabled schedule starts jobs in an environment that passed every step of
\* some run without an open checkpoint: the passes of _reconcile_all_schedules
\* around the publish, whatever failed, was repeated or finished late.
EnabledSchedulesRunAVettedRelease ==
    (\E r \in Role : TRUE \in ToSet(schedules[r])) => publish.live \in vetted

\* A run of reconcile_runtime that reports "succeeded" left each role exactly
\* the schedule that was asked for and published its wheel alone, although
\* requests were sent twice and earlier runs stopped half-way.
SucceededRunIsInPlace ==
    run.pc = "ended" /\ run.status = "succeeded" =>
        /\ publish.live = {run.release}
        /\ run.option.bootstrap => run.release \in bootstrapped
        /\ \A r \in Role : schedules[r] = IF r \in Scheduled THEN <<run.option.enable>> ELSE <<>>

-----------------------------------------------------------------------------
(* The inductive invariant behind it *)

Wheel == Release \cup {NoRelease}
Before == {"disable", "stale", "upload", "publish", "published"}
Reconciles == {"bootstrap", "bootstrapping", "folders", "connections", "access", "remove",
               "powerBi", "reporting", "activator"}
Ends == {"evidence", "manifest", "flush"}
RunRecords ==
    [pc : {"idle", "enable", "ended"} \cup Before \cup Reconciles \cup Ends,
     release : Wheel, role : 1 .. Len(RoleOrder), todo : SUBSET Deprecated,
     status : {"none", "failed", "dead", "succeeded", "operator_checkpoint_required"},
     option : Options \cup {<<>>},
     checkpoints : SUBSET {"folders", "connections", "access", "powerBi", "reporting", "activator"},
     tables : BOOLEAN, n : Nat]
Publishings == [state : {"Success", "Running", "Failed"}, live : SUBSET Wheel, next : SUBSET Wheel]
SparkJobs == [state : {"none", "running", "succeeded", "failed"}, live : SUBSET Wheel]

RRTypeOK ==
    /\ schedules \in [Role -> Seq(BOOLEAN)]
    /\ wheels \subseteq Wheel
    /\ publish \in Publishings
    /\ sparkJob \in SparkJobs
    /\ run \in RunRecords
    /\ run.pc # "idle" => run.option \in Options

Disabled(r) == TRUE \notin ToSet(schedules[r])
\* A role has schedules if it should, and none if it should not.
Shaped(r) == IF r \in Scheduled THEN schedules[r] # <<>> ELSE schedules[r] = <<>>
AsAsked(r) == schedules[r] = IF r \in Scheduled THEN <<run.option.enable>> ELSE <<>>
RolesDone == {RoleOrder[i] : i \in 1 .. run.role - 1}

HasSucceeded == run.pc \in {"manifest", "flush"} \/ (run.pc = "ended" /\ run.status = "succeeded")

\* From the first pass over the schedules to the second one nothing is enabled.
PassesHold ==
    /\ run.pc = "disable" => \A r \in RolesDone : Disabled(r) /\ Shaped(r)
    /\ run.pc \in (Before \ {"disable"}) \cup Reconciles =>
           run.role = 1 /\ \A r \in Role : Disabled(r) /\ Shaped(r)
    /\ run.pc = "enable" =>
        /\ \A r \in Role : Shaped(r)
        /\ run.role = 1 \/ run.checkpoints # {} => \A r \in Role : Disabled(r)
        /\ run.checkpoints = {} => \A r \in RolesDone : AsAsked(r)
        /\ run.checkpoints = {} /\ run.role > 1 => publish.live \in vetted
    /\ run.pc = "evidence" /\ run.checkpoints = {} => \A r \in Role : AsAsked(r)
    /\ HasSucceeded => \A r \in Role : AsAsked(r)

\* While a publish goes on, whoever asked for it, nothing is enabled.
PublishHolds ==
    /\ publish.state = "Running" =>
        /\ \A r \in Role : Disabled(r)
        /\ run.pc \in Before \cup {"idle", "ended"} /\ ~HasSucceeded
    /\ run.pc = "upload" => wheels \subseteq {run.release}
    /\ run.pc = "publish" => wheels = {run.release}
    /\ run.pc = "published" =>
        /\ publish.state = "Running" => publish.next = {run.release}
        /\ publish.state = "Success" => publish.live = {run.release}
    /\ run.pc \in Reconciles \cup Ends \cup {"enable"} \/ HasSucceeded =>
           publish.live = {run.release}

BootstrapHolds ==
    /\ run.pc = "bootstrapping" =>
        /\ sparkJob.state # "none" /\ sparkJob.live = {run.release}
        /\ sparkJob.state = "succeeded" => run.release \in bootstrapped
    /\ run.pc \in (Reconciles \ {"bootstrap", "bootstrapping"}) \cup Ends \cup {"enable"} \/ HasSucceeded =>
           (run.option.bootstrap => run.release \in bootstrapped)

RRInv ==
    /\ RRTypeOK /\ PassesHold /\ PublishHolds /\ BootstrapHolds
    /\ EnabledSchedulesRunAVettedRelease
=============================================================================
