-------------------------- MODULE DeployOperations --------------------------
(***************************************************************************)
(* scripts/deploy_sjd_operations.py: an operator binds the items of a      *)
(* workspace to a build.  Two Spark job definitions are created or         *)
(* updated, the intake pipeline and the registration notebook are bound,   *)
(* and five schedules are set, one request after the other and without a   *)
(* lock.                                                                   *)
(*                                                                         *)
(* A request may fail although Fabric did what it asked, or will do it     *)
(* after the command gave up waiting; the command then ends where it is.   *)
(* A definition, the binding of the intake and the arguments of a schedule *)
(* are known by the build they were made from; the binding of the notebook *)
(* is the same for all builds.                                             *)
(***************************************************************************)
EXTENDS Naturals, Sequences, SequencesExt, Nothing

CONSTANTS
    Build,          \* builds an operator deploys
    Deployment,     \* runs of the command
    ItemKinds,      \* Spark job definitions, in order: "dispatcher", "refresh"
    ScheduleKinds   \* schedules, in order: "dispatcher", "control", "reconciliation",
                    \* "gold", "refresh"

ASSUME KindsAssumption ==
    ItemKinds \in Seq(ToSet(ItemKinds)) /\ ScheduleKinds \in Seq(ToSet(ScheduleKinds))

VARIABLES
    workspace,    \* items, the bindings of intake and notebook, schedules
    deploys,      \* the runs
    lateWrites,   \* accepted and not done when their run gave up
    undisturbed   \* runs during and since which nobody else wrote (history)

dovars == <<workspace, deploys, lateWrites, undisturbed>>

Targets(what, kinds) == [i \in DOMAIN kinds |-> [what |-> what, kind |-> kinds[i]]]

\* What the command goes through, in its order.
Targeted ==
    <<[what |-> "compute", kind |-> None]>>
    \o Targets("item", ItemKinds)
    \o <<[what |-> "intake", kind |-> None], [what |-> "notebook", kind |-> None]>>
    \o Targets("schedule", ScheduleKinds)

NotDeployed == [phase |-> "idle", at |-> 1, build |-> None, enable |-> FALSE, index |-> 0]

DOInit ==
    /\ workspace = [item |-> [k \in ToSet(ItemKinds) |-> <<>>],
                    intake |-> None, notebook |-> None,
                    schedule |-> [k \in ToSet(ScheduleKinds) |-> <<>>]]
    /\ deploys = [d \in Deployment |-> NotDeployed]
    /\ lateWrites = {}
    /\ undisturbed = {}

\* What a request writes: the notebook looks its release up by itself.
Written(what, build, enabled) ==
    CASE what = "schedule" -> [enabled |-> enabled, build |-> build]
      [] what = "notebook" -> "bound"
      [] OTHER -> build

Deploying(d) == deploys[d].phase \in {"read", "write", "check"}
Target(d) == Targeted[deploys[d].at]
Found(d) == LET t == Target(d) IN workspace[t.what][t.kind]

StartDeploy(d, build, enable) ==
    /\ deploys[d] = NotDeployed
    /\ deploys' = [deploys EXCEPT ![d] = [NotDeployed EXCEPT !.phase = "read", !.build = build,
                                                             !.enable = enable]]
    /\ undisturbed' = undisturbed \cup {d}
    /\ UNCHANGED <<workspace, lateWrites>>

NextTarget(d) ==
    IF deploys[d].at = Len(Targeted) THEN [deploys EXCEPT ![d].phase = "done"]
    ELSE [deploys EXCEPT ![d].phase = "read", ![d].at = @ + 1]

\* Only reads.
VerifyCompute(d) ==
    /\ deploys[d].phase = "read" /\ Target(d).what = "compute"
    /\ deploys' = NextTarget(d)
    /\ UNCHANGED <<workspace, lateWrites, undisturbed>>

\* The definition of the intake pipeline or the notebook, to be changed in one
\* place and sent back.
ReadDefinition(d) ==
    /\ deploys[d].phase = "read" /\ Target(d).what \in {"intake", "notebook"}
    /\ deploys' = [deploys EXCEPT ![d].phase = "write"]
    /\ UNCHANGED <<workspace, lateWrites, undisturbed>>

\* The listing of items or schedules; two of a name are refused.
FindByName(d) ==
    /\ deploys[d].phase = "read" /\ Target(d).what \in {"item", "schedule"}
    /\ Len(Found(d)) <= 1
    /\ deploys' = [deploys EXCEPT ![d].phase = "write", ![d].index = Len(Found(d))]
    /\ UNCHANGED <<workspace, lateWrites, undisturbed>>

\* (slip) a schedule is added without a look at those there are.
RequestAdding(d) ==
    [what |-> Target(d).what, kind |-> Target(d).kind,
     index |-> IF Target(d).what = "schedule" THEN 0 ELSE deploys[d].index,
     build |-> deploys[d].build, enabled |-> deploys[d].enable, by |-> d]

\* The request: a create when nothing was found, else an update of it.
Request(d) ==
    [what |-> Target(d).what, kind |-> Target(d).kind, index |-> deploys[d].index,
     build |-> deploys[d].build, enabled |-> deploys[d].enable, by |-> d]

\* Created, or updated where it was found.
Put(list, index, new) == IF index = 0 THEN Append(list, new) ELSE [list EXCEPT ![index] = new]

\* The workspace after a request was carried out.
Applied(q) ==
    LET new == Written(q.what, q.build, q.enabled)
    IN  IF q.what \in {"intake", "notebook"} THEN [workspace EXCEPT ![q.what] = new]
        ELSE [workspace EXCEPT ![q.what] =
                 [@ EXCEPT ![q.kind] = Put(workspace[q.what][q.kind], q.index, new)]]

Undisturbed(q) == undisturbed \cap {q.by}

\* Answered, perhaps after a long operation was waited for.  The answer to a
\* schedule is its readback.
WriteTarget(d) ==
    LET q == Request(d)
        created == [deploys EXCEPT ![d].phase = "check", ![d].index = Len(Applied(q)[q.what][q.kind])]
    IN  /\ deploys[d].phase = "write"
        /\ workspace' = Applied(q)
        /\ undisturbed' = Undisturbed(q)
        /\ deploys' = IF q.what = "schedule" THEN NextTarget(d)
                      ELSE IF q.what = "item" /\ q.index = 0 THEN created
                      ELSE [deploys EXCEPT ![d].phase = "check"]
        /\ UNCHANGED lateWrites

ReadBack(d) ==
    IF Target(d).what = "item" THEN Found(d)[deploys[d].index] ELSE workspace[Target(d).what]

\* What is there is compared with what was sent.
CheckTarget(d) ==
    /\ deploys[d].phase = "check"
    /\ deploys' = IF ReadBack(d) = Written(Target(d).what, deploys[d].build, deploys[d].enable)
                  THEN NextTarget(d)
                  ELSE [deploys EXCEPT ![d].phase = "failed"]
    /\ UNCHANGED <<workspace, lateWrites, undisturbed>>

-----------------------------------------------------------------------------
(* Faults *)

\* A check raises, a request is refused, or the process ends.
FailDeploy(d) ==
    /\ Deploying(d)
    /\ deploys' = [deploys EXCEPT ![d].phase = "failed"]
    /\ UNCHANGED <<workspace, lateWrites, undisturbed>>

\* The request raises and was carried out, or will be.
LoseAnswer(d) ==
    /\ deploys[d].phase = "write"
    /\ deploys' = [deploys EXCEPT ![d].phase = "failed"]
    /\ \/ /\ workspace' = Applied(Request(d))
          /\ undisturbed' = Undisturbed(Request(d))
          /\ UNCHANGED lateWrites
       \/ /\ lateWrites' = lateWrites \cup {Request(d)}
          /\ UNCHANGED <<workspace, undisturbed>>

FinishLate(q) ==
    /\ q \in lateWrites
    /\ workspace' = Applied(q)
    /\ undisturbed' = Undisturbed(q)
    /\ lateWrites' = lateWrites \ {q}
    /\ UNCHANGED deploys

-----------------------------------------------------------------------------
DONext ==
    \/ \E d \in Deployment :
          \/ \E build \in Build, enable \in BOOLEAN : StartDeploy(d, build, enable)
          \/ VerifyCompute(d) \/ ReadDefinition(d) \/ FindByName(d) \/ WriteTarget(d) \/ CheckTarget(d)
          \/ FailDeploy(d) \/ LoseAnswer(d)
    \/ \E q \in lateWrites : FinishLate(q)

DOSpec == DOInit /\ [][DONext]_dovars
-----------------------------------------------------------------------------
(* Properties *)

\* A deployment that returned, while and since nobody else wrote, is what it
\* was asked for, whatever earlier ones left behind, half-way or late: one
\* definition of each name, intake that registers for the build the dispatcher
\* claims for, and one schedule of each job (deploy_operations,
\* reconcile_schedule).
ReturnedDeploymentIsInPlace ==
    \A d \in undisturbed : deploys[d].phase = "done" =>
        LET build == deploys[d].build
        IN  /\ \A k \in DOMAIN workspace.item : workspace.item[k] = <<build>>
            /\ workspace.intake = build /\ workspace.notebook = "bound"
            /\ \A k \in DOMAIN workspace.schedule :
                  workspace.schedule[k] = <<[enabled |-> deploys[d].enable, build |-> build]>>

-----------------------------------------------------------------------------
(* The inductive invariant behind it *)

Aims ==
    [what : {"compute", "intake", "notebook"}, kind : {None}]
    \cup [what : {"item"}, kind : ToSet(ItemKinds)]
    \cup [what : {"schedule"}, kind : ToSet(ScheduleKinds)]

Settings == [enabled : BOOLEAN, build : Build]

Runs == [phase : {"idle", "read", "write", "check", "done", "failed"}, at : 1..Len(Targeted),
         build : Build \cup {None}, enable : BOOLEAN, index : Nat]

Requests == [what : {"compute", "intake", "notebook", "item", "schedule"},
             kind : ToSet(ItemKinds) \cup ToSet(ScheduleKinds) \cup {None},
             index : Nat, build : Build, enabled : BOOLEAN, by : Deployment]

Workspaces ==
    [item : [ToSet(ItemKinds) -> Seq(Build)], intake : Build \cup {None},
     notebook : {None, "bound"}, schedule : [ToSet(ScheduleKinds) -> Seq(Settings)]]

DOTypeOK ==
    /\ workspace \in Workspaces
    /\ deploys \in [Deployment -> Runs]
    /\ undisturbed \in SUBSET Deployment
    /\ lateWrites \in SUBSET Requests

\* What a request may be about.
IsWrite(q) ==
    \/ q.what \in {"intake", "notebook"}
    \/ q.what = "item" /\ q.kind \in ToSet(ItemKinds)
    \/ q.what = "schedule" /\ q.kind \in ToSet(ScheduleKinds)

\* A target is as the run d wants it.
InPlace(d, t) ==
    CASE t.what = "item" -> workspace.item[t.kind] = <<deploys[d].build>>
      [] t.what = "schedule" ->
             workspace.schedule[t.kind] = <<[enabled |-> deploys[d].enable, build |-> deploys[d].build]>>
      [] t.what = "intake" -> workspace.intake = deploys[d].build
      [] t.what = "notebook" -> workspace.notebook = "bound"
      [] OTHER -> TRUE

\* As long as nobody else writes, what a run has done stays, and what it has
\* found is there.
KnowsWorkspace(d) ==
    /\ Deploying(d) => \A i \in 1..(deploys[d].at - 1) : InPlace(d, Targeted[i])
    /\ deploys[d].phase = "write" /\ Target(d).what \in {"item", "schedule"} =>
           Len(Found(d)) <= 1 /\ deploys[d].index = Len(Found(d))
    /\ deploys[d].phase = "check" => InPlace(d, Target(d))
    /\ deploys[d].phase = "done" => \A i \in 1..Len(Targeted) : InPlace(d, Targeted[i])

DOInv ==
    /\ DOTypeOK
    /\ \A d \in Deployment : /\ deploys[d].phase # "idle" => deploys[d].build \in Build
                             /\ deploys[d].phase = "write" => Target(d).what # "compute"
    /\ \A q \in lateWrites : IsWrite(q) /\ deploys[q.by].phase = "failed"
    /\ \A d \in undisturbed : KnowsWorkspace(d)
=============================================================================
