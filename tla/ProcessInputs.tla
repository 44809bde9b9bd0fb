---------------------------- MODULE ProcessInputs ---------------------------
(***************************************************************************)
(* process_main of fabric_sjd_runtime.py up to the execution: which way    *)
(* the executors of a process job get their videos and models.  Either     *)
(* they read the mounted Lakehouse (FABRIC_DIRECT), after a probe of every *)
(* executor, or the driver distributes verified copies (FABRIC_FALLBACK).  *)
(*                                                                         *)
(* The decision of a probe is a create-only file of the batch; a job that  *)
(* is run again finds the decision of the earlier one.  The executor ids   *)
(* of every application begin at 1, and Spark replaces an executor that it *)
(* lost at any time.  Copies are shared by all jobs through one directory  *)
(* of content-addressed aliases.                                           *)
(***************************************************************************)
EXTENDS Nothing, Naturals, FiniteSets

CONSTANTS
    Job,          \* applications started for one batch
    Artifact,     \* the video and the model files of the batch
    Proof,        \* what the probe profile asks of every executor
    Ability,      \* what an executor can do through the mount: sets of proofs
    Workers,      \* executors of the pool
    MaxExecutor   \* bound on executors an application gets to see

ASSUME AbilityAssumption ==
    /\ Ability \subseteq SUBSET Proof
    /\ MaxExecutor \in Nat /\ Workers \in 1..MaxExecutor
    /\ None \notin {"torn", "registered", "direct", "local"}

VARIABLES
    lake,         \* content of each artifact: "registered" or "other"
    alias,        \* the distributed alias of each registered digest
    decision,     \* the decision files, by the number of executors planned for
    pool,         \* the live executors of each application
    job

pivars == <<lake, alias, decision, pool, job>>

Executors == [id : 1..MaxExecutor, able : Ability]

Ids(executors) == {e.id : e \in executors}

NewJob == [pc |-> "discover", found |-> {}, probe |-> None, bound |-> {}, inputs |-> None,
           staging |-> None, todo |-> Artifact, shared |-> {}, known |-> {}, copying |-> None]

PIInit ==
    /\ lake = [a \in Artifact |-> "registered"]
    /\ alias = [a \in Artifact |-> None]
    /\ decision = [n \in 1..Workers |-> None]
    /\ pool \in [Job -> {{[id |-> n, able |-> able[n]] : n \in 1..Workers} :
                            able \in [1..Workers -> Ability]}]
    /\ job = [j \in Job |-> NewJob]

Goto(j, pc) == job' = [job EXCEPT ![j].pc = pc]
Raise(j) == Goto(j, "raised")

-----------------------------------------------------------------------------
(* The surroundings *)

\* Somebody writes a file of the Lakehouse.
WriteLake(a) ==
    /\ lake' = [lake EXCEPT ![a] = IF @ = "registered" THEN "other" ELSE "registered"]
    /\ UNCHANGED <<alias, decision, pool, job>>

\* An executor is gone and another one, with the next id, may have come.
ReplaceExecutor(j, e, able) ==
    /\ e \in pool[j] /\ \A x \in pool[j] : x.id < MaxExecutor
    /\ job[j].pc \notin {"raised", "run"}
    /\ LET next == [id |-> 1 + CHOOSE n \in Ids(pool[j]) : \A m \in Ids(pool[j]) : m <= n, able |-> able]
       IN  pool' = [pool EXCEPT ![j] = (@ \ {e}) \cup {next}]
    /\ UNCHANGED <<lake, alias, decision, job>>

-----------------------------------------------------------------------------
(* The probe *)

\* discover_active_executors returns what is alive now.
Discover(j) ==
    /\ job[j].pc = "discover"
    /\ job' = [job EXCEPT ![j].pc = "probe", ![j].found = pool[j]]
    /\ UNCHANGED <<lake, alias, decision, pool>>

\* One task: open the artifact the way the pipeline does.
Passes(e, p) == p \in e.able

\* Each proof runs tasks on every executor and all of them must pass; an
\* executor without a reading fails the proof.
EveryExecutor(p, executors, alive) ==
    executors \subseteq alive /\ \A e \in executors : Passes(e, p)

\* write, fsync, rename and read back a marker under the mount
MountProof(executors, alive) == EveryExecutor("posix", executors, alive)

\* one task, on any executor, with as many readers as there will be tasks
ConcurrentProof(alive) == \E e \in alive : e.able = Proof

ConsumerCapability(executors, alive) ==
    /\ MountProof(executors, alive)
    /\ \A p \in Proof \ {"posix"} : EveryExecutor(p, executors, alive)
    /\ ConcurrentProof(alive)

\* Evidence of a failed probe names executors and errors: it differs from one
\* probe to the next.  A probe that passes always says the same.
Probe(j) ==
    /\ job[j].pc = "probe"
    /\ \E r \in {[status |-> "AVAILABLE", evidence |-> "pass"]}
              \cup [status : {"BLOCKED"}, evidence : {"error 1", "error 2"}] :
         /\ r.status = "AVAILABLE" => ConsumerCapability(job[j].found, pool[j])
         /\ job' = [job EXCEPT ![j].pc = "decide", ![j].probe = r]
    /\ UNCHANGED <<lake, alias, decision, pool>>

Decision(j) == [ids |-> Ids(job[j].found), status |-> job[j].probe.status,
                evidence |-> job[j].probe.evidence]
ProbedPlan(j) == Cardinality(job[j].found)

\* A decision of other executors is kept, and blocks the mount for this run.
KeptStatus(j, old) == "BLOCKED"

ProbeDecision(j) ==
    LET old == decision[ProbedPlan(j)]
    IN  /\ job[j].pc = "decide"
        /\ \/ old = None /\ Goto(j, "create")
           \/ /\ old # None /\ old = Decision(j)
              /\ job' = [job EXCEPT ![j].pc = "select", ![j].bound = old.ids]
           \/ /\ old # None /\ old # Decision(j) /\ old.ids = Decision(j).ids
              /\ Raise(j)
           \/ /\ old # None /\ old.ids # Decision(j).ids
              /\ job' = [job EXCEPT ![j].pc = "select", ![j].bound = old.ids,
                                    ![j].probe.status = KeptStatus(j, old)]
        /\ UNCHANGED <<lake, alias, decision, pool>>

\* create_text after the check: another job may have been faster.
CreateDecision(j) ==
    /\ job[j].pc = "create"
    /\ IF decision[ProbedPlan(j)] = None
       THEN /\ decision' = [decision EXCEPT ![ProbedPlan(j)] = Decision(j)]
            /\ job' = [job EXCEPT ![j].pc = "select", ![j].bound = Decision(j).ids]
       ELSE Raise(j) /\ UNCHANGED decision
    /\ UNCHANGED <<lake, alias, pool>>

\* (slip) the result of the probe holds for any executors.
BoundProbeAlways(j) == job[j].probe.status = "AVAILABLE"

\* _bind_consumer_probe_to_executor_inventory
BoundProbe(j) == job[j].probe.status = "AVAILABLE" /\ Ids(pool[j]) = job[j].bound

SelectInputs(j) ==
    /\ job[j].pc = "select"
    /\ job' = [job EXCEPT ![j].pc = "localize", ![j].known = pool[j],
                          ![j].inputs = IF BoundProbe(j) THEN "direct" ELSE "fallback"]
    /\ UNCHANGED <<lake, alias, decision, pool>>

-----------------------------------------------------------------------------
(* _localize_process_inputs *)

\* stream_sha256 of the mounted file against the claim
RegisteredInLake(a) == lake[a] = "registered"

\* _fallback_localize and LocalizedSourceCache.get_or_stage: the driver's copy is
\* hashed whenever it is about to be trusted, fresh, cached or found on disk.
OwnCopyVerifies(a) == RegisteredInLake(a)

\* The driver hashes what the executors will read.
VerifyMounted(j, a) ==
    /\ job[j].pc = "localize" /\ job[j].inputs = "direct" /\ a \in job[j].todo
    /\ IF RegisteredInLake(a) THEN job' = [job EXCEPT ![j].todo = @ \ {a}] ELSE Raise(j)
    /\ UNCHANGED <<lake, alias, decision, pool>>

\* The driver streams the file, verifies its own copy and looks for the alias.
StageLocally(j, a) ==
    /\ job[j].pc = "localize" /\ job[j].inputs = "fallback" /\ a \in job[j].todo
    /\ IF ~OwnCopyVerifies(a) THEN Raise(j)
       ELSE job' = [job EXCEPT ![j].copying = a,
                               ![j].pc = IF alias[a] = None THEN "create alias" ELSE "verify alias"]
    /\ UNCHANGED <<lake, alias, decision, pool>>

\* filesystem.create(destination, False): the file is there before its bytes.
CreateAlias(j) ==
    /\ job[j].pc = "create alias"
    /\ LET a == job[j].copying
       IN  IF alias[a] = None THEN alias' = [alias EXCEPT ![a] = "torn"] /\ Goto(j, "copy alias")
           ELSE Raise(j) /\ UNCHANGED alias
    /\ UNCHANGED <<lake, decision, pool>>

CopyAlias(j) ==
    /\ job[j].pc = "copy alias"
    /\ alias' = [alias EXCEPT ![job[j].copying] = "registered"]
    /\ Goto(j, "verify alias")
    /\ UNCHANGED <<lake, decision, pool>>

AliasServes(a) == alias[a] = "registered"

\* The alias is streamed back; only then addFile hands it to the executors.
VerifyAlias(j) ==
    /\ job[j].pc = "verify alias"
    /\ LET a == job[j].copying
       IN  IF AliasServes(a)
           THEN job' = [job EXCEPT ![j].pc = "localize", ![j].todo = @ \ {a}, ![j].shared = @ \cup {a}]
           ELSE Raise(j)
    /\ UNCHANGED <<lake, alias, decision, pool>>

\* select_process_execution_harness: once more, for the staging.
SelectHarness(j) ==
    /\ job[j].pc = "localize" /\ job[j].todo = {}
    /\ job' = [job EXCEPT ![j].pc = "run", ![j].found = pool[j],
                          ![j].staging = IF BoundProbe(j) THEN "local" ELSE "spark_delta"]
    /\ UNCHANGED <<lake, alias, decision, pool>>

Die(j) ==
    /\ job[j].pc \notin {"raised", "run"}
    /\ Raise(j)
    /\ UNCHANGED <<lake, alias, decision, pool>>

PINext ==
    \/ \E a \in Artifact : WriteLake(a)
    \/ \E j \in Job :
         \/ \E e \in pool[j], able \in Ability : ReplaceExecutor(j, e, able)
         \/ Discover(j) \/ Probe(j) \/ ProbeDecision(j) \/ CreateDecision(j) \/ SelectInputs(j)
         \/ \E a \in Artifact : VerifyMounted(j, a) \/ StageLocally(j, a)
         \/ CreateAlias(j) \/ CopyAlias(j) \/ VerifyAlias(j) \/ SelectHarness(j) \/ Die(j)

PISpec == PIInit /\ [][PINext]_pivars

-----------------------------------------------------------------------------
(* Properties *)

\* A job whose inputs or whose staging use the mount saw, when it chose so,
\* only executors that pass every proof: the decision of an earlier run and
\* the replacement of executors between probe and use never let
\* select_input_backend or select_process_execution_harness choose an
\* unproven mount.
MountIsProvenWhenChosen ==
    \A j \in Job :
        /\ job[j].inputs = "direct" => \A e \in job[j].known : e.able = Proof
        /\ job[j].staging = "local" => \A e \in job[j].found : e.able = Proof

\* What _fallback_localize handed to addFile is the registered content, although
\* aliases are created before they are written, jobs die in between, and the
\* files of the Lakehouse change.
DistributedCopiesAreRegistered ==
    \A j \in Job, a \in Artifact : a \in job[j].shared => alias[a] = "registered"

\* Either way to the inputs is safe: a mount that was proven, or copies that
\* are what was registered.
InputsAreSafe == MountIsProvenWhenChosen /\ DistributedCopiesAreRegistered

-----------------------------------------------------------------------------
(* The inductive invariant behind InputsAreSafe *)

Results == [status : {"AVAILABLE", "BLOCKED"}, evidence : {"pass", "error 1", "error 2"}]
Decisions == [ids : SUBSET (1..MaxExecutor), status : {"AVAILABLE", "BLOCKED"},
              evidence : {"pass", "error 1", "error 2"}]
Copying == {"create alias", "copy alias", "verify alias"}
JobRows ==
    [pc : {"discover", "probe", "decide", "create", "select", "localize", "run", "raised"} \cup Copying,
     found : SUBSET Executors, probe : Results \cup {None}, bound : SUBSET (1..MaxExecutor),
     inputs : {None, "direct", "fallback"}, staging : {None, "local", "spark_delta"},
     todo : SUBSET Artifact, shared : SUBSET Artifact, known : SUBSET Executors,
     copying : Artifact \cup {None}]

PITypeOK ==
    /\ alias \in [Artifact -> {None, "torn", "registered"}]
    /\ decision \in [1..Workers -> Decisions \cup {None}]
    /\ pool \in [Job -> SUBSET Executors]
    /\ job \in [Job -> JobRows]

\* A pool keeps its size, and an id means one executor.
IsPool(executors) ==
    /\ IsFiniteSet(executors) /\ Cardinality(executors) = Workers
    /\ \A x, y \in executors : x.id = y.id => x = y

\* Ids are not given again: an executor that was found and is gone has left its
\* id behind.
FoundOrGone(found, executors) ==
    \A e \in found : /\ \A x \in executors : x.id = e.id => x = e
                     /\ \E x \in executors : e.id <= x.id

AllPass(executors) == \A e \in executors : e.able = Proof

Probed(j) == job[j].pc \in {"decide", "create", "select", "localize"} \cup Copying
Bound(j) == job[j].pc \in {"select", "localize"} \cup Copying

\* What a job has found out about its executors, until it runs.
KnowsItsPool(j) ==
    /\ IsPool(pool[j])
    /\ Probed(j) \/ job[j].pc = "probe" => IsPool(job[j].found) /\ FoundOrGone(job[j].found, pool[j])
    /\ Probed(j) => job[j].probe \in Results
    /\ Probed(j) /\ job[j].probe.status = "AVAILABLE" => AllPass(job[j].found)
    /\ Bound(j) /\ job[j].probe.status = "AVAILABLE" => job[j].bound = Ids(job[j].found)
    /\ job[j].inputs = "direct" => AllPass(job[j].known)
    /\ job[j].staging = "local" => job[j].pc \in {"run", "raised"} /\ AllPass(job[j].found)
    /\ job[j].pc \in Copying => job[j].copying \in Artifact

PIInv == PITypeOK /\ DistributedCopiesAreRegistered /\ \A j \in Job : KnowsItsPool(j)
=============================================================================
