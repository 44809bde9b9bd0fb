-------------------------- MODULE PartitionStaging --------------------------
(***************************************************************************)
(* StreamingSparkExecutionHarness of sjd_process.py: executors process the *)
(* buckets of a plan and stage their rows; the driver collects one bounded *)
(* receipt per bucket and reads the staged rows back.  Rows are staged as  *)
(* files (local) or as one create-only Delta table (spark_delta).          *)
(*                                                                         *)
(* A job that is started again for the same envelope uses the same staging *)
(* root, while the executors of the first may still be at work.  Task ids  *)
(* of Spark start again from 0 in every application.                       *)
(*                                                                         *)
(* Every record carries its emission time, its host and the identity of    *)
(* its task, so that two executions never produce the same bytes: content  *)
(* is named by the application and the task attempt that produced it.      *)
(***************************************************************************)
EXTENDS Nothing, Naturals, FiniteSets

CONSTANTS
    Driver,       \* the applications started for one envelope
    Partition,    \* the physical partitions whose bucket is not empty
    MaxTasks      \* bound on task attempts of an application

ASSUME StagingAssumption == Partition # {}

VARIABLES
    backend,      \* staging_backend of the deployment: "local" or "spark_delta"
    files,        \* the staged files: <<partition, task, attempt>> -> content
    deltaTable,   \* the rows of the Delta stage; {}: it does not exist
    tasks,        \* the task attempts of each application
    harness       \* the driver side

psvars == <<backend, files, deltaTable, tasks, harness>>

Path == Partition \X (0..MaxTasks - 1) \X (0..MaxTasks - 1)

PSInit ==
    /\ backend \in {"local", "spark_delta"}
    /\ files = [x \in Path |-> None]
    /\ deltaTable = {}
    /\ tasks = [d \in Driver |-> {}]
    /\ harness = [d \in Driver |-> [pc |-> "idle", receipts |-> {}, records |-> None]]

Content(d, t) == [driver |-> d, task |-> t.id, partition |-> t.partition]
PathOf(t) == <<t.partition, t.id, t.number>>
Receipt(d, t) == [partition |-> t.partition, path |-> PathOf(t), digest |-> Content(d, t)]

-----------------------------------------------------------------------------
(* Spark *)

\* The harness begins.  A Delta stage that exists is taken as it is.
ExecuteHarness(d) ==
    /\ harness[d].pc = "idle"
    /\ harness' = [harness EXCEPT ![d].pc =
                     IF backend = "spark_delta" /\ deltaTable # {} THEN "staged" ELSE "run"]
    /\ UNCHANGED <<files, deltaTable, tasks>>

Done(d) == {p \in Partition : \E t \in tasks[d] : t.partition = p /\ t.state = "succeeded"}

\* A task of the bucket: the first, or one more when the last one failed or is
\* believed lost.  A lost one may go on.
StartTask(d, p) ==
    /\ harness[d].pc = "run" /\ p \notin Done(d)
    /\ Cardinality(tasks[d]) < MaxTasks
    /\ \A t \in tasks[d] : t.partition = p => t.state = "failed" \/ t.zombie
    /\ tasks' = [tasks EXCEPT ![d] = @ \cup
         {[id |-> Cardinality(@), partition |-> p, state |-> "running", zombie |-> FALSE,
           number |-> Cardinality({t \in @ : t.partition = p})]}]
    /\ UNCHANGED <<files, deltaTable, harness>>

Becomes(d, t, state) ==
    tasks' = [tasks EXCEPT ![d] = (@ \ {t}) \cup {[t EXCEPT !.state = state]}]

LoseTask(d, t) ==
    /\ t \in tasks[d] /\ t.state \in {"running", "absent"} /\ ~t.zombie
    /\ tasks' = [tasks EXCEPT ![d] = (@ \ {t}) \cup {[t EXCEPT !.zombie = TRUE]}]
    /\ UNCHANGED <<files, deltaTable, harness>>

\* The executor fails: a failing processor, a wrong release, a lost host.
FailTask(d, t) ==
    /\ t \in tasks[d] /\ t.state \in {"running", "absent"}
    /\ Becomes(d, t, "failed")
    /\ UNCHANGED <<files, deltaTable, harness>>

-----------------------------------------------------------------------------
(* stage_partition_records: files *)

\* Its own path is taken by another content, or is free.
LookForFile(d, t) ==
    /\ t \in tasks[d] /\ t.state = "running" /\ backend = "local"
    /\ Becomes(d, t, IF files[PathOf(t)] # None THEN "failed" ELSE "absent")
    /\ UNCHANGED <<files, deltaTable, harness>>

\* os.replace of the temporary, and the receipt.
ReplaceFile(d, t) ==
    /\ t \in tasks[d] /\ t.state = "absent"
    /\ files' = [files EXCEPT ![PathOf(t)] = Content(d, t)]
    /\ Becomes(d, t, "succeeded")
    \* the result of a zombie may or may not reach the driver
    /\ \E arrives \in IF t.zombie THEN BOOLEAN ELSE {TRUE} :
         harness' = IF arrives /\ harness[d].pc = "run"
                    THEN [harness EXCEPT ![d].receipts = @ \cup {Receipt(d, t)}] ELSE harness
    /\ UNCHANGED deltaTable

\* The executor dies between the file and the receipt.
StageThenFail(d, t) ==
    /\ t \in tasks[d] /\ t.state = "absent"
    /\ files' = [files EXCEPT ![PathOf(t)] = Content(d, t)]
    /\ Becomes(d, t, "failed")
    /\ UNCHANGED <<deltaTable, harness>>

-----------------------------------------------------------------------------
(* _stage_delta_once: rows and receipts of one job in one commit *)

FinishTask(d, t) ==
    /\ t \in tasks[d] /\ t.state = "running" /\ backend = "spark_delta"
    /\ Becomes(d, t, "succeeded")
    /\ UNCHANGED <<files, deltaTable, harness>>

\* (slip) the stage is overwritten.
CommittedStageOverwrites(rows) == rows

\* mode("errorifexists"): the first commit stays.
CommittedStage(rows) == IF deltaTable = {} THEN rows ELSE deltaTable

\* Spark commits one attempt of each task.
CommitDelta(d) ==
    /\ harness[d].pc = "run" /\ backend = "spark_delta" /\ Done(d) = Partition
    /\ \E win \in [Partition -> tasks[d]] :
         /\ \A p \in Partition : win[p].partition = p /\ win[p].state = "succeeded"
         /\ deltaTable' = CommittedStage({Receipt(d, win[p]) : p \in Partition})
    /\ harness' = [harness EXCEPT ![d].pc = "staged"]
    /\ UNCHANGED <<files, tasks>>

ReadDelta(d) ==
    /\ harness[d].pc = "staged"
    /\ harness' = [harness EXCEPT ![d].pc = "select", ![d].receipts = deltaTable]
    /\ UNCHANGED <<files, deltaTable, tasks>>

-----------------------------------------------------------------------------
(* The driver *)

Collect(d) ==
    /\ harness[d].pc = "run" /\ backend = "local" /\ Done(d) = Partition
    /\ \A p \in Partition : \E r \in harness[d].receipts : r.partition = p
    /\ harness' = [harness EXCEPT ![d].pc = "select"]
    /\ UNCHANGED <<files, deltaTable, tasks>>

\* select_one_receipt_per_partition: several receipts must agree.
OneEach(receipts) ==
    /\ {r.partition : r \in receipts} = Partition
    /\ Cardinality(receipts) = Cardinality(Partition)

\* read_staged_partition_records, _read_selected_delta_records: the rows have
\* the digest of the receipt.
MatchesReceipt(d, r) == backend = "local" => files[r.path] = r.digest

RecordsOf(rs) ==
    [p \in Partition |-> LET r == CHOOSE r \in rs : r.partition = p
                         IN IF backend = "local" THEN files[r.path] ELSE r.digest]

ReadRecords(d) ==
    /\ harness[d].pc = "select"
    /\ LET rs == harness[d].receipts
       IN  IF OneEach(rs) /\ \A r \in rs : MatchesReceipt(d, r)
           THEN harness' = [harness EXCEPT ![d].pc = "returned", ![d].records = RecordsOf(rs)]
           ELSE harness' = [harness EXCEPT ![d].pc = "raised"]
    /\ UNCHANGED <<files, deltaTable, tasks>>

\* Spark gives up on the job, or the driver is gone.
AbortJob(d) ==
    /\ harness[d].pc \in {"run", "staged", "select"}
    /\ harness' = [harness EXCEPT ![d].pc = "raised"]
    /\ UNCHANGED <<files, deltaTable, tasks>>

PSNext ==
    /\ UNCHANGED backend
    /\ \E d \in Driver :
       \/ ExecuteHarness(d) \/ CommitDelta(d) \/ ReadDelta(d) \/ Collect(d) \/ ReadRecords(d) \/ AbortJob(d)
       \/ \E p \in Partition : StartTask(d, p)
       \/ \E t \in tasks[d] :
            \/ LoseTask(d, t) \/ FailTask(d, t) \/ LookForFile(d, t) \/ ReplaceFile(d, t)
            \/ StageThenFail(d, t) \/ FinishTask(d, t)

PSSpec == PSInit /\ [][PSNext]_psvars

-----------------------------------------------------------------------------
(* Properties *)

\* What execute returns is one execution of each bucket: with files, one by the
\* tasks of this application, whatever other applications and lost tasks wrote
\* to the same root; with a Delta stage, the execution that every application
\* returns.
HarnessReturnsOneExecution ==
    \A d \in Driver : harness[d].pc = "returned" =>
        IF backend = "local"
        THEN \A p \in Partition : harness[d].records[p].driver = d
                               /\ harness[d].records[p].partition = p
        ELSE \A e \in Driver : harness[e].pc = "returned" => harness[e].records = harness[d].records

-----------------------------------------------------------------------------
(* The inductive invariant behind HarnessReturnsOneExecution *)

Contents == [driver : Driver, task : Nat, partition : Partition]
Receipts == [partition : Partition, path : Partition \X Nat \X Nat, digest : Contents]
TaskAttempt == [id : Nat, partition : Partition, zombie : BOOLEAN, number : Nat,
                state : {"running", "absent", "succeeded", "failed"}]

Harness == [pc : {"idle", "run", "staged", "select", "returned", "raised"},
            receipts : SUBSET Receipts, records : [Partition -> Contents] \cup {None}]

PSTypeOK ==
    /\ backend \in {"local", "spark_delta"}
    /\ deltaTable \in SUBSET Receipts
    /\ tasks \in [Driver -> SUBSET TaskAttempt]
    /\ \A d \in Driver : IsFiniteSet(tasks[d])
    /\ harness \in [Driver -> Harness]

\* Receipts reach the driver of the tasks that gave them, and name what these
\* tasks staged.
OwnReceipts(d) ==
    \A r \in harness[d].receipts : r.digest.driver = d /\ r.digest.partition = r.partition

\* With files an application reads only what its receipts name; with a Delta
\* stage every application reads the one table there is.
ReadsOneExecution(d) ==
    IF backend = "local"
    THEN /\ OwnReceipts(d) /\ harness[d].pc # "staged"
         /\ harness[d].pc = "returned" =>
               \A p \in Partition : harness[d].records[p].driver = d
                                  /\ harness[d].records[p].partition = p
    ELSE /\ harness[d].pc \in {"staged", "select", "returned"} => deltaTable # {}
         /\ harness[d].pc = "select" => harness[d].receipts = deltaTable
         /\ harness[d].pc = "returned" => harness[d].records = RecordsOf(deltaTable)

PSInv == PSTypeOK /\ \A d \in Driver : ReadsOneExecution(d)
=============================================================================
