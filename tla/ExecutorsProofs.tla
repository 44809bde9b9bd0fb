--------------------------- MODULE ExecutorsProofs --------------------------
(***************************************************************************)
(* Proofs about the inside of a process batch: what its harness returns,   *)
(* which release computes it, where its inputs come from, how many tasks   *)
(* an executor carries, whom the ids of its frames stand for, what the     *)
(* camera catalog and the line count promise, how many works a lease is    *)
(* given and what a report makes of an event log, for any number of        *)
(* applications, executors, tasks, sessions, releases, people, frames,     *)
(* durations and lines.                                                    *)
(***************************************************************************)
EXTENDS PartitionStaging, ReleaseBinding, ProcessInputs, Placement, Catalog, LineCounting,
        ClaimAdmission, Tracking, EventEvidence,
        FiniteSetTheorems, WellFoundedInduction, TLAPS

(* PartitionStaging *)

LEMMA StagingInit == PSInit => PSInv
  <1> SUFFICES ASSUME PSInit PROVE PSInv
    OBVIOUS
  <1>1. PSTypeOK
    BY FS_EmptySet DEF PSInit, PSTypeOK, Harness
  <1>2. \A d \in Driver : ReadsOneExecution(d)
    BY DEF PSInit, ReadsOneExecution, OwnReceipts
  <1> QED BY <1>1, <1>2 DEF PSInv

TasksTyped ==
    tasks \in [Driver -> SUBSET TaskAttempt] /\ \A d \in Driver : IsFiniteSet(tasks[d])

\* What a step does to the tasks of one application.
LEMMA TasksStep ==
    ASSUME PSInv, NEW d \in Driver, NEW new \in SUBSET TaskAttempt, IsFiniteSet(new),
           tasks' = [tasks EXCEPT ![d] = new]
    PROVE  TasksTyped'
  BY DEF PSInv, PSTypeOK, TasksTyped

\* Where the table and the drivers stay as they are.
LEMMA QuietStep ==
    ASSUME PSInv, TasksTyped', UNCHANGED <<backend, deltaTable, harness>>
    PROVE  PSInv'
  <1>1. PSTypeOK'
    BY DEF PSInv, PSTypeOK, TasksTyped
  <1>2. ASSUME NEW e \in Driver PROVE ReadsOneExecution(e)'
    <2>1. ReadsOneExecution(e)
      BY DEF PSInv
    <2>2. CASE backend = "local"
      BY <2>1, <2>2 DEF ReadsOneExecution, OwnReceipts
    <2>3. CASE backend # "local"
      <3>1. RecordsOf(deltaTable)' = RecordsOf(deltaTable)
        BY <2>3 DEF RecordsOf
      <3> QED BY <2>1, <2>3, <3>1 DEF ReadsOneExecution
    <2> QED BY <2>2, <2>3
  <1> QED BY <1>1, <1>2 DEF PSInv

\* What a step does to the driver of one application.
LEMMA DriverStep ==
    ASSUME PSInv, NEW d \in Driver, NEW row \in Harness,
           harness' = [harness EXCEPT ![d] = row],
           TasksTyped', UNCHANGED <<backend, deltaTable>>,
           ReadsOneExecution(d)'
    PROVE  PSInv'
  <1>1. PSTypeOK'
    BY DEF PSInv, PSTypeOK, TasksTyped
  <1>2. ASSUME NEW e \in Driver PROVE ReadsOneExecution(e)'
    <2>1. CASE e = d
      BY <2>1
    <2>2. CASE e # d
      <3>1. ReadsOneExecution(e) /\ harness'[e] = harness[e]
        BY <2>2 DEF PSInv, PSTypeOK
      <3>2. CASE backend = "local"
        BY <3>1, <3>2 DEF ReadsOneExecution, OwnReceipts
      <3>3. CASE backend # "local"
        <4>1. RecordsOf(deltaTable)' = RecordsOf(deltaTable)
          BY <3>3 DEF RecordsOf
        <4> QED BY <3>1, <3>3, <4>1 DEF ReadsOneExecution
      <3> QED BY <3>2, <3>3
    <2> QED BY <2>1, <2>2
  <1> QED BY <1>1, <1>2 DEF PSInv

LEMMA ReceiptType ==
    ASSUME NEW d \in Driver, NEW t \in TaskAttempt
    PROVE  Receipt(d, t) \in Receipts
  BY DEF TaskAttempt, Receipt, Receipts, Contents, Content, PathOf

LEMMA DriverRow ==
    ASSUME PSInv, NEW d \in Driver
    PROVE  /\ harness[d] \in Harness /\ harness[d].receipts \in SUBSET Receipts
           /\ ReadsOneExecution(d)
  BY DEF PSInv, PSTypeOK, Harness

LEMMA TaskSet ==
    ASSUME PSInv, NEW d \in Driver
    PROVE  /\ tasks[d] \in SUBSET TaskAttempt /\ IsFiniteSet(tasks[d])
           /\ \A t \in TaskAttempt : /\ tasks[d] \cup {t} \in SUBSET TaskAttempt
                                     /\ IsFiniteSet(tasks[d] \cup {t})
           /\ \A t \in TaskAttempt : \A u :
                /\ (tasks[d] \ {u}) \cup {t} \in SUBSET TaskAttempt
                /\ IsFiniteSet((tasks[d] \ {u}) \cup {t})
  <1>1. tasks[d] \in SUBSET TaskAttempt /\ IsFiniteSet(tasks[d])
    BY DEF PSInv, PSTypeOK
  <1>2. \A t \in TaskAttempt : IsFiniteSet(tasks[d] \cup {t})
    BY <1>1, FS_AddElement
  <1>3. \A u : IsFiniteSet(tasks[d] \ {u})
    BY <1>1, FS_RemoveElement
  <1>4. \A t \in TaskAttempt : \A u : IsFiniteSet((tasks[d] \ {u}) \cup {t})
    BY <1>3, FS_AddElement
  <1> QED BY <1>1, <1>2, <1>4

\* A task that goes on, is lost or ends stays an attempt of its bucket.
LEMMA BecomesStep ==
    ASSUME PSInv, NEW d \in Driver, NEW t \in tasks[d],
           NEW state \in {"running", "absent", "succeeded", "failed"},
           Becomes(d, t, state)
    PROVE  \E new \in SUBSET TaskAttempt :
              IsFiniteSet(new) /\ tasks' = [tasks EXCEPT ![d] = new]
  <1> DEFINE u == [t EXCEPT !.state = state]
             new == (tasks[d] \ {t}) \cup {u}
  <1>1. t \in TaskAttempt
    BY TaskSet
  <1>2. u \in TaskAttempt
    BY <1>1 DEF TaskAttempt
  <1>3. new \in SUBSET TaskAttempt /\ IsFiniteSet(new)
    BY <1>2, TaskSet
  <1>4. tasks' = [tasks EXCEPT ![d] = new]
    BY DEF Becomes
  <1> QED BY <1>3, <1>4


LEMMA StartTaskStep ==
    ASSUME PSInv, NEW d \in Driver, NEW p \in Partition, StartTask(d, p), UNCHANGED backend
    PROVE  PSInv'
  <1> DEFINE same == {t \in tasks[d] : t.partition = p}
             t == [id |-> Cardinality(tasks[d]), partition |-> p, state |-> "running",
                   zombie |-> FALSE, number |-> Cardinality(same)]
  <1>1. IsFiniteSet(tasks[d]) /\ IsFiniteSet(same)
    BY TaskSet, FS_Subset, same \subseteq tasks[d]
  <1>2. t \in TaskAttempt
    BY <1>1, FS_CardinalityType DEF TaskAttempt
  <1>3. tasks' = [tasks EXCEPT ![d] = tasks[d] \cup {t}]
    BY DEF StartTask
  <1> HIDE DEF t
  <1> DEFINE new == tasks[d] \cup {t}
  <1>4. new \in SUBSET TaskAttempt /\ IsFiniteSet(new)
    BY <1>2, TaskSet
  <1> QED BY <1>3, <1>4, TasksStep, QuietStep DEF StartTask

\* Losing, failing and looking for the own file change a task only.
LEMMA TaskOnlyStep ==
    ASSUME PSInv, NEW d \in Driver, NEW t \in tasks[d], UNCHANGED backend,
           LoseTask(d, t) \/ FailTask(d, t) \/ LookForFile(d, t) \/ StageThenFail(d, t)
           \/ FinishTask(d, t)
    PROVE  PSInv'
  <1>1. CASE LoseTask(d, t)
    <2> DEFINE u == [t EXCEPT !.zombie = TRUE]
               new == (tasks[d] \ {t}) \cup {u}
    <2>1. t \in TaskAttempt
      BY TaskSet
    <2>2. u \in TaskAttempt
      BY <2>1 DEF TaskAttempt
    <2>3. new \in SUBSET TaskAttempt /\ IsFiniteSet(new)
      BY <2>2, TaskSet
    <2>4. tasks' = [tasks EXCEPT ![d] = new]
      BY <1>1 DEF LoseTask
    <2> QED BY <1>1, <2>3, <2>4, TasksStep, QuietStep DEF LoseTask
  <1>2. CASE ~LoseTask(d, t)
    <2>1. \E state \in {"running", "absent", "succeeded", "failed"} : Becomes(d, t, state)
      BY <1>2 DEF FailTask, LookForFile, StageThenFail, FinishTask
    <2>2. UNCHANGED <<deltaTable, harness>>
      BY <1>2 DEF FailTask, LookForFile, StageThenFail, FinishTask
    <2>3. PICK new \in SUBSET TaskAttempt : IsFiniteSet(new) /\ tasks' = [tasks EXCEPT ![d] = new]
      BY <2>1, BecomesStep
    <2> QED BY <2>2, <2>3, TasksStep, QuietStep
  <1> QED BY <1>1, <1>2

\* A receipt reaches its own driver, and only while that collects.
LEMMA ReplaceFileStep ==
    ASSUME PSInv, NEW d \in Driver, NEW t \in tasks[d], ReplaceFile(d, t), UNCHANGED backend
    PROVE  PSInv'
  <1>1. TasksTyped'
    <2>1. Becomes(d, t, "succeeded")
      BY DEF ReplaceFile
    <2>2. PICK new \in SUBSET TaskAttempt : IsFiniteSet(new) /\ tasks' = [tasks EXCEPT ![d] = new]
      BY <2>1, BecomesStep
    <2> QED BY <2>2, TasksStep
  <1>2. UNCHANGED deltaTable
    BY DEF ReplaceFile
  <1>3. CASE UNCHANGED harness
    BY <1>1, <1>2, <1>3, QuietStep
  <1>4. CASE /\ harness[d].pc = "run"
             /\ harness' = [harness EXCEPT ![d].receipts = @ \cup {Receipt(d, t)}]
    <2> DEFINE rs == harness[d].receipts \cup {Receipt(d, t)}
               row == [harness[d] EXCEPT !.receipts = rs]
    <2>1. rs \in SUBSET Receipts
      BY DriverRow, ReceiptType, TaskSet
    <2>2. harness' = [harness EXCEPT ![d] = row]
      BY <1>4
    <2>3. row \in Harness /\ row.pc = "run" /\ row.receipts = rs
      BY <1>4, <2>1, DriverRow DEF Harness
    <2> HIDE DEF row
    <2>4. harness'[d] = row
      BY <2>2 DEF PSInv, PSTypeOK
    <2>5. ReadsOneExecution(d)'
      <3>1. ReadsOneExecution(d)
        BY DriverRow
      <3>2. Receipt(d, t).digest.driver = d /\ Receipt(d, t).digest.partition = Receipt(d, t).partition
        BY DEF Receipt, Content
      <3> QED BY <3>1, <3>2, <2>3, <2>4, <1>2 DEF ReadsOneExecution, OwnReceipts
    <2> QED BY <1>1, <1>2, <2>2, <2>3, <2>5, DriverStep
  <1> QED BY <1>3, <1>4 DEF ReplaceFile

\* The driver goes on to another pc, perhaps with other receipts.
LEMMA GoOn ==
    ASSUME PSInv, NEW d \in Driver, NEW row \in Harness,
           harness' = [harness EXCEPT ![d] = row],
           UNCHANGED <<backend, deltaTable, tasks>>,
           row.pc # "returned",
           backend = "local" => row.pc # "staged" /\ row.receipts = harness[d].receipts,
           backend # "local" /\ row.pc \in {"staged", "select"} => deltaTable # {},
           backend # "local" /\ row.pc = "select" => row.receipts = deltaTable
    PROVE  PSInv'
  <1>1. harness'[d] = row
    BY DEF PSInv, PSTypeOK
  <1>2. ReadsOneExecution(d)'
    <2>1. ReadsOneExecution(d)
      BY DriverRow
    <2> QED BY <2>1, <1>1 DEF ReadsOneExecution, OwnReceipts
  <1>3. TasksTyped'
    BY DEF PSInv, PSTypeOK, TasksTyped
  <1> QED BY <1>2, <1>3, DriverStep

LEMMA DriverOnlyStep ==
    ASSUME PSInv, NEW d \in Driver, UNCHANGED backend,
           ExecuteHarness(d) \/ ReadDelta(d) \/ Collect(d) \/ AbortJob(d)
    PROVE  PSInv'
  <1>1. /\ UNCHANGED <<deltaTable, tasks>>
        /\ deltaTable \in SUBSET Receipts /\ backend \in {"local", "spark_delta"}
        /\ harness[d] \in Harness /\ ReadsOneExecution(d)
    BY DriverRow DEF ExecuteHarness, ReadDelta, Collect, AbortJob, PSInv, PSTypeOK
  <1>2. CASE ExecuteHarness(d)
    <2> DEFINE pc == IF backend = "spark_delta" /\ deltaTable # {} THEN "staged" ELSE "run"
               row == [harness[d] EXCEPT !.pc = pc]
    <2>1. harness' = [harness EXCEPT ![d] = row]
      BY <1>2 DEF ExecuteHarness
    <2>2. pc \in {"run", "staged"} /\ (pc = "staged" => backend = "spark_delta" /\ deltaTable # {})
      OBVIOUS
    <2> HIDE DEF pc
    <2>3. row \in Harness /\ row.pc = pc /\ row.receipts = harness[d].receipts
      BY <1>1, <2>2 DEF Harness
    <2> HIDE DEF row
    <2> QED BY <1>1, <2>1, <2>2, <2>3, GoOn
  <1>3. CASE ReadDelta(d)
    <2> DEFINE row == [harness[d] EXCEPT !.pc = "select", !.receipts = deltaTable]
    <2>1. backend # "local" /\ deltaTable # {}
      BY <1>1, <1>3 DEF ReadDelta, ReadsOneExecution
    <2>2. harness' = [harness EXCEPT ![d] = row]
      BY <1>3 DEF ReadDelta
    <2>3. row \in Harness /\ row.pc = "select" /\ row.receipts = deltaTable
      BY <1>1 DEF Harness
    <2> HIDE DEF row
    <2> QED BY <1>1, <2>1, <2>2, <2>3, GoOn
  <1>4. CASE Collect(d)
    <2> DEFINE row == [harness[d] EXCEPT !.pc = "select"]
    <2>1. backend = "local" /\ harness' = [harness EXCEPT ![d] = row]
      BY <1>4 DEF Collect
    <2>2. row \in Harness /\ row.pc = "select" /\ row.receipts = harness[d].receipts
      BY <1>1 DEF Harness
    <2> HIDE DEF row
    <2> QED BY <1>1, <2>1, <2>2, GoOn
  <1>5. CASE AbortJob(d)
    <2> DEFINE row == [harness[d] EXCEPT !.pc = "raised"]
    <2>1. harness' = [harness EXCEPT ![d] = row]
      BY <1>5 DEF AbortJob
    <2>2. row \in Harness /\ row.pc = "raised" /\ row.receipts = harness[d].receipts
      BY <1>1 DEF Harness
    <2> HIDE DEF row
    <2> QED BY <1>1, <2>1, <2>2, GoOn
  <1> QED BY <1>2, <1>3, <1>4, <1>5

\* The first commit stays, so that nobody reads another table.
LEMMA CommitDeltaStep ==
    ASSUME PSInv, NEW d \in Driver, CommitDelta(d), UNCHANGED backend
    PROVE  PSInv'
  <1>1. PICK win \in [Partition -> tasks[d]] :
           deltaTable' = CommittedStage({Receipt(d, win[p]) : p \in Partition})
    BY DEF CommitDelta
  <1>2. {Receipt(d, win[p]) : p \in Partition} \in SUBSET Receipts
    BY ReceiptType, TaskSet
  <1>3. {Receipt(d, win[p]) : p \in Partition} # {}
    BY StagingAssumption
  <1>4. /\ deltaTable' \in SUBSET Receipts /\ deltaTable' # {}
        /\ deltaTable # {} => deltaTable' = deltaTable
    BY <1>1, <1>2, <1>3 DEF CommittedStage, PSInv, PSTypeOK
  <1>5. UNCHANGED tasks /\ harness' = [harness EXCEPT ![d].pc = "staged"] /\ backend # "local"
    BY DEF CommitDelta
  <1>6. /\ harness'[d].pc = "staged"
        /\ \A e \in Driver : e # d => harness'[e] = harness[e]
    BY <1>5, DriverRow DEF PSInv, PSTypeOK, Harness
  <1>7. PSTypeOK'
    <2> DEFINE row == [harness[d] EXCEPT !.pc = "staged"]
    <2>1. harness' = [harness EXCEPT ![d] = row]
      BY <1>5
    <2>2. row \in Harness
      BY DriverRow DEF Harness
    <2> HIDE DEF row
    <2>3. harness' \in [Driver -> Harness]
      BY <2>1, <2>2 DEF PSInv, PSTypeOK
    <2> QED BY <1>4, <1>5, <2>3 DEF PSInv, PSTypeOK
  <1>8. ASSUME NEW e \in Driver PROVE ReadsOneExecution(e)'
    <2>1. ReadsOneExecution(e)
      BY DEF PSInv
    <2>2. CASE e = d
      BY <1>4, <1>5, <1>6, <2>2 DEF ReadsOneExecution
    <2>3. CASE e # d
      <3>1. harness'[e] = harness[e]
        BY <1>6, <2>3
      <3>2. ASSUME deltaTable' = deltaTable PROVE RecordsOf(deltaTable)' = RecordsOf(deltaTable)
        BY <1>5, <3>2 DEF RecordsOf
      <3> QED BY <1>4, <1>5, <2>1, <3>1, <3>2 DEF ReadsOneExecution
    <2> QED BY <2>2, <2>3
  <1> QED BY <1>7, <1>8 DEF PSInv

\* With files, what is read has the digest of a receipt, hence is of a task of
\* this application.
LEMMA ReadRecordsStep ==
    ASSUME PSInv, NEW d \in Driver, ReadRecords(d), UNCHANGED backend
    PROVE  PSInv'
  <1> DEFINE rs == harness[d].receipts
  <1>1. /\ harness[d].pc = "select" /\ UNCHANGED <<deltaTable, tasks>> /\ harness[d] \in Harness
        /\ rs \in SUBSET Receipts /\ ReadsOneExecution(d)
    BY DriverRow DEF ReadRecords
  <1>2. CASE harness' = [harness EXCEPT ![d].pc = "raised"]
    <2> DEFINE row == [harness[d] EXCEPT !.pc = "raised"]
    <2>1. harness' = [harness EXCEPT ![d] = row]
      BY <1>2
    <2>2. row \in Harness /\ row.pc = "raised" /\ row.receipts = harness[d].receipts
      BY <1>1 DEF Harness
    <2> HIDE DEF row
    <2> QED BY <1>1, <2>1, <2>2, GoOn
  <1>3. CASE /\ OneEach(rs) /\ \A r \in rs : MatchesReceipt(d, r)
             /\ harness' = [harness EXCEPT ![d].pc = "returned", ![d].records = RecordsOf(rs)]
    <2> DEFINE row == [harness[d] EXCEPT !.pc = "returned", !.records = RecordsOf(rs)]
    <2>0. RecordsOf(rs) \in [Partition -> Contents]
      <3>1. ASSUME NEW p \in Partition PROVE RecordsOf(rs)[p] \in Contents
        <4> DEFINE r == CHOOSE r \in rs : r.partition = p
        <4>1. r \in rs
          BY <1>3 DEF OneEach
        <4>2. RecordsOf(rs)[p] = r.digest
          BY <1>3, <4>1 DEF MatchesReceipt, RecordsOf
        <4> HIDE DEF r
        <4> QED BY <1>1, <4>1, <4>2 DEF Receipts
      <3> QED BY <3>1 DEF RecordsOf
    <2>1. harness' = [harness EXCEPT ![d] = row]
      BY <1>3
    <2>2. row \in Harness /\ row.pc = "returned" /\ row.receipts = rs /\ row.records = RecordsOf(rs)
      BY <1>1, <2>0 DEF Harness
    <2> HIDE DEF row
    <2>3. harness'[d].pc = "returned" /\ harness'[d].receipts = rs /\ harness'[d].records = RecordsOf(rs)
      BY <2>1, <2>2 DEF PSInv, PSTypeOK
    <2>5. ReadsOneExecution(d)'
      <3>1. CASE backend = "local"
        <4>1. ASSUME NEW p \in Partition
              PROVE  RecordsOf(rs)[p].driver = d /\ RecordsOf(rs)[p].partition = p
          <5> DEFINE r == CHOOSE r \in rs : r.partition = p
          <5>1. r \in rs /\ r.partition = p
            BY <1>3 DEF OneEach
          <5>2. RecordsOf(rs)[p] = r.digest
            BY <1>3, <3>1, <5>1 DEF MatchesReceipt, RecordsOf
          <5> HIDE DEF r
          <5> QED BY <1>1, <3>1, <5>1, <5>2 DEF ReadsOneExecution, OwnReceipts
        <4> QED BY <1>1, <2>3, <3>1, <4>1 DEF ReadsOneExecution, OwnReceipts
      <3>2. CASE backend # "local"
        <4>1. RecordsOf(deltaTable)' = RecordsOf(deltaTable)
          BY <1>1, <3>2 DEF RecordsOf
        <4> QED BY <1>1, <2>3, <3>2, <4>1 DEF ReadsOneExecution
      <3> QED BY <3>1, <3>2
    <2>6. TasksTyped'
      BY <1>1 DEF PSInv, PSTypeOK, TasksTyped
    <2> QED BY <1>1, <2>1, <2>2, <2>5, <2>6, DriverStep
  <1> QED BY <1>2, <1>3 DEF ReadRecords

\* The stage is sound in every reachable state, for any number of applications,
\* buckets and task attempts (StreamingSparkExecutionHarness.execute).
THEOREM StagingInvariance == PSSpec => []PSInv
  <1>1. PSInv /\ [PSNext]_psvars => PSInv'
    <2> SUFFICES ASSUME PSInv, [PSNext]_psvars PROVE PSInv'
      OBVIOUS
    <2>1. CASE UNCHANGED psvars
      <3>1. TasksTyped'
        BY <2>1 DEF psvars, PSInv, PSTypeOK, TasksTyped
      <3> QED BY <2>1, <3>1, QuietStep DEF psvars
    <2>2. CASE PSNext
      <3>1. UNCHANGED backend
        BY <2>2 DEF PSNext
      <3>2. PICK d \in Driver :
               \/ ExecuteHarness(d) \/ CommitDelta(d) \/ ReadDelta(d) \/ Collect(d) \/ ReadRecords(d)
               \/ AbortJob(d)
               \/ \E p \in Partition : StartTask(d, p)
               \/ \E t \in tasks[d] :
                    \/ LoseTask(d, t) \/ FailTask(d, t) \/ LookForFile(d, t) \/ ReplaceFile(d, t)
                    \/ StageThenFail(d, t) \/ FinishTask(d, t)
        BY <2>2 DEF PSNext
      <3> QED BY <3>1, <3>2, StartTaskStep, TaskOnlyStep, ReplaceFileStep, DriverOnlyStep,
                 CommitDeltaStep, ReadRecordsStep
    <2> QED BY <2>1, <2>2
  <1> QED BY <1>1, StagingInit, PTL DEF PSSpec

\* What the harness returns is one execution of each bucket: with files its
\* own, with a Delta stage the one that every application returns, whatever
\* lost tasks and other applications do.
THEOREM HarnessReturnsOne == PSSpec => []HarnessReturnsOneExecution
  <1>1. PSInv => HarnessReturnsOneExecution
    BY DEF PSInv, ReadsOneExecution, HarnessReturnsOneExecution
  <1> QED BY <1>1, StagingInvariance, PTL

-----------------------------------------------------------------------------
(* ReleaseBinding *)

LEMMA ReleaseInitially == ReleaseInit => ReleaseInv
  <1> SUFFICES ASSUME ReleaseInit PROVE ReleaseInv
    OBVIOUS
  <1>1. ReleaseTypeOK
    BY DEF ReleaseInit, ReleaseTypeOK, Sessions, Idle, Rows, Unregistered, Outputs
  <1>2. DOMAIN batches = {} /\ \A w \in Work : work[w].output = None
    BY DEF ReleaseInit, Unregistered
  <1>3. \A s \in Session : Knows(s)
    BY DEF ReleaseInit, Knows, Idle
  <1> QED BY <1>1, <1>2, <1>3 DEF ReleaseInv, UnregisteredIsUnused, MembersAreRegistered,
             StagedForItsRelease, BatchesHaveTheirEnvelope, ProcessedByItsRelease

\* Where a work that has a release keeps it, a batch its members, and nobody
\* computes or claims, what was found out stays true.
LEMMA WorkStep ==
    ASSUME ReleaseInv, ReleaseTypeOK', UNCHANGED <<envelopes, staged>>,
           \A b \in DOMAIN batches : batches'[b].members = batches[b].members,
           \A w \in Work : work[w].status # "ABSENT" =>
                work'[w].status # "ABSENT" /\ work'[w].release = work[w].release,
           \A w \in Work : /\ work'[w].status = "ABSENT" => work'[w].output = None
                           /\ ComputedFor(work'[w].output, work'[w].release),
           \A s \in Session : session'[s] = session[s] \/ Knows(s)'
    PROVE  ReleaseInv'
  <1>1. DOMAIN batches' = DOMAIN batches
    BY DEF ReleaseInv, ReleaseTypeOK
  <1>2. ASSUME NEW b \in DOMAIN batches, NEW w \in batches[b].members
        PROVE  w \in Work /\ work'[w].status # "ABSENT" /\ work'[w].release = work[w].release
    <2>1. batches[b] \in BatchRows
      BY DEF ReleaseInv, ReleaseTypeOK
    <2>2. w \in Work /\ work[w].status # "ABSENT"
      BY <1>2, <2>1 DEF ReleaseInv, MembersAreRegistered, BatchRows
    <2> QED BY <2>2
  <1>3. MembersAreRegistered' /\ StagedForItsRelease'
    BY <1>1, <1>2 DEF ReleaseInv, MembersAreRegistered, StagedForItsRelease, ComputedFor
  <1>4. BatchesHaveTheirEnvelope'
    <2> SUFFICES ASSUME NEW b \in DOMAIN batches
                 PROVE  envelopes[b] = [w \in batches[b].members |-> work'[w].release]
      BY <1>1 DEF BatchesHaveTheirEnvelope
    <2>1. envelopes[b] = [w \in batches[b].members |-> work[w].release]
      BY DEF ReleaseInv, BatchesHaveTheirEnvelope
    <2> QED BY <1>2, <2>1
  <1>5. UnregisteredIsUnused' /\ ProcessedByItsRelease'
    BY DEF UnregisteredIsUnused, ProcessedByItsRelease, ComputedFor
  <1>6. ASSUME NEW s \in Session, session'[s] = session[s] PROVE Knows(s)'
    <2>1. Knows(s)
      BY DEF ReleaseInv
    <2> QED BY <1>1, <1>2, <1>6, <2>1 DEF Knows
  <1> QED BY <1>3, <1>4, <1>5, <1>6 DEF ReleaseInv

\* A step of one session that leaves the tables alone.
LEMMA SessionStep ==
    ASSUME ReleaseInv, NEW s \in Session, NEW row \in Sessions,
           session' = [session EXCEPT ![s] = row], UNCHANGED <<installed, control>>,
           Knows(s)'
    PROVE  ReleaseInv'
  <1>1. ReleaseTypeOK' /\ \A t \in Session : t # s => session'[t] = session[t]
    BY DEF ReleaseInv, ReleaseTypeOK, control
  <1>2. \A w \in Work : /\ work[w].status = "ABSENT" => work[w].output = None
                        /\ ComputedFor(work[w].output, work[w].release)
    BY DEF ReleaseInv, UnregisteredIsUnused, ProcessedByItsRelease, ComputedFor
  <1> QED BY <1>1, <1>2, WorkStep DEF control

\* The end of a session, successful or not.
LEMMA EndKnows ==
    ASSUME NEW s \in Session, session \in [Session -> Sessions], End(s)
    PROVE  /\ session' \in [Session -> Sessions] /\ Knows(s)'
           /\ \A t \in Session : t # s => session'[t] = session[t]
  <1>1. Idle \in Sessions
    BY DEF Idle, Sessions
  <1>2. session'[s] = Idle /\ Idle.pc = "idle"
    BY DEF End, Idle
  <1>3. Knows(s)'
    BY <1>2 DEF Knows
  <1> QED BY <1>1, <1>2, <1>3 DEF End

\* Wheels and evidence change, whatever sessions run.
LEMMA EvidenceStep ==
    ASSUME ReleaseInv, UNCHANGED <<session, control>>, installed' \in Releases
    PROVE  ReleaseInv'
  <1>1. ReleaseTypeOK'
    BY DEF ReleaseInv, ReleaseTypeOK, control
  <1>2. \A w \in Work : /\ work[w].status = "ABSENT" => work[w].output = None
                        /\ ComputedFor(work[w].output, work[w].release)
    BY DEF ReleaseInv, UnregisteredIsUnused, ProcessedByItsRelease, ComputedFor
  <1> QED BY <1>1, <1>2, WorkStep DEF control

LEMMA PublishingKeeps ==
    ASSUME ReleaseInv, NEW r \in Releases, Install(r) \/ PublishManifest(r) \/ PublishReceipt(r)
    PROVE  ReleaseInv'
  <1>1. UNCHANGED <<session, control>> /\ installed' \in Releases
    BY DEF Install, PublishManifest, PublishReceipt, ReleaseInv, ReleaseTypeOK
  <1> QED BY <1>1, EvidenceStep

\* The steps of a session that only read the tables.
LEMMA ReadingKeeps ==
    ASSUME ReleaseInv, NEW s \in Session,
           \/ \E r \in Releases : Start(s, r)
           \/ Fail(s) \/ Admit(s)
           \/ \E w \in Work : CheckRequest(s, w)
           \/ \E b \in DOMAIN batches : Resume(s, b)
    PROVE  ReleaseInv'
  <1>1. /\ session[s] \in Sessions /\ Knows(s) /\ installed \in Releases
        /\ session \in [Session -> Sessions] /\ UNCHANGED <<installed, control>>
    BY DEF ReleaseInv, ReleaseTypeOK, Start, Fail, Admit, CheckRequest, Resume, evidence
  <1>2. CASE \E r \in Releases : Start(s, r)
    <2>1. PICK r \in Releases : Start(s, r)
      BY <1>2
    <2> DEFINE row == [Idle EXCEPT !.pc = "started", !.package = installed, !.binding = r]
    <2>2. row \in Sessions /\ row.pc = "started" /\ row.package = installed /\ row.binding = r
      BY <1>1 DEF Idle, Sessions
    <2>3. session' = [session EXCEPT ![s] = row]
      BY <2>1 DEF Start
    <2> HIDE DEF row
    <2>4. session'[s] = row
      BY <1>1, <2>3
    <2>5. Knows(s)'
      BY <1>1, <2>2, <2>4 DEF Knows
    <2> QED BY <1>1, <2>2, <2>3, <2>5, SessionStep
  <1>3. CASE Fail(s)
    <2>1. End(s)
      BY <1>3 DEF Fail
    <2> QED BY <1>1, <2>1, EndKnows, SessionStep DEF End, Idle, Sessions
  <1>4. CASE Admit(s)
    <2> DEFINE row == [session[s] EXCEPT !.pc = "admitted"]
    <2>1. /\ row \in Sessions /\ row.pc = "admitted"
          /\ row.package = session[s].package /\ row.binding = session[s].binding
      BY <1>1 DEF Sessions
    <2>2. session' = [session EXCEPT ![s] = row] /\ session[s].pc = "started"
      BY <1>4 DEF Admit, At
    <2> HIDE DEF row
    <2>3. session'[s] = row
      BY <1>1, <2>2
    <2>4. Knows(s)'
      BY <1>1, <2>1, <2>2, <2>3 DEF Knows
    <2> QED BY <1>1, <2>1, <2>2, <2>4, SessionStep
  <1>5. CASE \E w \in Work : CheckRequest(s, w)
    <2>1. PICK w \in Work : CheckRequest(s, w)
      BY <1>5
    <2> DEFINE row == [session[s] EXCEPT !.pc = "register", !.request = w]
    <2>2. /\ row \in Sessions /\ row.pc = "register" /\ row.request = w
          /\ row.package = session[s].package /\ row.binding = session[s].binding
      BY <1>1 DEF Sessions
    <2>3. session' = [session EXCEPT ![s] = row] /\ session[s].pc = "started"
      BY <2>1 DEF CheckRequest, At
    <2> HIDE DEF row
    <2>4. session'[s] = row
      BY <1>1, <2>3
    <2>5. Knows(s)'
      BY <1>1, <2>2, <2>3, <2>4 DEF Knows
    <2> QED BY <1>1, <2>2, <2>3, <2>5, SessionStep
  <1>6. CASE \E b \in DOMAIN batches : Resume(s, b)
    <2>1. PICK b \in DOMAIN batches : Resume(s, b)
      BY <1>6
    <2> DEFINE row == [session[s] EXCEPT !.pc = "process", !.batch = b]
    <2>2. b \in Nat
      BY DEF ReleaseInv, ReleaseTypeOK
    <2>3. /\ row \in Sessions /\ row.pc = "process" /\ row.batch = b
          /\ row.package = session[s].package /\ row.binding = session[s].binding
      BY <1>1, <2>2 DEF Sessions
    <2>4. session' = [session EXCEPT ![s] = row] /\ session[s].pc = "started"
      BY <2>1 DEF Resume, At
    <2> HIDE DEF row
    <2>5. session'[s] = row /\ UNCHANGED batches
      BY <1>1, <2>4 DEF control
    <2>6. Knows(s)'
      BY <1>1, <2>3, <2>4, <2>5 DEF Knows
    <2> QED BY <1>1, <2>3, <2>4, <2>6, SessionStep
  <1> QED BY <1>2, <1>3, <1>4, <1>5, <1>6

\* The evidence binds the release to the wheel, and the envelope the release to
\* every member of the batch.
LEMMA LoadContextKeeps ==
    ASSUME ReleaseInv, NEW s \in Session, LoadContext(s)
    PROVE  ReleaseInv'
  <1> DEFINE b == session[s].batch
             row == [session[s] EXCEPT !.pc = "running"]
  <1>1. /\ session[s] \in Sessions /\ Knows(s) /\ session \in [Session -> Sessions]
        /\ session[s].pc = "process" /\ b \in DOMAIN batches /\ UNCHANGED <<installed, control>>
    BY DEF ReleaseInv, ReleaseTypeOK, LoadContext, evidence, At, Knows
  <1>2. BindsTheWheel(session[s].binding, session[s].package)
    BY DEF LoadContext, EvidenceLoads
  <1>3. \A w \in batches[b].members : work[w].release = session[s].binding
    <2>1. envelopes[b] = [w \in batches[b].members |-> work[w].release]
      BY <1>1 DEF ReleaseInv, BatchesHaveTheirEnvelope
    <2>2. \A r \in Range(envelopes[b]) : r = session[s].binding
      BY DEF LoadContext, Compatible
    <2> HIDE DEF b
    <2> QED BY <2>1, <2>2 DEF Range
  <1>4. /\ row \in Sessions /\ row.pc = "running" /\ row.batch = b
        /\ row.package = session[s].package /\ row.binding = session[s].binding
    BY <1>1 DEF Sessions
  <1>5. session' = [session EXCEPT ![s] = row]
    BY DEF LoadContext
  <1> HIDE DEF row
  <1>6. session'[s] = row /\ UNCHANGED <<batches, work>>
    BY <1>1, <1>5 DEF control
  <1>7. Knows(s)'
    BY <1>1, <1>2, <1>3, <1>4, <1>6 DEF Knows, BindsTheWheel
  <1> QED BY <1>1, <1>4, <1>5, <1>7, SessionStep

LEMMA Members ==
    ASSUME ReleaseInv, NEW b \in DOMAIN batches
    PROVE  /\ batches[b].members \in SUBSET Work /\ batches[b].status \in {"LEASED", "COMMITTED", "EXPIRED"}
           /\ \A w \in batches[b].members : work[w].status # "ABSENT"
           /\ staged[b] \in Outputs
           /\ \A w \in batches[b].members : ComputedFor(staged[b], work[w].release)
  <1>1. batches[b] \in BatchRows
    BY DEF ReleaseInv, ReleaseTypeOK
  <1>2. staged[b] \in Outputs
    BY DEF ReleaseInv, ReleaseTypeOK
  <1> QED BY <1>1, <1>2 DEF ReleaseInv, MembersAreRegistered, StagedForItsRelease, BatchRows

LEMMA OutputsAreGood ==
    ASSUME ReleaseInv, NEW w \in Work
    PROVE  /\ work[w] \in Rows
           /\ work[w].status = "ABSENT" => work[w].output = None
           /\ ComputedFor(work[w].output, work[w].release)
  BY DEF ReleaseInv, ReleaseTypeOK, UnregisteredIsUnused, ProcessedByItsRelease, ComputedFor

\* A step that changes one work.
LEMMA OneWorkStep ==
    ASSUME ReleaseInv, NEW w \in Work, NEW row \in Rows, work' = [work EXCEPT ![w] = row],
           UNCHANGED <<installed, batches, envelopes, staged>>, session' \in [Session -> Sessions],
           row.status # "ABSENT",
           work[w].status # "ABSENT" => row.release = work[w].release,
           ComputedFor(row.output, row.release),
           \A s \in Session : session'[s] = session[s] \/ Knows(s)'
    PROVE  ReleaseInv'
  <1>1. work'[w] = row /\ \A v \in Work : v # w => work'[v] = work[v]
    BY DEF ReleaseInv, ReleaseTypeOK
  <1>2. ReleaseTypeOK'
    BY DEF ReleaseInv, ReleaseTypeOK
  <1>3. ASSUME NEW v \in Work
        PROVE  /\ work[v].status # "ABSENT" =>
                     work'[v].status # "ABSENT" /\ work'[v].release = work[v].release
               /\ work'[v].status = "ABSENT" => work'[v].output = None
               /\ ComputedFor(work'[v].output, work'[v].release)
    BY <1>1, OutputsAreGood
  <1> QED BY <1>2, <1>3, WorkStep

LEMMA RegisterKeeps ==
    ASSUME ReleaseInv, NEW s \in Session, Register(s)
    PROVE  ReleaseInv'
  <1> DEFINE w == session[s].request
  <1>1. /\ session \in [Session -> Sessions] /\ session[s].pc = "register" /\ End(s)
        /\ UNCHANGED <<installed, batches, envelopes, staged>>
    BY DEF ReleaseInv, ReleaseTypeOK, Register, At, evidence
  <1>2. w \in Work /\ session[s].binding \in Releases
    <2>1. Knows(s)
      BY DEF ReleaseInv
    <2> QED BY <1>1, <2>1 DEF Knows
  <1>3. /\ session' \in [Session -> Sessions]
        /\ \A t \in Session : session'[t] = session[t] \/ Knows(t)'
    BY <1>1, EndKnows
  <1>4. CASE work[w].status = "ABSENT"
    <2> DEFINE row == [work[w] EXCEPT !.status = "READY", !.release = session[s].binding]
    <2>1. work' = [work EXCEPT ![w] = row]
      BY <1>4 DEF Register
    <2>2. work[w] \in Rows /\ work[w].output = None
      BY <1>2, <1>4, OutputsAreGood
    <2>3. row \in Rows /\ row.status = "READY" /\ row.output = None
      BY <1>2, <2>2 DEF Rows
    <2> HIDE DEF row, w
    <2> QED BY <1>1, <1>2, <1>3, <1>4, <2>1, <2>3, OneWorkStep DEF ComputedFor
  <1>5. CASE work[w].status # "ABSENT"
    <2>1. UNCHANGED work
      BY <1>5 DEF Register
    <2>2. ReleaseTypeOK'
      BY <1>1, <1>3, <2>1 DEF ReleaseInv, ReleaseTypeOK
    <2> QED BY <1>1, <1>3, <2>1, <2>2, OutputsAreGood, WorkStep
  <1> QED BY <1>4, <1>5

\* Operators take a work away or back; its release stays.
LEMMA OperatorKeeps ==
    ASSUME ReleaseInv, NEW w \in Work,
           Replay(w) \/ \E r \in Releases : Quarantine(w, r)
    PROVE  ReleaseInv'
  <1>1. /\ UNCHANGED <<installed, session, batches, envelopes, staged>>
        /\ session \in [Session -> Sessions] /\ work[w] \in Rows
        /\ ComputedFor(work[w].output, work[w].release)
    BY OutputsAreGood DEF Replay, Quarantine, evidence, ReleaseInv, ReleaseTypeOK
  <1>2. CASE Replay(w)
    <2> DEFINE row == [work[w] EXCEPT !.status = "READY", !.output = None, !.attempts = 0]
    <2>1. work' = [work EXCEPT ![w] = row]
      BY <1>2 DEF Replay
    <2>2. /\ row \in Rows /\ row.status = "READY" /\ row.output = None
          /\ row.release = work[w].release
      BY <1>1 DEF Rows, Outputs
    <2> HIDE DEF row
    <2> QED BY <1>1, <2>1, <2>2, OneWorkStep DEF ComputedFor
  <1>3. CASE \E r \in Releases : Quarantine(w, r)
    <2> DEFINE row == [work[w] EXCEPT !.status = "DEAD"]
    <2>1. work' = [work EXCEPT ![w] = row]
      BY <1>3 DEF Quarantine
    <2>2. /\ row \in Rows /\ row.status = "DEAD" /\ row.output = work[w].output
          /\ row.release = work[w].release
      BY <1>1 DEF Rows
    <2> HIDE DEF row
    <2> QED BY <1>1, <2>1, <2>2, OneWorkStep
  <1> QED BY <1>2, <1>3

\* What a commit takes over is what was staged.
LEMMA CommitKeeps ==
    ASSUME ReleaseInv, NEW s \in Session, Commit(s)
    PROVE  ReleaseInv'
  <1> DEFINE b == session[s].batch
             done(w) == [work[w] EXCEPT !.status = "SUCCEEDED", !.output = staged[b]]
             brow == [batches[b] EXCEPT !.status = "COMMITTED"]
  <1>1. /\ session \in [Session -> Sessions] /\ session[s].pc = "executed" /\ End(s)
        /\ UNCHANGED <<installed, envelopes, staged>>
    BY DEF ReleaseInv, ReleaseTypeOK, Commit, At, evidence
  <1>2. b \in DOMAIN batches
    <2>1. Knows(s)
      BY DEF ReleaseInv
    <2> QED BY <1>1, <2>1 DEF Knows
  <1>3. /\ session' \in [Session -> Sessions]
        /\ \A t \in Session : session'[t] = session[t] \/ Knows(t)'
    BY <1>1, EndKnows
  <1>4. /\ work' = [w \in Work |-> IF w \in batches[b].members THEN done(w) ELSE work[w]]
        /\ batches' = [batches EXCEPT ![b] = brow]
    BY DEF Commit
  <1> HIDE DEF b
  <1>5. /\ batches[b].members \in SUBSET Work /\ staged[b] \in Outputs
        /\ \A w \in batches[b].members :
              work[w].status # "ABSENT" /\ ComputedFor(staged[b], work[w].release)
    BY <1>2, Members
  <1>6. ASSUME NEW w \in Work
        PROVE  /\ done(w) \in Rows /\ done(w).status = "SUCCEEDED" /\ done(w).output = staged[b]
               /\ done(w).release = work[w].release
    <2>1. work[w] \in Rows
      BY OutputsAreGood
    <2> QED BY <1>5, <2>1 DEF Rows
  <1> HIDE DEF done
  <1>7. ASSUME NEW w \in Work
        PROVE  /\ work'[w] \in Rows
               /\ work[w].status # "ABSENT" =>
                     work'[w].status # "ABSENT" /\ work'[w].release = work[w].release
               /\ work'[w].status = "ABSENT" => work'[w].output = None
               /\ ComputedFor(work'[w].output, work'[w].release)
    <2>1. CASE w \in batches[b].members
      <3>1. work'[w] = done(w)
        BY <1>4, <2>1
      <3> QED BY <1>5, <1>6, <2>1, <3>1
    <2>2. CASE w \notin batches[b].members
      <3>1. work'[w] = work[w]
        BY <1>4, <2>2
      <3> QED BY <3>1, OutputsAreGood
    <2> QED BY <2>1, <2>2
  <1>8. /\ batches' \in Seq(BatchRows)
        /\ Len(batches') = Len(batches)
        /\ \A c \in DOMAIN batches : batches'[c].members = batches[c].members
    <2>1. batches[b] \in BatchRows
      BY <1>2 DEF ReleaseInv, ReleaseTypeOK
    <2>2. /\ brow \in BatchRows
          /\ brow.members = batches[b].members
      BY <2>1 DEF BatchRows
    <2> HIDE DEF brow
    <2> QED BY <1>2, <1>4, <2>2 DEF ReleaseInv, ReleaseTypeOK
  <1>9. work' \in [Work -> Rows]
    BY <1>4, <1>7
  <1>10. ReleaseTypeOK'
    BY <1>1, <1>3, <1>8, <1>9 DEF ReleaseInv, ReleaseTypeOK
  <1> QED BY <1>1, <1>3, <1>7, <1>8, <1>10, WorkStep

LEMMA RecoverKeeps ==
    ASSUME ReleaseInv, NEW b \in DOMAIN batches, Recover(b)
    PROVE  ReleaseInv'
  <1> DEFINE brow == [batches[b] EXCEPT !.status = "EXPIRED"]
             next(w) == IF work[w].status # "LEASED" THEN work[w].status
                        ELSE IF work[w].attempts < MaxAttempts THEN "READY" ELSE "DEAD"
             freed(w) == [work[w] EXCEPT !.status = next(w)]
  <1>1. /\ session \in [Session -> Sessions] /\ UNCHANGED <<installed, session, envelopes, staged>>
        /\ batches' = [batches EXCEPT ![b] = brow]
        /\ work' = [w \in Work |-> IF w \in batches[b].members THEN freed(w) ELSE work[w]]
    BY DEF ReleaseInv, ReleaseTypeOK, Recover, evidence
  <1>2. ASSUME NEW w \in Work
        PROVE  /\ freed(w) \in Rows /\ freed(w).output = work[w].output
               /\ freed(w).release = work[w].release
               /\ freed(w).status = "ABSENT" <=> work[w].status = "ABSENT"
    <2>1. work[w] \in Rows
      BY OutputsAreGood
    <2>2. /\ next(w) \in {"ABSENT", "READY", "LEASED", "SUCCEEDED", "DEAD"}
          /\ next(w) = "ABSENT" <=> work[w].status = "ABSENT"
      BY <2>1 DEF Rows
    <2> HIDE DEF next
    <2> QED BY <2>1, <2>2 DEF Rows
  <1> HIDE DEF freed
  <1>3. ASSUME NEW w \in Work
        PROVE  /\ work'[w] \in Rows
               /\ work[w].status # "ABSENT" =>
                     work'[w].status # "ABSENT" /\ work'[w].release = work[w].release
               /\ work'[w].status = "ABSENT" => work'[w].output = None
               /\ ComputedFor(work'[w].output, work'[w].release)
    <2>1. work'[w] = freed(w) \/ work'[w] = work[w]
      BY <1>1
    <2> QED BY <1>2, <2>1, OutputsAreGood
  <1>4. /\ batches' \in Seq(BatchRows)
        /\ Len(batches') = Len(batches)
        /\ \A c \in DOMAIN batches : batches'[c].members = batches[c].members
    <2>1. batches[b] \in BatchRows
      BY DEF ReleaseInv, ReleaseTypeOK
    <2>2. /\ brow \in BatchRows
          /\ brow.members = batches[b].members
      BY <2>1 DEF BatchRows
    <2> HIDE DEF brow
    <2> QED BY <1>1, <2>2 DEF ReleaseInv, ReleaseTypeOK
  <1>5. work' \in [Work -> Rows]
    BY <1>1, <1>3
  <1>6. ReleaseTypeOK'
    BY <1>1, <1>4, <1>5 DEF ReleaseInv, ReleaseTypeOK
  <1> QED BY <1>1, <1>3, <1>4, <1>6, WorkStep

\* What is staged first is what the session computes: the wheel of its driver
\* and an executor of the version that its release names.
LEMMA ExecuteKeeps ==
    ASSUME ReleaseInv, NEW s \in Session, NEW r \in Releases, Execute(s, r)
    PROVE  ReleaseInv'
  <1> DEFINE b == session[s].batch
             output == [driver |-> session[s].package, executor |-> r]
             row == [session[s] EXCEPT !.pc = "executed"]
  <1>1. /\ session \in [Session -> Sessions] /\ session[s].pc = "running" /\ session[s] \in Sessions
        /\ UNCHANGED <<installed, work, batches, envelopes>> /\ Knows(s)
        /\ session' = [session EXCEPT ![s] = row]
        /\ r.version = session[s].binding.version
    BY DEF ReleaseInv, ReleaseTypeOK, Execute, At, evidence, ExecutorMatches
  <1>2. /\ b \in DOMAIN batches /\ session[s].package \in Releases /\ session[s].binding \in Releases
        /\ session[s].package.identity = session[s].binding.identity
        /\ \A w \in batches[b].members : work[w].release = session[s].binding
    BY <1>1 DEF Knows, BindsTheWheel
  <1>3. /\ row \in Sessions /\ row.pc = "executed" /\ row.batch = b
        /\ row.package = session[s].package /\ row.binding = session[s].binding
    BY <1>1 DEF Sessions
  <1>4. /\ output \in Outputs
        /\ \A w \in batches[b].members : ComputedFor(output, work[w].release)
    BY <1>1, <1>2 DEF Outputs, ComputedFor
  <1>5. staged' = staged \/ staged' = [staged EXCEPT ![b] = output]
    BY DEF Execute
  <1> HIDE DEF b, output, row
  <1>6. /\ session' \in [Session -> Sessions] /\ session'[s] = row
        /\ \A t \in Session : t # s => session'[t] = session[t]
    BY <1>1, <1>3
  <1>7. staged' \in Seq(Outputs) /\ Len(staged') = Len(batches)
    <2>1. staged \in Seq(Outputs) /\ Len(staged) = Len(batches)
      BY DEF ReleaseInv, ReleaseTypeOK
    <2> QED BY <1>4, <1>5, <2>1
  <1>8. ReleaseTypeOK'
    BY <1>1, <1>6, <1>7 DEF ReleaseInv, ReleaseTypeOK
  <1>9. StagedForItsRelease'
    <2> SUFFICES ASSUME NEW c \in DOMAIN batches, NEW w \in batches[c].members
                 PROVE  ComputedFor(staged'[c], work[w].release)
      BY <1>1 DEF StagedForItsRelease
    <2>1. c \in DOMAIN staged
      BY DEF ReleaseInv, ReleaseTypeOK
    <2>2. staged'[c] = staged[c] \/ (c = b /\ staged'[c] = output)
      BY <1>5, <2>1
    <2> QED BY <1>4, <2>2, Members
  <1>10. ASSUME NEW t \in Session PROVE Knows(t)'
    <2>1. CASE t = s
      BY <1>1, <1>2, <1>3, <1>6, <2>1 DEF Knows
    <2>2. CASE t # s
      <3>1. Knows(t)
        BY DEF ReleaseInv
      <3> QED BY <1>1, <1>6, <2>2, <3>1 DEF Knows
    <2> QED BY <2>1, <2>2
  <1>11. /\ UnregisteredIsUnused' /\ MembersAreRegistered' /\ BatchesHaveTheirEnvelope'
         /\ ProcessedByItsRelease'
    BY <1>1 DEF ReleaseInv, UnregisteredIsUnused, MembersAreRegistered, BatchesHaveTheirEnvelope,
                ProcessedByItsRelease
  <1> QED BY <1>8, <1>9, <1>10, <1>11 DEF ReleaseInv

\* The envelope that was read back whole is that of the works claimed.
LEMMA ClaimKeeps ==
    ASSUME ReleaseInv, NEW s \in Session, NEW W \in SUBSET Work, NEW e \in Written(W), Claim(s, W, e)
    PROVE  ReleaseInv'
  <1> DEFINE b == Len(batches) + 1
             brow == [status |-> "LEASED", members |-> W]
             row == [session[s] EXCEPT !.pc = "process", !.batch = b]
             Envelopes == UNION {[V -> Releases \cup {None}] : V \in SUBSET Work}
             count(w) == work[w].attempts + 1
             leased(w) == [work[w] EXCEPT !.status = "LEASED", !.batch = b, !.attempts = count(w)]
  <1>1. /\ session \in [Session -> Sessions] /\ session[s].pc = "admitted" /\ session[s] \in Sessions
        /\ UNCHANGED installed /\ Knows(s)
        /\ session' = [session EXCEPT ![s] = row]
        /\ batches' = Append(batches, brow)
        /\ staged' = Append(staged, None)
        /\ work' = [w \in Work |-> IF w \in W THEN leased(w) ELSE work[w]]
    BY DEF ReleaseInv, ReleaseTypeOK, Claim, At, evidence
  <1>2. envelopes' = Append(envelopes, Envelope(W)) /\ W \subseteq Eligible
    <2>1. e.stored = Envelope(W) \/ e.stored = None
      BY DEF Written
    <2> QED BY <2>1 DEF Claim, ReadsBack
  <1>3. /\ batches \in Seq(BatchRows) /\ staged \in Seq(Outputs) /\ Len(staged) = Len(batches)
        /\ envelopes \in Seq(Envelopes) /\ Len(envelopes) = Len(batches)
        /\ Len(batches) \in Nat /\ b \in Nat
    BY DEF ReleaseInv, ReleaseTypeOK
  <1>4. \A w \in W : work[w].status = "READY"
    BY <1>2 DEF Eligible
  <1>5. brow \in BatchRows /\ brow.members = W
    BY DEF BatchRows
  <1>6. /\ row \in Sessions /\ row.pc = "process" /\ row.batch = b
        /\ row.package = session[s].package /\ row.binding = session[s].binding
    BY <1>1, <1>3 DEF Sessions
  <1>7. ASSUME NEW w \in Work
        PROVE  /\ leased(w) \in Rows /\ leased(w).status = "LEASED"
               /\ leased(w).output = work[w].output /\ leased(w).release = work[w].release
    <2>1. work[w] \in Rows /\ count(w) \in Nat /\ b \in Nat
      BY <1>3, OutputsAreGood DEF Rows
    <2> HIDE DEF count, b
    <2> QED BY <2>1 DEF Rows
  <1> HIDE DEF brow, row, leased
  <1>8. ASSUME NEW w \in Work
        PROVE  /\ work'[w] \in Rows /\ work'[w].release = work[w].release
               /\ work'[w].output = work[w].output
               /\ work'[w].status = "ABSENT" => work[w].status = "ABSENT" /\ w \notin W
    <2>1. (w \in W /\ work'[w] = leased(w)) \/ (w \notin W /\ work'[w] = work[w])
      BY <1>1
    <2> QED BY <1>7, <2>1, OutputsAreGood
  <1>9. work' \in [Work -> Rows]
    BY <1>1, <1>8
  <1>10. /\ batches' \in Seq(BatchRows) /\ Len(batches') = b /\ DOMAIN batches' = 1..b
         /\ batches'[b] = brow
         /\ \A c \in DOMAIN batches : batches'[c] = batches[c] /\ c \in 1..b /\ c # b
         /\ \A c \in 1..b : c \in DOMAIN batches \/ c = b
    BY <1>1, <1>3, <1>5
  <1>11. /\ staged' \in Seq(Outputs) /\ Len(staged') = b /\ staged'[b] = None
         /\ \A c \in DOMAIN batches : staged'[c] = staged[c]
    BY <1>1, <1>3 DEF Outputs
  <1>12. /\ envelopes' \in Seq(Envelopes) /\ Len(envelopes') = b /\ envelopes'[b] = Envelope(W)
         /\ \A c \in DOMAIN batches : envelopes'[c] = envelopes[c]
    <2>1. Envelope(W) \in [W -> Releases \cup {None}]
      BY OutputsAreGood DEF Envelope, Rows
    <2>2. Envelope(W) \in Envelopes
      BY <2>1
    <2> HIDE DEF Envelopes
    <2> QED BY <1>2, <1>3, <2>2
  <1>13. session' \in [Session -> Sessions] /\ session'[s] = row
         /\ \A t \in Session : t # s => session'[t] = session[t]
    BY <1>1, <1>6
  <1>14. ReleaseTypeOK'
    BY <1>1, <1>9, <1>10, <1>11, <1>12, <1>13 DEF ReleaseInv, ReleaseTypeOK
  <1>15. ASSUME NEW c \in 1..b
         PROVE  /\ \A w \in batches'[c].members :
                      work'[w].status # "ABSENT" /\ ComputedFor(staged'[c], work'[w].release)
                /\ envelopes'[c] = [w \in batches'[c].members |-> work'[w].release]
    <2>1. CASE c \in DOMAIN batches
      <3>1. /\ batches'[c] = batches[c] /\ staged'[c] = staged[c] /\ envelopes'[c] = envelopes[c]
            /\ batches[c].members \in SUBSET Work
            /\ envelopes[c] = [w \in batches[c].members |-> work[w].release]
        BY <1>10, <1>11, <1>12, <2>1, Members DEF ReleaseInv, BatchesHaveTheirEnvelope
      <3> QED BY <1>8, <2>1, <3>1, Members
    <2>2. CASE c = b
      <3>1. batches'[c].members = W /\ staged'[c] = None /\ envelopes'[c] = Envelope(W)
        BY <1>5, <1>10, <1>11, <1>12, <2>2
      <3>2. Envelope(W) = [w \in W |-> work'[w].release]
        BY <1>8 DEF Envelope
      <3> QED BY <1>8, <3>1, <3>2 DEF ComputedFor
    <2> QED BY <1>10, <2>1, <2>2
  <1>16. MembersAreRegistered' /\ StagedForItsRelease' /\ BatchesHaveTheirEnvelope'
    BY <1>10, <1>15 DEF MembersAreRegistered, StagedForItsRelease, BatchesHaveTheirEnvelope
  <1>17. UnregisteredIsUnused' /\ ProcessedByItsRelease'
    BY <1>8, OutputsAreGood DEF UnregisteredIsUnused, ProcessedByItsRelease, ComputedFor
  <1>18. ASSUME NEW t \in Session PROVE Knows(t)'
    <2>1. CASE t = s
      <3>1. session[s].package \in Releases /\ session[s].binding \in Releases /\ b \in DOMAIN batches'
        BY <1>1, <1>3, <1>10 DEF Knows
      <3> QED BY <1>6, <1>13, <2>1, <3>1 DEF Knows
    <2>2. CASE t # s
      <3>1. Knows(t) /\ session'[t] = session[t]
        BY <1>13, <2>2 DEF ReleaseInv
      <3>2. ASSUME session[t].batch \in DOMAIN batches
            PROVE  /\ session[t].batch \in DOMAIN batches'
                   /\ batches'[session[t].batch] = batches[session[t].batch]
                   /\ \A w \in batches[session[t].batch].members : work'[w].release = work[w].release
        BY <1>8, <1>10, <3>2, Members
      <3> QED BY <3>1, <3>2 DEF Knows
    <2> QED BY <2>1, <2>2
  <1> QED BY <1>14, <1>16, <1>17, <1>18 DEF ReleaseInv

\* Releases stay bound to work, batches and outputs in every reachable state,
\* whatever is installed, built again, published again, replayed or recovered.
THEOREM ReleaseInvariance == ReleaseSpec => []ReleaseInv
  <1>1. ReleaseInv /\ [ReleaseNext]_lvars => ReleaseInv'
    <2> SUFFICES ASSUME ReleaseInv, [ReleaseNext]_lvars PROVE ReleaseInv'
      OBVIOUS
    <2>1. CASE UNCHANGED lvars
      <3>1. UNCHANGED <<session, control>> /\ installed' \in Releases
        BY <2>1 DEF lvars, control, ReleaseInv, ReleaseTypeOK
      <3> QED BY <3>1, EvidenceStep
    <2>2. CASE ReleaseNext
      <3>1. CASE \E r \in Releases : Install(r) \/ PublishManifest(r) \/ PublishReceipt(r)
        BY <3>1, PublishingKeeps
      <3>2. ASSUME NEW s \in Session,
                   \/ \E r \in Releases : Start(s, r)
                   \/ Fail(s) \/ Register(s) \/ Admit(s) \/ LoadContext(s) \/ Commit(s)
                   \/ \E w \in Work : CheckRequest(s, w)
                   \/ \E W \in SUBSET Work : \E e \in Written(W) : Claim(s, W, e)
                   \/ \E b \in DOMAIN batches : Resume(s, b)
                   \/ \E r \in Releases : Execute(s, r)
            PROVE  ReleaseInv'
        BY <3>2, ReadingKeeps, RegisterKeeps, LoadContextKeeps, CommitKeeps, ClaimKeeps, ExecuteKeeps
      <3>3. CASE \E w \in Work : Replay(w) \/ \E r \in Releases : Quarantine(w, r)
        BY <3>3, OperatorKeeps
      <3>4. CASE \E b \in DOMAIN batches : Recover(b)
        BY <3>4, RecoverKeeps
      <3> QED BY <2>2, <3>1, <3>2, <3>3, <3>4 DEF ReleaseNext
    <2> QED BY <2>1, <2>2
  <1> QED BY <1>1, ReleaseInitially, PTL DEF ReleaseSpec

\* What is committed was computed for the release of its work, and every batch
\* can be read, for any releases, works, sessions and batches.
THEOREM ReleasesRespected == ReleaseSpec => []ReleasesAreRespected
  <1>1. ReleaseInv => ReleasesAreRespected
    BY DEF ReleaseInv, ReleasesAreRespected
  <1> QED BY <1>1, ReleaseInvariance, PTL

-----------------------------------------------------------------------------
(* ProcessInputs *)

\* A bounded set of natural numbers has a largest element.
LEMMA LargestNatural ==
    ASSUME NEW m \in Nat, NEW S \in SUBSET (0..m), S # {}
    PROVE  \E x \in S : \A y \in S : y <= x
  <1> DEFINE R == {p \in Nat \X Nat : p[1] < p[2]}
             T == {m - x : x \in S}
  <1>1. IsWellFoundedOn(R, Nat)
    BY NatLessThanWellFounded DEF OpToRel
  <1>2. T \in SUBSET Nat /\ T # {}
    <2>1. \A x \in S : m - x \in Nat
      OBVIOUS
    <2> QED BY <2>1
  <1>3. PICK t \in T : \A u \in T : <<u, t>> \notin R
    <2> HIDE DEF R, T
    <2> QED BY <1>1, <1>2, WFMin
  <1>4. PICK x \in S : t = m - x
    OBVIOUS
  <1>5. ASSUME NEW y \in S PROVE y <= x
    <2>1. m - y \in T /\ m - y \in Nat /\ t \in Nat
      BY <1>2
    <2>2. ~(m - y < t)
      BY <1>3, <2>1
    <2> QED BY <1>4, <2>2
  <1> QED BY <1>5

LEMMA InputsInit == PIInit => PIInv
  <1> SUFFICES ASSUME PIInit PROVE PIInv
    OBVIOUS
  <1>1. NewJob \in JobRows
    BY DEF NewJob, JobRows
  <1>2. ASSUME NEW j \in Job PROVE pool[j] \in SUBSET Executors /\ IsPool(pool[j])
    <2>1. PICK able \in [1..Workers -> Ability] :
            pool[j] = {[id |-> n, able |-> able[n]] : n \in 1..Workers}
      BY DEF PIInit
    <2> DEFINE f == [n \in 1..Workers |-> [id |-> n, able |-> able[n]]]
    <2>2. Workers \in Nat /\ 1..Workers \subseteq 1..MaxExecutor
      BY AbilityAssumption
    <2>3. pool[j] \in SUBSET Executors
      BY <2>1, <2>2 DEF Executors
    <2>4. f \in Bijection(1..Workers, pool[j])
      <3>1. f \in Surjection(1..Workers, pool[j])
        BY <2>1 DEF Surjection
      <3>2. \A a, b \in 1..Workers : f[a] = f[b] => a = b
        <4>1. \A a \in 1..Workers : f[a].id = a
          OBVIOUS
        <4> QED BY <4>1
      <3> HIDE DEF f
      <3>3. f \in [1..Workers -> pool[j]]
        BY <3>1 DEF Surjection
      <3>4. f \in Injection(1..Workers, pool[j])
        BY <3>2, <3>3 DEF Injection, IsInjective
      <3> QED BY <3>1, <3>4 DEF Bijection
    <2>5. IsFiniteSet(pool[j]) /\ Cardinality(pool[j]) = Workers
      <3>1. IsFiniteSet(1..Workers) /\ Cardinality(1..Workers) = Workers
        BY <2>2, FS_Interval
      <3>2. ExistsBijection(1..Workers, pool[j])
        BY <2>4 DEF ExistsBijection
      <3> QED BY <3>1, <3>2, FS_Bijection
    <2>6. \A x, y \in pool[j] : x.id = y.id => x = y
      BY <2>1
    <2> QED BY <2>3, <2>5, <2>6 DEF IsPool
  <1>3. PITypeOK
    <2>1. pool \in [Job -> SUBSET Executors]
      BY <1>2 DEF PIInit
    <2> QED BY <1>1, <2>1 DEF PIInit, PITypeOK
  <1>4. DistributedCopiesAreRegistered
    BY DEF PIInit, NewJob, DistributedCopiesAreRegistered
  <1>5. ASSUME NEW j \in Job PROVE KnowsItsPool(j)
    <2>1. job[j] = NewJob
      BY DEF PIInit
    <2>2. job[j].pc = "discover" /\ job[j].inputs = None /\ job[j].staging = None
      BY <2>1 DEF NewJob
    <2>3. None \notin {"direct", "local"}
      BY AbilityAssumption
    <2> QED BY <1>2, <2>2, <2>3 DEF KnowsItsPool, Probed, Bound, Copying
  <1> QED BY <1>3, <1>4, <1>5 DEF PIInv


\* What a step does to one job and to the shared files.
LEMMA JobStep ==
    ASSUME PIInv, NEW j \in Job, NEW row \in JobRows,
           job' = [job EXCEPT ![j] = row], pool' = pool,
           alias' \in [Artifact -> {None, "torn", "registered"}],
           decision' \in [1..Workers -> Decisions \cup {None}],
           \A a \in Artifact : alias[a] = "registered" => alias'[a] = "registered",
           \A a \in row.shared : alias'[a] = "registered",
           KnowsItsPool(j)'
    PROVE  PIInv'
  <1>1. PITypeOK /\ DistributedCopiesAreRegistered
    BY DEF PIInv
  <1>2. PITypeOK'
    BY <1>1 DEF PITypeOK
  <1>3. job'[j] = row /\ \A k \in Job \ {j} : job'[k] = job[k]
    BY <1>1 DEF PITypeOK
  <1>4. DistributedCopiesAreRegistered'
    BY <1>1, <1>3 DEF DistributedCopiesAreRegistered
  <1>5. ASSUME NEW k \in Job PROVE KnowsItsPool(k)'
    <2>1. CASE k = j
      BY <2>1
    <2>2. CASE k # j
      <3>1. KnowsItsPool(k) /\ job'[k] = job[k]
        BY <1>3, <2>2 DEF PIInv
      <3> QED BY <3>1 DEF KnowsItsPool, Probed, Bound
    <2> QED BY <2>1, <2>2
  <1> QED BY <1>2, <1>4, <1>5 DEF PIInv

\* A job that goes on to a place where it needs to know no more of its
\* executors, maybe with other work to do on its copies.
LEMMA GoesOnCopying ==
    ASSUME PIInv, NEW j \in Job, NEW row \in JobRows,
           job' = [job EXCEPT ![j] = row], UNCHANGED <<decision, pool>>,
           alias' \in [Artifact -> {None, "torn", "registered"}],
           \A a \in Artifact : alias[a] = "registered" => alias'[a] = "registered",
           \A a \in row.shared : alias'[a] = "registered",
           row.found = job[j].found, row.probe = job[j].probe, row.bound = job[j].bound,
           row.inputs = job[j].inputs, row.staging = job[j].staging, row.known = job[j].known,
           \/ row.pc = "raised"
           \/ row.pc = "create" /\ job[j].pc = "decide"
           \/ row.pc \in {"localize"} \cup Copying /\ job[j].pc \in {"localize"} \cup Copying,
           row.pc \in Copying => row.copying \in Artifact
    PROVE  PIInv'
  <1>1. PITypeOK /\ KnowsItsPool(j)
    BY DEF PIInv
  <1>2. job'[j] = row /\ decision' \in [1..Workers -> Decisions \cup {None}]
    BY <1>1 DEF PITypeOK
  <1>3. KnowsItsPool(j)'
    BY <1>1, <1>2 DEF KnowsItsPool, Probed, Bound, Copying
  <1> QED BY <1>2, <1>3, JobStep

\* The same for a step that only moves the job on.
LEMMA MovesTo ==
    ASSUME PIInv, NEW j \in Job,
           NEW to \in {"raised", "create", "copy alias", "verify alias"}, Goto(j, to),
           UNCHANGED <<decision, pool>>,
           alias' \in [Artifact -> {None, "torn", "registered"}],
           \A a \in Artifact : alias[a] = "registered" => alias'[a] = "registered",
           \/ to = "raised"
           \/ to = "create" /\ job[j].pc = "decide"
           \/ to \in Copying /\ job[j].pc \in Copying
    PROVE  PIInv'
  <1>1. PITypeOK /\ KnowsItsPool(j) /\ DistributedCopiesAreRegistered
    BY DEF PIInv
  <1>2. job[j] \in JobRows
    BY <1>1 DEF PITypeOK
  <1> DEFINE row == [job[j] EXCEPT !.pc = to]
  <1>3. row \in JobRows /\ row.pc = to
    BY <1>2 DEF JobRows, Copying
  <1>4. /\ row.found = job[j].found /\ row.probe = job[j].probe /\ row.bound = job[j].bound
        /\ row.inputs = job[j].inputs /\ row.staging = job[j].staging /\ row.known = job[j].known
        /\ row.copying = job[j].copying /\ row.shared = job[j].shared
    BY <1>2 DEF JobRows
  <1>5. job' = [job EXCEPT ![j] = row]
    BY DEF Goto
  <1>6. \A a \in job[j].shared : alias'[a] = "registered"
    BY <1>1, <1>2 DEF DistributedCopiesAreRegistered, JobRows
  <1>7. to \in Copying => job[j].copying \in Artifact
    BY <1>1 DEF KnowsItsPool, Copying
  <1> HIDE DEF row
  <1>8. \/ row.pc = "raised"
        \/ row.pc = "create" /\ job[j].pc = "decide"
        \/ row.pc \in {"localize"} \cup Copying /\ job[j].pc \in {"localize"} \cup Copying
    BY <1>3
  <1> QED BY <1>3, <1>4, <1>5, <1>6, <1>7, <1>8, GoesOnCopying

\* An executor that comes has an id above all others.
LEMMA ReplaceKeeps ==
    ASSUME PIInv, NEW j \in Job, NEW e \in pool[j], NEW able \in Ability, ReplaceExecutor(j, e, able)
    PROVE  PIInv'
  <1>1. PITypeOK /\ KnowsItsPool(j) /\ DistributedCopiesAreRegistered
    BY DEF PIInv
  <1>2. pool[j] \in SUBSET Executors /\ IsPool(pool[j]) /\ MaxExecutor \in Nat
    BY <1>1, AbilityAssumption DEF PITypeOK, KnowsItsPool
  <1> DEFINE top == CHOOSE n \in Ids(pool[j]) : \A m \in Ids(pool[j]) : m <= n
             next == [id |-> 1 + top, able |-> able]
             new == (pool[j] \ {e}) \cup {next}
  <1>3. /\ pool' = [pool EXCEPT ![j] = new] /\ UNCHANGED <<lake, alias, decision, job>>
        /\ \A x \in pool[j] : x.id < MaxExecutor
    BY DEF ReplaceExecutor
  <1>4. \A x \in pool[j] : x.id \in 1..MaxExecutor
    BY <1>2 DEF Executors
  <1>5. Ids(pool[j]) \in SUBSET (0..MaxExecutor) /\ Ids(pool[j]) # {}
    BY <1>2, <1>4 DEF Ids
  <1>6. top \in Ids(pool[j]) /\ \A m \in Ids(pool[j]) : m <= top
    <2>1. \E n \in Ids(pool[j]) : \A m \in Ids(pool[j]) : m <= n
      BY <1>2, <1>5, LargestNatural
    <2> QED BY <2>1
  <1> HIDE DEF top
  <1>7. /\ top \in 1..MaxExecutor /\ top < MaxExecutor
        /\ \A x \in pool[j] : x.id <= top
    BY <1>3, <1>4, <1>6 DEF Ids
  <1>8. /\ next \in Executors /\ next.id = 1 + top
        /\ \A x \in pool[j] : x.id < next.id
    BY <1>2, <1>4, <1>7 DEF Executors
  <1> HIDE DEF next
  <1>9. next \notin pool[j]
    BY <1>4, <1>8
  <1>10. new \in SUBSET Executors
    BY <1>2, <1>8
  <1>11. IsPool(new)
    <2>1. IsFiniteSet(pool[j]) /\ Cardinality(pool[j]) = Workers /\ Workers \in Nat
      BY <1>2, AbilityAssumption DEF IsPool
    <2>2. IsFiniteSet(pool[j] \ {e}) /\ Cardinality(pool[j] \ {e}) = Workers - 1
      BY <2>1, FS_RemoveElement
    <2>3. next \notin pool[j] \ {e}
      BY <1>9
    <2> DEFINE rest == pool[j] \ {e}
    <2> HIDE DEF rest
    <2>4. /\ IsFiniteSet(rest \cup {next})
          /\ Cardinality(rest \cup {next}) = Cardinality(rest) + 1
      BY <2>2, <2>3, FS_AddElement DEF rest
    <2>6. IsFiniteSet(new) /\ Cardinality(new) = Workers
      BY <2>1, <2>2, <2>4 DEF rest
    <2>5. \A x, y \in new : x.id = y.id => x = y
      BY <1>2, <1>4, <1>8 DEF IsPool
    <2> QED BY <2>6, <2>5 DEF IsPool
  <1>12. ASSUME NEW known \in SUBSET Executors, FoundOrGone(known, pool[j]) PROVE FoundOrGone(known, new)
    <2>1. ASSUME NEW f \in known PROVE f.id < next.id /\ f.id \in 1..MaxExecutor
      BY <1>4, <1>8, <1>12, <2>1 DEF FoundOrGone, Executors
    <2>2. ASSUME NEW f \in known, NEW x \in new, x.id = f.id PROVE x = f
      <3>1. x \in pool[j]
        BY <1>8, <2>1, <2>2
      <3> QED BY <1>12, <2>2, <3>1 DEF FoundOrGone
    <2>3. \A f \in known : f.id <= next.id /\ next \in new
      BY <1>2, <1>7, <1>8, <2>1
    <2> QED BY <2>2, <2>3 DEF FoundOrGone
  <1> HIDE DEF new
  <1>13. pool' \in [Job -> SUBSET Executors] /\ pool'[j] = new /\ \A k \in Job \ {j} : pool'[k] = pool[k]
    BY <1>1, <1>3, <1>10 DEF PITypeOK
  <1>14. PITypeOK' /\ DistributedCopiesAreRegistered'
    BY <1>1, <1>3, <1>13 DEF PITypeOK, DistributedCopiesAreRegistered
  <1>15. ASSUME NEW k \in Job PROVE KnowsItsPool(k)'
    <2>1. KnowsItsPool(k) /\ job' = job /\ job[k] \in JobRows
      BY <1>1, <1>3 DEF PIInv, PITypeOK
    <2>2. CASE k = j
      <3>1. job[k].found \in SUBSET Executors
        BY <2>1 DEF JobRows
      <3> QED BY <1>11, <1>12, <1>13, <2>1, <2>2, <3>1 DEF KnowsItsPool, Probed, Bound
    <2>3. CASE k # j
      BY <1>13, <2>1, <2>3 DEF KnowsItsPool, Probed, Bound
    <2> QED BY <2>2, <2>3
  <1> QED BY <1>14, <1>15 DEF PIInv


LEMMA DiscoverKeeps ==
    ASSUME PIInv, NEW j \in Job, Discover(j)
    PROVE  PIInv'
  <1>1. PITypeOK /\ KnowsItsPool(j) /\ DistributedCopiesAreRegistered
    BY DEF PIInv
  <1>2. job[j] \in JobRows /\ pool[j] \in SUBSET Executors /\ IsPool(pool[j])
    BY <1>1 DEF PITypeOK, KnowsItsPool
  <1> DEFINE row == [job[j] EXCEPT !.pc = "probe", !.found = pool[j]]
  <1>3. /\ row \in JobRows /\ row.pc = "probe" /\ row.found = pool[j] /\ row.shared = job[j].shared
        /\ row.inputs = job[j].inputs /\ row.staging = job[j].staging /\ row.known = job[j].known
    BY <1>2 DEF JobRows
  <1>4. job[j].pc = "discover" /\ job' = [job EXCEPT ![j] = row] /\ UNCHANGED <<lake, alias, decision, pool>>
    BY DEF Discover
  <1> HIDE DEF row
  <1>5. job'[j] = row
    BY <1>1, <1>4 DEF PITypeOK
  <1>6. FoundOrGone(pool[j], pool[j])
    <2>1. \A e \in pool[j] : e.id <= e.id
      BY <1>2 DEF Executors
    <2> QED BY <1>2, <2>1 DEF FoundOrGone, IsPool
  <1>7. KnowsItsPool(j)'
    <2>1. ~Probed(j)' /\ ~Bound(j)' /\ row.pc \notin Copying /\ pool'[j] = pool[j]
      BY <1>3, <1>4, <1>5 DEF Probed, Bound, Copying
    <2>2. job[j].staging # "local"
      BY <1>1, <1>4 DEF KnowsItsPool
    <2> QED BY <1>1, <1>2, <1>3, <1>5, <1>6, <2>1, <2>2 DEF KnowsItsPool
  <1>8. \A a \in row.shared : alias[a] = "registered"
    BY <1>1, <1>2, <1>3 DEF DistributedCopiesAreRegistered, JobRows
  <1> QED BY <1>1, <1>3, <1>4, <1>7, <1>8, JobStep DEF PITypeOK

\* A probe that passes has looked at every executor it found.
LEMMA ProbeKeeps ==
    ASSUME PIInv, NEW j \in Job, Probe(j)
    PROVE  PIInv'
  <1>1. PITypeOK /\ KnowsItsPool(j) /\ DistributedCopiesAreRegistered
    BY DEF PIInv
  <1>2. job[j] \in JobRows /\ pool[j] \in SUBSET Executors /\ job[j].found \in SUBSET Executors
    BY <1>1 DEF PITypeOK, JobRows
  <1>3. PICK r \in Results :
          /\ r.status = "AVAILABLE" => ConsumerCapability(job[j].found, pool[j])
          /\ job' = [job EXCEPT ![j].pc = "decide", ![j].probe = r]
    BY DEF Probe, Results
  <1> DEFINE row == [job[j] EXCEPT !.pc = "decide", !.probe = r]
  <1>4. /\ row \in JobRows /\ row.pc = "decide" /\ row.probe = r /\ row.shared = job[j].shared
        /\ row.found = job[j].found /\ row.inputs = job[j].inputs
        /\ row.staging = job[j].staging /\ row.known = job[j].known
    BY <1>2 DEF JobRows
  <1>5. job[j].pc = "probe" /\ job' = [job EXCEPT ![j] = row] /\ UNCHANGED <<lake, alias, decision, pool>>
    BY <1>3 DEF Probe
  <1> HIDE DEF row
  <1>6. job'[j] = row
    BY <1>1, <1>5 DEF PITypeOK
  <1>7. r.status = "AVAILABLE" => AllPass(job[j].found)
    <2> SUFFICES ASSUME r.status = "AVAILABLE", NEW e \in job[j].found PROVE e.able = Proof
      BY DEF AllPass
    <2>1. \A p \in Proof : p \in e.able
      BY <1>3 DEF ConsumerCapability, MountProof, EveryExecutor, Passes
    <2>2. e.able \in SUBSET Proof
      BY <1>2, AbilityAssumption DEF Executors
    <2> QED BY <2>1, <2>2
  <1>8. KnowsItsPool(j)'
    <2>1. ~Bound(j)' /\ row.pc \notin Copying /\ pool'[j] = pool[j]
      BY <1>4, <1>5, <1>6 DEF Bound, Copying
    <2>2. job[j].staging # "local"
      BY <1>1, <1>5 DEF KnowsItsPool
    <2> QED BY <1>1, <1>4, <1>5, <1>6, <1>7, <2>1, <2>2 DEF KnowsItsPool
  <1>9. \A a \in row.shared : alias[a] = "registered"
    BY <1>1, <1>2, <1>4 DEF DistributedCopiesAreRegistered, JobRows
  <1> QED BY <1>1, <1>4, <1>5, <1>8, <1>9, JobStep DEF PITypeOK

\* A job that takes a decision, its own or an earlier one, for the executors
\* it found or with the mount blocked.
LEMMA BindKeeps ==
    ASSUME PIInv, NEW j \in Job, NEW row \in JobRows,
           job[j].pc \in {"decide", "create"}, row.pc = "select",
           job' = [job EXCEPT ![j] = row], UNCHANGED <<alias, pool>>,
           decision' \in [1..Workers -> Decisions \cup {None}],
           row.probe \in Results,
           row.probe.status = "AVAILABLE" =>
               row.probe = job[j].probe /\ row.bound = Ids(job[j].found),
           row.shared = job[j].shared, row.found = job[j].found, row.inputs = job[j].inputs,
           row.staging = job[j].staging, row.known = job[j].known
    PROVE  PIInv'
  <1>1. PITypeOK /\ KnowsItsPool(j) /\ DistributedCopiesAreRegistered
    BY DEF PIInv
  <1>2. job[j] \in JobRows
    BY <1>1 DEF PITypeOK
  <1>3. job'[j] = row /\ pool'[j] = pool[j]
    BY <1>1 DEF PITypeOK
  <1>4. Probed(j) /\ row.pc \notin Copying /\ job[j].staging # "local"
    BY <1>1 DEF Probed, Copying, KnowsItsPool
  <1>5. KnowsItsPool(j)'
    BY <1>1, <1>3, <1>4 DEF KnowsItsPool
  <1>6. \A a \in row.shared : alias[a] = "registered"
    BY <1>1, <1>2 DEF DistributedCopiesAreRegistered, JobRows
  <1> QED BY <1>1, <1>5, <1>6, JobStep DEF PITypeOK

\* What a job that has probed knows of its own decision.
LEMMA OwnDecision ==
    ASSUME PIInv, NEW j \in Job, job[j].pc \in {"decide", "create"}
    PROVE  /\ job[j].probe \in Results
           /\ ProbedPlan(j) \in 1..Workers
           /\ Decision(j) \in Decisions
           /\ Decision(j).ids = Ids(job[j].found)
           /\ Ids(job[j].found) \in SUBSET (1..MaxExecutor)
  <1>1. PITypeOK /\ KnowsItsPool(j) /\ Probed(j)
    BY DEF PIInv, Probed
  <1>2. job[j].probe \in Results /\ IsPool(job[j].found) /\ job[j].found \in SUBSET Executors
    BY <1>1 DEF KnowsItsPool, PITypeOK, JobRows
  <1>3. Ids(job[j].found) \in SUBSET (1..MaxExecutor)
    BY <1>2 DEF Ids, Executors
  <1>4. ProbedPlan(j) \in 1..Workers
    BY <1>2, AbilityAssumption DEF ProbedPlan, IsPool
  <1> QED BY <1>2, <1>3, <1>4 DEF Decision, Decisions, Results

LEMMA ProbeDecisionKeeps ==
    ASSUME PIInv, NEW j \in Job, ProbeDecision(j)
    PROVE  PIInv'
  <1>1. PITypeOK /\ job[j] \in JobRows /\ job[j].pc = "decide"
    BY DEF PIInv, PITypeOK, ProbeDecision
  <1> DEFINE old == decision[ProbedPlan(j)]
  <1>2. /\ job[j].probe \in Results /\ old \in Decisions \cup {None}
        /\ Decision(j).ids = Ids(job[j].found)
    BY <1>1, OwnDecision DEF PITypeOK
  <1>3. /\ alias \in [Artifact -> {None, "torn", "registered"}]
        /\ decision \in [1..Workers -> Decisions \cup {None}]
        /\ UNCHANGED <<lake, alias, decision, pool>>
    BY <1>1 DEF PITypeOK, ProbeDecision
  <1>4. CASE Goto(j, "create") \/ Raise(j)
    BY <1>1, <1>3, <1>4, MovesTo DEF Raise
  <1>5. CASE old # None /\ old = Decision(j) /\ job' = [job EXCEPT ![j].pc = "select", ![j].bound = old.ids]
    <2> DEFINE ids == old.ids
               row == [job[j] EXCEPT !.pc = "select", !.bound = ids]
    <2>1. ids \in SUBSET (1..MaxExecutor) /\ ids = Ids(job[j].found)
      BY <1>2, <1>5 DEF Decisions
    <2>2. job' = [job EXCEPT ![j] = row]
      BY <1>5
    <2> HIDE DEF ids
    <2>3. /\ row \in JobRows /\ row.pc = "select" /\ row.bound = ids /\ row.probe = job[j].probe
          /\ row.shared = job[j].shared /\ row.found = job[j].found /\ row.inputs = job[j].inputs
          /\ row.staging = job[j].staging /\ row.known = job[j].known
      BY <1>1, <2>1 DEF JobRows
    <2> HIDE DEF row
    <2> QED BY <1>1, <1>2, <1>3, <2>1, <2>2, <2>3, BindKeeps
  <1>6. CASE /\ old # None /\ old.ids # Decision(j).ids
             /\ job' = [job EXCEPT ![j].pc = "select", ![j].bound = old.ids,
                                   ![j].probe.status = KeptStatus(j, old)]
    <2> DEFINE ids == old.ids
               blocked == [job[j].probe EXCEPT !.status = "BLOCKED"]
               row == [job[j] EXCEPT !.pc = "select", !.bound = ids, !.probe = blocked]
    <2>1. ids \in SUBSET (1..MaxExecutor)
      BY <1>2, <1>6 DEF Decisions
    <2>2. blocked \in Results /\ blocked.status = "BLOCKED"
      BY <1>2 DEF Results
    <2>3. job' = [job EXCEPT ![j] = row]
      BY <1>6 DEF KeptStatus
    <2> HIDE DEF ids, blocked
    <2>4. /\ row \in JobRows /\ row.pc = "select" /\ row.bound = ids /\ row.probe = blocked
          /\ row.shared = job[j].shared /\ row.found = job[j].found /\ row.inputs = job[j].inputs
          /\ row.staging = job[j].staging /\ row.known = job[j].known
      BY <1>1, <2>1, <2>2 DEF JobRows
    <2> HIDE DEF row
    <2> QED BY <1>1, <1>2, <1>3, <2>2, <2>3, <2>4, BindKeeps
  <1> QED BY <1>4, <1>5, <1>6 DEF ProbeDecision

LEMMA CreateDecisionKeeps ==
    ASSUME PIInv, NEW j \in Job, CreateDecision(j)
    PROVE  PIInv'
  <1>1. PITypeOK /\ job[j] \in JobRows /\ job[j].pc = "create"
    BY DEF PIInv, PITypeOK, CreateDecision
  <1>2. /\ alias \in [Artifact -> {None, "torn", "registered"}]
        /\ decision \in [1..Workers -> Decisions \cup {None}]
        /\ UNCHANGED <<lake, alias, pool>>
    BY <1>1 DEF PITypeOK, CreateDecision
  <1>3. CASE Raise(j) /\ UNCHANGED decision
    BY <1>1, <1>2, <1>3, MovesTo DEF Raise
  <1>4. CASE /\ decision' = [decision EXCEPT ![ProbedPlan(j)] = Decision(j)]
             /\ job' = [job EXCEPT ![j].pc = "select", ![j].bound = Decision(j).ids]
    <2> DEFINE ids == Decision(j).ids
               row == [job[j] EXCEPT !.pc = "select", !.bound = ids]
    <2>1. /\ ids \in SUBSET (1..MaxExecutor) /\ ids = Ids(job[j].found)
          /\ job[j].probe \in Results /\ Decision(j) \in Decisions /\ ProbedPlan(j) \in 1..Workers
      BY <1>1, OwnDecision
    <2>2. job' = [job EXCEPT ![j] = row] /\ decision' \in [1..Workers -> Decisions \cup {None}]
      BY <1>2, <1>4, <2>1
    <2> HIDE DEF ids
    <2>3. /\ row \in JobRows /\ row.pc = "select" /\ row.bound = ids /\ row.probe = job[j].probe
          /\ row.shared = job[j].shared /\ row.found = job[j].found /\ row.inputs = job[j].inputs
          /\ row.staging = job[j].staging /\ row.known = job[j].known
      BY <1>1, <2>1 DEF JobRows
    <2> HIDE DEF row
    <2> QED BY <1>1, <1>2, <2>1, <2>2, <2>3, BindKeeps
  <1> QED BY <1>3, <1>4 DEF CreateDecision


\* A probe of executors that are all still there has seen every executor: an id
\* that was found and is alive is the executor that was found.
LEMMA BoundPoolPasses ==
    ASSUME PIInv, NEW j \in Job, Bound(j), BoundProbe(j)
    PROVE  AllPass(pool[j])
  <1>1. KnowsItsPool(j) /\ Probed(j)
    BY DEF PIInv, Bound, Probed
  <1>2. FoundOrGone(job[j].found, pool[j]) /\ AllPass(job[j].found) /\ Ids(pool[j]) = Ids(job[j].found)
    BY <1>1 DEF BoundProbe, KnowsItsPool
  <1>3. ASSUME NEW e \in pool[j] PROVE e \in job[j].found
    <2>1. PICK f \in job[j].found : f.id = e.id
      BY <1>2 DEF Ids
    <2> QED BY <1>2, <2>1 DEF FoundOrGone
  <1> QED BY <1>2, <1>3 DEF AllPass

LEMMA SelectInputsKeeps ==
    ASSUME PIInv, NEW j \in Job, SelectInputs(j)
    PROVE  PIInv'
  <1>1. PITypeOK /\ KnowsItsPool(j) /\ DistributedCopiesAreRegistered
    BY DEF PIInv
  <1>2. job[j] \in JobRows /\ pool[j] \in SUBSET Executors /\ job[j].pc = "select"
    BY <1>1 DEF PITypeOK, SelectInputs
  <1> DEFINE way == IF BoundProbe(j) THEN "direct" ELSE "fallback"
             row == [job[j] EXCEPT !.pc = "localize", !.known = pool[j], !.inputs = way]
  <1>3. job' = [job EXCEPT ![j] = row] /\ UNCHANGED <<lake, alias, decision, pool>>
    BY DEF SelectInputs
  <1>4. way \in {"direct", "fallback"} /\ (way = "direct" => AllPass(pool[j]))
    BY <1>2, BoundPoolPasses DEF Bound
  <1> HIDE DEF way
  <1>5. /\ row \in JobRows /\ row.pc = "localize" /\ row.known = pool[j] /\ row.inputs = way
        /\ row.shared = job[j].shared /\ row.found = job[j].found /\ row.probe = job[j].probe
        /\ row.bound = job[j].bound /\ row.staging = job[j].staging
    BY <1>2, <1>4 DEF JobRows
  <1> HIDE DEF row
  <1>6. job'[j] = row /\ pool'[j] = pool[j]
    BY <1>1, <1>3 DEF PITypeOK
  <1>7. Probed(j) /\ Bound(j) /\ row.pc \notin Copying /\ job[j].staging # "local"
    BY <1>1, <1>2, <1>5 DEF Probed, Bound, Copying, KnowsItsPool
  <1>8. KnowsItsPool(j)'
    BY <1>1, <1>4, <1>5, <1>6, <1>7 DEF KnowsItsPool
  <1>9. \A a \in row.shared : alias[a] = "registered"
    BY <1>1, <1>2, <1>5 DEF DistributedCopiesAreRegistered, JobRows
  <1> QED BY <1>1, <1>3, <1>5, <1>8, <1>9, JobStep DEF PITypeOK

LEMMA SelectHarnessKeeps ==
    ASSUME PIInv, NEW j \in Job, SelectHarness(j)
    PROVE  PIInv'
  <1>1. PITypeOK /\ KnowsItsPool(j) /\ DistributedCopiesAreRegistered
    BY DEF PIInv
  <1>2. job[j] \in JobRows /\ pool[j] \in SUBSET Executors /\ job[j].pc = "localize"
    BY <1>1 DEF PITypeOK, SelectHarness
  <1> DEFINE way == IF BoundProbe(j) THEN "local" ELSE "spark_delta"
             row == [job[j] EXCEPT !.pc = "run", !.found = pool[j], !.staging = way]
  <1>3. job' = [job EXCEPT ![j] = row] /\ UNCHANGED <<lake, alias, decision, pool>>
    BY DEF SelectHarness
  <1>4. way \in {"local", "spark_delta"} /\ (way = "local" => AllPass(pool[j]))
    BY <1>2, BoundPoolPasses DEF Bound
  <1> HIDE DEF way
  <1>5. /\ row \in JobRows /\ row.pc = "run" /\ row.found = pool[j] /\ row.staging = way
        /\ row.shared = job[j].shared /\ row.inputs = job[j].inputs /\ row.known = job[j].known
    BY <1>2, <1>4 DEF JobRows
  <1> HIDE DEF row
  <1>6. job'[j] = row /\ pool'[j] = pool[j]
    BY <1>1, <1>3 DEF PITypeOK
  <1>7. ~Probed(j)' /\ ~Bound(j)' /\ row.pc \notin Copying
    BY <1>5, <1>6 DEF Probed, Bound, Copying
  <1>8. KnowsItsPool(j)'
    BY <1>1, <1>4, <1>5, <1>6, <1>7 DEF KnowsItsPool
  <1>9. \A a \in row.shared : alias[a] = "registered"
    BY <1>1, <1>2, <1>5 DEF DistributedCopiesAreRegistered, JobRows
  <1> QED BY <1>1, <1>3, <1>5, <1>8, <1>9, JobStep DEF PITypeOK

\* The driver verifies a mounted file, or its own copy of it.
LEMMA LookAtFileKeeps ==
    ASSUME PIInv, NEW j \in Job, NEW a \in Artifact, VerifyMounted(j, a) \/ StageLocally(j, a)
    PROVE  PIInv'
  <1>1. PITypeOK /\ DistributedCopiesAreRegistered /\ job[j] \in JobRows /\ job[j].pc = "localize"
    BY DEF PIInv, PITypeOK, VerifyMounted, StageLocally
  <1>2. /\ alias \in [Artifact -> {None, "torn", "registered"}]
        /\ UNCHANGED <<lake, alias, decision, pool>>
    BY <1>1 DEF PITypeOK, VerifyMounted, StageLocally
  <1>3. \A x \in job[j].shared : alias[x] = "registered"
    BY <1>1 DEF DistributedCopiesAreRegistered, JobRows
  <1>4. CASE Raise(j)
    BY <1>2, <1>4, MovesTo DEF Raise
  <1>5. CASE job' = [job EXCEPT ![j].todo = job[j].todo \ {a}]
    <2> DEFINE left == job[j].todo \ {a}
               row == [job[j] EXCEPT !.todo = left]
    <2>1. left \in SUBSET Artifact /\ job' = [job EXCEPT ![j] = row]
      BY <1>1, <1>5 DEF JobRows
    <2> HIDE DEF left
    <2>2. /\ row \in JobRows /\ row.pc = "localize" /\ row.shared = job[j].shared
          /\ row.found = job[j].found /\ row.probe = job[j].probe /\ row.bound = job[j].bound
          /\ row.inputs = job[j].inputs /\ row.staging = job[j].staging /\ row.known = job[j].known
      BY <1>1, <2>1 DEF JobRows
    <2> HIDE DEF row
    <2> QED BY <1>1, <1>2, <1>3, <2>1, <2>2, GoesOnCopying DEF Copying
  <1>6. ASSUME NEW to \in {"create alias", "verify alias"},
               job' = [job EXCEPT ![j].copying = a, ![j].pc = to]
        PROVE  PIInv'
    <2> DEFINE row == [job[j] EXCEPT !.copying = a, !.pc = to]
    <2>1. job' = [job EXCEPT ![j] = row]
      BY <1>6
    <2>2. /\ row \in JobRows /\ row.pc = to /\ row.shared = job[j].shared /\ row.copying = a
          /\ row.found = job[j].found /\ row.probe = job[j].probe /\ row.bound = job[j].bound
          /\ row.inputs = job[j].inputs /\ row.staging = job[j].staging /\ row.known = job[j].known
      BY <1>1 DEF JobRows, Copying
    <2> HIDE DEF row
    <2> QED BY <1>1, <1>2, <1>3, <2>1, <2>2, GoesOnCopying DEF Copying
  <1>7. CASE VerifyMounted(j, a)
    BY <1>4, <1>5, <1>7 DEF VerifyMounted
  <1>8. CASE StageLocally(j, a)
    BY <1>4, <1>6, <1>8 DEF StageLocally
  <1> QED BY <1>7, <1>8

\* The three steps on an alias: created empty, filled, read back.
LEMMA AliasKeeps ==
    ASSUME PIInv, NEW j \in Job, CreateAlias(j) \/ CopyAlias(j) \/ VerifyAlias(j)
    PROVE  PIInv'
  <1> DEFINE a == job[j].copying
  <1>1. /\ PITypeOK /\ DistributedCopiesAreRegistered /\ job[j] \in JobRows /\ job[j].pc \in Copying
        /\ a \in Artifact
    BY DEF PIInv, PITypeOK, KnowsItsPool, Copying, CreateAlias, CopyAlias, VerifyAlias
  <1> HIDE DEF a
  <1>2. alias \in [Artifact -> {None, "torn", "registered"}] /\ UNCHANGED <<lake, decision, pool>>
    BY <1>1 DEF PITypeOK, CreateAlias, CopyAlias, VerifyAlias
  <1>3. CASE Raise(j) /\ UNCHANGED alias
    BY <1>2, <1>3, MovesTo DEF Raise
  <1>4. CASE alias[a] = None /\ alias' = [alias EXCEPT ![a] = "torn"] /\ Goto(j, "copy alias")
    <2>1. alias' \in [Artifact -> {None, "torn", "registered"}]
      BY <1>1, <1>2, <1>4
    <2>2. \A x \in Artifact : alias[x] = "registered" => alias'[x] = "registered"
      BY <1>1, <1>2, <1>4, AbilityAssumption
    <2> QED BY <1>1, <1>2, <1>4, <2>1, <2>2, MovesTo DEF Copying
  <1>5. CASE alias' = [alias EXCEPT ![a] = "registered"] /\ Goto(j, "verify alias")
    <2>1. alias' \in [Artifact -> {None, "torn", "registered"}]
      BY <1>1, <1>2, <1>5
    <2>2. \A x \in Artifact : alias[x] = "registered" => alias'[x] = "registered"
      BY <1>1, <1>2, <1>5
    <2> QED BY <1>1, <1>2, <1>5, <2>1, <2>2, MovesTo DEF Copying
  <1>6. CASE /\ AliasServes(a) /\ UNCHANGED alias
             /\ job' = [job EXCEPT ![j].pc = "localize", ![j].todo = job[j].todo \ {a},
                                   ![j].shared = job[j].shared \cup {a}]
    <2> DEFINE left == job[j].todo \ {a}
               more == job[j].shared \cup {a}
               row == [job[j] EXCEPT !.pc = "localize", !.todo = left, !.shared = more]
    <2>1. left \in SUBSET Artifact /\ more \in SUBSET Artifact /\ job' = [job EXCEPT ![j] = row]
      BY <1>1, <1>6 DEF JobRows
    <2>2. \A x \in more : alias[x] = "registered"
      BY <1>1, <1>6 DEF DistributedCopiesAreRegistered, JobRows, AliasServes
    <2> HIDE DEF left, more
    <2>3. /\ row \in JobRows /\ row.pc = "localize" /\ row.shared = more
          /\ row.found = job[j].found /\ row.probe = job[j].probe /\ row.bound = job[j].bound
          /\ row.inputs = job[j].inputs /\ row.staging = job[j].staging /\ row.known = job[j].known
      BY <1>1, <2>1 DEF JobRows
    <2> HIDE DEF row
    <2>4. alias' \in [Artifact -> {None, "torn", "registered"}] /\ \A x \in row.shared : alias'[x] = "registered"
      BY <1>2, <1>6, <2>2, <2>3
    <2>5. row.pc \in {"localize"} \cup Copying /\ job[j].pc \in {"localize"} \cup Copying /\ row.pc \notin Copying
      BY <1>1, <2>3 DEF Copying
    <2> QED BY <1>2, <1>6, <2>1, <2>3, <2>4, <2>5, GoesOnCopying
  <1> QED BY <1>3, <1>4, <1>5, <1>6 DEF CreateAlias, CopyAlias, VerifyAlias, a

\* Whatever executors are lost, jobs die and files change, every reachable
\* state satisfies the invariant.
THEOREM InputsInvariance == PISpec => []PIInv
  <1>1. PIInv /\ [PINext]_pivars => PIInv'
    <2> SUFFICES ASSUME PIInv, [PINext]_pivars PROVE PIInv'
      OBVIOUS
    <2>1. ASSUME UNCHANGED <<alias, decision, pool, job>> PROVE PIInv'
      <3>1. PITypeOK' /\ DistributedCopiesAreRegistered'
        BY <2>1 DEF PIInv, PITypeOK, DistributedCopiesAreRegistered
      <3>2. \A j \in Job : KnowsItsPool(j)'
        BY <2>1 DEF PIInv, KnowsItsPool, Probed, Bound
      <3> QED BY <3>1, <3>2 DEF PIInv
    <2>2. CASE UNCHANGED pivars
      BY <2>1, <2>2 DEF pivars
    <2>3. CASE \E a \in Artifact : WriteLake(a)
      BY <2>1, <2>3 DEF WriteLake
    <2>4. ASSUME NEW j \in Job,
                 \/ \E e \in pool[j], able \in Ability : ReplaceExecutor(j, e, able)
                 \/ Discover(j) \/ Probe(j) \/ ProbeDecision(j) \/ CreateDecision(j) \/ SelectInputs(j)
                 \/ \E a \in Artifact : VerifyMounted(j, a) \/ StageLocally(j, a)
                 \/ CreateAlias(j) \/ CopyAlias(j) \/ VerifyAlias(j) \/ SelectHarness(j) \/ Die(j)
          PROVE  PIInv'
      <3>1. CASE Die(j)
        <4>1. alias \in [Artifact -> {None, "torn", "registered"}]
          BY DEF PIInv, PITypeOK
        <4>2. Goto(j, "raised") /\ UNCHANGED <<alias, decision, pool>>
          BY <3>1 DEF Die, Raise
        <4> QED BY <4>1, <4>2, MovesTo
      <3>2. CASE \E e \in pool[j], able \in Ability : ReplaceExecutor(j, e, able)
        BY <3>2, ReplaceKeeps
      <3>3. CASE Discover(j) \/ Probe(j) \/ ProbeDecision(j) \/ CreateDecision(j) \/ SelectInputs(j)
        BY <3>3, DiscoverKeeps, ProbeKeeps, ProbeDecisionKeeps, CreateDecisionKeeps, SelectInputsKeeps
      <3>4. CASE \E a \in Artifact : VerifyMounted(j, a) \/ StageLocally(j, a)
        BY <3>4, LookAtFileKeeps
      <3>5. CASE CreateAlias(j) \/ CopyAlias(j) \/ VerifyAlias(j) \/ SelectHarness(j)
        BY <3>5, AliasKeeps, SelectHarnessKeeps
      <3> QED BY <2>4, <3>1, <3>2, <3>3, <3>4, <3>5
    <2> QED BY <2>2, <2>3, <2>4 DEF PINext
  <1> QED BY <1>1, InputsInit, PTL DEF PISpec

\* No job reads through a mount that some executor did not prove, and no copy
\* that differs from what was registered is handed out, for any executors,
\* jobs and artifacts.
THEOREM InputsSafe == PISpec => []InputsAreSafe
  <1>1. PIInv => InputsAreSafe
    <2> SUFFICES ASSUME PIInv PROVE InputsAreSafe
      OBVIOUS
    <2>1. \A j \in Job : KnowsItsPool(j)
      BY DEF PIInv
    <2>2. MountIsProvenWhenChosen
      BY <2>1 DEF MountIsProvenWhenChosen, KnowsItsPool, AllPass
    <2> QED BY <2>2 DEF InputsAreSafe, PIInv
  <1> QED BY <1>1, InputsInvariance, PTL

-----------------------------------------------------------------------------
(* Placement *)

LEMMA DivisionBounds ==
    ASSUME NEW a \in Nat, NEW b \in Nat \ {0}
    PROVE  a \div b \in Nat /\ b * (a \div b) <= a
  OBVIOUS

LEMMA PairBounds ==
    ASSUME NEW a \in Nat, NEW b \in Nat
    PROVE  /\ Max({a, b}) \in {a, b} /\ Max({a, b}) >= a /\ Max({a, b}) >= b
           /\ Min({a, b}) \in {a, b} /\ Min({a, b}) <= a /\ Min({a, b}) <= b
  BY DEF Max, Min

LEMMA TripleBounds ==
    ASSUME NEW a \in Nat, NEW b \in Nat, NEW c \in Nat
    PROVE  /\ Max({a, b, c}) \in Nat
           /\ Max({a, b, c}) >= a /\ Max({a, b, c}) >= b /\ Max({a, b, c}) >= c
  BY DEF Max

\* The tasks that meet on one executor are those its cores allow, however many
\* were planned.
LEMMA OneBudget ==
    ASSUME NEW c \in Nat
    PROVE  /\ Budget(c) = FullBudget /\ FullBudget \in Nat
           /\ ExecutorCores \div TaskCpus \in Nat \ {0}
           /\ FullBudget = Max({1, ExecutorCores \div (ExecutorCores \div TaskCpus)})
  <1> DEFINE q == ExecutorCores \div TaskCpus
  <1>1. q \in Nat \ {0}
    BY PlacementAssumption
  <1>2. ASSUME NEW n \in Nat PROVE Budget(n) = Max({1, ExecutorCores \div q})
    <2> DEFINE m == Max({n, 1, q})
    <2>1. m \in Nat /\ m >= q
      BY <1>1, TripleBounds
    <2> HIDE DEF m, q
    <2>2. Min({m, q}) = q
      BY <1>1, <2>1, PairBounds
    <2>3. Budget(n) = Max({1, ExecutorCores \div Min({m, q})})
      BY DEF Budget, ThreadsFor, NativeConcurrency, m, q
    <2> QED BY <2>2, <2>3
  <1>3. ExecutorCores \div q \in Nat
    BY <1>1, PlacementAssumption, DivisionBounds
  <1>4. Max({1, ExecutorCores \div q}) \in Nat
    <2> HIDE DEF q
    <2> QED BY <1>3, PairBounds
  <1> HIDE DEF q
  <1>5. Budget(c) = FullBudget /\ FullBudget \in Nat /\ FullBudget = Max({1, ExecutorCores \div q})
    BY <1>2, <1>4 DEF FullBudget
  <1> QED BY <1>1, <1>5 DEF q

LEMMA TasksFit ==
    ASSUME NEW h \in Host, PLInv, running[h] > 0
    PROVE  LET m == driver.previous[h]
           IN  /\ running[h] * native[h] <= m.cores
               /\ running[h] * PeakRss * 100 <= m.memory * (100 - HeadroomPercent)
  <1> DEFINE m == driver.previous[h]
             k == running[h]
             q == ExecutorCores \div TaskCpus
             room == m.memory * (100 - HeadroomPercent)
  <1>1. /\ driver.pc = "run" /\ h \in DOMAIN driver.previous /\ native[h] = FullBudget
        /\ k <= CoreSlots(m) /\ Reviewed /\ PlacementSafe /\ driver.previous \in Inventories
    BY DEF PLInv
  <1>2. m \in Reports /\ m.cores = ExecutorCores /\ CoreSlots(m) <= MemorySlots(m) /\ k \in Nat
    BY <1>1 DEF Inventories, Reviewed, PlacementSafe, PLInv, PLTypeOK
  <1>3. m.memory \in Nat /\ ExecutorCores \in Nat /\ PeakRss \in Nat \ {0} /\ HeadroomPercent \in 0..99
    BY <1>2, PlacementAssumption DEF Reports, Registering
  <1>4. k <= q /\ q \in Nat \ {0} /\ FullBudget = Max({1, ExecutorCores \div q})
    BY <1>1, <1>2, OneBudget DEF CoreSlots
  <1> HIDE DEF q
  <1>5. k * FullBudget <= ExecutorCores
    <2> DEFINE each == ExecutorCores \div q
    <2>1. each \in Nat /\ q * each <= ExecutorCores
      BY <1>3, <1>4, DivisionBounds
    <2>2. each >= 1
      BY <1>3, <1>4, PlacementAssumption DEF q
    <2> HIDE DEF each
    <2>3. FullBudget = each
      BY <1>4, <2>1, <2>2, PairBounds DEF each
    <2>4. k * each <= q * each
      BY <1>2, <1>4, <2>1
    <2> QED BY <1>2, <1>3, <1>4, <2>1, <2>3, <2>4
  <1>6. k * PeakRss * 100 <= room
    <2>1. room \in Nat /\ room \div 100 \in Nat /\ 100 * (room \div 100) <= room
      <3>1. 100 - HeadroomPercent \in Nat /\ m.memory \in Nat
        BY <1>3
      <3>2. \A x, y \in Nat : x * y \in Nat
        OBVIOUS
      <3>3. room \in Nat
        BY <3>1, <3>2
      <3> HIDE DEF room
      <3> QED BY <3>3, DivisionBounds
    <2> DEFINE part == room \div 100
               slots == part \div PeakRss
    <2>2. slots \in Nat /\ PeakRss * slots <= part /\ part \in Nat
      BY <1>3, <2>1, DivisionBounds
    <2>3. k <= slots
      <3>1. CoreSlots(m) \in Nat /\ MemorySlots(m) = slots
        BY <1>2, <1>4 DEF CoreSlots, MemorySlots, q
      <3> HIDE DEF slots, m, k
      <3> QED BY <1>1, <1>2, <2>2, <3>1
    <2> HIDE DEF room, part, slots
    <2>4. k * PeakRss <= PeakRss * slots
      BY <1>2, <1>3, <2>2, <2>3
    <2>5. k * PeakRss \in Nat /\ k * PeakRss <= part
      BY <1>2, <1>3, <2>2, <2>4
    <2> HIDE DEF k
    <2> QED BY <2>1, <2>2, <2>5 DEF part
  <1> QED BY <1>1, <1>2, <1>5, <1>6

LEMMA PlacementInit == PLInit => PLInv
  <1> SUFFICES ASSUME PLInit PROVE PLInv
    OBVIOUS
  <1>1. PLTypeOK
    BY DEF PLInit, PLTypeOK, NoProfile
  <1> QED BY <1>1 DEF PLInit, PLInv, NoProfile

\* What Spark reports of the pool is an inventory.
LEMMA InventoryType ==
    ASSUME PLTypeOK
    PROVE  Inventory \in Inventories
  <1> DEFINE hosts == {x \in Host : live[x] # None}
  <1>1. Inventory \in [hosts -> Reports]
    BY DEF PLTypeOK, Inventory
  <1> QED BY <1>1 DEF Inventories

\* Until the profile is built nothing runs.
LEMMA NothingRuns ==
    ASSUME PLInv, driver.pc # "run"
    PROVE  \A h \in Host : ~(running[h] > 0)
  BY DEF PLInv

\* What a step does to the driver before anything runs.
LEMMA DriverMoves ==
    ASSUME PLInv, UNCHANGED <<native, running>>, driver.pc # "run",
           NEW to \in {"poll", "warm", "profile", "run", "raised"},
           driver' \in [pc : {to}, previous : Inventories \cup {None}, stable : Nat, polls : Nat],
           live' \in [Host -> Reports \cup {None}],
           to \in {"warm", "profile", "run"} => driver'.previous \in Inventories,
           to = "run" => (Reviewed /\ PlacementSafe)'
    PROVE  PLInv'
  <1>1. \A h \in Host : ~(running[h] > 0)
    BY NothingRuns
  <1>2. driver'.pc = to
    OBVIOUS
  <1>3. PLTypeOK'
    BY <1>2 DEF PLInv, PLTypeOK
  <1> QED BY <1>1, <1>2, <1>3 DEF PLInv


LEMMA SameInventory ==
    ASSUME driver'.previous = driver.previous
    PROVE  Reviewed' = Reviewed /\ PlacementSafe' = PlacementSafe
  BY DEF Reviewed, PlacementSafe

LEMMA PollKeeps ==
    ASSUME PLInv, PollOnce \/ Deadline
    PROVE  PLInv'
  <1>1. PLTypeOK /\ driver.pc = "poll" /\ UNCHANGED <<live, native, running>>
    BY DEF PLInv, PollOnce, Deadline
  <1>2. /\ Inventory \in Inventories /\ live \in [Host -> Reports \cup {None}]
        /\ driver \in [pc : {"poll"}, previous : Inventories \cup {None}, stable : Nat, polls : Nat]
    BY <1>1, InventoryType DEF PLTypeOK
  <1> HIDE DEF Inventory
  <1>3. CASE driver' = [driver EXCEPT !.previous = None, !.stable = 0, !.polls = driver.polls + 1]
    <2> DEFINE polls == driver.polls + 1
               row == [driver EXCEPT !.previous = None, !.stable = 0, !.polls = polls]
    <2>1. polls \in Nat
      BY <1>2
    <2> HIDE DEF polls
    <2>2. row \in [pc : {"poll"}, previous : Inventories \cup {None}, stable : Nat, polls : Nat]
      BY <1>2, <2>1
    <2>3. driver' = row
      BY <1>3 DEF polls
    <2> HIDE DEF row
    <2> QED BY <1>1, <1>2, <2>2, <2>3, DriverMoves
  <1>4. CASE Stable /\ driver' = [driver EXCEPT !.pc = "warm"]
    <2> DEFINE row == [driver EXCEPT !.pc = "warm"]
    <2>1. row \in [pc : {"warm"}, previous : Inventories \cup {None}, stable : Nat, polls : Nat]
      BY <1>2
    <2>2. row.previous \in Inventories
      BY <1>2, <1>4 DEF Stable
    <2>3. driver' = row
      BY <1>4
    <2> HIDE DEF row
    <2> QED BY <1>1, <1>2, <2>1, <2>2, <2>3, DriverMoves
  <1>5. CASE driver' = [driver EXCEPT !.polls = driver.polls + 1, !.stable = driver.stable + 1]
    <2> DEFINE polls == driver.polls + 1
               stable == driver.stable + 1
               row == [driver EXCEPT !.polls = polls, !.stable = stable]
    <2>1. polls \in Nat /\ stable \in Nat
      BY <1>2
    <2> HIDE DEF polls, stable
    <2>2. row \in [pc : {"poll"}, previous : Inventories \cup {None}, stable : Nat, polls : Nat]
      BY <1>2, <2>1
    <2>3. driver' = row
      BY <1>5 DEF polls, stable
    <2> HIDE DEF row
    <2> QED BY <1>1, <1>2, <2>2, <2>3, DriverMoves
  <1>6. CASE driver' = [driver EXCEPT !.previous = Inventory, !.polls = driver.polls + 1, !.stable = 0]
    <2> DEFINE polls == driver.polls + 1
               row == [driver EXCEPT !.previous = Inventory, !.polls = polls, !.stable = 0]
    <2>1. polls \in Nat
      BY <1>2
    <2> HIDE DEF polls
    <2>2. row \in [pc : {"poll"}, previous : Inventories \cup {None}, stable : Nat, polls : Nat]
      BY <1>2, <2>1
    <2>3. driver' = row
      BY <1>6 DEF polls
    <2> HIDE DEF row
    <2> QED BY <1>1, <1>2, <2>2, <2>3, DriverMoves
  <1>7. CASE driver' = [driver EXCEPT !.pc = "raised"]
    <2> DEFINE row == [driver EXCEPT !.pc = "raised"]
    <2>1. row \in [pc : {"raised"}, previous : Inventories \cup {None}, stable : Nat, polls : Nat]
      BY <1>2
    <2>2. driver' = row
      BY <1>7
    <2> HIDE DEF row
    <2> QED BY <1>1, <1>2, <2>1, <2>2, DriverMoves
  <1> QED BY <1>3, <1>4, <1>5, <1>6, <1>7 DEF PollOnce, Deadline

\* The pool may change until its inventory is taken.
LEMMA PoolKeeps ==
    ASSUME PLInv, NEW h \in Host, Join(h) \/ Leave(h)
    PROVE  PLInv'
  <1>1. PLTypeOK /\ driver.pc = "poll" /\ UNCHANGED <<driver, native, running>>
    BY DEF PLInv, Join, Leave
  <1>2. live' \in [Host -> Reports \cup {None}]
    BY <1>1 DEF PLTypeOK, Join, Leave, Reports
  <1>3. driver \in [pc : {"poll"}, previous : Inventories \cup {None}, stable : Nat, polls : Nat]
    BY <1>1 DEF PLTypeOK
  <1> QED BY <1>1, <1>2, <1>3, DriverMoves

LEMMA ProfileKeeps ==
    ASSUME PLInv, MeasureRss \/ BuildProfile \/ RejectProfile
    PROVE  PLInv'
  <1>1. /\ PLTypeOK /\ driver.pc \in {"warm", "profile"} /\ driver.previous \in Inventories
        /\ UNCHANGED <<live, native, running>>
    BY DEF PLInv, MeasureRss, BuildProfile, RejectProfile
  <1>2. PICK to \in {"profile", "run", "raised"} :
          driver' = [driver EXCEPT !.pc = to] /\ (to = "run" => Reviewed /\ PlacementSafe)
    BY DEF MeasureRss, BuildProfile, RejectProfile
  <1> DEFINE row == [driver EXCEPT !.pc = to]
  <1>3. /\ row \in [pc : {to}, previous : Inventories \cup {None}, stable : Nat, polls : Nat]
        /\ row.previous = driver.previous
    BY <1>1 DEF PLTypeOK
  <1>4. driver' = row
    BY <1>2
  <1> HIDE DEF row
  <1>5. to = "run" => (Reviewed /\ PlacementSafe)'
    BY <1>2, <1>3, <1>4, SameInventory
  <1>6. live' \in [Host -> Reports \cup {None}]
    BY <1>1 DEF PLTypeOK
  <1> QED BY <1>1, <1>3, <1>4, <1>5, <1>6, DriverMoves

\* The warm-up configures the budget that every task will ask for.
LEMMA WarmUpKeeps ==
    ASSUME PLInv, NEW h \in Host, WarmUp(h)
    PROVE  PLInv'
  <1>1. PLTypeOK /\ driver.pc = "warm" /\ UNCHANGED <<live, driver, running>>
    BY DEF PLInv, WarmUp
  <1> DEFINE q == ExecutorCores \div TaskCpus
             b == Budget(Max({1, q}))
  <1>2. q \in Nat /\ 1 \in Nat
    BY OneBudget DEF q
  <1>3. Max({1, q}) \in Nat
    <2> HIDE DEF q
    <2> QED BY <1>2, PairBounds
  <1>4. b = FullBudget /\ FullBudget \in Nat
    BY <1>3, OneBudget
  <1>5. native' = [native EXCEPT ![h] = b]
    BY DEF WarmUp
  <1> HIDE DEF b, q
  <1>6. \A x \in Host : native'[x] \in {None, FullBudget}
    BY <1>1, <1>4, <1>5 DEF PLInv, PLTypeOK
  <1>7. PLTypeOK'
    BY <1>1, <1>4, <1>5 DEF PLTypeOK
  <1>8. \A x \in Host : ~(running[x] > 0)
    BY <1>1, NothingRuns
  <1> QED BY <1>1, <1>6, <1>7, <1>8 DEF PLInv

LEMMA RunTaskKeeps ==
    ASSUME PLInv, NEW h \in Host, NEW c \in Nat, RunTask(h, c)
    PROVE  PLInv'
  <1>1. /\ PLTypeOK /\ driver.pc = "run" /\ h \in DOMAIN driver.previous
        /\ Reviewed /\ PlacementSafe /\ driver.previous \in Inventories
        /\ running[h] < CoreSlots(driver.previous[h]) /\ UNCHANGED live
    BY DEF PLInv, RunTask
  <1>2. Budget(c) = FullBudget /\ FullBudget \in Nat
    BY OneBudget
  <1>3. Applied(h, Budget(c))
    BY <1>2 DEF PLInv, Applied
  <1> DEFINE more == running[h] + 1
  <1>4. /\ running' = [running EXCEPT ![h] = more] /\ native' = [native EXCEPT ![h] = FullBudget]
        /\ UNCHANGED driver
    BY <1>2, <1>3 DEF RunTask
  <1>5. more \in Nat /\ more <= CoreSlots(driver.previous[h])
    <2>1. CoreSlots(driver.previous[h]) \in Nat /\ running[h] \in Nat
      BY <1>1, OneBudget DEF PLTypeOK, Reviewed, CoreSlots
    <2> QED BY <1>1, <2>1
  <1> HIDE DEF more
  <1>6. PLTypeOK'
    BY <1>1, <1>2, <1>4, <1>5 DEF PLTypeOK
  <1>7. (Reviewed /\ PlacementSafe)' /\ \A x \in Host : native'[x] \in {None, FullBudget}
    BY <1>1, <1>4, SameInventory DEF PLInv, PLTypeOK
  <1>8. ASSUME NEW x \in Host, running'[x] > 0
        PROVE  /\ driver'.pc = "run" /\ x \in DOMAIN driver'.previous
               /\ native'[x] = FullBudget
               /\ running'[x] <= CoreSlots(driver'.previous[x])
    <2>1. CASE x = h
      BY <1>1, <1>4, <1>5, <2>1 DEF PLTypeOK
    <2>2. CASE x # h
      <3>1. running'[x] = running[x] /\ native'[x] = native[x]
        BY <1>1, <1>4, <2>2 DEF PLTypeOK
      <3> QED BY <1>4, <1>8, <3>1 DEF PLInv
    <2> QED BY <2>1, <2>2
  <1> QED BY <1>1, <1>4, <1>6, <1>7, <1>8 DEF PLInv

LEMMA EndTaskKeeps ==
    ASSUME PLInv, NEW h \in Host, EndTask(h)
    PROVE  PLInv'
  <1>1. PLTypeOK /\ running[h] > 0 /\ UNCHANGED <<live, driver, native>>
    BY DEF PLInv, EndTask
  <1> DEFINE fewer == running[h] - 1
  <1>2. running' = [running EXCEPT ![h] = fewer] /\ fewer \in Nat /\ fewer <= running[h] /\ running[h] \in Nat
    BY <1>1 DEF EndTask, PLTypeOK
  <1> HIDE DEF fewer
  <1>3. PLTypeOK' /\ (Reviewed /\ PlacementSafe)' = (Reviewed /\ PlacementSafe)
    BY <1>1, <1>2, SameInventory DEF PLTypeOK
  <1>4. ASSUME NEW x \in Host, running'[x] > 0
        PROVE  /\ driver.pc = "run" /\ x \in DOMAIN driver.previous
               /\ native[x] = FullBudget
               /\ running'[x] <= CoreSlots(driver.previous[x])
    <2>1. CASE x = h
      <3>1. /\ driver.pc = "run" /\ h \in DOMAIN driver.previous /\ native[h] = FullBudget
            /\ running[h] <= CoreSlots(driver.previous[h]) /\ Reviewed
        BY <1>1 DEF PLInv
      <3>2. CoreSlots(driver.previous[h]) \in Nat
        BY <3>1, OneBudget DEF Reviewed, CoreSlots
      <3>3. running'[h] = fewer
        BY <1>1, <1>2 DEF PLTypeOK
      <3> HIDE DEF CoreSlots
      <3> QED BY <1>2, <2>1, <3>1, <3>2, <3>3
    <2>2. CASE x # h
      <3>1. running'[x] = running[x]
        BY <1>1, <1>2, <2>2 DEF PLTypeOK
      <3> QED BY <1>4, <3>1 DEF PLInv
    <2> QED BY <2>1, <2>2
  <1> QED BY <1>1, <1>3, <1>4 DEF PLInv

\* Whatever executors join and leave and wherever Spark puts its tasks, every
\* reachable state satisfies the invariant.
THEOREM PlacementInvariance == PLSpec => []PLInv
  <1>1. PLInv /\ [PLNext]_plvars => PLInv'
    <2> SUFFICES ASSUME PLInv, [PLNext]_plvars PROVE PLInv'
      OBVIOUS
    <2>1. CASE UNCHANGED plvars
      <3>1. UNCHANGED <<live, driver, native, running>>
        BY <2>1 DEF plvars
      <3>2. PLTypeOK' /\ (Reviewed /\ PlacementSafe)' = (Reviewed /\ PlacementSafe)
        BY <3>1, SameInventory DEF PLInv, PLTypeOK
      <3> QED BY <3>1, <3>2 DEF PLInv
    <2>2. CASE \E h \in Host, c \in 1..(Cardinality(Host) * ExecutorCores) : RunTask(h, c)
      <3>1. Cardinality(Host) * ExecutorCores \in Nat
        <4>1. Cardinality(Host) \in Nat /\ ExecutorCores \in Nat
          BY PlacementAssumption, FS_CardinalityType
        <4> QED BY <4>1
      <3> QED BY <2>2, <3>1, RunTaskKeeps
    <2>3. CASE \E h \in Host : Join(h) \/ Leave(h) \/ WarmUp(h) \/ EndTask(h)
      BY <2>3, PoolKeeps, WarmUpKeeps, EndTaskKeeps
    <2>4. CASE PollOnce \/ Deadline \/ MeasureRss \/ BuildProfile \/ RejectProfile
      BY <2>4, PollKeeps, ProfileKeeps
    <2> QED BY <2>1, <2>2, <2>3, <2>4 DEF PLNext
  <1> QED BY <1>1, PlacementInit, PTL DEF PLSpec

\* The tasks on an executor share its cores and fit its memory, for any
\* machines, task widths, headroom and planned concurrency.
THEOREM TasksFitExecutors == PLSpec => []RunningTasksFitTheirExecutor
  <1>1. PLInv => RunningTasksFitTheirExecutor
    <2> SUFFICES ASSUME PLInv PROVE RunningTasksFitTheirExecutor
      OBVIOUS
    <2>1. \A h \in Host : running[h] > 0 =>
            LET m == driver.previous[h]
            IN  /\ running[h] * native[h] <= m.cores
                /\ running[h] * PeakRss * 100 <= m.memory * (100 - HeadroomPercent)
      BY TasksFit
    <2> QED BY <2>1 DEF RunningTasksFitTheirExecutor, PLInv
  <1> QED BY <1>1, PlacementInvariance, PTL
-----------------------------------------------------------------------------
(* Catalog *)

LEMMA CatalogTyped == CatalogSpec => []CatalogTypeOK
  <1>1. CatalogInit => CatalogTypeOK
    <2> SUFFICES ASSUME CatalogInit PROVE CatalogTypeOK
      OBVIOUS
    <2>1. PICK r \in Row : catalog = {r}
      BY DEF CatalogInit
    <2>2. IsFiniteSet(catalog)
      BY <2>1, FS_Singleton
    <2> QED BY <2>1, <2>2, CatalogAssumption DEF CatalogInit, CatalogTypeOK
  <1>2. ASSUME CatalogTypeOK, [CatalogNext]_cvars PROVE CatalogTypeOK'
    <2> USE DEF CatalogTypeOK
    <2>1. CASE UNCHANGED cvars
      BY <1>2, <2>1 DEF cvars
    <2>2. ASSUME NEW r \in Row, AddRow(r) PROVE CatalogTypeOK'
      BY <1>2, <2>2, FS_AddElement, CatalogAssumption DEF AddRow, Edited
    <2>3. ASSUME NEW r \in catalog, NEW at \in Instant, EndRow(r, at) PROVE CatalogTypeOK'
      <3> DEFINE ended == [r EXCEPT !.to = at]
      <3>1. /\ {"prefix", "from", "to"} \subseteq DOMAIN ended
            /\ ended.prefix = r.prefix /\ ended.from = r.from /\ ended.to = at /\ at \in Int
        BY <1>2, CatalogAssumption
      <3>2. catalog' = (catalog \ {r}) \cup {ended} /\ edits' \in 0..MaxEdits
        BY <1>2, <2>3, CatalogAssumption DEF EndRow, Edited
      <3>3. IsFiniteSet(catalog')
        BY <1>2, <3>2, FS_AddElement, FS_RemoveElement
      <3> HIDE DEF ended
      <3> QED BY <1>2, <3>1, <3>2, <3>3
    <2>4. ASSUME NEW v \in Video, NEW at \in Instant, Override(v, at) PROVE CatalogTypeOK'
      BY <1>2, <2>4, CatalogAssumption DEF Override, Edited
    <2> QED BY <1>2, <2>1, <2>2, <2>3, <2>4 DEF CatalogNext
  <1> QED BY <1>1, <1>2, PTL DEF CatalogSpec

\* Two directories above one file lie above each other.
LEMMA PrefixesOfOnePath ==
    ASSUME NEW p, NEW q, NEW path, IsPath(p), IsPath(q), IsPath(path),
           IsPrefix(p, path), IsPrefix(q, path)
    PROVE  IsPrefix(p, q) \/ IsPrefix(q, p)
  <1>1. ASSUME NEW s, NEW t, IsPath(s), IsPath(t), IsPrefix(s, t)
        PROVE  Len(s) \in Nat /\ Len(s) <= Len(t) /\ \A i \in 1..Len(s) : s[i] = t[i]
    <2>1. Len(s) \in Nat /\ Len(t) \in Nat /\ Len(s) <= Len(t)
      BY <1>1 DEF IsPath, IsPrefix
    <2>2. ASSUME NEW i \in 1..Len(s) PROVE s[i] = t[i]
      <3>1. SubSeq(s, 1, Len(s))[i] = s[i]
        BY <1>1, <2>1 DEF IsPath
      <3>2. SubSeq(t, 1, Len(s))[i] = t[i]
        BY <1>1, <2>1 DEF IsPath
      <3> QED BY <1>1, <3>1, <3>2 DEF IsPrefix
    <2> QED BY <2>1, <2>2
  <1>2. ASSUME NEW s, NEW t, IsPath(s), IsPath(t), Len(s) <= Len(t), \A i \in 1..Len(s) : s[i] = t[i]
        PROVE  IsPrefix(s, t)
    <2>1. /\ SubSeq(s, 1, Len(s)) = [i \in 1..Len(s) |-> s[i]]
          /\ SubSeq(t, 1, Len(s)) = [i \in 1..Len(s) |-> t[i]]
      BY <1>2 DEF IsPath
    <2>2. [i \in 1..Len(s) |-> s[i]] = [i \in 1..Len(s) |-> t[i]]
      BY <1>2
    <2> QED BY <1>2, <2>1, <2>2 DEF IsPrefix
  <1>3. /\ Len(p) \in Nat /\ Len(p) <= Len(path) /\ \A i \in 1..Len(p) : p[i] = path[i]
        /\ Len(q) \in Nat /\ Len(q) <= Len(path) /\ \A i \in 1..Len(q) : q[i] = path[i]
    BY <1>1
  <1>4. CASE Len(p) <= Len(q)
    <2>1. \A i \in 1..Len(p) : p[i] = q[i]
      BY <1>3, <1>4
    <2> QED BY <1>2, <1>4, <2>1
  <1>5. CASE Len(q) <= Len(p)
    <2>1. \A i \in 1..Len(q) : q[i] = p[i]
      BY <1>3, <1>5
    <2> QED BY <1>2, <1>5, <2>1
  <1> QED BY <1>3, <1>4, <1>5

\* A set without two different members has at most one.
LEMMA AtMostOne ==
    ASSUME NEW S, \A x, y \in S : x = y
    PROVE  IsFiniteSet(S) /\ Cardinality(S) <= 1
  <1>1. CASE S = {}
    BY <1>1, FS_EmptySet
  <1>2. CASE S # {}
    <2>1. PICK x \in S : S = {x}
      BY <1>2
    <2>2. IsFiniteSet(S) /\ Cardinality(S) = 1
      BY <2>1, FS_Singleton
    <2> QED BY <2>2
  <1> QED BY <1>1, <1>2

\* OneRowInForce: whatever rows an operator writes and ends, and wherever the
\* videos lie, a catalog that passes the pairwise check of load_camera_catalog
\* has at most one row in force for a video at any time.
THEOREM OneRow == CatalogSpec => []OneRowInForce
  <1>1. ASSUME CatalogTypeOK PROVE OneRowInForce
    <2> SUFFICES ASSUME Loads, NEW v \in Video, NEW at \in Instant
                 PROVE  Cardinality({r \in PathMatches(v) : InForce(r, at)}) <= 1
      BY DEF OneRowInForce
    <2>1. ASSUME NEW r \in PathMatches(v), NEW s \in PathMatches(v), InForce(r, at), InForce(s, at)
          PROVE  r = s
      <3>1. /\ r \in catalog /\ IsPath(r.prefix) /\ r.from \in Int /\ r.to \in Int \cup {None}
            /\ s \in catalog /\ IsPath(s.prefix) /\ s.from \in Int /\ s.to \in Int \cup {None}
            /\ IsPrefix(r.prefix, v.path) /\ IsPrefix(s.prefix, v.path)
        BY <1>1 DEF PathMatches, CatalogTypeOK
      <3>2. PrefixesOverlap(r, s)
        BY <3>1, PrefixesOfOnePath, CatalogAssumption DEF PrefixesOverlap
      <3>3. IntervalsOverlap(r, s)
        BY <2>1, <3>1, CatalogAssumption DEF InForce, IntervalsOverlap
      <3> QED BY <3>1, <3>2, <3>3 DEF Loads, CatalogIsValid
    <2> QED BY <2>1, AtMostOne
  <1> QED BY <1>1, CatalogTyped, PTL

\* What matches is one row, with its time, or it is no plan.
LEMMA PlanIsTheActiveRow ==
    ASSUME CatalogTypeOK, NEW v \in Video, IsPlan(Plan(v))
    PROVE  \E r \in catalog :
               /\ ActiveMatches(v) = {r}
               /\ Plan(v) = [row |-> r, at |-> ResolveCaptureTime(r, v).at,
                             source |-> ResolveCaptureTime(r, v).source]
  <1>1. ASSUME NEW reason PROVE ~IsPlan(Failed(reason))
    BY DEF IsPlan, Failed
  <1>2. ASSUME NEW r \in catalog, ~IsResolved(ResolveCaptureTime(r, v))
        PROVE  ~IsPlan(ResolveCaptureTime(r, v))
    BY <1>2 DEF IsPlan, IsResolved, ResolveCaptureTime, EmbeddedTime, FilenameTime, Failed, Resolved
  <1>3. IsPlan(MatchCatalogEntry(v)) /\ Plan(v) = MatchCatalogEntry(v)
    BY <1>1 DEF Plan
  <1>4. Cardinality(ActiveMatches(v)) = 1 /\ PathMatches(v) # {}
    <2> SUFFICES ASSUME ~(Cardinality(ActiveMatches(v)) = 1 /\ PathMatches(v) # {}) PROVE FALSE
      OBVIOUS
    <2> DEFINE errors == {ResolveCaptureTime(r, v) : r \in PathMatches(v)}
    <2>1. \A e \in errors : ~IsResolved(e) => ~IsPlan(e)
      BY <1>2 DEF PathMatches
    <2>2. CASE PathMatches(v) = {}
      <3>1. ActiveMatches(v) = {} /\ errors = {}
        BY <2>2 DEF ActiveMatches
      <3>2. Cardinality(ActiveMatches(v)) # 1 /\ Cardinality(errors) # 1
        BY <3>1, FS_EmptySet
      <3>3. MatchCatalogEntry(v) = Failed("NO_CAMERA_MATCH")
        BY <2>2, <3>2 DEF MatchCatalogEntry
      <3> QED BY <1>1, <1>3, <3>3
    <2>3. CASE /\ PathMatches(v) # {} /\ Cardinality(ActiveMatches(v)) # 1
               /\ Cardinality(errors) = 1 /\ (\A e \in errors : ~IsResolved(e))
      <3>1. MatchCatalogEntry(v) = CHOOSE e \in errors : TRUE
        BY <2>3 DEF MatchCatalogEntry
      <3>2. errors # {}
        BY <2>3
      <3> HIDE DEF errors
      <3> QED BY <1>3, <2>1, <2>3, <3>1, <3>2
    <2>4. CASE /\ PathMatches(v) # {} /\ Cardinality(ActiveMatches(v)) # 1
               /\ ~(Cardinality(errors) = 1 /\ (\A e \in errors : ~IsResolved(e)))
      BY <1>1, <1>3, <2>4 DEF MatchCatalogEntry
    <2> QED BY <2>2, <2>3, <2>4
  <1>5. PICK r : ActiveMatches(v) = {r}
    <2>1. IsFiniteSet(ActiveMatches(v))
      BY FS_Subset DEF CatalogTypeOK, ActiveMatches, PathMatches
    <2> QED BY <1>4, <2>1, FS_CardinalityType, FS_Singleton
  <1>6. r \in catalog
    BY <1>5 DEF ActiveMatches, PathMatches
  <1>7. (CHOOSE s \in ActiveMatches(v) : TRUE) = r
    BY <1>5
  <1>8. MatchCatalogEntry(v) = [row |-> r, at |-> ResolveCaptureTime(r, v).at,
                                source |-> ResolveCaptureTime(r, v).source]
    <2>1. \E e \in {ResolveCaptureTime(s, v) : s \in PathMatches(v)} : IsResolved(e)
      BY <1>5 DEF ActiveMatches
    <2> QED BY <1>4, <1>7, <2>1 DEF MatchCatalogEntry
  <1> QED BY <1>3, <1>5, <1>6, <1>8

\* AddedRowsNeverReassign: a new camera row never moves a video that has a plan
\* to another camera or to another time, whatever the rows take the capture
\* time from (match_catalog_entry).
THEOREM NeverReassigned == CatalogSpec => AddedRowsNeverReassign
  <1> DEFINE Active(v, r) ==
                 /\ ActiveMatches(v) = {r}
                 /\ Plan(v) = [row |-> r, at |-> ResolveCaptureTime(r, v).at,
                               source |-> ResolveCaptureTime(r, v).source]
             PlansAreActive == \A v \in Video : IsPlan(Plan(v)) => \E r \in catalog : Active(v, r)
             Step == (catalog' # catalog /\ catalog \subseteq catalog' /\ Loads /\ Loads') =>
                        \A v \in Video : IsPlan(Plan(v)) /\ IsPlan(Plan(v)') /\ inventory' = inventory
                                            => Plan(v)' = Plan(v)
  <1>1. CatalogTypeOK => PlansAreActive
    BY PlanIsTheActiveRow
  <1>2. ASSUME PlansAreActive, PlansAreActive' PROVE [Step]_cvars
    <2> SUFFICES ASSUME catalog \subseteq catalog', NEW v \in Video,
                        IsPlan(Plan(v)), IsPlan(Plan(v))', inventory' = inventory
                 PROVE  Plan(v)' = Plan(v)
      OBVIOUS
    <2>1. PICK r \in catalog : Active(v, r)
      BY <1>2
    <2>2. PICK s \in catalog' : Active(v, s)'
      BY <1>2
    <2>3. \A q : ResolveCaptureTime(q, v)' = ResolveCaptureTime(q, v)
      BY DEF ResolveCaptureTime, EmbeddedTime, FilenameTime
    <2>4. r \in ActiveMatches(v)'
      BY <2>1, <2>3 DEF ActiveMatches, PathMatches
    <2> QED BY <2>1, <2>2, <2>3, <2>4
  <1> QED BY <1>1, <1>2, CatalogTyped, PTL DEF AddedRowsNeverReassign
-----------------------------------------------------------------------------
(* LineCounting *)

\* The larger of two.
LEMMA MaxOfPair ==
    ASSUME NEW a \in Int, NEW b \in Int
    PROVE  Max({a, b}) = IF a >= b THEN a ELSE b
  <1> DEFINE m == IF a >= b THEN a ELSE b
  <1>1. m \in {a, b} /\ \A y \in {a, b} : m >= y
    OBVIOUS
  <1>2. \A x \in {a, b} : (\A y \in {a, b} : x >= y) => x = m
    OBVIOUS
  <1> HIDE DEF m
  <1>3. Max({a, b}) = m
    BY <1>1, <1>2 DEF Max
  <1> QED BY <1>3 DEF m

\* Twice a number is at most one more than twice another: it is no larger.
LEMMA HalfIsNoMore ==
    ASSUME NEW u \in Nat, u >= 1, NEW n \in Nat, NEW m \in Nat,
           60 * u * n <= 60 * u * m + 30 * u
    PROVE  n <= m
  <1> SUFFICES ASSUME n >= m + 1 PROVE FALSE
    OBVIOUS
  <1>1. PICK d \in Nat : n = m + 1 + d
    <2>1. n - (m + 1) \in Nat /\ n = m + 1 + (n - (m + 1))
      OBVIOUS
    <2> QED BY <2>1
  <1>2. u * n = u * m + u + u * d /\ u * d \in Nat /\ u * m \in Nat /\ u * n \in Nat
    BY <1>1
  <1>3. 60 * u * n = 60 * (u * n) /\ 60 * u * m = 60 * (u * m)
    OBVIOUS
  <1> QED BY <1>2, <1>3

LEMMA SettingsTyped ==
    ASSUME NEW s \in LineSettings
    PROVE  /\ s \in [fps : SourceFps, interval : Nat \ {0}, buffer : Nat, window : Nat, coast : Nat]
           /\ 30 <= s.buffer
           /\ 60 * RateUnit * s.interval <= s.buffer * s.fps
           /\ 30 * RateUnit * s.window <= s.buffer * s.fps
           /\ 2 * (s.buffer * s.fps) <= 60 * RateUnit * s.coast + 30 * RateUnit
  <1> DEFINE Made(f, i, b) == [fps : {f}, interval : {i}, buffer : {b},
                             window : TrackerWindows(f, b), coast : CacheWindows(f, b)]
  <1>9. PICK f \in SourceFps, r \in SampleFps :
            s \in UNION {UNION {Made(f, i, b) : b \in LostTrackBuffers(f, i)} : i \in Intervals(f, r)}
    BY DEF LineSettings
  <1>10. PICK i \in Intervals(f, r) : s \in UNION {Made(f, i, b) : b \in LostTrackBuffers(f, i)}
    BY <1>9
  <1>1. PICK b \in LostTrackBuffers(f, i) : s \in Made(f, i, b)
    BY <1>10
  <1>2. f \in Nat /\ f >= 1 /\ r \in Nat /\ r >= 1 /\ RateUnit \in Nat /\ RateUnit >= 1
    BY LineAssumption
  <1>3. s.fps = f /\ s.interval = i /\ s.buffer = b
        /\ s.window \in TrackerWindows(f, b) /\ s.coast \in CacheWindows(f, b)
        /\ s = [fps |-> f, interval |-> i, buffer |-> b, window |-> s.window, coast |-> s.coast]
    BY <1>1
  <1>4. i \in Nat /\ i >= 1
    <2>1. PICK n \in Nearest(f, Min({r, f})) : i = Max({1, n})
      BY DEF Intervals
    <2>2. Min({r, f}) \in Nat /\ Min({r, f}) >= 1
      <3>1. CASE r <= f
        BY <1>2, <3>1 DEF Min
      <3>2. CASE f <= r
        BY <1>2, <3>2 DEF Min
      <3> QED BY <1>2, <3>1, <3>2
    <2>3. f \div Min({r, f}) \in Int
      BY <1>2, <2>2
    <2>4. n \in Int
      BY <2>3 DEF Nearest
    <2>5. i = IF 1 >= n THEN 1 ELSE n
      BY <2>1, <2>4, MaxOfPair
    <2> QED BY <2>4, <2>5
  <1>5. b \in Nat /\ b >= 30 /\ 60 * RateUnit * i <= b * f
    <2> DEFINE a == 60 * i * RateUnit
    <2>1. a \in Nat /\ a = 60 * RateUnit * i
      BY <1>2, <1>4
    <2>2. PICK n \in Ceilings(a, f) : b = Max({30, n})
      BY DEF LostTrackBuffers
    <2> HIDE DEF a
    <2>3. a \div f \in Int
      BY <1>2, <2>1
    <2>4. n \in Int /\ a <= n * f
      BY <2>3 DEF Ceilings
    <2>5. b = IF 30 >= n THEN 30 ELSE n
      BY <2>2, <2>4, MaxOfPair
    <2>6. b \in Int /\ b >= n /\ b >= 30
      BY <2>4, <2>5
    <2>7. n * f <= b * f
      BY <1>2, <2>4, <2>6
    <2>8. n * f \in Int /\ b * f \in Int
      BY <1>2, <2>4, <2>6
    <2> QED BY <2>1, <2>4, <2>6, <2>7, <2>8
  <1> DEFINE x == b * f
             u == 30 * RateUnit
  <1>6. x \in Nat /\ u \in Nat /\ u >= 1 /\ b * f = x
    BY <1>2, <1>5
  <1>7. s.window \in Nat /\ 30 * RateUnit * s.window <= x
    <2>1. x = u * (x \div u) + (x % u) /\ x \div u \in Int
      <3> HIDE DEF x, u
      <3> QED BY <1>6, Z3
    <2>2. x % u \in Nat
      <3> HIDE DEF x, u
      <3> QED BY <1>6, Z3
    <2>3. s.window \in 0..(x \div u)
      BY <1>3 DEF TrackerWindows
    <2> HIDE DEF x
    <2>4. s.window \in Nat /\ s.window <= x \div u
      BY <2>1, <2>3
    <2>5. u * s.window <= u * (x \div u)
      <3> HIDE DEF u
      <3> QED BY <1>6, <2>1, <2>4
    <2>6. u * s.window <= x
      <3> HIDE DEF u
      <3>1. u * s.window \in Int /\ u * (x \div u) \in Int
        BY <1>6, <2>1, <2>4
      <3> QED BY <1>6, <2>1, <2>2, <2>5, <3>1
    <2> QED BY <2>4, <2>6 DEF u
  <1>8. s.coast \in Nat /\ 2 * x <= 60 * RateUnit * s.coast + 30 * RateUnit
    <2>1. s.coast \in (x \div u)..(x \div u + 1) /\ 2 * x <= 2 * s.coast * u + u
      <3>1. s.coast \in (x \div u)..(x \div u + 1) /\ 2 * x - u <= 2 * s.coast * u
        BY <1>3 DEF CacheWindows, Nearest
      <3>2. x \div u \in Int
        <4> HIDE DEF x, u
        <4> QED BY <1>6
      <3>3. s.coast \in Int
        BY <3>1, <3>2
      <3>4. 2 * s.coast * u \in Int
        <4> HIDE DEF x, u
        <4> QED BY <1>6, <3>3
      <3> HIDE DEF x, u
      <3> QED BY <1>6, <3>1, <3>4
    <2>2. x \div u \in Nat
      <3> HIDE DEF x, u
      <3> QED BY <1>6, Z3
    <2>3. s.coast \in Nat
      <3> HIDE DEF x, u
      <3> QED BY <2>1, <2>2
    <2>4. 2 * s.coast * u = 60 * RateUnit * s.coast
      BY <1>2, <2>3 DEF u
    <2>5. 60 * RateUnit * s.coast + 30 * RateUnit = 2 * s.coast * u + u
      BY <2>4 DEF u
    <2> QED BY <2>1, <2>3, <2>5
  <1> HIDE DEF x, u
  <1> QED BY <1>3, <1>4, <1>5, <1>6, <1>7, <1>8

\* Neither the tracker nor a tentative track outlasts the cache.
LEMMA WindowsTyped ==
    ASSUME LCTypeOK, WindowsAgree
    PROVE  /\ Interval \in Nat /\ Interval >= 1
           /\ settings.window \in Nat /\ settings.window <= settings.coast
           /\ settings.coast \in Nat /\ Interval <= settings.coast
  <1> DEFINE x == settings.buffer * settings.fps
  <1>1. /\ Interval \in Nat /\ Interval >= 1 /\ settings.window \in Nat /\ settings.coast \in Nat
        /\ settings.buffer \in Nat /\ settings.fps \in Nat
    BY LineAssumption DEF LCTypeOK, Interval
  <1>2. RateUnit \in Nat /\ RateUnit >= 1
    BY LineAssumption
  <1>3. x \in Nat
    BY <1>1
  <1>4. /\ 60 * RateUnit * Interval <= x
        /\ 30 * RateUnit * settings.window <= x
        /\ 2 * x <= 60 * RateUnit * settings.coast + 30 * RateUnit
    BY DEF WindowsAgree
  <1> HIDE DEF x
  <1>5. /\ 60 * RateUnit * Interval \in Nat /\ 30 * RateUnit * settings.window \in Nat
        /\ 60 * RateUnit * settings.coast \in Nat /\ 30 * RateUnit \in Nat
        /\ 60 * RateUnit * settings.window = 2 * (30 * RateUnit * settings.window)
    BY <1>1, <1>2
  <1>6. 60 * RateUnit * settings.window <= 60 * RateUnit * settings.coast + 30 * RateUnit
    BY <1>3, <1>4, <1>5
  <1>7. 60 * RateUnit * Interval <= 60 * RateUnit * settings.coast + 30 * RateUnit
    BY <1>3, <1>4, <1>5
  <1> QED BY <1>1, <1>2, <1>6, <1>7, HalfIsNoMore

\* Between two neighbours there is one multiple.
LEMMA TheMultiple ==
    ASSUME NEW i \in Nat, i >= 1, NEW q \in Int, NEW c \in Int,
           (c - 1) * i < q * i, q * i <= c * i
    PROVE  q = c
  <1>1. \A x \in Int : x >= 1 => x * i >= i
    <2> SUFFICES ASSUME NEW x \in Int, x >= 1 PROVE x * i >= i
      OBVIOUS
    <2>1. (x - 1) * i >= 0
      OBVIOUS
    <2> QED BY <2>1
  <1>2. CASE q > c
    <2>1. (q - c) * i >= i
      BY <1>1, <1>2
    <2> QED BY <2>1
  <1>3. CASE q < c
    <2>1. (c - q - 1) * i >= 0
      BY <1>3
    <2>2. (c - 1) * i = q * i + (c - q - 1) * i
      OBVIOUS
    <2> QED BY <2>1, <2>2
  <1> QED BY <1>2, <1>3

LEMMA DivMod ==
    ASSUME NEW i \in Nat, i >= 1, NEW n \in Nat
    PROVE  \E q \in Int, r \in Nat : n = q * i + r /\ r < i /\ n % i = r
  <1>1. n = i * (n \div i) + (n % i)
    BY Z3
  <1>2. n % i \in Nat /\ n % i < i
    BY Z3
  <1>3. n \div i \in Int
    BY Z3
  <1>4. i * (n \div i) = (n \div i) * i
    BY <1>3
  <1> QED BY <1>1, <1>2, <1>3, <1>4

LEMMA SampledIsMultiple ==
    ASSUME NEW i \in Nat, i >= 1, NEW n \in Nat, NEW c \in Nat,
           (c - 1) * i < n, n <= c * i
    PROVE  /\ n % i = 0 <=> n = c * i
           /\ n % i = 0 => c * i < n + 1 /\ n + 1 <= (c + 1) * i
  <1>1. PICK q \in Int, r \in Nat : n = q * i + r /\ r < i /\ n % i = r
    BY DivMod
  <1>2. ASSUME r = 0 PROVE n = c * i
    <2>1. n = q * i
      BY <1>1, <1>2
    <2> QED BY <2>1, TheMultiple
  <1>3. ASSUME n = c * i PROVE r = 0
    <2>1. (c - 1) * i = c * i - i
      OBVIOUS
    <2>2. ASSUME NEW a \in Int, NEW b \in Int, NEW d \in Int, a = b + r, d = a - i
          PROVE  d < b /\ b <= a
      BY <1>1, <2>2
    <2>3. (c - 1) * i < q * i /\ q * i <= c * i
      BY <1>1, <1>3, <2>1, <2>2
    <2>4. q = c
      BY <2>3, TheMultiple
    <2> QED BY <1>1, <1>3, <2>4
  <1>4. (c + 1) * i = c * i + i
    OBVIOUS
  <1> QED BY <1>1, <1>2, <1>3, <1>4

LEMMA CountingInit == LCInit => LCInv
  <1> SUFFICES ASSUME LCInit PROVE LCInv
    OBVIOUS
  <1> USE DEF LCInit
  <1>1. DOMAIN found = {} /\ DOMAIN cache = {} /\ DOMAIN net = {}
    BY DEF Nobody
  <1>2. LCTypeOK
    <2>1. /\ found \in [DOMAIN found -> [who : Walker, hits : {1, 2}, last : Nat]]
          /\ cache \in [DOMAIN cache -> [side : Sides, last : Nat]]
          /\ net \in [DOMAIN net -> [first : Sides, in : Int]]
      BY <1>1 DEF Nobody
    <2> QED BY <1>1, <2>1, FS_EmptySet, SettingsTyped DEF LCTypeOK
  <1>7. LCTypeOK /\ WindowsAgree
    BY <1>2, SettingsTyped DEF LCTypeOK, WindowsAgree, Interval
  <1>3. Interval \in Nat /\ Interval >= 1
    BY <1>7, WindowsTyped
  <1>4. BatchIsWhatIsLeft
    <2>1. SampledSoFar = {}
      BY DEF SampledSoFar
    <2>2. Cardinality(SampledSoFar) = 0
      BY <2>1, FS_EmptySet
    <2>3. (0 - 1) * Interval < 0 /\ 0 <= 0 * Interval
      BY <1>3
    <2> QED BY <2>2, <2>3, LineAssumption DEF BatchIsWhatIsLeft
  <1>5. CacheOutlivesTheTracker
    BY <1>1 DEF CacheOutlivesTheTracker, Nobody
  <1>6. TrackedCrossingsAreCounted
    BY <1>1 DEF TrackedCrossingsAreCounted
  <1> QED BY <1>7, <1>4, <1>5, <1>6 DEF LCInv

TracksTyped ==
    /\ DOMAIN found \subseteq Nat /\ IsFiniteSet(DOMAIN found)
    /\ found \in [DOMAIN found -> [who : Walker, hits : {1, 2}, last : Nat]]
    /\ cache \in [DOMAIN cache -> [side : Sides, last : Nat]]
    /\ net \in [DOMAIN net -> [first : Sides, in : Int]]

\* Where nothing is processed, tracks and counts stay as they are.
LEMMA TracksStay ==
    ASSUME LCInv, UNCHANGED <<settings, found, cache, zone, net>>,
           result'.records = result.records
    PROVE  /\ TracksTyped' /\ CacheOutlivesTheTracker' /\ TrackedCrossingsAreCounted'
           /\ settings' = settings /\ WindowsAgree' /\ Interval' = Interval
  BY DEF LCInv, LCTypeOK, WindowsAgree, TracksTyped, CacheOutlivesTheTracker,
         TrackedCrossingsAreCounted, LastFrame, Interval

LEMMA ReadStep ==
    ASSUME LCInv, ReadFrame
    PROVE  LCInv'
  <1> DEFINE batch == IF IsSampled(reader.next) THEN Append(reader.batch, reader.next) ELSE reader.batch
             count == result.processed + Len(reader.batch)
  <1>1. LCTypeOK /\ WindowsAgree /\ BatchIsWhatIsLeft
    BY DEF LCInv
  <1>2. Interval \in Nat /\ Interval >= 1
    BY <1>1, WindowsTyped
  <1>3. /\ reader.pc = "read" /\ reader.next < Delivered
        /\ reader' = [reader EXCEPT !.next = @ + 1, !.batch = batch,
                                    !.pc = IF Len(batch) = BatchSize THEN "process" ELSE @]
        /\ result' = [result EXCEPT !.read = reader.next + 1]
    BY DEF ReadFrame
  <1>4. reader.next = result.read /\ reader.done = 0 /\ Len(reader.batch) < BatchSize
    BY <1>1, <1>3 DEF BatchIsWhatIsLeft
  <1>5. /\ TracksTyped' /\ CacheOutlivesTheTracker' /\ TrackedCrossingsAreCounted'
        /\ settings' = settings /\ WindowsAgree' /\ Interval' = Interval
    BY <1>1, <1>3, TracksStay DEF ReadFrame, LCTypeOK
  <1>6. /\ reader.next \in Nat /\ reader.batch \in Seq(Nat) /\ count \in Nat
        /\ Len(reader.batch) \in Nat /\ result.processed \in Nat
    BY <1>1 DEF LCTypeOK
  <1>7. /\ batch \in Seq(Nat)
        /\ IsSampled(reader.next) => Len(batch) = Len(reader.batch) + 1
        /\ ~IsSampled(reader.next) => batch = reader.batch
    BY <1>6
  <1>8. /\ reader'.next = reader.next + 1 /\ reader'.batch = batch /\ reader'.done = 0
        /\ reader'.pc = (IF Len(batch) = BatchSize THEN "process" ELSE "read")
        /\ result'.read = result.read + 1 /\ result'.processed = result.processed
        /\ result'.records = result.records
        /\ DOMAIN reader' = DOMAIN reader /\ DOMAIN result' = DOMAIN result
    BY <1>1, <1>3, <1>4 DEF LCTypeOK
  <1> HIDE DEF batch
  <1>9. LCTypeOK'
    <2>1. /\ reader'.next \in Nat /\ reader'.batch \in Seq(Nat) /\ reader'.done \in 0..Len(reader'.batch)
          /\ reader'.pc \in {"read", "process", "ended", "interrupted"}
      BY <1>6, <1>7, <1>8
    <2>2. /\ result'.records \in Seq([frame : Nat, in : Nat, out : Nat])
          /\ result'.processed \in Nat /\ result'.read \in Nat
      BY <1>1, <1>4, <1>6, <1>8 DEF LCTypeOK
    <2> QED BY <1>1, <1>5, <1>8, <2>1, <2>2 DEF LCTypeOK, TracksTyped
  <1>10. /\ Cardinality(SampledSoFar) = count
         /\ (count - 1) * Interval < result.read /\ result.read <= count * Interval
    BY <1>1 DEF BatchIsWhatIsLeft
  <1>11. IsFiniteSet(SampledSoFar) /\ result.read \notin SampledSoFar
    <2>1. IsFiniteSet(0..(result.read - 1))
      <3>1. result.read - 1 \in Int
        BY <1>4, <1>6
      <3> QED BY <3>1, FS_Interval
    <2> QED BY <1>4, <1>6, <2>1, FS_Subset DEF SampledSoFar
  <1>12. CASE IsSampled(reader.next)
    <2>1. SampledSoFar' = SampledSoFar \cup {result.read}
      <3>1. \A i : IsSampled(i)' <=> IsSampled(i)
        BY <1>5 DEF IsSampled
      <3> QED BY <1>4, <1>6, <1>8, <1>12, <3>1 DEF SampledSoFar
    <2>2. Cardinality(SampledSoFar') = count + 1
      BY <1>10, <1>11, <2>1, FS_AddElement
    <2>3. /\ reader.next = count * Interval
          /\ count * Interval < result.read + 1 /\ result.read + 1 <= (count + 1) * Interval
      BY <1>2, <1>4, <1>6, <1>10, <1>12, SampledIsMultiple DEF IsSampled
    <2>4. \A j \in 1..Len(batch) : batch[j] = (result.processed + j - 1) * Interval
      <3> SUFFICES ASSUME NEW j \in 1..Len(batch) PROVE batch[j] = (result.processed + j - 1) * Interval
        OBVIOUS
      <3>1. CASE j \in 1..Len(reader.batch)
        BY <1>1, <1>6, <1>12, <3>1 DEF BatchIsWhatIsLeft, batch
      <3>2. CASE j = Len(reader.batch) + 1
        <4>1. batch[j] = reader.next
          BY <1>6, <1>12, <3>2 DEF batch
        <4> QED BY <1>6, <2>3, <3>2, <4>1
      <3>3. Len(batch) = Len(reader.batch) + 1
        BY <1>7, <1>12
      <3>4. Len(reader.batch) \in Nat
        BY <1>6
      <3>5. j \in 1..Len(reader.batch) \/ j = Len(reader.batch) + 1
        BY <3>3, <3>4
      <3> QED BY <3>1, <3>2, <3>5
    <2>5. result'.processed + Len(reader'.batch) = count + 1
      <3>1. Len(batch) = Len(reader.batch) + 1
        BY <1>7, <1>12
      <3> QED BY <1>6, <1>8, <3>1
    <2>6. (result'.processed + Len(reader'.batch)) - 1 = count
      BY <1>6, <2>5
    <2>7. Len(batch) <= BatchSize /\ Len(batch) \in Nat
      BY <1>4, <1>6, <1>7, <1>12, LineAssumption
    <2> HIDE DEF count
    <2>8. BatchIsWhatIsLeft'
      <3>1. Cardinality(SampledSoFar)' = (result.processed + Len(reader.batch))'
        BY <2>2, <2>5
      <3>2. /\ ((result.processed + Len(reader.batch)) - 1)' * Interval' < result'.read
            /\ result'.read <= (result.processed + Len(reader.batch))' * Interval'
        BY <1>5, <1>8, <1>4, <2>3, <2>5, <2>6
      <3>3. \A j \in 1..Len(reader'.batch) : reader'.batch[j] = (result'.processed + j - 1) * Interval'
        BY <1>5, <1>8, <2>4
      <3>4. /\ Len(result'.records) = result'.processed + reader'.done
            /\ \A i \in 1..Len(result'.records) : result'.records[i].frame = (i - 1) * Interval'
        BY <1>1, <1>4, <1>5, <1>8 DEF BatchIsWhatIsLeft
      <3>5. /\ Len(reader'.batch) <= BatchSize
            /\ reader'.pc = "read" => Len(reader'.batch) < BatchSize
        BY <1>8, <2>7, LineAssumption
      <3>6. /\ reader'.next = result'.read /\ reader'.next <= Delivered /\ reader'.done = 0
            /\ reader'.pc # "ended" /\ result'.read <= Delivered
        BY <1>3, <1>4, <1>6, <1>8, LineAssumption
      <3> QED BY <3>1, <3>2, <3>3, <3>4, <3>5, <3>6 DEF BatchIsWhatIsLeft
    <2> QED BY <1>5, <1>9, <2>8 DEF LCInv, TracksTyped
  <1>13. CASE ~IsSampled(reader.next)
    <2>1. SampledSoFar' = SampledSoFar
      <3>1. \A i : IsSampled(i)' <=> IsSampled(i)
        BY <1>5 DEF IsSampled
      <3> QED BY <1>4, <1>6, <1>8, <1>13, <3>1 DEF SampledSoFar
    <2>2. result.read # count * Interval
      BY <1>2, <1>4, <1>6, <1>10, <1>13, SampledIsMultiple DEF IsSampled
    <2>3. (count - 1) * Interval < result.read + 1 /\ result.read + 1 <= count * Interval
      <3>1. (count - 1) * Interval \in Int /\ count * Interval \in Int
        BY <1>2, <1>6
      <3> QED BY <1>4, <1>6, <1>10, <2>2, <3>1
    <2>4. batch = reader.batch
      BY <1>13 DEF batch
    <2>5. (result'.processed + Len(reader'.batch)) = count
      BY <1>8, <2>4
    <2> HIDE DEF count
    <2>7. BatchIsWhatIsLeft'
      BY <1>1, <1>3, <1>4, <1>5, <1>6, <1>8, <1>10, <2>1, <2>3, <2>4, <2>5, LineAssumption DEF BatchIsWhatIsLeft
    <2> QED BY <1>5, <1>9, <2>7 DEF LCInv
  <1> QED BY <1>12, <1>13


LEMMA EndStep ==
    ASSUME LCInv, EndOfVideo
    PROVE  LCInv'
  <1>1. LCTypeOK /\ WindowsAgree /\ BatchIsWhatIsLeft
    BY DEF LCInv
  <1>2. /\ reader.pc = "read"
        /\ reader' = [reader EXCEPT !.pc = LeftOver(reader.batch), !.next = Delivered + 1]
        /\ result' = [result EXCEPT !.early = reader.next + 1 < Announced]
    BY DEF EndOfVideo
  <1>3. /\ reader'.next = Delivered + 1 /\ reader'.batch = reader.batch /\ reader'.done = reader.done
        /\ reader'.pc = LeftOver(reader.batch)
        /\ result'.read = result.read /\ result'.processed = result.processed
        /\ result'.records = result.records
        /\ DOMAIN reader' = DOMAIN reader /\ DOMAIN result' = DOMAIN result
    BY <1>1, <1>2 DEF LCTypeOK
  <1>4. /\ TracksTyped' /\ CacheOutlivesTheTracker' /\ TrackedCrossingsAreCounted'
        /\ settings' = settings /\ WindowsAgree' /\ Interval' = Interval
    BY <1>3, TracksStay DEF EndOfVideo
  <1>5. LCTypeOK'
    <2>1. /\ reader'.next \in Nat /\ reader'.batch \in Seq(Nat) /\ reader'.done \in 0..Len(reader'.batch)
          /\ reader'.pc \in {"read", "process", "ended", "interrupted"}
      BY <1>1, <1>3, LineAssumption DEF LCTypeOK, LeftOver
    <2>2. /\ result'.records \in Seq([frame : Nat, in : Nat, out : Nat])
          /\ result'.processed \in Nat /\ result'.read \in Nat
      BY <1>1, <1>3 DEF LCTypeOK
    <2> QED BY <1>1, <1>3, <1>4, <2>1, <2>2 DEF LCTypeOK, TracksTyped
  <1>6. SampledSoFar' = SampledSoFar
    BY <1>3, <1>4 DEF SampledSoFar, IsSampled
  <1>7. BatchIsWhatIsLeft'
    BY <1>1, <1>2, <1>3, <1>4, <1>6 DEF BatchIsWhatIsLeft, LeftOver
  <1> QED BY <1>4, <1>5, <1>7 DEF LCInv

LEMMA EndBatchStep ==
    ASSUME LCInv, EndBatch
    PROVE  LCInv'
  <1>1. LCTypeOK /\ WindowsAgree /\ BatchIsWhatIsLeft
    BY DEF LCInv
  <1>2. /\ reader.pc = "process" /\ reader.done = Len(reader.batch)
        /\ result' = [result EXCEPT !.processed = @ + Len(reader.batch)]
        /\ reader' = [reader EXCEPT !.pc = IF reader.next > Delivered THEN "ended" ELSE "read",
                                    !.batch = <<>>, !.done = 0]
    BY DEF EndBatch
  <1>3. /\ reader'.next = reader.next /\ reader'.batch = <<>> /\ reader'.done = 0
        /\ reader'.pc = (IF reader.next > Delivered THEN "ended" ELSE "read")
        /\ result'.read = result.read /\ result'.processed = result.processed + Len(reader.batch)
        /\ result'.records = result.records
        /\ DOMAIN reader' = DOMAIN reader /\ DOMAIN result' = DOMAIN result
    BY <1>1, <1>2 DEF LCTypeOK
  <1>4. /\ TracksTyped' /\ CacheOutlivesTheTracker' /\ TrackedCrossingsAreCounted'
        /\ settings' = settings /\ WindowsAgree' /\ Interval' = Interval
    BY <1>3, TracksStay DEF EndBatch
  <1>5. /\ reader.next \in Nat /\ reader.batch \in Seq(Nat)
        /\ Len(reader.batch) \in Nat /\ result.processed \in Nat /\ result.read \in Nat
    BY <1>1 DEF LCTypeOK
  <1>6. LCTypeOK'
    <2>1. /\ reader'.next \in Nat /\ reader'.batch \in Seq(Nat) /\ reader'.done \in 0..Len(reader'.batch)
          /\ reader'.pc \in {"read", "process", "ended", "interrupted"}
      BY <1>3, <1>5
    <2>2. /\ result'.records \in Seq([frame : Nat, in : Nat, out : Nat])
          /\ result'.processed \in Nat /\ result'.read \in Nat
      BY <1>1, <1>3, <1>5 DEF LCTypeOK
    <2> QED BY <1>1, <1>3, <1>4, <2>1, <2>2 DEF LCTypeOK, TracksTyped
  <1>7. SampledSoFar' = SampledSoFar
    BY <1>3, <1>4 DEF SampledSoFar, IsSampled
  <1>8. /\ result'.processed + Len(reader'.batch) = result.processed + Len(reader.batch)
        /\ Len(reader'.batch) = 0
    BY <1>3, <1>5
  <1>9. BatchIsWhatIsLeft'
    <2>1. Cardinality(SampledSoFar)' = (result.processed + Len(reader.batch))'
      BY <1>1, <1>7, <1>8 DEF BatchIsWhatIsLeft
    <2>2. /\ ((result.processed + Len(reader.batch)) - 1)' * Interval' < result'.read
          /\ result'.read <= (result.processed + Len(reader.batch))' * Interval'
      BY <1>1, <1>3, <1>4, <1>8 DEF BatchIsWhatIsLeft
    <2>3. \A j \in 1..Len(reader'.batch) : reader'.batch[j] = (result'.processed + j - 1) * Interval'
      BY <1>8
    <2>4. /\ Len(result'.records) = result'.processed + reader'.done
          /\ \A i \in 1..Len(result'.records) : result'.records[i].frame = (i - 1) * Interval'
      BY <1>1, <1>2, <1>3, <1>4, <1>5 DEF BatchIsWhatIsLeft
    <2>5. Len(reader'.batch) <= BatchSize /\ Len(reader'.batch) < BatchSize
      BY <1>8, LineAssumption
    <2>6. reader'.pc = "read" => reader'.next = result'.read /\ reader'.next <= Delivered /\ reader'.done = 0
      BY <1>1, <1>2, <1>3, <1>5, LineAssumption DEF BatchIsWhatIsLeft
    <2>7. result'.read <= Delivered /\ reader'.pc # "process"
      BY <1>1, <1>3 DEF BatchIsWhatIsLeft
    <2> QED BY <1>3, <2>1, <2>2, <2>3, <2>4, <2>5, <2>6, <2>7 DEF BatchIsWhatIsLeft
  <1> QED BY <1>4, <1>6, <1>9 DEF LCInv

LEMMA InterruptStep ==
    ASSUME LCInv, Interrupt
    PROVE  LCInv'
  <1>1. LCTypeOK /\ WindowsAgree /\ BatchIsWhatIsLeft
    BY DEF LCInv
  <1>2. /\ reader'.next = reader.next /\ reader'.batch = reader.batch /\ reader'.done = reader.done
        /\ reader'.pc = "interrupted" /\ DOMAIN reader' = DOMAIN reader /\ result' = result
    BY <1>1 DEF LCTypeOK, Interrupt
  <1>4. /\ TracksTyped' /\ CacheOutlivesTheTracker' /\ TrackedCrossingsAreCounted'
        /\ settings' = settings /\ WindowsAgree' /\ Interval' = Interval
    BY <1>2, TracksStay DEF Interrupt
  <1>5. LCTypeOK'
    BY <1>1, <1>2, <1>4 DEF LCTypeOK, TracksTyped
  <1>6. SampledSoFar' = SampledSoFar
    BY <1>2, <1>4 DEF SampledSoFar, IsSampled
  <1>7. BatchIsWhatIsLeft'
    BY <1>1, <1>2, <1>4, <1>6 DEF BatchIsWhatIsLeft
  <1> QED BY <1>4, <1>5, <1>7 DEF LCInv


\* A finite set of numbers has a largest element: a smallest set without one
\* would leave, without any of its elements, one that is smaller still.
LEMMA FiniteHasLargest ==
    ASSUME NEW S \in SUBSET Int, S # {}, IsFiniteSet(S)
    PROVE  \E x \in S : \A y \in S : y <= x
  <1> DEFINE Bad == {T \in SUBSET S : T # {} /\ ~\E x \in T : \A y \in T : y <= x}
             N == {Cardinality(T) : T \in Bad}
             R == {p \in Nat \X Nat : p[1] < p[2]}
  <1> SUFFICES ASSUME Bad # {} PROVE FALSE
    OBVIOUS
  <1>1. \A T \in SUBSET S : IsFiniteSet(T) /\ Cardinality(T) \in Nat
    BY FS_Subset, FS_CardinalityType
  <1>2. N \in SUBSET Nat /\ N # {}
    BY <1>1
  <1>3. PICK n \in N : \A m \in N : <<m, n>> \notin R
    <2>1. IsWellFoundedOn(R, Nat)
      BY NatLessThanWellFounded DEF OpToRel
    <2> HIDE DEF N, R
    <2> QED BY <1>2, <2>1, WFMin
  <1>4. PICK T \in Bad : n = Cardinality(T)
    BY <1>3
  <1>5. PICK x \in T : TRUE
    OBVIOUS
  <1>6. T \in SUBSET S /\ x \in Int
    OBVIOUS
  <1>7. T \ {x} \notin Bad
    <2>1. Cardinality(T \ {x}) = Cardinality(T) - 1
      BY <1>1, <1>6, FS_RemoveElement
    <2>2. Cardinality(T) \in Nat /\ Cardinality(T \ {x}) \in Nat
      BY <1>1, <1>6
    <2>3. <<Cardinality(T \ {x}), n>> \in R
      BY <1>4, <2>1, <2>2
    <2> HIDE DEF R, Bad
    <2> QED BY <1>3, <2>3
  <1>8. CASE T \ {x} = {}
    BY <1>6, <1>8
  <1>9. CASE T \ {x} # {}
    <2>1. PICK z \in T \ {x} : \A y \in T \ {x} : y <= z
      BY <1>6, <1>7, <1>9
    <2>2. z \in Int /\ \A y \in T : y \in Int
      BY <1>6
    <2>3. CASE z <= x
      BY <1>6, <2>1, <2>2, <2>3
    <2>4. CASE x <= z
      BY <1>6, <2>1, <2>2, <2>4
    <2> QED BY <1>6, <2>2, <2>3, <2>4
  <1> QED BY <1>8, <1>9

LEMMA MaxOfFinite ==
    ASSUME NEW S \in SUBSET Int, S # {}, IsFiniteSet(S)
    PROVE  Max(S) \in S /\ \A y \in S : y <= Max(S)
  <1>1. PICK x \in S : \A y \in S : y <= x
    BY FiniteHasLargest
  <1>2. \A y \in S : x >= y
    BY <1>1
  <1>3. Max(S) \in S /\ \A y \in S : Max(S) >= y
    BY <1>2 DEF Max
  <1> QED BY <1>3

\* The last processed frame and the one that is next.
LEMMA NextFrame ==
    ASSUME LCInv, reader.pc = "process", reader.done < Len(reader.batch)
    PROVE  LET index == reader.batch[reader.done + 1]
           IN  /\ index = Len(result.records) * Interval
               /\ index \in Nat /\ LastFrame \in Int /\ LastFrame < index
  <1>1. LCTypeOK /\ WindowsAgree /\ BatchIsWhatIsLeft
    BY DEF LCInv
  <1>2. Interval \in Nat /\ Interval >= 1
    BY <1>1, WindowsTyped
  <1>3. /\ reader.done \in Nat /\ result.processed \in Nat /\ Len(result.records) \in Nat
        /\ Len(reader.batch) \in Nat /\ reader.batch \in Seq(Nat)
    BY <1>1 DEF LCTypeOK
  <1>4. Len(result.records) = result.processed + reader.done
    BY <1>1 DEF BatchIsWhatIsLeft
  <1>5. reader.done + 1 \in 1..Len(reader.batch)
    BY <1>3
  <1>6. reader.batch[reader.done + 1] = (result.processed + (reader.done + 1) - 1) * Interval
    BY <1>1, <1>5 DEF BatchIsWhatIsLeft
  <1>7. result.processed + (reader.done + 1) - 1 = Len(result.records)
    BY <1>3, <1>4
  <1>8. reader.batch[reader.done + 1] \in Nat
    BY <1>3, <1>5
  <1>9. LastFrame = Len(result.records) * Interval - Interval
    BY <1>2, <1>3 DEF LastFrame
  <1> QED BY <1>2, <1>3, <1>6, <1>7, <1>8, <1>9

\* A detection belongs to a track that the tracker still had in its window, or
\* to a new one; all others stay as they are.
LEMMA TrackerFacts ==
    ASSUME LCInv, NEW seen \in Seen, NEW index \in Nat, LastFrame < index
    PROVE  LET rows == TrackerUpdate(seen, index)
           IN  /\ DOMAIN found \subseteq DOMAIN rows /\ DOMAIN rows \subseteq Nat
               /\ IsFiniteSet(DOMAIN rows)
               /\ rows \in [DOMAIN rows -> [who : Walker, hits : {1, 2}, last : Nat]]
               /\ \A id \in DOMAIN rows :
                     \/ /\ rows[id].last = index /\ rows[id].who \in DOMAIN seen
                        /\ rows[id].hits = 2 <=> id \in DOMAIN found
                        /\ id \in DOMAIN found => index - found[id].last <= settings.coast
                     \/ id \in DOMAIN found /\ rows[id] = found[id] /\ found[id].last < index
  <1> DEFINE ids == [w \in DOMAIN seen |-> IdOf(w, index)]
             rows == TrackerUpdate(seen, index)
  <1>1. /\ LCTypeOK /\ CacheOutlivesTheTracker /\ DOMAIN seen \subseteq Walker
        /\ Interval \in Nat /\ settings.window \in Nat /\ settings.coast \in Nat
        /\ Interval <= settings.coast /\ settings.window <= settings.coast
    BY WindowsTyped DEF LCInv, Seen
  <1>2. /\ DOMAIN found \subseteq Nat /\ IsFiniteSet(DOMAIN found)
        /\ found \in [DOMAIN found -> [who : Walker, hits : {1, 2}, last : Nat]]
        /\ LastFrame \in Int
    <2>1. LastFrame \in Int
      BY <1>1 DEF LastFrame, LCTypeOK
    <2> QED BY <1>1, <2>1 DEF LCTypeOK
  <1>3. ASSUME NEW w \in DOMAIN seen
        PROVE  /\ IdOf(w, index) \in Nat
               /\ IdOf(w, index) \in DOMAIN found => index - found[IdOf(w, index)].last <= settings.coast
    <2>1. CASE TrackOf(w, index) = {}
      <3>1. {0} \cup DOMAIN found \subseteq Nat /\ IsFiniteSet({0} \cup DOMAIN found)
        <4>1. IsFiniteSet(DOMAIN found \cup {0})
          BY <1>2, FS_AddElement
        <4>2. DOMAIN found \cup {0} = {0} \cup DOMAIN found
          OBVIOUS
        <4>3. IsFiniteSet({0} \cup DOMAIN found)
          BY <4>1, <4>2
        <4> QED BY <1>2, <4>3
      <3>2. /\ Max({0} \cup DOMAIN found) \in Nat
            /\ \A id \in DOMAIN found : id <= Max({0} \cup DOMAIN found)
        BY <3>1, MaxOfFinite
      <3>3. Cardinality({v \in Walker : v < w}) \in Nat
        <4>1. IsFiniteSet({v \in Walker : v < w})
          BY FS_Subset, LineAssumption
        <4> QED BY <4>1, FS_CardinalityType
      <3>4. Fresh(w) \in Nat /\ Fresh(w) \notin DOMAIN found
        BY <1>2, <3>2, <3>3 DEF Fresh
      <3> QED BY <2>1, <3>4 DEF IdOf
    <2>2. CASE TrackOf(w, index) # {}
      <3>1. TrackOf(w, index) \subseteq DOMAIN found
        BY DEF TrackOf
      <3>2. IsFiniteSet(TrackOf(w, index))
        BY <1>2, <3>1, FS_Subset
      <3>3. IdOf(w, index) \in TrackOf(w, index)
        BY <1>2, <2>2, <3>1, <3>2, MaxOfFinite DEF IdOf
      <3>4. index - found[IdOf(w, index)].last <= settings.coast
        <4>1. \A id \in DOMAIN found : found[id].last \in Nat
          BY <1>2
        <4> QED BY <1>1, <3>1, <3>3, <4>1 DEF TrackOf
      <3> QED BY <1>2, <3>1, <3>3, <3>4
    <2> QED BY <2>1, <2>2
  <1>4. Range(ids) \subseteq Nat /\ IsFiniteSet(Range(ids))
    <2>1. Range(ids) = {ids[w] : w \in DOMAIN seen}
      BY DEF Range
    <2>2. IsFiniteSet(DOMAIN seen)
      BY <1>1, LineAssumption, FS_Subset
    <2>3. IsFiniteSet({ids[w] : w \in DOMAIN seen})
      <3> DEFINE image == {ids[w] : w \in DOMAIN seen}
      <3>1. ids \in Surjection(DOMAIN seen, image)
        BY DEF Surjection
      <3> QED BY <2>2, <3>1, FS_Surjection
    <2> QED BY <1>3, <2>1, <2>3
  <1>5. rows = [id \in DOMAIN found \cup Range(ids) |->
           IF id \in Range(ids)
           THEN [who |-> CHOOSE w \in DOMAIN seen : ids[w] = id,
                 hits |-> IF id \in DOMAIN found THEN 2 ELSE 1, last |-> index]
           ELSE found[id]]
    BY DEF TrackerUpdate
  <1>6. DOMAIN rows = DOMAIN found \cup Range(ids)
    BY <1>5
  <1> HIDE DEF rows
  <1>7. ASSUME NEW id \in Range(ids)
        PROVE  /\ rows[id].last = index /\ rows[id].who \in DOMAIN seen
               /\ rows[id].hits = IF id \in DOMAIN found THEN 2 ELSE 1
               /\ id \in DOMAIN found => index - found[id].last <= settings.coast
               /\ rows[id] \in [who : Walker, hits : {1, 2}, last : Nat]
    <2>1. PICK w \in DOMAIN seen : ids[w] = id
      BY DEF Range
    <2>2. (CHOOSE v \in DOMAIN seen : ids[v] = id) \in DOMAIN seen
      BY <2>1
    <2>3. rows[id] = [who |-> CHOOSE v \in DOMAIN seen : ids[v] = id,
                        hits |-> IF id \in DOMAIN found THEN 2 ELSE 1, last |-> index]
      BY <1>5
    <2> QED BY <1>1, <1>3, <2>1, <2>2, <2>3
  <1>8. ASSUME NEW id \in DOMAIN found, id \notin Range(ids)
        PROVE  rows[id] = found[id] /\ found[id].last < index
    <2>1. found[id].last <= LastFrame /\ found[id].last \in Nat
      BY <1>1, <1>2 DEF CacheOutlivesTheTracker
    <2> QED BY <1>2, <1>5, <1>8, <2>1
  <1>9. rows \in [DOMAIN rows -> [who : Walker, hits : {1, 2}, last : Nat]]
    <2>1. \A id \in DOMAIN rows : rows[id] \in [who : Walker, hits : {1, 2}, last : Nat]
      BY <1>2, <1>6, <1>7, <1>8
    <2>2. rows = [id \in DOMAIN rows |-> rows[id]]
      BY <1>5, <1>6
    <2> QED BY <2>1, <2>2
  <1>10. IsFiniteSet(DOMAIN rows)
    <2>1. IsFiniteSet(DOMAIN found \cup Range(ids))
      BY <1>2, <1>4, FS_Union
    <2> QED BY <1>6, <2>1
  <1>11. \A id \in DOMAIN rows :
            \/ /\ rows[id].last = index /\ rows[id].who \in DOMAIN seen
               /\ rows[id].hits = 2 <=> id \in DOMAIN found
               /\ id \in DOMAIN found => index - found[id].last <= settings.coast
            \/ id \in DOMAIN found /\ rows[id] = found[id] /\ found[id].last < index
    <2> HIDE DEF ids
    <2> QED BY <1>6, <1>7, <1>8
  <1> QED BY <1>2, <1>4, <1>6, <1>9, <1>10, <1>11 DEF rows


LEMMA ProcessStep ==
    ASSUME LCInv, NEW seen \in Seen, ProcessFrame(seen)
    PROVE  LCInv'
  <1> DEFINE index == reader.batch[reader.done + 1]
             rows == TrackerUpdate(seen, index)
             shown == Confirmed(rows, seen, index)
             all == [id \in DOMAIN cache \cup DOMAIN shown |->
                        IF id \in DOMAIN shown THEN [side |-> shown[id], last |-> index] ELSE cache[id]]
             coasting == CoastingTracks(shown, index)
             in == Cardinality(Crossing(coasting, "right"))
             out == Cardinality(Crossing(coasting, "left"))
             new == DOMAIN shown \ DOMAIN result.entry
  <1>1. LCTypeOK /\ WindowsAgree /\ BatchIsWhatIsLeft /\ CacheOutlivesTheTracker /\ TrackedCrossingsAreCounted
    BY DEF LCInv
  <1>2. /\ reader.pc = "process" /\ reader.done < Len(reader.batch)
        /\ found' = rows
        /\ cache' = coasting
        /\ zone' = [id \in DOMAIN coasting |-> coasting[id].side]
        /\ result' = [result EXCEPT
              !.records = Append(@, [frame |-> index, in |-> in, out |-> out]),
              !.in = @ + in, !.out = @ + out,
              !.entry = [id \in DOMAIN @ \cup new |->
                           IF id \in new THEN Max({0, index - Interval}) ELSE @[id]]]
        /\ reader' = [reader EXCEPT !.done = @ + 1]
        /\ net' = [id \in DOMAIN net \cup DOMAIN shown |->
                     IF id \notin DOMAIN net THEN [first |-> shown[id], in |-> 0]
                     ELSE [net[id] EXCEPT !.in = @ + (IF id \in Crossing(coasting, "right") THEN 1
                                                      ELSE IF id \in Crossing(coasting, "left") THEN -1
                                                      ELSE 0)]]
        /\ settings' = settings
    BY DEF ProcessFrame
  <1>3. /\ index = Len(result.records) * Interval
        /\ index \in Nat /\ LastFrame \in Int /\ LastFrame < index
    BY <1>2, NextFrame
  <1> HIDE DEF index
  <1>4. /\ DOMAIN found \subseteq DOMAIN rows /\ DOMAIN rows \subseteq Nat
        /\ IsFiniteSet(DOMAIN rows)
        /\ rows \in [DOMAIN rows -> [who : Walker, hits : {1, 2}, last : Nat]]
        /\ \A id \in DOMAIN rows :
              \/ /\ rows[id].last = index /\ rows[id].who \in DOMAIN seen
                 /\ rows[id].hits = 2 <=> id \in DOMAIN found
                 /\ id \in DOMAIN found => index - found[id].last <= settings.coast
              \/ id \in DOMAIN found /\ rows[id] = found[id] /\ found[id].last < index
    BY <1>3, TrackerFacts
  <1> HIDE DEF rows
  <1>5. /\ Interval \in Nat /\ Interval >= 1 /\ settings.coast \in Nat
        /\ Interval' = Interval /\ settings'.coast = settings.coast /\ WindowsAgree'
    BY <1>1, <1>2, WindowsTyped DEF Interval, WindowsAgree
  <1>6. /\ DOMAIN shown = {id \in DOMAIN rows : rows[id].last = index /\ rows[id].hits = 2}
        /\ \A id \in DOMAIN shown :
              shown[id] \in Sides /\ id \in DOMAIN found /\ index - found[id].last <= settings.coast
    <2>1. shown = [id \in {i \in DOMAIN rows : rows[i].last = index /\ rows[i].hits = 2} |->
                      seen[rows[id].who]]
      BY DEF Confirmed
    <2>2. \A w \in DOMAIN seen : seen[w] \in Sides
      BY DEF Seen, Sides
    <2> HIDE DEF shown
    <2>3. ASSUME NEW id \in DOMAIN shown
          PROVE  shown[id] \in Sides /\ id \in DOMAIN found /\ index - found[id].last <= settings.coast
      <3>1. id \in DOMAIN rows /\ rows[id].last = index /\ rows[id].hits = 2 /\ shown[id] = seen[rows[id].who]
        BY <2>1
      <3>2. /\ rows[id].who \in DOMAIN seen /\ id \in DOMAIN found
            /\ index - found[id].last <= settings.coast
        BY <1>4, <3>1
      <3> QED BY <2>2, <3>1, <3>2
    <2> QED BY <2>1, <2>3
  <1> HIDE DEF shown
  \* A confirmed track that is not shown is not found in this frame.
  <1>7. ASSUME NEW id \in DOMAIN found, id \notin DOMAIN shown
        PROVE  id \in DOMAIN rows /\ rows[id] = found[id]
    <2>1. id \in DOMAIN rows
      BY <1>4, <1>7
    <2>2. ~(rows[id].last = index /\ rows[id].hits = 2)
      BY <1>6, <1>7, <2>1
    <2>3. \/ rows[id].last = index /\ rows[id].hits = 2
          \/ rows[id] = found[id]
      BY <1>4, <1>7, <2>1
    <2> QED BY <2>1, <2>2, <2>3
  <1>8. coasting = [id \in {i \in DOMAIN all : index - all[i].last <= settings.coast} |-> all[id]]
    BY DEF CoastingTracks
  <1>9. /\ DOMAIN coasting \subseteq DOMAIN cache \cup DOMAIN shown
        /\ \A id \in DOMAIN coasting : coasting[id] = all[id]
        /\ \A id \in DOMAIN cache \cup DOMAIN shown :
              index - all[id].last <= settings.coast => id \in DOMAIN coasting
    BY <1>8
  <1> HIDE DEF coasting
  <1>10. /\ \A id \in DOMAIN shown : all[id] = [side |-> shown[id], last |-> index]
         /\ \A id \in DOMAIN cache \ DOMAIN shown : all[id] = cache[id]
    OBVIOUS
  <1> HIDE DEF all
  <1>11. /\ DOMAIN cache \subseteq DOMAIN net /\ DOMAIN net \subseteq DOMAIN found
         /\ zone = [id \in DOMAIN cache |-> cache[id].side]
         /\ \A id \in DOMAIN found : found[id].last <= LastFrame /\ found[id].last \in Nat
         /\ \A id \in DOMAIN cache : cache[id].last = found[id].last
                                     /\ cache[id].side \in Sides /\ cache[id].last \in Nat
         /\ \A id \in DOMAIN net :
               /\ found[id].hits = 2 /\ net[id] \in [first : Sides, in : Int]
               /\ LastFrame - found[id].last <= settings.coast => id \in DOMAIN cache
    BY <1>1 DEF LCTypeOK, CacheOutlivesTheTracker
  <1>12. \A id \in DOMAIN coasting : coasting[id] \in [side : Sides, last : Nat]
    <2> SUFFICES ASSUME NEW id \in DOMAIN coasting PROVE all[id] \in [side : Sides, last : Nat]
      BY <1>9
    <2>1. CASE id \in DOMAIN shown
      <3>1. shown[id] \in Sides
        BY <1>6, <2>1
      <3>2. all[id] = [side |-> shown[id], last |-> index]
        BY <1>10, <2>1
      <3> QED BY <1>3, <3>1, <3>2
    <2>2. CASE id \notin DOMAIN shown
      <3>1. id \in DOMAIN cache
        BY <1>9, <2>2
      <3>2. all[id] = cache[id]
        BY <1>10, <2>2, <3>1
      <3>3. cache[id] \in [side : Sides, last : Nat]
        BY <1>1, <3>1 DEF LCTypeOK
      <3> QED BY <3>2, <3>3
    <2> QED BY <2>1, <2>2
  \* Who is shown and was counted is still in the cache.
  <1>13. ASSUME NEW id \in DOMAIN shown, id \in DOMAIN net PROVE id \in DOMAIN cache
    BY <1>3, <1>5, <1>6, <1>11, <1>13
  <1>14. LastFrame' = index
    <2>1. result'.records = Append(result.records, [frame |-> index, in |-> in, out |-> out])
      BY <1>1, <1>2 DEF LCTypeOK
    <2>2. Len(result'.records) = Len(result.records) + 1 /\ Len(result.records) \in Nat
      BY <1>1, <2>1 DEF LCTypeOK
    <2>3. Len(result'.records) - 1 = Len(result.records)
      BY <2>2
    <2> QED BY <1>3, <1>5, <2>3 DEF LastFrame
  <1>15. /\ DOMAIN cache' = DOMAIN coasting
         /\ DOMAIN found' = DOMAIN rows
         /\ DOMAIN net' = DOMAIN net \cup DOMAIN shown
         /\ \A id \in DOMAIN shown \ DOMAIN net : net'[id] = [first |-> shown[id], in |-> 0]
         /\ \A id \in DOMAIN net :
               /\ net'[id].first = net[id].first
               /\ net'[id].in = net[id].in + (IF id \in Crossing(coasting, "right") THEN 1
                                              ELSE IF id \in Crossing(coasting, "left") THEN -1
                                              ELSE 0)
               /\ net'[id] \in [first : Sides, in : Int]
    <2>1. DOMAIN net' = DOMAIN net \cup DOMAIN shown
      BY <1>2
    <2>2. \A id \in DOMAIN shown \ DOMAIN net : net'[id] = [first |-> shown[id], in |-> 0]
      BY <1>2
    <2>3. ASSUME NEW id \in DOMAIN net
          PROVE  LET k == IF id \in Crossing(coasting, "right") THEN 1
                          ELSE IF id \in Crossing(coasting, "left") THEN -1 ELSE 0
                 IN  /\ net'[id].first = net[id].first /\ net'[id].in = net[id].in + k
                     /\ net'[id] \in [first : Sides, in : Int]
      <3> DEFINE k == IF id \in Crossing(coasting, "right") THEN 1
                      ELSE IF id \in Crossing(coasting, "left") THEN -1 ELSE 0
      <3>1. net'[id] = [net[id] EXCEPT !.in = @ + k]
        BY <1>2
      <3>2. k \in Int
        OBVIOUS
      <3> HIDE DEF k
      <3>3. net[id] \in [first : Sides, in : Int]
        BY <1>11
      <3>4. net'[id].first = net[id].first /\ net'[id].in = net[id].in + k
            /\ net'[id] \in [first : Sides, in : Int]
        BY <3>1, <3>2, <3>3
      <3> QED BY <3>4 DEF k
    <2> QED BY <1>2, <2>1, <2>2, <2>3
  <1>16. CacheOutlivesTheTracker'
    <2>1. DOMAIN cache' \subseteq DOMAIN net' /\ DOMAIN net' \subseteq DOMAIN found'
      BY <1>4, <1>6, <1>9, <1>11, <1>15
    <2>2. zone' = [id \in DOMAIN cache' |-> cache'[id].side]
      BY <1>2
    <2>3. ASSUME NEW id \in DOMAIN found' PROVE found'[id].last <= LastFrame'
      BY <1>2, <1>3, <1>4, <1>11, <1>14, <2>3
    <2>4. ASSUME NEW id \in DOMAIN cache' PROVE cache'[id].last = found'[id].last
      <3>1. CASE id \in DOMAIN shown
        <4>1. cache'[id] = all[id]
          BY <1>2, <1>9, <1>15, <2>4
        <4>2. all[id].last = index
          <5>1. all[id] = [side |-> shown[id], last |-> index]
            BY <1>10, <3>1
          <5> QED BY <5>1
        <4>3. found'[id].last = index
          BY <1>2, <1>6, <3>1
        <4> QED BY <4>1, <4>2, <4>3
      <3>2. CASE id \notin DOMAIN shown
        <4>1. id \in DOMAIN cache /\ cache'[id] = cache[id]
          BY <1>2, <1>9, <1>10, <1>15, <2>4, <3>2
        <4>2. found'[id] = found[id]
          BY <1>2, <1>7, <1>11, <3>2, <4>1
        <4> QED BY <1>11, <4>1, <4>2
      <3> QED BY <3>1, <3>2
    <2>5. ASSUME NEW id \in DOMAIN net'
          PROVE  /\ found'[id].hits = 2
                 /\ LastFrame' - found'[id].last <= settings'.coast => id \in DOMAIN cache'
      <3>1. CASE id \in DOMAIN shown
        <4>1. found'[id].hits = 2 /\ found'[id].last = index
          BY <1>2, <1>6, <3>1
        <4>2. all[id].last = index
          <5>1. all[id] = [side |-> shown[id], last |-> index]
            BY <1>10, <3>1
          <5> QED BY <5>1
        <4> QED BY <1>3, <1>5, <1>9, <1>15, <3>1, <4>1, <4>2
      <3>2. CASE id \notin DOMAIN shown
        <4>1. id \in DOMAIN net /\ id \in DOMAIN found /\ found'[id] = found[id]
          BY <1>2, <1>7, <1>11, <1>15, <2>5, <3>2
        <4>2. ASSUME index - found[id].last <= settings.coast PROVE id \in DOMAIN cache'
          <5>1. id \in DOMAIN cache
            BY <1>3, <1>5, <1>11, <4>1, <4>2
          <5>2. all[id].last = found[id].last
            BY <1>10, <1>11, <3>2, <5>1
          <5> QED BY <1>9, <1>15, <4>2, <5>1, <5>2
        <4> QED BY <1>5, <1>11, <1>14, <4>1, <4>2
      <3> QED BY <3>1, <3>2
    <2> QED BY <2>1, <2>2, <2>3, <2>4, <2>5 DEF CacheOutlivesTheTracker
  <1>17. TrackedCrossingsAreCounted'
    <2> SUFFICES ASSUME NEW id \in DOMAIN coasting
                 PROVE  net'[id].in = (IF coasting[id].side = net'[id].first THEN 0
                                       ELSE IF coasting[id].side = "right" THEN 1 ELSE -1)
      BY <1>2 DEF TrackedCrossingsAreCounted
    <2>1. ASSUME id \in DOMAIN net
          PROVE  /\ id \in DOMAIN cache /\ id \in DOMAIN zone /\ zone[id] = cache[id].side
                 /\ net[id].in = (IF cache[id].side = net[id].first THEN 0
                                  ELSE IF cache[id].side = "right" THEN 1 ELSE -1)
      BY <1>1, <1>9, <1>11, <1>13, <2>1 DEF TrackedCrossingsAreCounted
    <2>2. CASE id \notin DOMAIN net
      <3>1. id \in DOMAIN shown
        BY <1>9, <1>11, <2>2
      <3>2. coasting[id] = [side |-> shown[id], last |-> index]
        BY <1>9, <1>10, <3>1
      <3>3. net'[id] = [first |-> shown[id], in |-> 0]
        BY <1>15, <2>2, <3>1
      <3> QED BY <3>2, <3>3
    <2>3. CASE id \in DOMAIN net
      <3>1. /\ id \in Crossing(coasting, "right") <=> coasting[id].side = "right" /\ cache[id].side # "right"
            /\ id \in Crossing(coasting, "left") <=> coasting[id].side = "left" /\ cache[id].side # "left"
        BY <2>1, <2>3 DEF Crossing
      <3>2. coasting[id].side \in Sides /\ cache[id].side \in Sides /\ net[id].first \in Sides
            /\ net[id].in \in Int
        BY <1>11, <1>12, <2>1, <2>3
      <3> QED BY <1>15, <2>1, <2>3, <3>1, <3>2 DEF Sides
    <2> QED BY <2>2, <2>3
  <1>18. in \in Nat /\ out \in Nat
    <2>1. IsFiniteSet(DOMAIN coasting)
      BY <1>1, <1>6, <1>9, <1>11, FS_Subset DEF LCTypeOK
    <2>2. IsFiniteSet(Crossing(coasting, "right")) /\ IsFiniteSet(Crossing(coasting, "left"))
      BY <2>1, FS_Subset DEF Crossing
    <2> QED BY <2>2, FS_CardinalityType
  <1> HIDE DEF in, out
  <1>19. /\ reader'.next = reader.next /\ reader'.batch = reader.batch /\ reader'.done = reader.done + 1
         /\ reader'.pc = "process"
         /\ result'.read = result.read /\ result'.processed = result.processed
         /\ result'.records = Append(result.records, [frame |-> index, in |-> in, out |-> out])
         /\ DOMAIN reader' = DOMAIN reader /\ DOMAIN result' = DOMAIN result
    BY <1>1, <1>2 DEF LCTypeOK
  <1>20. /\ result.records \in Seq([frame : Nat, in : Nat, out : Nat])
         /\ Len(result.records) \in Nat /\ reader.done \in Nat /\ result.processed \in Nat
         /\ Len(reader.batch) \in Nat
    BY <1>1 DEF LCTypeOK
  <1>21. /\ result'.records \in Seq([frame : Nat, in : Nat, out : Nat])
         /\ Len(result'.records) = Len(result.records) + 1
         /\ \A i \in 1..Len(result.records) : result'.records[i] = result.records[i]
         /\ result'.records[Len(result.records) + 1].frame = index
    BY <1>3, <1>18, <1>19, <1>20
  <1>22. LCTypeOK'
    <2>1. /\ reader'.next \in Nat /\ reader'.batch \in Seq(Nat) /\ reader'.done \in 0..Len(reader'.batch)
          /\ reader'.pc \in {"read", "process", "ended", "interrupted"}
      BY <1>1, <1>2, <1>19, <1>20 DEF LCTypeOK
    <2>2. result'.processed \in Nat /\ result'.read \in Nat /\ settings' = settings
      BY <1>1, <1>2, <1>19 DEF LCTypeOK
    <2>3. cache' \in [DOMAIN cache' -> [side : Sides, last : Nat]]
      <3>1. coasting = [id \in DOMAIN coasting |-> coasting[id]]
        BY <1>8
      <3> QED BY <1>2, <1>12, <3>1
    <2>4. net' \in [DOMAIN net' -> [first : Sides, in : Int]]
      <3>1. ASSUME NEW id \in DOMAIN net' PROVE net'[id] \in [first : Sides, in : Int]
        <4>1. CASE id \in DOMAIN net
          BY <1>15, <4>1
        <4>2. CASE id \notin DOMAIN net
          <5>1. id \in DOMAIN shown
            BY <1>15, <3>1, <4>2
          <5>2. net'[id] = [first |-> shown[id], in |-> 0] /\ shown[id] \in Sides
            BY <1>6, <1>15, <4>2, <5>1
          <5> QED BY <5>2
        <4> QED BY <4>1, <4>2
      <3>2. net' = [id \in DOMAIN net' |-> net'[id]]
        BY <1>2
      <3> QED BY <3>1, <3>2
    <2> QED BY <1>1, <1>2, <1>4, <1>19, <1>21, <2>1, <2>2, <2>3, <2>4 DEF LCTypeOK
  <1>23. BatchIsWhatIsLeft'
    <2>1. SampledSoFar' = SampledSoFar
      BY <1>5, <1>19 DEF SampledSoFar, IsSampled
    <2>2. Len(result'.records) = result'.processed + reader'.done
      BY <1>1, <1>19, <1>20, <1>21 DEF BatchIsWhatIsLeft
    <2>3. ASSUME NEW i \in 1..Len(result'.records) PROVE result'.records[i].frame = (i - 1) * Interval'
      <3>1. CASE i \in 1..Len(result.records)
        BY <1>1, <1>5, <1>21, <3>1 DEF BatchIsWhatIsLeft
      <3>2. CASE i = Len(result.records) + 1
        <4>1. i - 1 = Len(result.records)
          BY <1>20, <3>2
        <4> QED BY <1>3, <1>5, <1>21, <3>2, <4>1
      <3>3. i \in 1..Len(result.records) \/ i = Len(result.records) + 1
        <4>1. i \in 1..(Len(result.records) + 1)
          BY <1>21, <2>3
        <4> QED BY <1>20, <4>1
      <3> QED BY <3>1, <3>2, <3>3
    <2> QED BY <1>1, <1>2, <1>5, <1>19, <2>1, <2>2, <2>3 DEF BatchIsWhatIsLeft
  <1> QED BY <1>5, <1>16, <1>17, <1>22, <1>23 DEF LCInv

\* The inductive invariant of counting: the batch is what is left of the sampled
\* frames, and the cache of sides outlives the tracks of the tracker.
THEOREM CountingInvariance == LCSpec => []LCInv
  <1>1. ASSUME LCInv, [LCNext]_lcvars PROVE LCInv'
    <2>1. CASE UNCHANGED lcvars
      <3>1. /\ settings' = settings /\ reader' = reader /\ found' = found /\ cache' = cache
            /\ zone' = zone /\ result' = result /\ net' = net
        BY <2>1 DEF lcvars
      <3>2. Interval' = Interval /\ settings'.coast = settings.coast
        BY <3>1 DEF Interval
      <3>3. SampledSoFar' = SampledSoFar /\ LastFrame' = LastFrame
        BY <3>1, <3>2 DEF SampledSoFar, IsSampled, LastFrame
      <3>4. LCTypeOK'
        BY <1>1, <3>1 DEF LCInv, LCTypeOK
      <3>5. BatchIsWhatIsLeft'
        BY <1>1, <3>1, <3>2, <3>3 DEF LCInv, BatchIsWhatIsLeft
      <3>6. CacheOutlivesTheTracker'
        BY <1>1, <3>1, <3>2, <3>3 DEF LCInv, CacheOutlivesTheTracker
      <3>7. TrackedCrossingsAreCounted'
        BY <1>1, <3>1 DEF LCInv, TrackedCrossingsAreCounted
      <3>8. WindowsAgree'
        BY <1>1, <3>1, <3>2 DEF LCInv, WindowsAgree
      <3> QED BY <3>4, <3>5, <3>6, <3>7, <3>8 DEF LCInv
    <2> QED BY <1>1, <2>1, ReadStep, EndStep, EndBatchStep, InterruptStep, ProcessStep DEF LCNext
  <1> QED BY <1>1, CountingInit, PTL DEF LCSpec

\* CountIsComplete: for any rate of the video, rate asked for, batch size and
\* number of frames, whichever way the conversions of the window round, and
\* however often anyone is not detected, a run that returns has processed every
\* sampled frame once and in order, an interrupted one has lost at most a batch,
\* the tracker was told to keep a track over a missed detection, and a crossing
\* is counted once for as long as it does (iter_sampled_frame_batches,
\* lost_track_buffer_for_sample_rate, process_frame, record_line_counts).
THEOREM CountComplete == LCSpec => []CountIsComplete
  <1>1. ASSUME LCInv PROVE CountIsComplete
    <2>1. /\ LCTypeOK /\ WindowsAgree /\ BatchIsWhatIsLeft /\ CacheOutlivesTheTracker
          /\ TrackedCrossingsAreCounted
      BY <1>1 DEF LCInv
    <2>2. ReadFramesAreCounted
      <3>1. /\ reader.done \in Nat /\ result.processed \in Nat /\ Len(reader.batch) \in Nat
            /\ reader.done <= Len(reader.batch)
        BY <2>1 DEF LCTypeOK
      <3>2. Cardinality(SampledSoFar) = result.processed + Len(reader.batch)
        BY <2>1 DEF BatchIsWhatIsLeft
      <3>3. Len(reader.batch) <= BatchSize /\ (reader.pc = "ended" => Len(reader.batch) = 0)
        BY <2>1 DEF BatchIsWhatIsLeft
      <3>4. /\ Len(result.records) = result.processed + reader.done
            /\ \A i \in 1..Len(result.records) : result.records[i].frame = (i - 1) * Interval
        BY <2>1 DEF BatchIsWhatIsLeft
      <3>5. /\ reader.pc = "ended" => /\ Len(result.records) = Cardinality(SampledSoFar)
                                      /\ result.processed = Cardinality(SampledSoFar)
            /\ reader.pc = "interrupted" => Cardinality(SampledSoFar) - result.processed <= BatchSize
        BY <3>1, <3>2, <3>3, <3>4, LineAssumption
      <3> QED BY <3>4, <3>5 DEF ReadFramesAreCounted, SampledSoFar
    <2>3. OneMissIsCovered
      <3> SUFFICES ASSUME NEW id \in DOMAIN net,
                          \/ LastFrame + Interval - found[id].last <= 2 * Interval
                          \/ (LastFrame + Interval - found[id].last) * RateUnit <= settings.fps
                   PROVE  30 * RateUnit * (LastFrame + Interval - found[id].last)
                            <= settings.buffer * settings.fps
        BY DEF OneMissIsCovered
      <3>1. /\ Interval \in Nat /\ Interval >= 1 /\ RateUnit \in Nat /\ RateUnit >= 1
            /\ settings.buffer \in Nat /\ settings.buffer >= 30
            /\ settings.fps \in Nat /\ settings.fps >= 1
        <4>1. settings.fps \in SourceFps /\ settings.buffer \in Nat /\ settings.buffer >= 30
          BY <2>1 DEF LCTypeOK, WindowsAgree
        <4>2. Interval \in Nat /\ Interval >= 1
          BY <2>1, WindowsTyped
        <4>3. settings.fps \in Nat /\ settings.fps >= 1 /\ RateUnit \in Nat /\ RateUnit >= 1
          <5>1. SourceFps \subseteq Nat \ {0} /\ RateUnit \in Nat \ {0}
            BY LineAssumption
          <5>2. settings.fps \in Nat \ {0}
            BY <4>1, <5>1
          <5> QED BY <5>1, <5>2
        <4> QED BY <4>1, <4>2, <4>3
      <3>2. found[id].last \in Nat /\ LastFrame \in Int
        <4>1. Len(result.records) \in Nat
          BY <2>1 DEF LCTypeOK
        <4>2. id \in DOMAIN found
          BY <2>1 DEF CacheOutlivesTheTracker
        <4>3. found[id].last \in Nat
          BY <2>1, <4>2 DEF LCTypeOK
        <4>4. LastFrame \in Int
          BY <3>1, <4>1 DEF LastFrame
        <4> QED BY <4>3, <4>4
      <3> DEFINE n == LastFrame + Interval - found[id].last
                 x == settings.buffer * settings.fps
      <3>3. n \in Int /\ x \in Nat
        BY <3>1, <3>2
      <3>4. 60 * RateUnit * Interval <= x
        BY <2>1 DEF WindowsAgree
      <3>5. 30 * settings.fps <= x
        BY <3>1
      <3>6. n <= 2 * Interval \/ n * RateUnit <= settings.fps
        OBVIOUS
      <3> HIDE DEF n, x
      <3> DEFINE y == n * RateUnit
                 z == RateUnit * Interval
      <3>7. /\ y \in Int /\ z \in Nat /\ 30 * RateUnit * n = 30 * y /\ 60 * RateUnit * Interval = 60 * z
            /\ (n <= 2 * Interval => y <= 2 * z)
        <4>1. n <= 2 * Interval => n * RateUnit <= (2 * Interval) * RateUnit
          BY <3>1, <3>3
        <4>2. (2 * Interval) * RateUnit = 2 * z /\ 60 * RateUnit * Interval = 60 * z
          BY <3>1
        <4>3. y \in Int /\ z \in Nat /\ 30 * RateUnit * n = 30 * y
          BY <3>1, <3>3
        <4> QED BY <4>1, <4>2, <4>3
      <3>8. 60 * z <= x
        BY <3>4, <3>7
      <3>9. y <= 2 * z \/ y <= settings.fps
        BY <3>6, <3>7
      <3> HIDE DEF y, z
      <3>11. 30 * y <= x
        BY <3>1, <3>3, <3>5, <3>7, <3>8, <3>9
      <3>10. 30 * RateUnit * n <= x
        BY <3>7, <3>11
      <3> QED BY <3>10 DEF n, x
    <2> QED BY <2>1, <2>2, <2>3 DEF CountIsComplete
  <1> QED BY <1>1, CountingInvariance, PTL
-----------------------------------------------------------------------------
(* ClaimAdmission *)

\* A set of natural numbers has a least element.
LEMMA LeastNatural ==
    ASSUME NEW S \in SUBSET Nat, S # {}
    PROVE  \E x \in S : \A y \in S : x <= y
  <1> DEFINE R == {p \in Nat \X Nat : p[1] < p[2]}
  <1>1. IsWellFoundedOn(R, Nat)
    BY NatLessThanWellFounded DEF OpToRel
  <1> HIDE DEF R
  <1>2. PICK x \in S : \A y \in S : <<y, x>> \notin R
    BY <1>1, WFMin
  <1>3. ASSUME NEW y \in S PROVE x <= y
    <2>1. ~(y < x)
      BY <1>2 DEF R
    <2> QED BY <2>1
  <1> QED BY <1>3

\* Among some subsets of a finite set there is one from which nothing can be
\* taken away.
LEMMA SmallestSet ==
    ASSUME NEW D, IsFiniteSet(D), NEW Bad \in SUBSET (SUBSET D), Bad # {}
    PROVE  \E T \in Bad : \A x \in T : T \ {x} \notin Bad
  <1> DEFINE N == {Cardinality(T) : T \in Bad}
  <1>1. \A T \in SUBSET D : IsFiniteSet(T) /\ Cardinality(T) \in Nat
    BY FS_Subset, FS_CardinalityType
  <1>2. N \in SUBSET Nat /\ N # {}
    BY <1>1
  <1> HIDE DEF N
  <1>3. PICK n \in N : \A m \in N : n <= m
    BY <1>2, LeastNatural
  <1>4. PICK T \in Bad : n = Cardinality(T)
    BY <1>3 DEF N
  <1>5. ASSUME NEW x \in T, T \ {x} \in Bad PROVE FALSE
    <2>1. Cardinality(T \ {x}) = Cardinality(T) - 1 /\ Cardinality(T) \in Nat
      BY <1>1, FS_RemoveElement
    <2>2. n <= Cardinality(T \ {x})
      BY <1>3, <1>5 DEF N
    <2> QED BY <1>4, <2>1, <2>2
  <1> QED BY <1>5

\* What a recursion that takes one element of a set after the other computes.
IsFold(g, D, base, step, pick) ==
    \A T \in SUBSET D : g[T] = IF T = {} THEN base ELSE step[<<pick[T], g[T \ {pick[T]}]>>]

\* On the subsets of a finite set such a recursion has a solution: one for the
\* sets of at most m elements gives one for the sets of one more.
LEMMA FoldExists ==
    ASSUME NEW D, IsFiniteSet(D), NEW V, NEW base \in V, NEW step \in [D \X V -> V],
           NEW pick, \A T \in SUBSET D : T # {} => pick[T] \in T
    PROVE  \E g \in [SUBSET D -> V] : IsFold(g, D, base, step, pick)
  <1> DEFINE Small(m) == {T \in SUBSET D : Cardinality(T) <= m}
             Solves(g, m) == \A T \in Small(m) :
                 g[T] = IF T = {} THEN base ELSE step[<<pick[T], g[T \ {pick[T]}]>>]
             Bad == {m \in 0..Cardinality(D) : ~\E g \in [Small(m) -> V] : Solves(g, m)}
  <1>1. \A T \in SUBSET D : /\ IsFiniteSet(T) /\ Cardinality(T) \in Nat
                            /\ Cardinality(T) <= Cardinality(D)
    BY FS_Subset, FS_CardinalityType
  <1>2. Bad = {}
    <2> SUFFICES ASSUME Bad # {} PROVE FALSE
      OBVIOUS
    <2>1. Bad \in SUBSET Nat
      BY <1>1
    <2>2. PICK m \in Bad : \A n \in Bad : m <= n
      BY <2>1, LeastNatural
    <2>3. m \in 0..Cardinality(D) /\ m \in Nat /\ Cardinality(D) \in Nat
      BY <1>1
    <2>4. CASE m = 0
      <3>1. \A T \in Small(0) : T = {}
        BY <1>1, FS_EmptySet
      <3>2. [T \in Small(0) |-> base] \in [Small(0) -> V] /\ Solves([T \in Small(0) |-> base], 0)
        BY <3>1
      <3>3. m \notin Bad
        BY <2>4, <3>2
      <3> QED BY <3>3
    <2>5. CASE m # 0
      <3>1. m - 1 \in 0..Cardinality(D)
        BY <2>3, <2>5
      <3>2. PICK g0 \in [Small(m - 1) -> V] : Solves(g0, m - 1)
        <4> HIDE DEF Small, Solves
        <4>1. m - 1 \in Bad \/ \E g \in [Small(m - 1) -> V] : Solves(g, m - 1)
          BY <3>1
        <4> HIDE DEF Bad
        <4> QED BY <2>2, <2>3, <4>1
      <3> DEFINE g == [T \in Small(m) |-> IF T = {} THEN base
                                          ELSE step[<<pick[T], g0[T \ {pick[T]}]>>]]
      <3>3. ASSUME NEW T \in Small(m), T # {}
            PROVE  pick[T] \in D /\ T \ {pick[T]} \in Small(m - 1)
        <4>1. pick[T] \in T /\ Cardinality(T \ {pick[T]}) = Cardinality(T) - 1
          BY <1>1, <3>3, FS_RemoveElement
        <4>2. Cardinality(T) \in Nat /\ Cardinality(T) <= m
          BY <1>1
        <4> QED BY <2>3, <4>1, <4>2
      <3>4. Small(m - 1) \subseteq Small(m)
        BY <1>1, <2>3
      <3>5. g \in [Small(m) -> V]
        <4> SUFFICES ASSUME NEW T \in Small(m), T # {}
                     PROVE  step[<<pick[T], g0[T \ {pick[T]}]>>] \in V
          OBVIOUS
        <4>1. g0[T \ {pick[T]}] \in V
          BY <3>2, <3>3
        <4> QED BY <3>3, <4>1
      <3>6. \A T \in Small(m - 1) : g[T] = g0[T]
        BY <3>2, <3>4
      <3>7. Solves(g, m)
        BY <3>3, <3>6
      <3> HIDE DEF g, Small, Solves
      <3> QED BY <2>2, <3>5, <3>7
    <2> QED BY <2>4, <2>5
  <1>3. Cardinality(D) \in 0..Cardinality(D) /\ Small(Cardinality(D)) = SUBSET D
    BY <1>1
  <1>4. \E g \in [Small(Cardinality(D)) -> V] : Solves(g, Cardinality(D))
    <2> HIDE DEF Small, Solves
    <2> QED BY <1>2, <1>3
  <1> QED BY <1>3, <1>4 DEF IsFold

\* The sum of f over S.
Total(f, S) == MapThenSumSet(LAMBDA w : f[w], S)

\* h sums up f over every subset of S.
SumsUp(h, f, S) ==
    h = [T \in SUBSET S |-> IF T = {} THEN 0
                            ELSE LET x == CHOOSE x \in T : TRUE
                                 IN  f[x] + h[T \ {x}]]

AddsUp(h, f, D) ==
    /\ h[{}] = 0
    /\ \A T \in SUBSET D : T # {} => \E x \in T : h[T] = f[x] + h[T \ {x}]
    /\ \A T \in SUBSET D : Total(f, T) = h[T]

LEMMA TotalFunction ==
    ASSUME NEW D, IsFiniteSet(D), NEW f \in [D -> Nat]
    PROVE  \E h \in [SUBSET D -> Nat] : AddsUp(h, f, D)
  <1> DEFINE pick == [T \in SUBSET D |-> CHOOSE x \in T : TRUE]
             step == [p \in D \X Nat |-> f[p[1]] + p[2]]
  <1>1. \A T \in SUBSET D : T # {} => pick[T] \in T
    OBVIOUS
  <1>2. step \in [D \X Nat -> Nat]
    OBVIOUS
  <1>3. PICK h \in [SUBSET D -> Nat] : IsFold(h, D, 0, step, pick)
    <2> HIDE DEF pick, step
    <2> QED BY <1>1, <1>2, FoldExists
  <1>4. ASSUME NEW T \in SUBSET D, T # {}
        PROVE  h[T] = LET x == CHOOSE x \in T : TRUE IN f[x] + h[T \ {x}]
    <2>1. pick[T] = (CHOOSE x \in T : TRUE) /\ pick[T] \in D /\ h[T \ {pick[T]}] \in Nat
      BY <1>1, <1>4
    <2>2. h[T] = step[<<pick[T], h[T \ {pick[T]}]>>]
      BY <1>3, <1>4 DEF IsFold
    <2>3. \A x \in D, n \in Nat : step[<<x, n>>] = f[x] + n
      OBVIOUS
    <2> HIDE DEF step
    <2>4. h[T] = f[pick[T]] + h[T \ {pick[T]}]
      BY <2>1, <2>2, <2>3
    <2> HIDE DEF pick
    <2> QED BY <2>1, <2>4
  <1>5. ASSUME NEW S \in SUBSET D PROVE Total(f, S) = h[S]
    <2> DEFINE g == CHOOSE g : SumsUp(g, f, S)
    <2>1. SumsUp(g, f, S)
      <3>1. SumsUp([T \in SUBSET S |-> h[T]], f, S)
        <4>1. h[{}] = 0
          BY <1>3 DEF IsFold
        <4>2. ASSUME NEW T \in SUBSET S, T # {}
              PROVE  h[T] = f[CHOOSE x \in T : TRUE]
                              + [U \in SUBSET S |-> h[U]][T \ {CHOOSE x \in T : TRUE}]
          BY <1>4, <4>2
        <4> QED BY <4>1, <4>2 DEF SumsUp
      <3> QED BY <3>1
    <2>2. Total(f, S) = g[S]
      BY DEF Total, MapThenSumSet, MapThenFoldSet, SumsUp
    <2> HIDE DEF g
    <2> DEFINE Bad == {T \in SUBSET S : g[T] # h[T]}
    <2>3. Bad = {}
      <3> SUFFICES ASSUME Bad # {} PROVE FALSE
        OBVIOUS
      <3>1. IsFiniteSet(S) /\ Bad \in SUBSET (SUBSET S)
        BY FS_Subset
      <3>2. PICK T \in Bad : \A x \in T : T \ {x} \notin Bad
        BY <3>1, SmallestSet
      <3>3. T # {}
        BY <1>3, <2>1 DEF SumsUp, IsFold
      <3>4. g[T] = LET x == CHOOSE x \in T : TRUE IN f[x] + g[T \ {x}]
        BY <2>1, <3>3 DEF SumsUp
      <3>5. h[T] = LET x == CHOOSE x \in T : TRUE IN f[x] + h[T \ {x}]
        BY <1>4, <3>3
      <3>6. LET x == CHOOSE x \in T : TRUE IN x \in T /\ g[T \ {x}] = h[T \ {x}]
        BY <3>2, <3>3
      <3> QED BY <3>4, <3>5, <3>6
    <2> QED BY <2>2, <2>3
  <1>6. \A T \in SUBSET D : T # {} => \E x \in T : h[T] = f[x] + h[T \ {x}]
    <2> SUFFICES ASSUME NEW T \in SUBSET D, T # {} PROVE \E x \in T : h[T] = f[x] + h[T \ {x}]
      OBVIOUS
    <2>1. (CHOOSE x \in T : TRUE) \in T
      OBVIOUS
    <2> QED BY <1>4, <2>1
  <1> QED BY <1>3, <1>5, <1>6 DEF AddsUp, IsFold

\* Nothing sums up to 0, a sum is a number, and each of its terms can be the
\* one that is added last.
LEMMA TotalStep ==
    ASSUME NEW D, IsFiniteSet(D), NEW f \in [D -> Nat]
    PROVE  /\ Total(f, {}) = 0
           /\ \A T \in SUBSET D : Total(f, T) \in Nat
           /\ \A T \in SUBSET D : \A x \in T : Total(f, T) = f[x] + Total(f, T \ {x})
  <1>1. PICK h \in [SUBSET D -> Nat] : AddsUp(h, f, D)
    BY TotalFunction
  <1> DEFINE Bad == {T \in SUBSET D : \E x \in T : h[T] # f[x] + h[T \ {x}]}
  <1>2. Bad = {}
    <2> SUFFICES ASSUME Bad # {} PROVE FALSE
      OBVIOUS
    <2>1. PICK T \in Bad : \A x \in T : T \ {x} \notin Bad
      BY SmallestSet
    <2>2. PICK x \in T : h[T] # f[x] + h[T \ {x}]
      OBVIOUS
    <2>3. PICK y \in T : h[T] = f[y] + h[T \ {y}]
      BY <1>1 DEF AddsUp
    <2>4. x # y
      BY <2>2, <2>3
    <2>5. h[T \ {y}] = f[x] + h[(T \ {y}) \ {x}]
      BY <2>1, <2>4
    <2>6. h[T \ {x}] = f[y] + h[(T \ {x}) \ {y}]
      BY <2>1, <2>4
    <2>7. (T \ {y}) \ {x} = (T \ {x}) \ {y}
      OBVIOUS
    <2>8. f[x] \in Nat /\ f[y] \in Nat /\ h[(T \ {x}) \ {y}] \in Nat
      OBVIOUS
    <2>9. f[y] + (f[x] + h[(T \ {x}) \ {y}]) = f[x] + (f[y] + h[(T \ {x}) \ {y}])
      BY <2>8
    <2> QED BY <2>2, <2>3, <2>5, <2>6, <2>7, <2>9
  <1>3. h[{}] = 0 /\ \A T \in SUBSET D : h[T] \in Nat /\ Total(f, T) = h[T]
    BY <1>1 DEF AddsUp
  <1>4. ASSUME NEW T \in SUBSET D, NEW x \in T PROVE h[T] = f[x] + h[T \ {x}]
    BY <1>2
  <1> HIDE DEF Bad
  <1>5. \A T \in SUBSET D : \A x \in T : T \ {x} \in SUBSET D
    OBVIOUS
  <1> QED BY <1>3, <1>4, <1>5

LEMMA TotalType ==
    ASSUME NEW D, IsFiniteSet(D), NEW f \in [D -> Nat], NEW T \in SUBSET D
    PROVE  Total(f, T) \in Nat
  BY TotalStep

LEMMA TotalAdd ==
    ASSUME NEW D, IsFiniteSet(D), NEW f \in [D -> Nat]
    PROVE  \A S \in SUBSET D : \A x \in D \ S : Total(f, S \cup {x}) = f[x] + Total(f, S)
  <1> SUFFICES ASSUME NEW S \in SUBSET D, NEW x \in D \ S
               PROVE  Total(f, S \cup {x}) = f[x] + Total(f, S)
    OBVIOUS
  <1> DEFINE T == S \cup {x}
  <1>1. T \in SUBSET D /\ x \in T /\ T \ {x} = S
    OBVIOUS
  <1> HIDE DEF T
  <1>2. Total(f, T) = f[x] + Total(f, T \ {x})
    BY <1>1, TotalStep
  <1> QED BY <1>1, <1>2 DEF T

\* The sum over two sets that have nothing in common.
LEMMA TotalUnion ==
    ASSUME NEW D, IsFiniteSet(D), NEW f \in [D -> Nat],
           NEW S \in SUBSET D, NEW T \in SUBSET D, S \cap T = {}
    PROVE  Total(f, S \cup T) = Total(f, S) + Total(f, T)
  <1> DEFINE Bad == {U \in SUBSET T : Total(f, S \cup U) # Total(f, S) + Total(f, U)}
  <1>1. Bad = {}
    <2> SUFFICES ASSUME Bad # {} PROVE FALSE
      OBVIOUS
    <2>1. IsFiniteSet(T) /\ Bad \in SUBSET (SUBSET T)
      BY FS_Subset
    <2>2. PICK U \in Bad : \A x \in U : U \ {x} \notin Bad
      <3> HIDE DEF Bad
      <3> QED BY <2>1, SmallestSet
    <2>3. U # {}
      <3>1. S \cup {} = S /\ Total(f, S) \in Nat /\ Total(f, {}) = 0
        BY TotalStep
      <3>2. {} \notin Bad
        BY <3>1
      <3> QED BY <2>2, <3>2
    <2>4. PICK x \in U : TRUE
      BY <2>3
    <2>5. Total(f, S \cup (U \ {x})) = Total(f, S) + Total(f, U \ {x})
      BY <2>2, <2>4
    <2>6. (S \cup U) \ {x} = S \cup (U \ {x}) /\ S \cup U \in SUBSET D /\ x \in S \cup U
          /\ U \in SUBSET D /\ U \ {x} \in SUBSET D
      BY <2>2
    <2>7. Total(f, S \cup U) = f[x] + Total(f, S \cup (U \ {x}))
          /\ Total(f, U) = f[x] + Total(f, U \ {x})
      BY <2>4, <2>6, TotalStep
    <2>8. f[x] \in Nat /\ Total(f, S) \in Nat /\ Total(f, U \ {x}) \in Nat
      BY <2>6, TotalStep
    <2>9. Total(f, S \cup U) = Total(f, S) + Total(f, U)
      BY <2>5, <2>7, <2>8
    <2> QED BY <2>2, <2>9
  <1> QED BY <1>1

\* A larger set has no smaller sum.
LEMMA TotalGrows ==
    ASSUME NEW D, IsFiniteSet(D), NEW f \in [D -> Nat],
           NEW T \in SUBSET D, NEW S \in SUBSET T
    PROVE  Total(f, S) <= Total(f, T)
  <1>1. Total(f, S \cup (T \ S)) = Total(f, S) + Total(f, T \ S)
    BY TotalUnion
  <1>2. S \cup (T \ S) = T /\ Total(f, S) \in Nat /\ Total(f, T \ S) \in Nat
    BY TotalStep
  <1>3. Total(f, T) = Total(f, S) + Total(f, T \ S)
    BY <1>1, <1>2
  <1>4. \A m, n \in Nat : m <= m + n
    OBVIOUS
  <1> QED BY <1>2, <1>3, <1>4

\* A sum is at least what any of its terms, any two and any three make.
LEMMA TotalOfSome ==
    ASSUME NEW D, IsFiniteSet(D), NEW f \in [D -> Nat], NEW T \in SUBSET D
    PROVE  /\ \A x \in T : Total(f, T) >= f[x]
           /\ \A x, y \in T : x # y => Total(f, T) >= f[x] + f[y]
           /\ \A x, y, z \in T :
                 x # y /\ y # z /\ x # z => Total(f, T) >= f[x] + f[y] + f[z]
           /\ \A x : T = {x} => Total(f, T) = f[x]
           /\ \A x, y : T = {x, y} /\ x # y => Total(f, T) = f[x] + f[y]
  <1>1. \A x \in D : f[x] \in Nat
    OBVIOUS
  <1>2. ASSUME NEW U \in SUBSET D PROVE Total(f, U) \in Nat
    BY TotalType
  <1>3. ASSUME NEW U \in SUBSET D, NEW x \in U PROVE Total(f, U) = f[x] + Total(f, U \ {x})
    BY TotalStep
  <1>4. ASSUME NEW x \in T PROVE Total(f, T) = f[x] + Total(f, T \ {x})
    BY <1>3
  <1>5. ASSUME NEW x \in T, NEW y \in T, x # y
        PROVE  Total(f, T) = f[x] + f[y] + Total(f, (T \ {x}) \ {y})
    <2>1. Total(f, T \ {x}) = f[y] + Total(f, (T \ {x}) \ {y})
      BY <1>3, <1>5
    <2> QED BY <1>1, <1>2, <1>4, <2>1
  <1>6. ASSUME NEW x \in T, NEW y \in T, NEW z \in T, x # y, y # z, x # z
        PROVE  Total(f, T) >= f[x] + f[y] + f[z]
    <2>1. Total(f, (T \ {x}) \ {y}) = f[z] + Total(f, ((T \ {x}) \ {y}) \ {z})
      BY <1>3, <1>6
    <2>2. Total(f, ((T \ {x}) \ {y}) \ {z}) \in Nat
      BY <1>2
    <2> QED BY <1>1, <1>5, <1>6, <2>1, <2>2
  <1>7. ASSUME NEW x, T = {x} PROVE Total(f, T) = f[x]
    <2>1. T \ {x} = {} /\ x \in T /\ Total(f, {}) = 0
      BY <1>7, TotalStep
    <2> QED BY <1>1, <1>4, <2>1
  <1>8. ASSUME NEW x, NEW y, T = {x, y}, x # y PROVE Total(f, T) = f[x] + f[y]
    <2>1. (T \ {x}) \ {y} = {} /\ x \in T /\ y \in T /\ Total(f, {}) = 0
      BY <1>8, TotalStep
    <2> QED BY <1>1, <1>5, <1>8, <2>1
  <1>9. ASSUME NEW x \in T PROVE Total(f, T) >= f[x]
    <2>1. Total(f, T \ {x}) \in Nat
      BY <1>2
    <2> QED BY <1>1, <1>4, <2>1
  <1>10. ASSUME NEW x \in T, NEW y \in T, x # y PROVE Total(f, T) >= f[x] + f[y]
    <2>1. Total(f, (T \ {x}) \ {y}) \in Nat
      BY <1>2
    <2> QED BY <1>1, <1>5, <1>10, <2>1
  <1> QED BY <1>6, <1>7, <1>8, <1>9, <1>10

\* What k buckets hold together, if none holds more, or none less, than b.
LEMMA BucketTotals ==
    ASSUME NEW D, IsFiniteSet(D), NEW f \in [D -> Nat], NEW T \in SUBSET D,
           NEW k \in Nat, NEW A \in [T -> 1..k], NEW b \in Nat
    PROVE  /\ (\A i \in 1..k : Total(f, {w \in T : A[w] = i}) <= b) => Total(f, T) <= k * b
           /\ (\A i \in 1..k : Total(f, {w \in T : A[w] = i}) >= b) => Total(f, T) >= k * b
  <1> DEFINE In(m) == {w \in T : A[w] = m}
             UpTo(m) == {w \in T : A[w] <= m}
  <1>1. UpTo(0) = {} /\ UpTo(k) = T
    OBVIOUS
  <1>2. ASSUME NEW m \in 1..k
        PROVE  /\ Total(f, UpTo(m)) = Total(f, UpTo(m - 1)) + Total(f, In(m))
               /\ Total(f, UpTo(m - 1)) \in Nat /\ Total(f, In(m)) \in Nat
    <2>1. UpTo(m) = UpTo(m - 1) \cup In(m) /\ UpTo(m - 1) \cap In(m) = {}
      OBVIOUS
    <2>2. UpTo(m - 1) \in SUBSET D /\ In(m) \in SUBSET D
      OBVIOUS
    <2> HIDE DEF UpTo, In
    <2> QED BY <2>1, <2>2, TotalUnion, TotalStep
  <1>3. Total(f, {}) = 0
    BY TotalStep
  <1>4. \A m \in 1..k : m * b = (m - 1) * b + b
    OBVIOUS
  <1>5. ASSUME \A i \in 1..k : Total(f, In(i)) <= b PROVE Total(f, T) <= k * b
    <2> DEFINE Bad == {m \in 0..k : ~(Total(f, UpTo(m)) <= m * b)}
    <2>1. Bad = {}
      <3> SUFFICES ASSUME Bad # {} PROVE FALSE
        OBVIOUS
      <3> HIDE DEF UpTo, In
      <3>1. Bad \in SUBSET Nat
        OBVIOUS
      <3>2. PICK m \in Bad : \A n \in Bad : m <= n
        BY <3>1, LeastNatural
      <3>3. m # 0
        <4>1. Total(f, UpTo(0)) = 0 /\ 0 * b = 0
          BY <1>1, <1>3
        <4> QED BY <3>2, <4>1
      <3>4. m \in 1..k /\ m - 1 \in 0..k /\ m - 1 \notin Bad
        BY <3>2, <3>3
      <3>5. Total(f, UpTo(m - 1)) <= (m - 1) * b
        BY <3>4
      <3> DEFINE p == (m - 1) * b
      <3>6. p \in Int /\ m * b = p + b
        BY <1>4, <3>4
      <3> HIDE DEF p
      <3>7. Total(f, UpTo(m)) <= m * b
        BY <1>2, <1>5, <3>4, <3>5, <3>6 DEF p
      <3> QED BY <3>2, <3>7
    <2>2. k \in 0..k
      OBVIOUS
    <2> HIDE DEF UpTo
    <2>3. Total(f, UpTo(k)) <= k * b
      BY <2>1, <2>2
    <2> QED BY <1>1, <2>3
  <1>6. ASSUME \A i \in 1..k : Total(f, In(i)) >= b PROVE Total(f, T) >= k * b
    <2> DEFINE Bad == {m \in 0..k : ~(Total(f, UpTo(m)) >= m * b)}
    <2>1. Bad = {}
      <3> SUFFICES ASSUME Bad # {} PROVE FALSE
        OBVIOUS
      <3> HIDE DEF UpTo, In
      <3>1. Bad \in SUBSET Nat
        OBVIOUS
      <3>2. PICK m \in Bad : \A n \in Bad : m <= n
        BY <3>1, LeastNatural
      <3>3. m # 0
        <4>1. Total(f, UpTo(0)) = 0 /\ 0 * b = 0
          BY <1>1, <1>3
        <4> QED BY <3>2, <4>1
      <3>4. m \in 1..k /\ m - 1 \in 0..k /\ m - 1 \notin Bad
        BY <3>2, <3>3
      <3>5. Total(f, UpTo(m - 1)) >= (m - 1) * b
        BY <3>4
      <3> DEFINE p == (m - 1) * b
      <3>6. p \in Int /\ m * b = p + b
        BY <1>4, <3>4
      <3> HIDE DEF p
      <3>7. Total(f, UpTo(m)) >= m * b
        BY <1>2, <1>6, <3>4, <3>5, <3>6 DEF p
      <3> QED BY <3>2, <3>7
    <2>2. k \in 0..k
      OBVIOUS
    <2> HIDE DEF UpTo
    <2>3. Total(f, UpTo(k)) >= k * b
      BY <2>1, <2>2
    <2> QED BY <1>1, <2>3
  <1> QED BY <1>5, <1>6


\* The work that goes last is one of the shortest.
LEMMA LastIsShortest ==
    ASSUME NEW D \in SUBSET Nat, IsFiniteSet(D), NEW f \in [D -> Nat], NEW T \in SUBSET D, T # {}
    PROVE  /\ LastScheduled(f, T) \in T
           /\ \A v \in T : f[LastScheduled(f, T)] <= f[v]
  <1>1. PICK d \in {f[v] : v \in T} : \A e \in {f[v] : v \in T} : d <= e
    <2>1. {f[v] : v \in T} \in SUBSET Nat /\ {f[v] : v \in T} # {}
      OBVIOUS
    <2> QED BY <2>1, LeastNatural
  <1>2. PICK w \in {v \in T : f[v] = d} : \A v \in {u \in T : f[u] = d} : v <= w
    <2> DEFINE C == {v \in T : f[v] = d}
    <2>1. C \in SUBSET Int /\ C # {}
      <3>1. PICK v \in T : d = f[v]
        BY <1>1
      <3>2. v \in C
        BY <3>1
      <3>3. T \subseteq Int /\ C \subseteq T
        OBVIOUS
      <3> HIDE DEF C
      <3> QED BY <3>2, <3>3
    <2>2. IsFiniteSet(C)
      BY FS_Subset
    <2> HIDE DEF C
    <2>3. \E w \in C : \A v \in C : v <= w
      BY <2>1, <2>2, FiniteHasLargest
    <2> QED BY <2>3 DEF C
  <1>3. \A v \in T : v \in Nat /\ f[v] \in Nat /\ d <= f[v]
    BY <1>1
  <1>4. \A v \in T \ {w} : f[v] > f[w] \/ (f[v] = f[w] /\ v < w)
    BY <1>1, <1>2, <1>3
  <1> DEFINE Goes(x) == \A v \in T \ {x} : f[v] > f[x] \/ (f[v] = f[x] /\ v < x)
  <1>5. LastScheduled(f, T) = CHOOSE x \in T : Goes(x)
    BY DEF LastScheduled
  <1>6. \E x \in T : Goes(x)
    BY <1>2, <1>4
  <1> HIDE DEF Goes
  <1>7. LastScheduled(f, T) \in T /\ Goes(LastScheduled(f, T))
    BY <1>5, <1>6
  <1>8. ASSUME NEW v \in T PROVE f[LastScheduled(f, T)] <= f[v]
    <2> DEFINE x == LastScheduled(f, T)
    <2>1. v = x \/ f[v] > f[x] \/ f[v] = f[x]
      BY <1>7 DEF Goes
    <2>2. x \in T
      BY <1>7
    <2> HIDE DEF x
    <2>3. f[v] \in Nat /\ f[x] \in Nat
      BY <1>3, <2>2
    <2>4. f[x] <= f[v]
      BY <2>1, <2>3
    <2> QED BY <2>4 DEF x
  <1> QED BY <1>7, <1>8

\* The bucket that is filled next is one of the lightest.
LEMMA LightestIsLeast ==
    ASSUME NEW k \in Nat \ {0}, NEW c \in [1..k -> Nat]
    PROVE  /\ Lightest(c) \in 1..k
           /\ \A j \in 1..k : c[Lightest(c)] <= c[j]
  <1>1. PICK m \in {c[i] : i \in 1..k} : \A e \in {c[i] : i \in 1..k} : m <= e
    <2>1. {c[i] : i \in 1..k} \in SUBSET Nat
      OBVIOUS
    <2>2. c[1] \in {c[i] : i \in 1..k}
      OBVIOUS
    <2> QED BY <2>1, <2>2, LeastNatural
  <1>2. PICK i \in {j \in 1..k : c[j] = m} : \A e \in {j \in 1..k : c[j] = m} : i <= e
    <2>1. {j \in 1..k : c[j] = m} \in SUBSET Nat /\ {j \in 1..k : c[j] = m} # {}
      OBVIOUS
    <2> QED BY <2>1, LeastNatural
  <1>3. \A j \in 1..k : c[j] \in Nat /\ m <= c[j]
    BY <1>1
  <1> DEFINE Least(n) == \A j \in DOMAIN c : c[n] < c[j] \/ (c[n] = c[j] /\ n <= j)
  <1>4. i \in DOMAIN c /\ Least(i)
    BY <1>1, <1>2, <1>3
  <1>5. Lightest(c) = CHOOSE n \in DOMAIN c : Least(n)
    BY DEF Lightest
  <1> HIDE DEF Least
  <1>6. Lightest(c) \in DOMAIN c /\ Least(Lightest(c))
    BY <1>4, <1>5
  <1>7. ASSUME NEW j \in 1..k PROVE c[Lightest(c)] <= c[j]
    <2>1. c[Lightest(c)] < c[j] \/ c[Lightest(c)] = c[j]
      BY <1>6 DEF Least
    <2> QED BY <1>3, <1>6, <2>1
  <1> QED BY <1>6, <1>7

\* h fills k buckets with every subset of S.
Fills(h, f, S, k) ==
    h = [T \in SUBSET S |->
            IF T = {} THEN [i \in 1..k |-> 0]
            ELSE LET x == LastScheduled(f, T)
                 IN  [h[T \ {x}] EXCEPT ![Lightest(h[T \ {x}])] = @ + f[x]]]

AreLptCosts(h, f, D, k) ==
    /\ h[{}] = [i \in 1..k |-> 0]
    /\ \A T \in SUBSET D : T # {} =>
          LET x == LastScheduled(f, T)
          IN  h[T] = [h[T \ {x}] EXCEPT ![Lightest(h[T \ {x}])] = @ + f[x]]
    /\ \A T \in SUBSET D : LptCosts(f, T, k) = h[T]

\* The plans for the subsets of a finite set, each made from a smaller one.
LEMMA LptFunction ==
    ASSUME NEW D \in SUBSET Nat, IsFiniteSet(D), NEW f \in [D -> Nat], NEW k \in Nat \ {0}
    PROVE  \E h \in [SUBSET D -> [1..k -> Nat]] : AreLptCosts(h, f, D, k)
  <1> DEFINE V == [1..k -> Nat]
             none == [i \in 1..k |-> 0]
             pick == [T \in SUBSET D |-> LastScheduled(f, T)]
             step == [p \in D \X V |-> [p[2] EXCEPT ![Lightest(p[2])] = @ + f[p[1]]]]
  <1>1. \A T \in SUBSET D : T # {} => pick[T] \in T
    BY LastIsShortest
  <1>2. none \in V
    OBVIOUS
  <1>3. step \in [D \X V -> V]
    <2> SUFFICES ASSUME NEW x \in D, NEW c \in V
                 PROVE  [c EXCEPT ![Lightest(c)] = @ + f[x]] \in V
      OBVIOUS
    <2>1. Lightest(c) \in 1..k
      BY LightestIsLeast
    <2> QED BY <2>1
  <1>4. PICK h \in [SUBSET D -> V] : IsFold(h, D, none, step, pick)
    <2> HIDE DEF pick, step, V, none
    <2> QED BY <1>1, <1>2, <1>3, FoldExists
  <1>5. ASSUME NEW T \in SUBSET D, T # {}
        PROVE  LET x == LastScheduled(f, T)
               IN  h[T] = [h[T \ {x}] EXCEPT ![Lightest(h[T \ {x}])] = @ + f[x]]
    <2>1. pick[T] = LastScheduled(f, T) /\ pick[T] \in D /\ h[T \ {pick[T]}] \in V
      BY <1>1, <1>5
    <2>2. h[T] = step[<<pick[T], h[T \ {pick[T]}]>>]
      BY <1>4, <1>5 DEF IsFold
    <2>3. \A x \in D, c \in V : step[<<x, c>>] = [c EXCEPT ![Lightest(c)] = @ + f[x]]
      OBVIOUS
    <2> HIDE DEF step, pick, V
    <2> QED BY <2>1, <2>2, <2>3
  <1>6. h[{}] = none
    BY <1>4 DEF IsFold
  <1>7. ASSUME NEW S \in SUBSET D PROVE LptCosts(f, S, k) = h[S]
    <2> DEFINE g == CHOOSE g : Fills(g, f, S, k)
    <2>1. Fills(g, f, S, k)
      <3>1. Fills([T \in SUBSET S |-> h[T]], f, S, k)
        <4> DEFINE r == [T \in SUBSET S |-> h[T]]
        <4>1. ASSUME NEW T \in SUBSET S, T # {}
              PROVE  LET x == LastScheduled(f, T)
                     IN  h[T] = [r[T \ {x}] EXCEPT ![Lightest(r[T \ {x}])] = @ + f[x]]
          <5>1. LET x == LastScheduled(f, T) IN r[T \ {x}] = h[T \ {x}]
            OBVIOUS
          <5> HIDE DEF r
          <5> QED BY <1>5, <4>1, <5>1
        <4>2. ASSUME NEW T \in SUBSET S
              PROVE  r[T] = IF T = {} THEN none
                            ELSE LET x == LastScheduled(f, T)
                                 IN  [r[T \ {x}] EXCEPT ![Lightest(r[T \ {x}])] = @ + f[x]]
          <5>1. r[T] = h[T]
            OBVIOUS
          <5> HIDE DEF r
          <5> QED BY <1>6, <4>1, <5>1
        <4>3. r = [T \in SUBSET S |-> r[T]]
          OBVIOUS
        <4> HIDE DEF r
        <4>4. r = [T \in SUBSET S |-> IF T = {} THEN none
                            ELSE LET x == LastScheduled(f, T)
                                 IN  [r[T \ {x}] EXCEPT ![Lightest(r[T \ {x}])] = @ + f[x]]]
          BY <4>2, <4>3
        <4> QED BY <4>4 DEF Fills, r
      <3> QED BY <3>1
    <2>2. LptCosts(f, S, k) = g[S]
      BY DEF LptCosts, MapThenFoldSet, Fills
    <2> HIDE DEF g
    <2> DEFINE Bad == {T \in SUBSET S : g[T] # h[T]}
    <2>3. Bad = {}
      <3> SUFFICES ASSUME Bad # {} PROVE FALSE
        OBVIOUS
      <3>1. IsFiniteSet(S) /\ Bad \in SUBSET (SUBSET S)
        BY FS_Subset
      <3>2. PICK T \in Bad : \A x \in T : T \ {x} \notin Bad
        <4> HIDE DEF Bad
        <4> QED BY <3>1, SmallestSet
      <3>3. T # {}
        <4>1. g[{}] = none
          BY <2>1 DEF Fills
        <4> QED BY <1>6, <3>2, <4>1
      <3>4. g[T] = LET x == LastScheduled(f, T)
                   IN  [g[T \ {x}] EXCEPT ![Lightest(g[T \ {x}])] = @ + f[x]]
        BY <2>1, <3>3 DEF Fills
      <3>5. LET x == LastScheduled(f, T) IN g[T \ {x}] = h[T \ {x}]
        <4>1. LastScheduled(f, T) \in T
          BY <3>3, LastIsShortest
        <4> QED BY <3>2, <4>1
      <3>6. g[T] = h[T]
        BY <1>5, <3>3, <3>4, <3>5
      <3> QED BY <3>2, <3>6
    <2> QED BY <2>2, <2>3
  <1> QED BY <1>4, <1>5, <1>6, <1>7 DEF AreLptCosts

LEMMA LptEmpty ==
    ASSUME NEW D \in SUBSET Nat, IsFiniteSet(D), NEW f \in [D -> Nat], NEW k \in Nat \ {0}
    PROVE  LptCosts(f, {}, k) = [i \in 1..k |-> 0]
  <1>1. PICK h \in [SUBSET D -> [1..k -> Nat]] : AreLptCosts(h, f, D, k)
    BY LptFunction
  <1>2. LptCosts(f, {}, k) = h[{}] /\ h[{}] = [i \in 1..k |-> 0]
    BY <1>1 DEF AreLptCosts
  <1> QED BY <1>2

LEMMA LptType ==
    ASSUME NEW D \in SUBSET Nat, IsFiniteSet(D), NEW f \in [D -> Nat], NEW k \in Nat \ {0},
           NEW T \in SUBSET D
    PROVE  LptCosts(f, T, k) \in [1..k -> Nat]
  <1> DEFINE V == [1..k -> Nat]
  <1>1. PICK h \in [SUBSET D -> V] : AreLptCosts(h, f, D, k)
    BY LptFunction
  <1> HIDE DEF V
  <1>2. LptCosts(f, T, k) = h[T] /\ h[T] \in V
    BY <1>1 DEF AreLptCosts
  <1> QED BY <1>2 DEF V

\* The plan puts one of the shortest works, the last, into one of the lightest
\* buckets of the plan for the others.
IsLptStep(f, T, k, x, c) ==
    /\ x = LastScheduled(f, T) /\ c = LptCosts(f, T \ {x}, k)
    /\ LptCosts(f, T, k) = [c EXCEPT ![Lightest(c)] = @ + f[x]]
    /\ Lightest(c) \in 1..k /\ \A j \in 1..k : c[Lightest(c)] <= c[j]
    /\ \A v \in T : f[x] <= f[v]

LEMMA LptStep ==
    ASSUME NEW D \in SUBSET Nat, IsFiniteSet(D), NEW f \in [D -> Nat], NEW k \in Nat \ {0},
           NEW T \in SUBSET D, T # {}
    PROVE  \E x \in T : \E c \in [1..k -> Nat] : IsLptStep(f, T, k, x, c)
  <1> DEFINE x == LastScheduled(f, T)
             c == LptCosts(f, T \ {x}, k)
  <1>1. PICK h \in [SUBSET D -> [1..k -> Nat]] : AreLptCosts(h, f, D, k)
    BY LptFunction
  <1>2. x \in T /\ \A v \in T : f[x] <= f[v]
    BY LastIsShortest
  <1>3. T \ {x} \in SUBSET D
    OBVIOUS
  <1>4. c \in [1..k -> Nat]
    BY <1>3, LptType
  <1>5. LptCosts(f, T, k) = h[T] /\ c = h[T \ {x}]
    BY <1>1, <1>3 DEF AreLptCosts
  <1>6. h[T] = [h[T \ {x}] EXCEPT ![Lightest(h[T \ {x}])] = @ + f[x]]
    BY <1>1 DEF AreLptCosts
  <1> HIDE DEF x, c
  <1>7. LptCosts(f, T, k) = [c EXCEPT ![Lightest(c)] = @ + f[x]]
    BY <1>5, <1>6
  <1>8. Lightest(c) \in 1..k /\ \A j \in 1..k : c[Lightest(c)] <= c[j]
    BY <1>4, LightestIsLeast
  <1>9. IsLptStep(f, T, k, x, c)
    BY <1>2, <1>7, <1>8 DEF IsLptStep, x, c
  <1> QED BY <1>2, <1>4, <1>9

\* The largest load of some buckets.
LEMMA LargestLoad ==
    ASSUME NEW k \in Nat \ {0}, NEW c \in [1..k -> Nat]
    PROVE  /\ \E i \in 1..k : Max({c[j] : j \in DOMAIN c}) = c[i]
           /\ \A i \in 1..k : c[i] <= Max({c[j] : j \in DOMAIN c})
  <1> DEFINE image == {c[j] : j \in DOMAIN c}
  <1>1. IsFiniteSet(image)
    <2>1. c \in Surjection(1..k, image)
      BY DEF Surjection
    <2>2. IsFiniteSet(1..k)
      BY FS_Interval
    <2> HIDE DEF image
    <2> QED BY <2>1, <2>2, FS_Surjection
  <1>2. image \in SUBSET Int /\ c[1] \in image
    OBVIOUS
  <1>3. Max(image) \in image /\ \A y \in image : y <= Max(image)
    <2> HIDE DEF image
    <2>1. PICK x \in image : \A y \in image : y <= x
      BY <1>1, <1>2, FiniteHasLargest
    <2>2. \A y \in image : x >= y
      BY <2>1
    <2>3. Max(image) \in image /\ \A y \in image : Max(image) >= y
      BY <2>2 DEF Max
    <2> QED BY <2>3
  <1>4. \A i \in 1..k : c[i] \in image
    OBVIOUS
  <1>5. \E i \in 1..k : Max(image) = c[i]
    BY <1>3
  <1> HIDE DEF image
  <1>6. \A i \in 1..k : c[i] <= Max(image)
    BY <1>3, <1>4
  <1> QED BY <1>5, <1>6 DEF image

\* A plan for more workers is never worse: its buckets can be matched with
\* buckets of the plan for fewer that are no lighter, and none is heavier than
\* all of those.
Dominates(c, k, d, l) ==
    /\ \E e \in [1..k -> 1..l] :
          /\ \A i, j \in 1..k : i # j => e[i] # e[j]
          /\ \A i \in 1..k : d[e[i]] <= c[i]
    /\ \A j \in 1..l : \E i \in 1..k : d[j] <= c[i]

LEMMA DominatesStep ==
    ASSUME NEW k \in Nat \ {0}, NEW l \in Nat \ {0}, NEW c \in [1..k -> Nat],
           NEW d \in [1..l -> Nat], Dominates(c, k, d, l),
           NEW p \in 1..k, \A i \in 1..k : c[p] <= c[i],
           NEW q \in 1..l, \A j \in 1..l : d[q] <= d[j], NEW n \in Nat
    PROVE  Dominates([c EXCEPT ![p] = @ + n], k, [d EXCEPT ![q] = @ + n], l)
  <1> DEFINE c2 == [c EXCEPT ![p] = @ + n]
             d2 == [d EXCEPT ![q] = @ + n]
  <1>1. PICK e \in [1..k -> 1..l] : /\ \A i, j \in 1..k : i # j => e[i] # e[j]
                                    /\ \A i \in 1..k : d[e[i]] <= c[i]
    BY DEF Dominates
  <1> DEFINE e2 == [i \in 1..k |-> IF i = p THEN q ELSE IF e[i] = q THEN e[p] ELSE e[i]]
  <1>2. /\ \A i \in 1..k : c[i] \in Nat /\ c2[i] = IF i = p THEN c[i] + n ELSE c[i]
        /\ \A j \in 1..l : d[j] \in Nat /\ d2[j] = IF j = q THEN d[j] + n ELSE d[j]
    OBVIOUS
  <1>3. d[q] <= c[p]
    BY <1>1, <1>2
  <1> HIDE DEF c2, d2
  <1>4. e2 \in [1..k -> 1..l] /\ \A i, j \in 1..k : i # j => e2[i] # e2[j]
    BY <1>1
  <1>5. ASSUME NEW i \in 1..k PROVE d2[e2[i]] <= c2[i]
    <2>1. CASE i = p
      BY <1>2, <1>3, <2>1
    <2>2. CASE i # p /\ e[i] = q
      <3>1. e2[i] = e[p] /\ e[p] # q /\ e[p] \in 1..l
        BY <1>1, <2>2
      <3>2. d[e[p]] <= c[p] /\ c[p] <= c[i]
        BY <1>1
      <3>3. d2[e[p]] = d[e[p]] /\ c2[i] = c[i] /\ d[e[p]] \in Nat /\ c[p] \in Nat /\ c[i] \in Nat
        BY <1>2, <2>2, <3>1
      <3> HIDE DEF e2
      <3> QED BY <3>1, <3>2, <3>3
    <2>3. CASE i # p /\ e[i] # q
      BY <1>1, <1>2, <2>3
    <2> QED BY <2>1, <2>2, <2>3
  <1>6. ASSUME NEW j \in 1..l PROVE \E i \in 1..k : d2[j] <= c2[i]
    <2>1. CASE j = q
      BY <1>2, <1>3, <2>1
    <2>2. CASE j # q
      <3>1. PICK i \in 1..k : d[j] <= c[i]
        BY DEF Dominates
      <3>2. d2[j] = d[j] /\ d[j] \in Nat /\ c[i] \in Nat /\ (c2[i] = c[i] + n \/ c2[i] = c[i])
        BY <1>2, <2>2
      <3>3. d2[j] <= c2[i]
        <4>1. \A m, r \in Nat : m <= r => m <= r /\ m <= r + n
          OBVIOUS
        <4> HIDE DEF e2
        <4>2. d[j] <= c[i] /\ d[j] <= c[i] + n
          BY <3>1, <3>2, <4>1
        <4> QED BY <3>2, <4>2
      <3> QED BY <3>3
    <2> QED BY <2>1, <2>2
  <1> HIDE DEF e2
  <1>7. Dominates(c2, k, d2, l)
    BY <1>4, <1>5, <1>6 DEF Dominates
  <1> QED BY <1>7 DEF c2, d2

LEMMA MoreWorkers ==
    ASSUME NEW D \in SUBSET Nat, IsFiniteSet(D), NEW f \in [D -> Nat],
           NEW k \in Nat \ {0}, NEW l \in Nat \ {0}, k <= l, NEW T \in SUBSET D
    PROVE  LptMakespan(f, T, l) <= LptMakespan(f, T, k)
  <1> DEFINE Bad == {U \in SUBSET D : ~Dominates(LptCosts(f, U, k), k, LptCosts(f, U, l), l)}
  <1>1. Bad = {}
    <2> SUFFICES ASSUME Bad # {} PROVE FALSE
      OBVIOUS
    <2>1. PICK U \in Bad : \A x \in U : U \ {x} \notin Bad
      <3> HIDE DEF Bad
      <3>1. Bad \in SUBSET (SUBSET D)
        BY DEF Bad
      <3> QED BY <3>1, SmallestSet
    <2>2. U \in SUBSET D /\ ~Dominates(LptCosts(f, U, k), k, LptCosts(f, U, l), l)
      BY <2>1
    <2>3. CASE U = {}
      <3>1. /\ LptCosts(f, {}, k) = [i \in 1..k |-> 0]
            /\ LptCosts(f, {}, l) = [i \in 1..l |-> 0]
        BY LptEmpty
      <3>2. [i \in 1..k |-> i] \in [1..k -> 1..l]
        OBVIOUS
      <3>3. Dominates([i \in 1..k |-> 0], k, [i \in 1..l |-> 0], l)
        <4>1. \A j \in 1..l : \E i \in 1..k : [m \in 1..l |-> 0][j] <= [m \in 1..k |-> 0][i]
          <5>1. 1 \in 1..k
            OBVIOUS
          <5> QED BY <5>1
        <4>2. \E e \in [1..k -> 1..l] :
                /\ \A i, j \in 1..k : i # j => e[i] # e[j]
                /\ \A i \in 1..k : [m \in 1..l |-> 0][e[i]] <= [m \in 1..k |-> 0][i]
          <5> WITNESS [i \in 1..k |-> i] \in [1..k -> 1..l]
          <5> QED OBVIOUS
        <4> QED BY <4>1, <4>2 DEF Dominates
      <3> QED BY <2>2, <2>3, <3>1, <3>3
    <2>4. CASE U # {}
      <3>1. PICK x \in U : \E c \in [1..k -> Nat] : IsLptStep(f, U, k, x, c)
        BY <2>2, <2>4, LptStep
      <3>2. PICK c \in [1..k -> Nat] : IsLptStep(f, U, k, x, c)
        BY <3>1
      <3>3. PICK y \in U : \E d \in [1..l -> Nat] : IsLptStep(f, U, l, y, d)
        BY <2>2, <2>4, LptStep
      <3>4. PICK d \in [1..l -> Nat] : IsLptStep(f, U, l, y, d)
        BY <3>3
      <3>5. x = y /\ c = LptCosts(f, U \ {x}, k) /\ d = LptCosts(f, U \ {x}, l)
        BY <3>2, <3>4 DEF IsLptStep
      <3>6. Dominates(c, k, d, l)
        BY <2>1, <3>5
      <3>7. f[x] \in Nat
        OBVIOUS
      <3>8. Dominates([c EXCEPT ![Lightest(c)] = @ + f[x]], k, [d EXCEPT ![Lightest(d)] = @ + f[x]], l)
        BY <3>2, <3>4, <3>5, <3>6, <3>7, DominatesStep DEF IsLptStep
      <3> QED BY <2>2, <3>2, <3>4, <3>5, <3>8 DEF IsLptStep
    <2> QED BY <2>3, <2>4
  <1> DEFINE c == LptCosts(f, T, k)
             d == LptCosts(f, T, l)
  <1>2. Dominates(c, k, d, l)
    BY <1>1
  <1>3. c \in [1..k -> Nat] /\ d \in [1..l -> Nat]
    BY LptType
  <1>4. LptMakespan(f, T, k) = Max({c[i] : i \in DOMAIN c})
        /\ LptMakespan(f, T, l) = Max({d[i] : i \in DOMAIN d})
    BY DEF LptMakespan
  <1> HIDE DEF c, d
  <1>5. PICK j \in 1..l : LptMakespan(f, T, l) = d[j]
    BY <1>3, <1>4, LargestLoad
  <1>6. PICK i \in 1..k : d[j] <= c[i]
    BY <1>2 DEF Dominates
  <1>7. c[i] <= LptMakespan(f, T, k)
    BY <1>3, <1>4, LargestLoad
  <1>8. PICK m \in 1..k : LptMakespan(f, T, k) = c[m]
    BY <1>3, <1>4, LargestLoad
  <1> QED BY <1>3, <1>5, <1>6, <1>7, <1>8

\* The loads of the plan are those of an assignment of works to buckets.
Assigns(A, f, T, k, c) == \A i \in 1..k : c[i] = Total(f, {w \in T : A[w] = i})

LEMMA LptAssigns ==
    ASSUME NEW D \in SUBSET Nat, IsFiniteSet(D), NEW f \in [D -> Nat], NEW k \in Nat \ {0},
           NEW T \in SUBSET D
    PROVE  \E A \in [T -> 1..k] : Assigns(A, f, T, k, LptCosts(f, T, k))
  <1> DEFINE Bad == {U \in SUBSET D : ~\E A \in [U -> 1..k] : Assigns(A, f, U, k, LptCosts(f, U, k))}
  <1>0. \A S \in SUBSET D : \A x \in D \ S : Total(f, S \cup {x}) = f[x] + Total(f, S)
    BY TotalAdd
  <1>1. Bad = {}
    <2> SUFFICES ASSUME Bad # {} PROVE FALSE
      OBVIOUS
    <2>1. PICK U \in Bad : \A x \in U : U \ {x} \notin Bad
      <3> HIDE DEF Bad
      <3>1. Bad \in SUBSET (SUBSET D)
        BY DEF Bad
      <3> QED BY <3>1, SmallestSet
    <2>2. U \in SUBSET D /\ ~\E A \in [U -> 1..k] : Assigns(A, f, U, k, LptCosts(f, U, k))
      BY <2>1
    <2> HIDE DEF Bad
    <2>3. CASE U = {}
      <3> DEFINE A == [w \in U |-> 1]
      <3>1. A \in [U -> 1..k]
        BY <2>3
      <3>2. \A i \in 1..k : {w \in U : A[w] = i} = {}
        BY <2>3
      <3>3. Total(f, {}) = 0 /\ LptCosts(f, U, k) = [i \in 1..k |-> 0]
        BY <2>3, TotalStep, LptEmpty
      <3>4. Assigns(A, f, U, k, LptCosts(f, U, k))
        BY <3>2, <3>3 DEF Assigns
      <3> QED BY <2>2, <3>1, <3>4
    <2>4. CASE U # {}
      <3>1. PICK x \in U : \E c \in [1..k -> Nat] : IsLptStep(f, U, k, x, c)
        BY <2>2, <2>4, LptStep
      <3>2. PICK c \in [1..k -> Nat] : IsLptStep(f, U, k, x, c)
        BY <3>1
      <3>3. c = LptCosts(f, U \ {x}, k) /\ U \ {x} \in SUBSET D
        BY <2>2, <3>2 DEF IsLptStep
      <3>4. PICK A \in [U \ {x} -> 1..k] : Assigns(A, f, U \ {x}, k, c)
        BY <2>1, <3>3 DEF Bad
      <3> DEFINE p == Lightest(c)
                 A2 == [w \in U |-> IF w = x THEN p ELSE A[w]]
                 d == LptCosts(f, U, k)
      <3>5. p \in 1..k /\ d = [c EXCEPT ![p] = @ + f[x]] /\ f[x] \in Nat
        BY <2>2, <3>2 DEF IsLptStep
      <3> HIDE DEF p, d
      <3>6. A2 \in [U -> 1..k]
        BY <3>4, <3>5
      <3>7. ASSUME NEW i \in 1..k PROVE d[i] = Total(f, {w \in U : A2[w] = i})
        <4> DEFINE B == {w \in U \ {x} : A[w] = i}
        <4>1. c[i] = Total(f, B) /\ c[i] \in Nat
          BY <3>4 DEF Assigns
        <4>2. CASE i = p
          <5>1. {w \in U : A2[w] = i} = B \cup {x} /\ x \notin B
            BY <4>2
          <5>2. B \in SUBSET D /\ x \in D
            BY <2>2
          <5> HIDE DEF B, A2
          <5>3. Total(f, B \cup {x}) = f[x] + Total(f, B)
            BY <1>0, <5>1, <5>2
          <5>4. d[i] = c[i] + f[x]
            BY <3>5, <4>2
          <5>5. Total(f, B \cup {x}) = d[i]
            BY <3>5, <4>1, <5>3, <5>4
          <5> QED BY <5>1, <5>5
        <4>3. CASE i # p
          <5>1. {w \in U : A2[w] = i} = B
            BY <4>3
          <5>2. d[i] = c[i]
            BY <3>5, <4>3
          <5> QED BY <4>1, <5>1, <5>2
        <4> QED BY <4>2, <4>3
      <3>8. Assigns(A2, f, U, k, d)
        BY <3>7 DEF Assigns
      <3> HIDE DEF A2
      <3> QED BY <2>2, <3>6, <3>8 DEF d
    <2> QED BY <2>3, <2>4
  <1> QED BY <1>1

\* No bucket of A holds less than b, or more.
AllAtLeast(A, f, T, k, b) == \A i \in 1..k : Total(f, {w \in T : A[w] = i}) >= b
AllAtMost(A, f, T, k, b) == \A i \in 1..k : Total(f, {w \in T : A[w] = i}) <= b

\* The last work of a plan ends within 4/3 - 1/(3k) of what any other plan P
\* takes, M.  A last work that is at most a third of M adds little to buckets
\* that are, on average, no heavier than those of P.  One that is longer shares
\* a bucket of P with at most one work, and with none as long as L, the load it
\* is added to; the buckets of the plan, of load L or more, hold one work as
\* long as L or two that are shorter.  Counted twice, works as long as L make at
\* most 2k with the last work, and at least 2k without it.
LEMMA LastWorkBound ==
    ASSUME NEW D, IsFiniteSet(D), NEW f \in [D -> Nat], NEW k \in Nat \ {0},
           NEW U \in SUBSET D, NEW x \in U, \A v \in U : f[x] <= f[v],
           NEW A \in [U \ {x} -> 1..k], NEW L \in Nat,
           AllAtLeast(A, f, U \ {x}, k, L),
           NEW P \in [U -> 1..k], NEW M \in Nat, AllAtMost(P, f, U, k, M)
    PROVE  3 * k * (L + f[x]) <= (4 * k - 1) * M
  <1> USE DEF AllAtLeast, AllAtMost
  <1>1. f[x] \in Nat /\ (\A v \in U : f[v] \in Nat) /\ U \ {x} \in SUBSET D
    OBVIOUS
  <1>2. f[x] <= M
    <2> DEFINE B == {w \in U : P[w] = P[x]}
    <2>1. x \in B /\ B \in SUBSET D
      OBVIOUS
    <2>2. Total(f, B) >= f[x]
      <3> HIDE DEF B
      <3> QED BY <2>1, TotalOfSome
    <2>3. Total(f, B) <= M /\ Total(f, B) \in Nat
      <3>1. P[x] \in 1..k
        OBVIOUS
      <3>2. Total(f, B) \in Nat
        BY <2>1, TotalType
      <3> QED BY <3>1, <3>2
    <2> HIDE DEF B
    <2> QED BY <1>1, <2>2, <2>3
  <1>3. CASE 3 * f[x] <= M
    <2>1. Total(f, U \ {x}) >= k * L
      BY <1>1, BucketTotals
    <2>2. Total(f, U) <= k * M
      BY BucketTotals
    <2>3. Total(f, U) = f[x] + Total(f, U \ {x}) /\ Total(f, U \ {x}) \in Nat
      BY <1>1, TotalStep, TotalType
    <2> DEFINE d == f[x]
               kl == k * L
               km == k * M
               kd == k * d
    <2>4. (k - 1) * (3 * d) <= (k - 1) * M
      BY <1>1, <1>3
    <2>5. (k - 1) * (3 * d) = 3 * kd - 3 * d /\ (k - 1) * M = km - M
      BY <1>1
    <2>6. 3 * k * (L + d) = 3 * kl + 3 * kd /\ (4 * k - 1) * M = 4 * km - M
      BY <1>1
    <2>7. kl \in Nat /\ km \in Nat /\ kd \in Nat /\ d \in Nat
      BY <1>1
    <2>8. kl + d <= km
      <3> HIDE DEF kl, km, d
      <3> QED BY <2>1, <2>2, <2>3, <2>7 DEF kl, km, d
    <2>9. 3 * kd - 3 * d <= km - M
      BY <2>4, <2>5
    <2> HIDE DEF kl, km, kd, d
    <2>10. 3 * kl + 3 * kd <= 4 * km - M
      BY <2>7, <2>8, <2>9
    <2> QED BY <2>6, <2>10 DEF d
  <1>4. CASE 3 * f[x] > M
    <2>1. L + f[x] <= M
      <3> SUFFICES ASSUME L + f[x] > M PROVE FALSE
        BY <1>1
      <3> DEFINE g == [w \in D |-> IF f[w] >= L THEN 2 ELSE 1]
      <3>1. L > 0
        BY <1>1, <1>2
      <3>2. g \in [D -> Nat] /\ \A w \in D : g[w] = IF f[w] >= L THEN 2 ELSE 1
        OBVIOUS
      <3> HIDE DEF g
      <3>3. ASSUME NEW i \in 1..k PROVE Total(g, {w \in U : P[w] = i}) <= 2
        <4> DEFINE B == {w \in U : P[w] = i}
        <4>1. B \in SUBSET D /\ B \in SUBSET U /\ Total(f, B) <= M
          OBVIOUS
        <4> HIDE DEF B
        <4>2. Total(f, B) \in Nat
          BY <4>1, TotalType
        <4>3. \A v, w \in B : v # w => f[v] + f[w] <= M
          <5> SUFFICES ASSUME NEW v \in B, NEW w \in B, v # w PROVE f[v] + f[w] <= M
            OBVIOUS
          <5>1. Total(f, B) >= f[v] + f[w]
            BY <4>1, TotalOfSome
          <5> QED BY <1>1, <4>1, <4>2, <5>1
        <4>4. \A u, v, w \in B : u = v \/ v = w \/ u = w
          <5> SUFFICES ASSUME NEW u \in B, NEW v \in B, NEW w \in B, u # v, v # w, u # w
                       PROVE  FALSE
            OBVIOUS
          <5>1. Total(f, B) >= f[u] + f[v] + f[w]
            BY <4>1, TotalOfSome
          <5>2. f[u] >= f[x] /\ f[v] >= f[x] /\ f[w] >= f[x]
                /\ f[u] \in Nat /\ f[v] \in Nat /\ f[w] \in Nat
            BY <1>1, <4>1
          <5> QED BY <1>1, <1>4, <4>1, <4>2, <5>1, <5>2
        <4>5. CASE B = {}
          <5>1. Total(g, {}) = 0
            BY <3>2, TotalStep
          <5> QED BY <4>5, <5>1 DEF B
        <4>6. CASE \E v \in B : B = {v}
          <5>1. PICK v \in B : B = {v}
            BY <4>6
          <5>2. Total(g, B) = g[v]
            BY <3>2, <4>1, <5>1, TotalOfSome
          <5> QED BY <3>2, <4>1, <5>2 DEF B
        <4>7. CASE \E v, w \in B : v # w
          <5>1. PICK v \in B, w \in B : v # w
            BY <4>7
          <5>2. B = {v, w}
            BY <4>4, <5>1
          <5>3. Total(g, B) = g[v] + g[w]
            BY <3>2, <4>1, <5>1, <5>2, TotalOfSome
          <5>4. f[v] + f[w] <= M /\ f[x] <= f[v] /\ f[x] <= f[w]
                /\ f[v] \in Nat /\ f[w] \in Nat /\ v \in D /\ w \in D
            BY <1>1, <4>1, <4>3, <5>1
          <5>5. f[v] < L /\ f[w] < L
            BY <1>1, <5>4
          <5>6. g[v] = 1 /\ g[w] = 1
            BY <3>2, <5>4, <5>5
          <5> QED BY <5>3, <5>6 DEF B
        <4> QED BY <4>5, <4>6, <4>7
      <3>4. ASSUME NEW i \in 1..k PROVE Total(g, {w \in U \ {x} : A[w] = i}) >= 2
        <4> DEFINE B == {w \in U \ {x} : A[w] = i}
        <4>1. B \in SUBSET D /\ B \in SUBSET U /\ Total(f, B) >= L
          OBVIOUS
        <4> HIDE DEF B
        <4>2. Total(g, B) \in Nat
          BY <3>2, <4>1, TotalType
        <4>3. CASE \E v \in B : f[v] >= L
          <5>1. PICK v \in B : f[v] >= L
            BY <4>3
          <5>2. Total(g, B) >= g[v] /\ g[v] = 2
            BY <3>2, <4>1, <5>1, TotalOfSome
          <5> QED BY <4>2, <5>2 DEF B
        <4>4. CASE \A v \in B : ~(f[v] >= L)
          <5>1. B # {}
            <6>1. Total(f, {}) = 0
              BY TotalStep
            <6> QED BY <3>1, <4>1, <6>1
          <5>2. PICK v \in B : TRUE
            BY <5>1
          <5>3. B # {v}
            <6> SUFFICES ASSUME B = {v} PROVE FALSE
              OBVIOUS
            <6>1. Total(f, B) = f[v]
              BY <4>1, TotalOfSome
            <6> QED BY <4>1, <4>4, <5>2, <6>1
          <5>4. PICK w \in B : w # v
            BY <5>2, <5>3
          <5>5. Total(g, B) >= g[v] + g[w]
            BY <3>2, <4>1, <5>2, <5>4, TotalOfSome
          <5>6. g[v] \in {1, 2} /\ g[w] \in {1, 2}
            BY <3>2, <4>1, <5>2, <5>4
          <5> QED BY <4>2, <5>5, <5>6 DEF B
        <4> QED BY <4>3, <4>4
      <3>5. Total(g, U) <= k * 2
        BY <3>2, <3>3, BucketTotals
      <3>6. Total(g, U \ {x}) >= k * 2
        BY <1>1, <3>2, <3>4, BucketTotals
      <3>7. Total(g, U) = g[x] + Total(g, U \ {x}) /\ Total(g, U \ {x}) \in Nat
        BY <1>1, <3>2, TotalStep, TotalType
      <3>8. g[x] \in {1, 2}
        BY <3>2
      <3> QED BY <3>5, <3>6, <3>7, <3>8
    <2> DEFINE m == L + f[x]
    <2>2. m \in Nat /\ m <= M
      BY <1>1, <2>1
    <2> HIDE DEF m
    <2>3. 3 * k * m <= 3 * k * M
      BY <2>2
    <2>4. (4 * k - 1) * M = 3 * k * M + (k - 1) * M /\ (k - 1) * M >= 0
      OBVIOUS
    <2>5. 3 * k * m \in Int /\ 3 * k * M \in Int /\ (k - 1) * M \in Int
      BY <2>2
    <2> QED BY <2>3, <2>4, <2>5 DEF m
  <1> QED BY <1>1, <1>3, <1>4

\* The longest-processing-time plan for k workers takes at most 4/3 - 1/(3k) of
\* the time of any other.
LEMMA LptBound ==
    ASSUME NEW D \in SUBSET Nat, IsFiniteSet(D), NEW f \in [D -> Nat], NEW k \in Nat \ {0},
           NEW T \in SUBSET D, NEW P \in [T -> 1..k], NEW M \in Nat, AllAtMost(P, f, T, k, M)
    PROVE  3 * k * LptMakespan(f, T, k) <= (4 * k - 1) * M
  <1> DEFINE Within(n) == 3 * k * n <= (4 * k - 1) * M
             Bad == {U \in SUBSET T : \E i \in 1..k : ~Within(LptCosts(f, U, k)[i])}
  <1>1. Bad = {}
    <2> SUFFICES ASSUME Bad # {} PROVE FALSE
      OBVIOUS
    <2>1. PICK U \in Bad : \A x \in U : U \ {x} \notin Bad
      <3> HIDE DEF Bad
      <3>1. Bad \in SUBSET (SUBSET T) /\ IsFiniteSet(T)
        BY FS_Subset DEF Bad
      <3> QED BY <3>1, SmallestSet
    <2>2. U \in SUBSET T /\ U \in SUBSET D /\ \E i \in 1..k : ~Within(LptCosts(f, U, k)[i])
      BY <2>1
    <2>3. \A x \in U : \A i \in 1..k : Within(LptCosts(f, U \ {x}, k)[i])
      <3> HIDE DEF Within
      <3> QED BY <2>1
    <2> HIDE DEF Bad, Within
    <2>4. PICK i \in 1..k : ~Within(LptCosts(f, U, k)[i])
      BY <2>2
    <2>5. CASE U = {}
      <3>1. LptCosts(f, U, k)[i] = 0
        BY <2>5, LptEmpty
      <3>2. Within(0)
        <4>1. (4 * k - 1) * M >= 0 /\ 3 * k * 0 = 0
          OBVIOUS
        <4> QED BY <4>1 DEF Within
      <3> QED BY <2>4, <3>1, <3>2
    <2>6. CASE U # {}
      <3>1. PICK x \in U : \E c \in [1..k -> Nat] : IsLptStep(f, U, k, x, c)
        BY <2>2, <2>6, LptStep
      <3>2. PICK c \in [1..k -> Nat] : IsLptStep(f, U, k, x, c)
        BY <3>1
      <3> DEFINE p == Lightest(c)
      <3>3. /\ c = LptCosts(f, U \ {x}, k) /\ LptCosts(f, U, k) = [c EXCEPT ![p] = @ + f[x]]
            /\ p \in 1..k /\ (\A j \in 1..k : c[p] <= c[j]) /\ (\A v \in U : f[x] <= f[v])
        BY <3>2 DEF IsLptStep
      <3> HIDE DEF p
      <3>4. CASE i # p
        <4>1. LptCosts(f, U, k)[i] = c[i]
          BY <3>3, <3>4
        <4> QED BY <2>3, <2>4, <3>3, <4>1
      <3>5. CASE i = p
        <4>1. LptCosts(f, U, k)[i] = c[p] + f[x]
          BY <3>3, <3>5
        <4>2. U \ {x} \in SUBSET D
          BY <2>2
        <4>3. PICK A \in [U \ {x} -> 1..k] : Assigns(A, f, U \ {x}, k, c)
          BY <3>3, <4>2, LptAssigns
        <4>4. AllAtLeast(A, f, U \ {x}, k, c[p])
          <5> SUFFICES ASSUME NEW j \in 1..k
                       PROVE  Total(f, {w \in U \ {x} : A[w] = j}) >= c[p]
            BY DEF AllAtLeast
          <5>1. c[j] = Total(f, {w \in U \ {x} : A[w] = j})
            BY <4>3 DEF Assigns
          <5>2. c[p] <= c[j] /\ c[j] \in Nat /\ c[p] \in Nat
            BY <3>3
          <5> QED BY <5>1, <5>2
        <4> DEFINE Q == [w \in U |-> P[w]]
        <4>5. Q \in [U -> 1..k]
          BY <2>2
        <4>6. ASSUME NEW j \in 1..k PROVE Total(f, {w \in U : Q[w] = j}) <= M
          <5> DEFINE B == {w \in T : P[w] = j}
                     C == {w \in U : Q[w] = j}
          <5>1. B \in SUBSET D /\ C \in SUBSET B /\ C \in SUBSET D /\ Total(f, B) <= M
            BY <2>2 DEF AllAtMost
          <5> HIDE DEF B, C
          <5>2. Total(f, C) <= Total(f, B)
            BY <5>1, TotalGrows
          <5>3. Total(f, C) \in Nat /\ Total(f, B) \in Nat
            BY <5>1, TotalType
          <5>4. Total(f, C) <= M
            BY <5>1, <5>2, <5>3
          <5> QED BY <5>4 DEF C
        <4>7. AllAtMost(Q, f, U, k, M)
          BY <4>6 DEF AllAtMost
        <4> HIDE DEF Q
        <4>8. c[p] \in Nat
          BY <3>3
        <4> DEFINE L == c[p]
        <4> HIDE DEF L
        <4>9. 3 * k * (L + f[x]) <= (4 * k - 1) * M
          BY <2>2, <3>3, <4>4, <4>5, <4>7, <4>8, LastWorkBound DEF L
        <4> QED BY <2>4, <4>1, <4>9 DEF Within, L
      <3> QED BY <3>4, <3>5
    <2> QED BY <2>5, <2>6
  <1> DEFINE c == LptCosts(f, T, k)
  <1>2. \A i \in 1..k : Within(c[i])
    <2> HIDE DEF Within
    <2> QED BY <1>1
  <1>3. c \in [1..k -> Nat]
    BY LptType
  <1>4. LptMakespan(f, T, k) = Max({c[i] : i \in DOMAIN c})
    BY DEF LptMakespan
  <1> HIDE DEF c, Within
  <1>5. PICK i \in 1..k : LptMakespan(f, T, k) = c[i]
    BY <1>3, <1>4, LargestLoad
  <1>6. Within(LptMakespan(f, T, k))
    BY <1>2, <1>5
  <1> QED BY <1>6 DEF Within

LEMMA LeastOf ==
    ASSUME NEW S \in SUBSET Nat, S # {}
    PROVE  Min(S) \in S /\ \A y \in S : Min(S) <= y
  <1>1. PICK x \in S : \A y \in S : x <= y
    BY LeastNatural
  <1> QED BY <1>1 DEF Min

\* The process job plans as many tasks as the store counted on.
LEMMA WorkerNumbers ==
    ASSUME NEW p, IsProfile(p), NEW n \in Nat \ {0}
    PROVE  /\ StoreWorkers(p) \in Nat \ {0} /\ ProcessWorkers(p, n) \in Nat \ {0}
           /\ Min({n, StoreWorkers(p)}) \in Nat \ {0}
           /\ Min({n, StoreWorkers(p)}) <= ProcessWorkers(p, n)
  <1> DEFINE slots == (p.instances * p.cores) \div p.task_cpus
             room == p.instances * (p.usable \div p.peak)
             roomy == IF p.peak = 0 THEN {} ELSE {room}
             Store == {p.instances, slots} \cup roomy
             Process == {n, p.planned, slots} \cup roomy
  <1>1. /\ p.instances \in Nat \ {0} /\ p.cores \in Nat \ {0} /\ p.task_cpus \in Nat \ {0}
        /\ p.planned \in Nat \ {0} /\ p.usable \in Nat /\ p.peak \in Nat
        /\ p.task_cpus <= p.cores /\ p.instances <= p.planned /\ p.peak <= p.usable
    BY DEF IsProfile
  <1>2. \A a \in Nat, b \in Nat \ {0} : a >= b => a \div b \in Nat \ {0}
    OBVIOUS
  <1>3. \A a \in Nat \ {0}, b \in Nat \ {0} : a * b \in Nat \ {0} /\ a * b >= b
    OBVIOUS
  <1>4. slots \in Nat \ {0}
    <2>1. p.instances * p.cores \in Nat /\ p.instances * p.cores >= p.task_cpus
      <3>1. p.instances * p.cores \in Nat /\ p.instances * p.cores >= p.cores
        BY <1>1, <1>3
      <3> QED BY <1>1, <3>1
    <2> QED BY <1>1, <1>2, <2>1
  <1>5. roomy \in SUBSET (Nat \ {0})
    <2>1. CASE p.peak # 0
      <3>1. p.usable \div p.peak \in Nat \ {0}
        BY <1>1, <1>2, <2>1
      <3> QED BY <1>1, <1>3, <3>1
    <2> QED BY <2>1
  <1>6. StoreWorkers(p) = Min(Store) /\ ProcessWorkers(p, n) = Min(Process)
    BY DEF StoreWorkers, ProcessWorkers
  <1> HIDE DEF slots, roomy
  <1>7. Store \in SUBSET (Nat \ {0}) /\ Process \in SUBSET (Nat \ {0})
        /\ Store # {} /\ Process # {}
    BY <1>1, <1>4, <1>5
  <1>8. /\ Min(Store) \in Store /\ \A y \in Store : Min(Store) <= y
        /\ Min(Process) \in Process /\ \A y \in Process : Min(Process) <= y
    <2> HIDE DEF Store, Process
    <2>1. Store \in SUBSET Nat /\ Process \in SUBSET Nat
      BY <1>7
    <2> QED BY <1>7, <2>1, LeastOf
  <1>9. Min({n, Min(Store)}) \in {n, Min(Store)} /\ \A y \in {n, Min(Store)} : Min({n, Min(Store)}) <= y
    <2>1. {n, Min(Store)} \in SUBSET Nat /\ {n, Min(Store)} # {}
      BY <1>7, <1>8
    <2> HIDE DEF Store
    <2> QED BY <2>1, LeastOf
  <1>10. Min(Store) \in Nat \ {0} /\ Min(Process) \in Nat \ {0}
    BY <1>7, <1>8
  <1>11. /\ Min({n, Min(Store)}) <= n
         /\ Min({n, Min(Store)}) <= Min(Store)
    BY <1>9
  <1> DEFINE k == Min({n, Min(Store)})
             s == Min(Store)
  <1>12. k \in Nat \ {0}
    BY <1>9, <1>10
  <1>13. k <= p.planned
    <2>1. s <= p.instances
      BY <1>8
    <2> HIDE DEF k, s
    <2>2. k <= s /\ s \in Nat /\ k \in Nat
      BY <1>10, <1>11, <1>12 DEF k, s
    <2> QED BY <1>1, <2>1, <2>2
  <1>14. \A y \in {slots} \cup roomy : k <= y
    <2> SUFFICES ASSUME NEW y \in {slots} \cup roomy PROVE k <= y
      OBVIOUS
    <2>1. s <= y /\ y \in Nat
      BY <1>4, <1>5, <1>8
    <2> HIDE DEF k, s
    <2>2. k <= s /\ s \in Nat /\ k \in Nat
      BY <1>10, <1>11, <1>12 DEF k, s
    <2> QED BY <2>1, <2>2
  <1>15. \A y \in Process : k <= y
    <2> HIDE DEF k, s
    <2>1. k <= n
      BY <1>11 DEF k
    <2> QED BY <1>13, <1>14, <2>1
  <1>16. k <= Min(Process)
    <2> HIDE DEF k, s, Process
    <2> QED BY <1>8, <1>15
  <1> QED BY <1>6, <1>10, <1>12, <1>16

\* What the invariant says of a claim that was made.
LEMMA ClaimFacts ==
    ASSUME LATypeOK
    PROVE  \E n \in Nat :
              /\ n <= MaxQueue /\ Queue = 1..n /\ IsFiniteSet(Queue) /\ Queue \in SUBSET Nat
              /\ dur \in [Queue -> Nat] /\ prefix \in SUBSET Queue /\ IsFiniteSet(prefix)
              /\ IsProfile(profile)
              /\ (prefix # {} => Cardinality(prefix) \in Nat \ {0})
  <1>1. PICK n \in 1..MaxQueue : dur \in [1..n -> 1..MaxDuration]
    BY DEF LATypeOK
  <1>2. n \in Nat /\ n <= MaxQueue /\ MaxDuration \in Nat
    BY ClaimAssumption DEF ClaimAssumption
  <1>3. Queue = 1..n /\ Queue \in SUBSET Nat
    BY <1>1, <1>2 DEF Queue
  <1>4. IsFiniteSet(Queue)
    BY <1>2, <1>3, FS_Interval
  <1>5. dur \in [Queue -> Nat]
    BY <1>1, <1>2, <1>3
  <1>6. prefix \in SUBSET Queue /\ IsProfile(profile)
    BY ClaimAssumption DEF LATypeOK
  <1>7. IsFiniteSet(prefix)
    BY <1>4, <1>6, FS_Subset
  <1>8. Cardinality(prefix) \in Nat /\ (Cardinality(prefix) = 0 <=> prefix = {})
    BY <1>7, FS_CardinalityType, FS_EmptySet
  <1> QED BY <1>2, <1>3, <1>4, <1>5, <1>6, <1>7, <1>8

\* The load of a worker under a plan, and the time the plan takes.
LEMMA PlanFacts ==
    ASSUME NEW D, IsFiniteSet(D), dur \in [D -> Nat], NEW T \in SUBSET D,
           NEW k \in Nat \ {0}, NEW plan \in Plans(T, k)
    PROVE  /\ PlanMakespan(plan, k) \in Nat
           /\ AllAtMost(plan, dur, T, k, PlanMakespan(plan, k))
           /\ \E i \in 1..k : PlanMakespan(plan, k) = PlanCost(plan, i)
  <1> DEFINE c == [i \in 1..k |-> PlanCost(plan, i)]
  <1>1. plan \in [T -> 1..k]
    BY DEF Plans
  <1>2. \A i \in 1..k : PlanCost(plan, i) = Total(dur, {w \in T : plan[w] = i})
    BY <1>1 DEF PlanCost, Total
  <1>3. ASSUME NEW i \in 1..k PROVE PlanCost(plan, i) \in Nat
    <2> DEFINE B == {w \in T : plan[w] = i}
    <2>1. B \in SUBSET D /\ PlanCost(plan, i) = Total(dur, B)
      BY <1>2
    <2> HIDE DEF B
    <2> QED BY <2>1, TotalType
  <1>4. c \in [1..k -> Nat]
    BY <1>3
  <1>5. PlanMakespan(plan, k) = Max({c[j] : j \in DOMAIN c})
    <2>1. {PlanCost(plan, i) : i \in 1..k} = {c[j] : j \in DOMAIN c}
      OBVIOUS
    <2> QED BY <2>1 DEF PlanMakespan
  <1>6. \A i \in 1..k : c[i] = PlanCost(plan, i)
    OBVIOUS
  <1> HIDE DEF c
  <1>7. \E i \in 1..k : PlanMakespan(plan, k) = c[i]
    BY <1>4, <1>5, LargestLoad
  <1>8. \A i \in 1..k : c[i] <= PlanMakespan(plan, k)
    BY <1>4, <1>5, LargestLoad
  <1>9. AllAtMost(plan, dur, T, k, PlanMakespan(plan, k))
    BY <1>2, <1>6, <1>8 DEF AllAtMost
  <1> QED BY <1>2, <1>3, <1>6, <1>7, <1>9

\* Some plan takes the projected time.
LEMMA LptIsAPlan ==
    ASSUME NEW D \in SUBSET Nat, IsFiniteSet(D), dur \in [D -> Nat], NEW T \in SUBSET D,
           NEW k \in Nat \ {0}
    PROVE  \E plan \in Plans(T, k) : PlanMakespan(plan, k) = LptMakespan(dur, T, k)
  <1> DEFINE c == LptCosts(dur, T, k)
  <1>1. PICK A \in [T -> 1..k] : Assigns(A, dur, T, k, c)
    BY LptAssigns
  <1>2. A \in Plans(T, k)
    BY DEF Plans
  <1>3. c \in [1..k -> Nat] /\ LptMakespan(dur, T, k) = Max({c[i] : i \in DOMAIN c})
    BY LptType DEF LptMakespan
  <1>4. \A i \in 1..k : c[i] = Total(dur, {w \in T : A[w] = i})
    BY <1>1 DEF Assigns
  <1> HIDE DEF c
  <1>5. PICK i \in 1..k : LptMakespan(dur, T, k) = c[i]
    BY <1>3, LargestLoad
  <1>6. \A j \in 1..k : c[j] <= LptMakespan(dur, T, k)
    BY <1>3, LargestLoad
  <1>7. PICK j \in 1..k : PlanMakespan(A, k) = PlanCost(A, j)
    BY <1>2, PlanFacts
  <1>8. Total(dur, {w \in T : A[w] = i}) <= PlanMakespan(A, k)
    <2>1. AllAtMost(A, dur, T, k, PlanMakespan(A, k))
      BY <1>2, PlanFacts
    <2> QED BY <2>1 DEF AllAtMost
  <1>9. PlanCost(A, j) = c[j]
    <2>1. PlanCost(A, j) = Total(dur, {w \in T : A[w] = j})
      BY <1>1 DEF PlanCost, Total
    <2> QED BY <1>4, <2>1
  <1>10. PlanMakespan(A, k) = LptMakespan(dur, T, k)
    <2>1. PlanMakespan(A, k) = c[j] /\ c[i] <= PlanMakespan(A, k) /\ c[j] <= c[i]
      BY <1>4, <1>5, <1>6, <1>7, <1>8, <1>9
    <2>2. c[i] \in Nat /\ c[j] \in Nat
      BY <1>3
    <2> QED BY <1>5, <2>1, <2>2
  <1> QED BY <1>2, <1>10

\* The best plan is one of the plans.
LEMMA OptimumIsAPlan ==
    ASSUME NEW D \in SUBSET Nat, IsFiniteSet(D), dur \in [D -> Nat], NEW T \in SUBSET D,
           NEW k \in Nat \ {0}
    PROVE  \E plan \in Plans(T, k) : Optimum(T, k) = PlanMakespan(plan, k)
  <1> DEFINE times == {PlanMakespan(plan, k) : plan \in Plans(T, k)}
  <1>1. \A plan \in Plans(T, k) : PlanMakespan(plan, k) \in Nat
    BY PlanFacts
  <1>2. times # {}
    BY LptIsAPlan
  <1>3. times \in SUBSET Nat
    BY <1>1
  <1>4. Min(times) \in times
    <2> HIDE DEF times
    <2> QED BY <1>2, <1>3, LeastOf
  <1> QED BY <1>4 DEF Optimum

\* The projection of a claim is the time of a plan, and within the known factor
\* of the best one.
LEMMA ClaimIsLptBound ==
    ASSUME LATypeOK
    PROVE  MakespanIsLptBound
  <1> SUFFICES ASSUME prefix # {} PROVE MakespanIsLptBound
    BY DEF MakespanIsLptBound
  <1> DEFINE k == Min({Cardinality(prefix), StoreWorkers(profile)})
             m == LptMakespan(dur, prefix, k)
  <1>1. /\ IsFiniteSet(Queue) /\ Queue \in SUBSET Nat /\ dur \in [Queue -> Nat]
        /\ prefix \in SUBSET Queue /\ IsProfile(profile) /\ Cardinality(prefix) \in Nat \ {0}
    BY ClaimFacts
  <1>2. k \in Nat \ {0}
    BY <1>1, WorkerNumbers
  <1> HIDE DEF k
  <1>3. \E plan \in Plans(prefix, k) : PlanMakespan(plan, k) = m
    BY <1>1, <1>2, LptIsAPlan
  <1>4. PICK plan \in Plans(prefix, k) : Optimum(prefix, k) = PlanMakespan(plan, k)
    BY <1>1, <1>2, OptimumIsAPlan
  <1> DEFINE M == PlanMakespan(plan, k)
  <1>5. M \in Nat /\ AllAtMost(plan, dur, prefix, k, M)
    BY <1>1, <1>2, PlanFacts
  <1>6. plan \in [prefix -> 1..k]
    BY DEF Plans
  <1> HIDE DEF M
  <1>7. 3 * k * m <= (4 * k - 1) * M
    BY <1>1, <1>2, <1>5, <1>6, LptBound
  <1> QED BY <1>3, <1>4, <1>7 DEF MakespanIsLptBound, k, M

\* The process job, which plans no fewer tasks, projects no more time.
LEMMA ProcessAgrees ==
    ASSUME LATypeOK, PrefixIsLargestFit
    PROVE  ProcessAdmitsClaim
  <1> SUFFICES ASSUME prefix # {} PROVE AdmitLease(dur, prefix, profile, lease)
    BY DEF ProcessAdmitsClaim
  <1> DEFINE n == Cardinality(prefix)
             k == Min({n, StoreWorkers(profile)})
             l == ProcessWorkers(profile, n)
  <1>1. /\ IsFiniteSet(Queue) /\ Queue \in SUBSET Nat /\ dur \in [Queue -> Nat]
        /\ prefix \in SUBSET Queue /\ IsProfile(profile) /\ n \in Nat \ {0}
    BY ClaimFacts
  <1>2. Fits(dur, prefix, StoreWorkers(profile), lease) /\ lease \in Nat
    BY ClaimAssumption DEF PrefixIsLargestFit, LATypeOK
  <1>3. k \in Nat \ {0} /\ l \in Nat \ {0} /\ k <= l
    BY <1>1, WorkerNumbers
  <1>4. LptMakespan(dur, prefix, k) * Factor + Margin * Speed < lease * Speed
    BY <1>2 DEF Fits
  <1> DEFINE a == LptMakespan(dur, prefix, l)
             b == LptMakespan(dur, prefix, k)
  <1> HIDE DEF k, l
  <1>5. a <= b
    BY <1>1, <1>3, MoreWorkers
  <1>6. a \in Nat /\ b \in Nat
    <2>1. \A j \in Nat \ {0} : LptMakespan(dur, prefix, j) \in Nat
      <3> SUFFICES ASSUME NEW j \in Nat \ {0} PROVE LptMakespan(dur, prefix, j) \in Nat
        OBVIOUS
      <3> DEFINE c == LptCosts(dur, prefix, j)
      <3>1. c \in [1..j -> Nat] /\ LptMakespan(dur, prefix, j) = Max({c[i] : i \in DOMAIN c})
        BY <1>1, LptType DEF LptMakespan
      <3> HIDE DEF c
      <3>2. \E i \in 1..j : LptMakespan(dur, prefix, j) = c[i]
        BY <3>1, LargestLoad
      <3> QED BY <3>1, <3>2
    <2> QED BY <1>3, <2>1
  <1>7. a * Factor + Margin * Speed < lease * Speed
    <2> HIDE DEF a, b
    <2>1. \A x, y, z \in Nat : x <= y => x * z <= y * z
      OBVIOUS
    <2>2. a * Factor <= b * Factor
      BY <1>5, <1>6, <2>1, AdmissionAssumption
    <2>3. a * Factor \in Nat /\ b * Factor \in Nat /\ Margin * Speed \in Nat /\ lease * Speed \in Nat
      BY <1>2, <1>6, AdmissionAssumption
    <2>4. b * Factor + Margin * Speed < lease * Speed
      BY <1>4 DEF b
    <2> QED BY <2>2, <2>3, <2>4
  <1> QED BY <1>7 DEF AdmitLease, l

\* The queue's order is that of its numbers: its first n works are 1..n.
LEMMA FrontOfQueue ==
    ASSUME NEW m \in Nat, Queue = 1..m, NEW n \in Nat
    PROVE  FirstOf(Queue, Earlier, n) = {w \in Queue : w <= n}
  <1>1. ASSUME NEW w \in Queue
        PROVE  Cardinality({v \in Queue : <<v, w>> \in Earlier}) < n <=> w <= n
    <2>1. {v \in Queue : <<v, w>> \in Earlier} = 1..(w - 1)
      BY DEF Earlier
    <2>2. w - 1 \in Nat /\ w \in Nat
      OBVIOUS
    <2>3. Cardinality(1..(w - 1)) = w - 1
      BY <2>2, FS_Interval
    <2>4. w - 1 < n <=> w <= n
      BY <2>2
    <2> QED BY <2>1, <2>3, <2>4
  <1> QED BY <1>1 DEF FirstOf

\* The decision of the store keeps the invariant.
LEMMA ClaimStep ==
    ASSUME LAInv, AdmitQueue
    PROVE  LAInv'
  <1> DEFINE k == StoreWorkers(profile)
             sizes == AdmissibleSizes(Queue, Earlier, dur, k, lease, 1, MaxQueue)
             s == Max(sizes)
  <1>1. PICK m \in Nat :
              /\ m <= MaxQueue /\ Queue = 1..m /\ IsFiniteSet(Queue) /\ Queue \in SUBSET Nat
              /\ dur \in [Queue -> Nat] /\ IsProfile(profile)
    BY ClaimFacts DEF LAInv
  <1>2. MaxQueue \in Nat /\ m \in Nat \ {0}
    <2>1. PICK n \in 1..MaxQueue : dur \in [1..n -> 1..MaxDuration]
      BY DEF LAInv, LATypeOK
    <2>2. n \in Nat \ {0} /\ Queue = 1..n
      BY <2>1, ClaimAssumption DEF ClaimAssumption, Queue
    <2>3. 1 \in Queue
      BY <2>2
    <2> QED BY <1>1, <2>3, ClaimAssumption DEF ClaimAssumption
  <1>3. Cardinality(Queue) = m /\ Min({MaxQueue, m}) = m
    <2>1. Cardinality(Queue) = m
      BY <1>1, FS_Interval
    <2>2. {MaxQueue, m} \in SUBSET Nat /\ {MaxQueue, m} # {}
      BY <1>2
    <2>3. Min({MaxQueue, m}) \in {MaxQueue, m} /\ \A y \in {MaxQueue, m} : Min({MaxQueue, m}) <= y
      BY <2>2, LeastOf
    <2>4. Min({MaxQueue, m}) <= m
      BY <2>3
    <2> QED BY <1>1, <1>2, <2>1, <2>3, <2>4
  <1>4. \A n \in Nat : FirstOf(Queue, Earlier, n) = {w \in Queue : w <= n}
    BY <1>1, FrontOfQueue
  <1>5. ASSUME NEW n \in 1..m PROVE FirstOf(Queue, Earlier, n) = 1..n
    <2>1. {w \in 1..m : w <= n} = 1..n /\ n \in Nat
      BY <1>1
    <2> QED BY <1>1, <1>4, <2>1
  <1>6. sizes = {n \in 1..m : Fits(dur, 1..n, k, lease)}
    BY <1>3, <1>5 DEF AdmissibleSizes
  <1>7. prefix' = FirstOf(Queue, Earlier, s) /\ Fits(dur, FirstOf(Queue, Earlier, 1), k, lease)
        /\ UNCHANGED <<dur, profile, lease>>
    BY DEF AdmitQueue, LargestPrefix
  <1>8. 1 \in sizes
    BY <1>2, <1>5, <1>6, <1>7
  <1>9. s \in sizes /\ \A y \in sizes : y <= s
    <2>1. sizes \in SUBSET Int /\ sizes # {} /\ sizes \in SUBSET (1..m)
      BY <1>6, <1>8
    <2> HIDE DEF sizes
    <2>2. IsFiniteSet(sizes)
      <3>1. IsFiniteSet(1..m)
        BY <1>1, FS_Interval
      <3> QED BY <2>1, <3>1, FS_Subset
    <2>3. PICK x \in sizes : \A y \in sizes : y <= x
      BY <2>1, <2>2, FiniteHasLargest
    <2>4. \A y \in sizes : x >= y
      BY <2>1, <2>3
    <2> QED BY <2>1, <2>4 DEF Max
  <1> HIDE DEF sizes, s
  <1>10. s \in 1..m /\ Fits(dur, 1..s, k, lease)
         /\ \A n \in 1..m : Fits(dur, 1..n, k, lease) => n <= s
    BY <1>6, <1>9
  <1>11. prefix' = 1..s /\ Cardinality(1..s) = s
    BY <1>5, <1>7, <1>10, FS_Interval
  <1>12. Queue' = Queue
    BY <1>7 DEF Queue
  <1>13. LATypeOK'
    BY <1>1, <1>7, <1>10, <1>11, <1>12 DEF LAInv, LATypeOK
  <1>14. PrefixIsLargestFit'
    BY <1>1, <1>3, <1>7, <1>10, <1>11, <1>12 DEF PrefixIsLargestFit
  <1> QED BY <1>13, <1>14 DEF LAInv

\* The claim takes the front of the queue, and the longest one that fits
\* (_largest_admissible_claim_prefix).
THEOREM ClaimInvariance == LASpec => []LAInv
  <1>1. LAInit => LAInv
    <2> SUFFICES ASSUME LAInit PROVE LAInv
      OBVIOUS
    <2>1. PICK n \in 1..MaxQueue : dur \in [1..n -> 1..MaxDuration]
      BY DEF LAInit
    <2> QED BY <2>1 DEF LAInit, LAInv, LATypeOK, PrefixIsLargestFit
  <1>2. LAInv /\ [AdmitQueue]_lavars => LAInv'
    <2>1. CASE UNCHANGED lavars
      BY <2>1 DEF lavars, LAInv, LATypeOK, PrefixIsLargestFit, Queue
    <2> QED BY <2>1, ClaimStep
  <1> QED BY <1>1, <1>2, PTL DEF LASpec

\* What the store admits, the process job admits too, and the projection both
\* rely on is a plan's time, within 4/3 - 1/(3k) of the best plan's.
THEOREM AdmissionSound == LASpec => []AdmissionIsSound
  <1>1. LAInv => AdmissionIsSound
    BY ClaimIsLptBound, ProcessAgrees DEF LAInv, AdmissionIsSound
  <1> QED BY <1>1, ClaimInvariance, PTL
-----------------------------------------------------------------------------
(* Tracking *)

\* A fold over a finite set, one element after the other.
FoldsBy(h, m, base, step) ==
    /\ h[{}] = base
    /\ \A T \in SUBSET m : T # {} =>
          h[T] = step[<<CHOOSE x \in T : TRUE, h[T \ {CHOOSE x \in T : TRUE}]>>]

LEMMA StepFold ==
    ASSUME NEW m, IsFiniteSet(m), NEW V, NEW base \in V, NEW step \in [m \X V -> V]
    PROVE  \E h \in [SUBSET m -> V] : FoldsBy(h, m, base, step)
  <1> DEFINE pick == [T \in SUBSET m |-> CHOOSE x \in T : TRUE]
  <1>1. \A T \in SUBSET m : T # {} => pick[T] \in T
    OBVIOUS
  <1>2. \A T \in SUBSET m : pick[T] = CHOOSE x \in T : TRUE
    OBVIOUS
  <1> HIDE DEF pick
  <1>3. PICK h \in [SUBSET m -> V] : IsFold(h, m, base, step, pick)
    BY <1>1, FoldExists
  <1>4. h[{}] = base
    BY <1>3 DEF IsFold
  <1>5. ASSUME NEW T \in SUBSET m, T # {}
        PROVE  h[T] = step[<<CHOOSE x \in T : TRUE, h[T \ {CHOOSE x \in T : TRUE}]>>]
    BY <1>2, <1>3, <1>5 DEF IsFold
  <1>6. FoldsBy(h, m, base, step)
    BY <1>4, <1>5 DEF FoldsBy
  <1> QED BY <1>3, <1>6

LEMMA LargerOfTwo ==
    ASSUME NEW a \in Int, NEW b \in Int
    PROVE  Max({a, b}) \in Int /\ Max({a, b}) >= a /\ Max({a, b}) >= b
  <1>1. \E x \in {a, b} : \A y \in {a, b} : x >= y
    OBVIOUS
  <1>2. Max({a, b}) \in {a, b} /\ \A y \in {a, b} : Max({a, b}) >= y
    BY <1>1 DEF Max
  <1> QED BY <1>2
\* What is known of the tables while a frame is associated: seen are the people
\* detected in it.
Maps(X) == UNION {[d -> X] : d \in SUBSET Int}

Tables == [next : Nat \ {0}, identities : Maps(Person), telemetry : Maps(Sighting),
           updated : Maps(ProfileRow), people : SUBSET Person, matched : SUBSET Int]

\* The person of an id was seen recently enough to be matched with it.
Recent(id) == frame' - telemetry[id].last <= Max({MaxReentry, MaxDisappeared + 1})

\* An id that was given in this frame, to someone who is like its look.
GivenNow(s, seen, id) ==
    /\ id \in DOMAIN s.telemetry /\ s.telemetry[id].last = frame'
    /\ id \in DOMAIN s.identities
    /\ \E p \in seen : /\ s.telemetry[id].cell = scene'[p]
                       /\ Similarity[p][s.identities[id]] >= SECONDARY_MATCH_THRESHOLD
    /\ id \in DOMAIN telemetry => Recent(id)

\* An id that was not.
NotGiven(s, id) == id \in DOMAIN telemetry /\ s.telemetry[id] = telemetry[id]

GoodTelemetry(s, seen) ==
    /\ DOMAIN s.telemetry = 1..(s.next - 1)
    /\ DOMAIN telemetry \subseteq DOMAIN s.telemetry
    /\ \A id \in DOMAIN s.telemetry :
          IF id \in DOMAIN s.updated THEN GivenNow(s, seen, id) ELSE NotGiven(s, id)

GoodGallery(s) ==
    /\ DOMAIN s.identities \subseteq DOMAIN s.telemetry
    /\ \A id \in DOMAIN s.identities : id \in DOMAIN telemetry =>
          /\ id \in DOMAIN identities /\ s.identities[id] = identities[id]
          /\ Recent(id)
    /\ \A id \in DOMAIN tracks : id > 0 => id \in DOMAIN s.identities

GoodProfiles(s) ==
    /\ IsFiniteSet(DOMAIN s.updated) /\ DOMAIN s.updated \subseteq Int \ {0}
    /\ \A id \in DOMAIN s.updated :
          /\ s.updated[id].age = 0
          /\ id > 0 => id \in DOMAIN s.identities /\ s.updated[id].look = s.identities[id]

GoodTables(seen) ==
    {s \in Tables : GoodTelemetry(s, seen) /\ GoodGallery(s) /\ GoodProfiles(s)}

\* The frame that is associated.
DetectedFrame(seen) ==
    /\ frame' = frame + 1
    /\ scene' \in [Person -> Cell \cup {None}]
    /\ seen \in SUBSET Person
    /\ \A p \in seen : scene'[p] \in Cell
    /\ \A p, q \in seen : p # q => scene'[p] # scene'[q]

LEMMA MapFacts ==
    ASSUME NEW X
    PROVE  /\ \A f \in Maps(X) : DOMAIN f \subseteq Int /\ f \in [DOMAIN f -> X]
           /\ \A f : DOMAIN f \subseteq Int /\ f \in [DOMAIN f -> X] => f \in Maps(X)
  <1>1. \A f \in Maps(X) : DOMAIN f \subseteq Int /\ f \in [DOMAIN f -> X]
    BY DEF Maps
  <1>2. \A f : DOMAIN f \subseteq Int /\ f \in [DOMAIN f -> X] => f \in Maps(X)
    BY DEF Maps
  <1> QED BY <1>1, <1>2

\* What the invariant says of a track that may be matched.
LEMMA TrackFacts ==
    ASSUME TrackingInv, frame' = frame + 1, NEW id \in DOMAIN tracks
    PROVE  /\ id \in Int \ {0} /\ tracks[id] \in ProfileRow
           /\ id > 0 => /\ id \in DOMAIN telemetry /\ Recent(id)
                        /\ id \in DOMAIN identities /\ identities[id] = tracks[id].look
  <1>1. id \in Int \ {0} /\ tracks[id] \in ProfileRow
    BY DEF TrackingInv, TrackingTypeOK
  <1>2. ASSUME id > 0
        PROVE  /\ id \in DOMAIN telemetry /\ Recent(id)
               /\ id \in DOMAIN identities /\ identities[id] = tracks[id].look
    <2>1. /\ id \in DOMAIN identities /\ identities[id] = tracks[id].look
          /\ id \in DOMAIN telemetry /\ telemetry[id].last + tracks[id].age = frame
          /\ telemetry[id] \in Sighting
      BY <1>2 DEF TrackingInv, TrackingTypeOK, TracksAreKnown
    <2>2. telemetry[id].last \in Nat /\ frame \in Nat /\ tracks[id].age \in 0..MaxDisappeared
      BY <1>1, <2>1 DEF TrackingInv, TrackingTypeOK, Sighting, ProfileRow
    <2>3. MaxReentry \in Int /\ MaxDisappeared + 1 \in Int /\ MaxDisappeared \in Nat
      BY TrackingAssumption
    <2>4. Max({MaxReentry, MaxDisappeared + 1}) \in Int
          /\ Max({MaxReentry, MaxDisappeared + 1}) >= MaxDisappeared + 1
      BY <2>3, LargerOfTwo
    <2>5. frame' - telemetry[id].last = tracks[id].age + 1
      BY <2>1, <2>2
    <2> QED BY <2>1, <2>2, <2>3, <2>4, <2>5 DEF Recent
  <1> QED BY <1>1, <1>2

\* f is g but for x at id.
IsWith(f, g, id, x) ==
    /\ DOMAIN f = DOMAIN g \cup {id} /\ f[id] = x
    /\ \A i \in DOMAIN g : i # id => f[i] = g[i]

LEMMA WithFacts ==
    ASSUME NEW X, NEW f \in Maps(X), NEW id \in Int, NEW x \in X
    PROVE  With(f, id, x) \in Maps(X) /\ IsWith(With(f, id, x), f, id, x)
  <1>1. DOMAIN f \subseteq Int /\ f \in [DOMAIN f -> X]
    BY MapFacts
  <1>2. With(f, id, x) \in [DOMAIN f \cup {id} -> X]
    BY <1>1 DEF With
  <1>3. DOMAIN With(f, id, x) = DOMAIN f \cup {id}
    BY DEF With
  <1>4. DOMAIN With(f, id, x) \subseteq Int
    BY <1>1, <1>3
  <1>5. With(f, id, x) \in [DOMAIN With(f, id, x) -> X]
    BY <1>2, <1>3
  <1>6. With(f, id, x) \in Maps(X)
    BY <1>4, <1>5, MapFacts
  <1> QED BY <1>3, <1>6 DEF With, IsWith

\* t is s with new fields.
Renewed(t, s, a, b, c, d, e, f) ==
    t = [s EXCEPT !.next = a, !.identities = b, !.telemetry = c,
                  !.updated = d, !.people = e, !.matched = f]

HasFields(t, a, b, c, d, e, f) ==
    /\ t.next = a /\ t.identities = b /\ t.telemetry = c
    /\ t.updated = d /\ t.people = e /\ t.matched = f
    /\ /\ a \in Nat \ {0} /\ b \in Maps(Person) /\ c \in Maps(Sighting)
       /\ d \in Maps(ProfileRow) /\ e \in SUBSET Person /\ f \in SUBSET Int
       => t \in Tables

LEMMA RenewedFields ==
    ASSUME NEW s \in Tables, NEW a, NEW b, NEW c, NEW d, NEW e, NEW f, NEW t,
           Renewed(t, s, a, b, c, d, e, f)
    PROVE  HasFields(t, a, b, c, d, e, f)
  <1>1. /\ t.next = a /\ t.identities = b /\ t.telemetry = c
        /\ t.updated = d /\ t.people = e /\ t.matched = f
    BY DEF Tables, Renewed
  <1>2. ASSUME a \in Nat \ {0}, b \in Maps(Person), c \in Maps(Sighting),
               d \in Maps(ProfileRow), e \in SUBSET Person, f \in SUBSET Int
        PROVE  t \in Tables
    BY <1>2 DEF Tables, Renewed
  <1> QED BY <1>1, <1>2 DEF HasFields

LEMMA OneMoreId ==
    ASSUME NEW n \in Nat \ {0}, NEW m, m = n + 1
    PROVE  1..(n - 1) \cup {n} = 1..(m - 1) /\ n \notin 1..(n - 1)
  OBVIOUS

\* An id that is given to p, whose look is like the one of the id.
Gives(s, t, p, id, row, look, new) ==
    /\ IsWith(t.telemetry, s.telemetry, id, row) /\ row.last = frame' /\ row.cell = scene'[p]
    /\ IsWith(t.identities, s.identities, id, look)
    /\ IsWith(t.updated, s.updated, id, new) /\ new.age = 0 /\ new.look = look
    /\ Similarity[p][look] >= SECONDARY_MATCH_THRESHOLD
    /\ id \in DOMAIN telemetry => id \in DOMAIN identities /\ identities[id] = look /\ Recent(id)
    /\ DOMAIN t.telemetry = 1..(t.next - 1)

LEMMA GivingKeeps ==
    ASSUME NEW seen, NEW s \in GoodTables(seen), NEW t \in Tables, NEW p \in seen,
           NEW id \in Nat \ {0}, NEW row, NEW look, NEW new, Gives(s, t, p, id, row, look, new)
    PROVE  t \in GoodTables(seen)
  <1>1. GoodTelemetry(s, seen) /\ GoodGallery(s) /\ GoodProfiles(s)
    BY DEF GoodTables
  <1>2. ASSUME NEW i \in DOMAIN t.telemetry
        PROVE  IF i \in DOMAIN t.updated THEN GivenNow(t, seen, i) ELSE NotGiven(t, i)
    <2>1. CASE i = id
      BY <2>1 DEF Gives, IsWith, GivenNow
    <2>2. CASE i # id
      <3>1. /\ i \in DOMAIN s.telemetry /\ t.telemetry[i] = s.telemetry[i]
            /\ (i \in DOMAIN t.updated <=> i \in DOMAIN s.updated)
            /\ IF i \in DOMAIN s.updated THEN GivenNow(s, seen, i) ELSE NotGiven(s, i)
        BY <1>1, <2>2 DEF Gives, IsWith, GoodTelemetry
      <3>2. i \in DOMAIN s.identities => i \in DOMAIN t.identities /\ t.identities[i] = s.identities[i]
        BY <2>2 DEF Gives, IsWith
      <3> QED BY <3>1, <3>2 DEF GivenNow, NotGiven
    <2> QED BY <2>1, <2>2
  <1>3. GoodTelemetry(t, seen)
    <2>1. DOMAIN telemetry \subseteq DOMAIN t.telemetry /\ DOMAIN t.telemetry = 1..(t.next - 1)
      BY <1>1 DEF Gives, IsWith, GoodTelemetry
    <2> QED BY <1>2, <2>1 DEF GoodTelemetry
  <1>4. GoodGallery(t)
    BY <1>1 DEF Gives, IsWith, GoodGallery
  <1>5. GoodProfiles(t)
    <2>1. IsFiniteSet(DOMAIN t.updated) /\ DOMAIN t.updated \subseteq Int \ {0}
      <3>1. DOMAIN t.updated = DOMAIN s.updated \cup {id}
        BY DEF Gives, IsWith
      <3>2. IsFiniteSet(DOMAIN s.updated) /\ DOMAIN s.updated \subseteq Int \ {0}
        BY <1>1 DEF GoodProfiles
      <3> QED BY <3>1, <3>2, FS_AddElement
    <2>2. ASSUME NEW i \in DOMAIN t.updated
          PROVE  /\ t.updated[i].age = 0
                 /\ i > 0 => i \in DOMAIN t.identities /\ t.updated[i].look = t.identities[i]
      BY <1>1 DEF Gives, IsWith, GoodProfiles
    <2> QED BY <2>1, <2>2 DEF GoodProfiles
  <1> QED BY <1>3, <1>4, <1>5 DEF GoodTables

\* A tentative id that is made or matched.
LEMMA TentativeKeeps ==
    ASSUME NEW seen, NEW s \in GoodTables(seen), NEW t \in Tables, NEW id \in Int, id < 0,
           NEW new, new.age = 0, IsWith(t.updated, s.updated, id, new),
           t.telemetry = s.telemetry, t.identities = s.identities, t.next = s.next
    PROVE  t \in GoodTables(seen)
  <1>1. GoodTelemetry(s, seen) /\ GoodGallery(s) /\ GoodProfiles(s)
    BY DEF GoodTables
  <1>2. GoodTelemetry(t, seen)
    <2>1. ASSUME NEW i \in DOMAIN t.telemetry
          PROVE  IF i \in DOMAIN t.updated THEN GivenNow(t, seen, i) ELSE NotGiven(t, i)
      <3>1. i # id
        BY <1>1 DEF GoodTelemetry, Tables
      <3>2. /\ (i \in DOMAIN t.updated <=> i \in DOMAIN s.updated)
            /\ IF i \in DOMAIN s.updated THEN GivenNow(s, seen, i) ELSE NotGiven(s, i)
        BY <1>1, <3>1 DEF IsWith, GoodTelemetry
      <3> QED BY <3>2 DEF GivenNow, NotGiven
    <2> QED BY <1>1, <2>1 DEF GoodTelemetry
  <1>3. GoodGallery(t)
    BY <1>1 DEF GoodGallery
  <1>4. GoodProfiles(t)
    <2>1. IsFiniteSet(DOMAIN t.updated) /\ DOMAIN t.updated \subseteq Int \ {0}
      <3>1. DOMAIN t.updated = DOMAIN s.updated \cup {id}
        BY DEF IsWith
      <3>2. IsFiniteSet(DOMAIN s.updated) /\ DOMAIN s.updated \subseteq Int \ {0}
        BY <1>1 DEF GoodProfiles
      <3> QED BY <3>1, <3>2, FS_AddElement
    <2>2. ASSUME NEW i \in DOMAIN t.updated
          PROVE  /\ t.updated[i].age = 0
                 /\ i > 0 => i \in DOMAIN t.identities /\ t.updated[i].look = t.identities[i]
      BY <1>1 DEF IsWith, GoodProfiles
    <2> QED BY <2>1, <2>2 DEF GoodProfiles
  <1> QED BY <1>2, <1>3, <1>4 DEF GoodTables

\* _record_track_match, of a pair that is similar enough.
LEMMA TrackMatchKeeps ==
    ASSUME TrackingInv, NEW seen, DetectedFrame(seen), NEW s \in GoodTables(seen), NEW p \in seen,
           NEW id \in DOMAIN tracks, Similarity[p][tracks[id].look] >= SECONDARY_MATCH_THRESHOLD
    PROVE  TrackMatch(s, p, id) \in GoodTables(seen)
  <1> DEFINE old == tracks[id]
             hits == old.hits + 1
             confirmed == id < 0 /\ hits >= MIN_CONFIRMATION_FRAMES
             fresh == IF confirmed THEN s.next ELSE id
             row == [entry |-> IF confirmed THEN old.first ELSE s.telemetry[id].entry,
                     last |-> frame', cell |-> scene'[p]]
             new == Profile(scene'[p], old.look, old.first, hits)
             t == TrackMatch(s, p, id)
  <1>1. /\ s \in Tables /\ GoodTelemetry(s, seen) /\ GoodGallery(s) /\ GoodProfiles(s)
    BY DEF GoodTables
  <1>2. /\ s.next \in Nat \ {0} /\ s.identities \in Maps(Person) /\ s.telemetry \in Maps(Sighting)
        /\ s.updated \in Maps(ProfileRow) /\ s.people \in SUBSET Person /\ s.matched \in SUBSET Int
    BY <1>1 DEF Tables
  <1>3. /\ id \in Int \ {0} /\ old \in ProfileRow
        /\ id > 0 => /\ id \in DOMAIN telemetry /\ Recent(id)
                     /\ id \in DOMAIN identities /\ identities[id] = old.look
    BY TrackFacts DEF DetectedFrame
  <1>4. /\ frame' \in Nat /\ scene'[p] \in Cell /\ p \in Person /\ MaxDisappeared \in Nat
    BY TrackingAssumption DEF DetectedFrame, TrackingInv, TrackingTypeOK
  <1>5. old.look \in Person /\ old.first \in Nat /\ hits \in Nat
    BY <1>3 DEF ProfileRow
  <1>6. new \in ProfileRow /\ new.age = 0 /\ new.look = old.look
    BY <1>4, <1>5 DEF ProfileRow, Profile
  <1> DEFINE next == IF confirmed THEN s.next + 1 ELSE s.next
             gallery == IF confirmed THEN With(s.identities, fresh, old.look) ELSE s.identities
             sightings == IF fresh > 0 THEN With(s.telemetry, fresh, row) ELSE s.telemetry
  <1>7. HasFields(t, next, gallery, sightings, With(s.updated, fresh, new),
                  s.people \cup {p}, s.matched \cup {id})
    <2>1. Renewed(t, s, next, gallery, sightings, With(s.updated, fresh, new),
                  s.people \cup {p}, s.matched \cup {id})
      BY DEF TrackMatch, Renewed
    <2> HIDE DEF t, next, gallery, sightings, fresh, new
    <2> QED BY <1>1, <2>1, RenewedFields
  <1>8. fresh \in Int \ {0}
    BY <1>2, <1>3
  <1>9. With(s.updated, fresh, new) \in Maps(ProfileRow)
        /\ IsWith(With(s.updated, fresh, new), s.updated, fresh, new)
    <2> HIDE DEF fresh, new
    <2> QED BY <1>2, <1>6, <1>8, WithFacts
  <1>10. s.people \cup {p} \in SUBSET Person /\ s.matched \cup {id} \in SUBSET Int
    BY <1>2, <1>3, <1>4
  <1>11. CASE confirmed
    <2>1. fresh = s.next /\ fresh \in Nat \ {0} /\ row \in Sighting
      BY <1>2, <1>4, <1>5, <1>11 DEF Sighting
    <2>2. /\ With(s.telemetry, fresh, row) \in Maps(Sighting)
          /\ IsWith(With(s.telemetry, fresh, row), s.telemetry, fresh, row)
          /\ With(s.identities, fresh, old.look) \in Maps(Person)
          /\ IsWith(With(s.identities, fresh, old.look), s.identities, fresh, old.look)
      <3> HIDE DEF fresh, row, old
      <3> QED BY <1>2, <1>5, <1>8, <2>1, WithFacts
    <2>3. /\ t.next = s.next + 1 /\ t.identities = With(s.identities, fresh, old.look)
          /\ t.telemetry = With(s.telemetry, fresh, row) /\ t.updated = With(s.updated, fresh, new)
      <3> HIDE DEF row, old, new, t
      <3> QED BY <1>7, <1>11, <2>1 DEF HasFields
    <2>4. t \in Tables
      <3>1. s.next + 1 \in Nat \ {0}
        BY <1>2
      <3> HIDE DEF row, old, new, t
      <3> QED BY <1>7, <1>9, <1>10, <1>11, <2>1, <2>2, <3>1 DEF Tables, HasFields
    <2>5. DOMAIN t.telemetry = 1..(t.next - 1) /\ fresh \notin DOMAIN telemetry
      <3>1. DOMAIN s.telemetry = 1..(s.next - 1) /\ DOMAIN telemetry \subseteq DOMAIN s.telemetry
        BY <1>1 DEF GoodTelemetry
      <3>2. DOMAIN t.telemetry = DOMAIN s.telemetry \cup {s.next}
        BY <2>1, <2>2, <2>3 DEF IsWith
      <3> HIDE DEF t, fresh
      <3>3. t.next = s.next + 1
        BY <2>3
      <3>4. 1..(s.next - 1) \cup {s.next} = 1..(t.next - 1) /\ s.next \notin 1..(s.next - 1)
        BY <1>2, <3>3, OneMoreId
      <3>5. DOMAIN t.telemetry = 1..(t.next - 1)
        BY <3>1, <3>2, <3>4
      <3>6. fresh \notin DOMAIN s.telemetry
        BY <2>1, <3>1, <3>4
      <3> QED BY <3>1, <3>5, <3>6
    <2>6. row.last = frame' /\ row.cell = scene'[p]
      OBVIOUS
    <2> HIDE DEF t, fresh, row, new
    <2>7. Gives(s, t, p, fresh, row, old.look, new)
      BY <1>6, <1>9, <2>2, <2>3, <2>5, <2>6 DEF Gives
    <2> QED BY <2>1, <2>4, <2>7, GivingKeeps DEF t
  <1>12. CASE ~confirmed /\ id > 0
    <2>1. fresh = id /\ fresh \in Nat \ {0}
      BY <1>3, <1>12
    <2>2. id \in DOMAIN s.telemetry /\ id \in DOMAIN s.identities /\ s.identities[id] = old.look
      BY <1>1, <1>3, <1>12 DEF GoodTelemetry, GoodGallery
    <2>3. row \in Sighting
      <3>1. s.telemetry[id] \in Sighting
        BY <1>2, <2>2, MapFacts
      <3> QED BY <1>4, <1>12, <3>1 DEF Sighting
    <2>4. /\ With(s.telemetry, fresh, row) \in Maps(Sighting)
          /\ IsWith(With(s.telemetry, fresh, row), s.telemetry, fresh, row)
      <3> HIDE DEF fresh, row, old
      <3> QED BY <1>2, <1>8, <2>3, WithFacts
    <2>5. /\ t.next = s.next /\ t.identities = s.identities
          /\ t.telemetry = With(s.telemetry, fresh, row) /\ t.updated = With(s.updated, fresh, new)
      <3>1. fresh > 0
        BY <1>12, <2>1
      <3> HIDE DEF row, old, new, t, fresh
      <3> QED BY <1>7, <1>12, <3>1 DEF HasFields
    <2>6. t \in Tables
      <3>1. fresh > 0
        BY <1>12, <2>1
      <3> HIDE DEF row, old, new, t, fresh
      <3> QED BY <1>2, <1>7, <1>9, <1>10, <1>12, <2>4, <3>1 DEF Tables, HasFields
    <2>7. IsWith(t.identities, s.identities, fresh, old.look)
      BY <2>1, <2>2, <2>5 DEF IsWith
    <2>8. DOMAIN t.telemetry = 1..(t.next - 1)
      <3>1. DOMAIN s.telemetry = 1..(s.next - 1)
        BY <1>1 DEF GoodTelemetry
      <3>2. DOMAIN t.telemetry = DOMAIN s.telemetry \cup {id}
        BY <2>1, <2>4, <2>5 DEF IsWith
      <3> HIDE DEF t
      <3> QED BY <2>2, <2>5, <3>1, <3>2
    <2>9. row.last = frame' /\ row.cell = scene'[p]
      OBVIOUS
    <2> HIDE DEF t, row, new
    <2>10. Gives(s, t, p, fresh, row, old.look, new)
      BY <1>3, <1>6, <1>9, <1>12, <2>1, <2>4, <2>5, <2>7, <2>8, <2>9 DEF Gives
    <2> HIDE DEF fresh
    <2> QED BY <2>1, <2>6, <2>10, GivingKeeps DEF t
  <1>13. CASE ~confirmed /\ id < 0
    <2>1. fresh = id /\ ~(fresh > 0)
      BY <1>3, <1>13
    <2>2. /\ t.next = s.next /\ t.identities = s.identities
          /\ t.telemetry = s.telemetry /\ t.updated = With(s.updated, fresh, new)
      <3> HIDE DEF row, old, new, t, fresh
      <3> QED BY <1>7, <1>13, <2>1 DEF HasFields
    <2>3. t \in Tables
      <3> HIDE DEF row, old, new, t, fresh
      <3> QED BY <1>2, <1>7, <1>9, <1>10, <1>13, <2>1 DEF Tables, HasFields
    <2> HIDE DEF t, row, new
    <2>4. IsWith(t.updated, s.updated, id, new)
      BY <1>9, <2>1, <2>2
    <2> QED BY <1>3, <1>6, <1>13, <2>2, <2>3, <2>4, TentativeKeeps DEF t
  <1>14. id > 0 \/ id < 0
    BY <1>3
  <1> QED BY <1>11, <1>12, <1>13, <1>14

\* _record_reentry_match, of a pair that is similar enough.
LEMMA ReentryMatchKeeps ==
    ASSUME TrackingInv, NEW seen, DetectedFrame(seen), NEW s \in GoodTables(seen), NEW p \in seen,
           NEW id \in DOMAIN s.identities, id \in DOMAIN telemetry,
           Similarity[p][s.identities[id]] >= SECONDARY_MATCH_THRESHOLD
    PROVE  /\ ReentryMatch(s, p, id) \in GoodTables(seen)
           /\ ReentryMatch(s, p, id).identities = s.identities
  <1> DEFINE look == s.identities[id]
             row == [s.telemetry[id] EXCEPT !.last = frame', !.cell = scene'[p]]
             new == Profile(scene'[p], look, s.telemetry[id].entry, MIN_CONFIRMATION_FRAMES)
             sightings == [s.telemetry EXCEPT ![id] = row]
             t == ReentryMatch(s, p, id)
  <1>1. /\ s \in Tables /\ GoodTelemetry(s, seen) /\ GoodGallery(s) /\ GoodProfiles(s)
    BY DEF GoodTables
  <1>2. /\ s.next \in Nat \ {0} /\ s.identities \in Maps(Person) /\ s.telemetry \in Maps(Sighting)
        /\ s.updated \in Maps(ProfileRow) /\ s.people \in SUBSET Person /\ s.matched \in SUBSET Int
    BY <1>1 DEF Tables
  <1>3. /\ id \in DOMAIN s.telemetry /\ DOMAIN s.telemetry = 1..(s.next - 1)
        /\ id \in DOMAIN identities /\ identities[id] = look /\ Recent(id)
    BY <1>1 DEF GoodTelemetry, GoodGallery
  <1>4. id \in Nat \ {0}
    BY <1>2, <1>3
  <1>5. s.telemetry \in [DOMAIN s.telemetry -> Sighting] /\ DOMAIN s.telemetry \subseteq Int
    BY <1>2, MapFacts
  <1>6. look \in Person
    <2>1. s.identities \in [DOMAIN s.identities -> Person]
      BY <1>2, MapFacts
    <2> QED BY <2>1
  <1>7. /\ frame' \in Nat /\ scene'[p] \in Cell /\ p \in Person /\ MaxDisappeared \in Nat
    BY TrackingAssumption DEF DetectedFrame, TrackingInv, TrackingTypeOK
  <1>8. s.telemetry[id] \in Sighting
    BY <1>3, <1>5
  <1>9. row \in Sighting /\ row.last = frame' /\ row.cell = scene'[p]
    BY <1>7, <1>8 DEF Sighting
  <1>10. new \in ProfileRow /\ new.age = 0 /\ new.look = look
    <2>1. s.telemetry[id].entry \in Nat
      BY <1>8 DEF Sighting
    <2> HIDE DEF look
    <2> QED BY <1>6, <1>7, <2>1 DEF ProfileRow, Profile, MIN_CONFIRMATION_FRAMES
  <1>11. sightings \in Maps(Sighting) /\ IsWith(sightings, s.telemetry, id, row)
    <2> HIDE DEF row
    <2>1. sightings \in [DOMAIN s.telemetry -> Sighting] /\ DOMAIN sightings = DOMAIN s.telemetry
      BY <1>3, <1>5, <1>9
    <2>2. sightings \in Maps(Sighting)
      <3> HIDE DEF sightings
      <3> QED BY <1>5, <2>1, MapFacts
    <2>3. IsWith(sightings, s.telemetry, id, row)
      BY <1>3, <1>5 DEF IsWith
    <2> QED BY <2>2, <2>3
  <1>12. With(s.updated, id, new) \in Maps(ProfileRow)
         /\ IsWith(With(s.updated, id, new), s.updated, id, new)
    <2> HIDE DEF new
    <2> QED BY <1>2, <1>4, <1>10, WithFacts
  <1>13. Renewed(t, s, s.next, s.identities, sightings, With(s.updated, id, new),
                 s.people \cup {p}, s.matched)
    <2>1. t = [s EXCEPT !.updated = With(s.updated, id, new), !.telemetry = sightings,
                        !.people = s.people \cup {p}]
      BY <1>1, <1>3, <1>5 DEF ReentryMatch, Tables
    <2> HIDE DEF t, sightings, new
    <2> QED BY <1>1, <2>1 DEF Renewed, Tables
  <1> HIDE DEF t, sightings, new, row, look
  <1>14. HasFields(t, s.next, s.identities, sightings, With(s.updated, id, new),
                   s.people \cup {p}, s.matched)
    BY <1>1, <1>13, RenewedFields
  <1>15. t \in Tables
    <2>1. s.people \cup {p} \in SUBSET Person
      BY <1>2, <1>7
    <2> QED BY <1>2, <1>11, <1>12, <1>14, <2>1 DEF HasFields
  <1>16. /\ t.next = s.next /\ t.identities = s.identities /\ t.telemetry = sightings
         /\ t.updated = With(s.updated, id, new)
    BY <1>14 DEF HasFields
  <1>17. DOMAIN t.telemetry = 1..(t.next - 1)
    <2>1. DOMAIN sightings = DOMAIN s.telemetry
      BY <1>3, <1>11 DEF IsWith
    <2> QED BY <1>3, <1>16, <2>1
  <1>18. IsWith(t.identities, s.identities, id, look)
    BY <1>16 DEF IsWith, look
  <1>19. Similarity[p][look] >= SECONDARY_MATCH_THRESHOLD
    BY DEF look
  <1>20. Gives(s, t, p, id, row, look, new)
    BY <1>3, <1>9, <1>10, <1>11, <1>12, <1>16, <1>17, <1>18, <1>19 DEF Gives
  <1>21. t \in GoodTables(seen)
    BY <1>4, <1>15, <1>20, GivingKeeps
  <1> QED BY <1>16, <1>21 DEF t

LEMMA NonNegative ==
    ASSUME NEW a \in Nat, NEW b \in Nat, NEW c \in Nat
    PROVE  -(a * (b + 1) + c + 1) \in Int /\ -(a * (b + 1) + c + 1) < 0
  <1>1. a * (b + 1) \in Nat
    OBVIOUS
  <1> DEFINE x == a * (b + 1)
  <1> HIDE DEF x
  <1>2. -(x + c + 1) \in Int /\ -(x + c + 1) < 0
    BY <1>1 DEF x
  <1> QED BY <1>2 DEF x

\* A tentative track that is made.
Spawn(s, p) ==
    [s EXCEPT !.updated = With(@, TentativeId(scene'[p]), Profile(scene'[p], p, frame', 1))]

LEMMA SpawnKeeps ==
    ASSUME TrackingInv, NEW seen, DetectedFrame(seen), NEW s \in GoodTables(seen), NEW p \in seen
    PROVE  /\ Spawn(s, p) \in GoodTables(seen)
           /\ Spawn(s, p).identities = s.identities /\ Spawn(s, p).telemetry = s.telemetry
  <1> DEFINE id == TentativeId(scene'[p])
             new == Profile(scene'[p], p, frame', 1)
             t == Spawn(s, p)
  <1>1. s \in Tables
    BY DEF GoodTables
  <1>2. /\ s.next \in Nat \ {0} /\ s.identities \in Maps(Person) /\ s.telemetry \in Maps(Sighting)
        /\ s.updated \in Maps(ProfileRow) /\ s.people \in SUBSET Person /\ s.matched \in SUBSET Int
    BY <1>1 DEF Tables
  <1>3. /\ frame' \in Nat /\ scene'[p] \in Cell /\ p \in Person /\ MaxDisappeared \in Nat
    BY TrackingAssumption DEF DetectedFrame, TrackingInv, TrackingTypeOK
  <1>4. id \in Int /\ id < 0
    <2>1. Cell \subseteq Nat /\ IsFiniteSet(Cell) /\ Cell # {}
      BY <1>3, TrackingAssumption
    <2>2. Max(Cell) \in Nat
      <3>1. Cell \in SUBSET Int
        BY <2>1
      <3>2. Max(Cell) \in Cell
        BY <2>1, <3>1, MaxOfFinite
      <3> QED BY <2>1, <3>2
    <2> QED BY <1>3, <2>1, <2>2, NonNegative DEF TentativeId
  <1>5. new \in ProfileRow /\ new.age = 0
    BY <1>3 DEF Profile, ProfileRow
  <1>6. With(s.updated, id, new) \in Maps(ProfileRow)
        /\ IsWith(With(s.updated, id, new), s.updated, id, new)
    <2> HIDE DEF new, id
    <2> QED BY <1>2, <1>4, <1>5, WithFacts
  <1>7. Renewed(t, s, s.next, s.identities, s.telemetry, With(s.updated, id, new),
                s.people, s.matched)
    <2>1. t = [s EXCEPT !.updated = With(s.updated, id, new)]
      BY DEF Spawn
    <2> HIDE DEF t, new, id
    <2> QED BY <1>1, <2>1 DEF Renewed, Tables
  <1> HIDE DEF t, new, id
  <1>8. HasFields(t, s.next, s.identities, s.telemetry, With(s.updated, id, new),
                  s.people, s.matched)
    BY <1>1, <1>7, RenewedFields
  <1>9. t \in Tables
    BY <1>2, <1>6, <1>8 DEF HasFields
  <1>10. /\ t.next = s.next /\ t.identities = s.identities /\ t.telemetry = s.telemetry
         /\ IsWith(t.updated, s.updated, id, new)
    BY <1>6, <1>8 DEF HasFields
  <1>11. t \in GoodTables(seen)
    BY <1>4, <1>5, <1>9, <1>10, TentativeKeeps
  <1> QED BY <1>10, <1>11 DEF t

\* What a fold starts with and each of its steps keeps, its result keeps.
LEMMA FoldStays ==
    ASSUME NEW m, IsFiniteSet(m), NEW V, NEW g, g[{}] \in V,
           \A T \in SUBSET m : \A x \in T : x = (CHOOSE y \in T : TRUE) /\ g[T \ {x}] \in V => g[T] \in V
    PROVE  g[m] \in V
  <1> DEFINE Bad == {T \in SUBSET m : g[T] \notin V}
  <1>1. Bad = {}
    <2> SUFFICES ASSUME Bad # {} PROVE FALSE
      OBVIOUS
    <2>1. PICK T \in Bad : \A x \in T : T \ {x} \notin Bad
      <3>1. Bad \in SUBSET (SUBSET m)
        OBVIOUS
      <3> HIDE DEF Bad
      <3> QED BY <3>1, SmallestSet
    <2>2. T \in SUBSET m /\ T # {} /\ g[T] \notin V
      OBVIOUS
    <2>3. PICK x \in T : x = CHOOSE y \in T : TRUE
      BY <2>2
    <2>4. T \ {x} \in SUBSET m /\ T \ {x} \notin Bad
      BY <2>1, <2>2
    <2>5. g[T \ {x}] \in V
      BY <2>4
    <2> QED BY <2>2, <2>3, <2>5
  <1> QED BY <1>1

\* The folds of the model, as functions on the subsets of what they go through.
MatchFold(g, s, m) ==
    g = [T \in SUBSET m |->
           IF T = {} THEN s
           ELSE LET x == CHOOSE y \in T : TRUE IN TrackMatch(g[T \ {x}], x[1], x[2])]

ReentryFold(g, s, m) ==
    g = [T \in SUBSET m |->
           IF T = {} THEN s
           ELSE LET x == CHOOSE y \in T : TRUE IN ReentryMatch(g[T \ {x}], x[1], x[2])]

SpawnFold(g, s, m) ==
    g = [T \in SUBSET m |->
           IF T = {} THEN s ELSE LET x == CHOOSE y \in T : TRUE IN Spawn(g[T \ {x}], x)]

LEMMA MatchesKeep ==
    ASSUME TrackingInv, NEW seen, DetectedFrame(seen), NEW s \in GoodTables(seen),
           NEW m \in SUBSET (seen \X DOMAIN tracks), IsFiniteSet(m),
           \A x \in m : Similarity[x[1]][tracks[x[2]].look] >= SECONDARY_MATCH_THRESHOLD
    PROVE  TrackMatches(s, m) \in GoodTables(seen)
  <1> DEFINE V == GoodTables(seen)
             step == [z \in m \X V |-> TrackMatch(z[2], z[1][1], z[1][2])]
  <1>1. ASSUME NEW x \in m, NEW t \in V PROVE TrackMatch(t, x[1], x[2]) \in V
    BY TrackMatchKeeps
  <1>2. step \in [m \X V -> V]
    <2> HIDE DEF V
    <2> QED BY <1>1
  <1>3. \A x \in m, t \in V : step[<<x, t>>] = TrackMatch(t, x[1], x[2])
    <2> HIDE DEF V
    <2> QED OBVIOUS
  <1> HIDE DEF V, step
  <1>4. PICK h \in [SUBSET m -> V] : FoldsBy(h, m, s, step)
    BY <1>2, StepFold DEF V
  <1>5. ASSUME NEW T \in SUBSET m
        PROVE  h[T] = IF T = {} THEN s
                      ELSE LET x == CHOOSE y \in T : TRUE IN TrackMatch(h[T \ {x}], x[1], x[2])
    <2>1. CASE T = {}
      BY <1>4, <2>1 DEF FoldsBy
    <2>2. CASE T # {}
      <3> DEFINE x == CHOOSE y \in T : TRUE
      <3>1. x \in m /\ h[T \ {x}] \in V
        BY <2>2
      <3>2. h[T] = step[<<x, h[T \ {x}]>>]
        BY <1>4, <2>2 DEF FoldsBy
      <3> HIDE DEF x
      <3>3. h[T] = TrackMatch(h[T \ {x}], x[1], x[2])
        BY <1>3, <3>1, <3>2
      <3> QED BY <2>2, <3>3 DEF x
    <2> QED BY <2>1, <2>2
  <1>6. MatchFold(h, s, m)
    <2>1. h = [T \in SUBSET m |-> h[T]]
      OBVIOUS
    <2> QED BY <1>5, <2>1 DEF MatchFold
  <1> DEFINE g == CHOOSE g : MatchFold(g, s, m)
  <1>7. MatchFold(g, s, m)
    BY <1>6
  <1>8. TrackMatches(s, m) = g[m]
    BY DEF TrackMatches, FoldSet, MapThenFoldSet, MatchFold
  <1> HIDE DEF g
  <1>9. g[{}] = s
    BY <1>7 DEF MatchFold
  <1>10. ASSUME NEW T \in SUBSET m, NEW x \in T, x = (CHOOSE y \in T : TRUE), g[T \ {x}] \in V
         PROVE  g[T] \in V
    <2>1. g[T] = TrackMatch(g[T \ {x}], x[1], x[2])
      BY <1>7, <1>10 DEF MatchFold
    <2> QED BY <1>1, <1>10, <2>1
  <1>11. s \in V
    BY DEF V
  <1>12. g[m] \in V
    BY <1>9, <1>10, <1>11, FoldStays
  <1> QED BY <1>8, <1>12 DEF V

LEMMA ReentriesKeep ==
    ASSUME TrackingInv, NEW seen, DetectedFrame(seen), NEW s \in GoodTables(seen),
           NEW m \in SUBSET (seen \X DOMAIN s.identities), IsFiniteSet(m),
           \A x \in m : /\ x[2] \in DOMAIN telemetry
                        /\ Similarity[x[1]][s.identities[x[2]]] >= SECONDARY_MATCH_THRESHOLD
    PROVE  FoldSet(LAMBDA x, t : ReentryMatch(t, x[1], x[2]), s, m) \in GoodTables(seen)
  <1> DEFINE V == {t \in GoodTables(seen) : t.identities = s.identities}
             step == [z \in m \X V |-> ReentryMatch(z[2], z[1][1], z[1][2])]
  <1>1. ASSUME NEW x \in m, NEW t \in V PROVE ReentryMatch(t, x[1], x[2]) \in V
    BY ReentryMatchKeeps
  <1>2. step \in [m \X V -> V]
    <2> HIDE DEF V
    <2> QED BY <1>1
  <1>3. \A x \in m, t \in V : step[<<x, t>>] = ReentryMatch(t, x[1], x[2])
    <2> HIDE DEF V
    <2> QED OBVIOUS
  <1> HIDE DEF V, step
  <1>4. PICK h \in [SUBSET m -> V] : FoldsBy(h, m, s, step)
    BY <1>2, StepFold DEF V
  <1>5. ASSUME NEW T \in SUBSET m
        PROVE  h[T] = IF T = {} THEN s
                      ELSE LET x == CHOOSE y \in T : TRUE IN ReentryMatch(h[T \ {x}], x[1], x[2])
    <2>1. CASE T = {}
      BY <1>4, <2>1 DEF FoldsBy
    <2>2. CASE T # {}
      <3> DEFINE x == CHOOSE y \in T : TRUE
      <3>1. x \in m /\ h[T \ {x}] \in V
        BY <2>2
      <3>2. h[T] = step[<<x, h[T \ {x}]>>]
        BY <1>4, <2>2 DEF FoldsBy
      <3> HIDE DEF x
      <3>3. h[T] = ReentryMatch(h[T \ {x}], x[1], x[2])
        BY <1>3, <3>1, <3>2
      <3> QED BY <2>2, <3>3 DEF x
    <2> QED BY <2>1, <2>2
  <1>6. ReentryFold(h, s, m)
    <2>1. h = [T \in SUBSET m |-> h[T]]
      OBVIOUS
    <2> QED BY <1>5, <2>1 DEF ReentryFold
  <1> DEFINE g == CHOOSE g : ReentryFold(g, s, m)
  <1>7. ReentryFold(g, s, m)
    BY <1>6
  <1>8. FoldSet(LAMBDA x, t : ReentryMatch(t, x[1], x[2]), s, m) = g[m]
    BY DEF FoldSet, MapThenFoldSet, ReentryFold
  <1> HIDE DEF g
  <1>9. g[{}] = s
    BY <1>7 DEF ReentryFold
  <1>10. ASSUME NEW T \in SUBSET m, NEW x \in T, x = (CHOOSE y \in T : TRUE), g[T \ {x}] \in V
         PROVE  g[T] \in V
    <2>1. g[T] = ReentryMatch(g[T \ {x}], x[1], x[2])
      BY <1>7, <1>10 DEF ReentryFold
    <2> QED BY <1>1, <1>10, <2>1
  <1>11. s \in V
    BY DEF V
  <1>12. g[m] \in V
    BY <1>9, <1>10, <1>11, FoldStays
  <1> QED BY <1>8, <1>12 DEF V

LEMMA SpawnsKeep ==
    ASSUME TrackingInv, NEW seen, DetectedFrame(seen), NEW s \in GoodTables(seen),
           NEW m \in SUBSET seen, IsFiniteSet(m)
    PROVE  FoldSet(LAMBDA p, t : Spawn(t, p), s, m)
           \in {t \in GoodTables(seen) : t.identities = s.identities /\ t.telemetry = s.telemetry}
  <1> DEFINE V == {t \in GoodTables(seen) : t.identities = s.identities /\ t.telemetry = s.telemetry}
             step == [z \in m \X V |-> Spawn(z[2], z[1])]
  <1>1. ASSUME NEW x \in m, NEW t \in V PROVE Spawn(t, x) \in V
    BY SpawnKeeps
  <1>2. step \in [m \X V -> V]
    <2> HIDE DEF V
    <2> QED BY <1>1
  <1>3. \A x \in m, t \in V : step[<<x, t>>] = Spawn(t, x)
    <2> HIDE DEF V
    <2> QED OBVIOUS
  <1> HIDE DEF V, step
  <1>4. PICK h \in [SUBSET m -> V] : FoldsBy(h, m, s, step)
    BY <1>2, StepFold DEF V
  <1>5. ASSUME NEW T \in SUBSET m
        PROVE  h[T] = IF T = {} THEN s
                      ELSE LET x == CHOOSE y \in T : TRUE IN Spawn(h[T \ {x}], x)
    <2>1. CASE T = {}
      BY <1>4, <2>1 DEF FoldsBy
    <2>2. CASE T # {}
      <3> DEFINE x == CHOOSE y \in T : TRUE
      <3>1. x \in m /\ h[T \ {x}] \in V
        BY <2>2
      <3>2. h[T] = step[<<x, h[T \ {x}]>>]
        BY <1>4, <2>2 DEF FoldsBy
      <3> HIDE DEF x
      <3>3. h[T] = Spawn(h[T \ {x}], x)
        BY <1>3, <3>1, <3>2
      <3> QED BY <2>2, <3>3 DEF x
    <2> QED BY <2>1, <2>2
  <1>6. SpawnFold(h, s, m)
    <2>1. h = [T \in SUBSET m |-> h[T]]
      OBVIOUS
    <2> QED BY <1>5, <2>1 DEF SpawnFold
  <1> DEFINE g == CHOOSE g : SpawnFold(g, s, m)
  <1>7. SpawnFold(g, s, m)
    BY <1>6
  <1>8. FoldSet(LAMBDA p, t : Spawn(t, p), s, m) = g[m]
    BY DEF FoldSet, MapThenFoldSet, SpawnFold
  <1> HIDE DEF g
  <1>9. g[{}] = s
    BY <1>7 DEF SpawnFold
  <1>10. ASSUME NEW T \in SUBSET m, NEW x \in T, x = (CHOOSE y \in T : TRUE), g[T \ {x}] \in V
         PROVE  g[T] \in V
    <2>1. g[T] = Spawn(g[T \ {x}], x)
      BY <1>7, <1>10 DEF SpawnFold
    <2> QED BY <1>1, <1>10, <2>1
  <1>11. s \in V
    BY DEF V
  <1>12. g[m] \in V
    BY <1>9, <1>10, <1>11, FoldStays
  <1> QED BY <1>8, <1>12 DEF V

LEMMA PairsAreFinite ==
    ASSUME TrackingInv, NEW seen \in SUBSET Person, NEW X, IsFiniteSet(X),
           NEW m \in SUBSET (seen \X X)
    PROVE  IsFiniteSet(m)
  <1>1. IsFiniteSet(seen)
    BY TrackingAssumption, FS_Subset
  <1>2. IsFiniteSet(seen \X X)
    BY <1>1, FS_Product
  <1> QED BY <1>2, FS_Subset

LEMMA SimilarityIsNumber ==
    ASSUME NEW p \in Person, NEW q \in Person
    PROVE  Similarity[p][q] \in Int
  <1>1. Similarity \in [Person -> [Person -> 0..100]]
    BY TrackingAssumption
  <1>2. Similarity[p][q] \in 0..100
    BY <1>1
  <1> QED BY <1>2

LEMMA AssignmentPairs ==
    ASSUME NEW gain, NEW m \in FiniteAssignments(gain)
    PROVE  m \in SUBSET (DOMAIN gain)
  BY DEF FiniteAssignments, Matchings

LEMMA AppearanceKeeps ==
    ASSUME TrackingInv, NEW seen, DetectedFrame(seen), NEW s \in GoodTables(seen),
           NEW t \in ByAppearance(s, seen)
    PROVE  t \in GoodTables(seen)
  <1> DEFINE pairs == {x \in seen \X DOMAIN tracks : ActiveSpatiallyValid(scene'[x[1]], tracks[x[2]])}
             gain == [x \in pairs |-> Similarity[x[1]][tracks[x[2]].look]]
             m(a) == {x \in a : gain[x] >= ACTIVE_MATCH_THRESHOLD}
  <1>1. PICK a \in FiniteAssignments(gain) : t = TrackMatches(s, m(a))
    BY DEF ByAppearance
  <1>2. a \in SUBSET pairs
    <2>1. DOMAIN gain = pairs
      OBVIOUS
    <2> HIDE DEF gain, pairs
    <2> QED BY <1>1, <2>1, AssignmentPairs
  <1>3. m(a) \in SUBSET (seen \X DOMAIN tracks)
    BY <1>2
  <1>4. ASSUME NEW x \in m(a) PROVE Similarity[x[1]][tracks[x[2]].look] >= SECONDARY_MATCH_THRESHOLD
    <2>1. x \in pairs /\ gain[x] >= ACTIVE_MATCH_THRESHOLD
      BY <1>2
    <2>2. x[1] \in Person /\ tracks[x[2]] \in ProfileRow
      BY <2>1 DEF DetectedFrame, TrackingInv, TrackingTypeOK
    <2>3. gain[x] = Similarity[x[1]][tracks[x[2]].look]
      BY <2>1
    <2>4. Similarity[x[1]][tracks[x[2]].look] \in Int
      <3>1. tracks[x[2]].look \in Person
        BY <2>2 DEF ProfileRow
      <3> QED BY <2>2, <3>1, SimilarityIsNumber
    <2> HIDE DEF gain
    <2> QED BY <2>1, <2>3, <2>4 DEF ACTIVE_MATCH_THRESHOLD, SECONDARY_MATCH_THRESHOLD
  <1>5. IsFiniteSet(m(a))
    <2>1. IsFiniteSet(DOMAIN tracks) /\ seen \in SUBSET Person
      BY DEF TrackingInv, TrackingTypeOK, DetectedFrame
    <2> HIDE DEF m
    <2> QED BY <1>3, <2>1, PairsAreFinite
  <1>6. TrackMatches(s, m(a)) \in GoodTables(seen)
    <2> HIDE DEF m
    <2> QED BY <1>3, <1>4, <1>5, MatchesKeep
  <1> QED BY <1>1, <1>6

LEMMA PlaceKeeps ==
    ASSUME TrackingInv, NEW seen, DetectedFrame(seen), NEW sure \in SUBSET seen,
           NEW s \in GoodTables(seen), NEW t \in ByPlace(s, sure)
    PROVE  t \in GoodTables(seen)
  <1> DEFINE pairs == {x \in (sure \ s.people) \X (DOMAIN tracks \ s.matched) :
                          /\ ActiveSpatiallyValid(scene'[x[1]], tracks[x[2]])
                          /\ Similarity[x[1]][tracks[x[2]].look] >= SECONDARY_MATCH_THRESHOLD}
             scale == FoldSet(LAMBDA age, y : LimitOf(age) * y, 1, 0..MaxDisappeared)
             cost == [x \in pairs |-> (4 * Distance(scene'[x[1]], tracks[x[2]].cell) * scale)
                                      \div LimitOf(tracks[x[2]].age)]
             gain == [x \in pairs |-> -cost[x]]
  <1>1. PICK m \in FiniteAssignments(gain) : t = TrackMatches(s, m)
    BY DEF ByPlace
  <1>2. m \in SUBSET pairs
    <2>1. DOMAIN gain = pairs
      OBVIOUS
    <2> HIDE DEF gain, pairs
    <2> QED BY <1>1, <2>1, AssignmentPairs
  <1>3. m \in SUBSET (seen \X DOMAIN tracks)
    BY <1>2
  <1>4. \A x \in m : Similarity[x[1]][tracks[x[2]].look] >= SECONDARY_MATCH_THRESHOLD
    BY <1>2
  <1>5. IsFiniteSet(m)
    <2>1. IsFiniteSet(DOMAIN tracks) /\ seen \in SUBSET Person
      BY DEF TrackingInv, TrackingTypeOK, DetectedFrame
    <2> QED BY <1>3, <2>1, PairsAreFinite
  <1>6. TrackMatches(s, m) \in GoodTables(seen)
    BY <1>3, <1>4, <1>5, MatchesKeep
  <1> QED BY <1>1, <1>6

LEMMA ReentryKeeps ==
    ASSUME TrackingInv, NEW seen, DetectedFrame(seen), NEW sure \in SUBSET seen,
           NEW s \in GoodTables(seen), NEW t \in ByReentry(s, sure)
    PROVE  t \in GoodTables(seen)
  <1> DEFINE ids == {id \in DOMAIN s.identities \ DOMAIN s.updated :
                        id \in DOMAIN tracks => tracks[id].age > 0}
             pairs == {x \in (sure \ s.people) \X ids :
                          ReentrySpatiallyValid(scene'[x[1]], s.telemetry[x[2]])}
             gain == [x \in pairs |-> Similarity[x[1]][s.identities[x[2]]]]
             m(a) == {x \in a : Reenters(gain[x])}
  <1>1. PICK a \in FiniteAssignments(gain) :
            t = FoldSet(LAMBDA x, y : ReentryMatch(y, x[1], x[2]), s, m(a))
    BY DEF ByReentry
  <1>2. a \in SUBSET pairs
    <2>1. DOMAIN gain = pairs
      OBVIOUS
    <2> HIDE DEF gain, pairs
    <2> QED BY <1>1, <2>1, AssignmentPairs
  <1>3. m(a) \in SUBSET (seen \X DOMAIN s.identities)
    BY <1>2
  <1>4. s \in Tables /\ GoodTelemetry(s, seen) /\ GoodGallery(s) /\ seen \in SUBSET Person
    BY DEF GoodTables, DetectedFrame
  <1>5. s.identities \in [DOMAIN s.identities -> Person]
    <2>1. s.identities \in Maps(Person)
      BY <1>4 DEF Tables
    <2> QED BY <2>1, MapFacts
  <1>6. ASSUME NEW x \in m(a)
        PROVE  /\ x[2] \in DOMAIN telemetry
               /\ Similarity[x[1]][s.identities[x[2]]] >= SECONDARY_MATCH_THRESHOLD
    <2>1. x \in pairs /\ Reenters(gain[x])
      BY <1>2
    <2>2. x[1] \in seen /\ x[2] \in DOMAIN s.identities /\ x[2] \notin DOMAIN s.updated
      BY <2>1
    <2>3. x[2] \in DOMAIN telemetry
      BY <1>4, <2>2 DEF GoodTelemetry, GoodGallery, NotGiven
    <2>4. gain[x] = Similarity[x[1]][s.identities[x[2]]]
      BY <2>1
    <2>5. Similarity[x[1]][s.identities[x[2]]] \in Int
      <3>1. s.identities[x[2]] \in Person /\ x[1] \in Person
        BY <1>4, <1>5, <2>2
      <3> QED BY <3>1, SimilarityIsNumber
    <2> HIDE DEF gain
    <2> QED BY <2>1, <2>3, <2>4, <2>5 DEF Reenters, REENTRY_MATCH_THRESHOLD, SECONDARY_MATCH_THRESHOLD
  <1>7. IsFiniteSet(m(a))
    <2>1. IsFiniteSet(DOMAIN s.identities)
      <3>1. s.next \in Nat \ {0} /\ DOMAIN s.identities \subseteq 1..(s.next - 1)
        BY <1>4 DEF Tables, GoodTelemetry, GoodGallery
      <3>2. IsFiniteSet(1..(s.next - 1))
        BY <3>1, FS_Interval
      <3> QED BY <3>1, <3>2, FS_Subset
    <2> HIDE DEF m
    <2> QED BY <1>3, <1>4, <2>1, PairsAreFinite
  <1>8. FoldSet(LAMBDA x, y : ReentryMatch(y, x[1], x[2]), s, m(a)) \in GoodTables(seen)
    <2> HIDE DEF m
    <2> QED BY <1>3, <1>6, <1>7, ReentriesKeep
  <1> QED BY <1>1, <1>8

LEMMA NewStateGood ==
    ASSUME TrackingInv, NEW seen, DetectedFrame(seen)
    PROVE  NewState \in GoodTables(seen)
  <1> DEFINE s == NewState
             n == Cardinality(DOMAIN telemetry)
             kept == {id \in DOMAIN identities :
                        id \in DOMAIN tracks \/ frame' - telemetry[id].last <= MaxReentry}
  <1>1. /\ n \in Nat /\ telemetry \in [1..n -> Sighting] /\ DOMAIN telemetry = 1..n
        /\ DOMAIN identities \subseteq 1..n /\ identities \in [DOMAIN identities -> Person]
    BY FS_CardinalityType DEF TrackingInv, TrackingTypeOK
  <1>2. /\ s.next = n + 1 /\ s.identities = [id \in kept |-> identities[id]]
        /\ s.telemetry = telemetry /\ s.updated = NoOne
    BY DEF NewState, Unexpired, Restrict
  <1>3. s \in Tables
    <2>1. NoOne \in Maps(ProfileRow)
      <3>1. DOMAIN NoOne = {} /\ NoOne \in [{} -> ProfileRow]
        BY DEF NoOne
      <3> QED BY <3>1, MapFacts
    <2>2. telemetry \in Maps(Sighting)
      BY <1>1, MapFacts
    <2>3. Unexpired \in Maps(Person)
      <3>1. DOMAIN Unexpired = kept /\ Unexpired \in [kept -> Person] /\ kept \subseteq Int
        BY <1>1 DEF Unexpired, Restrict
      <3> HIDE DEF kept
      <3> QED BY <3>1, MapFacts
    <2>4. n + 1 \in Nat \ {0}
      BY <1>1
    <2> HIDE DEF n, kept
    <2> QED BY <2>1, <2>2, <2>3, <2>4 DEF NewState, Tables, n
  <1>4. GoodTelemetry(s, seen)
    <2>1. n + 1 - 1 = n
      BY <1>1
    <2>2. DOMAIN s.updated = {}
      BY <1>2 DEF NoOne
    <2> HIDE DEF s, n, kept
    <2> QED BY <1>1, <1>2, <2>1, <2>2 DEF GoodTelemetry, NotGiven
  <1>5. GoodGallery(s)
    <2>1. ASSUME NEW id \in kept PROVE Recent(id)
      <3>1. CASE id \in DOMAIN tracks
        BY <1>1, <3>1, TrackFacts DEF DetectedFrame
      <3>2. CASE frame' - telemetry[id].last <= MaxReentry
        <4>1. /\ MaxReentry \in Int /\ MaxDisappeared + 1 \in Int
          BY TrackingAssumption
        <4>2. /\ Max({MaxReentry, MaxDisappeared + 1}) \in Int
              /\ Max({MaxReentry, MaxDisappeared + 1}) >= MaxReentry
          BY <4>1, LargerOfTwo
        <4>3. frame' - telemetry[id].last \in Int
          <5>1. telemetry[id] \in Sighting
            BY <1>1
          <5>2. telemetry[id].last \in Int
            BY <5>1 DEF Sighting
          <5> QED BY <5>2 DEF DetectedFrame, TrackingInv, TrackingTypeOK
        <4> QED BY <3>2, <4>1, <4>2, <4>3 DEF Recent
      <3> QED BY <2>1, <3>1, <3>2
    <2>2. \A id \in DOMAIN tracks : id > 0 => id \in kept
      BY TrackFacts DEF DetectedFrame
    <2>3. kept \subseteq DOMAIN identities
      OBVIOUS
    <2> HIDE DEF s, kept
    <2> QED BY <1>1, <1>2, <2>1, <2>2, <2>3 DEF GoodGallery
  <1>6. GoodProfiles(s)
    BY <1>2, FS_EmptySet DEF GoodProfiles, NoOne
  <1> QED BY <1>3, <1>4, <1>5, <1>6 DEF GoodTables

\* What the associated tables leave behind: id was given in this frame, to one
\* who is there, or it is as it was.
LEMMA AgedKeeps ==
    ASSUME TrackingInv, NEW seen, DetectedFrame(seen), NEW s \in GoodTables(seen),
           tracks' = Aged(s), identities' = s.identities, telemetry' = s.telemetry,
           given' = GivenTo(s, seen)
    PROVE  /\ TrackingInv'
           /\ \A id \in DOMAIN telemetry :
                 \/ telemetry'[id].last = telemetry[id].last
                 \/ telemetry'[id].last - telemetry[id].last <= Max({MaxReentry, MaxDisappeared + 1})
  <1>1. s \in Tables /\ GoodTelemetry(s, seen) /\ GoodGallery(s) /\ GoodProfiles(s)
    BY DEF GoodTables
  <1>2. /\ s.next \in Nat \ {0} /\ s.identities \in Maps(Person) /\ s.telemetry \in Maps(Sighting)
        /\ s.updated \in Maps(ProfileRow)
    BY <1>1 DEF Tables
  <1>3. /\ frame \in Nat /\ frame' \in Nat /\ frame < frame' /\ frame' = frame + 1
    BY DEF TrackingInv, TrackingTypeOK, DetectedFrame
  <1> DEFINE aged == {id \in DOMAIN tracks \ (DOMAIN s.updated \cup s.matched) : Kept(id)}
  <1>4. /\ DOMAIN tracks' = DOMAIN s.updated \cup aged
        /\ \A id \in aged : tracks'[id] = [tracks[id] EXCEPT !.age = @ + 1]
        /\ \A id \in DOMAIN s.updated : tracks'[id] = s.updated[id]
    BY DEF Aged
  <1>5. ASSUME NEW id \in aged
        PROVE  /\ id \in DOMAIN tracks /\ id \notin DOMAIN s.updated /\ id > 0
               /\ tracks[id] \in ProfileRow /\ tracks[id].age + 1 \in 0..MaxDisappeared
               /\ tracks'[id] \in ProfileRow /\ tracks'[id].age = tracks[id].age + 1
               /\ tracks'[id].look = tracks[id].look
    <2>1. /\ id \in DOMAIN tracks /\ id \notin DOMAIN s.updated
          /\ id > 0 /\ tracks[id].age + 1 <= MaxDisappeared
      BY DEF Kept
    <2>2. tracks[id] \in ProfileRow
      BY <2>1 DEF TrackingInv, TrackingTypeOK
    <2>3. tracks[id].age + 1 \in 0..MaxDisappeared
      BY <2>1, <2>2, TrackingAssumption DEF ProfileRow
    <2>4. tracks'[id] = [tracks[id] EXCEPT !.age = tracks[id].age + 1]
      BY <1>4
    <2> HIDE DEF aged
    <2> QED BY <2>1, <2>2, <2>3, <2>4 DEF ProfileRow
  <1>6. ASSUME NEW id \in DOMAIN s.telemetry
        PROVE  \/ id \in DOMAIN s.updated /\ GivenNow(s, seen, id)
               \/ /\ id \notin DOMAIN s.updated /\ NotGiven(s, id)
                  /\ s.telemetry[id].last # frame' /\ s.telemetry[id].last <= frame
    <2>1. IF id \in DOMAIN s.updated THEN GivenNow(s, seen, id) ELSE NotGiven(s, id)
      BY <1>1 DEF GoodTelemetry
    <2>2. NotGiven(s, id) => s.telemetry[id].last # frame' /\ s.telemetry[id].last <= frame
      <3> SUFFICES ASSUME NotGiven(s, id)
                   PROVE  s.telemetry[id].last # frame' /\ s.telemetry[id].last <= frame
        OBVIOUS
      <3>1. telemetry[id] \in Sighting /\ telemetry[id].last <= frame
        BY DEF NotGiven, TrackingInv, TrackingTypeOK, SightingsArePast
      <3>2. telemetry[id].last \in Nat
        BY <3>1 DEF Sighting
      <3> QED BY <1>3, <3>1, <3>2 DEF NotGiven
    <2> QED BY <2>1, <2>2
  <1> HIDE DEF aged
  <1>7. TrackingTypeOK'
    <2>1. scene' \in [Person -> Cell \cup {None}] /\ seen \in SUBSET Person
      BY DEF DetectedFrame
    <2>2. IsFiniteSet(DOMAIN tracks') /\ DOMAIN tracks' \subseteq Int \ {0}
      <3>1. IsFiniteSet(DOMAIN s.updated) /\ DOMAIN s.updated \subseteq Int \ {0}
        BY <1>1 DEF GoodProfiles
      <3>2. IsFiniteSet(aged)
        <4>1. IsFiniteSet(DOMAIN tracks) /\ aged \subseteq DOMAIN tracks
          BY <1>5 DEF TrackingInv, TrackingTypeOK
        <4> QED BY <4>1, FS_Subset
      <3>3. aged \subseteq Int \ {0}
        BY <1>5 DEF TrackingInv, TrackingTypeOK
      <3>4. IsFiniteSet(DOMAIN s.updated \cup aged)
        BY <3>1, <3>2, FS_Union
      <3> QED BY <1>4, <3>1, <3>3, <3>4
    <2>3. tracks' \in [DOMAIN tracks' -> ProfileRow]
      <3>1. s.updated \in [DOMAIN s.updated -> ProfileRow]
        BY <1>2, MapFacts
      <3>2. \A id \in DOMAIN tracks' : tracks'[id] \in ProfileRow
        BY <1>4, <1>5, <3>1
      <3>3. tracks' = [id \in DOMAIN tracks' |-> tracks'[id]]
        BY DEF Aged
      <3> QED BY <3>2, <3>3
    <2>4. /\ IsFiniteSet(DOMAIN telemetry') /\ telemetry' \in [1..Cardinality(DOMAIN telemetry') -> Sighting]
      <3>1. DOMAIN telemetry' = 1..(s.next - 1) /\ telemetry' \in [DOMAIN telemetry' -> Sighting]
        <4>1. s.telemetry \in [DOMAIN s.telemetry -> Sighting]
          BY <1>2, MapFacts
        <4> QED BY <1>1, <4>1 DEF GoodTelemetry
      <3>2. s.next - 1 \in Nat
        BY <1>2
      <3>3. IsFiniteSet(1..(s.next - 1)) /\ Cardinality(1..(s.next - 1)) = s.next - 1
        BY <3>2, FS_Interval
      <3> QED BY <3>1, <3>3
    <2>5. DOMAIN identities' \subseteq DOMAIN telemetry' /\ identities' \in [DOMAIN identities' -> Person]
      <3>1. s.identities \in [DOMAIN s.identities -> Person]
        BY <1>2, MapFacts
      <3> QED BY <1>1, <3>1 DEF GoodGallery
    <2>6. given' \in [DOMAIN telemetry' -> SUBSET Person]
      <3>1. given \in [DOMAIN telemetry -> SUBSET Person]
        BY DEF TrackingInv, TrackingTypeOK
      <3> QED BY <2>1, <3>1 DEF GivenTo
    <2> QED BY <1>3, <2>1, <2>2, <2>3, <2>4, <2>5, <2>6 DEF TrackingTypeOK
  <1>8. TracksAreKnown'
    <2> SUFFICES ASSUME NEW id \in DOMAIN tracks', id > 0
                 PROVE  /\ id \in DOMAIN s.identities /\ s.identities[id] = tracks'[id].look
                        /\ s.telemetry[id].last + tracks'[id].age = frame'
      BY DEF TracksAreKnown
    <2>1. CASE id \in DOMAIN s.updated
      <3>1. /\ id \in DOMAIN s.identities /\ s.updated[id].look = s.identities[id]
            /\ s.updated[id].age = 0 /\ id \in DOMAIN s.telemetry
        BY <1>1, <2>1 DEF GoodProfiles, GoodGallery
      <3>2. s.telemetry[id].last = frame'
        BY <1>6, <2>1, <3>1 DEF GivenNow
      <3> QED BY <1>3, <1>4, <2>1, <3>1, <3>2
    <2>2. CASE id \in aged
      <3>1. /\ id \in DOMAIN identities /\ identities[id] = tracks[id].look
            /\ telemetry[id].last + tracks[id].age = frame /\ id \in DOMAIN telemetry
        BY <1>5, <2>2 DEF TrackingInv, TrackingTypeOK, TracksAreKnown
      <3>2. /\ id \in DOMAIN s.identities /\ s.identities[id] = identities[id]
            /\ id \in DOMAIN s.telemetry
        BY <1>1, <1>5, <2>2, <3>1 DEF GoodGallery
      <3>3. s.telemetry[id] = telemetry[id]
        BY <1>5, <1>6, <2>2, <3>2 DEF NotGiven
      <3>4. telemetry[id].last \in Nat
        <4>1. telemetry[id] \in Sighting
          BY <3>1 DEF TrackingInv, TrackingTypeOK
        <4> QED BY <4>1 DEF Sighting
      <3>5. tracks[id].age \in Int /\ tracks'[id].age = tracks[id].age + 1
            /\ tracks'[id].look = tracks[id].look
        BY <1>5, <2>2 DEF ProfileRow
      <3>6. s.telemetry[id].last + tracks'[id].age = frame'
        BY <1>3, <3>1, <3>3, <3>4, <3>5
      <3> QED BY <3>1, <3>2, <3>5, <3>6
    <2> QED BY <1>4, <2>1, <2>2
  <1>9. SightingsArePast'
    <2> SUFFICES ASSUME NEW id \in DOMAIN s.telemetry PROVE s.telemetry[id].last <= frame'
      BY DEF SightingsArePast
    <2>1. s.telemetry[id].last \in Nat
      <3>1. s.telemetry[id] \in Sighting
        BY <1>2, MapFacts
      <3> QED BY <3>1 DEF Sighting
    <2>2. s.telemetry[id].last = frame' \/ s.telemetry[id].last <= frame
      BY <1>6 DEF GivenNow
    <2> QED BY <1>3, <2>1, <2>2
  <1>10. \A id \in DOMAIN given' :
            /\ id \in DOMAIN s.telemetry
            /\ id \in DOMAIN s.updated =>
                  \A p \in given'[id] : \/ id \in DOMAIN telemetry /\ p \in given[id]
                                        \/ /\ id \in DOMAIN s.identities
                                           /\ Similarity[p][s.identities[id]] >= SECONDARY_MATCH_THRESHOLD
            /\ id \notin DOMAIN s.updated =>
                  id \in DOMAIN telemetry /\ \A p \in given'[id] : p \in given[id]
    <2> SUFFICES ASSUME NEW id \in DOMAIN s.telemetry
                 PROVE  /\ id \in DOMAIN s.updated =>
                              \A p \in given'[id] : \/ id \in DOMAIN telemetry /\ p \in given[id]
                                                    \/ /\ id \in DOMAIN s.identities
                                                       /\ Similarity[p][s.identities[id]] >= SECONDARY_MATCH_THRESHOLD
                        /\ id \notin DOMAIN s.updated =>
                              id \in DOMAIN telemetry /\ \A p \in given'[id] : p \in given[id]
      BY DEF GivenTo
    <2>1. DOMAIN given = DOMAIN telemetry
      BY DEF TrackingInv, TrackingTypeOK
    <2>2. \A p \in given'[id] : \/ id \in DOMAIN telemetry /\ p \in given[id]
                                \/ /\ p \in seen /\ s.telemetry[id].last = frame'
                                   /\ s.telemetry[id].cell = scene'[p]
      BY <2>1 DEF GivenTo
    <2>3. ASSUME NEW p \in seen, id \in DOMAIN s.updated, s.telemetry[id].cell = scene'[p]
          PROVE  /\ id \in DOMAIN s.identities
                 /\ Similarity[p][s.identities[id]] >= SECONDARY_MATCH_THRESHOLD
      <3>1. GivenNow(s, seen, id)
        BY <1>6, <2>3
      <3>2. PICK q \in seen : /\ s.telemetry[id].cell = scene'[q]
                              /\ Similarity[q][s.identities[id]] >= SECONDARY_MATCH_THRESHOLD
        BY <3>1 DEF GivenNow
      <3>3. p = q
        BY <2>3, <3>2 DEF DetectedFrame
      <3> QED BY <3>1, <3>2, <3>3 DEF GivenNow
    <2>4. id \notin DOMAIN s.updated => id \in DOMAIN telemetry /\ s.telemetry[id].last # frame'
      BY <1>6 DEF NotGiven
    <2> QED BY <2>2, <2>3, <2>4
  <1>11. GalleryIsAlike'
    <2> SUFFICES ASSUME NEW id \in DOMAIN s.identities, NEW p \in given'[id]
                 PROVE  Similarity[p][s.identities[id]] >= SECONDARY_MATCH_THRESHOLD
      BY DEF GalleryIsAlike
    <2>1. id \in DOMAIN s.telemetry /\ id \in DOMAIN given'
      BY <1>1 DEF GoodGallery, GivenTo
    <2>2. CASE id \in DOMAIN telemetry /\ p \in given[id]
      <3>1. id \in DOMAIN identities /\ s.identities[id] = identities[id]
        BY <1>1, <2>2 DEF GoodGallery
      <3> QED BY <2>2, <3>1 DEF TrackingInv, GalleryIsAlike
    <2> QED BY <1>10, <2>1, <2>2
  <1>12. IdsAreOnePerson'
    <2> SUFFICES ASSUME NEW id \in DOMAIN given'
                 PROVE  \E q \in Person : \A p \in given'[id] :
                           Similarity[p][q] >= SECONDARY_MATCH_THRESHOLD
      BY DEF IdsAreOnePerson
    <2>1. CASE id \in DOMAIN s.updated
      <3>1. id \in DOMAIN s.identities
        BY <1>6, <1>10, <2>1 DEF GivenNow
      <3>2. \A p \in given'[id] : Similarity[p][s.identities[id]] >= SECONDARY_MATCH_THRESHOLD
        BY <1>11, <3>1 DEF GalleryIsAlike
      <3>3. s.identities[id] \in Person
        <4>1. s.identities \in [DOMAIN s.identities -> Person]
          BY <1>2, MapFacts
        <4> QED BY <3>1, <4>1
      <3> QED BY <3>2, <3>3
    <2>2. CASE id \notin DOMAIN s.updated
      <3>1. id \in DOMAIN given /\ \A p \in given'[id] : p \in given[id]
        BY <1>10, <2>2 DEF TrackingInv, TrackingTypeOK
      <3> QED BY <3>1 DEF TrackingInv, IdsAreOnePerson
    <2> QED BY <2>1, <2>2
  <1>13. ASSUME NEW id \in DOMAIN telemetry
         PROVE  \/ telemetry'[id].last = telemetry[id].last
                \/ telemetry'[id].last - telemetry[id].last <= Max({MaxReentry, MaxDisappeared + 1})
    <2>1. id \in DOMAIN s.telemetry
      BY <1>1 DEF GoodTelemetry
    <2> QED BY <1>6, <2>1 DEF GivenNow, NotGiven, Recent
  <1> QED BY <1>7, <1>8, <1>9, <1>11, <1>12, <1>13 DEF TrackingInv

LEMMA TrackingStart == TInit => TrackingInv
  <1> SUFFICES ASSUME TInit PROVE TrackingInv
    OBVIOUS
  <1>1. DOMAIN NoOne = {} /\ IsFiniteSet({}) /\ Cardinality({}) = 0
    BY FS_EmptySet DEF NoOne
  <1>2. 1..Cardinality({}) = {}
    BY <1>1
  <1>3. \A X : NoOne \in [{} -> X]
    BY DEF NoOne
  <1>4. TrackingTypeOK
    BY <1>1, <1>2, <1>3 DEF TInit, TrackingTypeOK
  <1> QED BY <1>1, <1>4 DEF TInit, TrackingInv, TracksAreKnown, SightingsArePast, GalleryIsAlike,
                            IdsAreOnePerson

\* The sightings of ids that were not seen for long stay the last ones.
OldIdsStay ==
    \A id \in DOMAIN telemetry :
        \/ telemetry'[id].last = telemetry[id].last
        \/ telemetry'[id].last - telemetry[id].last <= Max({MaxReentry, MaxDisappeared + 1})

LEMMA FrameKeeps ==
    ASSUME TrackingInv, [TNext]_tvars
    PROVE  TrackingInv' /\ (OldIdsStay \/ UNCHANGED tvars)
  <1>1. CASE UNCHANGED tvars
    <2>1. TrackingInv'
      BY <1>1 DEF tvars, TrackingInv, TrackingTypeOK, TracksAreKnown, SightingsArePast,
                  GalleryIsAlike, IdsAreOnePerson
    <2> QED BY <1>1, <2>1
  <1>2. CASE Frame
    <2>1. PICK d \in Detectable(scene') :
              Associate({p \in Person : d[p] # "missed"}, {p \in Person : d[p] = "sure"})
      BY <1>2 DEF Frame
    <2> DEFINE there == {p \in Person : d[p] # "missed"}
               sure == {p \in Person : d[p] = "sure"}
    <2>2. frame' = frame + 1 /\ scene' \in [Person -> Cell \cup {None}]
      BY <1>2 DEF Frame, Scenes
    <2>3. there \in SUBSET Person /\ sure \in SUBSET there
      OBVIOUS
    <2>4. /\ \A p \in there : scene'[p] \in Cell
          /\ \A p, q \in there : p # q => scene'[p] # scene'[q]
      BY <2>2 DEF Detectable
    <2> HIDE DEF there, sure
    <2>5. DetectedFrame(there)
      BY <2>2, <2>3, <2>4 DEF DetectedFrame
    <2>6. PICK a \in ByAppearance(NewState, there) :
              \E b \in ByPlace(a, sure) :
                 \E s \in ByReentry(b, sure) :
                    /\ tracks' = Aged(Spawned(s, sure)) /\ identities' = s.identities
                    /\ telemetry' = s.telemetry /\ given' = GivenTo(s, there)
      BY <2>1 DEF Associate, there, sure
    <2>7. PICK b \in ByPlace(a, sure) :
              \E s \in ByReentry(b, sure) :
                 /\ tracks' = Aged(Spawned(s, sure)) /\ identities' = s.identities
                 /\ telemetry' = s.telemetry /\ given' = GivenTo(s, there)
      BY <2>6
    <2>8. PICK s \in ByReentry(b, sure) :
              /\ tracks' = Aged(Spawned(s, sure)) /\ identities' = s.identities
              /\ telemetry' = s.telemetry /\ given' = GivenTo(s, there)
      BY <2>7
    <2>9. a \in GoodTables(there)
      BY <2>5, <2>6, NewStateGood, AppearanceKeeps
    <2>10. b \in GoodTables(there)
      BY <2>3, <2>5, <2>7, <2>9, PlaceKeeps
    <2>11. s \in GoodTables(there)
      BY <2>3, <2>5, <2>8, <2>10, ReentryKeeps
    <2> DEFINE u == Spawned(s, sure)
    <2>12. u \in {t \in GoodTables(there) : t.identities = s.identities /\ t.telemetry = s.telemetry}
      <3> DEFINE m == {p \in sure \ s.people : ~Overlaps(s, p)}
      <3>1. m \in SUBSET there /\ IsFiniteSet(m)
        <4>1. m \in SUBSET there /\ m \in SUBSET Person
          BY <2>3
        <4> HIDE DEF m
        <4> QED BY <4>1, TrackingAssumption, FS_Subset
      <3>2. u = FoldSet(LAMBDA p, t : Spawn(t, p), s, m)
        BY DEF Spawned, Spawn
      <3> HIDE DEF m, u
      <3> QED BY <2>5, <2>11, <3>1, <3>2, SpawnsKeep
    <2>13. given' = GivenTo(u, there)
      BY <2>8, <2>12 DEF GivenTo
    <2>14. tracks' = Aged(u) /\ identities' = u.identities /\ telemetry' = u.telemetry
      BY <2>8, <2>12
    <2> HIDE DEF u
    <2> QED BY <2>5, <2>12, <2>13, <2>14, AgedKeeps DEF OldIdsStay
  <1> QED BY <1>1, <1>2 DEF TNext

\* Every sampled frame leaves tracks, gallery, sightings and the history of the
\* ids in agreement, whoever walks where and whoever the detector misses.
THEOREM TrackingInvariance == TSpec => []TrackingInv
  <1>1. TInit => TrackingInv
    BY TrackingStart
  <1>2. TrackingInv /\ [TNext]_tvars => TrackingInv'
    BY FrameKeeps
  <1> QED BY <1>1, <1>2, PTL DEF TSpec

\* Whoever is given an id is like one person, the one whose look the id got when
\* its track was confirmed.
THEOREM IdsOnePerson == TSpec => []IdsAreOnePerson
  <1>1. TrackingInv => IdsAreOnePerson
    BY DEF TrackingInv
  <1> QED BY <1>1, TrackingInvariance, PTL

\* No id that was out of the gallery and without a track is given again.
THEOREM OldIdsStayAway == TSpec => NoOldIdReturns
  <1>1. TrackingInv /\ [TNext]_tvars =>
          [\A id \in DOMAIN telemetry :
              telemetry'[id].last = telemetry[id].last
              \/ telemetry'[id].last - telemetry[id].last <= Max({MaxReentry, MaxDisappeared + 1})]_tvars
    BY FrameKeeps DEF OldIdsStay
  <1> QED BY <1>1, TrackingInvariance, PTL DEF TSpec, NoOldIdReturns
-----------------------------------------------------------------------------
(* EventEvidence *)

LEMMA ImageIsFinite ==
    ASSUME NEW S, IsFiniteSet(S), NEW f
    PROVE  IsFiniteSet({f[x] : x \in S}) /\ Cardinality({f[x] : x \in S}) <= Cardinality(S)
  <1> DEFINE T == {f[x] : x \in S}
             h == [x \in S |-> f[x]]
  <1>1. h \in Surjection(S, T)
    BY DEF Surjection
  <1> QED BY <1>1, FS_Surjection

LEMMA SameNumber ==
    ASSUME NEW S, IsFiniteSet(S), NEW f,
           \A x, y \in S : f[x] = f[y] => x = y
    PROVE  IsFiniteSet({f[x] : x \in S}) /\ Cardinality({f[x] : x \in S}) = Cardinality(S)
  <1> DEFINE T == {f[x] : x \in S}
             h == [x \in S |-> f[x]]
  <1>1. h \in Surjection(S, T)
    BY DEF Surjection
  <1>2. h \in Injection(S, T)
    <2>1. h \in [S -> T]
      OBVIOUS
    <2>2. \A x, y \in S : h[x] = h[y] => x = y
      OBVIOUS
    <2> HIDE DEF h, T
    <2> QED BY <2>1, <2>2 DEF Injection, IsInjective
  <1> HIDE DEF h
  <1> QED BY <1>1, <1>2, FS_Surjection

\* Events of a sweep, and the place of each among them.
Event == [at : Nat, delta : {-1, 1}, id : Nat]

Place(E) == [x \in E |-> 1 + Cardinality({y \in E : SweptBefore(y, x)})]

LEMMA SweptInOrder ==
    ASSUME NEW x \in Event, NEW y \in Event, NEW z \in Event
    PROVE  /\ ~SweptBefore(x, x)
           /\ SweptBefore(x, y) /\ SweptBefore(y, z) => SweptBefore(x, z)
           /\ x # y => SweptBefore(x, y) \/ SweptBefore(y, x)
  <1>1. ~SweptBefore(x, x)
    BY DEF Event, SweptBefore
  <1>2. SweptBefore(x, y) /\ SweptBefore(y, z) => SweptBefore(x, z)
    BY DEF Event, SweptBefore
  <1>3. x # y => SweptBefore(x, y) \/ SweptBefore(y, x)
    <2>1. x.at = y.at /\ x.delta = y.delta /\ x.id = y.id => x = y
      BY DEF Event
    <2>2. /\ x.at \in Int /\ y.at \in Int /\ x.delta \in Int /\ y.delta \in Int
          /\ x.id \in Int /\ y.id \in Int
      BY DEF Event
    <2> QED BY <2>1, <2>2 DEF SweptBefore
  <1> QED BY <1>1, <1>2, <1>3

LEMMA PlaceInOrder ==
    ASSUME NEW E \in SUBSET Event, IsFiniteSet(E), NEW x \in E
    PROVE  /\ Place(E)[x] \in 1..Cardinality(E)
           /\ \A y \in E : SweptBefore(x, y) => Place(E)[x] < Place(E)[y]
  <1> DEFINE Below(z) == {y \in E : SweptBefore(y, z)}
  <1>1. ASSUME NEW z \in E
        PROVE  IsFiniteSet(Below(z)) /\ Cardinality(Below(z)) \in Nat
               /\ Place(E)[z] = 1 + Cardinality(Below(z))
    <2>1. IsFiniteSet(Below(z))
      BY FS_Subset
    <2> QED BY <2>1, FS_CardinalityType DEF Place
  <1>2. Cardinality(E) \in Nat
    BY FS_CardinalityType
  <1>3. Cardinality(Below(x)) < Cardinality(E)
    <2>1. Below(x) \in SUBSET (E \ {x})
      BY SweptInOrder
    <2>2. IsFiniteSet(E \ {x}) /\ Cardinality(E \ {x}) = Cardinality(E) - 1
      BY FS_RemoveElement
    <2>3. Cardinality(Below(x)) <= Cardinality(E \ {x})
      <3> HIDE DEF Below
      <3> QED BY <2>1, <2>2, FS_Subset
    <2>4. Cardinality(Below(x)) \in Nat
      BY <1>1
    <2> HIDE DEF Below
    <2> QED BY <1>2, <2>2, <2>3, <2>4
  <1>4. ASSUME NEW y \in E, SweptBefore(x, y)
        PROVE  Place(E)[x] < Place(E)[y]
    <2>1. Below(x) \cup {x} \in SUBSET Below(y) /\ x \notin Below(x)
      BY <1>4, SweptInOrder
    <2> HIDE DEF Below
    <2>2. Cardinality(Below(x) \cup {x}) = Cardinality(Below(x)) + 1
      BY <1>1, <2>1, FS_AddElement
    <2>3. Cardinality(Below(x) \cup {x}) <= Cardinality(Below(y))
      BY <1>1, <2>1, FS_Subset
    <2> QED BY <1>1, <2>2, <2>3
  <1> HIDE DEF Below
  <1> QED BY <1>1, <1>2, <1>3, <1>4

LEMMA EveryPlaceIsTaken ==
    ASSUME NEW E \in SUBSET Event, IsFiniteSet(E)
    PROVE  /\ \A i \in 1..Cardinality(E) :
                 /\ Sweep(E)[i] \in E /\ Place(E)[Sweep(E)[i]] = i
                 /\ \A x \in E : Place(E)[x] = i => x = Sweep(E)[i]
           /\ DOMAIN Sweep(E) = 1..Cardinality(E)
  <1> DEFINE n == Cardinality(E)
  <1>1. n \in Nat /\ IsFiniteSet(1..n) /\ Cardinality(1..n) = n
    BY FS_CardinalityType, FS_Interval
  <1>2. Place(E) \in [E -> 1..n]
    BY PlaceInOrder DEF Place
  <1>3. ASSUME NEW x \in E, NEW y \in E, Place(E)[x] = Place(E)[y] PROVE x = y
    <2>1. Place(E)[x] \in Int /\ Place(E)[y] \in Int
      BY <1>1, <1>2
    <2>2. ~SweptBefore(x, y) /\ ~SweptBefore(y, x)
      BY <1>3, <2>1, PlaceInOrder
    <2> QED BY <2>2, SweptInOrder
  <1>4. Place(E) \in Injection(E, 1..n)
    BY <1>2, <1>3 DEF Injection, IsInjective
  <1>5. Place(E) \in Surjection(E, 1..n)
    BY <1>1, <1>4, FS_Injection
  <1>6. ASSUME NEW i \in 1..n
        PROVE  /\ Sweep(E)[i] \in E /\ Place(E)[Sweep(E)[i]] = i
               /\ \A x \in E : Place(E)[x] = i => x = Sweep(E)[i]
    <2>1. PICK x \in E : Place(E)[x] = i
      BY <1>5 DEF Surjection
    <2>2. Sweep(E)[i] = CHOOSE y \in E : Place(E)[y] = i
      BY DEF Sweep, Place
    <2>3. Sweep(E)[i] \in E /\ Place(E)[Sweep(E)[i]] = i
      BY <2>1, <2>2
    <2> QED BY <1>3, <2>3
  <1>7. DOMAIN Sweep(E) = 1..n
    BY DEF Sweep
  <1> QED BY <1>6, <1>7

\* What is counted along a sweep.
Counts == [now : Int, max : Int]
NoCount == [now |-> 0, max |-> 0]

CountsAlong(c, seq, n) ==
    /\ c \in [0..n -> Counts] /\ c[0] = NoCount
    /\ \A k \in 1..n : c[k] = SweepStep(c[k - 1], seq[k])
    /\ FoldLeft(SweepStep, NoCount, seq) = c[n]

SweepFold(g, seq) ==
    g = [T \in SUBSET DOMAIN seq |->
           IF T = {} THEN NoCount ELSE SweepStep(g[T \ {Max(T)}], seq[Max(T)])]

LEMMA StepIsCount ==
    ASSUME NEW c \in Counts, NEW x \in Event
    PROVE  /\ SweepStep(c, x) \in Counts
           /\ SweepStep(c, x).now = c.now + x.delta
           /\ SweepStep(c, x).max = IF c.max >= c.now + x.delta THEN c.max ELSE c.now + x.delta
  <1>1. c.now \in Int /\ c.max \in Int /\ x.delta \in Int
    BY DEF Counts, Event
  <1>2. c.now + x.delta \in Int
    BY <1>1
  <1>3. Max({c.max, c.now + x.delta}) = IF c.max >= c.now + x.delta THEN c.max ELSE c.now + x.delta
    BY <1>1, <1>2, MaxOfPair
  <1>4. Max({c.max, c.now + x.delta}) \in Int
    BY <1>1, <1>2, <1>3
  <1> QED BY <1>2, <1>3, <1>4 DEF SweepStep, Counts

LEMMA SweepIsFolded ==
    ASSUME NEW n \in Nat, NEW seq, DOMAIN seq = 1..n, \A i \in 1..n : seq[i] \in Event
    PROVE  \E c : CountsAlong(c, seq, n)
  <1> DEFINE D == 1..n
             pick == [T \in SUBSET D |-> Max(T)]
             step == [z \in D \X Counts |-> SweepStep(z[2], seq[z[1]])]
  <1>1. IsFiniteSet(D) /\ D \in SUBSET Int
    BY FS_Interval
  <1>2. ASSUME NEW T \in SUBSET D, T # {}
        PROVE  Max(T) \in T /\ \A y \in T : y <= Max(T)
    <2>1. IsFiniteSet(T) /\ T \in SUBSET Int
      BY <1>1, FS_Subset
    <2> QED BY <1>2, <2>1, MaxOfFinite
  <1>3. \A T \in SUBSET D : T # {} => pick[T] \in T
    BY <1>2
  <1>4. step \in [D \X Counts -> Counts]
    BY StepIsCount
  <1>5. \A x \in D, t \in Counts : step[<<x, t>>] = SweepStep(t, seq[x])
    OBVIOUS
  <1>6. NoCount \in Counts
    BY DEF NoCount, Counts
  <1>7. \A T \in SUBSET D : pick[T] = Max(T)
    OBVIOUS
  <1> HIDE DEF step, pick
  <1>8. PICK h \in [SUBSET D -> Counts] : IsFold(h, D, NoCount, step, pick)
    <2> HIDE DEF D
    <2> QED BY <1>1, <1>3, <1>4, <1>6, FoldExists
  <1>9. ASSUME NEW T \in SUBSET D
        PROVE  h[T] = IF T = {} THEN NoCount ELSE SweepStep(h[T \ {Max(T)}], seq[Max(T)])
    <2>1. CASE T = {}
      BY <1>8, <2>1 DEF IsFold
    <2>2. CASE T # {}
      <3>1. pick[T] = Max(T) /\ Max(T) \in D /\ h[T \ {Max(T)}] \in Counts
        BY <1>2, <1>7, <2>2
      <3>2. h[T] = step[<<pick[T], h[T \ {pick[T]}]>>]
        BY <1>8, <2>2 DEF IsFold
      <3> HIDE DEF D
      <3> QED BY <1>5, <2>2, <3>1, <3>2
    <2> QED BY <2>1, <2>2
  <1>10. SweepFold(h, seq)
    <2>1. h = [T \in SUBSET D |-> h[T]]
      OBVIOUS
    <2> QED BY <1>9, <2>1 DEF SweepFold
  <1> DEFINE g == CHOOSE g : SweepFold(g, seq)
  <1>11. SweepFold(g, seq)
    BY <1>10
  <1>12. FoldLeft(SweepStep, NoCount, seq) = g[D]
    BY DEF FoldLeft, MapThenFoldSet, SweepFold
  <1> HIDE DEF g
  <1> DEFINE c == [k \in 0..n |-> g[1..k]]
  <1>13. c[0] = NoCount
    <2>1. 1..0 = {} /\ 0 \in 0..n
      OBVIOUS
    <2>2. g[{}] = NoCount
      BY <1>11 DEF SweepFold
    <2> QED BY <2>1, <2>2
  <1>14. ASSUME NEW k \in 1..n PROVE c[k] = SweepStep(c[k - 1], seq[k])
    <2>1. 1..k \in SUBSET D /\ 1..k # {} /\ k \in 1..k /\ (1..k) \ {k} = 1..(k - 1)
      OBVIOUS
    <2>2. Max(1..k) = k
      <3>1. Max(1..k) \in 1..k /\ k <= Max(1..k)
        BY <1>2, <2>1
      <3> QED BY <3>1
    <2>3. g[1..k] = SweepStep(g[(1..k) \ {Max(1..k)}], seq[Max(1..k)])
      BY <1>11, <2>1 DEF SweepFold
    <2>4. c[k] = g[1..k] /\ c[k - 1] = g[1..(k - 1)]
      OBVIOUS
    <2> HIDE DEF c
    <2> QED BY <2>1, <2>2, <2>3, <2>4
  <1>15. c[n] = g[D] /\ DOMAIN c = 0..n /\ c = [k \in 0..n |-> c[k]]
    OBVIOUS
  <1> HIDE DEF c
  <1>16. \A k \in 0..n : c[k] \in Counts
    <2> DEFINE Bad == {k \in 0..n : c[k] \notin Counts}
    <2> SUFFICES ASSUME Bad # {} PROVE FALSE
      OBVIOUS
    <2>1. PICK k \in Bad : \A j \in Bad : k <= j
      <3>1. Bad \in SUBSET Nat
        OBVIOUS
      <3> HIDE DEF Bad
      <3> QED BY <3>1, LeastNatural
    <2>2. k # 0
      BY <1>6, <1>13
    <2>3. k \in 1..n /\ k - 1 \in 0..n /\ ~(k <= k - 1)
      BY <2>2
    <2>4. c[k - 1] \in Counts
      BY <2>1, <2>3
    <2>5. SweepStep(c[k - 1], seq[k]) \in Counts
      BY <2>3, <2>4, StepIsCount
    <2> QED BY <1>14, <2>3, <2>5
  <1>17. c \in [0..n -> Counts]
    BY <1>15, <1>16
  <1>18. CountsAlong(c, seq, n)
    BY <1>12, <1>13, <1>14, <1>15, <1>17 DEF CountsAlong
  <1> QED BY <1>18

\* Tasks whose overlap can be computed.
Spans(told) ==
    /\ IsFiniteSet(told)
    /\ \A x \in told : x.launch \in Nat /\ x.finish \in Nat /\ x.launch <= x.finish /\ x.id \in Nat
    /\ \A x, y \in told : x.id = y.id => x = y

Begins(x) == [at |-> x.launch, delta |-> 1, id |-> x.id]
Ends(x) == [at |-> x.finish, delta |-> -1, id |-> x.id]

LEMMA SweptEvents ==
    ASSUME NEW told, Spans(told)
    PROVE  /\ Deltas(told) \in SUBSET Event /\ IsFiniteSet(Deltas(told))
           /\ \A x \in told : /\ Begins(x) \in Deltas(told) /\ Ends(x) \in Deltas(told)
                              /\ Begins(x) \in Event /\ Ends(x) \in Event
           /\ \A e \in Deltas(told) : \E x \in told : e = Begins(x) \/ e = Ends(x)
           /\ \A x, y \in told : /\ Begins(x) = Begins(y) => x = y
                                 /\ Ends(x) = Ends(y) => x = y
                                 /\ Begins(x) # Ends(y)
  <1> DEFINE f == [x \in told |-> Begins(x)]
             g == [x \in told |-> Ends(x)]
  <1>1. \A x \in told : Begins(x) \in Event /\ Ends(x) \in Event
    BY DEF Spans, Begins, Ends, Event
  <1>2. Deltas(told) = {Begins(x) : x \in told} \cup {Ends(x) : x \in told}
    BY DEF Deltas, Begins, Ends
  <1>3. IsFiniteSet(Deltas(told))
    <2>1. IsFiniteSet({f[x] : x \in told}) /\ IsFiniteSet({g[x] : x \in told})
      <3> HIDE DEF f, g
      <3> QED BY ImageIsFinite DEF Spans
    <2>2. {f[x] : x \in told} = {Begins(x) : x \in told} /\ {g[x] : x \in told} = {Ends(x) : x \in told}
      OBVIOUS
    <2>3. IsFiniteSet({f[x] : x \in told} \cup {g[x] : x \in told})
      <3> HIDE DEF f, g
      <3> QED BY <2>1, FS_Union
    <2> QED BY <1>2, <2>2, <2>3
  <1>4. \A x, y \in told : /\ Begins(x) = Begins(y) => x = y
                           /\ Ends(x) = Ends(y) => x = y
                           /\ Begins(x) # Ends(y)
    <2> TAKE x, y \in told
    <2>1. /\ Begins(x).id = x.id /\ Begins(y).id = y.id /\ Ends(x).id = x.id /\ Ends(y).id = y.id
          /\ Begins(x).delta = 1 /\ Ends(y).delta = -1
      BY DEF Begins, Ends
    <2> QED BY <2>1 DEF Spans
  <1> QED BY <1>1, <1>2, <1>3, <1>4

\* Tasks that have begun, or ended, with the first k events.
Begun(told, k) == {x \in told : Place(Deltas(told))[Begins(x)] <= k}
Ended(told, k) == {x \in told : Place(Deltas(told))[Ends(x)] <= k}

LEMMA BegunNow ==
    ASSUME NEW told, Spans(told), NEW k \in Int
    PROVE  /\ IsFiniteSet(Begun(told, k)) /\ IsFiniteSet(Ended(told, k))
           /\ Cardinality(Begun(told, k)) \in Nat /\ Cardinality(Ended(told, k)) \in Nat
  <1>1. IsFiniteSet(Begun(told, k)) /\ IsFiniteSet(Ended(told, k))
    BY FS_Subset DEF Spans, Begun, Ended
  <1> QED BY <1>1, FS_CardinalityType

LEMMA BegunStep ==
    ASSUME NEW told, Spans(told), NEW k \in 1..Cardinality(Deltas(told))
    PROVE  Cardinality(Begun(told, k)) - Cardinality(Ended(told, k))
           = Cardinality(Begun(told, k - 1)) - Cardinality(Ended(told, k - 1))
             + Sweep(Deltas(told))[k].delta
  <1> DEFINE E == Deltas(told)
             e == Sweep(E)[k]
             place == Place(E)
  <1>1. E \in SUBSET Event /\ IsFiniteSet(E) /\ Cardinality(E) \in Nat
    BY SweptEvents, FS_CardinalityType
  <1>2. e \in E /\ place[e] = k /\ \A x \in E : place[x] = k => x = e
    BY <1>1, EveryPlaceIsTaken
  <1>3. \A x \in E : place[x] \in Nat
    BY <1>1, PlaceInOrder
  <1>4. PICK z \in told : e = Begins(z) \/ e = Ends(z)
    BY <1>2, SweptEvents
  <1>5. k \in Int /\ k - 1 \in Int
    OBVIOUS
  <1>6. \A x \in told : /\ Begins(x) \in E /\ Ends(x) \in E
                        /\ place[Begins(x)] \in Nat /\ place[Ends(x)] \in Nat
    BY <1>3, SweptEvents
  <1> HIDE DEF e, E, place
  <1>7. CASE e = Begins(z)
    <2>1. \A x \in told : x # z => place[Begins(x)] # k
      BY <1>2, <1>6, <1>7, SweptEvents
    <2>2. \A x \in told : place[Ends(x)] # k
      BY <1>2, <1>6, <1>7, SweptEvents
    <2>3. Begun(told, k) = Begun(told, k - 1) \cup {z} /\ z \notin Begun(told, k - 1)
      BY <1>2, <1>5, <1>6, <1>7, <2>1 DEF Begun, E, place
    <2>4. Ended(told, k) = Ended(told, k - 1)
      BY <1>5, <1>6, <2>2 DEF Ended, E, place
    <2>5. Cardinality(Begun(told, k)) = Cardinality(Begun(told, k - 1)) + 1
      BY <1>5, <2>3, BegunNow, FS_AddElement
    <2>6. e.delta = 1
      BY <1>7 DEF Begins
    <2> QED BY <1>5, <2>4, <2>5, <2>6, BegunNow DEF e, E
  <1>8. CASE e = Ends(z)
    <2>1. \A x \in told : x # z => place[Ends(x)] # k
      BY <1>2, <1>6, <1>8, SweptEvents
    <2>2. \A x \in told : place[Begins(x)] # k
      BY <1>2, <1>6, <1>8, SweptEvents
    <2>3. Ended(told, k) = Ended(told, k - 1) \cup {z} /\ z \notin Ended(told, k - 1)
      BY <1>2, <1>5, <1>6, <1>8, <2>1 DEF Ended, E, place
    <2>4. Begun(told, k) = Begun(told, k - 1)
      BY <1>5, <1>6, <2>2 DEF Begun, E, place
    <2>5. Cardinality(Ended(told, k)) = Cardinality(Ended(told, k - 1)) + 1
      BY <1>5, <2>3, BegunNow, FS_AddElement
    <2>6. e.delta = -1
      BY <1>8 DEF Ends
    <2> QED BY <1>5, <2>4, <2>5, <2>6, BegunNow DEF e, E
  <1> QED BY <1>4, <1>7, <1>8

\* Tasks that run after the first k events.
Net(told, k) == Cardinality(Begun(told, k)) - Cardinality(Ended(told, k))

\* What a count says after the first k events.
CountIsRight(told, count, k) ==
    /\ count.now = Net(told, k)
    /\ \A j \in 0..k : Net(told, j) <= count.max
    /\ \E j \in 0..k : count.max = Net(told, j)

LEMMA SweptCounts ==
    ASSUME NEW told, Spans(told), NEW n, n = Cardinality(Deltas(told)),
           NEW c, CountsAlong(c, Sweep(Deltas(told)), n)
    PROVE  \A k \in 0..n : CountIsRight(told, c[k], k)
  <1> DEFINE E == Deltas(told)
             Bad == {k \in 0..n : ~CountIsRight(told, c[k], k)}
  <1>1. E \in SUBSET Event /\ IsFiniteSet(E) /\ n \in Nat
    BY SweptEvents, FS_CardinalityType
  <1>2. \A k \in Int : Net(told, k) \in Int
    <2> SUFFICES ASSUME NEW k \in Int PROVE Net(told, k) \in Int
      OBVIOUS
    <2> QED BY BegunNow DEF Net
  <1>3. CountIsRight(told, c[0], 0)
    <2>1. \A e \in E : Place(E)[e] \in 1..n
      BY <1>1, PlaceInOrder
    <2>2. \A x \in told : ~(Place(E)[Begins(x)] <= 0) /\ ~(Place(E)[Ends(x)] <= 0)
      BY <2>1, SweptEvents
    <2>3. Begun(told, 0) = {} /\ Ended(told, 0) = {}
      BY <2>2 DEF Begun, Ended
    <2>4. Net(told, 0) = 0
      BY <2>3, FS_EmptySet DEF Net
    <2>5. c[0].now = 0 /\ c[0].max = 0
      BY DEF CountsAlong, NoCount
    <2>6. \A j \in 0..0 : j = 0
      OBVIOUS
    <2> QED BY <2>4, <2>5, <2>6 DEF CountIsRight
  <1> SUFFICES ASSUME Bad # {} PROVE FALSE
    OBVIOUS
  <1>4. PICK k \in Bad : \A j \in Bad : k <= j
    <2>1. Bad \in SUBSET Nat
      OBVIOUS
    <2> HIDE DEF Bad
    <2> QED BY <2>1, LeastNatural
  <1>5. k # 0
    BY <1>3, <1>4
  <1>6. k \in 1..n /\ k - 1 \in 0..n /\ ~(k <= k - 1) /\ k \in Int /\ k - 1 \in Int
    BY <1>1, <1>5
  <1>7. CountIsRight(told, c[k - 1], k - 1)
    BY <1>4, <1>6
  <1> DEFINE e == Sweep(E)[k]
             a == c[k - 1]
  <1>8. e \in Event
    BY <1>1, <1>6, EveryPlaceIsTaken
  <1>9. a \in Counts /\ c[k] = SweepStep(a, e)
    BY <1>6 DEF CountsAlong
  <1>10. /\ c[k].now = a.now + e.delta
         /\ c[k].max = IF a.max >= a.now + e.delta THEN a.max ELSE a.now + e.delta
    <2> HIDE DEF a, e
    <2> QED BY <1>8, <1>9, StepIsCount
  <1>11. Net(told, k) = Net(told, k - 1) + e.delta
    BY <1>6, BegunStep DEF Net
  <1>12. a.now \in Int /\ a.max \in Int /\ e.delta \in Int
    BY <1>8, <1>9 DEF Counts, Event
  <1> HIDE DEF a, e
  <1>13. a.now = Net(told, k - 1) /\ c[k].now = Net(told, k)
    BY <1>7, <1>10, <1>11 DEF CountIsRight, a
  <1>14. \A j \in 0..k : j = k \/ j \in 0..(k - 1)
    BY <1>6
  <1>15. ASSUME NEW j \in 0..k PROVE Net(told, j) <= c[k].max
    <2>1. Net(told, j) \in Int
      BY <1>2, <1>6
    <2>2. CASE j = k
      BY <1>10, <1>12, <1>13, <2>2
    <2>3. CASE j \in 0..(k - 1)
      <3>1. Net(told, j) <= a.max
        BY <1>7, <2>3 DEF CountIsRight, a
      <3> QED BY <1>10, <1>12, <2>1, <3>1
    <2> QED BY <1>14, <2>2, <2>3
  <1>16. \E j \in 0..k : c[k].max = Net(told, j)
    <2>1. CASE a.max >= a.now + e.delta
      <3>1. PICK j \in 0..(k - 1) : a.max = Net(told, j)
        BY <1>7 DEF CountIsRight, a
      <3>2. j \in 0..k
        BY <1>6
      <3> QED BY <1>10, <2>1, <3>1, <3>2
    <2>2. CASE ~(a.max >= a.now + e.delta)
      <3>1. k \in 0..k
        BY <1>6
      <3> QED BY <1>10, <1>13, <2>2, <3>1
    <2> QED BY <2>1, <2>2
  <1>17. CountIsRight(told, c[k], k)
    BY <1>13, <1>15, <1>16 DEF CountIsRight
  <1> QED BY <1>4, <1>17

\* Tasks that run in the millisecond after t.
RunsAt(told, t) == {x \in told : x.launch <= t /\ t < x.finish}

LEMMA RunsAtFinite ==
    ASSUME NEW told, Spans(told), NEW t
    PROVE  IsFiniteSet(RunsAt(told, t)) /\ Cardinality(RunsAt(told, t)) \in Nat
  <1>1. IsFiniteSet(RunsAt(told, t))
    BY FS_Subset DEF Spans, RunsAt
  <1> QED BY <1>1, FS_CardinalityType


LaunchedBy(told, t) == {x \in told : x.launch <= t}
FinishedBy(told, t) == {x \in told : x.finish <= t}

LEMMA RunsAtIsDifference ==
    ASSUME NEW told, Spans(told), NEW t \in Nat
    PROVE  /\ IsFiniteSet(LaunchedBy(told, t)) /\ IsFiniteSet(FinishedBy(told, t))
           /\ Cardinality(LaunchedBy(told, t)) \in Nat /\ Cardinality(FinishedBy(told, t)) \in Nat
           /\ Cardinality(RunsAt(told, t))
              = Cardinality(LaunchedBy(told, t)) - Cardinality(FinishedBy(told, t))
  <1> DEFINE L == LaunchedBy(told, t)
             F == FinishedBy(told, t)
  <1>1. IsFiniteSet(L) /\ IsFiniteSet(F)
    BY FS_Subset DEF Spans, LaunchedBy, FinishedBy
  <1>2. RunsAt(told, t) = L \ F
    BY DEF RunsAt, Spans, LaunchedBy, FinishedBy
  <1>3. L \cap F = F
    BY DEF Spans, LaunchedBy, FinishedBy
  <1> HIDE DEF L, F
  <1>4. Cardinality(L \ F) = Cardinality(L) - Cardinality(F)
    BY <1>1, <1>3, FS_Difference
  <1> QED BY <1>1, <1>2, <1>4, FS_CardinalityType DEF L, F

\* The events up to t come first.
LEMMA EventsUpTo ==
    ASSUME NEW E \in SUBSET Event, IsFiniteSet(E), NEW t \in Nat
    PROVE  \E k \in 0..Cardinality(E) : \A e \in E : Place(E)[e] <= k <=> e.at <= t
  <1> DEFINE P == {e \in E : e.at <= t}
             Below(z) == {y \in E : SweptBefore(y, z)}
  <1>1. IsFiniteSet(P) /\ Cardinality(P) \in Nat /\ Cardinality(P) <= Cardinality(E)
        /\ Cardinality(E) \in Nat
    <2>1. P \in SUBSET E
      OBVIOUS
    <2> HIDE DEF P
    <2> QED BY <2>1, FS_Subset, FS_CardinalityType
  <1>2. ASSUME NEW e \in E PROVE Place(E)[e] <= Cardinality(P) <=> e.at <= t
    <2>1. IsFiniteSet(Below(e)) /\ Cardinality(Below(e)) \in Nat
          /\ Place(E)[e] = 1 + Cardinality(Below(e))
      <3>1. IsFiniteSet(Below(e))
        BY FS_Subset
      <3> QED BY <3>1, FS_CardinalityType DEF Place
    <2>2. e.at \in Int /\ \A y \in E : y.at \in Int
      BY DEF Event
    <2>3. CASE e.at <= t
      <3>1. \A y \in E : SweptBefore(y, e) => y.at <= t
        BY <2>2, <2>3 DEF SweptBefore
      <3>2. Below(e) \cup {e} \in SUBSET P /\ e \notin Below(e)
        BY <2>3, <3>1, SweptInOrder
      <3> HIDE DEF Below, P
      <3>3. Cardinality(Below(e) \cup {e}) = Cardinality(Below(e)) + 1
        BY <2>1, <3>2, FS_AddElement
      <3>4. Cardinality(Below(e) \cup {e}) <= Cardinality(P)
        BY <1>1, <3>2, FS_Subset
      <3> QED BY <1>1, <2>1, <2>3, <3>3, <3>4
    <2>4. CASE ~(e.at <= t)
      <3>1. \A y \in E : y.at <= t => SweptBefore(y, e)
        BY <2>2, <2>4 DEF SweptBefore
      <3>2. P \in SUBSET Below(e)
        BY <3>1
      <3> HIDE DEF Below, P
      <3>3. Cardinality(P) <= Cardinality(Below(e))
        BY <2>1, <3>2, FS_Subset
      <3> QED BY <1>1, <2>1, <2>4, <3>3
    <2> QED BY <2>3, <2>4
  <1> HIDE DEF P
  <1>3. Cardinality(P) \in 0..Cardinality(E)
    BY <1>1
  <1> QED BY <1>2, <1>3

\* The most that is counted is the most that runs in a millisecond.
LEMMA OverlapPeak ==
    ASSUME NEW told, Spans(told), NEW peak, peak = TaskOverlap(told).max
    PROVE  /\ peak \in Nat
           /\ \A t \in Nat : Cardinality(RunsAt(told, t)) <= peak
           /\ peak = 0 \/ \E t \in Nat : Cardinality(RunsAt(told, t)) = peak
  <1> DEFINE E == Deltas(told)
             n == Cardinality(E)
             place == Place(E)
  <1>1. E \in SUBSET Event /\ IsFiniteSet(E) /\ n \in Nat
    BY SweptEvents, FS_CardinalityType
  <1>2. PICK c : CountsAlong(c, Sweep(E), n)
    <2>1. DOMAIN Sweep(E) = 1..n /\ \A i \in 1..n : Sweep(E)[i] \in Event
      BY <1>1, EveryPlaceIsTaken
    <2> HIDE DEF E
    <2> QED BY <1>1, <2>1, SweepIsFolded
  <1>3. peak = c[n].max
    BY <1>2 DEF CountsAlong, NoCount, TaskOverlap
  <1>4. n \in 0..n
    BY <1>1
  <1>5. CountIsRight(told, c[n], n)
    BY <1>2, <1>4, SweptCounts
  <1>6. \A k \in Int : Net(told, k) \in Int
    <2> SUFFICES ASSUME NEW k \in Int PROVE Net(told, k) \in Int
      OBVIOUS
    <2> QED BY BegunNow DEF Net
  <1>7. Net(told, 0) = 0
    <2>1. c[0].now = 0
      BY <1>2 DEF CountsAlong, NoCount
    <2>2. 0 \in 0..n
      BY <1>1
    <2>3. CountIsRight(told, c[0], 0)
      BY <1>2, <2>2, SweptCounts
    <2> QED BY <2>1, <2>3 DEF CountIsRight
  <1>8. (\A j \in 0..n : Net(told, j) <= peak) /\ \E j \in 0..n : peak = Net(told, j)
    BY <1>3, <1>5 DEF CountIsRight
  <1>9. peak \in Nat
    <2>1. 0 <= peak
      BY <1>1, <1>7, <1>8
    <2>2. peak \in Int
      BY <1>1, <1>6, <1>8
    <2> QED BY <2>1, <2>2
  <1>10. ASSUME NEW t \in Nat PROVE Cardinality(RunsAt(told, t)) <= peak
    <2>1. PICK k \in 0..n : \A e \in E : place[e] <= k <=> e.at <= t
      <3> HIDE DEF E
      <3> QED BY <1>1, EventsUpTo
    <2>2. \A x \in told : /\ place[Begins(x)] <= k <=> x.launch <= t
                          /\ place[Ends(x)] <= k <=> x.finish <= t
      <3>1. \A x \in told : Begins(x).at = x.launch /\ Ends(x).at = x.finish
        BY DEF Begins, Ends
      <3>2. \A x \in told : Begins(x) \in E /\ Ends(x) \in E
        BY SweptEvents
      <3> QED BY <2>1, <3>1, <3>2
    <2>3. Begun(told, k) = LaunchedBy(told, t) /\ Ended(told, k) = FinishedBy(told, t)
      BY <2>2 DEF Begun, Ended, LaunchedBy, FinishedBy
    <2>4. Net(told, k) = Cardinality(RunsAt(told, t))
      BY <2>3, RunsAtIsDifference DEF Net
    <2> QED BY <1>8, <2>4
  <1>11. ASSUME peak # 0 PROVE \E t \in Nat : Cardinality(RunsAt(told, t)) = peak
    <2> DEFINE Full == {j \in 0..n : Net(told, j) = peak}
    <2>1. PICK j \in Full : \A i \in Full : j <= i
      <3>1. Full \in SUBSET Nat /\ Full # {}
        BY <1>8
      <3> HIDE DEF Full
      <3> QED BY <3>1, LeastNatural
    <2>2. j # 0
      BY <1>7, <1>11, <2>1
    <2>3. j \in 1..n /\ j - 1 \in 0..n /\ ~(j <= j - 1) /\ j \in Int /\ j - 1 \in Int
      BY <1>1, <2>2
    <2>4. Net(told, j) = peak /\ Net(told, j - 1) # peak /\ Net(told, j - 1) <= peak
      BY <1>8, <2>1, <2>3
    <2> DEFINE e == Sweep(E)[j]
    <2>5. Net(told, j) = Net(told, j - 1) + e.delta
      BY <2>3, BegunStep DEF Net
    <2>6. e \in E /\ place[e] = j
      BY <1>1, <2>3, EveryPlaceIsTaken
    <2>7. e.delta = 1
      <3>1. e.delta \in {-1, 1}
        BY <1>1, <2>6 DEF Event
      <3>2. Net(told, j - 1) \in Int
        BY <1>6, <2>3
      <3> HIDE DEF e
      <3> QED BY <1>9, <2>4, <2>5, <3>1, <3>2
    <2>8. PICK z \in told : e = Begins(z) \/ e = Ends(z)
      BY <2>6, SweptEvents
    <2>9. e = Begins(z)
      <3>1. Ends(z).delta = -1
        BY DEF Ends
      <3> QED BY <2>7, <2>8, <3>1
    <2> DEFINE t == z.launch
    <2>10. t \in Nat /\ e.at = t
      BY <2>9 DEF Spans, Begins
    <2> HIDE DEF e
    <2>11. Begun(told, j) \in SUBSET LaunchedBy(told, t)
      <3> SUFFICES ASSUME NEW x \in told, place[Begins(x)] <= j PROVE x.launch <= t
        BY DEF Begun, LaunchedBy
      <3>1. Begins(x) \in E /\ Begins(x).at = x.launch /\ x.launch \in Int
        BY SweptEvents DEF Begins, Spans
      <3>2. ~SweptBefore(e, Begins(x))
        <4>1. place[Begins(x)] \in Int
          BY <1>1, <3>1, PlaceInOrder
        <4>2. SweptBefore(e, Begins(x)) => j < place[Begins(x)]
          BY <1>1, <2>6, <3>1, PlaceInOrder
        <4> QED BY <2>3, <4>1, <4>2
      <3> QED BY <2>10, <3>1, <3>2 DEF SweptBefore
    <2>12. FinishedBy(told, t) \in SUBSET Ended(told, j)
      <3> SUFFICES ASSUME NEW x \in told, x.finish <= t PROVE place[Ends(x)] <= j
        BY DEF Ended, FinishedBy
      <3>1. Ends(x) \in E /\ Ends(x).at = x.finish /\ Ends(x).delta = -1 /\ x.finish \in Int
        BY SweptEvents DEF Ends, Spans
      <3>2. SweptBefore(Ends(x), e)
        BY <2>7, <2>10, <3>1 DEF SweptBefore
      <3>3. place[Ends(x)] < j
        BY <1>1, <2>6, <3>1, <3>2, PlaceInOrder
      <3>4. place[Ends(x)] \in Int
        BY <1>1, <3>1, PlaceInOrder
      <3> QED BY <2>3, <3>3, <3>4
    <2> HIDE DEF t
    <2>13. Cardinality(Begun(told, j)) <= Cardinality(LaunchedBy(told, t))
      BY <2>10, <2>11, RunsAtIsDifference, FS_Subset
    <2>14. Cardinality(FinishedBy(told, t)) <= Cardinality(Ended(told, j))
      BY <2>3, <2>12, BegunNow, FS_Subset
    <2>15. peak <= Cardinality(RunsAt(told, t))
      <3>1. /\ Cardinality(Begun(told, j)) \in Int /\ Cardinality(Ended(told, j)) \in Int
            /\ Cardinality(LaunchedBy(told, t)) \in Int /\ Cardinality(FinishedBy(told, t)) \in Int
        BY <2>3, <2>10, BegunNow, RunsAtIsDifference
      <3>2. peak = Cardinality(Begun(told, j)) - Cardinality(Ended(told, j))
        BY <2>4 DEF Net
      <3>3. Cardinality(RunsAt(told, t))
            = Cardinality(LaunchedBy(told, t)) - Cardinality(FinishedBy(told, t))
        BY <2>10, RunsAtIsDifference
      <3> QED BY <2>13, <2>14, <3>1, <3>2, <3>3
    <2>16. Cardinality(RunsAt(told, t)) <= peak /\ Cardinality(RunsAt(told, t)) \in Int
      BY <1>10, <2>10, RunsAtFinite
    <2> QED BY <1>9, <2>10, <2>15, <2>16
  <1> QED BY <1>9, <1>10, <1>11

LEMMA MinOfNaturals ==
    ASSUME NEW S \in SUBSET Nat, S # {}
    PROVE  Min(S) \in S /\ \A y \in S : Min(S) <= y
  <1>1. \E x \in S : \A y \in S : x <= y
    BY LeastNatural
  <1> QED BY <1>1 DEF Min

\* Where one more is added for some elements, that many are added.
LEMMA TotalPlusOnes ==
    ASSUME NEW D, IsFiniteSet(D), NEW f \in [D -> Nat],
           NEW E, IsFiniteSet(E), NEW g \in [E -> Nat],
           NEW S \in SUBSET (D \cap E), NEW A \in SUBSET S,
           \A x \in S : g[x] = f[x] + (IF x \in A THEN 1 ELSE 0)
    PROVE  Total(g, S) = Total(f, S) + Cardinality(A)
  <1> DEFINE Bad == {T \in SUBSET S : Total(g, T) # Total(f, T) + Cardinality(A \cap T)}
  <1>1. IsFiniteSet(S) /\ IsFiniteSet(A)
    <2>1. S \in SUBSET D /\ A \in SUBSET D
      OBVIOUS
    <2> QED BY <2>1, FS_Subset
  <1>2. Bad = {}
    <2> SUFFICES ASSUME Bad # {} PROVE FALSE
      OBVIOUS
    <2>1. PICK T \in Bad : \A x \in T : T \ {x} \notin Bad
      <3>1. Bad \in SUBSET (SUBSET S)
        OBVIOUS
      <3> HIDE DEF Bad
      <3> QED BY <1>1, <3>1, SmallestSet
    <2>2. T # {}
      <3>1. Total(f, {}) = 0 /\ Total(g, {}) = 0
        BY TotalStep
      <3>2. Cardinality(A \cap {}) = 0
        <4>1. A \cap {} = {}
          OBVIOUS
        <4> QED BY <4>1, FS_EmptySet
      <3> QED BY <2>1, <3>1, <3>2
    <2>3. PICK x \in T : TRUE
      BY <2>2
    <2>4. T \in SUBSET S /\ T \in SUBSET D /\ T \in SUBSET E /\ T \ {x} \in SUBSET D
          /\ T \ {x} \in SUBSET E /\ x \in S /\ f[x] \in Nat /\ g[x] \in Nat
      OBVIOUS
    <2>5. Total(g, T \ {x}) = Total(f, T \ {x}) + Cardinality(A \cap (T \ {x}))
      BY <2>1, <2>3
    <2>6. Total(g, T) # Total(f, T) + Cardinality(A \cap T)
      BY <2>1
    <2> HIDE DEF Bad
    <2>7. Total(f, T) = f[x] + Total(f, T \ {x}) /\ Total(g, T) = g[x] + Total(g, T \ {x})
          /\ Total(f, T \ {x}) \in Nat
      BY <2>4, TotalStep
    <2>8. IsFiniteSet(A \cap T) /\ Cardinality(A \cap T) \in Nat
      BY <1>1, FS_Subset, FS_CardinalityType
    <2>9. CASE x \in A
      <3>1. A \cap (T \ {x}) = (A \cap T) \ {x} /\ x \in A \cap T
        BY <2>9
      <3>2. Cardinality(A \cap (T \ {x})) = Cardinality(A \cap T) - 1
        <4> DEFINE B == A \cap T
        <4>1. IsFiniteSet(B) /\ x \in B
          BY <2>8, <3>1
        <4> HIDE DEF B
        <4>2. Cardinality(B \ {x}) = Cardinality(B) - 1
          BY <4>1, FS_RemoveElement
        <4> QED BY <3>1, <4>2 DEF B
      <3>3. g[x] = f[x] + 1
        BY <2>4, <2>9
      <3> QED BY <2>4, <2>5, <2>6, <2>7, <2>8, <3>2, <3>3
    <2>10. CASE x \notin A
      <3>1. A \cap (T \ {x}) = A \cap T
        BY <2>10
      <3>2. Cardinality(A \cap (T \ {x})) = Cardinality(A \cap T)
        BY <3>1
      <3>3. g[x] = f[x]
        BY <2>4, <2>10
      <3> QED BY <2>4, <2>5, <2>6, <2>7, <2>8, <3>2, <3>3
    <2> QED BY <2>9, <2>10
  <1>3. A \cap S = A /\ S \in SUBSET S
    OBVIOUS
  <1> QED BY <1>2, <1>3

\* Smaller terms make no larger sum.
LEMMA TotalOfLess ==
    ASSUME NEW D, IsFiniteSet(D), NEW f \in [D -> Nat], NEW g \in [D -> Nat],
           NEW S \in SUBSET D, \A x \in S : g[x] <= f[x]
    PROVE  Total(g, S) <= Total(f, S)
  <1> DEFINE Bad == {T \in SUBSET S : ~(Total(g, T) <= Total(f, T))}
  <1>1. IsFiniteSet(S)
    BY FS_Subset
  <1>2. Bad = {}
    <2> SUFFICES ASSUME Bad # {} PROVE FALSE
      OBVIOUS
    <2>1. PICK T \in Bad : \A x \in T : T \ {x} \notin Bad
      <3>1. Bad \in SUBSET (SUBSET S)
        OBVIOUS
      <3> HIDE DEF Bad
      <3> QED BY <1>1, <3>1, SmallestSet
    <2>2. T # {}
      <3>1. Total(f, {}) = 0 /\ Total(g, {}) = 0
        BY TotalStep
      <3> QED BY <2>1, <3>1
    <2>3. PICK x \in T : TRUE
      BY <2>2
    <2>4. T \in SUBSET D /\ T \ {x} \in SUBSET D /\ f[x] \in Nat /\ g[x] \in Nat /\ g[x] <= f[x]
      OBVIOUS
    <2>5. Total(g, T \ {x}) <= Total(f, T \ {x}) /\ ~(Total(g, T) <= Total(f, T))
      BY <2>1, <2>3
    <2> HIDE DEF Bad
    <2>6. /\ Total(f, T) = f[x] + Total(f, T \ {x}) /\ Total(g, T) = g[x] + Total(g, T \ {x})
          /\ Total(f, T \ {x}) \in Nat /\ Total(g, T \ {x}) \in Nat
      BY <2>3, <2>4, TotalStep
    <2> QED BY <2>4, <2>5, <2>6
  <1> QED BY <1>2

\* Nothing makes nothing.
LEMMA TotalOfZeros ==
    ASSUME NEW D, IsFiniteSet(D), NEW f \in [D -> Nat], NEW S \in SUBSET D, \A x \in S : f[x] = 0
    PROVE  Total(f, S) = 0
  <1> DEFINE Bad == {T \in SUBSET S : Total(f, T) # 0}
  <1>1. IsFiniteSet(S)
    BY FS_Subset
  <1>2. Bad = {}
    <2> SUFFICES ASSUME Bad # {} PROVE FALSE
      OBVIOUS
    <2>1. PICK T \in Bad : \A x \in T : T \ {x} \notin Bad
      <3>1. Bad \in SUBSET (SUBSET S)
        OBVIOUS
      <3> HIDE DEF Bad
      <3> QED BY <1>1, <3>1, SmallestSet
    <2>2. T # {}
      <3>1. Total(f, {}) = 0
        BY TotalStep
      <3> QED BY <2>1, <3>1
    <2>3. PICK x \in T : TRUE
      BY <2>2
    <2>4. T \in SUBSET D /\ f[x] = 0 /\ Total(f, T \ {x}) = 0 /\ Total(f, T) # 0
      BY <2>1, <2>3
    <2> HIDE DEF Bad
    <2> QED BY <2>3, <2>4, TotalStep
  <1> QED BY <1>2

\* Names for the terms, no two alike, change nothing.
LEMMA TotalRenamed ==
    ASSUME NEW D, IsFiniteSet(D), NEW f \in [D -> Nat],
           NEW E, IsFiniteSet(E), NEW g \in [E -> Nat], NEW name \in [D -> E],
           \A x, y \in D : name[x] = name[y] => x = y,
           \A x \in D : g[name[x]] = f[x],
           \A y \in E : (\A x \in D : name[x] # y) => g[y] = 0
    PROVE  Total(g, E) = Total(f, D)
  <1> DEFINE N(T) == {name[x] : x \in T}
             Bad == {T \in SUBSET D : Total(g, N(T)) # Total(f, T)}
  <1>1. Bad = {}
    <2> SUFFICES ASSUME Bad # {} PROVE FALSE
      OBVIOUS
    <2>1. PICK T \in Bad : \A x \in T : T \ {x} \notin Bad
      <3>1. Bad \in SUBSET (SUBSET D)
        OBVIOUS
      <3> HIDE DEF Bad
      <3> QED BY <3>1, SmallestSet
    <2>2. T # {}
      <3>1. Total(f, {}) = 0 /\ Total(g, {}) = 0
        BY TotalStep
      <3>2. N({}) = {}
        OBVIOUS
      <3> QED BY <2>1, <3>1, <3>2
    <2>3. PICK x \in T : TRUE
      BY <2>2
    <2>4. T \in SUBSET D /\ T \ {x} \in SUBSET D /\ N(T) \in SUBSET E /\ name[x] \in N(T)
          /\ g[name[x]] = f[x] /\ N(T \ {x}) = N(T) \ {name[x]}
      OBVIOUS
    <2>5. Total(g, N(T \ {x})) = Total(f, T \ {x}) /\ Total(g, N(T)) # Total(f, T)
      BY <2>1, <2>3
    <2> HIDE DEF Bad, N
    <2>6. Total(f, T) = f[x] + Total(f, T \ {x})
      BY <2>3, <2>4, TotalStep
    <2>7. Total(g, N(T)) = g[name[x]] + Total(g, N(T) \ {name[x]})
      BY <2>4, TotalStep
    <2> QED BY <2>4, <2>5, <2>6, <2>7
  <1>2. Total(g, N(D)) = Total(f, D)
    BY <1>1
  <1>3. N(D) \in SUBSET E /\ N(D) \cup (E \ N(D)) = E /\ \A y \in E \ N(D) : g[y] = 0
    OBVIOUS
  <1> HIDE DEF N, Bad
  <1>4. Total(g, E \ N(D)) = 0
    <2>1. E \ N(D) \in SUBSET E
      OBVIOUS
    <2> QED BY <1>3, <2>1, TotalOfZeros
  <1>5. Total(g, N(D) \cup (E \ N(D))) = Total(g, N(D)) + Total(g, E \ N(D))
    <2>1. E \ N(D) \in SUBSET E /\ N(D) \cap (E \ N(D)) = {}
      OBVIOUS
    <2> HIDE DEF Total
    <2> QED BY <1>3, <2>1, TotalUnion
  <1>6. Total(g, N(D)) \in Nat
    BY <1>3, TotalType
  <1>7. Total(g, E) = Total(g, N(D)) + Total(g, E \ N(D))
    BY <1>3, <1>5
  <1> HIDE DEF Total
  <1> QED BY <1>2, <1>4, <1>6, <1>7

\* How long each task has run at u, and how long it runs.
RanUpTo(told, u) ==
    [x \in told |-> IF x.launch >= u THEN 0
                    ELSE IF x.finish <= u THEN x.finish - x.launch ELSE u - x.launch]

Durations(told) == [x \in told |-> x.finish - x.launch]

LEMMA RanType ==
    ASSUME NEW told, Spans(told)
    PROVE  /\ Durations(told) \in [told -> Nat]
           /\ \A u \in Nat : RanUpTo(told, u) \in [told -> Nat]
  <1>1. \A x \in told : Durations(told)[x] \in Nat
    BY DEF Spans, Durations
  <1>2. ASSUME NEW u \in Nat, NEW x \in told PROVE RanUpTo(told, u)[x] \in Nat
    <2>1. x.launch \in Nat /\ x.finish \in Nat /\ x.launch <= x.finish
      BY DEF Spans
    <2> QED BY <2>1 DEF RanUpTo
  <1>3. \A u \in Nat : \A x \in told : RanUpTo(told, u)[x] \in Nat
    BY <1>2
  <1> QED BY <1>1, <1>3 DEF RanUpTo, Durations

LEMMA RanOneMore ==
    ASSUME NEW told, Spans(told), NEW u \in Nat
    PROVE  Total(RanUpTo(told, u + 1), told)
           = Total(RanUpTo(told, u), told) + Cardinality(RunsAt(told, u))
  <1> DEFINE f == RanUpTo(told, u)
             g == RanUpTo(told, u + 1)
             A == RunsAt(told, u)
  <1>1. IsFiniteSet(told) /\ f \in [told -> Nat] /\ g \in [told -> Nat]
    BY RanType DEF Spans
  <1>2. A \in SUBSET told
    BY DEF RunsAt
  <1>3. ASSUME NEW x \in told PROVE g[x] = f[x] + (IF x \in A THEN 1 ELSE 0)
    <2>1. x.launch \in Nat /\ x.finish \in Nat /\ x.launch <= x.finish
      BY DEF Spans
    <2>2. x \in A <=> x.launch <= u /\ u < x.finish
      BY DEF RunsAt
    <2> QED BY <2>1, <2>2 DEF RanUpTo
  <1>4. told \in SUBSET (told \cap told)
    OBVIOUS
  <1> HIDE DEF f, g, A
  <1>5. \A x \in told : g[x] = f[x] + (IF x \in A THEN 1 ELSE 0)
    BY <1>3
  <1>6. Total(g, told) = Total(f, told) + Cardinality(A)
    BY <1>1, <1>2, <1>4, <1>5, TotalPlusOnes
  <1> QED BY <1>6 DEF f, g, A

\* A millisecond adds at most as much busy time as the overlap's peak.
LEMMA OverlapBusy ==
    ASSUME NEW told, Spans(told), told # {}
    PROVE  /\ TaskOverlap(told).busy = Total(Durations(told), told)
           /\ TaskOverlap(told).busy <= TaskOverlap(told).max * TaskOverlap(told).wall
  <1> DEFINE peak == TaskOverlap(told).max
             lo == Min({x.launch : x \in told})
             hi == Max({x.finish : x \in told})
             ran(u) == Total(RanUpTo(told, u), told)
             Bad == {u \in Nat : lo <= u /\ ~(ran(u) <= peak * (u - lo))}
  <1>1. TaskOverlap(told).busy = Total(Durations(told), told) /\ TaskOverlap(told).wall = hi - lo
    BY DEF TaskOverlap, Total, Durations
  <1>2. peak \in Nat /\ \A t \in Nat : Cardinality(RunsAt(told, t)) <= peak
    BY OverlapPeak
  <1>3. lo \in Nat /\ \A x \in told : lo <= x.launch
    <2>1. {x.launch : x \in told} \in SUBSET Nat /\ {x.launch : x \in told} # {}
      BY DEF Spans
    <2> QED BY <2>1, MinOfNaturals
  <1>4. hi \in Nat /\ \A x \in told : x.finish <= hi
    <2> DEFINE f == [x \in told |-> x.finish]
    <2>1. {f[x] : x \in told} = {x.finish : x \in told}
      OBVIOUS
    <2>2. {x.finish : x \in told} \in SUBSET Nat /\ {x.finish : x \in told} # {}
      BY DEF Spans
    <2>3. IsFiniteSet({f[x] : x \in told})
      <3> HIDE DEF f
      <3> QED BY ImageIsFinite DEF Spans
    <2> DEFINE F == {x.finish : x \in told}
    <2>4. F \in SUBSET Int /\ F # {} /\ IsFiniteSet(F) /\ F \in SUBSET Nat
      BY <2>1, <2>2, <2>3
    <2>5. \A x \in told : x.finish \in F
      OBVIOUS
    <2> HIDE DEF f, F
    <2>6. Max(F) \in F /\ \A y \in F : y <= Max(F)
      BY <2>4, MaxOfFinite
    <2> QED BY <2>4, <2>5, <2>6 DEF F
  <1>5. lo <= hi
    <2>1. PICK x \in told : TRUE
      OBVIOUS
    <2>2. x.launch \in Nat /\ x.finish \in Nat /\ x.launch <= x.finish
      BY DEF Spans
    <2>3. lo <= x.launch /\ x.finish <= hi
      BY <1>3, <1>4
    <2> HIDE DEF lo, hi
    <2> QED BY <1>3, <1>4, <2>2, <2>3
  <1>6. ran(lo) = 0
    <2>1. \A x \in told : RanUpTo(told, lo)[x] = 0
      BY <1>3 DEF Spans, RanUpTo
    <2>2. RanUpTo(told, lo) \in [told -> Nat] /\ IsFiniteSet(told) /\ told \in SUBSET told
      BY <1>3, RanType DEF Spans
    <2> HIDE DEF lo
    <2> QED BY <2>1, <2>2, TotalOfZeros
  <1>7. RanUpTo(told, hi) = Durations(told)
    <2>1. ASSUME NEW x \in told PROVE RanUpTo(told, hi)[x] = Durations(told)[x]
      <3>1. x.launch \in Nat /\ x.finish \in Nat /\ x.launch <= x.finish /\ x.finish <= hi
        BY <1>4 DEF Spans
      <3> HIDE DEF hi
      <3> QED BY <1>4, <3>1 DEF RanUpTo, Durations
    <2> QED BY <2>1 DEF RanUpTo, Durations
  <1>8. \A u \in Nat : ran(u) \in Nat
    <2> SUFFICES ASSUME NEW u \in Nat PROVE ran(u) \in Nat
      OBVIOUS
    <2>1. RanUpTo(told, u) \in [told -> Nat] /\ IsFiniteSet(told) /\ told \in SUBSET told
      BY RanType DEF Spans
    <2> QED BY <2>1, TotalType
  <1>9. \A u \in Nat : ran(u + 1) <= ran(u) + peak
    <2> SUFFICES ASSUME NEW u \in Nat PROVE ran(u + 1) <= ran(u) + peak
      OBVIOUS
    <2>1. ran(u + 1) = ran(u) + Cardinality(RunsAt(told, u))
      BY RanOneMore
    <2>2. Cardinality(RunsAt(told, u)) <= peak /\ Cardinality(RunsAt(told, u)) \in Nat
      BY <1>2, RunsAtFinite
    <2>3. ran(u) \in Nat
      BY <1>8
    <2> HIDE DEF ran, peak
    <2> QED BY <1>2, <2>1, <2>2, <2>3
  <1> HIDE DEF ran, peak, lo, hi
  <1>10. Bad = {}
    <2> SUFFICES ASSUME Bad # {} PROVE FALSE
      OBVIOUS
    <2>1. PICK u \in Bad : \A w \in Bad : u <= w
      <3>1. Bad \in SUBSET Nat
        OBVIOUS
      <3> HIDE DEF Bad
      <3> QED BY <3>1, LeastNatural
    <2>2. u # lo
      <3>1. peak * (lo - lo) = 0
        BY <1>2, <1>3
      <3> QED BY <1>6, <2>1, <3>1
    <2> DEFINE w == u - 1
    <2>3. w \in Nat /\ lo <= w /\ w + 1 = u /\ ~(u <= w)
      BY <1>3, <2>1, <2>2
    <2>4. ran(w) <= peak * (w - lo)
      BY <2>1, <2>3
    <2>5. ran(w + 1) <= ran(w) + peak /\ ran(w) \in Nat /\ ran(u) \in Nat
      BY <1>8, <1>9, <2>1, <2>3
    <2> HIDE DEF w
    <2>6. u - lo = (w - lo) + 1 /\ w - lo \in Nat
      BY <1>3, <2>3
    <2>7. \A d \in Nat : peak * (d + 1) = peak * d + peak /\ peak * d \in Nat
      BY <1>2
    <2>8. peak * (u - lo) = peak * (w - lo) + peak /\ peak * (w - lo) \in Nat
      BY <2>6, <2>7
    <2>9. ran(u) <= ran(w) + peak
      BY <2>3, <2>5
    <2>10. ran(u) <= peak * (w - lo) + peak
      BY <1>2, <2>4, <2>5, <2>8, <2>9
    <2> QED BY <2>1, <2>8, <2>10
  <1>11. ran(hi) <= peak * (hi - lo)
    BY <1>4, <1>5, <1>10
  <1>12. ran(hi) = Total(Durations(told), told)
    BY <1>7 DEF ran
  <1> QED BY <1>1, <1>11, <1>12 DEF peak

\* Tasks of which lines tell and tasks that run, at a moment when n were
\* launched: no id belongs to two of them.
Ledger(told, ongoing, now, n) ==
    /\ now \in Nat \ {0} /\ n \in Nat
    /\ IsFiniteSet(told) /\ IsFiniteSet(ongoing)
    /\ \A x \in told : /\ x.id \in 1..n /\ x.launch \in 1..now /\ x.finish \in 1..now
                       /\ x.launch <= x.finish
    /\ \A x \in ongoing : x.id \in 1..n /\ x.launch \in 1..now
    /\ \A x, y \in told : x.id = y.id => x = y
    /\ \A x, y \in ongoing : x.id = y.id => x = y
    /\ \A x \in told, y \in ongoing : x.id # y.id

\* ToldAt and ToldTime, of any tasks.
IdsAt(told, ongoing, t) ==
    {x.id : x \in RunsAt(told, t)} \cup {x.id : x \in LaunchedBy(ongoing, t)}

TimeOf(told, ongoing, now, n) ==
    [id \in 1..n |->
        CASE \E x \in told : x.id = id ->
                LET x == CHOOSE x \in told : x.id = id IN x.finish - x.launch
          [] \E x \in ongoing : x.id = id ->
                LET x == CHOOSE x \in ongoing : x.id = id IN now - x.launch
          [] OTHER -> 0]

TimeTold(told, ongoing, now, n) == Total(TimeOf(told, ongoing, now, n), 1..n)

LEMMA TimeIs ==
    ASSUME NEW told, NEW ongoing, NEW now, NEW n, Ledger(told, ongoing, now, n)
    PROVE  /\ TimeOf(told, ongoing, now, n) \in [1..n -> Nat]
           /\ \A x \in told : TimeOf(told, ongoing, now, n)[x.id] = x.finish - x.launch
           /\ \A x \in ongoing : TimeOf(told, ongoing, now, n)[x.id] = now - x.launch
           /\ \A id \in 1..n : (\A x \in told \cup ongoing : x.id # id)
                               => TimeOf(told, ongoing, now, n)[id] = 0
  <1> DEFINE f == TimeOf(told, ongoing, now, n)
  <1>1. ASSUME NEW x \in told PROVE f[x.id] = x.finish - x.launch /\ f[x.id] \in Nat
    <2>1. x.id \in 1..n /\ x.launch \in Nat /\ x.finish \in Nat /\ x.launch <= x.finish
      BY DEF Ledger
    <2> DEFINE y == CHOOSE y \in told : y.id = x.id
    <2>2. y = x
      BY DEF Ledger
    <2>3. f[x.id] = y.finish - y.launch
      <3>1. (\E z \in told : z.id = x.id) /\ ~(\E z \in ongoing : z.id = x.id)
        BY DEF Ledger
      <3>2. f[x.id] =
              CASE \E z \in told : z.id = x.id ->
                      LET z == CHOOSE z \in told : z.id = x.id IN z.finish - z.launch
                [] \E z \in ongoing : z.id = x.id ->
                      LET z == CHOOSE z \in ongoing : z.id = x.id IN now - z.launch
                [] OTHER -> 0
        BY <2>1 DEF TimeOf
      <3> HIDE DEF f
      <3> QED BY <3>1, <3>2
    <2> HIDE DEF f, y
    <2> QED BY <2>1, <2>2, <2>3
  <1>2. ASSUME NEW x \in ongoing PROVE f[x.id] = now - x.launch /\ f[x.id] \in Nat
    <2>1. x.id \in 1..n /\ x.launch \in 1..now /\ now \in Nat /\ ~\E y \in told : y.id = x.id
      BY DEF Ledger
    <2> DEFINE y == CHOOSE y \in ongoing : y.id = x.id
    <2>2. y = x
      BY DEF Ledger
    <2>3. f[x.id] = now - y.launch
      <3>1. (\E z \in ongoing : z.id = x.id) /\ ~(\E z \in told : z.id = x.id)
        BY <2>1
      <3>2. f[x.id] =
              CASE \E z \in told : z.id = x.id ->
                      LET z == CHOOSE z \in told : z.id = x.id IN z.finish - z.launch
                [] \E z \in ongoing : z.id = x.id ->
                      LET z == CHOOSE z \in ongoing : z.id = x.id IN now - z.launch
                [] OTHER -> 0
        BY <2>1 DEF TimeOf
      <3> HIDE DEF f
      <3> QED BY <3>1, <3>2
    <2> HIDE DEF f, y
    <2> QED BY <2>1, <2>2, <2>3
  <1>3. ASSUME NEW id \in 1..n, \A x \in told \cup ongoing : x.id # id PROVE f[id] = 0
    BY <1>3 DEF TimeOf
  <1>4. ASSUME NEW id \in 1..n PROVE f[id] \in Nat
    <2>1. CASE \A x \in told \cup ongoing : x.id # id
      BY <1>3, <2>1
    <2>2. CASE \E x \in told \cup ongoing : x.id = id
      <3> HIDE DEF f
      <3> QED BY <1>1, <1>2, <2>2
    <2> QED BY <2>1, <2>2
  <1>5. f \in [1..n -> Nat]
    BY <1>4 DEF TimeOf
  <1> QED BY <1>1, <1>2, <1>3, <1>5

\* Tasks end, and are told or lost.
NoMoreTold(told, ongoing, gone, more, now, n) ==
    /\ \A t \in 1..(now - 1) : IdsAt(more, ongoing \ gone, t) \subseteq IdsAt(told, ongoing, t)
    /\ TimeTold(more, ongoing \ gone, now, n) <= TimeTold(told, ongoing, now, n)
    /\ (\A x \in gone : \E y \in more : y.id = x.id) =>
          /\ \A t \in 1..(now - 1) : IdsAt(more, ongoing \ gone, t) = IdsAt(told, ongoing, t)
          /\ TimeTold(more, ongoing \ gone, now, n) = TimeTold(told, ongoing, now, n)

LEMMA TasksAreOver ==
    ASSUME NEW told, NEW ongoing, NEW now, NEW n, Ledger(told, ongoing, now, n),
           NEW gone \in SUBSET ongoing, NEW more, told \subseteq more,
           Ledger(more, ongoing \ gone, now, n),
           \A y \in more \ told : \E x \in gone : y.id = x.id /\ y.launch = x.launch /\ y.finish = now
    PROVE  NoMoreTold(told, ongoing, gone, more, now, n)
  <1> DEFINE left == ongoing \ gone
             f == TimeOf(told, ongoing, now, n)
             g == TimeOf(more, left, now, n)
             All == \A x \in gone : \E y \in more : y.id = x.id
  <1>1. now \in Nat /\ n \in Nat /\ IsFiniteSet(1..n)
    BY FS_Interval DEF Ledger
  <1>2. ASSUME NEW t \in 1..(now - 1) PROVE IdsAt(more, left, t) \subseteq IdsAt(told, ongoing, t)
    <2> SUFFICES ASSUME NEW id \in IdsAt(more, left, t) PROVE id \in IdsAt(told, ongoing, t)
      OBVIOUS
    <2>1. CASE \E y \in RunsAt(more, t) : id = y.id
      <3>1. PICK y \in RunsAt(more, t) : id = y.id
        BY <2>1
      <3>2. CASE y \in told
        BY <3>1, <3>2 DEF RunsAt, IdsAt
      <3>3. CASE y \notin told
        <4>1. PICK x \in gone : y.id = x.id /\ y.launch = x.launch /\ y.finish = now
          BY <3>1, <3>3 DEF RunsAt
        <4>2. x \in LaunchedBy(ongoing, t)
          BY <3>1, <4>1 DEF RunsAt, LaunchedBy
        <4> QED BY <3>1, <4>1, <4>2 DEF IdsAt
      <3> QED BY <3>2, <3>3
    <2>2. CASE \E x \in LaunchedBy(left, t) : id = x.id
      BY <2>2 DEF LaunchedBy, IdsAt
    <2> QED BY <2>1, <2>2 DEF IdsAt
  <1>3. ASSUME All, NEW x \in gone
        PROVE  \E y \in more : y.id = x.id /\ y.launch = x.launch /\ y.finish = now
    <2>1. PICK y \in more : y.id = x.id
      BY <1>3
    <2>2. y \notin told
      BY <2>1 DEF Ledger
    <2>3. PICK z \in gone : y.id = z.id /\ y.launch = z.launch /\ y.finish = now
      BY <2>1, <2>2
    <2>4. z = x
      BY <2>1, <2>3 DEF Ledger
    <2> QED BY <2>1, <2>3, <2>4
  <1>4. ASSUME All, NEW t \in 1..(now - 1) PROVE IdsAt(told, ongoing, t) \subseteq IdsAt(more, left, t)
    <2> SUFFICES ASSUME NEW id \in IdsAt(told, ongoing, t) PROVE id \in IdsAt(more, left, t)
      OBVIOUS
    <2>1. CASE \E y \in RunsAt(told, t) : id = y.id
      BY <2>1 DEF RunsAt, IdsAt
    <2>2. CASE \E x \in LaunchedBy(ongoing, t) : id = x.id
      <3>1. PICK x \in LaunchedBy(ongoing, t) : id = x.id
        BY <2>2
      <3>2. CASE x \in gone
        <4>1. PICK y \in more : y.id = x.id /\ y.launch = x.launch /\ y.finish = now
          BY <1>3, <1>4, <3>2
        <4>2. y \in RunsAt(more, t)
          BY <1>1, <3>1, <4>1 DEF RunsAt, LaunchedBy
        <4> QED BY <3>1, <4>1, <4>2 DEF IdsAt
      <3>3. CASE x \notin gone
        BY <3>1, <3>3 DEF LaunchedBy, IdsAt
      <3> QED BY <3>2, <3>3
    <2> QED BY <2>1, <2>2 DEF IdsAt
  <1>5. /\ f \in [1..n -> Nat] /\ g \in [1..n -> Nat]
        /\ \A x \in told : f[x.id] = x.finish - x.launch
        /\ \A x \in ongoing : f[x.id] = now - x.launch
        /\ \A id \in 1..n : (\A x \in told \cup ongoing : x.id # id) => f[id] = 0
        /\ \A x \in more : g[x.id] = x.finish - x.launch
        /\ \A x \in left : g[x.id] = now - x.launch
        /\ \A id \in 1..n : (\A x \in more \cup left : x.id # id) => g[id] = 0
    <2>1. /\ f \in [1..n -> Nat]
          /\ \A x \in told : f[x.id] = x.finish - x.launch
          /\ \A x \in ongoing : f[x.id] = now - x.launch
          /\ \A id \in 1..n : (\A x \in told \cup ongoing : x.id # id) => f[id] = 0
      BY TimeIs
    <2>2. Ledger(more, left, now, n)
      OBVIOUS
    <2> HIDE DEF left
    <2>3. /\ g \in [1..n -> Nat]
          /\ \A x \in more : g[x.id] = x.finish - x.launch
          /\ \A x \in left : g[x.id] = now - x.launch
          /\ \A id \in 1..n : (\A x \in more \cup left : x.id # id) => g[id] = 0
      BY <2>2, TimeIs
    <2> QED BY <2>1, <2>3
  <1> HIDE DEF f, g
  <1>6. ASSUME NEW id \in 1..n PROVE g[id] <= f[id] /\ (All => g[id] = f[id])
    <2>1. f[id] \in Nat /\ g[id] \in Nat
      BY <1>5
    <2>2. CASE \E x \in told : x.id = id
      <3>1. g[id] = f[id]
        BY <1>5, <2>2
      <3> QED BY <2>1, <3>1
    <2>3. CASE \E x \in left : x.id = id
      <3>1. g[id] = f[id]
        BY <1>5, <2>3
      <3> QED BY <2>1, <3>1
    <2>4. CASE \E x \in gone : x.id = id
      <3>1. PICK x \in gone : x.id = id
        BY <2>4
      <3>2. f[id] = now - x.launch
        BY <1>5, <3>1
      <3>3. CASE \E y \in more : y.id = id
        <4>1. PICK y \in more : y.id = id
          BY <3>3
        <4>2. y \notin told
          BY <3>1, <4>1 DEF Ledger
        <4>3. PICK z \in gone : y.id = z.id /\ y.launch = z.launch /\ y.finish = now
          BY <4>1, <4>2
        <4>4. z = x
          BY <3>1, <4>1, <4>3 DEF Ledger
        <4>5. g[id] = y.finish - y.launch
          BY <1>5, <4>1
        <4>6. g[id] = f[id]
          BY <3>2, <4>3, <4>4, <4>5
        <4> QED BY <2>1, <4>6
      <3>4. CASE ~\E y \in more : y.id = id
        <4>1. \A y \in left : y.id # id
          BY <3>1 DEF Ledger
        <4>2. g[id] = 0
          BY <1>5, <3>4, <4>1
        <4> QED BY <2>1, <3>1, <3>4, <4>2
      <3> QED BY <3>3, <3>4
    <2>5. CASE \A x \in told \cup ongoing : x.id # id
      <3>1. \A y \in more \cup left : y.id # id
        BY <2>5
      <3> QED BY <1>5, <2>1, <2>5, <3>1
    <2> QED BY <2>2, <2>3, <2>4, <2>5
  <1>7. Total(g, 1..n) <= Total(f, 1..n)
    <2>1. 1..n \in SUBSET (1..n) /\ \A id \in 1..n : g[id] <= f[id]
      BY <1>6
    <2> QED BY <1>1, <1>5, <2>1, TotalOfLess
  <1>8. ASSUME All PROVE g = f
    <2>1. \A id \in 1..n : g[id] = f[id]
      BY <1>6, <1>8
    <2>2. f = [id \in 1..n |-> f[id]] /\ g = [id \in 1..n |-> g[id]]
      BY <1>5
    <2> QED BY <2>1, <2>2
  <1>9. TimeTold(more, left, now, n) = Total(g, 1..n) /\ TimeTold(told, ongoing, now, n) = Total(f, 1..n)
    BY DEF TimeTold, f, g
  <1>10. ASSUME All, NEW t \in 1..(now - 1) PROVE IdsAt(more, left, t) = IdsAt(told, ongoing, t)
    BY <1>2, <1>4, <1>10
  <1>11. TimeTold(more, left, now, n) <= TimeTold(told, ongoing, now, n)
    BY <1>7, <1>9
  <1>12. ASSUME All PROVE TimeTold(more, left, now, n) = TimeTold(told, ongoing, now, n)
    BY <1>8, <1>9, <1>12
  <1> QED BY <1>2, <1>10, <1>11, <1>12 DEF NoMoreTold

\* A task is launched.
LEMMA TaskIsLaunched ==
    ASSUME NEW told, NEW ongoing, NEW now, NEW n, Ledger(told, ongoing, now, n),
           NEW z, z.id = n + 1, z.launch = now,
           NEW more, ongoing \subseteq more, more \subseteq ongoing \cup {z}
    PROVE  /\ Ledger(told, more, now, n + 1)
           /\ \A t \in 1..(now - 1) : IdsAt(told, more, t) = IdsAt(told, ongoing, t)
           /\ TimeTold(told, more, now, n + 1) = TimeTold(told, ongoing, now, n)
  <1> DEFINE f == TimeOf(told, ongoing, now, n)
             g == TimeOf(told, more, now, n + 1)
  <1>1. now \in Nat \ {0} /\ n \in Nat
    BY DEF Ledger
  <1>2. Ledger(told, more, now, n + 1)
    <2>1. IsFiniteSet(ongoing \cup {z})
      BY FS_AddElement DEF Ledger
    <2>2. IsFiniteSet(more)
      BY <2>1, FS_Subset
    <2>3. \A id \in 1..n : id \in 1..(n + 1) /\ id # n + 1
      BY <1>1
    <2>4. now \in 1..now /\ n + 1 \in 1..(n + 1) /\ n + 1 \in Nat
      BY <1>1
    <2>5. \A x \in more : x \in ongoing \/ x = z
      OBVIOUS
    <2>6. \A x \in more : x.id \in 1..(n + 1) /\ x.launch \in 1..now
      BY <2>3, <2>4, <2>5 DEF Ledger
    <2>7. \A x \in told : x.id \in 1..(n + 1)
      BY <2>3 DEF Ledger
    <2>8. \A x, y \in more : x.id = y.id => x = y
      BY <2>3, <2>5 DEF Ledger
    <2>9. \A x \in told, y \in more : x.id # y.id
      BY <2>3, <2>5 DEF Ledger
    <2> QED BY <2>2, <2>4, <2>6, <2>7, <2>8, <2>9 DEF Ledger
  <1>3. ASSUME NEW t \in 1..(now - 1) PROVE IdsAt(told, more, t) = IdsAt(told, ongoing, t)
    <2>1. ~(z.launch <= t)
      BY <1>1
    <2>2. LaunchedBy(more, t) = LaunchedBy(ongoing, t)
      BY <2>1 DEF LaunchedBy
    <2> QED BY <2>2 DEF IdsAt
  <1>4. /\ f \in [1..n -> Nat]
        /\ \A x \in told : f[x.id] = x.finish - x.launch
        /\ \A x \in ongoing : f[x.id] = now - x.launch
        /\ \A id \in 1..n : (\A x \in told \cup ongoing : x.id # id) => f[id] = 0
    BY TimeIs
  <1>5. /\ g \in [1..(n + 1) -> Nat]
        /\ \A x \in told : g[x.id] = x.finish - x.launch
        /\ \A x \in more : g[x.id] = now - x.launch
        /\ \A id \in 1..(n + 1) : (\A x \in told \cup more : x.id # id) => g[id] = 0
    BY <1>2, TimeIs
  <1>6. TimeTold(told, more, now, n + 1) = Total(g, 1..(n + 1))
        /\ TimeTold(told, ongoing, now, n) = Total(f, 1..n)
    BY DEF TimeTold
  <1> HIDE DEF f, g
  <1>7. ASSUME NEW id \in 1..n PROVE g[id] = f[id] + (IF id \in {} THEN 1 ELSE 0)
    <2>1. id \in 1..(n + 1) /\ id # n + 1 /\ f[id] \in Nat
      BY <1>1, <1>4
    <2>2. g[id] = f[id]
      <3>1. CASE \E x \in told : x.id = id
        BY <1>4, <1>5, <3>1
      <3>2. CASE \E x \in ongoing : x.id = id
        BY <1>4, <1>5, <3>2
      <3>3. CASE \A x \in told \cup ongoing : x.id # id
        <4>1. \A x \in told \cup more : x.id # id
          BY <2>1, <3>3
        <4> QED BY <1>4, <1>5, <2>1, <3>3, <4>1
      <3> QED BY <3>1, <3>2, <3>3
    <2> QED BY <2>1, <2>2
  <1>8. g[n + 1] = 0
    <2>1. n + 1 \in 1..(n + 1) /\ n + 1 \notin 1..n
      BY <1>1
    <2>2. CASE z \in more
      <3>1. g[z.id] = now - z.launch
        BY <1>5, <2>2
      <3> QED BY <1>1, <3>1
    <2>3. CASE z \notin more
      <3>1. \A x \in told \cup more : x.id # n + 1
        BY <2>1, <2>3 DEF Ledger
      <3> QED BY <1>5, <2>1, <3>1
    <2> QED BY <2>2, <2>3
  <1>9. Total(g, 1..n) = Total(f, 1..n)
    <2>1. IsFiniteSet(1..n) /\ IsFiniteSet(1..(n + 1))
      BY <1>1, FS_Interval
    <2>2. 1..n \in SUBSET ((1..n) \cap (1..(n + 1))) /\ {} \in SUBSET (1..n)
      BY <1>1
    <2>3. \A id \in 1..n : g[id] = f[id] + (IF id \in {} THEN 1 ELSE 0)
      BY <1>7
    <2> DEFINE none == {}
    <2>4. Total(g, 1..n) = Total(f, 1..n) + Cardinality(none)
      <3>1. \A id \in 1..n : g[id] = f[id] + (IF id \in none THEN 1 ELSE 0)
        BY <2>3
      <3>2. none \in SUBSET (1..n)
        OBVIOUS
      <3> DEFINE I == 1..n
                 J == 1..(n + 1)
      <3>3. /\ IsFiniteSet(I) /\ IsFiniteSet(J) /\ f \in [I -> Nat] /\ g \in [J -> Nat]
            /\ I \in SUBSET (I \cap J) /\ none \in SUBSET I
            /\ \A id \in I : g[id] = f[id] + (IF id \in none THEN 1 ELSE 0)
        BY <1>4, <1>5, <2>1, <2>2, <3>1, <3>2
      <3> HIDE DEF none, I, J
      <3>4. Total(g, I) = Total(f, I) + Cardinality(none)
        BY <3>3, TotalPlusOnes
      <3> QED BY <3>4 DEF I
    <2>5. Cardinality(none) = 0
      BY FS_EmptySet
    <2>6. Total(f, 1..n) \in Nat
      BY <1>4, <2>1, TotalType
    <2> HIDE DEF none
    <2> QED BY <2>4, <2>5, <2>6
  <1>10. Total(g, 1..(n + 1)) = Total(g, 1..n)
    <2>1. IsFiniteSet(1..(n + 1))
      BY <1>1, FS_Interval
    <2>2. 1..n \in SUBSET (1..(n + 1)) /\ n + 1 \in (1..(n + 1)) \ (1..n)
          /\ (1..n) \cup {n + 1} = 1..(n + 1)
      BY <1>1
    <2> DEFINE I == 1..n
               J == 1..(n + 1)
               z1 == n + 1
    <2>3. /\ IsFiniteSet(J) /\ g \in [J -> Nat] /\ I \in SUBSET J /\ z1 \in J \ I
          /\ I \cup {z1} = J /\ g[z1] = 0
      BY <1>5, <1>8, <2>1, <2>2
    <2> HIDE DEF I, J, z1
    <2>4. Total(g, I \cup {z1}) = g[z1] + Total(g, I) /\ Total(g, I) \in Nat
      BY <2>3, TotalAdd, TotalType
    <2>5. Total(g, J) = Total(g, I)
      <3>1. Total(g, I \cup {z1}) = Total(g, I)
        <4>1. g[z1] = 0
          BY <2>3
        <4>2. Total(g, I \cup {z1}) = 0 + Total(g, I) /\ Total(g, I) \in Nat
          BY <2>4, <4>1
        <4> QED BY <4>2
      <3>2. I \cup {z1} = J
        BY <2>3
      <3> QED BY <3>1, <3>2
    <2> QED BY <2>5 DEF I, J
  <1> QED BY <1>2, <1>3, <1>6, <1>9, <1>10

\* A millisecond passes.
LEMMA ToldForOneMore ==
    ASSUME NEW told, NEW ongoing, NEW now, NEW n, Ledger(told, ongoing, now, n)
    PROVE  /\ Ledger(told, ongoing, now + 1, n)
           /\ Cardinality(IdsAt(told, ongoing, now)) = Cardinality(ongoing)
           /\ TimeTold(told, ongoing, now + 1, n)
              = TimeTold(told, ongoing, now, n) + Cardinality(ongoing)
  <1> DEFINE f == TimeOf(told, ongoing, now, n)
             g == TimeOf(told, ongoing, now + 1, n)
             name == [x \in ongoing |-> x.id]
             A == {name[x] : x \in ongoing}
  <1>1. now \in Nat \ {0} /\ n \in Nat /\ IsFiniteSet(ongoing) /\ IsFiniteSet(1..n)
    BY FS_Interval DEF Ledger
  <1>2. Ledger(told, ongoing, now + 1, n)
    <2>1. 1..now \in SUBSET (1..(now + 1)) /\ now + 1 \in Nat \ {0}
      BY <1>1
    <2> QED BY <2>1 DEF Ledger
  <1>3. Cardinality(A) = Cardinality(ongoing)
    <2>1. \A x, y \in ongoing : name[x] = name[y] => x = y
      BY DEF Ledger
    <2> HIDE DEF name
    <2> QED BY <1>1, <2>1, SameNumber
  <1>4. A = {x.id : x \in ongoing} /\ A \in SUBSET (1..n)
    BY DEF Ledger
  <1>5. IdsAt(told, ongoing, now) = A
    <2>1. \A x \in told : ~(now < x.finish)
      BY <1>1 DEF Ledger
    <2>2. RunsAt(told, now) = {}
      BY <2>1 DEF RunsAt
    <2>3. LaunchedBy(ongoing, now) = ongoing
      BY <1>1 DEF LaunchedBy, Ledger
    <2> QED BY <1>4, <2>2, <2>3 DEF IdsAt
  <1>6. /\ f \in [1..n -> Nat]
        /\ \A x \in told : f[x.id] = x.finish - x.launch
        /\ \A x \in ongoing : f[x.id] = now - x.launch
        /\ \A id \in 1..n : (\A x \in told \cup ongoing : x.id # id) => f[id] = 0
    BY TimeIs
  <1>7. /\ g \in [1..n -> Nat]
        /\ \A x \in told : g[x.id] = x.finish - x.launch
        /\ \A x \in ongoing : g[x.id] = (now + 1) - x.launch
        /\ \A id \in 1..n : (\A x \in told \cup ongoing : x.id # id) => g[id] = 0
    BY <1>2, TimeIs
  <1>8. TimeTold(told, ongoing, now + 1, n) = Total(g, 1..n)
        /\ TimeTold(told, ongoing, now, n) = Total(f, 1..n)
    BY DEF TimeTold
  <1> HIDE DEF f, g, name
  <1>9. ASSUME NEW id \in 1..n PROVE g[id] = f[id] + (IF id \in A THEN 1 ELSE 0)
    <2>1. f[id] \in Nat /\ (id \in A <=> \E x \in ongoing : x.id = id)
      BY <1>4, <1>6
    <2>2. CASE \E x \in told : x.id = id
      <3>1. id \notin A
        BY <2>1, <2>2 DEF Ledger
      <3>2. g[id] = f[id]
        BY <1>6, <1>7, <2>2
      <3> QED BY <2>1, <3>1, <3>2
    <2>3. CASE \E x \in ongoing : x.id = id
      <3>1. PICK x \in ongoing : x.id = id
        BY <2>3
      <3>2. x.launch \in Nat
        BY DEF Ledger
      <3>3. f[id] = now - x.launch /\ g[id] = (now + 1) - x.launch
        BY <1>6, <1>7, <3>1
      <3>4. g[id] = f[id] + 1
        BY <1>1, <3>2, <3>3
      <3> QED BY <2>1, <2>3, <3>4
    <2>4. CASE \A x \in told \cup ongoing : x.id # id
      <3>1. id \notin A
        BY <2>1, <2>4
      <3>2. g[id] = 0 /\ f[id] = 0
        BY <1>6, <1>7, <2>4
      <3> QED BY <3>1, <3>2
    <2> QED BY <2>2, <2>3, <2>4
  <1>10. Total(g, 1..n) = Total(f, 1..n) + Cardinality(A)
    <2>1. 1..n \in SUBSET ((1..n) \cap (1..n)) /\ A \in SUBSET (1..n)
      BY <1>4
    <2> DEFINE I == 1..n
    <2>2. /\ IsFiniteSet(I) /\ f \in [I -> Nat] /\ g \in [I -> Nat]
          /\ I \in SUBSET (I \cap I) /\ A \in SUBSET I
          /\ \A id \in I : g[id] = f[id] + (IF id \in A THEN 1 ELSE 0)
      BY <1>1, <1>6, <1>7, <1>9, <2>1
    <2> HIDE DEF A, I
    <2>3. Total(g, I) = Total(f, I) + Cardinality(A)
      BY <2>2, TotalPlusOnes
    <2> QED BY <2>3 DEF I
  <1> HIDE DEF A
  <1> QED BY <1>2, <1>3, <1>5, <1>8, <1>10

\* The application has ended.
LEMMA NobodyRuns ==
    ASSUME NEW told, NEW now, NEW n, Ledger(told, {}, now, n)
    PROVE  /\ Spans(told)
           /\ \A t : Cardinality(IdsAt(told, {}, t)) = Cardinality(RunsAt(told, t))
           /\ TimeTold(told, {}, now, n) = Total(Durations(told), told)
  <1> DEFINE f == TimeOf(told, {}, now, n)
             name == [x \in told |-> x.id]
  <1>1. Spans(told) /\ IsFiniteSet(told) /\ n \in Nat /\ IsFiniteSet(1..n)
    <2>1. IsFiniteSet(told) /\ n \in Nat /\ now \in Nat
      BY DEF Ledger
    <2>2. IsFiniteSet(1..n)
      BY <2>1, FS_Interval
    <2>3. \A x \in told : x.launch \in Nat /\ x.finish \in Nat /\ x.launch <= x.finish /\ x.id \in Nat
      BY <2>1 DEF Ledger
    <2>4. \A x, y \in told : x.id = y.id => x = y
      BY DEF Ledger
    <2> QED BY <2>1, <2>2, <2>3, <2>4 DEF Spans
  <1>2. ASSUME NEW t PROVE Cardinality(IdsAt(told, {}, t)) = Cardinality(RunsAt(told, t))
    <2> DEFINE R == RunsAt(told, t)
               id == [x \in R |-> x.id]
    <2>1. IdsAt(told, {}, t) = {id[x] : x \in R}
      BY DEF IdsAt, LaunchedBy
    <2>2. \A x, y \in R : id[x] = id[y] => x = y
      BY DEF RunsAt, Ledger
    <2>3. IsFiniteSet(R)
      BY <1>1, RunsAtFinite
    <2> HIDE DEF R, id
    <2>4. Cardinality({id[x] : x \in R}) = Cardinality(R)
      BY <2>2, <2>3, SameNumber
    <2> QED BY <2>1, <2>4 DEF R
  <1>3. /\ f \in [1..n -> Nat]
        /\ \A x \in told : f[x.id] = x.finish - x.launch
        /\ \A id \in 1..n : (\A x \in told \cup {} : x.id # id) => f[id] = 0
    BY TimeIs
  <1>4. Durations(told) \in [told -> Nat] /\ \A x \in told : Durations(told)[x] = f[x.id]
    <2>1. \A x \in told : Durations(told)[x] = x.finish - x.launch
      BY DEF Durations
    <2>2. Durations(told) \in [told -> Nat]
      BY <1>1, RanType
    <2> QED BY <1>3, <2>1, <2>2
  <1>5. name \in [told -> 1..n] /\ \A x \in told : name[x] = x.id
    BY DEF Ledger
  <1> HIDE DEF f, name
  <1>6. Total(f, 1..n) = Total(Durations(told), told)
    <2>1. \A x, y \in told : name[x] = name[y] => x = y
      BY <1>5 DEF Ledger
    <2>2. \A x \in told : f[name[x]] = Durations(told)[x]
      BY <1>4, <1>5
    <2>3. \A id \in 1..n : (\A x \in told : name[x] # id) => f[id] = 0
      BY <1>3, <1>5
    <2> DEFINE d == Durations(told)
    <2>4. d \in [told -> Nat] /\ \A x \in told : f[name[x]] = d[x]
      BY <1>4, <2>2
    <2> DEFINE I == 1..n
    <2>5. /\ IsFiniteSet(I) /\ f \in [I -> Nat] /\ name \in [told -> I]
          /\ \A id \in I : (\A x \in told : name[x] # id) => f[id] = 0
      BY <1>1, <1>3, <1>5, <2>3
    <2> HIDE DEF d, I
    <2>6. Total(f, I) = Total(d, told)
      BY <1>1, <2>1, <2>4, <2>5, TotalRenamed
    <2> QED BY <2>6 DEF d, I
  <1> QED BY <1>1, <1>2, <1>6 DEF TimeTold, f

\* ToldIsMeasured, of any tasks.
MeasuredAs(told, ongoing, now, n, m) ==
    /\ \A t \in 1..(now - 1) : Cardinality(IdsAt(told, ongoing, t)) <= m.peak
    /\ TimeTold(told, ongoing, now, n) <= m.busy
    /\ ~m.lost =>
          /\ m.peak = 0 \/ \E t \in 1..(now - 1) : Cardinality(IdsAt(told, ongoing, t)) = m.peak
          /\ TimeTold(told, ongoing, now, n) = m.busy

LEMMA MeasuredIs ==
    ToldIsMeasured <=> MeasuredAs(NonSpeculative, Counted, ms, launched, measured)
  <1>1. \A t : ToldAt(t) = IdsAt(NonSpeculative, Counted, t)
    BY DEF ToldAt, IdsAt, RunsAt, LaunchedBy
  <1>2. MapThenSumSet(LAMBDA id : ToldTime[id], 1..launched)
        = TimeTold(NonSpeculative, Counted, ms, launched)
    BY DEF ToldTime, TimeTold, TimeOf, Total
  <1> QED BY <1>1, <1>2 DEF ToldIsMeasured, MeasuredAs

LEMMA MeasuredNext ==
    MeasuredAs(NonSpeculative, Counted, ms, launched, measured)' => ToldIsMeasured'
  BY MeasuredIs, PTL

LEMMA LogIsLedger ==
    EvidenceTypeOK /\ TasksAreTold => Ledger(NonSpeculative, Counted, ms, launched)
  <1> SUFFICES ASSUME EvidenceTypeOK, TasksAreTold
               PROVE  Ledger(NonSpeculative, Counted, ms, launched)
    OBVIOUS
  <1>1. NonSpeculative \in SUBSET Of("task") /\ Counted \in SUBSET tasksRunning
        /\ Of("task") \in SUBSET lines
    BY DEF NonSpeculative, Counted, Of
  <1>2. IsFiniteSet(NonSpeculative) /\ IsFiniteSet(Counted)
    BY <1>1, FS_Subset DEF EvidenceTypeOK
  <1>3. \A x \in Of("task") : x \in EndedTask
    BY DEF EvidenceTypeOK, Of, ChangedExecutor
  <1>4. \A x \in NonSpeculative : /\ x.id \in 1..launched /\ x.launch \in 1..ms /\ x.finish \in 1..ms
                                  /\ x.launch <= x.finish
    BY <1>1, <1>3 DEF EvidenceTypeOK, EndedTask
  <1>5. \A x \in Counted : x.id \in 1..launched /\ x.launch \in 1..ms
    BY <1>1 DEF EvidenceTypeOK, RunningTask
  <1>6. ms \in Nat \ {0} /\ launched \in Nat
    BY DEF EvidenceTypeOK
  <1>7. /\ \A x, y \in NonSpeculative : x.id = y.id => x = y
        /\ \A x, y \in Counted : x.id = y.id => x = y
        /\ \A x \in NonSpeculative, y \in Counted : x.id # y.id
    BY <1>1 DEF TasksAreTold
  <1> QED BY <1>2, <1>4, <1>5, <1>6, <1>7 DEF Ledger

LEMMA LogIsLedgerNext ==
    EvidenceTypeOK' /\ TasksAreTold' => Ledger(NonSpeculative, Counted, ms, launched)'
  BY LogIsLedger, PTL

LEMMA EvidenceInitially == EvidenceInit => EvidenceInv
  <1> SUFFICES ASSUME EvidenceInit PROVE EvidenceInv
    OBVIOUS
  <1>1. EvidenceTypeOK
    BY FS_EmptySet DEF EvidenceInit, EvidenceTypeOK, Of
  <1>2. TasksAreTold
    BY DEF EvidenceInit, TasksAreTold, Of
  <1>3. ReportedOverlapIsReal
    BY DEF EvidenceInit, ReportedOverlapIsReal
  <1>4. ToldIsMeasured
    <2>1. launched = 0 /\ ms = 1 /\ measured = [peak |-> 0, busy |-> 0, lost |-> FALSE, mishap |-> FALSE]
      BY DEF EvidenceInit
    <2> DEFINE none == 1..launched
    <2>2. none = {} /\ 1..(ms - 1) = {}
      BY <2>1
    <2>3. TimeTold(NonSpeculative, Counted, ms, launched) = 0
      <3> DEFINE f == TimeOf(NonSpeculative, Counted, ms, launched)
      <3>1. f \in [none -> Nat] /\ IsFiniteSet(none)
        BY <2>2, FS_EmptySet DEF TimeOf
      <3> HIDE DEF f, none
      <3>2. Total(f, {}) = 0
        BY <3>1, TotalStep
      <3> QED BY <2>2, <3>2 DEF TimeTold, f, none
    <2> HIDE DEF none
    <2> QED BY <2>1, <2>2, <2>3, MeasuredIs DEF MeasuredAs
  <1> QED BY <1>1, <1>2, <1>3, <1>4 DEF EvidenceInv

\* A task's line, as it is written.
LineAs(task, failed, quality) == [TaskLine(task, failed) EXCEPT !.quality = quality]

LEMMA LineFacts ==
    ASSUME EvidenceTypeOK, NEW task \in tasksRunning, NEW failed \in BOOLEAN, NEW quality \in Qualities
    PROVE  LET line == LineAs(task, failed, quality)
           IN  /\ line \in EndedTask
               /\ line.event = "task" /\ line.id = task.id /\ line.launch = task.launch
               /\ line.finish = ms /\ line.failed = failed /\ line.speculative = task.speculative
               /\ line.launch <= line.finish
  <1>1. /\ task.id \in 1..launched /\ task.executor \in SparkExecutor /\ task.launch \in 1..ms
        /\ task.speculative \in BOOLEAN
    BY DEF EvidenceTypeOK, RunningTask
  <1>2. ms \in 1..ms /\ task.launch <= ms
    BY <1>1 DEF EvidenceTypeOK
  <1>3. LineAs(task, failed, quality)
        = [event |-> "task", id |-> task.id, executor |-> task.executor, launch |-> task.launch,
           finish |-> ms, failed |-> failed, speculative |-> task.speculative, quality |-> quality]
    BY DEF LineAs, TaskLine
  <1> QED BY <1>1, <1>2, <1>3 DEF EndedTask

\* What is written when tasks end: lines about executors and about the tasks.
WritesOf(extra, gone, failed, quality) ==
    /\ IsFiniteSet(extra)
    /\ \A x \in extra : \E event \in {"added", "removed"}, e \in SparkExecutor :
          x = ExecutorLine(event, e)
    /\ \E others : WriteLines(extra \cup {TaskLine(task, failed) : task \in gone}, quality, others)

LogGrew(gone, failed, quality) ==
    /\ IsFiniteSet(lines') /\ lines' \subseteq ChangedExecutor \cup EndedTask
    /\ Of("task") \subseteq Of("task")'
    /\ \A x \in Of("task")' \ Of("task") : \E task \in gone : x = LineAs(task, failed, quality)
    /\ quality # "lost" => \A task \in gone : LineAs(task, failed, quality) \in Of("task")'
    /\ measured' = [measured EXCEPT
          !.lost = @ \/ quality = "lost",
          !.mishap = @ \/ \E task \in gone : failed \/ task.speculative]

LEMMA WrittenLines ==
    ASSUME EvidenceTypeOK, NEW extra, NEW gone \in SUBSET tasksRunning, NEW failed \in BOOLEAN,
           NEW quality \in Qualities, WritesOf(extra, gone, failed, quality)
    PROVE  LogGrew(gone, failed, quality)
  <1> USE DEF WritesOf
  <1>0. PICK others : WriteLines(extra \cup {TaskLine(task, failed) : task \in gone}, quality, others)
    OBVIOUS
  <1> DEFINE new == extra \cup {TaskLine(task, failed) : task \in gone}
             f == [x \in new |-> [x EXCEPT !.quality = quality]]
             written == {f[x] : x \in new}
  <1>1. written = {[x EXCEPT !.quality = quality] : x \in new}
    OBVIOUS
  <1>2. IsFiniteSet(new)
    <2> DEFINE t == [task \in gone |-> TaskLine(task, failed)]
    <2>1. IsFiniteSet(gone)
      BY FS_Subset DEF EvidenceTypeOK
    <2>2. {t[task] : task \in gone} = {TaskLine(task, failed) : task \in gone}
      OBVIOUS
    <2> HIDE DEF t
    <2>3. IsFiniteSet({t[task] : task \in gone})
      BY <2>1, ImageIsFinite
    <2>4. IsFiniteSet({TaskLine(task, failed) : task \in gone})
      BY <2>2, <2>3
    <2> QED BY <2>4, FS_Union
  <1>3. IsFiniteSet(written)
    <2> HIDE DEF new, f
    <2> QED BY <1>2, ImageIsFinite
  <1>4. \A x \in new : \/ \E event \in {"added", "removed"}, e \in SparkExecutor : x = ExecutorLine(event, e)
                       \/ \E task \in gone : x = TaskLine(task, failed)
    OBVIOUS
  <1>5. ASSUME NEW x \in new, ~\E task \in gone : x = TaskLine(task, failed)
        PROVE  /\ [x EXCEPT !.quality = quality] \in ChangedExecutor
               /\ [x EXCEPT !.quality = quality].event # "task" /\ x.event # "task"
    <2>1. PICK event \in {"added", "removed"}, e \in SparkExecutor : x = ExecutorLine(event, e)
      BY <1>4, <1>5
    <2> QED BY <2>1 DEF ExecutorLine, ChangedExecutor
  <1>6. ASSUME NEW y \in written
        PROVE  \/ y \in ChangedExecutor /\ y.event # "task"
               \/ \E task \in gone : y = LineAs(task, failed, quality)
    <2>1. PICK x \in new : y = [x EXCEPT !.quality = quality]
      BY <1>1
    <2> HIDE DEF new, written
    <2> QED BY <1>5, <2>1 DEF LineAs
  <1>7. \A task \in gone : LineAs(task, failed, quality) \in written
    BY <1>1 DEF LineAs
  <1>8. lines' = IF quality = "lost" THEN lines ELSE lines \cup written
    BY <1>0, <1>1 DEF WriteLines
  <1>9. measured' = [measured EXCEPT
                 !.lost = @ \/ quality = "lost",
                 !.mishap = @ \/ \E task \in gone : failed \/ task.speculative]
    <2>1. (\E x \in new : x.event = "task" /\ (x.failed \/ x.speculative))
          <=> \E task \in gone : failed \/ task.speculative
      <3>1. ASSUME NEW task \in gone
            PROVE  /\ TaskLine(task, failed).event = "task" /\ TaskLine(task, failed).failed = failed
                   /\ TaskLine(task, failed).speculative = task.speculative
        BY DEF TaskLine
      <3>2. \A task \in gone : TaskLine(task, failed) \in new
        OBVIOUS
      <3> HIDE DEF new
      <3> QED BY <1>5, <3>1, <3>2
    <2>2. measured' = [measured EXCEPT
             !.lost = @ \/ quality = "lost",
             !.mishap = @ \/ \E x \in new : x.event = "task" /\ (x.failed \/ x.speculative)]
      BY <1>0 DEF WriteLines
    <2> HIDE DEF new
    <2>3. CASE \E task \in gone : failed \/ task.speculative
      BY <2>1, <2>2, <2>3
    <2>4. CASE ~\E task \in gone : failed \/ task.speculative
      BY <2>1, <2>2, <2>4
    <2> QED BY <2>3, <2>4
  <1> HIDE DEF new, f, written
  <1>10. IsFiniteSet(lines')
    <2>1. IsFiniteSet(lines \cup written)
      BY <1>3, FS_Union DEF EvidenceTypeOK
    <2> QED BY <1>8, <2>1 DEF EvidenceTypeOK
  <1>11. \A task \in gone : /\ LineAs(task, failed, quality) \in EndedTask
                            /\ LineAs(task, failed, quality).event = "task"
    BY LineFacts
  <1>12. lines' \subseteq ChangedExecutor \cup EndedTask
    BY <1>6, <1>8, <1>11 DEF EvidenceTypeOK
  <1>13. /\ Of("task") \subseteq Of("task")'
         /\ \A x \in Of("task")' \ Of("task") : \E task \in gone : x = LineAs(task, failed, quality)
         /\ quality # "lost" => \A task \in gone : LineAs(task, failed, quality) \in Of("task")'
    BY <1>6, <1>7, <1>8, <1>11 DEF Of
  <1> QED BY <1>9, <1>10, <1>12, <1>13 DEF LogGrew

LEMMA EndKeeps ==
    ASSUME EvidenceInv, NEW extra, NEW gone \in SUBSET tasksRunning, NEW failed \in BOOLEAN,
           NEW quality \in Qualities, WritesOf(extra, gone, failed, quality),
           tasksRunning' = tasksRunning \ gone, UNCHANGED <<ms, launched, report>>
    PROVE  EvidenceInv'
  <1>1. EvidenceTypeOK /\ TasksAreTold /\ ToldIsMeasured /\ ReportedOverlapIsReal
    BY DEF EvidenceInv
  <1>2. /\ IsFiniteSet(lines') /\ lines' \subseteq ChangedExecutor \cup EndedTask
        /\ Of("task") \subseteq Of("task")'
        /\ \A x \in Of("task")' \ Of("task") : \E task \in gone : x = LineAs(task, failed, quality)
        /\ quality # "lost" => \A task \in gone : LineAs(task, failed, quality) \in Of("task")'
        /\ measured' = [measured EXCEPT
              !.lost = @ \/ quality = "lost",
              !.mishap = @ \/ \E task \in gone : failed \/ task.speculative]
    <2>1. LogGrew(gone, failed, quality)
      BY <1>1, WrittenLines
    <2> QED BY <2>1 DEF LogGrew
  <1>3. ASSUME NEW task \in gone
        PROVE  LET line == LineAs(task, failed, quality)
               IN  /\ line.event = "task" /\ line.id = task.id /\ line.launch = task.launch
                   /\ line.finish = ms /\ line.failed = failed /\ line.speculative = task.speculative
                   /\ line.launch <= line.finish
    BY <1>1, LineFacts
  <1>4. /\ measured'.peak = measured.peak /\ measured'.busy = measured.busy
        /\ measured'.lost = (measured.lost \/ quality = "lost")
        /\ measured'.mishap = (measured.mishap \/ \E task \in gone : failed \/ task.speculative)
        /\ measured' \in [peak : Nat, busy : Nat, lost : BOOLEAN, mishap : BOOLEAN]
    BY <1>1, <1>2 DEF EvidenceTypeOK
  <1>5. EvidenceTypeOK'
    <2>1. \A x \in Of("task")' : x.launch <= x.finish
      <3> SUFFICES ASSUME NEW x \in Of("task")' PROVE x.launch <= x.finish
        OBVIOUS
      <3>1. CASE x \in Of("task")
        BY <1>1, <3>1 DEF EvidenceTypeOK
      <3>2. CASE x \notin Of("task")
        <4>1. PICK task \in gone : x = LineAs(task, failed, quality)
          BY <1>2, <3>2
        <4> QED BY <1>3, <4>1
      <3> QED BY <3>1, <3>2
    <2>2. IsFiniteSet(tasksRunning')
      BY <1>1, FS_Subset DEF EvidenceTypeOK
    <2>3. ms' = ms /\ launched' = launched /\ report' = report
      OBVIOUS
    <2>4. RunningTask' = RunningTask /\ EndedTask' = EndedTask /\ ChangedExecutor' = ChangedExecutor
      BY <2>3 DEF RunningTask, EndedTask, ChangedExecutor
    <2>5. tasksRunning' \subseteq RunningTask /\ (report # None => tasksRunning' = {})
          /\ ms \in Nat \ {0} /\ launched \in Nat
      BY <1>1 DEF EvidenceTypeOK
    <2> QED BY <1>2, <1>4, <2>1, <2>2, <2>3, <2>4, <2>5 DEF EvidenceTypeOK
  <1>6. TasksAreTold'
    <2>1. \A x \in Of("task")' : x \in Of("task") \/ \E task \in gone : x = LineAs(task, failed, quality)
      BY <1>2
    <2>2. \A task \in gone : task \in tasksRunning /\ LineAs(task, failed, quality).id = task.id
      BY <1>3
    <2>3. /\ \A x, y \in Of("task") : x.id = y.id => x = y
          /\ \A x, y \in tasksRunning : x.id = y.id => x = y
          /\ \A x \in Of("task"), y \in tasksRunning : x.id # y.id
      BY <1>1 DEF TasksAreTold
    <2>4. \A x, y \in Of("task")' : x.id = y.id => x = y
      <3> SUFFICES ASSUME NEW x \in Of("task")', NEW y \in Of("task")', x.id = y.id PROVE x = y
        OBVIOUS
      <3>1. CASE x \in Of("task") /\ y \in Of("task")
        BY <2>3, <3>1
      <3>2. CASE x \notin Of("task") /\ y \notin Of("task")
        <4>1. PICK v \in gone : x = LineAs(v, failed, quality)
          BY <2>1, <3>2
        <4>2. PICK w \in gone : y = LineAs(w, failed, quality)
          BY <2>1, <3>2
        <4>3. v = w
          BY <2>2, <2>3, <4>1, <4>2
        <4> QED BY <4>1, <4>2, <4>3
      <3>3. CASE x \in Of("task") /\ y \notin Of("task")
        <4>1. PICK w \in gone : y = LineAs(w, failed, quality)
          BY <2>1, <3>3
        <4> QED BY <2>2, <2>3, <3>3, <4>1
      <3>4. CASE x \notin Of("task") /\ y \in Of("task")
        <4>1. PICK v \in gone : x = LineAs(v, failed, quality)
          BY <2>1, <3>4
        <4> QED BY <2>2, <2>3, <3>4, <4>1
      <3> QED BY <3>1, <3>2, <3>3, <3>4
    <2>5. \A x \in Of("task")', y \in tasksRunning' : x.id # y.id
      <3> SUFFICES ASSUME NEW x \in Of("task")', NEW y \in tasksRunning', x.id = y.id PROVE FALSE
        OBVIOUS
      <3>1. y \in tasksRunning /\ y \notin gone
        OBVIOUS
      <3>2. x \notin Of("task")
        BY <2>3, <3>1
      <3>3. PICK v \in gone : x = LineAs(v, failed, quality)
        BY <2>1, <3>2
      <3> QED BY <2>2, <2>3, <3>1, <3>3
    <2>6. ASSUME ~measured'.lost, NEW id \in 1..launched'
          PROVE  \E x \in Of("task")' \cup tasksRunning' : x.id = id
      <3>1. ~measured.lost /\ quality # "lost"
        BY <1>4, <2>6
      <3>2. PICK x \in Of("task") \cup tasksRunning : x.id = id
        BY <1>1, <3>1 DEF TasksAreTold
      <3>3. CASE x \in gone
        <4>1. LineAs(x, failed, quality) \in Of("task")' /\ LineAs(x, failed, quality).id = id
          BY <1>2, <2>2, <3>1, <3>2, <3>3
        <4> QED BY <4>1
      <3>4. CASE x \notin gone
        BY <1>2, <3>2, <3>4
      <3> QED BY <3>3, <3>4
    <2>7. ASSUME ~measured'.lost, measured'.mishap
          PROVE  \E line \in Of("task")' : line.failed \/ line.speculative
      <3>1. ~measured.lost /\ quality # "lost"
        BY <1>4, <2>7
      <3>2. CASE measured.mishap
        BY <1>1, <1>2, <3>1, <3>2 DEF TasksAreTold
      <3>3. CASE \E task \in gone : failed \/ task.speculative
        <4>1. PICK task \in gone : failed \/ task.speculative
          BY <3>3
        <4>2. LineAs(task, failed, quality) \in Of("task")'
          BY <1>2, <3>1
        <4> QED BY <1>3, <4>1, <4>2
      <3> QED BY <1>4, <2>7, <3>2, <3>3
    <2>8. \A x, y \in tasksRunning' : x.id = y.id => x = y
      BY <2>3
    <2> QED BY <2>4, <2>5, <2>6, <2>7, <2>8 DEF TasksAreTold
  <1>7. ToldIsMeasured'
    <2> DEFINE told == NonSpeculative
               more == NonSpeculative'
               ends == {task \in gone : ~task.speculative}
               left == Counted \ ends
    <2>1. Ledger(told, Counted, ms, launched)
      BY <1>1, LogIsLedger
    <2>2. Counted' = left
      BY DEF Counted
    <2>3. Ledger(more, Counted', ms, launched)
      BY <1>5, <1>6, LogIsLedgerNext
    <2>4. told \subseteq more
      BY <1>2 DEF NonSpeculative
    <2>5. ends \in SUBSET Counted
      BY DEF Counted
    <2>6. \A y \in more \ told : \E x \in ends : y.id = x.id /\ y.launch = x.launch /\ y.finish = ms
      <3> SUFFICES ASSUME NEW y \in more \ told
                   PROVE  \E x \in ends : y.id = x.id /\ y.launch = x.launch /\ y.finish = ms
        OBVIOUS
      <3>1. y \in Of("task")' \ Of("task") /\ ~y.speculative
        BY DEF NonSpeculative
      <3>2. PICK x \in gone : y = LineAs(x, failed, quality)
        BY <1>2, <3>1
      <3> QED BY <1>3, <3>1, <3>2
    <2>7. quality # "lost" => \A x \in ends : \E y \in more : y.id = x.id
      <3> SUFFICES ASSUME quality # "lost", NEW x \in ends PROVE \E y \in more : y.id = x.id
        OBVIOUS
      <3>1. LineAs(x, failed, quality) \in Of("task")' /\ ~LineAs(x, failed, quality).speculative
            /\ LineAs(x, failed, quality).id = x.id
        BY <1>2, <1>3
      <3> QED BY <3>1 DEF NonSpeculative
    <2>8. MeasuredAs(told, Counted, ms, launched, measured)
      BY <1>1, MeasuredIs
    <2> DEFINE now == ms
               n == launched
               ongoing == Counted
               All == \A x \in ends : \E y \in more : y.id = x.id
    <2>9. Ledger(told, ongoing, now, n) /\ Ledger(more, ongoing \ ends, now, n)
          /\ ends \in SUBSET ongoing
          /\ \A y \in more \ told : \E x \in ends : y.id = x.id /\ y.launch = x.launch /\ y.finish = now
      BY <2>1, <2>2, <2>3, <2>5, <2>6
    <2> HIDE DEF told, more, ends, now, n, ongoing
    <2>10. /\ \A t \in 1..(now - 1) : IdsAt(more, left, t) \subseteq IdsAt(told, ongoing, t)
           /\ TimeTold(more, left, now, n) <= TimeTold(told, ongoing, now, n)
           /\ All => /\ \A t \in 1..(now - 1) : IdsAt(more, left, t) = IdsAt(told, ongoing, t)
                     /\ TimeTold(more, left, now, n) = TimeTold(told, ongoing, now, n)
      <3>1. NoMoreTold(told, ongoing, ends, more, now, n)
        BY <2>4, <2>9, TasksAreOver
      <3> QED BY <3>1 DEF NoMoreTold, ongoing
    <2>11. ASSUME NEW t \in 1..(now - 1)
           PROVE  /\ Cardinality(IdsAt(more, left, t)) <= Cardinality(IdsAt(told, ongoing, t))
                  /\ Cardinality(IdsAt(more, left, t)) \in Nat
                  /\ Cardinality(IdsAt(told, ongoing, t)) \in Nat
      <3>1. IsFiniteSet(IdsAt(told, ongoing, t))
        <4>1. IsFiniteSet(1..n)
          BY <2>9, FS_Interval DEF Ledger
        <4>2. IdsAt(told, ongoing, t) \in SUBSET (1..n)
          BY <2>9 DEF IdsAt, RunsAt, LaunchedBy, Ledger
        <4> QED BY <4>1, <4>2, FS_Subset
      <3> HIDE DEF left
      <3> QED BY <2>10, <3>1, FS_Subset, FS_CardinalityType
    <2>12. TimeTold(more, left, now, n) \in Int /\ TimeTold(told, ongoing, now, n) \in Int
      <3>1. Ledger(more, left, now, n)
        BY <2>9 DEF ongoing
      <3>2. TimeOf(more, left, now, n) \in [1..n -> Nat] /\ TimeOf(told, ongoing, now, n) \in [1..n -> Nat]
        <4> HIDE DEF left
        <4> QED BY <2>9, <3>1, TimeIs
      <3>3. IsFiniteSet(1..n) /\ 1..n \in SUBSET (1..n)
        BY <2>9, FS_Interval DEF Ledger
      <3> DEFINE f == TimeOf(told, ongoing, now, n)
                 g == TimeOf(more, left, now, n)
                 I == 1..n
      <3>4. f \in [I -> Nat] /\ g \in [I -> Nat] /\ IsFiniteSet(I) /\ I \in SUBSET I
        BY <3>2, <3>3
      <3> HIDE DEF left, f, g, I
      <3>5. Total(f, I) \in Nat /\ Total(g, I) \in Nat
        BY <3>4, TotalType
      <3>6. Total(f, I) = TimeTold(told, ongoing, now, n) /\ Total(g, I) = TimeTold(more, left, now, n)
        BY DEF TimeTold, f, g, I
      <3> QED BY <3>5, <3>6
    <2>13. MeasuredAs(told, ongoing, now, n, measured)
      BY <2>8 DEF ongoing, now, n
    <2>14. ~measured'.lost => ~measured.lost /\ All
      BY <1>4, <2>7 DEF more, ends
    <2>15. measured.peak \in Nat /\ measured.busy \in Nat
      BY <1>1 DEF EvidenceTypeOK
    <2> HIDE DEF left, All
    <2>16. \A t \in 1..(now - 1) : Cardinality(IdsAt(more, left, t)) <= measured'.peak
      BY <1>4, <2>11, <2>13, <2>15 DEF MeasuredAs
    <2>17. TimeTold(more, left, now, n) <= measured'.busy
      BY <1>4, <2>10, <2>12, <2>13, <2>15 DEF MeasuredAs
    <2>18. ASSUME ~measured'.lost
           PROVE  /\ measured'.peak = 0 \/ \E t \in 1..(now - 1) : Cardinality(IdsAt(more, left, t)) = measured'.peak
                  /\ TimeTold(more, left, now, n) = measured'.busy
      <3>1. /\ ~measured.lost
            /\ \A t \in 1..(now - 1) : IdsAt(more, left, t) = IdsAt(told, ongoing, t)
            /\ TimeTold(more, left, now, n) = TimeTold(told, ongoing, now, n)
        BY <2>10, <2>14, <2>18
      <3>2. TimeTold(told, ongoing, now, n) = measured.busy
            /\ (measured.peak = 0 \/ \E t \in 1..(now - 1) :
                                      Cardinality(IdsAt(told, ongoing, t)) = measured.peak)
        BY <2>13, <3>1 DEF MeasuredAs
      <3>3. CASE measured.peak = 0
        <4>1. measured'.peak = 0
          BY <1>4, <3>3
        <4>2. TimeTold(more, left, now, n) = measured'.busy
          BY <1>4, <3>1, <3>2
        <4> QED BY <4>1, <4>2
      <3>4. CASE \E t \in 1..(now - 1) : Cardinality(IdsAt(told, ongoing, t)) = measured.peak
        <4>1. PICK t \in 1..(now - 1) : Cardinality(IdsAt(told, ongoing, t)) = measured.peak
          BY <3>4
        <4>2. IdsAt(more, left, t) = IdsAt(told, ongoing, t)
          BY <3>1
        <4>3. Cardinality(IdsAt(more, left, t)) = measured'.peak
          BY <1>4, <4>1, <4>2
        <4> QED BY <1>4, <3>1, <3>2, <4>3
      <3> QED BY <3>2, <3>3, <3>4
    <2>19. MeasuredAs(more, left, now, n, measured')
      BY <2>16, <2>17, <2>18 DEF MeasuredAs
    <2>20. MeasuredAs(NonSpeculative', Counted', ms', launched', measured')
      <3>1. ms' = now /\ launched' = n /\ NonSpeculative' = more /\ Counted' = left
        BY <2>2 DEF now, n, more
      <3> QED BY <2>19, <3>1
    <2> QED BY <2>20, MeasuredNext
  <1>8. ReportedOverlapIsReal'
    <2>1. CASE report = None
      BY <2>1 DEF ReportedOverlapIsReal
    <2>2. CASE report # None
      <3>1. gone = {}
        BY <1>1, <2>2 DEF EvidenceTypeOK
      <3>2. measured'.mishap = measured.mishap
        BY <1>1, <1>2, <3>1 DEF EvidenceTypeOK
      <3> QED BY <1>1, <1>4, <3>2 DEF ReportedOverlapIsReal
    <2> QED BY <2>1, <2>2
  <1> QED BY <1>5, <1>6, <1>7, <1>8 DEF EvidenceInv

LEMMA LaunchKeeps ==
    ASSUME EvidenceInv, NEW e \in SparkExecutor, NEW speculative \in BOOLEAN, Launch(e, speculative)
    PROVE  EvidenceInv'
  <1> DEFINE z == [id |-> launched', executor |-> e, launch |-> ms, speculative |-> speculative]
  <1>1. EvidenceTypeOK /\ TasksAreTold /\ ToldIsMeasured
    BY DEF EvidenceInv
  <1>2. /\ report = None /\ report' = report /\ launched' = launched + 1
        /\ tasksRunning' = tasksRunning \cup {z} /\ lines' = lines /\ ms' = ms /\ measured' = measured
    BY DEF Launch
  <1>3. ms \in Nat \ {0} /\ launched \in Nat
    BY <1>1 DEF EvidenceTypeOK
  <1>4. z.id = launched + 1 /\ z.launch = ms /\ z.speculative = speculative
    BY <1>2
  <1>5. Of("task")' = Of("task") /\ NonSpeculative' = NonSpeculative
    BY <1>2 DEF Of, NonSpeculative
  <1>6. \A id \in 1..launched : id \in 1..(launched + 1) /\ id # launched + 1
    BY <1>3
  <1>7. EvidenceTypeOK'
    <2>1. IsFiniteSet(tasksRunning')
      BY <1>1, <1>2, FS_AddElement DEF EvidenceTypeOK
    <2>2. RunningTask \subseteq RunningTask' /\ EndedTask \subseteq EndedTask'
          /\ ChangedExecutor' = ChangedExecutor
      BY <1>2, <1>6 DEF RunningTask, EndedTask, ChangedExecutor
    <2>3. z \in RunningTask'
      <3>1. launched + 1 \in 1..(launched + 1) /\ ms \in 1..ms
        BY <1>3
      <3> QED BY <1>2, <3>1 DEF RunningTask
    <2> HIDE DEF z
    <2>4. tasksRunning' \subseteq RunningTask'
      BY <1>1, <1>2, <2>2, <2>3 DEF EvidenceTypeOK
    <2>5. lines' \subseteq ChangedExecutor' \cup EndedTask'
      BY <1>1, <1>2, <2>2 DEF EvidenceTypeOK
    <2> QED BY <1>1, <1>2, <1>3, <1>5, <2>1, <2>4, <2>5 DEF EvidenceTypeOK
  <1>8. \A x \in Of("task") \cup tasksRunning : x.id \in 1..launched
    BY <1>1 DEF EvidenceTypeOK, Of, ChangedExecutor, EndedTask, RunningTask
  <1> HIDE DEF z
  <1>9. TasksAreTold'
    <2>1. \A x, y \in tasksRunning' : x.id = y.id => x = y
      BY <1>1, <1>2, <1>4, <1>6, <1>8 DEF TasksAreTold
    <2>2. \A x \in Of("task")', y \in tasksRunning' : x.id # y.id
      BY <1>1, <1>2, <1>4, <1>5, <1>6, <1>8 DEF TasksAreTold
    <2>3. ASSUME ~measured.lost, NEW id \in 1..(launched + 1)
          PROVE  \E x \in Of("task") \cup tasksRunning' : x.id = id
      <3>1. CASE id = launched + 1
        BY <1>2, <1>4, <3>1
      <3>2. CASE id \in 1..launched
        BY <1>1, <1>2, <2>3, <3>2 DEF TasksAreTold
      <3> QED BY <1>3, <3>1, <3>2
    <2> QED BY <1>1, <1>2, <1>5, <2>1, <2>2, <2>3 DEF TasksAreTold
  <1>10. ToldIsMeasured'
    <2>1. Ledger(NonSpeculative, Counted, ms, launched)
      BY <1>1, LogIsLedger
    <2>2. Counted \subseteq Counted' /\ Counted' \subseteq Counted \cup {z}
      BY <1>2 DEF Counted
    <2> DEFINE more == Counted'
    <2> HIDE DEF more
    <2>3. /\ \A t \in 1..(ms - 1) : IdsAt(NonSpeculative, more, t) = IdsAt(NonSpeculative, Counted, t)
          /\ TimeTold(NonSpeculative, more, ms, launched + 1)
             = TimeTold(NonSpeculative, Counted, ms, launched)
      BY <1>4, <2>1, <2>2, TaskIsLaunched DEF more
    <2>4. MeasuredAs(NonSpeculative, Counted, ms, launched, measured)
      BY <1>1, MeasuredIs
    <2>5. \A t \in 1..(ms - 1) : Cardinality(IdsAt(NonSpeculative, more, t))
                                 = Cardinality(IdsAt(NonSpeculative, Counted, t))
      BY <2>3
    <2>6. MeasuredAs(NonSpeculative, more, ms, launched + 1, measured)
      BY <2>3, <2>4, <2>5 DEF MeasuredAs
    <2>7. MeasuredAs(NonSpeculative', Counted', ms', launched', measured')
      BY <1>2, <1>5, <2>6 DEF more
    <2> QED BY <2>7, MeasuredNext
  <1>11. ReportedOverlapIsReal'
    BY <1>2 DEF ReportedOverlapIsReal
  <1> QED BY <1>7, <1>9, <1>10, <1>11 DEF EvidenceInv

LEMMA MsPassesKeeps ==
    ASSUME EvidenceInv, MsPasses
    PROVE  EvidenceInv'
  <1> DEFINE now == Cardinality(Counted)
  <1>1. EvidenceTypeOK /\ TasksAreTold /\ ToldIsMeasured
    BY DEF EvidenceInv
  <1>2. /\ report = None /\ report' = report /\ launched' = launched /\ tasksRunning' = tasksRunning
        /\ lines' = lines /\ ms' = ms + 1
        /\ measured' = [measured EXCEPT !.peak = Max({@, now}), !.busy = @ + now]
    BY DEF MsPasses, Counted
  <1>3. ms \in Nat \ {0} /\ launched \in Nat /\ measured.peak \in Nat /\ measured.busy \in Nat
    BY <1>1 DEF EvidenceTypeOK
  <1>4. now \in Nat
    <2>1. IsFiniteSet(Counted)
      BY <1>1, FS_Subset DEF EvidenceTypeOK, Counted
    <2> QED BY <2>1, FS_CardinalityType
  <1>5. Of("task")' = Of("task") /\ NonSpeculative' = NonSpeculative /\ Counted' = Counted
    BY <1>2 DEF Of, NonSpeculative, Counted
  <1> HIDE DEF now
  <1>6. Max({measured.peak, now}) = IF measured.peak >= now THEN measured.peak ELSE now
    BY <1>3, <1>4, MaxOfPair
  <1>7. /\ measured'.peak = IF measured.peak >= now THEN measured.peak ELSE now
        /\ measured'.busy = measured.busy + now
        /\ measured'.lost = measured.lost /\ measured'.mishap = measured.mishap
    BY <1>1, <1>2, <1>6 DEF EvidenceTypeOK
  <1>8. measured' \in [peak : Nat, busy : Nat, lost : BOOLEAN, mishap : BOOLEAN]
    <2> DEFINE p == Max({measured.peak, now})
               b == measured.busy + now
    <2>1. p \in Nat /\ b \in Nat
      BY <1>3, <1>4, <1>6
    <2>2. measured' = [measured EXCEPT !.peak = p, !.busy = b]
      BY <1>2
    <2> HIDE DEF p, b
    <2> QED BY <1>1, <2>1, <2>2 DEF EvidenceTypeOK
  <1>9. EvidenceTypeOK'
    <2>1. \A t \in 1..ms : t \in 1..(ms + 1)
      BY <1>3
    <2>2. RunningTask \subseteq RunningTask' /\ EndedTask \subseteq EndedTask'
          /\ ChangedExecutor' = ChangedExecutor
      BY <1>2, <2>1 DEF RunningTask, EndedTask, ChangedExecutor
    <2>3. ms' \in Nat \ {0} /\ launched' \in Nat
      BY <1>2, <1>3
    <2> QED BY <1>1, <1>2, <1>5, <1>8, <2>2, <2>3 DEF EvidenceTypeOK
  <1>10. TasksAreTold'
    BY <1>1, <1>2, <1>5, <1>7 DEF TasksAreTold
  <1>11. ToldIsMeasured'
    <2> DEFINE told == NonSpeculative
               ongoing == Counted
    <2>1. Ledger(told, ongoing, ms, launched)
      BY <1>1, LogIsLedger
    <2>2. MeasuredAs(told, ongoing, ms, launched, measured)
      BY <1>1, MeasuredIs
    <2> HIDE DEF told, ongoing
    <2>3. /\ Cardinality(IdsAt(told, ongoing, ms)) = now
          /\ TimeTold(told, ongoing, ms + 1, launched) = TimeTold(told, ongoing, ms, launched) + now
      BY <2>1, ToldForOneMore DEF now, ongoing
    <2>4. TimeTold(told, ongoing, ms, launched) \in Nat
      <3> DEFINE f == TimeOf(told, ongoing, ms, launched)
                 I == 1..launched
      <3>1. f \in [I -> Nat] /\ IsFiniteSet(I) /\ I \in SUBSET I
        <4>1. f \in [I -> Nat]
          BY <2>1, TimeIs
        <4>2. IsFiniteSet(I)
          BY <1>3, FS_Interval
        <4> QED BY <4>1, <4>2
      <3> HIDE DEF f, I
      <3>2. Total(f, I) \in Nat
        BY <3>1, TotalType
      <3> QED BY <3>2 DEF TimeTold, f, I
    <2>5. \A t \in 1..(ms' - 1) : t \in 1..(ms - 1) \/ t = ms
      BY <1>2, <1>3
    <2>6. \A t \in 1..(ms - 1) : t \in 1..(ms' - 1)
      BY <1>2, <1>3
    <2>7. ms \in 1..(ms' - 1)
      BY <1>2, <1>3
    <2>8. ASSUME NEW t \in 1..(ms' - 1) PROVE Cardinality(IdsAt(told, ongoing, t)) <= measured'.peak
      <3>1. IsFiniteSet(IdsAt(told, ongoing, t))
        <4>1. IsFiniteSet(1..launched)
          BY <1>3, FS_Interval
        <4>2. IdsAt(told, ongoing, t) \in SUBSET (1..launched)
          BY <2>1 DEF IdsAt, RunsAt, LaunchedBy, Ledger
        <4> QED BY <4>1, <4>2, FS_Subset
      <3>2. Cardinality(IdsAt(told, ongoing, t)) \in Nat
        BY <3>1, FS_CardinalityType
      <3>3. CASE t \in 1..(ms - 1)
        <4>1. Cardinality(IdsAt(told, ongoing, t)) <= measured.peak
          BY <2>2, <3>3 DEF MeasuredAs
        <4> QED BY <1>3, <1>4, <1>7, <3>2, <4>1
      <3>4. CASE t = ms
        <4>1. Cardinality(IdsAt(told, ongoing, t)) = now
          BY <2>3, <3>4
        <4> QED BY <1>3, <1>4, <1>7, <4>1
      <3> QED BY <2>5, <3>3, <3>4
    <2>9. TimeTold(told, ongoing, ms', launched) <= measured'.busy
      <3>1. TimeTold(told, ongoing, ms, launched) <= measured.busy
        BY <2>2 DEF MeasuredAs
      <3>2. TimeTold(told, ongoing, ms', launched) = TimeTold(told, ongoing, ms, launched) + now
        BY <1>2, <2>3
      <3> QED BY <1>3, <1>4, <1>7, <2>4, <3>1, <3>2
    <2>10. ASSUME ~measured'.lost
           PROVE  /\ measured'.peak = 0 \/ \E t \in 1..(ms' - 1) : Cardinality(IdsAt(told, ongoing, t)) = measured'.peak
                  /\ TimeTold(told, ongoing, ms', launched) = measured'.busy
      <3>1. /\ measured.peak = 0 \/ \E t \in 1..(ms - 1) : Cardinality(IdsAt(told, ongoing, t)) = measured.peak
            /\ TimeTold(told, ongoing, ms, launched) = measured.busy
        BY <1>7, <2>2, <2>10 DEF MeasuredAs
      <3>2. TimeTold(told, ongoing, ms', launched) = measured'.busy
        BY <1>2, <1>7, <2>3, <3>1
      <3>3. CASE measured.peak >= now
        <4>1. measured'.peak = measured.peak
          BY <1>7, <3>3
        <4> QED BY <2>6, <3>1, <3>2, <4>1
      <3>4. CASE ~(measured.peak >= now)
        <4>1. measured'.peak = now
          BY <1>7, <3>4
        <4> QED BY <2>3, <2>7, <3>2, <4>1
      <3> QED BY <3>3, <3>4
    <2>11. MeasuredAs(told, ongoing, ms', launched, measured')
      BY <2>8, <2>9, <2>10 DEF MeasuredAs
    <2>12. MeasuredAs(NonSpeculative', Counted', ms', launched', measured')
      <3>1. NonSpeculative' = told /\ Counted' = ongoing
        BY <1>5 DEF told, ongoing
      <3> QED BY <1>2, <2>11, <3>1
    <2> QED BY <2>12, MeasuredNext
  <1>12. ReportedOverlapIsReal'
    BY <1>2 DEF ReportedOverlapIsReal
  <1> QED BY <1>9, <1>10, <1>11, <1>12 DEF EvidenceInv

\* What a report computes, and for whom it is complete.
LEMMA SectionIs ==
    ASSUME NEW strict, NEW widths, Section(strict, widths).overlap # None
    PROVE  /\ Section(strict, widths).overlap = TaskOverlap(NonSpeculative)
           /\ Section(strict, widths).strict = strict
           /\ NonSpeculative # {}
           /\ strict => CompleteEvidence(widths)
  <1> DEFINE unknown == [strict |-> strict, status |-> "ingested", overlap |-> None]
             Bad == \E line \in lines : line.quality = "bad"
             Empty == NonSpeculative = {} \/ \E line \in NonSpeculative : line.quality = "untimed"
             Gaps == strict /\ ~CompleteEvidence(widths)
  <1>1. Section(strict, widths)
        = CASE Bad -> [unknown EXCEPT !.status = "refused"]
            [] OTHER -> CASE Empty -> unknown
                          [] Gaps -> [unknown EXCEPT !.status = "refused"]
                          [] OTHER -> [unknown EXCEPT !.overlap = TaskOverlap(NonSpeculative)]
    BY DEF Section
  <1> DEFINE o == TaskOverlap(NonSpeculative)
  <1> HIDE DEF Bad, Gaps, o
  <1>2. ~Bad
    BY <1>1
  <1>3. Section(strict, widths)
        = CASE Empty -> unknown
            [] Gaps -> [unknown EXCEPT !.status = "refused"]
            [] OTHER -> [unknown EXCEPT !.overlap = o]
    BY <1>1, <1>2 DEF o
  <1> HIDE DEF Empty
  <1>4. ~Empty /\ ~Gaps
    <2>1. CASE Empty /\ Gaps
      BY <1>3, <2>1
    <2>2. CASE Empty /\ ~Gaps
      BY <1>3, <2>2
    <2>3. CASE ~Empty /\ Gaps
      BY <1>3, <2>3
    <2> QED BY <2>1, <2>2, <2>3
  <1>5. Section(strict, widths) = [unknown EXCEPT !.overlap = o]
    BY <1>3, <1>4
  <1> QED BY <1>4, <1>5 DEF Empty, Gaps, o

\* If nothing was lost, the lines of a complete log are all the tasks there were.
LEMMA CompleteCount ==
    ASSUME EvidenceTypeOK, TasksAreTold, tasksRunning = {}, ~measured.lost,
           NEW widths, CompleteEvidence(widths)
    PROVE  launched = ExpectedTasks /\ ~measured.mishap
  <1> DEFINE T == Of("task")
             name == [x \in T |-> x.id]
  <1>1. IsFiniteSet(T)
    BY FS_Subset DEF EvidenceTypeOK, Of
  <1>2. \A x, y \in T : name[x] = name[y] => x = y
    BY DEF TasksAreTold
  <1>3. \A x \in T : x.id \in 1..launched
    BY DEF EvidenceTypeOK, Of, ChangedExecutor, EndedTask
  <1>4. {name[x] : x \in T} = 1..launched
    BY <1>3 DEF TasksAreTold
  <1>5. Cardinality(T) = ExpectedTasks /\ \A x \in T : ~x.failed /\ ~x.speculative
    BY DEF CompleteEvidence
  <1>6. ~measured.mishap
    BY <1>5 DEF TasksAreTold
  <1> HIDE DEF T, name
  <1>7. Cardinality({name[x] : x \in T}) = Cardinality(T)
    BY <1>1, <1>2, SameNumber
  <1>8. Cardinality(1..launched) = launched
    BY FS_Interval DEF EvidenceTypeOK
  <1> QED BY <1>4, <1>5, <1>6, <1>7, <1>8

LEMMA ReportKeeps ==
    ASSUME EvidenceInv, NEW strict \in BOOLEAN, NEW widths \in Widths, Report(strict, widths)
    PROVE  EvidenceInv'
  <1>1. EvidenceTypeOK /\ TasksAreTold /\ ToldIsMeasured
    BY DEF EvidenceInv
  <1>2. /\ tasksRunning = {} /\ report' = Section(strict, widths)
        /\ UNCHANGED <<ms, tasksRunning, launched, lines, measured>>
    BY DEF Report
  <1>3. Of("task")' = Of("task") /\ NonSpeculative' = NonSpeculative /\ Counted' = Counted
    BY <1>2 DEF Of, NonSpeculative, Counted
  <1>4. EvidenceTypeOK'
    <2>1. RunningTask' = RunningTask /\ EndedTask' = EndedTask /\ ChangedExecutor' = ChangedExecutor
      BY <1>2 DEF RunningTask, EndedTask, ChangedExecutor
    <2> QED BY <1>1, <1>2, <1>3, <2>1 DEF EvidenceTypeOK
  <1>5. TasksAreTold'
    BY <1>1, <1>2, <1>3 DEF TasksAreTold
  <1>6. ToldIsMeasured'
    <2>1. MeasuredAs(NonSpeculative, Counted, ms, launched, measured)
      BY <1>1, MeasuredIs
    <2>2. MeasuredAs(NonSpeculative', Counted', ms', launched', measured')
      BY <1>2, <1>3, <2>1
    <2> QED BY <2>2, MeasuredNext
  <1>7. ReportedOverlapIsReal'
    <2> SUFFICES ASSUME report' # None, report'.overlap # None
                 PROVE  LET o == report'.overlap
                        IN  /\ o.busy <= o.max * o.wall
                            /\ o.max <= measured.peak /\ o.busy <= measured.busy
                            /\ ~measured.lost =>
                                  /\ o.max = measured.peak /\ o.busy = measured.busy
                                  /\ report'.strict => launched = ExpectedTasks /\ ~measured.mishap
      BY <1>2 DEF ReportedOverlapIsReal
    <2> DEFINE told == NonSpeculative
               o == TaskOverlap(told)
    <2>1. report'.overlap = o /\ report'.strict = strict /\ told # {}
          /\ (strict => CompleteEvidence(widths))
      BY <1>2, SectionIs
    <2>2. Counted = {}
      BY <1>2 DEF Counted
    <2>3. Ledger(told, {}, ms, launched)
      BY <1>1, <2>2, LogIsLedger
    <2>4. MeasuredAs(told, {}, ms, launched, measured)
      BY <1>1, <2>2, MeasuredIs
    <2> HIDE DEF told
    <2>5. /\ Spans(told)
          /\ \A t : Cardinality(IdsAt(told, {}, t)) = Cardinality(RunsAt(told, t))
          /\ TimeTold(told, {}, ms, launched) = Total(Durations(told), told)
      BY <2>3, NobodyRuns
    <2>6. /\ o.max \in Nat
          /\ \A t \in Nat : Cardinality(RunsAt(told, t)) <= o.max
          /\ o.max = 0 \/ \E t \in Nat : Cardinality(RunsAt(told, t)) = o.max
      BY <2>5, OverlapPeak
    <2>7. o.busy = TimeTold(told, {}, ms, launched) /\ o.busy <= o.max * o.wall
      BY <2>1, <2>5, OverlapBusy
    <2> HIDE DEF o
    <2>8. ms \in Nat \ {0} /\ measured.peak \in Nat /\ measured.busy \in Nat
      BY <1>1 DEF EvidenceTypeOK
    <2>9. o.max <= measured.peak
      <3>1. CASE o.max = 0
        BY <2>8, <3>1
      <3>2. CASE o.max # 0
        <4>1. PICK t \in Nat : Cardinality(RunsAt(told, t)) = o.max
          BY <2>6, <3>2
        <4>2. RunsAt(told, t) # {}
          <5>1. Cardinality(RunsAt(told, t)) # 0
            BY <3>2, <4>1
          <5> QED BY <5>1, FS_EmptySet
        <4>3. PICK x \in told : x.launch <= t /\ t < x.finish
          BY <4>2 DEF RunsAt
        <4>4. x.launch \in 1..ms /\ x.finish \in 1..ms
          BY <2>3 DEF Ledger
        <4>5. t \in 1..(ms - 1)
          BY <2>8, <4>3, <4>4
        <4>6. Cardinality(IdsAt(told, {}, t)) <= measured.peak
          BY <2>4, <4>5 DEF MeasuredAs
        <4>7. Cardinality(IdsAt(told, {}, t)) = Cardinality(RunsAt(told, t))
          BY <2>5
        <4> QED BY <4>1, <4>6, <4>7
      <3> QED BY <3>1, <3>2
    <2>10. o.busy <= measured.busy
      BY <2>4, <2>7 DEF MeasuredAs
    <2>11. ASSUME ~measured.lost
           PROVE  /\ o.max = measured.peak /\ o.busy = measured.busy
                  /\ strict => launched = ExpectedTasks /\ ~measured.mishap
      <3>1. /\ measured.peak = 0 \/ \E t \in 1..(ms - 1) : Cardinality(IdsAt(told, {}, t)) = measured.peak
            /\ o.busy = measured.busy
        BY <2>4, <2>7, <2>11 DEF MeasuredAs
      <3>2. measured.peak <= o.max
        <4>1. CASE measured.peak = 0
          BY <2>6, <4>1
        <4>2. CASE measured.peak # 0
          <5>1. PICK t \in 1..(ms - 1) : Cardinality(IdsAt(told, {}, t)) = measured.peak
            BY <3>1, <4>2
          <5>2. t \in Nat
            OBVIOUS
          <5>3. Cardinality(RunsAt(told, t)) <= o.max
            BY <2>6, <5>2
          <5>4. Cardinality(IdsAt(told, {}, t)) = Cardinality(RunsAt(told, t))
            BY <2>5
          <5> QED BY <5>1, <5>3, <5>4
        <4> QED BY <4>1, <4>2
      <3>3. o.max = measured.peak
        BY <2>6, <2>8, <2>9, <3>2
      <3>4. strict => launched = ExpectedTasks /\ ~measured.mishap
        BY <1>1, <1>2, <2>1, <2>11, CompleteCount
      <3> QED BY <3>1, <3>3, <3>4
    <2> QED BY <2>1, <2>7, <2>9, <2>10, <2>11
  <1> QED BY <1>4, <1>5, <1>6, <1>7 DEF EvidenceInv

\* The log and the tasks that run account for every task that was launched, for
\* the peak and for the busy time that were measured, less what was lost
\* (fabric_spark_event_ingest.py, build_event_log_section).
THEOREM EvidenceInvariance == EvidenceSpec => []EvidenceInv
  <1>1. EvidenceInv /\ [EvidenceNext]_evidencevars => EvidenceInv'
    <2> SUFFICES ASSUME EvidenceInv, [EvidenceNext]_evidencevars PROVE EvidenceInv'
      OBVIOUS
    <2>1. ASSUME NEW e \in SparkExecutor, NEW q \in Qualities, AddExecutor(e, q) PROVE EvidenceInv'
      <3> DEFINE none == {}
      <3>1. none \in SUBSET tasksRunning /\ tasksRunning' = tasksRunning \ none
            /\ UNCHANGED <<ms, launched, report>>
        BY <2>1 DEF AddExecutor
      <3>2. WritesOf({ExecutorLine("added", e)}, none, FALSE, q)
        <4>1. {ExecutorLine("added", e)} \cup {TaskLine(task, FALSE) : task \in none}
              = {ExecutorLine("added", e)}
          OBVIOUS
        <4>2. IsFiniteSet({ExecutorLine("added", e)})
          BY FS_Singleton
        <4>3. \E others : WriteLines({ExecutorLine("added", e)} \cup {TaskLine(task, FALSE) : task \in none},
                                     q, others)
          BY <2>1, <4>1 DEF AddExecutor
        <4> QED BY <4>2, <4>3 DEF WritesOf
      <3> HIDE DEF none
      <3> QED BY <3>1, <3>2, EndKeeps
    <2>2. ASSUME NEW e \in SparkExecutor, NEW q \in Qualities, LoseExecutor(e, q) PROVE EvidenceInv'
      <3> DEFINE gone == {task \in tasksRunning : task.executor = e}
      <3>1. gone \in SUBSET tasksRunning /\ tasksRunning' = tasksRunning \ gone
            /\ UNCHANGED <<ms, launched, report>>
        BY <2>2 DEF LoseExecutor
      <3>2. WritesOf({ExecutorLine("removed", e)}, gone, TRUE, q)
        <4>1. IsFiniteSet({ExecutorLine("removed", e)})
          BY FS_Singleton
        <4>2. WriteLines({ExecutorLine("removed", e)} \cup {TaskLine(task, TRUE) : task \in gone}, q, 1)
          BY <2>2 DEF LoseExecutor
        <4> HIDE DEF gone
        <4> QED BY <4>1, <4>2 DEF WritesOf
      <3> HIDE DEF gone
      <3> QED BY <3>1, <3>2, EndKeeps
    <2>3. ASSUME NEW task \in tasksRunning, NEW failed \in BOOLEAN, NEW q \in Qualities,
                 TaskEnds(task, failed, q)
          PROVE  EvidenceInv'
      <3> DEFINE gone == {task}
                 none == {}
      <3>1. gone \in SUBSET tasksRunning /\ tasksRunning' = tasksRunning \ gone
            /\ UNCHANGED <<ms, launched, report>>
        BY <2>3 DEF TaskEnds
      <3>2. WritesOf(none, gone, failed, q)
        <4>1. {TaskLine(x, failed) : x \in gone} = {TaskLine(task, failed)}
          OBVIOUS
        <4>2. none \cup {TaskLine(x, failed) : x \in gone} = {TaskLine(task, failed)}
          BY <4>1
        <4>3. WriteLines({TaskLine(task, failed)}, q, IF failed THEN 1 ELSE 0)
          BY <2>3 DEF TaskEnds
        <4>4. \E others : WriteLines(none \cup {TaskLine(x, failed) : x \in gone}, q, others)
          BY <4>2, <4>3
        <4>5. IsFiniteSet(none)
          BY FS_EmptySet
        <4>6. \A x \in none : FALSE
          OBVIOUS
        <4> HIDE DEF gone, none
        <4> QED BY <4>4, <4>5, <4>6 DEF WritesOf
      <3> HIDE DEF gone, none
      <3> QED BY <3>1, <3>2, EndKeeps
    <2>4. ASSUME NEW e \in SparkExecutor, NEW speculative \in BOOLEAN, Launch(e, speculative)
          PROVE  EvidenceInv'
      BY <2>4, LaunchKeeps
    <2>5. CASE MsPasses
      BY <2>5, MsPassesKeeps
    <2>6. ASSUME NEW strict \in BOOLEAN, NEW widths \in Widths, Report(strict, widths) PROVE EvidenceInv'
      BY <2>6, ReportKeeps
    <2>7. CASE UNCHANGED evidencevars
      <3>1. UNCHANGED <<ms, tasksRunning, launched, lines, measured, report>>
        BY <2>7 DEF evidencevars
      <3>2. Of("task")' = Of("task") /\ NonSpeculative' = NonSpeculative /\ Counted' = Counted
        BY <3>1 DEF Of, NonSpeculative, Counted
      <3>3. EvidenceTypeOK'
        <4>1. RunningTask' = RunningTask /\ EndedTask' = EndedTask /\ ChangedExecutor' = ChangedExecutor
          BY <3>1 DEF RunningTask, EndedTask, ChangedExecutor
        <4> QED BY <3>1, <3>2, <4>1 DEF EvidenceInv, EvidenceTypeOK
      <3>4. TasksAreTold'
        BY <3>1, <3>2 DEF EvidenceInv, TasksAreTold
      <3>5. ToldIsMeasured'
        <4>1. MeasuredAs(NonSpeculative, Counted, ms, launched, measured)
          BY MeasuredIs DEF EvidenceInv
        <4>2. MeasuredAs(NonSpeculative', Counted', ms', launched', measured')
          BY <3>1, <3>2, <4>1
        <4> QED BY <4>2, MeasuredNext
      <3>6. ReportedOverlapIsReal'
        BY <3>1 DEF EvidenceInv, ReportedOverlapIsReal
      <3> QED BY <3>3, <3>4, <3>5, <3>6 DEF EvidenceInv
    <2> QED BY <2>1, <2>2, <2>3, <2>4, <2>5, <2>6, <2>7 DEF EvidenceNext
  <1> QED BY <1>1, EvidenceInitially, PTL DEF EvidenceSpec

\* What a report computes from a log of any length is no more parallelism and
\* no more busy time than there was, and exactly that if no line was lost; one
\* that was told what to expect is of a run of exactly the expected tasks
\* (compute_task_overlap, require_complete_event_evidence).
THEOREM OverlapIsReal == EvidenceSpec => []ReportedOverlapIsReal
  <1>1. EvidenceInv => ReportedOverlapIsReal
    BY DEF EvidenceInv
  <1> QED BY <1>1, EvidenceInvariance, PTL
=============================================================================
