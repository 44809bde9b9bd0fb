--------------------------- MODULE EventEvidence ----------------------------
(***************************************************************************)
(* fabric_spark_event_ingest.py and the event-log section of a benchmark   *)
(* report (fabric_benchmark.py): what a report says about the parallelism  *)
(* of a Spark application is computed from its event log alone.            *)
(*                                                                         *)
(* The application adds and loses executors and launches and ends tasks,   *)
(* several in one millisecond; a line of its log may be lost, lack a       *)
(* field, lack a timestamp or be no event at all.  Lines are a set: their  *)
(* order in the log plays no part.                                         *)
(***************************************************************************)
EXTENDS Integers, FiniteSets, Sequences, FiniteSetsExt, SequencesExt, Nothing

CONSTANTS
    SparkExecutor,  \* ids of executors
    ExpectedIds,    \* those the report is told to expect
    ExpectedCpus,   \* and the cores of a task
    ExpectedTasks,  \* and the number of tasks
    MaxLaunches,       \* bound on launches
    LastMs,         \* bound on time
    MaxLapses       \* bound on failed and speculative tasks and bad lines

VARIABLES
    ms,        \* the clock; a timestamp of 0 is a placeholder, it starts at 1
    alive,     \* executors
    tasksRunning,  \* tasks that run
    launched,  \* number of launches
    lines,     \* the log
    lapses,    \* number of lapses
    measured,  \* what happened: peak and busy time; whether a line was lost and
               \* whether a task failed or was speculative (history)
    report

evidencevars == <<ms, alive, tasksRunning, launched, lines, lapses, measured, report>>

EvidenceInit ==
    /\ ms = 1
    /\ alive = {}
    /\ tasksRunning = {}
    /\ launched = 0
    /\ lines = {}
    /\ lapses = 0
    /\ measured = [peak |-> 0, busy |-> 0, lost |-> FALSE, mishap |-> FALSE]
    /\ report = None

Qualities == {"whole", "partial", "untimed", "bad", "lost"}

\* Writing lines that all have a quality; the application had lapses already.
WriteLines(new, quality, others) ==
    /\ lapses' = lapses + others + (IF quality = "whole" THEN 0 ELSE 1)
    /\ lapses' <= MaxLapses
    /\ lines' = IF quality = "lost" THEN lines
                ELSE lines \cup {[line EXCEPT !.quality = quality] : line \in new}
    /\ measured' = [measured EXCEPT
          !.lost = @ \/ quality = "lost",
          !.mishap = @ \/ \E line \in new : line.event = "task" /\ (line.failed \/ line.speculative)]

\* A line about an executor.
ExecutorLine(event, e) == [event |-> event, executor |-> e, quality |-> "whole"]

\* A line about the end of a task.
TaskLine(task, failed) ==
    [event |-> "task", id |-> task.id, executor |-> task.executor, launch |-> task.launch,
     finish |-> ms, failed |-> failed, speculative |-> task.speculative, quality |-> "whole"]

AddExecutor(e, quality) ==
    /\ report = None
    /\ e \notin alive /\ ~\E line \in lines : line.executor = e
    /\ alive' = alive \cup {e}
    /\ WriteLines({ExecutorLine("added", e)}, quality, 0)
    /\ UNCHANGED <<ms, tasksRunning, launched, report>>

\* Its tasks end with it.
LoseExecutor(e, quality) ==
    LET gone == {task \in tasksRunning : task.executor = e}
    IN  /\ e \in alive
        /\ alive' = alive \ {e}
        /\ tasksRunning' = tasksRunning \ gone
        /\ WriteLines({ExecutorLine("removed", e)} \cup {TaskLine(task, TRUE) : task \in gone},
                      quality, 1)
        /\ UNCHANGED <<ms, launched, report>>

Launch(e, speculative) ==
    /\ report = None /\ e \in alive
    /\ launched < MaxLaunches
    /\ lapses' = lapses + IF speculative THEN 1 ELSE 0
    /\ lapses' <= MaxLapses
    /\ launched' = launched + 1
    /\ tasksRunning' = tasksRunning \cup {[id |-> launched', executor |-> e, launch |-> ms,
                                 speculative |-> speculative]}
    /\ UNCHANGED <<ms, alive, lines, measured, report>>

TaskEnds(task, failed, quality) ==
    /\ task \in tasksRunning
    /\ tasksRunning' = tasksRunning \ {task}
    /\ WriteLines({TaskLine(task, failed)}, quality, IF failed THEN 1 ELSE 0)
    /\ UNCHANGED <<ms, alive, launched, report>>

\* A millisecond passes: what runs, runs during it.
MsPasses ==
    LET now == Cardinality({task \in tasksRunning : ~task.speculative})
    IN  /\ report = None /\ ms < LastMs
        /\ ms' = ms + 1
        /\ measured' = [measured EXCEPT !.peak = Max({@, now}), !.busy = @ + now]
        /\ UNCHANGED <<alive, tasksRunning, launched, lines, lapses, report>>

-----------------------------------------------------------------------------
(* The report *)

\* The cores of a task that the lines about the environment and about resource
\* profiles may give: none, one value or several.
Widths == SUBSET {ExpectedCpus, ExpectedCpus + 1}

Of(event) == {line \in lines : line.event = event}
NonSpeculative == {line \in Of("task") : ~line.speculative}

\* The sweep's events: a launch adds one, a finish takes one.
Deltas(tasks) ==
    {[at |-> line.launch, delta |-> 1, id |-> line.id] : line \in tasks}
    \cup {[at |-> line.finish, delta |-> -1, id |-> line.id] : line \in tasks}

\* (slip) launches come before the finishes of the same millisecond.
LaunchesFirst(x, y) ==
    \/ x.at < y.at
    \/ x.at = y.at /\ x.delta > y.delta
    \/ x.at = y.at /\ x.delta = y.delta /\ x.id < y.id

\* The order of the sweep: by time, finishes first; equal ones in any order.
SweptBefore(x, y) ==
    \/ x.at < y.at
    \/ x.at = y.at /\ x.delta < y.delta
    \/ x.at = y.at /\ x.delta = y.delta /\ x.id < y.id

\* The events in this order.
Sweep(events) ==
    LET place(x) == 1 + Cardinality({y \in events : SweptBefore(y, x)})
    IN  [i \in 1..Cardinality(events) |-> CHOOSE x \in events : place(x) = i]

\* What is counted at an event of the sweep.
SweepStep(count, x) ==
    [now |-> count.now + x.delta, max |-> Max({count.max, count.now + x.delta})]

\* compute_task_overlap.
TaskOverlap(tasks) ==
    LET swept == FoldLeft(SweepStep, [now |-> 0, max |-> 0], Sweep(Deltas(tasks)))
        duration_ms == [line \in tasks |-> line.finish - line.launch]
    IN  [max |-> swept.max,
         wall |-> Max({line.finish : line \in tasks}) - Min({line.launch : line \in tasks}),
         busy |-> MapThenSumSet(LAMBDA line : duration_ms[line], tasks)]

\* require_complete_event_evidence.
CompleteEvidence(widths) ==
    /\ {line.executor : line \in Of("added")} = ExpectedIds
    /\ \A line \in lines : line.quality = "whole"
    /\ Cardinality(Of("task")) = ExpectedTasks
    /\ widths = {ExpectedCpus}
    /\ \A line \in Of("task") : line.executor \in ExpectedIds /\ ~line.failed /\ ~line.speculative

\* build_event_log_section, of a log with or without expectations.  They are
\* looked at only if there is something to compute.
Section(strict, widths) ==
    LET unknown == [strict |-> strict, status |-> "ingested", overlap |-> None]
    IN  CASE \E line \in lines : line.quality = "bad" -> [unknown EXCEPT !.status = "refused"]
          [] OTHER ->
             CASE NonSpeculative = {} \/ \E line \in NonSpeculative : line.quality = "untimed" -> unknown
               [] strict /\ ~CompleteEvidence(widths) -> [unknown EXCEPT !.status = "refused"]
               [] OTHER -> [unknown EXCEPT !.overlap = TaskOverlap(NonSpeculative)]

\* The application has ended.
Report(strict, widths) ==
    /\ report = None /\ tasksRunning = {}
    /\ report' = Section(strict, widths)
    /\ UNCHANGED <<ms, alive, tasksRunning, launched, lines, lapses, measured>>

-----------------------------------------------------------------------------
EvidenceNext ==
    \/ \E e \in SparkExecutor :
          \/ \E q \in Qualities : AddExecutor(e, q) \/ LoseExecutor(e, q)
          \/ \E speculative \in BOOLEAN : Launch(e, speculative)
    \/ \E task \in tasksRunning, failed \in BOOLEAN, q \in Qualities : TaskEnds(task, failed, q)
    \/ MsPasses
    \/ \E strict \in BOOLEAN, widths \in Widths : Report(strict, widths)

EvidenceSpec == EvidenceInit /\ [][EvidenceNext]_evidencevars
-----------------------------------------------------------------------------
(* Properties *)

\* A reported overlap was observed and is never extrapolated: whatever tasks
\* started and ended together, no report shows more parallelism or busy time
\* than there was, and one from a log without gaps shows exactly what there
\* was.  A report that was told what to expect and computed something is of a
\* run without failed, speculative or foreign tasks, unless the log has lost
\* their lines (compute_task_overlap, require_complete_event_evidence).
ReportedOverlapIsReal ==
    (IF report = None THEN None ELSE report.overlap) # None =>
        LET o == report.overlap
        IN  /\ o.busy <= o.max * o.wall
            /\ o.max <= measured.peak /\ o.busy <= measured.busy
            /\ ~measured.lost =>
                  /\ o.max = measured.peak /\ o.busy = measured.busy
                  /\ report.strict => launched = ExpectedTasks /\ ~measured.mishap
-----------------------------------------------------------------------------
(* The inductive invariant *)

RunningTask == [id : 1..launched, executor : SparkExecutor, launch : 1..ms, speculative : BOOLEAN]

EndedTask ==
    [event : {"task"}, id : 1..launched, executor : SparkExecutor, launch : 1..ms, finish : 1..ms,
     failed : BOOLEAN, speculative : BOOLEAN, quality : Qualities]

ChangedExecutor == [event : {"added", "removed"}, executor : SparkExecutor, quality : Qualities]

EvidenceTypeOK ==
    /\ ms \in Nat \ {0} /\ launched \in Nat
    /\ IsFiniteSet(tasksRunning) /\ tasksRunning \subseteq RunningTask
    /\ IsFiniteSet(lines) /\ lines \subseteq ChangedExecutor \cup EndedTask
    /\ \A line \in Of("task") : line.launch <= line.finish
    /\ measured \in [peak : Nat, busy : Nat, lost : BOOLEAN, mishap : BOOLEAN]
    /\ report # None => tasksRunning = {}

\* A task runs or has one line; if no line was lost each has one or the other.
TasksAreTold ==
    /\ \A x, y \in Of("task") : x.id = y.id => x = y
    /\ \A x, y \in tasksRunning : x.id = y.id => x = y
    /\ \A x \in Of("task"), y \in tasksRunning : x.id # y.id
    /\ ~measured.lost =>
          /\ \A id \in 1..launched : \E x \in Of("task") \cup tasksRunning : x.id = id
          /\ measured.mishap => \E line \in Of("task") : line.failed \/ line.speculative

Counted == {task \in tasksRunning : ~task.speculative}

\* Who ran at t, as far as the log tells or will tell.
ToldAt(t) ==
    {line.id : line \in {x \in NonSpeculative : x.launch <= t /\ t < x.finish}}
    \cup {task.id : task \in {x \in Counted : x.launch <= t}}

\* How long a task ran, as far as the log tells or will tell.
ToldTime ==
    [id \in 1..launched |->
        CASE \E line \in NonSpeculative : line.id = id ->
                LET line == CHOOSE line \in NonSpeculative : line.id = id IN line.finish - line.launch
          [] \E task \in Counted : task.id = id ->
                LET task == CHOOSE task \in Counted : task.id = id IN ms - task.launch
          [] OTHER -> 0]

\* What is told was measured, and all of it is told if no line was lost.
ToldIsMeasured ==
    /\ \A t \in 1..(ms - 1) : Cardinality(ToldAt(t)) <= measured.peak
    /\ MapThenSumSet(LAMBDA id : ToldTime[id], 1..launched) <= measured.busy
    /\ ~measured.lost =>
          /\ measured.peak = 0 \/ \E t \in 1..(ms - 1) : Cardinality(ToldAt(t)) = measured.peak
          /\ MapThenSumSet(LAMBDA id : ToldTime[id], 1..launched) = measured.busy

EvidenceInv == EvidenceTypeOK /\ TasksAreTold /\ ToldIsMeasured /\ ReportedOverlapIsReal
=============================================================================
