-------------------------------- MODULE Gold --------------------------------
(***************************************************************************)
(* The gold job (LocalGoldJob.run of sjd_gold.py, as FabricGoldJob of      *)
(* fabric_gold.py inherits it), its checkpoints and refresh outbox, and    *)
(* the refresh job of fabric_sjd_runtime.py.                               *)
(*                                                                         *)
(* The control store is here what gold can see of it: which outputs are    *)
(* published under which sequence, and a counter of all its changes, the   *)
(* operations source.  The flow and video tables are one table by date,    *)
(* the operational tables one table, the dimensions one table.  One step   *)
(* is one read or one write of a table; the store changes in between.      *)
(* Gold runs do not overlap, and refresh runs do not; a gold run and a     *)
(* refresh do.  Either may stop at any step.  The sources and the table    *)
(* contents behind a digest or a version stand for it.                     *)
(***************************************************************************)
EXTENDS Integers, FiniteSets, FiniteSetsExt, Nothing

CONSTANTS
    Output,      \* outputs that can be published
    Date,        \* partition dates
    DatesOf,     \* dates on which an output has rows
    Model,       \* semantic models, ordered
    MaxSeq,      \* bound: publications
    MaxChange,   \* bound: changes of the store
    MaxVersion,  \* bound: writes of the fact tables
    MaxSignal    \* bound: refresh signals

ASSUME GoldAssumption ==
    /\ DatesOf \in [Output -> SUBSET Date]
    /\ Model \subseteq Nat
    /\ MaxSeq \in Nat /\ MaxChange \in Nat /\ MaxVersion \in Nat /\ MaxSignal \in Nat

VARIABLES
    seq,      \* publication sequence of each output, 0 when not visible
    last,     \* last sequence used
    changes,  \* operations source
    gold,     \* facts, version |-> of each table, dimensions
    check,    \* checkpoints of the stages
    outbox,   \* refresh signals
    job,      \* the gold run
    refresh,  \* the refresh run
    models,   \* the versions each semantic model was refreshed from
    torn      \* history: a save stopped after its checkpoints, and none was whole since

store == <<seq, last, changes>>
gvars == <<store, gold, check, outbox, job, refresh, models, torn>>

Idle == [pc |-> "idle", force |-> FALSE, flow |-> None, operations |-> None,
         facts |-> FALSE, full |-> FALSE, dates |-> {}, rows |-> None, control |-> 0,
         dims |-> FALSE, source |-> None, complete |-> FALSE]
NoRefresh == [pc |-> "idle", pending |-> {}, models |-> {}]

GInit ==
    /\ seq = [o \in Output |-> 0]
    /\ last = 0
    /\ changes = 0
    /\ gold = [flow |-> [d \in Date |-> {}], operations |-> 0, version |-> 0,
               dims |-> [o \in Output |-> 0], dimsVersion |-> 0]
    /\ check = [facts |-> None, dims |-> None]
    /\ outbox = {}
    /\ job = Idle
    /\ refresh = NoRefresh
    /\ models = [m \in Model |-> [version |-> 0, dimsVersion |-> 0]]
    /\ torn = FALSE

-----------------------------------------------------------------------------
(* The control store *)

\* Every write of the Fabric tables is made under the control lock, which the
\* two writes of one save keep.
Unlocked == job.pc # "enqueue"

Visible(s) == {o \in Output : s[o] > 0}

Publish(o) ==
    /\ Unlocked
    /\ seq[o] = 0
    /\ last < MaxSeq /\ changes < MaxChange
    /\ seq' = [seq EXCEPT ![o] = last + 1]
    /\ last' = last + 1
    /\ changes' = changes + 1
    /\ UNCHANGED <<gold, check, outbox, job, refresh, models, torn>>

\* Published work is replayed: its pointer is withdrawn.
Withdraw(o) ==
    /\ Unlocked
    /\ seq[o] > 0
    /\ changes < MaxChange
    /\ seq' = [seq EXCEPT ![o] = 0]
    /\ changes' = changes + 1
    /\ UNCHANGED <<last, gold, check, outbox, job, refresh, models, torn>>

\* A claim, a heartbeat, a failure: nothing the flow tables show.
Change ==
    /\ Unlocked
    /\ changes < MaxChange
    /\ changes' = changes + 1
    /\ UNCHANGED <<seq, last, gold, check, outbox, job, refresh, models, torn>>

-----------------------------------------------------------------------------
(* build_facts *)

Go(from, to) ==
    /\ job.pc = from
    /\ job' = [job EXCEPT !.pc = to]
Reads == UNCHANGED <<store, gold, check, outbox, refresh, models, torn>>

Start(force) ==
    /\ job.pc = "idle"
    /\ job' = [Idle EXCEPT !.pc = "operations source", !.force = force, !.flow = seq]
    /\ Reads

\* The facts and their sources as the last complete build left them.
FactsCurrent(flow, operations) ==
    /\ check.facts # None
    /\ check.facts.flow = flow /\ check.facts.operations = operations
    /\ check.facts.version = gold.version

\* operations_source_checkpoint; nothing to do, or all of history when some
\* run has written and not completed.
FactsSource ==
    LET noop == ~job.force /\ FactsCurrent(job.flow, changes)
    IN  /\ job.pc = "operations source"
        /\ job' = [job EXCEPT
              !.pc = IF noop THEN "dimensions source" ELSE "plan",
              !.operations = changes, !.facts = ~noop,
              !.full = ~noop /\ (job.force \/ check.facts = None
                                 \/ check.facts.version # gold.version)]
        /\ Reads

\* (slip) only the look-back.
LookbackOnly(flow, s, full, recent) ==
    {o \in Visible(s) : full \/ s[o] > recent}

\* Outputs whose dates are built again: all of history, or what was published
\* since the last complete build or lately; when the source changed without a
\* new publication, everything.
Planned(flow, s, full, recent) ==
    LET prior == Max({0} \cup {check.facts.flow[o] : o \in Output})
        newer == {o \in Visible(s) : s[o] > prior}
    IN  IF full \/ (check.facts.flow # flow /\ newer = {}) THEN Visible(s)
        ELSE newer \cup {o \in Visible(s) : s[o] > recent}

\* plan: sources first, outputs after.
PlanSource ==
    /\ job.pc = "plan"
    /\ gold.version + Cardinality(Date) < MaxVersion
    /\ Cardinality(outbox) < MaxSignal
    /\ job' = [job EXCEPT !.pc = "plan outputs", !.source = seq]
    /\ Reads

\* recent stands for the look-back, by time of publication, and other for the
\* dates of operations, which are built again too.
PlanOutputs(recent, other) ==
    /\ job.pc = "plan outputs"
    /\ job' = [job EXCEPT !.pc = "read outputs", !.source = None, !.full = FALSE,
                  !.dates = other \cup
                      UNION {DatesOf[o] : o \in Planned(job.source, seq, job.full, recent)}]
    /\ Reads

ReadOutputs ==
    /\ job.pc = "read outputs"
    /\ job' = [job EXCEPT !.pc = "read control", !.rows = seq]
    /\ Reads

ReadControl ==
    /\ job.pc = "read control"
    /\ job' = [job EXCEPT !.pc = "partitions", !.control = changes]
    /\ Reads

\* The rows of one date: which outputs, as of which publication.
RowsOf(s, d) == {<<o, s[o]>> : o \in {v \in Visible(s) : d \in DatesOf[v]}}

ReplacePartition ==
    LET d == Min(job.dates)
    IN  /\ job.pc = "partitions"
        /\ job.dates # {}
        /\ gold' = [gold EXCEPT !.flow[d] = RowsOf(job.rows, d), !.version = @ + 1]
        /\ job' = [job EXCEPT !.dates = @ \ {d}]
        /\ UNCHANGED <<store, check, outbox, refresh, models, torn>>

ReplaceOperational ==
    /\ job.pc = "partitions"
    /\ job.dates = {}
    /\ job' = [job EXCEPT !.pc = "latest flow", !.rows = None, !.control = 0]
    /\ gold' = [gold EXCEPT !.operations = job.control, !.version = @ + 1]
    /\ UNCHANGED <<store, check, outbox, refresh, models, torn>>

\* The build is complete if its sources have not changed since the start.
LatestFlow ==
    /\ job.pc = "latest flow"
    /\ job' = [job EXCEPT !.pc = "latest operations", !.complete = seq = job.flow]
    /\ Reads

LatestOperations ==
    /\ job.pc = "latest operations"
    /\ job' = [job EXCEPT !.pc = "dimensions source",
                          !.complete = @ /\ changes = job.operations]
    /\ Reads

-----------------------------------------------------------------------------
(* build_dimensions and the end of run *)

DimensionsCurrent(flow) ==
    /\ check.dims # None
    /\ check.dims.flow = flow /\ check.dims.facts = gold.version
    /\ check.dims.version = gold.dimsVersion

DimensionsSource ==
    LET noop == ~job.force /\ DimensionsCurrent(seq)
    IN  /\ job.pc = "dimensions source"
        /\ job' = [job EXCEPT !.pc = IF noop THEN "save" ELSE "dimensions outputs",
                              !.dims = ~noop, !.source = seq, !.force = FALSE]
        /\ Reads

DimensionsOutputs ==
    /\ job.pc = "dimensions outputs"
    /\ job' = [job EXCEPT !.pc = "replace dimensions", !.rows = seq]
    /\ Reads

ReplaceDimensions ==
    /\ job.pc = "replace dimensions"
    /\ job' = [job EXCEPT !.pc = "save", !.rows = None]
    /\ gold' = [gold EXCEPT !.dims = job.rows, !.dimsVersion = @ + 1]
    /\ UNCHANGED <<store, check, outbox, refresh, models, torn>>

\* What the run saves of its stages.
Checkpoints ==
    [facts |-> IF job.facts /\ job.complete
               THEN [flow |-> job.flow, operations |-> job.operations, version |-> gold.version]
               ELSE check.facts,
     dims |-> IF job.dims
              THEN [flow |-> job.source, facts |-> gold.version, version |-> gold.dimsVersion]
              ELSE check.dims]

\* (slip) one pending signal is enough.
SignalUnlessPending ==
    IF \E row \in outbox : ~row.acked THEN outbox
    ELSE outbox \cup {[version |-> gold.version, dimsVersion |-> gold.dimsVersion, acked |-> FALSE]}

\* A signal is identified by its payload, which holds the table versions: an
\* equal one is not added again.
Signal ==
    LET row == [version |-> gold.version, dimsVersion |-> gold.dimsVersion, acked |-> FALSE]
    IN  IF [row EXCEPT !.acked = TRUE] \in outbox THEN outbox ELSE outbox \cup {row}

SkipSave ==
    /\ ~job.facts /\ ~job.dims
    /\ job.pc = "save"
    /\ job' = Idle
    /\ Reads

\* save_checkpoints_and_enqueue: the checkpoints first, the signal after.
SaveCheckpoints ==
    /\ job.facts \/ job.dims
    /\ Go("save", "enqueue")
    /\ check' = Checkpoints
    /\ UNCHANGED <<store, gold, outbox, refresh, models, torn>>

Enqueue ==
    /\ job.pc = "enqueue"
    /\ job' = Idle
    /\ outbox' = Signal
    /\ torn' = FALSE
    /\ UNCHANGED <<store, gold, check, refresh, models>>

\* The run dies, a write is refused or validate raises.
StopJob ==
    /\ job.pc # "idle"
    /\ job' = Idle
    /\ torn' = (torn \/ job.pc = "enqueue")
    /\ UNCHANGED <<store, gold, check, outbox, refresh, models>>

-----------------------------------------------------------------------------
(* refresh_main *)

RStart ==
    LET pending == {row \in outbox : ~row.acked}
    IN  /\ refresh.pc = "idle"
        /\ pending # {}
        /\ refresh' = [pc |-> "refresh", pending |-> pending, models |-> Model]
        /\ UNCHANGED <<store, gold, check, outbox, job, models, torn>>

\* One model after the other is refreshed from the tables as they are.
RefreshModel ==
    LET m == Min(refresh.models)
    IN  /\ refresh.pc = "refresh"
        /\ refresh.models # {}
        /\ models' = [models EXCEPT ![m] = [version |-> gold.version,
                                            dimsVersion |-> gold.dimsVersion]]
        /\ refresh' = [refresh EXCEPT !.models = @ \ {m}]
        /\ UNCHANGED <<store, gold, check, outbox, job, torn>>

\* (slip) whatever is pending is acknowledged.
AcknowledgeAll ==
    /\ Unlocked
    /\ refresh.pc = "refresh"
    /\ refresh.models = {}
    /\ outbox' = {[row EXCEPT !.acked = TRUE] : row \in outbox}
    /\ refresh' = NoRefresh
    /\ UNCHANGED <<store, gold, check, job, models, torn>>

\* The signals read at the start are acknowledged one after the other.
Acknowledge ==
    /\ Unlocked
    /\ refresh.pc = "refresh"
    /\ refresh.models = {}
    /\ \E row \in refresh.pending :
          /\ \A other \in refresh.pending : row.version <= other.version
          /\ outbox' = (outbox \ {row}) \cup {[row EXCEPT !.acked = TRUE]}
          /\ refresh' = IF refresh.pending = {row} THEN NoRefresh
                        ELSE [refresh EXCEPT !.pending = @ \ {row}]
    /\ UNCHANGED <<store, gold, check, job, models, torn>>

\* A refresh fails or times out, or the job dies.
StopRefresh ==
    /\ refresh.pc # "idle"
    /\ refresh' = NoRefresh
    /\ UNCHANGED <<store, gold, check, outbox, job, models, torn>>

-----------------------------------------------------------------------------
GNext ==
    \/ \E o \in Output : Publish(o) \/ Withdraw(o)
    \/ Change
    \/ \E force \in BOOLEAN : Start(force)
    \/ FactsSource \/ PlanSource
    \/ \E recent \in 0..MaxSeq, other \in SUBSET Date : PlanOutputs(recent, other)
    \/ ReadOutputs \/ ReadControl \/ ReplacePartition \/ ReplaceOperational
    \/ LatestFlow \/ LatestOperations
    \/ DimensionsSource \/ DimensionsOutputs \/ ReplaceDimensions
    \/ SkipSave \/ SaveCheckpoints \/ Enqueue \/ StopJob
    \/ RStart \/ RefreshModel \/ Acknowledge \/ StopRefresh

GSpec == GInit /\ [][GNext]_gvars
-----------------------------------------------------------------------------
(* Properties *)

\* The next normal run would find nothing to do.
UpToDate == FactsCurrent(seq, changes) /\ DimensionsCurrent(seq)

\* A table shows one date as of these publications: of the outputs they hold.
Shows(table, s, d) == {row \in table[d] : s[row[1]] > 0} = RowsOf(s, d)

\* When a run would skip the facts because checkpoint, source and table
\* versions agree, the tables show every published output, on every date it
\* has rows, as of its last publication, and the operations as they are,
\* however many runs were incremental, raced with publications or died half
\* way.  Rows of other outputs are of withdrawn ones.
SkippedFactsAreCurrent ==
    FactsCurrent(seq, changes) =>
        /\ \A d \in Date : Shows(gold.flow, seq, d)
        /\ gold.operations = changes
        /\ DimensionsCurrent(seq) => gold.dims = seq

\* "Semantic refresh acknowledges its outbox only after both models complete":
\* an acknowledged signal was seen by every model.
AcknowledgedSignalsWereSeen ==
    \A row \in outbox : row.acked => \A m \in Model :
        models[m].version >= row.version /\ models[m].dimsVersion >= row.dimsVersion

\* Nothing is left to be refreshed and forgotten: when a model is behind the
\* tables, a signal is pending, or a run is under way or will be needed, which
\* leaves one.
BehindIsSignalled ==
    (\E m \in Model : models[m] # [version |-> gold.version, dimsVersion |-> gold.dimsVersion])
        => \/ \E row \in outbox : ~row.acked
           \/ job.pc # "idle"
           \/ ~UpToDate

\* A signal is lost only by a run that stops between its two writes.
OnlyTornSavesLoseSignals == ~torn => BehindIsSignalled

-----------------------------------------------------------------------------
(* The inductive invariant *)

Flow == [Output -> Nat]
FactsRow == [flow : Flow, operations : Nat, version : Nat]
DimsRow == [flow : Flow, facts : Nat, version : Nat]
SignalRow == [version : Nat, dimsVersion : Nat, acked : BOOLEAN]

Building == {"plan", "plan outputs", "read outputs", "read control", "partitions",
             "latest flow", "latest operations"}
Ending == {"dimensions source", "dimensions outputs", "replace dimensions", "save"}

StoreType == seq \in Flow /\ last \in Nat /\ changes \in Nat
TableType ==
    /\ gold \in [flow : [Date -> SUBSET (Output \X Nat)], operations : Nat, version : Nat,
                 dims : Flow, dimsVersion : Nat]
    /\ check \in [facts : FactsRow \cup {None}, dims : DimsRow \cup {None}]
JobType ==
    job \in [pc : {"idle", "operations source", "enqueue"} \cup Building \cup Ending,
             force : BOOLEAN, flow : Flow \cup {None}, operations : Nat \cup {None},
             facts : BOOLEAN, full : BOOLEAN, dates : SUBSET Date,
             rows : Flow \cup {None}, control : Nat, dims : BOOLEAN,
             source : Flow \cup {None}, complete : BOOLEAN]
SignalType ==
    /\ outbox \subseteq SignalRow
    /\ refresh \in [pc : {"idle", "refresh"}, pending : SUBSET SignalRow, models : SUBSET Model]
    /\ models \in [Model -> [version : Nat, dimsVersion : Nat]]
    /\ torn \in BOOLEAN
GTypeOK == StoreType /\ TableType /\ JobType /\ SignalType

\* h are the publications of some moment before s, numbered up to n: what has
\* been published since is newer than all of them, and the others are in force
\* as they were.
Past(h, s, n) == \A o \in Output :
    /\ h[o] <= n
    /\ \A p \in Output : s[o] > 0 /\ s[o] <= h[p] => h[o] = s[o]

\* Checkpoints are of the past, and a date only holds rows of outputs that
\* have rows on it.
Dated ==
    /\ \A o \in Output : seq[o] <= last
    /\ \A d \in Date : \A row \in gold.flow[d] : d \in DatesOf[row[1]]
    /\ check.facts # None =>
          /\ Past(check.facts.flow, seq, last)
          /\ check.facts.operations <= changes /\ check.facts.version <= gold.version
    /\ check.dims # None =>
          /\ check.dims.facts <= gold.version /\ check.dims.version <= gold.dimsVersion

\* While nobody has written facts since the checkpoint, the tables show its
\* sources.
FactsGood ==
    check.facts # None /\ check.facts.version = gold.version =>
        /\ \A d \in Date : Shows(gold.flow, check.facts.flow, d)
        /\ gold.operations = check.facts.operations

\* The checkpoints agree with the tables, which holds for the dimensions only
\* when the outputs and the facts were read of the same store.
SavedTogether ==
    /\ check.facts # None /\ check.facts.version = gold.version
    /\ check.dims # None /\ check.dims.facts = gold.version
    /\ check.dims.version = gold.dimsVersion
DimsGood ==
    SavedTogether /\ check.facts.operations = changes => gold.dims = check.dims.flow

\* The store has not changed since the run read its operations source.
Steady == job.operations = changes

\* The run has written facts that no checkpoint knows.
Written ==
    /\ check.facts # None => check.facts.version < gold.version
    /\ check.dims # None => check.dims.facts < gold.version

\* What the run knows of the store and the tables while it builds the facts.
BuildKnows ==
    /\ job.pc \in Building => job.facts
    /\ job.pc \in {"plan", "plan outputs"} /\ ~job.full =>
          check.facts # None /\ check.facts.version = gold.version
    /\ job.pc = "plan outputs" => job.source \in Flow /\ (Steady => job.source = seq)
    /\ job.pc \in {"read outputs", "read control", "partitions"} /\ Steady =>
          \A d \in Date \ job.dates : Shows(gold.flow, seq, d)
    /\ job.pc \in {"read control", "partitions"} => job.rows \in Flow /\ (Steady => job.rows = seq)
    /\ job.pc = "partitions" /\ Steady => job.control = changes
    /\ job.pc \in {"latest flow", "latest operations"} /\ Steady =>
          (\A d \in Date : Shows(gold.flow, seq, d)) /\ gold.operations = changes
    /\ job.pc = "latest operations" /\ job.complete /\ Steady => job.flow = seq
    /\ job.pc \in {"latest flow", "latest operations"} \cup Ending /\ job.facts => Written

\* And what it knows of them when they are built, or were found current.
EndKnows ==
    /\ job.pc \in Ending =>
          /\ job.facts /\ job.complete =>
                (\A d \in Date : Shows(gold.flow, job.flow, d)) /\ gold.operations = job.operations
          /\ ~job.facts => check.facts # None /\ check.facts.operations = job.operations
    /\ job.pc \in {"dimensions outputs", "replace dimensions", "save"} => job.source \in Flow
    /\ job.pc = "dimensions outputs" /\ Steady => job.source = seq
    /\ job.pc = "replace dimensions" => job.rows \in Flow /\ (Steady => job.rows = job.source)
    /\ job.pc = "save" /\ job.dims /\ Steady => gold.dims = job.source

JobKnows ==
    /\ job.pc # "idle" => job.flow \in Flow /\ Past(job.flow, seq, last)
    /\ job.pc \in Building \cup Ending => job.operations \in Nat /\ job.operations <= changes
    /\ BuildKnows
    /\ EndKnows

\* Signals, and what models were refreshed from, are versions the tables have
\* had, and the models a refresh is done with have seen what it acknowledges.
Seen(m, row) == models[m].version >= row.version /\ models[m].dimsVersion >= row.dimsVersion
SignalsKnown ==
    /\ \A row \in outbox \cup refresh.pending :
          row.version <= gold.version /\ row.dimsVersion <= gold.dimsVersion
    /\ \A m \in Model : /\ models[m].version <= gold.version
                        /\ models[m].dimsVersion <= gold.dimsVersion
    /\ \A row \in refresh.pending, m \in Model \ refresh.models : Seen(m, row)

\* A save that nobody tore left a signal of the versions it saved.
SavesSignal ==
    SavedTogether /\ ~torn /\ job.pc # "enqueue" =>
        \E row \in outbox : row.version = gold.version /\ row.dimsVersion = gold.dimsVersion

GInv == /\ GTypeOK /\ Dated /\ FactsGood /\ DimsGood /\ JobKnows
        /\ SignalsKnown /\ AcknowledgedSignalsWereSeen /\ SavesSignal
=============================================================================
