------------------------------ MODULE GoldRows ------------------------------
(***************************************************************************)
(* What the gold tables show of the control store: the rows sjd_gold.py    *)
(* builds for one date, the dates an incremental run builds again, the     *)
(* dimensions, and the validation that ends a run.                         *)
(*                                                                         *)
(* Gold is about the interleaving of a run with the store and the refresh  *)
(* job; here a run is one step, and its outbox row is left to Gold.  Time  *)
(* counts days: a timestamp is its date.  Every batch has one member.      *)
(* The store is the Fabric one, which also replays published work.  The    *)
(* digests of the sources are compared as the rows they are made of, or as *)
(* "changed since".                                                        *)
(***************************************************************************)
EXTENDS Integers, FiniteSets, FiniteSetsExt, Nothing

CONSTANTS
    Video,       \* works
    Captured,    \* capture date of each work
    Camera,      \* camera of each work, None for the output of a benchmark
    Location,    \* location of each work
    Earlier,     \* works published on the first day, before gold ever ran
    Lookback,    \* lookback_hours, in days
    LeaseDays,   \* duration of a lease
    MaxDay,      \* bound: days
    MaxTries,    \* bound: attempts of each work
    MaxGoldRuns  \* bound: commands of the gold job

Day == 0..(MaxDay + LeaseDays)

ASSUME GoldRowsAssumption ==
    /\ Captured \in [Video -> Day]
    /\ Earlier \subseteq Video /\ IsFiniteSet(Earlier) /\ Cardinality(Earlier) <= 1
    /\ None \notin Int
    /\ Lookback \in Nat \ {0} /\ LeaseDays \in Nat \ {0}
    /\ MaxDay \in Nat /\ MaxTries \in [Video -> Nat \ {0}] /\ MaxGoldRuns \in Nat

VARIABLES
    today,    \* the clock
    works,    \* work rows
    tries,    \* attempt rows, with those of their batch
    sequence, \* last publication_sequence
    marts,    \* the gold tables
    mark      \* checkpoints, and what changed since they were saved

grstore == <<works, tries, sequence>>
grvars == <<today, grstore, marts, mark>>

NoTry == [status |-> "NONE", claimed |-> None, sealed |-> None, completed |-> None,
          lease |-> None, published |-> None, seq |-> 0]
NoCounts == [queued |-> 0, started |-> 0, succeeded |-> 0, failed |-> 0]

Unknown == [status |-> "NONE", created |-> None, updated |-> None, count |-> 0, pointer |-> None]
Published == [status |-> "SUCCEEDED", created |-> 0, updated |-> 0, count |-> 1, pointer |-> 1]
PublishedTry == [status |-> "SUCCEEDED", claimed |-> 0, sealed |-> 0, completed |-> 0,
                 lease |-> LeaseDays, published |-> 0, seq |-> 1]

GRInit ==
    /\ today = 0
    /\ works = [v \in Video |-> IF v \in Earlier THEN Published ELSE Unknown]
    /\ tries = [v \in Video |-> [n \in 1..MaxTries[v] |->
                                   IF v \in Earlier /\ n = 1 THEN PublishedTry ELSE NoTry]]
    /\ sequence = Cardinality(Earlier)
    /\ marts = [video |-> [d \in Day |-> {}], operations |-> [d \in Day |-> NoCounts],
                status |-> [v \in Video |-> "NONE"], attempts |-> {}, dims |-> {}]
    /\ mark = [flow |-> None, at |-> None, changed |-> FALSE, written |-> FALSE, full |-> FALSE, runs |-> 0]

-----------------------------------------------------------------------------
(* The control store, as far as its rows carry dates *)

\* Bound: nothing happens after the last command.
Store(v, row, n, try) ==
    /\ mark.runs < MaxGoldRuns
    /\ works' = [works EXCEPT ![v] = row]
    /\ tries' = [tries EXCEPT ![v][n] = try]
    /\ mark' = [mark EXCEPT !.changed = TRUE, !.full = FALSE]
    /\ UNCHANGED <<today, marts>>

DayPasses ==
    /\ today < MaxDay /\ mark.runs < MaxGoldRuns
    /\ today' = today + 1
    /\ UNCHANGED <<grstore, marts, mark>>

RegisterVideo(v) ==
    /\ works[v].status = "NONE"
    /\ Captured[v] <= today
    /\ Store(v, [works[v] EXCEPT !.status = "READY", !.created = today, !.updated = today],
             1, NoTry)
    /\ UNCHANGED sequence

ClaimVideo(v) ==
    LET n == works[v].count + 1
    IN  /\ works[v].status = "READY"
        /\ n <= MaxTries[v]
        /\ Store(v, [works[v] EXCEPT !.status = "LEASED", !.updated = today, !.count = n],
                 n, [NoTry EXCEPT !.status = "LEASED", !.claimed = today, !.lease = today + LeaseDays])
        /\ UNCHANGED sequence

Alive(v) == works[v].status = "LEASED" /\ tries[v][works[v].count].lease > today

SealVideo(v) ==
    LET n == works[v].count
    IN  /\ Alive(v)
        /\ tries[v][n].status = "LEASED"
        /\ Store(v, works[v], n, [tries[v][n] EXCEPT !.status = "SEALED", !.sealed = today])
        /\ UNCHANGED sequence

Retry(v) == IF works[v].count >= MaxTries[v] THEN "DEAD" ELSE "READY"

PublishVideo(v) ==
    LET n == works[v].count
    IN  /\ Alive(v)
        /\ tries[v][n].status = "SEALED"
        /\ sequence' = sequence + 1
        /\ Store(v, [works[v] EXCEPT !.status = "SUCCEEDED", !.pointer = n, !.updated = today],
                 n, [tries[v][n] EXCEPT !.status = "SUCCEEDED", !.completed = today,
                                        !.published = today, !.seq = sequence + 1])

CommitFailure(v) ==
    LET n == works[v].count
    IN  /\ Alive(v)
        /\ tries[v][n].status = "SEALED"
        /\ Store(v, [works[v] EXCEPT !.status = Retry(v), !.updated = today],
                 n, [tries[v][n] EXCEPT !.status = "FAILED", !.completed = today])
        /\ UNCHANGED sequence

\* recover; the batch keeps the end of its lease.
RecoverVideo(v) ==
    LET n == works[v].count
    IN  /\ works[v].status = "LEASED"
        /\ tries[v][n].lease <= today
        /\ Store(v, [works[v] EXCEPT !.status = Retry(v), !.updated = today],
                 n, [tries[v][n] EXCEPT !.status = "EXPIRED"])
        /\ UNCHANGED sequence

\* abandon_failed_claim: an expired attempt whose lease may end in the future.
AbandonVideo(v) ==
    LET n == works[v].count
    IN  /\ works[v].status = "LEASED"
        /\ tries[v][n].status = "LEASED"
        /\ \A m \in DOMAIN tries[v] : tries[v][m].published = None
        /\ Store(v, [works[v] EXCEPT !.status = "READY", !.updated = today],
                 n, [tries[v][n] EXCEPT !.status = "EXPIRED"])
        /\ UNCHANGED sequence

\* replay of published work withdraws its pointer; the bound stands for the
\* attempts that replay adds.
ReplayVideo(v) ==
    /\ works[v].status = "SUCCEEDED"
    /\ works[v].count < MaxTries[v]
    /\ Store(v, [works[v] EXCEPT !.status = "READY", !.pointer = None, !.updated = today],
             works[v].count, tries[v][works[v].count])
    /\ UNCHANGED sequence

-----------------------------------------------------------------------------
(* The sources *)

\* committed_outputs: work by its committed pointer.
CommittedOutputs == {<<v, works[v].pointer>> : v \in {w \in Video : works[w].pointer # None}}

SequenceOf(o) == tries[o[1]][o[2]].seq
Attempts == {o \in UNION {{v} \X DOMAIN tries[v] : v \in Video} : tries[o[1]][o[2]].status # "NONE"}

\* Outputs of a benchmark have no camera and are kept out of flow and video.
Dimensional == {o \in CommittedOutputs : Camera[o[1]] # None}

FirstDate(dates) ==
    LET known == {i \in DOMAIN dates : dates[i] # None}
    IN  IF known = {} THEN None ELSE dates[Min(known)]

\* The date a try ended on, as the operations of an hour count it.
EndDate(o) ==
    LET try == tries[o[1]][o[2]]
        ends == CASE o \in CommittedOutputs -> <<try.published, try.completed>>
                  [] try.status = "EXPIRED" -> <<try.lease, works[o[1]].updated>>
                  [] try.status = "FAILED" -> <<try.completed, works[o[1]].updated>>
                  [] OTHER -> <<try.completed, try.sealed>>
    IN  FirstDate(ends)

\* _operations_rows of one date, hours left out.
OperationsRows(d) ==
    [queued |-> Cardinality({v \in Video : works[v].created = d}),
     started |-> Cardinality({o \in Attempts : tries[o[1]][o[2]].claimed = d}),
     succeeded |-> Cardinality({o \in CommittedOutputs : EndDate(o) = d}),
     failed |-> Cardinality({o \in Attempts : /\ tries[o[1]][o[2]].status \in {"FAILED", "EXPIRED"}
                                              /\ EndDate(o) = d})]

VideoRows(d) == {o \in Dimensional : Captured[o[1]] = d}

\* _operational_work_row.  A READY row is shown as RETRY_WAIT while its available_at
\* lies ahead; no job registers a work for later, and both stores set it to the time
\* of the retry or the replay.
StatusRow(v) ==
    CASE works[v].status = "READY" -> "QUEUED"
      [] works[v].status = "DEAD" -> "DEAD_LETTERED"
      [] OTHER -> works[v].status

\* _operational_attempt_row: the status and the end of an attempt, with the date
\* of its work's last change when it has no end of its own.
AttemptRow(o) ==
    LET try == tries[o[1]][o[2]]
    IN  [attempt |-> o, status |-> try.status,
         completed |-> FirstDate(<<try.published, try.completed, try.sealed, works[o[1]].updated>>)]

\* _control_dates: every date a row of the store carries, from the cutoff on
\* (available_at is the time of the registration or of the last change).
ControlDates(cutoff) ==
    LET ofWork == UNION {{works[v].created, works[v].updated} : v \in Video}
        ofTry(try) == {try.claimed, try.sealed, try.completed, try.published}
                      \cup (IF try.status = "EXPIRED" THEN {try.lease} ELSE {})
    IN  {d \in (ofWork \cup UNION {ofTry(tries[o[1]][o[2]]) : o \in Attempts}) \ {None} :
            d >= cutoff}

-----------------------------------------------------------------------------
(* The gold run *)

\* (slip) the look-back counts from today alone.
CutoffOfToday == today - Lookback

\* A run looks back from the last complete one when that is longer ago.
ControlCutoff == Min({today - Lookback, mark.at - Lookback})

\* _validate_tables: a video row without its dimensions.
Unresolved(tables) == (UNION {tables.video[d] : d \in Day}) \ tables.dims

OutputDates(outputs) == {Captured[o[1]] : o \in outputs}

\* plan
Dates(full) ==
    LET newer == {o \in CommittedOutputs : SequenceOf(o) > mark.flow.sequence}
        recent == {o \in CommittedOutputs : tries[o[1]][o[2]].published >= today - Lookback}
        flow == IF mark.flow.outputs # CommittedOutputs /\ newer = {}
                THEN CommittedOutputs ELSE newer \cup recent
        operations == ControlDates(ControlCutoff)
    IN  IF full THEN OutputDates(CommittedOutputs) \cup ControlDates(0)
        ELSE OutputDates(flow)
             \cup (IF mark.changed /\ operations = {} THEN ControlDates(0) ELSE operations)

\* build_facts: the partitions of the dates, and the operational tables whole.
FactsFor(dates) ==
    [marts EXCEPT !.video = [d \in Day |-> IF d \in dates THEN VideoRows(d) ELSE @[d]],
                  !.operations = [d \in Day |-> IF d \in dates THEN OperationsRows(d) ELSE @[d]],
                  !.status = [v \in Video |-> StatusRow(v)],
                  !.attempts = {AttemptRow(o) : o \in Attempts}]

\* _dimension_metadata_rows: a camera stands at one place.
CamerasAgree ==
    \A o, p \in Dimensional : Camera[o[1]] = Camera[p[1]] => Location[o[1]] = Location[p[1]]

\* _normal_incremental_facts_noop; dimensions are then current too.
NothingToDo == mark.flow # None /\ ~mark.changed /\ ~mark.written

\* run: the tables are written; checkpoints are saved when the dimensions can
\* be built and the validation passes, and nothing is otherwise.
RunGold(rebuild) ==
    LET full == rebuild \/ mark.flow = None \/ mark.written
        facts == FactsFor(Dates(full))
        built == IF CamerasAgree THEN [facts EXCEPT !.dims = Dimensional] ELSE facts
    IN  /\ mark.runs < MaxGoldRuns
        /\ ~rebuild => ~NothingToDo
        /\ marts' = built
        /\ mark' = IF CamerasAgree /\ Unresolved(built) = {}
                   THEN [flow |-> [outputs |-> CommittedOutputs,
                                   sequence |-> Max({0} \cup {SequenceOf(o) : o \in CommittedOutputs})],
                         at |-> today, changed |-> FALSE, written |-> FALSE, full |-> full,
                         runs |-> mark.runs + 1]
                   ELSE [mark EXCEPT !.written = TRUE, !.full = full, !.runs = @ + 1]
        /\ UNCHANGED <<today, grstore>>

\* build-facts --date: partitions of chosen dates; the checkpoint of the whole
\* is left, and no longer matches the tables.
BuildFacts(dates) ==
    /\ mark.runs < MaxGoldRuns
    /\ mark.flow # None /\ ~mark.written
    /\ marts' = FactsFor(dates)
    /\ mark' = [mark EXCEPT !.written = TRUE, !.full = FALSE, !.runs = @ + 1]
    /\ UNCHANGED <<today, grstore>>

-----------------------------------------------------------------------------
GRNext ==
    \/ DayPasses
    \/ \E v \in Video :
          \/ RegisterVideo(v) \/ ClaimVideo(v) \/ SealVideo(v) \/ PublishVideo(v)
          \/ CommitFailure(v) \/ RecoverVideo(v) \/ AbandonVideo(v) \/ ReplayVideo(v)
    \/ \E rebuild \in BOOLEAN : RunGold(rebuild)
    \/ \E d \in Day : BuildFacts({d})

GRSpec == GRInit /\ [][GRNext]_grvars
-----------------------------------------------------------------------------
(* Properties *)

\* A replayed work's old publication, which no row of the store dates again.
Withdrawn == {o \in Attempts : tries[o[1]][o[2]].published # None} \ CommittedOutputs

\* A lease that recovery found over later than a run looks back.
FoundLate == {o \in Attempts : /\ tries[o[1]][o[2]].status = "EXPIRED"
                               /\ works[o[1]].updated > tries[o[1]][o[2]].lease + Lookback}

\* When the checkpoint stands and nothing changed since, every date counts the
\* same queued, started, succeeded and failed attempts as a rebuild of all
\* history would, however incremental the runs were and however long gold did
\* not run; but for publications that a replay withdrew, and for leases that
\* recovery found over after the look-back, which no run counts.
OperationsMatchARebuild ==
    NothingToDo =>
        /\ \A d \in Day \ {EndDate(o) : o \in Withdrawn \cup FoundLate} :
              marts.operations[d] = OperationsRows(d)
        /\ \A v \in Video : marts.status[v] = StatusRow(v)
        /\ marts.attempts = {AttemptRow(o) : o \in Attempts}

\* "Read gold inputs only through authoritative committed pointers": when the
\* checkpoint stands and nothing changed since, the video table shows the
\* committed outputs, each on its date, and no withdrawn one.
SavedVideoIsCommitted ==
    NothingToDo => \A d \in Day : marts.video[d] = VideoRows(d)

\* What incremental runs saved is what a rebuild from the control store would
\* save now, in the operations and in the video tables.
SavedRowsAreCurrent == OperationsMatchARebuild /\ SavedVideoIsCommitted

\* The same of a full rebuild: it leaves nothing in the tables but what the
\* committed pointers name.
RebuildShowsCommittedOnly ==
    mark.full => UNION {marts.video[d] : d \in Day} \subseteq Attempts \ Withdrawn

-----------------------------------------------------------------------------
(* The inductive invariant *)

MaybeDay == Nat \cup {None}
WorkRow == [status : {"NONE", "READY", "LEASED", "SUCCEEDED", "DEAD"}, created : MaybeDay,
            updated : MaybeDay, count : Nat, pointer : MaybeDay]
TryRow == [status : {"NONE", "LEASED", "SEALED", "SUCCEEDED", "FAILED", "EXPIRED"},
           claimed : MaybeDay, sealed : MaybeDay, completed : MaybeDay, lease : MaybeDay,
           published : MaybeDay, seq : Nat]

GRTypeOK ==
    /\ today \in Nat /\ sequence \in Nat
    /\ works \in [Video -> WorkRow]
    /\ DOMAIN tries = Video /\ \A v \in Video : tries[v] \in [1..MaxTries[v] -> TryRow]
    /\ DOMAIN marts = {"video", "operations", "status", "attempts", "dims"}
    /\ DOMAIN marts.video = Day /\ DOMAIN marts.operations = Day
    /\ DOMAIN mark = {"flow", "at", "changed", "written", "full", "runs"}
    /\ mark.changed \in BOOLEAN /\ mark.written \in BOOLEAN
    /\ mark.flow # None => /\ mark.at \in Nat /\ mark.at <= today
                           /\ mark.flow.sequence \in Nat /\ mark.flow.sequence <= sequence

Running == {"LEASED", "SEALED"}

\* Attempts end once: a row that ended is not written again, and the pointer
\* names the last attempt.
WorkAgrees(v) ==
    LET row == works[v]
    IN  /\ row.count <= MaxTries[v]
        /\ row.updated # None => row.updated <= today
        /\ row.status = "NONE" => row.created = None /\ row.count = 0
        /\ row.status = "LEASED" => row.count >= 1 /\ tries[v][row.count].status \in Running
        /\ row.status = "SUCCEEDED" => row.pointer # None
        /\ row.pointer # None => /\ row.status = "SUCCEEDED" /\ row.count >= 1
                                 /\ row.pointer = row.count
                                 /\ tries[v][row.count].status = "SUCCEEDED"

TryAgrees(v, n) ==
    LET try == tries[v][n]
    IN  /\ n > works[v].count => try.status = "NONE"
        /\ try.status \in Running => n = works[v].count /\ works[v].status = "LEASED"
        /\ try.status \in Running => try.published = None /\ try.completed = None
        /\ try.status = "NONE" => try = NoTry
        /\ try.status # "NONE" => try.claimed # None /\ try.lease # None
        /\ try.published # None <=> try.status = "SUCCEEDED"
        /\ try.status = "SUCCEEDED" => try.completed = try.published
        /\ try.status = "FAILED" => try.completed # None
        /\ try.status = "EXPIRED" => works[v].updated # None
        /\ try.seq <= sequence

StoreRowsAgree ==
    \A v \in Video : WorkAgrees(v) /\ \A n \in 1..MaxTries[v] : TryAgrees(v, n)

\* What the last complete run saved still stands in the tables.
Saved == mark.flow # None /\ ~mark.written

VideoIsAsSaved ==
    /\ \A d \in Day : \A o \in marts.video[d] : Captured[o[1]] = d
    /\ Saved =>
          /\ \A d \in Day :
                marts.video[d] = {o \in mark.flow.outputs : Camera[o[1]] # None /\ Captured[o[1]] = d}
          /\ \A o \in CommittedOutputs \ mark.flow.outputs : SequenceOf(o) > mark.flow.sequence
          /\ ~mark.changed => mark.flow.outputs = CommittedOutputs

\* The dates of the rows that are not written over.
LastingDates(cutoff) ==
    {d \in Nat :
        /\ d >= cutoff
        /\ \/ \E v \in Video : works[v].created = d
           \/ \E o \in Attempts :
                 LET try == tries[o[1]][o[2]]
                 IN  \/ d \in {try.claimed, try.completed, try.published}
                     \/ try.status = "EXPIRED" /\ try.lease = d}

Uncounted == {EndDate(o) : o \in Withdrawn \cup FoundLate}

\* A date is counted as it should be, or the next run will count it again.
OperationsAreAsSaved ==
    \A d \in Day :
        /\ marts.operations[d] # NoCounts => d \in LastingDates(0)
        /\ Saved /\ d \notin Uncounted =>
              \/ marts.operations[d] = OperationsRows(d)
              \/ mark.changed /\ d \in LastingDates(mark.at - Lookback)

StatusIsAsSaved ==
    Saved /\ ~mark.changed =>
        /\ \A v \in Video : marts.status[v] = StatusRow(v)
        /\ marts.attempts = {AttemptRow(o) : o \in Attempts}

GRInv ==
    /\ GRTypeOK /\ StoreRowsAgree
    /\ VideoIsAsSaved /\ OperationsAreAsSaved /\ StatusIsAsSaved
=============================================================================
