----------------------------- MODULE ProcessJob -----------------------------
(***************************************************************************)
(* run_process_batch of sjd_process.py over the control store: several     *)
(* runs of the process job, of the same batch or of different ones, with   *)
(* their heartbeat threads and the attempt staging area.                   *)
(*                                                                         *)
(* One step is one access to the store or to the staging area; what a run  *)
(* read earlier may be stale when it acts.  A write to the staging area is *)
(* two steps: while it is under way, and for ever if the run dies, what is *)
(* there is Torn.  A run may die, or raise because of its surroundings, at *)
(* any step.  An ended job may be started again.                           *)
(***************************************************************************)
EXTENDS ControlStore

CONSTANTS
    Run,    \* calls of run_process_batch
    Plan,   \* concurrencies, which determine the plan of a batch
    Torn    \* a file that was created and is not written yet

\* What a run says of each work, and the plan it was made for.
Records == [plan : Plan, result : UNION {[S -> [output : Output, ok : BOOLEAN]] : S \in SUBSET Work}]

ASSUME ProcessJobAssumption ==
    /\ Torn # None /\ Torn \notin Records /\ None \notin Records
    /\ Plan \subseteq Nat \ {0}

VARIABLES runs, staging

pvars == <<vars, runs, staging>>

Idle == [pc |-> "idle", batch |-> None, plan |-> 0, records |-> None,
         beat |-> "off", sequences |-> {}]
NoStaging == [records |-> None, marker |-> None]

PInit ==
    /\ Init
    /\ runs = [r \in Run |-> Idle]
    /\ staging = [b \in Batch |-> NoStaging]

Ended == {"done", "raised", "conflict"}

\* The marker is a digest of the records.
Complete(b) ==
    /\ staging[b].records \notin {None, Torn}
    /\ staging[b].marker = staging[b].records

Goto(r, from, to) ==
    /\ runs[r].pc = from
    /\ runs' = [runs EXCEPT ![r].pc = to]

\* The run ends without a result; the heartbeat thread ends with it.
Leave(r, from, to) ==
    /\ runs[r].pc \in from
    /\ runs' = [runs EXCEPT ![r] = [Idle EXCEPT !.pc = to]]

-----------------------------------------------------------------------------
(* Entering *)

\* process_batch_state does not raise for the rows of a live batch.
RowsAreLive(b) == \A w \in Members(b) : HoldsFence(b, w)

Admitted(b, plan, now) ==
    LptMakespan(Durations, Members(b), plan) * Factor + Margin * Speed
        < (batches[b].expires - now) * Speed

\* _load_process_context, plan_duration_lpt and admit_lease.
Start(r, b, plan) ==
    /\ runs[r].pc \in {"idle"} \cup Ended
    /\ batches[b].status # "NONE"
    /\ plan <= Cardinality(Members(b))
    /\ \E to \in {"resume", "load", "raised"} :
          /\ runs' = [runs EXCEPT ![r] = [Idle EXCEPT !.pc = to, !.batch = b, !.plan = plan]]
          /\ to = "resume" <=> batches[b].status = "COMMITTED"
          /\ to = "load" <=> Active(b) /\ RowsAreLive(b) /\ Admitted(b, plan, clock)
    /\ UNCHANGED <<vars, staging>>

\* (slip) records without their marker are good enough.
LoadRecords(r) ==
    LET b == runs[r].batch
    IN  /\ runs[r].pc = "load"
        /\ staging[b].records \notin {None, Torn}
        /\ staging[b].records.plan = runs[r].plan
        /\ runs' = [runs EXCEPT ![r].pc = "sealing fence",
                                ![r].records = staging[b].records]
        /\ UNCHANGED <<vars, staging>>

\* load_complete of a batch that is not committed.  Staged records must have
\* been made for the plan of this run.
LoadComplete(r) ==
    LET b == runs[r].batch
    IN  /\ runs[r].pc = "load"
        /\ Complete(b)
        /\ staging[b].records.plan = runs[r].plan
        /\ runs' = [runs EXCEPT ![r].pc = "sealing fence",
                                ![r].records = staging[b].records]
        /\ UNCHANGED <<vars, staging>>

LoadNothing(r) ==
    /\ Goto(r, "load", "enter")
    /\ staging[runs[r].batch] = NoStaging
    /\ UNCHANGED <<vars, staging>>

\* Partial staging, or records of another plan.
LoadConflict(r) ==
    LET b == runs[r].batch
    IN  /\ runs[r].pc = "load"
        /\ staging[b] # NoStaging
        /\ Complete(b) => staging[b].records.plan # runs[r].plan
        /\ Leave(r, {"load"}, "raised")
        /\ UNCHANGED <<vars, staging>>

-----------------------------------------------------------------------------
(* The heartbeat thread *)

\* __enter__ extends the lease once before the thread starts.
EnterHeartbeat(r, now) ==
    /\ runs[r].pc = "enter"
    /\ Heartbeat(runs[r].batch, now)
    /\ runs' = [runs EXCEPT ![r].pc = "execute", ![r].beat = "on"]
    /\ UNCHANGED staging

Beat(r, now) ==
    /\ runs[r].beat = "on"
    /\ Heartbeat(runs[r].batch, now)
    /\ UNCHANGED <<runs, staging>>

\* Any exception ends the thread and is kept for the main thread.
BeatFails(r) ==
    /\ runs[r].beat = "on"
    /\ runs' = [runs EXCEPT ![r].beat = "failed"]
    /\ UNCHANGED <<vars, staging>>

-----------------------------------------------------------------------------
(* Executing and staging *)

\* The harness returns one terminal record for each work; raise_if_failed.
Execute(r, result) ==
    /\ runs[r].pc = "execute"
    /\ runs[r].beat = "on"
    /\ runs' = [runs EXCEPT ![r].pc = "stage",
                            ![r].records = [plan |-> runs[r].plan, result |-> result]]
    /\ UNCHANGED <<vars, staging>>

\* write_records creates the attempt's place, or raises when there is one.
StageBegin(r) ==
    LET b == runs[r].batch
    IN  /\ Goto(r, "stage", "staging")
        /\ staging[b] = NoStaging
        /\ staging' = [staging EXCEPT ![b].records = Torn]
        /\ UNCHANGED vars

StageConflict(r) ==
    /\ Leave(r, {"stage"}, "raised")
    /\ staging[runs[r].batch] # NoStaging
    /\ UNCHANGED <<vars, staging>>

StageEnd(r) ==
    /\ Goto(r, "staging", "read")
    /\ staging' = [staging EXCEPT ![runs[r].batch].records = runs[r].records]
    /\ UNCHANGED vars

\* read_records and validation of what was read.
ReadBack(r) ==
    LET b == runs[r].batch
    IN  /\ runs[r].pc = "read"
        /\ staging[b].records \notin {None, Torn}
        /\ runs' = [runs EXCEPT ![r].pc = "marking fence",
                                ![r].records = staging[b].records]
        /\ UNCHANGED <<vars, staging>>

-----------------------------------------------------------------------------
(* assert_process_fence, three times *)

FenceHolds(b) ==
    \/ batches[b].status = "COMMITTED"
    \/ Active(b) /\ RowsAreLive(b) /\ batches[b].expires > clock

AfterFence == [pc \in {"marking fence", "sealing fence", "committing fence"} |->
    CASE pc = "marking fence" -> "mark"
      [] pc = "sealing fence" -> "seal"
      [] pc = "committing fence" -> "commit"]

AssertFence(r) ==
    /\ runs[r].pc \in DOMAIN AfterFence
    /\ FenceHolds(runs[r].batch)
    /\ Goto(r, runs[r].pc, AfterFence[runs[r].pc])
    /\ UNCHANGED <<vars, staging>>

FenceLost(r) ==
    /\ Leave(r, DOMAIN AfterFence, "raised")
    /\ ~FenceHolds(runs[r].batch)
    /\ UNCHANGED <<vars, staging>>

-----------------------------------------------------------------------------
(* create_success: create-only, and equal content is accepted *)

MarkBegin(r) ==
    LET b == runs[r].batch
        found == staging[b].marker
    IN  /\ runs[r].pc = "mark"
        /\ \/ /\ found = None
              /\ Goto(r, "mark", "marking")
              /\ staging' = [staging EXCEPT ![b].marker = Torn]
           \/ /\ found = runs[r].records
              /\ Goto(r, "mark", "exit")
              /\ UNCHANGED staging
           \/ /\ found \notin {None, runs[r].records}
              /\ Leave(r, {"mark"}, "raised")
              /\ UNCHANGED staging
        /\ UNCHANGED vars

MarkEnd(r) ==
    /\ Goto(r, "marking", "exit")
    /\ staging' = [staging EXCEPT ![runs[r].batch].marker = runs[r].records]
    /\ UNCHANGED vars

\* __exit__ joins the thread and raises what it kept.
ExitHeartbeat(r) ==
    /\ runs[r].pc = "exit"
    /\ IF runs[r].beat = "failed" THEN Leave(r, {"exit"}, "raised")
       ELSE runs' = [runs EXCEPT ![r].pc = "sealing fence", ![r].beat = "off"]
    /\ UNCHANGED <<vars, staging>>

-----------------------------------------------------------------------------
(* Seal and commit *)

SealedAs(b, result) ==
    /\ batches[b].status = "SEALED"
    /\ \A w \in Members(b) :
          attempts[b][w].output = result[w].output /\ attempts[b][w].ok = result[w].ok

SealStaged(r, now) ==
    /\ Goto(r, "seal", "committing fence")
    /\ Seal(runs[r].batch, runs[r].records.result, now)
    /\ UNCHANGED staging

SealAgain(r) ==
    /\ Goto(r, "seal", "committing fence")
    /\ SealedAs(runs[r].batch, runs[r].records.result)
    /\ UNCHANGED <<vars, staging>>

Sequences(pubs, b) == {p.seq : p \in {q \in pubs : q.batch = b}}

CommitSealed(r, now) ==
    LET b == runs[r].batch
    IN  /\ runs[r].pc = "commit"
        /\ Commit(b, now)
        /\ runs' = [runs EXCEPT ![r].pc = "done",
                                ![r].sequences = Sequences(publications', b)]
        /\ UNCHANGED staging

\* (slip) whatever is not sealed counts as committed.
CommitAgainUnsealed(r, from) ==
    LET b == runs[r].batch
    IN  /\ runs[r].pc = from
        /\ batches[b].status # "SEALED"
        /\ runs' = [runs EXCEPT ![r].pc = "done",
                                ![r].sequences = Sequences(publications, b)]
        /\ UNCHANGED <<vars, staging>>

\* commit_batch of a committed batch, by this run or by one that resumes.
CommitAgain(r, from) ==
    LET b == runs[r].batch
    IN  /\ runs[r].pc = from
        /\ batches[b].status = "COMMITTED"
        /\ runs' = [runs EXCEPT ![r].pc = "done",
                                ![r].sequences = Sequences(publications, b)]
        /\ UNCHANGED <<vars, staging>>

\* (slip) the records must be those of this run's plan.
ResumeOwnPlan(r) ==
    /\ runs[r].pc = "resume"
    /\ IF Complete(runs[r].batch) /\ staging[runs[r].batch].records.plan = runs[r].plan
       THEN Goto(r, "resume", "report")
       ELSE Leave(r, {"resume"}, "conflict")
    /\ UNCHANGED <<vars, staging>>

\* _resume_committed_process_batch: the plan is taken from the records.
Resume(r) ==
    /\ runs[r].pc = "resume"
    /\ IF Complete(runs[r].batch) THEN Goto(r, "resume", "report")
       ELSE Leave(r, {"resume"}, "conflict")
    /\ UNCHANGED <<vars, staging>>

-----------------------------------------------------------------------------
(* Failures *)

\* What heartbeat_process, seal_batch and commit_batch raise for.
Lost(b, status, now) ==
    ~(batches[b].status = status /\ batches[b].expires > now /\ RowsAreLive(b))

\* The store refuses a call, or the heartbeat thread has kept an exception.
Refused(r, now) ==
    LET b == runs[r].batch
    IN  /\ Leave(r, {"enter", "execute", "seal", "commit"}, "raised")
        /\ CASE runs[r].pc = "enter" -> Lost(b, "LEASED", now)
             [] runs[r].pc = "execute" -> runs[r].beat = "failed"
             [] runs[r].pc = "seal" -> /\ ~SealedAs(b, runs[r].records.result)
                                       /\ Lost(b, "LEASED", now)
             [] runs[r].pc = "commit" -> /\ batches[b].status # "COMMITTED"
                                         /\ Lost(b, "SEALED", now)
        /\ UNCHANGED <<vars, staging>>

\* Any other exception, of the harness, of storage or of the store, or the
\* death of the driver and its heartbeat thread.
Fail(r) ==
    /\ runs[r].pc # "idle"
    /\ Leave(r, {runs[r].pc} \ Ended, "raised")
    /\ UNCHANGED <<vars, staging>>

Step(r) ==
    \/ \E now \in ReadClock : \/ EnterHeartbeat(r, now) \/ SealStaged(r, now)
                             \/ CommitSealed(r, now) \/ Refused(r, now)
    \/ LoadComplete(r) \/ LoadNothing(r) \/ LoadConflict(r)
    \/ runs[r].pc = "execute" /\ \E result \in Results(runs[r].batch) : Execute(r, result)
    \/ StageBegin(r) \/ StageConflict(r) \/ StageEnd(r) \/ ReadBack(r)
    \/ AssertFence(r) \/ FenceLost(r)
    \/ MarkBegin(r) \/ MarkEnd(r) \/ ExitHeartbeat(r)
    \/ SealAgain(r) \/ CommitAgain(r, "commit") \/ CommitAgain(r, "report")
    \/ Resume(r)

\* The other users of the store: registration, dispatch and recovery.
Others ==
    /\ \/ \E w \in Work, c \in Content : RegisterMany({w}, [v \in {w} |-> c], [v \in {w} |-> clock], clock)
       \/ \E b \in Batch, call \in ClaimCall : Claim(b, call, clock)
       \/ Recover(clock)
       \/ Tick
    /\ UNCHANGED <<runs, staging>>

PNext ==
    \/ \E r \in Run :
          \/ \E b \in Batch, plan \in Plan : Start(r, b, plan)
          \/ \E now \in ReadClock : Beat(r, now)
          \/ BeatFails(r) \/ Step(r) \/ Fail(r)
    \/ Others

PSpec == PInit /\ [][PNext]_pvars

-----------------------------------------------------------------------------
(* Properties *)

\* Whatever was sealed, and so whatever may be published, is completely staged
\* with exactly these outputs and verdicts, although runs of the same batch
\* race, die half way and are repeated, and a fence check may be old when the
\* step it allows is taken.
SealedOutputIsStaged ==
    \A b \in Batch, w \in Work : attempts[b][w].output # None =>
        /\ staging[b].records \in Records
        /\ staging[b].marker = staging[b].records
        /\ staging[b].records.result[w] =
              [output |-> attempts[b][w].output, ok |-> attempts[b][w].ok]

\* A run that returns reports the publications of its batch, all of them, also
\* when another run committed it.
ReturnedRunReportsItsBatch ==
    \A r \in Run : runs[r].pc = "done" =>
        /\ batches[runs[r].batch].status = "COMMITTED"
        /\ runs[r].sequences = {p.seq : p \in {q \in publications : q.batch = runs[r].batch}}

\* A job started again after its batch was committed can always verify and
\* report the committed result.
CommittedBatchCanBeResumed == \A r \in Run : runs[r].pc # "conflict"

-----------------------------------------------------------------------------
(* The inductive invariant *)

Place == {"idle", "load", "enter", "execute", "stage", "staging", "read",
          "marking fence", "mark", "marking", "exit", "sealing fence", "seal",
          "committing fence", "commit", "resume", "report"} \cup Ended
RunRow == [pc : Place, batch : Batch \cup {None}, plan : Plan \cup {0},
           records : Records \cup {None}, beat : {"off", "on", "failed"},
           sequences : SUBSET Nat]
StagingRow == [records : Records \cup {None, Torn}, marker : Records \cup {None, Torn}]

PTypeOK ==
    /\ clock \in 0..MaxTime
    /\ runs \in [Run -> RunRow]
    /\ staging \in [Batch -> StagingRow]

\* Where a run's records are those of the staging area, and where it has seen
\* their marker.
Holding == {"marking fence", "mark", "marking", "exit", "sealing fence", "seal",
            "committing fence", "commit"}
Verified == {"exit", "sealing fence", "seal", "committing fence", "commit"}

\* What a run knows at each step is still so, whatever the others did since.
RunKnows(r) ==
    LET b == runs[r].batch
    IN  /\ runs[r].pc \notin {"idle", "raised"} \/ runs[r].beat # "off" =>
              b \in Batch /\ runs[r].plan \in Plan
        /\ runs[r].pc \in {"stage", "staging"} => runs[r].records \in Records
        /\ runs[r].pc = "staging" => staging[b].records = Torn
        /\ runs[r].pc \in Holding =>
              runs[r].records \in Records /\ staging[b].records = runs[r].records
        /\ runs[r].pc = "marking" => staging[b].marker = Torn
        /\ runs[r].pc \in Verified => staging[b].marker = runs[r].records
        /\ runs[r].pc \in {"resume", "report"} => batches[b].status = "COMMITTED"

\* One run at a time writes the records of a batch, or its marker.
OneWriter ==
    \A r, s \in Run :
        /\ runs[r].batch = runs[s].batch
        /\ runs[r].pc = runs[s].pc
        /\ runs[r].pc \in {"staging", "marking"}
        => r = s

\* A batch that is sealed is completely staged.
SealedIsComplete ==
    \A b \in Batch : batches[b].status \in {"SEALED", "COMMITTED"} => Complete(b)

PInv ==
    /\ PTypeOK
    /\ \A r \in Run : RunKnows(r)
    /\ OneWriter
    /\ SealedIsComplete
    /\ SealedOutputIsStaged
    /\ ReturnedRunReportsItsBatch
    /\ CommittedBatchCanBeResumed
=============================================================================
