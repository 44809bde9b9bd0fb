-------------------------- MODULE ProcessJobProofs --------------------------
(***************************************************************************)
(* Proofs about ProcessJob: runs of the process job use the control store  *)
(* through its operations only, and seal, publish and report what is       *)
(* staged, for any runs, plans, works, batches and outputs.                *)
(***************************************************************************)
EXTENDS ProcessJob, PublicationProofs

(* The store, as runs see it *)

\* What a step of the store leaves alone when it is not a seal: it seals
\* nothing, changes no sealed output and adds nothing to a committed batch.
SealsNothing ==
    /\ \A b \in Batch : batches'[b].status \in {"SEALED", "COMMITTED"} =>
          batches[b].status \in {"SEALED", "COMMITTED"}
    /\ \A b \in Batch, w \in Work : attempts'[b][w].output # None =>
          /\ attempts[b][w].output = attempts'[b][w].output
          /\ attempts[b][w].ok = attempts'[b][w].ok

\* A committed batch stays committed, with the publications it has.
CommittedStays ==
    \A b \in Batch : batches[b].status = "COMMITTED" =>
        /\ batches'[b].status = "COMMITTED"
        /\ Sequences(publications', b) = Sequences(publications, b)

\* Rows are rows.
LEMMA Rows ==
    ASSUME TypeOK
    PROVE  /\ \A w \in Work : work[w] \in WorkRow
           /\ \A b \in Batch : batches[b] \in BatchRow /\ Members(b) \subseteq Work
           /\ \A b \in Batch, w \in Work : attempts[b][w] \in AttemptRow
  BY DEF TypeOK, BatchRow, Members

\* register, claim, heartbeat and recover seal nothing.
LEMMA OthersSealNothing ==
    ASSUME IInv, NEW now,
           \/ \E S \in SUBSET Work : \E request, at : RegisterMany(S, request, at, now)
           \/ \E b \in Batch, call \in ClaimCall : Claim(b, call, now)
           \/ \E b \in Batch : Heartbeat(b, now)
           \/ Recover(now)
           \/ Tick
    PROVE  SealsNothing /\ publications' = publications
  <1>1. TypeOK /\ \A b \in Batch, w \in Work : attempts[b][w] \in AttemptRow
    BY Rows DEF IInv
  <1>2. \A b \in Batch : batches[b] \in BatchRow
    BY <1>1, Rows
  <1>3. CASE UNCHANGED <<batches, attempts, publications>>
    BY <1>3 DEF SealsNothing
  <1>4. ASSUME NEW b \in Batch, NEW call \in ClaimCall, Claim(b, call, now)
        PROVE  SealsNothing /\ publications' = publications
    <2>1. /\ publications' = publications
          /\ batches'[b].status = "LEASED"
          /\ \A c \in Batch \ {b} : batches'[c] = batches[c] /\ attempts'[c] = attempts[c]
      BY <1>1, <1>4 DEF Claim, TypeOK
    <2>2. \A w \in Work : attempts'[b][w].output = None
      BY <1>1, <1>4 DEF Claim, TypeOK, NoAttempt
    <2> QED BY <2>1, <2>2 DEF SealsNothing
  <1>5. ASSUME NEW b \in Batch, Heartbeat(b, now)
        PROVE  SealsNothing /\ publications' = publications
    <2> DEFINE e == Extended(b, now)
    <2>1. /\ publications' = publications
          /\ batches' = [batches EXCEPT ![b].expires = e]
          /\ \A c \in Batch \ {b} : attempts'[c] = attempts[c]
          /\ attempts'[b] = [w \in Work |-> IF attempts[b][w].status = "LEASED"
                                            THEN [attempts[b][w] EXCEPT !.expires = e]
                                            ELSE attempts[b][w]]
      BY <1>1, <1>5 DEF Heartbeat, TypeOK
    <2> HIDE DEF e
    <2>2. \A w \in Work : /\ attempts'[b][w].output = attempts[b][w].output
                          /\ attempts'[b][w].ok = attempts[b][w].ok
      BY <1>1, <2>1 DEF AttemptRow
    <2>3. \A c \in Batch : batches'[c].status = batches[c].status
      BY <1>1, <1>2, <2>1 DEF BatchRow, TypeOK
    <2> QED BY <2>1, <2>2, <2>3 DEF SealsNothing
  <1>6. CASE Recover(now)
    <2>1. ASSUME NEW b \in Batch, NEW w \in Work
          PROVE  /\ attempts'[b][w].output = attempts[b][w].output
                 /\ attempts'[b][w].ok = attempts[b][w].ok
      <3>1. \/ attempts'[b][w] = attempts[b][w]
            \/ attempts'[b][w] = [attempts[b][w] EXCEPT !.status = "EXPIRED"]
        BY <1>6 DEF Recover
      <3> QED BY <1>1, <3>1 DEF AttemptRow
    <2>2. ASSUME NEW b \in Batch
          PROVE  batches'[b].status \in {"SEALED", "COMMITTED"} =>
                    batches'[b].status = batches[b].status
      <3>1. \/ batches'[b] = batches[b]
            \/ batches'[b] = [batches[b] EXCEPT !.status = "EXPIRED"]
        BY <1>6 DEF Recover
      <3> QED BY <1>2, <3>1 DEF BatchRow
    <2> QED BY <1>6, <2>1, <2>2 DEF SealsNothing, Recover
  <1>7. CASE Tick
    BY <1>3, <1>7 DEF Tick
  <1>8. ASSUME NEW S \in SUBSET Work, NEW request, NEW at, RegisterMany(S, request, at, now)
        PROVE  SealsNothing /\ publications' = publications
    BY <1>3, <1>8 DEF RegisterMany
  <1> QED BY <1>4, <1>5, <1>6, <1>7, <1>8

\* A commit publishes under its own batch only and seals nothing.
LEMMA CommitSealsNothing ==
    ASSUME IInv, NEW b \in Batch, NEW now \in Nat, Commit(b, now)
    PROVE  /\ SealsNothing
           /\ batches[b].status = "SEALED" /\ batches'[b].status = "COMMITTED"
           /\ \A p \in publications' \ publications : p.batch = b
           /\ publications \subseteq publications'
  <1>1. TypeOK /\ \A c \in Batch, w \in Work : attempts[c][w] \in AttemptRow
    BY Rows DEF IInv
  <1>2. ASSUME NEW w \in Work
        PROVE  /\ attempts'[b][w].output = attempts[b][w].output
               /\ attempts'[b][w].ok = attempts[b][w].ok
    <2>1. \/ attempts'[b][w] = attempts[b][w]
          \/ attempts'[b][w] = [attempts[b][w] EXCEPT !.status = "SUCCEEDED"]
          \/ attempts'[b][w] = [attempts[b][w] EXCEPT !.status = "FAILED"]
      BY <1>1 DEF Commit, TypeOK
    <2> QED BY <1>1, <2>1 DEF AttemptRow
  <1>3. SealsNothing
    BY <1>2, CommitRows DEF SealsNothing
  <1>4. /\ \A p \in publications' \ publications : p.batch = b
        /\ publications \subseteq publications'
    <2> DEFINE good == {w \in Members(b) : attempts[b][w].ok}
               row(w) == [seq |-> SeqOf(good, w), work |-> w, batch |-> b,
                          output |-> attempts[b][w].output]
    <2>1. publications' = publications \cup {row(w) : w \in good}
      BY DEF Commit
    <2>2. \A w \in good : row(w).batch = b
      OBVIOUS
    <2> HIDE DEF good, row
    <2> QED BY <2>1, <2>2
  <1> QED BY <1>3, <1>4, CommitRows

\* Every step of the store keeps what committed batches have published.
LEMMA StoreKeepsCommitted ==
    ASSUME IInv, PublishedExactlyOnce, [Next]_vars,
           \/ publications' = publications
           \/ \E b \in Batch, now \in Nat : Commit(b, now)
    PROVE  CommittedStays
  <1>1. \A b \in Batch : batches[b].status = "COMMITTED" => batches'[b] = batches[b]
    BY NextPublishes DEF HistoryKept, BatchKept
  <1>2. ASSUME NEW b \in Batch, NEW now \in Nat, Commit(b, now),
               NEW c \in Batch, batches[c].status = "COMMITTED"
        PROVE  Sequences(publications', c) = Sequences(publications, c)
    <2>1. c # b
      BY <1>2, CommitSealsNothing
    <2>2. \A p : p \in publications' /\ p.batch = c <=> p \in publications /\ p.batch = c
      BY <1>2, <2>1, CommitSealsNothing
    <2> QED BY <2>2 DEF Sequences
  <1>3. ASSUME publications' = publications, NEW c \in Batch
        PROVE  Sequences(publications', c) = Sequences(publications, c)
    BY <1>3 DEF Sequences
  <1> QED BY <1>1, <1>2, <1>3 DEF CommittedStays

(* A run uses the store through its operations *)

\* Records are whole: they are neither missing nor being written.
LEMMA RecordsAreWhole == None \notin Records /\ Torn \notin Records /\ Torn # None
  BY ProcessJobAssumption

\* What a run stages is a result for the members of its batch.
LEMMA RecordsAreResults ==
    ASSUME NEW b \in Batch, NEW rec \in Records, DOMAIN rec.result = Members(b)
    PROVE  rec.result \in Results(b)
  <1>1. PICK S \in SUBSET Work : rec.result \in [S -> [output : Output, ok : BOOLEAN]]
    BY DEF Records
  <1> QED BY <1>1 DEF Results

\* The times a run works with are times of the store.
LEMMA RunTimes ==
    ASSUME IInv, PTypeOK
    PROVE  ReadClock \subseteq Nat /\ clock \in ReadClock /\ clock \in 0..MaxTime
  BY ControlStoreAssumption DEF ReadClock, PTypeOK

\* Every step of a run, and of the others, is a step of the store or none.
LEMMA PNextIsNext ==
    ASSUME IInv, PInv, [PNext]_pvars
    PROVE  [Next]_vars
  <1>1. /\ PTypeOK /\ \A r \in Run : RunKnows(r)
        /\ ReadClock \subseteq Nat /\ clock \in ReadClock /\ clock \in 0..MaxTime
    BY RunTimes DEF PInv
  <1>2. CASE UNCHANGED vars
    BY <1>2
  <1>3. ASSUME NEW r \in Run, NEW now \in ReadClock, EnterHeartbeat(r, now) \/ Beat(r, now)
        PROVE  Next
    <2>1. runs[r].batch \in Batch /\ Heartbeat(runs[r].batch, now)
      BY <1>1, <1>3 DEF EnterHeartbeat, Beat, RunKnows
    <2> QED BY <2>1 DEF Next
  <1>4. ASSUME NEW r \in Run, NEW now \in ReadClock, SealStaged(r, now)
        PROVE  Next
    <2>1. /\ runs[r].batch \in Batch /\ runs[r].records \in Records
          /\ Seal(runs[r].batch, runs[r].records.result, now)
      BY <1>1, <1>4 DEF SealStaged, Goto, RunKnows, Holding
    <2>2. runs[r].records.result \in Results(runs[r].batch)
      BY <2>1, RecordsAreResults DEF Seal
    <2> QED BY <2>1, <2>2 DEF Next
  <1>5. ASSUME NEW r \in Run, NEW now \in ReadClock, CommitSealed(r, now)
        PROVE  Next
    <2>1. runs[r].batch \in Batch /\ Commit(runs[r].batch, now)
      BY <1>1, <1>5 DEF CommitSealed, RunKnows
    <2> QED BY <2>1 DEF Next
  <1>6. CASE Others
    <2>1. ASSUME NEW w \in Work, NEW c \in Content,
                 RegisterMany({w}, [v \in {w} |-> c], [v \in {w} |-> clock], clock)
          PROVE  Next
      <3>1. /\ {w} \in SUBSET Work
            /\ [v \in {w} |-> c] \in [{w} -> Content]
            /\ [v \in {w} |-> clock] \in [{w} -> Available \cup {clock}]
        OBVIOUS
      <3> QED BY <1>1, <2>1, <3>1 DEF Next
    <2>2. ASSUME NEW b \in Batch, NEW call \in ClaimCall, Claim(b, call, clock)
          PROVE  Next
      BY <1>1, <2>2 DEF Next
    <2>3. Recover(clock) => Next
      BY <1>1 DEF Next
    <2>4. Tick => Next
      BY DEF Next
    <2> QED BY <1>6, <2>1, <2>2, <2>3, <2>4 DEF Others
  <1>7. CASE UNCHANGED pvars
    BY <1>2, <1>7 DEF pvars
  <1>8. ASSUME NEW r \in Run, Step(r)
        PROVE  [Next]_vars
    BY <1>2, <1>3, <1>4, <1>5, <1>8
       DEF Step, Refused, LoadComplete, LoadNothing, LoadConflict, Execute, StageBegin,
           StageConflict, StageEnd, ReadBack, AssertFence, FenceLost, MarkBegin, MarkEnd,
           ExitHeartbeat, SealAgain, CommitAgain, Resume
  <1>9. ASSUME NEW r \in Run,
               (\E b \in Batch, plan \in Plan : Start(r, b, plan)) \/ BeatFails(r) \/ Fail(r)
        PROVE  [Next]_vars
    BY <1>2, <1>9 DEF Start, BeatFails, Fail
  <1> QED BY <1>3, <1>6, <1>7, <1>8, <1>9 DEF PNext

(* What a step of the store or of a run leaves true *)

Reports(r) ==
    /\ batches[runs[r].batch].status = "COMMITTED"
    /\ runs[r].sequences = Sequences(publications, runs[r].batch)

\* A step that does not touch the store seals nothing and keeps what is committed.
LEMMA QuietStore ==
    ASSUME UNCHANGED vars
    PROVE  SealsNothing /\ CommittedStays
  BY DEF vars, SealsNothing, CommittedStays

\* What the store promises holds after a step that seals nothing.
LEMMA StoreStaysStaged ==
    ASSUME PInv, SealsNothing, staging' = staging
    PROVE  SealedIsComplete' /\ SealedOutputIsStaged'
  <1>1. SealedIsComplete'
    BY DEF PInv, SealedIsComplete, SealsNothing, Complete
  <1>2. SealedOutputIsStaged'
    <2> SUFFICES ASSUME NEW b \in Batch, NEW w \in Work, attempts'[b][w].output # None
                 PROVE  /\ staging[b].records \in Records
                        /\ staging[b].marker = staging[b].records
                        /\ staging[b].records.result[w] =
                              [output |-> attempts'[b][w].output, ok |-> attempts'[b][w].ok]
      BY DEF SealedOutputIsStaged
    <2>1. /\ attempts[b][w].output = attempts'[b][w].output
          /\ attempts[b][w].ok = attempts'[b][w].ok
      BY DEF SealsNothing
    <2> QED BY <2>1 DEF PInv, SealedOutputIsStaged
  <1> QED BY <1>1, <1>2

\* A run that did not move still knows what it knew.
LEMMA BystanderKnows ==
    ASSUME PInv, CommittedStays, staging' = staging, NEW s \in Run, runs'[s] = runs[s]
    PROVE  /\ RunKnows(s)'
           /\ runs[s].pc = "done" => Reports(s)'
  <1>1. RunKnows(s) /\ (runs[s].pc = "done" => Reports(s) /\ runs[s].batch \in Batch)
    BY DEF PInv, RunKnows, ReturnedRunReportsItsBatch, Reports, Sequences
  <1>2. RunKnows(s)'
    BY <1>1 DEF RunKnows, CommittedStays
  <1> QED BY <1>1, <1>2 DEF Reports, CommittedStays

\* A step of the store alone.
LEMMA StoreStep ==
    ASSUME PInv, PTypeOK', SealsNothing, CommittedStays, UNCHANGED <<runs, staging>>
    PROVE  PInv'
  <1>1. \A s \in Run : RunKnows(s)' /\ (runs[s].pc = "done" => Reports(s)')
    BY BystanderKnows
  <1>2. OneWriter' /\ CommittedBatchCanBeResumed'
    BY DEF PInv, OneWriter, CommittedBatchCanBeResumed
  <1>3. ReturnedRunReportsItsBatch'
    BY <1>1 DEF ReturnedRunReportsItsBatch, Reports, Sequences
  <1> QED BY <1>1, <1>2, <1>3, StoreStaysStaged DEF PInv

\* A step of one run that seals nothing and stages nothing.
LEMMA RunStep ==
    ASSUME PInv, PTypeOK', SealsNothing, CommittedStays, staging' = staging,
           NEW r \in Run, \A s \in Run \ {r} : runs'[s] = runs[s], RunKnows(r)',
           runs'[r].pc \in {"staging", "marking"} =>
              runs'[r].pc = runs[r].pc /\ runs'[r].batch = runs[r].batch,
           runs'[r].pc # "conflict",
           runs'[r].pc = "done" => Reports(r)'
    PROVE  PInv'
  <1>1. \A s \in Run : RunKnows(s)' /\ (runs'[s].pc = "done" => Reports(s)')
    BY BystanderKnows
  <1>2. OneWriter'
    BY DEF PInv, OneWriter
  <1>3. CommittedBatchCanBeResumed'
    BY DEF PInv, CommittedBatchCanBeResumed
  <1>4. ReturnedRunReportsItsBatch'
    BY <1>1 DEF ReturnedRunReportsItsBatch, Reports, Sequences
  <1> QED BY <1>1, <1>2, <1>3, <1>4, StoreStaysStaged DEF PInv

(* The steps of a run *)

\* A run that moves on keeps all but its place.
LEMMA GotoRow ==
    ASSUME PTypeOK, NEW r \in Run, NEW from, NEW to \in Place, Goto(r, from, to)
    PROVE  /\ runs' \in [Run -> RunRow]
           /\ \A s \in Run \ {r} : runs'[s] = runs[s]
           /\ runs[r].pc = from
           /\ runs'[r].pc = to
           /\ runs'[r].batch = runs[r].batch
           /\ runs'[r].plan = runs[r].plan
           /\ runs'[r].records = runs[r].records
           /\ runs'[r].beat = runs[r].beat
  <1>1. runs[r] \in RunRow /\ runs' = [runs EXCEPT ![r].pc = to] /\ runs[r].pc = from
    BY DEF PTypeOK, Goto
  <1>2. runs' = [runs EXCEPT ![r] = [runs[r] EXCEPT !.pc = to]]
    BY <1>1
  <1>3. [runs[r] EXCEPT !.pc = to] \in RunRow
    BY <1>1 DEF RunRow
  <1>4. runs' \in [Run -> RunRow] /\ runs'[r] = [runs[r] EXCEPT !.pc = to]
    BY <1>2, <1>3 DEF PTypeOK
  <1> QED BY <1>1, <1>2, <1>4 DEF PTypeOK, RunRow

\* A run that has not started is a run.
LEMMA IdleRow == Idle \in RunRow
  <1>1. {} \in SUBSET Nat /\ "off" \in {"off", "on", "failed"} /\ "idle" \in Place
    BY DEF Place
  <1> QED BY <1>1 DEF Idle, RunRow

\* A run that gives up knows nothing any more.
LEMMA LeaveStep ==
    ASSUME PInv, NEW r \in Run, NEW from, Leave(r, from, "raised"), UNCHANGED <<vars, staging>>
    PROVE  PInv'
  <1> DEFINE row == [Idle EXCEPT !.pc = "raised"]
  <1>1. row \in RunRow /\ row.pc = "raised" /\ row.beat = "off"
    BY IdleRow DEF RunRow, Idle, Place, Ended
  <1>2. runs' = [runs EXCEPT ![r] = row]
    BY DEF Leave
  <1> HIDE DEF row
  <1>3. runs' \in [Run -> RunRow] /\ runs'[r] = row /\ \A s \in Run \ {r} : runs'[s] = runs[s]
    BY <1>1, <1>2 DEF PInv, PTypeOK
  <1>4. PTypeOK'
    BY <1>3 DEF PInv, PTypeOK, vars
  <1>5. RunKnows(r)'
    BY <1>1, <1>3 DEF RunKnows, Holding, Verified
  <1>6. SealsNothing /\ CommittedStays
    BY QuietStore
  <1> QED BY <1>1, <1>3, <1>4, <1>5, <1>6, RunStep

\* A run that moves to a place where it knows no more than it did.
LEMMA GotoStep ==
    ASSUME PInv, NEW r \in Run, NEW from, NEW to \in Place, Goto(r, from, to),
           UNCHANGED staging, SealsNothing, CommittedStays, clock' = clock,
           from \notin {"idle", "raised"}, to \notin {"staging", "marking", "conflict", "done"},
           RunKnows(r) => RunKnows(r)'
    PROVE  PInv'
  <1>1. PTypeOK /\ RunKnows(r)
    BY DEF PInv
  <1>2. runs' \in [Run -> RunRow] /\ runs'[r].pc = to /\ \A s \in Run \ {r} : runs'[s] = runs[s]
    BY <1>1, GotoRow
  <1>3. PTypeOK'
    BY <1>1, <1>2 DEF PTypeOK
  <1> QED BY <1>1, <1>2, <1>3, RunStep

\* Entering: a new run knows the status of its batch and nothing else.
LEMMA StartStep ==
    ASSUME PInv, NEW r \in Run, NEW b \in Batch, NEW plan \in Plan, Start(r, b, plan)
    PROVE  PInv'
  <1>1. PICK to \in {"resume", "load", "raised"} :
            /\ runs' = [runs EXCEPT ![r] = [Idle EXCEPT !.pc = to, !.batch = b, !.plan = plan]]
            /\ to = "resume" <=> batches[b].status = "COMMITTED"
    BY DEF Start
  <1> DEFINE row == [Idle EXCEPT !.pc = to, !.batch = b, !.plan = plan]
  <1>2. row \in RunRow /\ row.pc = to /\ row.batch = b /\ row.plan = plan
    BY IdleRow DEF RunRow, Idle, Place, Ended
  <1>3. runs' = [runs EXCEPT ![r] = row]
    BY <1>1
  <1> HIDE DEF row
  <1>4. runs' \in [Run -> RunRow] /\ runs'[r] = row /\ \A s \in Run \ {r} : runs'[s] = runs[s]
    BY <1>2, <1>3 DEF PInv, PTypeOK
  <1>5. UNCHANGED <<vars, staging>> /\ batches' = batches /\ clock' = clock
    BY DEF Start, vars
  <1>6. PTypeOK'
    BY <1>4, <1>5 DEF PInv, PTypeOK
  <1>7. RunKnows(r)'
    BY <1>1, <1>2, <1>4, <1>5 DEF RunKnows, Holding, Verified
  <1> QED BY <1>2, <1>4, <1>5, <1>6, <1>7, RunStep, QuietStore

\* A run that takes records over from the staging area or from the harness.
LEMMA RecordsStep ==
    ASSUME PInv, NEW r \in Run, NEW rec \in Records, NEW to \in Place,
           UNCHANGED <<vars, staging>>,
           runs' = [runs EXCEPT ![r].pc = to, ![r].records = rec],
           runs[r].pc \in {"load", "execute", "read"},
           \/ to = "stage"
           \/ to = "marking fence" /\ staging[runs[r].batch].records = rec
           \/ /\ to = "sealing fence"
              /\ staging[runs[r].batch].records = rec
              /\ staging[runs[r].batch].marker = rec
    PROVE  PInv'
  <1>1. PTypeOK /\ RunKnows(r) /\ runs[r] \in RunRow /\ clock' = clock
    BY DEF PInv, PTypeOK, vars
  <1> DEFINE row == [runs[r] EXCEPT !.pc = to, !.records = rec]
  <1>2. /\ row \in RunRow /\ row.pc = to /\ row.batch = runs[r].batch
        /\ row.plan = runs[r].plan /\ row.records = rec
    BY <1>1 DEF RunRow
  <1>3. runs' = [runs EXCEPT ![r] = row]
    BY <1>1 DEF PTypeOK
  <1> HIDE DEF row
  <1>4. runs' \in [Run -> RunRow] /\ runs'[r] = row /\ \A s \in Run \ {r} : runs'[s] = runs[s]
    BY <1>1, <1>2, <1>3 DEF PTypeOK
  <1>5. PTypeOK'
    BY <1>1, <1>4 DEF PTypeOK
  <1>6. RunKnows(r)'
    BY <1>1, <1>2, <1>4 DEF RunKnows, Holding, Verified
  <1> QED BY <1>2, <1>4, <1>5, <1>6, RunStep, QuietStore

\* Loading, executing and reading back.
LEMMA RecordsStaged ==
    ASSUME PInv, TypeOK, NEW r \in Run,
           \/ LoadComplete(r)
           \/ runs[r].pc = "execute" /\ \E result \in Results(runs[r].batch) : Execute(r, result)
           \/ ReadBack(r)
    PROVE  PInv'
  <1> DEFINE b == runs[r].batch
  <1>1. PTypeOK /\ RunKnows(r)
    BY DEF PInv
  <1>2. CASE LoadComplete(r)
    <2>1. b \in Batch
      BY <1>1, <1>2 DEF LoadComplete, RunKnows
    <2>2. staging[b].records \in Records /\ staging[b].marker = staging[b].records
      BY <1>1, <1>2, <2>1 DEF LoadComplete, Complete, PTypeOK, StagingRow
    <2>3. /\ UNCHANGED <<vars, staging>> /\ runs[r].pc = "load"
          /\ runs' = [runs EXCEPT ![r].pc = "sealing fence", ![r].records = staging[b].records]
      BY <1>2 DEF LoadComplete
    <2> QED BY <2>2, <2>3, RecordsStep DEF Place
  <1>3. ASSUME runs[r].pc = "execute", NEW result \in Results(b), Execute(r, result)
        PROVE  PInv'
    <2> DEFINE rec == [plan |-> runs[r].plan, result |-> result]
    <2>1. b \in Batch /\ runs[r].plan \in Plan
      BY <1>1, <1>3 DEF RunKnows
    <2>2. result \in UNION {[S -> [output : Output, ok : BOOLEAN]] : S \in SUBSET Work}
      BY <2>1, Rows DEF Results
    <2>3. rec \in Records
      BY <2>1, <2>2 DEF Records
    <2>4. /\ UNCHANGED <<vars, staging>> /\ runs[r].pc = "execute"
          /\ runs' = [runs EXCEPT ![r].pc = "stage", ![r].records = rec]
      BY <1>3 DEF Execute
    <2> HIDE DEF rec
    <2> QED BY <2>3, <2>4, RecordsStep DEF Place
  <1>4. CASE ReadBack(r)
    <2>1. b \in Batch
      BY <1>1, <1>4 DEF ReadBack, RunKnows
    <2>2. staging[b].records \in Records
      BY <1>1, <1>4, <2>1 DEF ReadBack, PTypeOK, StagingRow
    <2>3. /\ UNCHANGED <<vars, staging>> /\ runs[r].pc = "read"
          /\ runs' = [runs EXCEPT ![r].pc = "marking fence", ![r].records = staging[b].records]
      BY <1>4 DEF ReadBack
    <2> QED BY <2>2, <2>3, RecordsStep DEF Place
  <1> QED BY <1>2, <1>3, <1>4

\* A run that only moves on, the store and the staging area being as they were,
\* to a place where it needs to know no more.
LEMMA GoesOn ==
    ASSUME PInv, NEW r \in Run, NEW from \in Place, NEW to \in Place,
           Goto(r, from, to), UNCHANGED <<vars, staging>>,
           \/ from = "load" /\ to = "enter"
           \/ from = "marking fence" /\ to = "mark"
           \/ from = "sealing fence" /\ to = "seal"
           \/ from = "committing fence" /\ to = "commit"
           \/ from = "seal" /\ to = "committing fence"
           \/ from = "resume" /\ to = "report"
    PROVE  PInv'
  <1>1. PTypeOK /\ RunKnows(r)
    BY DEF PInv
  <1>2. /\ runs[r].pc = from /\ runs'[r].pc = to
        /\ runs'[r].batch = runs[r].batch /\ runs'[r].plan = runs[r].plan
        /\ runs'[r].records = runs[r].records /\ runs'[r].beat = runs[r].beat
    BY <1>1, GotoRow
  <1>3. staging' = staging /\ batches' = batches
    BY DEF vars
  <1>4. /\ from \in {"load", "marking fence", "sealing fence", "committing fence", "seal", "resume"}
        /\ to \in {"enter", "mark", "seal", "commit", "committing fence", "report"}
        /\ to \in Holding => from \in Holding
        /\ to \in Verified => from \in Verified
        /\ to = "report" => from = "resume"
    BY DEF Holding, Verified
  <1>5. RunKnows(r)'
    BY <1>1, <1>2, <1>3, <1>4 DEF RunKnows
  <1>6. from \notin {"idle", "raised"} /\ to \notin {"staging", "marking", "conflict", "done"}
    OBVIOUS
  <1> QED BY <1>5, <1>6, GotoStep, QuietStore DEF vars

\* The steps that do so.
LEMMA MovesOn ==
    ASSUME PInv, NEW r \in Run,
           LoadNothing(r) \/ AssertFence(r) \/ SealAgain(r) \/ Resume(r)
    PROVE  PInv'
  <1>1. PTypeOK /\ RunKnows(r) /\ SealedIsComplete
    BY DEF PInv
  <1> {"load", "enter", "marking fence", "mark", "sealing fence", "seal",
       "committing fence", "commit", "resume", "report"} \subseteq Place
    BY DEF Place
  <1>2. CASE LoadNothing(r)
    <2>1. Goto(r, "load", "enter") /\ UNCHANGED <<vars, staging>>
      BY <1>2 DEF LoadNothing
    <2> QED BY <2>1, GoesOn
  <1>3. ASSUME AssertFence(r), NEW from \in DOMAIN AfterFence, runs[r].pc = from
        PROVE  PInv'
    <2>1. Goto(r, from, AfterFence[from]) /\ UNCHANGED <<vars, staging>>
      BY <1>3 DEF AssertFence
    <2>2. \/ from = "marking fence" /\ AfterFence[from] = "mark"
          \/ from = "sealing fence" /\ AfterFence[from] = "seal"
          \/ from = "committing fence" /\ AfterFence[from] = "commit"
      BY <1>3 DEF AfterFence
    <2> QED BY <2>1, <2>2, GoesOn
  <1>4. CASE SealAgain(r)
    <2>1. Goto(r, "seal", "committing fence") /\ UNCHANGED <<vars, staging>>
      BY <1>4 DEF SealAgain
    <2> QED BY <2>1, GoesOn
  <1>5. CASE Resume(r)
    <2>1. Complete(runs[r].batch)
      BY <1>1, <1>5 DEF Resume, RunKnows, SealedIsComplete
    <2>2. Goto(r, "resume", "report") /\ UNCHANGED <<vars, staging>>
      BY <1>5, <2>1 DEF Resume
    <2> QED BY <2>2, GoesOn
  <1> QED BY <1>2, <1>3, <1>4, <1>5 DEF AssertFence

\* A run whose heartbeat thread starts, fails or is joined.
LEMMA BeatStep ==
    ASSUME PInv, NEW r \in Run, NEW to \in Place, NEW beat \in {"off", "on", "failed"},
           runs' = [runs EXCEPT ![r].pc = to, ![r].beat = beat],
           UNCHANGED staging, SealsNothing, CommittedStays, clock' = clock,
           \/ runs[r].pc = "enter" /\ to = "execute"
           \/ runs[r].pc = "exit" /\ to = "sealing fence"
           \/ to = runs[r].pc /\ runs[r].beat # "off"
    PROVE  PInv'
  <1>1. PTypeOK /\ RunKnows(r) /\ runs[r] \in RunRow
    BY DEF PInv, PTypeOK
  <1> DEFINE row == [runs[r] EXCEPT !.pc = to, !.beat = beat]
  <1>2. /\ row \in RunRow /\ row.pc = to /\ row.batch = runs[r].batch
        /\ row.plan = runs[r].plan /\ row.records = runs[r].records
        /\ row.sequences = runs[r].sequences
    BY <1>1 DEF RunRow
  <1>3. runs' = [runs EXCEPT ![r] = row]
    BY <1>1 DEF PTypeOK
  <1> HIDE DEF row
  <1>4. runs' \in [Run -> RunRow] /\ runs'[r] = row /\ \A s \in Run \ {r} : runs'[s] = runs[s]
    BY <1>1, <1>2, <1>3 DEF PTypeOK
  <1>5. PTypeOK'
    BY <1>1, <1>4 DEF PTypeOK
  <1>6. RunKnows(r)'
    BY <1>1, <1>2, <1>4 DEF RunKnows, Holding, Verified, CommittedStays
  <1>7. to # "conflict" /\ (to = "done" => runs[r].pc = "done" /\ Reports(r))
    BY DEF PInv, CommittedBatchCanBeResumed, ReturnedRunReportsItsBatch, Reports, Sequences
  <1>8. runs'[r].pc = "done" => Reports(r)'
    BY <1>1, <1>2, <1>4, <1>7 DEF Reports, CommittedStays, RunKnows
  <1> QED BY <1>2, <1>4, <1>5, <1>6, <1>7, <1>8, RunStep

\* __enter__, a beat, a failing beat and __exit__.
LEMMA HeartbeatSteps ==
    ASSUME IInv, PublishedExactlyOnce, PInv, NEW r \in Run, [Next]_vars,
           \/ \E now \in ReadClock : EnterHeartbeat(r, now) \/ Beat(r, now)
           \/ BeatFails(r) \/ ExitHeartbeat(r)
    PROVE  PInv'
  <1>1. PTypeOK /\ RunKnows(r) /\ runs[r] \in RunRow
    BY DEF PInv, PTypeOK
  <1>2. ASSUME NEW now \in ReadClock, EnterHeartbeat(r, now)
        PROVE  PInv'
    <2>1. runs[r].batch \in Batch /\ Heartbeat(runs[r].batch, now)
      BY <1>1, <1>2 DEF EnterHeartbeat, RunKnows
    <2>2. SealsNothing /\ publications' = publications
      BY <2>1, OthersSealNothing
    <2>3. CommittedStays /\ clock' = clock
      BY <2>1, <2>2, StoreKeepsCommitted DEF Heartbeat
    <2>4. /\ runs[r].pc = "enter" /\ UNCHANGED staging
          /\ runs' = [runs EXCEPT ![r].pc = "execute", ![r].beat = "on"]
      BY <1>2 DEF EnterHeartbeat
    <2> QED BY <2>2, <2>3, <2>4, BeatStep DEF Place
  <1>3. ASSUME NEW now \in ReadClock, Beat(r, now)
        PROVE  PInv'
    <2>1. runs[r].batch \in Batch /\ Heartbeat(runs[r].batch, now)
      BY <1>1, <1>3 DEF Beat, RunKnows
    <2>2. SealsNothing /\ publications' = publications
      BY <2>1, OthersSealNothing
    <2>3. CommittedStays /\ clock' = clock
      BY <2>1, <2>2, StoreKeepsCommitted DEF Heartbeat
    <2>4. UNCHANGED <<runs, staging>> /\ PTypeOK'
      BY <1>1, <1>3, <2>3 DEF Beat, PTypeOK
    <2> QED BY <2>2, <2>3, <2>4, StoreStep
  <1>4. CASE BeatFails(r)
    <2>1. runs' = [runs EXCEPT ![r].pc = runs[r].pc, ![r].beat = "failed"]
      BY <1>1, <1>4 DEF BeatFails, PTypeOK
    <2>2. runs[r].pc \in Place /\ runs[r].beat # "off" /\ UNCHANGED <<vars, staging>>
      BY <1>1, <1>4 DEF BeatFails, RunRow
    <2> QED BY <2>1, <2>2, BeatStep, QuietStore DEF vars
  <1>5. CASE ExitHeartbeat(r)
    <2>1. CASE Leave(r, {"exit"}, "raised")
      BY <1>5, <2>1, LeaveStep DEF ExitHeartbeat
    <2>2. CASE runs' = [runs EXCEPT ![r].pc = "sealing fence", ![r].beat = "off"]
      <3>1. runs[r].pc = "exit" /\ UNCHANGED <<vars, staging>>
        BY <1>5 DEF ExitHeartbeat
      <3> QED BY <2>2, <3>1, BeatStep, QuietStore DEF vars, Place
    <2> QED BY <1>5, <2>1, <2>2 DEF ExitHeartbeat
  <1> QED BY <1>2, <1>3, <1>4, <1>5

(* Writing to the staging area *)

\* The places of a run that writes.
LEMMA WritingPlaces == {"stage", "staging", "read", "mark", "marking", "exit"} \subseteq Place
  BY DEF Place

\* A write to what is staged of a batch that is not complete, hence not sealed.
LEMMA WriteStep ==
    ASSUME PInv, UNCHANGED vars, NEW r \in Run, NEW b \in Batch, b = runs[r].batch,
           NEW row \in StagingRow, staging' = [staging EXCEPT ![b] = row], ~Complete(b),
           runs' \in [Run -> RunRow], \A s \in Run \ {r} : runs'[s] = runs[s],
           runs'[r].batch = b, runs'[r].pc \notin {"conflict", "done"}, RunKnows(r)',
           \A s \in Run \ {r} : runs[s].batch = b => RunKnows(s)',
           \A s \in Run \ {r} : runs[s].batch = b /\ runs'[r].pc \in {"staging", "marking"} =>
              runs[s].pc # runs'[r].pc
    PROVE  PInv'
  <1>1. PTypeOK /\ SealedIsComplete /\ SealedOutputIsStaged /\ OneWriter
        /\ \A s \in Run : RunKnows(s)
    BY DEF PInv
  <1>3. PTypeOK'
    BY <1>1 DEF PTypeOK, vars
  <1>4. \A c \in Batch \ {b} : staging'[c] = staging[c]
    BY <1>1 DEF PTypeOK
  <1>5. ASSUME NEW s \in Run
        PROVE  RunKnows(s)'
    <2>1. CASE s # r /\ runs[s].batch # b
      <3>1. CASE runs[s].batch \in Batch
        <4>1. /\ runs'[s] = runs[s] /\ batches' = batches
              /\ staging'[runs[s].batch] = staging[runs[s].batch]
          BY <1>4, <2>1, <3>1 DEF vars
        <4> QED BY <1>1, <4>1 DEF RunKnows
      <3>2. CASE runs[s].batch \notin Batch
        BY <1>1, <2>1, <3>2 DEF RunKnows, Holding, Verified
      <3> QED BY <3>1, <3>2
    <2> QED BY <2>1
  <1>6. OneWriter'
    BY <1>1 DEF OneWriter
  <1>7. SealedIsComplete'
    BY <1>1, <1>4 DEF SealedIsComplete, Complete, vars
  <1>8. \A w \in Work : attempts[b][w].output = None
    BY <1>1, RecordsAreWhole DEF SealedOutputIsStaged, Complete
  <1>9. SealedOutputIsStaged'
    BY <1>1, <1>4, <1>8 DEF SealedOutputIsStaged, vars
  <1>10. ReturnedRunReportsItsBatch' /\ CommittedBatchCanBeResumed'
    BY <1>1 DEF PInv, ReturnedRunReportsItsBatch, CommittedBatchCanBeResumed, vars
  <1> QED BY <1>3, <1>5, <1>6, <1>7, <1>9, <1>10 DEF PInv

\* write_records and create_success: each batch has one writer at a time, and
\* nobody relies on what is being written.
LEMMA StagingSteps ==
    ASSUME PInv, NEW r \in Run, NEW b, b = runs[r].batch,
           StageBegin(r) \/ StageEnd(r) \/ MarkBegin(r) \/ MarkEnd(r)
    PROVE  PInv'
  <1> DEFINE found == staging[b].marker
  <1>1. /\ PTypeOK /\ OneWriter /\ RunKnows(r)
        /\ \A s \in Run : RunKnows(s) /\ runs[s] \in RunRow
    BY DEF PInv, PTypeOK
  <1>2. b \in Batch /\ staging[b] \in StagingRow /\ UNCHANGED vars
    BY <1>1 DEF RunKnows, StageBegin, StageEnd, MarkBegin, MarkEnd, Goto, Leave, PTypeOK
  <1>3. CASE StageBegin(r)
    <2> DEFINE row == [staging[b] EXCEPT !.records = Torn]
    <2>1. /\ Goto(r, "stage", "staging") /\ staging[b] = NoStaging
          /\ staging' = [staging EXCEPT ![b] = row]
      BY <1>1, <1>2, <1>3 DEF StageBegin, PTypeOK
    <2>2. /\ row \in StagingRow
          /\ staging'[b].records = Torn
      BY <1>1, <1>2, <2>1 DEF StagingRow, PTypeOK
    <2>3. ~Complete(b)
      BY <2>1 DEF Complete, NoStaging
    <2>4. /\ runs[r].pc = "stage" /\ runs'[r].pc = "staging"
          /\ runs' \in [Run -> RunRow]
          /\ runs'[r].batch = b /\ runs'[r].plan = runs[r].plan
          /\ runs'[r].records = runs[r].records /\ \A s \in Run \ {r} : runs'[s] = runs[s]
      BY <1>1, <2>1, GotoRow, WritingPlaces
    <2>5. RunKnows(r)'
      BY <1>1, <2>2, <2>4 DEF RunKnows, Holding, Verified
    <2>6. ASSUME NEW s \in Run \ {r}, runs[s].batch = b
          PROVE  RunKnows(s)' /\ runs[s].pc # "staging"
      <3>1. runs[s].pc \notin Holding \cup {"staging"}
        BY <1>1, <2>1, <2>6, RecordsAreWhole DEF RunKnows, NoStaging
      <3> QED BY <1>1, <1>2, <2>4, <2>6, <3>1 DEF RunKnows, Holding, Verified, vars
    <2>7. \A s \in Run \ {r} : runs[s].batch = b => runs[s].pc # runs'[r].pc
      BY <2>4, <2>6
    <2> HIDE DEF row
    <2> QED BY <1>2, <2>1, <2>2, <2>3, <2>4, <2>5, <2>6, <2>7, WriteStep
  <1>4. CASE StageEnd(r)
    <2> DEFINE row == [staging[b] EXCEPT !.records = runs[r].records]
    <2>1. /\ Goto(r, "staging", "read")
          /\ staging' = [staging EXCEPT ![b] = row]
      BY <1>1, <1>2, <1>4 DEF StageEnd, PTypeOK
    <2>2. /\ runs[r].pc = "staging" /\ runs'[r].pc = "read"
          /\ runs' \in [Run -> RunRow]
          /\ runs'[r].batch = b /\ runs'[r].plan = runs[r].plan
          /\ \A s \in Run \ {r} : runs'[s] = runs[s]
      BY <1>1, <2>1, GotoRow, WritingPlaces
    <2>3. runs[r].records \in Records /\ staging[b].records = Torn
      BY <1>1, <2>2 DEF RunKnows
    <2>4. row \in StagingRow /\ ~Complete(b)
      BY <1>2, <2>3 DEF StagingRow, Complete
    <2>5. RunKnows(r)'
      BY <1>1, <2>2 DEF RunKnows, Holding, Verified
    <2>6. ASSUME NEW s \in Run \ {r}, runs[s].batch = b
          PROVE  RunKnows(s)'
      <3>1. runs[s].pc \notin Holding \cup {"staging"}
        BY <1>1, <2>2, <2>3, <2>6, RecordsAreWhole DEF RunKnows, OneWriter
      <3> QED BY <1>1, <1>2, <2>2, <2>6, <3>1 DEF RunKnows, Holding, Verified, vars
    <2> HIDE DEF row
    <2> QED BY <1>2, <2>1, <2>2, <2>4, <2>5, <2>6, WriteStep
  <1>5. CASE MarkBegin(r) /\ found = None
    <2> DEFINE row == [staging[b] EXCEPT !.marker = Torn]
    <2>1. /\ Goto(r, "mark", "marking")
          /\ staging' = [staging EXCEPT ![b] = row]
      <3>1. Goto(r, "mark", "marking") /\ staging' = [staging EXCEPT ![b].marker = Torn]
        <4>1. runs[r].pc = "mark"
          BY <1>5 DEF MarkBegin, Goto, Leave
        <4>2. runs[r].records # None
          BY <1>1, <4>1, RecordsAreWhole DEF RunKnows, Holding
        <4> QED BY <1>5, <4>2 DEF MarkBegin
      <3> QED BY <1>1, <1>2, <3>1 DEF PTypeOK
    <2>2. /\ runs[r].pc = "mark" /\ runs'[r].pc = "marking"
          /\ runs' \in [Run -> RunRow]
          /\ runs'[r].batch = b /\ runs'[r].plan = runs[r].plan
          /\ runs'[r].records = runs[r].records /\ \A s \in Run \ {r} : runs'[s] = runs[s]
      BY <1>1, <2>1, GotoRow, WritingPlaces
    <2>3. /\ row \in StagingRow
          /\ staging'[b].marker = Torn /\ staging'[b].records = staging[b].records
      BY <1>1, <1>2, <2>1 DEF StagingRow, PTypeOK
    <2>4. ~Complete(b)
      BY <1>5 DEF Complete
    <2>5. RunKnows(r)'
      BY <1>1, <2>2, <2>3 DEF RunKnows, Holding, Verified
    <2>6. ASSUME NEW s \in Run \ {r}, runs[s].batch = b
          PROVE  RunKnows(s)' /\ runs[s].pc # "marking"
      <3>1. runs[s].pc \notin Verified \cup {"marking"}
        BY <1>1, <1>5, <2>6, RecordsAreWhole DEF RunKnows, Holding, Verified
      <3>2. runs'[s] = runs[s] /\ batches' = batches
        BY <1>2, <2>2 DEF vars
      <3> QED BY <1>1, <2>3, <2>6, <3>1, <3>2 DEF RunKnows, Verified
    <2>7. \A s \in Run \ {r} : runs[s].batch = b => runs[s].pc # runs'[r].pc
      BY <2>2, <2>6
    <2> HIDE DEF row
    <2> QED BY <1>2, <2>1, <2>2, <2>3, <2>4, <2>5, <2>6, <2>7, WriteStep
  <1>6. CASE MarkBegin(r) /\ found # None /\ found = runs[r].records
    <2>1. Goto(r, "mark", "exit") /\ staging' = staging
      BY <1>6 DEF MarkBegin
    <2>2. RunKnows(r)'
      <3>1. /\ runs[r].pc = "mark" /\ runs'[r].pc = "exit"
            /\ runs'[r].batch = b /\ runs'[r].plan = runs[r].plan
            /\ runs'[r].records = runs[r].records
        BY <1>1, <2>1, GotoRow, WritingPlaces
      <3> QED BY <1>1, <1>6, <2>1, <3>1 DEF RunKnows, Holding, Verified
    <2> QED BY <1>2, <2>1, <2>2, GotoStep, QuietStore DEF Place, vars
  <1>7. CASE MarkBegin(r) /\ found # None /\ found # runs[r].records
    <2>1. Leave(r, {"mark"}, "raised") /\ staging' = staging
      BY <1>7 DEF MarkBegin
    <2> QED BY <1>2, <2>1, LeaveStep
  <1>8. CASE MarkEnd(r)
    <2> DEFINE row == [staging[b] EXCEPT !.marker = runs[r].records]
    <2>1. /\ Goto(r, "marking", "exit")
          /\ staging' = [staging EXCEPT ![b] = row]
      BY <1>1, <1>2, <1>8 DEF MarkEnd, PTypeOK
    <2>2. /\ runs[r].pc = "marking" /\ runs'[r].pc = "exit"
          /\ runs' \in [Run -> RunRow]
          /\ runs'[r].batch = b /\ runs'[r].plan = runs[r].plan
          /\ runs'[r].records = runs[r].records /\ \A s \in Run \ {r} : runs'[s] = runs[s]
      BY <1>1, <2>1, GotoRow, WritingPlaces
    <2>3. /\ runs[r].records \in Records /\ staging[b].records = runs[r].records
          /\ staging[b].marker = Torn
      BY <1>1, <2>2 DEF RunKnows, Holding
    <2>4. /\ row \in StagingRow
          /\ staging'[b].marker = runs[r].records /\ staging'[b].records = staging[b].records
      BY <1>1, <1>2, <2>1, <2>3 DEF StagingRow, PTypeOK
    <2>5. ~Complete(b)
      BY <2>3, RecordsAreWhole DEF Complete
    <2>6. RunKnows(r)'
      BY <1>1, <2>2, <2>3, <2>4 DEF RunKnows, Holding, Verified
    <2>7. ASSUME NEW s \in Run \ {r}, runs[s].batch = b
          PROVE  RunKnows(s)'
      <3>1. runs[s].pc \notin Verified \cup {"marking"}
        BY <1>1, <2>2, <2>3, <2>7, RecordsAreWhole DEF RunKnows, OneWriter, Holding, Verified
      <3>2. runs'[s] = runs[s] /\ batches' = batches
        BY <1>2, <2>2 DEF vars
      <3> QED BY <1>1, <2>4, <2>7, <3>1, <3>2 DEF RunKnows, Verified
    <2> HIDE DEF row
    <2> QED BY <1>2, <2>1, <2>2, <2>4, <2>5, <2>6, <2>7, WriteStep
  <1> QED BY <1>3, <1>4, <1>5, <1>6, <1>7, <1>8

(* Seal and commit *)

\* seal_batch: what the run holds is what is staged, with its marker.
LEMMA SealStep ==
    ASSUME IInv, PublishedExactlyOnce, PInv, [Next]_vars, NEW r \in Run, NEW now \in ReadClock,
           SealStaged(r, now)
    PROVE  PInv'
  <1> DEFINE result == runs[r].records.result
  <1>1. /\ PTypeOK /\ RunKnows(r) /\ SealedIsComplete /\ SealedOutputIsStaged /\ OneWriter
        /\ CommittedBatchCanBeResumed
    BY DEF PInv
  <1>2. PICK b \in Batch : b = runs[r].batch
    BY <1>1 DEF SealStaged, Goto, RunKnows
  <1>3. /\ Goto(r, "seal", "committing fence") /\ staging' = staging /\ clock' = clock
        /\ publications' = publications
        /\ batches[b].status = "LEASED"
        /\ batches' = [batches EXCEPT ![b].status = "SEALED"]
        /\ attempts' = [attempts EXCEPT ![b] = [w \in Work |->
              IF w \in Members(b)
              THEN [attempts[b][w] EXCEPT !.status = "SEALED", !.output = result[w].output,
                                          !.ok = result[w].ok]
              ELSE attempts[b][w]]]
    BY <1>2 DEF SealStaged, Seal
  <1>4. TypeOK /\ RowsMatchMembership
    BY DEF IInv
  <1>5. /\ runs' \in [Run -> RunRow] /\ \A s \in Run \ {r} : runs'[s] = runs[s]
        /\ runs[r].pc = "seal" /\ runs'[r].pc = "committing fence"
        /\ runs'[r].batch = b /\ runs'[r].plan = runs[r].plan
        /\ runs'[r].records = runs[r].records
    <2>1. "committing fence" \in Place
      BY DEF Place
    <2> QED BY <1>1, <1>2, <1>3, <2>1, GotoRow
  <1>6. /\ runs[r].records \in Records
        /\ staging[b].records = runs[r].records /\ staging[b].marker = runs[r].records
    BY <1>1, <1>2, <1>5 DEF RunKnows, Holding, Verified
  <1>7. CommittedStays
    BY <1>3, StoreKeepsCommitted
  <1>8. RunKnows(r)'
    BY <1>1, <1>2, <1>3, <1>5, <1>6 DEF RunKnows, Holding, Verified
  <1>9. \A s \in Run : RunKnows(s)'
    BY <1>3, <1>5, <1>7, <1>8, BystanderKnows
  <1>10. ReturnedRunReportsItsBatch'
    <2>1. \A s \in Run : runs'[s].pc = "done" => Reports(s)'
      BY <1>3, <1>5, <1>7, BystanderKnows
    <2> QED BY <2>1 DEF ReturnedRunReportsItsBatch, Reports, Sequences
  <1>11. SealedIsComplete'
    <2>1. Complete(b)'
      BY <1>3, <1>6, RecordsAreWhole DEF Complete
    <2>2. \A c \in Batch \ {b} : batches'[c] = batches[c]
      BY <1>3, <1>4 DEF TypeOK
    <2> QED BY <1>1, <1>3, <2>1, <2>2 DEF SealedIsComplete, Complete
  <1>12. SealedOutputIsStaged'
    <2> SUFFICES ASSUME NEW c \in Batch, NEW w \in Work, attempts'[c][w].output # None
                 PROVE  /\ staging[c].records \in Records
                        /\ staging[c].marker = staging[c].records
                        /\ staging[c].records.result[w] =
                              [output |-> attempts'[c][w].output, ok |-> attempts'[c][w].ok]
      BY <1>3 DEF SealedOutputIsStaged
    <2>1. CASE c # b \/ w \notin Members(b)
      <3>1. attempts'[c][w] = attempts[c][w]
        BY <1>3, <1>4, <2>1 DEF TypeOK
      <3> QED BY <1>1, <3>1 DEF SealedOutputIsStaged
    <2>2. CASE c = b /\ w \in Members(b)
      <3>1. attempts'[b][w].output = result[w].output /\ attempts'[b][w].ok = result[w].ok
        <4>1. attempts'[b][w] = [attempts[b][w] EXCEPT !.status = "SEALED",
                                       !.output = result[w].output, !.ok = result[w].ok]
          BY <1>3, <1>4, <2>2 DEF TypeOK
        <4>2. attempts[b][w] \in AttemptRow
          BY <1>4, Rows
        <4> HIDE DEF result
        <4> QED BY <4>1, <4>2 DEF AttemptRow
      <3>2. result[w] \in [output : Output, ok : BOOLEAN]
        <4>1. DOMAIN result = Members(b)
          BY <1>2 DEF SealStaged, Seal
        <4>2. result \in Results(b)
          BY <1>6, <4>1, RecordsAreResults
        <4> QED BY <2>2, <4>2 DEF Results
      <3> QED BY <1>6, <2>2, <3>1, <3>2
    <2> QED BY <2>1, <2>2
  <1>13. PTypeOK' /\ OneWriter' /\ CommittedBatchCanBeResumed'
    BY <1>1, <1>3, <1>5 DEF PTypeOK, OneWriter, CommittedBatchCanBeResumed
  <1> QED BY <1>9, <1>10, <1>11, <1>12, <1>13 DEF PInv

\* A run that returns with the publications of its committed batch.
LEMMA ReportStep ==
    ASSUME PInv, TypeOK', NEW r \in Run, SealsNothing, CommittedStays, staging' = staging,
           clock' = clock, NEW b \in Batch, b = runs[r].batch,
           runs[r].pc \in {"commit", "report"},
           batches'[b].status = "COMMITTED",
           runs' = [runs EXCEPT ![r].pc = "done", ![r].sequences = Sequences(publications', b)]
    PROVE  PInv'
  <1>1. PTypeOK /\ RunKnows(r) /\ runs[r] \in RunRow
    BY DEF PInv, PTypeOK
  <1> DEFINE seqs == Sequences(publications', b)
             row == [runs[r] EXCEPT !.pc = "done", !.sequences = seqs]
  <1>2. seqs \in SUBSET Nat
    BY DEF TypeOK, Sequences, Publication
  <1>3. "done" \in Place
    BY DEF Place, Ended
  <1> HIDE DEF seqs
  <1>4. /\ row \in RunRow /\ row.pc = "done" /\ row.batch = b
        /\ row.plan = runs[r].plan /\ row.sequences = seqs
    BY <1>1, <1>2, <1>3 DEF RunRow
  <1>5. runs' = [runs EXCEPT ![r] = row]
    BY <1>1 DEF PTypeOK, seqs
  <1> HIDE DEF row
  <1>6. runs' \in [Run -> RunRow] /\ runs'[r] = row /\ \A s \in Run \ {r} : runs'[s] = runs[s]
    BY <1>1, <1>4, <1>5 DEF PTypeOK
  <1>7. PTypeOK'
    BY <1>1, <1>6 DEF PTypeOK
  <1>8. RunKnows(r)'
    BY <1>1, <1>4, <1>6 DEF RunKnows, Holding, Verified
  <1>9. Reports(r)'
    BY <1>4, <1>6 DEF Reports, seqs
  <1> QED BY <1>4, <1>6, <1>7, <1>8, <1>9, RunStep

\* commit_batch, the first time and again.
LEMMA CommitSteps ==
    ASSUME IInv, TypeOK', PublishedExactlyOnce, PInv, [Next]_vars, NEW r \in Run,
           \/ \E now \in ReadClock : CommitSealed(r, now)
           \/ CommitAgain(r, "commit") \/ CommitAgain(r, "report")
    PROVE  PInv'
  <1>1. PTypeOK /\ RunKnows(r) /\ ReadClock \subseteq Nat
    BY RunTimes DEF PInv
  <1>2. runs[r].pc \in {"commit", "report"}
    BY DEF CommitSealed, CommitAgain
  <1>3. PICK b \in Batch : b = runs[r].batch
    BY <1>1, <1>2 DEF RunKnows
  <1>4. ASSUME NEW now \in ReadClock, CommitSealed(r, now)
        PROVE  PInv'
    <2>1. /\ Commit(b, now) /\ now \in Nat /\ staging' = staging
          /\ runs' = [runs EXCEPT ![r].pc = "done", ![r].sequences = Sequences(publications', b)]
      BY <1>1, <1>3, <1>4 DEF CommitSealed
    <2>2. SealsNothing /\ batches'[b].status = "COMMITTED"
      BY <2>1, CommitSealsNothing
    <2>3. CommittedStays /\ clock' = clock
      BY <2>1, StoreKeepsCommitted DEF Commit
    <2> QED BY <1>2, <1>3, <2>1, <2>2, <2>3, ReportStep
  <1>5. CASE CommitAgain(r, "commit") \/ CommitAgain(r, "report")
    <2>1. /\ batches[b].status = "COMMITTED" /\ UNCHANGED <<vars, staging>>
          /\ runs' = [runs EXCEPT ![r].pc = "done", ![r].sequences = Sequences(publications, b)]
      BY <1>3, <1>5 DEF CommitAgain
    <2>2. /\ batches' = batches /\ clock' = clock
          /\ Sequences(publications', b) = Sequences(publications, b)
      BY <2>1 DEF vars
    <2>3. /\ batches'[b].status = "COMMITTED" /\ staging' = staging /\ SealsNothing /\ CommittedStays
          /\ runs' = [runs EXCEPT ![r].pc = "done", ![r].sequences = Sequences(publications', b)]
      BY <2>1, <2>2, QuietStore
    <2> QED BY <1>2, <1>3, <2>2, <2>3, ReportStep
  <1> QED BY <1>4, <1>5

(* Every step *)

\* Registration, dispatch and recovery do not disturb a run.
LEMMA OthersStep ==
    ASSUME IInv, PublishedExactlyOnce, PInv, [Next]_vars, Others
    PROVE  PInv'
  <1>1. SealsNothing /\ publications' = publications
    <2>1. \/ \E S \in SUBSET Work : \E request, at : RegisterMany(S, request, at, clock)
          \/ \E b \in Batch, call \in ClaimCall : Claim(b, call, clock)
          \/ \E b \in Batch : Heartbeat(b, clock)
          \/ Recover(clock)
          \/ Tick
      BY DEF Others
    <2> QED BY <2>1, OthersSealNothing
  <1>2. CommittedStays
    BY <1>1, StoreKeepsCommitted
  <1>3. PTypeOK'
    <2>1. clock' = clock \/ Tick
      BY DEF Others, RegisterMany, Claim, Recover
    <2>2. clock' \in 0..MaxTime
      BY <2>1, ControlStoreAssumption DEF Tick, PInv, PTypeOK
    <2> QED BY <2>2 DEF Others, PInv, PTypeOK
  <1> QED BY <1>1, <1>2, <1>3, StoreStep DEF Others

\* Every step of every run, and of the others, keeps the invariant.
LEMMA PNextPInv ==
    ASSUME IInv, PublishedExactlyOnce, PInv, [PNext]_pvars
    PROVE  PInv'
  <1>1. [Next]_vars /\ TypeOK /\ TypeOK'
    BY PNextIsNext, NextIInv DEF IInv
  <1>2. CASE UNCHANGED pvars
    <2>1. UNCHANGED <<vars, runs, staging>>
      BY <1>2 DEF pvars
    <2>2. PTypeOK'
      BY <2>1 DEF PInv, PTypeOK, vars
    <2> QED BY <2>1, <2>2, QuietStore, StoreStep
  <1>3. ASSUME NEW r \in Run, Step(r)
        PROVE  PInv'
    <2>1. CASE LoadConflict(r) \/ StageConflict(r) \/ FenceLost(r)
      BY <2>1, LeaveStep DEF LoadConflict, StageConflict, FenceLost
    <2>2. CASE \E now \in ReadClock : Refused(r, now)
      BY <2>2, LeaveStep DEF Refused
    <2>3. CASE LoadNothing(r) \/ AssertFence(r) \/ SealAgain(r) \/ Resume(r)
      BY <2>3, MovesOn
    <2>4. CASE \/ LoadComplete(r) \/ ReadBack(r)
               \/ runs[r].pc = "execute" /\ \E result \in Results(runs[r].batch) : Execute(r, result)
      BY <1>1, <2>4, RecordsStaged
    <2>5. CASE StageBegin(r) \/ StageEnd(r) \/ MarkBegin(r) \/ MarkEnd(r)
      BY <2>5, StagingSteps
    <2>6. CASE (\E now \in ReadClock : EnterHeartbeat(r, now)) \/ ExitHeartbeat(r)
      BY <1>1, <2>6, HeartbeatSteps
    <2>7. CASE \E now \in ReadClock : SealStaged(r, now)
      BY <1>1, <2>7, SealStep
    <2>8. CASE \/ \E now \in ReadClock : CommitSealed(r, now)
               \/ CommitAgain(r, "commit") \/ CommitAgain(r, "report")
      BY <1>1, <2>8, CommitSteps
    <2> QED BY <1>3, <2>1, <2>2, <2>3, <2>4, <2>5, <2>6, <2>7, <2>8 DEF Step
  <1>4. ASSUME NEW r \in Run, \E b \in Batch, plan \in Plan : Start(r, b, plan)
        PROVE  PInv'
    BY <1>4, StartStep
  <1>5. ASSUME NEW r \in Run, (\E now \in ReadClock : Beat(r, now)) \/ BeatFails(r)
        PROVE  PInv'
    BY <1>1, <1>5, HeartbeatSteps
  <1>6. ASSUME NEW r \in Run, Fail(r)
        PROVE  PInv'
    BY <1>6, LeaveStep DEF Fail
  <1>7. CASE Others
    BY <1>1, <1>7, OthersStep
  <1> QED BY <1>2, <1>3, <1>4, <1>5, <1>6, <1>7 DEF PNext

\* Nothing is running and nothing is staged at first.
LEMMA InitPInv == PInit => PInv
  <1> SUFFICES ASSUME PInit PROVE PInv
    OBVIOUS
  <1>1. /\ clock = 0 /\ runs = [r \in Run |-> Idle] /\ staging = [b \in Batch |-> NoStaging]
        /\ batches = [b \in Batch |-> NoBatch]
        /\ attempts = [b \in Batch |-> [w \in Work |-> NoAttempt]]
    BY DEF PInit, Init
  <1>2. PTypeOK
    <2>1. NoStaging \in StagingRow
      BY DEF NoStaging, StagingRow
    <2> QED BY <1>1, <2>1, IdleRow, ControlStoreAssumption DEF PTypeOK
  <1>3. \A r \in Run : RunKnows(r)
    BY <1>1 DEF RunKnows, Idle, Holding, Verified
  <1>4. OneWriter /\ ReturnedRunReportsItsBatch /\ CommittedBatchCanBeResumed
    BY <1>1 DEF OneWriter, ReturnedRunReportsItsBatch, CommittedBatchCanBeResumed, Idle
  <1>5. SealedIsComplete /\ SealedOutputIsStaged
    BY <1>1 DEF SealedIsComplete, SealedOutputIsStaged, NoBatch, NoAttempt
  <1> QED BY <1>2, <1>3, <1>4, <1>5 DEF PInv

-----------------------------------------------------------------------------
(* Theorems *)

\* What holds in every state of the process job: the invariants of the store
\* and those of its runs.
THEOREM RunInvariance == PSpec => [](IInv /\ PublishedExactlyOnce /\ PInv)
  <1> DEFINE All == IInv /\ PublishedExactlyOnce /\ PInv
  <1>1. PInit => All
    <2>1. PInit => PublishedExactlyOnce
      BY DEF PInit, Init, PublishedExactlyOnce, Status, NoWork
    <2> QED BY <2>1, InitIInv, InitPInv DEF PInit
  <1>2. All /\ [PNext]_pvars => All'
    BY PNextIsNext, PNextPInv, NextIInv, NextPublishes
  <1> QED BY <1>1, <1>2, PTL DEF PSpec

\* Runs of the process job, dying, repeated and late as they are, never do to
\* the store what its operations do not.
THEOREM RunsUseTheStore == PSpec => Spec
  <1>1. PInit => Init
    BY DEF PInit
  <1>2. IInv /\ PInv /\ [PNext]_pvars => [Next]_vars
    BY PNextIsNext
  <1> QED BY <1>1, <1>2, RunInvariance, PTL DEF PSpec, Spec

\* Whatever was sealed by whichever run is completely staged, as it was sealed.
THEOREM SealedIsStaged == PSpec => []SealedOutputIsStaged
  <1>1. PInv => SealedOutputIsStaged
    BY DEF PInv
  <1> QED BY <1>1, RunInvariance, PTL

\* A run that returns reports the publications of its batch, whoever committed it.
THEOREM ReturnedRunsReport == PSpec => []ReturnedRunReportsItsBatch
  <1>1. PInv => ReturnedRunReportsItsBatch
    BY DEF PInv
  <1> QED BY <1>1, RunInvariance, PTL

\* A committed batch can be verified and reported by every later run.
THEOREM CommittedIsResumable == PSpec => []CommittedBatchCanBeResumed
  <1>1. PInv => CommittedBatchCanBeResumed
    BY DEF PInv
  <1> QED BY <1>1, RunInvariance, PTL
=============================================================================
