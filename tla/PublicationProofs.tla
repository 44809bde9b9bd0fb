-------------------------- MODULE PublicationProofs --------------------------
(***************************************************************************)
(* Proofs of what the control store promises: it publishes every work      *)
(* exactly once and never rewrites what it has recorded, counts every      *)
(* claim of a work, grants no more of them than its budget and passes      *)
(* nobody over in the queue, and reconcile finds nothing but leases that   *)
(* ran out and sealed batches that wait for their commit, for any works,   *)
(* batches, outputs, operators and claim arguments.                        *)
(***************************************************************************)
EXTENDS Reconciliation, ControlStoreProofs

(* Publications *)

\* What every operation but a commit does: it publishes nothing, makes no work
\* succeed and keeps what is recorded.
QuietStep ==
    /\ UNCHANGED <<publications, lastSeq>>
    /\ \A b \in Batch, w \in Work : AttemptKept(b, w)
    /\ \A b \in Batch : BatchKept(b)
    /\ \A w \in Work : WorkKept(w) /\ (work'[w].status = "SUCCEEDED" => work'[w] = work[w])

\* Such an operation keeps the publications and what they say.
LEMMA QuietKeepsPublications ==
    ASSUME TypeOK, PublishedExactlyOnce, QuietStep
    PROVE  HistoryKept /\ PublishedExactlyOnce'
  <1>1. publications' = publications /\ lastSeq' = lastSeq
    BY DEF QuietStep
  <1>2. HistoryKept
    BY <1>1 DEF QuietStep, HistoryKept
  <1>3. ASSUME NEW p \in publications
        PROVE  /\ work'[p.work].status = "SUCCEEDED"
               /\ work'[p.work].committed = p.batch
               /\ work'[p.work].seq = p.seq
               /\ attempts'[p.batch][p.work].status = "SUCCEEDED"
               /\ attempts'[p.batch][p.work].output = p.output
               /\ p.seq \in 1..lastSeq'
    <2>1. p.work \in Work /\ p.batch \in Batch
      BY DEF TypeOK, Publication
    <2>2. work'[p.work] = work[p.work] /\ attempts'[p.batch][p.work] = attempts[p.batch][p.work]
      BY <2>1 DEF PublishedExactlyOnce, QuietStep, WorkKept, AttemptKept
    <2> QED BY <1>1, <2>2 DEF PublishedExactlyOnce
  <1>4. \A p, q \in publications : p.work = q.work \/ p.seq = q.seq => p = q
    BY DEF PublishedExactlyOnce
  <1>5. \A w \in Status("SUCCEEDED")' : \E p \in publications : p.work = w
    BY DEF PublishedExactlyOnce, QuietStep, Status
  <1>6. PublishedExactlyOnce'
    BY <1>1, <1>3, <1>4, <1>5 DEF PublishedExactlyOnce
  <1> QED BY <1>2, <1>6

\* An operation that writes no table but work, where it neither makes nor
\* touches a success.
LEMMA WorkOnlyIsQuiet ==
    ASSUME TypeOK, UNCHANGED <<publications, lastSeq, batches, attempts>>,
           \A w \in Work : \/ work'[w] = work[w]
                           \/ /\ work[w].status # "SUCCEEDED"
                              /\ work'[w].status # "SUCCEEDED"
                              /\ work'[w].fence = work[w].fence
    PROVE  QuietStep
  <1>1. \A w \in Work : work[w].fence \in Nat
    BY DEF TypeOK, WorkRow
  <1>2. \A b \in Batch : batches[b].expires \in Nat
    BY DEF TypeOK, BatchRow
  <1>3. \A w \in Work : WorkKept(w) /\ (work'[w].status = "SUCCEEDED" => work'[w] = work[w])
    BY <1>1 DEF WorkKept
  <1>4. \A b \in Batch : BatchKept(b)
    BY <1>2 DEF BatchKept
  <1> QED BY <1>3, <1>4 DEF QuietStep, AttemptKept

\* register, replay and quarantine leave successes alone.
LEMMA CommandsAreQuiet ==
    ASSUME TypeOK, RowsMatchMembership
    PROVE  /\ \A S \in SUBSET Work, now \in Nat :
                 \A request \in [S -> Content], at \in [S -> Nat] :
                    RegisterMany(S, request, at, now) => QuietStep
           /\ \A w \in Work, operator \in Operator, extra \in Nat, now \in Nat :
                 Replay(w, operator, extra, now) => QuietStep
           /\ \A S \in SUBSET Work, operator \in Operator, now \in Nat :
                 \A expected \in [S -> {c.release : c \in Content}] :
                    Quarantine(expected, operator, now) => QuietStep
  <1> USE DEF TypeOK
  <1>1. ASSUME NEW S \in SUBSET Work, NEW now \in Nat, NEW request \in [S -> Content],
               NEW at \in [S -> Nat], RegisterMany(S, request, at, now)
        PROVE  QuietStep
    <2>1. ASSUME NEW w \in Work, work'[w] # work[w]
          PROVE  /\ work[w].status # "SUCCEEDED" /\ work'[w].status # "SUCCEEDED"
                 /\ work'[w].fence = work[w].fence
      <3>1. work[w].status = "ABSENT" /\ work'[w] = Registered(request[w], at[w], now)
        BY <1>1, <2>1 DEF RegisterMany, WorkWith, Status
      <3>2. work[w].fence = 0
        BY <3>1 DEF RowsMatchMembership, Status
      <3> QED BY <3>1, <3>2 DEF Registered, NoWork
    <2> QED BY <1>1, <2>1, WorkOnlyIsQuiet DEF RegisterMany
  <1>2. ASSUME NEW v \in Work, NEW operator \in Operator, NEW extra \in Nat, NEW now \in Nat,
               Replay(v, operator, extra, now)
        PROVE  QuietStep
    <2>1. ASSUME NEW w \in Work, work'[w] # work[w]
          PROVE  /\ work[w].status # "SUCCEEDED" /\ work'[w].status # "SUCCEEDED"
                 /\ work'[w].fence = work[w].fence
      <3>1. w = v /\ work[v].status = "DEAD" /\ work[v] \in WorkRow
        BY <1>2, <2>1 DEF Replay
      <3>2. work'[v] = [work[v] EXCEPT !.status = "READY",
                           !.max_attempts = work[v].attempt_count + extra,
                           !.available_at = now, !.generation = work[v].generation + 1,
                           !.error = None]
        BY <1>2 DEF Replay
      <3> QED BY <3>1, <3>2 DEF WorkRow
    <2> QED BY <1>2, <2>1, WorkOnlyIsQuiet DEF Replay
  <1>3. ASSUME NEW S \in SUBSET Work, NEW operator \in Operator, NEW now \in Nat,
               NEW expected \in [S -> {c.release : c \in Content}],
               Quarantine(expected, operator, now)
        PROVE  QuietStep
    <2>1. ASSUME NEW w \in Work, work'[w] # work[w]
          PROVE  /\ work[w].status # "SUCCEEDED" /\ work'[w].status # "SUCCEEDED"
                 /\ work'[w].fence = work[w].fence
      <3>1. work[w].status = "READY" /\ work[w] \in WorkRow
        BY <1>3, <2>1 DEF Quarantine, WorkWith, Status
      <3>2. work'[w] = [work[w] EXCEPT !.status = "DEAD", !.available_at = now,
                                       !.error = operator]
        BY <1>3, <2>1 DEF Quarantine, WorkWith, Status
      <3> QED BY <3>1, <3>2 DEF WorkRow
    <2> QED BY <1>3, <2>1, WorkOnlyIsQuiet DEF Quarantine
  <1> QED BY <1>1, <1>2, <1>3

\* The operations on a batch that is not sealed yet, or not in time.
LEMMA BatchOperationsAreQuiet ==
    ASSUME IInv, NEW b \in Batch, NEW now \in Nat,
           \/ \E call \in ClaimCall : Claim(b, call, now)
           \/ Heartbeat(b, now)
           \/ \E result \in Results(b) : Seal(b, result, now)
    PROVE  QuietStep
  <1>1. /\ TypeOK /\ Members(b) \subseteq Work
        /\ \A w \in Work : work[w] \in WorkRow
        /\ \A w \in Work, c \in Batch : attempts[c][w] \in AttemptRow
        /\ \A c \in Batch : batches[c] \in BatchRow
    BY DEF IInv, TypeOK, Members, BatchRow
  <1>2. \A w \in Work : work[w].fence \in Nat
    BY <1>1 DEF WorkRow
  <1>3. \A c \in Batch : batches[c].expires \in Nat
    BY <1>1 DEF BatchRow
  <1>4. ASSUME NEW call \in ClaimCall, Claim(b, call, now)
        PROVE  QuietStep
    <2> DEFINE n == Max(AdmissibleSizes(FirstGroup(call, now),
                           QueueOrder(FirstGroup(call, now)), Durations, Workers,
                           call.lease, call.minimum_items, call.max_items))
               claimed == FirstOf(FirstGroup(call, now), QueueOrder(FirstGroup(call, now)), n)
               e == now + call.lease
    <2>1. \A w \in claimed : work[w].status = "READY"
      BY ClaimedAreReady DEF Status
    <2>2. /\ UNCHANGED <<publications, lastSeq>>
          /\ batches[b].status = "NONE"
          /\ \A c \in Batch \ {b} : batches'[c] = batches[c] /\ attempts'[c] = attempts[c]
      BY <1>4, <1>1 DEF Claim, TypeOK
    <2>3. \A w \in Work : attempts[b][w].status = "NONE" /\ attempts[b][w].output = None
      BY <2>2 DEF IInv, RowsMatchMembership
    <2>4. ASSUME NEW w \in Work
          PROVE  WorkKept(w) /\ (work'[w].status = "SUCCEEDED" => work'[w] = work[w])
      <3>1. work' = [v \in Work |-> IF v \in claimed
              THEN [work[v] EXCEPT !.status = "LEASED", !.lease = b, !.expires = e,
                                   !.attempt_count = work[v].attempt_count + 1,
                                   !.fence = work[v].fence + 1]
              ELSE work[v]]
        BY <1>4 DEF Claim, WorkWith
      <3> HIDE DEF claimed, e
      <3>2. CASE w \in claimed
        <4>1. work'[w] = [work[w] EXCEPT !.status = "LEASED", !.lease = b, !.expires = e,
                                         !.attempt_count = work[w].attempt_count + 1,
                                         !.fence = work[w].fence + 1]
          BY <3>1, <3>2
        <4>2. work'[w].status = "LEASED" /\ work'[w].fence = work[w].fence + 1
          BY <1>1, <4>1 DEF WorkRow
        <4> QED BY <1>2, <2>1, <3>2, <4>2 DEF WorkKept
      <3>3. CASE w \notin claimed
        <4>1. work'[w] = work[w]
          BY <3>1, <3>3
        <4> QED BY <1>2, <4>1 DEF WorkKept
      <3> QED BY <3>2, <3>3
    <2>5. \A c \in Batch, w \in Work : AttemptKept(c, w)
      BY <2>2, <2>3 DEF AttemptKept
    <2>6. \A c \in Batch : BatchKept(c)
      BY <1>3, <2>2 DEF BatchKept, Active
    <2> QED BY <2>2, <2>4, <2>5, <2>6 DEF QuietStep
  <1>5. CASE Heartbeat(b, now)
    <2> DEFINE e == Extended(b, now)
    <2>1. /\ UNCHANGED <<publications, lastSeq>>
          /\ batches' = [batches EXCEPT ![b].expires = e]
          /\ \A c \in Batch \ {b} : batches'[c] = batches[c] /\ attempts'[c] = attempts[c]
          /\ batches[b].status = "LEASED"
      BY <1>5, <1>1 DEF Heartbeat, TypeOK
    <2>2. e >= batches[b].expires
      BY <1>3, ExtendedIsLater
    <2>3. ASSUME NEW w \in Work
          PROVE  WorkKept(w) /\ (work'[w].status = "SUCCEEDED" => work'[w] = work[w])
      <3>1. CASE w \in Members(b)
        <4>1. work[w].status = "LEASED" /\ work'[w] = [work[w] EXCEPT !.expires = e]
          BY <1>5, <3>1 DEF Heartbeat, HoldsFence, WorkWith
        <4>2. work'[w].status = "LEASED" /\ work'[w].fence = work[w].fence
          BY <1>1, <4>1 DEF WorkRow
        <4> QED BY <1>2, <4>1, <4>2 DEF WorkKept
      <3>2. CASE w \notin Members(b)
        BY <1>2, <1>5, <3>2 DEF Heartbeat, WorkWith, WorkKept
      <3> QED BY <3>1, <3>2
    <2>4. ASSUME NEW w \in Work PROVE AttemptKept(b, w)
      <3>1. attempts[b][w].status = "LEASED" => attempts[b][w].output = None
        BY DEF IInv, RowsMatchMembership
      <3>2. attempts[b][w].status # "LEASED" => attempts'[b][w] = attempts[b][w]
        BY <1>1, <1>5 DEF Heartbeat, TypeOK
      <3> QED BY <3>1, <3>2 DEF AttemptKept
    <2>5. \A c \in Batch, w \in Work : AttemptKept(c, w)
      BY <2>1, <2>4 DEF AttemptKept
    <2>6. ASSUME NEW c \in Batch PROVE BatchKept(c)
      <3>1. batches'[b].expires = e
        BY <1>1, <2>1 DEF BatchRow, TypeOK
      <3> QED BY <1>3, <2>1, <2>2, <3>1 DEF BatchKept
    <2> QED BY <2>1, <2>3, <2>5, <2>6 DEF QuietStep
  <1>6. ASSUME NEW result \in Results(b), Seal(b, result, now)
        PROVE  QuietStep
    <2>1. /\ UNCHANGED <<publications, lastSeq, work>>
          /\ batches' = [batches EXCEPT ![b].status = "SEALED"]
          /\ \A c \in Batch \ {b} : batches'[c] = batches[c] /\ attempts'[c] = attempts[c]
          /\ batches[b].status = "LEASED"
          /\ \A w \in Members(b) : attempts[b][w].status = "LEASED"
      BY <1>6, <1>1 DEF Seal, TypeOK
    <2>2. ASSUME NEW w \in Work PROVE AttemptKept(b, w)
      <3>1. CASE w \in Members(b)
        BY <2>1, <3>1 DEF AttemptKept, IInv, RowsMatchMembership
      <3>2. CASE w \notin Members(b)
        <4>1. attempts'[b][w] = attempts[b][w]
          BY <1>1, <1>6, <3>2 DEF Seal, TypeOK
        <4> QED BY <4>1 DEF AttemptKept
      <3> QED BY <3>1, <3>2
    <2>3. \A c \in Batch, w \in Work : AttemptKept(c, w)
      BY <2>1, <2>2 DEF AttemptKept
    <2>4. ASSUME NEW c \in Batch PROVE BatchKept(c)
      <3>1. batches'[b].expires = batches[b].expires
        BY <1>1, <2>1 DEF BatchRow, TypeOK
      <3> QED BY <1>3, <2>1, <3>1 DEF BatchKept
    <2>5. \A w \in Work : WorkKept(w)
      BY <1>2, <2>1 DEF WorkKept
    <2> QED BY <2>1, <2>3, <2>4, <2>5 DEF QuietStep
  <1> QED BY <1>4, <1>5, <1>6

\* recover ends what is leased or sealed and nothing that is finished.
LEMMA RecoverIsQuiet ==
    ASSUME IInv, NEW now \in Nat, Recover(now)
    PROVE  QuietStep
  <1>1. /\ TypeOK
        /\ \A w \in Work : work[w].fence \in Nat
        /\ \A b \in Batch : batches[b].expires \in Nat
    BY DEF IInv, TypeOK, WorkRow, BatchRow
  <1>2. UNCHANGED <<publications, lastSeq>>
    BY DEF Recover
  <1>3. ASSUME NEW w \in Work
        PROVE  WorkKept(w) /\ (work'[w].status = "SUCCEEDED" => work'[w] = work[w])
    BY <1>1, RecoverRows DEF WorkKept, Expired, Status
  <1>4. ASSUME NEW b \in Batch, NEW w \in Work PROVE AttemptKept(b, w)
    <2>1. attempts[b][w] \in AttemptRow
      BY <1>1 DEF TypeOK
    <2>2. \/ attempts'[b][w] = attempts[b][w]
          \/ /\ attempts[b][w].status \in {"LEASED", "SEALED"}
             /\ attempts'[b][w] = [attempts[b][w] EXCEPT !.status = "EXPIRED"]
      BY DEF Recover
    <2> QED BY <2>1, <2>2 DEF AttemptKept, AttemptRow
  <1>5. ASSUME NEW b \in Batch PROVE BatchKept(b)
    BY <1>1, RecoverRows DEF BatchKept, BatchExpired, Active
  <1> QED BY <1>2, <1>3, <1>4, <1>5 DEF QuietStep

\* The publications of one commit get different sequence numbers.
LEMMA SeqOfDiffers ==
    ASSUME TypeOK, NEW S \in SUBSET Work, NEW v \in S, NEW w \in S,
           SeqOf(S, v) = SeqOf(S, w)
    PROVE  v = w
  <1> DEFINE m == Cardinality({y \in S : y <= v})
             n == Cardinality({y \in S : y <= w})
  <1>1. m \in Nat /\ n \in Nat /\ (m = n => v = w) /\ lastSeq \in Nat
    <2>1. m \in 1..Cardinality(S) /\ n \in 1..Cardinality(S)
      BY Ranks
    <2>2. m = n => v = w
      BY Ranks
    <2> QED BY <2>1, <2>2 DEF TypeOK
  <1>2. SeqOf(S, v) = lastSeq + m /\ SeqOf(S, w) = lastSeq + n
    BY DEF SeqOf
  <1> HIDE DEF m, n
  <1>3. lastSeq + m = lastSeq + n
    BY <1>2
  <1>4. m = n
    BY <1>1, <1>3
  <1> QED BY <1>1, <1>4

\* commit_batch publishes what the batch sealed, under new sequence numbers,
\* and its works' committed pointers name it.
LEMMA CommitPublishes ==
    ASSUME IInv, TypeOK', PublishedExactlyOnce, NEW b \in Batch, NEW now \in Nat,
           Commit(b, now)
    PROVE  HistoryKept /\ PublishedExactlyOnce'
  <1> DEFINE good == {w \in Members(b) : attempts[b][w].ok}
             row(w) == [seq |-> SeqOf(good, w), work |-> w, batch |-> b,
                        output |-> attempts[b][w].output]
             fresh == {row(w) : w \in good}
  <1>1. /\ TypeOK /\ Members(b) \subseteq Work /\ good \subseteq Members(b)
        /\ \A w \in Work : work[w] \in WorkRow /\ work[w].fence \in Nat
        /\ \A w \in Work, c \in Batch : attempts[c][w] \in AttemptRow
        /\ \A c \in Batch : batches[c] \in BatchRow /\ batches[c].expires \in Nat
    BY DEF IInv, TypeOK, Members, BatchRow, WorkRow
  <1>2. /\ publications' = publications \cup fresh
        /\ lastSeq' = lastSeq + Cardinality(good)
        /\ \A p \in publications : p.work \notin good
        /\ \A w \in Members(b) : HoldsFence(b, w) /\ attempts[b][w].status = "SEALED"
    BY DEF Commit
  <1>3. IsFiniteSet(good) /\ Cardinality(good) \in Nat /\ lastSeq \in Nat
    BY <1>1, ControlStoreAssumption, FS_Subset, FS_CardinalityType DEF TypeOK
  <1>4. \A w \in good : /\ SeqOf(good, w) \in Nat
                        /\ SeqOf(good, w) > lastSeq /\ SeqOf(good, w) <= lastSeq'
    BY <1>1, <1>2, <1>3, SeqOfIsLater
  <1>5. ASSUME NEW w \in Work, w \in good
        PROVE  /\ work'[w].status = "SUCCEEDED" /\ work'[w].committed = b
               /\ work'[w].seq = SeqOf(good, w) /\ work'[w].fence = work[w].fence
    <2>1. work'[w] = [Unleased(work[w]) EXCEPT !.status = "SUCCEEDED", !.committed = b,
                                               !.seq = SeqOf(good, w)]
      BY <1>5 DEF Commit, WorkWith
    <2> HIDE DEF good
    <2> QED BY <1>1, <2>1 DEF WorkRow, Unleased
  <1>6. ASSUME NEW w \in Work, w \in Members(b), w \notin good
        PROVE  work'[w].status \in {"READY", "DEAD"} /\ work'[w].fence = work[w].fence
    <2>1. work'[w] = Retried(w, now, "failed")
      BY <1>6 DEF Commit, WorkWith
    <2> QED BY <1>1, <2>1, RetriedFields DEF TypeOK
  <1>7. ASSUME NEW w \in Work, w \in Members(b)
        PROVE  /\ attempts'[b][w].output = attempts[b][w].output
               /\ attempts'[b][w].ok = attempts[b][w].ok
               /\ w \in good => attempts'[b][w].status = "SUCCEEDED"
    <2>1. attempts'[b][w] = [attempts[b][w] EXCEPT !.status = IF w \in good THEN "SUCCEEDED"
                                                             ELSE "FAILED"]
      BY <1>1, <1>7 DEF Commit, TypeOK
    <2> HIDE DEF good
    <2> QED BY <1>1, <2>1 DEF AttemptRow
  <1>8. \A w \in Work \ Members(b) : work'[w] = work[w] /\ attempts'[b][w] = attempts[b][w]
    BY CommitRows
  <1>9. \A c \in Batch \ {b} : batches'[c] = batches[c] /\ attempts'[c] = attempts[c]
    BY CommitRows
  <1> HIDE DEF good
  <1>10. HistoryKept
    <2>1. ASSUME NEW c \in Batch, NEW w \in Work PROVE AttemptKept(c, w)
      BY <1>2, <1>7, <1>8, <1>9 DEF AttemptKept
    <2>2. ASSUME NEW c \in Batch PROVE BatchKept(c)
      <3>1. batches'[b].expires = batches[b].expires
        BY <1>1 DEF Commit, BatchRow, TypeOK
      <3> QED BY <1>1, <1>9, <3>1, CommitRows DEF BatchKept
    <2>3. ASSUME NEW w \in Work PROVE WorkKept(w)
      <3>1. w \in Members(b) => work[w].status = "LEASED"
        BY <1>2 DEF HoldsFence
      <3> QED BY <1>1, <1>5, <1>6, <1>8, <3>1 DEF WorkKept
    <2>4. publications \subseteq publications'
      BY <1>2
    <2>5. ASSUME NEW p \in publications' \ publications, NEW q \in publications
          PROVE  p.seq > q.seq
      <3>1. PICK w \in good : p = row(w)
        BY <1>2, <2>5
      <3>2. p.seq = SeqOf(good, w)
        BY <3>1
      <3>3. q.seq \in 1..lastSeq
        BY DEF PublishedExactlyOnce
      <3> QED BY <1>3, <1>4, <3>2, <3>3
    <2> QED BY <2>1, <2>2, <2>3, <2>4, <2>5 DEF HistoryKept
  <1>11. PublishedExactlyOnce'
    <2>1. ASSUME NEW p \in publications
          PROVE  /\ work'[p.work].status = "SUCCEEDED"
                 /\ work'[p.work].committed = p.batch
                 /\ work'[p.work].seq = p.seq
                 /\ attempts'[p.batch][p.work].status = "SUCCEEDED"
                 /\ attempts'[p.batch][p.work].output = p.output
                 /\ p.seq \in 1..lastSeq'
      <3>1. p.work \in Work /\ p.batch \in Batch
        BY <1>1 DEF TypeOK, Publication
      <3>2. /\ work'[p.work] = work[p.work]
            /\ attempts'[p.batch][p.work] = attempts[p.batch][p.work]
        BY <1>10, <3>1 DEF PublishedExactlyOnce, HistoryKept, WorkKept, AttemptKept
      <3>3. p.seq \in 1..lastSeq'
        BY <1>2, <1>3 DEF PublishedExactlyOnce
      <3> QED BY <3>2, <3>3 DEF PublishedExactlyOnce
    <2>2. ASSUME NEW w \in good
          PROVE  /\ w \in Work /\ w \in Members(b)
                 /\ work'[w].status = "SUCCEEDED" /\ work'[w].committed = b
                 /\ work'[w].seq = SeqOf(good, w)
                 /\ attempts'[b][w].status = "SUCCEEDED"
                 /\ attempts'[b][w].output = attempts[b][w].output
                 /\ SeqOf(good, w) \in 1..lastSeq'
      BY <1>1, <1>2, <1>3, <1>4, <1>5, <1>7
    <2>3. ASSUME NEW p \in publications'
          PROVE  p \in publications \/ \E w \in good : p = row(w)
      BY <1>2
    <2>4. \A p \in publications' :
             /\ work'[p.work].status = "SUCCEEDED"
             /\ work'[p.work].committed = p.batch
             /\ work'[p.work].seq = p.seq
             /\ attempts'[p.batch][p.work].status = "SUCCEEDED"
             /\ attempts'[p.batch][p.work].output = p.output
             /\ p.seq \in 1..lastSeq'
      BY <2>1, <2>2, <2>3
    <2>5. ASSUME NEW p \in publications', NEW q \in publications',
                 p.work = q.work \/ p.seq = q.seq
          PROVE  p = q
      <3>1. CASE p \in publications /\ q \in publications
        BY <2>5, <3>1 DEF PublishedExactlyOnce
      <3>2. ASSUME NEW w \in good, NEW r \in publications
            PROVE  row(w).work # r.work /\ row(w).seq # r.seq
        <4>1. r.seq \in 1..lastSeq
          BY DEF PublishedExactlyOnce
        <4> QED BY <1>2, <1>3, <1>4, <4>1
      <3>3. ASSUME NEW v \in good, NEW w \in good, row(v).work = row(w).work \/ row(v).seq = row(w).seq
            PROVE  v = w
        BY <1>1, <3>3, SeqOfDiffers
      <3> QED BY <2>3, <2>5, <3>1, <3>2, <3>3
    <2>6. ASSUME NEW w \in Status("SUCCEEDED")' PROVE \E p \in publications' : p.work = w
      <3>1. w \in Work /\ work'[w].status = "SUCCEEDED"
        BY DEF Status
      <3>2. CASE w \in good
        <4>1. row(w) \in publications' /\ row(w).work = w
          BY <1>2, <3>2
        <4> QED BY <4>1
      <3>3. CASE w \notin good
        <4>1. w \in Status("SUCCEEDED")
          BY <1>6, <1>8, <3>1, <3>3 DEF Status
        <4> QED BY <1>2, <4>1 DEF PublishedExactlyOnce
      <3> QED BY <3>2, <3>3
    <2> QED BY <2>4, <2>5, <2>6 DEF PublishedExactlyOnce
  <1> QED BY <1>10, <1>11

\* Every operation, whoever calls it and however late, keeps history and the
\* publications.
LEMMA NextPublishes ==
    ASSUME IInv, PublishedExactlyOnce, [Next]_vars
    PROVE  HistoryKept /\ PublishedExactlyOnce'
  <1>1. /\ TypeOK /\ TypeOK' /\ RowsMatchMembership
        /\ ReadClock \subseteq Nat /\ 0..MaxTime \subseteq Nat /\ 1..MaxExtra \subseteq Nat
        /\ Available \subseteq Nat
    BY NextIInv, ReadClockIsTime, ControlStoreAssumption DEF IInv
  <1>2. CASE QuietStep
    BY <1>1, <1>2, QuietKeepsPublications
  <1>3. CASE \E b \in Batch, now \in ReadClock : Commit(b, now)
    BY <1>1, <1>3, CommitPublishes
  <1>4. ASSUME NEW S \in SUBSET Work, NEW now \in ReadClock, NEW request \in [S -> Content],
               NEW at \in [S -> Available \cup {now}], RegisterMany(S, request, at, now)
        PROVE  QuietStep
    <2>1. now \in Nat /\ at \in [S -> Nat]
      BY <1>1
    <2> QED BY <1>1, <1>4, <2>1, CommandsAreQuiet
  <1>5. ASSUME NEW b \in Batch, NEW now \in ReadClock,
               \/ \E call \in ClaimCall : Claim(b, call, now)
               \/ Heartbeat(b, now)
               \/ \E result \in Results(b) : Seal(b, result, now)
        PROVE  QuietStep
    BY <1>1, <1>5, BatchOperationsAreQuiet
  <1>6. ASSUME NEW now \in 0..MaxTime, Recover(now)
        PROVE  QuietStep
    BY <1>1, <1>6, RecoverIsQuiet
  <1>7. ASSUME NEW w \in Work, NEW operator \in Operator, NEW extra \in 1..MaxExtra,
               NEW now \in ReadClock, Replay(w, operator, extra, now)
        PROVE  QuietStep
    BY <1>1, <1>7, CommandsAreQuiet
  <1>8. ASSUME NEW S \in SUBSET Work, NEW operator \in Operator, NEW now \in ReadClock,
               NEW expected \in [S -> {c.release : c \in Content}],
               Quarantine(expected, operator, now)
        PROVE  QuietStep
    BY <1>1, <1>8, CommandsAreQuiet
  <1>9. ASSUME Tick \/ UNCHANGED vars
        PROVE  QuietStep
    BY <1>1, <1>9, WorkOnlyIsQuiet DEF Tick, vars
  <1> QED BY <1>2, <1>3, <1>4, <1>5, <1>6, <1>7, <1>8, <1>9 DEF Next

-----------------------------------------------------------------------------
(* Claims *)

\* Claims are counted by cardinality, which says nothing of infinite sets.
BudgetInv == AttemptBudget /\ \A w \in Work : IsFiniteSet(Claims(w))

\* An operation that creates no attempt keeps the count of every work.
LEMMA SameClaims ==
    ASSUME BudgetInv,
           \A b \in Batch, w \in Work :
              attempts'[b][w].status = "NONE" <=> attempts[b][w].status = "NONE",
           \A w \in Work : /\ work'[w].attempt_count = work[w].attempt_count
                           /\ InBudget(work'[w])
    PROVE  BudgetInv'
  <1>1. \A w \in Work : Claims(w)' = Claims(w)
    BY DEF Claims
  <1> QED BY <1>1 DEF BudgetInv, AttemptBudget, InBudget

\* What is known of a row before an operation.
LEMMA RowFacts ==
    ASSUME IInv, BudgetInv, NEW w \in Work
    PROVE  /\ work[w] \in WorkRow /\ InBudget(work[w])
           /\ work[w].attempt_count \in Nat /\ work[w].max_attempts \in Nat
           /\ \A b \in Batch : attempts[b][w] \in AttemptRow
  BY DEF IInv, TypeOK, BudgetInv, AttemptBudget, WorkRow

\* Work that is given back is READY with an attempt left, or DEAD without.
LEMMA RetriedInBudget ==
    ASSUME IInv, BudgetInv, NEW w \in Work, NEW now \in Nat, NEW error \in {"expired", "failed"}
    PROVE  /\ InBudget(Retried(w, now, error))
           /\ Retried(w, now, error).attempt_count = work[w].attempt_count
  <1> DEFINE s == IF work[w].attempt_count >= work[w].max_attempts THEN "DEAD" ELSE "READY"
  <1>1. /\ work[w] \in WorkRow /\ InBudget(work[w])
        /\ work[w].attempt_count \in Nat /\ work[w].max_attempts \in Nat
    BY RowFacts
  <1>2. /\ s = "READY" => work[w].attempt_count < work[w].max_attempts
        /\ s = "DEAD" => work[w].attempt_count = work[w].max_attempts
    BY <1>1 DEF InBudget
  <1>3. Retried(w, now, error) = [Unleased(work[w]) EXCEPT !.status = s,
                                      !.available_at = now, !.error = error]
    BY DEF Retried
  <1> HIDE DEF s
  <1>4. /\ Retried(w, now, error).status = s
        /\ Retried(w, now, error).attempt_count = work[w].attempt_count
        /\ Retried(w, now, error).max_attempts = work[w].max_attempts
    BY <1>1, <1>3 DEF WorkRow, Unleased
  <1> QED BY <1>1, <1>2, <1>4 DEF InBudget

\* claim adds one attempt to works that have one left, and nothing else.
LEMMA ClaimInBudget ==
    ASSUME IInv, BudgetInv, NEW b \in Batch, NEW call \in ClaimCall, NEW now \in Nat,
           Claim(b, call, now)
    PROVE  BudgetInv'
  <1> DEFINE n == Max(AdmissibleSizes(FirstGroup(call, now),
                         QueueOrder(FirstGroup(call, now)), Durations, Workers,
                         call.lease, call.minimum_items, call.max_items))
             claimed == FirstOf(FirstGroup(call, now), QueueOrder(FirstGroup(call, now)), n)
             e == now + call.lease
  <1>1. \A w \in claimed : work[w].status = "READY"
    BY ClaimedAreReady DEF Status
  <1>2. /\ \A w \in Work : attempts[b][w].status = "NONE"
        /\ \A c \in Batch \ {b} : attempts'[c] = attempts[c]
    BY DEF Claim, IInv, RowsMatchMembership, TypeOK
  <1>3. work' = [w \in Work |-> IF w \in claimed
            THEN [work[w] EXCEPT !.status = "LEASED", !.lease = b, !.expires = e,
                                 !.attempt_count = work[w].attempt_count + 1,
                                 !.fence = work[w].fence + 1]
            ELSE work[w]]
    BY DEF Claim, WorkWith
  <1>4. attempts'[b] = [w \in Work |->
            IF w \in claimed
            THEN [NoAttempt EXCEPT !.status = "LEASED", !.fence = work[w].fence + 1,
                                   !.expires = e]
            ELSE NoAttempt]
    BY DEF Claim, IInv, TypeOK
  <1> HIDE DEF claimed, e
  <1>5. ASSUME NEW w \in Work
        PROVE  /\ work'[w].attempt_count = Cardinality(Claims(w)')
               /\ InBudget(work'[w]) /\ IsFiniteSet(Claims(w)')
    <2>1. /\ work[w].attempt_count = Cardinality(Claims(w)) /\ IsFiniteSet(Claims(w))
          /\ InBudget(work[w])
      BY DEF BudgetInv, AttemptBudget
    <2>2. CASE w \in claimed
      <3>1. Claims(w)' = Claims(w) \cup {b} /\ b \notin Claims(w)
        BY <1>2, <1>4, <2>2 DEF Claims, NoAttempt
      <3>2. IsFiniteSet(Claims(w)') /\ Cardinality(Claims(w)') = Cardinality(Claims(w)) + 1
        BY <2>1, <3>1, FS_AddElement
      <3>3. work'[w] = [work[w] EXCEPT !.status = "LEASED", !.lease = b, !.expires = e,
                                       !.attempt_count = work[w].attempt_count + 1,
                                       !.fence = work[w].fence + 1]
        BY <1>3, <2>2
      <3>4. /\ work'[w].status = "LEASED" /\ work'[w].max_attempts = work[w].max_attempts
            /\ work'[w].attempt_count = work[w].attempt_count + 1
        BY <3>3, RowFacts DEF WorkRow
      <3>5. InBudget(work'[w])
        BY <1>1, <2>1, <2>2, <3>4, RowFacts DEF InBudget
      <3> QED BY <2>1, <3>2, <3>4, <3>5
    <2>3. CASE w \notin claimed
      <3>1. attempts'[b][w] = NoAttempt
        BY <1>4, <2>3
      <3>2. attempts'[b][w].status = "NONE"
        BY <3>1 DEF NoAttempt
      <3>3. Claims(w)' = Claims(w)
        BY <1>2, <3>2 DEF Claims
      <3>4. work'[w] = work[w]
        BY <1>3, <2>3
      <3> QED BY <2>1, <3>3, <3>4
    <2> QED BY <2>2, <2>3
  <1> QED BY <1>5 DEF BudgetInv, AttemptBudget, InBudget

\* Work that was never registered was never claimed.
LEMMA AbsentIsUnclaimed ==
    ASSUME IInv, BudgetInv, NEW w \in Status("ABSENT")
    PROVE  work[w].attempt_count = 0
  <1>1. w \in Work /\ work[w].fence = 0
    BY DEF IInv, RowsMatchMembership, Status
  <1>2. Claims(w) = {}
    <2>1. \A b \in Claims(w) : attempts[b][w].fence \in 1..0
      BY <1>1 DEF IInv, FencesAreUnique, Claims
    <2> QED BY <2>1
  <1> QED BY <1>1, <1>2, FS_EmptySet DEF BudgetInv, AttemptBudget

\* register, replay and quarantine keep the count and the budget.
LEMMA CommandsInBudget ==
    ASSUME IInv, BudgetInv
    PROVE  /\ \A S \in SUBSET Work, now \in Nat :
                 \A request \in [S -> Content], at \in [S -> Nat] :
                    RegisterMany(S, request, at, now) => BudgetInv'
           /\ \A w \in Work, operator \in Operator, extra \in Nat \ {0}, now \in Nat :
                 Replay(w, operator, extra, now) => BudgetInv'
           /\ \A S \in SUBSET Work, operator \in Operator, now \in Nat :
                 \A expected \in [S -> {c.release : c \in Content}] :
                    Quarantine(expected, operator, now) => BudgetInv'
  <1>1. ASSUME NEW S \in SUBSET Work, NEW now \in Nat, NEW request \in [S -> Content],
               NEW at \in [S -> Nat], RegisterMany(S, request, at, now)
        PROVE  BudgetInv'
    <2>1. ASSUME NEW w \in Work
          PROVE  work'[w].attempt_count = work[w].attempt_count /\ InBudget(work'[w])
      <3>1. CASE w \in S \cap Status("ABSENT")
        <4>1. work'[w] = Registered(request[w], at[w], now)
          BY <1>1, <3>1 DEF RegisterMany, WorkWith
        <4>2. request[w].max_attempts \in Nat \ {0}
          BY <3>1, ControlStoreAssumption
        <4>3. /\ work'[w].attempt_count = 0 /\ work'[w].status = "READY"
              /\ work'[w].max_attempts = request[w].max_attempts
          BY <4>1 DEF Registered, NoWork
        <4>4. work[w].attempt_count = 0
          BY <3>1, AbsentIsUnclaimed
        <4> QED BY <4>2, <4>3, <4>4 DEF InBudget
      <3>2. CASE w \notin S \cap Status("ABSENT")
        <4>1. work'[w] = work[w]
          BY <1>1, <3>2 DEF RegisterMany, WorkWith
        <4> QED BY <4>1, RowFacts
      <3> QED BY <3>1, <3>2
    <2> QED BY <1>1, <2>1, SameClaims DEF RegisterMany
  <1>2. ASSUME NEW v \in Work, NEW operator \in Operator, NEW extra \in Nat \ {0},
               NEW now \in Nat, Replay(v, operator, extra, now)
        PROVE  BudgetInv'
    <2>1. ASSUME NEW w \in Work
          PROVE  work'[w].attempt_count = work[w].attempt_count /\ InBudget(work'[w])
      <3>1. CASE w = v
        <4>1. work'[v] = [work[v] EXCEPT !.status = "READY",
                             !.max_attempts = work[v].attempt_count + extra,
                             !.available_at = now, !.generation = work[v].generation + 1,
                             !.error = None]
          BY <1>2 DEF Replay, IInv, TypeOK
        <4>2. /\ work'[v].attempt_count = work[v].attempt_count
              /\ work'[v].max_attempts = work[v].attempt_count + extra
              /\ work'[v].status = "READY"
          BY <4>1, RowFacts DEF WorkRow
        <4> QED BY <3>1, <4>2, RowFacts DEF InBudget
      <3>2. CASE w # v
        <4>1. work'[w] = work[w]
          BY <1>2, <3>2 DEF Replay, IInv, TypeOK
        <4> QED BY <4>1, RowFacts
      <3> QED BY <3>1, <3>2
    <2> QED BY <1>2, <2>1, SameClaims DEF Replay
  <1>3. ASSUME NEW S \in SUBSET Work, NEW operator \in Operator, NEW now \in Nat,
               NEW expected \in [S -> {c.release : c \in Content}],
               Quarantine(expected, operator, now)
        PROVE  BudgetInv'
    <2>1. ASSUME NEW w \in Work
          PROVE  work'[w].attempt_count = work[w].attempt_count /\ InBudget(work'[w])
      <3>1. CASE w \in S \cap Status("READY")
        <4>1. work'[w] = [work[w] EXCEPT !.status = "DEAD", !.available_at = now,
                                         !.error = operator]
          BY <1>3, <3>1 DEF Quarantine, WorkWith
        <4>2. /\ work'[w].attempt_count = work[w].attempt_count
              /\ work'[w].max_attempts = work[w].max_attempts
              /\ work'[w].status = "DEAD" /\ work'[w].error = operator
          BY <4>1, RowFacts DEF WorkRow
        <4> QED BY <4>2, RowFacts DEF InBudget
      <3>2. CASE w \notin S \cap Status("READY")
        <4>1. work'[w] = work[w]
          BY <1>3, <3>2 DEF Quarantine, WorkWith
        <4> QED BY <4>1, RowFacts
      <3> QED BY <3>1, <3>2
    <2> QED BY <1>3, <2>1, SameClaims DEF Quarantine
  <1> QED BY <1>1, <1>2, <1>3

\* The operations on a claimed batch create no attempt.
LEMMA BatchOperationsInBudget ==
    ASSUME IInv, BudgetInv, NEW b \in Batch, NEW now \in Nat,
           \/ Heartbeat(b, now)
           \/ \E result \in Results(b) : Seal(b, result, now)
           \/ Commit(b, now)
    PROVE  BudgetInv'
  <1>1. /\ TypeOK /\ Members(b) \subseteq Work
        /\ \A w \in Work : attempts[b][w].status # "NONE" <=> w \in Members(b)
    BY DEF IInv, TypeOK, Members, BatchRow, RowsMatchMembership
  <1>2. CASE Heartbeat(b, now)
    <2> DEFINE e == Extended(b, now)
    <2>1. ASSUME NEW c \in Batch, NEW w \in Work
          PROVE  attempts'[c][w].status = "NONE" <=> attempts[c][w].status = "NONE"
      <3>1. \/ attempts'[c][w] = attempts[c][w]
            \/ attempts'[c][w] = [attempts[c][w] EXCEPT !.expires = e]
        BY <1>1, <1>2 DEF Heartbeat, TypeOK
      <3> QED BY <3>1, RowFacts DEF AttemptRow
    <2>2. ASSUME NEW w \in Work
          PROVE  work'[w].attempt_count = work[w].attempt_count /\ InBudget(work'[w])
      <3>1. \/ work'[w] = work[w]
            \/ /\ work[w].status = "LEASED"
               /\ work'[w] = [work[w] EXCEPT !.expires = e]
        BY <1>2 DEF Heartbeat, HoldsFence, WorkWith
      <3> QED BY <3>1, RowFacts DEF WorkRow, InBudget
    <2> QED BY <2>1, <2>2, SameClaims
  <1>3. ASSUME NEW result \in Results(b), Seal(b, result, now)
        PROVE  BudgetInv'
    <2>1. ASSUME NEW c \in Batch, NEW w \in Work
          PROVE  attempts'[c][w].status = "NONE" <=> attempts[c][w].status = "NONE"
      <3>1. \/ attempts'[c][w] = attempts[c][w]
            \/ /\ c = b /\ w \in Members(b)
               /\ attempts'[c][w] = [attempts[b][w] EXCEPT !.status = "SEALED",
                                        !.output = result[w].output, !.ok = result[w].ok]
        BY <1>1, <1>3 DEF Seal, TypeOK
      <3> QED BY <1>1, <3>1, RowFacts DEF AttemptRow
    <2> QED BY <1>3, <2>1, RowFacts, SameClaims DEF Seal
  <1>4. CASE Commit(b, now)
    <2> DEFINE good == {w \in Members(b) : attempts[b][w].ok}
    <2>1. \A c \in Batch, w \in Work :
             attempts'[c][w].status = "NONE" <=> attempts[c][w].status = "NONE"
      BY <1>4, CommitRows
    <2>2. ASSUME NEW w \in Work
          PROVE  work'[w].attempt_count = work[w].attempt_count /\ InBudget(work'[w])
      <3>1. CASE w \in good
        <4>1. work'[w] = [Unleased(work[w]) EXCEPT !.status = "SUCCEEDED", !.committed = b,
                                                   !.seq = SeqOf(good, w)]
          BY <1>4, <3>1 DEF Commit, WorkWith
        <4> HIDE DEF good
        <4>2. /\ work'[w].attempt_count = work[w].attempt_count
              /\ work'[w].max_attempts = work[w].max_attempts
              /\ work'[w].status = "SUCCEEDED"
          BY <4>1, RowFacts DEF WorkRow, Unleased
        <4> QED BY <4>2, RowFacts DEF InBudget
      <3>2. CASE w \in Members(b) /\ w \notin good
        <4>1. work'[w] = Retried(w, now, "failed")
          BY <1>4, <3>2 DEF Commit, WorkWith
        <4> QED BY <4>1, RetriedInBudget
      <3>3. CASE w \notin Members(b)
        BY <1>4, <3>3, CommitRows, RowFacts
      <3> QED BY <3>1, <3>2, <3>3
    <2> QED BY <2>1, <2>2, SameClaims
  <1> QED BY <1>2, <1>3, <1>4

\* recover gives works back and creates no attempt.
LEMMA RecoverInBudget ==
    ASSUME IInv, BudgetInv, NEW now \in Nat, Recover(now)
    PROVE  BudgetInv'
  <1>1. \A c \in Batch, w \in Work :
           attempts'[c][w].status = "NONE" <=> attempts[c][w].status = "NONE"
    BY RecoverRows
  <1>2. ASSUME NEW w \in Work
        PROVE  work'[w].attempt_count = work[w].attempt_count /\ InBudget(work'[w])
    <2>1. work'[w] = work[w] \/ work'[w] = Retried(w, now, "expired")
      BY DEF Recover, WorkWith
    <2> QED BY <2>1, RowFacts, RetriedInBudget
  <1> QED BY <1>1, <1>2, SameClaims

(* The queue *)

\* The first n of a queue are its front: who is before one of them is one.
LEMMA FrontOfQueue ==
    ASSUME NEW S, IsFiniteSet(S), NEW before, NEW n \in Nat,
           \A u, v, w \in S : <<u, v>> \in before /\ <<v, w>> \in before => <<u, w>> \in before,
           NEW w \in FirstOf(S, before, n), NEW v \in S, <<v, w>> \in before
    PROVE  v \in FirstOf(S, before, n)
  <1> DEFINE A == {u \in S : <<u, v>> \in before}
             B == {u \in S : <<u, w>> \in before}
  <1>1. w \in S /\ Cardinality(B) < n
    BY DEF FirstOf
  <1>2. A \subseteq B /\ B \subseteq S
    BY <1>1
  <1> HIDE DEF A, B
  <1>3. IsFiniteSet(B)
    BY <1>2, FS_Subset
  <1>4. Cardinality(A) <= Cardinality(B) /\ Cardinality(A) \in Nat /\ Cardinality(B) \in Nat
    BY <1>2, <1>3, FS_Subset, FS_CardinalityType
  <1>5. Cardinality(A) < n
    BY <1>1, <1>4
  <1> QED BY <1>5 DEF A, FirstOf

\* A claim that admits its minimum takes a number of works.
LEMMA PrefixIsNumber ==
    ASSUME NEW S, IsFiniteSet(S), NEW before, NEW dur, NEW lease, NEW minimum \in Nat,
           NEW maximum \in Nat,
           minimum \in AdmissibleSizes(S, before, dur, Workers, lease, minimum, maximum)
    PROVE  Max(AdmissibleSizes(S, before, dur, Workers, lease, minimum, maximum)) \in Nat
  <1> DEFINE sizes == AdmissibleSizes(S, before, dur, Workers, lease, minimum, maximum)
             c == Cardinality(S)
             m == Min({maximum, c})
  <1>1. c \in Nat
    BY FS_CardinalityType
  <1> HIDE DEF c
  <1>2. m \in {maximum, c} /\ m <= maximum
    BY <1>1, MinOfTwo
  <1>3. sizes \subseteq minimum..m
    BY DEF AdmissibleSizes, c
  <1> HIDE DEF sizes, m
  <1>4. sizes \in SUBSET Nat /\ \A x \in sizes : x <= maximum
    BY <1>1, <1>2, <1>3
  <1>5. sizes # {}
    BY DEF sizes
  <1>6. Max(sizes) \in sizes
    BY <1>4, <1>5, MaxOfBounded
  <1> QED BY <1>4, <1>6 DEF sizes

\* ORDER BY created_at, work_id is transitive.
LEMMA QueueIsOrdered ==
    ASSUME TypeOK, NEW S \in SUBSET Work
    PROVE  \A u, v, w \in S :
              <<u, v>> \in QueueOrder(S) /\ <<v, w>> \in QueueOrder(S) => <<u, w>> \in QueueOrder(S)
  <1>1. \A w \in S : work[w].created_at \in Nat /\ w \in Nat
    BY ControlStoreAssumption DEF TypeOK, WorkRow
  <1>2. ASSUME NEW u \in S, NEW v \in S, NEW w \in S, QueuedBefore(u, v), QueuedBefore(v, w)
        PROVE  QueuedBefore(u, w)
    BY <1>1, <1>2 DEF QueuedBefore
  <1> QED BY <1>2 DEF QueueOrder

\* A claim takes the front of one runtime's queue.
LEMMA ClaimTakesTheFront ==
    ASSUME TypeOK, NEW b \in Batch, NEW call \in ClaimCall, NEW now \in ReadClock,
           Claim(b, call, now), NEW w \in batches'[b].members,
           NEW v \in Status("READY"), v \in call.scope,
           work[v].content.runtime = work[w].content.runtime, QueuedBefore(v, w),
           \A t \in ReadClock : work[v].available_at <= t
    PROVE  v \in batches'[b].members
  <1> DEFINE group == FirstGroup(call, now)
             sizes == AdmissibleSizes(group, QueueOrder(group), Durations, Workers,
                                      call.lease, call.minimum_items, call.max_items)
             claimed == FirstOf(group, QueueOrder(group), Max(sizes))
             eligible == Eligible(call, now)
  <1>1. call.minimum_items \in Nat /\ call.max_items \in Nat
    BY ControlStoreAssumption
  <1>2. batches'[b].members = claimed /\ call.minimum_items \in sizes /\ group # {}
    <2>1. /\ batches' = [batches EXCEPT ![b] =
               [status |-> "LEASED", members |-> claimed, expires |-> now + call.lease]]
          /\ call.minimum_items \in sizes /\ group # {}
      BY DEF Claim
    <2> HIDE DEF claimed, sizes, group
    <2> QED BY <2>1 DEF TypeOK
  <1>3. \E k : group = OfRuntime(eligible, k)
    <2> DEFINE large == {k \in {work[x].content.runtime : x \in eligible} :
                            Cardinality(OfRuntime(eligible, k)) >= call.minimum_items}
               first(k) == Min({work[x].created_at : x \in OfRuntime(eligible, k)})
    <2>1. group = IF large = {} THEN {}
                  ELSE OfRuntime(eligible, CHOOSE k \in large : \A j \in large :
                          first(k) < first(j) \/ (first(k) = first(j) /\ k <= j))
      BY DEF FirstGroup
    <2> HIDE DEF large, first, eligible, group
    <2> QED BY <1>2, <2>1
  <1>4. PICK k : group = OfRuntime(eligible, k)
    BY <1>3
  <1>5. group \in SUBSET Work /\ IsFiniteSet(group)
    BY <1>4, ControlStoreAssumption, FS_Subset DEF OfRuntime, Eligible, Status
  <1>6. w \in group
    BY <1>2 DEF FirstOf
  <1>7. v \in group
    <2>1. work[w].content.runtime = k
      BY <1>4, <1>6 DEF OfRuntime
    <2>2. v \in eligible
      BY DEF Eligible
    <2> QED BY <1>4, <2>1, <2>2 DEF OfRuntime
  <1>8. Max(sizes) \in Nat
    BY <1>1, <1>2, <1>5, PrefixIsNumber
  <1>9. <<v, w>> \in QueueOrder(group)
    BY <1>6, <1>7 DEF QueueOrder
  <1> HIDE DEF group, sizes
  <1>10. v \in claimed
    BY <1>2, <1>5, <1>7, <1>8, <1>9, FrontOfQueue, QueueIsOrdered
  <1> QED BY <1>2, <1>10

(* Pointers *)

\* The strengthening: only succeeded work has a committed pointer, and an
\* attempt succeeds only together with its publication.
PointersAgree ==
    /\ \A w \in Work : work[w].committed # None => work[w].status = "SUCCEEDED"
    /\ \A b \in Batch, w \in Work : attempts[b][w].status = "SUCCEEDED" =>
          \E p \in publications : p.work = w /\ p.batch = b

\* What every operation but a commit does: it sets no pointer and makes no
\* attempt succeed.
PointsNowhere ==
    /\ \A w \in Work : work'[w].committed \in {work[w].committed, None}
    /\ \A b \in Batch, w \in Work : attempts'[b][w].status = "SUCCEEDED" =>
          attempts[b][w].status = "SUCCEEDED"

\* Rows of the tables are rows.
LEMMA TableRows ==
    ASSUME IInv
    PROVE  /\ TypeOK
           /\ \A w \in Work : work[w] \in WorkRow
           /\ \A b \in Batch : batches[b] \in BatchRow /\ Members(b) \subseteq Work
           /\ \A b \in Batch, w \in Work : attempts[b][w] \in AttemptRow
  BY DEF IInv, TypeOK, BatchRow, Members

\* register, replay and quarantine.
LEMMA CommandsPointNowhere ==
    ASSUME IInv, NEW now,
           \/ \E S, request, at : RegisterMany(S, request, at, now)
           \/ \E w \in Work : \E operator, extra : Replay(w, operator, extra, now)
           \/ \E expected, operator : Quarantine(expected, operator, now)
    PROVE  PointsNowhere
  <1>1. TypeOK /\ \A w \in Work : work[w] \in WorkRow
    BY TableRows
  <1>2. attempts' = attempts
    BY DEF RegisterMany, Replay, Quarantine
  <1>3. ASSUME NEW S, NEW request, NEW at, RegisterMany(S, request, at, now), NEW w \in Work
        PROVE  work'[w].committed \in {work[w].committed, None}
    <2>1. work'[w] = work[w] \/ work'[w] = Registered(request[w], at[w], now)
      BY <1>3 DEF RegisterMany, WorkWith
    <2> QED BY <2>1 DEF Registered, NoWork
  <1>4. ASSUME NEW v \in Work, NEW operator, NEW extra, Replay(v, operator, extra, now),
               NEW w \in Work
        PROVE  work'[w].committed \in {work[w].committed, None}
    <2>1. w # v => work'[w] = work[w]
      BY <1>1, <1>4 DEF Replay, TypeOK
    <2>2. work'[v] = [work[v] EXCEPT !.status = "READY",
                         !.max_attempts = work[v].attempt_count + extra,
                         !.available_at = now, !.generation = work[v].generation + 1,
                         !.error = None]
      BY <1>1, <1>4 DEF Replay, TypeOK
    <2> QED BY <1>1, <2>1, <2>2 DEF WorkRow
  <1>5. ASSUME NEW expected, NEW operator, Quarantine(expected, operator, now), NEW w \in Work
        PROVE  work'[w].committed \in {work[w].committed, None}
    <2>1. \/ work'[w] = work[w]
          \/ work'[w] = [work[w] EXCEPT !.status = "DEAD", !.available_at = now,
                                        !.error = operator]
      BY <1>5 DEF Quarantine, WorkWith
    <2> QED BY <1>1, <2>1 DEF WorkRow
  <1> QED BY <1>2, <1>3, <1>4, <1>5 DEF PointsNowhere

\* claim, heartbeat and seal.
LEMMA BatchOperationsPointNowhere ==
    ASSUME IInv, NEW b \in Batch, NEW now,
           \/ \E call \in ClaimCall : Claim(b, call, now)
           \/ Heartbeat(b, now)
           \/ \E result \in Results(b) : Seal(b, result, now)
    PROVE  PointsNowhere
  <1>1. /\ TypeOK /\ \A w \in Work : work[w] \in WorkRow
        /\ \A c \in Batch, w \in Work : attempts[c][w] \in AttemptRow
    BY TableRows
  <1>2. ASSUME NEW call \in ClaimCall, Claim(b, call, now)
        PROVE  PointsNowhere
    <2> DEFINE n == Max(AdmissibleSizes(FirstGroup(call, now),
                           QueueOrder(FirstGroup(call, now)), Durations, Workers,
                           call.lease, call.minimum_items, call.max_items))
               claimed == FirstOf(FirstGroup(call, now), QueueOrder(FirstGroup(call, now)), n)
               e == now + call.lease
    <2>1. work' = [v \in Work |-> IF v \in claimed
              THEN [work[v] EXCEPT !.status = "LEASED", !.lease = b, !.expires = e,
                                   !.attempt_count = work[v].attempt_count + 1,
                                   !.fence = work[v].fence + 1]
              ELSE work[v]]
      BY <1>2 DEF Claim, WorkWith
    <2>2. attempts' = [attempts EXCEPT ![b] = [v \in Work |->
              IF v \in claimed
              THEN [NoAttempt EXCEPT !.status = "LEASED", !.fence = work[v].fence + 1,
                                     !.expires = e]
              ELSE NoAttempt]]
      BY <1>2 DEF Claim
    <2> HIDE DEF claimed, e
    <2>3. \A w \in Work : work'[w].committed = work[w].committed
      BY <1>1, <2>1 DEF WorkRow
    <2>4. \A w \in Work : attempts'[b][w].status # "SUCCEEDED"
      BY <1>1, <2>2 DEF TypeOK, NoAttempt
    <2>5. \A c \in Batch \ {b} : attempts'[c] = attempts[c]
      BY <1>1, <2>2 DEF TypeOK
    <2> QED BY <2>3, <2>4, <2>5 DEF PointsNowhere
  <1>3. CASE Heartbeat(b, now)
    <2> DEFINE e == Extended(b, now)
    <2>1. /\ work' = WorkWith([w \in Members(b) |-> [work[w] EXCEPT !.expires = e]])
          /\ attempts' = [attempts EXCEPT ![b] = [w \in Work |->
                IF attempts[b][w].status = "LEASED" THEN [attempts[b][w] EXCEPT !.expires = e]
                ELSE attempts[b][w]]]
      BY <1>3 DEF Heartbeat
    <2> HIDE DEF e
    <2>2. ASSUME NEW w \in Work PROVE work'[w].committed = work[w].committed
      <3>1. work'[w] = work[w] \/ work'[w] = [work[w] EXCEPT !.expires = e]
        BY <2>1 DEF WorkWith
      <3> QED BY <1>1, <3>1 DEF WorkRow
    <2>3. ASSUME NEW w \in Work PROVE attempts'[b][w].status = attempts[b][w].status
      <3>1. \/ attempts'[b][w] = attempts[b][w]
            \/ attempts'[b][w] = [attempts[b][w] EXCEPT !.expires = e]
        BY <1>1, <2>1 DEF TypeOK
      <3> QED BY <1>1, <3>1 DEF AttemptRow
    <2>4. \A c \in Batch \ {b} : attempts'[c] = attempts[c]
      BY <1>1, <2>1 DEF TypeOK
    <2> QED BY <2>2, <2>3, <2>4 DEF PointsNowhere
  <1>4. ASSUME NEW result \in Results(b), Seal(b, result, now)
        PROVE  PointsNowhere
    <2>1. ASSUME NEW w \in Work, attempts'[b][w].status = "SUCCEEDED"
          PROVE  attempts[b][w].status = "SUCCEEDED"
      <3>1. \/ attempts'[b][w] = attempts[b][w]
            \/ attempts'[b][w] = [attempts[b][w] EXCEPT !.status = "SEALED",
                                     !.output = result[w].output, !.ok = result[w].ok]
        BY <1>1, <1>4 DEF Seal, TypeOK
      <3> QED BY <1>1, <2>1, <3>1 DEF AttemptRow
    <2>2. work' = work /\ \A c \in Batch \ {b} : attempts'[c] = attempts[c]
      BY <1>1, <1>4 DEF Seal, TypeOK
    <2> QED BY <2>1, <2>2 DEF PointsNowhere
  <1> QED BY <1>2, <1>3, <1>4

\* What is given back keeps its pointer.
LEMMA RecoverPointsNowhere ==
    ASSUME IInv, NEW now \in Nat, Recover(now)
    PROVE  PointsNowhere
  <1>1. TypeOK /\ \A b \in Batch, w \in Work : attempts[b][w] \in AttemptRow
    BY TableRows
  <1>2. ASSUME NEW w \in Work PROVE work'[w].committed = work[w].committed
    <2>1. work'[w] = work[w] \/ work'[w] = Retried(w, now, "expired")
      BY DEF Recover, WorkWith
    <2> QED BY <1>1, <2>1, RetriedFields DEF TypeOK
  <1>3. ASSUME NEW b \in Batch, NEW w \in Work, attempts'[b][w].status = "SUCCEEDED"
        PROVE  attempts[b][w].status = "SUCCEEDED"
    <2>1. \/ attempts'[b][w] = attempts[b][w]
          \/ attempts'[b][w] = [attempts[b][w] EXCEPT !.status = "EXPIRED"]
      BY DEF Recover
    <2> QED BY <1>1, <1>3, <2>1 DEF AttemptRow
  <1> QED BY <1>2, <1>3 DEF PointsNowhere

\* A commit sets the pointers of what it publishes, and only of that.
LEMMA CommitPointsAgree ==
    ASSUME IInv, PointersAgree, NEW b \in Batch, NEW now \in Nat, Commit(b, now)
    PROVE  PointersAgree'
  <1> DEFINE good == {w \in Members(b) : attempts[b][w].ok}
             row(w) == [seq |-> SeqOf(good, w), work |-> w, batch |-> b,
                        output |-> attempts[b][w].output]
  <1>1. /\ TypeOK /\ Members(b) \subseteq Work /\ \A w \in Work : work[w] \in WorkRow
        /\ \A w \in Work : attempts[b][w] \in AttemptRow
    BY TableRows
  <1>2. /\ publications' = publications \cup {row(w) : w \in good}
        /\ \A w \in Members(b) : work[w].committed = None
    BY DEF Commit
  <1>3. \A w \in good : row(w) \in publications' /\ row(w).work = w /\ row(w).batch = b
    BY <1>2
  <1>4. \A w \in good : work'[w].status = "SUCCEEDED"
    <2>1. \A w \in good : work'[w] = [Unleased(work[w]) EXCEPT !.status = "SUCCEEDED",
                                         !.committed = b, !.seq = SeqOf(good, w)]
      BY <1>1 DEF Commit, WorkWith
    <2>2. \A w \in good : w \in Work
      BY <1>1
    <2> HIDE DEF good
    <2> QED BY <1>1, <2>1, <2>2 DEF WorkRow, Unleased
  <1>5. ASSUME NEW w \in Members(b), w \notin good
        PROVE  work'[w].committed = None /\ attempts'[b][w].status # "SUCCEEDED"
    <2>1. work'[w] = Retried(w, now, "failed")
      BY <1>1, <1>5 DEF Commit, WorkWith
    <2>2. attempts'[b][w] = [attempts[b][w] EXCEPT !.status = "FAILED"]
      BY <1>1, <1>5 DEF Commit, TypeOK
    <2>3. w \in Work /\ work[w] \in WorkRow /\ attempts[b][w] \in AttemptRow
      BY <1>1, <1>5 DEF TypeOK
    <2>4. work'[w].committed = None
      BY <1>2, <1>5, <2>1, <2>3, RetriedFields
    <2>5. attempts'[b][w].status # "SUCCEEDED"
      BY <2>2, <2>3 DEF AttemptRow
    <2> QED BY <2>4, <2>5
  <1>6. /\ \A w \in Work \ Members(b) : work'[w] = work[w] /\ attempts'[b][w] = attempts[b][w]
        /\ \A c \in Batch \ {b} : attempts'[c] = attempts[c]
    BY CommitRows
  <1>7. publications \subseteq publications'
    BY <1>2
  <1> HIDE DEF good, row
  <1>8. ASSUME NEW w \in Work, work'[w].committed # None
        PROVE  work'[w].status = "SUCCEEDED"
    BY <1>4, <1>5, <1>6, <1>8 DEF PointersAgree
  <1>9. ASSUME NEW c \in Batch, NEW w \in Work, attempts'[c][w].status = "SUCCEEDED"
        PROVE  \E p \in publications' : p.work = w /\ p.batch = c
    <2>1. CASE c = b /\ w \in good
      BY <1>3, <2>1
    <2>2. CASE ~(c = b /\ w \in good)
      <3>1. attempts[c][w].status = "SUCCEEDED"
        BY <1>5, <1>6, <1>9, <2>2
      <3> QED BY <1>7, <3>1 DEF PointersAgree
    <2> QED BY <2>1, <2>2
  <1> QED BY <1>8, <1>9 DEF PointersAgree

\* Every operation keeps the pointers in agreement.
LEMMA NextPointersAgree ==
    ASSUME IInv, PublishedExactlyOnce, PointersAgree, [Next]_vars
    PROVE  PointersAgree'
  <1>1. ReadClock \subseteq Nat /\ 0..MaxTime \subseteq Nat
    BY ReadClockIsTime, ControlStoreAssumption DEF IInv
  <1>2. CASE PointsNowhere
    <2>1. HistoryKept
      BY NextPublishes
    <2>2. ASSUME NEW w \in Work, work'[w].committed # None
          PROVE  work'[w].status = "SUCCEEDED"
      <3>1. work[w].committed # None
        BY <1>2, <2>2 DEF PointsNowhere
      <3> QED BY <2>1, <3>1 DEF PointersAgree, HistoryKept, WorkKept
    <2>3. ASSUME NEW b \in Batch, NEW w \in Work, attempts'[b][w].status = "SUCCEEDED"
          PROVE  \E p \in publications' : p.work = w /\ p.batch = b
      BY <1>2, <2>1, <2>3 DEF PointersAgree, PointsNowhere, HistoryKept
    <2> QED BY <2>2, <2>3 DEF PointersAgree
  <1>3. CASE \E b \in Batch, now \in ReadClock : Commit(b, now)
    BY <1>1, <1>3, CommitPointsAgree
  <1>4. CASE \/ \E S \in SUBSET Work, now \in ReadClock :
                   \E request \in [S -> Content], at \in [S -> Available \cup {now}] :
                      RegisterMany(S, request, at, now)
             \/ \E w \in Work, operator \in Operator, extra \in 1..MaxExtra, now \in ReadClock :
                   Replay(w, operator, extra, now)
             \/ \E S \in SUBSET Work, operator \in Operator, now \in ReadClock :
                   \E expected \in [S -> {c.release : c \in Content}] :
                      Quarantine(expected, operator, now)
    BY <1>2, <1>4, CommandsPointNowhere
  <1>5. CASE \E b \in Batch, now \in ReadClock :
                \/ \E call \in ClaimCall : Claim(b, call, now)
                \/ Heartbeat(b, now)
                \/ \E result \in Results(b) : Seal(b, result, now)
    BY <1>2, <1>5, BatchOperationsPointNowhere
  <1>6. CASE \E now \in 0..MaxTime : Recover(now)
    BY <1>1, <1>2, <1>6, RecoverPointsNowhere
  <1>7. CASE Tick \/ UNCHANGED vars
    BY <1>2, <1>7 DEF Tick, vars, PointsNowhere
  <1> QED BY <1>3, <1>4, <1>5, <1>6, <1>7 DEF Next

(* Findings *)

\* Leases that ran out and sealed batches that wait are all there is to find.
LeaseKinds == {"EXPIRED_LEASE", "SEALED_UNCOMMITTED_ATTEMPT"}

\* With the pointers in agreement there is nothing else to detect, at any time.
LEMMA DetectedAreLeases ==
    ASSUME IInv, PublishedExactlyOnce, PointersAgree, NEW now, NEW f \in Detected(now)
    PROVE  f.kind \in LeaseKinds
  <1>1. ASSUME NEW w \in Work PROVE ~InvalidPointer(w)
    <2> SUFFICES ASSUME work[w].committed # None
                 PROVE  /\ attempts[work[w].committed][w].status = "SUCCEEDED"
                        /\ \E p \in publications : p.work = w /\ p.batch = work[w].committed
                                                   /\ p.seq = work[w].seq
      BY DEF InvalidPointer
    <2>1. PICK p \in publications : p.work = w
      BY DEF PointersAgree, PublishedExactlyOnce, Status
    <2> QED BY <2>1 DEF PublishedExactlyOnce
  <1>2. ASSUME NEW w \in Work PROVE ~MissingPointer(w)
    <2>1. \A p \in publications : p.work = w => work[w].committed # None
      BY ControlStoreAssumption, TableRows DEF PublishedExactlyOnce, TypeOK, Publication
    <2>2. work[w].status = "SUCCEEDED" => \E p \in publications : p.work = w
      BY DEF PublishedExactlyOnce, Status
    <2>3. \A b \in Batch : attempts[b][w].status = "SUCCEEDED" =>
             \E p \in publications : p.work = w
      BY DEF PointersAgree
    <2> QED BY <2>1, <2>2, <2>3 DEF MissingPointer
  <1>3. \A b \in Batch : ~MembershipMismatch(b)
    BY TableRows DEF IInv, RowsMatchMembership, MembershipMismatch
  <1>4. CASE f \in {g \in [kind : {"INVALID_COMMITTED_POINTER", "MISSING_COMMITTED_POINTER",
                                   "EXPIRED_LEASE"}, work : Work, batch : {None}] :
                CASE g.kind = "INVALID_COMMITTED_POINTER" -> InvalidPointer(g.work)
                  [] g.kind = "MISSING_COMMITTED_POINTER" -> MissingPointer(g.work)
                  [] g.kind = "EXPIRED_LEASE" -> ExpiredLease(g.work, now)}
    <2>1. f.work \in Work
      BY <1>4
    <2>2. CASE f.kind = "INVALID_COMMITTED_POINTER"
      BY <1>1, <1>4, <2>1, <2>2
    <2>3. CASE f.kind = "MISSING_COMMITTED_POINTER"
      BY <1>2, <1>4, <2>1, <2>3
    <2>4. CASE f.kind = "EXPIRED_LEASE"
      BY <2>4 DEF LeaseKinds
    <2> QED BY <1>4, <2>2, <2>3, <2>4
  <1>5. CASE f \in {g \in [kind : {"SEALED_UNCOMMITTED_ATTEMPT"}, work : Work, batch : Batch] :
                       SealedUncommitted(g.batch, g.work)}
    BY <1>5 DEF LeaseKinds
  <1>6. CASE f \in {g \in [kind : {"MEMBERSHIP_HASH_MISMATCH"}, work : {None}, batch : Batch] :
                       MembershipMismatch(g.batch)}
    BY <1>3, <1>6
  <1> QED BY <1>4, <1>5, <1>6 DEF Detected

\* Only a claim makes a batch out of nothing.
LEMMA GrantedByClaim ==
    ASSUME IInv, [Next]_vars, NEW b \in Batch, batches[b].status = "NONE",
           batches'[b].status # "NONE"
    PROVE  \E call \in ClaimCall, now \in ReadClock : Claim(b, call, now)
  <1>1. TypeOK /\ batches' # batches
    BY DEF IInv
  <1>2. ASSUME NEW c \in Batch, NEW now \in ReadClock,
               \/ Heartbeat(c, now)
               \/ \E result \in Results(c) : Seal(c, result, now)
               \/ Commit(c, now)
        PROVE  FALSE
    <2>1. batches[c].status # "NONE" /\ \A d \in Batch \ {c} : batches'[d] = batches[d]
      BY <1>1, <1>2 DEF Heartbeat, Seal, Commit, TypeOK
    <2> QED BY <2>1
  <1>3. ASSUME NEW now \in 0..MaxTime, Recover(now)
        PROVE  FALSE
    BY <1>3 DEF Recover, BatchExpired, Active
  <1>4. ASSUME NEW c \in Batch, NEW now \in ReadClock, NEW call \in ClaimCall,
               Claim(c, call, now)
        PROVE  c = b
    <2>1. \A d \in Batch \ {c} : batches'[d] = batches[d]
      BY <1>1, <1>4 DEF Claim, TypeOK
    <2> QED BY <2>1
  <1>5. \/ \E c \in Batch, now \in ReadClock :
              \/ \E call \in ClaimCall : Claim(c, call, now)
              \/ Heartbeat(c, now)
              \/ \E result \in Results(c) : Seal(c, result, now)
              \/ Commit(c, now)
        \/ \E now \in 0..MaxTime : Recover(now)
        \/ batches' = batches
    <2>1. \A S, request, at, now : RegisterMany(S, request, at, now) => batches' = batches
      BY DEF RegisterMany
    <2>2. \A w, operator, extra, now : Replay(w, operator, extra, now) => batches' = batches
      BY DEF Replay
    <2>3. \A expected, operator, now : Quarantine(expected, operator, now) => batches' = batches
      BY DEF Quarantine
    <2>4. Tick \/ UNCHANGED vars => batches' = batches
      BY DEF Tick, vars
    <2> QED BY <2>1, <2>2, <2>3, <2>4 DEF Next
  <1>6. \E c \in Batch, now \in ReadClock, call \in ClaimCall : Claim(c, call, now)
    BY <1>1, <1>2, <1>3, <1>5
  <1> QED BY <1>4, <1>6

-----------------------------------------------------------------------------
(* Theorems *)

\* A published work has exactly one publication, the one its committed pointer
\* names, with the output its winning attempt sealed, and no two publications
\* share a sequence number, however late claims, commits and recoveries come.
THEOREM PublishedOnce == Spec => []PublishedExactlyOnce
  <1>1. Init => PublishedExactlyOnce
    BY DEF Init, PublishedExactlyOnce, Status, NoWork
  <1>2. IInv /\ PublishedExactlyOnce /\ [Next]_vars => PublishedExactlyOnce'
    BY NextPublishes
  <1> QED BY <1>1, <1>2, Invariance, PTL DEF Spec

\* No operation ever changes a sealed output, a finished attempt or batch, a
\* succeeded work or a publication, shortens a lease or lowers a fence.
THEOREM HistoryImmutable == Spec => HistoryIsImmutable
  <1>1. IInv /\ PublishedExactlyOnce /\ [Next]_vars => [HistoryKept]_vars
    BY NextPublishes
  <1> QED BY <1>1, Invariance, PublishedOnce, PTL DEF Spec, HistoryIsImmutable

\* attempt_count counts the claims of a work exactly, through expiry, failure,
\* replay and quarantine; it never exceeds max_attempts, work that waits for a
\* claim has an attempt left, and work dies of nothing but a spent budget or
\* an operator.
THEOREM BudgetKept == Spec => []AttemptBudget
  <1>1. Init => BudgetInv
    <2> SUFFICES ASSUME Init PROVE BudgetInv
      OBVIOUS
    <2>1. \A w \in Work : Claims(w) = {}
      BY DEF Init, Claims, NoAttempt
    <2> QED BY <2>1, FS_EmptySet DEF Init, NoWork, BudgetInv, AttemptBudget, InBudget
  <1>2. ASSUME IInv, BudgetInv, [Next]_vars
        PROVE  BudgetInv'
    <2>1. /\ ReadClock \subseteq Nat /\ 0..MaxTime \subseteq Nat
          /\ 1..MaxExtra \subseteq Nat \ {0} /\ Available \subseteq Nat
      BY <1>2, ReadClockIsTime, ControlStoreAssumption DEF IInv
    <2>2. ASSUME NEW S \in SUBSET Work, NEW now \in ReadClock,
                 NEW request \in [S -> Content], NEW at \in [S -> Available \cup {now}],
                 RegisterMany(S, request, at, now)
          PROVE  BudgetInv'
      <3>1. now \in Nat /\ at \in [S -> Nat]
        BY <2>1
      <3> QED BY <1>2, <2>2, <3>1, CommandsInBudget
    <2>3. ASSUME NEW b \in Batch, NEW now \in ReadClock, NEW call \in ClaimCall,
                 Claim(b, call, now)
          PROVE  BudgetInv'
      BY <1>2, <2>1, <2>3, ClaimInBudget
    <2>4. ASSUME NEW b \in Batch, NEW now \in ReadClock,
                 \/ Heartbeat(b, now)
                 \/ \E result \in Results(b) : Seal(b, result, now)
                 \/ Commit(b, now)
          PROVE  BudgetInv'
      BY <1>2, <2>1, <2>4, BatchOperationsInBudget
    <2>5. ASSUME NEW w \in Work, NEW operator \in Operator, NEW extra \in 1..MaxExtra,
                 NEW now \in ReadClock, Replay(w, operator, extra, now)
          PROVE  BudgetInv'
      BY <1>2, <2>1, <2>5, CommandsInBudget
    <2>6. ASSUME NEW S \in SUBSET Work, NEW operator \in Operator, NEW now \in ReadClock,
                 NEW expected \in [S -> {c.release : c \in Content}],
                 Quarantine(expected, operator, now)
          PROVE  BudgetInv'
      BY <1>2, <2>1, <2>6, CommandsInBudget
    <2>7. ASSUME NEW now \in 0..MaxTime, Recover(now)
          PROVE  BudgetInv'
      BY <1>2, <2>1, <2>7, RecoverInBudget
    <2>8. ASSUME Tick \/ UNCHANGED vars
          PROVE  BudgetInv'
      BY <1>2, <2>8, RowFacts, SameClaims DEF Tick, vars
    <2> QED BY <1>2, <2>2, <2>3, <2>4, <2>5, <2>6, <2>7, <2>8 DEF Next
  <1> QED BY <1>1, <1>2, Invariance, PTL DEF Spec, BudgetInv

\* A step keeps the active batches finite, and within a bound that the callers
\* agree on: a claim adds one batch below it, and nothing else adds any.
LEMMA ActiveBatchesStep ==
    ASSUME IInv, PublishedExactlyOnce, [Next]_vars, IsFiniteSet(ActiveBatches)
    PROVE  /\ IsFiniteSet(ActiveBatches')
           /\ \A n \in Nat : CallersAgreeOn(n) /\ ActiveBatchBound(n) => ActiveBatchBound(n)'
  <1>1. CASE \E b \in Batch, now \in ReadClock, call \in ClaimCall : Claim(b, call, now)
    <2>1. PICK b \in Batch, now \in ReadClock, call \in ClaimCall : Claim(b, call, now)
      BY <1>1
    <2>2. /\ ActiveBatches' = ActiveBatches \cup {b}
          /\ b \notin ActiveBatches
      BY <2>1 DEF Claim, IInv, TypeOK, ActiveBatches, Active
    <2>3. /\ IsFiniteSet(ActiveBatches')
          /\ Cardinality(ActiveBatches') = Cardinality(ActiveBatches) + 1
      BY <2>2, FS_AddElement
    <2>4. Cardinality(ActiveBatches) \in Nat
      BY FS_CardinalityType
    <2>5. ASSUME NEW n \in Nat, CallersAgreeOn(n)
          PROVE  ActiveBatchBound(n)'
      <3>1. call.active \in 1..n
        BY <2>5 DEF CallersAgreeOn
      <3>2. BelowActiveLimit(call)
        BY <2>1 DEF Claim
      <3>3. Cardinality(ActiveBatches) < call.active
        BY <3>1, <3>2 DEF BelowActiveLimit, ActiveBatches
      <3> QED BY <2>3, <2>4, <3>1, <3>3 DEF ActiveBatchBound
    <2> QED BY <2>3, <2>5
  <1>2. CASE ~\E b \in Batch, now \in ReadClock, call \in ClaimCall : Claim(b, call, now)
    <2>1. ASSUME NEW b \in Batch, Active(b)'
          PROVE  Active(b)
      <3>1. batches[b].status # "NONE"
        <4>1. batches'[b].status # "NONE"
          BY <2>1 DEF Active
        <4> QED BY <1>2, <4>1, GrantedByClaim
      <3>2. BatchKept(b)
        BY NextPublishes DEF HistoryKept
      <3>3. batches[b].status \in {"NONE", "LEASED", "SEALED", "COMMITTED", "EXPIRED"}
        <4>1. batches[b] \in BatchRow
          BY DEF IInv, TypeOK
        <4> QED BY <4>1 DEF BatchRow, BatchStatus
      <3> QED BY <2>1, <3>1, <3>2, <3>3 DEF BatchKept, Active
    <2>2. ActiveBatches' \in SUBSET ActiveBatches
      BY <2>1 DEF ActiveBatches
    <2>3. IsFiniteSet(ActiveBatches') /\ Cardinality(ActiveBatches') <= Cardinality(ActiveBatches)
      BY <2>2, FS_Subset
    <2>4. Cardinality(ActiveBatches) \in Nat /\ Cardinality(ActiveBatches') \in Nat
      BY <2>3, FS_CardinalityType
    <2> QED BY <2>3, <2>4 DEF ActiveBatchBound
  <1> QED BY <1>1, <1>2

\* attempt_count and maximum_active_batches at once, whatever recovery, seals and
\* commits do between the claims of callers that agree on a bound.
THEOREM ClaimsBounded == Spec => []ClaimsStayInBounds
  <1> DEFINE Agreed == {n \in {call.active : call \in ClaimCall} : CallersAgreeOn(n)}
             FiniteBound == IsFiniteSet(ActiveBatches) /\ \A n \in Agreed : ActiveBatchBound(n)
  <1>1. Agreed \subseteq Nat /\ \A n \in Agreed : CallersAgreeOn(n)
    BY ControlStoreAssumption
  <1>2. Init => FiniteBound
    <2> SUFFICES ASSUME Init PROVE FiniteBound
      OBVIOUS
    <2>1. ActiveBatches = {}
      <3>1. \A b \in Batch : batches[b].status = "NONE"
        BY DEF Init, NoBatch
      <3> QED BY <3>1 DEF ActiveBatches, Active
    <2> HIDE DEF Agreed
    <2> QED BY <1>1, <2>1, FS_EmptySet DEF ActiveBatchBound
  <1> HIDE DEF Agreed
  <1>3. IInv /\ PublishedExactlyOnce /\ FiniteBound /\ [Next]_vars => FiniteBound'
    <2> SUFFICES ASSUME IInv, PublishedExactlyOnce, FiniteBound, [Next]_vars
                 PROVE  FiniteBound'
      OBVIOUS
    <2>1. /\ IsFiniteSet(ActiveBatches')
          /\ \A n \in Nat : CallersAgreeOn(n) /\ ActiveBatchBound(n) => ActiveBatchBound(n)'
      BY ActiveBatchesStep
    <2> QED BY <1>1, <2>1 DEF Agreed, CallersAgreeOn
  <1>4. AttemptBudget /\ FiniteBound => ClaimsStayInBounds
    BY DEF ClaimsStayInBounds, Agreed
  <1> HIDE DEF FiniteBound
  <1> QED BY <1>2, <1>3, <1>4, BudgetKept, Invariance, PublishedOnce, PTL DEF Spec

\* Callers that claim from all works never pass over an available work for a
\* younger one of the same runtime.
THEOREM NobodyIsPassedOver ==
    ASSUME \A call \in ClaimCall : call.scope = Work
    PROVE  Spec => NoWorkIsPassedOver
  <1> DEFINE Front(b) ==
        batches[b].status = "NONE" /\ batches'[b].status # "NONE" =>
          \A w \in batches'[b].members, v \in Status("READY") :
              /\ work[v].content.runtime = work[w].content.runtime
              /\ QueuedBefore(v, w)
              /\ \A now \in ReadClock : work[v].available_at <= now
              => v \in batches'[b].members
  <1>1. ASSUME IInv, [Next]_vars, NEW b \in Batch
        PROVE  Front(b)
    <2> SUFFICES ASSUME batches[b].status = "NONE", batches'[b].status # "NONE"
                 PROVE  \A w \in batches'[b].members, v \in Status("READY") :
                          /\ work[v].content.runtime = work[w].content.runtime
                          /\ QueuedBefore(v, w)
                          /\ \A now \in ReadClock : work[v].available_at <= now
                          => v \in batches'[b].members
      OBVIOUS
    <2>1. PICK call \in ClaimCall, now \in ReadClock : Claim(b, call, now)
      BY <1>1, GrantedByClaim
    <2>2. \A v \in Status("READY") : v \in call.scope
      BY DEF Status
    <2>3. TypeOK
      BY <1>1 DEF IInv
    <2> QED BY <2>1, <2>2, <2>3, ClaimTakesTheFront
  <1>2. IInv /\ [Next]_vars => \A b \in Batch : Front(b)
    BY <1>1
  <1> QED BY <1>2, Invariance, PTL DEF Spec, NoWorkIsPassedOver

FindingsAreLeases == \A f \in findings.open \cup findings.resolved : f.kind \in LeaseKinds

\* Through the operations of the store no pointer and no membership ever goes
\* wrong: all that reconcile detects, at any time, and all that it has ever
\* recorded, are leases that ran out and sealed batches without a commit.
THEOREM OnlyLeasesAreFound == RSpec => []ReconcileFindsOnlyLeases
  <1> DEFINE All == IInv /\ PublishedExactlyOnce /\ PointersAgree /\ FindingsAreLeases
  <1>1. RInit => All
    <2> SUFFICES ASSUME RInit PROVE All
      OBVIOUS
    <2>1. IInv /\ PublishedExactlyOnce
      BY InitIInv DEF RInit, Init, PublishedExactlyOnce, Status, NoWork
    <2>2. PointersAgree
      BY DEF RInit, Init, PointersAgree, NoWork, NoAttempt
    <2>3. FindingsAreLeases
      BY DEF RInit, FindingsAreLeases
    <2> QED BY <2>1, <2>2, <2>3
  <1>2. ASSUME All, [RNext]_<<vars, findings>>
        PROVE  All'
    <2>1. [Next]_vars
      BY <1>2 DEF RNext, Reconcile
    <2>2. IInv' /\ PublishedExactlyOnce' /\ PointersAgree'
      BY <1>2, <2>1, NextIInv, NextPublishes, NextPointersAgree
    <2>3. ASSUME UNCHANGED findings
          PROVE  FindingsAreLeases'
      BY <1>2, <2>3 DEF FindingsAreLeases
    <2>4. ASSUME NEW now \in ReadClock, Reconcile(now)
          PROVE  FindingsAreLeases'
      <3>1. /\ findings'.open = Detected(now)
            /\ findings'.resolved \subseteq findings.resolved \cup findings.open
        BY <2>4 DEF Reconcile
      <3> QED BY <1>2, <3>1, DetectedAreLeases DEF FindingsAreLeases
    <2>5. FindingsAreLeases'
      <3>1. UNCHANGED findings \/ \E now \in ReadClock : Reconcile(now)
        BY <1>2 DEF RNext
      <3> QED BY <2>3, <2>4, <3>1
    <2> QED BY <2>2, <2>5
  <1>3. All => ReconcileFindsOnlyLeases
    BY DetectedAreLeases DEF FindingsAreLeases, LeaseKinds, ReconcileFindsOnlyLeases
  <1> QED BY <1>1, <1>2, <1>3, PTL DEF RSpec
=============================================================================
