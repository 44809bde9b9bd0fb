---------------------------- MODULE ControlStore ----------------------------
(***************************************************************************)
(* SQLiteControlStore of sjd_control.py: the tables work, batches,         *)
(* attempts, batch_members, publications and replay_requests, and the      *)
(* operations that write them (reconcile is in module Reconciliation).     *)
(*                                                                         *)
(* Every operation is one BEGIN IMMEDIATE transaction, hence one step; an  *)
(* operation that raises rolls back and is no step.  The clock is read     *)
(* before the transaction begins, so the time an operation works with may  *)
(* be older than the current one by the wait for the write lock.  Callers  *)
(* are arbitrary: any process may call any operation with any batch at any *)
(* time, twice or too late.                                                *)
(*                                                                         *)
(* An attempt is identified by its batch and work (UNIQUE(batch_id,        *)
(* work_id)); a claim envelope is the batch's immutable membership.        *)
(***************************************************************************)
EXTENDS LeaseAdmission, Nothing

CONSTANTS
    Work,        \* work identities, ordered
    Batch,       \* batch identities new_id can return
    Output,      \* output digests
    Operator,    \* operators (with their reasons)
    Content,     \* immutable registration content
    Available,   \* available_at values that registrations name
    ClaimCall,   \* argument lists of claim
    Workers,     \* workers of the process profile
    Extension,   \* heartbeat extension
    MaxTime,     \* bound: largest time
    MaxDelay,    \* bound: longest wait for the write lock
    MaxReplay,   \* bound: replays of one work
    MaxExtra     \* bound: additional attempts of one replay

ASSUME ControlStoreAssumption ==
    /\ Work \subseteq Nat /\ IsFiniteSet(Work)
    /\ None \notin Batch \cup Output \cup Operator
    /\ Content \subseteq [runtime : Nat, release : Nat, duration : Nat \ {0},
                          max_attempts : Nat \ {0}]
    /\ ClaimCall \subseteq [max_items : Nat \ {0}, minimum_items : Nat \ {0},
                            active : Nat, scope : SUBSET Work, release : Nat,
                            lease : Nat \ {0}]
    /\ Available \subseteq Nat
    /\ Extension \in Nat \ {0}
    /\ MaxTime \in Nat /\ MaxDelay \in Nat
    /\ MaxReplay \in Nat /\ MaxExtra \in Nat

VARIABLES clock, work, batches, attempts, publications, lastSeq, replays

vars == <<clock, work, batches, attempts, publications, lastSeq, replays>>

-----------------------------------------------------------------------------
(* The rows *)

NoWork == [status |-> "ABSENT", content |-> None, attempt_count |-> 0,
           max_attempts |-> 0, fence |-> 0, available_at |-> 0, created_at |-> 0,
           lease |-> None, expires |-> 0, committed |-> None, seq |-> 0,
           generation |-> 0, error |-> None]
NoBatch == [status |-> "NONE", members |-> {}, expires |-> 0]
NoAttempt == [status |-> "NONE", fence |-> 0, expires |-> 0, output |-> None,
              ok |-> FALSE]

Init ==
    /\ clock = 0
    /\ work = [w \in Work |-> NoWork]
    /\ batches = [b \in Batch |-> NoBatch]
    /\ attempts = [b \in Batch |-> [w \in Work |-> NoAttempt]]
    /\ publications = {}
    /\ lastSeq = 0
    /\ replays = {}

Status(s) == {w \in Work : work[w].status = s}
Active(b) == batches[b].status \in {"LEASED", "SEALED"}
Members(b) == batches[b].members

\* The times an operation can have read before its transaction.
ReadClock == {t \in 0..clock : clock - t <= MaxDelay}

\* The table work with some rows replaced.
WorkWith(rows) == [w \in Work |-> IF w \in DOMAIN rows THEN rows[w] ELSE work[w]]

\* lease_owner, lease_attempt_id and lease_expires_at set to NULL.
Unleased(row) == [row EXCEPT !.lease = None, !.expires = 0]

-----------------------------------------------------------------------------
(* register, register_many: all requests or none; equal content is idempotent *)

Registered(c, at, now) ==
    [NoWork EXCEPT !.status = "READY", !.content = c,
                   !.max_attempts = c.max_attempts,
                   !.available_at = at, !.created_at = now]

RegisterMany(S, request, at, now) ==
    /\ \A w \in S : work[w].status = "ABSENT" \/ work[w].content = request[w]
    /\ work' = WorkWith([w \in S \cap Status("ABSENT") |-> Registered(request[w], at[w], now)])
    /\ UNCHANGED <<clock, batches, attempts, publications, lastSeq, replays>>

-----------------------------------------------------------------------------
(* claim *)

\* ORDER BY created_at, work_id
QueuedBefore(v, w) ==
    \/ work[v].created_at < work[w].created_at
    \/ work[v].created_at = work[w].created_at /\ v < w
QueueOrder(S) == {p \in S \X S : QueuedBefore(p[1], p[2])}

Eligible(call, now) ==
    {w \in Status("READY") \cap call.scope : work[w].available_at <= now}

OfRuntime(S, k) == {w \in S : work[w].content.runtime = k}

\* The runtime group whose oldest work is oldest, among those large enough.
FirstGroup(call, now) ==
    LET eligible == Eligible(call, now)
        keys == {work[w].content.runtime : w \in eligible}
        large == {k \in keys : Cardinality(OfRuntime(eligible, k)) >= call.minimum_items}
        first(k) == Min({work[w].created_at : w \in OfRuntime(eligible, k)})
    IN  IF large = {} THEN {}
        ELSE OfRuntime(eligible,
                CHOOSE k \in large : \A j \in large :
                    first(k) < first(j) \/ (first(k) = first(j) /\ k <= j))

Durations == [w \in Work |-> IF work[w].status = "ABSENT" THEN 0
                             ELSE work[w].content.duration]

\* (slip) one batch too many.
AtActiveLimit(call) ==
    call.active = 0 \/ Cardinality({c \in Batch : Active(c)}) <= call.active

\* active = 0 stands for maximum_active_batches None.
BelowActiveLimit(call) ==
    call.active = 0 \/ Cardinality({c \in Batch : Active(c)}) < call.active

\* release = 0 stands for no expected_release_digest.
Claim(b, call, now) ==
    LET group == FirstGroup(call, now)
        sizes == AdmissibleSizes(group, QueueOrder(group), Durations, Workers,
                                 call.lease, call.minimum_items, call.max_items)
        claimed == FirstOf(group, QueueOrder(group), Max(sizes))
    IN  /\ batches[b].status = "NONE"
        /\ BelowActiveLimit(call)
        /\ call.release = 0 \/ \A w \in Eligible(call, now) :
                                  work[w].content.release = call.release
        /\ group # {}
        /\ call.minimum_items \in sizes
        /\ work' = WorkWith([w \in claimed |->
              [work[w] EXCEPT !.status = "LEASED", !.lease = b, !.expires = now + call.lease,
                              !.attempt_count = work[w].attempt_count + 1,
                              !.fence = work[w].fence + 1]])
        /\ batches' = [batches EXCEPT ![b] =
              [status |-> "LEASED", members |-> claimed, expires |-> now + call.lease]]
        /\ attempts' = [attempts EXCEPT ![b] = [w \in Work |->
              IF w \in claimed
              THEN [NoAttempt EXCEPT !.status = "LEASED", !.fence = work[w].fence + 1,
                                     !.expires = now + call.lease]
              ELSE NoAttempt]]
        /\ UNCHANGED <<clock, publications, lastSeq, replays>>

-----------------------------------------------------------------------------
(* The process job's operations on its batch *)

\* The work still points at this attempt.
HoldsFence(b, w) ==
    /\ work[w].status = "LEASED"
    /\ work[w].lease = b
    /\ work[w].fence = attempts[b][w].fence

Extended(b, now) == Max({batches[b].expires, now + Extension})

Heartbeat(b, now) ==
    LET expires == Extended(b, now)
    IN  /\ batches[b].status = "LEASED"
        /\ batches[b].expires > now
        /\ \A w \in Members(b) : HoldsFence(b, w)
        /\ batches' = [batches EXCEPT ![b].expires = expires]
        /\ attempts' = [attempts EXCEPT ![b] = [w \in Work |->
              IF attempts[b][w].status = "LEASED"
              THEN [attempts[b][w] EXCEPT !.expires = expires]
              ELSE attempts[b][w]]]
        /\ work' = WorkWith([w \in Members(b) |-> [work[w] EXCEPT !.expires = expires]])
        /\ UNCHANGED <<clock, publications, lastSeq, replays>>

\* seal_batch: result is one output and verdict for each member.  Sealing a
\* sealed batch again with the same result changes nothing, with another
\* result it raises.
Seal(b, result, now) ==
    /\ batches[b].status = "LEASED"
    /\ batches[b].expires > now
    /\ DOMAIN result = Members(b)
    /\ \A w \in Members(b) : HoldsFence(b, w) /\ attempts[b][w].status = "LEASED"
    /\ batches' = [batches EXCEPT ![b].status = "SEALED"]
    /\ attempts' = [attempts EXCEPT ![b] = [w \in Work |->
          IF w \in Members(b)
          THEN [attempts[b][w] EXCEPT !.status = "SEALED", !.output = result[w].output,
                                      !.ok = result[w].ok]
          ELSE attempts[b][w]]]
    /\ UNCHANGED <<clock, work, publications, lastSeq, replays>>

RetriedFromScratch(w, now, error) ==
    [Unleased(work[w]) EXCEPT
        !.status = IF work[w].attempt_count >= work[w].max_attempts THEN "DEAD" ELSE "READY",
        !.fence = 0, !.available_at = now, !.error = error]

\* A failed or expired attempt: retry while the budget lasts.
Retried(w, now, error) ==
    [Unleased(work[w]) EXCEPT
        !.status = IF work[w].attempt_count >= work[w].max_attempts THEN "DEAD" ELSE "READY",
        !.available_at = now, !.error = error]

\* (slip) counting from zero.
SeqOfFromZero(S, w) == lastSeq + Cardinality({v \in S : v < w})

\* The publication sequence of w when S is published in work order.
SeqOf(S, w) == lastSeq + Cardinality({v \in S : v <= w})

\* commit_batch: every attempt advances its pointer or none does.
Commit(b, now) ==
    LET good == {w \in Members(b) : attempts[b][w].ok}
    IN  /\ batches[b].status = "SEALED"
        /\ batches[b].expires > now
        /\ \A w \in Members(b) :
              /\ attempts[b][w].status = "SEALED"
              /\ HoldsFence(b, w)
              /\ work[w].committed = None
              /\ attempts[b][w].output # None
        /\ \A p \in publications : p.work \notin good   \* UNIQUE(work_id)
        /\ publications' = publications \cup
              {[seq |-> SeqOf(good, w), work |-> w, batch |-> b,
                output |-> attempts[b][w].output] : w \in good}
        /\ lastSeq' = lastSeq + Cardinality(good)
        /\ work' = WorkWith([w \in Members(b) |->
              IF w \in good
              THEN [Unleased(work[w]) EXCEPT !.status = "SUCCEEDED", !.committed = b,
                                             !.seq = SeqOf(good, w)]
              ELSE Retried(w, now, "failed")])
        /\ attempts' = [attempts EXCEPT ![b] = [w \in Work |->
              IF w \in Members(b)
              THEN [attempts[b][w] EXCEPT !.status = IF w \in good THEN "SUCCEEDED"
                                                     ELSE "FAILED"]
              ELSE attempts[b][w]]]
        /\ batches' = [batches EXCEPT ![b].status = "COMMITTED"]
        /\ UNCHANGED <<clock, replays>>

-----------------------------------------------------------------------------
(* Recovery and operator commands *)

\* (slip) a lease that ends now is selected in batches only.
ExpiredBefore(now) == {w \in Status("LEASED") : work[w].expires < now}
Expired(now) == {w \in Status("LEASED") : work[w].expires <= now}

\* (slip) the batch's status is not looked at.
BatchLeaseOver(b, now) == batches[b].status # "NONE" /\ batches[b].expires <= now
BatchExpired(b, now) == Active(b) /\ batches[b].expires <= now

\* recover: works and batches are selected by their own lease columns.
Recover(now) ==
    LET expired == Expired(now)
    IN  /\ work' = WorkWith([w \in expired |-> Retried(w, now, "expired")])
        /\ attempts' = [b \in Batch |-> [w \in Work |->
              IF w \in expired /\ work[w].lease = b
                 /\ attempts[b][w].status \in {"LEASED", "SEALED"}
              THEN [attempts[b][w] EXCEPT !.status = "EXPIRED"]
              ELSE attempts[b][w]]]
        /\ batches' = [b \in Batch |->
              IF BatchExpired(b, now)
              THEN [batches[b] EXCEPT !.status = "EXPIRED"]
              ELSE batches[b]]
        /\ UNCHANGED <<clock, publications, lastSeq, replays>>

\* replay of DEAD work.  Repeating the request while the work is still READY
\* with the same budget returns the recorded request (no step).
Replay(w, operator, extra, now) ==
    LET request == [work |-> w, generation |-> work[w].generation + 1,
                    operator |-> operator, extra |-> extra]
    IN  /\ work[w].status = "DEAD"
        /\ work[w].committed = None
        /\ work[w].generation < MaxReplay
        /\ replays' = replays \cup {request}
        /\ work' = [work EXCEPT ![w].status = "READY",
                                ![w].max_attempts = work[w].attempt_count + extra,
                                ![w].available_at = now,
                                ![w].generation = work[w].generation + 1,
                                ![w].error = None]
        /\ UNCHANGED <<clock, batches, attempts, publications, lastSeq>>

\* quarantine of READY work whose release is the one the operator expects, all
\* or nothing; works that carry the same marker already are left alone.
Quarantine(expected, operator, now) ==
    LET S == DOMAIN expected
    IN
    /\ S # {}
    /\ \A w \in S : /\ work[w].status # "ABSENT"
                    /\ work[w].content.release = expected[w]
                    /\ \/ work[w].status = "DEAD" /\ work[w].error = operator
                       \/ work[w].status = "READY" /\ work[w].committed = None
    /\ work' = WorkWith([w \in S \cap Status("READY") |->
          [work[w] EXCEPT !.status = "DEAD", !.available_at = now, !.error = operator]])
    /\ UNCHANGED <<clock, batches, attempts, publications, lastSeq, replays>>

-----------------------------------------------------------------------------
Tick ==
    /\ clock < MaxTime
    /\ clock' = clock + 1
    /\ UNCHANGED <<work, batches, attempts, publications, lastSeq, replays>>

Results(b) == [Members(b) -> [output : Output, ok : BOOLEAN]]

Next ==
    \/ \E S \in SUBSET Work, now \in ReadClock :
          \E request \in [S -> Content], at \in [S -> Available \cup {now}] :
             RegisterMany(S, request, at, now)
    \/ \E b \in Batch, now \in ReadClock :
          \/ \E call \in ClaimCall : Claim(b, call, now)
          \/ Heartbeat(b, now)
          \/ \E result \in Results(b) : Seal(b, result, now)
          \/ Commit(b, now)
    \/ \E now \in 0..MaxTime : Recover(now)
    \/ \E w \in Work, operator \in Operator, extra \in 1..MaxExtra, now \in ReadClock :
          Replay(w, operator, extra, now)
    \/ \E S \in SUBSET Work, operator \in Operator, now \in ReadClock :
          \E expected \in [S -> {c.release : c \in Content}] :
             Quarantine(expected, operator, now)
    \/ Tick

Spec == Init /\ [][Next]_vars
-----------------------------------------------------------------------------
(* Properties *)

WorkStatus == {"ABSENT", "READY", "LEASED", "SUCCEEDED", "DEAD"}
BatchStatus == {"NONE", "LEASED", "SEALED", "COMMITTED", "EXPIRED"}
AttemptStatus == {"NONE", "LEASED", "SEALED", "SUCCEEDED", "FAILED", "EXPIRED"}
ReplayRow == [work : Work, generation : Nat, operator : Operator, extra : Nat]
WorkRow == [status : WorkStatus, content : Content \cup {None}, attempt_count : Nat,
            max_attempts : Nat, fence : Nat, available_at : Nat, created_at : Nat,
            lease : Batch \cup {None}, expires : Nat, committed : Batch \cup {None},
            seq : Nat, generation : Nat,
            error : Operator \cup {None, "expired", "failed"}]
BatchRow == [status : BatchStatus, members : SUBSET Work, expires : Nat]
AttemptRow == [status : AttemptStatus, fence : Nat, expires : Nat,
               output : Output \cup {None}, ok : BOOLEAN]
Publication == [seq : Nat, work : Work, batch : Batch, output : Output]

TypeOK ==
    /\ clock \in Nat
    /\ work \in [Work -> WorkRow]
    /\ batches \in [Batch -> BatchRow]
    /\ attempts \in [Batch -> [Work -> AttemptRow]]
    /\ publications \in SUBSET Publication
    /\ lastSeq \in Nat
    /\ replays \in SUBSET ReplayRow

\* The lease is written in three places (work, attempts, batches) and read from
\* whichever is at hand: they agree on who holds what until when, so recover,
\* which selects works and batches separately, never splits a batch, and a
\* leased work always has a live batch behind it.
LeaseAgreement ==
    /\ \A b \in Batch : Active(b) =>
          \A w \in Members(b) :
             /\ HoldsFence(b, w)
             /\ work[w].expires = batches[b].expires
             /\ attempts[b][w].expires = batches[b].expires
             /\ attempts[b][w].status = batches[b].status
    /\ \A w \in Status("LEASED") :
          /\ work[w].lease \in Batch
          /\ Active(work[w].lease)
          /\ w \in Members(work[w].lease)

\* Every claim of a work gets a fence of its own, no larger than the work's:
\* UNIQUE(work_id, fence) never aborts a claim, and a late holder of an old
\* attempt can never pass for the current one.
FencesAreUnique ==
    \A w \in Work, b \in Batch : attempts[b][w].status # "NONE" =>
        /\ attempts[b][w].fence \in 1..work[w].fence
        /\ \A c \in Batch \ {b} : attempts[c][w].status # "NONE" =>
              attempts[c][w].fence # attempts[b][w].fence

\* A work has at most one publication, it is the one its committed pointer
\* names, with the output the winning attempt sealed, and the publication
\* sequence is a key.
PublishedExactlyOnce ==
    /\ \A p \in publications :
          /\ work[p.work].status = "SUCCEEDED"
          /\ work[p.work].committed = p.batch
          /\ work[p.work].seq = p.seq
          /\ attempts[p.batch][p.work].status = "SUCCEEDED"
          /\ attempts[p.batch][p.work].output = p.output
          /\ p.seq \in 1..lastSeq
    /\ \A p, q \in publications : p.work = q.work \/ p.seq = q.seq => p = q
    /\ \A w \in Status("SUCCEEDED") : \E p \in publications : p.work = w

Claims(w) == {b \in Batch : attempts[b][w].status # "NONE"}
InBudget(row) ==
    /\ row.attempt_count <= row.max_attempts
    /\ row.status = "READY" => row.attempt_count < row.max_attempts
    /\ row.status = "DEAD" /\ row.error \notin Operator =>
          row.attempt_count = row.max_attempts

\* Claims are counted exactly and bounded: a work waiting for a claim has an
\* attempt left, and one is DEAD only with none left or by an operator.
AttemptBudget ==
    \A w \in Work :
        work[w].attempt_count = Cardinality(Claims(w)) /\ InBudget(work[w])

\* Callers that all pass at most n as maximum_active_batches share n leased or
\* sealed batches, however their claims interleave with recovery.
ActiveBatches == {b \in Batch : Active(b)}
ActiveBatchBound(n) == Cardinality(ActiveBatches) <= n

\* Every caller asks for a bound, of n or less.
CallersAgreeOn(n) == \A call \in ClaimCall : call.active \in 1..n

\* Claims stay in their bounds: a work is tried as often as it may be, counting
\* every claim, expired or given back, and callers leave each other the room
\* that maximum_active_batches promises.
ClaimsStayInBounds ==
    /\ AttemptBudget
    /\ \A n \in {call.active : call \in ClaimCall} : CallersAgreeOn(n) => ActiveBatchBound(n)

\* A claim takes the front of one runtime's queue: no available work of the
\* same runtime is passed over for a younger one, whatever prefix the lease
\* budget admits (callers with the scope of all works).
NoWorkIsPassedOver ==
    [][\A b \in Batch : batches[b].status = "NONE" /\ batches'[b].status # "NONE" =>
          \A w \in batches'[b].members, v \in Status("READY") :
              /\ work[v].content.runtime = work[w].content.runtime
              /\ QueuedBefore(v, w)
              /\ \A now \in ReadClock : work[v].available_at <= now
              => v \in batches'[b].members]_vars

AttemptKept(b, w) ==
    /\ attempts[b][w].output # None =>
          /\ attempts'[b][w].output = attempts[b][w].output
          /\ attempts'[b][w].ok = attempts[b][w].ok
    /\ attempts[b][w].status \in {"SUCCEEDED", "FAILED", "EXPIRED"} =>
          attempts'[b][w] = attempts[b][w]
BatchKept(b) ==
    /\ batches[b].status \in {"COMMITTED", "EXPIRED"} => batches'[b] = batches[b]
    /\ Active(b) /\ batches'[b].status # "EXPIRED" =>
          batches'[b].expires >= batches[b].expires
WorkKept(w) ==
    /\ work[w].status = "SUCCEEDED" => work'[w] = work[w]
    /\ work'[w].fence >= work[w].fence
HistoryKept ==
    /\ \A b \in Batch, w \in Work : AttemptKept(b, w)
    /\ \A b \in Batch : BatchKept(b)
    /\ \A w \in Work : WorkKept(w)
    /\ publications \subseteq publications'
    /\ \A p \in publications' \ publications, q \in publications : p.seq > q.seq

\* Nobody rewrites history: a sealed output, a finished attempt or batch, a
\* succeeded work and a publication stay as they are, and later publications
\* have larger sequence numbers.  A heartbeat computed from an old clock never
\* shortens a lease somebody relies on, and a fence never goes back.
HistoryIsImmutable == [][HistoryKept]_vars

\* What the rows of one batch have in common, the strengthening that makes the
\* properties inductive: attempt rows exist for exactly the members, an attempt
\* has an output once it was sealed, and a work that was never registered has
\* never been claimed.
RowsMatchMembership ==
    /\ \A w \in Status("ABSENT") : work[w].fence = 0 /\ work[w].content = None
    /\ \A b \in Batch : batches[b].status = "NONE" => Members(b) = {}
    /\ \A b \in Batch, w \in Work :
          /\ attempts[b][w].status # "NONE" <=> w \in Members(b)
          /\ attempts[b][w].status \in {"NONE", "LEASED"} => attempts[b][w].output = None

IInv ==
    /\ TypeOK
    /\ RowsMatchMembership
    /\ LeaseAgreement
    /\ FencesAreUnique
=============================================================================
