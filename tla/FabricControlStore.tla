------------------------- MODULE FabricControlStore -------------------------
(***************************************************************************)
(* The control store of fabric_control_store.py: the tables of             *)
(* ControlStore as Delta tables.  An operation runs under the lock of      *)
(* ControlWriter (module SerializedWrites): it reads the tables, computes  *)
(* new ones and overwrites them one after the other (_replace_many).  A    *)
(* table is overwritten atomically, an operation is not: if it fails half  *)
(* way the first tables stay written, the lock stays taken, and the next   *)
(* operation starts from what is there once an operator cleared the lock.  *)
(*                                                                         *)
(* batch_members is written just before attempts and has the same content: *)
(* the two are one table here.  A batch row names its envelope, which is   *)
(* written first and never changes: Members.  The sequence of a new        *)
(* publication is computed from the table, lastSeq is not used.            *)
(***************************************************************************)
EXTENDS ControlStore, Sequences

VARIABLES
    lock,      \* "free", "held" or "retained" by an operation that failed
    pending,   \* tables the operation has still to overwrite
    next       \* their new contents

tables == <<work, batches, attempts, publications, replays>>
fvars == <<vars, lock, pending, next>>

Current == [work |-> work, batches |-> batches, attempts |-> attempts,
            publications |-> publications, replays |-> replays]

FInit ==
    /\ Init
    /\ lock = "free"
    /\ pending = <<>>
    /\ next = Current

\* An operation acquires the lock and decides what to write in which order.
Run(order, new) ==
    /\ lock = "free"
    /\ lock' = "held"
    /\ pending' = order
    /\ next' = new
    /\ UNCHANGED vars

\* _replace of the next table; the lock is released after the last one.
Replace ==
    LET t == Head(pending)
        now == [Current EXCEPT ![t] = next[t]]
    IN  /\ lock = "held"
        /\ pending # <<>>
        /\ pending' = Tail(pending)
        /\ work' = now.work
        /\ batches' = now.batches
        /\ attempts' = now.attempts
        /\ publications' = now.publications
        /\ replays' = now.replays
        /\ lock' = IF Tail(pending) = <<>> THEN "free" ELSE "held"
        /\ next' = IF Tail(pending) = <<>> THEN now ELSE next
        /\ UNCHANGED <<clock, lastSeq>>

\* The driver dies, a write raises or a readback differs.
FailHalfWay ==
    /\ lock = "held"
    /\ lock' = "retained"
    /\ pending' = <<>>
    /\ next' = Current
    /\ UNCHANGED vars

\* clear-stale-lock, once the failed writer cannot commit any more.
ClearStaleLock ==
    /\ lock = "retained"
    /\ lock' = "free"
    /\ UNCHANGED <<vars, pending, next>>

-----------------------------------------------------------------------------
(* Registration and claim *)

FRegister(S, request, now) ==
    /\ \A w \in S : work[w].status = "ABSENT" \/ work[w].content = request[w]
    /\ S \cap Status("ABSENT") # {}
    /\ Run(<<"work">>,
           [Current EXCEPT !.work = WorkWith([w \in S \cap Status("ABSENT") |->
                                                Registered(request[w], now, now)])])

ClaimOrder == <<"work", "batches", "attempts">>

FClaim(b, call) ==
    LET now == clock
        group == FirstGroup(call, now)
        sizes == AdmissibleSizes(group, QueueOrder(group), Durations, Workers,
                                 call.lease, call.minimum_items, call.max_items)
        claimed == FirstOf(group, QueueOrder(group), Max(sizes))
        expires == now + call.lease
    IN  /\ batches[b].status = "NONE"
        /\ \A w \in Work : work[w].lease # b /\ attempts[b][w].status = "NONE"
        /\ BelowActiveLimit(call)
        /\ call.release = 0 \/ \A w \in Eligible(call, now) :
                                  work[w].content.release = call.release
        /\ group # {}
        /\ call.minimum_items \in sizes
        /\ Run(ClaimOrder, [Current EXCEPT
              !.work = WorkWith([w \in claimed |->
                 [work[w] EXCEPT !.status = "LEASED", !.lease = b, !.expires = expires,
                                 !.attempt_count = @ + 1, !.fence = @ + 1]]),
              !.batches[b] = [status |-> "LEASED", members |-> claimed, expires |-> expires],
              !.attempts[b] = [w \in Work |->
                 IF w \in claimed
                 THEN [NoAttempt EXCEPT !.status = "LEASED", !.fence = work[w].fence + 1,
                                        !.expires = expires]
                 ELSE NoAttempt]])

-----------------------------------------------------------------------------
(* The process job's operations *)

\* The attempt rows of a batch with those of its members changed.
MemberRows(b, row) ==
    [w \in Work |-> IF w \in Members(b) THEN row[w] ELSE attempts[b][w]]

\* _verified_process_batch for a live batch.
FVerified(b) == \A w \in Members(b) : HoldsFence(b, w)

FHeartbeat(b) ==
    LET expires == Extended(b, clock)
    IN  /\ batches[b].status = "LEASED"
        /\ batches[b].expires > clock
        /\ FVerified(b)
        /\ Run(<<"batches", "attempts", "work">>, [Current EXCEPT
              !.batches[b].expires = expires,
              !.attempts[b] = MemberRows(b, [w \in Members(b) |->
                                 [attempts[b][w] EXCEPT !.expires = expires]]),
              !.work = WorkWith([w \in Members(b) |-> [work[w] EXCEPT !.expires = expires]])])

FSeal(b, result) ==
    /\ batches[b].status = "LEASED"
    /\ batches[b].expires > clock
    /\ DOMAIN result = Members(b)
    /\ FVerified(b)
    /\ \A w \in Members(b) : attempts[b][w].status = "LEASED"
    /\ Run(<<"batches", "attempts">>, [Current EXCEPT
          !.batches[b].status = "SEALED",
          !.attempts[b] = MemberRows(b, [w \in Members(b) |->
             [attempts[b][w] EXCEPT !.status = "SEALED", !.output = result[w].output,
                                    !.ok = result[w].ok]])])

LastSequence == Max({0} \cup {p.seq : p \in publications})

\* (slip) publications before the pointers that keep the work from being
\* claimed again.
PublicationsFirst == <<"batches", "attempts", "publications", "work">>
CommitOrder == <<"batches", "attempts", "work", "publications">>

FCommit(b) ==
    LET good == {w \in Members(b) : attempts[b][w].ok}
        seq(w) == LastSequence + Cardinality({v \in good : v <= w})
    IN  /\ batches[b].status = "SEALED"
        /\ batches[b].expires > clock
        /\ FVerified(b)
        /\ \A w \in Members(b) : attempts[b][w].status = "SEALED"
        /\ Run(CommitOrder, [Current EXCEPT
              !.batches[b].status = "COMMITTED",
              !.attempts[b] = MemberRows(b, [w \in Members(b) |->
                 [attempts[b][w] EXCEPT !.status = IF w \in good THEN "SUCCEEDED" ELSE "FAILED"]]),
              !.work = WorkWith([w \in Members(b) |->
                 IF w \in good
                 THEN [Unleased(work[w]) EXCEPT !.status = "SUCCEEDED", !.committed = b,
                                                !.seq = seq(w)]
                 ELSE Retried(w, clock, "failed")]),
              !.publications = @ \cup {[seq |-> seq(w), work |-> w, batch |-> b,
                                        output |-> attempts[b][w].output] : w \in good}])

-----------------------------------------------------------------------------
(* Recovery and operator commands *)

\* abandon_failed_claim: the driver of an unsealed claim failed for certain.
\* (That there is no staged output is checked in the staging area.)
AbandonFailedClaim(b, operator) ==
    /\ batches[b].status = "LEASED"
    /\ FVerified(b)
    /\ \A w \in Members(b) : /\ attempts[b][w].status = "LEASED"
                             /\ work[w].committed = None
                             /\ ~\E p \in publications : p.work = w
    /\ Run(<<"work", "attempts", "batches">>, [Current EXCEPT
          !.work = WorkWith([w \in Members(b) |->
             [Unleased(work[w]) EXCEPT !.status = "READY", !.available_at = clock,
                                       !.fence = @ + 1, !.error = operator]]),
          !.attempts[b] = MemberRows(b, [w \in Members(b) |->
                                         [attempts[b][w] EXCEPT !.status = "EXPIRED"]]),
          !.batches[b].status = "EXPIRED"])

\* (slip) whatever the lease points at is expired.
ExpiredAnyway(row) ==
    IF row.status = "NONE" THEN row ELSE [row EXCEPT !.status = "EXPIRED"]
ExpiredAttempt(row) ==
    IF row.status \in {"LEASED", "SEALED"} THEN [row EXCEPT !.status = "EXPIRED"] ELSE row

FRecover(now) ==
    LET expired == Expired(now)
    IN  Run(<<"work", "attempts", "batches">>, [Current EXCEPT
          !.work = WorkWith([w \in expired |-> Retried(w, now, "expired")]),
          !.attempts = [b \in Batch |-> [w \in Work |->
             IF w \in expired /\ work[w].lease = b THEN ExpiredAttempt(attempts[b][w])
             ELSE attempts[b][w]]],
          !.batches = [b \in Batch |->
             IF BatchExpired(b, now) THEN [batches[b] EXCEPT !.status = "EXPIRED"]
             ELSE batches[b]]])

\* recover_exact: one work, its only attempt, its last chance.
RecoverExact(b, w) ==
    /\ batches[b].status = "LEASED"
    /\ Members(b) = {w}
    /\ HoldsFence(b, w)
    /\ attempts[b][w].status = "LEASED"
    /\ work[w].expires = batches[b].expires /\ attempts[b][w].expires = batches[b].expires
    /\ batches[b].expires <= clock
    /\ work[w].attempt_count >= work[w].max_attempts
    /\ work[w].committed = None
    /\ ~\E p \in publications : p.work = w
    /\ \A c \in Batch \ {b} : attempts[c][w].status = "NONE"
    /\ Run(<<"work", "batches", "attempts">>, [Current EXCEPT
          !.work[w] = [Unleased(work[w]) EXCEPT !.status = "DEAD", !.available_at = clock,
                                                !.error = "expired"],
          !.batches[b].status = "EXPIRED",
          !.attempts[b][w].status = "EXPIRED"])

\* replay: of any work that is not leased, published or not.
FReplay(w, operator, extra) ==
    /\ work[w].status \notin {"ABSENT", "LEASED"}
    /\ work[w].generation < MaxReplay
    /\ Run(<<"work", "replays">>, [Current EXCEPT
          !.work[w] = [work[w] EXCEPT !.status = "READY",
                          !.max_attempts = Max({@, work[w].attempt_count + extra}),
                          !.available_at = clock, !.committed = None, !.seq = 0,
                          !.generation = @ + 1],
          !.replays = @ \cup {[work |-> w, generation |-> work[w].generation + 1,
                               operator |-> operator, extra |-> extra]}])

FQuarantine(expected, operator) ==
    LET S == DOMAIN expected
    IN  /\ S # {}
        /\ \A w \in S : /\ work[w].status # "ABSENT"
                        /\ work[w].content.release = expected[w]
                        /\ \/ work[w].status = "DEAD" /\ work[w].error = operator
                           \/ work[w].status = "READY" /\ work[w].committed = None
        /\ Run(<<"work">>, [Current EXCEPT !.work = WorkWith([w \in S \cap Status("READY") |->
              [work[w] EXCEPT !.status = "DEAD", !.available_at = clock, !.error = operator]])])

-----------------------------------------------------------------------------
FTick == Tick /\ UNCHANGED <<lock, pending, next>>

FNext ==
    \/ \E S \in SUBSET Work, now \in ReadClock :
          \E request \in [S -> Content] : FRegister(S, request, now)
    \/ \E b \in Batch :
          \/ \E call \in ClaimCall : FClaim(b, call)
          \/ FHeartbeat(b)
          \/ \E result \in Results(b) : FSeal(b, result)
          \/ FCommit(b)
          \/ \E operator \in Operator : AbandonFailedClaim(b, operator)
          \/ \E w \in Work : RecoverExact(b, w)
    \/ \E now \in 0..MaxTime : FRecover(now)
    \/ \E w \in Work, operator \in Operator, extra \in 1..MaxExtra : FReplay(w, operator, extra)
    \/ \E S \in SUBSET Work, operator \in Operator :
          \E expected \in [S -> {c.release : c \in Content}] : FQuarantine(expected, operator)
    \/ Replace
    \/ FailHalfWay
    \/ ClearStaleLock
    \/ FTick

FSpec == FInit /\ [][FNext]_fvars
-----------------------------------------------------------------------------
(* Properties.  FencesAreUnique of ControlStore is checked here as well: a  *)
(* claim that fails half way has used up its fences.                        *)

\* However many operations stopped half way, a publication is the output that
\* a winning attempt sealed, under a sequence of its own.
PublicationsAreSealedOutputs ==
    /\ \A p \in publications :
          LET a == attempts[p.batch][p.work]
          IN  a.status = "SUCCEEDED" /\ a.ok /\ a.output = p.output
    /\ \A p, q \in publications : p.seq = q.seq => p = q

\* A work is published once, and once more for each replay: a commit that
\* stopped half way never leads to a second publication of the same work.
OnePublicationPerReplay ==
    \A w \in Work :
        Cardinality({p \in publications : p.work = w}) <= work[w].generation + 1

\* Delta commits each table by itself, so an operation may stop between two of
\* them.  What is left is still sound for the operations that follow: the
\* order of the writes in every operation is what makes it so.
TornTablesStaySound ==
    /\ FencesAreUnique
    /\ PublicationsAreSealedOutputs
    /\ OnePublicationPerReplay

\* What is finished stays finished, also when recovery meets the remains of a
\* commit: finished attempts and batches do not change, publications are only
\* added, and a succeeded work leaves that status by replay alone.
FinishedStaysFinished ==
    [][/\ \A b \in Batch, w \in Work :
             attempts[b][w].status \in {"SUCCEEDED", "FAILED", "EXPIRED"} =>
                attempts'[b][w] = attempts[b][w]
       /\ \A b \in Batch : batches[b].status \in {"COMMITTED", "EXPIRED"} =>
             batches'[b] = batches[b]
       /\ publications \subseteq publications'
       /\ \A w \in Status("SUCCEEDED") :
             work'[w] = work[w] \/ work'[w].generation = work[w].generation + 1]_fvars

\* "Execute, validate, seal, publish, and only then settle one claimed batch":
\* when no operation is under way, every successful output of a committed
\* batch is published.
SettledOnlyAfterPublication ==
    lock = "free" =>
        \A b \in Batch, w \in Work :
            batches[b].status = "COMMITTED" /\ attempts[b][w].ok =>
                \E p \in publications : p.batch = b /\ p.work = w

-----------------------------------------------------------------------------
(* The inductive invariant *)

TableName == {"work", "batches", "attempts", "publications", "replays"}

\* The old tables after the first k writes of an operation.
Partly(old, order, new, k) ==
    [t \in TableName |-> IF \E i \in 1..k : order[i] = t THEN new[t] ELSE old[t]]

TablesOK(W, B, A, P) ==
    /\ W \in [Work -> WorkRow]
    /\ B \in [Batch -> BatchRow]
    /\ A \in [Batch -> [Work -> AttemptRow]]
    /\ P \in SUBSET Publication
    \* there are so many publications and no more
    /\ \E n \in Nat : \A p \in P : p.seq <= n
    /\ \A w \in Work : IsFiniteSet({p \in P : p.work = w})

\* What a claim leaves in the two tables it writes first and last, whole or
\* torn: a fence is used up before an attempt has it, and an attempt that
\* expired is of a fence that nobody holds any more.
Fenced(W, A) ==
    \A w \in Work :
        /\ W[w].status = "ABSENT" => W[w].fence = 0
        /\ \A b \in Batch : A[b][w].status # "NONE" =>
              /\ A[b][w].fence \in 1..W[w].fence
              /\ \A c \in Batch \ {b} : A[c][w].status # "NONE" => A[c][w].fence # A[b][w].fence
              /\ A[b][w].status = "EXPIRED" /\ A[b][w].fence = W[w].fence =>
                    W[w].status # "LEASED"

\* A commit finishes the batch before the attempts, and seals come before it.
Settled(B, A) ==
    \A b \in Batch, w \in Work :
        /\ A[b][w].status \in {"SUCCEEDED", "FAILED"} => B[b].status = "COMMITTED"
        /\ A[b][w].status = "SEALED" => A[b][w].output # None

\* And the attempts before the publications.
Published(A, P) ==
    /\ \A p \in P :
          LET a == A[p.batch][p.work]
          IN  a.status = "SUCCEEDED" /\ a.ok /\ a.output = p.output
    /\ \A p, q \in P : p.seq = q.seq => p = q

\* A work that has not succeeded since its last replay is not published since:
\* a commit writes the work before the publications.
Counted(W, P) ==
    \A w \in Work :
        /\ W[w].status = "ABSENT" => W[w].generation = 0
        /\ Cardinality({p \in P : p.work = w}) <=
              W[w].generation + (IF W[w].status = "SUCCEEDED" THEN 1 ELSE 0)

Sound(W, B, A, P) ==
    TablesOK(W, B, A, P) /\ Fenced(W, A) /\ Settled(B, A) /\ Published(A, P) /\ Counted(W, P)

\* Nothing finished in the old tables is changed in the new ones.
FinishedKept(old, new) ==
    /\ \A b \in Batch, w \in Work :
          old.attempts[b][w].status \in {"SUCCEEDED", "FAILED", "EXPIRED"} =>
             new.attempts[b][w] = old.attempts[b][w]
    /\ \A b \in Batch : old.batches[b].status \in {"COMMITTED", "EXPIRED"} =>
          new.batches[b] = old.batches[b]
    /\ old.publications \subseteq new.publications
    /\ \A w \in Work : old.work[w].status = "SUCCEEDED" =>
          \/ new.work[w] = old.work[w]
          \/ new.work[w].generation = old.work[w].generation + 1

\* Wherever the operation under way stops, it leaves sound tables.
FInv ==
    /\ clock \in Nat
    /\ pending \in Seq(TableName)
    /\ \A k \in 0..Len(pending) :
          LET T == Partly(Current, pending, next, k)
          IN  Sound(T.work, T.batches, T.attempts, T.publications)
    /\ FinishedKept(Current, next)
=============================================================================
