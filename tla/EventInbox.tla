----------------------------- MODULE EventInbox -----------------------------
(***************************************************************************)
(* The inbox of fabric_events.py: workers append commands about the        *)
(* attempt they execute, and whoever holds the control writer drains them  *)
(* into the tables of attempts and of work and acknowledges each with a    *)
(* receipt.                                                                *)
(*                                                                         *)
(* A drain writes the attempt, then the work, then, later, the receipts,   *)
(* and may stop after any of these; a drain that follows meets the same    *)
(* commands again.  ControlWriter shows that no two drains, and no drain   *)
(* and dispatcher, overlap.  Leasing and recovery belong to the dispatcher *)
(* that this repository no longer contains; they are what the commands     *)
(* say of them.  Of times only what is compared is kept: a lease is live   *)
(* or over, and what a command wrote carries the command.                  *)
(***************************************************************************)
EXTENDS Nothing, Integers, Sequences, FiniteSets, FiniteSetsExt

CONSTANTS
    VideoWork,     \* rows of video_work
    MaxAttempts,   \* max_attempts of every work
    MaxLeases,     \* bound on the leases of a work
    Execution,     \* worker executions
    MaxEvents,     \* bound on the commands of all executions
    MaxPending,    \* bound on the commands without a receipt
    Commands,      \* the commands that executions submit
    Active        \* the active statuses in their order, from LEASED to WRITING

\* _validate_payload, _Command.from_row
WellFormed ==
    [kind : {"claim_execution", "attempt_update", "succeed", "commit", "release"}]
    \cup [kind : {"heartbeat"}, status : {Active[i] : i \in DOMAIN Active}]
    \cup [kind : {"failure"}, retryable : BOOLEAN, lease_lost : BOOLEAN]

\* The other statuses of a work or of an attempt.
Settled == {"READY", "RETRY_WAIT", "SUCCEEDED", "DEAD_LETTERED", "TERMINAL_FAILED", "LEASE_LOST",
            "RELEASED"}

ASSUME EventInboxAssumption ==
    /\ MaxAttempts \in Nat \ {0} /\ MaxLeases \in Nat
    /\ Active \in Seq(STRING) /\ Len(Active) >= 2
    /\ Active[1] = "LEASED" /\ Active[Len(Active)] = "WRITING"
    /\ \A i \in DOMAIN Active : Active[i] \notin Settled
    /\ Commands \subseteq WellFormed
    /\ None \notin VideoWork \cup Execution \cup {"APPLIED", "REJECTED", "RELEASED"}

VARIABLES
    vwork,      \* video_work
    vattempt,   \* video_attempts, by work and lease number
    client,     \* WorkerEventClient of each execution
    inbox,      \* the worker_events without a receipt, by created_at
    receipts,   \* worker_event_receipts: of the last one of each execution
                \* its sequence and, if it is of a commit, its outcome
    drain       \* the drain that is under way

evars == <<vwork, vattempt, client, inbox, receipts, drain>>

NoAttempt == [status |-> None, exec |-> None, started |-> FALSE, by |-> None]
NewWork == [status |-> "READY", owner |-> 0, live |-> FALSE, count |-> 0, leases |-> 0,
            committed |-> 0, by |-> None]
NoReceipt == [seq |-> 0, commit |-> None]
NoDrain == [pc |-> "free", todo |-> <<>>, before |-> None, plan |-> None, batch |-> <<>>]

EInit ==
    /\ vwork = [w \in VideoWork |-> NewWork]
    /\ vattempt = [w \in VideoWork |-> [n \in 1 .. MaxLeases |-> NoAttempt]]
    /\ client = [e \in Execution |-> [work |-> None, attempt |-> 0, seq |-> 0]]
    /\ inbox = <<>>
    /\ receipts = [e \in Execution |-> NoReceipt]
    /\ drain = NoDrain

-----------------------------------------------------------------------------
(* The dispatcher, and time *)

Lease(w) ==
    /\ drain.pc = "free"
    /\ vwork[w].status \in {"READY", "RETRY_WAIT"}
    /\ vwork[w].leases < MaxLeases /\ vwork[w].count < MaxAttempts
    /\ LET n == vwork[w].leases + 1
       IN  /\ vwork' = [vwork EXCEPT ![w] =
                [vwork[w] EXCEPT !.status = "LEASED", !.owner = n, !.live = TRUE,
                          !.count = @ + 1, !.leases = n, !.by = None]]
           /\ vattempt' = [vattempt EXCEPT ![w][n] = [NoAttempt EXCEPT !.status = "LEASED"]]
    /\ UNCHANGED <<client, inbox, receipts, drain>>

LeaseEnds(w) ==
    /\ vwork[w].live
    /\ vwork' = [vwork EXCEPT ![w].live = FALSE]
    /\ UNCHANGED <<vattempt, client, inbox, receipts, drain>>

IsActive(status) == \E i \in DOMAIN Active : Active[i] = status

RecoverLease(w) ==
    /\ drain.pc = "free"
    /\ IsActive(vwork[w].status) /\ ~vwork[w].live
    /\ vwork' = [vwork EXCEPT ![w] =
            [@ EXCEPT !.status = IF vwork[w].count >= MaxAttempts THEN "DEAD_LETTERED"
                                 ELSE "RETRY_WAIT",
                      !.owner = 0]]
    /\ UNCHANGED <<vattempt, client, inbox, receipts, drain>>

-----------------------------------------------------------------------------
(* WorkerEventClient *)

\* An execution, the first or another one, of the attempt that holds the lease.
StartExecution(e, w) ==
    /\ client[e].work = None /\ IsActive(vwork[w].status)
    /\ client' = [client EXCEPT ![e].work = w, ![e].attempt = vwork[w].owner]
    /\ UNCHANGED <<vwork, vattempt, inbox, receipts, drain>>

Appended == MapThenSumSet(LAMBDA e : client[e].seq, Execution)

\* submit: the command is durable before the client waits for its receipt,
\* and stays where it is when the client stops waiting: its next command may
\* follow before or after the receipt.
SubmitCommand(e, command) ==
    /\ client[e].work # None
    /\ Appended < MaxEvents /\ Len(inbox) < MaxPending
    /\ inbox' = Append(inbox, [exec |-> e, seq |-> client[e].seq + 1, work |-> client[e].work,
                               attempt |-> client[e].attempt, command |-> command])
    /\ client' = [client EXCEPT ![e].seq = @ + 1]
    /\ UNCHANGED <<vwork, vattempt, receipts, drain>>

-----------------------------------------------------------------------------
(* What a command asks for: new rows of the work and the attempt, or None    *)
(* where the command is rejected.                                            *)

Position(status) == CHOOSE i \in DOMAIN Active : Active[i] = status

Transition(current, target) ==
    /\ IsActive(current)
    /\ Position(target) - Position(current) \in {0, 1}

Owner(ev, w) ==
    w.committed = 0 /\ w.owner = ev.attempt /\ IsActive(w.status)

Plan(w, a) == [work |-> w, attempt |-> a]

PlanClaim(ev, w, a) ==
    IF /\ Owner(ev, w) /\ w.live
       /\ w.status = "LEASED" /\ a.status = "LEASED"
       /\ a.exec \in {None, ev.exec}
    THEN Plan(w, [a EXCEPT !.exec = ev.exec]) ELSE None

PlanHeartbeat(ev, w, a) ==
    LET target == ev.command.status
        beaten == Plan([w EXCEPT !.status = target, !.by = ev],
                          [a EXCEPT !.status = target, !.by = ev])
    IN  IF ~Owner(ev, w) THEN None
        ELSE IF beaten = Plan(w, a) THEN beaten
        ELSE IF w.live /\ Transition(w.status, target) /\ Transition(a.status, target)
        THEN beaten ELSE None

\* attempt_update without a status; what it may say of the start of inference.
PlanUpdate(ev, w, a) ==
    IF Owner(ev, w) /\ w.live /\ a.status = w.status
    THEN Plan(w, [a EXCEPT !.started = TRUE]) ELSE None

\* attempt_update to SUCCEEDED.
PlanSucceed(ev, w, a) ==
    IF ~Owner(ev, w) THEN None
    ELSE IF a.status = "SUCCEEDED"
    THEN IF w.status = "WRITING" /\ a.by = ev THEN Plan(w, a) ELSE None
    ELSE IF w.live /\ a.status = w.status /\ w.status = "WRITING"
    THEN Plan(w, [a EXCEPT !.status = "SUCCEEDED", !.by = ev]) ELSE None

Committed(ev, w, a) ==
    Plan([w EXCEPT !.status = "SUCCEEDED", !.committed = ev.attempt,
                      !.owner = 0, !.live = FALSE], a)

\* (slip) a commit that is met again is like any other.
PlanCommitOnce(ev, w, a) ==
    IF a.status = "SUCCEEDED" /\ Owner(ev, w) /\ w.live /\ w.status = "WRITING"
    THEN Committed(ev, w, a) ELSE None

PlanCommit(ev, w, a) ==
    IF a.status # "SUCCEEDED" THEN None
    ELSE IF w.status = "SUCCEEDED" /\ w.committed = ev.attempt THEN Plan(w, a)
    ELSE IF Owner(ev, w) /\ w.live /\ w.status = "WRITING"
    THEN Committed(ev, w, a) ELSE None

PlanFailure(ev, w, a) ==
    LET status == IF w.count >= MaxAttempts THEN "DEAD_LETTERED"
                  ELSE IF ev.command.retryable THEN "RETRY_WAIT" ELSE "TERMINAL_FAILED"
        failed == [a EXCEPT !.by = ev,
                     !.status = IF status = "RETRY_WAIT" /\ ev.command.lease_lost
                                THEN "LEASE_LOST" ELSE status]
        freed == [w EXCEPT !.status = status, !.owner = 0, !.live = FALSE, !.by = ev]
    IN  IF w.committed # 0 THEN None
        ELSE IF w = freed /\ a = failed THEN Plan(w, a)
        ELSE IF Owner(ev, w) /\ (IsActive(a.status) \/ a = failed) THEN Plan(freed, failed)
        ELSE None

ReleaseApplied(ev, w, a) ==
    a.status = "RELEASED" /\ a.by = ev /\ w.status = "RETRY_WAIT" /\ w.by = ev

GivenBack(ev, w, a) ==
    Plan([w EXCEPT !.status = "RETRY_WAIT", !.owner = 0, !.live = FALSE, !.by = ev,
                      !.count = IF @ = 0 THEN 0 ELSE @ - 1],
            [a EXCEPT !.status = "RELEASED", !.by = ev])

PlanRelease(ev, w, a) ==
    LET given == a.status = "RELEASED" /\ a.by = ev
    IN  IF ReleaseApplied(ev, w, a) THEN Plan(w, a)
        ELSE IF /\ Owner(ev, w) /\ (w.live \/ given)
                /\ w.status = "LEASED" /\ (a.status = "LEASED" \/ given)
                /\ ~a.started
        THEN GivenBack(ev, w, a)
        ELSE None

PlanOf(ev, w, a) ==
    LET kind == ev.command.kind
    IN  CASE kind = "claim_execution" -> PlanClaim(ev, w, a)
          [] kind # "claim_execution" /\ a.exec # ev.exec -> None
          [] kind = "heartbeat" /\ a.exec = ev.exec -> PlanHeartbeat(ev, w, a)
          [] kind = "attempt_update" /\ a.exec = ev.exec -> PlanUpdate(ev, w, a)
          [] kind = "succeed" /\ a.exec = ev.exec -> PlanSucceed(ev, w, a)
          [] kind = "commit" /\ a.exec = ev.exec -> PlanCommit(ev, w, a)
          [] kind = "failure" /\ a.exec = ev.exec -> PlanFailure(ev, w, a)
          [] kind = "release" /\ a.exec = ev.exec -> PlanRelease(ev, w, a)

-----------------------------------------------------------------------------
(* Draining *)

DrainBegins ==
    /\ drain.pc = "free" /\ inbox # <<>>
    /\ drain' = [NoDrain EXCEPT !.pc = "next", !.todo = inbox]
    /\ UNCHANGED <<vwork, vattempt, client, inbox, receipts>>

Busy(batch, ev) == \E i \in DOMAIN batch : batch[i].event.work = ev.work

\* At most one command of an execution is in a batch.
Acknowledged(batch) ==
    [e \in Execution |->
        IF \E i \in DOMAIN batch : batch[i].event.exec = e
        THEN LET r == batch[CHOOSE i \in DOMAIN batch : batch[i].event.exec = e]
             IN  [seq |-> r.event.seq,
                  commit |-> IF r.event.command.kind = "commit" THEN r.outcome ELSE None]
        ELSE receipts[e]]

\* Commands are taken in their order, so that a batch is what the inbox begins
\* with.
Unacknowledged(batch) == SubSeq(inbox, Len(batch) + 1, Len(inbox))

\* The receipts become durable before another command for the same work is
\* looked at, and at the end of the drain.
FlushReceipts ==
    /\ drain.pc = "next" /\ drain.batch # <<>>
    /\ drain.todo # <<>> => Busy(drain.batch, Head(drain.todo))
    /\ receipts' = Acknowledged(drain.batch)
    /\ inbox' = Unacknowledged(drain.batch)
    /\ drain' = [drain EXCEPT !.batch = <<>>]
    /\ UNCHANGED <<vwork, vattempt, client>>

DrainEnds ==
    /\ drain.pc = "next" /\ drain.todo = <<>> /\ drain.batch = <<>>
    /\ drain' = NoDrain
    /\ UNCHANGED <<vwork, vattempt, client, inbox, receipts>>

Stale(ev) == ev.seq <= receipts[ev.exec].seq

\* _apply_event reads both rows and decides.
Decide ==
    /\ drain.pc = "next" /\ drain.todo # <<>>
    /\ LET ev == Head(drain.todo)
           plan == IF Stale(ev) THEN None
                   ELSE PlanOf(ev, vwork[ev.work], vattempt[ev.work][ev.attempt])
       IN  /\ ~Busy(drain.batch, ev)
           /\ drain' = [drain EXCEPT
                !.pc = IF plan = None THEN "next" ELSE "attempt",
                !.plan = plan,
                !.before = IF plan = None THEN None ELSE vwork[ev.work],
                !.todo = IF plan = None THEN Tail(@) ELSE @,
                !.batch = IF plan = None
                          THEN Append(@, [event |-> ev, outcome |-> "REJECTED"]) ELSE @]
    /\ UNCHANGED <<vwork, vattempt, client, inbox, receipts>>

WriteAttempt ==
    /\ drain.pc = "attempt"
    /\ LET ev == Head(drain.todo)
       IN  vattempt' = [vattempt EXCEPT ![ev.work][ev.attempt] = drain.plan.attempt]
    /\ drain' = [drain EXCEPT !.pc = "work"]
    /\ UNCHANGED <<vwork, client, inbox, receipts>>

\* The update of the work is conditional on what was read, and for a live
\* status on a lease that is still live: otherwise the drain raises.
WorkUnchanged(ev) ==
    \/ drain.plan.work = drain.before
    \/ vwork[ev.work] = drain.before
    \/ /\ drain.plan.work.status \notin {Active[i] : i \in DOMAIN Active} \cup {"SUCCEEDED"}
       /\ [vwork[ev.work] EXCEPT !.live = drain.before.live] = drain.before

WriteWork ==
    /\ drain.pc = "work"
    /\ LET ev == Head(drain.todo)
       IN  IF WorkUnchanged(ev)
           THEN /\ vwork' = [vwork EXCEPT ![ev.work] =
                        IF drain.plan.work = drain.before THEN @ ELSE drain.plan.work]
                /\ drain' = [drain EXCEPT !.pc = "next", !.plan = None, !.before = None,
                        !.todo = Tail(@),
                        !.batch = Append(@, [event |-> ev, outcome |-> "APPLIED"])]
           ELSE drain' = NoDrain /\ UNCHANGED vwork
    /\ UNCHANGED <<vattempt, client, inbox, receipts>>

\* The driver dies, or a table cannot be written.
DrainStops ==
    /\ drain.pc # "free"
    /\ drain' = NoDrain
    /\ UNCHANGED <<vwork, vattempt, client, inbox, receipts>>

-----------------------------------------------------------------------------

DrainStep ==
    \/ DrainBegins \/ Decide \/ WriteAttempt \/ WriteWork \/ FlushReceipts \/ DrainEnds

ENext ==
    \/ \E w \in VideoWork : Lease(w) \/ LeaseEnds(w) \/ RecoverLease(w)
    \/ \E e \in Execution :
        \/ \E w \in VideoWork : StartExecution(e, w)
        \/ \E command \in Commands : SubmitCommand(e, command)
    \/ DrainStep \/ DrainStops

ESpec == EInit /\ [][ENext]_evars

-----------------------------------------------------------------------------
(* Properties *)

\* What the execution that owns an attempt is told of its commit is what
\* happened, although the drain that applied it may have died before the
\* receipt and another one met the command again: an applied commit is the
\* commit of its work; an execution whose last word was a rejected commit
\* has not committed; and the committed attempt succeeded (_commit,
\* _apply_event).
CommitReceiptsTellTheTruth ==
    /\ \A e \in Execution :
        LET w == client[e].work
            committed == vwork[w].committed = client[e].attempt
        IN  /\ receipts[e].commit = "APPLIED" => committed
            /\ receipts[e].commit = "REJECTED" /\ receipts[e].seq = client[e].seq
                 /\ vattempt[w][client[e].attempt].exec = e => ~committed
    /\ \A w \in VideoWork : vwork[w].committed # 0 =>
        /\ vwork[w].status = "SUCCEEDED"
        /\ vattempt[w][vwork[w].committed].status = "SUCCEEDED"

\* A release gives its attempt back once, however often the command is met:
\* the attempts that count are at least the leases that were not released
\* (_release).
ReleasedAttemptsAreGivenBackOnce ==
    \A w \in VideoWork :
        /\ vwork[w].count <= vwork[w].leases
        /\ vwork[w].count >= vwork[w].leases
             - Cardinality({n \in 1 .. MaxLeases : vattempt[w][n].status = "RELEASED"})

\* A command that is drained twice, because the drain that applied it died
\* before its receipt, takes effect once and is reported as what it did.
EventsTakeEffectOnce == CommitReceiptsTellTheTruth /\ ReleasedAttemptsAreGivenBackOnce

-----------------------------------------------------------------------------
(* The inductive invariant behind it *)

Statuses == {Active[i] : i \in DOMAIN Active} \cup Settled
Events == [exec : Execution, seq : Nat, work : VideoWork, attempt : 1 .. MaxLeases,
           command : WellFormed]
WorkRows == [status : Statuses, owner : 0 .. MaxLeases, live : BOOLEAN, count : Nat,
             leases : 0 .. MaxLeases, committed : 0 .. MaxLeases, by : Events \cup {None}]
AttemptRows == [status : Statuses \cup {None}, exec : Execution \cup {None}, started : BOOLEAN,
                by : Events \cup {None}]
Plans == [work : WorkRows, attempt : AttemptRows]
Outcomes == [event : Events, outcome : {"APPLIED", "REJECTED"}]

ASSUME PlanAssumption == None \notin Plans

Drains == [pc : {"free", "next", "attempt", "work"}, todo : Seq(Events),
           before : WorkRows \cup {None}, plan : Plans \cup {None}, batch : Seq(Outcomes)]

ETypeOK ==
    /\ vwork \in [VideoWork -> WorkRows]
    /\ vattempt \in [VideoWork -> [1 .. MaxLeases -> AttemptRows]]
    /\ client \in [Execution -> [work : VideoWork \cup {None}, attempt : 0 .. MaxLeases, seq : Nat]]
    /\ inbox \in Seq(Events)
    /\ receipts \in [Execution -> [seq : Nat, commit : {"APPLIED", "REJECTED", None}]]
    /\ drain \in Drains

\* The commands of an execution are about its attempt, in their order, and
\* after those that are acknowledged.
InboxHolds ==
    /\ \A e \in Execution :
        /\ client[e].work # None => client[e].attempt \in 1 .. vwork[client[e].work].leases
        /\ receipts[e].commit # None => client[e].work # None
        /\ receipts[e].seq <= client[e].seq
    /\ \A i \in 1 .. Len(inbox) :
        LET ev == inbox[i]
        IN  /\ ev.work = client[ev.exec].work /\ ev.attempt = client[ev.exec].attempt
            /\ receipts[ev.exec].seq < ev.seq /\ ev.seq <= client[ev.exec].seq
    /\ \A i, j \in 1 .. Len(inbox) :
        i < j /\ inbox[i].exec = inbox[j].exec => inbox[i].seq < inbox[j].seq

\* A drain has what it decided, and then what it has to do, from the front of
\* the inbox; no two decisions of a batch are about one work.
InOrder(pc, batch, todo, box) ==
    /\ pc = "free" => batch = <<>> /\ todo = <<>>
    /\ Len(batch) + Len(todo) <= Len(box)
    /\ \A i \in 1 .. Len(batch) : batch[i].event = box[i]
    /\ \A i \in 1 .. Len(todo) : todo[i] = box[Len(batch) + i]
    /\ \A i, j \in 1 .. Len(batch) : i # j => batch[i].event.work # batch[j].event.work
    /\ pc \in {"attempt", "work"} =>
        todo # <<>> /\ \A i \in 1 .. Len(batch) : batch[i].event.work # todo[1].work

DrainHolds == InOrder(drain.pc, drain.batch, drain.todo, inbox)

GivenUp(w) == {n \in 1 .. MaxLeases : vattempt[w][n].status = "RELEASED" /\ n # vwork[w].owner}

WorkSound(w) ==
    /\ vwork[w].owner <= vwork[w].leases
    /\ IsActive(vwork[w].status) => vwork[w].owner # 0
    /\ vwork[w].committed # 0 =>
        vwork[w].status = "SUCCEEDED" /\ vattempt[w][vwork[w].committed].status = "SUCCEEDED"
    /\ vwork[w].count <= vwork[w].leases
    /\ vwork[w].leases <= vwork[w].count + Cardinality(GivenUp(w))
    /\ \A n \in 1 .. MaxLeases : n > vwork[w].leases => vattempt[w][n].status # "RELEASED"

WorkHolds == \A w \in VideoWork : WorkSound(w)

\* What a plan may do to the work whose row the drain read.
Leaves(ev, w, p) == p.work = w /\ (ev.command.kind = "commit" => w.committed = ev.attempt)
Beats(ev, w, p) ==
    /\ Owner(ev, w) /\ ev.command.kind # "commit"
    /\ p.work = [w EXCEPT !.status = p.work.status, !.by = p.work.by]
    /\ IsActive(p.work.status)
Commits(ev, w, p) ==
    /\ Owner(ev, w) /\ p.attempt.status = "SUCCEEDED"
    /\ p.work = [w EXCEPT !.status = "SUCCEEDED", !.committed = ev.attempt,
                         !.owner = 0, !.live = FALSE]
Frees(ev, w, p) ==
    /\ Owner(ev, w) /\ ev.command.kind # "commit"
    /\ p.work = [w EXCEPT !.status = p.work.status, !.owner = 0, !.live = FALSE, !.by = p.work.by,
                         !.count = p.work.count]
    /\ p.work.status \in Settled
    /\ \/ p.work.count = w.count
       \/ p.work.count + 1 = w.count /\ p.attempt.status = "RELEASED"

Fits(ev, w, p) ==
    /\ p.attempt.exec = ev.exec
    /\ Leaves(ev, w, p) \/ Beats(ev, w, p) \/ Commits(ev, w, p) \/ Frees(ev, w, p)

\* What it may do to the attempt.
Continues(ev, w, a, p) ==
    /\ ~Owner(ev, w) => p.work = w /\ p.attempt = a
    /\ a.status = "RELEASED" => p.attempt.status = "RELEASED"

\* A plan is about what was read; only the lease may have ended since.
PlanHolds ==
    drain.pc \in {"attempt", "work"} =>
        LET ev == drain.todo[1]
        IN  /\ drain.before \in WorkRows /\ drain.plan \in Plans
            /\ [vwork[ev.work] EXCEPT !.live = drain.before.live] = drain.before
            /\ Fits(ev, drain.before, drain.plan)
            /\ drain.pc = "attempt" =>
                   Continues(ev, drain.before, vattempt[ev.work][ev.attempt], drain.plan)
            /\ drain.pc = "work" => vattempt[ev.work][ev.attempt] = drain.plan.attempt

\* No command of the execution is left that could commit what was refused.
IsOver(e, w, n, seq) ==
    seq = client[e].seq /\ vattempt[w][n].exec = e => vwork[w].committed # n

OutcomesHold ==
    /\ \A i \in 1 .. Len(drain.batch) :
        LET ev == drain.batch[i].event
        IN  ev.command.kind = "commit" =>
                /\ drain.batch[i].outcome = "APPLIED" => vwork[ev.work].committed = ev.attempt
                /\ drain.batch[i].outcome = "REJECTED" => IsOver(ev.exec, ev.work, ev.attempt, ev.seq)
    /\ \A e \in Execution :
        /\ receipts[e].commit = "APPLIED" => vwork[client[e].work].committed = client[e].attempt
        /\ receipts[e].commit = "REJECTED" =>
                IsOver(e, client[e].work, client[e].attempt, receipts[e].seq)

EInv == ETypeOK /\ InboxHolds /\ DrainHolds /\ WorkHolds /\ PlanHolds /\ OutcomesHold
=============================================================================
