----------------------------- MODULE LocalQueue -----------------------------
(***************************************************************************)
(* The queue of the local driver: the SQLite table of local_queue.py, the  *)
(* actor thread through which a submit command reaches it, and             *)
(* run_claimed_batch of local_control.py with its heartbeat thread.        *)
(*                                                                         *)
(* A call of the actor has three ends: it is answered, it times out while  *)
(* it waits (and is cancelled), or it times out while the actor runs it    *)
(* and its transaction takes effect with nobody waiting.  A token is the   *)
(* delivery it was made for; of a lease only its being live is kept.       *)
(***************************************************************************)
EXTENDS Naturals, Sequences, FiniteSets, SequencesExt, Nothing

CONSTANTS
    Message,       \* messages, by their idempotency keys
    Process,       \* submit commands; an ended one may be started again
    MaxDelivery,   \* max_delivery_count
    MaxItems,      \* --max-items
    MinItems       \* --minimum-workers

ASSUME LocalQueueAssumption ==
    /\ MaxDelivery \in 1 .. 100
    /\ MaxItems \in 1 .. 100
    /\ MinItems \in 1 .. MaxItems

VARIABLES
    arrivals,   \* the messages of the table in the order of created_at
    row,        \* queue_messages
    proc,       \* the main and the heartbeat thread of each command
    mail,       \* the requests that wait for each actor thread
    busy,       \* the request each actor thread runs
    staged      \* the deliveries with a SUCCEEDED record in a Delta staging table

lqvars == <<arrivals, row, proc, mail, busy, staged>>

NoRow == [state |-> "absent", count |-> 0, live |-> FALSE]
NotRunning == [pc |-> "idle", claims |-> {}, beat |-> "off", lost |-> FALSE,
               raised |-> FALSE]

Closing == [NotRunning EXCEPT !.pc = "closing"]

LQInit ==
    /\ arrivals = <<>>
    /\ row = [m \in Message |-> NoRow]
    /\ proc = [p \in Process |-> NotRunning]
    /\ mail = [p \in Process |-> <<>>]
    /\ busy = [p \in Process |-> None]
    /\ staged = {}

-----------------------------------------------------------------------------
(* The table *)

\* A second enqueue of a key returns the message or raises on other content.
Enqueue(m) ==
    /\ row[m].state = "absent"
    /\ row' = [row EXCEPT ![m].state = "ready"]
    /\ arrivals' = Append(arrivals, m)
    /\ UNCHANGED <<proc, mail, busy, staged>>

\* A lease ends; no statement of the queue is involved.
Expire(m) ==
    /\ row[m].live
    /\ row' = [row EXCEPT ![m].live = FALSE]
    /\ UNCHANGED <<arrivals, proc, mail, busy, staged>>

Unlocked(r, state) == [r EXCEPT !.state = state, !.live = FALSE]

\* A delivery that came to nothing.
GivenBack(r) == Unlocked(r, IF r.count >= MaxDelivery THEN "dead" ELSE "ready")

\* (slip) nobody takes expired messages back.
RecoverNothing == row

RecoverExpired ==
    [m \in Message |-> IF row[m].state = "locked" /\ ~row[m].live
                       THEN GivenBack(row[m]) ELSE row[m]]

\* The command recover.
Recover ==
    /\ row' = RecoverExpired
    /\ UNCHANGED <<arrivals, proc, mail, busy, staged>>

\* The oldest ready messages, if there are enough of them.
Claimable(rows) ==
    LET ready == {i \in DOMAIN arrivals : rows[arrivals[i]].state = "ready"}
        first == {i \in ready : Cardinality({j \in ready : j < i}) < MaxItems}
    IN  IF Cardinality(first) < MinItems THEN {} ELSE {arrivals[i] : i \in first}

\* (slip) any delivery of the message will do.
LiveMessage(m, n) == row[m].state = "locked" /\ row[m].live

LiveToken(m, n) == row[m].state = "locked" /\ row[m].count = n /\ row[m].live

FinalState(r, action) ==
    CASE action = "complete" -> Unlocked(r, "completed")
      [] action = "dead"     -> Unlocked(r, "dead")
      [] action = "abandon"  -> GivenBack(r)

-----------------------------------------------------------------------------
(* The actor *)

Request(by, op, outcomes) == [by |-> by, op |-> op, outcomes |-> outcomes, waited |-> TRUE]

\* SerializedQueueActor.call: the thread waits for the future of its request.
Call(p, request) == mail' = [mail EXCEPT ![p] = Append(@, request)]

Take(p) ==
    /\ busy[p] = None /\ mail[p] # <<>>
    /\ busy' = [busy EXCEPT ![p] = Head(mail[p])]
    /\ mail' = [mail EXCEPT ![p] = Tail(@)]
    /\ UNCHANGED <<arrivals, row, proc, staged>>

\* What the threads of p make of the end of a call: a result, or an error
\* ("lost" for LeaseLostError, "timeout" for TimeoutError).
Answered(p, request, result, claims) ==
    LET q == proc[p]
    IN  IF request.by = "beat"
        THEN IF result = "ok" THEN [q EXCEPT !.beat = "on"]
             ELSE [q EXCEPT !.beat = "stopped", !.lost = TRUE]
        ELSE CASE q.pc = "claiming" ->
                    IF result = "ok" /\ claims # {}
                    THEN [q EXCEPT !.pc = "running", !.claims = claims, !.beat = "on"]
                    ELSE Closing
               [] q.pc = "settling" ->
                    [q EXCEPT !.pc = "leaving", !.raised = result # "ok"]
               [] q.pc = "abandoning" -> Closing

Replied(p, result, claims) ==
    proc' = [proc EXCEPT ![p] = IF busy[p].waited THEN Answered(p, busy[p], result, claims) ELSE @]

RunClaim(p) ==
    /\ busy[p].op = "claim"
    /\ LET rows == RecoverExpired
           taken == Claimable(rows)
       IN  /\ row' = [m \in Message |->
                        IF m \in taken
                        THEN [state |-> "locked", count |-> rows[m].count + 1, live |-> TRUE]
                        ELSE rows[m]]
           /\ Replied(p, "ok", {<<m, rows[m].count + 1>> : m \in taken})

\* renew_many and finalize: one transaction, rolled back at the first token
\* that is not live.
AllLive(tokens) == \A t \in tokens : LiveToken(t[1], t[2])

RunRenew(p) ==
    /\ busy[p].op = "renew"
    /\ Replied(p, IF AllLive(busy[p].outcomes) THEN "ok" ELSE "lost", {})
    /\ UNCHANGED row

RunFinalize(p) ==
    /\ busy[p].op = "finalize"
    /\ IF AllLive(busy[p].outcomes)
       THEN /\ row' = [m \in Message |->
                         IF \E t \in busy[p].outcomes : t[1] = m
                         THEN FinalState(row[m],
                                (CHOOSE t \in busy[p].outcomes : t[1] = m)[3])
                         ELSE row[m]]
            /\ Replied(p, "ok", {})
       ELSE Replied(p, "lost", {}) /\ UNCHANGED row

Execute(p) ==
    /\ busy[p] # None
    /\ RunClaim(p) \/ RunRenew(p) \/ RunFinalize(p)
    /\ busy' = [busy EXCEPT ![p] = None]
    /\ UNCHANGED <<arrivals, mail, staged>>

\* The caller of a waiting request gives up: the future is cancelled.
TimeoutWaiting(p) ==
    \E i \in DOMAIN mail[p] :
        /\ proc' = [proc EXCEPT ![p] = Answered(p, mail[p][i], "timeout", {})]
        /\ mail' = [mail EXCEPT ![p] = RemoveAt(@, i)]
        /\ UNCHANGED <<arrivals, row, busy, staged>>

\* The caller of the running request gives up: cancel has no effect.
TimeoutRunning(p) ==
    /\ busy[p] # None /\ busy[p].waited
    /\ proc' = [proc EXCEPT ![p] = Answered(p, busy[p], "timeout", {})]
    /\ busy' = [busy EXCEPT ![p].waited = FALSE]
    /\ UNCHANGED <<arrivals, row, mail, staged>>

-----------------------------------------------------------------------------
(* run_claimed_batch *)

MoveTo(p, from, to) ==
    /\ proc[p].pc = from
    /\ proc' = [proc EXCEPT ![p].pc = to]

Submit(p) ==
    /\ MoveTo(p, "idle", "claiming")
    /\ Call(p, Request("main", "claim", {}))
    /\ UNCHANGED <<arrivals, row, busy, staged>>

Beat(p) ==
    /\ proc[p].beat = "on" /\ proc[p].pc \in {"running", "settling"}
    /\ proc' = [proc EXCEPT ![p].beat = "calling"]
    /\ Call(p, Request("beat", "renew", proc[p].claims))
    /\ UNCHANGED <<arrivals, row, busy, staged>>

\* validate_delta_staging: exactly one terminal record per claim.
ValidStaging(rows) == \A t \in DOMAIN rows : Cardinality(rows[t]) = 1

\* An error record is a failed work.
Outcomes(rows) ==
    {<<t[1], t[2], IF "error" \in rows[t] THEN "abandon" ELSE "complete">> : t \in DOMAIN rows}

\* process_claimed_batch writes the terminal records of the claims; they are
\* settled if they are valid and the heartbeat kept the fence.
RunnerStages(p) ==
    /\ proc[p].pc = "running"
    /\ \E rows \in [proc[p].claims -> SUBSET {"video_result", "error"}] :
        /\ staged' = staged \cup {t \in proc[p].claims : rows[t] = {"video_result"}}
        /\ IF ValidStaging(rows) /\ ~proc[p].lost
           THEN /\ MoveTo(p, "running", "settling")
                /\ Call(p, Request("main", "finalize", Outcomes(rows)))
           ELSE /\ proc' = [proc EXCEPT ![p].pc = "leaving", ![p].raised = TRUE]
                /\ UNCHANGED mail
    /\ UNCHANGED <<arrivals, row, busy>>

\* The manifest is refused, or the runner raises before it staged anything.
RunnerRaises(p) ==
    /\ proc[p].pc = "running"
    /\ proc' = [proc EXCEPT ![p].pc = "leaving", ![p].raised = TRUE]
    /\ UNCHANGED <<arrivals, row, mail, busy, staged>>

\* BatchHeartbeat.__exit__ joins the thread; after an error the claims are
\* abandoned, all or none.
LeaveBatch(p) ==
    /\ proc[p].pc = "leaving" /\ proc[p].beat # "calling"
    /\ \/ /\ ~proc[p].raised
          /\ proc' = [proc EXCEPT ![p] = Closing]
          /\ UNCHANGED mail
       \/ /\ proc[p].raised
          /\ proc' = [proc EXCEPT ![p].pc = "abandoning", ![p].beat = "off",
                                       ![p].lost = FALSE]
          /\ Call(p, Request("main", "finalize",
                             {<<t[1], t[2], "abandon">> : t \in proc[p].claims}))
    /\ UNCHANGED <<arrivals, row, busy, staged>>

\* close: nobody waits any more; the actor thread ends what it runs.
Close(p) ==
    /\ proc[p].pc = "closing" /\ busy[p] = None
    /\ proc' = [proc EXCEPT ![p] = NotRunning]
    /\ mail' = [mail EXCEPT ![p] = <<>>]
    /\ UNCHANGED <<arrivals, row, busy, staged>>

\* The command dies, or ends because close timed out; its actor is a daemon
\* thread, and the transaction it runs is rolled back.
Die(p) ==
    /\ proc[p].pc \notin {"idle", "unused"}
    /\ proc' = [proc EXCEPT ![p] = NotRunning]
    /\ mail' = [mail EXCEPT ![p] = <<>>]
    /\ busy' = [busy EXCEPT ![p] = None]
    /\ UNCHANGED <<arrivals, row, staged>>

-----------------------------------------------------------------------------

LQStep(p) ==
    \/ Submit(p) \/ Beat(p) \/ Take(p) \/ Execute(p)
    \/ RunnerStages(p) \/ RunnerRaises(p) \/ LeaveBatch(p) \/ Close(p)

LQNext ==
    \/ \E m \in Message : Enqueue(m) \/ Expire(m)
    \/ Recover
    \/ \E p \in Process : LQStep(p) \/ TimeoutWaiting(p) \/ TimeoutRunning(p) \/ Die(p)

LQSpec == LQInit /\ [][LQNext]_lqvars

\* Commands are started again when they have ended, their threads run, a
\* runner ends, and leases end.  An actor that gets requests again and again
\* serves one some time before its caller times out or dies.
LQFairness ==
    /\ \A m \in Message : WF_lqvars(Expire(m))
    /\ \A p \in Process :
        /\ WF_lqvars(Submit(p)) /\ WF_lqvars(LeaveBatch(p)) /\ WF_lqvars(Close(p))
        /\ WF_lqvars(RunnerStages(p) \/ RunnerRaises(p))
        /\ SF_lqvars(Take(p)) /\ SF_lqvars(Execute(p))

LQFairSpec == LQSpec /\ LQFairness

-----------------------------------------------------------------------------
(* Properties *)

\* A message is completed on the record of its last delivery and of no other:
\* a command that lost a message to a later delivery (its lease ended while
\* the actor was busy, or its call timed out and took effect late) does not
\* settle it (SQLiteQueue.finalize).
CompletedByItsLastDelivery ==
    \A m \in Message : row[m].state = "completed" =>
        <<m, row[m].count>> \in staged

\* Every message of the queue is some day completed or dead, although
\* commands die, calls time out and claims are orphaned: the next claim
\* recovers what expired (claim, _recover_expired).
EveryMessageSettles ==
    \A m \in Message :
        row[m].state = "ready" ~> row[m].state \in {"completed", "dead"}

-----------------------------------------------------------------------------
(* The inductive invariant behind CompletedByItsLastDelivery *)

Delivery == Message \X Nat
Outcome == Message \X Nat \X {"complete", "abandon"}
Requests == [by : {"main", "beat"}, op : {"claim", "renew", "finalize"},
             outcomes : SUBSET (Delivery \cup Outcome), waited : BOOLEAN]
Procs == [pc : {"idle", "unused", "claiming", "running", "settling", "leaving", "abandoning",
                "closing"},
          claims : SUBSET Delivery, beat : {"off", "on", "calling", "stopped"},
          lost : BOOLEAN, raised : BOOLEAN]

LQTypeOK ==
    /\ arrivals \in Seq(Message)
    /\ row \in [Message -> [state : {"absent", "ready", "locked", "completed", "dead"},
                            count : Nat, live : BOOLEAN]]
    /\ proc \in [Process -> Procs]
    /\ mail \in [Process -> Seq(Requests)]
    /\ busy \in [Process -> Requests \cup {None}]
    /\ staged \in SUBSET Delivery

\* The main thread waits for one call at a time, and the answer finds it there.
MainCalls(p) == {i \in DOMAIN mail[p] : mail[p][i].by = "main"}
MainServed(p) == busy[p] # None /\ busy[p].by = "main" /\ busy[p].waited
Waiting(p) == proc[p].pc \in {"claiming", "settling", "abandoning"}
OneCallAtATime ==
    \A p \in Process :
        /\ MainCalls(p) # {} \/ MainServed(p) => Waiting(p)
        /\ \A i, j \in MainCalls(p) : i = j
        /\ MainServed(p) => MainCalls(p) = {}

\* Requests that settle a batch, however late they run, complete the staged
\* deliveries only.
Honest(request) ==
    request.op = "finalize" =>
        \A t \in request.outcomes :
            t \in Outcome /\ (t[3] = "complete" => <<t[1], t[2]>> \in staged)
RequestsAreHonest ==
    \A p \in Process :
        /\ \A i \in DOMAIN mail[p] : Honest(mail[p][i])
        /\ busy[p] # None => Honest(busy[p])

LQInv ==
    /\ LQTypeOK
    /\ OneCallAtATime
    /\ RequestsAreHonest
    /\ CompletedByItsLastDelivery
=============================================================================
