--------------------------- MODULE Reconciliation ---------------------------
(***************************************************************************)
(* The control store of sjd_control.py together with reconcile, which      *)
(* records what looks wrong in the tables as open findings and closes the  *)
(* ones it does not detect any more.  Like every operation it reads its    *)
(* clock before it waits for the write lock.                               *)
(***************************************************************************)
EXTENDS ControlStore

VARIABLE findings   \* rows without and with resolved_at

RInit == Init /\ findings = [open |-> {}, resolved |-> {}]

Finding(kind, w, b) == [kind |-> kind, work |-> w, batch |-> b]

\* The committed pointer must name a succeeded attempt and its publication.
InvalidPointer(w) ==
    /\ work[w].committed # None
    /\ LET b == work[w].committed
       IN  \/ attempts[b][w].status # "SUCCEEDED"
           \/ ~\E p \in publications : p.work = w /\ p.batch = b /\ p.seq = work[w].seq

\* (slip) any finished attempt counts as a success.
MissingPointerOfFinished(w) ==
    /\ work[w].committed = None
    /\ \E b \in Batch : attempts[b][w].status \in {"SUCCEEDED", "FAILED"}

MissingPointer(w) ==
    /\ work[w].committed = None
    /\ \/ work[w].status = "SUCCEEDED"
       \/ \E p \in publications : p.work = w
       \/ \E b \in Batch : attempts[b][w].status = "SUCCEEDED"

\* Attempt rows that differ from the batch membership.
MembershipMismatch(b) ==
    {w \in Work : attempts[b][w].status # "NONE"} # Members(b)

\* The lease of w is over at now and nobody has recovered it.
ExpiredLease(w, now) == work[w].status = "LEASED" /\ work[w].expires <= now

SealedUncommitted(b, w) ==
    /\ attempts[b][w].status = "SEALED"
    /\ ~\E p \in publications : p.work = w /\ p.batch = b

Detected(now) ==
    {f \in [kind : {"INVALID_COMMITTED_POINTER", "MISSING_COMMITTED_POINTER",
                    "EXPIRED_LEASE"}, work : Work, batch : {None}] :
        CASE f.kind = "INVALID_COMMITTED_POINTER" -> InvalidPointer(f.work)
          [] f.kind = "MISSING_COMMITTED_POINTER" -> MissingPointer(f.work)
          [] f.kind = "EXPIRED_LEASE" -> ExpiredLease(f.work, now)}
    \cup {f \in [kind : {"SEALED_UNCOMMITTED_ATTEMPT"}, work : Work, batch : Batch] :
             SealedUncommitted(f.batch, f.work)}
    \cup {f \in [kind : {"MEMBERSHIP_HASH_MISMATCH"}, work : {None}, batch : Batch] :
             MembershipMismatch(f.batch)}

\* What is detected is open, what was open and is not detected is resolved.
Reconcile(now) ==
    /\ findings' = [open |-> Detected(now),
                    resolved |-> (findings.resolved \cup findings.open) \ Detected(now)]
    /\ UNCHANGED vars

RNext ==
    \/ Next /\ UNCHANGED findings
    \/ \E now \in ReadClock : Reconcile(now)

RSpec == RInit /\ [][RNext]_<<vars, findings>>
-----------------------------------------------------------------------------
(* Properties *)

\* Whatever the interleaving of claims, late commits and recoveries, reconcile
\* has nothing to report but leases that ran out and sealed batches that wait
\* for their commit: pointers and memberships cannot go wrong through the
\* store's operations.
ReconcileFindsOnlyLeases ==
    \A f \in Detected(MaxTime) \cup findings.open \cup findings.resolved :
        f.kind \in {"EXPIRED_LEASE", "SEALED_UNCOMMITTED_ATTEMPT"}

\* "Reconciliation findings remain visible until explicitly resolved": an open
\* finding stays open while what it reports is still so.
FindingsRemainVisible ==
    [][\A f \in findings.open : f \in Detected(clock) => f \in findings'.open]_<<vars, findings>>
=============================================================================
