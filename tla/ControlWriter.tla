---------------------------- MODULE ControlWriter ----------------------------
(***************************************************************************)
(* The Lakehouse lock of fabric_control.py: one Delta row                  *)
(* ('global', owner_id, acquired_at) claimed and cleared by compare-and-   *)
(* swap updates, without lease expiry, and the operator command            *)
(* clear-stale-lock of fabric_sjd_runtime.py.                              *)
(*                                                                         *)
(* Every call of ControlWriter.run draws a fresh owner token, so a run and *)
(* its token are one thing here.  A read of the row and an update of it    *)
(* are one step each; everything else interleaves.  An update may raise    *)
(* after, before or while its commit is decided: then the commit lands     *)
(* later, or never (late).                                                 *)
(***************************************************************************)
CONSTANTS Run,      \* owner tokens, one for each call of run
          NoOwner   \* owner_id IS NULL

ASSUME NoOwnerAssumption == NoOwner \notin Run

VARIABLES
    lock,      \* the row: owner_id, and whether acquired_at is set
    pc,        \* where each run is
    seen,      \* the owner_id each run read last (local variable state)
    inflight,  \* runs whose callback has a table write that can still commit
    late,      \* undecided lock updates <<kind, run>> of runs that raised
    op         \* the operator's command: [step, target]

vars == <<lock, pc, seen, inflight, late, op>>

Free == [owner |-> NoOwner, acquired |-> FALSE]
HeldBy(r) == [owner |-> r, acquired |-> TRUE]

Terminal == {"done", "timedout", "failed", "refused", "dead"}
Acquiring == {"loop", "reread", "sleep"}
Holding == {"own", "release", "clearing"}
PC == {"idle", "verify"} \cup Acquiring \cup Holding \cup Terminal

Init ==
    /\ lock = Free
    /\ pc = [r \in Run |-> "idle"]
    /\ seen = [r \in Run |-> NoOwner]
    /\ inflight = {}
    /\ late = {}
    /\ op = [step |-> "idle", target |-> NoOwner]

Goto(r, from, to) ==
    /\ pc[r] = from
    /\ pc' = [pc EXCEPT ![r] = to]

\* The compare-and-swap updates of _claim and of _release.
ClaimCAS(r) == lock' = IF lock.owner = NoOwner THEN HeldBy(r) ELSE lock
ClearCAS(r) == lock' = IF lock.owner = r THEN Free ELSE lock

-----------------------------------------------------------------------------
(* _acquire *)

\* run draws its token; _acquire sets the deadline and reads the row.
Begin(r) ==
    /\ Goto(r, "idle", "loop")
    /\ seen' = [seen EXCEPT ![r] = lock.owner]
    /\ UNCHANGED <<lock, inflight, late, op>>

\* Loop test with the deadline passed: TimeoutError, no takeover.
AcquireTimeout(r) ==
    /\ Goto(r, "loop", "timedout")
    /\ UNCHANGED <<lock, seen, inflight, late, op>>

\* state.owner_id is None: the claim commits, finds the row taken, or loses
\* the optimistic commit (an OCC error, swallowed).
Claim(r) ==
    /\ seen[r] = NoOwner
    /\ Goto(r, "loop", "reread")
    /\ ClaimCAS(r) \/ UNCHANGED lock
    /\ UNCHANGED <<seen, inflight, late, op>>

\* Any other error of the claim is raised; its commit happened, did not
\* happen, or is still undecided.
ClaimError(r) ==
    /\ seen[r] = NoOwner
    /\ Goto(r, "loop", "failed")
    /\ \/ ClaimCAS(r) /\ UNCHANGED late
       \/ late' = late \cup {<<"claim", r>>} /\ UNCHANGED lock
       \/ UNCHANGED <<lock, late>>
    /\ UNCHANGED <<seen, inflight, op>>

\* Read after the claim: ours, or somebody else was first.
Reread(r) ==
    /\ Goto(r, "reread", IF lock.owner = r THEN "own" ELSE "sleep")
    /\ seen' = [seen EXCEPT ![r] = lock.owner]
    /\ UNCHANGED <<lock, inflight, late, op>>

\* The row was taken at the last read: return if by this run, else sleep.
Check(r) ==
    /\ seen[r] # NoOwner
    /\ Goto(r, "loop", IF seen[r] = r THEN "own" ELSE "sleep")
    /\ UNCHANGED <<lock, seen, inflight, late, op>>

\* The read after the sleep.
Poll(r) ==
    /\ Goto(r, "sleep", "loop")
    /\ seen' = [seen EXCEPT ![r] = lock.owner]
    /\ UNCHANGED <<lock, inflight, late, op>>

-----------------------------------------------------------------------------
(* operation() and _release *)

StartWrite(r) ==
    /\ pc[r] = "own" /\ r \notin inflight
    /\ inflight' = inflight \cup {r}
    /\ UNCHANGED <<lock, pc, seen, late, op>>

\* The write commits or is known not to; for a run that raised or died this
\* is the moment it can no longer commit.
EndWrite(r) ==
    /\ r \in inflight
    /\ inflight' = inflight \ {r}
    /\ UNCHANGED <<lock, pc, seen, late, op>>

OperationReturns(r) ==
    /\ r \notin inflight   \* eagerly completed operations
    /\ Goto(r, "own", "release")
    /\ UNCHANGED <<lock, seen, inflight, late, op>>

\* An exception of the callback, possibly with its write undecided: the
\* lock stays as it is.
OperationRaises(r) ==
    /\ Goto(r, "own", "failed")
    /\ UNCHANGED <<lock, seen, inflight, late, op>>

\* First read of _release: ownership must still be ours.
ReleaseRead(r) ==
    /\ Goto(r, "release",
            IF lock.owner # r \/ ~lock.acquired THEN "refused" ELSE "clearing")
    /\ UNCHANGED <<lock, seen, inflight, late, op>>

ReleaseClear(r) ==
    /\ Goto(r, "clearing", "verify")
    /\ ClearCAS(r)
    /\ UNCHANGED <<seen, inflight, late, op>>

ReleaseError(r) ==
    /\ Goto(r, "clearing", "failed")
    /\ \/ ClearCAS(r) /\ UNCHANGED late
       \/ late' = late \cup {<<"clear", r>>} /\ UNCHANGED lock
       \/ UNCHANGED <<lock, late>>
    /\ UNCHANGED <<seen, inflight, op>>

\* Second read of _release: not ours any more; a successor may hold it.
ReleaseVerify(r) ==
    /\ Goto(r, "verify",
            IF lock.owner = r \/ (lock.owner = NoOwner) = lock.acquired
            THEN "refused" ELSE "done")
    /\ UNCHANGED <<lock, seen, inflight, late, op>>

-----------------------------------------------------------------------------
(* Failures and the operator *)

\* The process stops; nothing unlocks, and what it had sent may still commit.
Crash(r) ==
    /\ pc[r] \notin Terminal \cup {"idle"}
    /\ pc' = [pc EXCEPT ![r] = "dead"]
    /\ late' = IF pc[r] = "loop" /\ seen[r] = NoOwner
               THEN late \cup {<<"claim", r>>}
               ELSE IF pc[r] = "clearing" THEN late \cup {<<"clear", r>>} ELSE late
    /\ UNCHANGED <<lock, seen, inflight, op>>

\* An undecided update is decided: it commits, or is lost.
LateUpdate(r) ==
    \E kind \in {"claim", "clear"} :
        /\ <<kind, r>> \in late
        /\ late' = late \ {<<kind, r>>}
        /\ \/ IF kind = "claim" THEN ClaimCAS(r) ELSE ClearCAS(r)
           \/ UNCHANGED lock
        /\ UNCHANGED <<pc, seen, inflight, op>>

\* (slips) an undecided write is overlooked; no confirmation at all.
ConfirmedStopped(r) == pc[r] \in {"failed", "refused", "dead"}
\* The module header's rule for the operator: a stopped or failed writer must
\* be confirmed unable to commit before its token is cleared.
Confirmed(r) == pc[r] \in {"failed", "refused", "dead"} /\ r \notin inflight

\* _clear_stale_lock: the precondition read, the update, the readback.
OperatorRead(r) ==
    /\ op.step = "idle"
    /\ Confirmed(r)
    /\ lock.owner = r /\ lock.acquired
    /\ op' = [step |-> "cas", target |-> r]
    /\ UNCHANGED <<lock, pc, seen, inflight, late>>

\* (slip) the update matches no row.
OperatorClearsNothing ==
    /\ op.step = "cas"
    /\ op' = [op EXCEPT !.step = "readback"]
    /\ UNCHANGED <<lock, pc, seen, inflight, late>>

OperatorClear ==
    /\ op.step = "cas"
    /\ ClearCAS(op.target)
    /\ op' = [op EXCEPT !.step = "readback"]
    /\ UNCHANGED <<pc, seen, inflight, late>>

OperatorReadback ==
    /\ op.step = "readback"
    /\ op' = IF lock = Free
             THEN [step |-> "idle", target |-> NoOwner]
             ELSE [op EXCEPT !.step = "raised"]
    /\ UNCHANGED <<lock, pc, seen, inflight, late>>

\* The operator sees the result of a raised command and may run another.
OperatorAgain ==
    /\ op.step = "raised"
    /\ op' = [step |-> "idle", target |-> NoOwner]
    /\ UNCHANGED <<lock, pc, seen, inflight, late>>

Operator ==
    \/ \E r \in Run : OperatorRead(r)
    \/ OperatorClear
    \/ OperatorReadback
    \/ OperatorAgain

-----------------------------------------------------------------------------
\* The steps a started run takes on its own unless it dies.
Step(r) ==
    \/ Claim(r) \/ Reread(r) \/ Check(r) \/ Poll(r)
    \/ OperationReturns(r) \/ ReleaseRead(r) \/ ReleaseClear(r) \/ ReleaseVerify(r)

Raise(r) == ClaimError(r) \/ OperationRaises(r) \/ ReleaseError(r)

Next ==
    \/ \E r \in Run :
          \/ Begin(r) \/ Step(r) \/ Raise(r) \/ AcquireTimeout(r) \/ Crash(r)
          \/ StartWrite(r) \/ EndWrite(r) \/ LateUpdate(r)
    \/ Operator

Spec == Init /\ [][Next]_vars

\* A live process keeps taking its steps and its writes get decided; the
\* deadline is finite, so the loop test cannot succeed for ever; an operator
\* attends to a lock whose owner is confirmed dead.
Fairness ==
    /\ \A r \in Run : /\ WF_vars(Step(r))
                      /\ SF_vars(AcquireTimeout(r))
                      /\ WF_vars(EndWrite(r))
                      /\ SF_vars(OperationReturns(r))
    /\ WF_vars(Operator)

LiveSpec == Spec /\ Fairness
-----------------------------------------------------------------------------
(* Properties *)

TypeOK ==
    /\ lock \in [owner : Run \cup {NoOwner}, acquired : BOOLEAN]
    /\ pc \in [Run -> PC]
    /\ seen \in [Run -> Run \cup {NoOwner}]
    /\ inflight \in SUBSET Run
    /\ late \in SUBSET ({"claim", "clear"} \X Run)
    /\ op \in [step : {"idle", "cas", "readback", "raised"},
               target : Run \cup {NoOwner}]

\* Only the lock's owner can have a control-table write that may still
\* commit, whatever raised, died, or was cleared in between.
WritesByOwnerOnly == \A r \in inflight : lock.owner = r

\* From the return of _acquire to the release update nobody, the operator
\* included, takes the lock from a live run: _release never finds a foreign
\* owner and never has to raise ControlLockError.
NoReleaseRefused == \A r \in Run : pc[r] # "refused"

\* A run that gave up with TimeoutError, or that ended normally, has not left
\* its token in the row: the lock can only be stuck behind a run that raised
\* or died.
CleanEndLeavesNoToken ==
    \A r \in Run : pc[r] \in {"idle", "timedout", "done"} => lock.owner # r

\* Ownership never passes directly from one token to another, and the token
\* of a run that is still live is only ever cleared by that run.
OwnershipHandover ==
    [][\A r \in Run :
          lock.owner = r /\ lock'.owner # r =>
             /\ lock'.owner = NoOwner
             /\ pc[r] \in {"clearing", "failed", "dead"}]_vars

\* The assertion in _clear_stale_lock: after the command's update the row
\* reads back as free.
ClearReadbackIsFree == op.step # "raised"

\* Every call of run ends: it returns, times out or raises.
EveryRunEnds == \A r \in Run : pc[r] # "idle" ~> pc[r] \in Terminal

\* No token stays in the row for ever.
LockIsFreedEventually == \A r \in Run : lock.owner = r ~> lock.owner # r

\* The lock makes progress: nobody waits in run for ever, and no token blocks
\* the others for ever, although its run may have raised or died with it and
\* the operator must find that out before clear-stale-lock takes it away.
LockMakesProgress == EveryRunEnds /\ LockIsFreedEventually

\* The strengthening that makes the safety properties inductive: what the row
\* and the runs know of each other.
RowIsConsistent == lock.acquired <=> lock.owner # NoOwner

OwnerIsKnown ==
    \A r \in Run :
        /\ pc[r] \in Holding => lock.owner = r
        /\ lock.owner = r => pc[r] \in Holding \cup {"reread", "failed", "dead"}
        /\ pc[r] = "loop" => seen[r] # r

LeftoversAreOfDeadRuns ==
    /\ \A r \in inflight : pc[r] \in {"own", "failed", "dead"}
    /\ \A l \in late : pc[l[2]] \in {"failed", "dead"} /\ l[2] \notin inflight
    /\ op.step = "cas" => op.target \in Run /\ Confirmed(op.target)

IInv ==
    /\ TypeOK
    /\ RowIsConsistent
    /\ OwnerIsKnown
    /\ LeftoversAreOfDeadRuns
    /\ WritesByOwnerOnly
    /\ NoReleaseRefused

\* The promise to the control stores.
Serialized == INSTANCE SerializedWrites
                 WITH holder <- lock.owner, writing <- inflight
SerializedSpec == Serialized!Spec

=============================================================================
