------------------------ MODULE ConcurrentJobsProofs ------------------------
(***************************************************************************)
(* Proofs about the jobs that run at the same time, for any number of      *)
(* them: the runs of ControlWriter, which take turns by the lock row, the  *)
(* commands of Pipeline, which do not take turns, and the commands and     *)
(* actors of LocalQueue.                                                   *)
(***************************************************************************)
EXTENDS ControlWriter, Pipeline, LocalQueue, SequenceTheorems, FiniteSetTheorems, TLAPS

-----------------------------------------------------------------------------
(* The lock: IInv ties its row to the program counters.  Whoever is between *)
(* _acquire and the release update owns the row, and the row only holds the *)
(* token of such a run, of one about to see that its claim won, or of one   *)
(* that raised or died.                                                     *)

USE NoOwnerAssumption

\* The free row satisfies the invariant.
LEMMA InitIInv == Init => IInv
  BY DEF Init, IInv, TypeOK, RowIsConsistent, OwnerIsKnown,
         LeftoversAreOfDeadRuns, WritesByOwnerOnly, NoReleaseRefused, Free,
         PC, Acquiring, Holding, Terminal

\* The steps of a live run keep the invariant.
LEMMA StepIInv ==
  ASSUME IInv, NEW r \in Run, Begin(r) \/ Step(r) \/ AcquireTimeout(r)
  PROVE  IInv'
<1> USE DEF IInv, TypeOK, RowIsConsistent, OwnerIsKnown,
            LeftoversAreOfDeadRuns, WritesByOwnerOnly, NoReleaseRefused,
            Free, HeldBy, PC, Acquiring, Holding, Terminal, Confirmed, Goto
<1>1. CASE Begin(r)
  BY <1>1 DEF Begin
<1>2. CASE AcquireTimeout(r)
  BY <1>2 DEF AcquireTimeout
<1>3. CASE Claim(r)
  <2>1. CASE lock' = lock
    BY <1>3, <2>1 DEF Claim
  <2>2. CASE lock.owner = NoOwner /\ lock' = HeldBy(r)
    BY <1>3, <2>2 DEF Claim
  <2> QED
    BY <1>3, <2>1, <2>2 DEF Claim, ClaimCAS
<1>4. CASE Reread(r)
  BY <1>4 DEF Reread
<1>5. CASE Check(r)
  BY <1>5 DEF Check
<1>6. CASE Poll(r)
  BY <1>6 DEF Poll
<1>7. CASE OperationReturns(r)
  BY <1>7 DEF OperationReturns
<1>8. CASE ReleaseRead(r)
  BY <1>8 DEF ReleaseRead
<1>9. CASE ReleaseClear(r)
  BY <1>9 DEF ReleaseClear, ClearCAS
<1>10. CASE ReleaseVerify(r)
  BY <1>10 DEF ReleaseVerify
<1> QED
  BY <1>1, <1>2, <1>3, <1>4, <1>5, <1>6, <1>7, <1>8, <1>9, <1>10 DEF Step

\* Crashes, updates that raise and their late commits keep the invariant.
LEMMA FailureIInv ==
  ASSUME IInv, NEW r \in Run,
         Raise(r) \/ Crash(r) \/ StartWrite(r) \/ EndWrite(r) \/ LateUpdate(r)
  PROVE  IInv'
<1> USE DEF IInv, TypeOK, RowIsConsistent, OwnerIsKnown,
            LeftoversAreOfDeadRuns, WritesByOwnerOnly, NoReleaseRefused,
            Free, HeldBy, PC, Acquiring, Holding, Terminal, Confirmed, Goto
<1>1. CASE ClaimError(r)
  <2>1. CASE lock' = lock /\ late' = late
    BY <1>1, <2>1 DEF ClaimError
  <2>2. CASE lock' = lock /\ late' = late \cup {<<"claim", r>>}
    BY <1>1, <2>2 DEF ClaimError
  <2>3. CASE lock.owner = NoOwner /\ lock' = HeldBy(r) /\ late' = late
    BY <1>1, <2>3 DEF ClaimError
  <2> QED
    BY <1>1, <2>1, <2>2, <2>3 DEF ClaimError, ClaimCAS
<1>2. CASE OperationRaises(r)
  BY <1>2 DEF OperationRaises
<1>3. CASE ReleaseError(r)
  <2>1. CASE lock' = lock /\ late' = late
    BY <1>3, <2>1 DEF ReleaseError
  <2>2. CASE lock' = lock /\ late' = late \cup {<<"clear", r>>}
    BY <1>3, <2>2 DEF ReleaseError
  <2>3. CASE lock.owner = r /\ lock' = Free /\ late' = late
    BY <1>3, <2>3 DEF ReleaseError
  <2> QED
    BY <1>3, <2>1, <2>2, <2>3 DEF ReleaseError, ClearCAS
<1>4. CASE Crash(r)
  BY <1>4 DEF Crash
<1>5. CASE StartWrite(r)
  BY <1>5 DEF StartWrite
<1>6. CASE EndWrite(r)
  BY <1>6 DEF EndWrite
<1>7. CASE LateUpdate(r)
  <2>1. pc[r] \in {"failed", "dead"} /\ r \notin inflight /\ late' \in SUBSET late
    BY <1>7 DEF LateUpdate
  <2>2. UNCHANGED <<pc, seen, inflight, op>>
    BY <1>7 DEF LateUpdate
  <2>3. CASE lock' = lock
    BY <2>1, <2>2, <2>3
  <2>4. CASE lock.owner = NoOwner /\ lock' = HeldBy(r)
    BY <2>1, <2>2, <2>4
  <2>5. CASE lock.owner = r /\ lock' = Free
    BY <2>1, <2>2, <2>5
  <2> QED
    BY <1>7, <2>3, <2>4, <2>5 DEF LateUpdate, ClaimCAS, ClearCAS
<1> QED
  BY <1>1, <1>2, <1>3, <1>4, <1>5, <1>6, <1>7 DEF Raise

\* clear-stale-lock keeps the invariant.
LEMMA OperatorIInv ==
  ASSUME IInv, Operator
  PROVE  IInv'
<1> USE DEF IInv, TypeOK, RowIsConsistent, OwnerIsKnown,
            LeftoversAreOfDeadRuns, WritesByOwnerOnly, NoReleaseRefused,
            Free, HeldBy, PC, Acquiring, Holding, Terminal, Confirmed
<1>1. ASSUME NEW r \in Run, OperatorRead(r) PROVE IInv'
  BY <1>1 DEF OperatorRead
<1>2. CASE OperatorClear
  BY <1>2 DEF OperatorClear, ClearCAS
<1>3. CASE OperatorReadback
  BY <1>3 DEF OperatorReadback
<1>4. CASE OperatorAgain
  BY <1>4 DEF OperatorAgain
<1> QED
  BY <1>1, <1>2, <1>3, <1>4 DEF Operator

\* A step that changes nothing keeps the invariant.
LEMMA StutterIInv == IInv /\ UNCHANGED vars => IInv'
  BY DEF vars, IInv, TypeOK, RowIsConsistent, OwnerIsKnown,
         LeftoversAreOfDeadRuns, WritesByOwnerOnly, NoReleaseRefused, Confirmed

\* Every step keeps the invariant.
LEMMA NextIInv == IInv /\ [Next]_vars => IInv'
  BY StepIInv, FailureIInv, OperatorIInv, StutterIInv DEF Next

\* IInv holds in every reachable state, for every set of runs.
THEOREM Invariance == Spec => []IInv
  BY InitIInv, NextIInv, PTL DEF Spec

\* The row, the runs and the operator keep their types.
THEOREM TypeCorrect == Spec => []TypeOK
<1>1. IInv => TypeOK
  BY DEF IInv
<1> QED
  BY <1>1, Invariance, PTL

\* Whatever raises, dies or is cleared by the operator, a write to the control
\* tables that may still commit belongs to the owner of the lock.
THEOREM OnlyOwnerWrites == Spec => []WritesByOwnerOnly
<1>1. IInv => WritesByOwnerOnly
  BY DEF IInv
<1> QED
  BY <1>1, Invariance, PTL

\* _release never raises ControlLockError for a foreign or inconsistent row.
THEOREM ReleaseNeverRefused == Spec => []NoReleaseRefused
<1>1. IInv => NoReleaseRefused
  BY DEF IInv
<1> QED
  BY <1>1, Invariance, PTL

\* A run that timed out or returned left no token behind.
THEOREM CleanEnd == Spec => []CleanEndLeavesNoToken
<1>1. IInv => CleanEndLeavesNoToken
  BY DEF IInv, OwnerIsKnown, CleanEndLeavesNoToken, Holding
<1> QED
  BY <1>1, Invariance, PTL

\* The token of a live run is only cleared by that run, and ownership always
\* passes through the free row.
THEOREM Handover == Spec => OwnershipHandover
<1> DEFINE A == \A r \in Run :
                  lock.owner = r /\ lock'.owner # r =>
                     /\ lock'.owner = NoOwner
                     /\ pc[r] \in {"clearing", "failed", "dead"}
<1>1. ASSUME IInv, NEW r \in Run, Begin(r) \/ Step(r) \/ AcquireTimeout(r)
      PROVE  A
  BY <1>1 DEF Begin, Step, AcquireTimeout, Claim, Reread, Check, Poll,
              OperationReturns, ReleaseRead, ReleaseClear, ReleaseVerify,
              ClaimCAS, ClearCAS, Free, HeldBy, Goto
<1>2. ASSUME IInv, NEW r \in Run,
             Raise(r) \/ Crash(r) \/ StartWrite(r) \/ EndWrite(r) \/ LateUpdate(r)
      PROVE  A
  BY <1>2 DEF Raise, Crash, StartWrite, EndWrite, LateUpdate, ClaimError,
              OperationRaises, ReleaseError, ClaimCAS, ClearCAS, Free, HeldBy,
              Goto, IInv, LeftoversAreOfDeadRuns
<1>3. ASSUME IInv, Operator
      PROVE  A
  BY <1>3 DEF Operator, OperatorRead, OperatorClear, OperatorReadback,
              OperatorAgain, ClearCAS, Free, IInv, LeftoversAreOfDeadRuns,
              Confirmed, NoReleaseRefused
<1>4. IInv /\ [Next]_vars => [A]_vars
  BY <1>1, <1>2, <1>3 DEF Next
<1> QED
  BY <1>4, Invariance, PTL DEF Spec, OwnershipHandover

\* ControlWriter implements SerializedWrites: every step of a run, of a crash,
\* of a late commit and of the operator is a step of the abstract lock or
\* leaves it alone.
THEOREM ImplementsSerializedWrites == Spec => SerializedSpec
<1> USE DEF Serialized!vars, Serialized!Next, Serialized!Acquire,
            Serialized!StartWrite, Serialized!EndWrite, Serialized!Release
<1>1. Init => Serialized!Init
  BY DEF Init, Serialized!Init, Free
<1>2. ASSUME IInv, NEW r \in Run, Begin(r) \/ Step(r) \/ AcquireTimeout(r)
      PROVE  [Serialized!Next]_(Serialized!vars)
  <2>1. CASE Claim(r)
    BY <2>1 DEF Claim, ClaimCAS, HeldBy
  <2>2. CASE ReleaseClear(r)
    BY <1>2, <2>2 DEF ReleaseClear, ClearCAS, Free, Goto, IInv,
                      LeftoversAreOfDeadRuns, WritesByOwnerOnly
  <2> QED
    BY <1>2, <2>1, <2>2 DEF Begin, Step, AcquireTimeout, Reread, Check, Poll,
                            OperationReturns, ReleaseRead, ReleaseVerify
<1>3. ASSUME IInv, NEW r \in Run,
             Raise(r) \/ Crash(r) \/ StartWrite(r) \/ EndWrite(r) \/ LateUpdate(r)
      PROVE  [Serialized!Next]_(Serialized!vars)
  <2>1. CASE ClaimError(r)
    BY <2>1 DEF ClaimError, ClaimCAS, HeldBy
  <2>2. CASE ReleaseError(r)
    BY <1>3, <2>2 DEF ReleaseError, ClearCAS, Free, Goto, IInv,
                      LeftoversAreOfDeadRuns, WritesByOwnerOnly
  <2>3. CASE StartWrite(r)
    BY <1>3, <2>3 DEF StartWrite, IInv, OwnerIsKnown, Holding
  <2>4. CASE LateUpdate(r)
    BY <1>3, <2>4 DEF LateUpdate, ClaimCAS, ClearCAS, Free, HeldBy, IInv,
                      LeftoversAreOfDeadRuns, WritesByOwnerOnly
  <2> QED
    BY <1>3, <2>1, <2>2, <2>3, <2>4 DEF Raise, OperationRaises, Crash, EndWrite
<1>4. ASSUME IInv, Operator
      PROVE  [Serialized!Next]_(Serialized!vars)
  BY <1>4 DEF Operator, OperatorRead, OperatorClear, OperatorReadback,
              OperatorAgain, ClearCAS, Free, IInv, LeftoversAreOfDeadRuns,
              Confirmed, WritesByOwnerOnly
<1>5. IInv /\ [Next]_vars => [Serialized!Next]_(Serialized!vars)
  BY <1>2, <1>3, <1>4 DEF Next, vars
<1> QED
  BY <1>1, <1>5, Invariance, PTL DEF Spec, SerializedSpec, Serialized!Spec

-----------------------------------------------------------------------------
(* The local pipeline: what a command knows of its works and of gold stays  *)
(* true while others run, break and are recovered.                          *)

\* The fields of a command are of their types.
LEMMA CommandRow ==
    ASSUME PLTypeOK, NEW r \in Command
    PROVE  /\ command[r] \in Commands
           /\ command[r].ids \in SUBSET Item /\ command[r].unread \in SUBSET Item
           /\ command[r].remaining \in SUBSET Item /\ command[r].members \in SUBSET Item
           /\ command[r].results \in SUBSET Batches /\ command[r].seen \in SUBSET Item
  <1>1. command[r] \in Commands
    BY DEF PLTypeOK
  <1> QED BY <1>1 DEF Commands

\* The two ends of a batch.
Ended(r, failed) ==
    [members |-> command[r].members, published |-> command[r].members \ failed]
Commits(r, failed) ==
    /\ command[r].pc = "process"
    /\ \A w \in command[r].members : item[w].lease = r
    /\ item' = [w \in Item |->
          IF w \notin command[r].members THEN item[w]
          ELSE IF w \in failed THEN Requeued(w)
          ELSE [item[w] EXCEPT !.status = "SUCCEEDED", !.lease = None]]
    /\ committed' = committed \cup {Ended(r, failed)}
    /\ command' = [command EXCEPT ![r] = [command[r] EXCEPT
          !.pc = "scan", !.unread = command[r].ids, !.remaining = {}, !.members = {},
          !.results = command[r].results \cup {Ended(r, failed)}]]
    /\ gold' = gold /\ overlapped' = overlapped
LosesBatch(r) ==
    /\ command[r].pc = "process"
    /\ command' = [command EXCEPT ![r].pc = "failed"]
    /\ item' = item /\ committed' = committed /\ gold' = gold /\ overlapped' = overlapped

LEMMA BatchEnds ==
    ASSUME NEW r, NEW failed, RunProcessBatch(r, failed)
    PROVE  Commits(r, failed) \/ LosesBatch(r)
  <1>1. CASE \A w \in command[r].members : item[w].lease = r
    BY <1>1 DEF RunProcessBatch, Commits, Ended
  <1>2. CASE ~\A w \in command[r].members : item[w].lease = r
    BY <1>2 DEF RunProcessBatch, LosesBatch
  <1> QED BY <1>1, <1>2

\* The row of a command whose batch committed.
LEMMA CommittedRow ==
    ASSUME PLTypeOK, NEW r \in Command, NEW W \in SUBSET Item, Commits(r, W)
    PROVE  /\ Ended(r, W) \in Batches
           /\ command' \in [Command -> Commands]
           /\ \A q \in Command \ {r} : command'[q] = command[q]
           /\ command'[r].pc = "scan" /\ command'[r].ids = command[r].ids
           /\ command'[r].unread = command[r].ids
           /\ command'[r].remaining = {} /\ command'[r].members = {}
           /\ command'[r].results = command[r].results \cup {Ended(r, W)}
  <1> DEFINE c == [command[r] EXCEPT !.pc = "scan", !.unread = command[r].ids,
                    !.remaining = {}, !.members = {},
                    !.results = command[r].results \cup {Ended(r, W)}]
  <1>1. command' = [command EXCEPT ![r] = c]
    BY DEF Commits
  <1>2. Ended(r, W) \in Batches
    BY CommandRow DEF Batches, Ended
  <1>3. command[r].results \cup {Ended(r, W)} \in SUBSET Batches
    BY <1>2, CommandRow
  <1>4. /\ c \in Commands
        /\ c.pc = "scan" /\ c.ids = command[r].ids /\ c.unread = command[r].ids
        /\ c.remaining = {} /\ c.members = {} /\ c.results = command[r].results \cup {Ended(r, W)}
    BY <1>3, CommandRow DEF Commands
  <1> HIDE DEF c
  <1>5. command' \in [Command -> Commands] /\ command'[r] = c
        /\ \A q \in Command \ {r} : command'[q] = command[q]
    BY <1>1, <1>4 DEF PLTypeOK
  <1> QED BY <1>2, <1>4, <1>5

\* Every step of a command keeps the types.
LEMMA StepKeepsTypes ==
    ASSUME PLTypeOK, NEW r \in Command, CommandStep(r)
    PROVE  PLTypeOK'
  <1>1. /\ command[r] \in Commands
        /\ command[r].ids \in SUBSET Item /\ command[r].unread \in SUBSET Item
        /\ command[r].remaining \in SUBSET Item /\ command[r].members \in SUBSET Item
        /\ command[r].results \in SUBSET Batches /\ command[r].seen \in SUBSET Item
    BY CommandRow
  <1>2. ASSUME NEW w \in Item, ReadStatus(r, w) PROVE PLTypeOK'
    <2>1. command'[r] \in Commands /\ \A q \in Command \ {r} : command'[q] = command[q]
      BY <1>1, <1>2 DEF ReadStatus, PLTypeOK, Commands
    <2> QED BY <1>2, <2>1 DEF ReadStatus, PLTypeOK
  <1>3. CASE Scanned(r)
    <2>1. AfterScan(command[r]) \in {"claim", "reconcile", "resume"}
      BY DEF AfterScan
    <2> QED BY <1>1, <1>3, <2>1 DEF Scanned, PLTypeOK, Commands
  <1>4. CASE NothingClaimed(r)
    BY <1>1, <1>4 DEF NothingClaimed, PLTypeOK, Commands
  <1>5. CASE ResumeBatches(r)
    <2> DEFINE own == {b \in committed : b.members \cap command[r].ids # {}}
    <2>1. own \in SUBSET Batches
      BY DEF PLTypeOK
    <2> QED BY <1>1, <1>5, <2>1 DEF ResumeBatches, PLTypeOK, Commands
  <1>6. ASSUME NEW W \in SUBSET Item, ClaimItems(r, W) PROVE PLTypeOK'
    <2>1. item' \in [Item -> [status : {"ABSENT", "READY", "LEASED", "SUCCEEDED", "DEAD"},
                              attempts : Nat, lease : Command \cup {None}]]
      BY <1>6 DEF ClaimItems, PLTypeOK
    <2>2. command' = [command EXCEPT ![r].pc = "process", ![r].members = W]
      BY <1>6 DEF ClaimItems
    <2>3. command' \in [Command -> Commands]
      BY <1>1, <2>2 DEF PLTypeOK, Commands
    <2> QED BY <1>6, <2>1, <2>3 DEF ClaimItems, PLTypeOK
  <1>7. ASSUME NEW W \in SUBSET Item, RunProcessBatch(r, W) PROVE PLTypeOK'
    <2>1. CASE Commits(r, W)
      <3>1. item' \in [Item -> [status : {"ABSENT", "READY", "LEASED", "SUCCEEDED", "DEAD"},
                                attempts : Nat, lease : Command \cup {None}]]
        <4>1. item' = [w \in Item |->
                IF w \notin command[r].members THEN item[w]
                ELSE IF w \in W THEN Requeued(w)
                ELSE [item[w] EXCEPT !.status = "SUCCEEDED", !.lease = None]]
          BY <2>1 DEF Commits
        <4> QED BY <4>1 DEF PLTypeOK, Requeued
      <3>2. committed' = committed \cup {Ended(r, W)} /\ gold' = gold /\ overlapped' = overlapped
        BY <2>1 DEF Commits
      <3>3. Ended(r, W) \in Batches /\ command' \in [Command -> Commands]
        BY <2>1, CommittedRow
      <3> QED BY <3>1, <3>2, <3>3 DEF PLTypeOK
    <2>2. CASE LosesBatch(r)
      <3>1. [command[r] EXCEPT !.pc = "failed"] \in Commands
        BY <1>1 DEF Commands
      <3>2. command' = [command EXCEPT ![r] = [command[r] EXCEPT !.pc = "failed"]]
        BY <2>2 DEF LosesBatch
      <3> QED BY <2>2, <3>1, <3>2 DEF LosesBatch, PLTypeOK
    <2> QED BY <1>7, <2>1, <2>2, BatchEnds
  <1>8. CASE ReadGold(r)
    BY <1>1, <1>8 DEF ReadGold, PLTypeOK, Commands, WithStatus
  <1>9. CASE WriteGold(r)
    BY <1>1, <1>9 DEF WriteGold, PLTypeOK, Commands
  <1>10. CASE SaveGold(r)
    BY <1>1, <1>10 DEF SaveGold, PLTypeOK, Commands
  <1>11. CASE AcknowledgeRefreshes(r)
    BY <1>1, <1>11 DEF AcknowledgeRefreshes, PLTypeOK, Commands
  <1> QED BY <1>2, <1>3, <1>4, <1>5, <1>6, <1>7, <1>8, <1>9, <1>10, <1>11 DEF CommandStep

\* What the steps of one command leave alone.
Local(r) ==
    /\ \A q \in Command \ {r} : command'[q] = command[q]
    /\ command'[r].ids = command[r].ids
    /\ command[r].pc \notin {"idle", "done", "failed"} /\ command'[r].pc # "idle"
    /\ committed \subseteq committed'
    /\ overlapped => overlapped'

LEMMA StepIsLocal ==
    ASSUME PLTypeOK, NEW r \in Command, CommandStep(r)
    PROVE  Local(r)
  <1>1. ASSUME NEW w \in Item, ReadStatus(r, w) PROVE Local(r)
    BY <1>1 DEF ReadStatus, PLTypeOK, Commands, Local
  <1>2. CASE Scanned(r)
    BY <1>2 DEF Scanned, AfterScan, PLTypeOK, Commands, Local
  <1>3. CASE NothingClaimed(r)
    BY <1>3 DEF NothingClaimed, PLTypeOK, Commands, Local
  <1>4. CASE ResumeBatches(r)
    BY <1>4 DEF ResumeBatches, PLTypeOK, Commands, Local
  <1>5. ASSUME NEW W \in SUBSET Item, ClaimItems(r, W) PROVE Local(r)
    <2>1. command' = [command EXCEPT ![r].pc = "process", ![r].members = W]
      BY <1>5 DEF ClaimItems
    <2>2. command[r].pc = "claim" /\ committed' = committed /\ overlapped' = overlapped
      BY <1>5 DEF ClaimItems
    <2> QED BY <2>1, <2>2 DEF PLTypeOK, Commands, Local
  <1>6. ASSUME NEW W \in SUBSET Item, RunProcessBatch(r, W) PROVE Local(r)
    <2>1. CASE Commits(r, W)
      BY <2>1, CommittedRow DEF Commits, Local
    <2>2. CASE LosesBatch(r)
      BY <2>2 DEF LosesBatch, PLTypeOK, Commands, Local
    <2> QED BY <1>6, <2>1, <2>2, BatchEnds
  <1>7. CASE ReadGold(r)
    BY <1>7 DEF ReadGold, PLTypeOK, Commands, Local
  <1>8. CASE WriteGold(r)
    BY <1>8 DEF WriteGold, PLTypeOK, Commands, Local
  <1>9. CASE SaveGold(r)
    BY <1>9 DEF SaveGold, PLTypeOK, Commands, Local
  <1>10. CASE AcknowledgeRefreshes(r)
    BY <1>10 DEF AcknowledgeRefreshes, PLTypeOK, Commands, Local
  <1> QED BY <1>1, <1>2, <1>3, <1>4, <1>5, <1>6, <1>7, <1>8, <1>9, <1>10 DEF CommandStep

\* Succeeded work is held by nobody and stays succeeded.
LEMMA SucceededStays ==
    ASSUME PLTypeOK, HeldWhileProcessed, NEW r \in Command,
           CommandStep(r) \/ (\E ids \in SUBSET Item : Launch(r, ids)) \/ RecoverItems(r)
    PROVE  WithStatus("SUCCEEDED") \subseteq WithStatus("SUCCEEDED")'
  <1> SUFFICES ASSUME NEW w \in Item, item[w].status = "SUCCEEDED"
               PROVE  item'[w].status = "SUCCEEDED"
    BY DEF WithStatus
  <1>1. item[w].lease = None /\ None \notin Command
    BY PipelineAssumption DEF HeldWhileProcessed
  <1>2. CASE item' = item
    BY <1>2
  <1>3. ASSUME NEW ids, Launch(r, ids) PROVE item'[w].status = "SUCCEEDED"
    BY <1>3 DEF Launch, PLTypeOK
  <1>4. CASE RecoverItems(r)
    BY <1>4 DEF RecoverItems, PLTypeOK, WithStatus
  <1>5. ASSUME NEW W, ClaimItems(r, W) PROVE item'[w].status = "SUCCEEDED"
    BY <1>5 DEF ClaimItems, PLTypeOK, WithStatus
  <1>6. ASSUME NEW W, RunProcessBatch(r, W) PROVE item'[w].status = "SUCCEEDED"
    BY <1>1, <1>6, BatchEnds DEF Commits, LosesBatch, PLTypeOK
  <1>7. CASE \/ \E v \in Item : ReadStatus(r, v)
             \/ Scanned(r) \/ NothingClaimed(r) \/ ResumeBatches(r)
             \/ ReadGold(r) \/ WriteGold(r) \/ SaveGold(r) \/ AcknowledgeRefreshes(r)
    BY <1>2, <1>7 DEF ReadStatus, Scanned, NothingClaimed, ResumeBatches, ReadGold, WriteGold,
                      SaveGold, AcknowledgeRefreshes
  <1> QED BY <1>3, <1>4, <1>5, <1>6, <1>7 DEF CommandStep

\* What a command does between its batches is only about itself.
Looks(r) ==
    \/ \E w \in Item : ReadStatus(r, w)
    \/ Scanned(r) \/ NothingClaimed(r) \/ ResumeBatches(r)
    \/ ReadGold(r) \/ WriteGold(r) \/ SaveGold(r) \/ AcknowledgeRefreshes(r)

LEMMA LooksKeepItems ==
    ASSUME NEW r, Looks(r)
    PROVE  item' = item /\ committed' = committed /\ command[r].pc # "process"
  BY DEF Looks, ReadStatus, Scanned, NothingClaimed, ResumeBatches, ReadGold, WriteGold,
         SaveGold, AcknowledgeRefreshes

\* The row of a command that claims.
LEMMA ClaimedRow ==
    ASSUME PLTypeOK, NEW r \in Command, NEW W \in SUBSET Item, ClaimItems(r, W)
    PROVE  /\ command[r].pc = "claim"
           /\ \A q \in Command \ {r} : command'[q] = command[q]
           /\ command'[r].pc = "process" /\ command'[r].members = W
           /\ command'[r].results = command[r].results
           /\ \A w \in Item \ W : item'[w] = item[w]
           /\ \A w \in W : /\ item[w].status = "READY"
                           /\ item'[w].status = "LEASED" /\ item'[w].lease = r
           /\ committed' = committed /\ gold' = gold /\ overlapped' = overlapped
  <1>1. command' = [command EXCEPT ![r].pc = "process", ![r].members = W]
    BY DEF ClaimItems
  <1>2. command'[r] = [command[r] EXCEPT !.pc = "process", !.members = W]
        /\ \A q \in Command \ {r} : command'[q] = command[q]
    BY <1>1 DEF PLTypeOK
  <1>3. command'[r].pc = "process" /\ command'[r].members = W
        /\ command'[r].results = command[r].results
    BY <1>2, CommandRow DEF Commands
  <1>4. \A w \in Item \ W : item'[w] = item[w]
    BY DEF ClaimItems
  <1>5. \A w \in W : item[w].status = "READY" /\ item'[w].status = "LEASED" /\ item'[w].lease = r
    BY DEF ClaimItems, WithStatus
  <1> QED BY <1>2, <1>3, <1>4, <1>5 DEF ClaimItems

\* Every step keeps work with the command that processes it.
LEMMA HeldStep ==
    ASSUME PLTypeOK, HeldWhileProcessed, [PLNext]_plvars
    PROVE  HeldWhileProcessed'
  <1>1. ASSUME NEW r \in Command, Looks(r) PROVE HeldWhileProcessed'
    <2>1. item' = item /\ command[r].pc \notin {"process", "failed"}
          /\ \A q \in Command \ {r} : command'[q] = command[q]
      BY <1>1, LooksKeepItems, StepIsLocal DEF Looks, CommandStep, Local
    <2> QED BY <2>1 DEF HeldWhileProcessed
  <1>2. ASSUME NEW r \in Command, NEW W \in SUBSET Item, ClaimItems(r, W)
        PROVE HeldWhileProcessed'
    <2>1. \A w \in Item : item[w].status = "LEASED" => item[w].lease # r
      BY <1>2, ClaimedRow DEF HeldWhileProcessed
    <2>2. /\ \A w \in W : item'[w].status = "LEASED" /\ item'[w].lease = r
          /\ \A w \in Item \ W : item'[w] = item[w]
          /\ command'[r].pc = "process" /\ command'[r].members = W
          /\ \A q \in Command \ {r} : command'[q] = command[q]
      BY <1>2, ClaimedRow
    <2> QED BY <2>1, <2>2 DEF HeldWhileProcessed
  <1>3. ASSUME NEW r \in Command, NEW W \in SUBSET Item, RunProcessBatch(r, W)
        PROVE HeldWhileProcessed'
    <2>1. CASE Commits(r, W)
      <3>1. \A w \in Item : IF w \in command[r].members
                            THEN item'[w].status # "LEASED" /\ item'[w].lease = None
                            ELSE item'[w] = item[w]
        BY <2>1 DEF Commits, Requeued, PLTypeOK
      <3>2. command[r].pc = "process" /\ \A q \in Command \ {r} : command'[q] = command[q]
        BY <2>1, CommittedRow DEF Commits
      <3> QED BY <3>1, <3>2 DEF HeldWhileProcessed
    <2>2. CASE LosesBatch(r)
      BY <2>2 DEF LosesBatch, PLTypeOK, Commands, HeldWhileProcessed
    <2> QED BY <1>3, <2>1, <2>2, BatchEnds
  <1>4. ASSUME NEW r \in Command, NEW ids \in SUBSET Item, Launch(r, ids)
        PROVE HeldWhileProcessed'
    <2>1. \A w \in Item :
             \/ item'[w] = item[w]
             \/ /\ item[w].status = "ABSENT" /\ item'[w].status = "READY"
                /\ item'[w].lease = item[w].lease
      BY <1>4 DEF Launch, PLTypeOK
    <2>2. command[r].pc = "idle" /\ \A q \in Command \ {r} : command'[q] = command[q]
      BY <1>4 DEF Launch, NotStarted
    <2> QED BY <2>1, <2>2 DEF HeldWhileProcessed
  <1>5. ASSUME NEW r \in Command, Break(r) PROVE HeldWhileProcessed'
    BY <1>5 DEF Break, HeldWhileProcessed, PLTypeOK, Commands
  <1>6. ASSUME NEW r \in Command, RecoverItems(r) PROVE HeldWhileProcessed'
    <2>1. \A w \in Item :
             \/ item'[w] = item[w]
             \/ item'[w].status # "LEASED" /\ item'[w].lease = None
      BY <1>6 DEF RecoverItems, Requeued
    <2> QED BY <1>6, <2>1 DEF RecoverItems, HeldWhileProcessed
  <1>7. CASE UNCHANGED plvars
    BY <1>7 DEF plvars, HeldWhileProcessed
  <1> QED BY <1>1, <1>2, <1>3, <1>4, <1>5, <1>6, <1>7 DEF PLNext, CommandStep, Looks

\* Every step keeps published work succeeded, and reports what is committed.
LEMMA PublishedStep ==
    ASSUME PLTypeOK, HeldWhileProcessed, PublishedHasSucceeded, [PLNext]_plvars
    PROVE  PublishedHasSucceeded'
  <1>1. ASSUME NEW r \in Command, CommandStep(r) \/ (\E ids \in SUBSET Item : Launch(r, ids)) \/ RecoverItems(r)
        PROVE  \A b \in committed : b.published \subseteq WithStatus("SUCCEEDED")'
    BY <1>1, SucceededStays DEF PublishedHasSucceeded
  <1>2. ASSUME NEW r \in Command, Looks(r) PROVE PublishedHasSucceeded'
    <2>1. /\ committed' = committed
          /\ \A q \in Command \ {r} : command'[q] = command[q]
          /\ CommandStep(r)
      BY <1>2, LooksKeepItems, StepIsLocal DEF Looks, CommandStep, Local
    <2>2. command'[r].results \subseteq committed
      <3>1. CASE ResumeBatches(r)
        BY <3>1 DEF ResumeBatches, PLTypeOK, Commands
      <3>2. CASE ~ResumeBatches(r)
        <4>1. ASSUME NEW w \in Item, ReadStatus(r, w) PROVE command'[r].results = command[r].results
          BY <4>1 DEF ReadStatus, PLTypeOK, Commands
        <4>2. ASSUME Scanned(r) \/ NothingClaimed(r) PROVE command'[r].results = command[r].results
          BY <4>2 DEF Scanned, NothingClaimed, PLTypeOK, Commands
        <4>3. ASSUME ReadGold(r) PROVE command'[r].results = command[r].results
          BY <4>3 DEF ReadGold, PLTypeOK, Commands
        <4>4. ASSUME WriteGold(r) \/ SaveGold(r) \/ AcknowledgeRefreshes(r)
              PROVE  command'[r].results = command[r].results
          BY <4>4 DEF WriteGold, SaveGold, AcknowledgeRefreshes, PLTypeOK, Commands
        <4> QED BY <1>2, <3>2, <4>1, <4>2, <4>3, <4>4 DEF Looks, PublishedHasSucceeded
      <3> QED BY <3>1, <3>2
    <2> QED BY <1>1, <2>1, <2>2 DEF PublishedHasSucceeded
  <1>3. ASSUME NEW r \in Command, NEW W \in SUBSET Item, ClaimItems(r, W)
        PROVE PublishedHasSucceeded'
    <2>1. CommandStep(r)
      BY <1>3 DEF CommandStep
    <2>2. /\ committed' = committed /\ command'[r].results = command[r].results
          /\ \A q \in Command \ {r} : command'[q] = command[q]
      BY <1>3, ClaimedRow
    <2> QED BY <1>1, <2>1, <2>2 DEF PublishedHasSucceeded
  <1>4. ASSUME NEW r \in Command, NEW W \in SUBSET Item, RunProcessBatch(r, W)
        PROVE PublishedHasSucceeded'
    <2>1. CASE Commits(r, W)
      <3>1. Ended(r, W).published \subseteq WithStatus("SUCCEEDED")'
        <4>1. Ended(r, W).published = command[r].members \ W /\ command[r].members \subseteq Item
          BY CommandRow DEF Ended
        <4>2. item' = [w \in Item |->
                IF w \notin command[r].members THEN item[w]
                ELSE IF w \in W THEN Requeued(w)
                ELSE [item[w] EXCEPT !.status = "SUCCEEDED", !.lease = None]]
          BY <2>1 DEF Commits
        <4>3. \A w \in command[r].members \ W : w \in Item /\ item'[w].status = "SUCCEEDED"
          BY <4>1, <4>2 DEF PLTypeOK
        <4> QED BY <4>1, <4>3 DEF WithStatus
      <3>2. committed' = committed \cup {Ended(r, W)}
        BY <2>1 DEF Commits
      <3>3. CommandStep(r)
        BY <1>4 DEF CommandStep
      <3> QED BY <1>1, <2>1, <3>1, <3>2, <3>3, CommittedRow DEF PublishedHasSucceeded
    <2>2. CASE LosesBatch(r)
      BY <2>2 DEF LosesBatch, PLTypeOK, Commands, PublishedHasSucceeded, WithStatus
    <2> QED BY <1>4, <2>1, <2>2, BatchEnds
  <1>5. ASSUME NEW r \in Command, NEW ids \in SUBSET Item, Launch(r, ids)
        PROVE PublishedHasSucceeded'
    <2>1. command' = [command EXCEPT ![r] = [NotStarted EXCEPT !.pc = "scan", !.ids = ids, !.unread = ids]]
          /\ committed' = committed
      BY <1>5 DEF Launch
    <2>2. command'[r].results = {} /\ \A q \in Command \ {r} : command'[q] = command[q]
      BY <2>1 DEF PLTypeOK, NotStarted
    <2> QED BY <1>1, <1>5, <2>1, <2>2 DEF PublishedHasSucceeded
  <1>6. ASSUME NEW r \in Command, Break(r) PROVE PublishedHasSucceeded'
    BY <1>6 DEF Break, PublishedHasSucceeded, PLTypeOK, Commands, WithStatus
  <1>7. ASSUME NEW r \in Command, RecoverItems(r) PROVE PublishedHasSucceeded'
    BY <1>1, <1>7 DEF RecoverItems, PublishedHasSucceeded
  <1>8. CASE UNCHANGED plvars
    BY <1>8 DEF plvars, PublishedHasSucceeded, WithStatus
  <1> QED BY <1>2, <1>3, <1>4, <1>5, <1>6, <1>7, <1>8 DEF PLNext, CommandStep, Looks

\* Every step keeps what one builder of gold knows and shows.
LEMMA OneBuilderStep ==
    ASSUME PLTypeOK, HeldWhileProcessed, PublishedHasSucceeded, ~overlapped', OneBuilder,
           [PLNext]_plvars
    PROVE  OneBuilder'
  <1> DEFINE done == WithStatus("SUCCEEDED")
  <1>1. ASSUME NEW r \in Command,
               CommandStep(r) \/ (\E ids \in SUBSET Item : Launch(r, ids)) \/ RecoverItems(r)
        PROVE  done \subseteq done'
    BY <1>1, SucceededStays
  <1>2. ASSUME NEW r \in Command, done \subseteq done', gold' = gold,
               \A q \in Command \ {r} : command'[q] = command[q],
               command'[r].pc \notin {"write", "save", "acknowledge", "done"}
        PROVE  OneBuilder'
    BY <1>2 DEF OneBuilder, InGold
  <1>3. ASSUME NEW r \in Command, NEW w \in Item, ReadStatus(r, w) PROVE OneBuilder'
    <2>1. command'[r].pc = "scan" /\ gold' = gold /\ CommandStep(r)
      BY <1>3 DEF ReadStatus, PLTypeOK, Commands, CommandStep
    <2> QED BY <1>1, <1>2, <2>1, StepIsLocal DEF Local
  <1>4. ASSUME NEW r \in Command, Scanned(r) PROVE OneBuilder'
    <2>1. command'[r].pc = AfterScan(command[r]) /\ gold' = gold /\ CommandStep(r)
      BY <1>4 DEF Scanned, PLTypeOK, Commands, CommandStep
    <2>2. AfterScan(command[r]) \in {"claim", "reconcile", "resume"}
      BY DEF AfterScan
    <2> QED BY <1>1, <1>2, <2>1, <2>2, StepIsLocal DEF Local
  <1>5. ASSUME NEW r \in Command, NothingClaimed(r) PROVE OneBuilder'
    <2>1. command'[r].pc = "failed" /\ gold' = gold /\ CommandStep(r)
      BY <1>5 DEF NothingClaimed, PLTypeOK, Commands, CommandStep
    <2> QED BY <1>1, <1>2, <2>1, StepIsLocal DEF Local
  <1>6. ASSUME NEW r \in Command, ResumeBatches(r) PROVE OneBuilder'
    <2>1. command'[r].pc \in {"failed", "reconcile"} /\ gold' = gold /\ CommandStep(r)
      BY <1>6 DEF ResumeBatches, PLTypeOK, Commands, CommandStep
    <2> QED BY <1>1, <1>2, <2>1, StepIsLocal DEF Local
  <1>7. ASSUME NEW r \in Command, NEW W \in SUBSET Item, ClaimItems(r, W) PROVE OneBuilder'
    <2>1. command'[r].pc = "process" /\ gold' = gold /\ CommandStep(r)
      BY <1>7, ClaimedRow DEF CommandStep
    <2> QED BY <1>1, <1>2, <2>1, StepIsLocal DEF Local
  <1>8. ASSUME NEW r \in Command, NEW W \in SUBSET Item, RunProcessBatch(r, W) PROVE OneBuilder'
    <2>1. command'[r].pc \in {"scan", "failed"} /\ gold' = gold
      <3>1. CASE Commits(r, W)
        BY <3>1, CommittedRow DEF Commits
      <3>2. CASE LosesBatch(r)
        BY <3>2 DEF LosesBatch, PLTypeOK, Commands
      <3> QED BY <1>8, <3>1, <3>2, BatchEnds
    <2>2. CommandStep(r)
      BY <1>8 DEF CommandStep
    <2> QED BY <1>1, <1>2, <2>1, <2>2, StepIsLocal DEF Local
  <1>9. ASSUME NEW r \in Command, ReadGold(r) PROVE OneBuilder'
    <2>1. /\ item' = item /\ gold' = gold
          /\ \A q \in Command \ {r} : ~InGold(q) /\ command'[q] = command[q]
          /\ command'[r].seen = done /\ command'[r].results = command[r].results
          /\ command'[r].pc = IF gold.checkpoint = done THEN "acknowledge" ELSE "write"
      BY <1>9 DEF ReadGold, PLTypeOK, Commands
    <2>2. \A b \in command[r].results : b.published \subseteq done
      BY DEF PublishedHasSucceeded
    <2>3. done' = done
      BY <2>1 DEF WithStatus
    <2> HIDE DEF done
    <2> QED BY <2>1, <2>2, <2>3 DEF OneBuilder, InGold, done
  <1>10. ASSUME NEW r \in Command, WriteGold(r) PROVE OneBuilder'
    <2>1. /\ item' = item /\ gold'.rows = command[r].seen /\ gold'.checkpoint = gold.checkpoint
          /\ \A q \in Command \ {r} : command'[q] = command[q]
          /\ command'[r] = [command[r] EXCEPT !.pc = "save"]
          /\ command'[r].pc = "save" /\ command'[r].seen = command[r].seen
          /\ command'[r].results = command[r].results
      BY <1>10 DEF WriteGold, PLTypeOK, Commands
    <2>2. InGold(r) /\ command[r].pc = "write" /\ \A q \in Command \ {r} : ~InGold(q)
      BY <1>10 DEF WriteGold, InGold, OneBuilder
    <2>3. done' = done
      BY <2>1 DEF WithStatus
    <2>4. /\ gold.rows \subseteq gold'.rows /\ gold'.rows \subseteq done
          /\ gold'.checkpoint \subseteq gold'.rows
          /\ \A b \in command[r].results : b.published \subseteq gold'.rows
      BY <2>1, <2>2 DEF OneBuilder
    <2>5. \A q \in Command : InGold(q)' => q = r
      BY <2>1, <2>2 DEF InGold
    <2>6. \A q \in Command : command'[q].pc \in {"acknowledge", "done"} =>
             \A b \in command'[q].results : b.published \subseteq gold'.rows
      BY <2>1, <2>4 DEF OneBuilder
    <2> HIDE DEF done
    <2> QED BY <2>1, <2>3, <2>4, <2>5, <2>6 DEF OneBuilder, done
  <1>11. ASSUME NEW r \in Command, SaveGold(r) PROVE OneBuilder'
    <2>1. /\ item' = item /\ gold'.rows = gold.rows /\ gold'.checkpoint = command[r].seen
          /\ \A q \in Command \ {r} : command'[q] = command[q]
          /\ command'[r].pc = "acknowledge" /\ command'[r].seen = command[r].seen
          /\ command'[r].results = command[r].results
      BY <1>11 DEF SaveGold, PLTypeOK, Commands
    <2>2. InGold(r) /\ command[r].pc = "save" /\ \A q \in Command \ {r} : ~InGold(q)
      BY <1>11 DEF SaveGold, InGold, OneBuilder
    <2>3. done' = done
      BY <2>1 DEF WithStatus
    <2> HIDE DEF done
    <2> QED BY <2>1, <2>2, <2>3 DEF OneBuilder, InGold, done
  <1>12. ASSUME NEW r \in Command, AcknowledgeRefreshes(r) PROVE OneBuilder'
    <2>1. /\ item' = item /\ gold'.rows = gold.rows /\ gold'.checkpoint = gold.checkpoint
          /\ \A q \in Command \ {r} : command'[q] = command[q]
          /\ command[r].pc = "acknowledge" /\ command'[r].pc = "done"
          /\ command'[r].results = command[r].results
      BY <1>12 DEF AcknowledgeRefreshes, PLTypeOK, Commands
    <2>3. done' = done
      BY <2>1 DEF WithStatus
    <2> HIDE DEF done
    <2> QED BY <2>1, <2>3 DEF OneBuilder, InGold, done
  <1>13. ASSUME NEW r \in Command, NEW ids \in SUBSET Item, Launch(r, ids) PROVE OneBuilder'
    <2>1. command'[r].pc = "scan" /\ gold' = gold /\ \A q \in Command \ {r} : command'[q] = command[q]
      BY <1>13 DEF Launch, PLTypeOK, NotStarted
    <2> QED BY <1>1, <1>2, <1>13, <2>1
  <1>14. ASSUME NEW r \in Command, Break(r) PROVE OneBuilder'
    <2>1. /\ command'[r].pc = "failed" /\ gold' = gold /\ item' = item
          /\ \A q \in Command \ {r} : command'[q] = command[q]
      BY <1>14 DEF Break, PLTypeOK, Commands
    <2> QED BY <1>2, <2>1 DEF WithStatus
  <1>15. ASSUME NEW r \in Command, RecoverItems(r) PROVE OneBuilder'
    <2>1. done \subseteq done' /\ gold' = gold /\ command' = command
      BY <1>1, <1>15 DEF RecoverItems
    <2> HIDE DEF done
    <2> QED BY <2>1 DEF OneBuilder, InGold, done
  <1>16. CASE UNCHANGED plvars
    BY <1>16 DEF plvars, OneBuilder, InGold, WithStatus
  <1> QED BY <1>3, <1>4, <1>5, <1>6, <1>7, <1>8, <1>9, <1>10, <1>11, <1>12, <1>13, <1>14, <1>15,
             <1>16 DEF PLNext, CommandStep

\* The steps of other commands, and recoveries, give a command that runs alone
\* no ready work; its own steps keep track of it.
Alone(r) == \A q \in Command \ {r} : command[q] = NotStarted

LEMMA KnowsStep ==
    ASSUME PLTypeOK, HeldWhileProcessed, NEW r \in Command, Alone(r)', Alone(r) => KnowsItsReadyWork(r),
           [PLNext]_plvars
    PROVE  KnowsItsReadyWork(r)'
  <1> DEFINE ready == WithStatus("READY")
  <1>1. ASSUME NEW q \in Command, CommandStep(q)
        PROVE  q = r /\ Alone(r) /\ command'[r].ids = command[r].ids
    <2>1. Local(q)
      BY <1>1, StepIsLocal
    <2>2. q = r
      BY <2>1 DEF Local, Alone, NotStarted
    <2> QED BY <2>1, <2>2 DEF Local, Alone
  <1>2. ASSUME Alone(r), item' = item, command'[r].ids = command[r].ids,
               \/ command'[r].pc \in {"claim", "process", "failed"}
               \/ /\ command[r].pc \in {"resume", "reconcile", "write", "save", "acknowledge"}
                  /\ command'[r].pc # "scan"
        PROVE  KnowsItsReadyWork(r)'
    BY <1>2 DEF KnowsItsReadyWork, WithStatus
  <1>3. ASSUME NEW q \in Command, NEW w \in Item, ReadStatus(q, w) PROVE KnowsItsReadyWork(r)'
    <2>1. q = r /\ Alone(r)
      BY <1>1, <1>3 DEF CommandStep
    <2>2. /\ command[r].pc = "scan" /\ command'[r].pc = "scan" /\ command'[r].ids = command[r].ids
          /\ command'[r].unread = command[r].unread \ {w} /\ item' = item
          /\ command'[r].remaining = IF item[w].status = "READY" THEN command[r].remaining \cup {w}
                                     ELSE command[r].remaining
      BY <1>3, <2>1 DEF ReadStatus, PLTypeOK, Commands
    <2> QED BY <2>1, <2>2 DEF KnowsItsReadyWork, WithStatus
  <1>4. ASSUME NEW q \in Command, Scanned(q) PROVE KnowsItsReadyWork(r)'
    <2>1. q = r /\ Alone(r)
      BY <1>1, <1>4 DEF CommandStep
    <2>2. /\ command[r].pc = "scan" /\ command'[r].ids = command[r].ids
          /\ command[r].unread = {} /\ item' = item
          /\ command'[r].pc = AfterScan(command[r])
      BY <1>4, <2>1 DEF Scanned, PLTypeOK, Commands
    <2> QED BY <2>1, <2>2 DEF KnowsItsReadyWork, WithStatus, AfterScan
  <1>5. ASSUME NEW q \in Command, NothingClaimed(q) PROVE KnowsItsReadyWork(r)'
    <2>1. q = r /\ Alone(r) /\ command'[r].ids = command[r].ids
      BY <1>1, <1>5 DEF CommandStep
    <2> QED BY <1>2, <1>5, <2>1 DEF NothingClaimed, PLTypeOK, Commands
  <1>6. ASSUME NEW q \in Command, ResumeBatches(q) PROVE KnowsItsReadyWork(r)'
    <2>1. q = r /\ Alone(r) /\ command'[r].ids = command[r].ids
      BY <1>1, <1>6 DEF CommandStep
    <2>2. command[r].pc = "resume" /\ command'[r].pc \in {"failed", "reconcile"} /\ item' = item
      BY <1>6, <2>1 DEF ResumeBatches, PLTypeOK, Commands
    <2> QED BY <1>2, <2>1, <2>2
  <1>7. ASSUME NEW q \in Command, NEW W \in SUBSET Item, ClaimItems(q, W)
        PROVE  KnowsItsReadyWork(r)'
    <2>1. q = r
      BY <1>1, <1>7 DEF CommandStep
    <2> QED BY <1>7, <2>1, ClaimedRow DEF KnowsItsReadyWork
  <1>8. ASSUME NEW q \in Command, NEW W \in SUBSET Item, RunProcessBatch(q, W)
        PROVE  KnowsItsReadyWork(r)'
    <2>1. q = r
      BY <1>1, <1>8 DEF CommandStep
    <2>2. CASE Commits(r, W)
      BY <2>2, CommittedRow DEF KnowsItsReadyWork
    <2>3. CASE LosesBatch(r)
      BY <2>3 DEF LosesBatch, PLTypeOK, Commands, KnowsItsReadyWork
    <2> QED BY <1>8, <2>1, <2>2, <2>3, BatchEnds
  <1>9. ASSUME NEW q \in Command, ReadGold(q) PROVE KnowsItsReadyWork(r)'
    <2>1. q = r /\ Alone(r) /\ command'[r].ids = command[r].ids
      BY <1>1, <1>9 DEF CommandStep
    <2>2. command[r].pc = "reconcile" /\ command'[r].pc \in {"acknowledge", "write"} /\ item' = item
      BY <1>9, <2>1 DEF ReadGold, PLTypeOK, Commands
    <2> QED BY <1>2, <2>1, <2>2
  <1>10. ASSUME NEW q \in Command, WriteGold(q) \/ SaveGold(q) \/ AcknowledgeRefreshes(q)
         PROVE  KnowsItsReadyWork(r)'
    <2>1. q = r /\ Alone(r) /\ command'[r].ids = command[r].ids
      BY <1>1, <1>10 DEF CommandStep
    <2>2. /\ command[r].pc \in {"write", "save", "acknowledge"}
          /\ command'[r].pc \in {"save", "acknowledge", "done"} /\ item' = item
      BY <1>10, <2>1 DEF WriteGold, SaveGold, AcknowledgeRefreshes, PLTypeOK, Commands
    <2> QED BY <1>2, <2>1, <2>2
  <1>11. ASSUME NEW q \in Command, NEW ids \in SUBSET Item, Launch(q, ids)
         PROVE  KnowsItsReadyWork(r)'
    <2>1. command' = [command EXCEPT ![q] = [NotStarted EXCEPT !.pc = "scan", !.ids = ids, !.unread = ids]]
      BY <1>11 DEF Launch
    <2>2. command'[q].pc = "scan" /\ command'[q].ids = ids /\ command'[q].unread = ids
      BY <2>1 DEF PLTypeOK, NotStarted
    <2>3. q = r
      BY <2>2 DEF Alone, NotStarted
    <2> QED BY <2>2, <2>3 DEF KnowsItsReadyWork
  <1>12. ASSUME NEW q \in Command, Break(q) PROVE KnowsItsReadyWork(r)'
    <2>1. command'[q].pc = "failed"
      BY <1>12 DEF Break, PLTypeOK, Commands
    <2>2. q = r
      BY <2>1 DEF Alone, NotStarted
    <2> QED BY <2>1, <2>2 DEF KnowsItsReadyWork
  <1>13. ASSUME NEW q \in Command, RecoverItems(q) PROVE KnowsItsReadyWork(r)'
    <2>1. PICK w \in Item : item[w].status = "LEASED" /\ item[w].lease = q
      BY <1>13 DEF RecoverItems, WithStatus
    <2>2. command' = command /\ command[q].pc \in {"process", "failed"}
      BY <1>13, <2>1 DEF RecoverItems, HeldWhileProcessed
    <2>3. q = r
      BY <2>2 DEF Alone, NotStarted
    <2> QED BY <2>2, <2>3 DEF KnowsItsReadyWork
  <1>14. CASE UNCHANGED plvars
    BY <1>14 DEF plvars, Alone, KnowsItsReadyWork, WithStatus
  <1> QED BY <1>3, <1>4, <1>5, <1>6, <1>7, <1>8, <1>9, <1>10, <1>11, <1>12, <1>13, <1>14
          DEF PLNext, CommandStep

\* Every step keeps the types.
LEMMA NextKeepsTypes ==
    ASSUME PLTypeOK, [PLNext]_plvars
    PROVE  PLTypeOK'
  <1>1. ASSUME NEW r \in Command, NEW ids \in SUBSET Item, Launch(r, ids) PROVE PLTypeOK'
    <2>1. [NotStarted EXCEPT !.pc = "scan", !.ids = ids, !.unread = ids] \in Commands
      BY DEF NotStarted, Commands
    <2>2. /\ command' = [command EXCEPT ![r] = [NotStarted EXCEPT !.pc = "scan", !.ids = ids,
                                                               !.unread = ids]]
          /\ committed' = committed /\ gold' = gold /\ overlapped' = overlapped
      BY <1>1 DEF Launch
    <2>3. item' \in [Item -> [status : {"ABSENT", "READY", "LEASED", "SUCCEEDED", "DEAD"},
                              attempts : Nat, lease : Command \cup {None}]]
      BY <1>1 DEF Launch, PLTypeOK
    <2> QED BY <2>1, <2>2, <2>3 DEF PLTypeOK
  <1>2. ASSUME NEW r \in Command, Break(r) PROVE PLTypeOK'
    <2>1. [command[r] EXCEPT !.pc = "failed"] \in Commands
      BY CommandRow DEF Commands
    <2>2. command' = [command EXCEPT ![r] = [command[r] EXCEPT !.pc = "failed"]]
      BY <1>2 DEF Break
    <2> QED BY <1>2, <2>1, <2>2 DEF Break, PLTypeOK
  <1>3. ASSUME NEW r \in Command, RecoverItems(r) PROVE PLTypeOK'
    BY <1>3 DEF RecoverItems, Requeued, PLTypeOK
  <1>4. CASE UNCHANGED plvars
    BY <1>4 DEF plvars, PLTypeOK
  <1> QED BY <1>1, <1>2, <1>3, <1>4, StepKeepsTypes DEF PLNext

\* Overlapped builds are remembered.
LEMMA OverlapIsRemembered ==
    ASSUME PLTypeOK, [PLNext]_plvars, overlapped
    PROVE  overlapped'
  <1>1. ASSUME NEW r \in Command, \/ \E ids \in SUBSET Item : Launch(r, ids)
                                 \/ Break(r) \/ RecoverItems(r)
        PROVE  overlapped'
    BY <1>1 DEF Launch, Break, RecoverItems
  <1> QED BY <1>1, StepIsLocal DEF PLNext, Local, plvars

\* Whatever commands do on one store and one gold, killed anywhere, and
\* whatever is recovered of them, what each knows of both stays true.
THEOREM PipelineInvariance == PLSpec => []PLInv
  <1>1. PLInit => PLInv
    <2> SUFFICES ASSUME PLInit PROVE PLInv
      OBVIOUS
    <2>1. /\ \A w \in Item : item[w].status = "ABSENT" /\ item[w].lease = None
          /\ \A r \in Command : command[r].pc = "idle" /\ command[r].results = {}
          /\ committed = {} /\ gold.rows = {} /\ gold.checkpoint = {} /\ overlapped = FALSE
      BY DEF PLInit, NotStarted
    <2>2. PLTypeOK
      BY DEF PLInit, PLTypeOK, NotStarted, Commands
    <2>3. HeldWhileProcessed /\ PublishedHasSucceeded
      BY <2>1 DEF HeldWhileProcessed, PublishedHasSucceeded
    <2>4. OneBuilder
      BY <2>1 DEF OneBuilder, InGold
    <2>5. \A r \in Command : KnowsItsReadyWork(r)
      BY <2>1 DEF KnowsItsReadyWork
    <2> QED BY <2>2, <2>3, <2>4, <2>5 DEF PLInv
  <1>2. ASSUME PLInv, [PLNext]_plvars PROVE PLInv'
    <2>1. PLTypeOK /\ HeldWhileProcessed /\ PublishedHasSucceeded
      BY <1>2 DEF PLInv
    <2>2. PLTypeOK' /\ HeldWhileProcessed' /\ PublishedHasSucceeded'
      BY <1>2, <2>1, NextKeepsTypes, HeldStep, PublishedStep
    <2>3. ~overlapped' => OneBuilder'
      BY <1>2, <2>1, OverlapIsRemembered, OneBuilderStep DEF PLInv
    <2>4. \A r \in Command : Alone(r) => KnowsItsReadyWork(r)
      BY <1>2 DEF PLInv, Alone
    <2>5. ASSUME NEW r \in Command, Alone(r)' PROVE KnowsItsReadyWork(r)'
      BY <1>2, <2>1, <2>4, <2>5, KnowsStep
    <2> QED BY <2>2, <2>3, <2>5 DEF PLInv, Alone
  <1> QED BY <1>1, <1>2, PTL DEF PLSpec

\* A command that returned is in gold, unless two commands built gold at the
\* same time; one that ran alone has left none of its works ready.
THEOREM ReturnedIsInGold == PLSpec => []ReturnedCommandIsInGold
  <1>1. PLInv => ReturnedCommandIsInGold
    BY DEF PLInv, OneBuilder, KnowsItsReadyWork, ReturnedCommandIsInGold
  <1> QED BY <1>1, PipelineInvariance, PTL

-----------------------------------------------------------------------------
(* The local queue: requests that outlive their callers *)

\* What is left of a sequence without its i-th element.
LEMMA WithoutOne ==
    ASSUME NEW S, NEW s \in Seq(S), NEW i \in DOMAIN s
    PROVE  /\ RemoveAt(s, i) \in Seq(S)
           /\ DOMAIN RemoveAt(s, i) = 1 .. Len(s) - 1
           /\ \A j \in 1 .. Len(s) - 1 : RemoveAt(s, i)[j] = s[IF j < i THEN j ELSE j + 1]
  <1>1. i \in 1..Len(s) /\ Len(s) \in Nat
    BY LenProperties
  <1> DEFINE a == SubSeq(s, 1, i - 1)
             b == SubSeq(s, i + 1, Len(s))
  <1>2. a \in Seq(S) /\ Len(a) = i - 1 /\ \A j \in 1 .. i - 1 : a[j] = s[j]
    BY <1>1
  <1>3. b \in Seq(S) /\ Len(b) = Len(s) - i /\ \A j \in 1 .. Len(s) - i : b[j] = s[i + j]
    BY <1>1
  <1>4. RemoveAt(s, i) = a \o b
    BY DEF RemoveAt
  <1> HIDE DEF a, b
  <1>5. a \o b \in Seq(S) /\ Len(a \o b) = Len(s) - 1
    BY <1>1, <1>2, <1>3
  <1>6. \A j \in 1 .. Len(s) - 1 : (a \o b)[j] = IF j <= Len(a) THEN a[j] ELSE b[j - Len(a)]
    <2>1. Len(a) + Len(b) = Len(s) - 1
      BY <1>1, <1>2, <1>3
    <2>2. \A j \in 1 .. Len(a) + Len(b) :
             (a \o b)[j] = IF j <= Len(a) THEN a[j] ELSE b[j - Len(a)]
      BY <1>2, <1>3, ConcatProperties
    <2> QED BY <2>1, <2>2
  <1>7. \A j \in 1 .. Len(s) - 1 : (a \o b)[j] = s[IF j < i THEN j ELSE j + 1]
    <2> TAKE j \in 1 .. Len(s) - 1
    <2>1. CASE j < i
      BY <1>1, <1>2, <1>6, <2>1
    <2>2. CASE ~(j < i)
      <3>1. j - Len(a) \in 1 .. Len(s) - i /\ i + (j - Len(a)) = j + 1
        BY <1>1, <1>2, <2>2
      <3>2. (a \o b)[j] = b[j - Len(a)]
        <4>1. ~(j <= Len(a))
          BY <1>1, <1>2, <2>2
        <4> QED BY <1>6, <4>1
      <3>3. b[j - Len(a)] = s[j + 1]
        BY <1>3, <3>1
      <3> QED BY <2>2, <3>2, <3>3
    <2> QED BY <2>1, <2>2
  <1> QED BY <1>1, <1>4, <1>5, <1>7, LenProperties

\* Expired messages go back to the queue or are dead, the others stay.
LEMMA RecoveredRows ==
    ASSUME LQTypeOK
    PROVE  /\ RecoverExpired \in [Message -> [state : {"absent", "ready", "locked", "completed", "dead"},
                                              count : Nat, live : BOOLEAN]]
           /\ \A m \in Message : RecoverExpired[m].state = "completed" => RecoverExpired[m] = row[m]
  BY DEF LQTypeOK, RecoverExpired, GivenBack, Unlocked

\* A claim only takes ready messages of the queue.
LEMMA ClaimableAreReady ==
    ASSUME LQTypeOK, NEW rows
    PROVE  \A m \in Claimable(rows) : m \in Message /\ rows[m].state = "ready"
  <1>1. \A i \in DOMAIN arrivals : arrivals[i] \in Message
    BY DEF LQTypeOK
  <1> QED BY <1>1 DEF Claimable

\* The fields of a command and of a request.
LEMMA ProcRow ==
    ASSUME LQTypeOK, NEW p \in Process
    PROVE  /\ proc[p] \in Procs /\ proc[p].claims \in SUBSET Delivery
           /\ busy[p] # None => busy[p] \in Requests
           /\ mail[p] \in Seq(Requests)
           /\ \A i \in DOMAIN mail[p] : mail[p][i] \in Requests
  <1>1. proc[p] \in Procs /\ mail[p] \in Seq(Requests) /\ (busy[p] # None => busy[p] \in Requests)
    BY DEF LQTypeOK
  <1>2. proc[p].claims \in SUBSET Delivery
    BY <1>1 DEF Procs
  <1> QED BY <1>1, <1>2, ElementOfSeq, LenProperties

\* The answer to a call that is waited for leaves a command in a known state.
LEMMA AnswerTyped ==
    ASSUME LQTypeOK, NEW p \in Process, NEW request \in Requests, NEW result,
           NEW claims \in SUBSET Delivery, request.by = "main" => Waiting(p)
    PROVE  Answered(p, request, result, claims) \in Procs
  <1>1. proc[p] \in Procs
    BY ProcRow
  <1>2. CASE request.by = "beat"
    BY <1>1, <1>2 DEF Answered, Procs
  <1>3. CASE request.by = "main"
    <2>1. CASE proc[p].pc = "claiming"
      BY <1>1, <1>3, <2>1 DEF Answered, Procs, Closing, NotRunning
    <2>2. CASE proc[p].pc = "settling"
      BY <1>1, <1>3, <2>2 DEF Answered, Procs, Closing, NotRunning
    <2>3. CASE proc[p].pc = "abandoning"
      BY <1>1, <1>3, <2>3 DEF Answered, Procs, Closing, NotRunning
    <2> QED BY <1>3, <2>1, <2>2, <2>3 DEF Waiting
  <1> QED BY <1>2, <1>3 DEF Requests

\* A heartbeat's answer leaves the main thread where it is.
LEMMA BeatAnswer ==
    ASSUME LQTypeOK, NEW p \in Process, NEW request, request.by = "beat", NEW result, NEW claims
    PROVE  Answered(p, request, result, claims).pc = proc[p].pc
  <1>1. proc[p] \in Procs
    BY ProcRow
  <1> QED BY <1>1 DEF Answered, Procs

\* What the queue looks like when a thread calls, when the actor takes a
\* request and when a caller gives up.
LEMMA Queued ==
    ASSUME LQTypeOK, NEW p \in Process, NEW request \in Requests, Call(p, request)
    PROVE  /\ mail' \in [Process -> Seq(Requests)]
           /\ \A q \in Process \ {p} : mail'[q] = mail[q]
           /\ DOMAIN mail'[p] = 1 .. Len(mail[p]) + 1
           /\ DOMAIN mail[p] = 1 .. Len(mail[p]) /\ Len(mail[p]) \in Nat
           /\ \A i \in 1 .. Len(mail[p]) : mail'[p][i] = mail[p][i]
           /\ mail'[p][Len(mail[p]) + 1] = request
  <1>1. mail[p] \in Seq(Requests) /\ Len(mail[p]) \in Nat /\ DOMAIN mail[p] = 1 .. Len(mail[p])
    BY ProcRow, LenProperties
  <1>2. mail' = [mail EXCEPT ![p] = Append(mail[p], request)]
    BY DEF Call
  <1>3. /\ Append(mail[p], request) \in Seq(Requests)
        /\ Len(Append(mail[p], request)) = Len(mail[p]) + 1
        /\ \A i \in 1 .. Len(mail[p]) : Append(mail[p], request)[i] = mail[p][i]
        /\ Append(mail[p], request)[Len(mail[p]) + 1] = request
    BY <1>1, AppendProperties
  <1> DEFINE s == Append(mail[p], request)
  <1>4. DOMAIN s = 1 .. Len(mail[p]) + 1
    BY <1>3, LenProperties
  <1> HIDE DEF s
  <1>5. mail' = [mail EXCEPT ![p] = s] /\ mail \in [Process -> Seq(Requests)]
    BY <1>2 DEF s, LQTypeOK
  <1>6. mail'[p] = s /\ \A q \in Process \ {p} : mail'[q] = mail[q]
    BY <1>5
  <1>7. s \in Seq(Requests)
    BY <1>3 DEF s
  <1>8. mail' \in [Process -> Seq(Requests)]
    BY <1>5, <1>7
  <1> QED BY <1>1, <1>3, <1>4, <1>6, <1>8 DEF s

LEMMA Taken ==
    ASSUME LQTypeOK, NEW p \in Process, Take(p)
    PROVE  /\ mail' \in [Process -> Seq(Requests)]
           /\ \A q \in Process \ {p} : mail'[q] = mail[q] /\ busy'[q] = busy[q]
           /\ DOMAIN mail'[p] = 1 .. Len(mail[p]) - 1
           /\ DOMAIN mail[p] = 1 .. Len(mail[p]) /\ Len(mail[p]) \in Nat \ {0}
           /\ \A i \in 1 .. Len(mail[p]) - 1 : mail'[p][i] = mail[p][i + 1]
           /\ busy'[p] = mail[p][1] /\ busy' \in [Process -> Requests \cup {None}]
  <1>1. mail[p] \in Seq(Requests) /\ mail[p] # <<>> /\ Len(mail[p]) \in Nat \ {0}
        /\ DOMAIN mail[p] = 1 .. Len(mail[p])
    BY ProcRow, LenProperties, EmptySeq DEF Take
  <1> DEFINE s == Tail(mail[p])
  <1>2. /\ s \in Seq(Requests) /\ Len(s) = Len(mail[p]) - 1
        /\ \A i \in 1 .. Len(mail[p]) - 1 : s[i] = mail[p][i + 1]
    BY <1>1, HeadTailProperties
  <1>3. DOMAIN s = 1 .. Len(mail[p]) - 1
    BY <1>2, LenProperties
  <1>4. Head(mail[p]) = mail[p][1] /\ Head(mail[p]) \in Requests
    BY <1>1, HeadTailProperties
  <1>5. mail' = [mail EXCEPT ![p] = s] /\ busy' = [busy EXCEPT ![p] = Head(mail[p])]
    BY DEF Take
  <1> HIDE DEF s
  <1>6. /\ mail'[p] = s /\ busy'[p] = mail[p][1]
        /\ \A q \in Process \ {p} : mail'[q] = mail[q] /\ busy'[q] = busy[q]
    BY <1>4, <1>5 DEF LQTypeOK
  <1>7. mail' \in [Process -> Seq(Requests)] /\ busy' \in [Process -> Requests \cup {None}]
    BY <1>2, <1>4, <1>5 DEF LQTypeOK
  <1> QED BY <1>1, <1>2, <1>3, <1>6, <1>7

LEMMA GivenUp ==
    ASSUME LQTypeOK, NEW p \in Process, NEW i \in DOMAIN mail[p],
           mail' = [mail EXCEPT ![p] = RemoveAt(@, i)]
    PROVE  /\ mail' \in [Process -> Seq(Requests)]
           /\ \A q \in Process \ {p} : mail'[q] = mail[q]
           /\ DOMAIN mail'[p] = 1 .. Len(mail[p]) - 1
           /\ DOMAIN mail[p] = 1 .. Len(mail[p]) /\ Len(mail[p]) \in Nat
           /\ \A j \in 1 .. Len(mail[p]) - 1 :
                 mail'[p][j] = mail[p][IF j < i THEN j ELSE j + 1]
  <1>1. mail[p] \in Seq(Requests) /\ Len(mail[p]) \in Nat /\ DOMAIN mail[p] = 1 .. Len(mail[p])
    BY ProcRow, LenProperties
  <1> DEFINE s == RemoveAt(mail[p], i)
  <1>2. /\ s \in Seq(Requests) /\ DOMAIN s = 1 .. Len(mail[p]) - 1
        /\ \A j \in 1 .. Len(mail[p]) - 1 : s[j] = mail[p][IF j < i THEN j ELSE j + 1]
    BY <1>1, WithoutOne
  <1>3. mail' = [mail EXCEPT ![p] = s]
    OBVIOUS
  <1> HIDE DEF s
  <1>4. mail'[p] = s /\ \A q \in Process \ {p} : mail'[q] = mail[q]
    BY <1>3 DEF LQTypeOK
  <1>5. mail' \in [Process -> Seq(Requests)]
    BY <1>2, <1>3 DEF LQTypeOK
  <1> QED BY <1>1, <1>2, <1>4, <1>5

(* Steps of the commands *)

OneCall(p) ==
    /\ MainCalls(p) # {} \/ MainServed(p) => Waiting(p)
    /\ \A i, j \in MainCalls(p) : i = j
    /\ MainServed(p) => MainCalls(p) = {}
HonestQueue(p) ==
    /\ \A i \in DOMAIN mail[p] : Honest(mail[p][i])
    /\ busy[p] # None => Honest(busy[p])

\* A step of one command is about its own calls and its own requests.
LEMMA OthersKeep ==
    ASSUME OneCallAtATime, RequestsAreHonest, NEW p \in Process,
           \A q \in Process \ {p} : /\ mail'[q] = mail[q] /\ busy'[q] = busy[q]
                                    /\ proc'[q] = proc[q],
           staged \subseteq staged', OneCall(p)', HonestQueue(p)'
    PROVE  OneCallAtATime' /\ RequestsAreHonest'
  <1>1. ASSUME NEW q \in Process \ {p}
        PROVE  OneCall(q)' /\ HonestQueue(q)'
    <2>1. OneCall(q) /\ HonestQueue(q)
      BY DEF OneCallAtATime, RequestsAreHonest, OneCall, HonestQueue
    <2>2. OneCall(q)'
      BY <2>1 DEF OneCall, MainCalls, MainServed, Waiting
    <2>3. \A request : Honest(request) => Honest(request)'
      BY DEF Honest
    <2> QED BY <2>1, <2>2, <2>3 DEF HonestQueue
  <1> QED BY <1>1 DEF OneCallAtATime, RequestsAreHonest, OneCall, HonestQueue

\* A thread of p that calls: its main thread calls when nothing of it waits.
LEMMA CallKeeps ==
    ASSUME LQTypeOK, OneCallAtATime, RequestsAreHonest, NEW p \in Process,
           NEW request \in Requests, Call(p, request), busy' = busy, staged \subseteq staged',
           \A q \in Process \ {p} : proc'[q] = proc[q],
           Honest(request)',
           \/ request.by = "beat" /\ (Waiting(p) => Waiting(p)')
           \/ request.by = "main" /\ ~Waiting(p) /\ Waiting(p)'
    PROVE  OneCallAtATime' /\ RequestsAreHonest'
  <1>1. /\ \A q \in Process \ {p} : mail'[q] = mail[q]
        /\ DOMAIN mail'[p] = 1 .. Len(mail[p]) + 1
        /\ DOMAIN mail[p] = 1 .. Len(mail[p]) /\ Len(mail[p]) \in Nat
        /\ \A i \in 1 .. Len(mail[p]) : mail'[p][i] = mail[p][i]
        /\ mail'[p][Len(mail[p]) + 1] = request
    BY Queued
  <1>2. OneCall(p) /\ HonestQueue(p)
    BY DEF OneCallAtATime, RequestsAreHonest, OneCall, HonestQueue
  <1>3. HonestQueue(p)'
    <2>1. \A r : Honest(r) => Honest(r)'
      BY DEF Honest
    <2> QED BY <1>1, <1>2, <2>1 DEF HonestQueue
  <1>4. MainCalls(p)' = MainCalls(p) \cup (IF request.by = "main" THEN {Len(mail[p]) + 1} ELSE {})
    BY <1>1 DEF MainCalls
  <1>5. MainServed(p)' = MainServed(p)
    BY DEF MainServed
  <1>6. OneCall(p)'
    BY <1>2, <1>4, <1>5 DEF OneCall
  <1> QED BY <1>1, <1>3, <1>6, OthersKeep

\* The actor takes the first request.
LEMMA TakeKeeps ==
    ASSUME LQTypeOK, OneCallAtATime, RequestsAreHonest, NEW p \in Process, Take(p)
    PROVE  OneCallAtATime' /\ RequestsAreHonest'
  <1>1. /\ \A q \in Process \ {p} : mail'[q] = mail[q] /\ busy'[q] = busy[q]
        /\ DOMAIN mail'[p] = 1 .. Len(mail[p]) - 1
        /\ DOMAIN mail[p] = 1 .. Len(mail[p]) /\ Len(mail[p]) \in Nat \ {0}
        /\ \A i \in 1 .. Len(mail[p]) - 1 : mail'[p][i] = mail[p][i + 1]
        /\ busy'[p] = mail[p][1]
    BY Taken
  <1>2. OneCall(p) /\ HonestQueue(p)
    BY DEF OneCallAtATime, RequestsAreHonest, OneCall, HonestQueue
  <1>3. proc' = proc /\ staged' = staged
    BY DEF Take
  <1>4. HonestQueue(p)'
    <2>1. \A request : Honest(request) => Honest(request)'
      BY <1>3 DEF Honest
    <2>2. 1 \in DOMAIN mail[p] /\ \A i \in 1 .. Len(mail[p]) - 1 : i + 1 \in DOMAIN mail[p]
      BY <1>1
    <2> QED BY <1>1, <1>2, <2>1, <2>2 DEF HonestQueue
  <1>5. \A i \in MainCalls(p)' : i \in 1 .. Len(mail[p]) - 1 /\ i + 1 \in MainCalls(p)
    BY <1>1 DEF MainCalls
  <1>6. MainServed(p)' => 1 \in MainCalls(p)
    BY <1>1 DEF MainServed, MainCalls
  <1>7. Waiting(p)' = Waiting(p)
    BY <1>3 DEF Waiting
  <1>8. \A i, j \in MainCalls(p)' : i = j
    BY <1>2, <1>5 DEF OneCall
  <1>9. MainServed(p)' => MainCalls(p)' = {}
    <2>1. \A i \in MainCalls(p)' : i + 1 # 1
      BY <1>5
    <2> QED BY <1>2, <1>5, <1>6, <2>1 DEF OneCall
  <1>10. MainCalls(p)' # {} \/ MainServed(p)' => Waiting(p)'
    BY <1>2, <1>5, <1>6, <1>7 DEF OneCall
  <1>11. OneCall(p)'
    BY <1>8, <1>9, <1>10 DEF OneCall
  <1> QED BY <1>1, <1>3, <1>4, <1>11, OthersKeep

\* The caller of a request that waits gives up.
LEMMA TimeoutKeeps ==
    ASSUME LQTypeOK, OneCallAtATime, RequestsAreHonest, NEW p \in Process, TimeoutWaiting(p)
    PROVE  LQTypeOK' /\ OneCallAtATime' /\ RequestsAreHonest'
  <1>1. PICK i \in DOMAIN mail[p] :
           /\ proc' = [proc EXCEPT ![p] = Answered(p, mail[p][i], "timeout", {})]
           /\ mail' = [mail EXCEPT ![p] = RemoveAt(@, i)]
           /\ UNCHANGED <<arrivals, row, busy, staged>>
    BY DEF TimeoutWaiting
  <1> DEFINE answer == Answered(p, mail[p][i], "timeout", {})
  <1>2. /\ mail' \in [Process -> Seq(Requests)]
        /\ \A q \in Process \ {p} : mail'[q] = mail[q]
        /\ DOMAIN mail'[p] = 1 .. Len(mail[p]) - 1
        /\ DOMAIN mail[p] = 1 .. Len(mail[p]) /\ Len(mail[p]) \in Nat
        /\ \A j \in 1 .. Len(mail[p]) - 1 :
              mail'[p][j] = mail[p][IF j < i THEN j ELSE j + 1]
    BY <1>1, GivenUp
  <1>3. OneCall(p) /\ HonestQueue(p) /\ mail[p][i] \in Requests
    BY ProcRow DEF OneCallAtATime, RequestsAreHonest, OneCall, HonestQueue
  <1>4. mail[p][i].by = "main" => i \in MainCalls(p)
    BY DEF MainCalls
  <1>5. answer \in Procs
    BY <1>3, <1>4, AnswerTyped DEF OneCall
  <1>6. mail[p][i].by \in {"main", "beat"}
    BY <1>3 DEF Requests
  <1>7. mail[p][i].by = "beat" => answer.pc = proc[p].pc
    BY BeatAnswer
  <1> HIDE DEF answer
  <1>8. /\ proc' = [proc EXCEPT ![p] = answer]
        /\ \A q \in Process \ {p} : proc'[q] = proc[q]
        /\ proc'[p] = answer
    BY <1>1 DEF LQTypeOK, answer
  <1>9. LQTypeOK'
    BY <1>1, <1>2, <1>5, <1>8 DEF LQTypeOK
  <1> DEFINE old(j) == IF j < i THEN j ELSE j + 1
  <1>10. \A j \in MainCalls(p)' : /\ j \in 1 .. Len(mail[p]) - 1
                                 /\ old(j) \in MainCalls(p) /\ old(j) # i
    BY <1>1, <1>2 DEF MainCalls
  <1>11. \A j, k \in MainCalls(p)' : j = k
    <2> SUFFICES ASSUME NEW j \in MainCalls(p)', NEW k \in MainCalls(p)' PROVE j = k
      OBVIOUS
    <2>1. old(j) = old(k) /\ j \in 1 .. Len(mail[p]) - 1 /\ k \in 1 .. Len(mail[p]) - 1
      BY <1>3, <1>10 DEF OneCall
    <2> QED BY <1>2, <2>1
  <1>12. MainServed(p)' = MainServed(p)
    BY <1>1 DEF MainServed
  <1>13. HonestQueue(p)'
    <2>1. \A request : Honest(request) => Honest(request)'
      BY <1>1 DEF Honest
    <2>2. \A j \in 1 .. Len(mail[p]) - 1 : old(j) \in DOMAIN mail[p]
      BY <1>1, <1>2
    <2> QED BY <1>1, <1>2, <1>3, <2>1, <2>2 DEF HonestQueue
  <1>14. CASE mail[p][i].by = "main"
    <2>1. MainCalls(p) = {i} /\ ~MainServed(p)
      BY <1>3, <1>4, <1>14 DEF OneCall
    <2>2. MainCalls(p)' = {}
      BY <1>10, <2>1
    <2>3. OneCall(p)'
      BY <1>12, <2>1, <2>2 DEF OneCall
    <2> QED BY <1>1, <1>2, <1>8, <1>9, <1>13, <2>3, OthersKeep
  <1>15. CASE mail[p][i].by = "beat"
    <2>1. Waiting(p)' = Waiting(p)
      BY <1>7, <1>8, <1>15 DEF Waiting
    <2>2. MainCalls(p)' # {} => MainCalls(p) # {}
      BY <1>10
    <2>3. OneCall(p)'
      BY <1>3, <1>11, <1>12, <2>1, <2>2 DEF OneCall
    <2> QED BY <1>1, <1>2, <1>8, <1>9, <1>13, <2>3, OthersKeep
  <1> QED BY <1>6, <1>14, <1>15

\* The thread that was waiting for the running request goes on, and the request
\* is done or runs unwaited.
LEMMA AnswerKeeps ==
    ASSUME LQTypeOK, OneCallAtATime, RequestsAreHonest, NEW p \in Process,
           busy[p] # None, busy[p].waited, NEW result, NEW claims \in SUBSET Delivery,
           proc' = [proc EXCEPT ![p] = Answered(p, busy[p], result, claims)],
           \/ busy' = [busy EXCEPT ![p] = None]
           \/ busy' = [busy EXCEPT ![p].waited = FALSE],
           mail' = mail, staged' = staged
    PROVE  /\ proc' \in [Process -> Procs] /\ busy' \in [Process -> Requests \cup {None}]
           /\ OneCallAtATime' /\ RequestsAreHonest'
  <1> DEFINE answer == Answered(p, busy[p], result, claims)
  <1>1. OneCall(p) /\ HonestQueue(p) /\ busy[p] \in Requests
    BY ProcRow DEF OneCallAtATime, RequestsAreHonest, OneCall, HonestQueue
  <1>2. busy[p].by = "main" => MainServed(p)
    BY DEF MainServed
  <1>3. answer \in Procs
    BY <1>1, <1>2, AnswerTyped DEF OneCall
  <1>4. busy[p].by = "beat" => answer.pc = proc[p].pc
    BY BeatAnswer
  <1>5. busy[p].by \in {"main", "beat"}
    BY <1>1 DEF Requests
  <1> HIDE DEF answer
  <1>6. /\ proc' \in [Process -> Procs] /\ proc'[p] = answer
        /\ \A q \in Process \ {p} : proc'[q] = proc[q]
    BY <1>3 DEF answer, LQTypeOK
  <1>7. /\ busy' \in [Process -> Requests \cup {None}]
        /\ \A q \in Process \ {p} : busy'[q] = busy[q]
        /\ ~MainServed(p)'
        /\ busy'[p] # None => busy'[p].op = busy[p].op /\ busy'[p].outcomes = busy[p].outcomes
    <2>1. CASE busy' = [busy EXCEPT ![p] = None]
      <3>1. busy'[p] = None /\ \A q \in Process \ {p} : busy'[q] = busy[q]
        BY <2>1 DEF LQTypeOK
      <3> QED BY <2>1, <3>1 DEF LQTypeOK, MainServed
    <2>2. CASE busy' = [busy EXCEPT ![p].waited = FALSE]
      <3> DEFINE unwaited == [busy[p] EXCEPT !.waited = FALSE]
      <3>1. /\ unwaited \in Requests /\ ~unwaited.waited /\ unwaited.op = busy[p].op
            /\ unwaited.outcomes = busy[p].outcomes
        BY <1>1 DEF Requests
      <3>2. busy' = [busy EXCEPT ![p] = unwaited]
        BY <2>2
      <3> HIDE DEF unwaited
      <3>3. busy'[p] = unwaited /\ \A q \in Process \ {p} : busy'[q] = busy[q]
        BY <3>2 DEF LQTypeOK
      <3> QED BY <3>1, <3>2, <3>3 DEF LQTypeOK, MainServed
    <2> QED BY <2>1, <2>2
  <1>8. HonestQueue(p)'
    <2>1. \A request : Honest(request) => Honest(request)'
      BY DEF Honest
    <2>2. busy'[p] # None => Honest(busy'[p])
      BY <1>1, <1>7 DEF HonestQueue, Honest
    <2> QED BY <1>1, <2>1, <2>2 DEF HonestQueue, Honest
  <1>9. OneCall(p)'
    <2>1. MainCalls(p)' = MainCalls(p)
      BY DEF MainCalls
    <2>2. CASE busy[p].by = "main"
      BY <1>1, <1>2, <1>7, <2>1, <2>2 DEF OneCall
    <2>3. CASE busy[p].by = "beat"
      <3>1. Waiting(p)' = Waiting(p)
        BY <1>4, <1>6, <2>3 DEF Waiting
      <3> QED BY <1>1, <1>7, <2>1, <3>1 DEF OneCall
    <2> QED BY <1>5, <2>2, <2>3
  <1> QED BY <1>6, <1>7, <1>8, <1>9, OthersKeep

\* A request that nobody waits for is done.
LEMMA UnwaitedKeeps ==
    ASSUME LQTypeOK, OneCallAtATime, RequestsAreHonest, NEW p \in Process,
           busy' = [busy EXCEPT ![p] = None], proc' = proc, mail' = mail, staged' = staged
    PROVE  /\ busy' \in [Process -> Requests \cup {None}]
           /\ OneCallAtATime' /\ RequestsAreHonest'
  <1>1. OneCall(p) /\ HonestQueue(p)
    BY DEF OneCallAtATime, RequestsAreHonest, OneCall, HonestQueue
  <1>2. /\ busy' \in [Process -> Requests \cup {None}] /\ busy'[p] = None
        /\ \A q \in Process \ {p} : busy'[q] = busy[q]
    BY DEF LQTypeOK
  <1>3. OneCall(p)'
    BY <1>1, <1>2 DEF OneCall, MainCalls, MainServed, Waiting
  <1>4. HonestQueue(p)'
    <2>1. \A request : Honest(request) => Honest(request)'
      BY DEF Honest
    <2> QED BY <1>1, <1>2, <2>1 DEF HonestQueue
  <1> QED BY <1>2, <1>3, <1>4, OthersKeep

\* What the three transactions of the actor make of the rows.
Rows == [Message -> [state : {"absent", "ready", "locked", "completed", "dead"},
                     count : Nat, live : BOOLEAN]]
OnlyStagedComplete ==
    \A m \in Message : row'[m].state = "completed" =>
        \/ row[m].state = "completed" /\ row'[m].count = row[m].count
        \/ <<m, row'[m].count>> \in staged

LEMMA ClaimRows ==
    ASSUME LQTypeOK, NEW p \in Process, RunClaim(p)
    PROVE  /\ row' \in Rows /\ OnlyStagedComplete
           /\ \E claims \in SUBSET Delivery : Replied(p, "ok", claims)
  <1> DEFINE rows == RecoverExpired
             taken == Claimable(rows)
  <1>1. rows \in Rows /\ \A m \in Message : rows[m].state = "completed" => rows[m] = row[m]
    BY RecoveredRows DEF Rows
  <1>2. \A m \in taken : m \in Message /\ rows[m].state = "ready"
    BY ClaimableAreReady
  <1>3. /\ row' = [m \in Message |->
                     IF m \in taken
                     THEN [state |-> "locked", count |-> rows[m].count + 1, live |-> TRUE]
                     ELSE rows[m]]
        /\ Replied(p, "ok", {<<m, rows[m].count + 1>> : m \in taken})
    BY DEF RunClaim
  <1> HIDE DEF rows, taken
  <1>4. row' \in Rows
    BY <1>1, <1>3 DEF Rows
  <1>5. OnlyStagedComplete
    BY <1>1, <1>3 DEF OnlyStagedComplete
  <1>6. {<<m, rows[m].count + 1>> : m \in taken} \in SUBSET Delivery
    BY <1>1, <1>2 DEF Rows, Delivery
  <1> QED BY <1>3, <1>4, <1>5, <1>6

LEMMA RenewRows ==
    ASSUME LQTypeOK, NEW p \in Process, RunRenew(p)
    PROVE  /\ row' \in Rows /\ OnlyStagedComplete
           /\ \E result \in {"ok", "lost"} : Replied(p, result, {})
  <1>1. row' = row
    BY DEF RunRenew
  <1>2. \E result \in {"ok", "lost"} : Replied(p, result, {})
    BY DEF RunRenew
  <1> QED BY <1>1, <1>2 DEF LQTypeOK, Rows, OnlyStagedComplete

LEMMA FinalizeRows ==
    ASSUME LQTypeOK, NEW p \in Process, RunFinalize(p), Honest(busy[p])
    PROVE  /\ row' \in Rows /\ OnlyStagedComplete
           /\ \E result \in {"ok", "lost"} : Replied(p, result, {})
  <1> DEFINE outcomes == busy[p].outcomes
             of(m) == CHOOSE t \in outcomes : t[1] = m
  <1>1. \A t \in outcomes : t \in Outcome /\ (t[3] = "complete" => <<t[1], t[2]>> \in staged)
    BY DEF Honest, RunFinalize
  <1>2. CASE AllLive(outcomes)
    <2>1. /\ row' = [m \in Message |-> IF \E t \in outcomes : t[1] = m
                                      THEN FinalState(row[m], of(m)[3]) ELSE row[m]]
          /\ Replied(p, "ok", {})
      BY <1>2 DEF RunFinalize
    <2>2. ASSUME NEW m \in Message, \E t \in outcomes : t[1] = m
          PROVE  /\ of(m) \in Outcome /\ row[m].count = of(m)[2]
                 /\ of(m)[3] = "complete" => <<m, row[m].count>> \in staged
      <3>1. of(m) \in outcomes /\ of(m)[1] = m
        BY <2>2
      <3> HIDE DEF of
      <3>2. LiveToken(of(m)[1], of(m)[2])
        BY <1>2, <3>1 DEF AllLive
      <3> QED BY <1>1, <3>1, <3>2 DEF LiveToken
    <2> HIDE DEF of, outcomes
    <2>3. ASSUME NEW m \in Message, \E t \in outcomes : t[1] = m
          PROVE  /\ row'[m] \in [state : {"absent", "ready", "locked", "completed", "dead"},
                                  count : Nat, live : BOOLEAN]
                 /\ row'[m].count = row[m].count
                 /\ row'[m].state = "completed" => <<m, row[m].count>> \in staged
      <3>1. row'[m] = FinalState(row[m], of(m)[3]) /\ of(m)[3] \in {"complete", "abandon"}
        BY <2>1, <2>2, <2>3 DEF Outcome
      <3>2. row[m] \in [state : {"absent", "ready", "locked", "completed", "dead"},
                        count : Nat, live : BOOLEAN]
        BY DEF LQTypeOK
      <3>3. CASE of(m)[3] = "complete"
        BY <2>2, <2>3, <3>1, <3>2, <3>3 DEF FinalState, Unlocked
      <3>4. CASE of(m)[3] = "abandon"
        BY <2>2, <2>3, <3>1, <3>2, <3>4 DEF FinalState, Unlocked, GivenBack
      <3> QED BY <3>1, <3>3, <3>4
    <2>4. ASSUME NEW m \in Message, ~\E t \in outcomes : t[1] = m
          PROVE  row'[m] = row[m] /\ row[m] \in [state : {"absent", "ready", "locked", "completed", "dead"},
                                                 count : Nat, live : BOOLEAN]
      BY <2>1, <2>4 DEF LQTypeOK
    <2>5. row' \in Rows
      BY <2>1, <2>3, <2>4 DEF Rows
    <2>6. OnlyStagedComplete
      BY <2>3, <2>4 DEF OnlyStagedComplete
    <2> QED BY <2>1, <2>5, <2>6
  <1>3. CASE ~AllLive(outcomes)
    BY <1>3 DEF RunFinalize, LQTypeOK, Rows, OnlyStagedComplete
  <1> QED BY <1>2, <1>3

\* The actor runs its request.
LEMMA ExecuteKeeps ==
    ASSUME LQInv, NEW p \in Process, Execute(p)
    PROVE  LQInv'
  <1>1. LQTypeOK /\ OneCallAtATime /\ RequestsAreHonest /\ CompletedByItsLastDelivery
    BY DEF LQInv
  <1>2. /\ busy[p] # None /\ busy' = [busy EXCEPT ![p] = None]
        /\ arrivals' = arrivals /\ mail' = mail /\ staged' = staged
    BY DEF Execute
  <1>3. Honest(busy[p])
    BY <1>1, <1>2 DEF RequestsAreHonest
  <1>4. /\ row' \in Rows /\ OnlyStagedComplete
        /\ \E result, claims : claims \in SUBSET Delivery /\ Replied(p, result, claims)
    BY <1>1, <1>3, ClaimRows, RenewRows, FinalizeRows DEF Execute
  <1>5. PICK result, claims : claims \in SUBSET Delivery /\ Replied(p, result, claims)
    BY <1>4
  <1>6. /\ proc' \in [Process -> Procs] /\ busy' \in [Process -> Requests \cup {None}]
        /\ OneCallAtATime' /\ RequestsAreHonest'
    <2>1. CASE busy[p].waited
      <3>1. proc' = [proc EXCEPT ![p] = Answered(p, busy[p], result, claims)]
        BY <1>5, <2>1 DEF Replied
      <3> QED BY <1>1, <1>2, <1>5, <2>1, <3>1, AnswerKeeps
    <2>2. CASE ~busy[p].waited
      <3>1. proc' = proc
        BY <1>1, <1>5, <2>2 DEF Replied, LQTypeOK
      <3> QED BY <1>1, <1>2, <3>1, UnwaitedKeeps DEF LQTypeOK
    <2> QED BY <2>1, <2>2
  <1>7. LQTypeOK'
    BY <1>1, <1>2, <1>4, <1>6 DEF LQTypeOK, Rows
  <1>8. CompletedByItsLastDelivery'
    BY <1>1, <1>2, <1>4 DEF CompletedByItsLastDelivery, OnlyStagedComplete
  <1> QED BY <1>6, <1>7, <1>8 DEF LQInv

\* A completed message stays completed when its row and the staging stay.
LEMMA SameRows ==
    ASSUME CompletedByItsLastDelivery, row' = row, staged \subseteq staged'
    PROVE  CompletedByItsLastDelivery'
  BY DEF CompletedByItsLastDelivery

LEMMA TimeoutRunningKeeps ==
    ASSUME LQInv, NEW p \in Process, TimeoutRunning(p)
    PROVE  LQInv'
  <1>1. LQTypeOK /\ OneCallAtATime /\ RequestsAreHonest /\ CompletedByItsLastDelivery
    BY DEF LQInv
  <1>2. /\ busy[p] # None /\ busy[p].waited
        /\ proc' = [proc EXCEPT ![p] = Answered(p, busy[p], "timeout", {})]
        /\ busy' = [busy EXCEPT ![p].waited = FALSE]
        /\ arrivals' = arrivals /\ row' = row /\ mail' = mail /\ staged' = staged
    BY DEF TimeoutRunning
  <1>3. /\ proc' \in [Process -> Procs] /\ busy' \in [Process -> Requests \cup {None}]
        /\ OneCallAtATime' /\ RequestsAreHonest'
    <2>1. {} \in SUBSET Delivery
      OBVIOUS
    <2> QED BY <1>1, <1>2, <2>1, AnswerKeeps
  <1>4. LQTypeOK'
    BY <1>1, <1>2, <1>3 DEF LQTypeOK
  <1> QED BY <1>1, <1>2, <1>3, <1>4, SameRows DEF LQInv

\* A step that only moves the threads of p, with their calls where they are.
LEMMA MoveKeeps ==
    ASSUME LQTypeOK, OneCallAtATime, RequestsAreHonest, NEW p \in Process,
           \A q \in Process \ {p} : proc'[q] = proc[q],
           mail' = mail, busy' = busy, staged \subseteq staged', ~Waiting(p)
    PROVE  OneCallAtATime' /\ RequestsAreHonest'
  <1>1. OneCall(p) /\ HonestQueue(p)
    BY DEF OneCallAtATime, RequestsAreHonest, OneCall, HonestQueue
  <1>2. MainCalls(p)' = MainCalls(p) /\ MainServed(p)' = MainServed(p)
    BY DEF MainCalls, MainServed
  <1>3. OneCall(p)'
    BY <1>1, <1>2 DEF OneCall
  <1>4. HonestQueue(p)'
    <2>1. \A request : Honest(request) => Honest(request)'
      BY DEF Honest
    <2> QED BY <1>1, <2>1 DEF HonestQueue
  <1> QED BY <1>3, <1>4, OthersKeep

\* The new state of the threads of a command.
LEMMA ProcStep ==
    ASSUME LQTypeOK, NEW p \in Process, NEW next \in Procs, proc' = [proc EXCEPT ![p] = next]
    PROVE  /\ proc' \in [Process -> Procs] /\ proc'[p] = next
           /\ \A q \in Process \ {p} : proc'[q] = proc[q]
  BY DEF LQTypeOK

\* Commands that start, beat, run their batch and leave it.
LEMMA CommandKeeps ==
    ASSUME LQInv, NEW p \in Process, Submit(p) \/ Beat(p) \/ RunnerRaises(p) \/ LeaveBatch(p)
    PROVE  LQInv'
  <1>1. LQTypeOK /\ OneCallAtATime /\ RequestsAreHonest /\ CompletedByItsLastDelivery
    BY DEF LQInv
  <1>2. proc[p] \in Procs /\ proc[p].claims \in SUBSET Delivery
    BY <1>1, ProcRow
  <1>3. CASE Submit(p)
    <2> DEFINE request == Request("main", "claim", {})
    <2>1. request \in Requests /\ request.by = "main" /\ request.op = "claim"
      BY DEF Request, Requests
    <2>2. Call(p, request) /\ busy' = busy /\ staged' = staged /\ row' = row /\ arrivals' = arrivals
      BY <1>3 DEF Submit
    <2> HIDE DEF request
    <2>3. proc[p].pc = "idle" /\ proc' = [proc EXCEPT ![p].pc = "claiming"]
      BY <1>3 DEF Submit, MoveTo
    <2>4. /\ proc' \in [Process -> Procs] /\ proc'[p].pc = "claiming"
          /\ \A q \in Process \ {p} : proc'[q] = proc[q]
      <3> DEFINE next == [proc[p] EXCEPT !.pc = "claiming"]
      <3>1. next \in Procs /\ next.pc = "claiming"
        BY <1>2 DEF Procs
      <3>2. proc' = [proc EXCEPT ![p] = next]
        BY <2>3
      <3> HIDE DEF next
      <3> QED BY <1>1, <3>1, <3>2, ProcStep
    <2>5. OneCallAtATime' /\ RequestsAreHonest'
      <3>1. PICK r \in Requests : r = request
        BY <2>1
      <3>2. Honest(r)'
        BY <2>1, <3>1 DEF Honest
      <3> QED BY <1>1, <2>1, <2>2, <2>3, <2>4, <3>1, <3>2, CallKeeps DEF Waiting
    <2>6. LQTypeOK'
      BY <1>1, <2>1, <2>2, <2>4, Queued DEF LQTypeOK
    <2> QED BY <1>1, <2>2, <2>5, <2>6, SameRows DEF LQInv
  <1>4. CASE Beat(p)
    <2> DEFINE request == Request("beat", "renew", proc[p].claims)
    <2>1. request \in Requests /\ request.by = "beat" /\ request.op = "renew"
      BY <1>2 DEF Request, Requests
    <2>2. Call(p, request) /\ busy' = busy /\ staged' = staged /\ row' = row /\ arrivals' = arrivals
      BY <1>4 DEF Beat
    <2> HIDE DEF request
    <2>3. proc' = [proc EXCEPT ![p].beat = "calling"]
      BY <1>4 DEF Beat
    <2>4. /\ proc' \in [Process -> Procs] /\ proc'[p].pc = proc[p].pc
          /\ \A q \in Process \ {p} : proc'[q] = proc[q]
      <3> DEFINE next == [proc[p] EXCEPT !.beat = "calling"]
      <3>1. next \in Procs /\ next.pc = proc[p].pc
        BY <1>2 DEF Procs
      <3>2. proc' = [proc EXCEPT ![p] = next]
        BY <2>3
      <3> HIDE DEF next
      <3> QED BY <1>1, <3>1, <3>2, ProcStep
    <2>5. OneCallAtATime' /\ RequestsAreHonest'
      <3>1. PICK r \in Requests : r = request
        BY <2>1
      <3>2. Honest(r)'
        BY <2>1, <3>1 DEF Honest
      <3> QED BY <1>1, <2>1, <2>2, <2>4, <3>1, <3>2, CallKeeps DEF Waiting
    <2>6. LQTypeOK'
      BY <1>1, <2>1, <2>2, <2>4, Queued DEF LQTypeOK
    <2> QED BY <1>1, <2>2, <2>5, <2>6, SameRows DEF LQInv
  <1>5. CASE RunnerRaises(p)
    <2>1. /\ proc[p].pc = "running"
          /\ proc' = [proc EXCEPT ![p].pc = "leaving", ![p].raised = TRUE]
          /\ arrivals' = arrivals /\ row' = row /\ mail' = mail /\ busy' = busy /\ staged' = staged
      BY <1>5 DEF RunnerRaises
    <2>2. proc' \in [Process -> Procs] /\ \A q \in Process \ {p} : proc'[q] = proc[q]
      <3> DEFINE next == [proc[p] EXCEPT !.pc = "leaving", !.raised = TRUE]
      <3>1. next \in Procs
        BY <1>2 DEF Procs
      <3>2. proc' = [proc EXCEPT ![p] = next]
        BY <2>1
      <3> HIDE DEF next
      <3> QED BY <1>1, <3>1, <3>2, ProcStep
    <2>3. OneCallAtATime' /\ RequestsAreHonest'
      BY <1>1, <2>1, <2>2, MoveKeeps DEF Waiting
    <2> QED BY <1>1, <2>1, <2>2, <2>3, SameRows DEF LQInv, LQTypeOK
  <1>6. CASE LeaveBatch(p) /\ ~proc[p].raised
    <2>1. /\ proc[p].pc = "leaving" /\ proc' = [proc EXCEPT ![p] = Closing]
          /\ arrivals' = arrivals /\ row' = row /\ mail' = mail /\ busy' = busy /\ staged' = staged
      BY <1>6 DEF LeaveBatch
    <2>2. Closing \in Procs
      BY DEF Closing, NotRunning, Procs
    <2>3. proc' \in [Process -> Procs] /\ \A q \in Process \ {p} : proc'[q] = proc[q]
      BY <1>1, <2>1, <2>2 DEF LQTypeOK
    <2>4. OneCallAtATime' /\ RequestsAreHonest'
      BY <1>1, <2>1, <2>3, MoveKeeps DEF Waiting
    <2> QED BY <1>1, <2>1, <2>3, <2>4, SameRows DEF LQInv, LQTypeOK
  <1>7. CASE LeaveBatch(p) /\ proc[p].raised
    <2> DEFINE outcomes == {<<t[1], t[2], "abandon">> : t \in proc[p].claims}
               request == Request("main", "finalize", outcomes)
    <2>1. \A t \in outcomes : t \in Outcome /\ t[3] = "abandon"
      BY <1>2 DEF Delivery, Outcome
    <2> HIDE DEF outcomes
    <2>2. /\ request \in Requests /\ request.by = "main" /\ request.op = "finalize"
          /\ request.outcomes = outcomes
      BY <2>1 DEF Request, Requests
    <2>3. Call(p, request) /\ busy' = busy /\ staged' = staged /\ row' = row /\ arrivals' = arrivals
      BY <1>7 DEF LeaveBatch, outcomes
    <2>4. /\ proc[p].pc = "leaving"
          /\ proc' = [proc EXCEPT ![p].pc = "abandoning", ![p].beat = "off", ![p].lost = FALSE]
      BY <1>7 DEF LeaveBatch
    <2> HIDE DEF request
    <2>5. /\ proc' \in [Process -> Procs] /\ proc'[p].pc = "abandoning"
          /\ \A q \in Process \ {p} : proc'[q] = proc[q]
      <3> DEFINE next == [proc[p] EXCEPT !.pc = "abandoning", !.beat = "off", !.lost = FALSE]
      <3>1. next \in Procs /\ next.pc = "abandoning"
        BY <1>2 DEF Procs
      <3>2. proc' = [proc EXCEPT ![p] = next]
        BY <2>4
      <3> HIDE DEF next
      <3> QED BY <1>1, <3>1, <3>2, ProcStep
    <2>6. OneCallAtATime' /\ RequestsAreHonest'
      <3>1. PICK r \in Requests : r = request
        BY <2>2
      <3>2. \A t \in r.outcomes : t \in Outcome /\ t[3] = "abandon"
        BY <2>1, <2>2, <3>1
      <3>3. Honest(r)'
        BY <3>2 DEF Honest
      <3> QED BY <1>1, <2>2, <2>3, <2>4, <2>5, <3>1, <3>3, CallKeeps DEF Waiting
    <2>7. LQTypeOK'
      BY <1>1, <2>2, <2>3, <2>5, Queued DEF LQTypeOK
    <2> QED BY <1>1, <2>3, <2>6, <2>7, SameRows DEF LQInv
  <1> QED BY <1>3, <1>4, <1>5, <1>6, <1>7

\* A command whose runner returned settles what its staging shows, each claim
\* with one terminal record.
LEMMA StagesKeeps ==
    ASSUME LQInv, NEW p \in Process, RunnerStages(p)
    PROVE  LQInv'
  <1>1. LQTypeOK /\ OneCallAtATime /\ RequestsAreHonest /\ CompletedByItsLastDelivery
    BY DEF LQInv
  <1>2. proc[p] \in Procs /\ proc[p].claims \in SUBSET Delivery
    BY <1>1, ProcRow
  <1>3. PICK rows \in [proc[p].claims -> SUBSET {"video_result", "error"}] :
           /\ staged' = staged \cup {t \in proc[p].claims : rows[t] = {"video_result"}}
           /\ IF ValidStaging(rows) /\ ~proc[p].lost
              THEN /\ MoveTo(p, "running", "settling")
                   /\ Call(p, Request("main", "finalize", Outcomes(rows)))
              ELSE /\ proc' = [proc EXCEPT ![p].pc = "leaving", ![p].raised = TRUE]
                   /\ UNCHANGED mail
    BY DEF RunnerStages
  <1>4. proc[p].pc = "running" /\ arrivals' = arrivals /\ row' = row /\ busy' = busy
    BY DEF RunnerStages
  <1>5. staged \subseteq staged' /\ staged' \in SUBSET Delivery
    BY <1>1, <1>2, <1>3 DEF LQTypeOK
  <1>6. CASE ValidStaging(rows) /\ ~proc[p].lost
    <2>1. ASSUME NEW t \in proc[p].claims, "error" \notin rows[t]
          PROVE  <<t[1], t[2]>> \in staged'
      <3>1. Cardinality(rows[t]) = 1 /\ rows[t] \in SUBSET {"video_result", "error"}
        BY <1>3, <1>6 DEF ValidStaging
      <3>2. rows[t] # {}
        BY <3>1, FS_EmptySet
      <3>3. rows[t] = {"video_result"}
        BY <2>1, <3>1, <3>2
      <3>4. <<t[1], t[2]>> = t
        BY <1>2 DEF Delivery
      <3> QED BY <1>3, <3>3, <3>4
    <2>2. \A t \in Outcomes(rows) :
             t \in Outcome /\ (t[3] = "complete" => <<t[1], t[2]>> \in staged')
      <3> SUFFICES ASSUME NEW t \in proc[p].claims
                   PROVE  LET u == <<t[1], t[2], IF "error" \in rows[t] THEN "abandon" ELSE "complete">>
                          IN  u \in Outcome /\ (u[3] = "complete" => <<u[1], u[2]>> \in staged')
        BY DEF Outcomes
      <3>1. t \in Delivery
        BY <1>2
      <3>2. CASE "error" \in rows[t]
        BY <3>1, <3>2 DEF Delivery, Outcome
      <3>3. CASE "error" \notin rows[t]
        BY <2>1, <3>1, <3>3 DEF Delivery, Outcome
      <3> QED BY <3>2, <3>3
    <2>3. Request("main", "finalize", Outcomes(rows)) \in Requests
      BY <2>2 DEF Request, Requests
    <2>4. PICK r \in Requests : r = Request("main", "finalize", Outcomes(rows))
      BY <2>3
    <2>5. r.by = "main" /\ r.op = "finalize" /\ r.outcomes = Outcomes(rows)
      BY <2>4 DEF Request
    <2>6. Honest(r)'
      BY <2>2, <2>5 DEF Honest
    <2>7. /\ proc' \in [Process -> Procs] /\ proc'[p].pc = "settling"
          /\ \A q \in Process \ {p} : proc'[q] = proc[q]
      <3> DEFINE next == [proc[p] EXCEPT !.pc = "settling"]
      <3>1. next \in Procs /\ next.pc = "settling"
        BY <1>2 DEF Procs
      <3>2. proc' = [proc EXCEPT ![p] = next]
        BY <1>3, <1>6 DEF MoveTo
      <3> HIDE DEF next
      <3> QED BY <1>1, <3>1, <3>2, ProcStep
    <2>8. Call(p, r)
      BY <1>3, <1>6, <2>4
    <2>9. OneCallAtATime' /\ RequestsAreHonest'
      BY <1>1, <1>4, <1>5, <2>5, <2>6, <2>7, <2>8, CallKeeps DEF Waiting
    <2>10. LQTypeOK'
      BY <1>1, <1>4, <1>5, <2>7, <2>8, Queued DEF LQTypeOK
    <2> QED BY <1>1, <1>4, <1>5, <2>9, <2>10, SameRows DEF LQInv
  <1>7. CASE ~(ValidStaging(rows) /\ ~proc[p].lost)
    <2>1. proc' = [proc EXCEPT ![p].pc = "leaving", ![p].raised = TRUE] /\ mail' = mail
      BY <1>3, <1>7
    <2>2. proc' \in [Process -> Procs] /\ \A q \in Process \ {p} : proc'[q] = proc[q]
      <3> DEFINE next == [proc[p] EXCEPT !.pc = "leaving", !.raised = TRUE]
      <3>1. next \in Procs
        BY <1>2 DEF Procs
      <3>2. proc' = [proc EXCEPT ![p] = next]
        BY <2>1
      <3> HIDE DEF next
      <3> QED BY <1>1, <3>1, <3>2, ProcStep
    <2>3. OneCallAtATime' /\ RequestsAreHonest'
      BY <1>1, <1>4, <1>5, <2>1, <2>2, MoveKeeps DEF Waiting
    <2>4. LQTypeOK'
      BY <1>1, <1>4, <1>5, <2>1, <2>2 DEF LQTypeOK
    <2> QED BY <1>1, <1>4, <1>5, <2>3, <2>4, SameRows DEF LQInv
  <1> QED BY <1>6, <1>7

\* A command that closes its actor or dies leaves no request behind.
LEMMA EndKeeps ==
    ASSUME LQInv, NEW p \in Process, Close(p) \/ Die(p) \/ Take(p) \/ TimeoutWaiting(p)
    PROVE  LQInv'
  <1>1. LQTypeOK /\ OneCallAtATime /\ RequestsAreHonest /\ CompletedByItsLastDelivery
    BY DEF LQInv
  <1>2. CASE Close(p) \/ Die(p)
    <2>1. /\ proc' = [proc EXCEPT ![p] = NotRunning] /\ mail' = [mail EXCEPT ![p] = <<>>]
          /\ arrivals' = arrivals /\ row' = row /\ staged' = staged
          /\ busy' = [busy EXCEPT ![p] = None] \/ (busy' = busy /\ busy[p] = None)
      BY <1>2 DEF Close, Die
    <2>2. NotRunning \in Procs
      BY DEF NotRunning, Procs
    <2>3. proc' \in [Process -> Procs] /\ \A q \in Process \ {p} : proc'[q] = proc[q]
      BY <1>1, <2>1, <2>2, ProcStep
    <2>4. /\ mail' \in [Process -> Seq(Requests)] /\ mail'[p] = <<>>
          /\ \A q \in Process \ {p} : mail'[q] = mail[q]
      <3>1. <<>> \in Seq(Requests)
        BY EmptySeq
      <3> QED BY <1>1, <2>1, <3>1 DEF LQTypeOK
    <2>5. /\ busy' \in [Process -> Requests \cup {None}] /\ busy'[p] = None
          /\ \A q \in Process \ {p} : busy'[q] = busy[q]
      BY <1>1, <2>1 DEF LQTypeOK
    <2>6. MainCalls(p)' = {} /\ ~MainServed(p)' /\ DOMAIN mail'[p] = {}
      <3>1. DOMAIN mail'[p] = {}
        BY <2>4
      <3> QED BY <2>5, <3>1 DEF MainCalls, MainServed
    <2>7. OneCall(p)' /\ HonestQueue(p)'
      BY <2>5, <2>6 DEF OneCall, HonestQueue
    <2>8. OneCallAtATime' /\ RequestsAreHonest'
      BY <1>1, <2>1, <2>3, <2>4, <2>5, <2>7, OthersKeep
    <2>9. LQTypeOK'
      BY <1>1, <2>1, <2>3, <2>4, <2>5 DEF LQTypeOK
    <2> QED BY <1>1, <2>1, <2>8, <2>9, SameRows DEF LQInv
  <1>3. CASE Take(p)
    <2>1. LQTypeOK'
      BY <1>1, <1>3, Taken DEF Take, LQTypeOK
    <2> QED BY <1>1, <1>3, <2>1, TakeKeeps, SameRows DEF LQInv, Take
  <1>4. CASE TimeoutWaiting(p)
    <2>1. row' = row /\ staged' = staged
      BY <1>4 DEF TimeoutWaiting
    <2> QED BY <1>1, <1>4, <2>1, TimeoutKeeps, SameRows DEF LQInv
  <1> QED BY <1>2, <1>3, <1>4

\* Rows that arrive, lose their lease or are recovered.
LEMMA TableKeeps ==
    ASSUME LQInv, (\E m \in Message : Enqueue(m) \/ Expire(m)) \/ Recover \/ UNCHANGED lqvars
    PROVE  LQInv'
  <1>1. LQTypeOK /\ OneCallAtATime /\ RequestsAreHonest /\ CompletedByItsLastDelivery
    BY DEF LQInv
  <1>2. proc' = proc /\ mail' = mail /\ busy' = busy /\ staged' = staged
    BY DEF Enqueue, Expire, Recover, lqvars
  <1>3. OneCallAtATime' /\ RequestsAreHonest'
    BY <1>1, <1>2 DEF OneCallAtATime, RequestsAreHonest, MainCalls, MainServed, Waiting, Honest
  <1> DEFINE RowsGoOn ==
        /\ row' \in Rows /\ arrivals' \in Seq(Message)
        /\ \A m \in Message : row'[m].state = "completed" =>
              row[m].state = "completed" /\ row'[m].count = row[m].count
  <1>4. RowsGoOn
    <2>1. ASSUME NEW m \in Message, Enqueue(m) PROVE RowsGoOn
      <3>1. arrivals' = Append(arrivals, m) /\ arrivals \in Seq(Message)
        BY <1>1, <2>1 DEF Enqueue, LQTypeOK
      <3>2. arrivals' \in Seq(Message)
        BY <3>1, AppendProperties
      <3> QED BY <1>1, <2>1, <3>2 DEF Enqueue, LQTypeOK, Rows
    <2>2. ASSUME NEW m \in Message, Expire(m) PROVE RowsGoOn
      BY <1>1, <2>2 DEF Expire, LQTypeOK, Rows
    <2>3. CASE Recover
      BY <1>1, <2>3, RecoveredRows DEF Recover, LQTypeOK, Rows
    <2>4. CASE UNCHANGED lqvars
      BY <1>1, <2>4 DEF lqvars, LQTypeOK, Rows
    <2> QED BY <2>1, <2>2, <2>3, <2>4
  <1>5. LQTypeOK'
    BY <1>1, <1>2, <1>4 DEF LQTypeOK, Rows
  <1>6. CompletedByItsLastDelivery'
    BY <1>1, <1>2, <1>4 DEF CompletedByItsLastDelivery
  <1> QED BY <1>3, <1>5, <1>6 DEF LQInv

\* The queue, its actors and its commands keep the invariant, whatever times
\* out, expires or dies.
THEOREM QueueInvariance == LQSpec => []LQInv
  <1>1. LQInit => LQInv
    <2> SUFFICES ASSUME LQInit PROVE LQInv
      OBVIOUS
    <2>1. /\ \A p \in Process : mail[p] = <<>> /\ busy[p] = None
          /\ \A m \in Message : row[m].state = "absent"
      BY DEF LQInit, NoRow
    <2>2. LQTypeOK
      <3>1. arrivals \in Seq(Message) /\ mail \in [Process -> Seq(Requests)]
        BY EmptySeq DEF LQInit
      <3> QED BY <3>1 DEF LQInit, LQTypeOK, NoRow, NotRunning, Procs
    <2>3. \A p \in Process : MainCalls(p) = {} /\ ~MainServed(p) /\ DOMAIN mail[p] = {}
      BY <2>1 DEF MainCalls, MainServed
    <2> QED BY <2>1, <2>2, <2>3 DEF LQInv, OneCallAtATime, RequestsAreHonest,
                                   CompletedByItsLastDelivery
  <1>2. LQInv /\ [LQNext]_lqvars => LQInv'
    BY ExecuteKeeps, TimeoutRunningKeeps, CommandKeeps, StagesKeeps, EndKeeps, TableKeeps
       DEF LQNext, LQStep
  <1> QED BY <1>1, <1>2, PTL DEF LQSpec

\* No message is completed on anything but the staged record of the delivery
\* its row counts, although calls take effect after their callers gave up.
THEOREM CompletedByItsOwnDelivery == LQSpec => []CompletedByItsLastDelivery
  <1>1. LQInv => CompletedByItsLastDelivery
    BY DEF LQInv
  <1> QED BY <1>1, QueueInvariance, PTL
=============================================================================
