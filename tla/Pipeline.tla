------------------------------ MODULE Pipeline ------------------------------
(***************************************************************************)
(* The local pipeline (sjd_orchestrate.py): one command registers works,   *)
(* claims and processes batches of them until none is ready, reconciles,   *)
(* builds gold and acknowledges its refreshes.  Several commands may run   *)
(* on one control database and one gold directory, at a time or after one  *)
(* another, each of which may fail or be killed anywhere.                  *)
(*                                                                         *)
(* The store is the one of ControlStore, a batch runs as in ProcessJob and *)
(* gold is built as in Gold: here a claim is one step, a batch commits     *)
(* with the works that failed in it, and gold is read, written and         *)
(* checkpointed.                                                           *)
(***************************************************************************)
EXTENDS Naturals, FiniteSets, FiniteSetsExt, Nothing

CONSTANTS
    Item,           \* works
    RuntimeKey,     \* work -> runtime key
    Command,        \* runs of the command
    ClaimSize,      \* max_items
    ItemAttempts    \* work -> max_attempts

ASSUME PipelineAssumption ==
    /\ ClaimSize \in 1..100
    /\ ItemAttempts \in [Item -> Nat \ {0}]
    /\ None \notin Command

VARIABLES
    item,       \* rows of work
    committed,  \* committed batches: their members and what they published
    command,    \* the commands
    gold,       \* rows of gold, the checkpoint, and pending refreshes
    overlapped  \* two commands built gold at the same time (history)

plvars == <<item, committed, command, gold, overlapped>>

NotStarted == [pc |-> "idle", ids |-> {}, unread |-> {}, remaining |-> {}, members |-> {},
               results |-> {}, seen |-> {}]

PLInit ==
    /\ item = [w \in Item |-> [status |-> "ABSENT", attempts |-> 0, lease |-> None]]
    /\ committed = {}
    /\ command = [r \in Command |-> NotStarted]
    /\ gold = [rows |-> {}, checkpoint |-> {}, pending |-> FALSE]
    /\ overlapped = FALSE

WithStatus(status) == {w \in Item : item[w].status = status}
Running(r) == command[r].pc \notin {"idle", "done", "failed"}
InGold(r) == command[r].pc \in {"write", "save"}

-----------------------------------------------------------------------------
(* Registration, and the loop over what is ready *)

Launch(r, ids) ==
    /\ command[r] = NotStarted
    /\ ids # {}
    /\ item' = [w \in Item |-> IF w \in ids /\ item[w].status = "ABSENT"
                               THEN [item[w] EXCEPT !.status = "READY"] ELSE item[w]]
    /\ command' = [command EXCEPT ![r] = [NotStarted EXCEPT !.pc = "scan", !.ids = ids, !.unread = ids]]
    /\ UNCHANGED <<committed, gold, overlapped>>

\* The status of every requested work is read on its own.
ReadStatus(r, w) ==
    /\ command[r].pc = "scan" /\ w \in command[r].unread
    /\ command' = [command EXCEPT ![r].unread = @ \ {w},
                                  ![r].remaining = IF item[w].status = "READY" THEN @ \cup {w} ELSE @]
    /\ UNCHANGED <<item, committed, gold, overlapped>>

\* (slip) a single batch is run.
AfterFirstBatch(c) == IF c.results # {} THEN "reconcile"
                      ELSE IF c.remaining # {} THEN "claim" ELSE "resume"

\* while remaining_ids, and what follows the loop.
AfterScan(c) == IF c.remaining # {} THEN "claim"
                ELSE IF c.results # {} THEN "reconcile" ELSE "resume"

Scanned(r) ==
    /\ command[r].pc = "scan" /\ command[r].unread = {}
    /\ command' = [command EXCEPT ![r].pc = AfterScan(command[r])]
    /\ UNCHANGED <<item, committed, gold, overlapped>>

\* claim, of works with one runtime key among those that remained, as many as
\* the call and the lease allow.
ClaimItems(r, W) ==
    LET c == command[r]
        ready == c.remaining \cap WithStatus("READY")
    IN  /\ c.pc = "claim"
        /\ W \subseteq ready /\ W # {}
        /\ Cardinality(W) <= Min({ClaimSize, Cardinality(c.remaining)})
        /\ \A v, w \in W : RuntimeKey[v] = RuntimeKey[w]
        /\ item' = [w \in Item |-> IF w \in W
                                   THEN [status |-> "LEASED", attempts |-> item[w].attempts + 1,
                                         lease |-> r]
                                   ELSE item[w]]
        /\ command' = [command EXCEPT ![r].pc = "process", ![r].members = W]
        /\ UNCHANGED <<committed, gold, overlapped>>

\* Another command took all of it: the claim is empty and the command fails.
NothingClaimed(r) ==
    /\ command[r].pc = "claim"
    /\ command[r].remaining \cap WithStatus("READY") = {}
    /\ command' = [command EXCEPT ![r].pc = "failed"]
    /\ UNCHANGED <<item, committed, gold, overlapped>>

\* (slip) a failed attempt is not counted.
RequeuedUncounted(w) == [status |-> "READY", attempts |-> item[w].attempts - 1, lease |-> None]

Requeued(w) ==
    [status |-> IF item[w].attempts >= ItemAttempts[w] THEN "DEAD" ELSE "READY",
     attempts |-> item[w].attempts, lease |-> None]

\* run_process_batch: the batch commits, with the works that failed.  If its
\* lease was recovered it does not.
RunProcessBatch(r, failed) ==
    LET W == command[r].members
        batch == [members |-> W, published |-> W \ failed]
    IN  /\ command[r].pc = "process"
        /\ failed \subseteq W
        /\ IF \A w \in W : item[w].lease = r
           THEN /\ item' = [w \in Item |->
                              IF w \notin W THEN item[w]
                              ELSE IF w \in failed THEN Requeued(w)
                              ELSE [item[w] EXCEPT !.status = "SUCCEEDED", !.lease = None]]
                /\ committed' = committed \cup {batch}
                /\ command' = [command EXCEPT
                      ![r] = [command[r] EXCEPT
                        !.pc = "scan", !.unread = command[r].ids, !.remaining = {},
                        !.members = {}, !.results = command[r].results \cup {batch}]]
           ELSE /\ command' = [command EXCEPT ![r].pc = "failed"]
                /\ UNCHANGED <<item, committed>>
        /\ UNCHANGED <<gold, overlapped>>

\* Nothing was ready: the committed batches of the works are resumed, or the
\* command fails.
ResumeBatches(r) ==
    LET own == {b \in committed : b.members \cap command[r].ids # {}}
    IN  /\ command[r].pc = "resume"
        /\ command' = [command EXCEPT ![r].results = own,
                                      ![r].pc = IF own = {} THEN "failed" ELSE "reconcile"]
        /\ UNCHANGED <<item, committed, gold, overlapped>>

-----------------------------------------------------------------------------
(* Gold *)

\* reconcile only writes findings; then LocalGoldJob.run plans from what is
\* committed, and has nothing to do if that is what the checkpoint says.
ReadGold(r) ==
    LET now == WithStatus("SUCCEEDED")
    IN  /\ command[r].pc = "reconcile"
        /\ command' = [command EXCEPT ![r].seen = now,
                          ![r].pc = IF gold.checkpoint = now THEN "acknowledge" ELSE "write"]
        /\ overlapped' = (overlapped \/ \E q \in Command \ {r} : InGold(q))
        /\ UNCHANGED <<item, committed, gold>>

WriteGold(r) ==
    /\ command[r].pc = "write"
    /\ gold' = [gold EXCEPT !.rows = command[r].seen]
    /\ command' = [command EXCEPT ![r].pc = "save"]
    /\ UNCHANGED <<item, committed, overlapped>>

\* save_checkpoints_and_enqueue
SaveGold(r) ==
    /\ command[r].pc = "save"
    /\ gold' = [gold EXCEPT !.checkpoint = command[r].seen, !.pending = TRUE]
    /\ command' = [command EXCEPT ![r].pc = "acknowledge"]
    /\ UNCHANGED <<item, committed, overlapped>>

\* The pending refreshes, of whichever command, are acknowledged.
AcknowledgeRefreshes(r) ==
    /\ command[r].pc = "acknowledge"
    /\ gold' = [gold EXCEPT !.pending = FALSE]
    /\ command' = [command EXCEPT ![r].pc = "done"]
    /\ UNCHANGED <<item, committed, overlapped>>

-----------------------------------------------------------------------------
(* Faults, and the operator *)

\* An exception, or the end of the process; what it leased stays leased.
Break(r) ==
    /\ Running(r)
    /\ command' = [command EXCEPT ![r].pc = "failed"]
    /\ UNCHANGED <<item, committed, gold, overlapped>>

\* recover, which the command never calls itself.
RecoverItems(r) ==
    LET held == {w \in WithStatus("LEASED") : item[w].lease = r}
    IN  /\ held # {}
        /\ item' = [w \in Item |-> IF w \in held THEN Requeued(w) ELSE item[w]]
        /\ UNCHANGED <<committed, command, gold, overlapped>>

-----------------------------------------------------------------------------
CommandStep(r) ==
    \/ \E w \in Item : ReadStatus(r, w)
    \/ Scanned(r) \/ NothingClaimed(r) \/ ResumeBatches(r)
    \/ \E W \in SUBSET Item : ClaimItems(r, W) \/ RunProcessBatch(r, W)
    \/ ReadGold(r) \/ WriteGold(r) \/ SaveGold(r) \/ AcknowledgeRefreshes(r)

PLNext ==
    \E r \in Command :
        \/ \E ids \in SUBSET Item : Launch(r, ids)
        \/ CommandStep(r) \/ Break(r) \/ RecoverItems(r)

\* A command that was started goes on; nobody need ever call recover.
PLFairness == \A r \in Command : WF_plvars(CommandStep(r))

PLSpec == PLInit /\ [][PLNext]_plvars /\ PLFairness
-----------------------------------------------------------------------------
(* Properties *)

\* The loop over ready work ends: works that fail again and again, and works
\* another command takes or gives back, cannot keep a command busy for ever.
EveryCommandEnds ==
    \A r \in Command : Running(r) ~> ~Running(r)

\* A command that returned has left none of its works ready, unless another
\* command or a recovery gave them back after it looked, and gold shows what it
\* committed.  Commands that build gold at the same time can lose rows: the one
\* that read first may write last, under the checkpoint of the other.
ReturnedCommandIsInGold ==
    \A r \in Command :
        command[r].pc = "done" /\ ~overlapped =>
            /\ \A b \in command[r].results : b.published \subseteq gold.rows
            /\ (\A q \in Command \ {r} : command[q] = NotStarted)
                 => command[r].ids \cap WithStatus("READY") = {}

-----------------------------------------------------------------------------
(* The inductive invariant behind ReturnedCommandIsInGold *)

Batches == [members : SUBSET Item, published : SUBSET Item]
Commands ==
    [pc : {"idle", "scan", "claim", "process", "resume", "reconcile", "write", "save",
           "acknowledge", "done", "failed"},
     ids : SUBSET Item, unread : SUBSET Item, remaining : SUBSET Item, members : SUBSET Item,
     results : SUBSET Batches, seen : SUBSET Item]

PLTypeOK ==
    /\ item \in [Item -> [status : {"ABSENT", "READY", "LEASED", "SUCCEEDED", "DEAD"},
                          attempts : Nat, lease : Command \cup {None}]]
    /\ committed \in SUBSET Batches
    /\ command \in [Command -> Commands]
    /\ gold \in [rows : SUBSET Item, checkpoint : SUBSET Item, pending : BOOLEAN]
    /\ overlapped \in BOOLEAN

\* Leased work is held by a command that processes it or broke; other work is
\* held by nobody.
HeldWhileProcessed ==
    \A w \in Item :
        IF item[w].status = "LEASED"
        THEN /\ item[w].lease \in Command
             /\ \/ command[item[w].lease].pc = "failed"
                \/ /\ command[item[w].lease].pc = "process"
                   /\ w \in command[item[w].lease].members
        ELSE item[w].lease = None

\* What was published has succeeded, and commands report committed batches.
PublishedHasSucceeded ==
    /\ \A b \in committed : b.published \subseteq WithStatus("SUCCEEDED")
    /\ \A r \in Command : command[r].results \subseteq committed

\* Unless builds overlapped, only one command builds gold, from a view that
\* has all of its results and all that gold shows, and gold shows all that the
\* checkpoint says.
OneBuilder ==
    /\ \A q, r \in Command : InGold(q) /\ InGold(r) => q = r
    /\ gold.checkpoint \subseteq gold.rows
    /\ gold.rows \subseteq WithStatus("SUCCEEDED")
    /\ \A r \in Command : InGold(r) =>
          /\ gold.rows \subseteq command[r].seen
          /\ command[r].seen \subseteq WithStatus("SUCCEEDED")
          /\ \A b \in command[r].results : b.published \subseteq command[r].seen
          /\ command[r].pc = "save" => gold.rows = command[r].seen
    /\ \A r \in Command : command[r].pc \in {"acknowledge", "done"} =>
          \A b \in command[r].results : b.published \subseteq gold.rows

\* A command that runs alone knows of its ready works: after the scan those it
\* found, and past the loop there are none.
KnowsItsReadyWork(r) ==
    LET c == command[r]
        ready == c.ids \cap WithStatus("READY")
    IN  /\ c.pc = "scan" => ready \subseteq c.unread \cup c.remaining
        /\ c.pc \in {"resume", "reconcile", "write", "save", "acknowledge", "done"} => ready = {}

PLInv ==
    /\ PLTypeOK
    /\ HeldWhileProcessed
    /\ PublishedHasSucceeded
    /\ ~overlapped => OneBuilder
    /\ \A r \in Command :
          (\A q \in Command \ {r} : command[q] = NotStarted) => KnowsItsReadyWork(r)
=============================================================================
