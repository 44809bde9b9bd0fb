-------------------------- MODULE MCReconciliation --------------------------
(***************************************************************************)
(* Small instances of Reconciliation.  One work, whose callers may have    *)
(* waited for the lock and whose tables are reconciled, three times        *)
(* claimed; or two works and callers that share one active batch, without  *)
(* waits.                                                                  *)
(***************************************************************************)
EXTENDS Reconciliation, TLC

VARIABLE focus

Symmetry == Permutations(Batch) \cup Permutations(Output)

OneContent == {[runtime |-> 1, release |-> 1, duration |-> 1, max_attempts |-> 2]}
\* Work that may be tried twice and work that may be tried once.
TwoContents ==
    OneContent \cup {[runtime |-> 2, release |-> 2, duration |-> 1, max_attempts |-> 1]}
\* Work that fits a short lease and work that does not.
TightContents ==
    {[runtime |-> 1, release |-> d, duration |-> d, max_attempts |-> 1] : d \in {1, 4}}
Contents == TwoContents \cup TightContents

OneCall == {[max_items |-> 2, minimum_items |-> 1, active |-> 1, scope |-> Work,
             release |-> 0, lease |-> 2]}
\* One caller takes a single work, another insists on two and gives them a
\* longer lease.
SharedCalls ==
    {[max_items |-> 2, minimum_items |-> 1, active |-> 1, scope |-> Work,
      release |-> 1, lease |-> 2],
     [max_items |-> 1, minimum_items |-> 1, active |-> 1, scope |-> Work,
      release |-> 0, lease |-> 2],
     [max_items |-> 3, minimum_items |-> 2, active |-> 1, scope |-> Work,
      release |-> 0, lease |-> 4]}
Calls == OneCall \cup SharedCalls

\* The steps of RNext that are about the first work.
OneWork ==
    \/ /\ \/ \E now \in ReadClock :
               \/ \E request \in [{1} -> Content \cap TwoContents] :
                     RegisterMany({1}, request, [w \in {1} |-> now], now)
               \/ \E b \in Batch :
                     \/ \E call \in OneCall : Claim(b, call, now)
                     \/ Heartbeat(b, now)
                     \/ \E result \in Results(b) : Seal(b, result, now)
                     \/ Commit(b, now)
               \/ \E operator \in Operator :
                     \/ \E extra \in 1..MaxExtra : Replay(1, operator, extra, now)
                     \/ \E expected \in [{1} -> {1, 2}] : Quarantine(expected, operator, now)
          \/ \E now \in 0..MaxTime : Recover(now)
          \/ Tick
       /\ UNCHANGED findings
    \/ \E now \in ReadClock : Reconcile(now)

SharedStore ==
    /\ \/ \E S \in SUBSET Work :
             \E request \in [S -> TightContents], at \in [S -> Available \cup {clock}] :
                RegisterMany(S, request, at, clock)
       \/ \E b \in Batch :
             \/ \E call \in SharedCalls : Claim(b, call, clock)
             \/ \E o \in Output, ok \in [Members(b) -> BOOLEAN] :
                   Seal(b, [w \in Members(b) |-> [output |-> o, ok |-> ok[w]]], clock)
             \/ Commit(b, clock)
       \/ Recover(clock)
       \/ Tick
    /\ Cardinality({b \in Batch : batches'[b].status # "NONE"}) <= 2
    /\ UNCHANGED findings

MCInit == RInit /\ focus \in {"one", "shared"}

MCNext ==
    /\ UNCHANGED focus
    /\ \/ focus = "one" /\ OneWork
       \/ focus = "shared" /\ SharedStore

MCSpec == MCInit /\ [][MCNext]_<<vars, findings, focus>>
=============================================================================
