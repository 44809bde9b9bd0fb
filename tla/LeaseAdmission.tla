--------------------------- MODULE LeaseAdmission ---------------------------
(***************************************************************************)
(* How many queued works fit one lease: the longest-processing-time plan   *)
(* that the control store projects when it claims (sjd_control.py) and     *)
(* that the process job projects again before it starts (sjd_process.py).  *)
(* Durations, speeds and margins are whole numbers; a projection           *)
(* makespan / speed * factor is compared after multiplying by speed.       *)
(***************************************************************************)
EXTENDS Naturals, FiniteSets, FiniteSetsExt, Folds

CONSTANTS Speed,   \* minimum_speed_x
          Factor,  \* lease_safety_factor
          Margin   \* lease_margin_seconds

ASSUME AdmissionAssumption ==
    Speed \in Nat \ {0} /\ Factor \in Nat \ {0} /\ Margin \in Nat \ {0}

\* Scheduled last of S: the shortest, then the largest identity.
LastScheduled(dur, S) ==
    CHOOSE w \in S : \A v \in S \ {w} :
        dur[v] > dur[w] \/ (dur[v] = dur[w] /\ v < w)

\* The least loaded bucket, then the smallest index.
Lightest(costs) ==
    CHOOSE i \in DOMAIN costs : \A j \in DOMAIN costs :
        costs[i] < costs[j] \/ (costs[i] = costs[j] /\ i <= j)

\* Bucket costs after every work of S went, longest first, to the bucket that
\* was lightest at its turn.
LptCosts(dur, S, workers) ==
    MapThenFoldSet(LAMBDA w, costs : [costs EXCEPT ![Lightest(costs)] = @ + dur[w]],
                   [i \in 1..workers |-> 0],
                   LAMBDA w : w,
                   LAMBDA T : LastScheduled(dur, T),
                   S)

LptMakespan(dur, S, workers) ==
    LET costs == LptCosts(dur, S, workers)
    IN  Max({costs[i] : i \in DOMAIN costs})

\* (slip) every task slot is a worker, though one executor runs one task.
SlotWorkers(p) ==
    Min({(p.instances * p.cores) \div p.task_cpus}
        \cup IF p.peak = 0 THEN {} ELSE {p.instances * (p.usable \div p.peak)})

\* Workers the claim counts on: _claim_admission_settings.
StoreWorkers(p) ==
    Min({p.instances, (p.instances * p.cores) \div p.task_cpus}
        \cup IF p.peak = 0 THEN {} ELSE {p.instances * (p.usable \div p.peak)})

\* Tasks the process job plans: conservative_concurrency.
ProcessWorkers(p, count) ==
    Min({count, p.planned, (p.instances * p.cores) \div p.task_cpus}
        \cup IF p.peak = 0 THEN {} ELSE {p.instances * (p.usable \div p.peak)})

\* The projection of a claimed prefix is strictly inside the lease.
Fits(dur, S, workers, lease) ==
    LptMakespan(dur, S, Min({Cardinality(S), workers})) * Factor + Margin * Speed
        < lease * Speed

\* admit_lease of the process job, for what is left of the lease.
AdmitLease(dur, S, p, remaining) ==
    LptMakespan(dur, S, ProcessWorkers(p, Cardinality(S))) * Factor + Margin * Speed
        < remaining * Speed

\* (slip) youngest first.
LastOf(S, before, n) ==
    {w \in S : Cardinality({v \in S : <<w, v>> \in before}) < n}

\* The first n works of a queue given by a strict order, a set of pairs.
FirstOf(S, before, n) ==
    {w \in S : Cardinality({v \in S : <<v, w>> \in before}) < n}

\* _largest_admissible_claim_prefix: sizes are tried from the limit down; the
\* minimum must fit or the claim raises LeaseBudgetError.
AdmissibleSizes(S, before, dur, workers, lease, minimum, maximum) ==
    {n \in minimum..Min({maximum, Cardinality(S)}) :
        Fits(dur, FirstOf(S, before, n), workers, lease)}

LargestPrefix(S, before, dur, workers, lease, minimum, maximum) ==
    FirstOf(S, before,
            Max(AdmissibleSizes(S, before, dur, workers, lease, minimum, maximum)))
=============================================================================
