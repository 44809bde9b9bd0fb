--------------------------- MODULE ClaimAdmission ---------------------------
(***************************************************************************)
(* LeaseAdmission at work: a state is one claim (the durations in queue    *)
(* order, the profile, the lease), and its one step is the store's         *)
(* decision.                                                               *)
(***************************************************************************)
EXTENDS LeaseAdmission

CONSTANTS ExecutionProfile,  \* execution profiles
          LeaseSeconds,      \* durations of a lease
          MaxQueue,          \* longest queue
          MaxDuration        \* longest work

\* A profile as build_profile_from_inventory makes it: every executor has a slot
\* and no caller caps the sum of the slots, so that no executor is left out of
\* the plan.  Both sides refuse a peak that no executor has room for.
IsProfile(p) ==
    /\ {p.instances, p.cores, p.task_cpus, p.planned} \subseteq Nat \ {0}
    /\ {p.usable, p.peak} \subseteq Nat
    /\ p.task_cpus <= p.cores
    /\ p.instances <= p.planned
    /\ p.peak <= p.usable

ASSUME ClaimAssumption ==
    /\ \A p \in ExecutionProfile : IsProfile(p)
    /\ LeaseSeconds \subseteq Nat
    /\ MaxQueue \in Nat /\ MaxDuration \in Nat

VARIABLES dur,      \* durations, in queue order
          profile,  \* the execution profile
          lease,
          prefix    \* the claimed works; {} before the decision

lavars == <<dur, profile, lease, prefix>>

Queue == DOMAIN dur
Earlier == {p \in Queue \X Queue : p[1] < p[2]}

LAInit ==
    /\ dur \in UNION {[1..n -> 1..MaxDuration] : n \in 1..MaxQueue}
    /\ profile \in ExecutionProfile
    /\ lease \in LeaseSeconds
    /\ prefix = {}

\* The claim takes the largest prefix, or raises and takes nothing.
AdmitQueue ==
    /\ prefix = {}
    /\ Fits(dur, FirstOf(Queue, Earlier, 1), StoreWorkers(profile), lease)
    /\ prefix' = LargestPrefix(Queue, Earlier, dur, StoreWorkers(profile), lease,
                               1, MaxQueue)
    /\ UNCHANGED <<dur, profile, lease>>

LASpec == LAInit /\ [][AdmitQueue]_lavars
-----------------------------------------------------------------------------
(* Properties *)

Plans(S, k) == [S -> 1..k]
PlanCost(plan, i) == MapThenSumSet(LAMBDA w : dur[w], {w \in DOMAIN plan : plan[w] = i})
PlanMakespan(plan, k) == Max({PlanCost(plan, i) : i \in 1..k})
Optimum(S, k) == Min({PlanMakespan(plan, k) : plan \in Plans(S, k)})

\* The projected makespan is one some assignment of the works to the workers
\* has, and within the known factor 4/3 - 1/(3k) of the best assignment: the
\* budget is neither too optimistic nor uselessly pessimistic.
MakespanIsLptBound ==
    prefix # {} =>
        LET k == Min({Cardinality(prefix), StoreWorkers(profile)})
            m == LptMakespan(dur, prefix, k)
        IN  /\ \E plan \in Plans(prefix, k) : PlanMakespan(plan, k) = m
            /\ 3 * k * m <= (4 * k - 1) * Optimum(prefix, k)

\* The claimed works are the front of the queue, they fit, and no longer front
\* of the queue fits, although a longer one can have a shorter projection.
PrefixIsLargestFit ==
    prefix # {} =>
        /\ \A w \in prefix, v \in Queue : v < w => v \in prefix
        /\ \A n \in 1..Cardinality(Queue) :
              Fits(dur, 1..n, StoreWorkers(profile), lease)
                  => n <= Cardinality(prefix)
        /\ Fits(dur, prefix, StoreWorkers(profile), lease)

\* What the store admits, a process job that starts at once admits too: the
\* two projections, made by different code from the same profile, agree.
ProcessAdmitsClaim ==
    prefix # {} => AdmitLease(dur, prefix, profile, lease)

\* A lease is neither overbooked nor left half empty, and the two sides that
\* decide so, the store at the claim and the process at its start, agree.
AdmissionIsSound == PrefixIsLargestFit /\ MakespanIsLptBound /\ ProcessAdmitsClaim
-----------------------------------------------------------------------------
(* The inductive invariant *)

LATypeOK ==
    /\ \E n \in 1..MaxQueue : dur \in [1..n -> 1..MaxDuration]
    /\ profile \in ExecutionProfile
    /\ lease \in LeaseSeconds
    /\ prefix \subseteq Queue

\* The other two parts of AdmissionIsSound follow from this for any durations.
LAInv == LATypeOK /\ PrefixIsLargestFit
=============================================================================
