------------------------------ MODULE Placement -----------------------------
(***************************************************************************)
(* How many tasks a process job runs at once, and with how many threads    *)
(* each: discover_active_executors and plan_task_width of                  *)
(* fabric_executor_inventory.py, _fabric_process_profile, and the thread   *)
(* budgets of cpu_runtime.py.  Spark may put as many tasks on an executor  *)
(* as its cores allow, wherever the planner thought they would be.         *)
(***************************************************************************)
EXTENDS Nothing, Naturals, FiniteSets, FiniteSetsExt

CONSTANTS
    Host,             \* executors, one per host
    Machine,          \* what an executor may have: [cores, memory]
    TaskCpus,         \* spark.task.cpus, one of the reviewed widths
    ExecutorCores,    \* spark.executor.cores
    PeakRss,          \* what a warm task uses at most
    HeadroomPercent,  \* rss_headroom_fraction
    StabilityPolls,
    MaxPolls          \* polls until the deadline

ASSUME PlacementAssumption ==
    /\ ExecutorCores \in Nat \ {0} /\ TaskCpus \in 1..ExecutorCores /\ PeakRss \in Nat \ {0}
    /\ HeadroomPercent \in 0..99 /\ StabilityPolls \in Nat \ {0, 1} /\ MaxPolls \in Nat
    /\ Machine \subseteq [cores : Nat, memory : Nat] /\ IsFiniteSet(Host)

VARIABLES
    live,      \* host -> what Spark reports of its executor; None: no executor
    driver,    \* discover_active_executors, then the job
    native,    \* host -> threads the Python worker is configured with
    running    \* host -> tasks

plvars == <<live, driver, native, running>>

\* The status store shows an executor before its memory is known.
Registering == [cores |-> ExecutorCores, memory |-> 0]

NoProfile == [pc |-> "poll", previous |-> None, stable |-> 0, polls |-> 0]

PLInit ==
    /\ live = [h \in Host |-> None]
    /\ driver = NoProfile
    /\ native = [h \in Host |-> None]
    /\ running = [h \in Host |-> 0]

Inventory == [h \in {x \in Host : live[x] # None} |-> live[h]]

-----------------------------------------------------------------------------
(* The pool *)

Join(h) ==
    /\ driver.pc = "poll"
    /\ \/ live[h] = None /\ live' = [live EXCEPT ![h] = Registering]
       \/ live[h] = Registering /\ \E m \in Machine : live' = [live EXCEPT ![h] = m]
    /\ UNCHANGED <<driver, native, running>>

Leave(h) ==
    /\ driver.pc = "poll" /\ live[h] # None
    /\ live' = [live EXCEPT ![h] = None]
    /\ UNCHANGED <<driver, native, running>>

-----------------------------------------------------------------------------
(* discover_active_executors *)

Valid(inventory) == \A h \in DOMAIN inventory : inventory[h].memory > 0

\* One more poll that saw the same executors, at least one.
Stable == driver.previous # None /\ Inventory = driver.previous /\ DOMAIN Inventory # {}

PollOnce ==
    /\ driver.pc = "poll" /\ driver.polls < MaxPolls
    /\ \/ /\ ~Valid(Inventory)
          /\ driver' = [driver EXCEPT !.previous = None, !.stable = 0, !.polls = @ + 1]
       \/ /\ Valid(Inventory) /\ Stable /\ driver.stable + 1 >= StabilityPolls
          /\ driver' = [driver EXCEPT !.pc = "warm"]
       \/ /\ Valid(Inventory) /\ Stable /\ driver.stable + 1 < StabilityPolls
          /\ driver' = [driver EXCEPT !.polls = @ + 1, !.stable = @ + 1]
       \/ /\ Valid(Inventory) /\ ~Stable
          /\ driver' = [driver EXCEPT !.previous = Inventory, !.polls = @ + 1, !.stable = 0]
    /\ UNCHANGED <<live, native, running>>

Deadline ==
    /\ driver.pc = "poll" /\ driver.polls = MaxPolls
    /\ driver' = [driver EXCEPT !.pc = "raised"]
    /\ UNCHANGED <<live, native, running>>

-----------------------------------------------------------------------------
(* Thread budgets *)

\* calculate_placement_safe_thread_budget for executors of one width: the tasks
\* that can meet on one of them share its cores.
ThreadsFor(cores, cpus, concurrency) ==
    LET together == Min({concurrency, cores \div cpus})
    IN  Max({1, cores \div together})

\* (slip) the tasks that were planned are the ones that meet.
PlannedConcurrency(cores, cpus, concurrency) == concurrency

NativeConcurrency(cores, cpus, concurrency) == Max({concurrency, 1, cores \div cpus})

Budget(concurrency) ==
    ThreadsFor(ExecutorCores, TaskCpus, NativeConcurrency(ExecutorCores, TaskCpus, concurrency))

\* _apply_thread_budget: a worker process keeps its first native budget and
\* refuses another one.
Applied(h, threads) == native[h] \in {None, threads}

-----------------------------------------------------------------------------
(* The profile *)

CoreSlots(m) == m.cores \div TaskCpus
MemorySlots(m) == ((m.memory * (100 - HeadroomPercent)) \div 100) \div PeakRss

\* The warm-up of the RSS probe runs on every executor, before the plan is made.
WarmUp(h) ==
    /\ driver.pc = "warm" /\ h \in DOMAIN driver.previous /\ native[h] = None
    /\ native' = [native EXCEPT ![h] = Budget(Max({1, ExecutorCores \div TaskCpus}))]
    /\ UNCHANGED <<live, driver, running>>

MeasureRss ==
    /\ driver.pc = "warm" /\ \A h \in DOMAIN driver.previous : native[h] # None
    /\ driver' = [driver EXCEPT !.pc = "profile"]
    /\ UNCHANGED <<live, native, running>>

Reviewed == \A h \in DOMAIN driver.previous : driver.previous[h].cores = ExecutorCores

\* assert_executor_placement_safe: Spark's own limit, the cores, must already
\* keep every executor within its own memory.
PlacementSafe ==
    \A h \in DOMAIN driver.previous :
        LET m == driver.previous[h]
        IN  CoreSlots(m) >= 1 /\ MemorySlots(m) >= 1 /\ CoreSlots(m) <= MemorySlots(m)

\* compute_memory_cap: every executor is counted as the smallest one.
MemoryCap == Cardinality(DOMAIN driver.previous)
             * Min({MemorySlots(driver.previous[h]) : h \in DOMAIN driver.previous})

Width ==
    Min({MemoryCap, MapThenSumSet(LAMBDA h : CoreSlots(driver.previous[h]), DOMAIN driver.previous)})

BuildProfile ==
    /\ driver.pc = "profile" /\ Reviewed /\ PlacementSafe /\ Width >= 1
    /\ driver' = [driver EXCEPT !.pc = "run"]
    /\ UNCHANGED <<live, native, running>>

RejectProfile ==
    /\ driver.pc = "profile" /\ ~(Reviewed /\ PlacementSafe /\ Width >= 1)
    /\ driver' = [driver EXCEPT !.pc = "raised"]
    /\ UNCHANGED <<live, native, running>>

-----------------------------------------------------------------------------
(* The tasks *)

\* conservative_concurrency plans some number of tasks up to the width; Spark
\* starts them on any executor that has task_cpus cores free.
RunTask(h, concurrency) ==
    /\ driver.pc = "run" /\ h \in DOMAIN driver.previous /\ concurrency <= Width
    /\ MapThenSumSet(LAMBDA x : running[x], Host) < concurrency
    /\ running[h] < CoreSlots(driver.previous[h])
    /\ IF Applied(h, Budget(concurrency))
       THEN /\ running' = [running EXCEPT ![h] = @ + 1]
            /\ native' = [native EXCEPT ![h] = Budget(concurrency)]
            /\ UNCHANGED driver
       ELSE driver' = [driver EXCEPT !.pc = "conflict"] /\ UNCHANGED <<running, native>>
    /\ UNCHANGED live

EndTask(h) ==
    /\ running[h] > 0
    /\ running' = [running EXCEPT ![h] = @ - 1]
    /\ UNCHANGED <<live, driver, native>>

PLNext ==
    \/ PollOnce \/ Deadline \/ MeasureRss \/ BuildProfile \/ RejectProfile
    \/ \E h \in Host : Join(h) \/ Leave(h) \/ WarmUp(h) \/ EndTask(h)
    \/ \E h \in Host, concurrency \in 1..(Cardinality(Host) * ExecutorCores) : RunTask(h, concurrency)

PLSpec == PLInit /\ [][PLNext]_plvars

-----------------------------------------------------------------------------
(* Properties *)

\* The tasks that Spark lets run on an executor of the inventory never use more
\* threads than it has cores, nor more memory than headroom leaves, wherever
\* Spark puts them; and no task is refused its thread budget because the
\* warm-up of the RSS probe had configured another one in the same worker.
RunningTasksFitTheirExecutor ==
    /\ driver.pc # "conflict"
    /\ \A h \in Host : running[h] > 0 =>
         LET m == driver.previous[h]
         IN  /\ running[h] * native[h] <= m.cores
             /\ running[h] * PeakRss * 100 <= m.memory * (100 - HeadroomPercent)

-----------------------------------------------------------------------------
(* The inductive invariant behind it *)

Reports == Machine \cup {Registering}
Inventories == UNION {[hosts -> Reports] : hosts \in SUBSET Host}

PLTypeOK ==
    /\ live \in [Host -> Reports \cup {None}]
    /\ driver \in [pc : {"poll", "warm", "profile", "run", "conflict", "raised"},
                   previous : Inventories \cup {None}, stable : Nat, polls : Nat]
    /\ native \in [Host -> Nat \cup {None}]
    /\ running \in [Host -> Nat]

\* The budget of any number of planned tasks is the one of a full executor.
FullBudget == Budget(1)

\* What runs, runs under the profile of an inventory that was reviewed, and
\* within the slots of its executor.
PLInv ==
    /\ PLTypeOK
    /\ driver.pc \in {"warm", "profile", "run"} => driver.previous \in Inventories
    /\ driver.pc = "run" => Reviewed /\ PlacementSafe
    /\ driver.pc # "conflict"
    /\ \A h \in Host : native[h] \in {None, FullBudget}
    /\ \A h \in Host : running[h] > 0 =>
          /\ driver.pc = "run" /\ h \in DOMAIN driver.previous
          /\ native[h] = FullBudget
          /\ running[h] <= CoreSlots(driver.previous[h])
=============================================================================
