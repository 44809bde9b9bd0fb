------------------------ MODULE EventsAndGoldProofs ------------------------
(***************************************************************************)
(* Proofs about the two ends of the tables: the event inbox, by which the  *)
(* commands of workers reach them, for any works, executions and commands, *)
(* and the gold job, what its checkpoints, its signals and the rows it     *)
(* saves say of them, for any outputs, dates and semantic models.          *)
(***************************************************************************)
EXTENDS Gold, GoldRows, EventInbox, SequenceTheorems, FiniteSetTheorems, WellFoundedInduction, TLAPS

(* Least and largest elements *)

\* A set of natural numbers has a least element.
LEMMA LeastNatural ==
    ASSUME NEW S \in SUBSET Nat, S # {}
    PROVE  \E x \in S : \A y \in S : x <= y
  <1> DEFINE R == {p \in Nat \X Nat : p[1] < p[2]}
  <1>1. IsWellFoundedOn(R, Nat)
    BY NatLessThanWellFounded DEF OpToRel
  <1> HIDE DEF R
  <1>2. PICK x \in S : \A y \in S : <<y, x>> \notin R
    BY <1>1, WFMin
  <1>3. ASSUME NEW y \in S PROVE x <= y
    <2>1. ~(y < x)
      BY <1>2 DEF R
    <2> QED BY <2>1
  <1> QED BY <1>3

\* Max of a bounded set of natural numbers is its largest element.
LEMMA MaxOfBounded ==
    ASSUME NEW S \in SUBSET Nat, S # {}, NEW m \in Nat, \A x \in S : x <= m
    PROVE  Max(S) \in S /\ \A x \in S : x <= Max(S)
  <1> DEFINE T == {m - x : x \in S}
  <1>1. T \in SUBSET Nat /\ T # {}
    <2>1. \A x \in S : m - x \in Nat
      OBVIOUS
    <2> QED BY <2>1
  <1>2. PICK t \in T : \A u \in T : t <= u
    BY <1>1, LeastNatural
  <1>3. PICK x \in S : t = m - x
    OBVIOUS
  <1>4. ASSUME NEW y \in S PROVE x >= y
    <2>1. m - x <= m - y
      BY <1>2, <1>3
    <2> QED BY <2>1
  <1>5. Max(S) \in S /\ \A y \in S : Max(S) >= y
    BY <1>4 DEF Max
  <1> QED BY <1>5

(* What a change of the store leaves known *)

\* A publication takes a number above all earlier ones, a withdrawal none.
LEMMA PastStaysPast ==
    ASSUME NEW s \in Flow, NEW t \in Flow, NEW n \in Nat, NEW m \in Nat, n <= m,
           \A o \in Output : t[o] = s[o] \/ t[o] = 0 \/ t[o] > n,
           NEW h \in Flow, Past(h, s, n)
    PROVE  Past(h, t, m)
  <1>1. ASSUME NEW o \in Output, NEW p \in Output, t[o] > 0, t[o] <= h[p]
        PROVE  h[o] = t[o]
    <2>1. h[p] <= n /\ h[p] \in Nat /\ t[o] \in Nat
      BY DEF Past, Flow
    <2>2. t[o] = s[o]
      BY <1>1, <2>1
    <2> QED BY <1>1, <2>2 DEF Past
  <1>2. \A o \in Output : h[o] <= m
    BY DEF Past, Flow
  <1> QED BY <1>1, <1>2 DEF Past

\* A run under way knows nothing of a store that has changed since it read the
\* operations source, and keeps what it knows of the tables.
LEMMA StoreStep ==
    ASSUME GInv, seq' \in Flow, last' \in Nat, last <= last', changes' = changes + 1,
           \A o \in Output : /\ seq'[o] = seq[o] \/ seq'[o] = 0 \/ seq'[o] > last
                             /\ seq'[o] <= last',
           UNCHANGED <<gold, check, outbox, job, refresh, models, torn>>
    PROVE  GInv'
  <1>1. /\ GTypeOK /\ Dated /\ JobKnows
        /\ seq \in Flow /\ last \in Nat /\ changes \in Nat
    BY DEF GInv, GTypeOK, StoreType
  <1>2. GTypeOK'
    <2>1. StoreType'
      BY <1>1 DEF StoreType
    <2>2. TableType'
      BY <1>1 DEF GTypeOK, TableType
    <2>3. JobType'
      BY <1>1 DEF GTypeOK, JobType
    <2>4. SignalType'
      BY <1>1 DEF GTypeOK, SignalType
    <2> QED BY <2>1, <2>2, <2>3, <2>4 DEF GTypeOK
  <1>3. \A h \in Flow : Past(h, seq, last) => Past(h, seq', last')
    BY <1>1, PastStaysPast
  <1>4. ASSUME check.facts # None
        PROVE  /\ Past(check.facts.flow, seq', last')
               /\ check.facts.operations <= changes' /\ check.facts.operations # changes'
    <2>1. check.facts \in FactsRow
      BY <1>1, <1>4 DEF GTypeOK, TableType
    <2>2. /\ check.facts.flow \in Flow /\ check.facts.operations \in Nat
          /\ Past(check.facts.flow, seq, last) /\ check.facts.operations <= changes
      BY <1>1, <1>4, <2>1 DEF FactsRow, Dated
    <2> QED BY <1>1, <1>3, <2>2
  <1>5. Dated'
    BY <1>1, <1>4 DEF Dated
  <1>6. DimsGood'
    BY <1>4 DEF DimsGood, SavedTogether
  <1>7. JobKnows'
    <2>1. job.pc # "idle" => job.flow \in Flow /\ Past(job.flow, seq', last')
      BY <1>1, <1>3 DEF JobKnows
    <2>2. job.pc \in Building \cup Ending =>
             /\ job.operations \in Nat /\ job.operations <= changes'
             /\ job.operations # changes'
      BY <1>1 DEF JobKnows
    <2>3. BuildKnows'
      BY <1>1, <2>2 DEF JobKnows, BuildKnows, Building, Steady, Written
    <2>4. EndKnows'
      BY <1>1, <2>2 DEF JobKnows, EndKnows, Ending, Steady
    <2> QED BY <2>1, <2>2, <2>3, <2>4 DEF JobKnows
  <1>8. FactsGood' /\ SignalsKnown' /\ AcknowledgedSignalsWereSeen' /\ SavesSignal'
    BY DEF GInv, FactsGood, SignalsKnown, Seen, AcknowledgedSignalsWereSeen, SavesSignal,
           SavedTogether
  <1> QED BY <1>2, <1>5, <1>6, <1>7, <1>8 DEF GInv

LEMMA StoreSteps ==
    ASSUME GInv, Change \/ \E o \in Output : Publish(o) \/ Withdraw(o)
    PROVE  GInv'
  <1>1. /\ seq \in Flow /\ last \in Nat /\ changes \in Nat
        /\ \A o \in Output : seq[o] <= last
    BY DEF GInv, GTypeOK, StoreType, Dated
  <1>2. ASSUME NEW o \in Output, Publish(o)
        PROVE  GInv'
    <2>1. /\ seq' = [seq EXCEPT ![o] = last + 1] /\ last' = last + 1 /\ changes' = changes + 1
          /\ UNCHANGED <<gold, check, outbox, job, refresh, models, torn>>
      BY <1>2 DEF Publish
    <2>2. /\ seq' \in Flow /\ last' \in Nat /\ last <= last'
          /\ \A p \in Output : seq'[p] = seq[p] \/ seq'[p] > last
          /\ \A p \in Output : seq'[p] <= last'
      BY <1>1, <2>1 DEF Flow
    <2> QED BY <2>1, <2>2, StoreStep
  <1>3. ASSUME NEW o \in Output, Withdraw(o)
        PROVE  GInv'
    <2>1. /\ seq' = [seq EXCEPT ![o] = 0] /\ last' = last /\ changes' = changes + 1
          /\ UNCHANGED <<gold, check, outbox, job, refresh, models, torn>>
      BY <1>3 DEF Withdraw
    <2>2. /\ seq' \in Flow /\ last' \in Nat /\ last <= last'
          /\ \A p \in Output : seq'[p] = seq[p] \/ seq'[p] = 0
          /\ \A p \in Output : seq'[p] <= last'
      BY <1>1, <2>1 DEF Flow
    <2> QED BY <2>1, <2>2, StoreStep
  <1>4. CASE Change
    BY <1>1, <1>4, StoreStep DEF Change
  <1> QED BY <1>2, <1>3, <1>4

(* What a plan leaves out *)

\* A date that is not planned shows the outputs as they are: the ones it has
\* rows of were in force at the last build, and are in the table as they were.
LEMMA PlanCovers ==
    ASSUME NEW table \in [Date -> SUBSET (Output \X Nat)],
           \A c \in Date : \A row \in table[c] : c \in DatesOf[row[1]],
           NEW s \in Flow, NEW n \in Nat, NEW full \in BOOLEAN, NEW flow, NEW recent,
           ~full => /\ check.facts.flow \in Flow /\ Past(check.facts.flow, s, n)
                    /\ \A c \in Date : Shows(table, check.facts.flow, c),
           NEW d \in Date, d \notin UNION {DatesOf[o] : o \in Planned(flow, s, full, recent)}
    PROVE  Shows(table, s, d)
  <1> DEFINE g == check.facts.flow
             prior == Max({0} \cup {g[o] : o \in Output})
  <1>1. CASE full
    <2>1. \A o \in Output : s[o] > 0 => d \notin DatesOf[o]
      BY <1>1 DEF Planned, Visible
    <2>2. RowsOf(s, d) = {}
      BY <2>1 DEF RowsOf, Visible
    <2>3. \A row \in table[d] : row[1] \in Output /\ d \in DatesOf[row[1]]
      OBVIOUS
    <2> QED BY <2>1, <2>2, <2>3 DEF Shows
  <1>2. CASE ~full
    <2>1. g \in Flow /\ Past(g, s, n) /\ Shows(table, g, d)
      BY <1>2
    <2>2. prior \in {0} \cup {g[o] : o \in Output}
      <3> DEFINE S == {0} \cup {g[o] : o \in Output}
      <3>1. S \in SUBSET Nat /\ S # {} /\ \A x \in S : x <= n
        BY <2>1 DEF Flow, Past
      <3> HIDE DEF S
      <3>2. Max(S) \in S
        BY <3>1, MaxOfBounded
      <3> QED BY <3>2 DEF S
    <2>3. ASSUME NEW o \in Output, s[o] > 0, d \in DatesOf[o]
          PROVE  g[o] = s[o]
      <3>1. o \in Visible(s) /\ o \notin Planned(flow, s, full, recent)
        BY <2>3 DEF Visible
      <3>2. ~(s[o] > prior)
        BY <3>1 DEF Planned
      <3> HIDE DEF prior, g
      <3>3. s[o] \in Nat /\ \A p \in Output : g[p] \in Nat
        BY <2>1 DEF Flow
      <3>4. PICK p \in Output : prior = g[p]
        BY <2>2, <2>3, <3>2, <3>3
      <3> QED BY <2>1, <2>3, <3>2, <3>3, <3>4 DEF Past
    <2> HIDE DEF g, prior
    <2>4. ASSUME NEW row \in table[d], s[row[1]] > 0
          PROVE  row \in RowsOf(s, d)
      <3>1. row[1] \in Output /\ d \in DatesOf[row[1]]
        OBVIOUS
      <3>2. g[row[1]] = s[row[1]]
        BY <2>3, <2>4, <3>1
      <3>3. row \in RowsOf(g, d)
        BY <2>1, <2>4, <3>2 DEF Shows
      <3>4. PICK o \in Output : d \in DatesOf[o] /\ row = <<o, g[o]>>
        BY <3>3 DEF RowsOf, Visible
      <3>5. row = <<o, s[o]>> /\ s[o] > 0
        BY <2>4, <3>2, <3>4
      <3> QED BY <3>4, <3>5 DEF RowsOf, Visible
    <2>5. ASSUME NEW row \in RowsOf(s, d)
          PROVE  row \in table[d] /\ s[row[1]] > 0
      <3>1. PICK o \in Output : s[o] > 0 /\ d \in DatesOf[o] /\ row = <<o, s[o]>>
        BY DEF RowsOf, Visible
      <3>2. g[o] = s[o]
        BY <2>3, <3>1
      <3>3. row \in RowsOf(g, d)
        BY <3>1, <3>2 DEF RowsOf, Visible
      <3> QED BY <2>1, <3>1, <3>3 DEF Shows
    <2> QED BY <2>4, <2>5 DEF Shows
  <1> QED BY <1>1, <1>2

(* What a run reads *)

\* A read changes the run and nothing else, so only what the run knows is new.
LEMMA ReadStep ==
    ASSUME GInv, Reads, JobType', JobKnows', job.pc # "enqueue"
    PROVE  GInv'
  <1>1. GTypeOK'
    <2>1. StoreType' /\ TableType' /\ SignalType'
      BY DEF GInv, GTypeOK, Reads, store, StoreType, TableType, SignalType
    <2> QED BY <2>1 DEF GTypeOK
  <1>2. Dated' /\ FactsGood' /\ DimsGood' /\ SignalsKnown' /\ AcknowledgedSignalsWereSeen'
    BY DEF GInv, Reads, store, Dated, FactsGood, DimsGood, SavedTogether, SignalsKnown, Seen,
           AcknowledgedSignalsWereSeen
  <1>3. SavesSignal'
    BY DEF GInv, Reads, SavesSignal, SavedTogether
  <1> QED BY <1>1, <1>2, <1>3 DEF GInv

\* The run notes the publications it starts from.
LEMMA StartKnows ==
    ASSUME GInv, NEW force \in BOOLEAN, Start(force)
    PROVE  GInv'
  <1>1. seq \in Flow /\ last \in Nat /\ \A o \in Output : seq[o] <= last
    BY DEF GInv, GTypeOK, StoreType, Dated
  <1>2. Past(seq, seq, last)
    BY <1>1 DEF Past
  <1>3. job' = [pc |-> "operations source", force |-> force, flow |-> seq, operations |-> None,
                facts |-> FALSE, full |-> FALSE, dates |-> {}, rows |-> None, control |-> 0,
                dims |-> FALSE, source |-> None, complete |-> FALSE]
    BY DEF Start, Idle
  <1>4. JobType'
    BY <1>1, <1>3 DEF JobType
  <1>5. JobKnows'
    BY <1>1, <1>2, <1>3 DEF JobKnows, BuildKnows, EndKnows, Building, Ending, Start, Reads, store
  <1> QED BY <1>4, <1>5, ReadStep DEF Start

\* A run that is not idle read publications that are past, and no number of
\* changes that has not been.
LEMMA RunFacts ==
    ASSUME GInv
    PROVE  /\ StoreType /\ TableType /\ JobType /\ SignalType
           /\ seq \in Flow /\ changes \in Nat
           /\ job.pc # "idle" => job.flow \in Flow /\ Past(job.flow, seq, last)
           /\ job.pc \in Building \cup Ending => job.operations \in Nat /\ job.operations <= changes
           /\ BuildKnows /\ EndKnows
  BY DEF GInv, GTypeOK, StoreType, JobKnows

LEMMA FactsSourceKnows ==
    ASSUME GInv, FactsSource
    PROVE  GInv'
  <1> DEFINE noop == ~job.force /\ FactsCurrent(job.flow, changes)
             facts == ~noop
             full == ~noop /\ (job.force \/ check.facts = None \/ check.facts.version # gold.version)
             pc == IF noop THEN "dimensions source" ELSE "plan"
  <1>1. /\ job' = [job EXCEPT !.pc = pc, !.operations = changes, !.facts = facts, !.full = full]
        /\ job.pc = "operations source" /\ Reads
    BY DEF FactsSource
  <1>2. facts \in BOOLEAN /\ full \in BOOLEAN /\ pc \in {"dimensions source", "plan"}
    OBVIOUS
  <1>3. /\ ~facts => pc = "dimensions source" /\ check.facts # None
                   /\ check.facts.operations = changes
        /\ facts => pc = "plan"
        /\ facts /\ ~full => check.facts # None /\ check.facts.version = gold.version
    BY DEF FactsCurrent
  <1> HIDE DEF noop, facts, full, pc
  <1>4. JobType'
    <2>1. JobType /\ changes \in Nat
      BY RunFacts
    <2> QED BY <1>1, <1>2, <2>1 DEF JobType, Building, Ending
  <1>5. /\ job'.pc = pc /\ job'.flow = job.flow /\ job'.operations = changes
        /\ job'.facts = facts /\ job'.full = full
    BY <1>1, RunFacts DEF JobType
  <1>6. JobKnows'
    <2>1. job'.flow \in Flow /\ Past(job'.flow, seq, last)
      BY <1>1, <1>5, RunFacts
    <2>2. BuildKnows'
      BY <1>1, <1>2, <1>3, <1>5 DEF BuildKnows, Building, Ending, Reads, store, Steady, Written
    <2>3. EndKnows'
      BY <1>1, <1>2, <1>3, <1>5 DEF EndKnows, Ending, Reads, store
    <2>4. changes \in Nat /\ job'.operations <= changes
      BY <1>5, RunFacts
    <2> QED BY <1>1, <1>5, <2>1, <2>2, <2>3, <2>4 DEF JobKnows, Reads, store
  <1> QED BY <1>1, <1>4, <1>6, ReadStep


LEMMA PlanSourceKnows ==
    ASSUME GInv, PlanSource
    PROVE  GInv'
  <1>1. /\ JobType /\ seq \in Flow /\ BuildKnows
        /\ job.flow \in Flow /\ Past(job.flow, seq, last)
        /\ job.operations \in Nat /\ job.operations <= changes
    BY RunFacts DEF PlanSource, Building
  <1>2. JobType'
    BY <1>1 DEF PlanSource, JobType, Building, Ending
  <1>3. /\ job'.pc = "plan outputs" /\ job'.source = seq /\ job'.flow = job.flow
        /\ job'.operations = job.operations /\ job'.facts = job.facts /\ job'.full = job.full
    BY <1>1 DEF PlanSource, JobType
  <1>4. BuildKnows' /\ EndKnows'
    BY <1>1, <1>3 DEF PlanSource, BuildKnows, EndKnows, Building, Ending, Reads, store
  <1>5. JobKnows'
    BY <1>1, <1>3, <1>4 DEF JobKnows, PlanSource, Reads, store
  <1> QED BY <1>2, <1>5, ReadStep DEF PlanSource

LEMMA PlanOutputsKnows ==
    ASSUME GInv, NEW recent \in 0..MaxSeq, NEW other \in SUBSET Date, PlanOutputs(recent, other)
    PROVE  GInv'
  <1> DEFINE planned == Planned(job.source, seq, job.full, recent)
             dates == other \cup UNION {DatesOf[o] : o \in planned}
  <1>1. /\ JobType /\ StoreType /\ TableType /\ BuildKnows
        /\ job.flow \in Flow /\ Past(job.flow, seq, last)
        /\ job.operations \in Nat /\ job.operations <= changes
    BY RunFacts DEF PlanOutputs, Building
  <1>2. /\ job' = [job EXCEPT !.pc = "read outputs", !.source = None, !.full = FALSE,
                              !.dates = dates]
        /\ job.pc = "plan outputs" /\ Reads
    BY DEF PlanOutputs
  <1>3. dates \in SUBSET Date
    <2>1. planned \subseteq Output
      BY DEF Planned, Visible
    <2> HIDE DEF planned
    <2> QED BY <2>1, GoldAssumption
  <1>4. ASSUME NEW d \in Date \ dates
        PROVE  Shows(gold.flow, seq, d)
    <2>1. gold.flow \in [Date -> SUBSET (Output \X Nat)] /\ job.full \in BOOLEAN
      BY <1>1 DEF TableType, JobType
    <2>2. \A c \in Date : \A row \in gold.flow[c] : c \in DatesOf[row[1]]
      BY DEF GInv, Dated
    <2>3. ~job.full => /\ check.facts.flow \in Flow /\ Past(check.facts.flow, seq, last)
                       /\ \A c \in Date : Shows(gold.flow, check.facts.flow, c)
      <3>1. ~job.full => check.facts # None /\ check.facts.version = gold.version
        BY <1>1, <1>2 DEF BuildKnows
      <3>2. check.facts # None => check.facts \in FactsRow
        BY <1>1 DEF TableType
      <3> QED BY <3>1, <3>2 DEF GInv, Dated, FactsGood, FactsRow
    <2> QED BY <1>1, <2>1, <2>2, <2>3, PlanCovers DEF StoreType
  <1> HIDE DEF dates
  <1>5. JobType'
    BY <1>1, <1>2, <1>3 DEF JobType, Building, Ending
  <1>6. /\ job'.pc = "read outputs" /\ job'.flow = job.flow /\ job'.dates = dates
        /\ job'.operations = job.operations /\ job'.facts = job.facts
    BY <1>1, <1>2 DEF JobType
  <1>7. BuildKnows' /\ EndKnows'
    BY <1>1, <1>2, <1>4, <1>6 DEF BuildKnows, EndKnows, Building, Ending, Reads, store
  <1>8. JobKnows'
    BY <1>1, <1>2, <1>6, <1>7 DEF JobKnows, Reads, store
  <1> QED BY <1>2, <1>5, <1>8, ReadStep

LEMMA ReadOutputsKnows ==
    ASSUME GInv, ReadOutputs
    PROVE  GInv'
  <1>1. /\ JobType /\ seq \in Flow /\ BuildKnows
        /\ job.flow \in Flow /\ Past(job.flow, seq, last)
        /\ job.operations \in Nat /\ job.operations <= changes
    BY RunFacts DEF ReadOutputs, Building
  <1>2. JobType'
    BY <1>1 DEF ReadOutputs, JobType, Building, Ending
  <1>3. /\ job'.pc = "read control" /\ job'.rows = seq /\ job'.flow = job.flow
        /\ job'.operations = job.operations /\ job'.facts = job.facts /\ job'.dates = job.dates
    BY <1>1 DEF ReadOutputs, JobType
  <1>4. BuildKnows' /\ EndKnows'
    BY <1>1, <1>3 DEF ReadOutputs, BuildKnows, EndKnows, Building, Ending, Steady, Reads, store
  <1>5. JobKnows'
    BY <1>1, <1>3, <1>4 DEF JobKnows, ReadOutputs, Reads, store
  <1> QED BY <1>2, <1>5, ReadStep DEF ReadOutputs

LEMMA ReadControlKnows ==
    ASSUME GInv, ReadControl
    PROVE  GInv'
  <1>1. /\ JobType /\ seq \in Flow /\ changes \in Nat /\ BuildKnows
        /\ job.flow \in Flow /\ Past(job.flow, seq, last)
        /\ job.operations \in Nat /\ job.operations <= changes
    BY RunFacts DEF ReadControl, Building
  <1>2. JobType'
    BY <1>1 DEF ReadControl, JobType, Building, Ending
  <1>3. /\ job'.pc = "partitions" /\ job'.rows = job.rows /\ job'.flow = job.flow
        /\ job'.operations = job.operations /\ job'.facts = job.facts /\ job'.dates = job.dates
        /\ job'.control = changes
    BY <1>1 DEF ReadControl, JobType
  <1>4. BuildKnows' /\ EndKnows'
    BY <1>1, <1>3 DEF ReadControl, BuildKnows, EndKnows, Building, Ending, Steady, Reads, store
  <1>5. JobKnows'
    BY <1>1, <1>3, <1>4 DEF JobKnows, ReadControl, Reads, store
  <1> QED BY <1>2, <1>5, ReadStep DEF ReadControl


LEMMA LatestFlowKnows ==
    ASSUME GInv, LatestFlow
    PROVE  GInv'
  <1> DEFINE complete == seq = job.flow
  <1>1. /\ JobType /\ seq \in Flow /\ BuildKnows
        /\ job.flow \in Flow /\ Past(job.flow, seq, last)
        /\ job.operations \in Nat /\ job.operations <= changes
    BY RunFacts DEF LatestFlow, Building
  <1>2. /\ job' = [job EXCEPT !.pc = "latest operations", !.complete = complete]
        /\ job.pc = "latest flow" /\ Reads /\ complete \in BOOLEAN
        /\ complete => job.flow = seq
    BY DEF LatestFlow
  <1> HIDE DEF complete
  <1>3. JobType'
    BY <1>1, <1>2 DEF JobType, Building, Ending
  <1>4. /\ job'.pc = "latest operations" /\ job'.complete = complete /\ job'.flow = job.flow
        /\ job'.operations = job.operations /\ job'.facts = job.facts
    BY <1>1, <1>2 DEF JobType
  <1>5. BuildKnows' /\ EndKnows'
    BY <1>1, <1>2, <1>4
       DEF BuildKnows, EndKnows, Building, Ending, Steady, Written, Reads, store
  <1>6. JobKnows'
    BY <1>1, <1>2, <1>4, <1>5 DEF JobKnows, Reads, store
  <1> QED BY <1>2, <1>3, <1>6, ReadStep

\* What the run compares last, it read first: nothing has changed in between.
LEMMA LatestOperationsKnows ==
    ASSUME GInv, LatestOperations
    PROVE  GInv'
  <1> DEFINE complete == job.complete /\ changes = job.operations
  <1>1. /\ JobType /\ seq \in Flow /\ BuildKnows
        /\ job.flow \in Flow /\ Past(job.flow, seq, last)
        /\ job.operations \in Nat /\ job.operations <= changes
    BY RunFacts DEF LatestOperations, Building
  <1>2. /\ job' = [job EXCEPT !.pc = "dimensions source", !.complete = complete]
        /\ job.pc = "latest operations" /\ Reads
    BY DEF LatestOperations
  <1>3. complete \in BOOLEAN /\ (complete => job.complete /\ Steady)
    BY <1>1 DEF JobType, Steady
  <1>4. job.facts
    BY <1>1, <1>2 DEF BuildKnows, Building
  <1>5. complete => /\ \A d \in Date : Shows(gold.flow, job.flow, d)
                    /\ gold.operations = job.operations
    BY <1>1, <1>2, <1>3 DEF BuildKnows, Steady
  <1> HIDE DEF complete
  <1>6. JobType'
    BY <1>1, <1>2, <1>3 DEF JobType, Building, Ending
  <1>7. /\ job'.pc = "dimensions source" /\ job'.complete = complete /\ job'.flow = job.flow
        /\ job'.operations = job.operations /\ job'.facts = job.facts
    BY <1>1, <1>2 DEF JobType
  <1>8. BuildKnows' /\ EndKnows'
    BY <1>1, <1>2, <1>4, <1>5, <1>7
       DEF BuildKnows, EndKnows, Building, Ending, Written, Reads, store
  <1>9. JobKnows'
    BY <1>1, <1>2, <1>7, <1>8 DEF JobKnows, Ending, Building, Reads, store
  <1> QED BY <1>2, <1>6, <1>9, ReadStep

\* Dimensions that are found current belong to facts nobody has written since.
LEMMA DimensionsSourceKnows ==
    ASSUME GInv, DimensionsSource
    PROVE  GInv'
  <1> DEFINE noop == ~job.force /\ DimensionsCurrent(seq)
             dims == ~noop
             pc == IF noop THEN "save" ELSE "dimensions outputs"
  <1>1. /\ JobType /\ seq \in Flow /\ BuildKnows /\ EndKnows
        /\ job.flow \in Flow /\ Past(job.flow, seq, last)
        /\ job.operations \in Nat /\ job.operations <= changes
    BY RunFacts DEF DimensionsSource, Ending
  <1>2. /\ job' = [job EXCEPT !.pc = pc, !.dims = dims, !.source = seq, !.force = FALSE]
        /\ job.pc = "dimensions source" /\ Reads
    BY DEF DimensionsSource
  <1>3. /\ dims \in BOOLEAN
        /\ ~dims => pc = "save"
        /\ dims => pc = "dimensions outputs"
    OBVIOUS
  <1> HIDE DEF noop, dims, pc
  <1>4. JobType'
    BY <1>1, <1>2, <1>3 DEF JobType, Building, Ending
  <1>5. /\ job'.pc = pc /\ job'.dims = dims /\ job'.source = seq /\ job'.flow = job.flow
        /\ job'.operations = job.operations /\ job'.facts = job.facts
        /\ job'.complete = job.complete
    BY <1>1, <1>2 DEF JobType
  <1>6. BuildKnows'
    BY <1>1, <1>2, <1>3, <1>5 DEF BuildKnows, Building, Ending, Written, Reads, store
  <1>7. EndKnows'
    BY <1>1, <1>2, <1>3, <1>5 DEF EndKnows, Ending, Reads, store
  <1>8. JobKnows'
    BY <1>1, <1>2, <1>3, <1>5, <1>6, <1>7 DEF JobKnows, Ending, Building, Reads, store
  <1> QED BY <1>2, <1>4, <1>8, ReadStep

LEMMA DimensionsOutputsKnows ==
    ASSUME GInv, DimensionsOutputs
    PROVE  GInv'
  <1>1. /\ JobType /\ seq \in Flow /\ BuildKnows /\ EndKnows
        /\ job.flow \in Flow /\ Past(job.flow, seq, last)
        /\ job.operations \in Nat /\ job.operations <= changes
    BY RunFacts DEF DimensionsOutputs, Ending
  <1>2. JobType'
    BY <1>1 DEF DimensionsOutputs, JobType, Building, Ending
  <1>3. /\ job'.pc = "replace dimensions" /\ job'.rows = seq /\ job'.source = job.source
        /\ job'.flow = job.flow /\ job'.operations = job.operations /\ job'.facts = job.facts
        /\ job'.complete = job.complete
    BY <1>1 DEF DimensionsOutputs, JobType
  <1>4. BuildKnows'
    BY <1>1, <1>3 DEF DimensionsOutputs, BuildKnows, Building, Ending, Written, Reads, store
  <1>5. EndKnows'
    BY <1>1, <1>3 DEF DimensionsOutputs, EndKnows, Ending, Steady, Reads, store
  <1>6. JobKnows'
    BY <1>1, <1>3, <1>4, <1>5 DEF JobKnows, Ending, DimensionsOutputs, Reads, store
  <1> QED BY <1>2, <1>6, ReadStep DEF DimensionsOutputs

(* What a run writes *)

\* A checkpoint is of no later version than the tables are.
LEMMA CheckFacts ==
    ASSUME GInv
    PROVE  /\ check.facts # None =>
                 /\ check.facts \in FactsRow /\ check.facts.version \in Nat
                 /\ check.facts.version <= gold.version
           /\ check.dims # None =>
                 /\ check.dims \in DimsRow /\ check.dims.facts \in Nat /\ check.dims.version \in Nat
                 /\ check.dims.facts <= gold.version /\ check.dims.version <= gold.dimsVersion
           /\ gold.version \in Nat /\ gold.dimsVersion \in Nat
  BY DEF GInv, GTypeOK, TableType, Dated, FactsRow, DimsRow

\* A signal or a model is of no later version than the tables are.
LEMMA SignalFacts ==
    ASSUME GInv
    PROVE  /\ SignalType /\ SignalsKnown
           /\ \A row \in outbox \cup refresh.pending :
                 row.version \in Nat /\ row.dimsVersion \in Nat
           /\ \A m \in Model : models[m].version \in Nat /\ models[m].dimsVersion \in Nat
  BY DEF GInv, GTypeOK, SignalType, SignalRow

\* A write of the fact tables leaves every checkpoint behind.
LEMMA FactsWrite ==
    ASSUME GInv, UNCHANGED <<store, check, outbox, refresh, models, torn>>,
           gold'.version = gold.version + 1, gold'.dimsVersion = gold.dimsVersion,
           gold' \in [flow : [Date -> SUBSET (Output \X Nat)], operations : Nat, version : Nat,
                      dims : Flow, dimsVersion : Nat],
           \A d \in Date : \A row \in gold'.flow[d] : d \in DatesOf[row[1]],
           JobType', JobKnows'
    PROVE  GInv'
  <1>1. GTypeOK'
    <2>1. StoreType' /\ TableType'
      BY DEF GInv, GTypeOK, store, StoreType, TableType
    <2>2. SignalType'
      BY DEF GInv, GTypeOK, SignalType
    <2> QED BY <2>1, <2>2 DEF GTypeOK
  <1>2. /\ check.facts # None => /\ check.facts.version <= gold'.version
                                 /\ check.facts.version # gold'.version
        /\ check.dims # None => check.dims.facts <= gold'.version
    BY CheckFacts
  <1>3. Dated'
    BY <1>2 DEF GInv, Dated, store
  <1>4. FactsGood' /\ DimsGood' /\ SavesSignal'
    BY <1>2 DEF FactsGood, DimsGood, SavesSignal, SavedTogether
  <1>5. SignalsKnown'
    BY SignalFacts, CheckFacts DEF SignalsKnown, Seen
  <1>6. AcknowledgedSignalsWereSeen'
    BY DEF GInv, AcknowledgedSignalsWereSeen
  <1> QED BY <1>1, <1>3, <1>4, <1>5, <1>6 DEF GInv

LEMMA ReplacePartitionKnows ==
    ASSUME GInv, ReplacePartition
    PROVE  GInv'
  <1> DEFINE m == Min(job.dates)
             rows == RowsOf(job.rows, m)
  <1>1. /\ JobType /\ TableType /\ BuildKnows
        /\ job.flow \in Flow /\ Past(job.flow, seq, last)
        /\ job.operations \in Nat /\ job.operations <= changes
    BY RunFacts DEF ReplacePartition, Building
  <1>2. /\ gold' = [gold EXCEPT !.flow[m] = rows, !.version = gold.version + 1]
        /\ job' = [job EXCEPT !.dates = job.dates \ {m}]
        /\ job.pc = "partitions"
        /\ UNCHANGED <<store, check, outbox, refresh, models, torn>>
    BY DEF ReplacePartition
  <1>3. job.rows \in Flow
    BY <1>1, <1>2 DEF BuildKnows
  <1>4. rows \in SUBSET (Output \X Nat) /\ \A row \in rows : m \in DatesOf[row[1]]
    BY <1>3 DEF RowsOf, Visible, Flow
  <1>5. Steady => job.rows = seq /\ \A row \in rows : seq[row[1]] > 0
    <2>1. Steady => job.rows = seq
      BY <1>1, <1>2 DEF BuildKnows
    <2>2. \A row \in rows : job.rows[row[1]] > 0
      BY DEF RowsOf, Visible
    <2> QED BY <2>1, <2>2
  <1>6. rows = RowsOf(job.rows, m)
    OBVIOUS
  <1> HIDE DEF m, rows
  <1>7. /\ gold' \in [flow : [Date -> SUBSET (Output \X Nat)], operations : Nat, version : Nat,
                      dims : Flow, dimsVersion : Nat]
        /\ gold'.version = gold.version + 1 /\ gold'.dimsVersion = gold.dimsVersion
        /\ gold'.flow = [gold.flow EXCEPT ![m] = rows]
    <2> DEFINE table == [gold.flow EXCEPT ![m] = rows]
               version == gold.version + 1
    <2>1. gold' = [gold EXCEPT !.flow = table, !.version = version]
      BY <1>2
    <2>2. gold.flow \in [Date -> SUBSET (Output \X Nat)] /\ gold.version \in Nat
      BY <1>1 DEF TableType
    <2>3. table \in [Date -> SUBSET (Output \X Nat)] /\ version \in Nat
      <3> DEFINE Rows == SUBSET (Output \X Nat)
      <3>1. gold.flow \in [Date -> Rows] /\ rows \in Rows
        BY <1>4, <2>2
      <3> HIDE DEF Rows
      <3>2. table \in [Date -> Rows]
        BY <3>1
      <3> QED BY <2>2, <3>2 DEF Rows
    <2> HIDE DEF table, version
    <2>4. /\ gold' \in [flow : [Date -> SUBSET (Output \X Nat)], operations : Nat, version : Nat,
                        dims : Flow, dimsVersion : Nat]
          /\ gold'.version = version /\ gold'.dimsVersion = gold.dimsVersion
          /\ gold'.flow = table
      BY <1>1, <2>1, <2>3 DEF TableType
    <2> QED BY <2>4 DEF table, version
  <1>8. gold.flow \in [Date -> SUBSET (Output \X Nat)]
    BY <1>1 DEF TableType
  <1>9. \A d \in Date : gold'.flow[d] = IF d = m THEN rows ELSE gold.flow[d]
    BY <1>7, <1>8
  <1>10. \A d \in Date : \A row \in gold'.flow[d] : d \in DatesOf[row[1]]
    BY <1>4, <1>9 DEF GInv, Dated
  <1>11. JobType'
    <2>1. job.dates \ {m} \in SUBSET Date
      BY <1>1 DEF JobType
    <2> QED BY <1>1, <1>2, <2>1 DEF JobType
  <1>12. /\ job'.pc = "partitions" /\ job'.rows = job.rows /\ job'.flow = job.flow
         /\ job'.operations = job.operations /\ job'.facts = job.facts
         /\ job'.control = job.control /\ job'.dates = job.dates \ {m}
    BY <1>1, <1>2 DEF JobType
  <1>13. ASSUME Steady, NEW d \in Date \ job'.dates
         PROVE  Shows(gold'.flow, seq, d)
    <2>1. CASE d = m
      <3>1. gold'.flow[d] = rows /\ rows = RowsOf(seq, d)
        BY <1>5, <1>6, <1>9, <1>13, <2>1
      <3>2. {row \in rows : seq[row[1]] > 0} = rows
        BY <1>5, <1>13
      <3> QED BY <3>1, <3>2 DEF Shows
    <2>2. CASE d # m
      <3>1. d \in Date \ job.dates /\ gold'.flow[d] = gold.flow[d]
        BY <1>9, <1>12, <2>2
      <3>2. Shows(gold.flow, seq, d)
        BY <1>1, <1>2, <1>13, <3>1 DEF BuildKnows
      <3> QED BY <3>1, <3>2 DEF Shows
    <2> QED BY <2>1, <2>2
  <1>14. BuildKnows' /\ EndKnows'
    BY <1>1, <1>2, <1>12, <1>13 DEF BuildKnows, EndKnows, Building, Ending, Steady, store
  <1>15. JobKnows'
    BY <1>1, <1>2, <1>12, <1>14 DEF JobKnows, store
  <1> QED BY <1>2, <1>7, <1>10, <1>11, <1>15, FactsWrite

\* With its last write the facts are those of the sources the run read, when
\* these have not changed, and no checkpoint knows them.
LEMMA ReplaceOperationalKnows ==
    ASSUME GInv, ReplaceOperational
    PROVE  GInv'
  <1>1. /\ JobType /\ TableType /\ BuildKnows
        /\ job.flow \in Flow /\ Past(job.flow, seq, last)
        /\ job.operations \in Nat /\ job.operations <= changes
    BY RunFacts DEF ReplaceOperational, Building
  <1>2. /\ gold' = [gold EXCEPT !.operations = job.control, !.version = gold.version + 1]
        /\ job' = [job EXCEPT !.pc = "latest flow", !.rows = None, !.control = 0]
        /\ job.pc = "partitions" /\ job.dates = {}
        /\ UNCHANGED <<store, check, outbox, refresh, models, torn>>
    BY DEF ReplaceOperational
  <1>3. /\ gold' \in [flow : [Date -> SUBSET (Output \X Nat)], operations : Nat, version : Nat,
                      dims : Flow, dimsVersion : Nat]
        /\ gold'.version = gold.version + 1 /\ gold'.dimsVersion = gold.dimsVersion
        /\ gold'.flow = gold.flow /\ gold'.operations = job.control
    <2>1. job.control \in Nat
      BY <1>1 DEF JobType
    <2>2. gold.version + 1 \in Nat
      BY CheckFacts
    <2> QED BY <1>1, <1>2, <2>1, <2>2 DEF TableType
  <1>4. \A d \in Date : \A row \in gold'.flow[d] : d \in DatesOf[row[1]]
    BY <1>3 DEF GInv, Dated
  <1>5. JobType'
    BY <1>1, <1>2 DEF JobType, Building, Ending
  <1>6. /\ job'.pc = "latest flow" /\ job'.flow = job.flow
        /\ job'.operations = job.operations /\ job'.facts = job.facts
    BY <1>1, <1>2 DEF JobType
  <1>7. Steady => (\A d \in Date : Shows(gold'.flow, seq, d)) /\ gold'.operations = changes
    BY <1>1, <1>2, <1>3 DEF BuildKnows
  <1>8. Written'
    BY <1>2, <1>3, CheckFacts DEF Written
  <1>9. BuildKnows' /\ EndKnows'
    BY <1>1, <1>2, <1>6, <1>7, <1>8 DEF BuildKnows, EndKnows, Building, Ending, Steady, store
  <1>10. JobKnows'
    BY <1>1, <1>2, <1>6, <1>9 DEF JobKnows, store
  <1> QED BY <1>2, <1>3, <1>4, <1>5, <1>10, FactsWrite


LEMMA ReplaceDimensionsKnows ==
    ASSUME GInv, ReplaceDimensions
    PROVE  GInv'
  <1>1. /\ JobType /\ TableType /\ BuildKnows /\ EndKnows
        /\ job.flow \in Flow /\ Past(job.flow, seq, last)
        /\ job.operations \in Nat /\ job.operations <= changes
    BY RunFacts DEF ReplaceDimensions, Ending
  <1>2. /\ gold' = [gold EXCEPT !.dims = job.rows, !.dimsVersion = gold.dimsVersion + 1]
        /\ job' = [job EXCEPT !.pc = "save", !.rows = None]
        /\ job.pc = "replace dimensions"
        /\ UNCHANGED <<store, check, outbox, refresh, models, torn>>
    BY DEF ReplaceDimensions
  <1>3. job.rows \in Flow /\ job.source \in Flow /\ (Steady => job.rows = job.source)
    BY <1>1, <1>2 DEF EndKnows
  <1>4. /\ TableType' /\ gold'.version = gold.version
        /\ gold'.dimsVersion = gold.dimsVersion + 1
        /\ gold'.flow = gold.flow /\ gold'.operations = gold.operations
        /\ gold'.dims = job.rows
    <2>1. gold.dimsVersion + 1 \in Nat
      BY CheckFacts
    <2> QED BY <1>1, <1>2, <1>3, <2>1 DEF TableType
  <1>5. JobType'
    BY <1>1, <1>2 DEF JobType, Building, Ending
  <1>6. /\ job'.pc = "save" /\ job'.flow = job.flow /\ job'.source = job.source
        /\ job'.operations = job.operations /\ job'.facts = job.facts
        /\ job'.complete = job.complete
    BY <1>1, <1>2 DEF JobType
  <1>7. BuildKnows'
    BY <1>1, <1>2, <1>4, <1>6 DEF BuildKnows, Building, Ending, Written
  <1>8. EndKnows'
    BY <1>1, <1>2, <1>3, <1>4, <1>6 DEF EndKnows, Ending, Steady, store
  <1>9. JobKnows'
    BY <1>1, <1>2, <1>6, <1>7, <1>8 DEF JobKnows, store, Ending
  <1>10. GTypeOK'
    <2>1. StoreType'
      BY <1>2 DEF GInv, GTypeOK, StoreType, store
    <2>2. SignalType'
      BY <1>2 DEF GInv, GTypeOK, SignalType
    <2> QED BY <1>4, <1>5, <2>1, <2>2 DEF GTypeOK
  <1>11. check.dims # None => /\ check.dims.version <= gold'.dimsVersion
                              /\ check.dims.version # gold'.dimsVersion
    BY <1>4, CheckFacts
  <1>12. Dated' /\ FactsGood'
    BY <1>2, <1>4, <1>11 DEF GInv, Dated, FactsGood, store
  <1>13. DimsGood' /\ SavesSignal'
    BY <1>2, <1>11 DEF DimsGood, SavesSignal, SavedTogether
  <1>14. SignalsKnown'
    <2>1. \A n \in Nat : n <= gold.dimsVersion => n <= gold'.dimsVersion
      BY <1>4, CheckFacts
    <2>2. \A row \in outbox \cup refresh.pending :
             row.version <= gold'.version /\ row.dimsVersion <= gold'.dimsVersion
      BY <1>4, <2>1, SignalFacts DEF SignalsKnown
    <2>3. \A m \in Model : /\ models[m].version <= gold'.version
                           /\ models[m].dimsVersion <= gold'.dimsVersion
      BY <1>4, <2>1, SignalFacts DEF SignalsKnown
    <2> QED BY <1>2, <2>2, <2>3, SignalFacts DEF SignalsKnown, Seen
  <1>15. AcknowledgedSignalsWereSeen'
    BY <1>2 DEF GInv, AcknowledgedSignalsWereSeen
  <1> QED BY <1>9, <1>10, <1>12, <1>13, <1>14, <1>15 DEF GInv

\* No run knows nothing.
LEMMA IdleKnows ==
    ASSUME job' = Idle
    PROVE  JobType' /\ JobKnows'
  <1>1. JobType'
    BY DEF Idle, JobType
  <1>2. job'.pc = "idle"
    BY DEF Idle
  <1>3. BuildKnows' /\ EndKnows'
    BY <1>2 DEF BuildKnows, EndKnows, Building, Ending
  <1> QED BY <1>1, <1>2, <1>3 DEF JobKnows, Building, Ending

LEMMA SkipSaveKnows ==
    ASSUME GInv, SkipSave
    PROVE  GInv'
  BY IdleKnows, ReadStep DEF SkipSave

\* A run that stops leaves the tables and the checkpoints as they are; the
\* signal it has not sent is the history's to remember.
LEMMA StopJobKnows ==
    ASSUME GInv, StopJob
    PROVE  GInv'
  <1>1. /\ UNCHANGED <<store, gold, check, outbox, refresh, models>>
        /\ job' = Idle
        /\ torn' \in BOOLEAN /\ (~torn' => ~torn /\ job.pc # "enqueue")
    BY DEF StopJob
  <1>2. GTypeOK'
    <2>1. StoreType' /\ TableType'
      BY <1>1 DEF GInv, GTypeOK, store, StoreType, TableType
    <2>2. SignalType'
      BY <1>1 DEF GInv, GTypeOK, SignalType
    <2> QED BY <1>1, <2>1, <2>2, IdleKnows DEF GTypeOK
  <1>3. Dated' /\ FactsGood' /\ DimsGood' /\ SignalsKnown' /\ AcknowledgedSignalsWereSeen'
    BY <1>1 DEF GInv, store, Dated, FactsGood, DimsGood, SavedTogether, SignalsKnown, Seen,
                AcknowledgedSignalsWereSeen
  <1>4. SavesSignal'
    BY <1>1 DEF GInv, SavesSignal, SavedTogether
  <1> QED BY <1>1, <1>2, <1>3, <1>4, IdleKnows DEF GInv

\* The checkpoints a run saves agree with what it has read and written.
LEMMA SaveKnows ==
    ASSUME GInv, SaveCheckpoints
    PROVE  GInv'
  <1> DEFINE saved == [flow |-> job.flow, operations |-> job.operations,
                       version |-> gold.version]
             drawn == [flow |-> job.source, facts |-> gold.version,
                       version |-> gold.dimsVersion]
  <1>1. /\ JobType /\ TableType /\ BuildKnows /\ EndKnows
        /\ job.flow \in Flow /\ Past(job.flow, seq, last)
        /\ job.operations \in Nat /\ job.operations <= changes
    BY RunFacts DEF SaveCheckpoints, Go, Ending
  <1>2. /\ UNCHANGED <<store, gold, outbox, refresh, models, torn>>
        /\ job.pc = "save" /\ job' = [job EXCEPT !.pc = "enqueue"]
        /\ job.facts \/ job.dims
        /\ check' = Checkpoints
    BY DEF SaveCheckpoints, Go
  <1>3. job.source \in Flow /\ (job.dims /\ Steady => gold.dims = job.source)
    BY <1>1, <1>2 DEF EndKnows
  <1>4. saved \in FactsRow /\ drawn \in DimsRow
    BY <1>1, <1>3, CheckFacts DEF FactsRow, DimsRow
  <1>5. /\ job.facts /\ job.complete => check'.facts = saved
        /\ ~(job.facts /\ job.complete) => check'.facts = check.facts
        /\ job.dims => check'.dims = drawn
        /\ ~job.dims => check'.dims = check.dims
        /\ check' = [facts |-> check'.facts, dims |-> check'.dims]
    BY <1>2 DEF Checkpoints
  <1>6. /\ saved.flow = job.flow /\ saved.operations = job.operations
        /\ saved.version = gold.version
        /\ drawn.flow = job.source /\ drawn.facts = gold.version
        /\ drawn.version = gold.dimsVersion
    OBVIOUS
  <1> HIDE DEF saved, drawn
  <1>7. /\ job.facts /\ job.complete =>
              /\ \A d \in Date : Shows(gold.flow, job.flow, d)
              /\ gold.operations = job.operations
        /\ job.facts => Written
        /\ ~job.facts => check.facts # None /\ check.facts.operations = job.operations
    BY <1>1, <1>2 DEF BuildKnows, EndKnows, Ending
  <1>8. TableType'
    <2>1. check.facts \in FactsRow \cup {None} /\ check.dims \in DimsRow \cup {None}
      BY <1>1 DEF TableType
    <2>2. check' \in [facts : FactsRow \cup {None}, dims : DimsRow \cup {None}]
      BY <1>4, <1>5, <2>1
    <2> QED BY <1>1, <1>2, <2>2 DEF TableType
  <1>9. GTypeOK'
    <2>1. StoreType'
      BY <1>2 DEF GInv, GTypeOK, StoreType, store
    <2>2. SignalType'
      BY <1>2 DEF GInv, GTypeOK, SignalType
    <2>3. JobType'
      BY <1>1, <1>2 DEF JobType
    <2> QED BY <1>8, <2>1, <2>2, <2>3 DEF GTypeOK
  <1>10. Dated'
    <2>1. check'.facts # None =>
             /\ Past(check'.facts.flow, seq, last)
             /\ check'.facts.operations <= changes /\ check'.facts.version <= gold.version
      BY <1>1, <1>5, <1>6, CheckFacts DEF GInv, Dated
    <2>2. check'.dims # None =>
             check'.dims.facts <= gold.version /\ check'.dims.version <= gold.dimsVersion
      BY <1>5, <1>6, CheckFacts DEF GInv, Dated
    <2> QED BY <1>2, <2>1, <2>2 DEF GInv, Dated, store
  <1>11. FactsGood'
    BY <1>2, <1>5, <1>6, <1>7 DEF GInv, FactsGood
  <1>12. DimsGood'
    <2> SUFFICES ASSUME SavedTogether', check'.facts.operations = changes
                 PROVE  gold.dims = check'.dims.flow
      BY <1>2 DEF DimsGood, store
    <2>1. /\ check'.facts # None /\ check'.facts.version = gold.version
          /\ check'.dims # None /\ check'.dims.facts = gold.version
      BY <1>2 DEF SavedTogether
    <2>2. job.facts => job.complete /\ job.dims
      <3>1. job.facts => /\ check.facts # None => check.facts.version < gold.version
                         /\ check.dims # None => check.dims.facts < gold.version
        BY <1>7 DEF Written
      <3> QED BY <1>5, <2>1, <3>1, CheckFacts
    <2>3. job.dims
      BY <1>2, <2>2
    <2>4. Steady
      BY <1>5, <1>6, <1>7, <2>2 DEF Steady
    <2> QED BY <1>3, <1>5, <1>6, <2>3, <2>4
  <1>13. JobKnows'
    <2>1. job'.pc = "enqueue" /\ job'.flow = job.flow
      BY <1>1, <1>2 DEF JobType
    <2>2. BuildKnows' /\ EndKnows'
      BY <2>1 DEF BuildKnows, EndKnows, Building, Ending
    <2> QED BY <1>1, <1>2, <2>1, <2>2 DEF JobKnows, Building, Ending, store
  <1>14. SavesSignal'
    BY <1>1, <1>2 DEF SavesSignal, JobType
  <1>15. SignalsKnown' /\ AcknowledgedSignalsWereSeen'
    BY <1>2 DEF GInv, SignalsKnown, Seen, AcknowledgedSignalsWereSeen
  <1> QED BY <1>9, <1>10, <1>11, <1>12, <1>13, <1>14, <1>15 DEF GInv

(* What a signal says *)

\* The signal of a save is in the outbox, as a new row or an equal one that was
\* acknowledged.
LEMMA EnqueueKnows ==
    ASSUME GInv, Enqueue
    PROVE  GInv'
  <1> DEFINE row == [version |-> gold.version, dimsVersion |-> gold.dimsVersion, acked |-> FALSE]
             sent == [row EXCEPT !.acked = TRUE]
  <1>1. /\ UNCHANGED <<store, gold, check, refresh, models>>
        /\ job' = Idle /\ torn' = FALSE /\ outbox' = Signal
    BY DEF Enqueue
  <1>2. \/ outbox' = outbox /\ sent \in outbox
        \/ outbox' = outbox \cup {row}
    BY <1>1 DEF Signal
  <1>3. /\ row \in SignalRow /\ ~row.acked
        /\ row.version = gold.version /\ row.dimsVersion = gold.dimsVersion
        /\ sent.version = gold.version /\ sent.dimsVersion = gold.dimsVersion
        /\ gold.version <= gold.version /\ gold.dimsVersion <= gold.dimsVersion
    BY CheckFacts DEF SignalRow
  <1> HIDE DEF row, sent
  <1>4. GTypeOK'
    <2>1. StoreType' /\ TableType'
      BY <1>1 DEF GInv, GTypeOK, store, StoreType, TableType
    <2>2. SignalType'
      BY <1>1, <1>2, <1>3 DEF GInv, GTypeOK, SignalType
    <2> QED BY <1>1, <2>1, <2>2, IdleKnows DEF GTypeOK
  <1>5. Dated' /\ FactsGood' /\ DimsGood'
    BY <1>1 DEF GInv, store, Dated, FactsGood, DimsGood, SavedTogether
  <1>6. SignalsKnown'
    BY <1>1, <1>2, <1>3 DEF GInv, SignalsKnown, Seen
  <1>7. AcknowledgedSignalsWereSeen'
    BY <1>1, <1>2, <1>3 DEF GInv, AcknowledgedSignalsWereSeen
  <1>8. SavesSignal'
    BY <1>1, <1>2, <1>3 DEF SavesSignal
  <1> QED BY <1>1, <1>4, <1>5, <1>6, <1>7, <1>8, IdleKnows DEF GInv

\* A step of the refresh leaves what the job and its checkpoints know.
LEMMA RefreshStep ==
    ASSUME GInv, UNCHANGED <<store, gold, check, job, torn>>,
           SignalType', SignalsKnown', AcknowledgedSignalsWereSeen',
           \A row \in outbox : \E other \in outbox' :
              other.version = row.version /\ other.dimsVersion = row.dimsVersion
    PROVE  GInv'
  <1>1. GTypeOK'
    <2>1. StoreType' /\ TableType'
      BY DEF GInv, GTypeOK, store, StoreType, TableType
    <2>2. JobType'
      BY DEF GInv, GTypeOK, JobType
    <2> QED BY <2>1, <2>2 DEF GTypeOK
  <1>2. Dated' /\ FactsGood' /\ DimsGood'
    BY DEF GInv, store, Dated, FactsGood, DimsGood, SavedTogether
  <1>3. JobKnows'
    <2>1. BuildKnows'
      BY RunFacts DEF store, BuildKnows, Steady, Written
    <2>2. EndKnows'
      BY RunFacts DEF store, EndKnows, Steady
    <2> QED BY <2>1, <2>2 DEF GInv, store, JobKnows
  <1>4. SavesSignal'
    BY DEF GInv, SavesSignal, SavedTogether
  <1> QED BY <1>1, <1>2, <1>3, <1>4 DEF GInv

\* One model after the other sees the tables, and every signal that was pending
\* is of versions they have had.
LEMMA RefreshKnows ==
    ASSUME GInv, RStart \/ RefreshModel \/ StopRefresh
    PROVE  GInv'
  <1>1. CASE RStart
    <2>1. /\ refresh' = [pc |-> "refresh", pending |-> {row \in outbox : ~row.acked},
                         models |-> Model]
          /\ UNCHANGED <<store, gold, check, outbox, job, models, torn>>
      BY <1>1 DEF RStart
    <2>2. SignalType'
      BY <2>1, SignalFacts DEF SignalType
    <2>3. SignalsKnown'
      BY <2>1, SignalFacts DEF SignalsKnown
    <2>4. AcknowledgedSignalsWereSeen'
      BY <2>1 DEF GInv, AcknowledgedSignalsWereSeen
    <2> QED BY <2>1, <2>2, <2>3, <2>4, RefreshStep
  <1>2. CASE RefreshModel
    <2> DEFINE m == Min(refresh.models)
               now == [version |-> gold.version, dimsVersion |-> gold.dimsVersion]
    <2>1. /\ models' = [models EXCEPT ![m] = now]
          /\ refresh' = [refresh EXCEPT !.models = refresh.models \ {m}]
          /\ UNCHANGED <<store, gold, check, outbox, job, torn>>
      BY <1>2 DEF RefreshModel
    <2>2. /\ now \in [version : Nat, dimsVersion : Nat]
          /\ now.version = gold.version /\ now.dimsVersion = gold.dimsVersion
          /\ gold.version \in Nat /\ gold.dimsVersion \in Nat
      BY CheckFacts
    <2> HIDE DEF m, now
    <2>3. /\ refresh'.pending = refresh.pending
          /\ refresh'.models = refresh.models \ {m}
          /\ models' \in [Model -> [version : Nat, dimsVersion : Nat]]
          /\ \A n \in Model : models'[n] = IF n = m THEN now ELSE models[n]
      <3>1. SignalType
        BY SignalFacts
      <3> QED BY <2>1, <2>2, <3>1 DEF SignalType
    <2>4. SignalType'
      <3>1. SignalType /\ refresh.models \ {m} \in SUBSET Model
        BY SignalFacts DEF SignalType
      <3> QED BY <2>1, <2>3, <3>1 DEF SignalType
    <2>5. \A n \in Model : /\ models'[n].version <= gold.version
                           /\ models'[n].dimsVersion <= gold.dimsVersion
                           /\ models[n].version <= models'[n].version
                           /\ models[n].dimsVersion <= models'[n].dimsVersion
      BY <2>2, <2>3, SignalFacts DEF SignalsKnown
    <2>6. \A row \in outbox \cup refresh.pending, n \in Model : Seen(n, row) => Seen(n, row)'
      <3> SUFFICES ASSUME NEW row \in outbox \cup refresh.pending, NEW n \in Model, Seen(n, row)
                   PROVE  models'[n].version >= row.version
                          /\ models'[n].dimsVersion >= row.dimsVersion
        BY DEF Seen
      <3>1. /\ models'[n].version \in Nat /\ models'[n].dimsVersion \in Nat
            /\ models[n].version \in Nat /\ models[n].dimsVersion \in Nat
            /\ row.version \in Nat /\ row.dimsVersion \in Nat
        BY <2>3, SignalFacts
      <3> QED BY <2>5, <3>1 DEF Seen
    <2>7. ASSUME NEW row \in refresh'.pending, NEW n \in Model \ refresh'.models
          PROVE  Seen(n, row)'
      <3>1. CASE n = m
        <4>1. models'[n] = now
          BY <2>3, <3>1
        <4>2. /\ row.version <= gold.version /\ row.dimsVersion <= gold.dimsVersion
              /\ row.version \in Nat /\ row.dimsVersion \in Nat
          BY <2>3, SignalFacts DEF SignalsKnown
        <4> QED BY <2>2, <4>1, <4>2 DEF Seen
      <3>2. CASE n # m
        BY <2>3, <2>6, <3>2, SignalFacts DEF SignalsKnown
      <3> QED BY <3>1, <3>2
    <2>8. SignalsKnown'
      BY <2>1, <2>3, <2>5, <2>7, SignalFacts DEF SignalsKnown
    <2>9. AcknowledgedSignalsWereSeen'
      BY <2>1, <2>6 DEF GInv, AcknowledgedSignalsWereSeen, Seen
    <2> QED BY <2>1, <2>4, <2>8, <2>9, RefreshStep
  <1>3. CASE StopRefresh
    <2>1. /\ refresh' = [pc |-> "idle", pending |-> {}, models |-> {}]
          /\ UNCHANGED <<store, gold, check, outbox, job, models, torn>>
      BY <1>3 DEF StopRefresh, NoRefresh
    <2>2. SignalType'
      BY <2>1, SignalFacts DEF SignalType
    <2>3. SignalsKnown'
      BY <2>1, SignalFacts DEF SignalsKnown
    <2>4. AcknowledgedSignalsWereSeen'
      BY <2>1 DEF GInv, AcknowledgedSignalsWereSeen
    <2> QED BY <2>1, <2>2, <2>3, <2>4, RefreshStep
  <1> QED BY <1>1, <1>2, <1>3

\* A signal is acknowledged when no model is left to be refreshed.
LEMMA AcknowledgeKnows ==
    ASSUME GInv, Acknowledge
    PROVE  GInv'
  <1>1. PICK row \in refresh.pending :
           /\ outbox' = (outbox \ {row}) \cup {[row EXCEPT !.acked = TRUE]}
           /\ refresh' = IF refresh.pending = {row} THEN NoRefresh
                         ELSE [refresh EXCEPT !.pending = @ \ {row}]
    BY DEF Acknowledge
  <1> DEFINE acked == [row EXCEPT !.acked = TRUE]
  <1>2. /\ UNCHANGED <<store, gold, check, job, models, torn>>
        /\ refresh.models = {}
    BY DEF Acknowledge
  <1>3. row \in SignalRow
    BY SignalFacts DEF SignalType
  <1>4. /\ acked \in SignalRow
        /\ acked.version = row.version /\ acked.dimsVersion = row.dimsVersion
    BY <1>3 DEF SignalRow
  <1> HIDE DEF acked
  <1>5. outbox' = (outbox \ {row}) \cup {acked}
    BY <1>1 DEF acked
  <1>6. /\ refresh' \in [pc : {"idle", "refresh"}, pending : SUBSET SignalRow,
                         models : SUBSET Model]
        /\ refresh'.pending \subseteq refresh.pending /\ refresh'.models = {}
    <2>1. SignalType
      BY SignalFacts
    <2>2. CASE refresh.pending = {row}
      BY <1>1, <2>1, <2>2 DEF NoRefresh, SignalType
    <2>3. CASE refresh.pending # {row}
      <3>1. refresh' = [refresh EXCEPT !.pending = refresh.pending \ {row}]
        BY <1>1, <2>3
      <3>2. refresh.pending \ {row} \in SUBSET SignalRow
        BY <2>1 DEF SignalType
      <3> QED BY <1>2, <2>1, <3>1, <3>2 DEF SignalType
    <2> QED BY <2>2, <2>3
  <1>7. SignalType'
    BY <1>2, <1>4, <1>5, <1>6, SignalFacts DEF SignalType
  <1>8. SignalsKnown'
    BY <1>2, <1>4, <1>5, <1>6, SignalFacts DEF SignalsKnown, Seen
  <1>9. AcknowledgedSignalsWereSeen'
    BY <1>2, <1>4, <1>5, SignalFacts DEF GInv, AcknowledgedSignalsWereSeen, SignalsKnown, Seen
  <1>10. \A other \in outbox : \E same \in outbox' :
            same.version = other.version /\ same.dimsVersion = other.dimsVersion
    BY <1>4, <1>5
  <1> QED BY <1>2, <1>7, <1>8, <1>9, <1>10, RefreshStep

-----------------------------------------------------------------------------
(* Theorems *)

\* No step of the store, of the gold run or of the refresh breaks what the
\* checkpoints, the run and the signals say of the tables.
THEOREM GoldInvariance == GSpec => []GInv
  <1>1. GInit => GInv
    <2> SUFFICES ASSUME GInit PROVE GInv
      OBVIOUS
    <2>1. /\ seq \in Flow /\ last = 0 /\ changes = 0 /\ \A o \in Output : seq[o] = 0
          /\ gold = [flow |-> [d \in Date |-> {}], operations |-> 0, version |-> 0,
                     dims |-> [o \in Output |-> 0], dimsVersion |-> 0]
          /\ check = [facts |-> None, dims |-> None] /\ outbox = {}
          /\ refresh = [pc |-> "idle", pending |-> {}, models |-> {}] /\ torn = FALSE
          /\ models = [m \in Model |-> [version |-> 0, dimsVersion |-> 0]]
      BY DEF GInit, Flow, NoRefresh
    <2>2. JobType /\ job.pc = "idle"
      BY DEF GInit, Idle, JobType
    <2>3. StoreType /\ TableType
      <3>1. [d \in Date |-> {}] \in [Date -> SUBSET (Output \X Nat)]
        OBVIOUS
      <3>2. [o \in Output |-> 0] \in Flow
        BY DEF Flow
      <3> QED BY <2>1, <3>1, <3>2 DEF StoreType, TableType
    <2>4. SignalType
      BY <2>1 DEF SignalType
    <2>5. Dated /\ FactsGood /\ DimsGood /\ SavesSignal
      BY <2>1 DEF Dated, FactsGood, DimsGood, SavesSignal, SavedTogether
    <2>6. JobKnows
      BY <2>2 DEF JobKnows, BuildKnows, EndKnows, Building, Ending
    <2>7. SignalsKnown /\ AcknowledgedSignalsWereSeen
      BY <2>1 DEF SignalsKnown, AcknowledgedSignalsWereSeen
    <2> QED BY <2>2, <2>3, <2>4, <2>5, <2>6, <2>7 DEF GInv, GTypeOK
  <1>2. ASSUME GInv, [GNext]_gvars
        PROVE  GInv'
    <2>1. CASE Change \/ \E o \in Output : Publish(o) \/ Withdraw(o)
      BY <1>2, <2>1, StoreSteps
    <2>2. CASE \E force \in BOOLEAN : Start(force)
      BY <1>2, <2>2, StartKnows
    <2>3. CASE FactsSource \/ PlanSource
      BY <1>2, <2>3, FactsSourceKnows, PlanSourceKnows
    <2>4. CASE \E recent \in 0..MaxSeq, other \in SUBSET Date : PlanOutputs(recent, other)
      BY <1>2, <2>4, PlanOutputsKnows
    <2>5. CASE ReadOutputs \/ ReadControl \/ ReplacePartition \/ ReplaceOperational
      BY <1>2, <2>5, ReadOutputsKnows, ReadControlKnows, ReplacePartitionKnows,
         ReplaceOperationalKnows
    <2>6. CASE LatestFlow \/ LatestOperations
      BY <1>2, <2>6, LatestFlowKnows, LatestOperationsKnows
    <2>7. CASE DimensionsSource \/ DimensionsOutputs \/ ReplaceDimensions
      BY <1>2, <2>7, DimensionsSourceKnows, DimensionsOutputsKnows, ReplaceDimensionsKnows
    <2>8. CASE SkipSave \/ SaveCheckpoints \/ Enqueue \/ StopJob
      BY <1>2, <2>8, SkipSaveKnows, SaveKnows, EnqueueKnows, StopJobKnows
    <2>9. CASE RStart \/ RefreshModel \/ Acknowledge \/ StopRefresh
      BY <1>2, <2>9, RefreshKnows, AcknowledgeKnows
    <2>10. CASE UNCHANGED gvars
      <3>1. UNCHANGED <<store, gold, check, outbox, job, refresh, models, torn>>
        BY <2>10 DEF gvars
      <3>2. SignalType'
        BY <1>2, <3>1, SignalFacts DEF SignalType
      <3>3. SignalsKnown' /\ AcknowledgedSignalsWereSeen'
        BY <1>2, <3>1 DEF GInv, SignalsKnown, Seen, AcknowledgedSignalsWereSeen
      <3> QED BY <1>2, <3>1, <3>2, <3>3, RefreshStep
    <2> QED BY <1>2, <2>1, <2>2, <2>3, <2>4, <2>5, <2>6, <2>7, <2>8, <2>9, <2>10 DEF GNext
  <1> QED BY <1>1, <1>2, PTL DEF GSpec

\* A gold run that skips the facts leaves tables that show every published
\* output, on every date it has rows, as of its last publication.
THEOREM SkippedIsCurrent == GSpec => []SkippedFactsAreCurrent
  <1>1. GInv => SkippedFactsAreCurrent
    <2> SUFFICES ASSUME GInv, FactsCurrent(seq, changes)
                 PROVE  /\ \A d \in Date : Shows(gold.flow, seq, d)
                        /\ gold.operations = changes
                        /\ DimensionsCurrent(seq) => gold.dims = seq
      BY DEF SkippedFactsAreCurrent
    <2>1. /\ check.facts # None /\ check.facts.flow = seq /\ check.facts.operations = changes
          /\ check.facts.version = gold.version
      BY DEF FactsCurrent
    <2>2. (\A d \in Date : Shows(gold.flow, seq, d)) /\ gold.operations = changes
      BY <2>1 DEF GInv, FactsGood
    <2>3. DimensionsCurrent(seq) => gold.dims = seq
      BY <2>1 DEF GInv, DimsGood, SavedTogether, DimensionsCurrent
    <2> QED BY <2>2, <2>3
  <1> QED BY <1>1, GoldInvariance, PTL

\* A signal is acknowledged only after every model was refreshed from tables at
\* least as new as the ones it was sent for.
THEOREM AcknowledgedIsSeen == GSpec => []AcknowledgedSignalsWereSeen
  <1>1. GInv => AcknowledgedSignalsWereSeen
    BY DEF GInv
  <1> QED BY <1>1, GoldInvariance, PTL

\* Unless a run stopped between its checkpoints and its signal, a model behind
\* the tables has a signal pending, or a gold run under way or to do.
THEOREM SignalsAreLostByTornSaves == GSpec => []OnlyTornSavesLoseSignals
  <1>1. ASSUME GInv, ~torn, NEW m \in Model, job.pc = "idle", UpToDate,
               models[m] # [version |-> gold.version, dimsVersion |-> gold.dimsVersion]
        PROVE  \E row \in outbox : ~row.acked
    <2>1. SavedTogether
      BY <1>1 DEF UpToDate, FactsCurrent, DimensionsCurrent, SavedTogether
    <2>2. PICK row \in outbox : row.version = gold.version /\ row.dimsVersion = gold.dimsVersion
      BY <1>1, <2>1 DEF GInv, SavesSignal
    <2>3. SUFFICES ASSUME row.acked PROVE FALSE
      OBVIOUS
    <2>4. models[m].version >= gold.version /\ models[m].dimsVersion >= gold.dimsVersion
      BY <1>1, <2>2, <2>3 DEF GInv, AcknowledgedSignalsWereSeen
    <2>5. /\ models[m] \in [version : Nat, dimsVersion : Nat]
          /\ models[m].version <= gold.version /\ models[m].dimsVersion <= gold.dimsVersion
      BY <1>1, SignalFacts DEF SignalType, SignalsKnown
    <2>6. models[m].version = gold.version /\ models[m].dimsVersion = gold.dimsVersion
      BY <1>1, <2>4, <2>5, CheckFacts
    <2> QED BY <1>1, <2>5, <2>6
  <1>2. GInv => OnlyTornSavesLoseSignals
    BY <1>1 DEF OnlyTornSavesLoseSignals, BehindIsSignalled
  <1> QED BY <1>2, GoldInvariance, PTL

-----------------------------------------------------------------------------
(* EventInbox: the inductive invariant *)

LEMMA ActiveIs ==
    /\ \A s : IsActive(s) => s \in Statuses /\ s \notin Settled
    /\ IsActive("LEASED") /\ IsActive("WRITING")
    /\ Settled \subseteq Statuses
  <1>1. 1 \in DOMAIN Active /\ Len(Active) \in DOMAIN Active
    BY EventInboxAssumption
  <1> QED BY <1>1, EventInboxAssumption DEF IsActive, Statuses

LEMMA LeaseNumbers ==
    /\ MaxLeases \in Nat /\ 0 \in 0 .. MaxLeases
    /\ \A ev \in Events : ev.attempt \in 1 .. MaxLeases /\ ev.attempt \in 0 .. MaxLeases
  BY EventInboxAssumption DEF Events

LEMMA WorkNumbers ==
    ASSUME NEW r \in WorkRows
    PROVE  /\ r.count \in Nat
           /\ r.leases \in Nat /\ r.leases \in 0 .. MaxLeases
           /\ r.owner \in Nat /\ r.owner \in 0 .. MaxLeases
           /\ r.committed # 0 => r.committed \in 1 .. MaxLeases
  <1>1. /\ r.count \in Nat /\ r.leases \in 0 .. MaxLeases
        /\ r.owner \in 0 .. MaxLeases /\ r.committed \in 0 .. MaxLeases
    BY DEF WorkRows
  <1> QED BY <1>1, LeaseNumbers

LEMMA FrontIs ==
    ASSUME NEW S, NEW s \in Seq(S), s # <<>>
    PROVE  s[1] \in S /\ Head(s) = s[1] /\ Len(s) \in Nat \ {0}
  OBVIOUS

LEMMA CommandsType ==
    ASSUME NEW ev \in Events
    PROVE  /\ ev.command.kind = "heartbeat" => IsActive(ev.command.status)
           /\ ev.command.kind \in {"claim_execution", "attempt_update", "succeed", "commit", "release",
                                  "heartbeat", "failure"}
  <1>1. ev.command \in WellFormed
    BY DEF Events
  <1> QED BY <1>1 DEF WellFormed, IsActive

-----------------------------------------------------------------------------
(* Plans *)

LEMMA ClaimFits ==
    ASSUME NEW ev \in Events, NEW w \in WorkRows, NEW a \in AttemptRows,
           ev.command.kind = "claim_execution", NEW p, p = PlanClaim(ev, w, a), p # None
    PROVE  p \in Plans /\ Fits(ev, w, p) /\ Continues(ev, w, a, p)
  <1>1. Owner(ev, w) /\ a.status = "LEASED" /\ p = Plan(w, [a EXCEPT !.exec = ev.exec])
    BY DEF PlanClaim
  <1> DEFINE row == [a EXCEPT !.exec = ev.exec]
  <1>2. row \in AttemptRows /\ row.exec = ev.exec
    BY DEF AttemptRows, Events
  <1>3. p = [work |-> w, attempt |-> row]
    BY <1>1 DEF Plan
  <1> HIDE DEF row
  <1> QED BY <1>1, <1>2, <1>3 DEF Plans, Fits, Leaves, Continues

LEMMA HeartbeatFits ==
    ASSUME NEW ev \in Events, NEW w \in WorkRows, NEW a \in AttemptRows, a.exec = ev.exec,
           ev.command.kind = "heartbeat", NEW p, p = PlanHeartbeat(ev, w, a), p # None
    PROVE  p \in Plans /\ Fits(ev, w, p) /\ Continues(ev, w, a, p)
  <1> DEFINE target == ev.command.status
             row == [w EXCEPT !.status = target, !.by = ev]
             next == [a EXCEPT !.status = target, !.by = ev]
  <1>1. /\ Owner(ev, w) /\ p = [work |-> row, attempt |-> next]
        /\ (row = w /\ next = a) \/ Transition(a.status, target)
    BY DEF PlanHeartbeat, Plan
  <1>2. IsActive(target) /\ target \in Statuses
    BY CommandsType, ActiveIs
  <1> HIDE DEF target
  <1>3. row \in WorkRows /\ row.status = target /\ row.by = ev
    BY <1>2 DEF WorkRows
  <1>4. next \in AttemptRows /\ next.exec = ev.exec /\ next.status = target
    BY <1>2 DEF AttemptRows
  <1>5. row = [w EXCEPT !.status = row.status, !.by = row.by]
    BY <1>3
  <1> HIDE DEF row, next
  <1>6. a.status # "RELEASED" \/ next = a
    BY <1>1, ActiveIs DEF Transition, Settled
  <1>7. p \in Plans /\ p.work = row /\ p.attempt = next
    BY <1>1, <1>3, <1>4 DEF Plans
  <1>8. Beats(ev, w, p)
    BY <1>1, <1>2, <1>3, <1>5, <1>7 DEF Beats
  <1> QED BY <1>1, <1>4, <1>6, <1>7, <1>8 DEF Fits, Continues

LEMMA UpdateFits ==
    ASSUME NEW ev \in Events, NEW w \in WorkRows, NEW a \in AttemptRows, a.exec = ev.exec,
           ev.command.kind = "attempt_update", NEW p, p = PlanUpdate(ev, w, a), p # None
    PROVE  p \in Plans /\ Fits(ev, w, p) /\ Continues(ev, w, a, p)
  <1> DEFINE row == [a EXCEPT !.started = TRUE]
  <1>1. Owner(ev, w) /\ a.status = w.status /\ p = [work |-> w, attempt |-> row]
    BY DEF PlanUpdate, Plan
  <1>2. row \in AttemptRows /\ row.exec = ev.exec /\ row.status = a.status
    BY DEF AttemptRows
  <1> HIDE DEF row
  <1> QED BY <1>1, <1>2 DEF Plans, Fits, Leaves, Continues

LEMMA SucceedFits ==
    ASSUME NEW ev \in Events, NEW w \in WorkRows, NEW a \in AttemptRows, a.exec = ev.exec,
           ev.command.kind = "succeed", NEW p, p = PlanSucceed(ev, w, a), p # None
    PROVE  p \in Plans /\ Fits(ev, w, p) /\ Continues(ev, w, a, p)
  <1> DEFINE row == [a EXCEPT !.status = "SUCCEEDED", !.by = ev]
  <1>1. /\ Owner(ev, w)
        /\ \/ p = [work |-> w, attempt |-> a]
           \/ a.status = "WRITING" /\ p = [work |-> w, attempt |-> row]
    BY DEF PlanSucceed, Plan
  <1>2. row \in AttemptRows /\ row.exec = ev.exec
    BY ActiveIs DEF AttemptRows, Settled
  <1> HIDE DEF row
  <1>3. CASE p = [work |-> w, attempt |-> a]
    BY <1>1, <1>3 DEF Plans, Fits, Leaves, Continues
  <1>4. CASE a.status = "WRITING" /\ p = [work |-> w, attempt |-> row]
    BY <1>1, <1>2, <1>4 DEF Plans, Fits, Leaves, Continues
  <1> QED BY <1>1, <1>3, <1>4

LEMMA CommitFits ==
    ASSUME NEW ev \in Events, NEW w \in WorkRows, NEW a \in AttemptRows, a.exec = ev.exec,
           ev.command.kind = "commit", NEW p, p = PlanCommit(ev, w, a), p # None
    PROVE  p \in Plans /\ Fits(ev, w, p) /\ Continues(ev, w, a, p)
  <1> DEFINE row == [w EXCEPT !.status = "SUCCEEDED", !.committed = ev.attempt, !.owner = 0, !.live = FALSE]
  <1>1. /\ a.status = "SUCCEEDED"
        /\ \/ w.committed = ev.attempt /\ p = [work |-> w, attempt |-> a]
           \/ Owner(ev, w) /\ p = [work |-> row, attempt |-> a]
    BY DEF PlanCommit, Plan, Committed
  <1>2. row \in WorkRows
    <2>1. "SUCCEEDED" \in Statuses
      BY ActiveIs DEF Settled
    <2> QED BY <2>1, LeaseNumbers DEF WorkRows
  <1> HIDE DEF row
  <1>3. CASE w.committed = ev.attempt /\ p = [work |-> w, attempt |-> a]
    BY <1>3 DEF Plans, Fits, Leaves, Continues
  <1>4. CASE Owner(ev, w) /\ p = [work |-> row, attempt |-> a]
    <2>1. p \in Plans /\ p.work = row /\ p.attempt = a
      BY <1>2, <1>4 DEF Plans
    <2>2. Commits(ev, w, p)
      BY <1>1, <1>4, <2>1 DEF Commits, row
    <2> QED BY <1>1, <1>4, <2>1, <2>2 DEF Fits, Continues
  <1> QED BY <1>1, <1>3, <1>4

LEMMA FailureFits ==
    ASSUME NEW ev \in Events, NEW w \in WorkRows, NEW a \in AttemptRows, a.exec = ev.exec,
           ev.command.kind = "failure", NEW p, p = PlanFailure(ev, w, a), p # None
    PROVE  p \in Plans /\ Fits(ev, w, p) /\ Continues(ev, w, a, p)
  <1>1. PICK status \in {"DEAD_LETTERED", "RETRY_WAIT", "TERMINAL_FAILED"},
             ended \in {"DEAD_LETTERED", "RETRY_WAIT", "TERMINAL_FAILED", "LEASE_LOST"} :
          LET failed == [a EXCEPT !.by = ev, !.status = ended]
              freed == [w EXCEPT !.status = status, !.owner = 0, !.live = FALSE, !.by = ev]
          IN  \/ p = [work |-> w, attempt |-> a]
              \/ Owner(ev, w) /\ (IsActive(a.status) \/ a = failed) /\ p = [work |-> freed, attempt |-> failed]
    <2> DEFINE status == IF w.count >= MaxAttempts THEN "DEAD_LETTERED"
                         ELSE IF ev.command.retryable THEN "RETRY_WAIT" ELSE "TERMINAL_FAILED"
               ended == IF status = "RETRY_WAIT" /\ ev.command.lease_lost THEN "LEASE_LOST" ELSE status
               failed == [a EXCEPT !.by = ev, !.status = ended]
               freed == [w EXCEPT !.status = status, !.owner = 0, !.live = FALSE, !.by = ev]
    <2>1. status \in {"DEAD_LETTERED", "RETRY_WAIT", "TERMINAL_FAILED"}
      OBVIOUS
    <2>2. ended \in {"DEAD_LETTERED", "RETRY_WAIT", "TERMINAL_FAILED", "LEASE_LOST"}
      BY <2>1
    <2>3. \/ p = [work |-> w, attempt |-> a]
          \/ Owner(ev, w) /\ (IsActive(a.status) \/ a = failed) /\ p = [work |-> freed, attempt |-> failed]
      BY DEF PlanFailure, Plan
    <2> HIDE DEF status, ended
    <2> QED BY <2>1, <2>2, <2>3
  <1> DEFINE failed == [a EXCEPT !.by = ev, !.status = ended]
             freed == [w EXCEPT !.status = status, !.owner = 0, !.live = FALSE, !.by = ev]
  <1>2. failed \in AttemptRows /\ failed.exec = ev.exec /\ failed.status = ended
    BY ActiveIs DEF AttemptRows, Settled
  <1>3. /\ freed \in WorkRows /\ freed.status = status /\ freed.count = w.count /\ freed.by = ev
        /\ freed = [w EXCEPT !.status = freed.status, !.owner = 0, !.live = FALSE, !.by = freed.by,
                            !.count = freed.count]
    <2>1. status \in Statuses
      BY ActiveIs DEF Settled
    <2>2. freed \in WorkRows /\ freed.status = status /\ freed.count = w.count /\ freed.by = ev
      BY <2>1, LeaseNumbers DEF WorkRows
    <2>3. freed = [w EXCEPT !.status = status, !.owner = 0, !.live = FALSE, !.by = ev, !.count = w.count]
      BY DEF WorkRows
    <2> HIDE DEF freed
    <2> QED BY <2>2, <2>3
  <1>4. \/ p = [work |-> w, attempt |-> a]
        \/ Owner(ev, w) /\ (IsActive(a.status) \/ a = failed) /\ p = [work |-> freed, attempt |-> failed]
    BY <1>1
  <1> HIDE DEF failed, freed
  <1>5. CASE p = [work |-> w, attempt |-> a]
    BY <1>5 DEF Plans, Fits, Leaves, Continues
  <1>6. CASE Owner(ev, w) /\ (IsActive(a.status) \/ a = failed) /\ p = [work |-> freed, attempt |-> failed]
    <2>1. p \in Plans /\ p.work = freed /\ p.attempt = failed
      BY <1>2, <1>3, <1>6 DEF Plans
    <2>2. Frees(ev, w, p)
      BY <1>3, <1>6, <2>1 DEF Frees, Settled
    <2>3. a.status # "RELEASED"
      BY <1>2, <1>6, ActiveIs DEF Settled
    <2> QED BY <1>2, <1>6, <2>1, <2>2, <2>3 DEF Fits, Continues
  <1> QED BY <1>4, <1>5, <1>6

LEMMA ReleaseFits ==
    ASSUME NEW ev \in Events, NEW w \in WorkRows, NEW a \in AttemptRows, a.exec = ev.exec,
           ev.command.kind = "release", NEW p, p = PlanRelease(ev, w, a), p # None
    PROVE  p \in Plans /\ Fits(ev, w, p) /\ Continues(ev, w, a, p)
  <1> DEFINE count == IF w.count = 0 THEN 0 ELSE w.count - 1
             row == [w EXCEPT !.status = "RETRY_WAIT", !.owner = 0, !.live = FALSE, !.by = ev, !.count = count]
             given == [a EXCEPT !.status = "RELEASED", !.by = ev]
  <1>1. \/ p = [work |-> w, attempt |-> a]
        \/ Owner(ev, w) /\ p = [work |-> row, attempt |-> given]
    BY DEF PlanRelease, Plan, GivenBack
  <1>2. count \in Nat /\ (count = w.count \/ count + 1 = w.count)
    BY DEF WorkRows
  <1> HIDE DEF count
  <1>3. /\ row \in WorkRows /\ row.status = "RETRY_WAIT" /\ row.count = count
        /\ row = [w EXCEPT !.status = row.status, !.owner = 0, !.live = FALSE, !.by = row.by,
                          !.count = row.count]
    <2>1. "RETRY_WAIT" \in Statuses
      BY ActiveIs DEF Settled
    <2>2. row \in WorkRows /\ row.status = "RETRY_WAIT" /\ row.count = count /\ row.by = ev
      BY <1>2, <2>1, LeaseNumbers DEF WorkRows
    <2>3. row = [w EXCEPT !.status = "RETRY_WAIT", !.owner = 0, !.live = FALSE, !.by = ev, !.count = count]
      OBVIOUS
    <2> HIDE DEF row
    <2> QED BY <2>2, <2>3
  <1>4. given \in AttemptRows /\ given.exec = ev.exec /\ given.status = "RELEASED"
    BY ActiveIs DEF AttemptRows, Settled
  <1> HIDE DEF row, given
  <1>5. CASE p = [work |-> w, attempt |-> a]
    BY <1>5 DEF Plans, Fits, Leaves, Continues
  <1>6. CASE Owner(ev, w) /\ p = [work |-> row, attempt |-> given]
    <2>1. p \in Plans /\ p.work = row /\ p.attempt = given
      BY <1>3, <1>4, <1>6 DEF Plans
    <2>2. Frees(ev, w, p)
      BY <1>2, <1>3, <1>4, <1>6, <2>1 DEF Frees, Settled
    <2> QED BY <1>4, <1>6, <2>1, <2>2 DEF Fits, Continues
  <1> QED BY <1>1, <1>5, <1>6

\* A plan changes the attempt and the work as its command may.
LEMMA PlansFit ==
    ASSUME NEW ev \in Events, NEW w \in WorkRows, NEW a \in AttemptRows,
           NEW p, p = PlanOf(ev, w, a), p # None
    PROVE  p \in Plans /\ Fits(ev, w, p) /\ Continues(ev, w, a, p)
  <1>1. CASE ev.command.kind = "claim_execution"
    <2>1. p = PlanClaim(ev, w, a)
      BY <1>1 DEF PlanOf
    <2> QED BY <1>1, <2>1, ClaimFits
  <1>2. CASE ev.command.kind # "claim_execution"
    <2>1. a.exec = ev.exec
      BY <1>2 DEF PlanOf
    <2>2. CASE ev.command.kind = "heartbeat"
      BY <2>1, <2>2, HeartbeatFits DEF PlanOf
    <2>3. CASE ev.command.kind = "attempt_update"
      BY <2>1, <2>3, UpdateFits DEF PlanOf
    <2>4. CASE ev.command.kind = "succeed"
      BY <2>1, <2>4, SucceedFits DEF PlanOf
    <2>5. CASE ev.command.kind = "commit"
      BY <2>1, <2>5, CommitFits DEF PlanOf
    <2>6. CASE ev.command.kind = "failure"
      BY <2>1, <2>6, FailureFits DEF PlanOf
    <2>7. CASE ev.command.kind = "release"
      BY <2>1, <2>7, ReleaseFits DEF PlanOf
    <2> QED BY <1>2, <2>2, <2>3, <2>4, <2>5, <2>6, <2>7, CommandsType
  <1> QED BY <1>1, <1>2

\* A commit that is met again is applied again.
LEMMA CommitIsMetAgain ==
    ASSUME NEW ev \in Events, NEW w \in WorkRows, NEW a \in AttemptRows, ev.command.kind = "commit",
           a.exec = ev.exec, a.status = "SUCCEEDED", w.status = "SUCCEEDED", w.committed = ev.attempt
    PROVE  PlanOf(ev, w, a) # None
  <1>1. PlanOf(ev, w, a) = Plan(w, a)
    BY DEF PlanOf, PlanCommit
  <1>2. Plan(w, a) \in Plans
    BY DEF Plans, Plan
  <1> QED BY <1>1, <1>2, PlanAssumption


-----------------------------------------------------------------------------
(* What a step leaves alone *)

LEMMA GivenUpIsFinite ==
    ASSUME NEW w \in VideoWork
    PROVE  IsFiniteSet(GivenUp(w)) /\ Cardinality(GivenUp(w)) \in Nat
  <1>1. IsFiniteSet(1 .. MaxLeases)
    BY LeaseNumbers, FS_Interval
  <1>2. IsFiniteSet(GivenUp(w))
    BY <1>1, FS_Subset DEF GivenUp
  <1> QED BY <1>2, FS_CardinalityType

\* What is given up stays given up, and is counted.
LEMMA GivenUpGrows ==
    ASSUME NEW w \in VideoWork, GivenUp(w) \subseteq GivenUp(w)'
    PROVE  Cardinality(GivenUp(w)) <= Cardinality(GivenUp(w)') /\ Cardinality(GivenUp(w)') \in Nat
           /\ Cardinality(GivenUp(w)) \in Nat
  <1>1. IsFiniteSet(1 .. MaxLeases)
    BY LeaseNumbers, FS_Interval
  <1>2. IsFiniteSet(GivenUp(w)')
    BY <1>1, FS_Subset DEF GivenUp
  <1> QED BY <1>2, FS_Subset, FS_CardinalityType

LEMMA WorkIsSame ==
    ASSUME NEW w \in VideoWork, WorkSound(w), vwork'[w] = vwork[w], vattempt'[w] = vattempt[w]
    PROVE  WorkSound(w)'
  <1>1. GivenUp(w)' = GivenUp(w)
    BY DEF GivenUp
  <1> QED BY <1>1 DEF WorkSound

LEMMA InboxBegins == EInit => EInv
  <1> SUFFICES ASSUME EInit PROVE EInv
    OBVIOUS
  <1>1. ETypeOK
    <2>1. NewWork \in WorkRows /\ NoAttempt \in AttemptRows
      <3>1. "READY" \in Statuses
        BY ActiveIs DEF Settled
      <3> QED BY <3>1, LeaseNumbers DEF NewWork, NoAttempt, WorkRows, AttemptRows
    <2>2. vwork \in [VideoWork -> WorkRows] /\ vattempt \in [VideoWork -> [1 .. MaxLeases -> AttemptRows]]
      BY <2>1 DEF EInit
    <2>3. client \in [Execution -> [work : VideoWork \cup {None}, attempt : 0 .. MaxLeases, seq : Nat]]
      BY LeaseNumbers DEF EInit
    <2>4. inbox \in Seq(Events)
      BY DEF EInit
    <2>5. receipts \in [Execution -> [seq : Nat, commit : {"APPLIED", "REJECTED", None}]]
      BY DEF EInit, NoReceipt
    <2>6. drain \in Drains
      BY DEF EInit, NoDrain, Drains
    <2> QED BY <2>2, <2>3, <2>4, <2>5, <2>6 DEF ETypeOK
  <1>2. InboxHolds
    BY DEF EInit, InboxHolds, NoReceipt
  <1>3. DrainHolds /\ PlanHolds
    BY DEF EInit, DrainHolds, InOrder, PlanHolds, NoDrain
  <1>4. ASSUME NEW w \in VideoWork PROVE WorkSound(w)
    <2>1. vwork[w] = NewWork /\ \A n \in 1 .. MaxLeases : vattempt[w][n].status = None
      BY DEF EInit, NoAttempt
    <2>2. ~IsActive("READY")
      BY ActiveIs DEF Settled
    <2>3. None # "RELEASED"
      BY EventInboxAssumption
    <2>4. Cardinality(GivenUp(w)) \in Nat
      BY GivenUpIsFinite
    <2> QED BY <2>1, <2>2, <2>3, <2>4 DEF WorkSound, NewWork
  <1>5. OutcomesHold
    BY EventInboxAssumption DEF EInit, OutcomesHold, NoDrain, NoReceipt
  <1> QED BY <1>1, <1>2, <1>3, <1>4, <1>5 DEF EInv, WorkHolds

\* Steps of the dispatcher and of time change the row of one work, which is
\* not committed.
LEMMA OthersAreSame ==
    ASSUME EInv, NEW w \in VideoWork, NEW row \in WorkRows, vwork' = [vwork EXCEPT ![w] = row],
           row.leases >= vwork[w].leases, row.committed = vwork[w].committed,
           vattempt' \in [VideoWork -> [1 .. MaxLeases -> AttemptRows]],
           \A v \in VideoWork : v # w => vattempt'[v] = vattempt[v],
           \A n \in 1 .. MaxLeases : vattempt'[w][n].exec \in {vattempt[w][n].exec, None},
           WorkSound(w)', PlanHolds',
           UNCHANGED <<client, inbox, receipts, drain>>
    PROVE  EInv'
  <1>1. /\ vwork' \in [VideoWork -> WorkRows] /\ vwork'[w] = row
        /\ \A v \in VideoWork : v # w => vwork'[v] = vwork[v]
    BY DEF EInv, ETypeOK
  <1>2. ETypeOK'
    BY <1>1 DEF EInv, ETypeOK
  <1>3. \A v \in VideoWork : /\ vwork[v].leases \in Nat /\ vwork'[v].leases \in Nat
                           /\ vwork[v].leases <= vwork'[v].leases
    BY <1>1 DEF EInv, ETypeOK, WorkRows
  <1>4. InboxHolds'
    <2>1. \A e \in Execution : client[e].work # None =>
              client[e].work \in VideoWork /\ client[e].attempt \in Nat
              /\ client[e].attempt \in 1 .. vwork'[client[e].work].leases
      BY <1>3 DEF EInv, ETypeOK, InboxHolds
    <2> QED BY <2>1 DEF EInv, InboxHolds
  <1>5. DrainHolds'
    <2>1. drain' = drain /\ inbox' = inbox
      OBVIOUS
    <2>2. DrainHolds
      BY DEF EInv
    <2> QED BY <2>1, <2>2 DEF DrainHolds
  <1>6. WorkHolds'
    BY <1>1, WorkIsSame DEF EInv, WorkHolds
  <1>7. \A v \in VideoWork : vwork'[v].committed = vwork[v].committed
    BY <1>1
  <1>8. \A v \in VideoWork, n \in 1 .. MaxLeases : vattempt'[v][n].exec \in {vattempt[v][n].exec, None}
    OBVIOUS
  <1>9. ASSUME NEW v \in VideoWork, NEW n \in 1 .. MaxLeases, NEW e \in Execution, NEW k, IsOver(e, v, n, k)
        PROVE  IsOver(e, v, n, k)'
    BY <1>7, <1>8, <1>9, EventInboxAssumption DEF IsOver
  <1>10. OutcomesHold'
    <2>1. \A i \in 1 .. Len(drain.batch) : LET ev == drain.batch[i].event
            IN  ev.work \in VideoWork /\ ev.attempt \in 1 .. MaxLeases /\ ev.exec \in Execution
      <3>1. drain.batch \in Seq(Outcomes)
        BY DEF EInv, ETypeOK, Drains
      <3>2. \A i \in 1 .. Len(drain.batch) : drain.batch[i] \in Outcomes
        BY <3>1
      <3> QED BY <3>2 DEF Outcomes, Events
    <2>2. \A i \in 1 .. Len(drain.batch) : LET ev == drain.batch[i].event
            IN  ev.command.kind = "commit" =>
                /\ drain.batch[i].outcome = "APPLIED" => vwork'[ev.work].committed = ev.attempt
                /\ drain.batch[i].outcome = "REJECTED" => IsOver(ev.exec, ev.work, ev.attempt, ev.seq)'
      BY <1>7, <1>9, <2>1 DEF EInv, OutcomesHold
    <2>3. ASSUME NEW e \in Execution, receipts[e].commit # None
          PROVE  client[e].work \in VideoWork /\ client[e].attempt \in 1 .. MaxLeases
      BY <2>3, LeaseNumbers DEF EInv, ETypeOK, InboxHolds, WorkRows
    <2>4. \A e \in Execution :
            /\ receipts[e].commit = "APPLIED" => vwork'[client[e].work].committed = client[e].attempt
            /\ receipts[e].commit = "REJECTED" =>
                   IsOver(e, client[e].work, client[e].attempt, receipts[e].seq)'
      BY <1>7, <1>9, <2>3, EventInboxAssumption DEF EInv, OutcomesHold
    <2> QED BY <2>2, <2>4 DEF OutcomesHold
  <1> QED BY <1>2, <1>4, <1>5, <1>6, <1>10 DEF EInv

LEMMA LeaseKeeps ==
    ASSUME EInv, NEW w \in VideoWork, Lease(w)
    PROVE  EInv'
  <1> DEFINE n == vwork[w].leases + 1
             count == vwork[w].count + 1
             row == [vwork[w] EXCEPT !.status = "LEASED", !.owner = n, !.live = TRUE,
                                     !.count = count, !.leases = n, !.by = None]
             leased == [NoAttempt EXCEPT !.status = "LEASED"]
  <1>1. /\ vwork[w].status \in {"READY", "RETRY_WAIT"} /\ vwork[w].leases < MaxLeases
        /\ vwork' = [vwork EXCEPT ![w] = row]
        /\ vattempt' = [vattempt EXCEPT ![w][n] = leased]
        /\ drain.pc = "free" /\ UNCHANGED <<client, inbox, receipts, drain>>
    <2>1. /\ vwork[w].status \in {"READY", "RETRY_WAIT"} /\ vwork[w].leases < MaxLeases
          /\ drain.pc = "free" /\ UNCHANGED <<client, inbox, receipts, drain>>
      BY DEF Lease
    <2>2. vwork' = [vwork EXCEPT ![w] = row]
      BY DEF Lease
    <2>3. vattempt' = [vattempt EXCEPT ![w][n] = leased]
      BY DEF Lease
    <2> QED BY <2>1, <2>2, <2>3
  <1>2. /\ vwork[w] \in WorkRows /\ vattempt[w] \in [1 .. MaxLeases -> AttemptRows] /\ WorkSound(w)
        /\ vwork[w].leases \in Nat /\ vwork[w].count \in Nat /\ vwork[w].committed \in 0 .. MaxLeases
    BY DEF EInv, ETypeOK, WorkHolds, WorkRows
  <1>3. n \in 1 .. MaxLeases /\ n \in 0 .. MaxLeases /\ n \in Nat /\ n # 0 /\ count \in Nat /\ n >= vwork[w].leases
        /\ vwork[w].leases < n
    BY <1>1, <1>2, LeaseNumbers
  <1>4. n = vwork[w].leases + 1 /\ count = vwork[w].count + 1
    OBVIOUS
  <1> HIDE DEF n, count
  <1>5. IsActive("LEASED") /\ "LEASED" \in Statuses
    BY ActiveIs
  <1>6. /\ row \in WorkRows /\ row.status = "LEASED" /\ row.owner = n /\ row.count = count /\ row.leases = n
        /\ row.committed = vwork[w].committed
    BY <1>2, <1>3, <1>5 DEF WorkRows
  <1>7. leased \in AttemptRows /\ leased.status = "LEASED" /\ leased.exec = None
    BY <1>5 DEF AttemptRows, NoAttempt
  <1> HIDE DEF row, leased
  <1>8. /\ vattempt' \in [VideoWork -> [1 .. MaxLeases -> AttemptRows]]
        /\ vattempt'[w] = [vattempt[w] EXCEPT ![n] = leased]
        /\ \A v \in VideoWork : v # w => vattempt'[v] = vattempt[v]
    BY <1>1, <1>2, <1>3, <1>7 DEF EInv, ETypeOK
  <1>9. /\ vattempt'[w][n] = leased
        /\ \A m \in 1 .. MaxLeases : m # n => vattempt'[w][m] = vattempt[w][m]
    BY <1>2, <1>3, <1>8
  <1>10. vwork'[w] = row
    BY <1>1 DEF EInv, ETypeOK
  <1>11. vwork[w].committed = 0
    BY <1>1, <1>2 DEF WorkSound
  <1>12. WorkSound(w)'
    <2>1. \A m \in GivenUp(w) : m \in 1 .. MaxLeases /\ m # n /\ vattempt[w][m].status = "RELEASED"
      BY <1>2, <1>3 DEF GivenUp, WorkSound
    <2>2. GivenUp(w) \subseteq GivenUp(w)'
      BY <1>6, <1>9, <1>10, <2>1 DEF GivenUp
    <2>3. n <= count + Cardinality(GivenUp(w)')
      <3>1. vwork[w].leases <= vwork[w].count + Cardinality(GivenUp(w))
        BY <1>2 DEF WorkSound
      <3> QED BY <1>2, <1>4, <2>2, <3>1, GivenUpGrows
    <2>4. count <= n
      BY <1>2, <1>4 DEF WorkSound
    <2>5. \A m \in 1 .. MaxLeases : m > n => vattempt'[w][m].status # "RELEASED"
      BY <1>2, <1>3, <1>4, <1>9 DEF WorkSound
    <2> QED BY <1>3, <1>6, <1>10, <1>11, <2>3, <2>4, <2>5 DEF WorkSound
  <1>13. PlanHolds'
    BY <1>1 DEF PlanHolds
  <1>14. \A m \in 1 .. MaxLeases : vattempt'[w][m].exec \in {vattempt[w][m].exec, None}
    BY <1>7, <1>9
  <1>15. row.leases >= vwork[w].leases
    BY <1>3, <1>6
  <1> QED BY <1>1, <1>6, <1>8, <1>12, <1>13, <1>14, <1>15, OthersAreSame

LEMMA LeaseEndsKeeps ==
    ASSUME EInv, NEW w \in VideoWork, LeaseEnds(w)
    PROVE  EInv'
  <1> DEFINE row == [vwork[w] EXCEPT !.live = FALSE]
  <1>1. /\ vwork' = [vwork EXCEPT ![w] = row] /\ UNCHANGED <<vattempt, client, inbox, receipts, drain>>
    BY DEF LeaseEnds
  <1>2. vwork[w] \in WorkRows /\ WorkSound(w) /\ vwork[w].leases \in Nat
    BY DEF EInv, ETypeOK, WorkHolds, WorkRows
  <1>3. /\ row \in WorkRows /\ row.status = vwork[w].status /\ row.owner = vwork[w].owner
        /\ row.count = vwork[w].count /\ row.leases = vwork[w].leases /\ row.committed = vwork[w].committed
        /\ \A b : [row EXCEPT !.live = b] = [vwork[w] EXCEPT !.live = b]
    BY <1>2 DEF WorkRows
  <1> HIDE DEF row
  <1>4. vwork'[w] = row /\ \A v \in VideoWork : v # w => vwork'[v] = vwork[v]
    BY <1>1 DEF EInv, ETypeOK
  <1>5. WorkSound(w)'
    <2>1. GivenUp(w)' = GivenUp(w)
      BY <1>1, <1>3, <1>4 DEF GivenUp
    <2> QED BY <1>1, <1>2, <1>3, <1>4, <2>1 DEF WorkSound
  <1>6. PlanHolds'
    <2> SUFFICES ASSUME drain.pc \in {"attempt", "work"} PROVE PlanHolds'
      BY <1>1 DEF PlanHolds
    <2>1. drain.todo # <<>> /\ drain.todo \in Seq(Events)
      BY DEF EInv, DrainHolds, InOrder, ETypeOK, Drains
    <2>2. drain.todo[1] \in Events /\ drain.todo[1].work \in VideoWork
      <3>1. drain.todo[1] \in Events
        BY <2>1, FrontIs
      <3> QED BY <3>1 DEF Events
    <2>3. \A b : [vwork'[drain.todo[1].work] EXCEPT !.live = b] = [vwork[drain.todo[1].work] EXCEPT !.live = b]
      BY <1>3, <1>4, <2>2
    <2> QED BY <1>1, <2>3 DEF EInv, PlanHolds
  <1>7. vattempt' \in [VideoWork -> [1 .. MaxLeases -> AttemptRows]]
    BY <1>1 DEF EInv, ETypeOK
  <1>8. row.leases >= vwork[w].leases
    BY <1>2, <1>3
  <1> QED BY <1>1, <1>3, <1>5, <1>6, <1>7, <1>8, OthersAreSame

LEMMA RecoverLeaseKeeps ==
    ASSUME EInv, NEW w \in VideoWork, RecoverLease(w)
    PROVE  EInv'
  <1> DEFINE status == IF vwork[w].count >= MaxAttempts THEN "DEAD_LETTERED" ELSE "RETRY_WAIT"
             row == [vwork[w] EXCEPT !.status = status, !.owner = 0]
  <1>1. /\ vwork' = [vwork EXCEPT ![w] = row] /\ UNCHANGED <<vattempt, client, inbox, receipts, drain>>
        /\ IsActive(vwork[w].status) /\ drain.pc = "free"
    BY DEF RecoverLease
  <1>2. vwork[w] \in WorkRows /\ WorkSound(w) /\ vwork[w].leases \in Nat /\ vwork[w].count \in Nat
    BY DEF EInv, ETypeOK, WorkHolds, WorkRows
  <1>3. status \in Settled /\ status \in Statuses
    BY ActiveIs DEF Settled
  <1> HIDE DEF status
  <1>4. /\ row \in WorkRows /\ row.status = status /\ row.owner = 0
        /\ row.count = vwork[w].count /\ row.leases = vwork[w].leases /\ row.committed = vwork[w].committed
    BY <1>2, <1>3, LeaseNumbers DEF WorkRows
  <1> HIDE DEF row
  <1>5. vwork'[w] = row
    BY <1>1 DEF EInv, ETypeOK
  <1>6. vwork[w].committed = 0
    BY <1>1, <1>2, ActiveIs DEF WorkSound, Settled
  <1>7. ~IsActive(status)
    BY <1>3, ActiveIs
  <1>8. WorkSound(w)'
    <2>1. GivenUp(w) \subseteq GivenUp(w)'
      BY <1>1, <1>4, <1>5 DEF GivenUp
    <2>2. vwork[w].leases <= vwork[w].count + Cardinality(GivenUp(w)')
      BY <1>2, <2>1, GivenUpGrows DEF WorkSound
    <2>3. \A n \in 1 .. MaxLeases : n > row.leases => vattempt'[w][n].status # "RELEASED"
      BY <1>1, <1>2, <1>4 DEF WorkSound
    <2>4. row.count <= row.leases /\ 0 <= row.leases
      BY <1>2, <1>4 DEF WorkSound
    <2> QED BY <1>4, <1>5, <1>6, <1>7, <2>2, <2>3, <2>4 DEF WorkSound
  <1>9. PlanHolds'
    BY <1>1 DEF PlanHolds
  <1>10. vattempt' \in [VideoWork -> [1 .. MaxLeases -> AttemptRows]]
    BY <1>1 DEF EInv, ETypeOK
  <1>11. row.leases >= vwork[w].leases
    BY <1>2, <1>4
  <1> QED BY <1>1, <1>4, <1>8, <1>9, <1>10, <1>11, OthersAreSame


-----------------------------------------------------------------------------
(* The clients *)

\* What the inbox says of its commands.
LEMMA InboxFacts ==
    ASSUME EInv, NEW i \in 1 .. Len(inbox)
    PROVE  /\ inbox[i] \in Events /\ inbox[i].exec \in Execution /\ inbox[i].seq \in Nat
           /\ inbox[i].work \in VideoWork /\ inbox[i].attempt \in 1 .. MaxLeases
           /\ inbox[i].work = client[inbox[i].exec].work /\ inbox[i].attempt = client[inbox[i].exec].attempt
           /\ inbox[i].attempt <= vwork[inbox[i].work].leases
           /\ receipts[inbox[i].exec].seq < inbox[i].seq /\ inbox[i].seq <= client[inbox[i].exec].seq
  <1>1. inbox[i] \in Events
    BY DEF EInv, ETypeOK
  <1>2. /\ inbox[i].exec \in Execution /\ inbox[i].seq \in Nat
        /\ inbox[i].work \in VideoWork /\ inbox[i].attempt \in 1 .. MaxLeases
    BY <1>1 DEF Events
  <1>3. /\ inbox[i].work = client[inbox[i].exec].work /\ inbox[i].attempt = client[inbox[i].exec].attempt
        /\ receipts[inbox[i].exec].seq < inbox[i].seq /\ inbox[i].seq <= client[inbox[i].exec].seq
    BY DEF EInv, InboxHolds
  <1>4. client[inbox[i].exec].work # None
    BY <1>2, <1>3, EventInboxAssumption
  <1>5. inbox[i].attempt \in 1 .. vwork[inbox[i].work].leases
    BY <1>2, <1>3, <1>4 DEF EInv, InboxHolds
  <1> QED BY <1>1, <1>2, <1>3, <1>5

LEMMA SequencesType ==
    ASSUME EInv
    PROVE  /\ inbox \in Seq(Events) /\ Len(inbox) \in Nat
           /\ drain.todo \in Seq(Events) /\ Len(drain.todo) \in Nat
           /\ drain.batch \in Seq(Outcomes) /\ Len(drain.batch) \in Nat
           /\ \A e \in Execution : client[e].seq \in Nat /\ receipts[e].seq \in Nat
  BY DEF EInv, ETypeOK, Drains

LEMMA BatchFacts ==
    ASSUME EInv, NEW i \in 1 .. Len(drain.batch)
    PROVE  /\ drain.batch[i] \in Outcomes /\ drain.batch[i].event = inbox[i] /\ i \in 1 .. Len(inbox)
           /\ drain.batch[i].event.exec \in Execution /\ drain.batch[i].event.seq \in Nat
           /\ drain.batch[i].event.seq <= client[drain.batch[i].event.exec].seq
           /\ drain.batch[i].event.work \in VideoWork /\ drain.batch[i].event.attempt \in 1 .. MaxLeases
           /\ drain.batch[i].event.work = client[drain.batch[i].event.exec].work
           /\ drain.batch[i].event.attempt = client[drain.batch[i].event.exec].attempt
  <1>1. drain.batch[i] \in Outcomes
    BY SequencesType
  <1>2. drain.batch[i].event = inbox[i] /\ Len(drain.batch) + Len(drain.todo) <= Len(inbox)
    BY DEF EInv, DrainHolds, InOrder
  <1>3. i \in 1 .. Len(inbox)
    <2> DEFINE k == Len(drain.batch)
               l == Len(drain.todo)
               m == Len(inbox)
    <2>1. k \in Nat /\ l \in Nat /\ m \in Nat /\ k + l <= m /\ i \in 1 .. k
      BY <1>2, SequencesType
    <2> HIDE DEF k, l, m
    <2>2. i \in 1 .. m
      BY <2>1
    <2> QED BY <2>2 DEF m
  <1> QED BY <1>1, <1>2, <1>3, InboxFacts

LEMMA StartExecutionKeeps ==
    ASSUME EInv, NEW e \in Execution, NEW w \in VideoWork, StartExecution(e, w)
    PROVE  EInv'
  <1> DEFINE row == [client[e] EXCEPT !.work = w, !.attempt = vwork[w].owner]
  <1>1. /\ client[e].work = None /\ IsActive(vwork[w].status)
        /\ UNCHANGED <<vwork, vattempt, inbox, receipts, drain>>
    BY DEF StartExecution
  <1>2. client' = [client EXCEPT ![e] = row]
    <2>1. client \in [Execution -> [work : VideoWork \cup {None}, attempt : 0 .. MaxLeases, seq : Nat]]
      BY DEF EInv, ETypeOK
    <2> QED BY <2>1 DEF StartExecution
  <1>3. /\ row \in [work : VideoWork \cup {None}, attempt : 0 .. MaxLeases, seq : Nat]
        /\ row.work = w /\ row.attempt = vwork[w].owner /\ row.attempt \in 1 .. vwork[w].leases
        /\ row.seq = client[e].seq
    <2>1. vwork[w] \in WorkRows /\ WorkSound(w)
      BY DEF EInv, ETypeOK, WorkHolds
    <2>2. vwork[w].owner \in 0 .. MaxLeases /\ vwork[w].owner # 0 /\ vwork[w].owner <= vwork[w].leases
          /\ vwork[w].leases \in 0 .. MaxLeases
      BY <1>1, <2>1 DEF WorkSound, WorkRows
    <2>3. vwork[w].owner \in 1 .. vwork[w].leases
      BY <2>2, LeaseNumbers
    <2>4. client[e] \in [work : VideoWork \cup {None}, attempt : 0 .. MaxLeases, seq : Nat]
      BY DEF EInv, ETypeOK
    <2> QED BY <2>2, <2>3, <2>4
  <1> HIDE DEF row
  <1>4. /\ client'[e] = row /\ \A d \in Execution : d # e => client'[d] = client[d]
        /\ client' \in [Execution -> [work : VideoWork \cup {None}, attempt : 0 .. MaxLeases, seq : Nat]]
    BY <1>2, <1>3 DEF EInv, ETypeOK
  <1>5. ETypeOK'
    BY <1>1, <1>4 DEF EInv, ETypeOK
  <1>6. \A i \in 1 .. Len(inbox) : inbox[i].exec # e /\ inbox[i].exec \in Execution
    BY <1>1, InboxFacts, EventInboxAssumption
  <1>7. receipts[e].commit = None
    BY <1>1 DEF EInv, InboxHolds
  <1>8. InboxHolds'
    <2>1. \A d \in Execution :
            /\ client'[d].work # None => client'[d].attempt \in 1 .. vwork[client'[d].work].leases
            /\ receipts[d].commit # None => client'[d].work # None
            /\ receipts[d].seq <= client'[d].seq
      BY <1>3, <1>4, <1>7 DEF EInv, InboxHolds
    <2>2. \A i \in 1 .. Len(inbox) :
            /\ inbox[i].work = client'[inbox[i].exec].work /\ inbox[i].attempt = client'[inbox[i].exec].attempt
            /\ receipts[inbox[i].exec].seq < inbox[i].seq /\ inbox[i].seq <= client'[inbox[i].exec].seq
      BY <1>4, <1>6, InboxFacts
    <2>3. \A i, j \in 1 .. Len(inbox) :
            i < j /\ inbox[i].exec = inbox[j].exec => inbox[i].seq < inbox[j].seq
      BY DEF EInv, InboxHolds
    <2> QED BY <1>1, <2>1, <2>2, <2>3 DEF InboxHolds
  <1>9. DrainHolds' /\ PlanHolds'
    BY <1>1 DEF EInv, DrainHolds, PlanHolds
  <1>10. WorkHolds'
    BY <1>1, WorkIsSame DEF EInv, WorkHolds
  <1>11. \A d \in Execution : client'[d].seq = client[d].seq
    BY <1>3, <1>4
  <1>12. OutcomesHold'
    <2>1. \A i \in 1 .. Len(drain.batch) : drain.batch[i].event.exec \in Execution
      BY BatchFacts
    <2>2. ASSUME NEW i \in 1 .. Len(drain.batch), drain.batch[i].event.command.kind = "commit"
          PROVE  LET ev == drain.batch[i].event
                 IN  /\ drain.batch[i].outcome = "APPLIED" => vwork[ev.work].committed = ev.attempt
                     /\ drain.batch[i].outcome = "REJECTED" => IsOver(ev.exec, ev.work, ev.attempt, ev.seq)'
      BY <1>1, <1>11, <2>1, <2>2 DEF EInv, OutcomesHold, IsOver
    <2>3. ASSUME NEW d \in Execution
          PROVE  /\ receipts[d].commit = "APPLIED" => vwork[client'[d].work].committed = client'[d].attempt
                 /\ receipts[d].commit = "REJECTED" =>
                        IsOver(d, client[d].work, client[d].attempt, receipts[d].seq)' 
      <3>1. CASE d = e
        BY <1>7, <3>1, EventInboxAssumption
      <3>2. CASE d # e
        BY <1>1, <1>4, <1>11, <3>2 DEF EInv, OutcomesHold, IsOver
      <3> QED BY <3>1, <3>2
    <2> QED BY <1>1, <2>2, <2>3 DEF OutcomesHold
  <1> QED BY <1>5, <1>8, <1>9, <1>10, <1>12 DEF EInv

LEMMA SubmitCommandKeeps ==
    ASSUME EInv, NEW e \in Execution, NEW asked \in Commands, SubmitCommand(e, asked)
    PROVE  EInv'
  <1> DEFINE number == client[e].seq + 1
             row == [client[e] EXCEPT !.seq = number]
             ev == [exec |-> e, seq |-> number, work |-> client[e].work,
                    attempt |-> client[e].attempt, command |-> asked]
  <1>1. /\ client[e].work # None /\ UNCHANGED <<vwork, vattempt, receipts, drain>>
        /\ inbox' = Append(inbox, ev)
    BY DEF SubmitCommand
  <1>2. client[e] \in [work : VideoWork \cup {None}, attempt : 0 .. MaxLeases, seq : Nat]
        /\ client \in [Execution -> [work : VideoWork \cup {None}, attempt : 0 .. MaxLeases, seq : Nat]]
    BY DEF EInv, ETypeOK
  <1>3. client' = [client EXCEPT ![e] = row]
    BY <1>2 DEF SubmitCommand
  <1>4. number \in Nat /\ client[e].seq \in Nat /\ client[e].seq < number
    BY <1>2
  <1> HIDE DEF number
  <1>5. /\ row \in [work : VideoWork \cup {None}, attempt : 0 .. MaxLeases, seq : Nat]
        /\ row.work = client[e].work /\ row.attempt = client[e].attempt /\ row.seq = number
    BY <1>2, <1>4
  <1>6. ev \in Events /\ ev.exec = e /\ ev.seq = number /\ ev.work = client[e].work /\ ev.attempt = client[e].attempt
    <2>1. client[e].work \in VideoWork /\ asked \in WellFormed
      BY <1>1, <1>2, EventInboxAssumption
    <2>2. client[e].attempt \in 1 .. MaxLeases
      <3>1. client[e].attempt \in 1 .. vwork[client[e].work].leases
        BY <1>1 DEF EInv, InboxHolds
      <3>2. vwork[client[e].work].leases \in 0 .. MaxLeases
        BY <2>1 DEF EInv, ETypeOK, WorkRows
      <3> QED BY <3>1, <3>2, LeaseNumbers
    <2> QED BY <1>4, <2>1, <2>2 DEF Events
  <1> HIDE DEF row, ev
  <1>7. /\ client'[e] = row /\ \A d \in Execution : d # e => client'[d] = client[d]
        /\ client' \in [Execution -> [work : VideoWork \cup {None}, attempt : 0 .. MaxLeases, seq : Nat]]
    BY <1>2, <1>3, <1>5
  <1>8. /\ inbox' \in Seq(Events) /\ Len(inbox') = Len(inbox) + 1 /\ Len(inbox) \in Nat
        /\ inbox'[Len(inbox) + 1] = ev
        /\ \A i \in 1 .. Len(inbox) : inbox'[i] = inbox[i]
    BY <1>1, <1>6, SequencesType, AppendProperties
  <1>9. ETypeOK'
    BY <1>1, <1>7, <1>8 DEF EInv, ETypeOK
  <1>10. \A d \in Execution : /\ client'[d].work = client[d].work /\ client'[d].attempt = client[d].attempt
                            /\ client[d].seq <= client'[d].seq /\ client[d].seq \in Nat /\ client'[d].seq \in Nat
    BY <1>2, <1>4, <1>5, <1>7
  <1>11. \A i \in 1 .. Len(inbox') : i = Len(inbox) + 1 \/ i \in 1 .. Len(inbox)
    BY <1>8
  <1>12. receipts[e].seq <= client[e].seq /\ receipts[e].seq \in Nat
    BY SequencesType DEF EInv, InboxHolds
  <1>13. InboxHolds'
    <2>1. \A d \in Execution :
            /\ client'[d].work # None => client'[d].attempt \in 1 .. vwork[client'[d].work].leases
            /\ receipts[d].commit # None => client'[d].work # None
            /\ receipts[d].seq <= client'[d].seq
      BY <1>10, SequencesType DEF EInv, InboxHolds
    <2>2. ASSUME NEW i \in 1 .. Len(inbox')
          PROVE  /\ inbox'[i].work = client'[inbox'[i].exec].work
                 /\ inbox'[i].attempt = client'[inbox'[i].exec].attempt
                 /\ receipts[inbox'[i].exec].seq < inbox'[i].seq /\ inbox'[i].seq <= client'[inbox'[i].exec].seq
      <3>1. CASE i = Len(inbox) + 1
        BY <1>4, <1>5, <1>6, <1>7, <1>8, <1>12, <3>1
      <3>2. CASE i \in 1 .. Len(inbox)
        <4>1. inbox'[i] = inbox[i] /\ inbox[i].exec \in Execution /\ inbox[i].seq \in Nat
          BY <1>8, <3>2, InboxFacts
        <4>2. /\ inbox[i].work = client[inbox[i].exec].work /\ inbox[i].attempt = client[inbox[i].exec].attempt
              /\ receipts[inbox[i].exec].seq < inbox[i].seq /\ inbox[i].seq <= client[inbox[i].exec].seq
          BY <3>2, InboxFacts
        <4> QED BY <1>10, <4>1, <4>2
      <3> QED BY <1>11, <3>1, <3>2
    <2>3. ASSUME NEW i \in 1 .. Len(inbox'), NEW j \in 1 .. Len(inbox'), i < j, inbox'[i].exec = inbox'[j].exec
          PROVE  inbox'[i].seq < inbox'[j].seq
      <3>1. i \in 1 .. Len(inbox)
        BY <1>8, <2>3
      <3>2. CASE j = Len(inbox) + 1
        <4>1. inbox[i].exec = e /\ inbox[i].seq <= client[e].seq /\ inbox[i].seq \in Nat
          BY <1>6, <1>8, <2>3, <3>1, <3>2, InboxFacts
        <4> QED BY <1>4, <1>6, <1>8, <3>1, <3>2, <4>1
      <3>3. CASE j \in 1 .. Len(inbox)
        BY <1>8, <2>3, <3>1, <3>3 DEF EInv, InboxHolds
      <3> QED BY <1>11, <3>2, <3>3
    <2> QED BY <1>1, <2>1, <2>2, <2>3 DEF InboxHolds
  <1>14. DrainHolds'
    <2>1. InOrder(drain.pc, drain.batch, drain.todo, inbox)
      BY DEF EInv, DrainHolds
    <2>2. InOrder(drain.pc, drain.batch, drain.todo, inbox')
      <3> DEFINE k == Len(drain.batch)
                 l == Len(drain.todo)
                 m == Len(inbox)
                 more == Len(inbox')
      <3>1. /\ k \in Nat /\ l \in Nat /\ m \in Nat /\ k + l <= m /\ more = m + 1
            /\ \A i \in 1 .. m : inbox'[i] = inbox[i]
            /\ \A i \in 1 .. k : drain.batch[i].event = inbox[i]
            /\ \A i \in 1 .. l : drain.todo[i] = inbox[k + i]
        BY <1>8, <2>1, SequencesType DEF InOrder
      <3> HIDE DEF k, l, m, more
      <3>2. k + l <= more
        BY <3>1
      <3>3. \A i \in 1 .. k : i \in 1 .. m
        BY <3>1
      <3>4. \A i \in 1 .. l : k + i \in 1 .. m
        BY <3>1
      <3>5. \A i \in 1 .. k : drain.batch[i].event = inbox'[i]
        BY <3>1, <3>3
      <3>6. \A i \in 1 .. l : drain.todo[i] = inbox'[k + i]
        BY <3>1, <3>4
      <3> QED BY <2>1, <3>2, <3>5, <3>6 DEF InOrder, k, l, more
    <2> QED BY <1>1, <2>2 DEF DrainHolds
  <1>15. PlanHolds'
    BY <1>1 DEF EInv, PlanHolds
  <1>16. WorkHolds'
    BY <1>1, WorkIsSame DEF EInv, WorkHolds
  <1>17. \A d \in Execution : \A q \in Nat : q <= client[d].seq /\ q = client'[d].seq => q = client[d].seq
    BY <1>10
  <1>18. OutcomesHold'
    <2>1. \A i \in 1 .. Len(drain.batch) :
            /\ drain.batch[i].event.exec \in Execution /\ drain.batch[i].event.seq \in Nat
            /\ drain.batch[i].event.seq <= client[drain.batch[i].event.exec].seq
      BY BatchFacts
    <2>2. ASSUME NEW i \in 1 .. Len(drain.batch), drain.batch[i].event.command.kind = "commit"
          PROVE  LET x == drain.batch[i].event
                 IN  /\ drain.batch[i].outcome = "APPLIED" => vwork[x.work].committed = x.attempt
                     /\ drain.batch[i].outcome = "REJECTED" =>
                            (x.seq = client'[x.exec].seq /\ vattempt[x.work][x.attempt].exec = x.exec
                               => vwork[x.work].committed # x.attempt)
      BY <1>17, <2>1, <2>2 DEF EInv, OutcomesHold, IsOver
    <2>3. ASSUME NEW d \in Execution
          PROVE  /\ receipts[d].commit = "APPLIED" => vwork[client'[d].work].committed = client'[d].attempt
                 /\ receipts[d].commit = "REJECTED" =>
                        (receipts[d].seq = client'[d].seq /\ vattempt[client'[d].work][client'[d].attempt].exec = d
                            => vwork[client'[d].work].committed # client'[d].attempt)
      <3>1. receipts[d].seq \in Nat /\ receipts[d].seq <= client[d].seq
        BY SequencesType DEF EInv, InboxHolds
      <3>2. client[d].work = client'[d].work /\ client[d].attempt = client'[d].attempt
        BY <1>10
      <3> QED BY <1>17, <3>1, <3>2 DEF EInv, OutcomesHold, IsOver
    <2> QED BY <1>1, <2>2, <2>3 DEF OutcomesHold, IsOver
  <1> QED BY <1>9, <1>13, <1>14, <1>15, <1>16, <1>18 DEF EInv


-----------------------------------------------------------------------------
(* The drain *)

\* The drain forgets what it was doing.
LEMMA DrainForgets ==
    ASSUME EInv, drain' = NoDrain, UNCHANGED <<vwork, vattempt, client, inbox, receipts>>
    PROVE  EInv'
  <1>1. drain' \in Drains
    BY DEF NoDrain, Drains
  <1>2. ETypeOK'
    BY <1>1 DEF EInv, ETypeOK
  <1>3. InboxHolds'
    BY DEF EInv, InboxHolds
  <1>4. DrainHolds' /\ PlanHolds'
    BY SequencesType DEF DrainHolds, InOrder, PlanHolds, NoDrain
  <1>5. WorkHolds'
    BY WorkIsSame DEF EInv, WorkHolds
  <1>6. OutcomesHold'
    BY DEF EInv, OutcomesHold, IsOver, NoDrain
  <1> QED BY <1>2, <1>3, <1>4, <1>5, <1>6 DEF EInv

LEMMA DrainStopsKeeps ==
    ASSUME EInv, DrainStops \/ DrainEnds
    PROVE  EInv'
  BY DrainForgets DEF DrainStops, DrainEnds

LEMMA DrainBeginsKeeps ==
    ASSUME EInv, DrainBegins
    PROVE  EInv'
  <1>1. /\ drain' = [NoDrain EXCEPT !.pc = "next", !.todo = inbox]
        /\ UNCHANGED <<vwork, vattempt, client, inbox, receipts>>
    BY DEF DrainBegins
  <1>2. /\ drain' \in Drains
        /\ drain'.pc = "next" /\ drain'.todo = inbox /\ drain'.batch = <<>>
    <2>1. inbox \in Seq(Events) /\ <<>> \in Seq(Outcomes)
      BY SequencesType
    <2>2. drain' = [pc |-> "next", todo |-> inbox, before |-> None, plan |-> None, batch |-> <<>>]
      BY <1>1 DEF NoDrain
    <2> QED BY <2>1, <2>2 DEF Drains
  <1>3. ETypeOK'
    BY <1>1, <1>2 DEF EInv, ETypeOK
  <1>4. InboxHolds'
    BY <1>1 DEF EInv, InboxHolds
  <1>5. DrainHolds' /\ PlanHolds'
    BY <1>1, <1>2, SequencesType DEF DrainHolds, InOrder, PlanHolds
  <1>6. WorkHolds'
    BY <1>1, WorkIsSame DEF EInv, WorkHolds
  <1>7. OutcomesHold'
    BY <1>1, <1>2 DEF EInv, OutcomesHold, IsOver
  <1> QED BY <1>3, <1>4, <1>5, <1>6, <1>7 DEF EInv

\* What the receipts of a batch say.
LEMMA AcknowledgedIs ==
    ASSUME EInv, NEW e \in Execution
    PROVE  \/ Acknowledged(drain.batch)[e] = receipts[e]
           \/ \E i \in 1 .. Len(drain.batch) :
                /\ drain.batch[i].event.exec = e
                /\ Acknowledged(drain.batch)[e] =
                     [seq |-> drain.batch[i].event.seq,
                      commit |-> IF drain.batch[i].event.command.kind = "commit"
                                 THEN drain.batch[i].outcome ELSE None]
  <1> DEFINE here == \E i \in DOMAIN drain.batch : drain.batch[i].event.exec = e
             i == CHOOSE i \in DOMAIN drain.batch : drain.batch[i].event.exec = e
  <1>1. DOMAIN drain.batch = 1 .. Len(drain.batch)
    BY SequencesType
  <1>2. CASE ~here
    BY <1>2 DEF Acknowledged
  <1>3. CASE here
    <2>1. i \in DOMAIN drain.batch /\ drain.batch[i].event.exec = e
      BY <1>3
    <2>2. Acknowledged(drain.batch)[e] =
              [seq |-> drain.batch[i].event.seq,
               commit |-> IF drain.batch[i].event.command.kind = "commit"
                          THEN drain.batch[i].outcome ELSE None]
      BY <1>3 DEF Acknowledged
    <2> HIDE DEF i
    <2> QED BY <1>1, <2>1, <2>2
  <1> QED BY <1>2, <1>3

LEMMA FlushReceiptsKeeps ==
    ASSUME EInv, FlushReceipts
    PROVE  EInv'
  <1> DEFINE batch == drain.batch
             k == Len(batch)
             l == Len(drain.todo)
             m == Len(inbox)
             left == Len(inbox')
  <1>1. /\ drain.pc = "next" /\ receipts' = Acknowledged(drain.batch)
        /\ inbox' = SubSeq(inbox, k + 1, m)
        /\ drain' = [drain EXCEPT !.batch = <<>>]
        /\ UNCHANGED <<vwork, vattempt, client>>
    BY DEF FlushReceipts, Unacknowledged
  <1>2. k \in Nat /\ l \in Nat /\ m \in Nat /\ k + l <= m
    BY SequencesType DEF EInv, DrainHolds, InOrder
  <1>3. /\ inbox' \in Seq(Events) /\ left = m - k
        /\ \A i \in 1 .. left : inbox'[i] = inbox[k + i]
    <2> DEFINE n == k + 1
    <2>1. n \in Int /\ m \in Int /\ (\A i \in n .. m : i \in 1 .. m)
      <3> HIDE DEF k, m
      <3> QED BY <1>2
    <2>2. \A i \in n .. m : inbox[i] \in Events
      BY <2>1, SequencesType
    <2>3. inbox' = SubSeq(inbox, n, m)
      BY <1>1
    <2>4. n = k + 1
      OBVIOUS
    <2> HIDE DEF k, m, n
    <2>5. /\ inbox' \in Seq(Events)
          /\ Len(inbox') = IF n <= m THEN m - n + 1 ELSE 0
          /\ \A i \in 1 .. m - n + 1 : inbox'[i] = inbox[n + i - 1]
      BY <2>1, <2>2, <2>3, SubSeqProperties
    <2>6. left = m - k /\ m - n + 1 = m - k
      BY <1>2, <2>4, <2>5
    <2>7. \A i \in 1 .. left : n + i - 1 = k + i
      BY <1>2, <2>4, <2>6
    <2> QED BY <2>5, <2>6, <2>7
  <1>4. drain \in Drains
    BY DEF EInv, ETypeOK
  <1>5. /\ drain' \in Drains
        /\ drain'.pc = "next" /\ drain'.todo = drain.todo /\ drain'.batch = <<>>
    <2>1. <<>> \in Seq(Outcomes)
      OBVIOUS
    <2> QED BY <1>1, <1>4, <2>1 DEF Drains
  <1>6. \A e \in Execution :
           \/ receipts'[e] = receipts[e]
           \/ \E i \in 1 .. k :
                /\ batch[i].event.exec = e
                /\ receipts'[e] = [seq |-> batch[i].event.seq,
                                   commit |-> IF batch[i].event.command.kind = "commit"
                                              THEN batch[i].outcome ELSE None]
    BY <1>1, AcknowledgedIs
  <1>7. \A i \in 1 .. k : batch[i].event = inbox[i] /\ i \in 1 .. m /\ batch[i].outcome \in {"APPLIED", "REJECTED"}
    BY BatchFacts DEF Outcomes
  <1>8. \A i \in 1 .. left : k + i \in 1 .. m /\ k < k + i
    <2> HIDE DEF k, m, left
    <2> QED BY <1>2, <1>3
  <1> HIDE DEF batch, k, l, m, left
  <1>9. receipts' \in [Execution -> [seq : Nat, commit : {"APPLIED", "REJECTED", None}]]
    <2>1. receipts \in [Execution -> [seq : Nat, commit : {"APPLIED", "REJECTED", None}]]
      BY DEF EInv, ETypeOK
    <2>2. ASSUME NEW e \in Execution
          PROVE  receipts'[e] \in [seq : Nat, commit : {"APPLIED", "REJECTED", None}]
      <3>1. CASE receipts'[e] = receipts[e]
        BY <2>1, <3>1
      <3>2. CASE receipts'[e] # receipts[e]
        <4>1. PICK i \in 1 .. k :
                 receipts'[e] = [seq |-> batch[i].event.seq,
                                 commit |-> IF batch[i].event.command.kind = "commit"
                                            THEN batch[i].outcome ELSE None]
          BY <1>6, <3>2
        <4>2. batch[i].event.seq \in Nat
          BY <1>7, InboxFacts DEF m
        <4> QED BY <1>7, <4>1, <4>2
      <3> QED BY <3>1, <3>2
    <2>3. DOMAIN receipts' = Execution /\ receipts' = [e \in Execution |-> receipts'[e]]
      BY <1>1 DEF Acknowledged
    <2> QED BY <2>2, <2>3
  <1>10. ETypeOK'
    BY <1>1, <1>3, <1>5, <1>9 DEF EInv, ETypeOK
  <1>11. InboxHolds'
    <2>1. ASSUME NEW e \in Execution
          PROVE  /\ client[e].work # None => client[e].attempt \in 1 .. vwork[client[e].work].leases
                 /\ receipts'[e].commit # None => client[e].work # None
                 /\ receipts'[e].seq <= client[e].seq
      <3>1. CASE receipts'[e] = receipts[e]
        BY <3>1 DEF EInv, InboxHolds
      <3>2. CASE receipts'[e] # receipts[e]
        <4>1. PICK i \in 1 .. k : batch[i].event.exec = e /\ receipts'[e].seq = batch[i].event.seq
          <5>1. PICK i \in 1 .. k :
                   /\ batch[i].event.exec = e
                   /\ receipts'[e] = [seq |-> batch[i].event.seq,
                                      commit |-> IF batch[i].event.command.kind = "commit"
                                                 THEN batch[i].outcome ELSE None]
            BY <1>6, <3>2
          <5> QED BY <5>1
        <4>2. /\ inbox[i].exec = e /\ receipts'[e].seq = inbox[i].seq /\ inbox[i].work = client[e].work
              /\ inbox[i].work \in VideoWork /\ inbox[i].seq <= client[e].seq
          BY <1>7, <4>1, InboxFacts DEF m
        <4> QED BY <4>2, EventInboxAssumption DEF EInv, InboxHolds
      <3> QED BY <3>1, <3>2
    <2>2. \A i \in 1 .. m, j \in 1 .. m :
              i < j /\ inbox[i].exec = inbox[j].exec => inbox[i].seq < inbox[j].seq
      BY DEF EInv, InboxHolds, m
    <2>3. ASSUME NEW i \in 1 .. left
          PROVE  /\ inbox'[i].work = client[inbox'[i].exec].work
                 /\ inbox'[i].attempt = client[inbox'[i].exec].attempt
                 /\ receipts'[inbox'[i].exec].seq < inbox'[i].seq
                 /\ inbox'[i].seq <= client[inbox'[i].exec].seq
      <3> DEFINE j == k + i
      <3>1. j \in 1 .. m /\ k < j /\ inbox'[i] = inbox[j]
        BY <1>3, <1>8
      <3> HIDE DEF j
      <3>2. /\ inbox[j].work = client[inbox[j].exec].work /\ inbox[j].attempt = client[inbox[j].exec].attempt
            /\ receipts[inbox[j].exec].seq < inbox[j].seq /\ inbox[j].seq <= client[inbox[j].exec].seq
            /\ inbox[j].exec \in Execution
        BY <3>1, InboxFacts DEF m
      <3>3. receipts'[inbox[j].exec].seq < inbox[j].seq
        <4>1. CASE receipts'[inbox[j].exec] = receipts[inbox[j].exec]
          BY <3>2, <4>1
        <4>2. CASE receipts'[inbox[j].exec] # receipts[inbox[j].exec]
          <5>1. PICK h \in 1 .. k : batch[h].event.exec = inbox[j].exec
                                   /\ receipts'[inbox[j].exec].seq = batch[h].event.seq
            <6>1. PICK h \in 1 .. k :
                     /\ batch[h].event.exec = inbox[j].exec
                     /\ receipts'[inbox[j].exec] =
                            [seq |-> batch[h].event.seq,
                             commit |-> IF batch[h].event.command.kind = "commit"
                                        THEN batch[h].outcome ELSE None]
              BY <1>6, <3>2, <4>2
            <6> QED BY <6>1
          <5>2. h \in 1 .. m /\ batch[h].event = inbox[h] /\ h < j
            BY <1>2, <1>7, <3>1, <5>1
          <5> QED BY <2>2, <3>1, <5>1, <5>2
        <4> QED BY <4>1, <4>2
      <3> QED BY <3>1, <3>2, <3>3
    <2>4. ASSUME NEW i \in 1 .. left, NEW j \in 1 .. left, i < j, inbox'[i].exec = inbox'[j].exec
          PROVE  inbox'[i].seq < inbox'[j].seq
      <3>1. k + i \in 1 .. m /\ k + j \in 1 .. m /\ k + i < k + j
        BY <1>2, <1>3, <1>8, <2>4
      <3> QED BY <1>3, <2>2, <2>4, <3>1
    <2> QED BY <1>1, <2>1, <2>3, <2>4 DEF InboxHolds, left
  <1>12. DrainHolds' /\ PlanHolds'
    <2>1. \A i \in 1 .. l : drain.todo[i] = inbox[k + i] /\ i \in 1 .. left
      <3>1. \A i \in 1 .. l : drain.todo[i] = inbox[k + i]
        BY DEF EInv, DrainHolds, InOrder, k, l, batch
      <3>2. \A i \in 1 .. l : i \in 1 .. left
        BY <1>2, <1>3
      <3> QED BY <3>1, <3>2
    <2>2. \A i \in 1 .. l : drain.todo[i] = inbox'[0 + i]
      BY <1>3, <2>1
    <2>3. 0 + l <= left
      BY <1>2, <1>3
    <2>4. InOrder("next", <<>>, drain.todo, inbox')
      BY <2>2, <2>3 DEF InOrder, l, left
    <2> QED BY <1>5, <2>4 DEF DrainHolds, PlanHolds
  <1>13. WorkHolds'
    BY <1>1, WorkIsSame DEF EInv, WorkHolds
  <1>14. OutcomesHold'
    <2>1. ASSUME NEW e \in Execution
          PROVE  /\ receipts'[e].commit = "APPLIED" => vwork[client[e].work].committed = client[e].attempt
                 /\ receipts'[e].commit = "REJECTED" =>
                        (receipts'[e].seq = client[e].seq /\ vattempt[client[e].work][client[e].attempt].exec = e
                            => vwork[client[e].work].committed # client[e].attempt)
      <3>1. CASE receipts'[e] = receipts[e]
        BY <3>1 DEF EInv, OutcomesHold, IsOver
      <3>2. CASE receipts'[e] # receipts[e]
        <4>1. PICK i \in 1 .. k :
                /\ batch[i].event.exec = e
                /\ receipts'[e] = [seq |-> batch[i].event.seq,
                                   commit |-> IF batch[i].event.command.kind = "commit"
                                              THEN batch[i].outcome ELSE None]
          BY <1>6, <3>2
        <4>2. /\ batch[i].event.work = client[e].work /\ batch[i].event.attempt = client[e].attempt
          BY <4>1, BatchFacts DEF k, batch
        <4>3. batch[i].event.command.kind = "commit" =>
                /\ batch[i].outcome = "APPLIED" => vwork[client[e].work].committed = client[e].attempt
                /\ batch[i].outcome = "REJECTED" =>
                      IsOver(e, client[e].work, client[e].attempt, batch[i].event.seq)
          BY <4>1, <4>2 DEF EInv, OutcomesHold, k, batch
        <4>4. None # "APPLIED" /\ None # "REJECTED"
          BY EventInboxAssumption
        <4> QED BY <4>1, <4>3, <4>4 DEF IsOver
      <3> QED BY <3>1, <3>2
    <2> QED BY <1>1, <1>5, <2>1 DEF OutcomesHold, IsOver
  <1> QED BY <1>10, <1>11, <1>12, <1>13, <1>14 DEF EInv


\* The command that the drain is at.
LEMMA TodoFacts ==
    ASSUME EInv, drain.todo # <<>>, NEW ev, ev = Head(drain.todo)
    PROVE  /\ ev = drain.todo[1] /\ ev \in Events /\ ev.exec \in Execution /\ ev.seq \in Nat
           /\ ev.work \in VideoWork /\ ev.attempt \in 1 .. MaxLeases
           /\ ev.work = client[ev.exec].work /\ ev.attempt = client[ev.exec].attempt
           /\ ev.attempt <= vwork[ev.work].leases
           /\ receipts[ev.exec].seq < ev.seq /\ ev.seq <= client[ev.exec].seq
           /\ ev = inbox[Len(drain.batch) + 1] /\ Len(drain.todo) \in Nat \ {0}
           /\ Tail(drain.todo) \in Seq(Events) /\ Len(Tail(drain.todo)) = Len(drain.todo) - 1
           /\ \A i \in 1 .. Len(Tail(drain.todo)) : Tail(drain.todo)[i] = drain.todo[i + 1]
           /\ vwork[ev.work] \in WorkRows /\ vattempt[ev.work][ev.attempt] \in AttemptRows
           /\ WorkSound(ev.work)
  <1> DEFINE k == Len(drain.batch)
             l == Len(drain.todo)
             m == Len(inbox)
             j == k + 1
  <1>1. drain.todo \in Seq(Events) /\ k \in Nat /\ l \in Nat /\ m \in Nat
    BY SequencesType
  <1>2. ev = drain.todo[1] /\ l \in Nat \ {0}
    BY <1>1, FrontIs
  <1>3. k + l <= m /\ \A i \in 1 .. l : drain.todo[i] = inbox[k + i]
    BY DEF EInv, DrainHolds, InOrder
  <1>4. drain.todo[1] = inbox[j]
    <2>1. 1 \in 1 .. l
      BY <1>2
    <2> QED BY <1>3, <2>1
  <1>5. j \in 1 .. m
    <2> HIDE DEF k, l, m
    <2> QED BY <1>1, <1>2, <1>3
  <1>6. ev = inbox[j]
    BY <1>2, <1>4
  <1>7. j = k + 1
    OBVIOUS
  <1> HIDE DEF j
  <1>8. /\ ev \in Events /\ ev.exec \in Execution /\ ev.seq \in Nat
        /\ ev.work \in VideoWork /\ ev.attempt \in 1 .. MaxLeases
        /\ ev.work = client[ev.exec].work /\ ev.attempt = client[ev.exec].attempt
        /\ ev.attempt <= vwork[ev.work].leases
        /\ receipts[ev.exec].seq < ev.seq /\ ev.seq <= client[ev.exec].seq
    BY <1>5, <1>6, InboxFacts
  <1>9. /\ Tail(drain.todo) \in Seq(Events) /\ Len(Tail(drain.todo)) = Len(drain.todo) - 1
        /\ \A i \in 1 .. Len(Tail(drain.todo)) : Tail(drain.todo)[i] = drain.todo[i + 1]
    BY <1>1, HeadTailProperties
  <1>10. vwork[ev.work] \in WorkRows /\ vattempt[ev.work][ev.attempt] \in AttemptRows /\ WorkSound(ev.work)
    BY <1>8 DEF EInv, ETypeOK, WorkHolds
  <1> QED BY <1>2, <1>6, <1>7, <1>8, <1>9, <1>10

\* The drain goes on to its next command.
LEMMA BatchGrows ==
    ASSUME EInv, drain.todo # <<>>, NEW ev, ev = Head(drain.todo),
           NEW outcome \in {"APPLIED", "REJECTED"},
           drain'.pc = "next", drain'.todo = Tail(drain.todo),
           drain'.batch = Append(drain.batch, [event |-> ev, outcome |-> outcome]),
           \A i \in 1 .. Len(drain.batch) : drain.batch[i].event.work # ev.work,
           UNCHANGED inbox
    PROVE  /\ DrainHolds' /\ drain'.todo \in Seq(Events) /\ drain'.batch \in Seq(Outcomes)
           /\ \A i \in 1 .. Len(drain'.batch) :
                \/ i \in 1 .. Len(drain.batch) /\ drain'.batch[i] = drain.batch[i]
                \/ drain'.batch[i] = [event |-> ev, outcome |-> outcome]
  <1> DEFINE k == Len(drain.batch)
             l == Len(drain.todo)
             m == Len(inbox)
             more == Len(drain'.batch)
             rest == Len(drain'.todo)
             new == [event |-> ev, outcome |-> outcome]
  <1>1. /\ ev = inbox[k + 1] /\ ev \in Events /\ l \in Nat \ {0} /\ rest = l - 1
        /\ Tail(drain.todo) \in Seq(Events)
        /\ \A i \in 1 .. rest : drain'.todo[i] = drain.todo[i + 1]
    BY TodoFacts
  <1>2. drain.batch \in Seq(Outcomes) /\ new \in Outcomes /\ k \in Nat /\ m \in Nat
    BY <1>1, SequencesType DEF Outcomes
  <1>3. new.event = ev
    OBVIOUS
  <1> HIDE DEF new
  <1>4. /\ drain'.batch \in Seq(Outcomes) /\ more = k + 1 /\ drain'.batch[k + 1] = new
        /\ \A i \in 1 .. k : drain'.batch[i] = drain.batch[i]
    <2>1. drain'.batch = Append(drain.batch, new)
      BY DEF new
    <2> QED BY <1>2, <2>1, AppendProperties
  <1>5. /\ k + l <= m
        /\ \A i \in 1 .. k : drain.batch[i].event = inbox[i]
        /\ \A i \in 1 .. l : drain.todo[i] = inbox[k + i]
        /\ \A i, j \in 1 .. k : i # j => drain.batch[i].event.work # drain.batch[j].event.work
    BY DEF EInv, DrainHolds, InOrder
  <1> HIDE DEF k, l, m, more, rest
  <1>6. \A i \in 1 .. more : i \in 1 .. k \/ i = k + 1
    BY <1>2, <1>4
  <1>7. more + rest <= m
    BY <1>1, <1>2, <1>4, <1>5
  <1>8. \A i \in 1 .. more : drain'.batch[i].event = inbox[i]
    BY <1>1, <1>3, <1>4, <1>5, <1>6
  <1>9. \A i \in 1 .. rest : drain'.todo[i] = inbox[more + i]
    <2> TAKE i \in 1 .. rest
    <2>1. i + 1 \in 1 .. l /\ k + (i + 1) = more + i
      BY <1>1, <1>2, <1>4
    <2>2. drain.todo[i + 1] = inbox[k + (i + 1)]
      BY <1>5, <2>1
    <2> QED BY <1>1, <2>1, <2>2
  <1>10. \A i, j \in 1 .. more : i # j => drain'.batch[i].event.work # drain'.batch[j].event.work
    <2>1. \A i \in 1 .. k : drain.batch[i].event.work # ev.work
      BY DEF k
    <2> QED BY <1>3, <1>4, <1>5, <1>6, <2>1
  <1>11. DrainHolds'
    BY <1>7, <1>8, <1>9, <1>10 DEF DrainHolds, InOrder, more, rest, m
  <1>12. \A i \in 1 .. more :
            \/ i \in 1 .. k /\ drain'.batch[i] = drain.batch[i]
            \/ drain'.batch[i] = new
    BY <1>4, <1>6
  <1> QED BY <1>1, <1>4, <1>11, <1>12 DEF k, more, new

LEMMA DecideKeeps ==
    ASSUME EInv, Decide
    PROVE  EInv'
  <1>1. /\ drain.pc = "next" /\ drain.todo # <<>> /\ UNCHANGED <<vwork, vattempt, client, inbox, receipts>>
    BY DEF Decide
  <1>2. PICK ev : ev = Head(drain.todo)
    OBVIOUS
  <1>3. PICK plan : plan = IF Stale(ev) THEN None
                          ELSE PlanOf(ev, vwork[ev.work], vattempt[ev.work][ev.attempt])
    OBVIOUS
  <1>4. /\ ~Busy(drain.batch, ev)
        /\ drain' = [drain EXCEPT
                !.pc = IF plan = None THEN "next" ELSE "attempt",
                !.plan = plan,
                !.before = IF plan = None THEN None ELSE vwork[ev.work],
                !.todo = IF plan = None THEN Tail(@) ELSE @,
                !.batch = IF plan = None
                          THEN Append(@, [event |-> ev, outcome |-> "REJECTED"]) ELSE @]
    BY <1>2, <1>3 DEF Decide
  <1>5. /\ ev \in Events /\ ev.exec \in Execution /\ ev.seq \in Nat
        /\ ev.work \in VideoWork /\ ev.attempt \in 1 .. MaxLeases
        /\ receipts[ev.exec].seq < ev.seq
        /\ vwork[ev.work] \in WorkRows /\ vattempt[ev.work][ev.attempt] \in AttemptRows
        /\ WorkSound(ev.work) /\ ev = drain.todo[1] /\ Tail(drain.todo) \in Seq(Events)
    BY <1>1, <1>2, TodoFacts
  <1>6. \A i \in 1 .. Len(drain.batch) : drain.batch[i].event.work # ev.work
    BY <1>4, SequencesType DEF Busy
  <1>7. drain \in Drains
    BY DEF EInv, ETypeOK
  <1>8. plan = PlanOf(ev, vwork[ev.work], vattempt[ev.work][ev.attempt])
    BY <1>3, <1>5, SequencesType DEF Stale
  <1>9. InboxHolds' /\ WorkHolds'
    BY <1>1, WorkIsSame DEF EInv, InboxHolds, WorkHolds
  <1>10. CASE plan = None
    <2>1. /\ drain' = [drain EXCEPT !.pc = "next", !.plan = None, !.before = None, !.todo = Tail(drain.todo),
                                   !.batch = Append(drain.batch, [event |-> ev, outcome |-> "REJECTED"])]
      BY <1>4, <1>7, <1>10 DEF Drains
    <2>2. /\ drain'.pc = "next" /\ drain'.todo = Tail(drain.todo)
          /\ drain'.batch = Append(drain.batch, [event |-> ev, outcome |-> "REJECTED"])
      BY <1>7, <2>1 DEF Drains
    <2>3. /\ DrainHolds' /\ drain'.todo \in Seq(Events) /\ drain'.batch \in Seq(Outcomes)
          /\ \A i \in 1 .. Len(drain'.batch) :
                \/ i \in 1 .. Len(drain.batch) /\ drain'.batch[i] = drain.batch[i]
                \/ drain'.batch[i] = [event |-> ev, outcome |-> "REJECTED"]
      BY <1>1, <1>2, <1>6, <2>2, BatchGrows
    <2>4. drain' \in Drains
      BY <1>7, <2>1, <2>3, <2>2 DEF Drains
    <2>5. ETypeOK' /\ PlanHolds'
      BY <1>1, <2>2, <2>4 DEF EInv, ETypeOK, PlanHolds
    <2>6. ASSUME ev.command.kind = "commit", vattempt[ev.work][ev.attempt].exec = ev.exec
          PROVE  vwork[ev.work].committed # ev.attempt
      <3> SUFFICES ASSUME vwork[ev.work].committed = ev.attempt PROVE FALSE
        OBVIOUS
      <3>1. vwork[ev.work].status = "SUCCEEDED" /\ vattempt[ev.work][ev.attempt].status = "SUCCEEDED"
        BY <1>5, LeaseNumbers DEF WorkSound
      <3> QED BY <1>5, <1>8, <1>10, <2>6, <3>1, CommitIsMetAgain
    <2>7. ASSUME NEW i \in 1 .. Len(drain'.batch), drain'.batch[i].event.command.kind = "commit"
          PROVE  LET x == drain'.batch[i].event
                 IN  /\ drain'.batch[i].outcome = "APPLIED" => vwork[x.work].committed = x.attempt
                     /\ drain'.batch[i].outcome = "REJECTED" => IsOver(x.exec, x.work, x.attempt, x.seq)
      <3>1. CASE i \in 1 .. Len(drain.batch) /\ drain'.batch[i] = drain.batch[i]
        BY <2>7, <3>1 DEF EInv, OutcomesHold
      <3>2. CASE drain'.batch[i] = [event |-> ev, outcome |-> "REJECTED"]
        BY <2>6, <2>7, <3>2 DEF IsOver
      <3> QED BY <2>3, <3>1, <3>2
    <2>8. OutcomesHold'
      BY <1>1, <2>7 DEF EInv, OutcomesHold, IsOver
    <2> QED BY <1>9, <2>3, <2>5, <2>8 DEF EInv
  <1>11. CASE plan # None
    <2>1. /\ plan \in Plans /\ Fits(ev, vwork[ev.work], plan)
          /\ Continues(ev, vwork[ev.work], vattempt[ev.work][ev.attempt], plan)
      BY <1>5, <1>8, <1>11, PlansFit
    <2>2. drain' = [drain EXCEPT !.pc = "attempt", !.plan = plan, !.before = vwork[ev.work]]
      BY <1>4, <1>7, <1>11 DEF Drains
    <2>3. /\ drain'.pc = "attempt" /\ drain'.plan = plan /\ drain'.before = vwork[ev.work]
          /\ drain'.todo = drain.todo /\ drain'.batch = drain.batch /\ drain' \in Drains
      BY <1>5, <1>7, <2>1, <2>2 DEF Drains
    <2>4. ETypeOK'
      BY <1>1, <2>3 DEF EInv, ETypeOK
    <2>5. DrainHolds'
      <3>1. InOrder(drain.pc, drain.batch, drain.todo, inbox)
        BY DEF EInv, DrainHolds
      <3>2. InOrder("attempt", drain.batch, drain.todo, inbox)
        BY <1>1, <1>5, <1>6, <3>1 DEF InOrder
      <3> QED BY <1>1, <2>3, <3>2 DEF DrainHolds
    <2>6. PlanHolds'
      <3>1. [vwork[ev.work] EXCEPT !.live = vwork[ev.work].live] = vwork[ev.work]
        BY <1>5 DEF WorkRows
      <3> QED BY <1>1, <1>5, <2>1, <2>3, <3>1 DEF PlanHolds, Fits, Leaves, Beats, Commits, Frees, Owner, Continues
    <2>7. OutcomesHold'
      BY <1>1, <2>3 DEF EInv, OutcomesHold, IsOver
    <2> QED BY <1>9, <2>4, <2>5, <2>6, <2>7 DEF EInv
  <1> QED BY <1>10, <1>11


\* What is met at the end of the inbox has not been acknowledged.
LEMMA ReceiptsAreOlder ==
    ASSUME EInv, drain.todo # <<>>, NEW ev, ev = Head(drain.todo),
           NEW e \in Execution, receipts[e].seq = client[e].seq
    PROVE  e # ev.exec
  <1>1. /\ ev.exec \in Execution /\ ev.seq \in Nat
        /\ receipts[ev.exec].seq < ev.seq /\ ev.seq <= client[ev.exec].seq
    BY TodoFacts
  <1>2. receipts[ev.exec].seq \in Nat /\ client[ev.exec].seq \in Nat
    BY <1>1, SequencesType
  <1> QED BY <1>1, <1>2

LEMMA WriteAttemptKeeps ==
    ASSUME EInv, WriteAttempt
    PROVE  EInv'
  <1> DEFINE plan == drain.plan
             before == drain.before
  <1>1. /\ drain.pc = "attempt" /\ UNCHANGED <<vwork, client, inbox, receipts>>
        /\ drain' = [drain EXCEPT !.pc = "work"]
    BY DEF WriteAttempt
  <1>2. drain.todo # <<>> /\ \A i \in 1 .. Len(drain.batch) : drain.batch[i].event.work # drain.todo[1].work
    BY <1>1 DEF EInv, DrainHolds, InOrder
  <1>3. PICK ev : ev = Head(drain.todo)
    OBVIOUS
  <1>4. /\ ev \in Events /\ ev.exec \in Execution /\ ev.work \in VideoWork /\ ev.attempt \in 1 .. MaxLeases
        /\ ev.attempt \in Nat /\ ev.work = client[ev.exec].work /\ ev.attempt = client[ev.exec].attempt
        /\ ev.attempt <= vwork[ev.work].leases /\ ev = drain.todo[1]
        /\ vwork[ev.work] \in WorkRows /\ vattempt[ev.work][ev.attempt] \in AttemptRows
        /\ WorkSound(ev.work)
    BY <1>2, <1>3, TodoFacts
  <1>5. vattempt' = [vattempt EXCEPT ![ev.work][ev.attempt] = plan.attempt]
    BY <1>3 DEF WriteAttempt
  <1>6. /\ before \in WorkRows /\ plan \in Plans
        /\ [vwork[ev.work] EXCEPT !.live = before.live] = before
        /\ Fits(ev, before, plan)
        /\ Continues(ev, before, vattempt[ev.work][ev.attempt], plan)
    BY <1>1, <1>4 DEF EInv, PlanHolds
  <1>7. plan.attempt \in AttemptRows /\ plan.work \in WorkRows /\ plan.attempt.exec = ev.exec
    BY <1>6 DEF Plans, Fits
  <1>8. /\ before.status = vwork[ev.work].status /\ before.owner = vwork[ev.work].owner
        /\ before.committed = vwork[ev.work].committed
    BY <1>4, <1>6 DEF WorkRows
  <1>9. /\ vattempt' \in [VideoWork -> [1 .. MaxLeases -> AttemptRows]]
        /\ vattempt'[ev.work][ev.attempt] = plan.attempt
        /\ \A n \in 1 .. MaxLeases : n # ev.attempt => vattempt'[ev.work][n] = vattempt[ev.work][n]
        /\ \A v \in VideoWork : v # ev.work => vattempt'[v] = vattempt[v]
    BY <1>4, <1>5, <1>7 DEF EInv, ETypeOK
  <1>10. /\ drain'.pc = "work" /\ drain'.todo = drain.todo /\ drain'.batch = drain.batch
         /\ drain'.plan = plan /\ drain'.before = before /\ drain' \in Drains
    BY <1>1 DEF EInv, ETypeOK, Drains
  <1> HIDE DEF plan, before
  <1>11. ETypeOK'
    BY <1>1, <1>9, <1>10 DEF EInv, ETypeOK
  <1>12. InboxHolds'
    BY <1>1 DEF EInv, InboxHolds
  <1>13. DrainHolds'
    <2>1. InOrder(drain.pc, drain.batch, drain.todo, inbox)
      BY DEF EInv, DrainHolds
    <2>2. InOrder("work", drain.batch, drain.todo, inbox)
      BY <1>1, <2>1 DEF InOrder
    <2> QED BY <1>1, <1>10, <2>2 DEF DrainHolds
  \* The row of an attempt that ended is written as it is.
  <1>14. /\ vattempt[ev.work][ev.attempt].status = "RELEASED" => plan.attempt.status = "RELEASED"
         /\ ~(vwork[ev.work].committed = 0 /\ vwork[ev.work].owner = ev.attempt)
              => plan.attempt = vattempt[ev.work][ev.attempt]
    BY <1>6, <1>8 DEF Continues, Owner
  <1>15. WorkHolds'
    <2>1. ASSUME NEW v \in VideoWork, v # ev.work
          PROVE  WorkSound(v)'
      BY <1>1, <1>9, <2>1, WorkIsSame DEF EInv, WorkHolds
    <2>2. GivenUp(ev.work) \subseteq GivenUp(ev.work)'
      BY <1>1, <1>4, <1>9, <1>14 DEF GivenUp
    <2>3. vwork[ev.work].leases <= vwork[ev.work].count + Cardinality(GivenUp(ev.work)')
      <3>1. /\ Cardinality(GivenUp(ev.work)) <= Cardinality(GivenUp(ev.work)')
            /\ Cardinality(GivenUp(ev.work)') \in Nat /\ Cardinality(GivenUp(ev.work)) \in Nat
        BY <1>4, <2>2, GivenUpGrows
      <3>2. vwork[ev.work].leases <= vwork[ev.work].count + Cardinality(GivenUp(ev.work))
        BY <1>4 DEF WorkSound
      <3>3. vwork[ev.work].leases \in Nat /\ vwork[ev.work].count \in Nat
        BY <1>4, WorkNumbers
      <3> QED BY <3>1, <3>2, <3>3
    <2>4. ASSUME vwork[ev.work].committed # 0
          PROVE  vattempt'[ev.work][vwork[ev.work].committed].status = "SUCCEEDED"
      <3>1. vattempt[ev.work][vwork[ev.work].committed].status = "SUCCEEDED"
        BY <1>4, <2>4 DEF WorkSound
      <3>2. plan.attempt = vattempt[ev.work][ev.attempt]
        BY <1>14, <2>4
      <3>3. vwork[ev.work].committed \in 1 .. MaxLeases
        BY <1>4, <2>4, WorkNumbers
      <3> QED BY <1>9, <3>1, <3>2, <3>3
    <2>5. ASSUME NEW n \in 1 .. MaxLeases, n > vwork[ev.work].leases
          PROVE  vattempt'[ev.work][n].status # "RELEASED"
      <3>1. n # ev.attempt
        <4>1. vwork[ev.work].leases \in Nat
          BY <1>4, WorkNumbers
        <4> QED BY <1>4, <2>5, <4>1
      <3> QED BY <1>4, <1>9, <2>5, <3>1 DEF WorkSound
    <2>6. WorkSound(ev.work)'
      BY <1>1, <1>4, <2>3, <2>4, <2>5 DEF WorkSound
    <2> QED BY <2>1, <2>6 DEF WorkHolds
  <1>16. PlanHolds'
    BY <1>1, <1>4, <1>6, <1>9, <1>10 DEF PlanHolds
  <1>17. OutcomesHold'
    <2>1. ASSUME NEW i \in 1 .. Len(drain.batch)
          PROVE  LET x == drain.batch[i].event
                 IN  vattempt'[x.work][x.attempt] = vattempt[x.work][x.attempt]
      BY <1>2, <1>4, <1>9, BatchFacts
    <2>2. ASSUME NEW e \in Execution, receipts[e].commit = "REJECTED", receipts[e].seq = client[e].seq,
                 vattempt'[client[e].work][client[e].attempt].exec = e
          PROVE  vwork[client[e].work].committed # client[e].attempt
      <3>1. e # ev.exec
        BY <1>2, <1>3, <2>2, ReceiptsAreOlder
      <3>2. client[e].work \in VideoWork /\ client[e].attempt \in 1 .. MaxLeases
        <4>1. client[e].work # None
          BY <2>2, EventInboxAssumption DEF EInv, InboxHolds
        <4>2. /\ client[e].work \in VideoWork
              /\ client[e].attempt \in 1 .. vwork[client[e].work].leases
          BY <4>1 DEF EInv, ETypeOK, InboxHolds
        <4>3. vwork[client[e].work].leases \in 0 .. MaxLeases
          BY <4>2 DEF EInv, ETypeOK, WorkRows
        <4> QED BY <4>2, <4>3, LeaseNumbers
      <3>3. vattempt'[client[e].work][client[e].attempt] = vattempt[client[e].work][client[e].attempt]
        BY <1>7, <1>9, <2>2, <3>1, <3>2
      <3> QED BY <2>2, <3>3 DEF EInv, OutcomesHold, IsOver
    <2>3. ASSUME NEW i \in 1 .. Len(drain.batch), drain.batch[i].event.command.kind = "commit"
          PROVE  LET x == drain.batch[i].event
                 IN  /\ drain.batch[i].outcome = "APPLIED" => vwork[x.work].committed = x.attempt
                     /\ drain.batch[i].outcome = "REJECTED" => IsOver(x.exec, x.work, x.attempt, x.seq)'
      BY <1>1, <2>1, <2>3 DEF EInv, OutcomesHold, IsOver
    <2>4. ASSUME NEW e \in Execution
          PROVE  /\ receipts[e].commit = "APPLIED" => vwork[client[e].work].committed = client[e].attempt
                 /\ receipts[e].commit = "REJECTED" =>
                        IsOver(e, client[e].work, client[e].attempt, receipts[e].seq)'
      BY <1>1, <2>2 DEF EInv, OutcomesHold, IsOver
    <2> QED BY <1>1, <1>10, <2>3, <2>4 DEF OutcomesHold
  <1> QED BY <1>11, <1>12, <1>13, <1>15, <1>16, <1>17 DEF EInv


\* What the second write makes of the row of the work.
LEMMA WorkIsWritten ==
    ASSUME NEW ev \in Events, NEW old \in WorkRows, NEW before \in WorkRows, NEW plan \in Plans,
           [old EXCEPT !.live = before.live] = before, Fits(ev, before, plan),
           NEW row, row = IF plan.work = before THEN old ELSE plan.work
    PROVE  /\ row \in WorkRows /\ row.leases = old.leases /\ row.owner \in {old.owner, 0}
           /\ \/ row.committed = old.committed
                 /\ (row.status = old.status \/ old.committed = 0)
              \/ /\ old.committed = 0 /\ row.committed = ev.attempt
                 /\ row.status = "SUCCEEDED" /\ plan.attempt.status = "SUCCEEDED"
           /\ IsActive(row.status) => row.owner = old.owner /\ IsActive(old.status)
           /\ \/ row.count = old.count
              \/ /\ row.count + 1 = old.count /\ plan.attempt.status = "RELEASED"
                 /\ old.owner = ev.attempt /\ row.owner = 0
           /\ ev.command.kind = "commit" => row.committed = ev.attempt
  <1>1. /\ before.status = old.status /\ before.owner = old.owner /\ before.count = old.count
        /\ before.leases = old.leases /\ before.committed = old.committed /\ plan.work \in WorkRows
    BY DEF WorkRows, Plans
  <1>2. ev.attempt # 0 /\ ev.attempt \in 0 .. MaxLeases
    BY LeaseNumbers
  <1>3. CASE Leaves(ev, before, plan)
    BY <1>1, <1>3 DEF Leaves
  <1>4. CASE Beats(ev, before, plan)
    <2>1. /\ plan.work.owner = old.owner /\ plan.work.count = old.count /\ plan.work.leases = old.leases
          /\ plan.work.committed = old.committed /\ IsActive(old.status) /\ old.committed = 0
          /\ ev.command.kind # "commit"
      <3>1. /\ Owner(ev, before) /\ ev.command.kind # "commit"
            /\ plan.work = [before EXCEPT !.status = plan.work.status, !.by = plan.work.by]
        BY <1>4 DEF Beats
      <3>2. /\ plan.work.owner = before.owner /\ plan.work.count = before.count
            /\ plan.work.leases = before.leases /\ plan.work.committed = before.committed
        BY <3>1 DEF WorkRows
      <3> QED BY <1>1, <3>1, <3>2 DEF Owner
    <2> QED BY <1>1, <2>1
  <1>5. CASE Commits(ev, before, plan)
    <2>1. /\ old.committed = 0 /\ plan.attempt.status = "SUCCEEDED" /\ plan.work.status = "SUCCEEDED"
          /\ plan.work.committed = ev.attempt /\ plan.work.owner = 0 /\ plan.work.count = old.count
          /\ plan.work.leases = old.leases
      <3>1. /\ Owner(ev, before) /\ plan.attempt.status = "SUCCEEDED"
            /\ plan.work = [before EXCEPT !.status = "SUCCEEDED", !.committed = ev.attempt,
                                          !.owner = 0, !.live = FALSE]
        BY <1>5 DEF Commits
      <3>2. /\ plan.work.status = "SUCCEEDED" /\ plan.work.committed = ev.attempt
            /\ plan.work.owner = 0 /\ plan.work.count = before.count /\ plan.work.leases = before.leases
        BY <3>1 DEF WorkRows
      <3> QED BY <1>1, <3>1, <3>2 DEF Owner
    <2>2. ~IsActive("SUCCEEDED") /\ plan.work # before
      BY <1>1, <1>2, <2>1, ActiveIs DEF Settled
    <2> QED BY <1>1, <2>1, <2>2
  <1>6. CASE Frees(ev, before, plan)
    <2>1. /\ old.committed = 0 /\ plan.work.committed = old.committed /\ old.owner = ev.attempt
          /\ plan.work.owner = 0 /\ plan.work.leases = old.leases /\ plan.work.status \in Settled
          /\ ev.command.kind # "commit"
          /\ \/ plan.work.count = old.count
             \/ plan.work.count + 1 = old.count /\ plan.attempt.status = "RELEASED"
      <3>1. /\ Owner(ev, before) /\ ev.command.kind # "commit" /\ plan.work.status \in Settled
            /\ plan.work = [before EXCEPT !.status = plan.work.status, !.owner = 0, !.live = FALSE,
                                          !.by = plan.work.by, !.count = plan.work.count]
            /\ \/ plan.work.count = before.count
               \/ plan.work.count + 1 = before.count /\ plan.attempt.status = "RELEASED"
        BY <1>6 DEF Frees
      <3>2. plan.work.owner = 0 /\ plan.work.leases = before.leases /\ plan.work.committed = before.committed
        BY <3>1 DEF WorkRows
      <3> QED BY <1>1, <3>1, <3>2 DEF Owner
    <2>2. ~IsActive(plan.work.status)
      BY <2>1, ActiveIs
    <2> QED BY <1>1, <2>1, <2>2
  <1> QED BY <1>3, <1>4, <1>5, <1>6 DEF Fits

LEMMA WriteWorkKeeps ==
    ASSUME EInv, WriteWork
    PROVE  EInv'
  <1> DEFINE plan == drain.plan
             before == drain.before
  <1>1. drain.pc = "work" /\ UNCHANGED <<vattempt, client, inbox, receipts>>
    BY DEF WriteWork
  <1>2. drain.todo # <<>> /\ \A i \in 1 .. Len(drain.batch) : drain.batch[i].event.work # drain.todo[1].work
    BY <1>1 DEF EInv, DrainHolds, InOrder
  <1>3. PICK ev : ev = Head(drain.todo)
    OBVIOUS
  <1>4. /\ ev \in Events /\ ev.exec \in Execution /\ ev.work \in VideoWork /\ ev.attempt \in 1 .. MaxLeases
        /\ ev.work = client[ev.exec].work /\ ev.attempt = client[ev.exec].attempt
        /\ ev.attempt <= vwork[ev.work].leases /\ ev = drain.todo[1]
        /\ vwork[ev.work] \in WorkRows /\ WorkSound(ev.work)
    BY <1>2, <1>3, TodoFacts
  <1>5. /\ before \in WorkRows /\ plan \in Plans
        /\ [vwork[ev.work] EXCEPT !.live = before.live] = before
        /\ Fits(ev, before, plan)
        /\ vattempt[ev.work][ev.attempt] = plan.attempt
    BY <1>1, <1>4 DEF EInv, PlanHolds
  <1>6. plan.attempt.exec = ev.exec
    BY <1>5 DEF Fits
  <1>7. CASE ~WorkUnchanged(ev)
    <2>1. drain' = NoDrain /\ UNCHANGED vwork
      BY <1>3, <1>7 DEF WriteWork
    <2> QED BY <1>1, <2>1, DrainForgets
  <1>8. CASE WorkUnchanged(ev)
    <2>1. PICK row : row = IF plan.work = before THEN vwork[ev.work] ELSE plan.work
      OBVIOUS
    <2>2. /\ vwork' = [vwork EXCEPT ![ev.work] = row]
          /\ drain' = [drain EXCEPT !.pc = "next", !.plan = None, !.before = None,
                        !.todo = Tail(drain.todo),
                        !.batch = Append(drain.batch, [event |-> ev, outcome |-> "APPLIED"])]
      <3>1. /\ vwork' = [vwork EXCEPT ![ev.work] =
                            IF plan.work = before THEN vwork[ev.work] ELSE plan.work]
            /\ drain' = [drain EXCEPT !.pc = "next", !.plan = None, !.before = None,
                        !.todo = Tail(@),
                        !.batch = Append(@, [event |-> ev, outcome |-> "APPLIED"])]
        BY <1>3, <1>4, <1>8 DEF WriteWork, EInv, ETypeOK
      <3>2. drain \in Drains
        BY DEF EInv, ETypeOK
      <3> QED BY <2>1, <3>1, <3>2 DEF Drains
    <2>3. /\ row \in WorkRows /\ row.leases = vwork[ev.work].leases
          /\ row.owner \in {vwork[ev.work].owner, 0}
          /\ \/ row.committed = vwork[ev.work].committed
                /\ (row.status = vwork[ev.work].status \/ vwork[ev.work].committed = 0)
             \/ /\ vwork[ev.work].committed = 0 /\ row.committed = ev.attempt
                /\ row.status = "SUCCEEDED" /\ plan.attempt.status = "SUCCEEDED"
          /\ IsActive(row.status) => row.owner = vwork[ev.work].owner /\ IsActive(vwork[ev.work].status)
          /\ \/ row.count = vwork[ev.work].count
             \/ /\ row.count + 1 = vwork[ev.work].count /\ plan.attempt.status = "RELEASED"
                /\ vwork[ev.work].owner = ev.attempt /\ row.owner = 0
          /\ ev.command.kind = "commit" => row.committed = ev.attempt
      <3>1. PICK p, b : p = plan /\ b = before
        OBVIOUS
      <3>2. PICK old : old = vwork[ev.work]
        OBVIOUS
      <3>3. /\ old \in WorkRows /\ b \in WorkRows /\ p \in Plans
            /\ [old EXCEPT !.live = b.live] = b /\ Fits(ev, b, p)
            /\ row = IF p.work = b THEN old ELSE p.work
        BY <1>4, <1>5, <2>1, <3>1, <3>2
      <3> HIDE DEF plan, before
      <3>4. /\ row \in WorkRows /\ row.leases = old.leases /\ row.owner \in {old.owner, 0}
            /\ \/ row.committed = old.committed
                  /\ (row.status = old.status \/ old.committed = 0)
               \/ /\ old.committed = 0 /\ row.committed = ev.attempt
                  /\ row.status = "SUCCEEDED" /\ p.attempt.status = "SUCCEEDED"
            /\ IsActive(row.status) => row.owner = old.owner /\ IsActive(old.status)
            /\ \/ row.count = old.count
               \/ /\ row.count + 1 = old.count /\ p.attempt.status = "RELEASED"
                  /\ old.owner = ev.attempt /\ row.owner = 0
            /\ ev.command.kind = "commit" => row.committed = ev.attempt
        <4> ev \in Events
          BY <1>4
        <4> QED BY ONLY <3>3, ev \in Events, WorkIsWritten
      <3> QED BY ONLY <3>1, <3>2, <3>4, Zenon
    <2> HIDE DEF plan, before
    <2>4. /\ vwork' \in [VideoWork -> WorkRows] /\ vwork'[ev.work] = row
          /\ \A v \in VideoWork : v # ev.work => vwork'[v] = vwork[v]
      BY <1>4, <2>2, <2>3 DEF EInv, ETypeOK
    <2>5. drain \in Drains
      BY DEF EInv, ETypeOK
    <2>6. /\ drain'.pc = "next" /\ drain'.todo = Tail(drain.todo)
          /\ drain'.batch = Append(drain.batch, [event |-> ev, outcome |-> "APPLIED"])
          /\ drain'.plan = None /\ drain'.before = None
      BY <2>2, <2>5 DEF Drains
    <2>7. /\ DrainHolds' /\ drain'.todo \in Seq(Events) /\ drain'.batch \in Seq(Outcomes)
          /\ \A i \in 1 .. Len(drain'.batch) :
                \/ i \in 1 .. Len(drain.batch) /\ drain'.batch[i] = drain.batch[i]
                \/ drain'.batch[i] = [event |-> ev, outcome |-> "APPLIED"]
      BY <1>1, <1>2, <1>3, <1>4, <2>6, BatchGrows
    <2>8. drain' \in Drains
      BY <2>2, <2>5, <2>6, <2>7 DEF Drains
    <2>9. ETypeOK' /\ PlanHolds'
      BY <1>1, <2>4, <2>6, <2>8 DEF EInv, ETypeOK, PlanHolds
    <2>10. InboxHolds'
      <3>1. \A v \in VideoWork : vwork'[v].leases = vwork[v].leases
        BY <2>3, <2>4
      <3>2. \A e \in Execution : client[e].work # None => client[e].work \in VideoWork
        BY DEF EInv, ETypeOK
      <3>3. \A e \in Execution : client[e].work # None =>
                client[e].attempt \in 1 .. vwork'[client[e].work].leases
        BY <3>1, <3>2 DEF EInv, InboxHolds
      <3> QED BY <1>1, <3>3 DEF EInv, InboxHolds
    <2>11. WorkHolds'
      <3>1. ASSUME NEW v \in VideoWork, v # ev.work
            PROVE  WorkSound(v)'
        BY <1>1, <2>4, <3>1, WorkIsSame DEF EInv, WorkHolds
      <3>2. GivenUp(ev.work) \subseteq GivenUp(ev.work)'
        <4>1. vwork'[ev.work].owner \in {vwork[ev.work].owner, 0}
          BY <2>3, <2>4
        <4>2. \A n \in 1 .. MaxLeases : n # 0
          OBVIOUS
        <4> QED BY <1>1, <4>1, <4>2 DEF GivenUp
      <3>3. /\ Cardinality(GivenUp(ev.work)) <= Cardinality(GivenUp(ev.work)')
            /\ Cardinality(GivenUp(ev.work)') \in Nat /\ Cardinality(GivenUp(ev.work)) \in Nat
        BY <1>4, <3>2, GivenUpGrows
      <3>4. /\ vwork[ev.work].leases \in Nat /\ vwork[ev.work].count \in Nat /\ row.count \in Nat
            /\ vwork[ev.work].owner \in Nat
        BY <1>4, <2>3, WorkNumbers
      <3>5. ASSUME row.count + 1 = vwork[ev.work].count, plan.attempt.status = "RELEASED",
                   vwork[ev.work].owner = ev.attempt, row.owner = 0
            PROVE  Cardinality(GivenUp(ev.work)) + 1 <= Cardinality(GivenUp(ev.work)')
        <4>1. ev.attempt \in GivenUp(ev.work)' /\ ev.attempt \notin GivenUp(ev.work)
          <5>1. ev.attempt # 0 /\ vattempt[ev.work][ev.attempt].status = "RELEASED"
            <6>1. ev.attempt # 0
              BY <1>4
            <6>2. vattempt[ev.work][ev.attempt].status = "RELEASED"
              <7>1. vattempt[ev.work][ev.attempt] = plan.attempt
                BY <1>5
              <7> QED BY ONLY <7>1, <3>5
            <6> QED BY <6>1, <6>2
          <5>2. vwork'[ev.work].owner = 0
            BY <2>4, <3>5
          <5> QED BY <1>1, <1>4, <3>5, <5>1, <5>2 DEF GivenUp
        <4>2. IsFiniteSet(GivenUp(ev.work)) /\ IsFiniteSet(GivenUp(ev.work)')
          <5>1. IsFiniteSet(1 .. MaxLeases)
            BY LeaseNumbers, FS_Interval
          <5> QED BY <5>1, FS_Subset DEF GivenUp
        <4>3. Cardinality(GivenUp(ev.work) \cup {ev.attempt}) = Cardinality(GivenUp(ev.work)) + 1
          BY <4>1, <4>2, FS_AddElement
        <4>4. GivenUp(ev.work) \cup {ev.attempt} \subseteq GivenUp(ev.work)'
          BY <3>2, <4>1
        <4>5. Cardinality(GivenUp(ev.work) \cup {ev.attempt}) <= Cardinality(GivenUp(ev.work)')
          BY <4>2, <4>4, FS_Subset
        <4> QED BY <4>3, <4>5
      <3>6. vwork[ev.work].leases <= row.count + Cardinality(GivenUp(ev.work)') /\ row.count <= vwork[ev.work].leases
        <4>1. /\ vwork[ev.work].leases <= vwork[ev.work].count + Cardinality(GivenUp(ev.work))
              /\ vwork[ev.work].count <= vwork[ev.work].leases
          BY <1>4 DEF WorkSound
        <4>2. CASE row.count = vwork[ev.work].count
          BY <3>3, <3>4, <4>1, <4>2
        <4>3. CASE /\ row.count + 1 = vwork[ev.work].count /\ plan.attempt.status = "RELEASED"
                   /\ vwork[ev.work].owner = ev.attempt /\ row.owner = 0
          BY <3>3, <3>4, <3>5, <4>1, <4>3
        <4> QED BY <2>3, <4>2, <4>3
      <3>7. row.owner <= row.leases /\ (IsActive(row.status) => row.owner # 0)
        <4>1. /\ vwork[ev.work].owner <= vwork[ev.work].leases
              /\ IsActive(vwork[ev.work].status) => vwork[ev.work].owner # 0
          BY <1>4 DEF WorkSound
        <4>2. /\ row.owner = vwork[ev.work].owner \/ row.owner = 0
              /\ row.leases = vwork[ev.work].leases
          BY <2>3
        <4>3. row.owner <= row.leases
          BY <3>4, <4>1, <4>2
        <4>4. IsActive(row.status) => row.owner # 0
          BY <2>3, <4>1
        <4> QED BY <4>3, <4>4
      <3>8. row.committed # 0 =>
                row.status = "SUCCEEDED" /\ vattempt[ev.work][row.committed].status = "SUCCEEDED"
        BY <1>4, <1>5, <2>3 DEF WorkSound
      <3>9. \A n \in 1 .. MaxLeases : n > row.leases => vattempt[ev.work][n].status # "RELEASED"
        BY <1>4, <2>3 DEF WorkSound
      <3>10. WorkSound(ev.work)'
        BY <1>1, <2>3, <2>4, <3>6, <3>7, <3>8, <3>9 DEF WorkSound
      <3> QED BY <3>1, <3>10 DEF WorkHolds
    <2>12. OutcomesHold'
      <3>1. ASSUME NEW i \in 1 .. Len(drain'.batch), drain'.batch[i].event.command.kind = "commit"
            PROVE  LET x == drain'.batch[i].event
                   IN  /\ drain'.batch[i].outcome = "APPLIED" => vwork'[x.work].committed = x.attempt
                       /\ drain'.batch[i].outcome = "REJECTED" =>
                            (x.seq = client[x.exec].seq /\ vattempt[x.work][x.attempt].exec = x.exec
                               => vwork'[x.work].committed # x.attempt)
        <4>1. CASE i \in 1 .. Len(drain.batch) /\ drain'.batch[i] = drain.batch[i]
          <5>1. /\ drain.batch[i].event.work \in VideoWork
                /\ vwork'[drain.batch[i].event.work] = vwork[drain.batch[i].event.work]
            <6>1. drain.batch[i].event.work \in VideoWork
              BY <4>1, BatchFacts
            <6> QED BY <1>2, <1>4, <2>4, <4>1, <6>1
          <5> QED BY <1>1, <3>1, <4>1, <5>1 DEF EInv, OutcomesHold, IsOver
        <4>2. CASE drain'.batch[i] = [event |-> ev, outcome |-> "APPLIED"]
          BY <2>3, <2>4, <3>1, <4>2
        <4> QED BY <2>7, <4>1, <4>2
      <3>2. ASSUME NEW e \in Execution
            PROVE  /\ receipts[e].commit = "APPLIED" => vwork'[client[e].work].committed = client[e].attempt
                   /\ receipts[e].commit = "REJECTED" =>
                        (receipts[e].seq = client[e].seq /\ vattempt[client[e].work][client[e].attempt].exec = e
                           => vwork'[client[e].work].committed # client[e].attempt)
        <4>1. CASE client[e].work # ev.work
          <5>1. receipts[e].commit # None => vwork'[client[e].work] = vwork[client[e].work]
            BY <2>4, <4>1 DEF EInv, ETypeOK, InboxHolds
          <5> QED BY <1>1, <5>1, EventInboxAssumption DEF EInv, OutcomesHold, IsOver
        <4>2. CASE client[e].work = ev.work
          <5>1. ASSUME receipts[e].commit = "APPLIED"
                PROVE  row.committed = client[e].attempt
            <6>1. vwork[ev.work].committed = client[e].attempt
              BY <4>2, <5>1 DEF EInv, OutcomesHold
            <6>2. client[e].attempt \in 1 .. vwork[ev.work].leases
              <7>1. ev.work # None
                BY <1>4, EventInboxAssumption
              <7> QED BY <4>2, <7>1 DEF EInv, InboxHolds
            <6>3. client[e].attempt # 0
              BY <6>2
            <6> QED BY <2>3, <6>1, <6>3
          <5>2. ASSUME receipts[e].commit = "REJECTED", receipts[e].seq = client[e].seq,
                       vattempt[ev.work][client[e].attempt].exec = e
                PROVE  row.committed # client[e].attempt
            <6>1. vwork[ev.work].committed # client[e].attempt
              BY <4>2, <5>2 DEF EInv, OutcomesHold, IsOver
            <6>2. ev.attempt # client[e].attempt
              BY <1>2, <1>3, <1>5, <1>6, <5>2, ReceiptsAreOlder
            <6> QED BY <2>3, <6>1, <6>2
          <5> QED BY <2>4, <4>2, <5>1, <5>2
        <4> QED BY <4>1, <4>2
      <3> QED BY <1>1, <3>1, <3>2 DEF OutcomesHold, IsOver
    <2> QED BY <2>7, <2>9, <2>10, <2>11, <2>12 DEF EInv
  <1> QED BY <1>7, <1>8

LEMMA EventInboxStep == EInv /\ [ENext]_evars => EInv'
  <1> SUFFICES ASSUME EInv, [ENext]_evars PROVE EInv'
    OBVIOUS
  <1>1. ASSUME NEW w \in VideoWork, Lease(w) \/ LeaseEnds(w) \/ RecoverLease(w)
        PROVE  EInv'
    BY <1>1, LeaseKeeps, LeaseEndsKeeps, RecoverLeaseKeeps
  <1>2. ASSUME NEW e \in Execution, NEW w \in VideoWork, StartExecution(e, w)
        PROVE  EInv'
    BY <1>2, StartExecutionKeeps
  <1>3. ASSUME NEW e \in Execution, NEW asked \in Commands, SubmitCommand(e, asked)
        PROVE  EInv'
    BY <1>3, SubmitCommandKeeps
  <1>4. CASE DrainStep
    BY <1>4, DrainBeginsKeeps, DecideKeeps, WriteAttemptKeeps, WriteWorkKeeps, FlushReceiptsKeeps,
       DrainStopsKeeps DEF DrainStep
  <1>5. CASE DrainStops
    BY <1>5, DrainStopsKeeps
  <1>6. CASE UNCHANGED evars
    <2>1. UNCHANGED <<vwork, vattempt, client, inbox, receipts, drain>>
      BY <1>6 DEF evars
    <2>2. WorkHolds'
      BY <2>1, WorkIsSame DEF EInv, WorkHolds
    <2> QED BY <2>1, <2>2
         DEF EInv, ETypeOK, InboxHolds, DrainHolds, PlanHolds, OutcomesHold, IsOver
  <1> QED BY <1>1, <1>2, <1>3, <1>4, <1>5, <1>6 DEF ENext

\* Whatever the commands, however often a drain dies between its writes, and
\* for every number of works, leases and executions: the inductive invariant
\* of the inbox (_drain, _apply_event).
THEOREM InboxInvariance == ESpec => []EInv
  <1>1. EInit => EInv
    BY InboxBegins
  <1>2. EInv /\ [ENext]_evars => EInv'
    BY EventInboxStep
  <1> QED BY <1>1, <1>2, PTL DEF ESpec

\* A command takes effect once and its receipt says what happened, although
\* the drain that applied it may have died before the receipt (_commit,
\* _release, _apply_event).
THEOREM EventsOnce == ESpec => []EventsTakeEffectOnce
  <1>1. EInv => EventsTakeEffectOnce
    <2> SUFFICES ASSUME EInv PROVE EventsTakeEffectOnce
      OBVIOUS
    <2>1. ASSUME NEW e \in Execution
          PROVE  LET w == client[e].work
                     committed == vwork[w].committed = client[e].attempt
                 IN  /\ receipts[e].commit = "APPLIED" => committed
                     /\ receipts[e].commit = "REJECTED" /\ receipts[e].seq = client[e].seq
                          /\ vattempt[w][client[e].attempt].exec = e => ~committed
      BY DEF EInv, OutcomesHold, IsOver
    <2>2. ASSUME NEW w \in VideoWork
          PROVE  /\ vwork[w].committed # 0 =>
                      vwork[w].status = "SUCCEEDED" /\ vattempt[w][vwork[w].committed].status = "SUCCEEDED"
                 /\ vwork[w].count <= vwork[w].leases
                 /\ vwork[w].leases <= vwork[w].count + Cardinality(GivenUp(w))
      BY DEF EInv, WorkHolds, WorkSound
    <2>3. ASSUME NEW w \in VideoWork
          PROVE  vwork[w].count >= vwork[w].leases
                    - Cardinality({n \in 1 .. MaxLeases : vattempt[w][n].status = "RELEASED"})
      <3> DEFINE released == {n \in 1 .. MaxLeases : vattempt[w][n].status = "RELEASED"}
      <3>1. IsFiniteSet(released)
        <4>1. IsFiniteSet(1 .. MaxLeases)
          BY LeaseNumbers, FS_Interval
        <4> QED BY <4>1, FS_Subset
      <3>2. GivenUp(w) \subseteq released
        BY DEF GivenUp
      <3>3. /\ Cardinality(GivenUp(w)) <= Cardinality(released) /\ Cardinality(released) \in Nat
            /\ Cardinality(GivenUp(w)) \in Nat
        BY <3>1, <3>2, FS_Subset, FS_CardinalityType
      <3>4. vwork[w].leases \in Nat /\ vwork[w].count \in Nat
        BY LeaseNumbers DEF EInv, ETypeOK, WorkRows
      <3> HIDE DEF released
      <3>5. vwork[w].count >= vwork[w].leases - Cardinality(released)
        BY <2>2, <3>3, <3>4
      <3> QED BY <3>5 DEF released
    <2> QED BY <2>1, <2>2, <2>3
         DEF EventsTakeEffectOnce, CommitReceiptsTellTheTruth, ReleasedAttemptsAreGivenBackOnce
  <1> QED BY <1>1, InboxInvariance, PTL

(* GoldRows *)

\* What the four counts of a date count.
QueuedOn(d) == {v \in Video : works[v].created = d}
StartedOn(d) == {o \in Attempts : tries[o[1]][o[2]].claimed = d}
SucceededOn(d) == {o \in CommittedOutputs : tries[o[1]][o[2]].published = d}
FailedOn(d) ==
    {o \in Attempts : \/ tries[o[1]][o[2]].status = "FAILED" /\ tries[o[1]][o[2]].completed = d
                      \/ tries[o[1]][o[2]].status = "EXPIRED" /\ tries[o[1]][o[2]].lease = d}

LEMMA FirstOfPair ==
    ASSUME NEW a, NEW b, a # None
    PROVE  FirstDate(<<a, b>>) = a
  <1> DEFINE known == {i \in DOMAIN <<a, b>> : <<a, b>>[i] # None}
  <1>1. 1 \in known /\ known \subseteq {1, 2}
    OBVIOUS
  <1>2. FirstDate(<<a, b>>) = <<a, b>>[Min(known)]
    BY <1>1 DEF FirstDate
  <1> HIDE DEF known
  <1>3. Min(known) = 1
    <2>1. 1 \in known /\ \A y \in known : 1 <= y
      BY <1>1
    <2>2. \A x \in known : (\A y \in known : x <= y) => x = 1
      BY <1>1
    <2> QED BY <2>1, <2>2 DEF Min
  <1> QED BY <1>2, <1>3

\* Attempts and committed outputs, row by row.
LEMMA AttemptFacts ==
    ASSUME GRTypeOK, StoreRowsAgree
    PROVE  /\ \A o : o \in Attempts <=>
                 \E v \in Video : \E n \in 1..MaxTries[v] : o = <<v, n>> /\ tries[v][n].status # "NONE"
           /\ \A o : o \in CommittedOutputs <=>
                 \E v \in Video : o = <<v, works[v].count>> /\ works[v].pointer # None
           /\ \A o \in CommittedOutputs :
                 /\ o[1] \in Video /\ o[2] \in 1..MaxTries[o[1]] /\ o[2] = works[o[1]].count
                 /\ o \in Attempts /\ tries[o[1]][o[2]].status = "SUCCEEDED"
                 /\ tries[o[1]][o[2]].published \in Nat
           /\ \A o \in Attempts :
                 /\ o[1] \in Video /\ o[2] \in 1..MaxTries[o[1]] /\ o = <<o[1], o[2]>>
                 /\ tries[o[1]][o[2]] \in TryRow
  <1>1. \A v \in Video : /\ works[v] \in WorkRow /\ MaxTries[v] \in Nat \ {0}
                         /\ DOMAIN tries[v] = 1..MaxTries[v]
                         /\ \A n \in 1..MaxTries[v] : tries[v][n] \in TryRow
    BY GoldRowsAssumption DEF GRTypeOK
  <1>2. \A o : o \in Attempts <=>
                 \E v \in Video : \E n \in 1..MaxTries[v] : o = <<v, n>> /\ tries[v][n].status # "NONE"
    BY <1>1 DEF Attempts
  <1>3. \A o : o \in CommittedOutputs <=>
                 \E v \in Video : o = <<v, works[v].count>> /\ works[v].pointer # None
    BY DEF CommittedOutputs, StoreRowsAgree, WorkAgrees, TryAgrees
  <1>4. ASSUME NEW o \in CommittedOutputs
        PROVE  /\ o[1] \in Video /\ o[2] \in 1..MaxTries[o[1]] /\ o[2] = works[o[1]].count
               /\ o \in Attempts /\ tries[o[1]][o[2]].status = "SUCCEEDED"
               /\ tries[o[1]][o[2]].published \in Nat
    <2>1. PICK v \in Video : o = <<v, works[v].count>> /\ works[v].pointer # None
      BY <1>3
    <2>2. /\ works[v].count >= 1 /\ works[v].count <= MaxTries[v] /\ works[v].count \in Nat
          /\ tries[v][works[v].count].status = "SUCCEEDED"
      BY <1>1, <2>1 DEF StoreRowsAgree, WorkAgrees, TryAgrees, WorkRow
    <2>3. works[v].count \in 1..MaxTries[v]
      BY <1>1, <2>2
    <2>4. tries[v][works[v].count].published # None /\ tries[v][works[v].count] \in TryRow
      BY <1>1, <2>2, <2>3 DEF StoreRowsAgree, WorkAgrees, TryAgrees
    <2>5. tries[v][works[v].count].published \in Nat
      BY <2>4 DEF TryRow, MaybeDay
    <2> QED BY <1>2, <2>1, <2>2, <2>3, <2>5
  <1>5. ASSUME NEW o \in Attempts
        PROVE  /\ o[1] \in Video /\ o[2] \in 1..MaxTries[o[1]] /\ o = <<o[1], o[2]>>
               /\ tries[o[1]][o[2]] \in TryRow
    BY <1>1, <1>2
  <1> QED BY <1>2, <1>3, <1>4, <1>5

\* The date an attempt that ended is counted on.
LEMMA EndDates ==
    ASSUME GRTypeOK, StoreRowsAgree, NEW o \in Attempts
    PROVE  LET try == tries[o[1]][o[2]]
           IN  /\ try.status \in {"SUCCEEDED", "FAILED"} => EndDate(o) = try.completed
               /\ try.status = "SUCCEEDED" => EndDate(o) = try.published
               /\ try.status = "EXPIRED" => EndDate(o) = try.lease
  <1> DEFINE try == tries[o[1]][o[2]]
  <1>1. o[1] \in Video /\ o[2] \in 1..MaxTries[o[1]]
    BY AttemptFacts
  <1>2. o \in CommittedOutputs => try.status = "SUCCEEDED"
    BY AttemptFacts
  <1>3. /\ try.status = "SUCCEEDED" => try.published # None /\ try.completed = try.published
        /\ try.status = "FAILED" => try.completed # None
        /\ try.status = "EXPIRED" => try.lease # None
    BY <1>1 DEF StoreRowsAgree, WorkAgrees, TryAgrees
  <1> HIDE DEF try
  <1>4. ASSUME try.status = "SUCCEEDED" PROVE EndDate(o) = try.completed
    <2>1. CASE o \in CommittedOutputs
      <3>1. EndDate(o) = FirstDate(<<try.published, try.completed>>)
        BY <1>4, <2>1 DEF EndDate, try
      <3> QED BY <1>3, <1>4, <3>1, FirstOfPair
    <2>2. CASE o \notin CommittedOutputs
      <3>1. EndDate(o) = FirstDate(<<try.completed, try.sealed>>)
        BY <1>4, <2>2 DEF EndDate, try
      <3> QED BY <1>3, <1>4, <3>1, FirstOfPair
    <2> QED BY <2>1, <2>2
  <1>5. ASSUME try.status = "FAILED" PROVE EndDate(o) = try.completed
    <2>1. EndDate(o) = FirstDate(<<try.completed, works[o[1]].updated>>)
      BY <1>2, <1>5 DEF EndDate, try
    <2> QED BY <1>3, <1>5, <2>1, FirstOfPair
  <1>6. ASSUME try.status = "EXPIRED" PROVE EndDate(o) = try.lease
    <2>1. EndDate(o) = FirstDate(<<try.lease, works[o[1]].updated>>)
      BY <1>2, <1>6 DEF EndDate, try
    <2> QED BY <1>3, <1>6, <2>1, FirstOfPair
  <1> QED BY <1>3, <1>4, <1>5, <1>6 DEF try

LEMMA RowsOfADate ==
    ASSUME GRTypeOK, StoreRowsAgree, NEW d \in Day
    PROVE  OperationsRows(d) =
              [queued |-> Cardinality(QueuedOn(d)), started |-> Cardinality(StartedOn(d)),
               succeeded |-> Cardinality(SucceededOn(d)), failed |-> Cardinality(FailedOn(d))]
  <1>1. {o \in CommittedOutputs : EndDate(o) = d} = SucceededOn(d)
    BY AttemptFacts, EndDates DEF SucceededOn
  <1>2. {o \in Attempts : /\ tries[o[1]][o[2]].status \in {"FAILED", "EXPIRED"}
                          /\ EndDate(o) = d} = FailedOn(d)
    BY EndDates DEF FailedOn
  <1> QED BY <1>1, <1>2 DEF OperationsRows, QueuedOn, StartedOn

\* Who is left out: by the date of the publication, or of the lease.
LEMMA UncountedDates ==
    ASSUME GRTypeOK, StoreRowsAgree, NEW d
    PROVE  d \in Uncounted <=>
              \E o \in Attempts :
                 LET try == tries[o[1]][o[2]]
                 IN  \/ o \notin CommittedOutputs /\ try.status = "SUCCEEDED" /\ try.published = d
                     \/ /\ try.status = "EXPIRED" /\ try.lease = d
                        /\ works[o[1]].updated > d + Lookback
  <1>1. \A o \in Attempts : o[1] \in Video /\ o[2] \in 1..MaxTries[o[1]]
    BY AttemptFacts
  <1>2. \A o \in Attempts : tries[o[1]][o[2]].published # None <=> tries[o[1]][o[2]].status = "SUCCEEDED"
    BY <1>1 DEF StoreRowsAgree, WorkAgrees, TryAgrees
  <1>3. d \in Uncounted <=> \E o \in Attempts :
                 /\ EndDate(o) = d
                 /\ \/ tries[o[1]][o[2]].status = "SUCCEEDED" /\ o \notin CommittedOutputs
                    \/ /\ tries[o[1]][o[2]].status = "EXPIRED"
                       /\ works[o[1]].updated > tries[o[1]][o[2]].lease + Lookback
    BY <1>2 DEF Uncounted, Withdrawn, FoundLate
  <1>4. \A o \in Attempts :
           /\ tries[o[1]][o[2]].status = "SUCCEEDED" => EndDate(o) = tries[o[1]][o[2]].published
           /\ tries[o[1]][o[2]].status = "EXPIRED" => EndDate(o) = tries[o[1]][o[2]].lease
    BY EndDates
  <1> QED BY <1>3, <1>4

\* A date that counts anything is the date of a row that lasts.
LEMMA CountedDatesLast ==
    ASSUME GRTypeOK, StoreRowsAgree, NEW d \in Day, d \notin LastingDates(0)
    PROVE  OperationsRows(d) = NoCounts
  <1>1. d \in Nat /\ d >= 0
    BY GoldRowsAssumption DEF Day
  <1>2. QueuedOn(d) = {}
    BY <1>1 DEF LastingDates, QueuedOn
  <1>3. StartedOn(d) = {} /\ FailedOn(d) = {}
    BY <1>1 DEF LastingDates, StartedOn, FailedOn
  <1>4. SucceededOn(d) = {}
    BY <1>1, AttemptFacts DEF LastingDates, SucceededOn
  <1> QED BY <1>2, <1>3, <1>4, RowsOfADate, FS_EmptySet DEF NoCounts

PairsAgree ==
    /\ \A o \in CommittedOutputs :
          /\ o[1] \in Video /\ o[2] \in 1..MaxTries[o[1]] /\ o[2] = works[o[1]].count
          /\ o \in Attempts /\ tries[o[1]][o[2]].status = "SUCCEEDED"
          /\ tries[o[1]][o[2]].published \in Nat
    /\ \A o \in Attempts :
          /\ o[1] \in Video /\ o[2] \in 1..MaxTries[o[1]] /\ o = <<o[1], o[2]>>
          /\ tries[o[1]][o[2]] \in TryRow /\ tries[o[1]][o[2]].status # "NONE"
    /\ \A v \in Video : \A n \in 1..MaxTries[v] :
          tries[v][n].status # "NONE" => <<v, n>> \in Attempts

CountsAgree ==
    /\ \A d \in Day :
          /\ OperationsRows(d) =
                [queued |-> Cardinality(QueuedOn(d)), started |-> Cardinality(StartedOn(d)),
                 succeeded |-> Cardinality(SucceededOn(d)), failed |-> Cardinality(FailedOn(d))]
          /\ d \notin LastingDates(0) => OperationsRows(d) = NoCounts
    /\ \A d : d \in Uncounted <=>
          \E o \in Attempts :
             LET try == tries[o[1]][o[2]]
             IN  \/ o \notin CommittedOutputs /\ try.status = "SUCCEEDED" /\ try.published = d
                 \/ /\ try.status = "EXPIRED" /\ try.lease = d
                    /\ works[o[1]].updated > d + Lookback

LEMMA ReadStore == GRTypeOK /\ StoreRowsAgree => PairsAgree /\ CountsAgree
  <1> SUFFICES ASSUME GRTypeOK, StoreRowsAgree PROVE PairsAgree /\ CountsAgree
    OBVIOUS
  <1>1. PairsAgree
    <2>1. \A o \in Attempts : tries[o[1]][o[2]].status # "NONE"
      BY DEF Attempts
    <2> QED BY <2>1, AttemptFacts DEF PairsAgree
  <1>2. CountsAgree
    BY RowsOfADate, CountedDatesLast, UncountedDates DEF CountsAgree
  <1> QED BY <1>1, <1>2

LEMMA ReadStoreNext == (GRTypeOK /\ StoreRowsAgree)' => PairsAgree' /\ CountsAgree'
  BY ReadStore, PTL

-----------------------------------------------------------------------------
(* What a step of the store changes *)

TryEvolves(w, n) ==
    LET try == tries[w][n]
        new == tries'[w][n]
    IN  \/ new = try
        \/ /\ try.status = "NONE" /\ new.status = "LEASED" /\ new.claimed = today
           /\ new.completed = None /\ new.published = None
        \/ /\ try.status \in Running /\ new.claimed = try.claimed /\ new.lease = try.lease
           /\ \/ new.status = "SEALED" /\ new.completed = None /\ new.published = None
              \/ new.status = "SUCCEEDED" /\ new.completed = today /\ new.published = today
              \/ new.status = "FAILED" /\ new.completed = today /\ new.published = None
              \/ /\ new.status = "EXPIRED" /\ new.completed = None /\ new.published = None
                 /\ works'[w].updated = today

StoreEvolves ==
    /\ today' = today /\ marts' = marts
    /\ mark' = [mark EXCEPT !.changed = TRUE, !.full = FALSE]
    /\ sequence' \in Nat /\ sequence <= sequence'
    /\ \A w \in Video :
          /\ \/ works'[w].created = works[w].created
             \/ works[w].created = None /\ works'[w].created = today
          /\ works'[w].updated \in {works[w].updated, today}
          /\ \A n \in 1..MaxTries[w] : TryEvolves(w, n)
    /\ \A o \in CommittedOutputs' \ CommittedOutputs :
          /\ tries'[o[1]][o[2]].published = today
          /\ tries'[o[1]][o[2]].seq > sequence

LEMMA DatesLast ==
    ASSUME GRTypeOK, StoreRowsAgree, GRTypeOK', StoreRowsAgree', StoreEvolves,
           NEW c \in Int
    PROVE  LastingDates(c) \subseteq LastingDates(c)'
  <1> SUFFICES ASSUME NEW d \in LastingDates(c) PROVE d \in LastingDates(c)'
    OBVIOUS
  <1>1. PairsAgree /\ PairsAgree'
    BY ReadStore, ReadStoreNext
  <1>2. d \in Nat /\ d >= c
    BY DEF LastingDates
  <1>3. CASE \E v \in Video : works[v].created = d
    <2>1. PICK v \in Video : works[v].created = d
      BY <1>3
    <2>2. d # None
      BY <1>2, GoldRowsAssumption
    <2>3. works'[v].created = d
      BY <2>1, <2>2 DEF StoreEvolves
    <2> QED BY <1>2, <2>3 DEF LastingDates
  <1>4. ASSUME NEW o \in Attempts,
               \/ d \in {tries[o[1]][o[2]].claimed, tries[o[1]][o[2]].completed, tries[o[1]][o[2]].published}
               \/ tries[o[1]][o[2]].status = "EXPIRED" /\ tries[o[1]][o[2]].lease = d
        PROVE  d \in LastingDates(c)'
    <2> DEFINE try == tries[o[1]][o[2]]
               new == tries'[o[1]][o[2]]
    <2>1. o[1] \in Video /\ o[2] \in 1..MaxTries[o[1]] /\ try.status # "NONE" /\ o = <<o[1], o[2]>>
      BY <1>1 DEF PairsAgree
    <2>2. TryEvolves(o[1], o[2])
      BY <2>1 DEF StoreEvolves
    <2>3. try.status \in Running => try.published = None /\ try.completed = None
      BY <2>1 DEF StoreRowsAgree, WorkAgrees, TryAgrees
    <2>4. d # None
      BY <1>2, GoldRowsAssumption
    <2>5. /\ new.status # "NONE"
          /\ \/ d \in {new.claimed, new.completed, new.published}
             \/ new.status = "EXPIRED" /\ new.lease = d
      <3>1. \/ new = try
            \/ try.status \in Running /\ new.claimed = try.claimed
               /\ new.status \in {"SEALED", "SUCCEEDED", "FAILED", "EXPIRED"}
        BY <2>1, <2>2 DEF TryEvolves
      <3>2. \/ d \in {try.claimed, try.completed, try.published}
            \/ try.status = "EXPIRED" /\ try.lease = d
        BY <1>4
      <3> HIDE DEF try, new
      <3>3. CASE new = try
        BY <2>1, <3>2, <3>3
      <3>4. CASE try.status \in Running /\ new.claimed = try.claimed
                 /\ new.status \in {"SEALED", "SUCCEEDED", "FAILED", "EXPIRED"}
        <4>1. try.status # "EXPIRED"
          BY <3>4 DEF Running
        <4>2. d = try.claimed
          BY <2>3, <2>4, <3>2, <3>4, <4>1
        <4> QED BY <3>4, <4>2
      <3> QED BY <3>1, <3>3, <3>4
    <2>6. o \in Attempts'
      BY <1>1, <2>1, <2>5 DEF PairsAgree
    <2> QED BY <1>2, <2>5, <2>6 DEF LastingDates
  <1> QED BY <1>3, <1>4 DEF LastingDates

LEMMA UncountedStay ==
    ASSUME GRTypeOK, StoreRowsAgree, GRTypeOK', StoreRowsAgree', StoreEvolves
    PROVE  Uncounted \subseteq Uncounted'
  <1> SUFFICES ASSUME NEW d \in Uncounted PROVE d \in Uncounted'
    OBVIOUS
  <1>1. PairsAgree /\ PairsAgree' /\ CountsAgree /\ CountsAgree'
    BY ReadStore, ReadStoreNext
  <1>2. PICK o \in Attempts :
             \/ o \notin CommittedOutputs /\ tries[o[1]][o[2]].status = "SUCCEEDED" /\ tries[o[1]][o[2]].published = d
             \/ /\ tries[o[1]][o[2]].status = "EXPIRED" /\ tries[o[1]][o[2]].lease = d
                /\ works[o[1]].updated > d + Lookback
    BY <1>1 DEF CountsAgree
  <1>3. o[1] \in Video /\ o[2] \in 1..MaxTries[o[1]] /\ tries[o[1]][o[2]] \in TryRow
        /\ o = <<o[1], o[2]>> /\ works[o[1]] \in WorkRow
    BY <1>1 DEF PairsAgree, GRTypeOK
  <1>4. tries'[o[1]][o[2]] = tries[o[1]][o[2]]
    BY <1>2, <1>3 DEF StoreEvolves, TryEvolves, Running
  <1>5. o \in Attempts'
    BY <1>1, <1>2, <1>3, <1>4 DEF PairsAgree
  <1>6. CASE o \notin CommittedOutputs /\ tries[o[1]][o[2]].status = "SUCCEEDED" /\ tries[o[1]][o[2]].published = d
    <2>1. ASSUME o \in CommittedOutputs' PROVE FALSE
      <3>1. tries[o[1]][o[2]].seq > sequence
        BY <1>4, <1>6, <2>1 DEF StoreEvolves
      <3>2. tries[o[1]][o[2]].seq <= sequence
        BY <1>3 DEF StoreRowsAgree, WorkAgrees, TryAgrees
      <3>3. tries[o[1]][o[2]].seq \in Nat /\ sequence \in Nat
        BY <1>3 DEF TryRow, GRTypeOK
      <3> QED BY <3>1, <3>2, <3>3
    <2> QED BY <1>1, <1>4, <1>5, <1>6, <2>1 DEF CountsAgree
  <1>7. CASE /\ tries[o[1]][o[2]].status = "EXPIRED" /\ tries[o[1]][o[2]].lease = d
             /\ works[o[1]].updated > d + Lookback
    <2>1. d \in Nat
      <3>1. tries[o[1]][o[2]].lease # None
        BY <1>3, <1>7 DEF StoreRowsAgree, WorkAgrees, TryAgrees
      <3>2. tries[o[1]][o[2]].lease \in MaybeDay
        BY <1>3 DEF TryRow
      <3> QED BY <1>7, <3>1, <3>2 DEF MaybeDay
    <2>2. works[o[1]].updated \in Nat /\ works[o[1]].updated <= today
      <3>1. works[o[1]].updated # None
        BY <1>3, <1>7 DEF StoreRowsAgree, WorkAgrees, TryAgrees
      <3> QED BY <1>3, <3>1 DEF StoreRowsAgree, WorkAgrees, TryAgrees, WorkRow, MaybeDay
    <2>3. works'[o[1]].updated > d + Lookback
      BY <1>3, <1>7, <2>1, <2>2, GoldRowsAssumption DEF StoreEvolves, GRTypeOK
    <2> QED BY <1>1, <1>4, <1>5, <1>7, <2>3 DEF CountsAgree
  <1> QED BY <1>2, <1>6, <1>7

\* A date counts what it counted, or will be counted again, or is left out.
LEMMA CountsEvolve ==
    ASSUME GRTypeOK, StoreRowsAgree, GRTypeOK', StoreRowsAgree', StoreEvolves,
           NEW at \in Nat, at <= today, NEW d \in Day,
           d \notin Uncounted', d \notin LastingDates(at - Lookback)'
    PROVE  OperationsRows(d)' = OperationsRows(d)
  <1>1. PairsAgree /\ PairsAgree' /\ CountsAgree /\ CountsAgree'
    BY ReadStore, ReadStoreNext
  <1>2. d \in Nat /\ d # None /\ today \in Nat /\ Lookback \in Nat /\ Lookback >= 1
    BY GoldRowsAssumption DEF Day, GRTypeOK
  <1>3. /\ d >= at - Lookback => \A v \in Video : works'[v].created # d
        /\ d >= at - Lookback => \A o \in Attempts' :
              LET new == tries'[o[1]][o[2]]
              IN  /\ new.claimed # d /\ new.completed # d /\ new.published # d
                  /\ ~(new.status = "EXPIRED" /\ new.lease = d)
    BY <1>2 DEF LastingDates
  <1>4. /\ d = today => d >= at - Lookback
    BY <1>2
  <1>5. QueuedOn(d)' = QueuedOn(d)
    <2>1. ASSUME NEW v \in Video PROVE works'[v].created = d <=> works[v].created = d
      BY <1>2, <1>3, <1>4 DEF StoreEvolves
    <2> QED BY <2>1 DEF QueuedOn
  <1>6. ASSUME NEW o \in Attempts
        PROVE  /\ o \in Attempts' /\ TryEvolves(o[1], o[2]) /\ o[1] \in Video /\ o[2] \in 1..MaxTries[o[1]]
    <2>1. o[1] \in Video /\ o[2] \in 1..MaxTries[o[1]] /\ o = <<o[1], o[2]>>
          /\ tries[o[1]][o[2]].status # "NONE"
      BY <1>1 DEF PairsAgree
    <2>2. TryEvolves(o[1], o[2])
      BY <2>1 DEF StoreEvolves
    <2>3. tries'[o[1]][o[2]].status # "NONE"
      BY <2>1, <2>2 DEF TryEvolves
    <2> QED BY <1>1, <2>1, <2>2, <2>3 DEF PairsAgree
  <1>7. ASSUME NEW o \in Attempts', o \notin Attempts
        PROVE  tries'[o[1]][o[2]].status = "LEASED" /\ tries'[o[1]][o[2]].claimed = today
    <2>1. o[1] \in Video /\ o[2] \in 1..MaxTries[o[1]] /\ o = <<o[1], o[2]>>
          /\ tries'[o[1]][o[2]].status # "NONE"
      BY <1>1 DEF PairsAgree
    <2>2. TryEvolves(o[1], o[2])
      BY <2>1 DEF StoreEvolves
    <2>3. tries[o[1]][o[2]].status = "NONE"
      BY <1>1, <1>7, <2>1 DEF PairsAgree
    <2> QED BY <2>1, <2>2, <2>3 DEF TryEvolves, Running
  <1>8. StartedOn(d)' = StartedOn(d)
    <2>1. ASSUME NEW o \in Attempts PROVE tries'[o[1]][o[2]].claimed = tries[o[1]][o[2]].claimed
      <3>1. tries[o[1]][o[2]].status # "NONE"
        BY <1>1 DEF PairsAgree
      <3> QED BY <1>6, <3>1 DEF TryEvolves
    <2>2. ASSUME NEW o \in Attempts', o \notin Attempts PROVE tries'[o[1]][o[2]].claimed # d
      BY <1>3, <1>4, <1>7, <2>2
    <2> QED BY <1>6, <2>1, <2>2 DEF StartedOn
  <1>9. SucceededOn(d)' = SucceededOn(d)
    <2>1. ASSUME NEW o \in CommittedOutputs', tries'[o[1]][o[2]].published = d
          PROVE  o \in CommittedOutputs /\ tries[o[1]][o[2]].published = d
      <3>1. o \in Attempts'
        BY <1>1 DEF PairsAgree
      <3>2. o \in CommittedOutputs
        BY <1>3, <1>4, <2>1, <3>1 DEF StoreEvolves
      <3>3. tries[o[1]][o[2]].status = "SUCCEEDED" /\ o \in Attempts
        BY <1>1, <3>2 DEF PairsAgree
      <3>4. tries'[o[1]][o[2]] = tries[o[1]][o[2]]
        BY <1>6, <3>3 DEF TryEvolves, Running
      <3> QED BY <2>1, <3>2, <3>4
    <2>2. ASSUME NEW o \in CommittedOutputs, tries[o[1]][o[2]].published = d
          PROVE  o \in CommittedOutputs' /\ tries'[o[1]][o[2]].published = d
      <3>1. tries[o[1]][o[2]].status = "SUCCEEDED" /\ o \in Attempts
        BY <1>1 DEF PairsAgree
      <3>2. tries'[o[1]][o[2]] = tries[o[1]][o[2]] /\ o \in Attempts'
        BY <1>6, <3>1 DEF TryEvolves, Running
      <3>3. o \in CommittedOutputs'
        BY <1>1, <2>2, <3>1, <3>2 DEF CountsAgree
      <3> QED BY <2>2, <3>2, <3>3
    <2> QED BY <2>1, <2>2 DEF SucceededOn
  <1>10. FailedOn(d)' = FailedOn(d)
    <2>1. ASSUME NEW o \in FailedOn(d) PROVE o \in FailedOn(d)'
      <3>1. o \in Attempts /\ tries[o[1]][o[2]].status \in {"FAILED", "EXPIRED"}
        BY DEF FailedOn
      <3>2. tries'[o[1]][o[2]] = tries[o[1]][o[2]] /\ o \in Attempts'
        BY <1>6, <3>1 DEF TryEvolves, Running
      <3> QED BY <3>2 DEF FailedOn
    <2>2. ASSUME NEW o \in FailedOn(d)' PROVE o \in FailedOn(d)
      <3> DEFINE try == tries[o[1]][o[2]]
                 new == tries'[o[1]][o[2]]
      <3>1. /\ o \in Attempts'
            /\ (new.status = "FAILED" /\ new.completed = d) \/ (new.status = "EXPIRED" /\ new.lease = d)
        BY DEF FailedOn
      <3>2. o \in Attempts
        BY <1>7, <3>1
      <3>3. try.status # "NONE" /\ TryEvolves(o[1], o[2])
        BY <1>1, <1>6, <3>2 DEF PairsAgree
      <3>4. CASE new = try
        BY <3>1, <3>2, <3>4 DEF FailedOn
      <3>5. CASE new.status = "FAILED" /\ new.completed = today
        BY <1>3, <1>4, <3>1, <3>5
      <3>6. CASE new.status = "EXPIRED" /\ works'[o[1]].updated = today
        <4>1. new.lease = d
          BY <3>1, <3>6
        <4>2. d >= at - Lookback \/ today > d + Lookback
          BY <1>2
        <4>3. CASE d >= at - Lookback
          BY <1>3, <3>1, <3>6, <4>1, <4>3
        <4>4. CASE today > d + Lookback
          BY <1>1, <3>1, <3>6, <4>1, <4>4 DEF CountsAgree
        <4> QED BY <4>2, <4>3, <4>4
      <3>7. new.status \in {"FAILED", "EXPIRED"}
        BY <3>1
      <3>8. \/ new = try
            \/ new.status = "FAILED" /\ new.completed = today
            \/ new.status = "EXPIRED" /\ works'[o[1]].updated = today
        BY <3>3, <3>7 DEF TryEvolves
      <3> QED BY <3>4, <3>5, <3>6, <3>8
    <2>3. FailedOn(d)' \subseteq FailedOn(d) /\ FailedOn(d) \subseteq FailedOn(d)'
      BY <2>1, <2>2
    <2> QED BY <2>3
  <1> QED BY <1>1, <1>5, <1>8, <1>9, <1>10 DEF CountsAgree

\* A step of the store leaves what was saved as it is.
LEMMA RowStoreStep ==
    ASSUME GRInv, GRTypeOK', StoreRowsAgree', StoreEvolves
    PROVE  GRInv'
  <1>1. GRTypeOK /\ StoreRowsAgree /\ VideoIsAsSaved /\ OperationsAreAsSaved
    BY DEF GRInv
  <1>2. /\ marts' = marts /\ today' = today /\ sequence <= sequence' /\ sequence \in Nat /\ sequence' \in Nat
        /\ mark'.flow = mark.flow /\ mark'.at = mark.at /\ mark'.written = mark.written
        /\ mark'.changed = TRUE
    BY <1>1 DEF StoreEvolves, GRTypeOK
  <1>3. PairsAgree /\ PairsAgree'
    BY <1>1, ReadStore, ReadStoreNext
  <1>4. Saved' = Saved
    BY <1>2 DEF Saved
  <1>5. VideoIsAsSaved'
    <2>1. ASSUME Saved, NEW o \in CommittedOutputs' \ mark.flow.outputs
          PROVE  SequenceOf(o)' > mark.flow.sequence
      <3>1. mark.flow.sequence \in Nat /\ mark.flow.sequence <= sequence
        BY <1>1, <2>1 DEF Saved, GRTypeOK
      <3>2. /\ o[1] \in Video /\ o[2] \in 1..MaxTries[o[1]] /\ tries'[o[1]][o[2]] \in TryRow
        BY <1>3 DEF PairsAgree
      <3>3. tries'[o[1]][o[2]].seq \in Nat
        BY <3>2 DEF TryRow
      <3>4. CASE o \in CommittedOutputs
        <4>1. SequenceOf(o) > mark.flow.sequence
          BY <1>1, <2>1, <3>4 DEF VideoIsAsSaved
        <4>2. tries[o[1]][o[2]].status = "SUCCEEDED"
          BY <1>3, <3>4 DEF PairsAgree
        <4>3. TryEvolves(o[1], o[2])
          BY <3>2 DEF StoreEvolves
        <4>4. tries'[o[1]][o[2]] = tries[o[1]][o[2]]
          BY <4>2, <4>3 DEF TryEvolves, Running
        <4> QED BY <4>1, <4>4 DEF SequenceOf
      <3>5. CASE o \notin CommittedOutputs
        <4>1. tries'[o[1]][o[2]].seq > sequence
          BY <2>1, <3>5 DEF StoreEvolves
        <4> QED BY <1>2, <3>1, <3>3, <4>1 DEF SequenceOf
      <3> QED BY <3>4, <3>5
    <2> QED BY <1>1, <1>2, <1>4, <2>1 DEF VideoIsAsSaved
  <1>6. OperationsAreAsSaved'
    <2> SUFFICES ASSUME NEW d \in Day
                 PROVE  /\ marts.operations[d] # NoCounts => d \in LastingDates(0)'
                        /\ Saved /\ d \notin Uncounted' =>
                              \/ marts.operations[d] = OperationsRows(d)'
                              \/ d \in LastingDates(mark.at - Lookback)'
      BY <1>2, <1>4 DEF OperationsAreAsSaved
    <2>1. marts.operations[d] # NoCounts => d \in LastingDates(0)'
      BY <1>1, DatesLast DEF OperationsAreAsSaved
    <2>2. ASSUME Saved, d \notin Uncounted'
          PROVE  \/ marts.operations[d] = OperationsRows(d)'
                 \/ d \in LastingDates(mark.at - Lookback)'
      <3>1. mark.at \in Nat /\ mark.at <= today
        BY <1>1, <2>2 DEF Saved, GRTypeOK
      <3>2. PICK at \in Nat : at = mark.at
        BY <3>1
      <3>3. at <= today /\ at - Lookback \in Int /\ mark'.at = at
        BY <1>2, <3>1, <3>2, GoldRowsAssumption
      <3>4. d \notin Uncounted
        BY <1>1, <2>2, UncountedStay
      <3>5. \/ marts.operations[d] = OperationsRows(d)
            \/ d \in LastingDates(at - Lookback)
        BY <1>1, <2>2, <3>2, <3>4 DEF OperationsAreAsSaved
      <3>6. LastingDates(at - Lookback)' = LastingDates(mark.at - Lookback)'
        BY <3>3
      <3>7. CASE d \in LastingDates(at - Lookback)
        BY <1>1, <3>3, <3>6, <3>7, DatesLast
      <3>8. CASE marts.operations[d] = OperationsRows(d)
        BY <1>1, <2>2, <3>3, <3>6, <3>8, CountsEvolve
      <3> QED BY <3>5, <3>7, <3>8
    <2> QED BY <2>1, <2>2
  <1>7. StatusIsAsSaved'
    BY <1>2 DEF StatusIsAsSaved
  <1> QED BY <1>5, <1>6, <1>7 DEF GRInv

LEMMA StoreWrites ==
    ASSUME GRTypeOK, NEW v \in Video, NEW n \in 1..MaxTries[v], NEW row \in WorkRow, NEW try \in TryRow,
           Store(v, row, n, try), sequence' \in {sequence, sequence + 1}
    PROVE  /\ GRTypeOK'
           /\ works'[v] = row /\ \A w \in Video \ {v} : works'[w] = works[w] /\ tries'[w] = tries[w]
           /\ tries'[v][n] = try /\ \A m \in 1..MaxTries[v] \ {n} : tries'[v][m] = tries[v][m]
           /\ today' = today /\ marts' = marts /\ sequence <= sequence' /\ sequence' \in Nat
           /\ mark' = [mark EXCEPT !.changed = TRUE, !.full = FALSE]
  <1>1. /\ works' = [works EXCEPT ![v] = row] /\ tries' = [tries EXCEPT ![v][n] = try]
        /\ today' = today /\ marts' = marts
        /\ mark' = [mark EXCEPT !.changed = TRUE, !.full = FALSE]
    BY DEF Store
  <1>2. works' \in [Video -> WorkRow] /\ works'[v] = row
        /\ \A w \in Video \ {v} : works'[w] = works[w]
    BY <1>1 DEF GRTypeOK
  <1>3. tries[v] \in [1..MaxTries[v] -> TryRow] /\ DOMAIN tries = Video
    BY DEF GRTypeOK
  <1>4. /\ DOMAIN tries' = Video /\ tries'[v] = [tries[v] EXCEPT ![n] = try]
        /\ \A w \in Video \ {v} : tries'[w] = tries[w]
    BY <1>1, <1>3
  <1>5. /\ tries'[v] \in [1..MaxTries[v] -> TryRow] /\ tries'[v][n] = try
        /\ \A m \in 1..MaxTries[v] \ {n} : tries'[v][m] = tries[v][m]
    BY <1>3, <1>4
  <1>6. \A w \in Video : tries'[w] \in [1..MaxTries[w] -> TryRow]
    BY <1>4, <1>5 DEF GRTypeOK
  <1>7. sequence \in Nat /\ sequence' \in Nat /\ sequence <= sequence'
    BY DEF GRTypeOK
  <1>8. /\ DOMAIN mark' = DOMAIN mark /\ mark'.flow = mark.flow /\ mark'.at = mark.at
        /\ mark'.written = mark.written /\ mark'.changed = TRUE
    BY <1>1 DEF GRTypeOK
  <1>9. GRTypeOK'
    BY <1>1, <1>2, <1>4, <1>6, <1>7, <1>8 DEF GRTypeOK
  <1> QED BY <1>1, <1>2, <1>4, <1>5, <1>7, <1>9

\* One row is written: the other rows agree as they did.
LEMMA RowWritten ==
    ASSUME GRTypeOK, StoreRowsAgree, NEW v \in Video, NEW n \in 1..MaxTries[v],
           NEW row \in WorkRow, NEW try \in TryRow, Store(v, row, n, try),
           sequence' \in {sequence, sequence + 1},
           row.count >= works[v].count,
           works[v].updated # None => row.updated # None,
           \A m \in 1..MaxTries[v] \ {n} : tries[v][m].status \notin Running,
           WorkAgrees(v)', TryAgrees(v, n)'
    PROVE  StoreRowsAgree'
  <1>1. /\ works'[v] = row /\ \A w \in Video \ {v} : works'[w] = works[w] /\ tries'[w] = tries[w]
        /\ tries'[v][n] = try /\ \A m \in 1..MaxTries[v] \ {n} : tries'[v][m] = tries[v][m]
        /\ today' = today /\ sequence <= sequence' /\ sequence' \in Nat /\ sequence \in Nat
    BY StoreWrites DEF GRTypeOK
  <1>2. \A w \in Video : \A m \in 1..MaxTries[w] : tries[w][m].seq \in Nat /\ tries[w][m].seq <= sequence
    <2> SUFFICES ASSUME NEW w \in Video, NEW m \in 1..MaxTries[w]
                 PROVE  tries[w][m].seq \in Nat /\ tries[w][m].seq <= sequence
      OBVIOUS
    <2>1. tries[w][m] \in TryRow
      BY DEF GRTypeOK
    <2> QED BY <2>1 DEF TryRow, StoreRowsAgree, TryAgrees
  <1>3. ASSUME NEW w \in Video \ {v} PROVE WorkAgrees(w)'
    <2>1. WorkAgrees(w) /\ works'[w] = works[w] /\ tries'[w] = tries[w] /\ today' = today
      BY <1>1 DEF StoreRowsAgree
    <2> QED BY <2>1 DEF WorkAgrees
  <1>4. ASSUME NEW w \in Video, NEW m \in 1..MaxTries[w], w # v \/ m # n PROVE TryAgrees(w, m)'
    <2>1. /\ TryAgrees(w, m) /\ tries'[w][m] = tries[w][m] /\ tries[w][m].seq <= sequence'
      BY <1>1, <1>2, <1>4 DEF StoreRowsAgree
    <2>2. CASE w # v
      <3>1. works'[w] = works[w]
        BY <1>1, <2>2
      <3> QED BY <2>1, <3>1 DEF TryAgrees
    <2>3. CASE w = v
      <3>1. m # n /\ tries[w][m].status \notin Running /\ works'[w] = row
        BY <1>1, <1>4, <2>3
      <3>2. m > row.count => m > works[v].count
        BY <2>3 DEF GRTypeOK, WorkRow
      <3> QED BY <2>1, <2>3, <3>1, <3>2 DEF TryAgrees
    <2> QED BY <2>2, <2>3
  <1> QED BY <1>3, <1>4 DEF StoreRowsAgree

LEMMA PointersStay ==
    ASSUME GRTypeOK, NEW v \in Video, works'[v].pointer \in {works[v].pointer, None},
           \A w \in Video \ {v} : works'[w] = works[w]
    PROVE  CommittedOutputs' \subseteq CommittedOutputs
  <1>1. \A w \in Video : works'[w].pointer # None => works'[w].pointer = works[w].pointer
    OBVIOUS
  <1> QED BY <1>1 DEF CommittedOutputs

\* What the operations have in common.
LEMMA Operation ==
    ASSUME GRInv, NEW v \in Video, NEW n \in 1..MaxTries[v],
           NEW row \in WorkRow, NEW try \in TryRow, Store(v, row, n, try),
           sequence' \in {sequence, sequence + 1},
           row.count >= works[v].count, row.updated \in {works[v].updated, today},
           \/ row.created = works[v].created
           \/ works[v].created = None /\ row.created = today,
           \A m \in 1..MaxTries[v] \ {n} : tries[v][m].status \notin Running,
           WorkAgrees(v)', TryAgrees(v, n)', TryEvolves(v, n),
           \/ row.pointer \in {works[v].pointer, None}
           \/ row.pointer = n /\ try.published = today /\ try.seq > sequence
    PROVE  GRInv'
  <1>1. GRTypeOK /\ StoreRowsAgree
    BY DEF GRInv
  <1>2. /\ GRTypeOK'
        /\ works'[v] = row /\ \A w \in Video \ {v} : works'[w] = works[w] /\ tries'[w] = tries[w]
        /\ tries'[v][n] = try /\ \A m \in 1..MaxTries[v] \ {n} : tries'[v][m] = tries[v][m]
        /\ today' = today /\ marts' = marts /\ sequence <= sequence' /\ sequence' \in Nat
        /\ mark' = [mark EXCEPT !.changed = TRUE, !.full = FALSE]
    BY <1>1, StoreWrites
  <1>3. today # None
    BY <1>1, GoldRowsAssumption DEF GRTypeOK
  <1>4. StoreRowsAgree'
    BY <1>1, <1>3, RowWritten
  <1>5. ASSUME NEW w \in Video
        PROVE  /\ \/ works'[w].created = works[w].created
                  \/ works[w].created = None /\ works'[w].created = today
               /\ works'[w].updated \in {works[w].updated, today}
               /\ \A m \in 1..MaxTries[w] : TryEvolves(w, m)
    <2>1. CASE w # v
      BY <1>2, <2>1 DEF TryEvolves
    <2>2. CASE w = v
      <3>1. ASSUME NEW m \in 1..MaxTries[w], m # n PROVE TryEvolves(w, m)
        BY <1>2, <2>2, <3>1 DEF TryEvolves
      <3> QED BY <1>2, <2>2, <3>1
    <2> QED BY <2>1, <2>2
  <1>6. ASSUME NEW o \in CommittedOutputs' \ CommittedOutputs
        PROVE  tries'[o[1]][o[2]].published = today /\ tries'[o[1]][o[2]].seq > sequence
    <2>1. CASE row.pointer \in {works[v].pointer, None}
      BY <1>1, <1>2, <1>6, <2>1, PointersStay
    <2>2. CASE row.pointer = n /\ try.published = today /\ try.seq > sequence
      <3>1. PICK w \in Video : o = <<w, works'[w].pointer>> /\ works'[w].pointer # None
        BY DEF CommittedOutputs
      <3>2. w = v
        BY <1>2, <1>6, <3>1 DEF CommittedOutputs
      <3> QED BY <1>2, <2>2, <3>1, <3>2
    <2> QED BY <2>1, <2>2
  <1>7. StoreEvolves
    BY <1>2, <1>5, <1>6 DEF StoreEvolves
  <1> QED BY <1>2, <1>4, <1>7, RowStoreStep

LEMMA RowTyped ==
    ASSUME GRInv, NEW v \in Video
    PROVE  /\ works[v] \in WorkRow /\ MaxTries[v] \in Nat /\ MaxTries[v] >= 1
           /\ works[v].count \in Nat /\ works[v].count <= MaxTries[v]
           /\ WorkAgrees(v) /\ \A n \in 1..MaxTries[v] : tries[v][n] \in TryRow /\ TryAgrees(v, n)
           /\ today \in Nat /\ today # None /\ sequence \in Nat
           /\ NoTry \in TryRow
  <1>1. GRTypeOK /\ StoreRowsAgree
    BY DEF GRInv
  <1>2. works[v] \in WorkRow /\ MaxTries[v] \in Nat \ {0} /\ today \in Nat /\ sequence \in Nat
    BY <1>1, GoldRowsAssumption DEF GRTypeOK
  <1>3. works[v].count \in Nat
    BY <1>2 DEF WorkRow
  <1>4. \A n \in 1..MaxTries[v] : tries[v][n] \in TryRow
    BY <1>1 DEF GRTypeOK
  <1>5. NoTry \in TryRow
    BY DEF NoTry, TryRow, MaybeDay
  <1>6. WorkAgrees(v) /\ \A n \in 1..MaxTries[v] : TryAgrees(v, n)
    BY <1>1 DEF StoreRowsAgree
  <1> QED BY <1>2, <1>3, <1>4, <1>5, <1>6, GoldRowsAssumption DEF WorkAgrees

LEMMA RegisterStep ==
    ASSUME GRInv, NEW v \in Video, RegisterVideo(v)
    PROVE  GRInv'
  <1> DEFINE row == [works[v] EXCEPT !.status = "READY", !.created = today, !.updated = today]
  <1>1. /\ works[v] \in WorkRow /\ works[v].status = "NONE" /\ Store(v, row, 1, NoTry)
        /\ sequence' = sequence /\ 1 \in 1..MaxTries[v] /\ NoTry \in TryRow /\ today \in Nat
        /\ WorkAgrees(v) /\ \A n \in 1..MaxTries[v] : tries[v][n] \in TryRow /\ TryAgrees(v, n)
        /\ sequence \in Nat
    BY RowTyped DEF RegisterVideo
  <1>2. /\ row \in WorkRow /\ row.status = "READY" /\ row.created = today /\ row.updated = today
        /\ row.count = works[v].count /\ row.pointer = works[v].pointer
    BY <1>1 DEF WorkRow, MaybeDay
  <1>3. works[v].created = None /\ works[v].count = 0 /\ works[v].pointer = None
    BY <1>1 DEF WorkAgrees
  <1>4. \A n \in 1..MaxTries[v] : tries[v][n].status = "NONE" /\ tries[v][n] = NoTry
    BY <1>1, <1>3 DEF TryAgrees
  <1> HIDE DEF row
  <1>5. /\ works'[v] = row /\ today' = today /\ tries'[v][1] = NoTry
    BY <1>1, <1>2, StoreWrites DEF GRInv
  <1>6. WorkAgrees(v)'
    BY <1>1, <1>2, <1>3, <1>5 DEF WorkAgrees
  <1>7. TryAgrees(v, 1)'
    BY <1>1, <1>2, <1>3, <1>5 DEF TryAgrees, NoTry, Running
  <1>8. TryEvolves(v, 1)
    BY <1>1, <1>4, <1>5 DEF TryEvolves
  <1>9. \A m \in 1..MaxTries[v] \ {1} : tries[v][m].status \notin Running
    BY <1>4 DEF Running
  <1>10. row.count >= works[v].count
    BY <1>2, <1>3
  <1> QED BY <1>1, <1>2, <1>3, <1>6, <1>7, <1>8, <1>9, <1>10, Operation

LEMMA ClaimStep ==
    ASSUME GRInv, NEW v \in Video, ClaimVideo(v)
    PROVE  GRInv'
  <1>0. PICK n \in Nat : n = works[v].count + 1
    BY RowTyped
  <1> DEFINE row == [works[v] EXCEPT !.status = "LEASED", !.updated = today, !.count = n]
             try == [NoTry EXCEPT !.status = "LEASED", !.claimed = today, !.lease = today + LeaseDays]
  <1>1. /\ works[v] \in WorkRow /\ works[v].status = "READY" /\ Store(v, row, n, try)
        /\ sequence' = sequence /\ n <= MaxTries[v] /\ today \in Nat /\ MaxTries[v] \in Nat
        /\ WorkAgrees(v) /\ \A m \in 1..MaxTries[v] : tries[v][m] \in TryRow /\ TryAgrees(v, m)
        /\ sequence \in Nat /\ works[v].count \in Nat
    BY <1>0, RowTyped DEF ClaimVideo
  <1>2. n \in 1..MaxTries[v] /\ n \in Nat /\ n >= works[v].count /\ n > works[v].count
    BY <1>0, <1>1
  <1>3. /\ row \in WorkRow /\ row.status = "LEASED" /\ row.created = works[v].created /\ row.updated = today
        /\ row.count = n /\ row.pointer = works[v].pointer
    BY <1>1, <1>2 DEF WorkRow, MaybeDay
  <1>4. /\ try \in TryRow /\ try.status = "LEASED" /\ try.claimed = today /\ try.lease \in Nat
        /\ try.completed = None /\ try.published = None /\ try.seq = 0
    <2>1. NoTry \in TryRow /\ NoTry.completed = None /\ NoTry.published = None /\ NoTry.seq = 0
      BY RowTyped DEF NoTry
    <2>2. today + LeaseDays \in Nat
      BY <1>1, GoldRowsAssumption
    <2> QED BY <1>1, <2>1, <2>2 DEF TryRow, MaybeDay
  <1>5. works[v].pointer = None
    BY <1>1 DEF WorkAgrees
  <1>6. tries[v][n].status = "NONE"
    BY <1>1, <1>2 DEF TryAgrees
  <1> HIDE DEF row, try
  <1>7. /\ works'[v] = row /\ today' = today /\ tries'[v][n] = try
    BY <1>1, <1>2, <1>3, <1>4, StoreWrites DEF GRInv
  <1>8. WorkAgrees(v)'
    BY <1>1, <1>2, <1>3, <1>4, <1>5, <1>7 DEF WorkAgrees, Running
  <1>9. TryAgrees(v, n)'
    <2>1. try.claimed # None /\ try.lease # None
      BY <1>1, <1>4, GoldRowsAssumption
    <2>2. works'[v].count = n /\ works'[v].status = "LEASED" /\ tries'[v][n] = try /\ try.seq <= sequence'
      BY <1>1, <1>3, <1>4, <1>7
    <2> QED BY <1>2, <1>4, <2>1, <2>2 DEF TryAgrees, Running
  <1>10. TryEvolves(v, n)
    BY <1>4, <1>6, <1>7 DEF TryEvolves
  <1>11. \A m \in 1..MaxTries[v] \ {n} : tries[v][m].status \notin Running
    BY <1>1 DEF TryAgrees
  <1>12. row.count >= works[v].count /\ row.updated \in {works[v].updated, today}
         /\ row.created = works[v].created /\ row.pointer \in {works[v].pointer, None}
         /\ sequence' \in {sequence, sequence + 1}
    BY <1>1, <1>2, <1>3
  <1> QED BY <1>1, <1>2, <1>3, <1>4, <1>8, <1>9, <1>10, <1>11, <1>12, Operation

\* A running attempt is the last one of its work.
LEMMA LastIsRunning ==
    ASSUME GRInv, NEW v \in Video, works[v].status = "LEASED"
    PROVE  LET n == works[v].count
           IN  /\ n \in 1..MaxTries[v] /\ tries[v][n].status \in Running /\ tries[v][n] \in TryRow
               /\ tries[v][n].claimed \in Nat /\ tries[v][n].lease \in Nat
               /\ tries[v][n].completed = None /\ tries[v][n].published = None
               /\ tries[v][n].seq \in Nat /\ tries[v][n].seq <= sequence
               /\ works[v].pointer = None
               /\ \A m \in 1..MaxTries[v] \ {n} : tries[v][m].status \notin Running
  <1> DEFINE n == works[v].count
  <1>1. n \in 1..MaxTries[v] /\ tries[v][n].status \in Running /\ works[v].pointer = None
    BY RowTyped DEF WorkAgrees
  <1>2. tries[v][n] \in TryRow /\ TryAgrees(v, n)
    BY <1>1, RowTyped
  <1>3. tries[v][n].claimed # None /\ tries[v][n].lease # None
    BY <1>1, <1>2 DEF TryAgrees, Running
  <1>4. /\ tries[v][n].completed = None /\ tries[v][n].published = None
        /\ tries[v][n].seq <= sequence
    BY <1>1, <1>2 DEF TryAgrees
  <1>5. \A m \in 1..MaxTries[v] \ {n} : tries[v][m].status \notin Running
    BY RowTyped DEF TryAgrees
  <1>6. tries[v][n].claimed \in Nat /\ tries[v][n].lease \in Nat /\ tries[v][n].seq \in Nat
    BY <1>2, <1>3 DEF TryRow, MaybeDay
  <1> QED BY <1>1, <1>2, <1>4, <1>5, <1>6

\* The steps of a running attempt.
LEMMA RunningStep ==
    ASSUME GRInv, NEW v \in Video, works[v].status = "LEASED",
           NEW row \in WorkRow, NEW try \in TryRow, Store(v, row, works[v].count, try),
           row.count = works[v].count, row.created = works[v].created,
           row.updated \in {works[v].updated, today},
           try.claimed = tries[v][works[v].count].claimed, try.lease = tries[v][works[v].count].lease,
           \/ /\ row.status = "LEASED" /\ row.pointer = None
              /\ try.status = "SEALED" /\ try.completed = None /\ try.published = None
              /\ try.seq = tries[v][works[v].count].seq /\ sequence' = sequence
           \/ /\ row.status = "SUCCEEDED" /\ row.pointer = works[v].count
              /\ try.status = "SUCCEEDED" /\ try.completed = today /\ try.published = today
              /\ try.seq = sequence + 1 /\ sequence' = sequence + 1
           \/ /\ row.status \in {"READY", "DEAD"} /\ row.pointer = None /\ row.updated = today
              /\ \/ try.status = "FAILED" /\ try.completed = today /\ try.published = None
                 \/ try.status = "EXPIRED" /\ try.completed = None /\ try.published = None
              /\ try.seq = tries[v][works[v].count].seq /\ sequence' = sequence
    PROVE  GRInv'
  <1>0. PICK n \in 1..MaxTries[v] : n = works[v].count
    BY LastIsRunning
  <1>1. /\ n \in 1..MaxTries[v] /\ tries[v][n].status \in Running /\ tries[v][n] \in TryRow
        /\ tries[v][n].claimed \in Nat /\ tries[v][n].lease \in Nat
        /\ tries[v][n].seq \in Nat /\ tries[v][n].seq <= sequence
        /\ works[v].pointer = None
        /\ \A m \in 1..MaxTries[v] \ {n} : tries[v][m].status \notin Running
    BY <1>0, LastIsRunning
  <1>2. /\ today \in Nat /\ today # None /\ sequence \in Nat /\ WorkAgrees(v) /\ n \in Nat /\ n >= 1
        /\ MaxTries[v] \in Nat
    BY <1>1, RowTyped
  <1>3. /\ GRTypeOK /\ sequence' \in {sequence, sequence + 1}
    BY DEF GRInv
  <1>4. works'[v] = row /\ today' = today /\ tries'[v][n] = try
    BY <1>0, <1>1, <1>3, StoreWrites
  <1>5. try.claimed # None /\ try.lease # None
    BY <1>0, <1>1, GoldRowsAssumption
  <1>6. row.count = n /\ works'[v].count = n
    BY <1>0, <1>4
  <1>7. WorkAgrees(v)'
    <2>1. row.count <= MaxTries[v] /\ row.count >= 1
      BY <1>1, <1>2, <1>6
    <2>2. row.updated # None => row.updated <= today
      BY <1>2 DEF WorkAgrees
    <2>3. row.status # "NONE" /\ (row.status = "LEASED" => try.status \in Running)
      BY DEF Running
    <2>4. /\ row.pointer # None => row.status = "SUCCEEDED" /\ row.pointer = n /\ try.status = "SUCCEEDED"
          /\ row.status = "SUCCEEDED" => row.pointer # None
      BY <1>0, <1>2, GoldRowsAssumption
    <2> QED BY <1>4, <1>6, <2>1, <2>2, <2>3, <2>4 DEF WorkAgrees
  <1>8. TryAgrees(v, n)'
    <2>1. try.status \in Running => row.status = "LEASED" /\ try.published = None /\ try.completed = None
      BY DEF Running
    <2>2. /\ try.status # "NONE" /\ try.published # None <=> try.status = "SUCCEEDED"
          /\ try.status = "SUCCEEDED" => try.completed = try.published
          /\ try.status = "FAILED" => try.completed # None
          /\ try.status = "EXPIRED" => row.updated # None
      BY <1>2
    <2>3. try.seq <= sequence'
      <3>1. try.seq \in {tries[v][n].seq, sequence + 1} /\ (try.seq = sequence + 1 => sequence' = sequence + 1 \/ try.seq = tries[v][n].seq)
        BY <1>0
      <3>2. CASE try.seq = tries[v][n].seq
        BY <1>1, <1>2, <1>3, <3>2
      <3>3. CASE try.seq = sequence + 1 /\ sequence' = sequence + 1
        BY <1>2, <3>3
      <3> QED BY <3>1, <3>2, <3>3
    <2> QED BY <1>2, <1>4, <1>5, <1>6, <2>1, <2>2, <2>3 DEF TryAgrees
  <1>9. TryEvolves(v, n)
    <2>1. try.claimed = tries[v][n].claimed /\ try.lease = tries[v][n].lease
      BY <1>0
    <2> QED BY <1>1, <1>4, <2>1 DEF TryEvolves
  <1>10. \/ row.pointer \in {works[v].pointer, None}
         \/ row.pointer = n /\ try.published = today /\ try.seq > sequence
    BY <1>0, <1>2
  <1>11. row.count >= works[v].count
    BY <1>0, <1>2
  <1>12. Store(v, row, n, try)
    BY <1>0
  <1> QED BY <1>1, <1>3, <1>7, <1>8, <1>9, <1>10, <1>11, <1>12, Operation

LEMMA EndSteps ==
    ASSUME GRInv, NEW v \in Video,
           \/ SealVideo(v) \/ PublishVideo(v) \/ CommitFailure(v) \/ RecoverVideo(v) \/ AbandonVideo(v)
    PROVE  GRInv'
  <1> DEFINE n == works[v].count
  <1>1. works[v].status = "LEASED"
    BY DEF SealVideo, PublishVideo, CommitFailure, RecoverVideo, AbandonVideo, Alive
  <1>2. /\ n \in 1..MaxTries[v] /\ tries[v][n] \in TryRow
        /\ tries[v][n].completed = None /\ tries[v][n].published = None
        /\ works[v].pointer = None /\ works[v] \in WorkRow
        /\ today \in Nat /\ sequence \in Nat /\ n \in Nat
    BY <1>1, LastIsRunning, RowTyped
  <1>3. Retry(v) \in {"READY", "DEAD"}
    BY DEF Retry
  <1>4. CASE SealVideo(v)
    <2> DEFINE try == [tries[v][n] EXCEPT !.status = "SEALED", !.sealed = today]
    <2>1. Store(v, works[v], n, try) /\ sequence' = sequence
      BY <1>4 DEF SealVideo
    <2>2. /\ try \in TryRow /\ try.status = "SEALED" /\ try.completed = None /\ try.published = None
          /\ try.seq = tries[v][n].seq /\ try.claimed = tries[v][n].claimed /\ try.lease = tries[v][n].lease
      BY <1>2 DEF TryRow, MaybeDay
    <2> HIDE DEF try
    <2> QED BY <1>1, <1>2, <2>1, <2>2, RunningStep
  <1>5. CASE PublishVideo(v)
    <2> DEFINE row == [works[v] EXCEPT !.status = "SUCCEEDED", !.pointer = n, !.updated = today]
               try == [tries[v][n] EXCEPT !.status = "SUCCEEDED", !.completed = today,
                                          !.published = today, !.seq = sequence + 1]
    <2>1. Store(v, row, n, try) /\ sequence' = sequence + 1
      BY <1>5 DEF PublishVideo
    <2>2. /\ try \in TryRow /\ try.status = "SUCCEEDED" /\ try.completed = today /\ try.published = today
          /\ try.seq = sequence + 1 /\ try.claimed = tries[v][n].claimed /\ try.lease = tries[v][n].lease
      <3>1. today \in MaybeDay /\ sequence + 1 \in Nat
        BY <1>2 DEF MaybeDay
      <3>2. try \in TryRow
        BY <1>2, <3>1 DEF TryRow
      <3>3. /\ try.status = "SUCCEEDED" /\ try.completed = today /\ try.published = today
            /\ try.seq = sequence + 1
        BY <1>2 DEF TryRow
      <3>4. try.claimed = tries[v][n].claimed /\ try.lease = tries[v][n].lease
        BY <1>2 DEF TryRow
      <3> QED BY <3>2, <3>3, <3>4
    <2>3. /\ row \in WorkRow /\ row.status = "SUCCEEDED" /\ row.pointer = n /\ row.updated = today
          /\ row.count = n /\ row.created = works[v].created
      BY <1>2 DEF WorkRow, MaybeDay
    <2> HIDE DEF try, row
    <2> QED BY <1>1, <2>1, <2>2, <2>3, RunningStep
  <1>6. CASE CommitFailure(v) \/ RecoverVideo(v) \/ AbandonVideo(v)
    <2> DEFINE row(status) == [works[v] EXCEPT !.status = status, !.updated = today]
               failed == [tries[v][n] EXCEPT !.status = "FAILED", !.completed = today]
               expired == [tries[v][n] EXCEPT !.status = "EXPIRED"]
    <2>1. /\ sequence' = sequence
          /\ \E status \in {"READY", "DEAD"} :
                Store(v, row(status), n, failed) \/ Store(v, row(status), n, expired)
      BY <1>3, <1>6 DEF CommitFailure, RecoverVideo, AbandonVideo
    <2>2. /\ failed \in TryRow /\ failed.status = "FAILED" /\ failed.completed = today /\ failed.published = None
          /\ failed.seq = tries[v][n].seq /\ failed.claimed = tries[v][n].claimed
          /\ failed.lease = tries[v][n].lease
      BY <1>2 DEF TryRow, MaybeDay
    <2>3. /\ expired \in TryRow /\ expired.status = "EXPIRED" /\ expired.completed = None
          /\ expired.published = None /\ expired.seq = tries[v][n].seq
          /\ expired.claimed = tries[v][n].claimed /\ expired.lease = tries[v][n].lease
      BY <1>2 DEF TryRow, MaybeDay
    <2>4. ASSUME NEW status \in {"READY", "DEAD"}
          PROVE  /\ row(status) \in WorkRow /\ row(status).status = status /\ row(status).pointer = None
                 /\ row(status).updated = today /\ row(status).count = n
                 /\ row(status).created = works[v].created
      BY <1>2 DEF WorkRow, MaybeDay
    <2> HIDE DEF row, failed, expired
    <2>5. PICK status \in {"READY", "DEAD"} :
             Store(v, row(status), n, failed) \/ Store(v, row(status), n, expired)
      BY <2>1
    <2>6. CASE Store(v, row(status), n, failed)
      BY <1>1, <2>1, <2>2, <2>4, <2>6, RunningStep
    <2>7. CASE Store(v, row(status), n, expired)
      BY <1>1, <2>1, <2>3, <2>4, <2>7, RunningStep
    <2> QED BY <2>5, <2>6, <2>7
  <1> QED BY <1>4, <1>5, <1>6

LEMMA ReplayStep ==
    ASSUME GRInv, NEW v \in Video, ReplayVideo(v)
    PROVE  GRInv'
  <1>0. PICK n \in Nat : n = works[v].count
    BY RowTyped
  <1> DEFINE row == [works[v] EXCEPT !.status = "READY", !.pointer = None, !.updated = today]
  <1>1. /\ works[v].status = "SUCCEEDED" /\ Store(v, row, n, tries[v][n]) /\ sequence' = sequence
    BY <1>0 DEF ReplayVideo
  <1>2. /\ works[v] \in WorkRow /\ today \in Nat /\ today # None /\ sequence \in Nat
        /\ WorkAgrees(v) /\ \A m \in 1..MaxTries[v] : tries[v][m] \in TryRow /\ TryAgrees(v, m)
        /\ n \in Nat /\ n <= MaxTries[v] /\ MaxTries[v] \in Nat
    BY <1>0, RowTyped
  <1>3. /\ row \in WorkRow /\ row.status = "READY" /\ row.created = works[v].created /\ row.updated = today
        /\ row.count = n /\ row.pointer = None
    BY <1>0, <1>2 DEF WorkRow, MaybeDay
  <1>4. \A m \in 1..MaxTries[v] : tries[v][m].status \notin Running
    BY <1>1, <1>2 DEF TryAgrees
  <1> HIDE DEF row
  <1>5. n \in 1..MaxTries[v]
    BY <1>0, <1>1, <1>2 DEF WorkAgrees
  <1>6. GRTypeOK /\ tries[v][n] \in TryRow /\ TryAgrees(v, n)
    BY <1>2, <1>5 DEF GRInv
  <1>7. works'[v] = row /\ today' = today /\ tries'[v][n] = tries[v][n]
    BY <1>1, <1>3, <1>5, <1>6, StoreWrites
  <1>8. WorkAgrees(v)'
    BY <1>2, <1>3, <1>7 DEF WorkAgrees
  <1>9. TryAgrees(v, n)'
    BY <1>1, <1>2, <1>3, <1>4, <1>5, <1>6, <1>7 DEF TryAgrees
  <1>10. TryEvolves(v, n)
    BY <1>7 DEF TryEvolves
  <1>11. row.count >= works[v].count
    BY <1>0, <1>2, <1>3
  <1> QED BY <1>1, <1>3, <1>4, <1>5, <1>6, <1>8, <1>9, <1>10, <1>11, Operation

-----------------------------------------------------------------------------
(* What a gold run writes *)

LEMMA LastingAreControlled ==
    ASSUME GRTypeOK, StoreRowsAgree, NEW c \in Int, NEW b \in Int, b <= c
    PROVE  LastingDates(c) \subseteq ControlDates(b)
  <1> SUFFICES ASSUME NEW d \in LastingDates(c) PROVE d \in ControlDates(b)
    OBVIOUS
  <1>1. d \in Nat /\ d >= c /\ d # None /\ d >= b
    BY GoldRowsAssumption DEF LastingDates
  <1>2. CASE \E v \in Video : works[v].created = d
    BY <1>1, <1>2 DEF ControlDates
  <1>3. ASSUME NEW o \in Attempts,
               \/ d \in {tries[o[1]][o[2]].claimed, tries[o[1]][o[2]].completed, tries[o[1]][o[2]].published}
               \/ tries[o[1]][o[2]].status = "EXPIRED" /\ tries[o[1]][o[2]].lease = d
        PROVE  d \in ControlDates(b)
    <2> DEFINE try == tries[o[1]][o[2]]
               dates == {try.claimed, try.sealed, try.completed, try.published}
                        \cup (IF try.status = "EXPIRED" THEN {try.lease} ELSE {})
    <2>1. d \in dates
      BY <1>3
    <2> QED BY <1>1, <2>1 DEF ControlDates
  <1> QED BY <1>2, <1>3 DEF LastingDates

\* The tables after the partitions of D are written.
LEMMA TablesWritten ==
    ASSUME GRInv, NEW D, UNCHANGED <<works, tries, sequence>>,
           marts' = FactsFor(D) \/ marts' = [FactsFor(D) EXCEPT !.dims = Dimensional]
    PROVE  /\ DOMAIN marts' = DOMAIN marts /\ DOMAIN marts'.video = Day /\ DOMAIN marts'.operations = Day
           /\ \A d \in Day :
                 /\ marts'.video[d] = (IF d \in D THEN VideoRows(d) ELSE marts.video[d])
                 /\ marts'.operations[d] = (IF d \in D THEN OperationsRows(d) ELSE marts.operations[d])
                 /\ \A o \in marts'.video[d] : Captured[o[1]] = d
                 /\ marts'.operations[d] # NoCounts => d \in LastingDates(0)
           /\ \A v \in Video : marts'.status[v] = StatusRow(v)
           /\ marts'.attempts = {AttemptRow(o) : o \in Attempts}
  <1>1. /\ GRTypeOK /\ StoreRowsAgree /\ VideoIsAsSaved /\ OperationsAreAsSaved /\ CountsAgree
    BY ReadStore DEF GRInv
  <1>2. DOMAIN marts = {"video", "operations", "status", "attempts", "dims"}
    BY <1>1 DEF GRTypeOK
  <1>3. /\ DOMAIN marts' = DOMAIN marts
        /\ marts'.video = [d \in Day |-> IF d \in D THEN VideoRows(d) ELSE marts.video[d]]
        /\ marts'.operations = [d \in Day |-> IF d \in D THEN OperationsRows(d) ELSE marts.operations[d]]
        /\ marts'.status = [v \in Video |-> StatusRow(v)]
        /\ marts'.attempts = {AttemptRow(o) : o \in Attempts}
    BY <1>2 DEF FactsFor
  <1>4. ASSUME NEW d \in Day, NEW o \in marts'.video[d] PROVE Captured[o[1]] = d
    <2>1. CASE d \in D
      BY <1>3, <1>4, <2>1 DEF VideoRows
    <2>2. CASE d \notin D
      BY <1>1, <1>3, <1>4, <2>2 DEF VideoIsAsSaved
    <2> QED BY <2>1, <2>2
  <1>5. ASSUME NEW d \in Day, marts'.operations[d] # NoCounts PROVE d \in LastingDates(0)
    <2>1. CASE d \in D
      BY <1>1, <1>3, <1>5, <2>1 DEF CountsAgree
    <2>2. CASE d \notin D
      BY <1>1, <1>3, <1>5, <2>2 DEF OperationsAreAsSaved
    <2> QED BY <2>1, <2>2
  <1> QED BY <1>3, <1>4, <1>5

\* What depends on the store alone does not change with the tables.
LEMMA StoreUnread ==
    ASSUME GRInv, today' \in Nat, today <= today', UNCHANGED <<works, tries, sequence>>
    PROVE  /\ StoreRowsAgree'
           /\ Attempts' = Attempts /\ CommittedOutputs' = CommittedOutputs /\ Uncounted' = Uncounted
           /\ \A d : OperationsRows(d)' = OperationsRows(d) /\ VideoRows(d)' = VideoRows(d)
           /\ \A c : LastingDates(c)' = LastingDates(c)
           /\ \A v \in Video : StatusRow(v)' = StatusRow(v)
           /\ \A o : AttemptRow(o)' = AttemptRow(o) /\ SequenceOf(o)' = SequenceOf(o)
  <1>1. works' = works /\ tries' = tries /\ sequence' = sequence
    OBVIOUS
  <1>2. StoreRowsAgree'
    <2>1. ASSUME NEW v \in Video PROVE WorkAgrees(v)' /\ \A n \in 1..MaxTries[v] : TryAgrees(v, n)'
      <3>1. WorkAgrees(v) /\ (\A n \in 1..MaxTries[v] : TryAgrees(v, n)) /\ works[v] \in WorkRow /\ today \in Nat
        BY RowTyped
      <3>2. works[v].updated # None => works[v].updated \in Nat
        BY <3>1 DEF WorkRow, MaybeDay
      <3>3. WorkAgrees(v)'
        BY <1>1, <3>1, <3>2 DEF WorkAgrees
      <3> QED BY <1>1, <3>1, <3>3 DEF TryAgrees
    <2> QED BY <2>1 DEF StoreRowsAgree
  <1>3. Attempts' = Attempts /\ CommittedOutputs' = CommittedOutputs
    BY <1>1 DEF Attempts, CommittedOutputs
  <1>4. \A o : EndDate(o)' = EndDate(o) /\ AttemptRow(o)' = AttemptRow(o) /\ SequenceOf(o)' = SequenceOf(o)
    BY <1>1, <1>3 DEF EndDate, AttemptRow, SequenceOf
  <1>5. Uncounted' = Uncounted
    BY <1>1, <1>3, <1>4 DEF Uncounted, Withdrawn, FoundLate
  <1>6. \A d : OperationsRows(d)' = OperationsRows(d) /\ VideoRows(d)' = VideoRows(d)
    BY <1>1, <1>3, <1>4 DEF OperationsRows, VideoRows, Dimensional
  <1>7. \A c : LastingDates(c)' = LastingDates(c)
    BY <1>1, <1>3 DEF LastingDates
  <1>8. \A v \in Video : StatusRow(v)' = StatusRow(v)
    BY <1>1 DEF StatusRow
  <1> QED BY <1>2, <1>3, <1>4, <1>5, <1>6, <1>7, <1>8

LEMMA DayStep ==
    ASSUME GRInv, today' \in Nat, today <= today', UNCHANGED <<works, tries, sequence, marts, mark>>
    PROVE  GRInv'
  <1>1. GRTypeOK /\ VideoIsAsSaved /\ OperationsAreAsSaved /\ StatusIsAsSaved
    BY DEF GRInv
  <1>2. GRTypeOK'
    BY <1>1 DEF GRTypeOK
  <1>3. Saved' = Saved
    BY DEF Saved
  <1>4. VideoIsAsSaved'
    BY <1>1, <1>3, StoreUnread DEF VideoIsAsSaved
  <1>5. OperationsAreAsSaved'
    <2>1. LastingDates(mark.at - Lookback)' = LastingDates(mark.at - Lookback)
      BY DEF LastingDates, Attempts
    <2> QED BY <1>1, <1>3, <2>1, StoreUnread DEF OperationsAreAsSaved
  <1>6. StatusIsAsSaved'
    BY <1>1, <1>3, StoreUnread DEF StatusIsAsSaved
  <1> QED BY <1>2, <1>4, <1>5, <1>6, StoreUnread DEF GRInv

\* Tables that no checkpoint stands for.
LEMMA UnsavedStep ==
    ASSUME GRInv, NEW D, UNCHANGED <<today, works, tries, sequence>>,
           marts' = FactsFor(D) \/ marts' = [FactsFor(D) EXCEPT !.dims = Dimensional],
           NEW full, mark' = [mark EXCEPT !.written = TRUE, !.full = full, !.runs = @ + 1]
    PROVE  GRInv'
  <1>1. GRTypeOK
    BY DEF GRInv
  <1>2. /\ DOMAIN mark' = DOMAIN mark /\ mark'.written = TRUE /\ mark'.flow = mark.flow
        /\ mark'.changed = mark.changed /\ mark'.at = mark.at
    BY <1>1 DEF GRTypeOK
  <1>3. today' = today /\ today \in Nat /\ today <= today'
    BY <1>1 DEF GRTypeOK
  <1>4. GRTypeOK'
    BY <1>1, <1>2, <1>3, TablesWritten DEF GRTypeOK
  <1>5. ~Saved'
    BY <1>2 DEF Saved
  <1>6. VideoIsAsSaved'
    BY <1>5, TablesWritten DEF VideoIsAsSaved
  <1>7. OperationsAreAsSaved'
    BY <1>3, <1>5, TablesWritten, StoreUnread DEF OperationsAreAsSaved
  <1>8. StatusIsAsSaved'
    BY <1>5 DEF StatusIsAsSaved
  <1> QED BY <1>3, <1>4, <1>6, <1>7, <1>8, StoreUnread DEF GRInv

\* What a complete run leaves: the rows of the store, in every partition.
LEMMA CompleteRun ==
    ASSUME GRInv, NEW rebuild \in BOOLEAN, RunGold(rebuild), ~mark'.written
    PROVE  /\ \A d \in Day : marts'.video[d] = VideoRows(d)
           /\ \A d \in Day : d \notin Uncounted => marts'.operations[d] = OperationsRows(d)
  <1> DEFINE full == rebuild \/ mark.flow = None \/ mark.written
             D == Dates(full)
             newer == {o \in CommittedOutputs : SequenceOf(o) > mark.flow.sequence}
             recent == {o \in CommittedOutputs : tries[o[1]][o[2]].published >= today - Lookback}
             flow == IF mark.flow.outputs # CommittedOutputs /\ newer = {}
                     THEN CommittedOutputs ELSE newer \cup recent
             operations == ControlDates(ControlCutoff)
  <1>1. GRTypeOK /\ StoreRowsAgree /\ VideoIsAsSaved /\ OperationsAreAsSaved /\ CountsAgree
    BY ReadStore DEF GRInv
  <1>2. /\ marts' = FactsFor(D) \/ marts' = [FactsFor(D) EXCEPT !.dims = Dimensional]
        /\ UNCHANGED <<today, works, tries, sequence>>
    BY DEF RunGold, grstore
  <1>3. CamerasAgree /\ marts' = [FactsFor(D) EXCEPT !.dims = Dimensional] /\ Unresolved(marts') = {}
    <2>1. ASSUME mark' = [mark EXCEPT !.written = TRUE, !.full = full, !.runs = @ + 1] PROVE FALSE
      BY <1>1, <2>1 DEF GRTypeOK
    <2> QED BY <2>1 DEF RunGold
  <1>4. /\ \A d \in Day :
              /\ marts'.video[d] = (IF d \in D THEN VideoRows(d) ELSE marts.video[d])
              /\ marts'.operations[d] = (IF d \in D THEN OperationsRows(d) ELSE marts.operations[d])
              /\ \A o \in marts'.video[d] : Captured[o[1]] = d
    BY <1>2, TablesWritten
  <1>5. full => D = OutputDates(CommittedOutputs) \cup ControlDates(0)
    BY DEF Dates
  <1>6. ~full => D = OutputDates(flow)
                       \cup (IF mark.changed /\ operations = {} THEN ControlDates(0) ELSE operations)
    BY DEF Dates
  <1>7. ~full => Saved
    BY DEF Saved
  <1> HIDE DEF D, full
  <1>8. ASSUME NEW d \in Day PROVE marts'.video[d] = VideoRows(d)
    <2>1. CASE d \in D
      BY <1>4, <2>1
    <2>2. CASE d \notin D
      <3>1. marts'.video[d] \subseteq Dimensional
        <4>1. marts'.dims = Dimensional
          BY <1>1, <1>3 DEF GRTypeOK, FactsFor
        <4>2. ASSUME NEW o \in marts'.video[d] PROVE o \in marts'.dims
          <5>1. (UNION {marts'.video[e] : e \in Day}) \ marts'.dims = {}
            BY <1>3 DEF Unresolved
          <5>2. marts'.video[d] \in {marts'.video[e] : e \in Day}
            OBVIOUS
          <5>3. o \in UNION {marts'.video[e] : e \in Day}
            BY <4>2, <5>2
          <5> QED BY <5>1, <5>3
        <4> QED BY <4>1, <4>2
      <3>2. marts'.video[d] \subseteq VideoRows(d)
        BY <1>4, <3>1 DEF VideoRows
      <3>3. ASSUME NEW o \in VideoRows(d) PROVE o \in marts'.video[d]
        <4>1. o \in CommittedOutputs /\ Camera[o[1]] # None /\ Captured[o[1]] = d
          BY DEF VideoRows, Dimensional
        <4>2. CASE full
          BY <1>5, <2>2, <4>1, <4>2 DEF OutputDates
        <4>3. CASE ~full /\ o \notin mark.flow.outputs
          <5>1. o \in newer
            BY <1>1, <1>7, <4>1, <4>3 DEF VideoIsAsSaved
          <5>2. o \in flow
            BY <4>1, <5>1
          <5> HIDE DEF flow
          <5> QED BY <1>6, <2>2, <4>1, <4>3, <5>2 DEF OutputDates
        <4>4. CASE ~full /\ o \in mark.flow.outputs
          <5>1. o \in marts.video[d]
            BY <1>1, <1>7, <4>1, <4>4 DEF VideoIsAsSaved
          <5> QED BY <1>4, <2>2, <5>1
        <4> QED BY <4>2, <4>3, <4>4
      <3> QED BY <3>2, <3>3
    <2> QED BY <2>1, <2>2
  <1>9. ASSUME NEW d \in Day, d \notin Uncounted PROVE marts'.operations[d] = OperationsRows(d)
    <2>1. CASE d \in D
      BY <1>4, <2>1
    <2>2. CASE d \notin D
      <3>1. CASE full
        <4>1. d \notin ControlDates(0)
          BY <1>5, <2>2, <3>1
        <4>2. d \notin LastingDates(0)
          BY <1>1, <4>1, LastingAreControlled
        <4>3. OperationsRows(d) = NoCounts /\ marts.operations[d] = NoCounts
          BY <1>1, <4>2 DEF CountsAgree, OperationsAreAsSaved
        <4> QED BY <1>4, <2>2, <4>3
      <3>2. CASE ~full
        <4>1. mark.at \in Nat /\ mark.at <= today /\ today \in Nat
          BY <1>1, <1>7, <3>2 DEF GRTypeOK, Saved
        <4>2. ControlCutoff \in Int /\ ControlCutoff <= mark.at - Lookback
          <5>1. ControlCutoff = mark.at - Lookback
            <6>1. mark.at - Lookback <= today - Lookback
                  /\ mark.at - Lookback \in Int /\ today - Lookback \in Int
              BY <4>1, GoldRowsAssumption
            <6> DEFINE a == mark.at - Lookback
                       b == today - Lookback
            <6> HIDE DEF a, b
            <6>2. a \in Int /\ b \in Int /\ a <= b
              BY <6>1 DEF a, b
            <6>3. Min({b, a}) = a
              BY <6>2 DEF Min
            <6> QED BY <6>3 DEF ControlCutoff, a, b
          <5> QED BY <4>1, <5>1, GoldRowsAssumption
        <4>3. d \notin operations
          <5>1. CASE operations = {}
            BY <5>1
          <5>2. CASE operations # {}
            BY <1>6, <2>2, <3>2, <5>2
          <5> QED BY <5>1, <5>2
        <4>4. d \notin LastingDates(mark.at - Lookback)
          <5>1. mark.at - Lookback \in Int
            BY <4>1, GoldRowsAssumption
          <5> QED BY <1>1, <4>2, <4>3, <5>1, LastingAreControlled
        <4>5. marts.operations[d] = OperationsRows(d)
          BY <1>1, <1>7, <1>9, <3>2, <4>4 DEF OperationsAreAsSaved
        <4> QED BY <1>4, <2>2, <4>5
      <3> QED BY <3>1, <3>2
    <2> QED BY <2>1, <2>2
  <1> QED BY <1>8, <1>9

LEMMA RunStep ==
    ASSUME GRInv, NEW rebuild \in BOOLEAN, RunGold(rebuild)
    PROVE  GRInv'
  <1> DEFINE full == rebuild \/ mark.flow = None \/ mark.written
             D == Dates(full)
             newest == Max({0} \cup {SequenceOf(o) : o \in CommittedOutputs})
  <1>1. GRTypeOK /\ StoreRowsAgree /\ PairsAgree /\ today' = today /\ today \in Nat /\ today <= today'
    BY ReadStore DEF GRInv, RunGold, GRTypeOK
  <1>2. /\ marts' = FactsFor(D) \/ marts' = [FactsFor(D) EXCEPT !.dims = Dimensional]
        /\ UNCHANGED <<today, works, tries, sequence>>
    BY DEF RunGold, grstore
  <1>3. \/ mark' = [mark EXCEPT !.written = TRUE, !.full = full, !.runs = @ + 1]
        \/ mark' = [flow |-> [outputs |-> CommittedOutputs, sequence |-> newest],
                    at |-> today, changed |-> FALSE, written |-> FALSE, full |-> full,
                    runs |-> mark.runs + 1]
    BY DEF RunGold
  <1> HIDE DEF full, D
  <1>4. CASE mark' = [mark EXCEPT !.written = TRUE, !.full = full, !.runs = @ + 1]
    BY <1>2, <1>4, UnsavedStep
  <1>5. CASE mark' = [flow |-> [outputs |-> CommittedOutputs, sequence |-> newest],
                      at |-> today, changed |-> FALSE, written |-> FALSE, full |-> full,
                      runs |-> mark.runs + 1]
    <2>1. newest \in Nat /\ newest <= sequence
      <3> DEFINE S == {0} \cup {SequenceOf(o) : o \in CommittedOutputs}
      <3>1. \A o \in CommittedOutputs : SequenceOf(o) \in Nat /\ SequenceOf(o) <= sequence
        BY <1>1 DEF PairsAgree, SequenceOf, TryRow, StoreRowsAgree, TryAgrees
      <3>2. S \in SUBSET Nat /\ S # {} /\ sequence \in Nat /\ \A x \in S : x <= sequence
        BY <1>1, <3>1 DEF GRTypeOK
      <3> HIDE DEF S
      <3>3. Max(S) \in S
        BY <3>2, MaxOfBounded
      <3> QED BY <3>2, <3>3 DEF S
    <2> HIDE DEF newest
    <2>2. /\ mark'.flow.outputs = CommittedOutputs /\ mark'.flow.sequence = newest
          /\ mark'.at = today /\ mark'.changed = FALSE /\ mark'.written = FALSE
          /\ DOMAIN mark' = {"flow", "at", "changed", "written", "full", "runs"}
      BY <1>5
    <2>3. /\ \A d \in Day : marts'.video[d] = VideoRows(d)
          /\ \A d \in Day : d \notin Uncounted => marts'.operations[d] = OperationsRows(d)
      BY <2>2, CompleteRun
    <2>4. GRTypeOK'
      BY <1>1, <1>2, <2>1, <2>2, TablesWritten DEF GRTypeOK
    <2>5. VideoIsAsSaved'
      <3>1. \A d \in Day : VideoRows(d) =
               {o \in CommittedOutputs : Camera[o[1]] # None /\ Captured[o[1]] = d}
        BY DEF VideoRows, Dimensional
      <3>2. \A d \in Day : \A o \in marts'.video[d] : Captured[o[1]] = d
        BY <1>2, TablesWritten
      <3>3. CommittedOutputs' = CommittedOutputs
        BY <1>1, <1>2, StoreUnread
      <3> QED BY <2>2, <2>3, <3>1, <3>2, <3>3 DEF VideoIsAsSaved
    <2>6. OperationsAreAsSaved'
      <3>1. \A d \in Day : marts'.operations[d] # NoCounts => d \in LastingDates(0)
        BY <1>2, TablesWritten
      <3>2. Uncounted' = Uncounted /\ LastingDates(0)' = LastingDates(0)
            /\ \A d \in Day : OperationsRows(d)' = OperationsRows(d)
        BY <1>1, <1>2, StoreUnread
      <3> QED BY <2>3, <3>1, <3>2 DEF OperationsAreAsSaved
    <2>7. StatusIsAsSaved'
      <3>1. /\ \A v \in Video : marts'.status[v] = StatusRow(v)
            /\ marts'.attempts = {AttemptRow(o) : o \in Attempts}
        BY <1>2, TablesWritten
      <3>2. /\ \A v \in Video : StatusRow(v)' = StatusRow(v)
            /\ Attempts' = Attempts /\ \A o : AttemptRow(o)' = AttemptRow(o)
        BY <1>1, <1>2, StoreUnread
      <3> QED BY <3>1, <3>2 DEF StatusIsAsSaved
    <2>8. StoreRowsAgree'
      BY <1>1, <1>2, StoreUnread
    <2> QED BY <2>4, <2>5, <2>6, <2>7, <2>8 DEF GRInv
  <1> QED BY <1>3, <1>4, <1>5

LEMMA RowsInit == GRInit => GRInv
  <1> SUFFICES ASSUME GRInit PROVE GRInv
    OBVIOUS
  <1> USE DEF GRInit
  <1>1. Cardinality(Earlier) \in Nat /\ (Earlier # {} => Cardinality(Earlier) = 1)
    <2>1. Cardinality(Earlier) \in Nat /\ (Cardinality(Earlier) = 0 <=> Earlier = {})
      BY GoldRowsAssumption, FS_CardinalityType, FS_EmptySet
    <2> QED BY <2>1, GoldRowsAssumption
  <1>2. \A v \in Video : MaxTries[v] \in Nat \ {0}
    BY GoldRowsAssumption
  <1>3. /\ Unknown \in WorkRow /\ Published \in WorkRow /\ NoTry \in TryRow /\ PublishedTry \in TryRow
    BY GoldRowsAssumption DEF Unknown, Published, NoTry, PublishedTry, WorkRow, TryRow, MaybeDay
  <1>4. GRTypeOK
    <2>1. works \in [Video -> WorkRow] /\ DOMAIN tries = Video
          /\ \A v \in Video : tries[v] \in [1..MaxTries[v] -> TryRow]
      BY <1>3
    <2> QED BY <1>1, <2>1 DEF GRTypeOK
  <1>5. StoreRowsAgree
    <2>1. ASSUME NEW v \in Video
          PROVE  WorkAgrees(v) /\ \A n \in 1..MaxTries[v] : TryAgrees(v, n)
      <3>1. 1 \in 1..MaxTries[v] /\ MaxTries[v] \in Nat /\ MaxTries[v] >= 1
        BY <1>2
      <3>2. CASE v \in Earlier
        <4>1. works[v] = Published /\ sequence = 1
              /\ \A n \in 1..MaxTries[v] : tries[v][n] = IF n = 1 THEN PublishedTry ELSE NoTry
          BY <1>1, <3>2
        <4>2. tries[v][1] = PublishedTry
          BY <3>1, <4>1
        <4>3. WorkAgrees(v)
          BY <3>1, <4>1, <4>2, GoldRowsAssumption DEF WorkAgrees, Published, PublishedTry
        <4>4. ASSUME NEW n \in 1..MaxTries[v] PROVE TryAgrees(v, n)
          <5>1. CASE n = 1
            BY <3>1, <4>1, <5>1, GoldRowsAssumption DEF TryAgrees, Published, PublishedTry, Running
          <5>2. CASE n # 1
            BY <3>1, <4>1, <5>2, GoldRowsAssumption DEF TryAgrees, Published, NoTry, Running
          <5> QED BY <5>1, <5>2
        <4> QED BY <4>3, <4>4
      <3>3. CASE v \notin Earlier
        <4>1. works[v] = Unknown /\ sequence \in Nat
              /\ \A n \in 1..MaxTries[v] : tries[v][n] = NoTry
          BY <1>1, <3>3
        <4>2. WorkAgrees(v)
          BY <3>1, <4>1 DEF WorkAgrees, Unknown
        <4>3. ASSUME NEW n \in 1..MaxTries[v] PROVE TryAgrees(v, n)
          <5>1. works[v] = Unknown /\ tries[v][n] = NoTry /\ sequence \in Nat
            BY <4>1
          <5>2. tries[v][n].status = "NONE" /\ tries[v][n].seq = 0 /\ "NONE" \notin Running
            BY <5>1 DEF NoTry, Unknown, Running
          <5> QED BY <3>1, <5>1, <5>2, GoldRowsAssumption DEF TryAgrees, NoTry, Unknown
        <4> QED BY <4>2, <4>3
      <3> QED BY <3>2, <3>3
    <2> QED BY <2>1 DEF StoreRowsAgree
  <1>6. mark.flow = None /\ ~Saved
    BY DEF Saved
  <1>7. \A d \in Day : marts.video[d] = {} /\ marts.operations[d] = NoCounts
    OBVIOUS
  <1> QED BY <1>4, <1>5, <1>6, <1>7 DEF GRInv, VideoIsAsSaved, OperationsAreAsSaved, StatusIsAsSaved

\* The inductive invariant of the gold tables: a row of the store that ended is
\* not written again, and what a complete run saved stands, or is dated so that
\* the next run will count it again.
THEOREM GoldRowsInvariance == GRSpec => []GRInv
  <1>1. ASSUME GRInv, [GRNext]_grvars PROVE GRInv'
    <2>1. CASE UNCHANGED grvars
      <3>1. UNCHANGED <<today, works, tries, sequence, marts, mark>>
        BY <2>1 DEF grvars, grstore
      <3>2. today \in Nat
        BY <1>1 DEF GRInv, GRTypeOK
      <3> QED BY <1>1, <3>1, <3>2, DayStep
    <2>2. CASE DayPasses
      <3>1. today \in Nat
        BY <1>1 DEF GRInv, GRTypeOK
      <3>2. today' \in Nat /\ today <= today' /\ UNCHANGED <<works, tries, sequence, marts, mark>>
        BY <2>2, <3>1 DEF DayPasses, grstore
      <3> QED BY <1>1, <3>2, DayStep
    <2>3. ASSUME NEW v \in Video,
                 \/ RegisterVideo(v) \/ ClaimVideo(v) \/ SealVideo(v) \/ PublishVideo(v)
                 \/ CommitFailure(v) \/ RecoverVideo(v) \/ AbandonVideo(v) \/ ReplayVideo(v)
          PROVE  GRInv'
      BY <1>1, <2>3, RegisterStep, ClaimStep, EndSteps, ReplayStep
    <2>4. ASSUME NEW rebuild \in BOOLEAN, RunGold(rebuild) PROVE GRInv'
      BY <1>1, <2>4, RunStep
    <2>5. ASSUME NEW d \in Day, BuildFacts({d}) PROVE GRInv'
      BY <1>1, <2>5, UnsavedStep DEF BuildFacts, grstore
    <2> QED BY <1>1, <2>1, <2>2, <2>3, <2>4, <2>5 DEF GRNext
  <1> QED BY <1>1, RowsInit, PTL DEF GRSpec

\* SavedRowsAreCurrent: however long gold did not run, and whatever was claimed,
\* published, replayed or recovered between its runs, the tables an incremental
\* run saved are those a rebuild from the store would save, but for the dates of
\* withdrawn publications and of leases found over after the look-back.
THEOREM SavedIsCurrent == GRSpec => []SavedRowsAreCurrent
  <1>1. ASSUME GRInv PROVE SavedRowsAreCurrent
    <2>1. /\ VideoIsAsSaved /\ OperationsAreAsSaved /\ StatusIsAsSaved
      BY <1>1 DEF GRInv
    <2>2. NothingToDo => Saved /\ ~mark.changed
      BY DEF NothingToDo, Saved
    <2>3. OperationsMatchARebuild
      BY <2>1, <2>2 DEF OperationsMatchARebuild, OperationsAreAsSaved, StatusIsAsSaved, Uncounted
    <2>4. SavedVideoIsCommitted
      BY <2>1, <2>2 DEF SavedVideoIsCommitted, VideoIsAsSaved, VideoRows, Dimensional
    <2> QED BY <2>3, <2>4 DEF SavedRowsAreCurrent
  <1> QED BY <1>1, GoldRowsInvariance, PTL
=============================================================================
