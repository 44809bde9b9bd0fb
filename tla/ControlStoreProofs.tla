------------------------- MODULE ControlStoreProofs -------------------------
(***************************************************************************)
(* Proofs about ControlStore for any works, batches, outputs, operators    *)
(* and claim arguments.                                                    *)
(***************************************************************************)
EXTENDS ControlStore, FiniteSetTheorems, WellFoundedInduction, TLAPS

(* Least and largest elements *)

\* A set of natural numbers has a least element.
LEMMA LeastNatural ==
    ASSUME NEW S \in SUBSET Nat, S # {}
    PROVE  \E x \in S : \A y \in S : x <= y
  <1> DEFINE R == {p \in Nat \X Nat : p[1] < p[2]}
  <1>1. IsWellFoundedOn(R, Nat)
    BY NatLessThanWellFounded DEF OpToRel
  <1> HIDE DEF R
  <1>2. PICK x \in S : \A y \in S : <<y, x>> \notin R
    BY <1>1, WFMin
  <1>3. ASSUME NEW y \in S PROVE x <= y
    <2>1. ~(y < x)
      BY <1>2 DEF R
    <2> QED BY <2>1
  <1> QED BY <1>3

\* Max of a bounded set of natural numbers is its largest element.
LEMMA MaxOfBounded ==
    ASSUME NEW S \in SUBSET Nat, S # {}, NEW m \in Nat, \A x \in S : x <= m
    PROVE  Max(S) \in S /\ \A x \in S : x <= Max(S)
  <1> DEFINE T == {m - x : x \in S}
  <1>1. T \in SUBSET Nat /\ T # {}
    <2>1. \A x \in S : m - x \in Nat
      OBVIOUS
    <2> QED BY <2>1
  <1>2. PICK t \in T : \A u \in T : t <= u
    BY <1>1, LeastNatural
  <1>3. PICK x \in S : t = m - x
    OBVIOUS
  <1>4. ASSUME NEW y \in S PROVE x >= y
    <2>1. m - x <= m - y
      BY <1>2, <1>3
    <2> QED BY <2>1
  <1>5. Max(S) \in S /\ \A y \in S : Max(S) >= y
    BY <1>4 DEF Max
  <1> QED BY <1>5

\* Min of two numbers is the smaller one.
LEMMA MinOfTwo ==
    ASSUME NEW m \in Int, NEW n \in Int
    PROVE  Min({m, n}) \in {m, n} /\ Min({m, n}) <= m /\ Min({m, n}) <= n
  <1>1. CASE m <= n
    <2>1. m \in {m, n} /\ \A y \in {m, n} : m =< y
      BY <1>1
    <2> QED BY <2>1 DEF Min
  <1>2. CASE ~(m <= n)
    <2>1. n \in {m, n} /\ \A y \in {m, n} : n =< y
      BY <1>2
    <2> QED BY <2>1 DEF Min
  <1> QED BY <1>1, <1>2

\* Max of two numbers is the larger one.
LEMMA MaxOfTwo ==
    ASSUME NEW m \in Int, NEW n \in Int
    PROVE  /\ Max({m, n}) \in {m, n} /\ Max({m, n}) >= m /\ Max({m, n}) >= n
           /\ m \in Nat /\ n \in Nat => Max({m, n}) \in Nat
  <1>1. CASE m >= n
    <2>1. m \in {m, n} /\ \A y \in {m, n} : m >= y
      BY <1>1
    <2> QED BY <2>1 DEF Max
  <1>2. CASE ~(m >= n)
    <2>1. n \in {m, n} /\ \A y \in {m, n} : n >= y
      BY <1>2
    <2> QED BY <2>1 DEF Max
  <1> QED BY <1>1, <1>2

(* Facts about the operators of the model *)

\* A claim only takes READY works of the table.
LEMMA ClaimedAreReady ==
    ASSUME NEW call, NEW now, NEW n, NEW before
    PROVE  FirstOf(FirstGroup(call, now), before, n) \subseteq Status("READY")
  <1>1. FirstGroup(call, now) \subseteq Eligible(call, now)
    BY DEF FirstGroup, OfRuntime
  <1>2. Eligible(call, now) \subseteq Status("READY")
    BY DEF Eligible
  <1> QED BY <1>1, <1>2 DEF FirstOf

\* Works published together are ranked from one, each with a rank of its own.
LEMMA Ranks ==
    ASSUME NEW S \in SUBSET Work, NEW v \in S, NEW w \in S
    PROVE  /\ Cardinality(S) \in Nat
           /\ Cardinality({y \in S : y <= v}) \in 1..Cardinality(S)
           /\ Cardinality({y \in S : y <= v}) = Cardinality({y \in S : y <= w}) => v = w
  <1> DEFINE Upto(x) == {y \in S : y <= x}
  <1>1. S \subseteq Nat /\ IsFiniteSet(S) /\ Cardinality(S) \in Nat
    BY ControlStoreAssumption, FS_Subset, FS_CardinalityType
  <1>2. ASSUME NEW x \in S
        PROVE  /\ x \in Upto(x) /\ Upto(x) \in SUBSET S
               /\ IsFiniteSet(Upto(x)) /\ Cardinality(Upto(x)) \in Nat
    <2>1. x \in Upto(x) /\ Upto(x) \in SUBSET S
      BY <1>1
    <2>2. IsFiniteSet(Upto(x))
      BY <1>1, <2>1, FS_Subset
    <2> QED BY <2>1, <2>2, FS_CardinalityType
  <1>3. Cardinality(Upto(v)) \in 1..Cardinality(S)
    <2> DEFINE T == Upto(v)
    <2>1. v \in T /\ T \in SUBSET S /\ IsFiniteSet(T) /\ Cardinality(T) \in Nat
      BY <1>2
    <2> HIDE DEF T
    <2>2. Cardinality(T) <= Cardinality(S)
      BY <1>1, <2>1, FS_Subset
    <2>3. Cardinality(T) # 0
      BY <2>1, FS_EmptySet
    <2>4. Cardinality(T) \in 1..Cardinality(S)
      BY <1>1, <2>1, <2>2, <2>3
    <2> QED BY <2>4 DEF T
  <1>4. ASSUME NEW x \in S, NEW y \in S, x < y
        PROVE  Cardinality(Upto(x)) # Cardinality(Upto(y))
    <2>1. x \in Nat /\ y \in Nat /\ \A z \in S : z \in Nat
      BY <1>1
    <2>2. Upto(x) \subseteq Upto(y) /\ y \notin Upto(x)
      <3>1. \A z \in S : z <= x => z <= y
        BY <1>4, <2>1
      <3>2. ~(y <= x)
        BY <1>4, <2>1
      <3> QED BY <3>1, <3>2
    <2>3. /\ IsFiniteSet(Upto(y)) /\ y \in Upto(y)
          /\ Cardinality(Upto(x)) \in Nat /\ Cardinality(Upto(y)) \in Nat
      BY <1>2
    <2> HIDE DEF Upto
    <2>4. Cardinality(Upto(x)) < Cardinality(Upto(y))
      BY <2>2, <2>3, FS_Subset
    <2> QED BY <2>3, <2>4
  <1>5. ASSUME Cardinality(Upto(v)) = Cardinality(Upto(w))
        PROVE  v = w
    <2>1. ~(v < w) /\ ~(w < v)
      BY <1>4, <1>5
    <2> QED BY <1>1, <2>1
  <1> QED BY <1>1, <1>3, <1>5

\* A publication sequence is a natural number above the last one used.
LEMMA SeqOfIsLater ==
    ASSUME NEW S \in SUBSET Work, NEW w \in S, lastSeq \in Nat
    PROVE  SeqOf(S, w) \in Nat /\ SeqOf(S, w) \in lastSeq + 1 .. lastSeq + Cardinality(S)
  <1> DEFINE n == Cardinality({v \in S : v <= w})
  <1>1. n \in 1..Cardinality(S) /\ Cardinality(S) \in Nat
    BY Ranks
  <1>2. SeqOf(S, w) = lastSeq + n
    BY DEF SeqOf
  <1> HIDE DEF n
  <1> QED BY <1>1, <1>2
-----------------------------------------------------------------------------
(* Type correctness, one lemma for each group of operations *)

\* The empty tables that bootstrap creates satisfy the invariant.
LEMMA InitIInv == Init => IInv
  <1> SUFFICES ASSUME Init PROVE IInv
    OBVIOUS
  <1> USE DEF Init, NoWork, NoBatch, NoAttempt
  <1>1. TypeOK
    BY DEF TypeOK, WorkRow, BatchRow, AttemptRow, WorkStatus, BatchStatus, AttemptStatus,
           Publication, ReplayRow
  <1>2. RowsMatchMembership
    BY DEF RowsMatchMembership, Members, Status
  <1>3. LeaseAgreement
    BY DEF LeaseAgreement, Active, Status
  <1>4. FencesAreUnique
    BY DEF FencesAreUnique
  <1> QED BY <1>1, <1>2, <1>3, <1>4 DEF IInv

\* Clearing the lease columns keeps a row a row.
LEMMA UnleasedType ==
    ASSUME NEW r \in WorkRow
    PROVE  Unleased(r) \in WorkRow
  BY DEF WorkRow, Unleased

\* Updates of a row keep its type.
LEMMA WorkRowUpdates ==
    ASSUME NEW r \in WorkRow, NEW k \in Nat, NEW m \in Nat, NEW n \in Nat,
           NEW s \in WorkStatus, NEW b \in Batch \cup {None},
           NEW e \in Operator \cup {None, "expired", "failed"}
    PROVE  /\ [r EXCEPT !.expires = n] \in WorkRow
           /\ [r EXCEPT !.status = s, !.available_at = n, !.error = e] \in WorkRow
           /\ [r EXCEPT !.status = s, !.lease = b, !.expires = n, !.attempt_count = k,
                        !.fence = m] \in WorkRow
           /\ [r EXCEPT !.status = s, !.committed = b, !.seq = n] \in WorkRow
           /\ [r EXCEPT !.status = s, !.max_attempts = k, !.available_at = n,
                        !.generation = m, !.error = e] \in WorkRow
  <1>1. [r EXCEPT !.expires = n] \in WorkRow
    BY DEF WorkRow
  <1>2. [r EXCEPT !.status = s, !.available_at = n, !.error = e] \in WorkRow
    BY DEF WorkRow
  <1>3. [r EXCEPT !.status = s, !.lease = b, !.expires = n, !.attempt_count = k,
                  !.fence = m] \in WorkRow
    BY DEF WorkRow
  <1>4. [r EXCEPT !.status = s, !.committed = b, !.seq = n] \in WorkRow
    BY DEF WorkRow
  <1>5. [r EXCEPT !.status = s, !.max_attempts = k, !.available_at = n,
                  !.generation = m, !.error = e] \in WorkRow
    BY DEF WorkRow
  <1> QED BY <1>1, <1>2, <1>3, <1>4, <1>5

\* Updates of an attempt row keep its type.
LEMMA AttemptRowUpdates ==
    ASSUME NEW r \in AttemptRow, NEW n \in Nat, NEW s \in AttemptStatus,
           NEW o \in Output \cup {None}, NEW v \in BOOLEAN
    PROVE  /\ [r EXCEPT !.status = s] \in AttemptRow
           /\ [r EXCEPT !.expires = n] \in AttemptRow
           /\ [r EXCEPT !.status = s, !.output = o, !.ok = v] \in AttemptRow
  BY DEF AttemptRow

\* The statuses the code writes.
LEMMA Statuses ==
    /\ {"READY", "LEASED", "SUCCEEDED", "DEAD"} \subseteq WorkStatus
    /\ {"LEASED", "SEALED", "COMMITTED", "EXPIRED"} \subseteq BatchStatus
    /\ {"LEASED", "SEALED", "SUCCEEDED", "FAILED", "EXPIRED"} \subseteq AttemptStatus
  BY DEF WorkStatus, BatchStatus, AttemptStatus

\* Replacing rows by rows keeps the table's type.
LEMMA WorkWithType ==
    ASSUME TypeOK, NEW rows, \A w \in DOMAIN rows : w \in Work => rows[w] \in WorkRow
    PROVE  WorkWith(rows) \in [Work -> WorkRow]
  BY DEF TypeOK, WorkWith

\* A registration is a row.
LEMMA RegisteredType ==
    ASSUME NEW c \in Content, NEW t \in Nat, NEW now \in Nat
    PROVE  Registered(c, t, now) \in WorkRow
  <1>1. c.max_attempts \in Nat
    BY ControlStoreAssumption
  <1> DEFINE m == c.max_attempts
  <1> HIDE DEF m
  <1>2. [NoWork EXCEPT !.status = "READY", !.content = c, !.max_attempts = m,
                       !.available_at = t, !.created_at = now] \in WorkRow
    BY <1>1 DEF NoWork, WorkRow, WorkStatus, m
  <1> QED BY <1>2 DEF Registered, m

\* register_many keeps the tables typed.
LEMMA RegisterType ==
    ASSUME TypeOK, NEW S \in SUBSET Work, NEW request \in [S -> Content],
           NEW now \in Nat, NEW at \in [S -> Nat], RegisterMany(S, request, at, now)
    PROVE  TypeOK'
  <1>1. \A w \in S : Registered(request[w], at[w], now) \in WorkRow
    BY RegisteredType
  <1>2. work' \in [Work -> WorkRow]
    BY <1>1 DEF TypeOK, RegisterMany, WorkWith
  <1> QED BY <1>2 DEF TypeOK, RegisterMany

\* claim keeps the tables typed.
LEMMA ClaimType ==
    ASSUME TypeOK, NEW b \in Batch, NEW call \in ClaimCall, NEW now \in Nat,
           Claim(b, call, now)
    PROVE  TypeOK'
  <1> DEFINE n == Max(AdmissibleSizes(FirstGroup(call, now), QueueOrder(FirstGroup(call, now)), Durations,
                        Workers, call.lease, call.minimum_items, call.max_items))
             claimed == FirstOf(FirstGroup(call, now), QueueOrder(FirstGroup(call, now)), n)
             e == now + call.lease
  <1>1. claimed \subseteq Work
    BY ClaimedAreReady DEF Status
  <1>2. e \in Nat
    BY ControlStoreAssumption
  <1>3. batches' = [batches EXCEPT ![b] =
            [status |-> "LEASED", members |-> claimed, expires |-> e]]
    BY DEF Claim
  <1>4. work' = [w \in Work |-> IF w \in claimed
            THEN [work[w] EXCEPT !.status = "LEASED", !.lease = b, !.expires = e,
                                 !.attempt_count = work[w].attempt_count + 1,
                                 !.fence = work[w].fence + 1]
            ELSE work[w]]
    BY DEF Claim, WorkWith
  <1>5. attempts' = [attempts EXCEPT ![b] = [w \in Work |->
            IF w \in claimed
            THEN [NoAttempt EXCEPT !.status = "LEASED", !.fence = work[w].fence + 1,
                                   !.expires = e]
            ELSE NoAttempt]]
    BY DEF Claim
  <1> HIDE DEF claimed, e
  <1>6. ASSUME NEW w \in Work
        PROVE  /\ work[w].attempt_count + 1 \in Nat /\ work[w].fence + 1 \in Nat
               /\ [work[w] EXCEPT !.status = "LEASED", !.lease = b, !.expires = e,
                                  !.attempt_count = work[w].attempt_count + 1,
                                  !.fence = work[w].fence + 1] \in WorkRow
    <2>1. work[w] \in WorkRow
      BY DEF TypeOK
    <2>2. work[w].attempt_count + 1 \in Nat /\ work[w].fence + 1 \in Nat
      BY <2>1 DEF WorkRow
    <2> QED BY <1>2, <2>1, <2>2, WorkRowUpdates, Statuses
  <1>7. work' \in [Work -> WorkRow]
    BY <1>4, <1>6 DEF TypeOK
  <1>8. batches' \in [Batch -> BatchRow]
    BY <1>1, <1>2, <1>3 DEF TypeOK, BatchRow, BatchStatus
  <1>9. ASSUME NEW f \in Nat
        PROVE  [NoAttempt EXCEPT !.status = "LEASED", !.fence = f, !.expires = e] \in AttemptRow
    BY <1>2 DEF NoAttempt, AttemptRow, AttemptStatus
  <1>10. NoAttempt \in AttemptRow
    BY DEF NoAttempt, AttemptRow, AttemptStatus
  <1>11. attempts' \in [Batch -> [Work -> AttemptRow]]
    BY <1>5, <1>6, <1>9, <1>10 DEF TypeOK
  <1> QED BY <1>7, <1>8, <1>11 DEF TypeOK, Claim

\* A heartbeat never shortens a lease.
LEMMA ExtendedIsLater ==
    ASSUME NEW b \in Batch, batches[b].expires \in Nat, NEW now \in Nat
    PROVE  Extended(b, now) \in Nat /\ Extended(b, now) >= batches[b].expires
  <1> DEFINE old == batches[b].expires
             new == now + Extension
             e == Max({old, new})
  <1>1. old \in Nat /\ new \in Nat
    BY ControlStoreAssumption
  <1>2. Extended(b, now) = e
    BY DEF Extended
  <1> HIDE DEF old, new
  <1>3. old \in Int /\ new \in Int
    BY <1>1
  <1>4. e \in Nat /\ e >= old
    BY <1>1, <1>3, MaxOfTwo
  <1> QED BY <1>2, <1>4 DEF old

\* heartbeat_process keeps the tables typed.
LEMMA HeartbeatType ==
    ASSUME TypeOK, NEW b \in Batch, NEW now \in Nat, Heartbeat(b, now)
    PROVE  TypeOK'
  <1> DEFINE e == Extended(b, now)
  <1>1. e \in Nat
    BY ExtendedIsLater DEF TypeOK, BatchRow
  <1>2. work' \in [Work -> WorkRow]
    <2>1. \A w \in Work : [work[w] EXCEPT !.expires = e] \in WorkRow
      BY <1>1 DEF TypeOK, WorkRow
    <2> QED BY <2>1 DEF TypeOK, Heartbeat, WorkWith
  <1>3. batches' \in [Batch -> BatchRow]
    BY <1>1 DEF TypeOK, Heartbeat, BatchRow
  <1>4. attempts' \in [Batch -> [Work -> AttemptRow]]
    <2> HIDE DEF e
    <2>1. ASSUME NEW w \in Work PROVE [attempts[b][w] EXCEPT !.expires = e] \in AttemptRow
      <3>1. attempts[b][w] \in AttemptRow
        BY DEF TypeOK
      <3> QED BY <1>1, <3>1 DEF AttemptRow
    <2> QED BY <2>1 DEF TypeOK, Heartbeat, e
  <1> QED BY <1>2, <1>3, <1>4 DEF TypeOK, Heartbeat

\* seal_batch keeps the tables typed.
LEMMA SealType ==
    ASSUME TypeOK, NEW b \in Batch, NEW result \in Results(b), NEW now \in Nat,
           Seal(b, result, now)
    PROVE  TypeOK'
  <1>1. batches' \in [Batch -> BatchRow]
    BY DEF TypeOK, Seal, BatchRow, BatchStatus
  <1>2. ASSUME NEW w \in Members(b)
        PROVE  result[w].output \in Output /\ result[w].ok \in BOOLEAN
    BY <1>2 DEF Results
  <1>3. ASSUME NEW w \in Work, w \in Members(b)
        PROVE  [attempts[b][w] EXCEPT !.status = "SEALED", !.output = result[w].output,
                                      !.ok = result[w].ok] \in AttemptRow
    <2>1. attempts[b][w] \in AttemptRow
      BY DEF TypeOK
    <2> QED BY <1>2, <1>3, <2>1, AttemptRowUpdates, Statuses
  <1>4. attempts' \in [Batch -> [Work -> AttemptRow]]
    BY <1>3 DEF TypeOK, Seal
  <1> QED BY <1>1, <1>4 DEF TypeOK, Seal

\* Giving a work back, with or without a retry.
LEMMA RetriedType ==
    ASSUME NEW w \in Work, work[w] \in WorkRow, NEW now \in Nat,
           NEW error \in {"expired", "failed"}
    PROVE  Retried(w, now, error) \in WorkRow
  <1>1. Unleased(work[w]) \in WorkRow
    BY UnleasedType
  <1> DEFINE s == IF work[w].attempt_count >= work[w].max_attempts THEN "DEAD" ELSE "READY"
  <1>2. s \in WorkStatus
    BY Statuses
  <1> HIDE DEF s
  <1>3. [Unleased(work[w]) EXCEPT !.status = s, !.available_at = now, !.error = error]
           \in WorkRow
    BY <1>1, <1>2, WorkRowUpdates
  <1> QED BY <1>3 DEF Retried, s

\* commit_batch keeps the tables typed.
LEMMA CommitType ==
    ASSUME TypeOK, NEW b \in Batch, NEW now \in Nat, Commit(b, now)
    PROVE  TypeOK'
  <1> DEFINE good == {w \in Members(b) : attempts[b][w].ok}
  <1>1. good \in SUBSET Work /\ Members(b) \subseteq Work
    BY DEF TypeOK, Members, BatchRow
  <1>2. \A w \in good : SeqOf(good, w) \in Nat
    BY <1>1, SeqOfIsLater DEF TypeOK
  <1>3. lastSeq' \in Nat
    <2>1. Cardinality(good) \in Nat
      BY <1>1, ControlStoreAssumption, FS_Subset, FS_CardinalityType
    <2>2. lastSeq' = lastSeq + Cardinality(good)
      BY DEF Commit
    <2>3. lastSeq \in Nat
      BY DEF TypeOK
    <2> HIDE DEF good
    <2> QED BY <2>1, <2>2, <2>3
  <1>4. work' \in [Work -> WorkRow]
    <2>1. ASSUME NEW w \in good
          PROVE  [Unleased(work[w]) EXCEPT !.status = "SUCCEEDED", !.committed = b,
                                           !.seq = SeqOf(good, w)] \in WorkRow
      <3>1. Unleased(work[w]) \in WorkRow
        BY <1>1, <2>1, UnleasedType DEF TypeOK
      <3>2. SeqOf(good, w) \in Nat
        BY <1>2, <2>1
      <3> HIDE DEF good
      <3> QED BY <3>1, <3>2, WorkRowUpdates, Statuses
    <2>2. ASSUME NEW w \in Work PROVE Retried(w, now, "failed") \in WorkRow
      BY RetriedType DEF TypeOK
    <2>3. work' = [w \in Work |-> IF w \in Members(b)
             THEN IF w \in good
                  THEN [Unleased(work[w]) EXCEPT !.status = "SUCCEEDED", !.committed = b,
                                                 !.seq = SeqOf(good, w)]
                  ELSE Retried(w, now, "failed")
             ELSE work[w]]
      BY DEF Commit, WorkWith
    <2> HIDE DEF good
    <2> QED BY <1>1, <2>1, <2>2, <2>3 DEF TypeOK
  <1>5. batches' \in [Batch -> BatchRow]
    BY DEF TypeOK, Commit, BatchRow, BatchStatus
  <1>6. attempts' \in [Batch -> [Work -> AttemptRow]]
    <2>1. \A w \in Work : /\ [attempts[b][w] EXCEPT !.status = "SUCCEEDED"] \in AttemptRow
                          /\ [attempts[b][w] EXCEPT !.status = "FAILED"] \in AttemptRow
      BY DEF TypeOK, AttemptRow, AttemptStatus
    <2>2. attempts' = [attempts EXCEPT ![b] = [w \in Work |->
              IF w \in Members(b)
              THEN IF w \in good THEN [attempts[b][w] EXCEPT !.status = "SUCCEEDED"]
                                 ELSE [attempts[b][w] EXCEPT !.status = "FAILED"]
              ELSE attempts[b][w]]]
      BY DEF Commit
    <2> HIDE DEF good
    <2> QED BY <2>1, <2>2 DEF TypeOK
  <1>7. publications' \in SUBSET Publication
    <2>1. ASSUME NEW w \in good PROVE attempts[b][w].output \in Output
      BY <1>1, <2>1 DEF Commit, TypeOK, AttemptRow
    <2>2. publications' = publications \cup
              {[seq |-> SeqOf(good, w), work |-> w, batch |-> b,
                output |-> attempts[b][w].output] : w \in good}
      BY DEF Commit
    <2> HIDE DEF good
    <2> QED BY <1>1, <1>2, <2>1, <2>2 DEF TypeOK, Publication
  <1> QED BY <1>3, <1>4, <1>5, <1>6, <1>7 DEF TypeOK, Commit

\* recover keeps the tables typed.
LEMMA RecoverType ==
    ASSUME TypeOK, NEW now \in Nat, Recover(now)
    PROVE  TypeOK'
  <1>1. work' \in [Work -> WorkRow]
    BY RetriedType DEF TypeOK, Recover, WorkWith
  <1>2. attempts' \in [Batch -> [Work -> AttemptRow]]
    <2>1. ASSUME NEW b \in Batch, NEW w \in Work
          PROVE  [attempts[b][w] EXCEPT !.status = "EXPIRED"] \in AttemptRow
      <3>1. attempts[b][w] \in AttemptRow
        BY DEF TypeOK
      <3> QED BY <3>1 DEF AttemptRow, AttemptStatus
    <2> QED BY <2>1 DEF TypeOK, Recover
  <1>3. batches' \in [Batch -> BatchRow]
    BY DEF TypeOK, Recover, BatchRow, BatchStatus
  <1> QED BY <1>1, <1>2, <1>3 DEF TypeOK, Recover

\* replay keeps the tables typed.
LEMMA ReplayType ==
    ASSUME TypeOK, NEW w \in Work, NEW operator \in Operator, NEW extra \in Nat,
           NEW now \in Nat, Replay(w, operator, extra, now)
    PROVE  TypeOK'
  <1>1. work[w] \in WorkRow
    BY DEF TypeOK
  <1>2. work[w].attempt_count + extra \in Nat /\ work[w].generation + 1 \in Nat
    BY <1>1 DEF WorkRow
  <1>3. [work[w] EXCEPT !.status = "READY", !.max_attempts = work[w].attempt_count + extra,
                        !.available_at = now, !.generation = work[w].generation + 1,
                        !.error = None] \in WorkRow
    BY <1>1, <1>2, WorkRowUpdates, Statuses
  <1>4. work' = [work EXCEPT ![w] =
            [work[w] EXCEPT !.status = "READY", !.max_attempts = work[w].attempt_count + extra,
                            !.available_at = now, !.generation = work[w].generation + 1,
                            !.error = None]]
    BY DEF Replay, TypeOK
  <1>5. work' \in [Work -> WorkRow]
    BY <1>3, <1>4 DEF TypeOK
  <1>6. replays' \in SUBSET ReplayRow
    BY <1>2 DEF TypeOK, Replay, ReplayRow
  <1> QED BY <1>5, <1>6 DEF TypeOK, Replay

\* quarantine keeps the tables typed.
LEMMA QuarantineType ==
    ASSUME TypeOK, NEW expected, NEW operator \in Operator, NEW now \in Nat,
           Quarantine(expected, operator, now)
    PROVE  TypeOK'
  <1>1. \A w \in Work : [work[w] EXCEPT !.status = "DEAD", !.available_at = now,
                                        !.error = operator] \in WorkRow
    BY WorkRowUpdates, Statuses DEF TypeOK
  <1>2. work' \in [Work -> WorkRow]
    BY <1>1 DEF TypeOK, Quarantine, WorkWith
  <1> QED BY <1>2 DEF TypeOK, Quarantine
-----------------------------------------------------------------------------
(* The inductive invariant, one lemma for each operation *)

\* Operations that touch neither batches nor attempts nor any leased work.
LEMMA UnleasedWorkOnly ==
    ASSUME IInv, TypeOK', UNCHANGED <<batches, attempts>>,
           \A w \in Work : \/ work'[w] = work[w]
                           \/ /\ work[w].status # "LEASED"
                              /\ work'[w].status \notin {"ABSENT", "LEASED"}
                              /\ work'[w].fence = work[w].fence
    PROVE  IInv'
  <1>1. RowsMatchMembership'
    BY DEF IInv, RowsMatchMembership, Members, Status
  <1>2. LeaseAgreement'
    <2>1. ASSUME NEW b \in Batch, Active(b)', NEW w \in Members(b)'
          PROVE  /\ HoldsFence(b, w)'
                 /\ (work[w].expires = batches[b].expires)'
                 /\ (attempts[b][w].expires = batches[b].expires)'
                 /\ (attempts[b][w].status = batches[b].status)'
      <3>1. Active(b) /\ w \in Members(b) /\ w \in Work
        BY <2>1 DEF Active, Members, IInv, TypeOK, BatchRow
      <3>2. /\ HoldsFence(b, w)
            /\ work[w].expires = batches[b].expires
            /\ attempts[b][w].expires = batches[b].expires
            /\ attempts[b][w].status = batches[b].status
        BY <3>1 DEF IInv, LeaseAgreement
      <3>3. work'[w] = work[w]
        BY <3>1, <3>2 DEF HoldsFence
      <3> QED BY <3>2, <3>3 DEF HoldsFence
    <2>2. ASSUME NEW w \in Status("LEASED")'
          PROVE  /\ work'[w].lease \in Batch
                 /\ Active(work[w].lease)'
                 /\ w \in Members(work[w].lease)'
      <3>1. work'[w] = work[w] /\ w \in Status("LEASED")
        BY <2>2 DEF Status
      <3> QED BY <3>1 DEF IInv, LeaseAgreement, Active, Members
    <2> QED BY <2>1, <2>2 DEF LeaseAgreement
  <1>3. FencesAreUnique'
    BY DEF IInv, FencesAreUnique
  <1> QED BY <1>1, <1>2, <1>3 DEF IInv

\* register_many only adds READY rows, which no batch refers to.
LEMMA RegisterIInv ==
    ASSUME IInv, NEW S \in SUBSET Work, NEW request \in [S -> Content],
           NEW now \in Nat, NEW at \in [S -> Nat], RegisterMany(S, request, at, now)
    PROVE  IInv'
  <1>1. TypeOK'
    BY RegisterType DEF IInv
  <1>2. ASSUME NEW w \in Work, work'[w] # work[w]
        PROVE  /\ work[w].status = "ABSENT" /\ work'[w].status = "READY"
               /\ work'[w].fence = 0
    BY <1>2 DEF RegisterMany, WorkWith, Registered, NoWork, Status
  <1>3. \A w \in Status("ABSENT") : work[w].fence = 0
    BY DEF IInv, RowsMatchMembership
  <1>4. UNCHANGED <<batches, attempts>>
    BY DEF RegisterMany
  <1> QED BY <1>1, <1>2, <1>3, <1>4, UnleasedWorkOnly DEF Status

\* replay moves a DEAD work, which no batch holds.
LEMMA ReplayIInv ==
    ASSUME IInv, NEW v \in Work, NEW operator \in Operator, NEW extra \in Nat,
           NEW now \in Nat, Replay(v, operator, extra, now)
    PROVE  IInv'
  <1>1. TypeOK'
    BY ReplayType DEF IInv
  <1>2. work \in [Work -> WorkRow]
    BY DEF IInv, TypeOK
  <1>3. /\ work[v].status = "DEAD" /\ work'[v].status = "READY"
        /\ work'[v].fence = work[v].fence
        /\ \A w \in Work \ {v} : work'[w] = work[w]
    BY <1>2 DEF Replay, WorkRow
  <1>4. UNCHANGED <<batches, attempts>>
    BY DEF Replay
  <1> QED BY <1>1, <1>3, <1>4, UnleasedWorkOnly

\* quarantine moves READY works, which no batch holds.
LEMMA QuarantineIInv ==
    ASSUME IInv, NEW expected, NEW operator \in Operator, NEW now \in Nat,
           Quarantine(expected, operator, now)
    PROVE  IInv'
  <1>1. TypeOK'
    BY QuarantineType DEF IInv
  <1>2. ASSUME NEW w \in Work, work'[w] # work[w]
        PROVE  /\ work[w].status = "READY" /\ work'[w].status = "DEAD"
               /\ work'[w].fence = work[w].fence
    <2>1. work[w] \in WorkRow
      BY DEF IInv, TypeOK
    <2>2. /\ work[w].status = "READY"
          /\ work'[w] = [work[w] EXCEPT !.status = "DEAD", !.available_at = now,
                                        !.error = operator]
      BY <1>2 DEF Quarantine, WorkWith, Status
    <2> QED BY <2>1, <2>2 DEF WorkRow
  <1>3. UNCHANGED <<batches, attempts>>
    BY DEF Quarantine
  <1> QED BY <1>1, <1>2, <1>3, UnleasedWorkOnly

\* The tables do not depend on the clock.
LEMMA TickIInv == IInv /\ Tick => IInv'
  <1> SUFFICES ASSUME IInv, Tick PROVE IInv'
    OBVIOUS
  <1>1. TypeOK'
    BY DEF IInv, TypeOK, Tick
  <1> QED BY <1>1, UnleasedWorkOnly DEF Tick

\* What LeaseAgreement says about one batch and about one leased work.
BatchAgrees(b) ==
    Active(b) => \A w \in Members(b) :
        /\ HoldsFence(b, w)
        /\ work[w].expires = batches[b].expires
        /\ attempts[b][w].expires = batches[b].expires
        /\ attempts[b][w].status = batches[b].status
LeaseIsBacked(w) ==
    work[w].status = "LEASED" =>
        work[w].lease \in Batch /\ Active(work[w].lease) /\ w \in Members(work[w].lease)

\* LeaseAgreement, one batch and one work at a time.
LEMMA LeaseAgreementParts ==
    LeaseAgreement <=> (\A b \in Batch : BatchAgrees(b)) /\ (\A w \in Work : LeaseIsBacked(w))
  BY DEF LeaseAgreement, BatchAgrees, LeaseIsBacked, Status

\* The same after a step.
LEMMA LeaseAgreementPartsNext ==
    ASSUME \A b \in Batch : BatchAgrees(b)', \A w \in Work : LeaseIsBacked(w)'
    PROVE  LeaseAgreement'
  BY DEF LeaseAgreement, BatchAgrees, LeaseIsBacked, Status

\* Two active batches have no work in common.
LEMMA ActiveBatchesAreDisjoint ==
    ASSUME IInv, NEW b \in Batch, NEW c \in Batch, b # c, Active(b), Active(c)
    PROVE  Members(b) \cap Members(c) = {}
  BY DEF IInv, LeaseAgreement, HoldsFence

\* A batch whose rows and whose works' rows did not change still agrees.
LEMMA UntouchedBatchAgrees ==
    ASSUME IInv, NEW b \in Batch, batches'[b] = batches[b], attempts'[b] = attempts[b],
           Active(b) => \A w \in Members(b) : work'[w] = work[w]
    PROVE  BatchAgrees(b)'
  <1>1. BatchAgrees(b)
    BY LeaseAgreementParts DEF IInv
  <1>2. Active(b)' <=> Active(b)
    BY DEF Active
  <1>3. Members(b)' = Members(b)
    BY DEF Members
  <1> QED BY <1>1, <1>2, <1>3 DEF BatchAgrees, HoldsFence

\* claim gives READY works a new batch and a fence above all of theirs.
LEMMA ClaimIInv ==
    ASSUME IInv, NEW b \in Batch, NEW call \in ClaimCall, NEW now \in Nat,
           Claim(b, call, now)
    PROVE  IInv'
  <1> DEFINE n == Max(AdmissibleSizes(FirstGroup(call, now), QueueOrder(FirstGroup(call, now)), Durations,
                        Workers, call.lease, call.minimum_items, call.max_items))
             claimed == FirstOf(FirstGroup(call, now), QueueOrder(FirstGroup(call, now)), n)
             e == now + call.lease
  <1>1. claimed \subseteq Status("READY")
    BY ClaimedAreReady
  <1>2. TypeOK /\ TypeOK'
    BY ClaimType DEF IInv
  <1>3. /\ batches[b].status = "NONE"
        /\ batches' = [batches EXCEPT ![b] =
              [status |-> "LEASED", members |-> claimed, expires |-> e]]
    BY DEF Claim
  <1>4. work' = [w \in Work |-> IF w \in claimed
            THEN [work[w] EXCEPT !.status = "LEASED", !.lease = b, !.expires = e,
                                 !.attempt_count = work[w].attempt_count + 1,
                                 !.fence = work[w].fence + 1]
            ELSE work[w]]
    BY DEF Claim, WorkWith
  <1>5. attempts' = [attempts EXCEPT ![b] = [w \in Work |->
            IF w \in claimed
            THEN [NoAttempt EXCEPT !.status = "LEASED", !.fence = work[w].fence + 1,
                                   !.expires = e]
            ELSE NoAttempt]]
    BY DEF Claim
  <1> HIDE DEF claimed, e
  <1>6. \A w \in claimed : w \in Work /\ work[w].status = "READY"
    BY <1>1 DEF Status
  <1>7. ASSUME NEW w \in Work, w \in claimed
        PROVE  /\ work'[w].status = "LEASED" /\ work'[w].lease = b
               /\ work'[w].expires = e /\ work'[w].fence = work[w].fence + 1
               /\ attempts'[b][w].status = "LEASED" /\ attempts'[b][w].output = None
               /\ attempts'[b][w].expires = e /\ attempts'[b][w].fence = work[w].fence + 1
    <2>1. work[w] \in WorkRow
      BY <1>2 DEF TypeOK
    <2>2. work'[w] = [work[w] EXCEPT !.status = "LEASED", !.lease = b, !.expires = e,
                                 !.attempt_count = work[w].attempt_count + 1,
                                 !.fence = work[w].fence + 1]
      BY <1>4, <1>7
    <2>3. attempts'[b][w] = [NoAttempt EXCEPT !.status = "LEASED",
                                 !.fence = work[w].fence + 1, !.expires = e]
      BY <1>2, <1>5, <1>7 DEF TypeOK
    <2>4. /\ work'[w].status = "LEASED" /\ work'[w].lease = b
          /\ work'[w].expires = e /\ work'[w].fence = work[w].fence + 1
      BY <2>1, <2>2 DEF WorkRow
    <2> QED BY <2>3, <2>4 DEF NoAttempt
  <1>8. ASSUME NEW w \in Work, w \notin claimed
        PROVE  work'[w] = work[w] /\ attempts'[b][w] = NoAttempt
    BY <1>2, <1>4, <1>5, <1>8 DEF TypeOK
  <1>9. /\ batches'[b].status = "LEASED" /\ batches'[b].members = claimed
        /\ batches'[b].expires = e
        /\ \A c \in Batch \ {b} : batches'[c] = batches[c] /\ attempts'[c] = attempts[c]
    BY <1>2, <1>3, <1>5 DEF TypeOK
  <1>10. RowsMatchMembership'
    <2>1. \A w \in Status("ABSENT")' : work'[w].fence = 0 /\ work'[w].content = None
      BY <1>6, <1>7, <1>8 DEF IInv, RowsMatchMembership, Status
    <2>2. ASSUME NEW c \in Batch PROVE batches'[c].status = "NONE" => Members(c)' = {}
      BY <1>9 DEF IInv, RowsMatchMembership, Members
    <2>3. ASSUME NEW c \in Batch, NEW w \in Work
          PROVE  /\ attempts'[c][w].status # "NONE" <=> w \in Members(c)'
                 /\ attempts'[c][w].status \in {"NONE", "LEASED"} => attempts'[c][w].output = None
      <3>1. CASE c = b
        BY <3>1, <1>7, <1>8, <1>9 DEF Members, NoAttempt
      <3>2. CASE c # b
        BY <3>2, <1>9 DEF IInv, RowsMatchMembership, Members
      <3> QED BY <3>1, <3>2
    <2> QED BY <2>1, <2>2, <2>3 DEF RowsMatchMembership
  <1>11. LeaseAgreement'
    <2>1. BatchAgrees(b)'
      BY <1>6, <1>7, <1>9 DEF BatchAgrees, HoldsFence, Members
    <2>2. ASSUME NEW c \in Batch, c # b PROVE BatchAgrees(c)'
      <3>1. Active(c) => \A w \in Members(c) : w \in Work /\ work[w].status = "LEASED"
        BY <1>2 DEF IInv, LeaseAgreement, HoldsFence, TypeOK, BatchRow, Members
      <3>2. Active(c) => \A w \in Members(c) : work'[w] = work[w]
        BY <3>1, <1>6, <1>8
      <3> QED BY <2>2, <3>2, <1>9, UntouchedBatchAgrees
    <2>3. ASSUME NEW w \in Work PROVE LeaseIsBacked(w)'
      <3>1. CASE w \in claimed
        BY <3>1, <1>7, <1>9 DEF LeaseIsBacked, Active, Members
      <3>2. CASE w \notin claimed
        BY <3>2, <1>3, <1>8, <1>9, LeaseAgreementParts DEF IInv, LeaseIsBacked, Active, Members
      <3> QED BY <3>1, <3>2
    <2>4. \A c \in Batch : BatchAgrees(c)'
      BY <2>1, <2>2
    <2> QED BY <2>3, <2>4, LeaseAgreementPartsNext
  <1>12. FencesAreUnique'
    <2>1. ASSUME NEW w \in Work PROVE work[w].fence \in Nat /\ work'[w].fence \in Nat
      BY <1>2 DEF TypeOK, WorkRow
    <2>2. ASSUME NEW w \in Work, NEW c \in Batch
          PROVE  attempts[c][w].fence \in Nat
      BY <1>2 DEF TypeOK, AttemptRow
    <2>3. ASSUME NEW w \in Work, NEW c \in Batch, attempts'[c][w].status # "NONE"
          PROVE  /\ attempts'[c][w].fence \in 1..work'[w].fence
                 /\ \A d \in Batch \ {c} : attempts'[d][w].status # "NONE" =>
                       attempts'[d][w].fence # attempts'[c][w].fence
      <3>1. \A d \in Batch : attempts[d][w].status # "NONE" =>
               attempts[d][w].fence \in 1..work[w].fence
        BY DEF IInv, FencesAreUnique
      <3>2. \A d, f \in Batch : attempts[d][w].status # "NONE" /\ attempts[f][w].status # "NONE"
                 /\ d # f => attempts[d][w].fence # attempts[f][w].fence
        BY DEF IInv, FencesAreUnique
      <3>3. CASE w \in claimed
        BY <3>3, <3>1, <3>2, <2>1, <2>2, <2>3, <1>7, <1>9
      <3>4. CASE w \notin claimed
        BY <3>4, <3>1, <3>2, <2>1, <2>2, <2>3, <1>8, <1>9 DEF NoAttempt
      <3> QED BY <3>3, <3>4
    <2> QED BY <2>3 DEF FencesAreUnique
  <1> QED BY <1>2, <1>10, <1>11, <1>12 DEF IInv

\* Operations on one batch that only change rows of its members, keep fences
\* and memberships and never bring a work back to a lease.
LEMMA OneBatchFences ==
    ASSUME IInv,
           \A w \in Work : work'[w].fence = work[w].fence,
           \A b \in Batch, w \in Work :
              /\ attempts'[b][w].fence = attempts[b][w].fence
              /\ attempts'[b][w].status = "NONE" <=> attempts[b][w].status = "NONE"
    PROVE  FencesAreUnique'
  BY DEF IInv, FencesAreUnique

\* Operations that keep memberships, and only move attempts forward.
LEMMA MembershipKept ==
    ASSUME IInv,
           \A w \in Work : work'[w].status = "ABSENT" =>
              /\ work[w].status = "ABSENT"
              /\ work'[w].fence = work[w].fence /\ work'[w].content = work[w].content,
           \A b \in Batch :
              /\ batches'[b].members = batches[b].members
              /\ batches'[b].status = "NONE" <=> batches[b].status = "NONE",
           \A b \in Batch, w \in Work :
              /\ attempts'[b][w].status = "NONE" <=> attempts[b][w].status = "NONE"
              /\ attempts'[b][w].status \in {"NONE", "LEASED"} =>
                    /\ attempts[b][w].status \in {"NONE", "LEASED"}
                    /\ attempts'[b][w].output = attempts[b][w].output
    PROVE  RowsMatchMembership'
  <1>1. \A w \in Status("ABSENT")' : work'[w].fence = 0 /\ work'[w].content = None
    BY DEF IInv, RowsMatchMembership, Status
  <1>2. \A b \in Batch : batches'[b].status = "NONE" => Members(b)' = {}
    BY DEF IInv, RowsMatchMembership, Members
  <1>3. ASSUME NEW b \in Batch, NEW w \in Work
        PROVE  /\ attempts'[b][w].status # "NONE" <=> w \in Members(b)'
               /\ attempts'[b][w].status \in {"NONE", "LEASED"} => attempts'[b][w].output = None
    BY DEF IInv, RowsMatchMembership, Members
  <1> QED BY <1>1, <1>2, <1>3 DEF RowsMatchMembership

\* heartbeat_process moves the three copies of the lease together.
LEMMA HeartbeatIInv ==
    ASSUME IInv, NEW b \in Batch, NEW now \in Nat, Heartbeat(b, now)
    PROVE  IInv'
  <1> DEFINE e == Extended(b, now)
  <1>1. TypeOK /\ TypeOK'
    BY HeartbeatType DEF IInv
  <1>2. Members(b) \subseteq Work /\ Active(b) /\ batches[b].status = "LEASED"
    BY <1>1 DEF TypeOK, BatchRow, Members, Heartbeat, Active
  <1>3. ASSUME NEW w \in Work
        PROVE  /\ w \in Members(b) => work'[w] = [work[w] EXCEPT !.expires = e]
               /\ w \notin Members(b) => work'[w] = work[w]
    BY DEF Heartbeat, WorkWith
  <1>4. \A w \in Work : w \in Members(b) => attempts[b][w].status = "LEASED"
    BY <1>2 DEF IInv, LeaseAgreement
  <1>5. ASSUME NEW w \in Work
        PROVE  /\ w \in Members(b) => attempts'[b][w] = [attempts[b][w] EXCEPT !.expires = e]
               /\ w \notin Members(b) => attempts'[b][w] = attempts[b][w]
    <2>1. attempts[b][w].status = "LEASED" <=> w \in Members(b)
      BY <1>4 DEF IInv, RowsMatchMembership
    <2> QED BY <2>1, <1>1 DEF Heartbeat, TypeOK
  <1>6. \A c \in Batch \ {b} : batches'[c] = batches[c] /\ attempts'[c] = attempts[c]
    BY <1>1 DEF Heartbeat, TypeOK
  <1> HIDE DEF e
  <1>7. ASSUME NEW w \in Work
        PROVE  /\ work'[w].status = work[w].status /\ work'[w].lease = work[w].lease
               /\ work'[w].fence = work[w].fence /\ work'[w].content = work[w].content
               /\ w \in Members(b) => work'[w].expires = e
    <2>1. work[w] \in WorkRow
      BY <1>1 DEF TypeOK
    <2> QED BY <2>1, <1>3 DEF WorkRow
  <1>8. ASSUME NEW w \in Work
        PROVE  /\ attempts'[b][w].status = attempts[b][w].status
               /\ attempts'[b][w].fence = attempts[b][w].fence
               /\ attempts'[b][w].output = attempts[b][w].output
               /\ w \in Members(b) => attempts'[b][w].expires = e
    <2>1. attempts[b][w] \in AttemptRow
      BY <1>1 DEF TypeOK
    <2> QED BY <2>1, <1>5 DEF AttemptRow
  <1>9. /\ batches'[b].status = batches[b].status /\ batches'[b].members = batches[b].members
        /\ batches'[b].expires = e
    <2>1. batches[b] \in BatchRow
      BY <1>1 DEF TypeOK
    <2>2. batches'[b] = [batches[b] EXCEPT !.expires = e]
      BY <1>1 DEF Heartbeat, TypeOK, e
    <2> QED BY <2>1, <2>2 DEF BatchRow
  <1>10. RowsMatchMembership'
    BY <1>6, <1>7, <1>8, <1>9, MembershipKept
  <1>11. LeaseAgreement'
    <2>1. BatchAgrees(b)'
      <3>1. BatchAgrees(b)
        BY LeaseAgreementParts DEF IInv
      <3> QED BY <3>1, <1>2, <1>7, <1>8, <1>9 DEF BatchAgrees, HoldsFence, Members, Active
    <2>2. ASSUME NEW c \in Batch, c # b PROVE BatchAgrees(c)'
      <3>1. Active(c) => \A w \in Members(c) : w \in Work /\ w \notin Members(b)
        BY <2>2, <1>1, <1>2, ActiveBatchesAreDisjoint DEF TypeOK, BatchRow, Members
      <3>2. Active(c) => \A w \in Members(c) : work'[w] = work[w]
        BY <3>1, <1>3
      <3> QED BY <2>2, <3>2, <1>6, UntouchedBatchAgrees
    <2>3. ASSUME NEW w \in Work PROVE LeaseIsBacked(w)'
      <3>1. LeaseIsBacked(w)
        BY LeaseAgreementParts DEF IInv
      <3>2. \A c \in Batch : batches'[c].status = batches[c].status
                            /\ batches'[c].members = batches[c].members
        BY <1>6, <1>9
      <3> QED BY <1>7, <3>1, <3>2 DEF LeaseIsBacked, Active, Members
    <2>4. \A c \in Batch : BatchAgrees(c)'
      BY <2>1, <2>2
    <2> QED BY <2>3, <2>4, LeaseAgreementPartsNext
  <1>12. FencesAreUnique'
    BY <1>6, <1>7, <1>8, OneBatchFences
  <1> QED BY <1>1, <1>10, <1>11, <1>12 DEF IInv

\* seal_batch moves a batch and its attempts together.
LEMMA SealIInv ==
    ASSUME IInv, NEW b \in Batch, NEW result \in Results(b), NEW now \in Nat,
           Seal(b, result, now)
    PROVE  IInv'
  <1>1. TypeOK /\ TypeOK'
    BY SealType DEF IInv
  <1>2. Members(b) \subseteq Work /\ Active(b) /\ batches[b].status = "LEASED"
    BY <1>1 DEF TypeOK, BatchRow, Members, Seal, Active
  <1>3. work' = work
    BY DEF Seal
  <1>4. ASSUME NEW w \in Work, w \in Members(b)
        PROVE  /\ attempts[b][w].status # "NONE"
               /\ attempts'[b][w].status = "SEALED"
               /\ attempts'[b][w].fence = attempts[b][w].fence
               /\ attempts'[b][w].expires = attempts[b][w].expires
    <2>1. attempts[b][w] \in AttemptRow
      BY <1>1 DEF TypeOK
    <2>2. attempts'[b][w] = [attempts[b][w] EXCEPT !.status = "SEALED",
                                !.output = result[w].output, !.ok = result[w].ok]
      BY <1>1, <1>4 DEF Seal, TypeOK
    <2>3. attempts[b][w].status # "NONE"
      BY <1>4 DEF IInv, RowsMatchMembership
    <2> QED BY <2>1, <2>2, <2>3 DEF AttemptRow
  <1>5. \A w \in Work \ Members(b) : attempts'[b][w] = attempts[b][w]
    BY <1>1 DEF Seal, TypeOK
  <1>6. \A c \in Batch \ {b} : batches'[c] = batches[c] /\ attempts'[c] = attempts[c]
    BY <1>1 DEF Seal, TypeOK
  <1>7. /\ batches'[b].status = "SEALED" /\ batches'[b].members = batches[b].members
        /\ batches'[b].expires = batches[b].expires
    <2>1. batches[b] \in BatchRow
      BY <1>1 DEF TypeOK
    <2>2. batches'[b] = [batches[b] EXCEPT !.status = "SEALED"]
      BY <1>1 DEF Seal, TypeOK
    <2> QED BY <2>1, <2>2 DEF BatchRow
  <1>8. RowsMatchMembership'
    BY <1>2, <1>3, <1>4, <1>5, <1>6, <1>7, MembershipKept
  <1>9. LeaseAgreement'
    <2>1. BatchAgrees(b)'
      <3>1. BatchAgrees(b)
        BY LeaseAgreementParts DEF IInv
      <3> QED BY <3>1, <1>2, <1>3, <1>4, <1>7 DEF BatchAgrees, HoldsFence, Members, Active
    <2>2. ASSUME NEW c \in Batch, c # b PROVE BatchAgrees(c)'
      BY <2>2, <1>3, <1>6, UntouchedBatchAgrees
    <2>3. ASSUME NEW w \in Work PROVE LeaseIsBacked(w)'
      BY <1>3, <1>6, <1>7, LeaseAgreementParts DEF IInv, LeaseIsBacked, Active, Members
    <2>4. \A c \in Batch : BatchAgrees(c)'
      BY <2>1, <2>2
    <2> QED BY <2>3, <2>4, LeaseAgreementPartsNext
  <1>10. FencesAreUnique'
    BY <1>3, <1>4, <1>5, <1>6, OneBatchFences
  <1> QED BY <1>1, <1>8, <1>9, <1>10 DEF IInv

\* A work given back is unleased and keeps its fence.
LEMMA RetriedFields ==
    ASSUME NEW w \in Work, work[w] \in WorkRow, NEW now \in Nat,
           NEW error \in {"expired", "failed"}
    PROVE  /\ Retried(w, now, error).status \in {"READY", "DEAD"}
           /\ Retried(w, now, error).fence = work[w].fence
           /\ Retried(w, now, error).committed = work[w].committed
           /\ Retried(w, now, error).generation = work[w].generation
  <1> DEFINE s == IF work[w].attempt_count >= work[w].max_attempts THEN "DEAD" ELSE "READY"
  <1>1. s \in {"READY", "DEAD"}
    OBVIOUS
  <1>2. Retried(w, now, error) = [Unleased(work[w]) EXCEPT !.status = s,
                                      !.available_at = now, !.error = error]
    BY DEF Retried
  <1> HIDE DEF s
  <1> QED BY <1>1, <1>2 DEF WorkRow, Unleased

\* The rows after a commit.
LEMMA CommitRows ==
    ASSUME IInv, NEW b \in Batch, NEW now \in Nat, Commit(b, now)
    PROVE  /\ \A w \in Work \ Members(b) : work'[w] = work[w] /\ attempts'[b][w] = attempts[b][w]
           /\ \A w \in Members(b) :
                 /\ w \in Work
                 /\ work'[w].status \in {"READY", "DEAD", "SUCCEEDED"}
                 /\ work'[w].fence = work[w].fence
                 /\ attempts[b][w].status = "SEALED"
                 /\ attempts'[b][w].status \in {"SUCCEEDED", "FAILED"}
                 /\ attempts'[b][w].fence = attempts[b][w].fence
           /\ batches[b].status = "SEALED" /\ batches'[b].status = "COMMITTED"
           /\ batches'[b].members = batches[b].members
           /\ \A c \in Batch \ {b} : batches'[c] = batches[c] /\ attempts'[c] = attempts[c]
  <1> DEFINE good == {w \in Members(b) : attempts[b][w].ok}
  <1>1. TypeOK /\ Members(b) \subseteq Work
    BY DEF IInv, TypeOK, Members, BatchRow
  <1>2. work' = [w \in Work |-> IF w \in Members(b)
             THEN IF w \in good
                  THEN [Unleased(work[w]) EXCEPT !.status = "SUCCEEDED", !.committed = b,
                                                 !.seq = SeqOf(good, w)]
                  ELSE Retried(w, now, "failed")
             ELSE work[w]]
    BY DEF Commit, WorkWith
  <1>3. attempts' = [attempts EXCEPT ![b] = [w \in Work |->
              IF w \in Members(b)
              THEN IF w \in good THEN [attempts[b][w] EXCEPT !.status = "SUCCEEDED"]
                                 ELSE [attempts[b][w] EXCEPT !.status = "FAILED"]
              ELSE attempts[b][w]]]
    BY DEF Commit
  <1>4. /\ batches[b].status = "SEALED" /\ batches' = [batches EXCEPT ![b].status = "COMMITTED"]
        /\ \A w \in Members(b) : attempts[b][w].status = "SEALED"
    BY DEF Commit
  <1> HIDE DEF good
  <1>5. ASSUME NEW w \in Members(b)
        PROVE  work'[w].status \in {"READY", "DEAD", "SUCCEEDED"} /\ work'[w].fence = work[w].fence
    <2>1. w \in Work /\ work[w] \in WorkRow
      BY <1>1, <1>5 DEF TypeOK
    <2>2. CASE w \in good
      <3>1. work'[w] = [Unleased(work[w]) EXCEPT !.status = "SUCCEEDED", !.committed = b,
                                                 !.seq = SeqOf(good, w)]
        BY <1>2, <1>5, <2>1, <2>2
      <3> QED BY <2>1, <3>1 DEF Unleased, WorkRow
    <2>3. CASE w \notin good
      <3>1. work'[w] = Retried(w, now, "failed")
        BY <1>2, <1>5, <2>1, <2>3
      <3> QED BY <1>1, <2>1, <3>1, RetriedFields DEF TypeOK
    <2> QED BY <2>2, <2>3
  <1>6. ASSUME NEW w \in Members(b)
        PROVE  /\ attempts'[b][w].status \in {"SUCCEEDED", "FAILED"}
               /\ attempts'[b][w].fence = attempts[b][w].fence
    <2>1. w \in Work /\ attempts[b][w] \in AttemptRow /\ attempts \in [Batch -> [Work -> AttemptRow]]
      BY <1>1, <1>6 DEF TypeOK
    <2>2. attempts'[b][w] = IF w \in good THEN [attempts[b][w] EXCEPT !.status = "SUCCEEDED"]
                                          ELSE [attempts[b][w] EXCEPT !.status = "FAILED"]
      BY <1>3, <1>6, <2>1
    <2> QED BY <2>1, <2>2 DEF AttemptRow
  <1>7. \A w \in Work \ Members(b) : work'[w] = work[w] /\ attempts'[b][w] = attempts[b][w]
    BY <1>1, <1>2, <1>3 DEF TypeOK
  <1>8. /\ batches'[b].status = "COMMITTED" /\ batches'[b].members = batches[b].members
        /\ \A c \in Batch \ {b} : batches'[c] = batches[c]
    BY <1>1, <1>4 DEF TypeOK, BatchRow
  <1>9. \A c \in Batch \ {b} : attempts'[c] = attempts[c]
    BY <1>1, <1>3 DEF TypeOK
  <1> QED BY <1>1, <1>4, <1>5, <1>6, <1>7, <1>8, <1>9

\* commit_batch ends a batch, its attempts and the leases of its works together.
LEMMA CommitIInv ==
    ASSUME IInv, NEW b \in Batch, NEW now \in Nat, Commit(b, now)
    PROVE  IInv'
  <1>1. TypeOK /\ TypeOK'
    BY CommitType DEF IInv
  <1>2. Members(b) \subseteq Work /\ Active(b)
    BY <1>1, CommitRows DEF Active, TypeOK, Members, BatchRow
  <1>3. RowsMatchMembership'
    <2>1. \A w \in Work : work'[w].status = "ABSENT" => work'[w] = work[w]
      BY CommitRows
    <2>2. \A c \in Batch :
              /\ batches'[c].members = batches[c].members
              /\ batches'[c].status = "NONE" <=> batches[c].status = "NONE"
      BY CommitRows
    <2>3. \A c \in Batch, w \in Work :
              /\ attempts'[c][w].status = "NONE" <=> attempts[c][w].status = "NONE"
              /\ attempts'[c][w].status \in {"NONE", "LEASED"} => attempts'[c][w] = attempts[c][w]
      BY CommitRows
    <2> QED BY <2>1, <2>2, <2>3, MembershipKept
  <1>4. LeaseAgreement'
    <2>1. BatchAgrees(b)'
      BY CommitRows DEF BatchAgrees, Active
    <2>2. ASSUME NEW c \in Batch, c # b PROVE BatchAgrees(c)'
      <3>1. Active(c) => \A w \in Members(c) : w \in Work /\ w \notin Members(b)
        BY <2>2, <1>1, <1>2, ActiveBatchesAreDisjoint DEF TypeOK, BatchRow, Members
      <3>2. Active(c) => \A w \in Members(c) : work'[w] = work[w]
        BY <3>1, CommitRows
      <3> QED BY <2>2, <3>2, CommitRows, UntouchedBatchAgrees
    <2>3. ASSUME NEW w \in Work PROVE LeaseIsBacked(w)'
      <3>1. LeaseIsBacked(w)
        BY LeaseAgreementParts DEF IInv
      <3>2. CASE w \in Members(b)
        BY <3>2, CommitRows DEF LeaseIsBacked
      <3>3. CASE w \notin Members(b)
        BY <3>1, <3>3, CommitRows DEF LeaseIsBacked, Active, Members
      <3> QED BY <3>2, <3>3
    <2>4. \A c \in Batch : BatchAgrees(c)'
      BY <2>1, <2>2
    <2> QED BY <2>3, <2>4, LeaseAgreementPartsNext
  <1>5. FencesAreUnique'
    <2>1. \A w \in Work : work'[w].fence = work[w].fence
      BY CommitRows
    <2>2. \A c \in Batch, w \in Work :
              /\ attempts'[c][w].fence = attempts[c][w].fence
              /\ attempts'[c][w].status = "NONE" <=> attempts[c][w].status = "NONE"
      BY CommitRows
    <2> QED BY <2>1, <2>2, OneBatchFences
  <1> QED BY <1>1, <1>3, <1>4, <1>5 DEF IInv

\* The rows after a recovery: a batch is expired exactly with its works.
LEMMA RecoverRows ==
    ASSUME IInv, NEW now \in Nat, Recover(now)
    PROVE  /\ \A w \in Work : w \notin Expired(now) => work'[w] = work[w]
           /\ \A w \in Expired(now) :
                 /\ work'[w].status \in {"READY", "DEAD"}
                 /\ work'[w].fence = work[w].fence
           /\ \A b \in Batch : IF BatchExpired(b, now)
                               THEN /\ batches'[b].status = "EXPIRED"
                                    /\ batches'[b].members = batches[b].members
                               ELSE batches'[b] = batches[b]
           /\ \A b \in Batch, w \in Work :
                 IF w \in Expired(now) /\ work[w].lease = b
                 THEN /\ attempts'[b][w].status \in {"EXPIRED", attempts[b][w].status} \ {"LEASED"}
                      /\ attempts'[b][w].fence = attempts[b][w].fence
                      /\ attempts[b][w].status # "NONE" /\ attempts'[b][w].status # "NONE"
                 ELSE attempts'[b][w] = attempts[b][w]
  <1>1. TypeOK
    BY DEF IInv
  <1>2. \A w \in Work : w \notin Expired(now) => work'[w] = work[w]
    BY DEF Recover, WorkWith
  <1>3. ASSUME NEW w \in Expired(now)
        PROVE  work'[w].status \in {"READY", "DEAD"} /\ work'[w].fence = work[w].fence
    <2>1. w \in Work
      BY <1>3 DEF Expired, Status
    <2>2. work'[w] = Retried(w, now, "expired")
      BY <1>3, <2>1 DEF Recover, WorkWith
    <2> QED BY <1>1, <2>1, <2>2, RetriedFields DEF TypeOK
  <1>4. ASSUME NEW b \in Batch
        PROVE  IF BatchExpired(b, now)
               THEN batches'[b].status = "EXPIRED" /\ batches'[b].members = batches[b].members
               ELSE batches'[b] = batches[b]
    <2>1. batches[b] \in BatchRow
      BY <1>1 DEF TypeOK
    <2>2. batches'[b] = IF BatchExpired(b, now) THEN [batches[b] EXCEPT !.status = "EXPIRED"]
                        ELSE batches[b]
      BY DEF Recover
    <2> QED BY <2>1, <2>2 DEF BatchRow
  <1>5. ASSUME NEW b \in Batch, NEW w \in Work
        PROVE  IF w \in Expired(now) /\ work[w].lease = b
               THEN /\ attempts'[b][w].status \in {"EXPIRED", attempts[b][w].status} \ {"LEASED"}
                    /\ attempts'[b][w].fence = attempts[b][w].fence
                    /\ attempts[b][w].status # "NONE" /\ attempts'[b][w].status # "NONE"
               ELSE attempts'[b][w] = attempts[b][w]
    <2>1. attempts[b][w] \in AttemptRow
      BY <1>1 DEF TypeOK
    <2>2. attempts'[b][w] = IF w \in Expired(now) /\ work[w].lease = b
                               /\ attempts[b][w].status \in {"LEASED", "SEALED"}
                            THEN [attempts[b][w] EXCEPT !.status = "EXPIRED"]
                            ELSE attempts[b][w]
      BY DEF Recover
    <2>3. w \in Expired(now) /\ work[w].lease = b => w \in Members(b)
      BY DEF Expired, IInv, LeaseAgreement
    <2>4. w \in Members(b) => attempts[b][w].status # "NONE"
      BY DEF IInv, RowsMatchMembership
    <2> QED BY <2>1, <2>2, <2>3, <2>4 DEF AttemptRow
  <1> QED BY <1>2, <1>3, <1>4, <1>5

\* recover expires a batch together with all its works, though it selects them apart.
LEMMA RecoverIInv ==
    ASSUME IInv, NEW now \in Nat, Recover(now)
    PROVE  IInv'
  <1>1. TypeOK /\ TypeOK'
    BY RecoverType DEF IInv
  <1>2. \A w \in Expired(now) : w \in Work
    BY DEF Expired, Status
  <1>3. RowsMatchMembership'
    <2>1. \A w \in Work : work'[w].status = "ABSENT" => work'[w] = work[w]
      BY RecoverRows
    <2>2. \A b \in Batch :
              /\ batches'[b].members = batches[b].members
              /\ batches'[b].status = "NONE" <=> batches[b].status = "NONE"
      BY RecoverRows DEF BatchExpired, Active
    <2>3. \A b \in Batch, w \in Work :
              /\ attempts'[b][w].status = "NONE" <=> attempts[b][w].status = "NONE"
              /\ attempts'[b][w].status \in {"NONE", "LEASED"} => attempts'[b][w] = attempts[b][w]
      BY RecoverRows
    <2> QED BY <2>1, <2>2, <2>3, MembershipKept
  \* The two selections agree: a work is expired exactly when its batch is.
  <1>4. ASSUME NEW b \in Batch, Active(b), NEW w \in Members(b)
        PROVE  /\ w \in Work /\ work[w].lease = b
               /\ w \in Expired(now) <=> BatchExpired(b, now)
    BY <1>1, <1>4 DEF IInv, LeaseAgreement, HoldsFence, Expired, BatchExpired, Status,
                      TypeOK, BatchRow, Members
  <1>5. LeaseAgreement'
    <2>1. ASSUME NEW b \in Batch PROVE BatchAgrees(b)'
      <3>1. CASE ~Active(b) \/ BatchExpired(b, now)
        <4>1. ~Active(b)'
          BY <3>1, RecoverRows DEF BatchExpired, Active
        <4> QED BY <4>1 DEF BatchAgrees
      <3>2. CASE Active(b) /\ ~BatchExpired(b, now)
        <4>1. \A w \in Members(b) : w \in Work /\ w \notin Expired(now)
          BY <1>4, <3>2
        <4>2. \A w \in Members(b) : work'[w] = work[w] /\ attempts'[b][w] = attempts[b][w]
          BY <4>1, RecoverRows
        <4>3. batches'[b] = batches[b]
          BY <3>2, RecoverRows
        <4>4. BatchAgrees(b)
          BY LeaseAgreementParts DEF IInv
        <4> QED BY <3>2, <4>2, <4>3, <4>4 DEF BatchAgrees, HoldsFence, Members, Active
      <3> QED BY <3>1, <3>2
    <2>2. ASSUME NEW w \in Work PROVE LeaseIsBacked(w)'
      <3>1. CASE w \in Expired(now)
        BY <3>1, RecoverRows DEF LeaseIsBacked
      <3>2. CASE w \notin Expired(now)
        <4>1. work'[w] = work[w] /\ LeaseIsBacked(w)
          BY <3>2, RecoverRows, LeaseAgreementParts DEF IInv
        <4>2. ASSUME work[w].status = "LEASED" PROVE batches'[work[w].lease] = batches[work[w].lease]
          BY <4>1, <4>2, <3>2, <1>4, RecoverRows DEF LeaseIsBacked
        <4> QED BY <4>1, <4>2 DEF LeaseIsBacked, Active, Members
      <3> QED BY <3>1, <3>2
    <2> QED BY <2>1, <2>2, LeaseAgreementPartsNext
  <1>6. FencesAreUnique'
    <2>1. \A w \in Work : work'[w].fence = work[w].fence
      BY RecoverRows
    <2>2. \A b \in Batch, w \in Work :
              /\ attempts'[b][w].fence = attempts[b][w].fence
              /\ attempts'[b][w].status = "NONE" <=> attempts[b][w].status = "NONE"
      BY RecoverRows
    <2> QED BY <2>1, <2>2, OneBatchFences
  <1> QED BY <1>1, <1>3, <1>5, <1>6 DEF IInv

\* An operation reads a natural number from the clock.
LEMMA ReadClockIsTime ==
    ASSUME TypeOK
    PROVE  ReadClock \subseteq Nat
  BY DEF ReadClock, TypeOK

\* Every operation, whoever calls it and however late, keeps the invariant.
LEMMA NextIInv == IInv /\ [Next]_vars => IInv'
  <1> SUFFICES ASSUME IInv, [Next]_vars PROVE IInv'
    OBVIOUS
  <1>1. ReadClock \subseteq Nat /\ 0..MaxTime \subseteq Nat /\ 1..MaxExtra \subseteq Nat
        /\ Available \subseteq Nat
    BY ReadClockIsTime, ControlStoreAssumption DEF IInv
  <1>2. ASSUME NEW S \in SUBSET Work, NEW now \in ReadClock, NEW request \in [S -> Content],
               NEW at \in [S -> Available \cup {now}], RegisterMany(S, request, at, now)
        PROVE  IInv'
    <2>1. now \in Nat /\ at \in [S -> Nat]
      BY <1>1
    <2> QED BY <1>2, <2>1, RegisterIInv
  <1>3. ASSUME NEW b \in Batch, NEW now \in ReadClock, NEW call \in ClaimCall,
               Claim(b, call, now)
        PROVE  IInv'
    BY <1>1, <1>3, ClaimIInv
  <1>4. ASSUME NEW b \in Batch, NEW now \in ReadClock, Heartbeat(b, now)
        PROVE  IInv'
    BY <1>1, <1>4, HeartbeatIInv
  <1>5. ASSUME NEW b \in Batch, NEW now \in ReadClock, NEW result \in Results(b),
               Seal(b, result, now)
        PROVE  IInv'
    BY <1>1, <1>5, SealIInv
  <1>6. ASSUME NEW b \in Batch, NEW now \in ReadClock, Commit(b, now)
        PROVE  IInv'
    BY <1>1, <1>6, CommitIInv
  <1>7. ASSUME NEW now \in 0..MaxTime, Recover(now)
        PROVE  IInv'
    BY <1>1, <1>7, RecoverIInv
  <1>8. ASSUME NEW w \in Work, NEW operator \in Operator, NEW extra \in 1..MaxExtra,
               NEW now \in ReadClock, Replay(w, operator, extra, now)
        PROVE  IInv'
    BY <1>1, <1>8, ReplayIInv
  <1>9. ASSUME NEW S \in SUBSET Work, NEW operator \in Operator, NEW now \in ReadClock,
               NEW expected \in [S -> {c.release : c \in Content}],
               Quarantine(expected, operator, now)
        PROVE  IInv'
    BY <1>1, <1>9, QuarantineIInv
  <1>10. CASE Tick
    BY <1>10, TickIInv
  <1>11. CASE UNCHANGED vars
    <2>1. TypeOK'
      BY <1>11 DEF IInv, TypeOK, vars
    <2> QED BY <1>11, <2>1, UnleasedWorkOnly DEF vars
  <1> QED BY <1>2, <1>3, <1>4, <1>5, <1>6, <1>7, <1>8, <1>9, <1>10, <1>11 DEF Next

-----------------------------------------------------------------------------
(* Theorems *)

\* The inductive invariant holds in every reachable state.
THEOREM Invariance == Spec => []IInv
  <1>1. Init => IInv
    BY InitIInv
  <1>2. IInv /\ [Next]_vars => IInv'
    BY NextIInv
  <1> QED BY <1>1, <1>2, PTL DEF Spec

\* Every row keeps the shape the schema of bootstrap gives it.
THEOREM TypeCorrect == Spec => []TypeOK
  <1>1. IInv => TypeOK
    BY DEF IInv
  <1> QED BY <1>1, Invariance, PTL

\* Work, attempts and batches always agree on who holds which lease until
\* when, although recover, heartbeat_process and commit_batch each select rows
\* by the columns of a different table.
THEOREM LeasesAgree == Spec => []LeaseAgreement
  <1>1. IInv => LeaseAgreement
    BY DEF IInv
  <1> QED BY <1>1, Invariance, PTL

\* No two attempts of a work ever share a fence, however often the work was
\* claimed, recovered, replayed or quarantined.
THEOREM FencesUnique == Spec => []FencesAreUnique
  <1>1. IInv => FencesAreUnique
    BY DEF IInv
  <1> QED BY <1>1, Invariance, PTL
=============================================================================
