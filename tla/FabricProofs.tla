---------------------------- MODULE FabricProofs ----------------------------
(***************************************************************************)
(* Proofs about FabricControlStore: however many of its operations stop    *)
(* between two of their writes, the tables stay sound and what is finished *)
(* stays finished, for any works, batches, outputs, operators and claim    *)
(* arguments.                                                              *)
(***************************************************************************)
EXTENDS FabricControlStore, ControlStoreProofs

(* The writes of an operation *)

\* Before its first write an operation has changed nothing.
LEMMA NothingWritten ==
    ASSUME NEW order, NEW new, NEW t \in TableName
    PROVE  Partly(Current, order, new, 0)[t] = Current[t]
  BY DEF Partly

\* A row that is finished in the old tables is so in any mix of the old and the
\* new ones.
LEMMA MixKeepsFinished ==
    ASSUME NEW old, NEW new, NEW mid, FinishedKept(old, new),
           mid.attempts \in {old.attempts, new.attempts},
           mid.batches \in {old.batches, new.batches},
           mid.publications \in {old.publications, new.publications},
           mid.work \in {old.work, new.work}
    PROVE  FinishedKept(old, mid) /\ FinishedKept(mid, new)
  BY DEF FinishedKept

\* An operation that leaves sound tables wherever it stops, and finished rows
\* alone, keeps the invariant when it starts.
LEMMA RunKeeps ==
    ASSUME clock \in Nat, NEW order \in Seq(TableName), NEW new, Run(order, new),
           \A k \in 0..Len(order) :
              LET T == Partly(Current, order, new, k)
              IN  Sound(T.work, T.batches, T.attempts, T.publications),
           FinishedKept(Current, new)
    PROVE  FInv'
  <1>1. clock' = clock /\ pending' = order /\ next' = new /\ Current' = Current
    BY DEF Run, vars, Current
  <1> QED BY <1>1 DEF FInv

\* Each write of an operation under way takes it one step on.
LEMMA ReplaceKeeps ==
    ASSUME FInv, Replace
    PROVE  FInv' /\ FinishedKept(Current, Current')
  <1> DEFINE t == Head(pending)
             now == [Current EXCEPT ![t] = next[t]]
  <1>1. /\ pending # <<>> /\ pending \in Seq(TableName) /\ t \in TableName
        /\ pending' = Tail(pending) /\ pending' \in Seq(TableName)
        /\ Len(pending') = Len(pending) - 1 /\ Len(pending) \in Nat \ {0}
    BY DEF Replace, FInv
  <1>2. /\ work' = now.work /\ batches' = now.batches /\ attempts' = now.attempts
        /\ publications' = now.publications /\ replays' = now.replays
        /\ clock' = clock
        /\ next' = IF Tail(pending) = <<>> THEN now ELSE next
    BY DEF Replace
  <1>3. \A u \in TableName : now[u] = IF u = t THEN next[u] ELSE Current[u]
    BY <1>1 DEF Current, TableName
  <1>4. Current' = now
    BY <1>1, <1>2 DEF Current, TableName
  <1>5. FinishedKept(Current, now) /\ FinishedKept(now, next)
    <2>1. /\ now.attempts \in {Current.attempts, next.attempts}
          /\ now.batches \in {Current.batches, next.batches}
          /\ now.publications \in {Current.publications, next.publications}
          /\ now.work \in {Current.work, next.work}
      BY <1>3 DEF TableName
    <2>2. FinishedKept(Current, next)
      BY DEF FInv
    <2> HIDE DEF now
    <2> QED BY <2>1, <2>2, MixKeepsFinished
  <1> HIDE DEF now, t
  <1>6. FinishedKept(now, now)
    BY DEF FinishedKept
  <1>7. ASSUME NEW k \in 0..Len(pending'), NEW u \in TableName
        PROVE  Partly(now, pending', next', k)[u] = Partly(Current, pending, next, k + 1)[u]
    <2>1. Partly(now, pending', next', k)[u] =
             IF \E i \in 1..k : pending'[i] = u THEN next'[u] ELSE now[u]
      BY <1>4, <1>7 DEF Partly
    <2>2. Partly(Current, pending, next, k + 1)[u] =
             IF \E i \in 1..k + 1 : pending[i] = u THEN next[u] ELSE Current[u]
      BY <1>7 DEF Partly
    <2>3. (\E i \in 1..k + 1 : pending[i] = u) <=> u = t \/ \E i \in 1..k : pending'[i] = u
      <3>1. \A i \in 1..k : pending'[i] = pending[i + 1]
        BY <1>1, <1>7
      <3>2. t = pending[1]
        BY <1>1 DEF t
      <3>3. \A i \in 1..k + 1 : i = 1 \/ i - 1 \in 1..k
        BY <1>7
      <3>4. \A i \in 1..k : i + 1 \in 1..k + 1
        BY <1>7
      <3>5. 1 \in 1..k + 1
        BY <1>7
      <3>6. ASSUME NEW i \in 1..k + 1, pending[i] = u
            PROVE  u = t \/ \E j \in 1..k : pending'[j] = u
        <4>1. CASE i = 1
          BY <3>2, <3>6, <4>1
        <4>2. CASE i # 1
          <5>1. i - 1 \in 1..k /\ i = (i - 1) + 1
            BY <3>3, <4>2
          <5>2. pending'[i - 1] = pending[i]
            BY <3>1, <5>1
          <5> QED BY <3>6, <5>1, <5>2
        <4> QED BY <4>1, <4>2
      <3> QED BY <3>1, <3>2, <3>4, <3>5, <3>6
    <2>4. CASE Tail(pending) = <<>>
      <3>0. Len(pending') = 0
        BY <1>1, <2>4
      <3>1. k = 0 /\ next' = now
        BY <1>2, <1>7, <2>4, <3>0
      <3> QED BY <1>3, <2>1, <2>2, <2>3, <3>1, <1>7 DEF now
    <2>5. CASE Tail(pending) # <<>>
      <3>1. next' = next
        BY <1>2, <2>5
      <3> QED BY <1>3, <2>1, <2>2, <2>3, <3>1, <1>7 DEF now
    <2> QED BY <2>4, <2>5
  <1>8. ASSUME NEW k \in 0..Len(pending')
        PROVE  (LET T == Partly(Current, pending, next, k)
                IN  Sound(T.work, T.batches, T.attempts, T.publications))'
    <2> DEFINE U == Partly(Current, pending, next, k + 1)
    <2>1. k + 1 \in 0..Len(pending)
      BY <1>1, <1>8
    <2>2. Sound(U.work, U.batches, U.attempts, U.publications)
      BY <2>1 DEF FInv
    <2>3. /\ Partly(now, pending', next', k).work = U.work
          /\ Partly(now, pending', next', k).batches = U.batches
          /\ Partly(now, pending', next', k).attempts = U.attempts
          /\ Partly(now, pending', next', k).publications = U.publications
      BY <1>7, <1>8 DEF TableName
    <2> HIDE DEF U
    <2> QED BY <1>4, <2>2, <2>3
  <1>9. FinishedKept(Current, next)'
    BY <1>2, <1>4, <1>5, <1>6
  <1> QED BY <1>1, <1>2, <1>4, <1>5, <1>8, <1>9 DEF FInv


-----------------------------------------------------------------------------
(* What an operation may do to one table *)

\* A row of work: a fence is never lowered, only a new fence makes it leased,
\* and only a replay takes a success back.
WorkMoves(old, new) ==
    \A w \in Work :
        \/ new[w] = old[w]
        \/ /\ new[w].status # "ABSENT"
           /\ new[w].fence >= old[w].fence
           /\ new[w].status = "LEASED" => old[w].status = "LEASED" \/ new[w].fence > old[w].fence
           /\ \/ new[w].generation = old[w].generation /\ old[w].status # "SUCCEEDED"
              \/ new[w].generation = old[w].generation + 1

\* A batch: the finished ones stay.
BatchesMove(old, new) ==
    \A b \in Batch : new[b] = old[b] \/ old[b].status \notin {"COMMITTED", "EXPIRED"}

\* An attempt: the finished ones stay, the others keep their fences.
AttemptsMove(old, new) ==
    \A b \in Batch, w \in Work :
        \/ new[b][w] = old[b][w]
        \/ /\ old[b][w].status \notin {"SUCCEEDED", "FAILED", "EXPIRED"}
           /\ new[b][w].status = "NONE" <=> old[b][w].status = "NONE"
           /\ new[b][w].fence = old[b][w].fence
           /\ new[b][w].status = "SEALED" => new[b][w].output # None

\* Overwriting work leaves the tables sound.
LEMMA WorkWritten ==
    ASSUME NEW W, NEW B, NEW A, NEW P, Sound(W, B, A, P),
           NEW new \in [Work -> WorkRow], WorkMoves(W, new)
    PROVE  Sound(new, B, A, P)
  <1>1. \A w \in Work : /\ W[w].fence \in Nat /\ W[w].generation \in Nat
                        /\ new[w].fence \in Nat /\ new[w].generation \in Nat
    BY DEF Sound, TablesOK, WorkRow
  <1>2. TablesOK(new, B, A, P)
    BY DEF Sound, TablesOK
  <1>3. ASSUME NEW w \in Work
        PROVE  /\ new[w].status = "ABSENT" => new[w].fence = 0
               /\ \A b \in Batch : A[b][w].status # "NONE" =>
                     /\ A[b][w].fence \in 1..new[w].fence
                     /\ A[b][w].status = "EXPIRED" /\ A[b][w].fence = new[w].fence =>
                           new[w].status # "LEASED"
    <2>1. new[w] = W[w] \/ new[w].fence >= W[w].fence
      BY <1>3 DEF WorkMoves
    <2>2. new[w].status = "ABSENT" => new[w] = W[w]
      BY <1>3 DEF WorkMoves
    <2>3. new[w].status = "LEASED" => W[w].status = "LEASED" \/ new[w].fence > W[w].fence
      BY <1>3 DEF WorkMoves
    <2>4. W[w].status = "ABSENT" => W[w].fence = 0
      BY <1>3 DEF Sound, Fenced
    <2>5. ASSUME NEW b \in Batch, A[b][w].status # "NONE"
          PROVE  /\ A[b][w].fence \in 1..new[w].fence
                 /\ A[b][w].status = "EXPIRED" /\ A[b][w].fence = new[w].fence =>
                       new[w].status # "LEASED"
      <3>1. /\ A[b][w].fence \in 1..W[w].fence
            /\ A[b][w].status = "EXPIRED" /\ A[b][w].fence = W[w].fence => W[w].status # "LEASED"
        BY <1>3, <2>5 DEF Sound, Fenced
      <3> QED BY <1>1, <1>3, <2>1, <2>3, <3>1
    <2> QED BY <2>2, <2>4, <2>5
  <1>4. Fenced(new, A)
    BY <1>3 DEF Sound, Fenced
  <1>5. ASSUME NEW w \in Work
        PROVE  /\ new[w].status = "ABSENT" => new[w].generation = 0
               /\ Cardinality({p \in P : p.work = w}) <=
                     new[w].generation + (IF new[w].status = "SUCCEEDED" THEN 1 ELSE 0)
    <2> DEFINE n == Cardinality({p \in P : p.work = w})
    <2>1. n \in Nat
      BY <1>5, FS_CardinalityType DEF Sound, TablesOK
    <2>2. /\ W[w].status = "ABSENT" => W[w].generation = 0
          /\ n <= W[w].generation + (IF W[w].status = "SUCCEEDED" THEN 1 ELSE 0)
      BY <1>5 DEF Sound, Counted
    <2>3. \/ new[w] = W[w]
          \/ /\ new[w].status # "ABSENT"
             /\ \/ new[w].generation = W[w].generation /\ W[w].status # "SUCCEEDED"
                \/ new[w].generation = W[w].generation + 1
      BY <1>5 DEF WorkMoves
    <2> HIDE DEF n
    <2>4. /\ new[w].status = "ABSENT" => new[w].generation = 0
          /\ n <= new[w].generation + (IF new[w].status = "SUCCEEDED" THEN 1 ELSE 0)
      BY <1>1, <1>5, <2>1, <2>2, <2>3
    <2> QED BY <2>4 DEF n
  <1>6. Counted(new, P)
    BY <1>5 DEF Counted
  <1> QED BY <1>2, <1>4, <1>6 DEF Sound

\* Overwriting batches leaves the tables sound.
LEMMA BatchesWritten ==
    ASSUME NEW W, NEW B, NEW A, NEW P, Sound(W, B, A, P),
           NEW new \in [Batch -> BatchRow], BatchesMove(B, new)
    PROVE  Sound(W, new, A, P)
  <1>1. \A b \in Batch : B[b].status = "COMMITTED" => new[b].status = "COMMITTED"
    BY DEF BatchesMove
  <1> QED BY <1>1 DEF Sound, TablesOK, Settled

\* Overwriting attempts leaves the tables sound if what expires is not leased
\* any more and what is finished belongs to a committed batch.
LEMMA AttemptsWritten ==
    ASSUME NEW W, NEW B, NEW A, NEW P, Sound(W, B, A, P),
           NEW new \in [Batch -> [Work -> AttemptRow]], AttemptsMove(A, new),
           \A b \in Batch, w \in Work :
              \/ new[b][w] = A[b][w]
              \/ /\ new[b][w].status = "EXPIRED" =>
                       W[w].status # "LEASED" \/ W[w].fence # A[b][w].fence
                 /\ new[b][w].status \in {"SUCCEEDED", "FAILED"} => B[b].status = "COMMITTED"
    PROVE  Sound(W, B, new, P)
  <1>1. TablesOK(W, B, new, P)
    BY DEF Sound, TablesOK
  <1>2. \A b \in Batch, w \in Work :
           /\ new[b][w].status # "NONE" <=> A[b][w].status # "NONE"
           /\ new[b][w].status # "NONE" => new[b][w].fence = A[b][w].fence
    BY DEF AttemptsMove
  <1>3. \A b \in Batch, w \in Work :
           new[b][w].status = "EXPIRED" /\ new[b][w].fence = W[w].fence => W[w].status # "LEASED"
    <2>1. ASSUME NEW b \in Batch, NEW w \in Work, new[b][w].status = "EXPIRED",
                 new[b][w].fence = W[w].fence
          PROVE  W[w].status # "LEASED"
      <3>1. CASE new[b][w] = A[b][w]
        BY <2>1, <3>1 DEF Sound, Fenced
      <3>2. CASE new[b][w] # A[b][w]
        BY <1>2, <2>1, <3>2
      <3> QED BY <3>1, <3>2
    <2> QED BY <2>1
  <1>4. Fenced(W, new)
    BY <1>2, <1>3 DEF Sound, Fenced
  <1>5. Settled(B, new)
    BY DEF Sound, Settled, AttemptsMove
  <1>6. Published(new, P)
    <2>1. ASSUME NEW p \in P PROVE new[p.batch][p.work] = A[p.batch][p.work]
      <3>1. p.batch \in Batch /\ p.work \in Work
        BY <2>1 DEF Sound, TablesOK, Publication
      <3>2. A[p.batch][p.work].status = "SUCCEEDED"
        BY <2>1 DEF Sound, Published
      <3> QED BY <3>1, <3>2 DEF AttemptsMove
    <2> QED BY <2>1 DEF Sound, Published
  <1> QED BY <1>1, <1>4, <1>5, <1>6 DEF Sound

\* An operation that moves the rows so leaves what is finished alone.
LEMMA MovesKeepFinished ==
    ASSUME NEW new, WorkMoves(work, new.work), BatchesMove(batches, new.batches),
           \A b \in Batch, w \in Work :
              attempts[b][w].status \in {"SUCCEEDED", "FAILED", "EXPIRED"} =>
                 new.attempts[b][w] = attempts[b][w],
           publications \subseteq new.publications
    PROVE  FinishedKept(Current, new)
  <1>1. /\ Current.work = work /\ Current.batches = batches /\ Current.attempts = attempts
        /\ Current.publications = publications
    BY DEF Current
  <1>2. \A w \in Work : work[w].status = "SUCCEEDED" =>
           \/ new.work[w] = work[w]
           \/ new.work[w].generation = work[w].generation + 1
    BY DEF WorkMoves
  <1>3. \A b \in Batch : batches[b].status \in {"COMMITTED", "EXPIRED"} =>
           new.batches[b] = batches[b]
    BY DEF BatchesMove
  <1> QED BY <1>1, <1>2, <1>3 DEF FinishedKept


-----------------------------------------------------------------------------
(* The orders in which the operations write *)

\* register_many and quarantine.
LEMMA WriteWork ==
    ASSUME clock \in Nat, NEW new, Run(<<"work">>, new),
           Sound(work, batches, attempts, publications),
           Sound(new.work, batches, attempts, publications),
           FinishedKept(Current, new)
    PROVE  FInv'
  <1> DEFINE order == <<"work">>
             T(k) == Partly(Current, order, new, k)
  <1>1. order \in Seq(TableName) /\ Len(order) = 1
    BY DEF TableName
  <1>2. /\ T(0).work = work
        /\ T(0).batches = batches
        /\ T(0).attempts = attempts
        /\ T(0).publications = publications
    BY DEF Partly, Current, TableName
  <1>3. /\ T(1).work = new.work
        /\ T(1).batches = batches
        /\ T(1).attempts = attempts
        /\ T(1).publications = publications
    BY DEF Partly, Current, TableName
  <1> HIDE DEF T
  <1>4. ASSUME NEW k \in 0..Len(order)
        PROVE  Sound(T(k).work, T(k).batches, T(k).attempts, T(k).publications)
    <2>1. k = 0 \/ k = 1
      BY <1>1, <1>4
    <2> QED BY <1>2, <1>3, <2>1
  <1> QED BY <1>1, <1>4, RunKeeps DEF T

\* replay.
LEMMA WriteReplay ==
    ASSUME clock \in Nat, NEW new, Run(<<"work", "replays">>, new),
           Sound(work, batches, attempts, publications),
           Sound(new.work, batches, attempts, publications),
           FinishedKept(Current, new)
    PROVE  FInv'
  <1> DEFINE order == <<"work", "replays">>
             T(k) == Partly(Current, order, new, k)
  <1>1. order \in Seq(TableName) /\ Len(order) = 2
    BY DEF TableName
  <1>2. /\ T(0).work = work
        /\ T(0).batches = batches
        /\ T(0).attempts = attempts
        /\ T(0).publications = publications
    BY DEF Partly, Current, TableName
  <1>3. /\ T(1).work = new.work
        /\ T(1).batches = batches
        /\ T(1).attempts = attempts
        /\ T(1).publications = publications
    BY DEF Partly, Current, TableName
  <1>4. /\ T(2).work = new.work
        /\ T(2).batches = batches
        /\ T(2).attempts = attempts
        /\ T(2).publications = publications
    BY DEF Partly, Current, TableName
  <1> HIDE DEF T
  <1>5. ASSUME NEW k \in 0..Len(order)
        PROVE  Sound(T(k).work, T(k).batches, T(k).attempts, T(k).publications)
    <2>1. k = 0 \/ k = 1 \/ k = 2
      BY <1>1, <1>5
    <2> QED BY <1>2, <1>3, <1>4, <2>1
  <1> QED BY <1>1, <1>5, RunKeeps DEF T

\* claim and recover_exact.
LEMMA WriteClaim ==
    ASSUME clock \in Nat, NEW new, Run(<<"work", "batches", "attempts">>, new),
           Sound(work, batches, attempts, publications),
           Sound(new.work, batches, attempts, publications),
           Sound(new.work, new.batches, attempts, publications),
           Sound(new.work, new.batches, new.attempts, publications),
           FinishedKept(Current, new)
    PROVE  FInv'
  <1> DEFINE order == <<"work", "batches", "attempts">>
             T(k) == Partly(Current, order, new, k)
  <1>1. order \in Seq(TableName) /\ Len(order) = 3
    BY DEF TableName
  <1>2. /\ T(0).work = work
        /\ T(0).batches = batches
        /\ T(0).attempts = attempts
        /\ T(0).publications = publications
    BY DEF Partly, Current, TableName
  <1>3. /\ T(1).work = new.work
        /\ T(1).batches = batches
        /\ T(1).attempts = attempts
        /\ T(1).publications = publications
    BY DEF Partly, Current, TableName
  <1>4. /\ T(2).work = new.work
        /\ T(2).batches = new.batches
        /\ T(2).attempts = attempts
        /\ T(2).publications = publications
    BY DEF Partly, Current, TableName
  <1>5. /\ T(3).work = new.work
        /\ T(3).batches = new.batches
        /\ T(3).attempts = new.attempts
        /\ T(3).publications = publications
    BY DEF Partly, Current, TableName
  <1> HIDE DEF T
  <1>6. ASSUME NEW k \in 0..Len(order)
        PROVE  Sound(T(k).work, T(k).batches, T(k).attempts, T(k).publications)
    <2>1. k = 0 \/ k = 1 \/ k = 2 \/ k = 3
      BY <1>1, <1>6
    <2> QED BY <1>2, <1>3, <1>4, <1>5, <2>1
  <1> QED BY <1>1, <1>6, RunKeeps DEF T

\* heartbeat_process.
LEMMA WriteHeartbeat ==
    ASSUME clock \in Nat, NEW new, Run(<<"batches", "attempts", "work">>, new),
           Sound(work, batches, attempts, publications),
           Sound(work, new.batches, attempts, publications),
           Sound(work, new.batches, new.attempts, publications),
           Sound(new.work, new.batches, new.attempts, publications),
           FinishedKept(Current, new)
    PROVE  FInv'
  <1> DEFINE order == <<"batches", "attempts", "work">>
             T(k) == Partly(Current, order, new, k)
  <1>1. order \in Seq(TableName) /\ Len(order) = 3
    BY DEF TableName
  <1>2. /\ T(0).work = work
        /\ T(0).batches = batches
        /\ T(0).attempts = attempts
        /\ T(0).publications = publications
    BY DEF Partly, Current, TableName
  <1>3. /\ T(1).work = work
        /\ T(1).batches = new.batches
        /\ T(1).attempts = attempts
        /\ T(1).publications = publications
    BY DEF Partly, Current, TableName
  <1>4. /\ T(2).work = work
        /\ T(2).batches = new.batches
        /\ T(2).attempts = new.attempts
        /\ T(2).publications = publications
    BY DEF Partly, Current, TableName
  <1>5. /\ T(3).work = new.work
        /\ T(3).batches = new.batches
        /\ T(3).attempts = new.attempts
        /\ T(3).publications = publications
    BY DEF Partly, Current, TableName
  <1> HIDE DEF T
  <1>6. ASSUME NEW k \in 0..Len(order)
        PROVE  Sound(T(k).work, T(k).batches, T(k).attempts, T(k).publications)
    <2>1. k = 0 \/ k = 1 \/ k = 2 \/ k = 3
      BY <1>1, <1>6
    <2> QED BY <1>2, <1>3, <1>4, <1>5, <2>1
  <1> QED BY <1>1, <1>6, RunKeeps DEF T

\* seal_batch.
LEMMA WriteSeal ==
    ASSUME clock \in Nat, NEW new, Run(<<"batches", "attempts">>, new),
           Sound(work, batches, attempts, publications),
           Sound(work, new.batches, attempts, publications),
           Sound(work, new.batches, new.attempts, publications),
           FinishedKept(Current, new)
    PROVE  FInv'
  <1> DEFINE order == <<"batches", "attempts">>
             T(k) == Partly(Current, order, new, k)
  <1>1. order \in Seq(TableName) /\ Len(order) = 2
    BY DEF TableName
  <1>2. /\ T(0).work = work
        /\ T(0).batches = batches
        /\ T(0).attempts = attempts
        /\ T(0).publications = publications
    BY DEF Partly, Current, TableName
  <1>3. /\ T(1).work = work
        /\ T(1).batches = new.batches
        /\ T(1).attempts = attempts
        /\ T(1).publications = publications
    BY DEF Partly, Current, TableName
  <1>4. /\ T(2).work = work
        /\ T(2).batches = new.batches
        /\ T(2).attempts = new.attempts
        /\ T(2).publications = publications
    BY DEF Partly, Current, TableName
  <1> HIDE DEF T
  <1>5. ASSUME NEW k \in 0..Len(order)
        PROVE  Sound(T(k).work, T(k).batches, T(k).attempts, T(k).publications)
    <2>1. k = 0 \/ k = 1 \/ k = 2
      BY <1>1, <1>5
    <2> QED BY <1>2, <1>3, <1>4, <2>1
  <1> QED BY <1>1, <1>5, RunKeeps DEF T

\* commit_batch.
LEMMA WriteCommit ==
    ASSUME clock \in Nat, NEW new, Run(<<"batches", "attempts", "work", "publications">>, new),
           Sound(work, batches, attempts, publications),
           Sound(work, new.batches, attempts, publications),
           Sound(work, new.batches, new.attempts, publications),
           Sound(new.work, new.batches, new.attempts, publications),
           Sound(new.work, new.batches, new.attempts, new.publications),
           FinishedKept(Current, new)
    PROVE  FInv'
  <1> DEFINE order == <<"batches", "attempts", "work", "publications">>
             T(k) == Partly(Current, order, new, k)
  <1>1. order \in Seq(TableName) /\ Len(order) = 4
    BY DEF TableName
  <1>2. /\ T(0).work = work
        /\ T(0).batches = batches
        /\ T(0).attempts = attempts
        /\ T(0).publications = publications
    BY DEF Partly, Current, TableName
  <1>3. /\ T(1).work = work
        /\ T(1).batches = new.batches
        /\ T(1).attempts = attempts
        /\ T(1).publications = publications
    BY DEF Partly, Current, TableName
  <1>4. /\ T(2).work = work
        /\ T(2).batches = new.batches
        /\ T(2).attempts = new.attempts
        /\ T(2).publications = publications
    BY DEF Partly, Current, TableName
  <1>5. /\ T(3).work = new.work
        /\ T(3).batches = new.batches
        /\ T(3).attempts = new.attempts
        /\ T(3).publications = publications
    BY DEF Partly, Current, TableName
  <1>6. /\ T(4).work = new.work
        /\ T(4).batches = new.batches
        /\ T(4).attempts = new.attempts
        /\ T(4).publications = new.publications
    BY DEF Partly, Current, TableName
  <1> HIDE DEF T
  <1>7. ASSUME NEW k \in 0..Len(order)
        PROVE  Sound(T(k).work, T(k).batches, T(k).attempts, T(k).publications)
    <2>1. k = 0 \/ k = 1 \/ k = 2 \/ k = 3 \/ k = 4
      BY <1>1, <1>7
    <2> QED BY <1>2, <1>3, <1>4, <1>5, <1>6, <2>1
  <1> QED BY <1>1, <1>7, RunKeeps DEF T

\* abandon_failed_claim and recover.
LEMMA WriteRecovery ==
    ASSUME clock \in Nat, NEW new, Run(<<"work", "attempts", "batches">>, new),
           Sound(work, batches, attempts, publications),
           Sound(new.work, batches, attempts, publications),
           Sound(new.work, batches, new.attempts, publications),
           Sound(new.work, new.batches, new.attempts, publications),
           FinishedKept(Current, new)
    PROVE  FInv'
  <1> DEFINE order == <<"work", "attempts", "batches">>
             T(k) == Partly(Current, order, new, k)
  <1>1. order \in Seq(TableName) /\ Len(order) = 3
    BY DEF TableName
  <1>2. /\ T(0).work = work
        /\ T(0).batches = batches
        /\ T(0).attempts = attempts
        /\ T(0).publications = publications
    BY DEF Partly, Current, TableName
  <1>3. /\ T(1).work = new.work
        /\ T(1).batches = batches
        /\ T(1).attempts = attempts
        /\ T(1).publications = publications
    BY DEF Partly, Current, TableName
  <1>4. /\ T(2).work = new.work
        /\ T(2).batches = batches
        /\ T(2).attempts = new.attempts
        /\ T(2).publications = publications
    BY DEF Partly, Current, TableName
  <1>5. /\ T(3).work = new.work
        /\ T(3).batches = new.batches
        /\ T(3).attempts = new.attempts
        /\ T(3).publications = publications
    BY DEF Partly, Current, TableName
  <1> HIDE DEF T
  <1>6. ASSUME NEW k \in 0..Len(order)
        PROVE  Sound(T(k).work, T(k).batches, T(k).attempts, T(k).publications)
    <2>1. k = 0 \/ k = 1 \/ k = 2 \/ k = 3
      BY <1>1, <1>6
    <2> QED BY <1>2, <1>3, <1>4, <1>5, <2>1
  <1> QED BY <1>1, <1>6, RunKeeps DEF T


-----------------------------------------------------------------------------
(* The operations *)

\* The tables as they are between two operations.
LEMMA TablesNow ==
    ASSUME FInv
    PROVE  /\ clock \in Nat
           /\ Sound(work, batches, attempts, publications)
           /\ \A w \in Work : work[w] \in WorkRow
           /\ \A b \in Batch : batches[b] \in BatchRow /\ Members(b) \subseteq Work
           /\ \A b \in Batch, w \in Work : attempts[b][w] \in AttemptRow
  <1> DEFINE T == Partly(Current, pending, next, 0)
  <1>1. 0 \in 0..Len(pending)
    BY DEF FInv
  <1>2. Sound(T.work, T.batches, T.attempts, T.publications)
    BY <1>1 DEF FInv
  <1>3. /\ T.work = work /\ T.batches = batches /\ T.attempts = attempts
        /\ T.publications = publications
    BY DEF Partly, Current, TableName
  <1> HIDE DEF T
  <1>4. Sound(work, batches, attempts, publications)
    BY <1>2, <1>3
  <1>5. TablesOK(work, batches, attempts, publications)
    BY <1>4 DEF Sound
  <1> QED BY <1>4, <1>5 DEF FInv, TablesOK, BatchRow, Members

\* register_many adds rows that no attempt and no publication refers to.
LEMMA RegisterKeeps ==
    ASSUME FInv, NEW S \in SUBSET Work, NEW now \in Nat, NEW request \in [S -> Content],
           FRegister(S, request, now)
    PROVE  FInv'
  <1> DEFINE W == WorkWith([w \in S \cap Status("ABSENT") |-> Registered(request[w], now, now)])
             new == [Current EXCEPT !.work = W]
  <1>1. /\ clock \in Nat /\ Sound(work, batches, attempts, publications)
        /\ \A w \in Work : work[w] \in WorkRow
    BY TablesNow
  <1>2. ASSUME NEW w \in Work
        PROVE  \/ W[w] = work[w]
               \/ /\ w \in S /\ work[w].status = "ABSENT"
                  /\ W[w] = Registered(request[w], now, now)
    BY DEF WorkWith, Status
  <1>3. W \in [Work -> WorkRow]
    <2>1. \A w \in Work : W[w] \in WorkRow
      BY <1>1, <1>2, RegisteredType
    <2> QED BY <2>1 DEF WorkWith
  <1>4. Run(<<"work">>, new)
    BY DEF FRegister
  <1>5. /\ new.work = W /\ new.batches = batches /\ new.attempts = attempts
        /\ new.publications = publications
    BY DEF Current
  <1> HIDE DEF W, new
  <1>6. WorkMoves(work, W)
    <2>1. ASSUME NEW w \in Work, W[w] # work[w]
          PROVE  /\ W[w].status = "READY" /\ W[w].fence = 0 /\ W[w].generation = 0
                 /\ work[w].status = "ABSENT" /\ work[w].fence = 0 /\ work[w].generation = 0
      <3>1. work[w].fence = 0 /\ work[w].generation = 0
        BY <1>1, <1>2, <2>1 DEF Sound, Fenced, Counted
      <3>2. work[w].status = "ABSENT" /\ W[w] = Registered(request[w], now, now)
        BY <1>2, <2>1
      <3> QED BY <3>1, <3>2 DEF Registered, NoWork
    <2>2. 0 >= 0
      OBVIOUS
    <2> QED BY <2>1, <2>2 DEF WorkMoves
  <1>7. Sound(W, batches, attempts, publications)
    BY <1>1, <1>3, <1>6, WorkWritten
  <1>8. FinishedKept(Current, new)
    BY <1>5, <1>6, MovesKeepFinished DEF BatchesMove
  <1> QED BY <1>1, <1>4, <1>5, <1>7, <1>8, WriteWork

\* quarantine only ends READY works.
LEMMA QuarantineKeeps ==
    ASSUME FInv, NEW expected, NEW operator \in Operator, FQuarantine(expected, operator)
    PROVE  FInv'
  <1> DEFINE S == DOMAIN expected
             W == WorkWith([w \in S \cap Status("READY") |->
                     [work[w] EXCEPT !.status = "DEAD", !.available_at = clock,
                                     !.error = operator]])
             new == [Current EXCEPT !.work = W]
  <1>1. /\ clock \in Nat /\ Sound(work, batches, attempts, publications)
        /\ \A w \in Work : work[w] \in WorkRow
    BY TablesNow
  <1>2. ASSUME NEW w \in Work
        PROVE  \/ W[w] = work[w]
               \/ /\ work[w].status = "READY"
                  /\ W[w] = [work[w] EXCEPT !.status = "DEAD", !.available_at = clock,
                                            !.error = operator]
    BY DEF WorkWith, Status
  <1>3. W \in [Work -> WorkRow]
    <2>1. \A w \in Work : [work[w] EXCEPT !.status = "DEAD", !.available_at = clock,
                                          !.error = operator] \in WorkRow
      BY <1>1, WorkRowUpdates, Statuses
    <2>2. \A w \in Work : W[w] \in WorkRow
      BY <1>1, <1>2, <2>1
    <2> QED BY <2>2 DEF WorkWith
  <1>4. Run(<<"work">>, new)
    BY DEF FQuarantine
  <1>5. /\ new.work = W /\ new.batches = batches /\ new.attempts = attempts
        /\ new.publications = publications
    BY DEF Current
  <1> HIDE DEF W, new
  <1>6. WorkMoves(work, W)
    <2>1. ASSUME NEW w \in Work, W[w] # work[w]
          PROVE  /\ W[w].status = "DEAD" /\ W[w].fence = work[w].fence
                 /\ W[w].generation = work[w].generation /\ work[w].status = "READY"
      BY <1>1, <1>2, <2>1 DEF WorkRow
    <2>2. \A w \in Work : work[w].fence \in Nat
      BY <1>1 DEF WorkRow
    <2> QED BY <2>1, <2>2 DEF WorkMoves
  <1>7. Sound(W, batches, attempts, publications)
    BY <1>1, <1>3, <1>6, WorkWritten
  <1>8. FinishedKept(Current, new)
    BY <1>5, <1>6, MovesKeepFinished DEF BatchesMove
  <1> QED BY <1>1, <1>4, <1>5, <1>7, <1>8, WriteWork

\* replay takes a success back and opens a new generation for it.
LEMMA ReplayKeeps ==
    ASSUME FInv, NEW v \in Work, NEW operator \in Operator, NEW extra \in Nat,
           FReplay(v, operator, extra)
    PROVE  FInv'
  <1> DEFINE budget == Max({work[v].max_attempts, work[v].attempt_count + extra})
             g == work[v].generation + 1
             row == [work[v] EXCEPT !.status = "READY", !.max_attempts = budget,
                        !.available_at = clock, !.committed = None, !.seq = 0,
                        !.generation = g]
             W == [work EXCEPT ![v] = row]
             R == replays \cup {[work |-> v, generation |-> work[v].generation + 1,
                                 operator |-> operator, extra |-> extra]}
             new == [Current EXCEPT !.work = W, !.replays = R]
  <1>1. /\ clock \in Nat /\ Sound(work, batches, attempts, publications)
        /\ work \in [Work -> WorkRow]
    BY TablesNow DEF Sound, TablesOK
  <1>2. budget \in Nat
    <2> DEFINE m == work[v].max_attempts
               n == work[v].attempt_count + extra
    <2>1. m \in Nat /\ n \in Nat /\ m \in Int /\ n \in Int
      BY <1>1 DEF WorkRow
    <2>2. budget = Max({m, n})
      OBVIOUS
    <2> HIDE DEF m, n, budget
    <2> QED BY <2>1, <2>2, MaxOfTwo
  <1>3. Run(<<"work", "replays">>, new)
    BY DEF FReplay, Current
  <1>4. /\ new.work = W /\ new.batches = batches /\ new.attempts = attempts
        /\ new.publications = publications
    BY DEF Current
  <1> HIDE DEF budget, R, new
  <1>5. work[v] \in WorkRow /\ work[v].generation \in Nat
    BY <1>1 DEF WorkRow
  <1>6. g \in Nat /\ clock \in Nat
    BY <1>1, <1>5
  <1> HIDE DEF g
  <1>7. row \in WorkRow
    BY <1>2, <1>5, <1>6 DEF WorkRow, WorkStatus
  <1>8. /\ row.status = "READY" /\ row.fence = work[v].fence
        /\ row.generation = g /\ row.fence \in Nat
    BY <1>5 DEF WorkRow
  <1> HIDE DEF row
  <1>9. W \in [Work -> WorkRow] /\ \A w \in Work : W[w] = IF w = v THEN row ELSE work[w]
    BY <1>1, <1>7
  <1>10. WorkMoves(work, W)
    BY <1>8, <1>9 DEF WorkMoves, g
  <1> HIDE DEF W
  <1>11. Sound(W, batches, attempts, publications)
    BY <1>1, <1>9, <1>10, WorkWritten
  <1>12. FinishedKept(Current, new)
    BY <1>4, <1>10, MovesKeepFinished DEF BatchesMove
  <1> QED BY <1>1, <1>3, <1>4, <1>11, <1>12, WriteReplay


\* The members of a batch whose lease is verified are leased.
LEMMA VerifiedMembers ==
    ASSUME FInv, NEW b \in Batch, FVerified(b), NEW w \in Members(b)
    PROVE  /\ w \in Work /\ work[w].status = "LEASED"
           /\ work[w].fence = attempts[b][w].fence
  BY TablesNow DEF FVerified, HoldsFence

\* heartbeat_process writes lease ends only.
LEMMA HeartbeatKeeps ==
    ASSUME FInv, NEW b \in Batch, FHeartbeat(b)
    PROVE  FInv'
  <1> DEFINE e == Extended(b, clock)
             B == [batches EXCEPT ![b].expires = e]
             A == [attempts EXCEPT ![b] = MemberRows(b, [w \in Members(b) |->
                     [attempts[b][w] EXCEPT !.expires = e]])]
             W == WorkWith([w \in Members(b) |-> [work[w] EXCEPT !.expires = e]])
             new == [Current EXCEPT !.batches = B, !.attempts = A, !.work = W]
  <1>1. /\ clock \in Nat /\ Sound(work, batches, attempts, publications)
        /\ \A w \in Work : work[w] \in WorkRow
        /\ batches \in [Batch -> BatchRow] /\ Members(b) \subseteq Work
        /\ attempts \in [Batch -> [Work -> AttemptRow]]
        /\ \A w \in Work : attempts[b][w] \in AttemptRow
    BY TablesNow DEF Sound, TablesOK
  <1>2. e \in Nat
    BY <1>1, ExtendedIsLater DEF BatchRow
  <1>3. /\ Run(<<"batches", "attempts", "work">>, new)
        /\ batches[b].status = "LEASED"
        /\ \A w \in Members(b) : work[w].status = "LEASED"
    BY VerifiedMembers DEF FHeartbeat, Current
  <1>4. /\ new.work = W /\ new.batches = B /\ new.attempts = A
        /\ new.publications = publications
    BY DEF Current
  <1> HIDE DEF e, new
  <1>5. B \in [Batch -> BatchRow] /\ BatchesMove(batches, B)
    <2>1. B \in [Batch -> BatchRow]
      BY <1>1, <1>2 DEF BatchRow
    <2>2. BatchesMove(batches, B)
      BY <1>1, <1>3 DEF BatchesMove
    <2> QED BY <2>1, <2>2
  <1>6. \A w \in Work : A[b][w] = IF w \in Members(b) THEN [attempts[b][w] EXCEPT !.expires = e]
                                  ELSE attempts[b][w]
    BY <1>1 DEF MemberRows
  <1>7. \A c \in Batch \ {b} : A[c] = attempts[c]
    BY <1>1
  <1>8. A \in [Batch -> [Work -> AttemptRow]]
    <2>1. \A w \in Work : [attempts[b][w] EXCEPT !.expires = e] \in AttemptRow
      BY <1>1, <1>2 DEF AttemptRow
    <2> QED BY <1>1, <2>1 DEF MemberRows
  <1> HIDE DEF A, B
  <1>9. \A w \in Work : W[w] = IF w \in Members(b) THEN [work[w] EXCEPT !.expires = e]
                               ELSE work[w]
    BY DEF WorkWith
  <1>10. W \in [Work -> WorkRow]
    <2>1. \A w \in Work : [work[w] EXCEPT !.expires = e] \in WorkRow
      BY <1>1, <1>2 DEF WorkRow
    <2>2. \A w \in Work : W[w] \in WorkRow
      BY <1>1, <1>9, <2>1
    <2> QED BY <2>2 DEF WorkWith
  <1> HIDE DEF W
  <1>11. WorkMoves(work, W)
    <2>1. ASSUME NEW w \in Work, W[w] # work[w]
          PROVE  /\ W[w].status = "LEASED" /\ work[w].status = "LEASED"
                 /\ W[w].fence = work[w].fence /\ W[w].generation = work[w].generation
                 /\ work[w].fence \in Nat
      BY <1>1, <1>3, <1>9, <2>1 DEF WorkRow
    <2> QED BY <2>1 DEF WorkMoves
  <1>12. ASSUME NEW c \in Batch, NEW w \in Work, A[c][w] # attempts[c][w]
         PROVE  /\ c = b /\ w \in Members(b) /\ A[c][w].status = attempts[c][w].status
                /\ A[c][w].fence = attempts[c][w].fence
                /\ A[c][w].output = attempts[c][w].output
    BY <1>1, <1>6, <1>7, <1>12 DEF AttemptRow
  <1>13. AttemptsMove(attempts, A)
    <2>1. ASSUME NEW c \in Batch, NEW w \in Work, A[c][w] # attempts[c][w]
          PROVE  /\ attempts[c][w].status \notin {"SUCCEEDED", "FAILED", "EXPIRED"}
                 /\ attempts[c][w].status = "SEALED" => attempts[c][w].output # None
      <3>1. c = b /\ work[w].status = "LEASED" /\ work[w].fence = attempts[b][w].fence
        BY <1>12, <2>1, VerifiedMembers DEF FHeartbeat
      <3>2. attempts[b][w].status \notin {"SUCCEEDED", "FAILED"}
        BY <1>1, <1>3 DEF Sound, Settled
      <3>3. attempts[b][w].status # "EXPIRED"
        BY <1>1, <3>1 DEF Sound, Fenced
      <3> QED BY <1>1, <3>1, <3>2, <3>3 DEF Sound, Settled
    <2> QED BY <1>12, <2>1 DEF AttemptsMove
  <1>14. Sound(work, B, attempts, publications)
    BY <1>1, <1>5, BatchesWritten
  <1>15. Sound(work, B, A, publications)
    <2>1. \A c \in Batch, w \in Work :
             \/ A[c][w] = attempts[c][w]
             \/ A[c][w].status \notin {"EXPIRED", "SUCCEEDED", "FAILED"}
      BY <1>12, <1>13 DEF AttemptsMove
    <2> QED BY <1>8, <1>13, <1>14, <2>1, AttemptsWritten
  <1>16. Sound(W, B, A, publications)
    BY <1>10, <1>11, <1>15, WorkWritten
  <1>17. FinishedKept(Current, new)
    BY <1>4, <1>5, <1>11, <1>13, MovesKeepFinished DEF AttemptsMove
  <1> QED BY <1>1, <1>3, <1>4, <1>14, <1>15, <1>16, <1>17, WriteHeartbeat

\* seal_batch records outputs and writes no work.
LEMMA SealKeeps ==
    ASSUME FInv, NEW b \in Batch, NEW result \in Results(b), FSeal(b, result)
    PROVE  FInv'
  <1> DEFINE row(w) == [attempts[b][w] EXCEPT !.status = "SEALED", !.output = result[w].output,
                                              !.ok = result[w].ok]
             B == [batches EXCEPT ![b].status = "SEALED"]
             A == [attempts EXCEPT ![b] = MemberRows(b, [w \in Members(b) |-> row(w)])]
             new == [Current EXCEPT !.batches = B, !.attempts = A]
  <1>1. /\ clock \in Nat /\ Sound(work, batches, attempts, publications)
        /\ batches \in [Batch -> BatchRow] /\ Members(b) \subseteq Work
        /\ attempts \in [Batch -> [Work -> AttemptRow]]
        /\ \A w \in Work : attempts[b][w] \in AttemptRow
    BY TablesNow DEF Sound, TablesOK
  <1>2. ASSUME NEW w \in Members(b)
        PROVE  result[w].output \in Output /\ result[w].ok \in BOOLEAN
    BY <1>2 DEF Results
  <1>3. /\ Run(<<"batches", "attempts">>, new)
        /\ batches[b].status = "LEASED"
        /\ \A w \in Members(b) : attempts[b][w].status = "LEASED"
    BY DEF FSeal, Current
  <1>4. /\ new.work = work /\ new.batches = B /\ new.attempts = A
        /\ new.publications = publications
    BY DEF Current
  <1> HIDE DEF new
  <1>5. B \in [Batch -> BatchRow] /\ BatchesMove(batches, B)
    <2>1. B \in [Batch -> BatchRow]
      BY <1>1, Statuses DEF BatchRow
    <2>2. BatchesMove(batches, B)
      BY <1>1, <1>3 DEF BatchesMove
    <2> QED BY <2>1, <2>2
  <1>6. ASSUME NEW w \in Members(b)
        PROVE  /\ row(w) \in AttemptRow /\ row(w).status = "SEALED"
               /\ row(w).fence = attempts[b][w].fence /\ row(w).output # None
    <2>1. attempts[b][w] \in AttemptRow
      BY <1>1, <1>6
    <2>2. row(w) \in AttemptRow
      BY <1>2, <1>6, <2>1, AttemptRowUpdates, Statuses
    <2>3. /\ row(w).status = "SEALED" /\ row(w).fence = attempts[b][w].fence
          /\ row(w).output = result[w].output
      BY <2>1 DEF AttemptRow
    <2> QED BY <1>2, <1>6, <2>2, <2>3, ControlStoreAssumption
  <1> HIDE DEF row
  <1>7. /\ \A w \in Work : A[b][w] = IF w \in Members(b) THEN row(w) ELSE attempts[b][w]
        /\ \A c \in Batch \ {b} : A[c] = attempts[c]
    BY <1>1 DEF MemberRows
  <1>8. A \in [Batch -> [Work -> AttemptRow]]
    BY <1>1, <1>6 DEF MemberRows
  <1> HIDE DEF A, B
  <1>9. ASSUME NEW c \in Batch, NEW w \in Work, A[c][w] # attempts[c][w]
        PROVE  /\ attempts[c][w].status = "LEASED" /\ A[c][w].status = "SEALED"
               /\ A[c][w].fence = attempts[c][w].fence /\ A[c][w].output # None
    BY <1>3, <1>6, <1>7, <1>9
  <1>10. AttemptsMove(attempts, A)
    BY <1>9 DEF AttemptsMove
  <1>11. Sound(work, B, attempts, publications)
    BY <1>1, <1>5, BatchesWritten
  <1>12. Sound(work, B, A, publications)
    BY <1>8, <1>9, <1>10, <1>11, AttemptsWritten
  <1>13. FinishedKept(Current, new)
    BY <1>4, <1>5, <1>10, MovesKeepFinished DEF AttemptsMove, WorkMoves
  <1> QED BY <1>1, <1>3, <1>4, <1>11, <1>12, <1>13, WriteSeal


\* claim uses up fences in work before any attempt carries them.
LEMMA ClaimKeeps ==
    ASSUME FInv, NEW b \in Batch, NEW call \in ClaimCall, FClaim(b, call)
    PROVE  FInv'
  <1> DEFINE group == FirstGroup(call, clock)
             n == Max(AdmissibleSizes(group, QueueOrder(group), Durations, Workers,
                                      call.lease, call.minimum_items, call.max_items))
             claimed == FirstOf(group, QueueOrder(group), n)
             e == clock + call.lease
             leased(w) == [work[w] EXCEPT !.status = "LEASED", !.lease = b, !.expires = e,
                              !.attempt_count = work[w].attempt_count + 1,
                              !.fence = work[w].fence + 1]
             attempt(w) == [NoAttempt EXCEPT !.status = "LEASED", !.fence = work[w].fence + 1,
                                             !.expires = e]
             W == WorkWith([w \in claimed |-> leased(w)])
             B == [batches EXCEPT ![b] =
                     [status |-> "LEASED", members |-> claimed, expires |-> e]]
             A == [attempts EXCEPT ![b] =
                     [w \in Work |-> IF w \in claimed THEN attempt(w) ELSE NoAttempt]]
             new == [Current EXCEPT !.work = W, !.batches = B, !.attempts = A]
  <1>1. /\ clock \in Nat /\ Sound(work, batches, attempts, publications)
        /\ \A w \in Work : work[w] \in WorkRow
        /\ batches \in [Batch -> BatchRow]
        /\ attempts \in [Batch -> [Work -> AttemptRow]]
    BY TablesNow DEF Sound, TablesOK
  <1>2. e \in Nat
    BY <1>1, ControlStoreAssumption
  <1>3. claimed \subseteq Status("READY")
    BY ClaimedAreReady
  <1>4. batches[b].status = "NONE" /\ \A w \in Work : attempts[b][w].status = "NONE"
    BY DEF FClaim
  <1>5. Run(<<"work", "batches", "attempts">>, new)
    BY DEF FClaim, Current, ClaimOrder
  <1>6. /\ new.work = W /\ new.batches = B /\ new.attempts = A
        /\ new.publications = publications
    BY DEF Current
  <1> HIDE DEF n, group, claimed, e, new
  <1>7. claimed \subseteq Work /\ \A w \in claimed : work[w].status = "READY"
    BY <1>3 DEF Status
  <1>8. ASSUME NEW w \in claimed
        PROVE  /\ leased(w) \in WorkRow /\ leased(w).status = "LEASED"
               /\ leased(w).fence = work[w].fence + 1 /\ work[w].fence \in Nat
               /\ leased(w).generation = work[w].generation
    <2>1. work[w] \in WorkRow
      BY <1>1, <1>7, <1>8
    <2>2. work[w].attempt_count + 1 \in Nat /\ work[w].fence + 1 \in Nat /\ work[w].fence \in Nat
      BY <2>1 DEF WorkRow
    <2>3. leased(w) \in WorkRow
      BY <1>2, <2>1, <2>2, WorkRowUpdates, Statuses
    <2> QED BY <2>1, <2>2, <2>3 DEF WorkRow
  <1>9. ASSUME NEW w \in claimed
        PROVE  /\ attempt(w) \in AttemptRow /\ attempt(w).status = "LEASED"
               /\ attempt(w).fence = work[w].fence + 1
    <2>1. work[w].fence + 1 \in Nat
      <3>1. work[w] \in WorkRow
        BY <1>1, <1>7, <1>9
      <3> QED BY <3>1 DEF WorkRow
    <2> QED BY <1>2, <2>1 DEF NoAttempt, AttemptRow, AttemptStatus
  <1>10. NoAttempt \in AttemptRow /\ NoAttempt.status = "NONE"
    BY DEF NoAttempt, AttemptRow, AttemptStatus
  <1> HIDE DEF leased, attempt
  <1>11. \A w \in Work : W[w] = IF w \in claimed THEN leased(w) ELSE work[w]
    BY DEF WorkWith
  <1>12. W \in [Work -> WorkRow]
    <2>1. \A w \in Work : W[w] \in WorkRow
      BY <1>1, <1>8, <1>11
    <2> QED BY <2>1 DEF WorkWith
  <1>13. B \in [Batch -> BatchRow] /\ BatchesMove(batches, B)
    <2>1. B \in [Batch -> BatchRow]
      BY <1>1, <1>2, <1>7 DEF BatchRow, BatchStatus
    <2>2. BatchesMove(batches, B)
      BY <1>1, <1>4 DEF BatchesMove
    <2> QED BY <2>1, <2>2
  <1>14. /\ A \in [Batch -> [Work -> AttemptRow]]
         /\ \A w \in Work : A[b][w] = IF w \in claimed THEN attempt(w) ELSE NoAttempt
         /\ \A c \in Batch \ {b} : A[c] = attempts[c]
    BY <1>1, <1>9, <1>10
  <1> HIDE DEF W, A, B
  <1>15. WorkMoves(work, W)
    <2>1. ASSUME NEW w \in Work, W[w] # work[w]
          PROVE  /\ W[w].status = "LEASED" /\ W[w].fence > work[w].fence
                 /\ W[w].fence >= work[w].fence
                 /\ W[w].generation = work[w].generation /\ work[w].status # "SUCCEEDED"
      <3>1. w \in claimed /\ W[w] = leased(w)
        BY <1>11, <2>1
      <3> QED BY <1>7, <1>8, <3>1
    <2> QED BY <2>1 DEF WorkMoves
  <1>16. Sound(W, batches, attempts, publications)
    BY <1>1, <1>12, <1>15, WorkWritten
  <1>17. Sound(W, B, attempts, publications)
    BY <1>13, <1>16, BatchesWritten
  <1>18. Sound(W, B, A, publications)
    <2>1. TablesOK(W, B, A, publications)
      BY <1>14, <1>17 DEF Sound, TablesOK
    <2>2. ASSUME NEW w \in Work, NEW c \in Batch, c # b
          PROVE  /\ A[c][w] = attempts[c][w]
                 /\ A[c][w].status # "NONE" => /\ A[c][w].fence \in Nat
                                               /\ A[c][w].fence <= work[w].fence
      <3>1. A[c][w] = attempts[c][w]
        BY <1>14, <2>2
      <3>2. attempts[c][w].status # "NONE" => attempts[c][w].fence \in 1..work[w].fence
        BY <1>1, <2>2 DEF Sound, Fenced
      <3>3. work[w].fence \in Nat
        BY <1>1, <2>2 DEF WorkRow
      <3> QED BY <3>1, <3>2, <3>3
    <2>3. ASSUME NEW w \in Work, A[b][w].status # "NONE"
          PROVE  /\ A[b][w].fence \in 1..W[w].fence /\ A[b][w].status = "LEASED"
                 /\ A[b][w].fence = work[w].fence + 1 /\ work[w].fence \in Nat
      <3>1. w \in claimed /\ A[b][w] = attempt(w) /\ W[w] = leased(w)
        BY <1>10, <1>11, <1>14, <2>3
      <3> QED BY <1>8, <1>9, <3>1
    <2>4. ASSUME NEW w \in Work, NEW c \in Batch, A[c][w].status # "NONE"
          PROVE  /\ A[c][w].fence \in 1..W[w].fence
                 /\ \A d \in Batch \ {c} : A[d][w].status # "NONE" => A[d][w].fence # A[c][w].fence
                 /\ A[c][w].status = "EXPIRED" /\ A[c][w].fence = W[w].fence =>
                       W[w].status # "LEASED"
      <3>1. CASE c = b
        <4>1. \A d \in Batch \ {c} : A[d][w].status # "NONE" => A[d][w].fence # A[c][w].fence
          BY <2>2, <2>3, <2>4, <3>1
        <4> QED BY <2>3, <2>4, <3>1, <4>1
      <3>2. CASE c # b
        <4>1. A[c][w] = attempts[c][w]
          BY <2>2, <2>4, <3>2
        <4>2. ASSUME NEW d \in Batch \ {c}, A[d][w].status # "NONE"
              PROVE  A[d][w].fence # A[c][w].fence
          <5>1. CASE d = b
            BY <2>2, <2>3, <2>4, <3>2, <4>2, <5>1
          <5>2. CASE d # b
            <6>1. A[d][w] = attempts[d][w]
              BY <2>2, <4>2, <5>2
            <6> QED BY <1>1, <2>4, <4>1, <4>2, <6>1 DEF Sound, Fenced
          <5> QED BY <5>1, <5>2
        <4> QED BY <1>16, <2>4, <4>1, <4>2 DEF Sound, Fenced
      <3> QED BY <3>1, <3>2
    <2>5. Fenced(W, A)
      BY <1>16, <2>4 DEF Sound, Fenced
    <2>6. Settled(B, A)
      <3>1. \A c \in Batch, w \in Work :
               \/ A[c][w] = attempts[c][w]
               \/ A[c][w].status \in {"NONE", "LEASED"}
        BY <2>2, <2>3
      <3> QED BY <1>17, <3>1 DEF Sound, Settled
    <2>7. Published(A, publications)
      <3>1. ASSUME NEW p \in publications PROVE A[p.batch][p.work] = attempts[p.batch][p.work]
        <4>1. p.batch \in Batch /\ p.work \in Work
          BY <1>1, <3>1 DEF Sound, TablesOK, Publication
        <4>2. attempts[p.batch][p.work].status = "SUCCEEDED"
          BY <1>1, <3>1 DEF Sound, Published
        <4>3. p.batch # b
          BY <1>4, <4>1, <4>2
        <4> QED BY <2>2, <4>1, <4>3
      <3> QED BY <1>1, <3>1 DEF Sound, Published
    <2> QED BY <1>16, <2>1, <2>5, <2>6, <2>7 DEF Sound
  <1>19. \A c \in Batch, w \in Work :
            attempts[c][w].status \in {"SUCCEEDED", "FAILED", "EXPIRED"} =>
               A[c][w] = attempts[c][w]
    BY <1>4, <1>14
  <1>20. FinishedKept(Current, new)
    BY <1>6, <1>13, <1>15, <1>19, MovesKeepFinished
  <1> QED BY <1>1, <1>5, <1>6, <1>16, <1>17, <1>18, <1>20, WriteClaim


\* abandon_failed_claim gives the works back before it ends their attempts.
LEMMA AbandonKeeps ==
    ASSUME FInv, NEW b \in Batch, NEW operator \in Operator, AbandonFailedClaim(b, operator)
    PROVE  FInv'
  <1> DEFINE row(w) == [Unleased(work[w]) EXCEPT !.status = "READY", !.available_at = clock,
                           !.fence = work[w].fence + 1, !.error = operator]
             W == WorkWith([w \in Members(b) |-> row(w)])
             A == [attempts EXCEPT ![b] = MemberRows(b, [w \in Members(b) |->
                     [attempts[b][w] EXCEPT !.status = "EXPIRED"]])]
             B == [batches EXCEPT ![b].status = "EXPIRED"]
             new == [Current EXCEPT !.work = W, !.attempts = A, !.batches = B]
  <1>1. /\ clock \in Nat /\ Sound(work, batches, attempts, publications)
        /\ \A w \in Work : work[w] \in WorkRow
        /\ batches \in [Batch -> BatchRow] /\ Members(b) \subseteq Work
        /\ attempts \in [Batch -> [Work -> AttemptRow]]
        /\ \A w \in Work : attempts[b][w] \in AttemptRow
    BY TablesNow DEF Sound, TablesOK
  <1>2. /\ Run(<<"work", "attempts", "batches">>, new)
        /\ batches[b].status = "LEASED"
        /\ \A w \in Members(b) : work[w].status = "LEASED" /\ attempts[b][w].status = "LEASED"
    <2>1. Run(<<"work", "attempts", "batches">>, new)
      BY DEF AbandonFailedClaim, Current, Unleased
    <2> QED BY <2>1, VerifiedMembers DEF AbandonFailedClaim
  <1>3. /\ new.work = W /\ new.batches = B /\ new.attempts = A
        /\ new.publications = publications
    BY DEF Current
  <1> HIDE DEF new
  <1>4. ASSUME NEW w \in Work
        PROVE  /\ row(w) \in WorkRow /\ row(w).status = "READY"
               /\ row(w).fence = work[w].fence + 1 /\ work[w].fence \in Nat
               /\ row(w).generation = work[w].generation
    <2> DEFINE r == Unleased(work[w])
               f == work[w].fence + 1
    <2>1. r \in WorkRow /\ work[w] \in WorkRow
      BY <1>1, <1>4, UnleasedType
    <2>2. r.generation = work[w].generation
      BY <2>1 DEF Unleased, WorkRow
    <2>3. f \in Nat /\ work[w].fence \in Nat
      BY <2>1 DEF WorkRow
    <2> HIDE DEF r, f
    <2>4. [r EXCEPT !.status = "READY", !.available_at = clock, !.fence = f,
                    !.error = operator] \in WorkRow
      BY <1>1, <2>1, <2>3 DEF WorkRow, WorkStatus
    <2>5. row(w) = [r EXCEPT !.status = "READY", !.available_at = clock, !.fence = f,
                             !.error = operator]
      BY DEF r, f
    <2> HIDE DEF row
    <2>6. /\ row(w) \in WorkRow /\ row(w).status = "READY" /\ row(w).fence = f
          /\ row(w).generation = r.generation
      BY <2>1, <2>4, <2>5 DEF WorkRow
    <2> QED BY <2>2, <2>3, <2>6 DEF f
  <1> HIDE DEF row
  <1>5. \A w \in Work : W[w] = IF w \in Members(b) THEN row(w) ELSE work[w]
    BY DEF WorkWith
  <1>6. W \in [Work -> WorkRow]
    <2>1. \A w \in Work : W[w] \in WorkRow
      BY <1>1, <1>4, <1>5
    <2> QED BY <2>1 DEF WorkWith
  <1>7. B \in [Batch -> BatchRow] /\ BatchesMove(batches, B)
    <2>1. B \in [Batch -> BatchRow]
      BY <1>1, Statuses DEF BatchRow
    <2>2. BatchesMove(batches, B)
      BY <1>1, <1>2 DEF BatchesMove
    <2> QED BY <2>1, <2>2
  <1>8. /\ \A w \in Work : A[b][w] = IF w \in Members(b)
                                     THEN [attempts[b][w] EXCEPT !.status = "EXPIRED"]
                                     ELSE attempts[b][w]
        /\ \A c \in Batch \ {b} : A[c] = attempts[c]
    BY <1>1 DEF MemberRows
  <1>9. A \in [Batch -> [Work -> AttemptRow]]
    <2>1. \A w \in Work : [attempts[b][w] EXCEPT !.status = "EXPIRED"] \in AttemptRow
      BY <1>1 DEF AttemptRow, AttemptStatus
    <2> QED BY <1>1, <2>1 DEF MemberRows
  <1> HIDE DEF W, A, B
  <1>10. WorkMoves(work, W)
    <2>1. ASSUME NEW w \in Work, W[w] # work[w]
          PROVE  /\ W[w].status = "READY" /\ W[w].fence >= work[w].fence
                 /\ W[w].generation = work[w].generation /\ work[w].status # "SUCCEEDED"
      <3>1. w \in Members(b) /\ W[w] = row(w)
        BY <1>5, <2>1
      <3> QED BY <1>2, <1>4, <3>1
    <2> QED BY <2>1 DEF WorkMoves
  <1>11. ASSUME NEW c \in Batch, NEW w \in Work, A[c][w] # attempts[c][w]
         PROVE  /\ W[w].status = "READY"
                /\ attempts[c][w].status = "LEASED" /\ A[c][w].status = "EXPIRED"
                /\ A[c][w].fence = attempts[c][w].fence
    <2>1. c = b /\ w \in Members(b) /\ A[b][w] = [attempts[b][w] EXCEPT !.status = "EXPIRED"]
      BY <1>8, <1>11
    <2>2. W[w].status = "READY"
      BY <1>4, <1>5, <2>1
    <2> QED BY <1>1, <1>2, <2>1, <2>2 DEF AttemptRow
  <1>12. AttemptsMove(attempts, A)
    BY <1>11 DEF AttemptsMove
  <1>13. Sound(W, batches, attempts, publications)
    BY <1>1, <1>6, <1>10, WorkWritten
  <1>14. Sound(W, batches, A, publications)
    BY <1>9, <1>11, <1>12, <1>13, AttemptsWritten
  <1>15. Sound(W, B, A, publications)
    BY <1>7, <1>14, BatchesWritten
  <1>16. FinishedKept(Current, new)
    BY <1>3, <1>7, <1>10, <1>12, MovesKeepFinished DEF AttemptsMove
  <1> QED BY <1>1, <1>2, <1>3, <1>13, <1>14, <1>15, <1>16, WriteRecovery

\* recover gives works back before it ends their attempts and batches.
LEMMA RecoverKeeps ==
    ASSUME FInv, NEW now \in Nat, FRecover(now)
    PROVE  FInv'
  <1> DEFINE expired == Expired(now)
             W == WorkWith([w \in expired |-> Retried(w, now, "expired")])
             A == [b \in Batch |-> [w \in Work |->
                     IF w \in expired /\ work[w].lease = b THEN ExpiredAttempt(attempts[b][w])
                     ELSE attempts[b][w]]]
             B == [b \in Batch |->
                     IF BatchExpired(b, now) THEN [batches[b] EXCEPT !.status = "EXPIRED"]
                     ELSE batches[b]]
             new == [Current EXCEPT !.work = W, !.attempts = A, !.batches = B]
  <1>1. /\ clock \in Nat /\ Sound(work, batches, attempts, publications)
        /\ \A w \in Work : work[w] \in WorkRow
        /\ \A b \in Batch : batches[b] \in BatchRow
        /\ \A b \in Batch, w \in Work : attempts[b][w] \in AttemptRow
    BY TablesNow
  <1>2. Run(<<"work", "attempts", "batches">>, new)
    BY DEF FRecover
  <1>3. /\ new.work = W /\ new.batches = B /\ new.attempts = A
        /\ new.publications = publications
    BY DEF Current
  <1> HIDE DEF new
  <1>4. \A w \in expired : w \in Work /\ work[w].status = "LEASED"
    BY DEF Expired, Status
  <1> HIDE DEF expired
  <1>5. \A w \in Work : W[w] = IF w \in expired THEN Retried(w, now, "expired") ELSE work[w]
    BY DEF WorkWith
  <1>6. W \in [Work -> WorkRow]
    <2>1. \A w \in Work : W[w] \in WorkRow
      BY <1>1, <1>5, RetriedType
    <2> QED BY <2>1 DEF WorkWith
  <1>7. B \in [Batch -> BatchRow] /\ BatchesMove(batches, B)
    <2>1. \A b \in Batch : [batches[b] EXCEPT !.status = "EXPIRED"] \in BatchRow
      BY <1>1 DEF BatchRow, BatchStatus
    <2>2. B \in [Batch -> BatchRow]
      BY <1>1, <2>1
    <2>3. BatchesMove(batches, B)
      BY DEF BatchesMove, BatchExpired, Active
    <2> QED BY <2>2, <2>3
  <1>8. ASSUME NEW b \in Batch, NEW w \in Work, A[b][w] # attempts[b][w]
        PROVE  /\ w \in expired /\ attempts[b][w].status \in {"LEASED", "SEALED"}
               /\ A[b][w] = [attempts[b][w] EXCEPT !.status = "EXPIRED"]
    BY <1>8 DEF ExpiredAttempt
  <1>9. A \in [Batch -> [Work -> AttemptRow]]
    <2>1. \A b \in Batch, w \in Work :
             [attempts[b][w] EXCEPT !.status = "EXPIRED"] \in AttemptRow
      BY <1>1 DEF AttemptRow, AttemptStatus
    <2>2. ASSUME NEW b \in Batch, NEW w \in Work PROVE A[b][w] \in AttemptRow
      <3> HIDE DEF A
      <3>1. CASE A[b][w] = attempts[b][w]
        BY <1>1, <3>1
      <3>2. CASE A[b][w] # attempts[b][w]
        <4>1. A[b][w] = [attempts[b][w] EXCEPT !.status = "EXPIRED"]
          BY <1>8, <3>2
        <4>2. [attempts[b][w] EXCEPT !.status = "EXPIRED"] \in AttemptRow
          BY <2>1
        <4> QED BY <4>1, <4>2
      <3> QED BY <3>1, <3>2
    <2> QED BY <2>2
  <1> HIDE DEF W, A, B
  <1>10. WorkMoves(work, W)
    <2>1. ASSUME NEW w \in Work, W[w] # work[w]
          PROVE  /\ W[w].status \in {"READY", "DEAD"} /\ W[w].fence = work[w].fence
                 /\ work[w].fence \in Nat
                 /\ W[w].generation = work[w].generation /\ work[w].status # "SUCCEEDED"
      <3>1. w \in expired /\ W[w] = Retried(w, now, "expired")
        BY <1>5, <2>1
      <3>2. work[w].fence \in Nat
        BY <1>1, <2>1 DEF WorkRow
      <3> QED BY <1>1, <1>4, <3>1, <3>2, RetriedFields
    <2> QED BY <2>1 DEF WorkMoves
  <1>11. ASSUME NEW b \in Batch, NEW w \in Work, A[b][w] # attempts[b][w]
         PROVE  /\ W[w].status # "LEASED"
                /\ attempts[b][w].status \in {"LEASED", "SEALED"} /\ A[b][w].status = "EXPIRED"
                /\ A[b][w].fence = attempts[b][w].fence
    <2>1. W[w].status \in {"READY", "DEAD"}
      BY <1>1, <1>5, <1>8, <1>11, RetriedFields
    <2> QED BY <1>1, <1>8, <1>11, <2>1 DEF AttemptRow
  <1>12. AttemptsMove(attempts, A)
    BY <1>11 DEF AttemptsMove
  <1>13. Sound(W, batches, attempts, publications)
    BY <1>1, <1>6, <1>10, WorkWritten
  <1>14. Sound(W, batches, A, publications)
    BY <1>9, <1>11, <1>12, <1>13, AttemptsWritten
  <1>15. Sound(W, B, A, publications)
    BY <1>7, <1>14, BatchesWritten
  <1>16. FinishedKept(Current, new)
    BY <1>3, <1>7, <1>10, <1>12, MovesKeepFinished DEF AttemptsMove
  <1> QED BY <1>1, <1>2, <1>3, <1>13, <1>14, <1>15, <1>16, WriteRecovery

\* recover_exact ends one work, then its batch and attempt.
LEMMA RecoverExactKeeps ==
    ASSUME FInv, NEW b \in Batch, NEW v \in Work, RecoverExact(b, v)
    PROVE  FInv'
  <1> DEFINE row == [Unleased(work[v]) EXCEPT !.status = "DEAD", !.available_at = clock,
                        !.error = "expired"]
             W == [work EXCEPT ![v] = row]
             B == [batches EXCEPT ![b].status = "EXPIRED"]
             A == [attempts EXCEPT ![b][v].status = "EXPIRED"]
             new == [Current EXCEPT !.work = W, !.batches = B, !.attempts = A]
  <1>1. /\ clock \in Nat /\ Sound(work, batches, attempts, publications)
        /\ work \in [Work -> WorkRow]
        /\ batches \in [Batch -> BatchRow]
        /\ attempts \in [Batch -> [Work -> AttemptRow]]
        /\ work[v] \in WorkRow /\ attempts[b][v] \in AttemptRow
    BY TablesNow DEF Sound, TablesOK
  <1>2. /\ Run(<<"work", "batches", "attempts">>, new)
        /\ batches[b].status = "LEASED" /\ attempts[b][v].status = "LEASED"
        /\ work[v].status = "LEASED"
    BY DEF RecoverExact, HoldsFence, Current
  <1>3. /\ new.work = W /\ new.batches = B /\ new.attempts = A
        /\ new.publications = publications
    BY DEF Current
  <1> HIDE DEF new
  <1>4. /\ row \in WorkRow /\ row.status = "DEAD"
        /\ row.fence = work[v].fence /\ row.generation = work[v].generation
        /\ work[v].fence \in Nat
    <2>1. Unleased(work[v]) \in WorkRow /\ Unleased(work[v]).fence = work[v].fence
          /\ Unleased(work[v]).generation = work[v].generation
      BY <1>1, UnleasedType DEF Unleased, WorkRow
    <2>2. row \in WorkRow
      BY <1>1, <2>1, WorkRowUpdates, Statuses
    <2> QED BY <1>1, <2>1, <2>2 DEF WorkRow
  <1> HIDE DEF row
  <1>5. /\ W \in [Work -> WorkRow]
        /\ \A w \in Work : W[w] = IF w = v THEN row ELSE work[w]
    BY <1>1, <1>4
  <1>6. B \in [Batch -> BatchRow] /\ BatchesMove(batches, B)
    <2>1. B \in [Batch -> BatchRow]
      BY <1>1, Statuses DEF BatchRow
    <2>2. BatchesMove(batches, B)
      BY <1>1, <1>2 DEF BatchesMove
    <2> QED BY <2>1, <2>2
  <1>7. A \in [Batch -> [Work -> AttemptRow]]
    <2>1. [attempts[b][v] EXCEPT !.status = "EXPIRED"] \in AttemptRow
      BY <1>1, AttemptRowUpdates, Statuses
    <2>2. A = [attempts EXCEPT ![b] = [attempts[b] EXCEPT ![v] =
                 [attempts[b][v] EXCEPT !.status = "EXPIRED"]]]
      BY <1>1
    <2> HIDE DEF A
    <2> QED BY <1>1, <2>1, <2>2
  <1>8. ASSUME NEW c \in Batch, NEW w \in Work, A[c][w] # attempts[c][w]
        PROVE  /\ c = b /\ w = v /\ attempts[c][w].status = "LEASED"
               /\ A[c][w].status = "EXPIRED" /\ A[c][w].fence = attempts[c][w].fence
    BY <1>1, <1>2, <1>8 DEF AttemptRow
  <1> HIDE DEF W, A, B
  <1>9. WorkMoves(work, W)
    BY <1>2, <1>4, <1>5 DEF WorkMoves
  <1>10. AttemptsMove(attempts, A)
    BY <1>8 DEF AttemptsMove
  <1>11. Sound(W, batches, attempts, publications)
    BY <1>1, <1>5, <1>9, WorkWritten
  <1>12. Sound(W, B, attempts, publications)
    BY <1>6, <1>11, BatchesWritten
  <1>13. Sound(W, B, A, publications)
    <2>1. W[v].status # "LEASED"
      BY <1>4, <1>5
    <2> QED BY <1>7, <1>8, <1>10, <1>12, <2>1, AttemptsWritten
  <1>14. FinishedKept(Current, new)
    BY <1>3, <1>6, <1>9, <1>10, MovesKeepFinished DEF AttemptsMove
  <1> QED BY <1>1, <1>2, <1>3, <1>11, <1>12, <1>13, <1>14, WriteClaim


\* The largest sequence in the table.
LEMMA LastSequenceIsLast ==
    ASSUME publications \in SUBSET Publication, NEW n \in Nat,
           \A p \in publications : p.seq <= n
    PROVE  LastSequence \in Nat /\ \A p \in publications : p.seq <= LastSequence
  <1> DEFINE S == {0} \cup {p.seq : p \in publications}
  <1>1. \A p \in publications : p.seq \in Nat
    BY DEF Publication
  <1>2. S \in SUBSET Nat /\ S # {} /\ \A x \in S : x <= n
    BY <1>1
  <1>3. \A p \in publications : p.seq \in S
    OBVIOUS
  <1>4. LastSequence = Max(S)
    BY DEF LastSequence
  <1> HIDE DEF S
  <1>5. Max(S) \in S /\ \A x \in S : x <= Max(S)
    BY <1>2, MaxOfBounded
  <1> QED BY <1>2, <1>3, <1>4, <1>5

\* Publishing successes that have no publication since their last replay, each
\* under a sequence of its own, leaves the tables sound.
LEMMA PublicationsWritten ==
    ASSUME NEW W, NEW B, NEW A, NEW P, Sound(W, B, A, P),
           NEW R \in SUBSET Publication, NEW n \in Nat,
           \A r \in R : /\ A[r.batch][r.work].status = "SUCCEEDED"
                        /\ A[r.batch][r.work].ok
                        /\ A[r.batch][r.work].output = r.output
                        /\ W[r.work].status = "SUCCEEDED"
                        /\ Cardinality({p \in P : p.work = r.work}) <= W[r.work].generation
                        /\ r.seq <= n
                        /\ \A p \in P : p.seq < r.seq,
           \A q, r \in R : q.work = r.work \/ q.seq = r.seq => q = r
    PROVE  Sound(W, B, A, P \cup R)
  <1> DEFINE Q == P \cup R
  <1>1. P \in SUBSET Publication /\ Q \in SUBSET Publication
    BY DEF Sound, TablesOK
  <1>2. \A p \in Q : p.seq \in Nat
    BY <1>1 DEF Publication
  <1>3. \E m \in Nat : \A p \in Q : p.seq <= m
    <2>1. PICK k \in Nat : \A p \in P : p.seq <= k
      BY DEF Sound, TablesOK
    <2>2. \A p \in Q : p.seq <= k \/ p.seq <= n
      BY <2>1
    <2> HIDE DEF Q
    <2>3. \A p \in Q : p.seq <= k + n
      BY <1>2, <2>2
    <2> QED BY <2>3
  <1>4. ASSUME NEW w \in Work
        PROVE  /\ IsFiniteSet({p \in Q : p.work = w})
               /\ Cardinality({p \in Q : p.work = w}) <=
                     W[w].generation + (IF W[w].status = "SUCCEEDED" THEN 1 ELSE 0)
    <2> DEFINE old == {p \in P : p.work = w}
               all == {p \in Q : p.work = w}
               g == W[w].generation
    <2>1. IsFiniteSet(old) /\ g \in Nat
      BY <1>4 DEF Sound, TablesOK, WorkRow
    <2>2. Cardinality(old) \in Nat
      BY <2>1, FS_CardinalityType
    <2>3. CASE \E r \in R : r.work = w
      <3>1. PICK r \in R : r.work = w
        BY <2>3
      <3>2. all = old \cup {r}
        BY <3>1
      <3>3. Cardinality(old) <= g /\ W[w].status = "SUCCEEDED"
        BY <3>1
      <3> HIDE DEF old, all
      <3>4. /\ IsFiniteSet(all)
            /\ Cardinality(all) = Cardinality(old) \/ Cardinality(all) = Cardinality(old) + 1
        BY <2>1, <3>2, FS_AddElement
      <3> HIDE DEF g
      <3>5. Cardinality(all) <= g + 1
        BY <2>1, <2>2, <3>3, <3>4
      <3> QED BY <3>3, <3>4, <3>5 DEF all, g
    <2>4. CASE ~\E r \in R : r.work = w
      <3>1. all = old
        BY <2>4
      <3>2. Cardinality(old) <= g + (IF W[w].status = "SUCCEEDED" THEN 1 ELSE 0)
        BY <1>4 DEF Sound, Counted
      <3> HIDE DEF old, all, g
      <3>3. IsFiniteSet(all) /\ Cardinality(all) <= g + (IF W[w].status = "SUCCEEDED" THEN 1 ELSE 0)
        BY <2>1, <3>1, <3>2
      <3> QED BY <3>3 DEF all, g
    <2> QED BY <2>3, <2>4
  <1>5. TablesOK(W, B, A, Q)
    BY <1>1, <1>3, <1>4 DEF Sound, TablesOK
  <1>6. Published(A, Q)
    <2>1. \A p \in Q : /\ A[p.batch][p.work].status = "SUCCEEDED"
                       /\ A[p.batch][p.work].ok
                       /\ A[p.batch][p.work].output = p.output
      BY DEF Sound, Published
    <2>2. \A p, q \in P : p.seq = q.seq => p = q
      BY DEF Sound, Published
    <2>3. ASSUME NEW p \in P, NEW q \in R PROVE p.seq # q.seq
      <3>1. p.seq < q.seq
        OBVIOUS
      <3>2. p.seq \in Nat /\ q.seq \in Nat
        BY <1>2
      <3> QED BY <3>1, <3>2
    <2>4. \A p, q \in Q : p.seq = q.seq => p = q
      BY <2>2, <2>3
    <2> HIDE DEF Q
    <2> QED BY <2>1, <2>4 DEF Published
  <1>7. Counted(W, Q)
    <2>1. \A w \in Work : W[w].status = "ABSENT" => W[w].generation = 0
      BY DEF Sound, Counted
    <2> QED BY <1>4, <2>1 DEF Counted
  <1> QED BY <1>5, <1>6, <1>7 DEF Sound

\* commit_batch publishes last: by then the batch, the attempts and the works
\* say that it happened.
LEMMA CommitKeeps ==
    ASSUME FInv, NEW b \in Batch, FCommit(b)
    PROVE  FInv'
  <1> DEFINE good == {w \in Members(b) : attempts[b][w].ok}
             seq(w) == LastSequence + Cardinality({v \in good : v <= w})
             status(w) == IF w \in good THEN "SUCCEEDED" ELSE "FAILED"
             winner(w) == [Unleased(work[w]) EXCEPT !.status = "SUCCEEDED", !.committed = b,
                                                    !.seq = seq(w)]
             row(w) == [seq |-> seq(w), work |-> w, batch |-> b,
                        output |-> attempts[b][w].output]
             B == [batches EXCEPT ![b].status = "COMMITTED"]
             A == [attempts EXCEPT ![b] = MemberRows(b, [w \in Members(b) |->
                     [attempts[b][w] EXCEPT !.status = status(w)]])]
             W == WorkWith([w \in Members(b) |->
                     IF w \in good THEN winner(w) ELSE Retried(w, clock, "failed")])
             P == publications \cup {row(w) : w \in good}
             new == [Current EXCEPT !.batches = B, !.attempts = A, !.work = W,
                                    !.publications = P]
  <1>1. /\ clock \in Nat /\ Sound(work, batches, attempts, publications)
        /\ \A w \in Work : work[w] \in WorkRow
        /\ batches \in [Batch -> BatchRow] /\ Members(b) \subseteq Work
        /\ attempts \in [Batch -> [Work -> AttemptRow]]
        /\ \A w \in Work : attempts[b][w] \in AttemptRow
        /\ publications \in SUBSET Publication
    BY TablesNow DEF Sound, TablesOK
  <1>2. /\ Run(<<"batches", "attempts", "work", "publications">>, new)
        /\ batches[b].status = "SEALED"
        /\ \A w \in Members(b) : work[w].status = "LEASED" /\ attempts[b][w].status = "SEALED"
    <2>1. Run(<<"batches", "attempts", "work", "publications">>, new)
      BY DEF FCommit, CommitOrder, Current
    <2> QED BY <2>1, VerifiedMembers DEF FCommit
  <1>3. /\ new.work = W /\ new.batches = B /\ new.attempts = A /\ new.publications = P
    BY DEF Current
  <1> HIDE DEF new
  <1>4. /\ good \in SUBSET Work /\ good \subseteq Members(b)
        /\ \A w \in Work : w \in good <=> w \in Members(b) /\ attempts[b][w].ok
    BY <1>1
  <1>5. LastSequence \in Nat /\ \A p \in publications : p.seq <= LastSequence
    BY <1>1, LastSequenceIsLast DEF Sound, TablesOK
  <1> HIDE DEF good
  <1>6. ASSUME NEW w \in good
        PROVE  /\ seq(w) \in Nat /\ seq(w) > LastSequence
               /\ seq(w) <= LastSequence + Cardinality(good)
               /\ Cardinality(good) \in Nat
    <2> DEFINE n == Cardinality({v \in good : v <= w})
    <2>1. n \in 1..Cardinality(good) /\ Cardinality(good) \in Nat
      BY <1>4, <1>6, Ranks
    <2>2. seq(w) = LastSequence + n
      OBVIOUS
    <2> HIDE DEF n, seq
    <2> QED BY <1>5, <2>1, <2>2
  <1>7. ASSUME NEW v \in good, NEW w \in good, seq(v) = seq(w)
        PROVE  v = w
    <2> DEFINE m == Cardinality({y \in good : y <= v})
               n == Cardinality({y \in good : y <= w})
    <2>1. m \in 1..Cardinality(good) /\ n \in 1..Cardinality(good)
      BY <1>4, <1>7, Ranks
    <2>2. m = n => v = w
      BY <1>4, <1>7, Ranks
    <2>3. LastSequence + m = LastSequence + n
      BY <1>7
    <2> HIDE DEF m, n
    <2>4. m = n
      BY <1>5, <2>1, <2>3
    <2> QED BY <2>2, <2>4
  <1> HIDE DEF seq
  <1>8. ASSUME NEW w \in good
        PROVE  /\ w \in Work /\ work[w].status = "LEASED" /\ attempts[b][w].ok
               /\ winner(w) \in WorkRow /\ winner(w).status = "SUCCEEDED"
               /\ winner(w).fence = work[w].fence /\ winner(w).generation = work[w].generation
    <2> DEFINE r == Unleased(work[w])
    <2>1. w \in Work /\ work[w].status = "LEASED" /\ attempts[b][w].ok /\ work[w] \in WorkRow
      BY <1>1, <1>2, <1>4, <1>8
    <2>2. r \in WorkRow /\ r.fence = work[w].fence /\ r.generation = work[w].generation
      BY <2>1, UnleasedType DEF Unleased, WorkRow
    <2>3. winner(w) = [r EXCEPT !.status = "SUCCEEDED", !.committed = b, !.seq = seq(w)]
      OBVIOUS
    <2> HIDE DEF r, winner
    <2>4. winner(w) \in WorkRow
      <3>1. seq(w) \in Nat /\ b \in Batch \cup {None}
        BY <1>6, <1>8
      <3>2. [r EXCEPT !.status = "SUCCEEDED", !.committed = b, !.seq = seq(w)] \in WorkRow
        BY <2>2, <3>1, WorkRowUpdates, Statuses
      <3> QED BY <2>3, <3>2
    <2>5. /\ winner(w).status = "SUCCEEDED" /\ winner(w).fence = r.fence
          /\ winner(w).generation = r.generation
      BY <2>2, <2>3 DEF WorkRow
    <2> QED BY <2>1, <2>2, <2>4, <2>5
  <1>9. ASSUME NEW w \in Work
        PROVE  /\ Retried(w, clock, "failed") \in WorkRow
               /\ Retried(w, clock, "failed").status \in {"READY", "DEAD"}
               /\ Retried(w, clock, "failed").fence = work[w].fence
               /\ Retried(w, clock, "failed").generation = work[w].generation
    BY <1>1, <1>9, RetriedType, RetriedFields
  <1> HIDE DEF winner
  <1>10. \A w \in Work : W[w] = IF w \in Members(b)
                                THEN IF w \in good THEN winner(w) ELSE Retried(w, clock, "failed")
                                ELSE work[w]
    BY DEF WorkWith
  <1>11. W \in [Work -> WorkRow]
    <2>1. \A w \in Work : W[w] \in WorkRow
      BY <1>1, <1>8, <1>9, <1>10
    <2> QED BY <2>1 DEF WorkWith
  <1>12. B \in [Batch -> BatchRow] /\ BatchesMove(batches, B) /\ B[b].status = "COMMITTED"
    <2>1. B \in [Batch -> BatchRow] /\ B[b].status = "COMMITTED"
      BY <1>1, Statuses DEF BatchRow
    <2>2. BatchesMove(batches, B)
      BY <1>1, <1>2 DEF BatchesMove
    <2> QED BY <2>1, <2>2
  <1>13. \A w \in Work : status(w) \in {"SUCCEEDED", "FAILED"}
    OBVIOUS
  <1>14. \A w \in good : status(w) = "SUCCEEDED"
    OBVIOUS
  <1> HIDE DEF status
  <1>15. /\ \A w \in Work : A[b][w] = IF w \in Members(b)
                                      THEN [attempts[b][w] EXCEPT !.status = status(w)]
                                      ELSE attempts[b][w]
         /\ \A c \in Batch \ {b} : A[c] = attempts[c]
    BY <1>1 DEF MemberRows
  <1>16. A \in [Batch -> [Work -> AttemptRow]]
    <2>1. \A w \in Work : [attempts[b][w] EXCEPT !.status = status(w)] \in AttemptRow
      BY <1>1, <1>13, AttemptRowUpdates, Statuses
    <2> QED BY <1>1, <2>1 DEF MemberRows
  <1> HIDE DEF W, A, B
  <1>17. WorkMoves(work, W)
    <2>1. ASSUME NEW w \in Work, W[w] # work[w]
          PROVE  /\ W[w].status \notin {"ABSENT", "LEASED"} /\ W[w].fence >= work[w].fence
                 /\ W[w].generation = work[w].generation /\ work[w].status # "SUCCEEDED"
      <3>1. w \in Members(b) /\ work[w].fence \in Nat
        BY <1>1, <1>10, <2>1 DEF WorkRow
      <3>2. CASE w \in good
        BY <1>2, <1>8, <1>10, <3>1, <3>2
      <3>3. CASE w \notin good
        <4>1. W[w] = Retried(w, clock, "failed")
          BY <1>10, <3>1, <3>3
        <4> QED BY <1>2, <1>9, <3>1, <4>1
      <3> QED BY <3>2, <3>3
    <2> QED BY <2>1 DEF WorkMoves
  <1>18. ASSUME NEW c \in Batch, NEW w \in Work, A[c][w] # attempts[c][w]
         PROVE  /\ c = b /\ attempts[c][w].status = "SEALED"
                /\ A[c][w].status \in {"SUCCEEDED", "FAILED"}
                /\ A[c][w].fence = attempts[c][w].fence
    <2>1. c = b /\ w \in Members(b) /\ A[b][w] = [attempts[b][w] EXCEPT !.status = status(w)]
      BY <1>15, <1>18
    <2> QED BY <1>1, <1>2, <1>13, <2>1 DEF AttemptRow
  <1>19. AttemptsMove(attempts, A)
    BY <1>18 DEF AttemptsMove
  <1>20. Sound(work, B, attempts, publications)
    BY <1>1, <1>12, BatchesWritten
  <1>21. Sound(work, B, A, publications)
    <2>1. \A c \in Batch, w \in Work :
             \/ A[c][w] = attempts[c][w]
             \/ A[c][w].status \in {"SUCCEEDED", "FAILED"} /\ B[c].status = "COMMITTED"
      BY <1>12, <1>18
    <2> QED BY <1>16, <1>19, <1>20, <2>1, AttemptsWritten
  <1>22. Sound(W, B, A, publications)
    BY <1>11, <1>17, <1>21, WorkWritten
  <1>23. ASSUME NEW w \in good
         PROVE  /\ row(w) \in Publication /\ row(w).work = w /\ row(w).batch = b
                /\ row(w).seq = seq(w) /\ row(w).output = attempts[b][w].output
                /\ A[b][w].status = "SUCCEEDED" /\ A[b][w].ok
                /\ A[b][w].output = attempts[b][w].output
                /\ W[w].status = "SUCCEEDED"
                /\ Cardinality({p \in publications : p.work = w}) <= W[w].generation
    <2>1. w \in Work /\ w \in Members(b)
      BY <1>4, <1>8, <1>23
    <2>2. attempts[b][w].status = "SEALED" /\ attempts[b][w] \in AttemptRow
      BY <1>1, <1>2, <2>1
    <2>3. attempts[b][w].output \in Output
      <3>1. attempts[b][w].output # None
        BY <1>1, <2>1, <2>2 DEF Sound, Settled
      <3> QED BY <2>2, <3>1 DEF AttemptRow
    <2>4. row(w) \in Publication /\ row(w).work = w /\ row(w).batch = b
          /\ row(w).seq = seq(w) /\ row(w).output = attempts[b][w].output
      BY <1>6, <1>23, <2>1, <2>3 DEF Publication
    <2>5. A[b][w] = [attempts[b][w] EXCEPT !.status = "SUCCEEDED"]
      BY <1>14, <1>15, <1>23, <2>1
    <2>6. /\ A[b][w].status = "SUCCEEDED" /\ A[b][w].ok = attempts[b][w].ok
          /\ A[b][w].output = attempts[b][w].output
      BY <2>2, <2>5 DEF AttemptRow
    <2>7. W[w] = winner(w)
      BY <1>10, <1>23, <2>1
    <2>8. W[w].status = "SUCCEEDED" /\ W[w].generation = work[w].generation
      BY <1>8, <1>23, <2>7
    <2> DEFINE n == Cardinality({p \in publications : p.work = w})
               g == work[w].generation
    <2>9. n <= g
      <3>1. n <= g + (IF work[w].status = "SUCCEEDED" THEN 1 ELSE 0)
        BY <1>1, <2>1 DEF Sound, Counted
      <3>2. work[w].status = "LEASED" /\ g \in Nat
        BY <1>1, <1>8, <1>23 DEF WorkRow
      <3> HIDE DEF n, g
      <3>3. n <= g + 0
        BY <3>1, <3>2
      <3> QED BY <3>2, <3>3
    <2> HIDE DEF row
    <2> QED BY <1>8, <1>23, <2>4, <2>6, <2>8, <2>9
  <1>24. Sound(W, B, A, P)
    <2> DEFINE R == {row(w) : w \in good}
               n == LastSequence + Cardinality(good)
    <2>1. Cardinality(good) \in Nat /\ n \in Nat
      <3>1. Cardinality(good) \in Nat
        BY <1>4, ControlStoreAssumption, FS_Subset, FS_CardinalityType
      <3> QED BY <1>5, <3>1
    <2>2. R \in SUBSET Publication
      BY <1>23
    <2>3. \A r \in R : r.work \in good /\ r = row(r.work)
      BY <1>23
    <2> HIDE DEF R, n
    <2>4. ASSUME NEW r \in R
          PROVE  /\ A[r.batch][r.work].status = "SUCCEEDED"
                 /\ A[r.batch][r.work].ok
                 /\ A[r.batch][r.work].output = r.output
                 /\ W[r.work].status = "SUCCEEDED"
                 /\ Cardinality({p \in publications : p.work = r.work}) <= W[r.work].generation
                 /\ r.seq <= n
                 /\ \A p \in publications : p.seq < r.seq
      <3> DEFINE w == r.work
      <3>1. w \in good /\ r = row(w)
        BY <2>3, <2>4
      <3> HIDE DEF w, row
      <3>2. r.batch = b /\ r.seq = seq(w) /\ r.output = attempts[b][w].output
        BY <1>23, <3>1
      <3>3. r.seq <= n
        BY <1>6, <3>1, <3>2 DEF n
      <3>4. \A p \in publications : p.seq < r.seq
        <4>1. \A p \in publications : p.seq \in Nat
          BY <1>1 DEF Publication
        <4> QED BY <1>5, <1>6, <3>1, <3>2, <4>1
      <3>5. /\ A[b][w].status = "SUCCEEDED" /\ A[b][w].ok
            /\ A[b][w].output = attempts[b][w].output
            /\ W[w].status = "SUCCEEDED"
            /\ Cardinality({p \in publications : p.work = w}) <= W[w].generation
        BY <1>23, <3>1
      <3> QED BY <3>2, <3>3, <3>4, <3>5 DEF w
    <2>5. ASSUME NEW q \in R, NEW r \in R, q.work = r.work \/ q.seq = r.seq
          PROVE  q = r
      <3>1. /\ q.work \in good /\ q = row(q.work) /\ q.seq = seq(q.work)
            /\ r.work \in good /\ r = row(r.work) /\ r.seq = seq(r.work)
        BY <1>23, <2>3, <2>5
      <3>2. q.work = r.work
        BY <1>7, <2>5, <3>1
      <3> QED BY <3>1, <3>2
    <2>6. Sound(W, B, A, publications \cup R)
      BY <1>22, <2>1, <2>2, <2>4, <2>5, PublicationsWritten
    <2> QED BY <2>6 DEF R
  <1>25. publications \subseteq P
    OBVIOUS
  <1> HIDE DEF P
  <1>26. FinishedKept(Current, new)
    BY <1>3, <1>12, <1>17, <1>19, <1>25, MovesKeepFinished DEF AttemptsMove
  <1> QED BY <1>1, <1>2, <1>3, <1>20, <1>21, <1>22, <1>24, <1>26, WriteCommit


-----------------------------------------------------------------------------
(* The inductive invariant *)

\* When no operation is under way the invariant is about the tables alone.
LEMMA BetweenOperations ==
    ASSUME clock' \in Nat, pending' = <<>>, next' = Current',
           Sound(work', batches', attempts', publications')
    PROVE  FInv'
  <1>1. pending' \in Seq(TableName) /\ Len(pending') = 0
    OBVIOUS
  <1>2. \A k \in 0..Len(pending') : k = 0
    BY <1>1
  <1> DEFINE T == Partly(Current', pending', next', 0)
  <1>3. T.work = work' /\ T.batches = batches' /\ T.attempts = attempts'
        /\ T.publications = publications'
    BY DEF Partly, Current, TableName
  <1>4. Sound(T.work, T.batches, T.attempts, T.publications)
    BY <1>3
  <1> HIDE DEF T
  <1>5. \A k \in 0..Len(pending') :
           LET U == Partly(Current', pending', next', k)
           IN  Sound(U.work, U.batches, U.attempts, U.publications)
    BY <1>2, <1>4 DEF T
  <1>6. FinishedKept(Current', next')
    BY DEF FinishedKept
  <1> QED BY <1>1, <1>5, <1>6 DEF FInv

\* The empty tables are sound.
LEMMA InitFInv == FInit => FInv
  <1> SUFFICES ASSUME FInit PROVE FInv
    OBVIOUS
  <1> USE DEF FInit, Init, NoWork, NoBatch, NoAttempt
  <1>1. TablesOK(work, batches, attempts, publications)
    <2>1. /\ work \in [Work -> WorkRow] /\ batches \in [Batch -> BatchRow]
          /\ attempts \in [Batch -> [Work -> AttemptRow]]
          /\ publications \in SUBSET Publication
      BY InitIInv DEF IInv, TypeOK
    <2>2. 0 \in Nat /\ \A p \in publications : p.seq <= 0
      OBVIOUS
    <2>3. \A w \in Work : {p \in publications : p.work = w} = {}
      OBVIOUS
    <2> QED BY <2>1, <2>2, <2>3, FS_EmptySet DEF TablesOK
  <1>2. Fenced(work, attempts) /\ Settled(batches, attempts) /\ Published(attempts, publications)
    BY DEF Fenced, Settled, Published
  <1>3. Counted(work, publications)
    <2>1. \A w \in Work : {p \in publications : p.work = w} = {}
      OBVIOUS
    <2> QED BY <2>1, FS_EmptySet DEF Counted
  <1>4. Sound(work, batches, attempts, publications)
    BY <1>1, <1>2, <1>3 DEF Sound
  <1>5. pending = <<>> /\ pending \in Seq(TableName) /\ Len(pending) = 0 /\ next = Current
    OBVIOUS
  <1> DEFINE T == Partly(Current, pending, next, 0)
  <1>6. T.work = work /\ T.batches = batches /\ T.attempts = attempts
        /\ T.publications = publications
    BY DEF Partly, Current, TableName
  <1>7. Sound(T.work, T.batches, T.attempts, T.publications)
    BY <1>4, <1>6
  <1> HIDE DEF T
  <1>8. \A k \in 0..Len(pending) : k = 0
    BY <1>5
  <1>9. \A k \in 0..Len(pending) :
           LET U == Partly(Current, pending, next, k)
           IN  Sound(U.work, U.batches, U.attempts, U.publications)
    BY <1>7, <1>8 DEF T
  <1>10. FinishedKept(Current, next) /\ clock \in Nat
    BY <1>5 DEF FinishedKept
  <1> QED BY <1>5, <1>9, <1>10 DEF FInv

\* The operations, by what they start with.
LEMMA OperationsKeep ==
    ASSUME FInv,
           \/ \E S \in SUBSET Work, now \in ReadClock :
                 \E request \in [S -> Content] : FRegister(S, request, now)
           \/ \E b \in Batch :
                 \/ \E call \in ClaimCall : FClaim(b, call)
                 \/ FHeartbeat(b)
                 \/ \E result \in Results(b) : FSeal(b, result)
                 \/ FCommit(b)
                 \/ \E operator \in Operator : AbandonFailedClaim(b, operator)
                 \/ \E w \in Work : RecoverExact(b, w)
           \/ \E now \in 0..MaxTime : FRecover(now)
           \/ \E w \in Work, operator \in Operator, extra \in 1..MaxExtra :
                 FReplay(w, operator, extra)
           \/ \E S \in SUBSET Work, operator \in Operator :
                 \E expected \in [S -> {c.release : c \in Content}] :
                    FQuarantine(expected, operator)
    PROVE  FInv' /\ UNCHANGED vars
  <1>1. ReadClock \subseteq Nat /\ 0..MaxTime \subseteq Nat /\ 1..MaxExtra \subseteq Nat
    BY ControlStoreAssumption DEF FInv, ReadClock
  <1>2. FInv'
    BY <1>1, RegisterKeeps, ClaimKeeps, HeartbeatKeeps, SealKeeps, CommitKeeps, AbandonKeeps,
       RecoverExactKeeps, RecoverKeeps, ReplayKeeps, QuarantineKeeps
  <1>3. UNCHANGED vars
    <2>1. \A order, new : Run(order, new) => UNCHANGED vars
      BY DEF Run
    <2>2. /\ \A S, request, now : FRegister(S, request, now) => UNCHANGED vars
          /\ \A w, operator, extra : FReplay(w, operator, extra) => UNCHANGED vars
          /\ \A expected, operator : FQuarantine(expected, operator) => UNCHANGED vars
          /\ \A now : FRecover(now) => UNCHANGED vars
      BY <2>1 DEF FRegister, FReplay, FQuarantine, FRecover
    <2>3. \A b, call : FClaim(b, call) => UNCHANGED vars
      BY <2>1 DEF FClaim
    <2>4. \A b : FHeartbeat(b) => UNCHANGED vars
      BY <2>1 DEF FHeartbeat
    <2>5. \A b, result : FSeal(b, result) => UNCHANGED vars
      BY <2>1 DEF FSeal
    <2>6. \A b : FCommit(b) => UNCHANGED vars
      BY <2>1 DEF FCommit
    <2>7. \A b, operator : AbandonFailedClaim(b, operator) => UNCHANGED vars
      BY <2>1 DEF AbandonFailedClaim
    <2>8. \A b, w : RecoverExact(b, w) => UNCHANGED vars
      BY <2>1 DEF RecoverExact
    <2> QED BY <2>2, <2>3, <2>4, <2>5, <2>6, <2>7, <2>8
  <1> QED BY <1>2, <1>3

\* Every step keeps the invariant and what is finished.
LEMMA NextFInv ==
    ASSUME FInv, [FNext]_fvars
    PROVE  FInv' /\ FinishedKept(Current, Current')
  <1>1. UNCHANGED vars => FinishedKept(Current, Current')
    <2>1. UNCHANGED vars => Current' = Current
      BY DEF vars, Current
    <2>2. FinishedKept(Current, Current)
      BY DEF FinishedKept
    <2> QED BY <2>1, <2>2
  <1>2. CASE Replace
    BY <1>2, ReplaceKeeps
  <1>3. CASE FailHalfWay
    <2>1. /\ clock' = clock /\ work' = work /\ batches' = batches /\ attempts' = attempts
          /\ publications' = publications /\ replays' = replays
          /\ pending' = <<>> /\ next' = Current
      BY <1>3 DEF FailHalfWay, vars
    <2>2. Current' = Current
      BY <2>1 DEF Current
    <2>3. FInv'
      BY <2>1, <2>2, TablesNow, BetweenOperations
    <2> QED BY <1>1, <1>3, <2>3 DEF FailHalfWay
  <1>4. CASE ClearStaleLock \/ FTick \/ UNCHANGED fvars
    <2>1. /\ clock' \in Nat /\ work' = work /\ batches' = batches /\ attempts' = attempts
          /\ publications' = publications /\ replays' = replays
          /\ pending' = pending /\ next' = next
      <3>1. clock \in Nat
        BY DEF FInv
      <3> QED BY <1>4, <3>1 DEF ClearStaleLock, FTick, Tick, fvars, vars
    <2>2. Current' = Current
      BY <2>1 DEF Current
    <2>3. FInv'
      BY <2>1, <2>2 DEF FInv
    <2>4. FinishedKept(Current, Current')
      BY <2>2 DEF FinishedKept
    <2> QED BY <2>3, <2>4
  <1>5. CASE ~(Replace \/ FailHalfWay \/ ClearStaleLock \/ FTick \/ UNCHANGED fvars)
    <2>1. FInv' /\ UNCHANGED vars
      BY <1>5, OperationsKeep DEF FNext
    <2> QED BY <1>1, <2>1
  <1> QED BY <1>2, <1>3, <1>4, <1>5

-----------------------------------------------------------------------------
(* Theorems *)

\* Wherever the operation under way stops, at whatever write, by whoever's
\* crash, it leaves tables on which every later operation can go on.
THEOREM FabricInvariance == FSpec => []FInv
  <1>1. FInit => FInv
    BY InitFInv
  <1>2. FInv /\ [FNext]_fvars => FInv'
    BY NextFInv
  <1> QED BY <1>1, <1>2, PTL DEF FSpec

\* However many operations stopped half way, fences stay unique, a publication
\* is the output that a winning attempt sealed, under a sequence of its own,
\* and no work is published twice in one generation.
THEOREM TornTablesAreSound == FSpec => []TornTablesStaySound
  <1>1. ASSUME FInv PROVE TornTablesStaySound
    <2>1. Sound(work, batches, attempts, publications)
      BY <1>1, TablesNow
    <2>2. FencesAreUnique
      BY <2>1 DEF Sound, Fenced, FencesAreUnique
    <2>3. PublicationsAreSealedOutputs
      BY <2>1 DEF Sound, Published, PublicationsAreSealedOutputs
    <2>4. OnePublicationPerReplay
      <3>1. ASSUME NEW w \in Work
            PROVE  Cardinality({p \in publications : p.work = w}) <= work[w].generation + 1
        <4> DEFINE n == Cardinality({p \in publications : p.work = w})
                   g == work[w].generation
        <4>1. n <= g + (IF work[w].status = "SUCCEEDED" THEN 1 ELSE 0)
          BY <2>1, <3>1 DEF Sound, Counted
        <4>2. n \in Nat
          BY <2>1, <3>1, FS_CardinalityType DEF Sound, TablesOK
        <4>3. g \in Nat
          BY <2>1, <3>1 DEF Sound, TablesOK, WorkRow
        <4> HIDE DEF n, g
        <4>4. n <= g + 1
          BY <4>1, <4>2, <4>3
        <4> QED BY <4>4 DEF n, g
      <3> QED BY <3>1 DEF OnePublicationPerReplay
    <2> QED BY <2>2, <2>3, <2>4 DEF TornTablesStaySound
  <1> QED BY <1>1, FabricInvariance, PTL

\* Finished attempts and batches never change, publications are only added,
\* and a succeeded work leaves that status by replay alone, also when recovery
\* meets what a commit left half written.
THEOREM FinishedIsFinal == FSpec => FinishedStaysFinished
  <1> DEFINE Final ==
        /\ \A b \in Batch, w \in Work :
              attempts[b][w].status \in {"SUCCEEDED", "FAILED", "EXPIRED"} =>
                 attempts'[b][w] = attempts[b][w]
        /\ \A b \in Batch : batches[b].status \in {"COMMITTED", "EXPIRED"} =>
              batches'[b] = batches[b]
        /\ publications \subseteq publications'
        /\ \A w \in Status("SUCCEEDED") :
              work'[w] = work[w] \/ work'[w].generation = work[w].generation + 1
  <1>1. ASSUME FInv, [FNext]_fvars PROVE Final
    <2>1. FinishedKept(Current, Current')
      BY <1>1, NextFInv
    <2>2. /\ Current.work = work /\ Current.batches = batches /\ Current.attempts = attempts
          /\ Current.publications = publications
      BY DEF Current
    <2>3. /\ Current'.work = work' /\ Current'.batches = batches'
          /\ Current'.attempts = attempts' /\ Current'.publications = publications'
      BY DEF Current
    <2> QED BY <2>1, <2>2, <2>3 DEF FinishedKept, Status
  <1>2. FInv /\ [FNext]_fvars => [Final]_fvars
    BY <1>1
  <1> QED BY <1>2, FabricInvariance, PTL DEF FSpec, FinishedStaysFinished
=============================================================================
