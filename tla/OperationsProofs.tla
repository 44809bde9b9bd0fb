-------------------------- MODULE OperationsProofs --------------------------
(***************************************************************************)
(* What TLAPS proves of the work around the jobs: deployments made by      *)
(* hand, the retirement of the former control plane, and the publication   *)
(* of videos and manifests.                                                *)
(***************************************************************************)
EXTENDS DeployOperations, Cutover, Publisher, RuntimeReconciler, SequenceTheorems, TLAPS

-----------------------------------------------------------------------------
(* DeployOperations *)

\* A joined sequence holds what its parts hold.
LEMMA ConcatKnows ==
    ASSUME NEW S, NEW s \in Seq(S), NEW t \in Seq(S)
    PROVE  /\ s \o t \in Seq(S) /\ Len(s \o t) = Len(s) + Len(t)
           /\ ToSet(s) \cup ToSet(t) \subseteq ToSet(s \o t)
  <1>1. /\ s \o t \in Seq(S) /\ Len(s \o t) = Len(s) + Len(t)
        /\ \A i \in 1..Len(s) : i \in 1..Len(s \o t) /\ (s \o t)[i] = s[i]
        /\ \A i \in 1..Len(t) : Len(s) + i \in 1..Len(s \o t) /\ (s \o t)[Len(s) + i] = t[i]
    OBVIOUS
  <1>2. DOMAIN s = 1..Len(s) /\ DOMAIN t = 1..Len(t) /\ DOMAIN (s \o t) = 1..Len(s \o t)
    OBVIOUS
  <1> DEFINE st == s \o t
  <1> HIDE DEF st
  <1>3. /\ \A i \in 1..Len(s) : i \in DOMAIN st /\ st[i] = s[i]
        /\ \A i \in 1..Len(t) : Len(s) + i \in DOMAIN st /\ st[Len(s) + i] = t[i]
    BY <1>1, <1>2 DEF st
  <1>4. ToSet(s) \cup ToSet(t) \subseteq ToSet(st)
    BY <1>2, <1>3 DEF ToSet
  <1> QED BY <1>1, <1>4 DEF st

LEMMA TargetsType ==
    ASSUME NEW what, NEW S, NEW kinds \in Seq(S), NEW T, \A k \in S : [what |-> what, kind |-> k] \in T
    PROVE  /\ Targets(what, kinds) \in Seq(T) /\ Len(Targets(what, kinds)) = Len(kinds)
           /\ \A k \in ToSet(kinds) : [what |-> what, kind |-> k] \in ToSet(Targets(what, kinds))
  <1>1. DOMAIN kinds = 1..Len(kinds) /\ Len(kinds) \in Nat /\ \A i \in 1..Len(kinds) : kinds[i] \in S
    OBVIOUS
  <1>2. Targets(what, kinds) \in [1..Len(kinds) -> T]
    BY <1>1 DEF Targets
  <1>3. \A k \in ToSet(kinds) : [what |-> what, kind |-> k] \in ToSet(Targets(what, kinds))
    BY DEF Targets, ToSet
  <1> HIDE DEF Targets
  <1> QED BY <1>1, <1>2, <1>3, LenProperties

\* The run goes through every item and every schedule.
LEMMA AllAreTargets ==
    /\ Targeted \in Seq(Aims) /\ Len(Targeted) \in Nat \ {0} /\ ToSet(Targeted) \subseteq Aims
    /\ \A k \in ToSet(ItemKinds) : [what |-> "item", kind |-> k] \in ToSet(Targeted)
    /\ \A k \in ToSet(ScheduleKinds) : [what |-> "schedule", kind |-> k] \in ToSet(Targeted)
    /\ \A what \in {"intake", "notebook"} : [what |-> what, kind |-> None] \in ToSet(Targeted)
  <1> DEFINE a == <<[what |-> "compute", kind |-> None]>>
             b == Targets("item", ItemKinds)
             c == <<[what |-> "intake", kind |-> None], [what |-> "notebook", kind |-> None]>>
             d == Targets("schedule", ScheduleKinds)
  <1>1. a \in Seq(Aims) /\ Len(a) = 1
    BY DEF Aims
  <1>2. c \in Seq(Aims) /\ \A what \in {"intake", "notebook"} : [what |-> what, kind |-> None] \in ToSet(c)
    <2>1. c \in Seq(Aims) /\ c = <<c[1], c[2]>> /\ DOMAIN c = 1..2
      BY DEF Aims
    <2>2. c[1] = [what |-> "intake", kind |-> None] /\ c[2] = [what |-> "notebook", kind |-> None]
      OBVIOUS
    <2> HIDE DEF c
    <2> QED BY <2>1, <2>2 DEF ToSet
  <1>3. b \in Seq(Aims) /\ \A k \in ToSet(ItemKinds) : [what |-> "item", kind |-> k] \in ToSet(b)
    <2>1. \A k \in ToSet(ItemKinds) : [what |-> "item", kind |-> k] \in Aims
      BY DEF Aims
    <2> QED BY <2>1, KindsAssumption, TargetsType
  <1>4. d \in Seq(Aims) /\ \A k \in ToSet(ScheduleKinds) : [what |-> "schedule", kind |-> k] \in ToSet(d)
    <2>1. \A k \in ToSet(ScheduleKinds) : [what |-> "schedule", kind |-> k] \in Aims
      BY DEF Aims
    <2> QED BY <2>1, KindsAssumption, TargetsType
  <1>5. Targeted = ((a \o b) \o c) \o d
    BY DEF Targeted
  <1> HIDE DEF a, b, c, d
  <1> DEFINE ab == a \o b
             abc == ab \o c
  <1>6. ab \in Seq(Aims) /\ Len(ab) = Len(a) + Len(b) /\ ToSet(a) \cup ToSet(b) \subseteq ToSet(ab)
    BY <1>1, <1>3, ConcatKnows
  <1> HIDE DEF ab
  <1>7. abc \in Seq(Aims) /\ Len(abc) = Len(ab) + Len(c) /\ ToSet(ab) \cup ToSet(c) \subseteq ToSet(abc)
    BY <1>2, <1>6, ConcatKnows
  <1>8. Targeted = abc \o d
    BY <1>5 DEF ab
  <1> HIDE DEF abc
  <1>9. /\ Targeted \in Seq(Aims) /\ Len(Targeted) = Len(abc) + Len(d)
        /\ ToSet(abc) \cup ToSet(d) \subseteq ToSet(Targeted)
    BY <1>4, <1>7, <1>8, ConcatKnows
  <1>10. Len(b) \in Nat /\ Len(c) \in Nat /\ Len(d) \in Nat
    BY <1>2, <1>3, <1>4
  <1>11. Len(Targeted) \in Nat \ {0}
    BY <1>1, <1>6, <1>7, <1>9, <1>10
  <1>12. ToSet(Targeted) \subseteq Aims
    BY <1>9 DEF ToSet
  <1> QED BY <1>2, <1>3, <1>4, <1>6, <1>7, <1>9, <1>11, <1>12


LEMMA PutType ==
    ASSUME NEW X, NEW list \in Seq(X), NEW new \in X, NEW index \in Nat
    PROVE  /\ Put(list, index, new) \in Seq(X)
           /\ Len(list) <= 1 /\ index = Len(list) => Put(list, index, new) = <<new>>
  <1>1. CASE index = 0
    <2>1. Put(list, index, new) = Append(list, new)
      BY <1>1 DEF Put
    <2>2. Append(list, new) \in Seq(X)
      OBVIOUS
    <2>3. ASSUME Len(list) = 0 PROVE Append(list, new) = <<new>>
      <3>1. list = <<>>
        BY <2>3
      <3> QED BY <3>1
    <2> QED BY <1>1, <2>1, <2>2, <2>3
  <1>2. CASE index # 0
    <2> DEFINE put == [list EXCEPT ![index] = new]
    <2>1. Put(list, index, new) = put
      BY <1>2 DEF Put
    <2>2. put \in Seq(X) /\ Len(put) = Len(list)
      <3>1. list \in [1..Len(list) -> X] /\ Len(list) \in Nat
        OBVIOUS
      <3>2. put \in [1..Len(list) -> X]
        BY <3>1
      <3> HIDE DEF put
      <3> QED BY <3>1, <3>2, LenProperties
    <2>3. ASSUME Len(list) <= 1, index = Len(list) PROVE put = <<new>>
      <3>1. Len(list) = 1 /\ index = 1 /\ DOMAIN list = 1..1
        BY <1>2, <2>3
      <3>2. put[1] = new
        BY <3>1
      <3> HIDE DEF put
      <3> QED BY <2>2, <3>1, <3>2
    <2> QED BY <2>1, <2>2, <2>3
  <1> QED BY <1>1, <1>2

\* What each kind of request changes.
LEMMA AppliedIs ==
    ASSUME workspace \in Workspaces, NEW q \in Requests, IsWrite(q)
    PROVE  /\ Applied(q) \in Workspaces
           /\ q.what = "item" =>
                /\ Applied(q).item = [workspace.item EXCEPT ![q.kind] =
                                        Put(workspace.item[q.kind], q.index, q.build)]
                /\ Applied(q).schedule = workspace.schedule
                /\ Applied(q).intake = workspace.intake /\ Applied(q).notebook = workspace.notebook
           /\ q.what = "schedule" =>
                /\ Applied(q).schedule =
                      [workspace.schedule EXCEPT ![q.kind] =
                          Put(workspace.schedule[q.kind], q.index,
                              [enabled |-> q.enabled, build |-> q.build])]
                /\ Applied(q).item = workspace.item
                /\ Applied(q).intake = workspace.intake /\ Applied(q).notebook = workspace.notebook
           /\ q.what = "intake" =>
                /\ Applied(q).intake = q.build
                /\ Applied(q).item = workspace.item /\ Applied(q).schedule = workspace.schedule
                /\ Applied(q).notebook = workspace.notebook
           /\ q.what = "notebook" =>
                /\ Applied(q).notebook = "bound"
                /\ Applied(q).item = workspace.item /\ Applied(q).schedule = workspace.schedule
                /\ Applied(q).intake = workspace.intake
  <1>1. q.index \in Nat /\ q.build \in Build /\ q.enabled \in BOOLEAN
    BY DEF Requests
  <1>2. CASE q.what = "item"
    <2> DEFINE list == Put(workspace.item[q.kind], q.index, q.build)
               new == [workspace.item EXCEPT ![q.kind] = list]
    <2>1. q.kind \in ToSet(ItemKinds) /\ workspace.item[q.kind] \in Seq(Build)
      BY <1>2 DEF IsWrite, Workspaces
    <2>2. list \in Seq(Build)
      BY <1>1, <2>1, PutType
    <2> HIDE DEF list
    <2>3. new \in [ToSet(ItemKinds) -> Seq(Build)]
      BY <2>2 DEF Workspaces
    <2>4. Applied(q) = [workspace EXCEPT !["item"] = new]
      BY <1>2 DEF Applied, Written, list
    <2> HIDE DEF new
    <2>5. /\ Applied(q) \in Workspaces /\ Applied(q).item = new
          /\ Applied(q).schedule = workspace.schedule
          /\ Applied(q).intake = workspace.intake /\ Applied(q).notebook = workspace.notebook
      BY <2>3, <2>4 DEF Workspaces
    <2> QED BY <1>2, <2>5 DEF new, list
  <1>3. CASE q.what = "schedule"
    <2> DEFINE set == [enabled |-> q.enabled, build |-> q.build]
               list == Put(workspace.schedule[q.kind], q.index, set)
               new == [workspace.schedule EXCEPT ![q.kind] = list]
    <2>1. /\ q.kind \in ToSet(ScheduleKinds) /\ workspace.schedule[q.kind] \in Seq(Settings)
          /\ set \in Settings
      BY <1>1, <1>3 DEF IsWrite, Workspaces, Settings
    <2>2. list \in Seq(Settings)
      BY <1>1, <2>1, PutType
    <2>3. Applied(q) = [workspace EXCEPT !["schedule"] = new]
      BY <1>3 DEF Applied, Written
    <2> HIDE DEF list, set
    <2>4. new \in [ToSet(ScheduleKinds) -> Seq(Settings)]
      BY <2>2 DEF Workspaces
    <2> HIDE DEF new
    <2>5. /\ Applied(q) \in Workspaces /\ Applied(q).schedule = new
          /\ Applied(q).item = workspace.item
          /\ Applied(q).intake = workspace.intake /\ Applied(q).notebook = workspace.notebook
      BY <2>3, <2>4 DEF Workspaces
    <2> QED BY <1>3, <2>5 DEF new, list, set
  <1>4. CASE q.what = "intake"
    <2>1. Applied(q) = [workspace EXCEPT !["intake"] = q.build]
      BY <1>4 DEF Applied, Written
    <2> QED BY <1>1, <1>4, <2>1 DEF Workspaces
  <1>5. CASE q.what = "notebook"
    <2>1. Applied(q) = [workspace EXCEPT !["notebook"] = "bound"]
      BY <1>5 DEF Applied, Written
    <2> QED BY <1>5, <2>1 DEF Workspaces
  <1> QED BY <1>2, <1>3, <1>4, <1>5 DEF IsWrite

LEMMA TargetType ==
    ASSUME DOInv, NEW d \in Deployment
    PROVE  Target(d) \in Aims /\ deploys[d] \in Runs
  <1>1. deploys[d] \in Runs
    BY DEF DOInv, DOTypeOK
  <1>2. deploys[d].at \in 1..Len(Targeted)
    BY <1>1 DEF Runs
  <1> QED BY <1>1, <1>2, AllAreTargets DEF Target

LEMMA RequestIs ==
    ASSUME DOInv, NEW d \in Deployment, deploys[d].phase = "write"
    PROVE  /\ Request(d) \in Requests /\ IsWrite(Request(d)) /\ Request(d).by = d
           /\ Request(d).what = Target(d).what /\ Request(d).kind = Target(d).kind
           /\ Request(d).index = deploys[d].index /\ Request(d).build = deploys[d].build
           /\ Request(d).enabled = deploys[d].enable
  <1>1. /\ Target(d) \in Aims /\ Target(d).what # "compute"
        /\ deploys[d].build \in Build /\ deploys[d].index \in Nat /\ deploys[d].enable \in BOOLEAN
    BY TargetType DEF DOInv, Runs
  <1>2. /\ Target(d).what \in {"intake", "notebook", "item", "schedule"}
        /\ Target(d).kind \in ToSet(ItemKinds) \cup ToSet(ScheduleKinds) \cup {None}
        /\ Target(d).what = "item" => Target(d).kind \in ToSet(ItemKinds)
        /\ Target(d).what = "schedule" => Target(d).kind \in ToSet(ScheduleKinds)
    BY <1>1 DEF Aims
  <1> QED BY <1>1, <1>2 DEF Request, Requests, IsWrite

\* Its own request puts a target in place and leaves the others there.
LEMMA WriteKnows ==
    ASSUME DOInv, NEW d \in undisturbed, deploys[d].phase = "write",
           workspace' = Applied(Request(d)),
           deploys'[d].build = deploys[d].build, deploys'[d].enable = deploys[d].enable,
           NEW t \in Aims, t = Target(d) \/ InPlace(d, t)
    PROVE  InPlace(d, t)'
  <1>0. d \in Deployment /\ workspace \in Workspaces
    BY DEF DOInv, DOTypeOK
  <1> DEFINE q == Request(d)
             k == q.kind
             build == deploys[d].build
             set == [enabled |-> deploys[d].enable, build |-> build]
  <1>1. /\ q \in Requests /\ IsWrite(q) /\ q.what = Target(d).what /\ k = Target(d).kind
        /\ q.index = deploys[d].index /\ q.build = build /\ q.enabled = deploys[d].enable
    BY <1>0, RequestIs
  <1>2. /\ KnowsWorkspace(d) /\ build \in Build /\ set \in Settings /\ q.index \in Nat
        /\ Target(d) \in Aims
    BY <1>0, <1>1, TargetType DEF DOInv, Runs, Requests, Settings
  <1>3. workspace' = Applied(q)
    OBVIOUS
  <1> HIDE DEF q
  <1>4. CASE q.what = "item"
    <2>1. /\ Len(workspace.item[k]) <= 1 /\ q.index = Len(workspace.item[k])
          /\ k \in ToSet(ItemKinds) /\ workspace.item[k] \in Seq(Build)
      BY <1>0, <1>1, <1>2, <1>4 DEF KnowsWorkspace, Found, IsWrite, Workspaces
    <2>2. Put(workspace.item[k], q.index, q.build) = <<build>>
      BY <1>1, <1>2, <2>1, PutType
    <2>3. /\ workspace'.item = [workspace.item EXCEPT ![k] = <<build>>]
          /\ workspace'.schedule = workspace.schedule
          /\ workspace'.intake = workspace.intake /\ workspace'.notebook = workspace.notebook
      BY <1>0, <1>1, <1>3, <1>4, <2>2, AppliedIs
    <2>4. workspace'.item[k] = <<build>>
      BY <1>0, <2>1, <2>3 DEF Workspaces
    <2>5. \A x \in ToSet(ItemKinds) : workspace.item[x] = <<build>> => workspace'.item[x] = <<build>>
      BY <1>0, <2>3 DEF Workspaces
    <2>6. CASE t.what = "item"
      <3>1. t.kind \in ToSet(ItemKinds) /\ (t.kind = k \/ workspace.item[t.kind] = <<build>>)
        BY <1>1, <2>6 DEF Aims, InPlace
      <3> QED BY <2>4, <2>5, <2>6, <3>1 DEF InPlace
    <2>7. CASE t.what # "item"
      BY <1>1, <1>4, <2>3, <2>7 DEF InPlace
    <2> QED BY <2>6, <2>7
  <1>5. CASE q.what = "schedule"
    <2>1. /\ Len(workspace.schedule[k]) <= 1 /\ q.index = Len(workspace.schedule[k])
          /\ k \in ToSet(ScheduleKinds) /\ workspace.schedule[k] \in Seq(Settings)
      BY <1>0, <1>1, <1>2, <1>5 DEF KnowsWorkspace, Found, IsWrite, Workspaces
    <2> DEFINE sent == [enabled |-> q.enabled, build |-> q.build]
    <2>2. Put(workspace.schedule[k], q.index, sent) = <<sent>> /\ sent = set
      <3>1. sent = set /\ sent \in Settings
        BY <1>1, <1>2
      <3> HIDE DEF sent, set, k
      <3> DEFINE list == workspace.schedule[k]
      <3>2. list \in Seq(Settings) /\ Len(list) <= 1 /\ q.index = Len(list) /\ q.index \in Nat
        BY <1>2, <2>1
      <3> HIDE DEF list
      <3>3. Put(list, q.index, sent) = <<sent>>
        BY <3>1, <3>2, PutType
      <3> QED BY <3>1, <3>3 DEF list
    <2>3. /\ workspace'.schedule = [workspace.schedule EXCEPT ![k] = <<set>>]
          /\ workspace'.item = workspace.item
          /\ workspace'.intake = workspace.intake /\ workspace'.notebook = workspace.notebook
      <3>1. /\ workspace'.schedule = [workspace.schedule EXCEPT ![k] =
                                         Put(workspace.schedule[k], q.index, sent)]
            /\ workspace'.item = workspace.item
            /\ workspace'.intake = workspace.intake /\ workspace'.notebook = workspace.notebook
        BY <1>0, <1>1, <1>3, <1>5, AppliedIs
      <3> HIDE DEF sent, set
      <3> QED BY <2>2, <3>1
    <2>4. workspace'.schedule[k] = <<set>>
      BY <1>0, <2>1, <2>3 DEF Workspaces
    <2>5. \A x \in ToSet(ScheduleKinds) : workspace.schedule[x] = <<set>> => workspace'.schedule[x] = <<set>>
      BY <1>0, <2>3 DEF Workspaces
    <2>6. CASE t.what = "schedule"
      <3>1. t.kind \in ToSet(ScheduleKinds) /\ (t.kind = k \/ workspace.schedule[t.kind] = <<set>>)
        BY <1>1, <2>6 DEF Aims, InPlace
      <3> QED BY <2>4, <2>5, <2>6, <3>1 DEF InPlace
    <2>7. CASE t.what # "schedule"
      BY <1>1, <1>5, <2>3, <2>7 DEF InPlace
    <2> QED BY <2>6, <2>7
  <1>6. CASE q.what = "intake"
    <2>1. /\ workspace'.intake = build /\ workspace'.item = workspace.item
          /\ workspace'.schedule = workspace.schedule /\ workspace'.notebook = workspace.notebook
      BY <1>0, <1>1, <1>3, <1>6, AppliedIs
    <2> QED BY <1>1, <1>6, <2>1 DEF InPlace
  <1>7. CASE q.what = "notebook"
    <2>1. /\ workspace'.notebook = "bound" /\ workspace'.item = workspace.item
          /\ workspace'.schedule = workspace.schedule /\ workspace'.intake = workspace.intake
      BY <1>0, <1>1, <1>3, <1>7, AppliedIs
    <2> QED BY <1>1, <1>7, <2>1 DEF InPlace
  <1> QED BY <1>1, <1>4, <1>5, <1>6, <1>7 DEF IsWrite


\* What a step of one run does: nobody else wrote, or only it is left of the
\* runs that nobody disturbed.
LeavesOthers(d) ==
    /\ undisturbed' \in SUBSET Deployment
    /\ \/ workspace' = workspace /\ undisturbed' \subseteq undisturbed \cup {d}
       \/ undisturbed' \subseteq {d}

SendsOnlyItsOwn(d, phase) ==
    /\ lateWrites' \in SUBSET Requests
    /\ \A q \in lateWrites' : q \in lateWrites \/ (IsWrite(q) /\ q.by = d /\ phase = "failed")

LEMMA QuietIsHarmless ==
    ASSUME DOTypeOK, NEW d \in Deployment, UNCHANGED <<workspace, lateWrites>>,
           undisturbed' = undisturbed \/ undisturbed' = undisturbed \cup {d}
    PROVE  LeavesOthers(d) /\ \A phase : SendsOnlyItsOwn(d, phase)
  <1>1. undisturbed \in SUBSET Deployment /\ lateWrites \in SUBSET Requests
    BY DEF DOTypeOK
  <1>2. undisturbed' \in SUBSET Deployment /\ undisturbed' \subseteq undisturbed \cup {d}
    BY <1>1
  <1>3. LeavesOthers(d)
    BY <1>2 DEF LeavesOthers
  <1>4. \A phase : SendsOnlyItsOwn(d, phase)
    BY <1>1 DEF SendsOnlyItsOwn
  <1> QED BY <1>3, <1>4

LEMMA RunStep ==
    ASSUME DOInv, NEW d \in Deployment, NEW row \in Runs,
           deploys' = [deploys EXCEPT ![d] = row], workspace' \in Workspaces,
           LeavesOthers(d), SendsOnlyItsOwn(d, row.phase), deploys[d].phase # "failed",
           row.phase # "idle" => row.build \in Build,
           row.phase = "write" => Targeted[row.at].what # "compute",
           d \in undisturbed' => KnowsWorkspace(d)'
    PROVE  DOInv'
  <1>1. DOTypeOK
    BY DEF DOInv
  <1>2. deploys' \in [Deployment -> Runs] /\ deploys'[d] = row /\ \A e \in Deployment \ {d} : deploys'[e] = deploys[e]
    BY <1>1 DEF DOTypeOK
  <1>3. DOTypeOK'
    BY <1>2 DEF DOTypeOK, LeavesOthers, SendsOnlyItsOwn
  <1>4. ASSUME NEW e \in Deployment
        PROVE  /\ deploys'[e].phase # "idle" => deploys'[e].build \in Build
               /\ deploys'[e].phase = "write" => Target(e)'.what # "compute"
    BY <1>2 DEF DOInv, Target
  <1>5. ASSUME NEW q \in lateWrites' PROVE IsWrite(q) /\ deploys'[q.by].phase = "failed"
    <2>1. q.by \in Deployment
      BY DEF Requests, SendsOnlyItsOwn
    <2>2. CASE q \in lateWrites
      BY <1>2, <2>1, <2>2 DEF DOInv
    <2>3. CASE q \notin lateWrites
      BY <1>2, <2>3 DEF SendsOnlyItsOwn
    <2> QED BY <2>2, <2>3
  <1>6. ASSUME NEW e \in undisturbed' PROVE KnowsWorkspace(e)'
    <2>1. CASE e # d
      <3>1. e \in undisturbed /\ e \in Deployment /\ workspace' = workspace /\ deploys'[e] = deploys[e]
        BY <1>2, <2>1 DEF LeavesOthers
      <3>2. \A t : InPlace(e, t)' = InPlace(e, t)
        BY <3>1 DEF InPlace
      <3>3. KnowsWorkspace(e)
        BY <3>1 DEF DOInv
      <3> QED BY <3>1, <3>2, <3>3 DEF KnowsWorkspace, Deploying, Found, Target
    <2> QED BY <2>1
  <1> QED BY <1>3, <1>4, <1>5, <1>6 DEF DOInv, IsWrite

\* The end, or the next target.
LEMMA NextRow ==
    ASSUME DOInv, NEW d \in Deployment, deploys' = NextTarget(d)
    PROVE  \E row \in Runs :
              /\ deploys' = [deploys EXCEPT ![d] = row]
              /\ row.build = deploys[d].build /\ row.enable = deploys[d].enable
              /\ \/ row.phase = "done" /\ deploys[d].at = Len(Targeted)
                 \/ row.phase = "read" /\ row.at = deploys[d].at + 1
  <1>1. deploys[d] \in Runs /\ deploys[d].at \in 1..Len(Targeted) /\ Len(Targeted) \in Nat
    BY TargetType, AllAreTargets DEF Runs
  <1>2. CASE deploys[d].at = Len(Targeted)
    <2> DEFINE row == [deploys[d] EXCEPT !.phase = "done"]
    <2>1. row \in Runs /\ row.build = deploys[d].build /\ row.enable = deploys[d].enable /\ row.phase = "done"
      BY <1>1 DEF Runs
    <2>2. deploys' = [deploys EXCEPT ![d] = row]
      BY <1>2 DEF NextTarget
    <2> HIDE DEF row
    <2> QED BY <1>2, <2>1, <2>2
  <1>3. CASE deploys[d].at # Len(Targeted)
    <2> DEFINE at == deploys[d].at + 1
               row == [deploys[d] EXCEPT !.phase = "read", !.at = at]
    <2>1. at \in 1..Len(Targeted)
      BY <1>1, <1>3
    <2>2. deploys' = [deploys EXCEPT ![d] = row]
      BY <1>3 DEF NextTarget
    <2> HIDE DEF at
    <2>3. /\ row \in Runs /\ row.build = deploys[d].build /\ row.enable = deploys[d].enable
          /\ row.phase = "read" /\ row.at = at
      BY <1>1, <2>1 DEF Runs
    <2> HIDE DEF row
    <2> QED BY <2>2, <2>3 DEF at
  <1> QED BY <1>2, <1>3

\* A run that has its target in place goes on.
LEMMA GoesToNext ==
    ASSUME DOInv, NEW d \in Deployment, Deploying(d), deploys' = NextTarget(d), UNCHANGED lateWrites,
           workspace' \in Workspaces, undisturbed' \in SUBSET undisturbed,
           workspace' = workspace \/ undisturbed' \subseteq {d},
           d \in undisturbed =>
               \A t \in Aims : t = Target(d) \/ InPlace(d, t) =>
                   (deploys'[d].build = deploys[d].build /\ deploys'[d].enable = deploys[d].enable
                    => InPlace(d, t)')
    PROVE  DOInv'
  <1>1. PICK row \in Runs :
          /\ deploys' = [deploys EXCEPT ![d] = row]
          /\ row.build = deploys[d].build /\ row.enable = deploys[d].enable
          /\ \/ row.phase = "done" /\ deploys[d].at = Len(Targeted)
             \/ row.phase = "read" /\ row.at = deploys[d].at + 1
    BY NextRow
  <1>2. DOTypeOK /\ deploys'[d] = row /\ deploys[d].build \in Build /\ deploys[d].phase # "failed"
    BY <1>1 DEF DOInv, DOTypeOK, Deploying
  <1>3. ASSUME d \in undisturbed PROVE KnowsWorkspace(d)'
    <2>1. KnowsWorkspace(d)
      BY <1>3 DEF DOInv
    <2>2. deploys[d].at \in 1..Len(Targeted) /\ Len(Targeted) \in Nat
      BY TargetType, AllAreTargets DEF Runs
    <2>3. \A i \in 1..Len(Targeted) : Targeted[i] \in Aims
      BY AllAreTargets
    <2>4. ASSUME NEW i \in 1..deploys[d].at PROVE InPlace(d, Targeted[i])'
      <3>1. Targeted[i] = Target(d) \/ InPlace(d, Targeted[i])
        BY <2>1, <2>2 DEF KnowsWorkspace, Target
      <3>2. Targeted[i] \in Aims
        BY <2>2, <2>3
      <3>3. deploys'[d].build = deploys[d].build /\ deploys'[d].enable = deploys[d].enable
        BY <1>1, <1>2
      <3> DEFINE t == Targeted[i]
      <3>4. InPlace(d, t)'
        BY <1>3, <3>1, <3>2, <3>3
      <3> QED BY <3>4
    <2>5. CASE row.phase = "done"
      BY <1>1, <1>2, <2>4, <2>5 DEF KnowsWorkspace, Deploying
    <2>6. CASE row.phase = "read"
      <3>1. deploys'[d].at - 1 = deploys[d].at
        BY <1>1, <1>2, <2>2, <2>6
      <3> QED BY <1>2, <2>4, <2>6, <3>1 DEF KnowsWorkspace, Deploying
    <2> QED BY <1>1, <2>5, <2>6
  <1>4. LeavesOthers(d) /\ SendsOnlyItsOwn(d, row.phase)
    <2>1. undisturbed' \in SUBSET Deployment /\ undisturbed' \subseteq undisturbed
          /\ lateWrites' \in SUBSET Requests
      BY <1>2 DEF DOTypeOK
    <2>2. LeavesOthers(d)
      BY <2>1 DEF LeavesOthers
    <2>3. SendsOnlyItsOwn(d, row.phase)
      BY <2>1 DEF SendsOnlyItsOwn
    <2> QED BY <2>2, <2>3
  <1>5. row.phase # "write" /\ row.build \in Build
    BY <1>1, <1>2
  <1>6. d \in undisturbed' => KnowsWorkspace(d)'
    BY <1>3
  <1> QED BY <1>1, <1>2, <1>4, <1>5, <1>6, RunStep

LEMMA DeployInit == DOInit => DOInv
  <1> SUFFICES ASSUME DOInit PROVE DOInv
    OBVIOUS
  <1>1. NotDeployed \in Runs /\ NotDeployed.phase = "idle"
    BY AllAreTargets DEF NotDeployed, Runs
  <1>2. workspace \in Workspaces
    BY DEF DOInit, Workspaces
  <1>3. deploys = [d \in Deployment |-> NotDeployed] /\ lateWrites = {} /\ undisturbed = {}
    BY DEF DOInit
  <1>4. deploys \in [Deployment -> Runs] /\ \A d \in Deployment : deploys[d].phase = "idle"
    <2> HIDE DEF NotDeployed
    <2> QED BY <1>1, <1>3
  <1> QED BY <1>2, <1>3, <1>4 DEF DOInv, DOTypeOK

\* A run that begins, reads, is told that a check failed, or ends.
LEMMA ReadingStep ==
    ASSUME DOInv, NEW d \in Deployment,
           \/ \E build \in Build, enable \in BOOLEAN : StartDeploy(d, build, enable)
           \/ VerifyCompute(d) \/ ReadDefinition(d) \/ FindByName(d) \/ CheckTarget(d) \/ FailDeploy(d)
    PROVE  DOInv'
  <1>1. DOTypeOK /\ deploys[d] \in Runs /\ Target(d) \in Aims
    BY TargetType DEF DOInv
  <1>2. workspace' = workspace /\ lateWrites' = lateWrites /\ workspace' \in Workspaces
    BY <1>1 DEF StartDeploy, VerifyCompute, ReadDefinition, FindByName, CheckTarget, FailDeploy, DOTypeOK
  <1>3. ASSUME NEW build \in Build, NEW enable \in BOOLEAN, StartDeploy(d, build, enable) PROVE DOInv'
    <2> DEFINE row == [NotDeployed EXCEPT !.phase = "read", !.build = build, !.enable = enable]
    <2>1. row \in Runs /\ row.phase = "read" /\ row.at = 1 /\ row.build = build
      <3>1. 1 \in 1..Len(Targeted)
        BY AllAreTargets
      <3> QED BY <3>1 DEF NotDeployed, Runs
    <2>2. /\ deploys' = [deploys EXCEPT ![d] = row] /\ undisturbed' = undisturbed \cup {d}
          /\ deploys[d].phase = "idle"
      <3>1. NotDeployed.phase = "idle"
        BY DEF NotDeployed
      <3> HIDE DEF NotDeployed
      <3> QED BY <1>3, <3>1 DEF StartDeploy
    <2> HIDE DEF row
    <2>3. deploys'[d] = row /\ undisturbed' \in SUBSET Deployment
      BY <1>1, <2>2 DEF DOTypeOK
    <2>4. KnowsWorkspace(d)'
      BY <2>1, <2>3 DEF KnowsWorkspace, Deploying
    <2>5. LeavesOthers(d) /\ SendsOnlyItsOwn(d, row.phase)
      BY <1>1, <1>2, <2>2, QuietIsHarmless
    <2> QED BY <1>2, <2>1, <2>2, <2>4, <2>5, RunStep
  <1>4. ASSUME deploys[d].phase # "failed", deploys' = [deploys EXCEPT ![d].phase = "failed"],
               undisturbed' = undisturbed, deploys[d].phase # "idle"
        PROVE  DOInv'
    <2> DEFINE row == [deploys[d] EXCEPT !.phase = "failed"]
    <2>1. row \in Runs /\ row.phase = "failed" /\ row.build = deploys[d].build
      BY <1>1 DEF Runs
    <2>2. deploys' = [deploys EXCEPT ![d] = row] /\ deploys[d].build \in Build
      BY <1>4 DEF DOInv
    <2> HIDE DEF row
    <2>3. deploys'[d] = row /\ undisturbed' \in SUBSET Deployment
      BY <1>1, <1>4, <2>2 DEF DOTypeOK
    <2>4. KnowsWorkspace(d)'
      BY <2>1, <2>3 DEF KnowsWorkspace, Deploying
    <2>5. LeavesOthers(d) /\ SendsOnlyItsOwn(d, row.phase)
      BY <1>1, <1>2, <1>4, QuietIsHarmless
    <2> QED BY <1>2, <1>4, <2>1, <2>2, <2>4, <2>5, RunStep
  <1>5. ASSUME Deploying(d), deploys' = NextTarget(d), undisturbed' = undisturbed,
               d \in undisturbed => InPlace(d, Target(d))
        PROVE  DOInv'
    <2>1. \A t \in Aims : (t = Target(d) \/ InPlace(d, t)) /\ d \in undisturbed =>
                (deploys'[d].build = deploys[d].build /\ deploys'[d].enable = deploys[d].enable
                 => InPlace(d, t)')
      BY <1>2, <1>5 DEF InPlace
    <2> QED BY <1>2, <1>5, <2>1, GoesToNext
  <1>6. CASE VerifyCompute(d)
    BY <1>5, <1>6 DEF VerifyCompute, Deploying, InPlace
  <1>7. ASSUME NEW index \in Nat, deploys' = [deploys EXCEPT ![d].phase = "write", ![d].index = index],
               deploys[d].phase = "read", undisturbed' = undisturbed, Target(d).what # "compute",
               Target(d).what \in {"item", "schedule"} => Len(Found(d)) <= 1 /\ index = Len(Found(d))
        PROVE  DOInv'
    <2> DEFINE row == [deploys[d] EXCEPT !.phase = "write", !.index = index]
    <2>1. /\ row \in Runs /\ row.phase = "write" /\ row.build = deploys[d].build /\ row.at = deploys[d].at
          /\ row.enable = deploys[d].enable /\ row.index = index
      BY <1>1 DEF Runs
    <2>2. deploys' = [deploys EXCEPT ![d] = row] /\ deploys[d].build \in Build
      BY <1>7 DEF DOInv
    <2> HIDE DEF row
    <2>3. deploys'[d] = row /\ undisturbed' \in SUBSET Deployment
      BY <1>1, <1>7, <2>2 DEF DOTypeOK
    <2>4. Target(d)' = Target(d) /\ Targeted[row.at].what # "compute" /\ Found(d)' = Found(d)
      BY <1>2, <1>7, <2>1, <2>3 DEF Target, Found
    <2>5. d \in undisturbed => KnowsWorkspace(d)'
      <3>1. ASSUME d \in undisturbed PROVE \A i \in 1..(deploys[d].at - 1) : InPlace(d, Targeted[i])'
        <4>1. \A i \in 1..(deploys[d].at - 1) : InPlace(d, Targeted[i])
          BY <1>7, <3>1 DEF DOInv, KnowsWorkspace, Deploying
        <4> QED BY <1>2, <2>1, <2>3, <4>1 DEF InPlace
      <3> QED BY <1>7, <2>1, <2>3, <2>4, <3>1 DEF KnowsWorkspace, Deploying
    <2>6. LeavesOthers(d) /\ SendsOnlyItsOwn(d, row.phase)
      BY <1>1, <1>2, <1>7, QuietIsHarmless
    <2> QED BY <1>2, <1>7, <2>1, <2>2, <2>4, <2>5, <2>6, RunStep
  <1>8. CASE ReadDefinition(d)
    <2> DEFINE index == deploys[d].index
    <2>1. index \in Nat /\ deploys' = [deploys EXCEPT ![d].phase = "write", ![d].index = index]
      <3>1. deploys' = [deploys EXCEPT ![d].phase = "write"]
        BY <1>8 DEF ReadDefinition
      <3>2. deploys[d].index \in Nat
        BY <1>1 DEF Runs
      <3> QED BY <1>1, <3>1, <3>2 DEF Runs, DOTypeOK
    <2> HIDE DEF index
    <2> QED BY <1>7, <1>8, <2>1 DEF ReadDefinition
  <1>9. CASE FindByName(d)
    <2>1. Len(Found(d)) \in Nat
      BY <1>1, <1>9 DEF FindByName, Found, Aims, DOTypeOK, Workspaces
    <2> HIDE DEF Found
    <2> QED BY <1>7, <1>9, <2>1 DEF FindByName
  <1>10. CASE CheckTarget(d)
    <2>1. d \in undisturbed => InPlace(d, Target(d))
      BY <1>10 DEF CheckTarget, DOInv, KnowsWorkspace
    <2> QED BY <1>4, <1>5, <1>10, <2>1 DEF CheckTarget, Deploying
  <1>11. CASE FailDeploy(d)
    BY <1>4, <1>11 DEF FailDeploy, Deploying
  <1> QED BY <1>3, <1>6, <1>8, <1>9, <1>10, <1>11


\* An answered request.
LEMMA WriteTargetKeeps ==
    ASSUME DOInv, NEW d \in Deployment, WriteTarget(d)
    PROVE  DOInv'
  <1> DEFINE q == Request(d)
             index == Len(Applied(q)[q.what][q.kind])
  <1>1. /\ DOTypeOK /\ deploys[d] \in Runs /\ Target(d) \in Aims /\ deploys[d].phase = "write"
        /\ deploys[d].build \in Build
    BY TargetType DEF DOInv, WriteTarget
  <1>2. /\ q \in Requests /\ IsWrite(q) /\ q.what = Target(d).what /\ q.kind = Target(d).kind
    BY <1>1, RequestIs
  <1>3. workspace' = Applied(q) /\ undisturbed' = Undisturbed(q) /\ UNCHANGED lateWrites
    BY DEF WriteTarget
  <1>4. workspace' \in Workspaces
    BY <1>1, <1>2, <1>3, AppliedIs DEF DOTypeOK
  <1>5. undisturbed' \in SUBSET undisturbed /\ undisturbed' \subseteq {d}
    BY <1>1, <1>3, RequestIs DEF Undisturbed
  <1>6. ASSUME deploys' = NextTarget(d) PROVE DOInv'
    <2>1. d \in undisturbed =>
            \A t \in Aims : t = Target(d) \/ InPlace(d, t) =>
                (deploys'[d].build = deploys[d].build /\ deploys'[d].enable = deploys[d].enable
                 => InPlace(d, t)')
      BY <1>1, <1>3, WriteKnows
    <2>2. Deploying(d)
      BY <1>1 DEF Deploying
    <2> QED BY <1>3, <1>4, <1>5, <1>6, <2>1, <2>2, GoesToNext
  <1>7. ASSUME NEW row \in Runs, deploys' = [deploys EXCEPT ![d] = row], row.phase = "check",
               row.at = deploys[d].at, row.build = deploys[d].build, row.enable = deploys[d].enable
        PROVE  DOInv'
    <2>1. deploys'[d] = row
      BY <1>1, <1>7 DEF DOTypeOK
    <2>2. LeavesOthers(d) /\ SendsOnlyItsOwn(d, row.phase)
      BY <1>1, <1>3, <1>5 DEF DOTypeOK, LeavesOthers, SendsOnlyItsOwn
    <2>3. ASSUME d \in undisturbed PROVE KnowsWorkspace(d)'
      <3>1. KnowsWorkspace(d) /\ deploys[d].at \in 1..Len(Targeted) /\ Len(Targeted) \in Nat
        BY <1>1, <2>3, AllAreTargets DEF DOInv, Runs
      <3>2. \A t \in Aims : t = Target(d) \/ InPlace(d, t) => InPlace(d, t)'
        BY <1>1, <1>3, <1>7, <2>1, <2>3, WriteKnows
      <3>3. \A i \in 1..(deploys[d].at - 1) : Targeted[i] \in Aims /\ InPlace(d, Targeted[i])
        BY <1>1, <3>1, AllAreTargets DEF KnowsWorkspace, Deploying
      <3>4. \A i \in 1..(deploys[d].at - 1) : InPlace(d, Targeted[i])'
        BY <3>2, <3>3
      <3>5. Target(d)' = Target(d) /\ InPlace(d, Target(d))'
        <4>1. Target(d)' = Target(d)
          BY <1>7, <2>1 DEF Target
        <4> DEFINE t == Target(d)
        <4>2. \A u : u = t => (InPlace(d, u)' => InPlace(d, Target(d))')
          BY <4>1
        <4> QED BY <1>1, <3>2, <4>1, <4>2
      <3> QED BY <1>7, <2>1, <3>4, <3>5 DEF KnowsWorkspace, Deploying
    <2>4. d \in undisturbed' => KnowsWorkspace(d)'
      BY <1>5, <2>3
    <2> QED BY <1>1, <1>4, <1>7, <2>2, <2>4, RunStep
  <1>8. CASE q.what = "schedule"
    BY <1>6, <1>8 DEF WriteTarget
  <1>9. CASE q.what = "item" /\ q.index = 0
    <2> DEFINE row == [deploys[d] EXCEPT !.phase = "check", !.index = index]
    <2>1. index \in Nat
      <3>1. workspace'.item[q.kind] \in Seq(Build)
        BY <1>2, <1>4, <1>9 DEF Workspaces, IsWrite
      <3> QED BY <1>3, <1>9, <3>1
    <2>2. deploys' = [deploys EXCEPT ![d] = row]
      BY <1>9 DEF WriteTarget
    <2> HIDE DEF index
    <2>3. /\ row \in Runs /\ row.phase = "check" /\ row.at = deploys[d].at
          /\ row.build = deploys[d].build /\ row.enable = deploys[d].enable
      BY <1>1, <2>1 DEF Runs
    <2> HIDE DEF row
    <2> QED BY <1>7, <2>2, <2>3
  <1>10. CASE q.what # "schedule" /\ ~(q.what = "item" /\ q.index = 0)
    <2> DEFINE row == [deploys[d] EXCEPT !.phase = "check"]
    <2>1. deploys' = [deploys EXCEPT ![d] = row]
      BY <1>10 DEF WriteTarget
    <2>2. /\ row \in Runs /\ row.phase = "check" /\ row.at = deploys[d].at
          /\ row.build = deploys[d].build /\ row.enable = deploys[d].enable
      BY <1>1 DEF Runs
    <2> HIDE DEF row
    <2> QED BY <1>7, <2>1, <2>2
  <1> QED BY <1>8, <1>9, <1>10

\* A request whose answer is lost ends its run, and is carried out or will be.
LEMMA LoseAnswerKeeps ==
    ASSUME DOInv, NEW d \in Deployment, LoseAnswer(d)
    PROVE  DOInv'
  <1> DEFINE q == Request(d)
             row == [deploys[d] EXCEPT !.phase = "failed"]
  <1>1. DOTypeOK /\ deploys[d] \in Runs /\ deploys[d].phase = "write" /\ deploys[d].build \in Build
    BY DEF DOInv, DOTypeOK, LoseAnswer
  <1>2. q \in Requests /\ IsWrite(q) /\ q.by = d
    BY <1>1, RequestIs
  <1>3. row \in Runs /\ row.phase = "failed" /\ row.build = deploys[d].build
    BY <1>1 DEF Runs
  <1>4. deploys' = [deploys EXCEPT ![d] = row]
    BY DEF LoseAnswer
  <1> HIDE DEF row
  <1>5. KnowsWorkspace(d)'
    BY <1>1, <1>3, <1>4 DEF DOTypeOK, KnowsWorkspace, Deploying
  <1>6. CASE workspace' = Applied(q) /\ undisturbed' = Undisturbed(q) /\ UNCHANGED lateWrites
    <2>1. workspace' \in Workspaces
      BY <1>1, <1>2, <1>6, AppliedIs DEF DOTypeOK
    <2>2. LeavesOthers(d) /\ SendsOnlyItsOwn(d, row.phase)
      BY <1>1, <1>2, <1>6 DEF DOTypeOK, LeavesOthers, SendsOnlyItsOwn, Undisturbed
    <2> QED BY <1>1, <1>3, <1>4, <1>5, <2>1, <2>2, RunStep
  <1>7. CASE lateWrites' = lateWrites \cup {q} /\ UNCHANGED <<workspace, undisturbed>>
    <2>1. workspace' \in Workspaces
      BY <1>1, <1>7 DEF DOTypeOK
    <2>2. LeavesOthers(d) /\ SendsOnlyItsOwn(d, row.phase)
      <3> HIDE DEF q
      <3> QED BY <1>1, <1>2, <1>3, <1>7 DEF DOTypeOK, LeavesOthers, SendsOnlyItsOwn
    <2> QED BY <1>1, <1>3, <1>4, <1>5, <2>1, <2>2, RunStep
  <1> QED BY <1>6, <1>7 DEF LoseAnswer

\* What a failed run had asked for disturbs everybody else.
LEMMA FinishLateKeeps ==
    ASSUME DOInv, NEW q \in lateWrites, FinishLate(q)
    PROVE  DOInv'
  <1>1. /\ DOTypeOK /\ q \in Requests /\ IsWrite(q) /\ deploys[q.by].phase = "failed"
        /\ workspace' = Applied(q) /\ undisturbed' = Undisturbed(q) /\ deploys' = deploys
        /\ lateWrites' = lateWrites \ {q}
    BY DEF DOInv, DOTypeOK, FinishLate
  <1>2. workspace' \in Workspaces
    BY <1>1, AppliedIs DEF DOTypeOK
  <1>3. DOTypeOK'
    BY <1>1, <1>2 DEF DOTypeOK, Undisturbed
  <1>4. \A d \in undisturbed' : d = q.by
    BY <1>1 DEF Undisturbed
  <1>5. \A d \in undisturbed' : KnowsWorkspace(d)'
    BY <1>1, <1>4 DEF KnowsWorkspace, Deploying
  <1>6. \A d \in Deployment : /\ deploys'[d].phase # "idle" => deploys'[d].build \in Build
                              /\ deploys'[d].phase = "write" => Target(d)'.what # "compute"
    BY <1>1 DEF DOInv, Target
  <1>7. \A p \in lateWrites' : IsWrite(p) /\ deploys'[p.by].phase = "failed"
    BY <1>1 DEF DOInv
  <1> QED BY <1>3, <1>5, <1>6, <1>7 DEF DOInv, IsWrite

\* Whatever requests are lost, late or refused, every reachable state satisfies
\* the invariant.
THEOREM DeployInvariance == DOSpec => []DOInv
  <1>1. DOInv /\ [DONext]_dovars => DOInv'
    <2> SUFFICES ASSUME DOInv, [DONext]_dovars PROVE DOInv'
      OBVIOUS
    <2>1. CASE UNCHANGED dovars
      BY <2>1 DEF dovars, DOInv, DOTypeOK, IsWrite, KnowsWorkspace, Deploying, Target, Found, InPlace
    <2>2. ASSUME NEW d \in Deployment,
                 \/ \E build \in Build, enable \in BOOLEAN : StartDeploy(d, build, enable)
                 \/ VerifyCompute(d) \/ ReadDefinition(d) \/ FindByName(d) \/ WriteTarget(d)
                 \/ CheckTarget(d) \/ FailDeploy(d) \/ LoseAnswer(d)
          PROVE  DOInv'
      BY <2>2, ReadingStep, WriteTargetKeeps, LoseAnswerKeeps
    <2>3. CASE \E q \in lateWrites : FinishLate(q)
      BY <2>3, FinishLateKeeps
    <2> QED BY <2>1, <2>2, <2>3 DEF DONext
  <1> QED BY <1>1, DeployInit, PTL DEF DOSpec

\* A deployment that returned undisturbed has everything in place, for any
\* builds, items, schedules and runs, whatever failed before it.
THEOREM ReturnedIsInPlace == DOSpec => []ReturnedDeploymentIsInPlace
  <1>1. DOInv => ReturnedDeploymentIsInPlace
    <2> SUFFICES ASSUME DOInv, NEW d \in undisturbed, deploys[d].phase = "done"
                 PROVE  LET build == deploys[d].build
                        IN  /\ \A k \in DOMAIN workspace.item : workspace.item[k] = <<build>>
                            /\ workspace.intake = build /\ workspace.notebook = "bound"
                            /\ \A k \in DOMAIN workspace.schedule :
                                  workspace.schedule[k] = <<[enabled |-> deploys[d].enable, build |-> build]>>
      BY DEF ReturnedDeploymentIsInPlace
    <2>1. \A i \in 1..Len(Targeted) : InPlace(d, Targeted[i])
      BY DEF DOInv, KnowsWorkspace
    <2>2. \A t \in ToSet(Targeted) : InPlace(d, t)
      <3>1. DOMAIN Targeted = 1..Len(Targeted)
        BY AllAreTargets
      <3> QED BY <2>1, <3>1 DEF ToSet
    <2>3. workspace \in Workspaces
      BY DEF DOInv, DOTypeOK
    <2>4. ASSUME NEW k \in DOMAIN workspace.item PROVE workspace.item[k] = <<deploys[d].build>>
      <3> DEFINE t == [what |-> "item", kind |-> k]
      <3>1. t \in ToSet(Targeted)
        BY <2>3, AllAreTargets DEF Workspaces
      <3> QED BY <2>2, <3>1 DEF InPlace
    <2>5. ASSUME NEW k \in DOMAIN workspace.schedule
          PROVE  workspace.schedule[k] = <<[enabled |-> deploys[d].enable, build |-> deploys[d].build]>>
      <3> DEFINE t == [what |-> "schedule", kind |-> k]
      <3>1. t \in ToSet(Targeted)
        BY <2>3, AllAreTargets DEF Workspaces
      <3> QED BY <2>2, <3>1 DEF InPlace
    <2>6. workspace.intake = deploys[d].build /\ workspace.notebook = "bound"
      <3>1. /\ InPlace(d, [what |-> "intake", kind |-> None])
            /\ InPlace(d, [what |-> "notebook", kind |-> None])
        BY <2>2, AllAreTargets
      <3> QED BY <3>1 DEF InPlace
    <2> QED BY <2>4, <2>5, <2>6
  <1> QED BY <1>1, DeployInvariance, PTL

-----------------------------------------------------------------------------
(* Cutover *)

\* A step of the command that leaves the catalog, the copies and the bundle.
LEMMA CommandStep ==
    ASSUME CInv, command' \in CommandRecords, MakesBundle',
           UNCHANGED <<table, archive, files, rows, cleanup, boot>>,
           views' \subseteq views
    PROVE  CInv'
  <1>1. CTypeOK'
    BY DEF CInv, CTypeOK
  <1>2. BundleHolds'
    BY DEF CInv, BundleHolds, IsCopySince
  <1>3. CleanupHolds' /\ OneLockRow'
    BY DEF CInv, CleanupHolds, OneLockRow
  <1> QED BY <1>1, <1>2, <1>3 DEF CInv

\* A command that does not make a bundle, or makes none any more.
LEMMA CommandGoesOn ==
    ASSUME CInv, command' \in CommandRecords, command'.pc \notin {"copy", "save", "compare"},
           UNCHANGED <<table, archive, files, rows, cleanup, boot>>,
           views' \subseteq views
    PROVE  CInv'
  <1>1. MakesBundle'
    BY DEF MakesBundle
  <1> QED BY <1>1, CommandStep

LEMMA Aborts ==
    NoCommand \in CommandRecords /\ NoCommand.pc = "idle"
  BY DEF NoCommand, CommandRecords, Phases

\* A command keeps its kind and what it saw when it goes to its next phase.
LEMMA NextPhase ==
    ASSUME CInv, NEW pc \in Phases
    PROVE  [command EXCEPT !.pc = pc] \in CommandRecords /\ [command EXCEPT !.pc = pc].pc = pc
  BY DEF CInv, CTypeOK, CommandRecords

\* A step that touches nothing the invariant is about.
LEMMA OtherStep ==
    ASSUME CInv, UNCHANGED <<table, archive, views, files, command, rows, cleanup, boot>>
    PROVE  CInv'
  BY DEF CInv, CTypeOK, MakesBundle, BundleHolds, IsCopySince, CleanupHolds, OneLockRow

LEMMA CutoverBegins == CInit => CInv
  <1> SUFFICES ASSUME CInit PROVE CInv
    OBVIOUS
  <1>1. table \in Catalogs
    BY DEF CInit, Catalogs
  <1>2. /\ archive \in [Table -> Nat \cup {None}] /\ views \in SUBSET Views
        /\ files \in Bundles /\ rows \in SUBSET TableSuffixes /\ cleanup \in Cleanups
    BY DEF CInit, Bundles, Cleanups
  <1>3. boot \in Boots
    BY DEF CInit, Boots
  <1>4. command \in CommandRecords /\ command.pc = "idle"
    BY Aborts DEF CInit
  <1>5. CTypeOK
    BY <1>1, <1>2, <1>3, <1>4 DEF CTypeOK
  <1>6. MakesBundle /\ BundleHolds
    BY <1>4 DEF CInit, MakesBundle, BundleHolds
  <1>7. CleanupHolds /\ OneLockRow
    BY DEF CInit, CleanupHolds, OneLockRow
  <1> QED BY <1>5, <1>6, <1>7 DEF CInv

LEMMA WriteKeeps ==
    ASSUME CInv, NEW t \in Table, Write(t)
    PROVE  CInv'
  <1> DEFINE row == [table[t] EXCEPT !.version = @ + 1]
  <1>1. table[t] \in [exists : BOOLEAN, version : Nat] /\ table[t].exists
    BY DEF CInv, CTypeOK, Catalogs, Write
  <1>2. /\ row \in [exists : BOOLEAN, version : Nat] /\ row.exists = TRUE
        /\ row.version = table[t].version + 1
    BY <1>1
  <1>3. table' = [table EXCEPT ![t] = row]
    BY DEF Write
  <1> HIDE DEF row
  <1>4. /\ table' \in Catalogs
        /\ \A u \in Table : /\ table'[u].exists = table[u].exists
                            /\ table[u].version <= table'[u].version
                            /\ ~table[u].exists => table'[u] = table[u]
    BY <1>1, <1>2, <1>3 DEF CInv, CTypeOK, Catalogs
  <1>5. \A u \in Table : table[u].version \in Nat /\ table'[u].version \in Nat
    BY <1>4 DEF CInv, CTypeOK, Catalogs
  <1>6. UNCHANGED <<archive, views, files, command, rows, cleanup, boot>>
    BY DEF Write
  <1>7. CTypeOK'
    BY <1>4, <1>6 DEF CInv, CTypeOK
  <1>8. MakesBundle'
    <2> SUFFICES ASSUME command.pc \in {"copy", "save", "compare"} PROVE MakesBundle'
      BY <1>6 DEF MakesBundle
    <2>1. command.states \in Catalogs
      BY DEF CInv, MakesBundle
    <2>2. \A u \in Table : command.states[u].version \in Nat
      BY <2>1 DEF Catalogs
    <2>3. \A u \in Table : /\ command.states[u].exists = table[u].exists
                           /\ command.states[u].version <= table[u].version
      BY DEF CInv, MakesBundle
    <2>5. \A u \in Table : /\ command.states[u].exists = table'[u].exists
                           /\ command.states[u].version <= table'[u].version
      BY <1>4, <1>5, <2>2, <2>3
    <2>4. ASSUME NEW u \in Table, IsCopySince(archive[u], command.states[u], u)
          PROVE  IsCopySince(archive[u], command.states[u], u)'
      BY <1>4, <1>5, <1>6, <2>4 DEF IsCopySince
    <2>6. ASSUME command.pc \in {"save", "compare"}
          PROVE  /\ command.source \in [of : command.todo, version : Nat]
                 /\ LET u == command.source.of
                    IN  IsCopySince(command.source.version, command.states[u], u)'
      <3>1. /\ command.source \in [of : command.todo, version : Nat]
            /\ LET u == command.source.of
               IN  IsCopySince(command.source.version, command.states[u], u)
        BY <2>6 DEF CInv, MakesBundle
      <3>2. command.source.of \in Table
        BY <3>1 DEF CInv, CTypeOK, CommandRecords
      <3> QED BY <1>4, <1>5, <1>6, <3>1, <3>2 DEF IsCopySince
    <2> QED BY <1>6, <2>1, <2>4, <2>5, <2>6 DEF CInv, MakesBundle
  <1>9. BundleHolds'
    <2> SUFFICES ASSUME files.manifest # None PROVE BundleHolds'
      BY <1>6 DEF BundleHolds
    <2>1. ASSUME NEW u \in Table, IsCopySince(archive[u], files.manifest[u], u)
          PROVE  IsCopySince(archive[u], files.manifest[u], u)'
      BY <1>4, <1>5, <1>6, <2>1 DEF IsCopySince
    <2> QED BY <1>4, <1>6, <2>1 DEF CInv, BundleHolds
  <1>10. CleanupHolds' /\ OneLockRow'
    BY <1>6 DEF CInv, CleanupHolds, OneLockRow
  <1> QED BY <1>7, <1>8, <1>9, <1>10 DEF CInv

LEMMA CommandBeginsKeeps ==
    ASSUME CInv, ArchiveBegins \/ RetireBegins
    PROVE  CInv'
  <1>1. UNCHANGED <<table, archive, views, files, rows, cleanup, boot>> /\ table \in Catalogs
    BY DEF ArchiveBegins, RetireBegins, CInv, CTypeOK
  <1>2. \/ /\ files.manifest = None /\ command'.pc = "copy" /\ command' \in CommandRecords
           /\ command'.states = table /\ command'.todo = Table
        \/ command' \in CommandRecords /\ command'.pc \in {"idle", "retire"}
    BY <1>1, Aborts DEF ArchiveBegins, RetireBegins, CommandRecords, Phases
  <1>3. CASE /\ files.manifest = None /\ command'.pc = "copy" /\ command' \in CommandRecords
             /\ command'.states = table /\ command'.todo = Table
    <2>1. \A t \in Table : table[t].version <= table[t].version
      BY <1>1 DEF Catalogs
    <2>2. MakesBundle'
      BY <1>1, <1>3, <2>1 DEF MakesBundle
    <2> QED BY <1>1, <1>3, <2>2, CommandStep
  <1>4. CASE command' \in CommandRecords /\ command'.pc \in {"idle", "retire"}
    BY <1>1, <1>4, CommandGoesOn
  <1> QED BY <1>2, <1>3, <1>4

LEMMA ReadSourceKeeps ==
    ASSUME CInv, NEW t \in Table, ReadSource(t)
    PROVE  CInv'
  <1>1. UNCHANGED <<table, archive, views, files, rows, cleanup, boot>> /\ command.pc = "copy"
        /\ t \in command.todo
    BY DEF ReadSource
  <1>2. /\ command \in CommandRecords /\ table[t].version \in Nat
        /\ command.states[t].version <= table[t].version
    BY <1>1 DEF CInv, CTypeOK, MakesBundle, Catalogs
  <1>3. CASE command.states[t].exists
    <2>1. command' = [command EXCEPT !.pc = "save", !.source = [of |-> t, version |-> table[t].version]]
      BY <1>3 DEF ReadSource
    <2>2. /\ command' \in CommandRecords /\ command'.pc = "save"
          /\ command'.states = command.states /\ command'.todo = command.todo
          /\ command'.source = [of |-> t, version |-> table[t].version]
      BY <1>2, <2>1 DEF CommandRecords, Phases
    <2>3. IsCopySince(table[t].version, command.states[t], t)
      BY <1>2 DEF IsCopySince
    <2>4. MakesBundle'
      <3>1. command'.source \in [of : command'.todo, version : Nat]
        BY <1>1, <1>2, <2>2
      <3>2. command'.source.of = t /\ command'.source.version = table[t].version
        BY <2>2
      <3> QED BY <1>1, <2>2, <2>3, <3>1, <3>2 DEF CInv, MakesBundle, IsCopySince
    <2> QED BY <1>1, <2>2, <2>4, CommandStep
  <1>4. CASE ~command.states[t].exists
    <2>1. command' = [command EXCEPT !.todo = @ \ {t}]
      BY <1>4 DEF ReadSource
    <2>2. /\ command' \in CommandRecords /\ command'.pc = "copy"
          /\ command'.states = command.states /\ command'.todo = command.todo \ {t}
      BY <1>1, <1>2, <2>1 DEF CommandRecords
    <2>3. MakesBundle'
      BY <1>1, <1>4, <2>2 DEF CInv, MakesBundle, IsCopySince
    <2> QED BY <1>1, <2>2, <2>3, CommandStep
  <1> QED BY <1>3, <1>4

LEMMA SaveCopyKeeps ==
    ASSUME CInv, SaveCopy
    PROVE  CInv'
  <1> DEFINE t == command.source.of
  <1>1. /\ UNCHANGED <<table, views, files, rows, cleanup, boot>> /\ command.pc = "save"
        /\ archive' = IF archive[t] = None THEN [archive EXCEPT ![t] = table[t].version] ELSE archive
        /\ command' = [command EXCEPT !.pc = "compare"]
    BY DEF SaveCopy
  <1>2. /\ command'.pc = "compare" /\ command'.states = command.states
        /\ command'.todo = command.todo /\ command'.source = command.source
        /\ command' \in CommandRecords
    BY <1>1 DEF CInv, CTypeOK, CommandRecords, Phases
  <1>3. t \in command.todo /\ t \in Table
    BY <1>1 DEF CInv, CTypeOK, CommandRecords, MakesBundle
  <1> HIDE DEF t
  <1>4. /\ archive' \in [Table -> Nat \cup {None}]
        /\ \A u \in Table \ command.todo : archive'[u] = archive[u]
    BY <1>1, <1>3 DEF CInv, CTypeOK, Catalogs
  <1>5. CTypeOK'
    BY <1>1, <1>2, <1>4 DEF CInv, CTypeOK
  <1>6. MakesBundle'
    BY <1>1, <1>2, <1>4 DEF CInv, MakesBundle, IsCopySince
  <1>7. BundleHolds'
    BY <1>1 DEF CInv, MakesBundle, BundleHolds
  <1>8. CleanupHolds' /\ OneLockRow'
    BY <1>1 DEF CInv, CleanupHolds, OneLockRow
  <1> QED BY <1>5, <1>6, <1>7, <1>8 DEF CInv

\* A copy that was compared is a version its table had since the command began.
LEMMA CompareCopyKeeps ==
    ASSUME CInv, CompareCopy
    PROVE  CInv'
  <1>1. UNCHANGED <<table, archive, views, files, rows, cleanup, boot>> /\ command.pc = "compare"
    BY DEF CompareCopy
  <1> DEFINE t == command.source.of
  <1>2. CASE archive[t] # command.source.version
    BY <1>1, <1>2, Aborts, CommandGoesOn DEF CompareCopy, Abort
  <1>3. CASE archive[t] = command.source.version
    <2>1. command' = [command EXCEPT !.pc = "copy", !.todo = @ \ {t}]
      BY <1>3 DEF CompareCopy
    <2>2. /\ command' \in CommandRecords /\ command'.pc = "copy"
          /\ command'.states = command.states /\ command'.todo = command.todo \ {t}
      BY <2>1 DEF CInv, CTypeOK, CommandRecords, Phases
    <2>3. IsCopySince(archive[t], command.states[t], t)
      BY <1>1, <1>3 DEF CInv, MakesBundle
    <2> HIDE DEF t
    <2>4. \A u \in Table \ (command.todo \ {t}) :
              command.states[u].exists => IsCopySince(archive[u], command.states[u], u)
      BY <1>1, <2>3 DEF CInv, MakesBundle
    <2>5. MakesBundle'
      BY <1>1, <2>2, <2>4 DEF CInv, MakesBundle, IsCopySince
    <2> QED BY <1>1, <2>2, <2>5, CommandStep
  <1> QED BY <1>2, <1>3

LEMMA WriteArchiveManifestKeeps ==
    ASSUME CInv, WriteArchiveManifest
    PROVE  CInv'
  <1>1. UNCHANGED <<table, archive, views, rows, cleanup, boot>> /\ command.pc = "copy" /\ command.todo = {}
    BY DEF WriteArchiveManifest
  <1>2. CASE command.cmd = "archive" /\ gate # table
    BY <1>1, <1>2, Aborts, CommandGoesOn DEF WriteArchiveManifest, Abort
  <1>3. CASE ~(command.cmd = "archive" /\ gate # table)
    <2> DEFINE manifest == [t \in Table |-> [exists |-> command.states[t].exists,
                                             version |-> command.states[t].version,
                                             content |-> archive[t]]]
    <2>1. command.states \in Catalogs /\ archive \in [Table -> Nat \cup {None}] /\ command.todo = {}
      BY <1>1 DEF CInv, CTypeOK, MakesBundle
    <2>2. manifest \in Manifests
      BY <2>1 DEF Manifests, Catalogs
    <2>3. \A t \in Table : /\ manifest[t].exists = command.states[t].exists
                           /\ manifest[t].version = command.states[t].version
                           /\ manifest[t].content = archive[t]
      OBVIOUS
    <2>4. files' = [files EXCEPT !.manifest = manifest, !.views = views]
      BY <1>3 DEF WriteArchiveManifest
    <2> HIDE DEF manifest
    <2>5. files' \in Bundles /\ files'.manifest = manifest /\ files'.views = views
      BY <2>2, <2>4 DEF CInv, CTypeOK, Bundles
    <2>6. command' \in CommandRecords /\ command'.pc \in {"idle", "retire"}
      BY <1>3, Aborts, NextPhase DEF WriteArchiveManifest, Phases
    <2>7. CTypeOK' /\ MakesBundle'
      BY <1>1, <2>5, <2>6 DEF CInv, CTypeOK, MakesBundle
    <2>8. \A t \in Table : /\ command.states[t].exists = table[t].exists
                           /\ command.states[t].exists => IsCopySince(archive[t], command.states[t], t)
      BY <1>1, <2>1 DEF CInv, MakesBundle
    <2>9. BundleHolds'
      BY <1>1, <2>3, <2>5, <2>8 DEF BundleHolds, IsCopySince
    <2>10. CleanupHolds' /\ OneLockRow'
      BY <1>1 DEF CInv, CleanupHolds, OneLockRow
    <2> QED BY <2>7, <2>9, <2>10 DEF CInv
  <1> QED BY <1>2, <1>3

\* A table is dropped only at the version of the manifest, and the copy is not
\* older than that.
LEMMA DropTableKeeps ==
    ASSUME CInv, DropTable
    PROVE  CInv'
  <1>1. UNCHANGED <<archive, views, rows, cleanup, boot>> /\ command.pc = "tables"
    BY DEF DropTable
  <1>2. ASSUME UNCHANGED <<table, files>>, Abort PROVE CInv'
    BY <1>1, <1>2, Aborts, CommandGoesOn DEF Abort
  <1>3. ASSUME NEW t \in Table, table[t].exists, UnchangedSince(files.manifest, t),
               table' = [table EXCEPT ![t].exists = FALSE], UNCHANGED <<command, files>>
        PROVE  CInv'
    <2> DEFINE row == [table[t] EXCEPT !.exists = FALSE]
    <2>1. table[t] \in [exists : BOOLEAN, version : Nat]
      BY DEF CInv, CTypeOK, Catalogs
    <2>2. /\ row \in [exists : BOOLEAN, version : Nat] /\ row.exists = FALSE
          /\ row.version = table[t].version
      BY <2>1
    <2>3. table' = [table EXCEPT ![t] = row]
      BY <1>3
    <2> HIDE DEF row
    <2>4. /\ table' \in Catalogs
          /\ \A u \in Table : /\ table'[u].version = table[u].version
                              /\ table'[u].exists => table[u].exists
                              /\ u # t => table'[u] = table[u]
      BY <2>1, <2>2, <2>3 DEF CInv, CTypeOK, Catalogs
    <2>5. CTypeOK' /\ MakesBundle'
      BY <1>1, <1>3, <2>4 DEF CInv, CTypeOK, MakesBundle
    <2>6. BundleHolds'
      <3> SUFFICES ASSUME files.manifest # None PROVE BundleHolds'
        BY <1>3 DEF BundleHolds
      <3>1. archive[t] = table[t].version
        <4>1. files.manifest[t].exists /\ files.manifest[t].version = table[t].version
          BY <1>3 DEF UnchangedSince
        <4>2. IsCopySince(archive[t], files.manifest[t], t)
          BY <4>1 DEF CInv, BundleHolds
        <4> QED BY <2>1, <4>1, <4>2 DEF IsCopySince
      <3>2. \A u \in Table : files.manifest[u].exists =>
                IsCopySince(archive[u], files.manifest[u], u)'
        BY <1>1, <1>3, <2>4 DEF CInv, BundleHolds, IsCopySince
      <3>3. \A u \in Table : /\ table[u].exists => files.manifest[u].exists
                             /\ files.manifest[u].exists => archive[u] = files.manifest[u].content
                             /\ files.manifest[u].exists /\ ~table[u].exists => archive[u] = table[u].version
        BY DEF CInv, BundleHolds
      <3>4. \A u \in Table : files.manifest[u].exists /\ ~table'[u].exists => archive[u] = table'[u].version
        BY <2>4, <3>1, <3>3
      <3>5. views \subseteq files.views
        BY DEF CInv, BundleHolds
      <3> QED BY <1>1, <1>3, <2>4, <3>2, <3>3, <3>4, <3>5 DEF BundleHolds
    <2>7. CleanupHolds' /\ OneLockRow'
      BY <1>1 DEF CInv, CleanupHolds, OneLockRow
    <2> QED BY <2>5, <2>6, <2>7 DEF CInv
  <1>4. ASSUME files' = [files EXCEPT !.result = TRUE], command' = [command EXCEPT !.pc = "journal"],
               UNCHANGED table
        PROVE  CInv'
    <2>1. files' \in Bundles /\ files'.manifest = files.manifest /\ files'.views = files.views
      BY <1>4 DEF CInv, CTypeOK, Bundles
    <2>2. command' \in CommandRecords /\ command'.pc = "journal"
      BY <1>4, NextPhase DEF Phases
    <2>3. CTypeOK' /\ MakesBundle'
      BY <1>1, <1>4, <2>1, <2>2 DEF CInv, CTypeOK, MakesBundle
    <2>4. BundleHolds'
      BY <1>1, <1>4, <2>1 DEF CInv, BundleHolds, IsCopySince
    <2>5. CleanupHolds' /\ OneLockRow'
      BY <1>1 DEF CInv, CleanupHolds, OneLockRow
    <2> QED BY <2>3, <2>4, <2>5 DEF CInv
  <1> QED BY <1>2, <1>3, <1>4 DEF DropTable

\* The other steps of retire.
LEMMA RetireKeeps ==
    ASSUME CInv, RetireChecks \/ DropView \/ CheckResult \/ WriteJournal \/ CommandStops
    PROVE  CInv'
  <1>1. UNCHANGED <<table, archive, files, rows, cleanup, boot>> /\ views' \subseteq views
    BY DEF RetireChecks, DropView, CheckResult, WriteJournal, CommandStops
  <1>2. /\ command' \in CommandRecords
        /\ command'.pc \notin {"copy", "save", "compare"}
    <2>1. CASE RetireChecks
      BY <2>1, Aborts, NextPhase DEF RetireChecks, Abort, Phases
    <2>2. CASE DropView
      <3>1. command \in CommandRecords /\ command.pc = "views"
        BY <2>2 DEF DropView, CInv, CTypeOK
      <3> QED BY <2>2, <3>1, NextPhase DEF DropView, Phases
    <2>3. CASE CheckResult
      BY <2>3, Aborts, NextPhase DEF CheckResult, Phases
    <2>4. CASE WriteJournal \/ CommandStops
      BY <2>4, Aborts DEF WriteJournal, CommandStops, Abort
    <2> QED BY <2>1, <2>2, <2>3, <2>4
  <1> QED BY <1>1, <1>2, CommandGoesOn

LEMMA CleanupKeeps ==
    ASSUME CInv, CleanupNext
    PROVE  CInv'
  <1>1. UNCHANGED retirement /\ UNCHANGED boot
    BY DEF CleanupNext, CleanupBegins, CleanupCopies, CleanupDeletes, CleanupStops
  <1>2. cleanup \in Cleanups /\ rows \subseteq TableSuffixes
    BY DEF CInv, CTypeOK
  <1>3. cleanup' \in Cleanups /\ rows' \subseteq TableSuffixes /\ CleanupHolds'
    <2>1. CASE CleanupBegins
      BY <1>2, <2>1 DEF CleanupBegins, Cleanups, CInv, CleanupHolds
    <2>2. CASE CleanupCopies
      <3>1. UNCHANGED rows /\ cleanup.pc = "copy" /\ CleanupHolds
        BY <2>2 DEF CleanupCopies, CInv
      <3>2. CASE \E s \in TableSuffixes \ cleanup.copied :
                     cleanup' = [cleanup EXCEPT !.copied = @ \cup {s}]
        <4>1. /\ cleanup' \in Cleanups /\ cleanup'.manifest = cleanup.manifest
              /\ cleanup'.pc = "copy" /\ cleanup.copied # TableSuffixes
          BY <1>2, <3>1, <3>2 DEF Cleanups
        <4> QED BY <1>2, <3>1, <4>1 DEF CleanupHolds
      <3>3. CASE /\ cleanup.copied = TableSuffixes
                 /\ cleanup' = [cleanup EXCEPT !.manifest = TRUE, !.pc = "delete"]
        <4>1. /\ cleanup' \in Cleanups /\ cleanup'.manifest = TRUE
              /\ cleanup'.copied = TableSuffixes
          BY <1>2, <3>3 DEF Cleanups
        <4> QED BY <1>2, <3>1, <4>1 DEF CleanupHolds
      <3> QED BY <2>2, <3>2, <3>3 DEF CleanupCopies
    <2>3. CASE CleanupDeletes
      BY <1>2, <2>3 DEF CleanupDeletes, Cleanups, CInv, CleanupHolds
    <2>4. CASE CleanupStops
      BY <1>2, <2>4 DEF CleanupStops, Cleanups, CInv, CleanupHolds
    <2> QED BY <2>1, <2>2, <2>3, <2>4 DEF CleanupNext
  <1>4. CTypeOK'
    BY <1>1, <1>3 DEF CInv, CTypeOK, retirement
  <1>5. MakesBundle' /\ BundleHolds' /\ OneLockRow'
    BY <1>1 DEF CInv, retirement, MakesBundle, BundleHolds, IsCopySince, OneLockRow
  <1> QED BY <1>3, <1>4, <1>5 DEF CInv

LEMMA BootstrapKeeps ==
    ASSUME CInv, BootstrapNext
    PROVE  CInv'
  <1>1. UNCHANGED retirement /\ UNCHANGED <<rows, cleanup>>
    BY DEF BootstrapNext, BootstrapReads, BootstrapAppends, BootstrapEnds
  <1>2. boot \in Boots /\ OneLockRow
    BY DEF CInv, CTypeOK
  <1>3. PICK b \in Bootstrap : BootstrapReads(b) \/ BootstrapAppends(b) \/ BootstrapEnds(b)
    BY DEF BootstrapNext
  <1>4. \A s \in {"idle", "empty", "check"} :
            [boot.seen EXCEPT ![b] = s] \in [Bootstrap -> {"idle", "empty", "check"}]
    BY <1>2 DEF Boots
  <1>5. boot' \in Boots /\ OneLockRow'
    <2>1. CASE BootstrapReads(b)
      BY <1>2, <2>1 DEF BootstrapReads, Boots, OneLockRow
    <2>2. CASE BootstrapAppends(b)
      <3> DEFINE locks == IF boot.txn THEN boot.locks ELSE boot.locks + 1
                 seen == [boot.seen EXCEPT ![b] = "check"]
      <3>1. locks \in Nat /\ locks = 1
        BY <1>2 DEF Boots, OneLockRow
      <3>2. seen \in [Bootstrap -> {"idle", "empty", "check"}]
        BY <1>4
      <3>3. boot' = [boot EXCEPT !.locks = locks, !.txn = TRUE, !.seen = seen]
        BY <2>2 DEF BootstrapAppends
      <3> HIDE DEF locks, seen
      <3>4. boot' \in Boots /\ boot'.locks = locks /\ boot'.txn = TRUE
        BY <1>2, <3>1, <3>2, <3>3 DEF Boots
      <3> QED BY <3>1, <3>4 DEF OneLockRow
    <2>3. CASE BootstrapEnds(b)
      BY <1>2, <2>3 DEF BootstrapEnds, Boots, OneLockRow
    <2> QED BY <1>3, <2>1, <2>2, <2>3
  <1>6. CTypeOK'
    BY <1>1, <1>5 DEF CInv, CTypeOK, retirement
  <1>7. MakesBundle' /\ BundleHolds' /\ CleanupHolds'
    BY <1>1 DEF CInv, retirement, MakesBundle, BundleHolds, IsCopySince, CleanupHolds
  <1> QED BY <1>5, <1>6, <1>7 DEF CInv

\* The copies of a bundle are never older than what its manifest saw, a table
\* is dropped only at the version the manifest saw, and writers, gates and
\* stopped commands change none of it (archive_ca_tables,
\* retire_archived_ca_tables, cleanup_synthetic, bootstrap).
THEOREM RetirementInvariance == CSpec => []CInv
  <1>1. ASSUME CInv, CNext PROVE CInv'
    <2>1. CASE RetirementNext
      <3>1. ASSUME NEW t \in Table, Write(t) \/ ReadSource(t) PROVE CInv'
        BY <1>1, <3>1, WriteKeeps, ReadSourceKeeps
      <3>2. CASE StopWriters \/ StartWriters \/ CaptureGate \/ GateIsOver
        BY <1>1, <3>2, OtherStep DEF StopWriters, StartWriters, CaptureGate, GateIsOver
      <3>3. CASE ArchiveBegins \/ RetireBegins
        BY <1>1, <3>3, CommandBeginsKeeps
      <3>4. CASE SaveCopy \/ CompareCopy \/ WriteArchiveManifest \/ DropTable
        BY <1>1, <3>4, SaveCopyKeeps, CompareCopyKeeps, WriteArchiveManifestKeeps, DropTableKeeps
      <3>5. CASE RetireChecks \/ DropView \/ CheckResult \/ WriteJournal \/ CommandStops
        BY <1>1, <3>5, RetireKeeps
      <3> QED BY <2>1, <3>1, <3>2, <3>3, <3>4, <3>5 DEF RetirementNext
    <2> QED BY <1>1, <2>1, CleanupKeeps, BootstrapKeeps DEF CNext
  <1>2. ASSUME CInv, UNCHANGED cvars PROVE CInv'
    BY <1>2, OtherStep DEF cvars
  <1> QED BY <1>1, <1>2, CutoverBegins, PTL DEF CSpec

\* Whatever stops in the middle and whatever is written between two commands,
\* a table is dropped only when the bundle holds its last version, synthetic
\* rows go only after their archive, and a retirement that stopped can be
\* finished with the bundle it has (retire_archived_ca_tables,
\* complete_synthetic_cleanup).
THEOREM RetiredIsArchived == CSpec => []RetirementIsSafe
  <1>1. ASSUME CInv PROVE RetirementIsSafe
    <2>1. OnlyArchivedDataIsDropped
      <3>1. \A t \in Table : ~table[t].exists /\ files.manifest # None =>
                (files.manifest[t].exists => archive[t] = table[t].version)
        BY <1>1 DEF CInv, BundleHolds
      <3>2. rows # TableSuffixes => cleanup.manifest /\ cleanup.copied = TableSuffixes
        BY <1>1 DEF CInv, CleanupHolds
      <3>3. boot.locks <= 1
        BY <1>1 DEF CInv, OneLockRow
      <3> QED BY <3>1, <3>2, <3>3 DEF OnlyArchivedDataIsDropped
    <2>2. InterruptedRetirementCanFinish
      <3> SUFFICES ASSUME files.manifest # None, files.views = {},
                          \A t \in Table : table[t].exists =>
                              table[t].version = files.manifest[t].version
                   PROVE  Retirable
        BY DEF InterruptedRetirementCanFinish
      <3>1. views = files.views
        BY <1>1 DEF CInv, BundleHolds
      <3>2. \A t \in Table : UnchangedSince(files.manifest, t)
        BY <1>1 DEF CInv, BundleHolds, UnchangedSince
      <3>3. ArchivesAreValid(files.manifest)
        BY <1>1 DEF CInv, BundleHolds, ArchivesAreValid
      <3> QED BY <3>1, <3>2, <3>3 DEF Retirable
    <2> QED BY <2>1, <2>2 DEF RetirementIsSafe
  <1> QED BY <1>1, RetirementInvariance, PTL

-----------------------------------------------------------------------------
(* Publisher *)

LEMMA ChunksType == Chunks \in Nat /\ Chunks # 0
  BY PublisherAssumption, Zenon

LEMMA BytesFacts ==
    ASSUME NEW s \in Bytes
    PROVE  /\ s \in Seq(Content) /\ Len(s) \in 0 .. Chunks /\ s # None
           /\ s \in [1 .. Len(s) -> Content]
  <1>1. PICK n \in 0 .. Chunks : s \in [1 .. n -> Content]
    BY DEF Bytes
  <1>2. n \in Nat
    BY <1>1, ChunksType
  <1>3. s \in Seq(Content) /\ Len(s) = n
    BY <1>1, <1>2, LenProperties
  <1>4. s # None
    BY PublisherAssumption DEF Bytes
  <1> QED BY <1>1, <1>3, <1>4

LEMMA EmptyIsBytes == <<>> \in Bytes /\ Len(<<>>) = 0
  <1>1. <<>> \in [1 .. 0 -> Content]
    OBVIOUS
  <1>2. 0 \in 0 .. Chunks
    BY ChunksType
  <1> QED BY <1>1, <1>2 DEF Bytes

LEMMA AppendedBytes ==
    ASSUME NEW s \in Bytes, Len(s) < Chunks, NEW c \in Content
    PROVE  /\ Append(s, c) \in Bytes /\ Len(Append(s, c)) = Len(s) + 1
           /\ \A i \in 1 .. Len(s) : Append(s, c)[i] = s[i]
           /\ Append(s, c)[Len(s) + 1] = c
  <1>1. s \in Seq(Content) /\ Len(s) \in 0 .. Chunks
    BY BytesFacts
  <1> DEFINE t == Append(s, c)
  <1>2. /\ t \in Seq(Content) /\ Len(t) = Len(s) + 1
        /\ \A i \in 1 .. Len(s) : t[i] = s[i]
        /\ t[Len(s) + 1] = c
    BY <1>1
  <1>3. Len(t) \in 0 .. Chunks
    BY <1>1, <1>2, ChunksType
  <1> HIDE DEF t
  <1>4. t \in [1 .. Len(t) -> Content]
    BY <1>2
  <1>5. t \in Bytes
    BY <1>3, <1>4 DEF Bytes
  <1> QED BY <1>2, <1>5 DEF t

\* A whole video is as long as a video and holds one content.
LEMMA WholeFacts ==
    ASSUME NEW c \in Content
    PROVE  /\ Whole(c) \in Bytes /\ Len(Whole(c)) = Chunks
           /\ \A i \in 1 .. Chunks : Whole(c)[i] = c
           /\ \A s \in Bytes : Len(s) = Chunks /\ (\A i \in 1 .. Chunks : s[i] = c) => s = Whole(c)
           /\ \A s \in Bytes : IsPrefix(s, Whole(c)) => \A i \in 1 .. Len(s) : s[i] = c
  <1> DEFINE w == Whole(c)
  <1>1. w \in [1 .. Chunks -> Content] /\ \A i \in 1 .. Chunks : w[i] = c
    BY DEF Whole
  <1>2. Chunks \in Nat /\ Chunks \in 0 .. Chunks
    BY ChunksType
  <1>3. w \in Bytes /\ w \in Seq(Content) /\ Len(w) = Chunks
    BY <1>1, <1>2, LenProperties DEF Bytes
  <1>4. ASSUME NEW s \in Bytes, Len(s) = Chunks, \A i \in 1 .. Chunks : s[i] = c
        PROVE  s = w
    <2>1. s \in [1 .. Chunks -> Content]
      BY <1>4, BytesFacts
    <2> HIDE DEF w
    <2> QED BY <1>1, <1>4, <2>1
  <1>5. ASSUME NEW s \in Bytes, IsPrefix(s, w), NEW i \in 1 .. Len(s)
        PROVE  s[i] = c
    <2>1. s \in Seq(Content) /\ Len(s) \in 0 .. Chunks
      BY BytesFacts
    <2> HIDE DEF w
    <2>2. SubSeq(s, 1, Len(s)) = SubSeq(w, 1, Len(s)) /\ Len(s) <= Len(w)
      BY <1>5 DEF IsPrefix
    <2>3. SubSeq(s, 1, Len(s))[i] = s[i] /\ SubSeq(w, 1, Len(s))[i] = w[i]
      BY <1>2, <1>3, <1>5, <2>1
    <2> QED BY <1>1, <1>2, <1>5, <2>1, <2>2, <2>3
  <1> HIDE DEF w
  <1> QED BY <1>1, <1>3, <1>4, <1>5 DEF w

\* While a video is published its path is one of the videos' paths.
LEMMA CurrentIsPath ==
    ASSUME PubInv, job.pc \in Stages
    PROVE  /\ job.video \in Video /\ job.video \in job.todo
           /\ job.plan \in [Video -> Content] /\ job.plan = package.index.version
           /\ package.index.complete /\ checkpoint[job.video].state # None
           /\ Current = <<job.video, job.plan[job.video]>>
           /\ Current \in Path /\ Current[1] = job.video /\ Current[2] = job.plan[job.video]
           /\ Current[2] \in Content
  <1>1. /\ job.video \in job.todo /\ job.todo \subseteq Video /\ job.plan \in [Video -> Content]
        /\ job.plan = package.index.version /\ package.index.complete
        /\ checkpoint[job.video].state # None
    BY DEF PubInv, PubTypeOK, FollowsThePackage, Publishes, Jobs
  <1> QED BY <1>1 DEF Current, Path

LEMMA ObjectsFacts ==
    ASSUME PubInv, NEW p \in Path
    PROVE  /\ staged.video[p] \in Bytes \cup {None} /\ incoming.video[p] \in Bytes \cup {None}
           /\ staged.manifest[p] \in {None, "empty", "full"}
           /\ incoming.manifest[p] \in {None, "empty", "full"}
  BY DEF PubInv, PubTypeOK, Objects, Videos, ManifestFiles, Marks

\* An object put at a path.
LEMMA PutVideo ==
    ASSUME NEW o \in Objects, NEW p \in Path, NEW b \in Bytes \cup {None}
    PROVE  /\ [o EXCEPT !.video[p] = b] \in Objects
           /\ [o EXCEPT !.video[p] = b].manifest = o.manifest
           /\ [o EXCEPT !.video[p] = b].video[p] = b
           /\ \A q \in Path : q # p => [o EXCEPT !.video[p] = b].video[q] = o.video[q]
  <1> DEFINE f == [o.video EXCEPT ![p] = b]
  <1>1. f \in Videos /\ f[p] = b /\ \A q \in Path : q # p => f[q] = o.video[q]
    BY DEF Objects, Videos
  <1>2. [o EXCEPT !.video[p] = b] = [o EXCEPT !.video = f]
    OBVIOUS
  <1> HIDE DEF f
  <1>3. [o EXCEPT !.video = f] \in Objects /\ [o EXCEPT !.video = f].video = f
        /\ [o EXCEPT !.video = f].manifest = o.manifest
    BY <1>1 DEF Objects
  <1> QED BY <1>1, <1>2, <1>3

LEMMA PutManifest ==
    ASSUME NEW o \in Objects, NEW p \in Path, NEW m \in Marks
    PROVE  /\ [o EXCEPT !.manifest[p] = m] \in Objects
           /\ [o EXCEPT !.manifest[p] = m].video = o.video
           /\ [o EXCEPT !.manifest[p] = m].manifest[p] = m
           /\ \A q \in Path : q # p => [o EXCEPT !.manifest[p] = m].manifest[q] = o.manifest[q]
  <1> DEFINE f == [o.manifest EXCEPT ![p] = m]
  <1>1. f \in ManifestFiles /\ f[p] = m /\ \A q \in Path : q # p => f[q] = o.manifest[q]
    BY DEF Objects, ManifestFiles
  <1>2. [o EXCEPT !.manifest[p] = m] = [o EXCEPT !.manifest = f]
    OBVIOUS
  <1> HIDE DEF f
  <1>3. [o EXCEPT !.manifest = f] \in Objects /\ [o EXCEPT !.manifest = f].manifest = f
        /\ [o EXCEPT !.manifest = f].video = o.video
    BY <1>1 DEF Objects
  <1> QED BY <1>1, <1>2, <1>3

\* A row that gets another state speaks of the same package.
LEMMA StateOfRow ==
    ASSUME PubInv, NEW v \in Video, checkpoint[v].state # None, NEW state \in States,
           checkpoint' = [checkpoint EXCEPT ![v].state = state], UNCHANGED package
    PROVE  /\ checkpoint' \in [Video -> Rows] /\ RowsAreOfTheirPackage'
           /\ checkpoint'[v].state # None
  <1> DEFINE row == [checkpoint[v] EXCEPT !.state = state]
  <1>1. checkpoint \in [Video -> Rows] /\ checkpoint[v] \in Rows
    BY DEF PubInv, PubTypeOK
  <1>2. /\ row \in Rows /\ row.state = state /\ row.version = checkpoint[v].version
        /\ row.signature = checkpoint[v].signature
    BY <1>1 DEF Rows
  <1>3. checkpoint' = [checkpoint EXCEPT ![v] = row]
    OBVIOUS
  <1> HIDE DEF row
  <1>4. state # None
    BY PublisherAssumption DEF States
  <1>5. /\ checkpoint' \in [Video -> Rows] /\ checkpoint'[v] = row
        /\ \A w \in Video : w # v => checkpoint'[w] = checkpoint[w]
    BY <1>1, <1>2, <1>3
  <1>6. RowIsOf(row, v)
    BY <1>2 DEF PubInv, RowsAreOfTheirPackage, RowIsOf
  <1>7. RowsAreOfTheirPackage'
    BY <1>5, <1>6 DEF PubInv, RowsAreOfTheirPackage, RowIsOf
  <1> QED BY <1>2, <1>4, <1>5, <1>7

LEMMA IdleJob ==
    /\ Idle \in Jobs /\ Idle.pc = "idle" /\ Idle.read = <<>> /\ Idle.offset = 0
    /\ Idle.video = None /\ Idle.rejected = {} /\ Idle.todo = {}
  <1>1. 0 \in 0 .. Chunks
    BY ChunksType
  <1> QED BY <1>1, EmptyIsBytes DEF Idle, Jobs, NoPackage, Versions

\* Without a command that publishes there is nothing to say of its job.
LEMMA NoPublication ==
    ASSUME PubTypeOK', job'.pc \in {"idle", "prepare"}, RowsAreOfTheirPackage',
           job'.pc = "prepare" => ~package'.index.complete,
           IncomingIsWhatItsPathNames'
    PROVE  PubInv'
  <1>1. ~Publishes' /\ job'.pc \notin Stages
    BY DEF Publishes, Stages
  <1>2. FollowsThePackage'
    BY <1>1 DEF FollowsThePackage
  <1>3. StagedIsOfItsVersion' /\ StageHasBehindIt' /\ PublishedVideosAreComplete'
    BY <1>1 DEF StagedIsOfItsVersion, StageHasBehindIt, PublishedVideosAreComplete
  <1> QED BY <1>2, <1>3 DEF PubInv

LEMMA PublisherBegins == PubInit => PubInv
  <1> SUFFICES ASSUME PubInit PROVE PubInv
    OBVIOUS
  <1>1. NoObjects \in Objects /\ \A p \in Path : NoObjects.video[p] = None /\ NoObjects.manifest[p] = None
    BY DEF NoObjects, Objects, Videos, ManifestFiles, Marks
  <1>2. source \in Sources /\ package \in Packages
    BY DEF PubInit, Sources, Packages, NoPackage, Versions
  <1>3. checkpoint \in [Video -> Rows] /\ \A v \in Video : checkpoint[v].state = None
    BY DEF PubInit, Rows
  <1>4. PubTypeOK
    BY <1>1, <1>2, <1>3, IdleJob DEF PubInit, PubTypeOK
  <1>5. RowsAreOfTheirPackage
    BY <1>3 DEF RowsAreOfTheirPackage, RowIsOf
  <1>6. IncomingIsWhatItsPathNames
    BY <1>1 DEF PubInit, IncomingIsWhatItsPathNames
  <1>7. ~Publishes /\ job.pc = "idle"
    BY IdleJob DEF PubInit, Publishes, Stages
  <1>8. FollowsThePackage /\ StagedIsOfItsVersion /\ StageHasBehindIt /\ PublishedVideosAreComplete
    BY <1>7 DEF FollowsThePackage, StagedIsOfItsVersion, StageHasBehindIt,
                PublishedVideosAreComplete, Stages
  <1> QED BY <1>4, <1>5, <1>6, <1>8 DEF PubInv

LEMMA SameRows ==
    ASSUME PubInv, UNCHANGED <<package, checkpoint>>
    PROVE  RowsAreOfTheirPackage'
  BY DEF PubInv, RowsAreOfTheirPackage, RowIsOf

LEMMA SameIncoming ==
    ASSUME PubInv, UNCHANGED <<incoming, swapped>>
    PROVE  IncomingIsWhatItsPathNames'
  BY DEF PubInv, IncomingIsWhatItsPathNames

\* The process ends, or dies, wherever it is.
LEMMA IdleKeeps ==
    ASSUME PubInv, job' = Idle, UNCHANGED <<source, package, staged, incoming, checkpoint, swapped>>
    PROVE  PubInv'
  <1>1. PubTypeOK'
    BY IdleJob DEF PubInv, PubTypeOK
  <1> QED BY <1>1, IdleJob, SameRows, SameIncoming, NoPublication

LEMMA PrepareKeeps ==
    ASSUME PubInv, PrepareBegins \/ PrepareEnds \/ \E v \in Video : PrepareVideo(v)
    PROVE  PubInv'
  <1>1. UNCHANGED <<source, staged, incoming, checkpoint, swapped>>
    BY DEF PrepareBegins, PrepareEnds, PrepareVideo
  <1>2. /\ package.number \in Nat /\ package \in Packages
        /\ \A v \in Video : checkpoint[v].state # None => checkpoint[v].signature[1] \in Nat
    BY DEF PubInv, PubTypeOK, Packages, RowsAreOfTheirPackage, RowIsOf
  <1>3. CASE PrepareBegins
    <2>1. package' \in Packages /\ package'.number = package.number + 1 /\ package'.index.complete = FALSE
      BY <1>2, <1>3 DEF PrepareBegins, Packages, NoPackage, Versions
    <2>2. job' \in Jobs /\ job'.pc = "prepare"
      BY <1>3, IdleJob DEF PrepareBegins, Jobs
    <2>3. RowsAreOfTheirPackage'
      BY <1>1, <1>2, <2>1 DEF PubInv, RowsAreOfTheirPackage, RowIsOf
    <2>4. PubTypeOK'
      BY <1>1, <2>1, <2>2 DEF PubInv, PubTypeOK
    <2> QED BY <1>1, <2>1, <2>2, <2>3, <2>4, SameIncoming, NoPublication
  <1>4. CASE PrepareEnds
    <2> DEFINE index == [complete |-> job.todo = {} /\ job.rejected = {}, version |-> job.plan]
    <2>1. index \in [complete : BOOLEAN, version : Versions] /\ ~package.index.complete
      BY <1>4 DEF PrepareEnds, PubInv, PubTypeOK, Jobs, FollowsThePackage
    <2>2. package' = [package EXCEPT !.index = index]
      BY <1>4 DEF PrepareEnds
    <2> HIDE DEF index
    <2>3. package' \in Packages /\ package'.number = package.number
      BY <1>2, <2>1, <2>2 DEF Packages
    <2>4. RowsAreOfTheirPackage'
      BY <1>1, <2>1, <2>3 DEF PubInv, RowsAreOfTheirPackage, RowIsOf
    <2>5. PubTypeOK' /\ job'.pc = "idle"
      BY <1>1, <1>4, <2>3, IdleJob DEF PubInv, PubTypeOK, PrepareEnds
    <2> QED BY <1>1, <2>4, <2>5, SameIncoming, NoPublication
  <1>5. ASSUME NEW v \in Video, PrepareVideo(v) PROVE PubInv'
    <2>1. job \in Jobs /\ job.pc = "prepare" /\ source[v].content \in Content
      BY <1>5 DEF PrepareVideo, PubInv, PubTypeOK, Sources
    <2> DEFINE plan == [job.plan EXCEPT ![v] = source[v].content]
               left == job.todo \ {v}
               rejected == job.rejected \cup {v}
    <2>2. plan \in Versions /\ left \in SUBSET Video /\ rejected \in SUBSET Video
      BY <2>1 DEF Jobs, Versions
    <2>3. \/ job' = [job EXCEPT !.todo = left, !.plan = plan]
          \/ job' = [job EXCEPT !.todo = left, !.rejected = rejected]
      BY <1>5 DEF PrepareVideo
    <2> HIDE DEF plan, left, rejected
    <2>4. job' \in Jobs /\ job'.pc = "prepare"
      <3>1. CASE job' = [job EXCEPT !.todo = left, !.plan = plan]
        BY <2>1, <2>2, <3>1 DEF Jobs
      <3>2. CASE job' = [job EXCEPT !.todo = left, !.rejected = rejected]
        BY <2>1, <2>2, <3>2 DEF Jobs
      <3> QED BY <2>3, <3>1, <3>2
    <2>5. UNCHANGED package /\ ~package.index.complete
      BY <1>5, <2>1 DEF PrepareVideo, PubInv, FollowsThePackage
    <2>6. PubTypeOK'
      BY <1>1, <2>4, <2>5 DEF PubInv, PubTypeOK
    <2> QED BY <1>1, <2>4, <2>5, <2>6, SameRows, SameIncoming, NoPublication
  <1> QED BY <1>3, <1>4, <1>5

\* The loop over the videos, between two of them.
LEMMA NextIsSound ==
    ASSUME PubInv, job' \in Jobs, job'.pc = "next", job'.read = <<>>,
           package'.index.complete, job'.plan = package'.index.version,
           job'.plan \in [Video -> Content],
           checkpoint' \in [Video -> Rows], RowsAreOfTheirPackage',
           \A v \in Video \ (job'.todo \cup job'.rejected) :
               incoming.manifest[<<v, job'.plan[v]>>] = "full",
           UNCHANGED <<source, package, staged, incoming, swapped>>
    PROVE  PubInv'
  <1>1. PubTypeOK'
    BY DEF PubInv, PubTypeOK
  <1>2. job'.pc \notin Stages
    BY DEF Stages
  <1>3. FollowsThePackage'
    BY <1>2 DEF FollowsThePackage
  <1>4. StagedIsOfItsVersion' /\ StageHasBehindIt' /\ PublishedVideosAreComplete'
    BY DEF StagedIsOfItsVersion, StageHasBehindIt, PublishedVideosAreComplete
  <1> QED BY <1>1, <1>3, <1>4, SameIncoming DEF PubInv

LEMMA PublishBeginsKeeps ==
    ASSUME PubInv, PublishBegins
    PROVE  PubInv'
  <1>1. package.index.complete /\ \A v \in Video : package.index.version[v] \in Content
    BY DEF PublishBegins, PackageIsValid, PubInv, PubTypeOK, Sources
  <1>2. package.index.version \in [Video -> Content] /\ package.index.version \in Versions
    BY <1>1 DEF PubInv, PubTypeOK, Packages, Versions
  <1>3. job' \in Jobs /\ job'.pc = "next" /\ job'.read = <<>> /\ job'.todo = Video /\ job'.plan = package.index.version
    BY <1>2, IdleJob DEF PublishBegins, Jobs
  <1>4. UNCHANGED <<source, package, staged, incoming, checkpoint, swapped>>
    BY DEF PublishBegins
  <1>5. checkpoint' \in [Video -> Rows]
    BY <1>4 DEF PubInv, PubTypeOK
  <1> QED BY <1>1, <1>2, <1>3, <1>4, <1>5, SameRows, NextIsSound

\* A video is left: published, or rejected.
LEMMA LeaveKeeps ==
    ASSUME PubInv, job.pc \in Stages, NEW state \in {"MANIFEST_PUBLISHED", "REJECTED"}, Leave(state),
           state = "MANIFEST_PUBLISHED" => incoming.manifest[Current] = "full",
           UNCHANGED <<source, package, staged, incoming, swapped>>
    PROVE  PubInv'
  <1> DEFINE v == job.video
             rejected == IF state = "REJECTED" THEN job.rejected \cup {v} ELSE job.rejected
             left == job.todo \ {v}
  <1>1. /\ v \in Video /\ v \in job.todo /\ job.plan \in [Video -> Content]
        /\ job.plan = package.index.version /\ package.index.complete
        /\ checkpoint[v].state # None /\ Current = <<v, job.plan[v]>>
    BY CurrentIsPath
  <1>2. checkpoint' = [checkpoint EXCEPT ![v].state = state] /\ state \in States
    BY DEF Leave, States
  <1>3. checkpoint' \in [Video -> Rows] /\ RowsAreOfTheirPackage'
    BY <1>1, <1>2, StateOfRow
  <1>4. job \in Jobs /\ 0 \in 0 .. Chunks
    BY ChunksType DEF PubInv, PubTypeOK
  <1>5. rejected \in SUBSET Video /\ left \in SUBSET Video
    BY <1>1, <1>4 DEF Jobs
  <1>6. job' = [job EXCEPT !.todo = left, !.pc = "next", !.video = None, !.offset = 0,
                           !.read = <<>>, !.rejected = rejected]
    BY DEF Leave
  <1>7. \A w \in Video \ (left \cup rejected) : incoming.manifest[<<w, job.plan[w]>>] = "full"
    <2> SUFFICES ASSUME NEW w \in Video \ (left \cup rejected)
                 PROVE  incoming.manifest[<<w, job.plan[w]>>] = "full"
      OBVIOUS
    <2>1. CASE w = v
      BY <1>1, <2>1
    <2>2. CASE w # v
      <3>1. w \in Video \ (job.todo \cup job.rejected)
        BY <2>2
      <3> QED BY <3>1 DEF PubInv, PublishedVideosAreComplete, Publishes
    <2> QED BY <2>1, <2>2
  <1> HIDE DEF rejected, left
  <1>8. /\ job' \in Jobs /\ job'.pc = "next" /\ job'.read = <<>> /\ job'.plan = job.plan
        /\ job'.todo = left /\ job'.rejected = rejected
    BY <1>4, <1>5, <1>6, EmptyIsBytes DEF Jobs
  <1> QED BY <1>1, <1>3, <1>7, <1>8, NextIsSound

LEMMA NextVideoKeeps ==
    ASSUME PubInv, NEW v \in Video, NextVideo(v)
    PROVE  PubInv'
  <1>1. job \in Jobs /\ job.pc = "next" /\ v \in job.todo /\ checkpoint \in [Video -> Rows] /\ package \in Packages
    BY DEF NextVideo, PubInv, PubTypeOK
  <1>2. /\ Publishes /\ job.plan \in [Video -> Content] /\ job.plan = package.index.version
        /\ package.index.complete /\ job.read = <<>>
    BY <1>1 DEF PubInv, FollowsThePackage, Publishes, StageHasBehindIt
  <1>3. UNCHANGED <<source, package, staged, incoming, swapped>>
    BY DEF NextVideo
  <1>4. CASE CheckpointIsPublished(v)
    <2>1. job' = [job EXCEPT !.todo = job.todo \ {v}] /\ UNCHANGED checkpoint
      BY <1>4 DEF NextVideo
    <2>2. /\ job' \in Jobs /\ job'.pc = "next" /\ job'.read = <<>> /\ job'.plan = job.plan
          /\ job'.todo = job.todo \ {v} /\ job'.rejected = job.rejected
      BY <1>1, <1>2, <2>1 DEF Jobs
    <2>3. incoming.manifest[<<v, job.plan[v]>>] = "full"
      <3>1. /\ checkpoint[v].state # None /\ checkpoint[v].signature[1] = package.number
            /\ incoming.manifest[<<v, checkpoint[v].version>>] = "full"
        <4>1. "MANIFEST_PUBLISHED" # None
          BY PublisherAssumption
        <4> QED BY <1>4, <4>1 DEF CheckpointIsPublished, Signature
      <3>2. checkpoint[v].version = package.index.version[v]
        BY <3>1 DEF PubInv, RowsAreOfTheirPackage, RowIsOf
      <3> QED BY <1>2, <3>1, <3>2
    <2>4. \A w \in Video \ (job'.todo \cup job'.rejected) : incoming.manifest[<<w, job'.plan[w]>>] = "full"
      BY <1>2, <2>2, <2>3 DEF PubInv, PublishedVideosAreComplete
    <2> QED BY <1>1, <1>2, <1>3, <2>1, <2>2, <2>4, SameRows, NextIsSound
  <1>5. CASE ~CheckpointIsPublished(v)
    <2> DEFINE row == [state |-> "DISCOVERED", version |-> job.plan[v], signature |-> Signature(v)]
    <2>1. Signature(v) \in Nat \X Nat /\ Signature(v)[1] = package.number
      BY DEF PubInv, PubTypeOK, Packages, Sources, Signature
    <2>2. "DISCOVERED" # None /\ package.number \in Nat
      BY <1>1, PublisherAssumption DEF Packages
    <2>3. row \in Rows /\ row.state # None /\ row.version = job.plan[v] /\ row.signature = Signature(v)
      BY <1>2, <2>1, <2>2 DEF Rows, States
    <2>4. checkpoint' = [checkpoint EXCEPT ![v] = row] /\ job' = [job EXCEPT !.video = v, !.pc = "look"]
      BY <1>5 DEF NextVideo
    <2> HIDE DEF row
    <2>5. RowIsOf(row, v)
      BY <1>2, <2>1, <2>2, <2>3 DEF RowIsOf
    <2>6. /\ checkpoint' \in [Video -> Rows] /\ checkpoint'[v] = row
          /\ \A w \in Video : w # v => checkpoint'[w] = checkpoint[w]
      BY <1>1, <2>3, <2>4
    <2>7. RowsAreOfTheirPackage'
      BY <1>3, <2>5, <2>6 DEF PubInv, RowsAreOfTheirPackage, RowIsOf
    <2>8. /\ job' \in Jobs /\ job'.pc = "look" /\ job'.video = v /\ job'.todo = job.todo
          /\ job'.plan = job.plan /\ job'.read = job.read /\ job'.rejected = job.rejected
      BY <1>1, <2>4 DEF Jobs, Stages
    <2>9. PubTypeOK'
      BY <1>3, <2>6, <2>8 DEF PubInv, PubTypeOK
    <2>10. FollowsThePackage'
      BY <1>1, <1>2, <1>3, <2>3, <2>6, <2>8 DEF FollowsThePackage
    <2>11. StagedIsOfItsVersion' /\ StageHasBehindIt'
      BY <1>2, <2>8 DEF StagedIsOfItsVersion, StageHasBehindIt
    <2>12. PublishedVideosAreComplete'
      BY <1>2, <1>3, <2>8 DEF PubInv, PublishedVideosAreComplete
    <2> QED BY <1>3, <2>7, <2>9, <2>10, <2>11, <2>12, SameIncoming DEF PubInv
  <1> QED BY <1>4, <1>5

\* A publication goes on to its next stage.
LEMMA StageKeeps ==
    ASSUME PubInv, job.pc \in Stages, NEW pc \in Stages \ {"append"},
           job' = [job EXCEPT !.pc = pc],
           UNCHANGED <<source, package, swapped>>,
           checkpoint' \in [Video -> Rows], RowsAreOfTheirPackage', checkpoint'[job.video].state # None,
           staged' \in Objects, incoming' \in Objects,
           StageHasBehindIt', IncomingIsWhatItsPathNames',
           \A p \in Path : incoming.manifest[p] = "full" => incoming'.manifest[p] = "full"
    PROVE  PubInv'
  <1>1. job \in Jobs
    BY DEF PubInv, PubTypeOK
  <1>2. /\ job' \in Jobs /\ job'.pc = pc /\ job'.video = job.video /\ job'.plan = job.plan
        /\ job'.todo = job.todo /\ job'.rejected = job.rejected
    BY <1>1 DEF Jobs
  <1>3. /\ job.video \in job.todo /\ job.plan \in [Video -> Content] /\ job.plan = package.index.version
        /\ package.index.complete
    BY CurrentIsPath
  <1>4. PubTypeOK'
    BY <1>2 DEF PubInv, PubTypeOK
  <1>5. FollowsThePackage'
    BY <1>2, <1>3 DEF FollowsThePackage, Stages
  <1>6. StagedIsOfItsVersion'
    BY <1>2 DEF StagedIsOfItsVersion
  <1>7. PublishedVideosAreComplete'
    <2>1. ASSUME NEW v \in Video \ (job.todo \cup job.rejected)
          PROVE  incoming'.manifest[<<v, job.plan[v]>>] = "full"
      <3>1. <<v, job.plan[v]>> \in Path
        BY <1>3 DEF Path
      <3>2. incoming.manifest[<<v, job.plan[v]>>] = "full"
        BY DEF PubInv, PublishedVideosAreComplete, Publishes
      <3> QED BY <3>1, <3>2
    <2> QED BY <1>2, <2>1 DEF PublishedVideosAreComplete
  <1> QED BY <1>4, <1>5, <1>6, <1>7 DEF PubInv

\* The stages that change nothing but where the publication is.
LEMMA GotoKeeps ==
    ASSUME PubInv, job.pc \in Stages, NEW pc \in Stages \ {"append"}, Goto(pc),
           UNCHANGED <<source, package, staged, incoming, swapped>>, StageHasBehindIt'
    PROVE  PubInv'
  <1>1. /\ checkpoint' \in [Video -> Rows] /\ staged' \in Objects /\ incoming' \in Objects
        /\ UNCHANGED checkpoint /\ job' = [job EXCEPT !.pc = pc]
    BY DEF PubInv, PubTypeOK, Goto
  <1>2. checkpoint'[job.video].state # None
    BY <1>1, CurrentIsPath
  <1> QED BY <1>1, <1>2, SameRows, SameIncoming, StageKeeps

\* The current path and what was read stay when only the stage changes.
LEMMA SameCurrent ==
    ASSUME PubInv, NEW pc \in Stages, job' = [job EXCEPT !.pc = pc]
    PROVE  Current' = Current /\ job'.pc = pc /\ job'.read = job.read /\ job'.video = job.video
  BY DEF PubInv, PubTypeOK, Jobs, Current

LEMMA LookKeeps ==
    ASSUME PubInv, LookAtIncoming
    PROVE  PubInv'
  <1> DEFINE video == incoming.video[Current]
             manifest == incoming.manifest[Current]
  <1>1. job.pc = "look" /\ job.pc \in Stages /\ UNCHANGED <<source, package, staged, incoming, swapped>>
    BY DEF LookAtIncoming, Stages
  <1>2. Current \in Path /\ Current[2] \in Content /\ job.read = <<>>
    BY <1>1, CurrentIsPath DEF PubInv, StageHasBehindIt
  <1>3. \/ Leave("MANIFEST_PUBLISHED") /\ manifest = "full"
        \/ Leave("REJECTED")
        \/ video = None /\ Goto("upload")
        \/ video # None /\ Goto("check")
    BY DEF LookAtIncoming
  <1>4. CASE Leave("MANIFEST_PUBLISHED") /\ manifest = "full"
    BY <1>1, <1>4, LeaveKeeps
  <1>5. CASE Leave("REJECTED")
    <2>1. "REJECTED" # "MANIFEST_PUBLISHED"
      OBVIOUS
    <2> QED BY <1>1, <1>5, <2>1, LeaveKeeps
  <1>6. CASE video = None /\ Goto("upload")
    <2>1. job' = [job EXCEPT !.pc = "upload"] /\ "upload" \in Stages \ {"append"}
      BY <1>6 DEF Goto, Stages
    <2>2. job'.pc = "upload" /\ job'.read = <<>>
      BY <1>2, <2>1, SameCurrent
    <2>3. StageHasBehindIt'
      BY <2>2 DEF StageHasBehindIt
    <2> QED BY <1>1, <1>6, <2>1, <2>3, GotoKeeps
  <1>7. CASE video # None /\ Goto("check")
    <2>1. job' = [job EXCEPT !.pc = "check"] /\ "check" \in Stages \ {"append"}
      BY <1>7 DEF Goto, Stages
    <2>2. job'.pc = "check" /\ Current' = Current
      BY <2>1, SameCurrent
    <2>3. StageHasBehindIt'
      BY <1>1, <1>7, <2>2 DEF StageHasBehindIt
    <2> QED BY <1>1, <1>7, <2>1, <2>3, GotoKeeps
  <1> QED BY <1>3, <1>4, <1>5, <1>6, <1>7

\* What is resumed was compared with the file as it is now.
LEMMA UploadBeginsKeeps ==
    ASSUME PubInv, UploadBegins
    PROVE  PubInv'
  <1> DEFINE prefix == ResumePrefix
             content == source[job.video].content
  <1>1. job.pc = "upload" /\ job.pc \in Stages /\ UNCHANGED <<source, package, incoming, checkpoint, swapped>>
    BY DEF UploadBegins, Stages
  <1>2. /\ Current \in Path /\ job.video \in Video /\ job.plan \in [Video -> Content]
        /\ Current = <<job.video, job.plan[job.video]>>
        /\ job.video \in job.todo /\ job.plan = package.index.version /\ package.index.complete
        /\ checkpoint[job.video].state # None
    BY <1>1, CurrentIsPath
  <1>3. job \in Jobs /\ content \in Content /\ staged \in Objects /\ job.read = <<>>
    BY <1>1, <1>2 DEF PubInv, PubTypeOK, Sources, StageHasBehindIt
  <1>4. prefix \in Bytes /\ \A i \in 1 .. Len(prefix) : prefix[i] = content
    <2>1. CASE staged.video[Current] # None /\ IsPrefix(staged.video[Current], Whole(content))
      <3>1. prefix = staged.video[Current]
        BY <2>1 DEF ResumePrefix
      <3>2. staged.video[Current] \in Bytes
        BY <1>2, <2>1, ObjectsFacts
      <3> QED BY <1>3, <2>1, <3>1, <3>2, WholeFacts
    <2>2. CASE ~(staged.video[Current] # None /\ IsPrefix(staged.video[Current], Whole(content)))
      <3>1. prefix = <<>>
        BY <2>2 DEF ResumePrefix
      <3> QED BY <3>1, EmptyIsBytes
    <2> QED BY <2>1, <2>2
  <1>5. Len(prefix) \in 0 .. Chunks /\ Len(<<>>) = 0
    BY <1>4, BytesFacts
  <1>6. staged' = [staged EXCEPT !.video[Current] = prefix]
    BY DEF UploadBegins
  <1>7. job' = [job EXCEPT !.pc = "append", !.offset = Len(prefix)]
    BY DEF UploadBegins
  <1> HIDE DEF prefix
  <1>8. /\ staged' \in Objects /\ staged'.video[Current] = prefix
        /\ staged'.manifest = staged.manifest
    BY <1>2, <1>3, <1>4, <1>6, PutVideo
  <1>9. /\ job' \in Jobs /\ job'.pc = "append" /\ job'.offset = Len(prefix) /\ job'.read = <<>>
        /\ job'.video = job.video /\ job'.plan = job.plan /\ job'.todo = job.todo
        /\ job'.rejected = job.rejected
    BY <1>3, <1>5, <1>7 DEF Jobs, Stages
  <1>10. Current' = Current /\ Current[2] = job.plan[job.video]
    BY <1>2, <1>9 DEF Current
  <1>11. PubTypeOK'
    BY <1>1, <1>8, <1>9 DEF PubInv, PubTypeOK
  <1>12. FollowsThePackage'
    BY <1>1, <1>2, <1>9 DEF FollowsThePackage
  <1>13. StagedIsOfItsVersion'
    <2>1. Len(job'.read) <= job'.offset
      BY <1>5, <1>9
    <2>2. \/ \A i \in 1 .. job'.offset : staged'.video[Current'][i] = Current'[2]
          \/ source'[job'.video].content # Current'[2]
      BY <1>1, <1>4, <1>8, <1>9, <1>10
    <2> QED BY <1>4, <1>8, <1>9, <1>10, <2>1, <2>2 DEF StagedIsOfItsVersion
  <1>14. StageHasBehindIt'
    BY <1>9 DEF StageHasBehindIt
  <1>15. PublishedVideosAreComplete'
    BY <1>1, <1>9 DEF PubInv, PublishedVideosAreComplete, Publishes
  <1> QED BY <1>1, <1>11, <1>12, <1>13, <1>14, <1>15, SameRows, SameIncoming DEF PubInv

\* One more chunk is read, and appended if it is not there yet.
LEMMA AppendChunkKeeps ==
    ASSUME PubInv, AppendChunk
    PROVE  PubInv'
  <1> DEFINE chunk == source[job.video].content
             read == Append(job.read, chunk)
             there == staged.video[Current]
             c == Current[2]
  <1>1. /\ job.pc = "append" /\ job.pc \in Stages /\ Len(job.read) < Chunks
        /\ UNCHANGED <<source, package, incoming, checkpoint, swapped>>
    BY DEF AppendChunk, Stages
  <1>2. /\ Current \in Path /\ job.video \in Video /\ job.plan \in [Video -> Content]
        /\ job.video \in job.todo /\ job.plan = package.index.version /\ package.index.complete
        /\ checkpoint[job.video].state # None
    BY <1>1, CurrentIsPath
  <1>3. job \in Jobs /\ chunk \in Content /\ staged \in Objects /\ job.read \in Bytes
    BY <1>2 DEF PubInv, PubTypeOK, Sources, Jobs
  <1>4. /\ there \in Bytes /\ job.offset = Len(there) /\ Len(job.read) <= job.offset
        /\ \/ Current \in swapped
           \/ \A i \in 1 .. job.offset : there[i] = c
           \/ \E i \in 1 .. Len(job.read) : job.read[i] # c
           \/ job.read = <<>> /\ chunk # c
    BY <1>1 DEF PubInv, StagedIsOfItsVersion
  <1>5. /\ Len(job.read) \in Nat /\ Len(there) \in Nat /\ Len(there) <= Chunks
    BY <1>3, <1>4, BytesFacts
  <1>6. /\ read \in Bytes /\ Len(read) = Len(job.read) + 1 /\ read[Len(job.read) + 1] = chunk
        /\ \A i \in 1 .. Len(job.read) : read[i] = job.read[i]
    BY <1>1, <1>3, AppendedBytes
  <1>7. PICK new \in Bytes, offset \in 0 .. Chunks :
            /\ staged'.video[Current] = new /\ staged' \in Objects /\ staged'.manifest = staged.manifest
            /\ job' = [job EXCEPT !.read = read, !.offset = offset]
            /\ offset = Len(new) /\ Len(read) <= offset
            /\ \/ new = there
               \/ /\ Len(new) = Len(there) + 1 /\ new[Len(there) + 1] = chunk
                  /\ \A i \in 1 .. Len(there) : new[i] = there[i]
    <2>1. CASE Len(job.read) < job.offset
      <3>1. staged' = staged /\ job' = [job EXCEPT !.read = read, !.offset = job.offset]
        BY <1>3, <2>1 DEF AppendChunk, Jobs
      <3>2. job.offset \in 0 .. Chunks /\ Len(read) <= job.offset
        BY <1>4, <1>5, <1>6, <2>1
      <3> HIDE DEF read
      <3> QED BY <1>3, <1>4, <3>1, <3>2
    <2>2. CASE ~(Len(job.read) < job.offset)
      <3> DEFINE new == Append(there, chunk)
      <3>1. Len(there) < Chunks /\ Len(there) = Len(job.read) /\ job.offset = Len(there)
        BY <1>1, <1>4, <1>5, <2>2
      <3>2. /\ new \in Bytes /\ Len(new) = Len(there) + 1 /\ new[Len(there) + 1] = chunk
            /\ \A i \in 1 .. Len(there) : new[i] = there[i]
        BY <1>3, <1>4, <3>1, AppendedBytes
      <3>3. /\ staged' = [staged EXCEPT !.video[Current] = new]
            /\ job' = [job EXCEPT !.read = read, !.offset = job.offset + 1]
        BY <2>2 DEF AppendChunk
      <3>4. /\ staged' \in Objects /\ staged'.video[Current] = new /\ staged'.manifest = staged.manifest
        <4>1. new \in Bytes \cup {None}
          BY <3>2
        <4> HIDE DEF new
        <4> QED BY <1>2, <1>3, <3>3, <4>1, PutVideo
      <3>5. /\ job.offset + 1 \in 0 .. Chunks /\ job.offset + 1 = Len(new) /\ Len(read) <= job.offset + 1
        BY <1>5, <1>6, <3>1, <3>2, ChunksType
      <3> HIDE DEF new, read, there, chunk
      <3> QED BY <3>2, <3>3, <3>4, <3>5
    <2> QED BY <2>1, <2>2
  <1> HIDE DEF read
  <1>8. /\ job' \in Jobs /\ job'.pc = "append" /\ job'.offset = offset /\ job'.read = read
        /\ job'.video = job.video /\ job'.plan = job.plan /\ job'.todo = job.todo
        /\ job'.rejected = job.rejected
    BY <1>1, <1>3, <1>6, <1>7 DEF Jobs
  <1>9. Current' = Current
    BY <1>8 DEF Current
  <1>10. PubTypeOK'
    BY <1>1, <1>7, <1>8 DEF PubInv, PubTypeOK
  <1>11. FollowsThePackage'
    BY <1>1, <1>2, <1>8 DEF FollowsThePackage
  <1>12. \/ Current \in swapped
         \/ \A i \in 1 .. offset : new[i] = c
         \/ \E i \in 1 .. Len(read) : read[i] # c
    <2>1. CASE Current \in swapped
      BY <2>1
    <2>2. CASE chunk # c
      <3>1. Len(job.read) + 1 \in 1 .. Len(read)
        BY <1>5, <1>6
      <3> QED BY <1>6, <2>2, <3>1
    <2>3. CASE \E i \in 1 .. Len(job.read) : job.read[i] # c
      <3>1. PICK i \in 1 .. Len(job.read) : job.read[i] # c
        BY <2>3
      <3>2. i \in 1 .. Len(read)
        BY <1>5, <1>6, <3>1
      <3> QED BY <1>6, <3>1, <3>2
    <2>4. CASE chunk = c /\ \A i \in 1 .. job.offset : there[i] = c
      <3> SUFFICES ASSUME NEW i \in 1 .. offset PROVE new[i] = c
        OBVIOUS
      <3>1. CASE new = there
        BY <1>4, <1>7, <2>4, <3>1
      <3>2. CASE /\ Len(new) = Len(there) + 1 /\ new[Len(there) + 1] = chunk
                 /\ \A j \in 1 .. Len(there) : new[j] = there[j]
        <4>1. i \in 1 .. Len(there) \/ i = Len(there) + 1
          BY <1>5, <1>7, <3>2
        <4> QED BY <1>4, <2>4, <3>2, <4>1
      <3> QED BY <1>7, <3>1, <3>2
    <2> QED BY <1>4, <2>1, <2>2, <2>3, <2>4
  <1>13. StagedIsOfItsVersion'
    BY <1>1, <1>7, <1>8, <1>9, <1>12 DEF StagedIsOfItsVersion
  <1>14. StageHasBehindIt'
    BY <1>8 DEF StageHasBehindIt
  <1>15. PublishedVideosAreComplete'
    BY <1>1, <1>8 DEF PubInv, PublishedVideosAreComplete, Publishes
  <1> QED BY <1>1, <1>10, <1>11, <1>13, <1>14, <1>15, SameRows, SameIncoming DEF PubInv

\* Whoever read the whole version has staged it, but for a swapped file.
LEMMA UploadEndsKeeps ==
    ASSUME PubInv, UploadEnds
    PROVE  PubInv'
  <1> DEFINE there == staged.video[Current]
             c == Current[2]
  <1>1. job.pc = "append" /\ job.pc \in Stages /\ UNCHANGED <<source, package, staged, incoming, swapped>>
    BY DEF UploadEnds, Stages
  <1>2. CASE ~(job.read = Whole(c) /\ Len(there) = Chunks)
    <2>1. Leave("REJECTED") /\ "REJECTED" # "MANIFEST_PUBLISHED"
      BY <1>2 DEF UploadEnds
    <2> QED BY <1>1, <2>1, LeaveKeeps
  <1>3. CASE job.read = Whole(c) /\ Len(there) = Chunks
    <2>1. Goto("rename") /\ job' = [job EXCEPT !.pc = "rename"] /\ "rename" \in Stages \ {"append"}
      BY <1>3 DEF UploadEnds, Goto, Stages
    <2>2. c \in Content
      BY <1>1, CurrentIsPath
    <2>3. /\ there \in Bytes /\ job.offset = Chunks
          /\ \/ Current \in swapped
             \/ \A i \in 1 .. Chunks : there[i] = c
             \/ \E i \in 1 .. Len(job.read) : job.read[i] # c
             \/ job.read = <<>>
      BY <1>1, <1>3 DEF PubInv, StagedIsOfItsVersion
    <2>4. Len(job.read) = Chunks /\ \A i \in 1 .. Chunks : job.read[i] = c
      BY <1>3, <2>2, WholeFacts
    <2>5. job.read # <<>>
      BY <2>4, EmptyIsBytes, ChunksType
    <2>6. there # None /\ (Current \in swapped \/ there = Whole(c))
      BY <1>3, <2>2, <2>3, <2>4, <2>5, BytesFacts, WholeFacts
    <2>7. job'.pc = "rename" /\ Current' = Current
      BY <2>1, SameCurrent
    <2>8. StageHasBehindIt'
      BY <1>1, <2>6, <2>7 DEF StageHasBehindIt
    <2> QED BY <1>1, <2>1, <2>8, GotoKeeps
  <1> QED BY <1>2, <1>3

LEMMA RenameVideoKeeps ==
    ASSUME PubInv, RenameVideo
    PROVE  PubInv'
  <1> DEFINE there == staged.video[Current]
  <1>1. /\ job.pc = "rename" /\ job.pc \in Stages /\ UNCHANGED <<source, package, swapped, checkpoint>>
        /\ job' = [job EXCEPT !.pc = "check"] /\ "check" \in Stages \ {"append"}
    BY DEF RenameVideo, Goto, Stages
  <1>2. Current \in Path /\ checkpoint[job.video].state # None
    BY <1>1, CurrentIsPath
  <1>3. there # None /\ (Current \in swapped \/ there = Whole(Current[2])) /\ there \in Bytes \cup {None}
    BY <1>1, <1>2, ObjectsFacts DEF PubInv, StageHasBehindIt
  <1>4. staged \in Objects /\ incoming \in Objects /\ checkpoint \in [Video -> Rows]
    BY DEF PubInv, PubTypeOK
  <1>5. incoming' = [incoming EXCEPT !.video[Current] = there]
    BY DEF RenameVideo
  <1>6. staged' = [staged EXCEPT !.video[Current] = None]
    BY DEF RenameVideo
  <1> HIDE DEF there
  <1>7. staged' \in Objects
    BY <1>2, <1>4, <1>6, PutVideo
  <1>8. /\ incoming' \in Objects /\ incoming'.manifest = incoming.manifest
        /\ incoming'.video[Current] = there
        /\ \A q \in Path : q # Current => incoming'.video[q] = incoming.video[q]
    BY <1>2, <1>3, <1>4, <1>5, PutVideo
  <1>9. IncomingIsWhatItsPathNames'
    <2>1. ASSUME NEW p \in Path
          PROVE  /\ incoming'.video[p] # None => p \in swapped \/ incoming'.video[p] = Whole(p[2])
                 /\ incoming.video[p] # None => incoming'.video[p] # None
      <3>1. CASE p = Current
        BY <1>3, <1>8, <3>1
      <3>2. CASE p # Current
        BY <1>8, <3>2 DEF PubInv, IncomingIsWhatItsPathNames
      <3> QED BY <3>1, <3>2
    <2>2. \A p \in Path : incoming'.manifest[p] # None =>
              incoming'.manifest[p] = "full" /\ incoming'.video[p] # None
      BY <1>8, <2>1 DEF PubInv, IncomingIsWhatItsPathNames
    <2> QED BY <1>1, <2>1, <2>2 DEF IncomingIsWhatItsPathNames, Whole
  <1>10. job'.pc = "check" /\ Current' = Current
    BY <1>1, SameCurrent
  <1>11. StageHasBehindIt'
    BY <1>3, <1>8, <1>10 DEF StageHasBehindIt
  <1> QED BY <1>1, <1>2, <1>4, <1>7, <1>8, <1>9, <1>11, SameRows, StageKeeps

LEMMA CheckVideoKeeps ==
    ASSUME PubInv, CheckVideo
    PROVE  PubInv'
  <1>1. job.pc = "check" /\ job.pc \in Stages /\ UNCHANGED <<source, package, staged, incoming, swapped>>
    BY DEF CheckVideo, Stages
  <1>2. CASE Leave("REJECTED")
    <2>1. "REJECTED" # "MANIFEST_PUBLISHED"
      OBVIOUS
    <2> QED BY <1>1, <1>2, <2>1, LeaveKeeps
  <1>3. CASE /\ checkpoint' = [checkpoint EXCEPT ![job.video].state = "VIDEO_PUBLISHED"]
             /\ job' = [job EXCEPT !.pc = "stage"]
    <2>1. job.video \in Video /\ checkpoint[job.video].state # None
      BY <1>1, CurrentIsPath
    <2>2. "VIDEO_PUBLISHED" \in States /\ "stage" \in Stages \ {"append"}
      BY DEF States, Stages
    <2>3. checkpoint' \in [Video -> Rows] /\ RowsAreOfTheirPackage' /\ checkpoint'[job.video].state # None
      BY <1>1, <1>3, <2>1, <2>2, StateOfRow
    <2>4. staged' \in Objects /\ incoming' \in Objects
      BY <1>1 DEF PubInv, PubTypeOK
    <2>5. job'.pc = "stage" /\ Current' = Current
      BY <1>3, <2>2, SameCurrent
    <2>6. StageHasBehindIt'
      BY <1>1, <2>5 DEF PubInv, StageHasBehindIt
    <2>7. \A p \in Path : incoming.manifest[p] = "full" => incoming'.manifest[p] = "full"
      BY <1>1
    <2> QED BY <1>1, <1>3, <2>2, <2>3, <2>4, <2>6, <2>7, SameIncoming, StageKeeps
  <1> QED BY <1>2, <1>3 DEF CheckVideo

\* The staging of a manifest.
LEMMA StagingKeeps ==
    ASSUME PubInv, job.pc \in {"stage", "write"}, NEW pc \in {"write", "publish"}, Goto(pc),
           NEW m \in {"empty", "full"}, pc = "publish" => m = "full",
           staged' = [staged EXCEPT !.manifest[Current] = m],
           UNCHANGED <<source, package, incoming, swapped>>
    PROVE  PubInv'
  <1>1. /\ job.pc \in Stages /\ UNCHANGED checkpoint /\ job' = [job EXCEPT !.pc = pc]
        /\ pc \in Stages \ {"append"}
    BY DEF Goto, Stages
  <1>2. Current \in Path /\ checkpoint[job.video].state # None
    BY <1>1, CurrentIsPath
  <1>3. staged \in Objects /\ incoming' \in Objects /\ checkpoint' \in [Video -> Rows]
    BY <1>1 DEF PubInv, PubTypeOK
  <1>4. staged' \in Objects /\ staged'.manifest[Current] = m
    <2>1. m \in Marks
      BY DEF Marks
    <2> QED BY <1>2, <1>3, <2>1, PutManifest
  <1>5. job'.pc = pc /\ Current' = Current
    BY <1>1, SameCurrent
  <1>6. incoming.video[Current] # None
    BY DEF PubInv, StageHasBehindIt
  <1>7. StageHasBehindIt'
    BY <1>4, <1>5, <1>6 DEF StageHasBehindIt
  <1>8. \A p \in Path : incoming.manifest[p] = "full" => incoming'.manifest[p] = "full"
    OBVIOUS
  <1> QED BY <1>1, <1>2, <1>3, <1>4, <1>7, <1>8, SameRows, SameIncoming, StageKeeps

LEMMA StageManifestKeeps ==
    ASSUME PubInv, StageManifest \/ WriteManifest
    PROVE  PubInv'
  <1>1. job.pc \in {"stage", "write"} /\ job.pc \in Stages /\ UNCHANGED <<source, package, incoming, swapped>>
    BY DEF StageManifest, WriteManifest, Stages
  <1>2. CASE staged' = [staged EXCEPT !.manifest[Current] = "empty"] /\ Goto("write")
    BY <1>1, <1>2, StagingKeeps
  <1>3. CASE staged' = [staged EXCEPT !.manifest[Current] = "full"] /\ Goto("publish")
    BY <1>1, <1>3, StagingKeeps
  <1>4. CASE staged.manifest[Current] = "full" /\ Goto("publish") /\ UNCHANGED staged
    <2>1. job' = [job EXCEPT !.pc = "publish"] /\ "publish" \in Stages \ {"append"}
      BY <1>4 DEF Goto, Stages
    <2>2. job'.pc = "publish" /\ Current' = Current
      BY <2>1, SameCurrent
    <2>3. StageHasBehindIt'
      BY <1>1, <1>4, <2>2 DEF PubInv, StageHasBehindIt
    <2> QED BY <1>1, <1>4, <2>1, <2>3, GotoKeeps
  <1>5. CASE Leave("REJECTED") /\ UNCHANGED staged
    <2>1. "REJECTED" # "MANIFEST_PUBLISHED"
      OBVIOUS
    <2> QED BY <1>1, <1>5, <2>1, LeaveKeeps
  <1> QED BY <1>2, <1>3, <1>4, <1>5 DEF StageManifest, WriteManifest

LEMMA RenameManifestKeeps ==
    ASSUME PubInv, RenameManifest
    PROVE  PubInv'
  <1>1. /\ job.pc = "publish" /\ job.pc \in Stages /\ UNCHANGED <<source, package, swapped, checkpoint>>
        /\ job' = [job EXCEPT !.pc = "record"] /\ "record" \in Stages \ {"append"}
    BY DEF RenameManifest, Goto, Stages
  <1>2. Current \in Path /\ checkpoint[job.video].state # None
    BY <1>1, CurrentIsPath
  <1>3. staged.manifest[Current] = "full" /\ incoming.video[Current] # None
    BY <1>1 DEF PubInv, StageHasBehindIt
  <1>4. staged \in Objects /\ incoming \in Objects /\ checkpoint \in [Video -> Rows]
    BY DEF PubInv, PubTypeOK
  <1>5. /\ incoming' = [incoming EXCEPT !.manifest[Current] = "full"]
        /\ staged' = [staged EXCEPT !.manifest[Current] = None]
    BY <1>3 DEF RenameManifest
  <1>6. staged' \in Objects
    <2>1. None \in Marks
      BY DEF Marks
    <2> QED BY <1>2, <1>4, <1>5, <2>1, PutManifest
  <1>7. /\ incoming' \in Objects /\ incoming'.video = incoming.video
        /\ incoming'.manifest[Current] = "full"
        /\ \A q \in Path : q # Current => incoming'.manifest[q] = incoming.manifest[q]
    <2>1. "full" \in Marks
      BY DEF Marks
    <2> QED BY <1>2, <1>4, <1>5, <2>1, PutManifest
  <1>8. IncomingIsWhatItsPathNames'
    <2>1. ASSUME NEW p \in Path, incoming'.manifest[p] # None
          PROVE  incoming'.manifest[p] = "full" /\ incoming'.video[p] # None
      <3>1. CASE p = Current
        BY <1>3, <1>7, <3>1
      <3>2. CASE p # Current
        BY <1>7, <2>1, <3>2 DEF PubInv, IncomingIsWhatItsPathNames
      <3> QED BY <3>1, <3>2
    <2> QED BY <1>1, <1>7, <2>1 DEF PubInv, IncomingIsWhatItsPathNames
  <1>9. job'.pc = "record" /\ Current' = Current
    BY <1>1, SameCurrent
  <1>10. StageHasBehindIt'
    BY <1>3, <1>7, <1>9 DEF StageHasBehindIt
  <1>11. \A p \in Path : incoming.manifest[p] = "full" => incoming'.manifest[p] = "full"
    BY <1>7
  <1> QED BY <1>1, <1>2, <1>4, <1>6, <1>7, <1>8, <1>10, <1>11, SameRows, StageKeeps

\* An edit in the window between the two readings is remembered.
LEMMA EditKeeps ==
    ASSUME PubInv, NEW v \in Video, NEW c \in Content, Edit(v, c)
    PROVE  PubInv'
  <1>1. UNCHANGED <<package, staged, incoming, checkpoint, job>>
    BY DEF Edit
  <1> DEFINE new == [content |-> c, mtime |-> source[v].mtime + 1]
  <1>2. source \in Sources /\ source' = [source EXCEPT ![v] = new]
    BY DEF PubInv, PubTypeOK, Edit
  <1>3. new \in [content : Content, mtime : Nat] /\ new.content = c
    BY <1>2 DEF Sources
  <1> HIDE DEF new
  <1>4. /\ source' \in Sources /\ source'[v].content = c
        /\ \A w \in Video : w # v => source'[w] = source[w]
    BY <1>2, <1>3 DEF Sources
  <1>5. swapped \subseteq swapped' /\ (BetweenReadings(<<v, c>>) => <<v, c>> \in swapped')
    BY DEF Edit
  <1>6. PubTypeOK'
    BY <1>1, <1>4 DEF PubInv, PubTypeOK
  <1>7. FollowsThePackage' /\ PublishedVideosAreComplete'
    BY <1>1 DEF PubInv, FollowsThePackage, PublishedVideosAreComplete, Publishes
  <1>8. IncomingIsWhatItsPathNames'
    BY <1>1, <1>5 DEF PubInv, IncomingIsWhatItsPathNames
  <1>9. Current' = Current
    BY <1>1 DEF Current
  <1>10. StageHasBehindIt'
    BY <1>1, <1>5, <1>9 DEF PubInv, StageHasBehindIt
  <1>11. StagedIsOfItsVersion'
    <2> SUFFICES ASSUME job.pc = "append" PROVE StagedIsOfItsVersion'
      BY <1>1 DEF StagedIsOfItsVersion
    <2>1. /\ staged.video[Current] \in Bytes /\ job.offset = Len(staged.video[Current])
          /\ Len(job.read) <= job.offset
          /\ \/ Current \in swapped
             \/ \A i \in 1 .. job.offset : staged.video[Current][i] = Current[2]
             \/ \E i \in 1 .. Len(job.read) : job.read[i] # Current[2]
             \/ job.read = <<>> /\ source[job.video].content # Current[2]
      BY DEF PubInv, StagedIsOfItsVersion
    <2>2. CASE job.read = <<>> /\ source[job.video].content # Current[2]
      <3>1. job.video \in Video /\ Current = <<job.video, Current[2]>> /\ job.offset \in 0 .. Chunks
        <4>1. job.pc \in Stages
          BY DEF Stages
        <4> QED BY <4>1, CurrentIsPath DEF PubInv, PubTypeOK, Jobs
      <3>2. CASE source'[job.video].content # Current[2]
        BY <1>1, <1>9, <2>1, <2>2, <3>2 DEF StagedIsOfItsVersion
      <3>3. CASE source'[job.video].content = Current[2]
        <4>1. job.video = v /\ Current[2] = c
          BY <1>4, <2>2, <3>1, <3>3
        <4>2. Current = <<v, c>>
          BY <3>1, <4>1
        <4>3. CASE job.offset > 0
          <5>1. Current \in swapped'
            BY <1>5, <2>2, <4>2, <4>3 DEF BetweenReadings
          <5> QED BY <1>1, <1>9, <2>1, <5>1 DEF StagedIsOfItsVersion
        <4>4. CASE job.offset = 0
          <5>1. \A i \in 1 .. job.offset : staged.video[Current][i] = Current[2]
            BY <4>4
          <5> QED BY <1>1, <1>9, <2>1, <5>1 DEF StagedIsOfItsVersion
        <4> QED BY <3>1, <4>3, <4>4, ChunksType
      <3> QED BY <3>2, <3>3
    <2>3. CASE \/ Current \in swapped
               \/ \A i \in 1 .. job.offset : staged.video[Current][i] = Current[2]
               \/ \E i \in 1 .. Len(job.read) : job.read[i] # Current[2]
      BY <1>1, <1>5, <1>9, <2>1, <2>3 DEF StagedIsOfItsVersion
    <2> QED BY <2>1, <2>2, <2>3
  <1> QED BY <1>1, <1>6, <1>7, <1>8, <1>10, <1>11, SameRows DEF PubInv

\* However uploads are cut off, resumed and disturbed by edits, what is staged
\* for a version is of that version, or the file was seen to differ, or it was
\* swapped (upload_file, publish_plan, publish_manifest_package).
THEOREM PublicationInvariance == PubSpec => []PubInv
  <1>1. ASSUME PubInv, PubNext PROVE PubInv'
    <2>1. ASSUME NEW v \in Video, NEW c \in Content, Edit(v, c) PROVE PubInv'
      BY <1>1, <2>1, EditKeeps
    <2>2. CASE PrepareBegins \/ PrepareEnds \/ \E v \in Video : PrepareVideo(v)
      BY <1>1, <2>2, PrepareKeeps
    <2>3. ASSUME NEW v \in Video, NextVideo(v) PROVE PubInv'
      BY <1>1, <2>3, NextVideoKeeps
    <2>4. CASE PublishBegins \/ LookAtIncoming \/ UploadBegins \/ AppendChunk \/ UploadEnds
      BY <1>1, <2>4, PublishBeginsKeeps, LookKeeps, UploadBeginsKeeps, AppendChunkKeeps, UploadEndsKeeps
    <2>5. CASE RenameVideo \/ CheckVideo \/ StageManifest \/ WriteManifest \/ RenameManifest
      BY <1>1, <2>5, RenameVideoKeeps, CheckVideoKeeps, StageManifestKeeps, RenameManifestKeeps
    <2>6. CASE RecordPublished
      <3>1. /\ job.pc = "record" /\ job.pc \in Stages /\ Leave("MANIFEST_PUBLISHED")
            /\ UNCHANGED <<source, package, staged, incoming, swapped>>
        BY <2>6 DEF RecordPublished, Stages
      <3>2. incoming.manifest[Current] = "full"
        BY <1>1, <3>1 DEF PubInv, StageHasBehindIt
      <3> QED BY <1>1, <3>1, <3>2, LeaveKeeps
    <2>7. CASE PublishEnds \/ Stop
      BY <1>1, <2>7, IdleKeeps DEF PublishEnds, Stop
    <2> QED BY <1>1, <2>1, <2>2, <2>3, <2>4, <2>5, <2>6, <2>7 DEF PubNext
  <1>2. ASSUME PubInv, UNCHANGED pubvars PROVE PubInv'
    BY <1>2 DEF pubvars, PubInv, PubTypeOK, FollowsThePackage, RowsAreOfTheirPackage, RowIsOf,
                StagedIsOfItsVersion, StageHasBehindIt, IncomingIsWhatItsPathNames,
                PublishedVideosAreComplete, Publishes, Current
  <1> QED BY <1>1, <1>2, PublisherBegins, PTL DEF PubSpec

\* A publication that ends without a rejection has published every video of
\* its package, and incoming holds the bytes its paths name, but for files
\* that were edited back between the two readings of an upload.
THEOREM PublicationFaithful == PubSpec => []PublicationIsFaithful
  <1>1. ASSUME PubInv PROVE PublicationIsFaithful
    BY <1>1 DEF PubInv, PublicationIsFaithful, FinishedPublicationIsComplete,
                PublishedVideosAreComplete, Publishes
  <1> QED BY <1>1, PublicationInvariance, PTL

-----------------------------------------------------------------------------
(* RuntimeReconciler: between its two passes nothing is enabled *)

LEMMA RolesType ==
    /\ RoleOrder \in Seq(Role) /\ Len(RoleOrder) \in Nat \ {0} /\ Scheduled \subseteq Role
    /\ \A i \in 1 .. Len(RoleOrder) : RoleOrder[i] \in Role
    /\ Role = {RoleOrder[i] : i \in 1 .. Len(RoleOrder)}
    /\ MaxSends \in Nat
  <1>1. RoleOrder \in Seq(Role) /\ RoleOrder # <<>> /\ Scheduled \subseteq Role /\ MaxSends \in Nat
    BY RolesAssumption DEF Role
  <1>2. Len(RoleOrder) \in Nat \ {0} /\ DOMAIN RoleOrder = 1 .. Len(RoleOrder)
    BY <1>1
  <1>3. Role = {RoleOrder[i] : i \in 1 .. Len(RoleOrder)}
    BY <1>2 DEF Role, ToSet
  <1> QED BY <1>1, <1>2, <1>3

\* What one schedule says.
LEMMA OneFlag ==
    ASSUME NEW b \in BOOLEAN
    PROVE  /\ <<b>> \in Seq(BOOLEAN) /\ <<b>> # <<>> /\ ToSet(<<b>>) = {b}
           /\ <<>> \in Seq(BOOLEAN) /\ ToSet(<<>>) = {}
  <1>1. <<b>> \in Seq(BOOLEAN) /\ <<b>> # <<>> /\ DOMAIN <<b>> = 1 .. 1 /\ <<b>>[1] = b
    OBVIOUS
  <1>2. ToSet(<<b>>) = {b}
    BY <1>1 DEF ToSet
  <1>3. <<>> \in Seq(BOOLEAN) /\ DOMAIN <<>> = {}
    OBVIOUS
  <1>4. ToSet(<<>>) = {}
    BY <1>3 DEF ToSet
  <1> QED BY <1>1, <1>2, <1>3, <1>4

LEMMA SameFlags ==
    ASSUME NEW n \in Nat, NEW b \in BOOLEAN
    PROVE  /\ [i \in 1 .. n |-> b] \in Seq(BOOLEAN)
           /\ ToSet([i \in 1 .. n |-> b]) \subseteq {b}
           /\ n > 0 => [i \in 1 .. n |-> b] # <<>>
  <1> DEFINE s == [i \in 1 .. n |-> b]
  <1>1. s \in [1 .. n -> BOOLEAN] /\ DOMAIN s = 1 .. n /\ \A i \in 1 .. n : s[i] = b
    OBVIOUS
  <1>2. s \in Seq(BOOLEAN)
    BY <1>1
  <1> HIDE DEF s
  <1>3. ToSet(s) \subseteq {b}
    BY <1>1 DEF ToSet
  <1>4. ASSUME n > 0 PROVE s # <<>>
    BY <1>1, <1>2, <1>4, LenProperties
  <1> QED BY <1>2, <1>3, <1>4 DEF s

\* A pass leaves a role without, or with, the flag of the pass.
LEMMA RoleScheduleType ==
    ASSUME NEW old \in Seq(BOOLEAN), NEW role \in Role, NEW enabled \in BOOLEAN, NEW done \in Nat,
           NEW new,
           role \in Scheduled /\ old = <<>> => new = [i \in 1 .. done |-> enabled],
           role \in Scheduled /\ old # <<>> => new = IF done > 0 THEN <<enabled>> ELSE old,
           role \notin Scheduled => new = IF done > 0 THEN <<>> ELSE old
    PROVE  /\ new \in Seq(BOOLEAN)
           /\ ToSet(new) \subseteq ToSet(old) \cup {enabled}
           /\ done > 0 /\ role \in Scheduled => new # <<>> /\ ToSet(new) \subseteq {enabled}
           /\ done > 0 /\ role \notin Scheduled => new = <<>>
           /\ role \in Scheduled /\ old # <<>> => new # <<>>
           /\ role \notin Scheduled /\ old = <<>> => new = <<>>
           /\ role \in Scheduled /\ old # <<>> /\ done > 0 => new = <<enabled>>
  <1>1. CASE role \in Scheduled /\ old = <<>>
    <2>1. new = [i \in 1 .. done |-> enabled]
      BY <1>1
    <2>2. /\ new \in Seq(BOOLEAN) /\ ToSet(new) \subseteq {enabled} /\ (done > 0 => new # <<>>)
      BY <2>1, SameFlags
    <2> QED BY <1>1, <2>2
  <1>2. CASE role \in Scheduled /\ old # <<>>
    <2>1. new = IF done > 0 THEN <<enabled>> ELSE old
      BY <1>2
    <2> QED BY <1>2, <2>1, OneFlag
  <1>3. CASE role \notin Scheduled
    <2>1. new = IF done > 0 THEN <<>> ELSE old
      BY <1>3
    <2> QED BY <1>3, <2>1, OneFlag
  <1> QED BY <1>1, <1>2, <1>3

LEMMA ReconcilerBegins == RRInit => RRInv
  <1> SUFFICES ASSUME RRInit PROVE RRInv
    OBVIOUS
  <1>1. schedules \in [Role -> Seq(BOOLEAN)]
    <2>1. <<>> \in Seq(BOOLEAN) /\ <<TRUE>> \in Seq(BOOLEAN)
      OBVIOUS
    <2> QED BY <2>1 DEF RRInit
  <1>2. wheels \subseteq Wheel /\ publish \in Publishings /\ sparkJob \in SparkJobs /\ publish.state = "Success"
        /\ publish.live = {NoRelease} /\ vetted = {{NoRelease}}
    BY DEF RRInit, NoJob, Publishings, SparkJobs, Wheel
  <1>3. run \in RunRecords /\ run.pc = "idle"
    BY RolesType DEF RRInit, NoRun, RunRecords, Wheel
  <1>4. RRTypeOK
    BY <1>1, <1>2, <1>3 DEF RRTypeOK
  <1>5. PassesHold /\ PublishHolds /\ BootstrapHolds
    BY <1>2, <1>3 DEF PassesHold, PublishHolds, BootstrapHolds, HasSucceeded, Before, Reconciles, Ends
  <1>6. EnabledSchedulesRunAVettedRelease
    BY <1>2 DEF EnabledSchedulesRunAVettedRelease
  <1> QED BY <1>4, <1>5, <1>6 DEF RRInv

\* A run that stops leaves behind what is there, and a publish that goes on
\* finds every schedule disabled.
LEMMA StopLeaves ==
    ASSUME RRInv, NEW status \in {"failed", "dead", "operator_checkpoint_required"},
           run' = [run EXCEPT !.pc = "ended", !.status = status],
           wheels' \subseteq Wheel, run.pc # "idle",
           schedules' \in [Role -> Seq(BOOLEAN)],
           publish' \in Publishings, sparkJob' \in SparkJobs,
           publish'.state = "Running" => \A r \in Role : Disabled(r)',
           EnabledSchedulesRunAVettedRelease'
    PROVE  RRInv'
  <1>1. /\ run' \in RunRecords /\ run'.pc = "ended" /\ run'.status = status /\ run'.option = run.option
    BY DEF RRInv, RRTypeOK, RunRecords
  <1>2. RRTypeOK'
    BY <1>1 DEF RRInv, RRTypeOK
  <1>3. ~HasSucceeded'
    BY <1>1 DEF HasSucceeded
  <1>4. PassesHold' /\ BootstrapHolds'
    BY <1>1, <1>3 DEF PassesHold, BootstrapHolds, Before, Reconciles, Ends
  <1>5. PublishHolds'
    BY <1>1, <1>3 DEF PublishHolds, Before, Reconciles, Ends
  <1> QED BY <1>2, <1>4, <1>5 DEF RRInv

LEMMA StopKeeps ==
    ASSUME RRInv, NEW status \in {"failed", "dead", "operator_checkpoint_required"},
           run' = [run EXCEPT !.pc = "ended", !.status = status],
           wheels' \subseteq Wheel, run.pc # "idle",
           schedules' \in [Role -> Seq(BOOLEAN)],
           publish.state = "Running" => \A r \in Role : Disabled(r)',
           EnabledSchedulesRunAVettedRelease',
           UNCHANGED <<publish, sparkJob, bootstrapped>>
    PROVE  RRInv'
  <1>1. publish' \in Publishings /\ sparkJob' \in SparkJobs
    BY DEF RRInv, RRTypeOK
  <1>2. publish'.state = "Running" => \A r \in Role : Disabled(r)'
    OBVIOUS
  <1> QED BY <1>1, <1>2, StopLeaves

LEMMA StopsInPlace ==
    ASSUME RRInv, NEW status \in {"failed", "dead", "operator_checkpoint_required"},
           run' = [run EXCEPT !.pc = "ended", !.status = status],
           wheels' \subseteq Wheel, run.pc # "idle",
           UNCHANGED <<schedules, publish, sparkJob, bootstrapped, vetted>>
    PROVE  RRInv'
  <1>1. schedules' \in [Role -> Seq(BOOLEAN)]
    BY DEF RRInv, RRTypeOK
  <1>2. publish.state = "Running" => \A r \in Role : Disabled(r)'
    BY DEF RRInv, PublishHolds, Disabled
  <1>3. EnabledSchedulesRunAVettedRelease'
    BY DEF RRInv, EnabledSchedulesRunAVettedRelease
  <1> QED BY <1>1, <1>2, <1>3, StopKeeps

LEMMA FailKeeps ==
    ASSUME RRInv, Fail, run.pc # "idle", wheels' \subseteq Wheel,
           UNCHANGED <<schedules, publish, sparkJob, bootstrapped, vetted>>
    PROVE  RRInv'
  BY StopsInPlace DEF Fail

LEMMA WheelsType ==
    ASSUME RRInv
    PROVE  /\ wheels \subseteq Wheel /\ run.release \in Wheel /\ publish \in Publishings /\ run \in RunRecords
           /\ {run.release} \subseteq Wheel
  BY DEF RRInv, RRTypeOK, RunRecords

\* A run between its two passes over the schedules.
LEMMA MiddleKeeps ==
    ASSUME RRInv, run.pc \in (Before \ {"disable"}) \cup Reconciles,
           run' \in RunRecords, run'.pc \in (Before \ {"disable"}) \cup Reconciles \cup {"enable"},
           run'.role = run.role, run'.release = run.release, run'.option = run.option,
           wheels' \subseteq Wheel, publish' \in Publishings, sparkJob' \in SparkJobs,
           PublishHolds', BootstrapHolds', UNCHANGED <<schedules, vetted>>
    PROVE  RRInv'
  <1>1. run.role = 1 /\ run.option \in Options /\ \A r \in Role : Disabled(r) /\ Shaped(r)
    BY DEF RRInv, PassesHold, RRTypeOK, Before, Reconciles
  <1>2. RRTypeOK'
    BY <1>1 DEF RRInv, RRTypeOK
  <1>3. RolesDone' = {}
    <2>1. 1 .. run'.role - 1 = {}
      BY <1>1
    <2> QED BY <2>1 DEF RolesDone
  <1>4. ~HasSucceeded'
    BY DEF HasSucceeded, Before, Reconciles
  <1>5. \A r \in Role : Disabled(r)' /\ Shaped(r)'
    BY <1>1 DEF Disabled, Shaped
  <1>6. PassesHold'
    BY <1>1, <1>3, <1>4, <1>5 DEF PassesHold, Before, Reconciles
  <1>7. EnabledSchedulesRunAVettedRelease'
    BY <1>5 DEF Disabled, EnabledSchedulesRunAVettedRelease
  <1> QED BY <1>2, <1>6, <1>7 DEF RRInv

LEMMA BeginKeeps ==
    ASSUME RRInv, Begin
    PROVE  RRInv'
  <1>1. PICK r \in Release, o \in Option :
            run' = [NoRun EXCEPT !.pc = "disable", !.release = r, !.option = o, !.n = run.n + 1]
    BY DEF Begin
  <1>2. UNCHANGED items /\ run.pc \in {"idle", "ended"}
    BY DEF Begin
  <1>3. run.n \in Nat /\ o \in Options /\ r \in Wheel /\ 1 \in 1 .. Len(RoleOrder)
    BY RolesType, OptionAssumption DEF RRInv, RRTypeOK, RunRecords, Wheel
  <1> DEFINE n == run.n + 1
  <1>10. n \in Nat /\ run' = [NoRun EXCEPT !.pc = "disable", !.release = r, !.option = o, !.n = n]
    BY <1>1, <1>3
  <1> HIDE DEF n
  <1>4. /\ run' \in RunRecords /\ run'.pc = "disable" /\ run'.option \in Options /\ run'.role = 1
        /\ run'.status = "none"
    BY <1>3, <1>10 DEF NoRun, RunRecords, Before
  <1>5. RRTypeOK'
    BY <1>2, <1>4 DEF RRInv, RRTypeOK, items
  <1>6. RolesDone' = {}
    <2>1. 1 .. run'.role - 1 = {}
      BY <1>4
    <2> QED BY <2>1 DEF RolesDone
  <1>7. PassesHold' /\ BootstrapHolds'
    BY <1>4, <1>6 DEF PassesHold, BootstrapHolds, HasSucceeded, Before, Reconciles, Ends
  <1>8. PublishHolds'
    BY <1>2, <1>4 DEF RRInv, PublishHolds, HasSucceeded, Before, Reconciles, Ends, items, Disabled
  <1>9. EnabledSchedulesRunAVettedRelease'
    BY <1>2 DEF RRInv, EnabledSchedulesRunAVettedRelease, items
  <1> QED BY <1>5, <1>7, <1>8, <1>9 DEF RRInv

LEMMA RolesDoneAreRoles == RRInv => RolesDone \subseteq Role
  <1> SUFFICES ASSUME RRInv, NEW i \in 1 .. run.role - 1 PROVE RoleOrder[i] \in Role
    BY DEF RolesDone
  <1>1. run.role \in 1 .. Len(RoleOrder) /\ Len(RoleOrder) \in Nat
    BY RolesType DEF RRInv, RRTypeOK, RunRecords
  <1>2. i \in 1 .. Len(RoleOrder)
    BY <1>1
  <1> QED BY <1>2, RolesType

\* The pass goes to the next role, or is over.
LEMMA NextRoleIs ==
    ASSUME RRInv, NEW after \in {"stale", "evidence"}, NextRole(after)
    PROVE  /\ run' \in RunRecords /\ run'.release = run.release /\ run'.option = run.option
           /\ run'.checkpoints = run.checkpoints
           /\ \/ /\ run.role < Len(RoleOrder) /\ run'.pc = run.pc /\ run'.role = run.role + 1
                 /\ RolesDone' = RolesDone \cup {RoleOrder[run.role]}
              \/ /\ run'.pc = after /\ run'.role = 1
                 /\ Role = RolesDone \cup {RoleOrder[run.role]}
  <1>1. run \in RunRecords /\ run.role \in 1 .. Len(RoleOrder) /\ Len(RoleOrder) \in Nat
    BY RolesType DEF RRInv, RRTypeOK, RunRecords
  <1>2. CASE run.role < Len(RoleOrder)
    <2> DEFINE role == run.role + 1
    <2>1. role \in 1 .. Len(RoleOrder) /\ run' = [run EXCEPT !.role = role]
      BY <1>1, <1>2 DEF NextRole
    <2> HIDE DEF role
    <2>2. /\ run' \in RunRecords /\ run'.release = run.release /\ run'.option = run.option
          /\ run'.checkpoints = run.checkpoints /\ run'.pc = run.pc /\ run'.role = role
      BY <1>1, <2>1 DEF RunRecords
    <2>3. 1 .. role - 1 = (1 .. run.role - 1) \cup {run.role}
      BY <1>1 DEF role
    <2>4. RolesDone' = RolesDone \cup {RoleOrder[run.role]}
      BY <2>2, <2>3 DEF RolesDone
    <2> QED BY <1>2, <2>2, <2>4 DEF role
  <1>3. CASE ~(run.role < Len(RoleOrder))
    <2>1. run' = [run EXCEPT !.role = 1, !.pc = after] /\ 1 \in 1 .. Len(RoleOrder)
      BY <1>1, <1>3 DEF NextRole
    <2>2. /\ run' \in RunRecords /\ run'.release = run.release /\ run'.option = run.option
          /\ run'.checkpoints = run.checkpoints /\ run'.pc = after /\ run'.role = 1
      BY <1>1, <2>1 DEF RunRecords, Before, Ends
    <2>3. 1 .. Len(RoleOrder) = (1 .. run.role - 1) \cup {run.role}
      BY <1>1, <1>3
    <2>4. Role = RolesDone \cup {RoleOrder[run.role]}
      BY <2>3, RolesType DEF RolesDone
    <2> QED BY <2>2, <2>4
  <1> QED BY <1>2, <1>3

\* What a step of a pass does to the schedules.
LEMMA PassStep ==
    ASSUME RRInv, NEW pass \in {"disable", "enable"}, NEW after \in {"stale", "evidence"},
           ReconcileSchedule(pass, after),
           NEW role \in Role, role = RoleOrder[run.role],
           NEW enabled \in BOOLEAN, enabled = EnabledInPass(pass)
    PROVE  /\ schedules' \in [Role -> Seq(BOOLEAN)]
           /\ \A r \in Role : r # role => schedules'[r] = schedules[r]
           /\ ToSet(schedules'[role]) \subseteq ToSet(schedules[role]) \cup {enabled}
           /\ schedules[role] # <<>> /\ role \in Scheduled => schedules'[role] # <<>>
           /\ schedules[role] = <<>> /\ role \notin Scheduled => schedules'[role] = <<>>
           /\ \/ Fail
              \/ /\ NextRole(after)
                 /\ role \in Scheduled => schedules'[role] # <<>> /\ ToSet(schedules'[role]) \subseteq {enabled}
                 /\ role \in Scheduled /\ schedules[role] # <<>> => schedules'[role] = <<enabled>>
                 /\ role \notin Scheduled => schedules'[role] = <<>>
  <1> DEFINE old == schedules[role]
  <1>1. schedules \in [Role -> Seq(BOOLEAN)] /\ old \in Seq(BOOLEAN)
    BY DEF RRInv, RRTypeOK
  <1>2. CASE Len(old) > 1
    <2>1. Fail /\ UNCHANGED schedules
      BY <1>2 DEF ReconcileSchedule
    <2> QED BY <1>1, <2>1
  <1>3. CASE ~(Len(old) > 1) /\ old = <<>> /\ role \notin Scheduled
    <2>1. NextRole(after) /\ UNCHANGED schedules
      BY <1>3 DEF ReconcileSchedule
    <2> QED BY <1>1, <1>3, <2>1
  <1>4. CASE ~(Len(old) > 1) /\ ~(old = <<>> /\ role \notin Scheduled)
    <2>1. PICK a \in (IF role \in Scheduled THEN Reply ELSE DeleteReply) :
              /\ schedules' = [schedules EXCEPT ![role] = RoleSchedule(old, role \in Scheduled, enabled, a.done)]
              /\ IF a.ok THEN NextRole(after) ELSE Fail
      BY <1>4 DEF ReconcileSchedule
    <2>2. a.done \in Nat /\ (a.ok => a.done > 0)
      BY RolesType DEF Reply, DeleteReply
    <2>7. PICK new : new = RoleSchedule(old, role \in Scheduled, enabled, a.done)
      OBVIOUS
    <2>4. schedules' = [schedules EXCEPT ![role] = new]
      BY <2>1, <2>7
    <2>8. /\ role \in Scheduled /\ old = <<>> => new = [i \in 1 .. a.done |-> enabled]
          /\ role \in Scheduled /\ old # <<>> => new = IF a.done > 0 THEN <<enabled>> ELSE old
          /\ role \notin Scheduled => new = IF a.done > 0 THEN <<>> ELSE old
      BY <2>7 DEF RoleSchedule
    <2> HIDE DEF old
    <2>3. /\ new \in Seq(BOOLEAN)
          /\ ToSet(new) \subseteq ToSet(old) \cup {enabled}
          /\ a.done > 0 /\ role \in Scheduled => new # <<>> /\ ToSet(new) \subseteq {enabled}
          /\ a.done > 0 /\ role \notin Scheduled => new = <<>>
          /\ role \in Scheduled /\ old # <<>> => new # <<>>
          /\ role \notin Scheduled /\ old = <<>> => new = <<>>
          /\ role \in Scheduled /\ old # <<>> /\ a.done > 0 => new = <<enabled>>
      BY <1>1, <2>2, <2>8, RoleScheduleType
    <2>5. schedules' \in [Role -> Seq(BOOLEAN)] /\ schedules'[role] = new
          /\ \A r \in Role : r # role => schedules'[r] = schedules[r]
      BY <1>1, <2>3, <2>4
    <2>6. Fail \/ (NextRole(after) /\ a.done > 0)
      BY <2>1, <2>2
    <2> QED BY <2>3, <2>5, <2>6 DEF old
  <1> QED BY <1>2, <1>3, <1>4

LEMMA DisableKeeps ==
    ASSUME RRInv, DisableSchedule
    PROVE  RRInv'
  <1>10. RoleOrder[run.role] \in Role
    BY RolesType DEF RRInv, RRTypeOK, RunRecords
  <1>11. PICK role \in Role : role = RoleOrder[run.role]
    BY <1>10
  <1>1. /\ run.pc = "disable" /\ role \in Role /\ EnabledInPass("disable") = FALSE
        /\ ReconcileSchedule("disable", "stale")
        /\ UNCHANGED <<wheels, publish, sparkJob, bootstrapped, vetted>>
    BY RolesType DEF DisableSchedule, ReconcileSchedule, EnabledInPass, RRInv, RRTypeOK, RunRecords
  <1>2. /\ schedules' \in [Role -> Seq(BOOLEAN)]
        /\ \A r \in Role : r # role => schedules'[r] = schedules[r]
        /\ ToSet(schedules'[role]) \subseteq ToSet(schedules[role]) \cup {FALSE}
        /\ \/ Fail
           \/ /\ NextRole("stale")
              /\ role \in Scheduled => schedules'[role] # <<>> /\ ToSet(schedules'[role]) \subseteq {FALSE}
              /\ role \notin Scheduled => schedules'[role] = <<>>
    BY <1>1, <1>11, PassStep
  <1>3. \A r \in Role : Disabled(r) => Disabled(r)'
    BY <1>1, <1>2 DEF Disabled
  <1>4. EnabledSchedulesRunAVettedRelease'
    BY <1>1, <1>3 DEF RRInv, EnabledSchedulesRunAVettedRelease, Disabled
  <1>5. publish.state = "Running" => \A r \in Role : Disabled(r)'
    BY <1>3 DEF RRInv, PublishHolds
  <1>6. wheels' \subseteq Wheel
    BY <1>1, WheelsType
  <1>7. CASE Fail
    BY <1>1, <1>2, <1>4, <1>5, <1>6, <1>7, StopKeeps DEF Fail
  <1>8. CASE NextRole("stale") /\ ~Fail
    <2>1. /\ run' \in RunRecords /\ run'.release = run.release /\ run'.option = run.option
          /\ \/ /\ run'.pc = run.pc /\ RolesDone' = RolesDone \cup {role}
             \/ /\ run'.pc = "stale" /\ run'.role = 1 /\ Role = RolesDone \cup {role}
      BY <1>8, <1>11, NextRoleIs
    <2>2. Disabled(role)' /\ Shaped(role)'
      <3>1. CASE role \in Scheduled
        BY <1>2, <1>8, <3>1 DEF Disabled, Shaped
      <3>2. CASE role \notin Scheduled
        BY <1>2, <1>8, <3>2, OneFlag DEF Disabled, Shaped
      <3> QED BY <3>1, <3>2
    <2>3. RolesDone \subseteq Role
      BY RolesDoneAreRoles
    <2>4. \A r \in RolesDone \cup {role} : Disabled(r)' /\ Shaped(r)'
      <3> SUFFICES ASSUME NEW r \in RolesDone, r # role PROVE Disabled(r)' /\ Shaped(r)'
        BY <2>2
      <3>1. Disabled(r) /\ Shaped(r) /\ r \in Role /\ schedules'[r] = schedules[r]
        BY <1>1, <1>2, <2>3 DEF RRInv, PassesHold
      <3> QED BY <3>1 DEF Disabled, Shaped
    <2>5. ~HasSucceeded' /\ run'.pc \in {"disable", "stale"}
      BY <1>1, <2>1 DEF HasSucceeded
    <2>6. PassesHold'
      <3>1. CASE run'.pc = run.pc /\ RolesDone' = RolesDone \cup {role}
        BY <1>1, <2>4, <2>5, <3>1 DEF PassesHold, Before, Reconciles
      <3>2. CASE run'.pc = "stale" /\ run'.role = 1 /\ Role = RolesDone \cup {role}
        BY <2>4, <2>5, <3>2 DEF PassesHold, Before, Reconciles
      <3> QED BY <2>1, <3>1, <3>2
    <2>7. PublishHolds' /\ BootstrapHolds'
      BY <1>1, <1>5, <2>5 DEF PublishHolds, BootstrapHolds, Before, Reconciles, Ends
    <2>8. RRTypeOK'
      BY <1>1, <1>2, <2>1 DEF RRInv, RRTypeOK
    <2> QED BY <1>4, <2>6, <2>7, <2>8 DEF RRInv
  <1> QED BY <1>2, <1>7, <1>8

LEMMA EnableKeeps ==
    ASSUME RRInv, EnableSchedule
    PROVE  RRInv'
  <1>11. RoleOrder[run.role] \in Role /\ EnabledInPass("enable") \in BOOLEAN
    BY RolesType DEF RRInv, RRTypeOK, RunRecords, EnabledInPass
  <1>12. PICK role \in Role, enabled \in BOOLEAN :
             role = RoleOrder[run.role] /\ enabled = EnabledInPass("enable")
    BY <1>11
  <1>1. /\ run.pc = "enable" /\ role \in Role /\ enabled \in BOOLEAN
        /\ ReconcileSchedule("enable", "evidence") /\ run.role \in 1 .. Len(RoleOrder)
        /\ UNCHANGED <<wheels, publish, sparkJob, bootstrapped>>
        /\ vetted' = IF run.checkpoints = {} /\ run.role = 1 THEN vetted \cup {publish.live} ELSE vetted
    BY RolesType DEF EnableSchedule, ReconcileSchedule, EnabledInPass, RRInv, RRTypeOK, RunRecords
  <1>2. /\ run.option.enable \in BOOLEAN
        /\ run.checkpoints = {} => enabled = run.option.enable
        /\ run.checkpoints # {} => enabled = FALSE
    BY <1>1, <1>12 DEF EnabledInPass, RRInv, RRTypeOK, Options
  <1>3. /\ \A r \in Role : Shaped(r)
        /\ run.checkpoints # {} => \A r \in Role : Disabled(r)
        /\ run.checkpoints = {} => \A r \in RolesDone : AsAsked(r)
        /\ run.checkpoints = {} /\ run.role > 1 => publish.live \in vetted
        /\ publish.state # "Running" /\ publish.live = {run.release}
        /\ run.option.bootstrap => run.release \in bootstrapped
    BY <1>1 DEF RRInv, PassesHold, PublishHolds, BootstrapHolds, Before
  <1>4. /\ schedules' \in [Role -> Seq(BOOLEAN)]
        /\ \A r \in Role : r # role => schedules'[r] = schedules[r]
        /\ ToSet(schedules'[role]) \subseteq ToSet(schedules[role]) \cup {enabled}
        /\ schedules[role] # <<>> /\ role \in Scheduled => schedules'[role] # <<>>
        /\ schedules[role] = <<>> /\ role \notin Scheduled => schedules'[role] = <<>>
        /\ \/ Fail
           \/ /\ NextRole("evidence")
              /\ role \in Scheduled /\ schedules[role] # <<>> => schedules'[role] = <<enabled>>
    BY <1>1, <1>12, PassStep
  <1>5. run.checkpoints = {} => publish.live \in vetted'
    BY <1>1, <1>3
  <1>6. run.checkpoints # {} => \A r \in Role : Disabled(r)'
    <2> SUFFICES ASSUME run.checkpoints # {}, NEW r \in Role PROVE Disabled(r)'
      OBVIOUS
    <2>1. Disabled(r) /\ enabled = FALSE
      BY <1>2, <1>3
    <2>2. CASE r = role
      BY <1>4, <2>1, <2>2 DEF Disabled
    <2>3. CASE r # role
      BY <1>4, <2>1, <2>3 DEF Disabled
    <2> QED BY <2>2, <2>3
  <1>7. EnabledSchedulesRunAVettedRelease'
    BY <1>1, <1>5, <1>6 DEF EnabledSchedulesRunAVettedRelease, Disabled
  <1>8. wheels' \subseteq Wheel
    BY <1>1, WheelsType
  <1>9. CASE Fail
    BY <1>1, <1>3, <1>4, <1>7, <1>8, <1>9, StopKeeps DEF Fail
  <1>10. CASE NextRole("evidence") /\ ~Fail
    <2>1. /\ run' \in RunRecords /\ run'.release = run.release /\ run'.option = run.option
          /\ run'.checkpoints = run.checkpoints
          /\ \/ /\ run'.pc = run.pc /\ run'.role = run.role + 1 /\ RolesDone' = RolesDone \cup {role}
             \/ /\ run'.pc = "evidence" /\ run'.role = 1 /\ Role = RolesDone \cup {role}
      BY <1>10, <1>12, NextRoleIs
    <2>2. \A r \in Role : Shaped(r)'
      <3>1. Shaped(role)
        BY <1>1, <1>3
      <3>2. Shaped(role)'
        BY <1>4, <3>1 DEF Shaped
      <3> QED BY <1>3, <1>4, <3>2 DEF Shaped
    <2>3. RolesDone \subseteq Role
      BY RolesDoneAreRoles
    <2>4. run.checkpoints = {} => \A r \in RolesDone \cup {role} : AsAsked(r)'
      <3> SUFFICES ASSUME run.checkpoints = {}, NEW r \in RolesDone \cup {role} PROVE AsAsked(r)'
        OBVIOUS
      <3>1. CASE r = role
        <4>1. Shaped(role)
          BY <1>1, <1>3
        <4>2. CASE role \in Scheduled
          <5>1. schedules'[role] = <<enabled>>
            BY <1>4, <1>10, <4>1, <4>2 DEF Shaped
          <5> QED BY <1>2, <2>1, <3>1, <4>2, <5>1 DEF AsAsked
        <4>3. CASE role \notin Scheduled
          BY <1>4, <3>1, <4>1, <4>3 DEF Shaped, AsAsked
        <4> QED BY <4>2, <4>3
      <3>2. CASE r # role
        <4>1. AsAsked(r) /\ schedules'[r] = schedules[r]
          BY <1>3, <1>4, <2>3, <3>2
        <4> QED BY <2>1, <4>1 DEF AsAsked
      <3> QED BY <3>1, <3>2
    <2>5. ~HasSucceeded' /\ run'.pc \in {"enable", "evidence"}
      BY <1>1, <2>1 DEF HasSucceeded
    <2>6. PassesHold'
      <3>1. CASE run'.pc = run.pc /\ run'.role = run.role + 1 /\ RolesDone' = RolesDone \cup {role}
        BY <1>1, <1>5, <1>6, <2>1, <2>2, <2>4, <2>5, <3>1 DEF PassesHold, Before, Reconciles
      <3>2. CASE run'.pc = "evidence" /\ run'.role = 1 /\ Role = RolesDone \cup {role}
        BY <2>1, <2>4, <2>5, <3>2 DEF PassesHold, Before, Reconciles
      <3> QED BY <2>1, <3>1, <3>2
    <2>7. PublishHolds' /\ BootstrapHolds'
      BY <1>1, <1>3, <2>1, <2>5 DEF PublishHolds, BootstrapHolds, Before, Reconciles, Ends
    <2>8. RRTypeOK'
      BY <1>1, <1>4, <1>8, <2>1 DEF RRInv, RRTypeOK
    <2> QED BY <1>7, <2>6, <2>7, <2>8 DEF RRInv
  <1> QED BY <1>4, <1>9, <1>10

-----------------------------------------------------------------------------
(* Between the two passes *)

LEMMA MiddleFacts ==
    ASSUME RRInv, run.pc \in (Before \ {"disable"}) \cup Reconciles
    PROVE  /\ run \in RunRecords /\ run.role = 1 /\ run.option \in Options
           /\ \A r \in Role : Disabled(r) /\ Shaped(r)
  BY DEF RRInv, PassesHold, RRTypeOK, Before, Reconciles

\* A step of the middle that fails although Fabric did what it was asked.
LEMMA MiddleFails ==
    ASSUME RRInv, run.pc \in (Before \ {"disable"}) \cup Reconciles, Fail,
           wheels' \subseteq Wheel, publish' \in Publishings, sparkJob' \in SparkJobs,
           UNCHANGED schedules
    PROVE  RRInv'
  <1>1. \A r \in Role : Disabled(r)'
    BY MiddleFacts DEF Disabled
  <1>2. EnabledSchedulesRunAVettedRelease'
    BY <1>1 DEF Disabled, EnabledSchedulesRunAVettedRelease
  <1>3. run' = [run EXCEPT !.pc = "ended", !.status = "failed"] /\ run.pc # "idle"
    BY DEF Fail, Before, Reconciles
  <1>4. schedules' \in [Role -> Seq(BOOLEAN)]
    BY DEF RRInv, RRTypeOK
  <1> QED BY <1>1, <1>2, <1>3, <1>4, StopLeaves

LEMMA DeleteStaleKeeps ==
    ASSUME RRInv, DeleteStale
    PROVE  RRInv'
  <1>1. /\ run.pc = "stale" /\ UNCHANGED <<schedules, publish, sparkJob, bootstrapped, vetted>>
        /\ run.pc \in (Before \ {"disable"}) \cup Reconciles
    BY DEF DeleteStale, Before
  <1>2. wheels' \subseteq Wheel /\ publish' \in Publishings /\ sparkJob' \in SparkJobs
    BY <1>1, WheelsType DEF DeleteStale, RRInv, RRTypeOK
  <1>3. PICK pc \in {"stale", "upload"} :
            Fail \/ (Advance(pc) /\ (pc = "upload" => wheels' \subseteq {run.release}))
    BY DEF DeleteStale, StaleWheels, Proceed
  <1>4. CASE Fail
    BY <1>1, <1>2, <1>4, MiddleFails
  <1>5. CASE Advance(pc) /\ (pc = "upload" => wheels' \subseteq {run.release})
    <2>1. /\ run' \in RunRecords /\ run'.pc = pc /\ run'.role = run.role
          /\ run'.release = run.release /\ run'.option = run.option
      BY <1>1, <1>5, MiddleFacts DEF Advance, RunRecords, Before
    <2>2. \A r \in Role : Disabled(r)'
      BY <1>1, MiddleFacts DEF Disabled
    <2>3. ~HasSucceeded'
      BY <2>1 DEF HasSucceeded
    <2>4. PublishHolds' /\ BootstrapHolds'
      BY <1>5, <2>1, <2>2, <2>3 DEF PublishHolds, BootstrapHolds, Before, Reconciles, Ends
    <2>5. run'.pc \in (Before \ {"disable"}) \cup Reconciles \cup {"enable"}
      BY <2>1 DEF Before
    <2> QED BY <1>1, <1>2, <2>1, <2>4, <2>5, MiddleKeeps
  <1> QED BY <1>3, <1>4, <1>5

LEMMA UploadKeeps ==
    ASSUME RRInv, Upload
    PROVE  RRInv'
  <1>1. /\ run.pc = "upload" /\ UNCHANGED <<schedules, publish, sparkJob, bootstrapped, vetted>>
        /\ run.pc \in (Before \ {"disable"}) \cup Reconciles
    BY DEF Upload, Before
  <1>2. wheels' \subseteq Wheel /\ publish' \in Publishings /\ sparkJob' \in SparkJobs
    BY <1>1, WheelsType DEF Upload, RRInv, RRTypeOK
  <1>3. wheels \subseteq {run.release}
    BY <1>1 DEF RRInv, PublishHolds
  <1>4. PICK a \in Reply : /\ wheels' = IF a.done > 0 THEN wheels \cup {run.release} ELSE wheels
                           /\ Proceed(a, "publish")
    BY DEF Upload
  <1>5. Fail \/ (Advance("publish") /\ wheels' = {run.release})
    BY <1>3, <1>4 DEF Proceed, Reply
  <1>6. CASE Fail
    BY <1>1, <1>2, <1>6, MiddleFails
  <1>7. CASE Advance("publish") /\ wheels' = {run.release}
    <2>1. /\ run' \in RunRecords /\ run'.pc = "publish" /\ run'.role = run.role
          /\ run'.release = run.release /\ run'.option = run.option
      BY <1>1, <1>7, MiddleFacts DEF Advance, RunRecords, Before
    <2>2. \A r \in Role : Disabled(r)'
      BY <1>1, MiddleFacts DEF Disabled
    <2>3. ~HasSucceeded'
      BY <2>1 DEF HasSucceeded
    <2>4. PublishHolds' /\ BootstrapHolds'
      BY <1>7, <2>1, <2>2, <2>3 DEF PublishHolds, BootstrapHolds, Before, Reconciles, Ends
    <2>5. run'.pc \in (Before \ {"disable"}) \cup Reconciles \cup {"enable"}
      BY <2>1 DEF Before
    <2> QED BY <1>1, <1>2, <2>1, <2>4, <2>5, MiddleKeeps
  <1> QED BY <1>5, <1>6, <1>7

LEMMA SubmitPublishKeeps ==
    ASSUME RRInv, SubmitPublish
    PROVE  RRInv'
  <1>1. /\ run.pc = "publish" /\ UNCHANGED <<schedules, wheels, sparkJob, bootstrapped, vetted>>
        /\ run.pc \in (Before \ {"disable"}) \cup Reconciles
    BY DEF SubmitPublish, Before
  <1>2. wheels = {run.release} /\ wheels \subseteq Wheel /\ publish \in Publishings
    BY <1>1, WheelsType DEF RRInv, PublishHolds
  <1>3. wheels' \subseteq Wheel /\ sparkJob' \in SparkJobs
    BY <1>1, <1>2 DEF RRInv, RRTypeOK
  <1>4. publish' \in Publishings
    BY <1>2 DEF SubmitPublish, Publishings
  <1>5. Fail \/ (Advance("published") /\ publish'.state = "Running" /\ publish'.next = {run.release})
    <2>1. CASE publish.state = "Running"
      BY <2>1 DEF SubmitPublish
    <2>2. CASE publish.state # "Running"
      <3>1. PICK a \in DeleteReply :
                /\ publish' = IF a.done > 0 THEN [publish EXCEPT !.state = "Running", !.next = wheels]
                              ELSE publish
                /\ Proceed(a, "published")
        BY <2>2 DEF SubmitPublish
      <3>2. CASE a.ok
        <4>1. a.done > 0
          BY <3>2 DEF DeleteReply, Reply
        <4> QED BY <1>2, <3>1, <3>2, <4>1 DEF Proceed, Publishings
      <3>3. CASE ~a.ok
        BY <3>1, <3>3 DEF Proceed
      <3> QED BY <3>2, <3>3
    <2> QED BY <2>1, <2>2
  <1>6. CASE Fail
    BY <1>1, <1>3, <1>4, <1>6, MiddleFails
  <1>7. CASE Advance("published") /\ publish'.state = "Running" /\ publish'.next = {run.release}
    <2>1. /\ run' \in RunRecords /\ run'.pc = "published" /\ run'.role = run.role
          /\ run'.release = run.release /\ run'.option = run.option
      BY <1>1, <1>7, MiddleFacts DEF Advance, RunRecords, Before
    <2>2. \A r \in Role : Disabled(r)'
      BY <1>1, MiddleFacts DEF Disabled
    <2>3. ~HasSucceeded'
      BY <2>1 DEF HasSucceeded
    <2>4. PublishHolds' /\ BootstrapHolds'
      BY <1>7, <2>1, <2>2, <2>3 DEF PublishHolds, BootstrapHolds, Before, Reconciles, Ends
    <2>5. run'.pc \in (Before \ {"disable"}) \cup Reconciles \cup {"enable"}
      BY <2>1 DEF Before
    <2> QED BY <1>1, <1>3, <1>4, <2>1, <2>4, <2>5, MiddleKeeps
  <1> QED BY <1>5, <1>6, <1>7

\* A publish ends while every schedule is disabled, whoever waits for it.
LEMMA EndPublishKeeps ==
    ASSUME RRInv, EndPublish
    PROVE  RRInv'
  <1>1. /\ publish.state = "Running" /\ UNCHANGED <<schedules, wheels, sparkJob, bootstrapped, run, vetted>>
        /\ publish'.state # "Running"
        /\ publish' \in Publishings
        /\ publish'.state = "Success" => publish'.live = publish.next
    <2>1. publish \in Publishings /\ publish.state = "Running"
          /\ UNCHANGED <<schedules, wheels, sparkJob, bootstrapped, run, vetted>>
      BY DEF EndPublish, RRInv, RRTypeOK
    <2>2. CASE publish' = [state |-> "Success", live |-> publish.next, next |-> {}]
      BY <2>1, <2>2 DEF Publishings
    <2>3. CASE publish' = [publish EXCEPT !.state = "Failed", !.next = {}]
      BY <2>1, <2>3 DEF Publishings
    <2> QED BY <2>2, <2>3, <2>1 DEF EndPublish
  <1>2. /\ \A r \in Role : Disabled(r)
        /\ run.pc \in Before \cup {"idle", "ended"} /\ ~HasSucceeded
        /\ run.pc = "published" => publish.next = {run.release}
    BY <1>1 DEF RRInv, PublishHolds
  <1>3. RRTypeOK'
    BY <1>1 DEF RRInv, RRTypeOK
  <1>4. ~HasSucceeded' /\ run'.pc \in Before \cup {"idle", "ended"}
    BY <1>1, <1>2 DEF HasSucceeded
  <1>5. PassesHold'
    BY <1>1, <1>4 DEF RRInv, PassesHold, RolesDone, Disabled, Shaped, Before, Reconciles
  <1>6. PublishHolds'
    BY <1>1, <1>2, <1>4 DEF RRInv, PublishHolds, Before, Reconciles, Ends
  <1>7. BootstrapHolds'
    BY <1>1, <1>4 DEF BootstrapHolds, Before, Reconciles, Ends
  <1>8. EnabledSchedulesRunAVettedRelease'
    BY <1>1, <1>2 DEF EnabledSchedulesRunAVettedRelease, Disabled
  <1> QED BY <1>3, <1>5, <1>6, <1>7, <1>8 DEF RRInv

LEMMA PollPublishKeeps ==
    ASSUME RRInv, PollPublish
    PROVE  RRInv'
  <1>1. /\ run.pc = "published" /\ UNCHANGED items /\ publish.state # "Running"
        /\ run.pc \in (Before \ {"disable"}) \cup Reconciles
    BY DEF PollPublish, Before
  <1>2. /\ wheels' \subseteq Wheel /\ publish' \in Publishings /\ sparkJob' \in SparkJobs
        /\ UNCHANGED <<schedules, publish, sparkJob, bootstrapped, vetted>>
    BY <1>1 DEF RRInv, RRTypeOK, items
  <1>3. CASE publish.state = "Success"
    <2>1. Advance("bootstrap") /\ publish.live = {run.release}
      BY <1>1, <1>3 DEF PollPublish, RRInv, PublishHolds
    <2>2. /\ run' \in RunRecords /\ run'.pc = "bootstrap" /\ run'.role = run.role
          /\ run'.release = run.release /\ run'.option = run.option
      BY <1>1, <2>1, MiddleFacts DEF Advance, RunRecords, Reconciles
    <2>3. ~HasSucceeded'
      BY <2>2 DEF HasSucceeded
    <2>4. PublishHolds' /\ BootstrapHolds'
      BY <1>1, <1>2, <2>1, <2>2, <2>3 DEF PublishHolds, BootstrapHolds, Before, Reconciles, Ends
    <2>5. run'.pc \in (Before \ {"disable"}) \cup Reconciles \cup {"enable"}
      BY <2>2 DEF Reconciles
    <2> QED BY <1>1, <1>2, <2>2, <2>4, <2>5, MiddleKeeps
  <1>4. CASE publish.state # "Success"
    <2>1. Fail
      BY <1>4 DEF PollPublish
    <2> QED BY <1>1, <1>2, <2>1, MiddleFails
  <1> QED BY <1>3, <1>4

\* Steps after the publish find what was published in place.
LEMMA Published ==
    ASSUME RRInv, run.pc \in Reconciles
    PROVE  publish.state # "Running" /\ publish.live = {run.release}
  BY DEF RRInv, PublishHolds, Before, Reconciles, HasSucceeded

LEMMA SubmitBootstrapKeeps ==
    ASSUME RRInv, SubmitBootstrap
    PROVE  RRInv'
  <1>1. /\ run.pc = "bootstrap" /\ UNCHANGED <<schedules, wheels, publish, bootstrapped, vetted>>
        /\ run.pc \in (Before \ {"disable"}) \cup Reconciles /\ run.pc \in Reconciles
    BY DEF SubmitBootstrap, Reconciles
  <1>2. wheels' \subseteq Wheel /\ publish' \in Publishings /\ publish \in Publishings
    BY <1>1 DEF RRInv, RRTypeOK
  <1>3. publish.state # "Running" /\ publish.live = {run.release}
    BY <1>1, Published
  <1>4. sparkJob' \in SparkJobs
    BY <1>2 DEF SubmitBootstrap, SparkJobs, Publishings, RRInv, RRTypeOK
  <1>5. \/ Fail
        \/ Advance("bootstrapping") /\ sparkJob' = [state |-> "running", live |-> publish.live]
        \/ Advance("folders") /\ ~run.option.bootstrap
    BY RolesType DEF SubmitBootstrap, Proceed, Reply
  <1>6. CASE Fail
    BY <1>1, <1>2, <1>4, <1>6, MiddleFails
  <1>7. CASE Advance("bootstrapping") /\ sparkJob' = [state |-> "running", live |-> publish.live]
    <2>1. /\ run' \in RunRecords /\ run'.pc = "bootstrapping" /\ run'.role = run.role
          /\ run'.release = run.release /\ run'.option = run.option
      BY <1>1, <1>7, MiddleFacts DEF Advance, RunRecords, Reconciles
    <2>2. ~HasSucceeded'
      BY <2>1 DEF HasSucceeded
    <2>3. PublishHolds' /\ BootstrapHolds'
      BY <1>1, <1>3, <1>7, <2>1, <2>2 DEF PublishHolds, BootstrapHolds, Before, Reconciles, Ends
    <2>4. run'.pc \in (Before \ {"disable"}) \cup Reconciles \cup {"enable"}
      BY <2>1 DEF Reconciles
    <2> QED BY <1>1, <1>2, <1>4, <2>1, <2>3, <2>4, MiddleKeeps
  <1>8. CASE Advance("folders") /\ ~run.option.bootstrap
    <2>1. /\ run' \in RunRecords /\ run'.pc = "folders" /\ run'.role = run.role
          /\ run'.release = run.release /\ run'.option = run.option
      BY <1>1, <1>8, MiddleFacts DEF Advance, RunRecords, Reconciles
    <2>2. ~HasSucceeded'
      BY <2>1 DEF HasSucceeded
    <2>3. PublishHolds' /\ BootstrapHolds'
      BY <1>1, <1>3, <1>8, <2>1, <2>2 DEF PublishHolds, BootstrapHolds, Before, Reconciles, Ends
    <2>4. run'.pc \in (Before \ {"disable"}) \cup Reconciles \cup {"enable"}
      BY <2>1 DEF Reconciles
    <2> QED BY <1>1, <1>2, <1>4, <2>1, <2>3, <2>4, MiddleKeeps
  <1> QED BY <1>5, <1>6, <1>7, <1>8

LEMMA EndBootstrapKeeps ==
    ASSUME RRInv, EndBootstrap
    PROVE  RRInv'
  <1>1. /\ UNCHANGED <<schedules, wheels, publish, run, vetted>> /\ sparkJob \in SparkJobs
        /\ bootstrapped \subseteq bootstrapped'
    BY DEF EndBootstrap, RRInv, RRTypeOK
  <1>2. /\ sparkJob' \in SparkJobs /\ sparkJob'.state \in {"succeeded", "failed"}
        /\ sparkJob'.live = sparkJob.live
        /\ sparkJob'.state = "succeeded" => sparkJob.live \subseteq bootstrapped'
    <2>1. CASE sparkJob' = [sparkJob EXCEPT !.state = "succeeded"] /\ bootstrapped' = bootstrapped \cup sparkJob.live
      BY <1>1, <2>1 DEF SparkJobs
    <2>2. CASE sparkJob' = [sparkJob EXCEPT !.state = "failed"]
      BY <1>1, <2>2 DEF SparkJobs
    <2> QED BY <2>1, <2>2 DEF EndBootstrap
  <1>3. RRTypeOK'
    BY <1>1, <1>2 DEF RRInv, RRTypeOK
  <1>4. HasSucceeded' = HasSucceeded
    BY <1>1 DEF HasSucceeded
  <1>5. PassesHold'
    BY <1>1, <1>4 DEF RRInv, PassesHold, RolesDone, Disabled, Shaped, AsAsked
  <1>6. PublishHolds'
    BY <1>1, <1>4 DEF RRInv, PublishHolds, Disabled
  <1>7. BootstrapHolds'
    BY <1>1, <1>2, <1>4 DEF RRInv, BootstrapHolds
  <1>8. EnabledSchedulesRunAVettedRelease'
    BY <1>1 DEF RRInv, EnabledSchedulesRunAVettedRelease
  <1> QED BY <1>3, <1>5, <1>6, <1>7, <1>8 DEF RRInv

LEMMA PollBootstrapKeeps ==
    ASSUME RRInv, PollBootstrap
    PROVE  RRInv'
  <1>1. /\ run.pc = "bootstrapping" /\ UNCHANGED items /\ sparkJob.state # "running"
        /\ run.pc \in (Before \ {"disable"}) \cup Reconciles /\ run.pc \in Reconciles
    BY DEF PollBootstrap, Reconciles
  <1>2. /\ wheels' \subseteq Wheel /\ publish' \in Publishings /\ sparkJob' \in SparkJobs
        /\ UNCHANGED <<schedules, publish, sparkJob, bootstrapped, vetted>>
        /\ sparkJob \in SparkJobs
    BY <1>1 DEF RRInv, RRTypeOK, items
  <1>3. /\ publish.state # "Running" /\ publish.live = {run.release} /\ run.tables \in BOOLEAN
        /\ run \in RunRecords
    BY <1>1, Published, MiddleFacts DEF RunRecords
  <1>4. CASE sparkJob.state = "failed"
    <2>1. Fail
      BY <1>1, <1>4 DEF PollBootstrap, Fail
    <2> QED BY <1>1, <1>2, <2>1, MiddleFails
  <1>5. CASE sparkJob.state # "failed"
    <2>1. run.release \in bootstrapped
      BY <1>1, <1>2, <1>5 DEF RRInv, BootstrapHolds, SparkJobs
    <2>2. \/ run' = [run EXCEPT !.pc = "bootstrap", !.tables = TRUE]
          \/ run' = [run EXCEPT !.pc = "folders"]
      BY <1>3, <1>5 DEF PollBootstrap
    <2>3. /\ run' \in RunRecords /\ run'.pc \in {"bootstrap", "folders"} /\ run'.role = run.role
          /\ run'.release = run.release /\ run'.option = run.option
      BY <1>3, <2>2 DEF RunRecords, Reconciles
    <2>4. ~HasSucceeded'
      BY <2>3 DEF HasSucceeded
    <2>5. PublishHolds' /\ BootstrapHolds'
      BY <1>2, <1>3, <2>1, <2>3, <2>4 DEF PublishHolds, BootstrapHolds, Before, Reconciles, Ends
    <2>6. run'.pc \in (Before \ {"disable"}) \cup Reconciles \cup {"enable"}
      BY <2>3 DEF Reconciles
    <2> QED BY <1>1, <1>2, <2>3, <2>5, <2>6, MiddleKeeps
  <1> QED BY <1>4, <1>5

LEMMA DeadlinePassesKeeps ==
    ASSUME RRInv, DeadlinePasses
    PROVE  RRInv'
  <1>1. /\ UNCHANGED items /\ Fail
        /\ run.pc \in (Before \ {"disable"}) \cup Reconciles
    BY DEF DeadlinePasses, Before, Reconciles
  <1>2. /\ wheels' \subseteq Wheel /\ publish' \in Publishings /\ sparkJob' \in SparkJobs
        /\ UNCHANGED schedules
    BY <1>1 DEF RRInv, RRTypeOK, items
  <1> QED BY <1>1, <1>2, MiddleFails

-----------------------------------------------------------------------------
(* After the bootstrap *)

Later == Reconciles \ {"bootstrap", "bootstrapping"}

\* Steps that change neither the schedules nor the environment.
LEMMA LaterKeeps ==
    ASSUME RRInv, run.pc \in Later,
           run' \in RunRecords, run'.pc \in Later \cup {"enable"},
           run'.role = run.role, run'.release = run.release, run'.option = run.option,
           UNCHANGED <<schedules, wheels, publish, sparkJob, bootstrapped, vetted>>
    PROVE  RRInv'
  <1>1. run.pc \in (Before \ {"disable"}) \cup Reconciles /\ run.pc \in Reconciles
    BY DEF Later
  <1>2. publish.state # "Running" /\ publish.live = {run.release}
    BY <1>1, Published
  <1>3. run.option.bootstrap => run.release \in bootstrapped
    BY DEF RRInv, BootstrapHolds, Later
  <1>4. ~HasSucceeded'
    BY DEF HasSucceeded, Later, Reconciles
  <1>5. PublishHolds' /\ BootstrapHolds'
    BY <1>2, <1>3, <1>4 DEF PublishHolds, BootstrapHolds, Before, Reconciles, Ends, Later
  <1>6. run'.pc \in (Before \ {"disable"}) \cup Reconciles \cup {"enable"}
    BY DEF Later
  <1>7. wheels' \subseteq Wheel /\ publish' \in Publishings /\ sparkJob' \in SparkJobs
    BY DEF RRInv, RRTypeOK
  <1> QED BY <1>1, <1>5, <1>6, <1>7, MiddleKeeps

LEMMA LaterFails ==
    ASSUME RRInv, run.pc \in Later, Fail,
           UNCHANGED <<schedules, wheels, publish, sparkJob, bootstrapped, vetted>>
    PROVE  RRInv'
  <1>1. run.pc \in (Before \ {"disable"}) \cup Reconciles
    BY DEF Later
  <1>2. wheels' \subseteq Wheel /\ publish' \in Publishings /\ sparkJob' \in SparkJobs
    BY DEF RRInv, RRTypeOK
  <1> QED BY <1>1, <1>2, MiddleFails

LEMMA ContractKeeps ==
    ASSUME RRInv, NEW pc \in Later, NEW after \in Later, ContractStep(pc, after),
           pc \in {"folders", "connections", "powerBi", "reporting"}
    PROVE  RRInv'
  <1>1. /\ run.pc = pc /\ UNCHANGED <<schedules, wheels, publish, sparkJob, bootstrapped, vetted>>
        /\ run.pc \in Later /\ run \in RunRecords
    BY WheelsType DEF ContractStep, items
  <1>2. \/ Fail
        \/ run' = [run EXCEPT !.pc = after,
                     !.checkpoints = IF run.option.operator = pc THEN @ \cup {pc} ELSE @]
    BY DEF ContractStep
  <1>3. CASE Fail
    BY <1>1, <1>3, LaterFails
  <1>4. CASE run' = [run EXCEPT !.pc = after,
                     !.checkpoints = IF run.option.operator = pc THEN @ \cup {pc} ELSE @]
    <2>1. /\ run' \in RunRecords /\ run'.pc = after /\ run'.role = run.role
          /\ run'.release = run.release /\ run'.option = run.option
      BY <1>1, <1>4 DEF RunRecords, Later
    <2> QED BY <1>1, <2>1, LaterKeeps
  <1> QED BY <1>2, <1>3, <1>4

LEMMA AccessKeeps ==
    ASSUME RRInv, ListAccess \/ RemoveAccess
    PROVE  RRInv'
  <1>1. /\ run.pc \in {"access", "remove"}
        /\ UNCHANGED <<schedules, wheels, publish, sparkJob, bootstrapped, vetted>>
        /\ run.pc \in Later /\ run \in RunRecords
    BY WheelsType DEF ListAccess, RemoveAccess, items, Later, Reconciles
  <1>2. \/ Fail
        \/ \E matched \in SUBSET Deprecated : run' = [run EXCEPT !.pc = "remove", !.todo = matched]
        \/ run' = [run EXCEPT !.pc = "powerBi",
                     !.checkpoints = IF run.option.operator = "access" THEN @ \cup {"access"} ELSE @]
        \/ \E p \in run.todo : run' = [run EXCEPT !.todo = @ \ {p}]
    <2>1. CASE ListAccess
      <3> DEFINE matched == {p \in Deprecated : assigned[p] # "none"}
      <3>1. Fail \/ run' = [run EXCEPT !.pc = "remove", !.todo = matched]
        BY <2>1 DEF ListAccess
      <3>2. matched \in SUBSET Deprecated
        OBVIOUS
      <3> QED BY <3>1, <3>2
    <2>2. CASE RemoveAccess
      BY <2>2 DEF RemoveAccess
    <2> QED BY <2>1, <2>2
  <1>3. CASE Fail
    BY <1>1, <1>3, LaterFails
  <1>4. ASSUME NEW matched \in SUBSET Deprecated, run' = [run EXCEPT !.pc = "remove", !.todo = matched]
        PROVE  RRInv'
    <2>1. /\ run' \in RunRecords /\ run'.pc = "remove" /\ run'.role = run.role
          /\ run'.release = run.release /\ run'.option = run.option
      BY <1>1, <1>4 DEF RunRecords, Reconciles
    <2>2. run'.pc \in Later
      BY <2>1 DEF Later, Reconciles
    <2> QED BY <1>1, <2>1, <2>2, LaterKeeps
  <1>5. CASE run' = [run EXCEPT !.pc = "powerBi",
                     !.checkpoints = IF run.option.operator = "access" THEN @ \cup {"access"} ELSE @]
    <2>1. /\ run' \in RunRecords /\ run'.pc = "powerBi" /\ run'.role = run.role
          /\ run'.release = run.release /\ run'.option = run.option
      BY <1>1, <1>5 DEF RunRecords, Reconciles
    <2>2. run'.pc \in Later
      BY <2>1 DEF Later, Reconciles
    <2> QED BY <1>1, <2>1, <2>2, LaterKeeps
  <1>6. ASSUME NEW p \in run.todo, run' = [run EXCEPT !.todo = @ \ {p}]
        PROVE  RRInv'
    <2>1. /\ run' \in RunRecords /\ run'.pc = run.pc /\ run'.role = run.role
          /\ run'.release = run.release /\ run'.option = run.option
      BY <1>1, <1>6 DEF RunRecords
    <2> QED BY <1>1, <2>1, LaterKeeps
  <1> QED BY <1>2, <1>3, <1>4, <1>5, <1>6

LEMMA VerifyActivatorKeeps ==
    ASSUME RRInv, VerifyActivator
    PROVE  RRInv'
  <1>1. /\ run.pc = "activator"
        /\ UNCHANGED <<schedules, wheels, publish, sparkJob, bootstrapped, vetted>>
        /\ run.pc \in Later /\ run \in RunRecords /\ run.option \in Options
    BY WheelsType DEF VerifyActivator, items, Later, Reconciles, RRInv, RRTypeOK
  <1>2. PICK b \in Readback, status \in {"raised", "succeeded", "failed", "operator_checkpoint_required"} :
            run' = CASE status = "raised" -> [run EXCEPT !.pc = "ended", !.status = "failed"]
                     [] status = "succeeded" -> [run EXCEPT !.pc = "enable"]
                     [] OTHER -> [run EXCEPT !.pc = "enable", !.status = status,
                                             !.checkpoints = @ \cup {"activator"}]
    <2>1. \A x, y \in BOOLEAN :
              ActivatorStatus(x, y) \in {"raised", "succeeded", "failed", "operator_checkpoint_required"}
      BY <1>1 DEF ActivatorStatus, Options
    <2>2. PICK b \in Readback :
            run' = CASE ActivatorStatus(b.matches, b.readable) = "raised" -> [run EXCEPT !.pc = "ended", !.status = "failed"]
                     [] ActivatorStatus(b.matches, b.readable) = "succeeded" -> [run EXCEPT !.pc = "enable"]
                     [] OTHER -> [run EXCEPT !.pc = "enable", !.status = ActivatorStatus(b.matches, b.readable),
                                             !.checkpoints = @ \cup {"activator"}]
      BY DEF VerifyActivator
    <2>3. ActivatorStatus(b.matches, b.readable) \in {"raised", "succeeded", "failed", "operator_checkpoint_required"}
      BY <2>1 DEF Readback
    <2> QED BY <2>2, <2>3
  <1>3. CASE status = "raised"
    <2>1. Fail
      BY <1>2, <1>3 DEF Fail
    <2> QED BY <1>1, <2>1, LaterFails
  <1>4. CASE status # "raised"
    <2>1. \/ run' = [run EXCEPT !.pc = "enable"]
          \/ run' = [run EXCEPT !.pc = "enable", !.status = status, !.checkpoints = @ \cup {"activator"}]
      BY <1>2, <1>4
    <2>2. /\ run' \in RunRecords /\ run'.pc = "enable" /\ run'.role = run.role
          /\ run'.release = run.release /\ run'.option = run.option
      BY <1>1, <1>2, <1>4, <2>1 DEF RunRecords
    <2> QED BY <1>1, <2>2, LaterKeeps
  <1> QED BY <1>3, <1>4

-----------------------------------------------------------------------------
(* After the second pass *)

\* A run whose evidence says "succeeded" writes its manifest and ends.
LEMMA EndKeeps ==
    ASSUME RRInv, run.pc \in Ends, run' \in RunRecords,
           run'.pc \in {"manifest", "flush", "ended"},
           run'.release = run.release, run'.option = run.option,
           run.pc = "evidence" => run.checkpoints = {},
           UNCHANGED <<schedules, wheels, publish, sparkJob, bootstrapped, vetted>>
    PROVE  RRInv'
  <1>1. \A r \in Role : AsAsked(r)
    BY DEF RRInv, PassesHold, HasSucceeded, Ends
  <1>2. /\ publish.state # "Running" /\ publish.live = {run.release}
        /\ run.option.bootstrap => run.release \in bootstrapped
    BY DEF RRInv, PublishHolds, BootstrapHolds, Ends, Before, HasSucceeded
  <1>3. run.option \in Options
    BY DEF RRInv, RRTypeOK, Ends
  <1>4. RRTypeOK'
    BY <1>3 DEF RRInv, RRTypeOK
  <1>5. \A r \in Role : AsAsked(r)'
    BY <1>1 DEF AsAsked
  <1>6. PassesHold' /\ PublishHolds' /\ BootstrapHolds'
    BY <1>2, <1>5 DEF PassesHold, PublishHolds, BootstrapHolds, Before, Reconciles, Ends
  <1>7. EnabledSchedulesRunAVettedRelease'
    BY DEF RRInv, EnabledSchedulesRunAVettedRelease
  <1> QED BY <1>4, <1>6, <1>7 DEF RRInv

LEMMA EvidenceKeeps ==
    ASSUME RRInv, Evidence
    PROVE  RRInv'
  <1>1. /\ run.pc = "evidence" /\ run.pc \in Ends /\ run.pc # "idle" /\ run \in RunRecords
        /\ UNCHANGED <<schedules, wheels, publish, sparkJob, bootstrapped, vetted>>
        /\ wheels' \subseteq Wheel
    BY WheelsType DEF Evidence, items, Ends
  <1>2. Overall \in {"failed", "operator_checkpoint_required", "succeeded"}
    BY DEF Overall
  <1>3. CASE Overall = "succeeded"
    <2>1. run.checkpoints = {}
      BY <1>3 DEF Overall
    <2>2. run' = [run EXCEPT !.status = "succeeded", !.pc = "manifest"]
      BY <1>3 DEF Evidence
    <2>3. /\ run' \in RunRecords /\ run'.pc = "manifest"
          /\ run'.release = run.release /\ run'.option = run.option
      BY <1>1, <2>2 DEF RunRecords, Ends
    <2> QED BY <1>1, <2>1, <2>3, EndKeeps
  <1>4. CASE Overall # "succeeded"
    <2>1. PICK status \in {"failed", "dead", "operator_checkpoint_required"} :
              run' = [run EXCEPT !.pc = "ended", !.status = status]
      BY <1>1, <1>2, <1>4 DEF Evidence, RunRecords
    <2> QED BY <1>1, <2>1, StopsInPlace
  <1> QED BY <1>3, <1>4

LEMMA ManifestKeeps ==
    ASSUME RRInv, CreateManifest \/ FlushManifest
    PROVE  RRInv'
  <1>1. /\ run.pc \in {"manifest", "flush"} /\ run.pc \in Ends /\ run.pc # "idle" /\ run \in RunRecords
        /\ UNCHANGED <<schedules, wheels, publish, sparkJob, bootstrapped, vetted>>
        /\ wheels' \subseteq Wheel
    BY WheelsType DEF CreateManifest, FlushManifest, Ends
  <1>2. Fail \/ \E pc \in {"flush", "ended"} : Advance(pc)
    BY DEF CreateManifest, FlushManifest, Proceed
  <1>3. CASE Fail
    BY <1>1, <1>3, FailKeeps
  <1>4. ASSUME NEW pc \in {"flush", "ended"}, Advance(pc)
        PROVE  RRInv'
    <2>1. /\ run' \in RunRecords /\ run'.pc = pc
          /\ run'.release = run.release /\ run'.option = run.option
      BY <1>1, <1>4 DEF Advance, RunRecords, Ends
    <2> QED BY <1>1, <2>1, EndKeeps
  <1> QED BY <1>2, <1>3, <1>4

LEMMA DiesKeeps ==
    ASSUME RRInv, Dies
    PROVE  RRInv'
  <1>1. /\ run' = [run EXCEPT !.pc = "ended", !.status = "dead"] /\ run.pc # "idle"
        /\ UNCHANGED <<schedules, wheels, publish, sparkJob, bootstrapped, vetted>>
        /\ wheels' \subseteq Wheel
    BY WheelsType DEF Dies, items
  <1> QED BY <1>1, StopsInPlace

LEMMA ReconcilerStep == RRInv /\ [RRNext]_rvars => RRInv'
  <1> SUFFICES ASSUME RRInv, [RRNext]_rvars PROVE RRInv'
    OBVIOUS
  <1>1. CASE Begin
    BY <1>1, BeginKeeps
  <1>2. CASE DisableSchedule
    BY <1>2, DisableKeeps
  <1>3. CASE EnableSchedule
    BY <1>3, EnableKeeps
  <1>4. CASE DeleteStale \/ Upload \/ SubmitPublish
    BY <1>4, DeleteStaleKeeps, UploadKeeps, SubmitPublishKeeps
  <1>5. CASE EndPublish \/ PollPublish
    BY <1>5, EndPublishKeeps, PollPublishKeeps
  <1>6. CASE SubmitBootstrap \/ EndBootstrap \/ PollBootstrap \/ DeadlinePasses
    BY <1>6, SubmitBootstrapKeeps, EndBootstrapKeeps, PollBootstrapKeeps, DeadlinePassesKeeps
  <1>7. CASE Folders \/ Connections \/ PowerBi \/ Reporting
    <2>1. {"folders", "connections", "access", "powerBi", "reporting", "activator"} \subseteq Later
      BY DEF Later, Reconciles
    <2> QED BY <1>7, <2>1, ContractKeeps DEF Folders, Connections, PowerBi, Reporting
  <1>8. CASE ListAccess \/ RemoveAccess
    BY <1>8, AccessKeeps
  <1>9. CASE VerifyActivator
    BY <1>9, VerifyActivatorKeeps
  <1>10. CASE Evidence
    BY <1>10, EvidenceKeeps
  <1>11. CASE CreateManifest \/ FlushManifest
    BY <1>11, ManifestKeeps
  <1>12. CASE Dies
    BY <1>12, DiesKeeps
  <1>13. CASE UNCHANGED rvars
    <2>1. UNCHANGED <<schedules, wheels, publish, sparkJob, bootstrapped, run, vetted>>
      BY <1>13 DEF rvars
    <2>2. HasSucceeded' = HasSucceeded
      BY <2>1 DEF HasSucceeded
    <2>3. RRTypeOK' /\ EnabledSchedulesRunAVettedRelease'
      BY <2>1 DEF RRInv, RRTypeOK, EnabledSchedulesRunAVettedRelease
    <2>4. PassesHold'
      BY <2>1, <2>2 DEF RRInv, PassesHold, RolesDone, Disabled, Shaped, AsAsked
    <2>5. PublishHolds' /\ BootstrapHolds'
      BY <2>1, <2>2 DEF RRInv, PublishHolds, BootstrapHolds, Disabled
    <2> QED BY <2>3, <2>4, <2>5 DEF RRInv
  <1> QED BY <1>1, <1>2, <1>3, <1>4, <1>5, <1>6, <1>7, <1>8, <1>9, <1>10, <1>11, <1>12, <1>13 DEF RRNext

\* The inductive invariant of reconcile_runtime: nothing is enabled from its
\* first pass over the schedules to its second one, or while a publish goes
\* on, and what the steps in between put in place is still there.
THEOREM ReconcilerInvariance == RRSpec => []RRInv
  BY ReconcilerBegins, ReconcilerStep, PTL DEF RRSpec

\* An enabled schedule starts jobs in an environment that passed every step of
\* some run without an open checkpoint, whatever was sent twice, failed, or
\* finished after its run had given up.
THEOREM EnabledIsVetted == RRSpec => []EnabledSchedulesRunAVettedRelease
  <1>1. RRInv => EnabledSchedulesRunAVettedRelease
    BY DEF RRInv
  <1> QED BY <1>1, ReconcilerInvariance, PTL

\* A run that reports "succeeded" left each role the schedule that was asked
\* for, published its wheel alone and bootstrapped the lakehouse with it.
THEOREM SucceededIsInPlace == RRSpec => []SucceededRunIsInPlace
  <1>1. RRInv => SucceededRunIsInPlace
    BY DEF RRInv, PassesHold, PublishHolds, BootstrapHolds, HasSucceeded, SucceededRunIsInPlace, AsAsked
  <1> QED BY <1>1, ReconcilerInvariance, PTL
=============================================================================
