----------------------------- MODULE MCExecutors ----------------------------
(***************************************************************************)
(* The inside of a process batch for TLC: which release may process a      *)
(* work, where its inputs come from, how wide the batch runs and how its   *)
(* rows are staged; what is read from the catalog, tracked and counted;    *)
(* how much work a lease admits; and what a report makes of the event log. *)
(* These parts meet in their callers only, so each behaviour looks at one  *)
(* of them.                                                                *)
(***************************************************************************)
EXTENDS ProcessInputs, Placement, PartitionStaging, ReleaseBinding, Tracking, Catalog,
        LineCounting, EventEvidence, ClaimAdmission

VARIABLE focus

allVars == <<focus, pivars, plvars, psvars, lvars, tvars, cvars, lcvars, evidencevars, lavars>>

SomeMachines == {[cores |-> c, memory |-> m] : c \in {2, 4}, m \in {4, 6, 8}}

\* The middle one was built again from the version of the first.
ThreeReleases ==
    {[version |-> r[1], identity |-> r[2], digest |-> r[2]] : r \in {<<1, 1>>, <<1, 2>>, <<2, 3>>}}

\* Nothing tells the two builds of the first version apart at the start.
OneBuild == [version |-> 1, identity |-> 1, digest |-> 1]
OneOfEachVersion == {OneBuild, [version |-> 2, identity |-> 3, digest |-> 3]}

\* "a" and "b" do not resemble each other, others do a little.
Looks ==
    [p \in Person |-> [q \in Person |-> IF p = q THEN 100 ELSE IF {p, q} = {"a", "b"} THEN 40 ELSE 60]]

SomeRows ==
    {[prefix |-> p, camera |-> c[1], place |-> c[2], source |-> s[1], pattern |-> s[2],
      frame |-> 2, line |-> <<0, 1>>, from |-> t[1], to |-> t[2]] :
        p \in {<<"a">>, <<"a", "b">>},
        c \in {<<"c1", "hall">>, <<"c1", "yard">>, <<"c2", "yard">>},
        s \in {<<"auto", TRUE>>, <<"embedded", FALSE>>, <<"inventory", FALSE>>, <<"filename_utc", TRUE>>},
        t \in {<<1, None>>, <<1, 2>>, <<2, None>>}}

SomeVideos ==
    {[path |-> <<"a", "b", "v">>, frame |-> 2, tags |-> <<2>>, name |-> 1],
     [path |-> <<"a", "w">>, frame |-> 3, tags |-> <<1, 2>>, name |-> Invalid]}

SomeProfiles ==
    {p \in [instances : 1..2, cores : 1..2, task_cpus : 1..2, planned : 1..4,
            usable : {2}, peak : {0, 1, 2}] :
        /\ p.task_cpus <= p.cores
        /\ p.planned \in {p.instances, (p.instances * p.cores) \div p.task_cpus}}

\* What a behaviour does not look at starts in one state.
Chosen(f, value, set) == IF focus = f THEN set ELSE {value}

Pinned ==
    /\ pool \in Chosen("inputs", [j \in Job |-> {[id |-> i, able |-> Proof] : i \in 1..Workers}], [Job -> SUBSET Executors])
    /\ backend \in Chosen("staging", "local", {"local", "spark_delta"})
    /\ installed \in Chosen("release", OneBuild, OneOfEachVersion)
    /\ catalog \in Chosen("catalog", {CHOOSE r \in Row : TRUE}, {{r} : r \in Row})
    /\ settings \in Chosen("counting", CHOOSE s \in LineSettings : TRUE, LineSettings)

ExecutorsInit ==
    /\ focus \in {"inputs", "width", "staging", "release", "tracking", "catalog", "counting",
                 "evidence", "admission"}
    /\ Pinned
    /\ PIInit /\ PLInit /\ PSInit /\ ReleaseInit /\ TInit /\ CatalogInit /\ LCInit /\ EvidenceInit
    /\ IF focus = "admission" THEN LAInit
       ELSE dur = <<>> /\ profile = None /\ lease = 0 /\ prefix = {}

ExecutorsNext ==
    /\ UNCHANGED focus
    /\ \/ focus = "inputs" /\ PINext /\ UNCHANGED <<plvars, psvars, lvars, tvars, cvars, lcvars, evidencevars, lavars>>
       \/ focus = "width" /\ PLNext /\ UNCHANGED <<pivars, psvars, lvars, tvars, cvars, lcvars, evidencevars, lavars>>
       \/ focus = "staging" /\ PSNext /\ UNCHANGED <<pivars, plvars, lvars, tvars, cvars, lcvars, evidencevars, lavars>>
       \/ focus = "release" /\ ReleaseNext /\ UNCHANGED <<pivars, plvars, psvars, tvars, cvars, lcvars, evidencevars, lavars>>
       \/ focus = "tracking" /\ TNext /\ UNCHANGED <<pivars, plvars, psvars, lvars, cvars, lcvars, evidencevars, lavars>>
       \/ focus = "catalog" /\ CatalogNext /\ UNCHANGED <<pivars, plvars, psvars, lvars, tvars, lcvars, evidencevars, lavars>>
       \/ focus = "counting" /\ LCNext /\ UNCHANGED <<pivars, plvars, psvars, lvars, tvars, cvars, evidencevars, lavars>>
       \/ focus = "admission" /\ AdmitQueue /\ UNCHANGED <<pivars, plvars, psvars, lvars, tvars, cvars, lcvars, evidencevars>>
       \/ focus = "evidence" /\ EvidenceNext /\ UNCHANGED <<pivars, plvars, psvars, lvars, tvars, cvars, lcvars, lavars>>

ExecutorsSpec == ExecutorsInit /\ [][ExecutorsNext]_allVars

Symmetry == Permutations(Session)
=============================================================================
