-------------------------- MODULE ReleaseBinding ---------------------------
(***************************************************************************)
(* Releases and the work bound to them: fabric_release_provenance.py, the  *)
(* entry points of fabric_sjd_runtime.py and what the control store and    *)
(* the process job check.  A work is registered for one release, by the    *)
(* digest of its manifest.  Spark sessions keep the wheel they started     *)
(* with while operators install, rebuild and publish others, and launch    *)
(* jobs whose arguments may name any of them.                              *)
(*                                                                         *)
(* A release is a record of the version of its wheel, the identity the     *)
(* wheel embeds, and the digest of its manifest: a version can be rebuilt, *)
(* and a manifest reviewed again.  The evidence of a release, a manifest   *)
(* and a receipt, lies under the root of its version.                      *)
(*                                                                         *)
(* The tables of the store are those of ControlStore; they are reduced     *)
(* here to what the binding of work, batch and output needs, and an        *)
(* operation on them is one step.                                          *)
(***************************************************************************)
EXTENDS Naturals, FiniteSets, FiniteSetsExt, Sequences, Functions, Nothing

CONSTANTS
    Releases,     \* records of version, identity and digest
    Work,
    Session,
    MaxItems,     \* of a claim
    MaxAttempts,  \* of a work
    MaxBatch,     \* bound: batches
    MaxReplays,   \* bound: replays
    MaxChanges    \* bound: wheels installed and evidence published

VARIABLES
    installed,    \* the release of the environment
    changes,      \* wheels installed and evidence published so far
    manifests,    \* version -> release whose manifest is published
    receipts,     \* version -> release whose receipt is published
    session,      \* Spark sessions
    work,         \* rows of work
    batches,      \* rows of batches, with their members
    envelopes,    \* batch -> content of its envelope
    staged,       \* batch -> who computed its records
    replays

lvars == <<installed, changes, manifests, receipts, session, work, batches, envelopes, staged,
           replays>>
evidence == <<installed, changes, manifests, receipts>>
control == <<work, batches, envelopes, staged, replays>>

Version == {r.version : r \in Releases}
Idle == [pc |-> "idle", package |-> None, binding |-> None, request |-> None, batch |-> 0]
Unregistered == [status |-> "ABSENT", release |-> None, attempts |-> 0, batch |-> 0, output |-> None]

\* A first release is installed and published.
ReleaseInit ==
    /\ installed \in Releases
    /\ changes = 0
    /\ manifests = [v \in Version |-> IF v = installed.version THEN installed ELSE None]
    /\ receipts = manifests
    /\ session = [s \in Session |-> Idle]
    /\ work = [w \in Work |-> Unregistered]
    /\ batches = <<>>
    /\ envelopes = <<>>
    /\ staged = <<>>
    /\ replays = 0

-----------------------------------------------------------------------------
(* Evidence *)

\* (slip) the manifest need only have the version of the wheel.
BindsTheVersion(r, package) == r.version = package.version

\* load_detached_release_manifest: it binds the identity in the wheel;
\* validate_installed_package_version.
BindsTheWheel(r, package) == r.identity = package.identity /\ r.version = package.version

\* load_runtime_release_evidence, of what is under the root of the wheel; the
\* receipt binds the manifest.
EvidenceLoads(package, r) ==
    /\ manifests[package.version] = r
    /\ receipts[package.version] = r
    /\ BindsTheWheel(r, package)

\* resolve_published_release: the release the wheel is published as.
Published(package) == {r \in Releases : EvidenceLoads(package, r)}

Change ==
    /\ changes < MaxChanges
    /\ changes' = changes + 1

Install(r) ==
    /\ Change
    /\ installed # r
    /\ installed' = r
    /\ UNCHANGED <<manifests, receipts, session, control>>

\* A reviewed manifest replaces that of an earlier build of its version.
PublishManifest(r) ==
    /\ Change
    /\ manifests[r.version] # r
    /\ manifests' = [manifests EXCEPT ![r.version] = r]
    /\ UNCHANGED <<installed, receipts, session, control>>

\* After the publication of the environment.
PublishReceipt(r) ==
    /\ Change
    /\ installed = r /\ receipts[r.version] # r
    /\ receipts' = [receipts EXCEPT ![r.version] = r]
    /\ UNCHANGED <<installed, manifests, session, control>>

-----------------------------------------------------------------------------
(* Sessions.  A job starts with the wheel of the environment and the release *)
(* its arguments name.                                                       *)

Start(s, binding) ==
    /\ session[s] = Idle
    /\ session' = [session EXCEPT ![s] = [Idle EXCEPT !.pc = "started", !.package = installed,
                                                      !.binding = binding]]
    /\ UNCHANGED <<evidence, control>>

At(s, pc) == session[s].pc = pc
End(s) == session' = [session EXCEPT ![s] = Idle]

\* A session fails, or is stopped, anywhere.
Fail(s) ==
    /\ session[s] # Idle
    /\ End(s)
    /\ UNCHANGED <<evidence, control>>

-----------------------------------------------------------------------------
(* Registration *)

\* require_release_compatibility
Compatible(releases, expected) == \A r \in releases : r = expected

\* register_many up to the lock: the request names a release, and the wheel
\* must be published as that one.
CheckRequest(s, w) ==
    /\ At(s, "started")
    /\ Published(session[s].package) # {}
    /\ Compatible({session[s].binding}, CHOOSE r \in Published(session[s].package) : TRUE)
    /\ session' = [session EXCEPT ![s].pc = "register",
                                  ![s].request = w]
    /\ UNCHANGED <<evidence, control>>

\* register_many under the lock: a work that is there keeps its release, and a
\* request for another one is a conflict.
Register(s) ==
    LET w == session[s].request
    IN  /\ At(s, "register")
        /\ work' = IF work[w].status = "ABSENT"
                   THEN [work EXCEPT ![w].status = "READY", ![w].release = session[s].binding]
                   ELSE work
        /\ End(s)
        /\ UNCHANGED <<evidence, batches, envelopes, staged, replays>>

\* quarantine, of READY work by its exact release.
Quarantine(w, release) ==
    /\ work[w].status = "READY" /\ work[w].release = release
    /\ work' = [work EXCEPT ![w].status = "DEAD"]
    /\ UNCHANGED <<evidence, session, batches, envelopes, staged, replays>>

\* replay keeps the release.
Replay(w) ==
    /\ replays < MaxReplays
    /\ work[w].status \in {"DEAD", "SUCCEEDED"}
    /\ replays' = replays + 1
    /\ work' = [work EXCEPT ![w].status = "READY", ![w].output = None, ![w].attempts = 0]
    /\ UNCHANGED <<evidence, session, batches, envelopes, staged>>

-----------------------------------------------------------------------------
(* The dispatcher claims *)

Eligible == {w \in Work : work[w].status = "READY"}

\* dispatcher_main reads the evidence of its arguments, and claim the release
\* the wheel is published as, which must be the same: the later reading is the
\* one that counts.
Admit(s) ==
    /\ At(s, "started")
    /\ Published(session[s].package) = {session[s].binding}
    /\ session' = [session EXCEPT ![s].pc = "admitted"]
    /\ UNCHANGED <<evidence, control>>

Envelope(W) == [w \in W |-> work[w].release]

\* OneLakeEnvelopeWriter.write: what is stored may be short, and what is read
\* back may be older than what is stored; only the whole content passes.
Written(W) == {[stored |-> c, verified |-> v] : c \in {Envelope(W), None}, v \in BOOLEAN}

ReadsBack(e) == e.verified /\ e.stored # None

\* claim: all that is eligible must be of the release, or nothing is claimed.
\* The envelope comes before the rows.
Claim(s, W, e) ==
    LET b == Len(batches) + 1
    IN  /\ At(s, "admitted")
        /\ Eligible # {}
        /\ Compatible({work[w].release : w \in Eligible}, session[s].binding)
        /\ W \subseteq Eligible /\ Cardinality(W) = Min({MaxItems, Cardinality(Eligible)})
        /\ b <= MaxBatch
        /\ e \in Written(W)
        /\ ReadsBack(e)
        /\ envelopes' = Append(envelopes, e.stored)
        /\ batches' = Append(batches, [status |-> "LEASED", members |-> W])
        /\ staged' = Append(staged, None)
        /\ work' = [w \in Work |-> IF w \in W THEN [work[w] EXCEPT !.status = "LEASED", !.batch = b,
                                                                    !.attempts = @ + 1]
                                   ELSE work[w]]
        /\ session' = [session EXCEPT ![s].pc = "process", ![s].batch = b]
        /\ UNCHANGED <<evidence, replays>>

\* process_main of its own, for a batch an operator names.
Resume(s, b) ==
    /\ At(s, "started")
    /\ session' = [session EXCEPT ![s].pc = "process", ![s].batch = b]
    /\ UNCHANGED <<evidence, control>>

-----------------------------------------------------------------------------
(* The process job *)

\* _verified_process_batch: the members are leased for this batch.
Fenced(b) == /\ batches[b].status = "LEASED"
             /\ \A w \in batches[b].members : work[w].status = "LEASED" /\ work[w].batch = b

\* verify_envelope, of a content with the digest in the row of the batch: it
\* lists the members of the batch.
EnvelopeVerifies(b) == envelopes[b] # None /\ DOMAIN envelopes[b] = batches[b].members

\* process_main, _load_process_context: the evidence of the arguments, the
\* envelope, whose release must be that of the evidence, and the fence.
LoadContext(s) ==
    LET b == session[s].batch
    IN  /\ At(s, "process")
        /\ EvidenceLoads(session[s].package, session[s].binding)
        /\ EnvelopeVerifies(b)
        /\ Compatible(Range(envelopes[b]), session[s].binding)
        /\ Fenced(b)
        /\ session' = [session EXCEPT ![s].pc = "running"]
        /\ UNCHANGED <<evidence, control>>

\* execute_sjd_partition: the version installed on the executor.
ExecutorMatches(executor, binding) == executor.version = binding.version

\* Executors have the wheel of the session, or the one that is installed when
\* they start.  What is staged already is kept.
Execute(s, executor) ==
    LET b == session[s].batch
    IN  /\ At(s, "running")
        /\ executor \in {session[s].package, installed}
        /\ ExecutorMatches(executor, session[s].binding)
        /\ staged' = IF staged[b] # None THEN staged
                     ELSE [staged EXCEPT ![b] = [driver |-> session[s].package,
                                                 executor |-> executor]]
        /\ session' = [session EXCEPT ![s].pc = "executed"]
        /\ UNCHANGED <<evidence, work, batches, envelopes, replays>>

\* seal_batch and commit_batch, under the fence.
Commit(s) ==
    LET b == session[s].batch
    IN  /\ At(s, "executed")
        /\ Fenced(b)
        /\ batches' = [batches EXCEPT ![b].status = "COMMITTED"]
        /\ work' = [w \in Work |-> IF w \in batches[b].members
                                   THEN [work[w] EXCEPT !.status = "SUCCEEDED", !.output = staged[b]]
                                   ELSE work[w]]
        /\ End(s)
        /\ UNCHANGED <<evidence, envelopes, staged, replays>>

\* recover, of a batch whose lease expired.
Recover(b) ==
    /\ batches[b].status = "LEASED"
    /\ batches' = [batches EXCEPT ![b].status = "EXPIRED"]
    /\ work' = [w \in Work |->
                  IF w \in batches[b].members
                  THEN [work[w] EXCEPT !.status = IF @ # "LEASED" THEN @
                                                  ELSE IF work[w].attempts < MaxAttempts THEN "READY"
                                                  ELSE "DEAD"]
                  ELSE work[w]]
    /\ UNCHANGED <<evidence, session, envelopes, staged, replays>>

-----------------------------------------------------------------------------
ReleaseNext ==
    \/ \E r \in Releases : Install(r) \/ PublishManifest(r) \/ PublishReceipt(r)
    \/ \E s \in Session :
          \/ \E r \in Releases : Start(s, r)
          \/ Fail(s) \/ Register(s) \/ Admit(s) \/ LoadContext(s) \/ Commit(s)
          \/ \E w \in Work : CheckRequest(s, w)
          \/ \E W \in SUBSET Work : \E e \in Written(W) : Claim(s, W, e)
          \/ \E b \in DOMAIN batches : Resume(s, b)
          \/ \E r \in Releases : Execute(s, r)
    \/ \E w \in Work : Replay(w) \/ \E r \in Releases : Quarantine(w, r)
    \/ \E b \in DOMAIN batches : Recover(b)

ReleaseSpec == ReleaseInit /\ [][ReleaseNext]_lvars
-----------------------------------------------------------------------------
(* Properties *)

\* What is committed was computed for the release it was registered for: by a
\* driver whose wheel embeds the identity of that release and by executors with
\* its version, whatever was installed, rebuilt, published again or replayed
\* between the registration, the claim and the execution.
ProcessedByItsRelease ==
    \A w \in Work : work[w].output # None =>
        /\ work[w].output.driver.identity = work[w].release.identity
        /\ work[w].output.executor.version = work[w].release.version

\* Every batch in the tables can be processed or resumed: its envelope is whole
\* and says of every member the release the work has.
BatchesHaveTheirEnvelope ==
    \A b \in DOMAIN batches :
        envelopes[b] = [w \in batches[b].members |-> work[w].release]

\* The release a work was registered for reaches the executor that processes
\* it: no other release's output is committed, and no claim leaves a batch the
\* process job could not read (validate_release_binding, claim_batch).
ReleasesAreRespected == ProcessedByItsRelease /\ BatchesHaveTheirEnvelope

-----------------------------------------------------------------------------
(* The inductive invariant behind ReleasesAreRespected *)

Sessions == [pc : {"idle", "started", "register", "admitted", "process", "running", "executed"},
             package : Releases \cup {None}, binding : Releases \cup {None},
             request : Work \cup {None}, batch : Nat]
Outputs == [driver : Releases, executor : Releases] \cup {None}
Rows == [status : {"ABSENT", "READY", "LEASED", "SUCCEEDED", "DEAD"},
         release : Releases \cup {None}, attempts : Nat, batch : Nat, output : Outputs]

BatchRows == [status : {"LEASED", "COMMITTED", "EXPIRED"}, members : SUBSET Work]

ReleaseTypeOK ==
    /\ installed \in Releases
    /\ session \in [Session -> Sessions]
    /\ work \in [Work -> Rows]
    /\ batches \in Seq(BatchRows)
    /\ staged \in Seq(Outputs)
    /\ envelopes \in Seq(UNION {[W -> Releases \cup {None}] : W \in SUBSET Work})
    /\ Len(staged) = Len(batches) /\ Len(envelopes) = Len(batches)

\* Only a work that nobody registered can still get a release.
UnregisteredIsUnused == \A w \in Work : work[w].status = "ABSENT" => work[w].output = None
MembersAreRegistered ==
    \A b \in DOMAIN batches : \A w \in batches[b].members : work[w].status # "ABSENT"

\* What a session has found out about the batch it processes.
Knows(s) ==
    /\ session[s].pc # "idle" => session[s].package \in Releases /\ session[s].binding \in Releases
    /\ session[s].pc = "register" => session[s].request \in Work
    /\ session[s].pc \in {"process", "running", "executed"} => session[s].batch \in DOMAIN batches
    /\ session[s].pc \in {"running", "executed"} =>
          /\ BindsTheWheel(session[s].binding, session[s].package)
          /\ \A w \in batches[session[s].batch].members : work[w].release = session[s].binding

ComputedFor(output, release) ==
    output # None => /\ output.driver.identity = release.identity
                     /\ output.executor.version = release.version

\* What is staged for a batch was computed for the release of every member.
StagedForItsRelease ==
    \A b \in DOMAIN batches : \A w \in batches[b].members : ComputedFor(staged[b], work[w].release)

ReleaseInv ==
    /\ ReleaseTypeOK /\ UnregisteredIsUnused /\ MembersAreRegistered
    /\ \A s \in Session : Knows(s)
    /\ StagedForItsRelease /\ BatchesHaveTheirEnvelope /\ ProcessedByItsRelease
=============================================================================
