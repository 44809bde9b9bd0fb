----------------------------- MODULE Publisher ------------------------------
(***************************************************************************)
(* prepare-manifests and publish-manifests (manifest_publisher.py) with    *)
(* the ADLS client they publish through (adls.py).  A command may stop     *)
(* after any request and be run again; videos are edited in between and    *)
(* while it runs.  One publisher runs at a time.                           *)
(*                                                                         *)
(* A video has Chunks chunks, each known by the content it was read from.  *)
(* An object lies under the version, the SHA-256 of the content, that it   *)
(* is meant for: its path is <<video, version>>.                           *)
(***************************************************************************)
EXTENDS Nothing, Naturals, Sequences, SequencesExt

CONSTANTS
    Video, Content, Chunks,
    MaxEdits,      \* bound on the edits of the sources
    MaxPrepares   \* bound on the packages made

VARIABLES
    source,     \* the local file: what it holds and when it was modified
    package,    \* manifest-package.json, and how many were written
    staged,     \* the staging directory: videos and manifests
    incoming,   \* the incoming directory: videos and manifests
    checkpoint, \* the publications table of the checkpoint database
    job,        \* the command that runs
    swapped     \* history: the paths whose video was edited back to their
                \* version between the two readings of an upload

pubvars == <<source, package, staged, incoming, checkpoint, job, swapped>>

ASSUME PublisherAssumption ==
    /\ Chunks \in Nat \ {0}
    /\ None \notin UNION {[1 .. n -> Content] : n \in 0 .. Chunks}
    /\ None \notin Content \cup {"empty", "full", "DISCOVERED", "VIDEO_PUBLISHED", "MANIFEST_PUBLISHED", "REJECTED"}

Path == Video \X Content
NoPackage == [complete |-> FALSE, version |-> [v \in Video |-> None]]
NoObjects == [video |-> [p \in Path |-> None], manifest |-> [p \in Path |-> None]]
Idle == [pc |-> "idle", todo |-> {}, plan |-> NoPackage.version, video |-> None,
         offset |-> 0, read |-> <<>>, rejected |-> {}]

PubInit ==
    /\ source \in [Video -> [content : Content, mtime : {0}]]
    /\ package = [index |-> NoPackage, number |-> 0]
    /\ staged = NoObjects /\ incoming = NoObjects
    /\ checkpoint = [v \in Video |-> [state |-> None, version |-> None, signature |-> None]]
    /\ job = Idle /\ swapped = {}

\* The bytes of a whole video.
Whole(c) == [i \in 1 .. Chunks |-> c]

Current == <<job.video, job.plan[job.video]>>

\* upload_file has compared a staged prefix with the local file, and has not
\* begun to read the file again.
BetweenReadings(p) == job.pc = "append" /\ job.read = <<>> /\ job.offset > 0 /\ p = Current

Edit(v, c) ==
    /\ SumFunction([w \in Video |-> source[w].mtime]) < MaxEdits
    /\ c # source[v].content
    /\ source' = [source EXCEPT ![v] = [content |-> c, mtime |-> source[v].mtime + 1]]
    /\ swapped' = swapped \cup {p \in {<<v, c>>} : BetweenReadings(p)}
    /\ UNCHANGED <<package, staged, incoming, checkpoint, job>>

-----------------------------------------------------------------------------
(* prepare-manifests *)

\* The index of an earlier preparation goes first.
PrepareBegins ==
    /\ job = Idle /\ package.number < MaxPrepares
    /\ package' = [index |-> NoPackage, number |-> package.number + 1]
    /\ job' = [Idle EXCEPT !.pc = "prepare", !.todo = Video]
    /\ UNCHANGED <<source, staged, incoming, checkpoint, swapped>>

\* A video is inspected and hashed, or it is rejected.
PrepareVideo(v) ==
    /\ job.pc = "prepare" /\ v \in job.todo
    /\ \/ job' = [job EXCEPT !.todo = @ \ {v}, !.plan[v] = source[v].content]
       \/ job' = [job EXCEPT !.todo = @ \ {v}, !.rejected = @ \cup {v}]
    /\ UNCHANGED <<source, package, staged, incoming, checkpoint, swapped>>

\* The index is written even when the loop was left by an error.
PrepareEnds ==
    /\ job.pc = "prepare"
    /\ package' = [package EXCEPT !.index =
            [complete |-> job.todo = {} /\ job.rejected = {}, version |-> job.plan]]
    /\ job' = Idle
    /\ UNCHANGED <<source, staged, incoming, checkpoint, swapped>>

-----------------------------------------------------------------------------
(* publish-manifests *)

\* validate_manifest_package: complete, and the very bytes of the videos.
PackageIsValid ==
    /\ package.index.complete
    /\ \A v \in Video : package.index.version[v] = source[v].content

PublishBegins ==
    /\ job = Idle /\ PackageIsValid
    /\ job' = [Idle EXCEPT !.pc = "next", !.todo = Video, !.plan = package.index.version]
    /\ UNCHANGED <<source, package, staged, incoming, checkpoint, swapped>>

Signature(v) == <<package.number, source[v].mtime>>

\* _checkpoint_is_published.  The recorded etag and size are abstracted to the
\* content they were recorded for.
CheckpointIsPublished(v) ==
    LET row == checkpoint[v] IN
    /\ row.state = "MANIFEST_PUBLISHED" /\ row.signature = Signature(v)
    /\ incoming.video[<<v, row.version>>] = Whole(row.version)
    /\ incoming.manifest[<<v, row.version>>] = "full"

NextVideo(v) ==
    /\ job.pc = "next" /\ v \in job.todo
    /\ IF CheckpointIsPublished(v)
       THEN job' = [job EXCEPT !.todo = @ \ {v}] /\ UNCHANGED checkpoint
       ELSE /\ checkpoint' = [checkpoint EXCEPT ![v] =
                    [state |-> "DISCOVERED", version |-> job.plan[v], signature |-> Signature(v)]]
            /\ job' = [job EXCEPT !.video = v, !.pc = "look"]
    /\ UNCHANGED <<source, package, staged, incoming, swapped>>

Leave(state) ==
    /\ checkpoint' = [checkpoint EXCEPT ![job.video].state = state]
    /\ job' = [job EXCEPT !.todo = @ \ {job.video}, !.pc = "next", !.video = None,
            !.offset = 0, !.read = <<>>,
            !.rejected = IF state = "REJECTED" THEN @ \cup {job.video} ELSE @]

Goto(pc) == job' = [job EXCEPT !.pc = pc] /\ UNCHANGED checkpoint

\* _verify_published, and the look for a video that is already there.
LookAtIncoming ==
    LET video == incoming.video[Current]
        manifest == incoming.manifest[Current] IN
    /\ job.pc = "look"
    /\ IF manifest # None
       THEN Leave(IF video = Whole(Current[2]) /\ manifest = "full"
                  THEN "MANIFEST_PUBLISHED" ELSE "REJECTED")
       ELSE IF video = None THEN Goto("upload")
       ELSE IF video = Whole(Current[2]) THEN Goto("check")
       ELSE Leave("REJECTED")
    /\ UNCHANGED <<source, package, staged, incoming, swapped>>

\* (slip) what is staged is taken as it is.
ResumeAnyPrefix ==
    IF staged.video[Current] = None THEN <<>> ELSE staged.video[Current]

\* upload_file goes on behind a staged prefix of the local file, or anew.
ResumePrefix ==
    LET there == staged.video[Current] IN
    IF there # None /\ IsPrefix(there, Whole(source[job.video].content)) THEN there ELSE <<>>

UploadBegins ==
    /\ job.pc = "upload"
    /\ staged' = [staged EXCEPT !.video[Current] = ResumePrefix]
    /\ job' = [job EXCEPT !.pc = "append", !.offset = Len(ResumePrefix)]
    /\ UNCHANGED <<source, package, incoming, checkpoint, swapped>>

\* The file is read from its start; what lies behind the offset is appended.
AppendChunk ==
    LET chunk == source[job.video].content IN
    /\ job.pc = "append" /\ Len(job.read) < Chunks
    /\ job' = [job EXCEPT !.read = Append(@, chunk),
            !.offset = IF Len(job.read) < @ THEN @ ELSE @ + 1]
    /\ staged' = IF Len(job.read) < job.offset THEN staged
                 ELSE [staged EXCEPT !.video[Current] = Append(@, chunk)]
    /\ UNCHANGED <<source, package, incoming, checkpoint, swapped>>

UploadEnds ==
    /\ job.pc = "append" /\ Len(job.read) = Chunks
    /\ IF job.read = Whole(Current[2]) /\ Len(staged.video[Current]) = Chunks
       THEN Goto("rename") ELSE Leave("REJECTED")
    /\ UNCHANGED <<source, package, staged, incoming, swapped>>

RenameVideo ==
    /\ job.pc = "rename"
    /\ incoming' = [incoming EXCEPT !.video[Current] = staged.video[Current]]
    /\ staged' = [staged EXCEPT !.video[Current] = None]
    /\ Goto("check")
    /\ UNCHANGED <<source, package, swapped>>

\* Only the size is compared after the rename.
CheckVideo ==
    /\ job.pc = "check"
    /\ IF Len(incoming.video[Current]) = Chunks
       THEN /\ checkpoint' = [checkpoint EXCEPT ![job.video].state = "VIDEO_PUBLISHED"]
            /\ job' = [job EXCEPT !.pc = "stage"]
       ELSE Leave("REJECTED")
    /\ UNCHANGED <<source, package, staged, incoming, swapped>>

\* upload_bytes creates the file before it writes it; a file that is there
\* must be the manifest.
StageManifest ==
    /\ job.pc = "stage"
    /\ \/ staged.manifest[Current] = None
          /\ staged' = [staged EXCEPT !.manifest[Current] = "empty"] /\ Goto("write")
       \/ staged.manifest[Current] = "full" /\ Goto("publish") /\ UNCHANGED staged
       \/ staged.manifest[Current] = "empty" /\ Leave("REJECTED") /\ UNCHANGED staged
    /\ UNCHANGED <<source, package, incoming, swapped>>

WriteManifest ==
    /\ job.pc = "write"
    /\ staged' = [staged EXCEPT !.manifest[Current] = "full"]
    /\ Goto("publish")
    /\ UNCHANGED <<source, package, incoming, swapped>>

RenameManifest ==
    /\ job.pc = "publish"
    /\ incoming' = [incoming EXCEPT !.manifest[Current] = staged.manifest[Current]]
    /\ staged' = [staged EXCEPT !.manifest[Current] = None]
    /\ Goto("record")
    /\ UNCHANGED <<source, package, swapped>>

RecordPublished ==
    /\ job.pc = "record"
    /\ Leave("MANIFEST_PUBLISHED")
    /\ UNCHANGED <<source, package, staged, incoming, swapped>>

PublishEnds ==
    /\ job.pc = "next" /\ job.todo = {}
    /\ job' = Idle
    /\ UNCHANGED <<source, package, staged, incoming, checkpoint, swapped>>

\* The process dies, or a request fails with an error the loop does not catch.
Stop ==
    /\ job # Idle /\ job' = Idle
    /\ UNCHANGED <<source, package, staged, incoming, checkpoint, swapped>>

PubNext ==
    \/ \E v \in Video : \E c \in Content : Edit(v, c)
    \/ PrepareBegins \/ PrepareEnds \/ PublishBegins
    \/ \E v \in Video : PrepareVideo(v) \/ NextVideo(v)
    \/ LookAtIncoming \/ UploadBegins \/ AppendChunk \/ UploadEnds \/ RenameVideo
    \/ CheckVideo \/ StageManifest \/ WriteManifest \/ RenameManifest \/ RecordPublished
    \/ PublishEnds \/ Stop

PubSpec == PubInit /\ [][PubNext]_pubvars

-----------------------------------------------------------------------------
(* Properties *)

\* Incoming holds no video but the bytes its path names, however often an
\* upload was cut off, resumed or disturbed by an edit, and no manifest before
\* its video (upload_file checks the staged prefix against the local file and
\* the local file against the plan; after the rename only sizes are compared).
\* The exception is a file that was other than its package when the prefix was
\* compared and was edited back before it was read again: the two readings are
\* not compared with each other, and a mixed object passes.
IncomingIsWhatItsPathNames ==
    \A p \in Path :
        /\ incoming.video[p] # None => p \in swapped \/ incoming.video[p] = Whole(p[2])
        /\ incoming.manifest[p] # None =>
            incoming.manifest[p] = "full" /\ incoming.video[p] # None

\* A publication that ends without a rejection has published every video in
\* the version of its package, those it passed over on the word of the
\* checkpoint included (_checkpoint_is_published).
FinishedPublicationIsComplete ==
    job.pc = "next" /\ job.todo = {} /\ job.rejected = {} =>
        \A v \in Video : incoming.manifest[<<v, job.plan[v]>>] = "full"

\* What is published is what was packaged, all of it and nothing else.
PublicationIsFaithful == IncomingIsWhatItsPathNames /\ FinishedPublicationIsComplete

-----------------------------------------------------------------------------
(* The inductive invariant behind it *)

\* What a file holds: a run of chunks, not longer than a whole video.
Bytes == UNION {[1 .. n -> Content] : n \in 0 .. Chunks}
Stages == {"look", "upload", "append", "rename", "check", "stage", "write", "publish", "record"}
States == {"DISCOVERED", "VIDEO_PUBLISHED", "MANIFEST_PUBLISHED", "REJECTED"}
Versions == [Video -> Content \cup {None}]
Sources == [Video -> [content : Content, mtime : Nat]]
Packages == [index : [complete : BOOLEAN, version : Versions], number : Nat]
Videos == [Path -> Bytes \cup {None}]
Marks == {None, "empty", "full"}
ManifestFiles == [Path -> Marks]
Objects == [video : Videos, manifest : ManifestFiles]
Rows == [state : States \cup {None}, version : Content \cup {None}, signature : (Nat \X Nat) \cup {None}]
Jobs == [pc : {"idle", "prepare", "next"} \cup Stages, todo : SUBSET Video, plan : Versions,
         video : Video \cup {None}, offset : 0 .. Chunks, read : Bytes, rejected : SUBSET Video]

PubTypeOK ==
    /\ source \in Sources
    /\ package \in Packages
    /\ staged \in Objects
    /\ incoming \in Objects
    /\ checkpoint \in [Video -> Rows]
    /\ job \in Jobs

Publishes == job.pc = "next" \/ job.pc \in Stages

\* A publication goes by a complete package, and by no other to its end; a
\* preparation has taken the old one away.
FollowsThePackage ==
    /\ job.pc = "prepare" => ~package.index.complete
    /\ Publishes =>
        /\ package.index.complete /\ job.plan = package.index.version
        /\ job.plan \in [Video -> Content]
    /\ job.pc \in Stages => job.video \in job.todo /\ checkpoint[job.video].state # None

\* A row of the checkpoint says what was planned when its package was the last.
RowIsOf(row, v) ==
    row.state # None =>
        /\ row.signature \in Nat \X Nat /\ row.signature[1] <= package.number
        /\ row.signature[1] = package.number =>
              package.index.complete /\ row.version = package.index.version[v]

RowsAreOfTheirPackage == \A v \in Video : RowIsOf(checkpoint[v], v)

\* What is staged for the current video is of its version, or the file was
\* seen to differ, or it still has to be read and differs.
StagedIsOfItsVersion ==
    job.pc = "append" =>
        /\ staged.video[Current] \in Bytes /\ job.offset = Len(staged.video[Current])
        /\ Len(job.read) <= job.offset
        /\ \/ Current \in swapped
           \/ \A i \in 1 .. job.offset : staged.video[Current][i] = Current[2]
           \/ \E i \in 1 .. Len(job.read) : job.read[i] # Current[2]
           \/ job.read = <<>> /\ source[job.video].content # Current[2]

\* What each stage of a publication has behind it.
StageHasBehindIt ==
    /\ job.pc \in {"next", "look", "upload"} => job.read = <<>>
    /\ job.pc = "rename" =>
        /\ staged.video[Current] # None
        /\ Current \in swapped \/ staged.video[Current] = Whole(Current[2])
    /\ job.pc \in {"check", "stage", "write", "publish", "record"} => incoming.video[Current] # None
    /\ job.pc = "publish" => staged.manifest[Current] = "full"
    /\ job.pc = "record" => incoming.manifest[Current] = "full"

PublishedVideosAreComplete ==
    Publishes => \A v \in Video \ (job.todo \cup job.rejected) :
                     incoming.manifest[<<v, job.plan[v]>>] = "full"

PubInv ==
    /\ PubTypeOK /\ FollowsThePackage /\ RowsAreOfTheirPackage
    /\ StagedIsOfItsVersion /\ StageHasBehindIt
    /\ IncomingIsWhatItsPathNames /\ PublishedVideosAreComplete
=============================================================================
