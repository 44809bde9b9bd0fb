------------------------------ MODULE Cutover -------------------------------
(***************************************************************************)
(* The cutover commands of fabric_sjd_cutover_jobs.py: bootstrap of the    *)
(* stable tables, archive and retire of the tables they replace, and the   *)
(* cleanup of synthetic work.  A command may stop after any write and be   *)
(* started again with the same bundle.                                     *)
(*                                                                         *)
(* The content of a table is its Delta version: what it holds after that   *)
(* many commits.  A table that was dropped is not created again.  Writers  *)
(* are not started while a stopped-writer gate is fresh or a command runs: *)
(* the gate is the operator's statement, and the code cannot enforce it.   *)
(***************************************************************************)
EXTENDS Nothing, Naturals, FiniteSets

CONSTANTS
    Table,        \* the tables of the retired namespace
    Views,        \* its committed views; none in the Candidate A namespace
    TableSuffixes,     \* the stable tables that hold rows of a synthetic work
    Bootstrap,    \* calls of bootstrap
    MaxVersion    \* bound on the version of a table

VARIABLES
    table,      \* the catalog: existence and version
    archive,    \* the Delta copies of the bundle, by the version they hold
    views,      \* the committed views that exist
    gate,       \* the stopped-writer gate while it is fresh
    files,      \* manifest.json and retirement.json of the bundle
    journal,    \* whether the retirement journal says RETIRED
    writing,    \* whether the old writers run
    command,    \* the command that runs
    rows,       \* the stable tables that still hold the synthetic rows
    cleanup,    \* the archive of the cleanup: its tables, its manifest
    boot        \* bootstrap: what each call saw, and the rows of the lock table

cvars == <<table, archive, views, gate, files, journal, writing, command, rows, cleanup, boot>>
retirement == <<table, archive, views, gate, files, journal, writing, command>>

NoCommand == [cmd |-> None, pc |-> "idle", states |-> None, todo |-> {}, source |-> None]

CInit ==
    /\ table \in [Table -> [exists : BOOLEAN, version : {0}]]
    /\ archive = [t \in Table |-> None]
    /\ views \in SUBSET Views
    /\ gate = None
    /\ files = [manifest |-> None, views |-> {}, result |-> FALSE]
    /\ journal = FALSE
    /\ writing = TRUE
    /\ command = NoCommand
    /\ rows = TableSuffixes
    /\ cleanup = [copied |-> {}, manifest |-> FALSE, pc |-> "idle"]
    /\ boot = [seen |-> [b \in Bootstrap |-> "idle"], locks |-> 0, txn |-> FALSE]

-----------------------------------------------------------------------------
(* The writers and the gate *)

Write(t) ==
    /\ writing /\ table[t].exists /\ table[t].version < MaxVersion
    /\ table' = [table EXCEPT ![t].version = @ + 1]
    /\ UNCHANGED <<archive, views, gate, files, journal, writing, command, rows, cleanup, boot>>

StopWriters ==
    /\ writing /\ writing' = FALSE
    /\ UNCHANGED <<table, archive, views, gate, files, journal, command, rows, cleanup, boot>>

StartWriters ==
    /\ ~writing /\ gate = None /\ command = NoCommand
    /\ writing' = TRUE
    /\ UNCHANGED <<table, archive, views, gate, files, journal, command, rows, cleanup, boot>>

\* All writers are in a stopped state; the tables are those of this moment.
CaptureGate ==
    /\ ~writing /\ gate = None
    /\ gate' = table
    /\ UNCHANGED <<table, archive, views, files, journal, writing, command, rows, cleanup, boot>>

GateIsOver ==
    /\ gate # None /\ gate' = None
    /\ UNCHANGED <<table, archive, views, files, journal, writing, command, rows, cleanup, boot>>

-----------------------------------------------------------------------------
(* archive and retire *)

\* validate_retirement_archives: every table that the manifest saw has a copy
\* with the content the manifest says.
ArchivesAreValid(manifest) ==
    \A t \in Table : manifest[t].exists => archive[t] = manifest[t].content

\* archive demands the gate of this moment.
ArchiveBegins ==
    /\ command = NoCommand /\ gate = table
    /\ \/ /\ files.manifest = None
          /\ command' = [cmd |-> "archive", pc |-> "copy", states |-> table, todo |-> Table,
                        source |-> None]
       \/ /\ files.manifest # None     \* read and validated again
          /\ ArchivesAreValid(files.manifest)
          /\ command' = NoCommand
    /\ UNCHANGED <<table, archive, views, gate, files, journal, writing, rows, cleanup, boot>>

\* retire makes the archive itself if there is none, whatever its gate says.
RetireBegins ==
    /\ command = NoCommand
    /\ command' = [cmd |-> "retire", pc |-> IF files.manifest = None THEN "copy" ELSE "retire",
               states |-> table, todo |-> IF files.manifest = None THEN Table ELSE {},
               source |-> None]
    /\ UNCHANGED <<table, archive, views, gate, files, journal, writing, rows, cleanup, boot>>

\* _archive_tables reads the content of one table after the other; one that did
\* not exist at the beginning has no copy.
ReadSource(t) ==
    /\ command.pc = "copy" /\ t \in command.todo
    /\ command' = IF command.states[t].exists
                  THEN [command EXCEPT !.pc = "save", !.source = [of |-> t, version |-> table[t].version]]
                  ELSE [command EXCEPT !.todo = @ \ {t}]
    /\ UNCHANGED <<table, archive, views, gate, files, journal, writing, rows, cleanup, boot>>

\* A copy that an earlier command left is kept.
SaveCopy ==
    /\ command.pc = "save"
    /\ LET t == command.source.of
       IN  archive' = IF archive[t] = None THEN [archive EXCEPT ![t] = table[t].version] ELSE archive
    /\ command' = [command EXCEPT !.pc = "compare"]
    /\ UNCHANGED <<table, views, gate, files, journal, writing, rows, cleanup, boot>>

Abort == command' = NoCommand

\* The copy just made or met holds what was read of the table.
CompareCopy ==
    /\ command.pc = "compare"
    /\ IF archive[command.source.of] = command.source.version
       THEN command' = [command EXCEPT !.pc = "copy", !.todo = @ \ {command.source.of}]
       ELSE Abort
    /\ UNCHANGED <<table, archive, views, gate, files, journal, writing, rows, cleanup, boot>>

\* The manifest: what was seen when the copies began, and the copies.
WriteArchiveManifest ==
    /\ command.pc = "copy" /\ command.todo = {}
    /\ IF command.cmd = "archive" /\ gate # table
       THEN Abort /\ UNCHANGED files
       ELSE /\ files' = [files EXCEPT
                !.manifest = [t \in Table |-> [exists |-> command.states[t].exists,
                                               version |-> command.states[t].version,
                                               content |-> archive[t]]],
                !.views = views]
            /\ command' = IF command.cmd = "archive" THEN NoCommand ELSE [command EXCEPT !.pc = "retire"]
    /\ UNCHANGED <<table, archive, views, gate, journal, writing, rows, cleanup, boot>>

\* (slip) of a table that exists only its existence is compared.
UnchangedSinceLoose(states, t) == table[t].exists => states[t].exists

\* A table that still exists is the one that was seen.
UnchangedSince(states, t) ==
    table[t].exists => states[t].exists /\ states[t].version = table[t].version

Retirable ==
    /\ \A t \in Table : UnchangedSince(files.manifest, t)
    /\ views = files.views
    /\ ArchivesAreValid(files.manifest)

RetireChecks ==
    /\ command.pc = "retire" /\ ~files.result
    /\ IF /\ gate # None /\ \A t \in Table : UnchangedSince(gate, t)
          /\ Retirable
       THEN command' = [command EXCEPT !.pc = "views"]
       ELSE Abort
    /\ UNCHANGED <<table, archive, views, gate, files, journal, writing, rows, cleanup, boot>>

DropView ==
    /\ command.pc = "views"
    /\ \/ \E v \in views : views' = views \ {v} /\ UNCHANGED command
       \/ views = {} /\ command' = [command EXCEPT !.pc = "tables"] /\ UNCHANGED views
    /\ UNCHANGED <<table, archive, gate, files, journal, writing, rows, cleanup, boot>>

\* Every table is looked at again before it is dropped.
DropTable ==
    /\ command.pc = "tables"
    /\ \/ \E t \in Table :
            /\ table[t].exists
            /\ IF UnchangedSince(files.manifest, t)
               THEN table' = [table EXCEPT ![t].exists = FALSE] /\ UNCHANGED <<command, files>>
               ELSE Abort /\ UNCHANGED <<table, files>>
       \/ /\ \A t \in Table : ~table[t].exists
          /\ files' = [files EXCEPT !.result = TRUE]
          /\ command' = [command EXCEPT !.pc = "journal"]
          /\ UNCHANGED table
    /\ UNCHANGED <<archive, views, gate, journal, writing, rows, cleanup, boot>>

\* A result that is there is checked against the catalog and the archives.
CheckResult ==
    /\ command.pc = "retire" /\ files.result
    /\ command' = IF /\ gate # None /\ views = {}
                 /\ \A t \in Table : ~table[t].exists
                 /\ ArchivesAreValid(files.manifest)
              THEN [command EXCEPT !.pc = "journal"] ELSE NoCommand
    /\ UNCHANGED <<table, archive, views, gate, files, journal, writing, rows, cleanup, boot>>

WriteJournal ==
    /\ command.pc = "journal"
    /\ journal' = TRUE
    /\ command' = NoCommand
    /\ UNCHANGED <<table, archive, views, gate, files, writing, rows, cleanup, boot>>

CommandStops ==
    /\ command # NoCommand /\ Abort
    /\ UNCHANGED <<table, archive, views, gate, files, journal, writing, rows, cleanup, boot>>

-----------------------------------------------------------------------------
(* cleanup-synthetic *)

\* Without a manifest the work must still be there, all of it.
CleanupBegins ==
    /\ cleanup.pc = "idle"
    /\ \/ cleanup.manifest /\ cleanup' = [cleanup EXCEPT !.pc = "delete"]
       \/ /\ ~cleanup.manifest /\ "work" \in rows
          /\ cleanup' = [cleanup EXCEPT !.pc = "copy"]
    /\ UNCHANGED <<retirement, rows, boot>>

CleanupCopies ==
    /\ cleanup.pc = "copy"
    /\ \/ \E s \in TableSuffixes \ cleanup.copied : cleanup' = [cleanup EXCEPT !.copied = @ \cup {s}]
       \/ /\ cleanup.copied = TableSuffixes
          /\ cleanup' = [cleanup EXCEPT !.manifest = TRUE, !.pc = "delete"]
    /\ UNCHANGED <<retirement, rows, boot>>

CleanupDeletes ==
    /\ cleanup.pc = "delete"
    /\ \/ \E s \in rows : rows' = rows \ {s} /\ UNCHANGED cleanup
       \/ rows = {} /\ cleanup' = [cleanup EXCEPT !.pc = "idle"] /\ UNCHANGED rows
    /\ UNCHANGED <<retirement, boot>>

CleanupStops ==
    /\ cleanup.pc # "idle"
    /\ cleanup' = [cleanup EXCEPT !.pc = "idle"]
    /\ UNCHANGED <<retirement, rows, boot>>

-----------------------------------------------------------------------------
(* bootstrap: the row of the lock table *)

BootstrapReads(b) ==
    /\ boot.seen[b] = "idle"
    /\ boot' = [boot EXCEPT !.seen[b] = IF boot.locks = 0 THEN "empty" ELSE "check"]
    /\ UNCHANGED <<retirement, rows, cleanup>>

\* Delta applies a transaction of an application once.
BootstrapAppends(b) ==
    /\ boot.seen[b] = "empty"
    /\ boot' = [boot EXCEPT !.locks = IF boot.txn THEN @ ELSE @ + 1, !.txn = TRUE,
                            !.seen[b] = "check"]
    /\ UNCHANGED <<retirement, rows, cleanup>>

\* The readback; an ended call may be made again.
BootstrapEnds(b) ==
    /\ boot.seen[b] \in {"check", "empty"}
    /\ boot' = [boot EXCEPT !.seen[b] = "idle"]
    /\ UNCHANGED <<retirement, rows, cleanup>>

-----------------------------------------------------------------------------

RetirementNext ==
    \/ \E t \in Table : Write(t) \/ ReadSource(t)
    \/ StopWriters \/ StartWriters \/ CaptureGate \/ GateIsOver
    \/ ArchiveBegins \/ RetireBegins \/ SaveCopy \/ CompareCopy \/ WriteArchiveManifest
    \/ RetireChecks \/ DropView \/ DropTable \/ CheckResult \/ WriteJournal \/ CommandStops

CleanupNext == CleanupBegins \/ CleanupCopies \/ CleanupDeletes \/ CleanupStops

BootstrapNext ==
    \E b \in Bootstrap : BootstrapReads(b) \/ BootstrapAppends(b) \/ BootstrapEnds(b)

CNext == RetirementNext \/ CleanupNext \/ BootstrapNext

CSpec == CInit /\ [][CNext]_cvars

-----------------------------------------------------------------------------
(* Properties *)

\* Nothing is dropped or deleted that is not in an archive, whatever was
\* archived before the writers ran again and whichever command stopped in the
\* middle: the copy of a dropped table holds its last version, and the rows
\* of a synthetic work go only after the manifest of their archive
\* (retire_archived_ca_tables, complete_synthetic_cleanup).
OnlyArchivedDataIsDropped ==
    /\ \A t \in Table : ~table[t].exists /\ files.manifest # None =>
        (files.manifest[t].exists => archive[t] = table[t].version)
    /\ rows # TableSuffixes => cleanup.manifest /\ cleanup.copied = TableSuffixes
    /\ boot.locks <= 1

\* A retirement that stopped after some of its drops can be finished with the
\* same bundle and a new gate, if nobody wrote to the tables that are left
\* (retire_archived_ca_tables).  With views it cannot: they are gone, and the
\* manifest lists them.
InterruptedRetirementCanFinish ==
    /\ files.manifest # None /\ files.views = {}
    /\ \E t \in Table : files.manifest[t].exists /\ ~table[t].exists
    /\ \A t \in Table : table[t].exists => table[t].version = files.manifest[t].version
    => Retirable

\* Retiring the former control plane loses nothing and can always be finished
\* after a stop (retire_archived_ca_tables).
RetirementIsSafe == OnlyArchivedDataIsDropped /\ InterruptedRetirementCanFinish

-----------------------------------------------------------------------------
(* The inductive invariant behind it *)

Catalogs == [Table -> [exists : BOOLEAN, version : Nat]]
Manifests == [Table -> [exists : BOOLEAN, version : Nat, content : Nat \cup {None}]]
Phases == {"idle", "copy", "save", "compare", "retire", "views", "tables", "journal"}

CommandRecords == [cmd : {None, "archive", "retire"}, pc : Phases,
                   states : Catalogs \cup {None}, todo : SUBSET Table,
                   source : [of : Table, version : Nat] \cup {None}]
Bundles == [manifest : Manifests \cup {None}, views : SUBSET Views, result : BOOLEAN]
Cleanups == [copied : SUBSET TableSuffixes, manifest : BOOLEAN, pc : {"idle", "copy", "delete"}]
Boots == [seen : [Bootstrap -> {"idle", "empty", "check"}], locks : Nat, txn : BOOLEAN]

CTypeOK ==
    /\ table \in Catalogs
    /\ archive \in [Table -> Nat \cup {None}]
    /\ views \in SUBSET Views
    /\ files \in Bundles
    /\ command \in CommandRecords
    /\ rows \in SUBSET TableSuffixes
    /\ cleanup \in Cleanups
    /\ boot \in Boots

\* The content of t is a version that t has had, since the states were seen.
IsCopySince(content, state, t) ==
    content \in Nat /\ state.version <= content /\ content <= table[t].version

\* While a bundle is made nothing is dropped, and neither what is read of a
\* table nor a copy that was compared is older than what the command saw first.
MakesBundle ==
    command.pc \in {"copy", "save", "compare"} =>
        /\ files.manifest = None /\ command.states \in Catalogs
        /\ \A t \in Table : /\ command.states[t].exists = table[t].exists
                            /\ command.states[t].version <= table[t].version
        /\ \A t \in Table \ command.todo :
              command.states[t].exists => IsCopySince(archive[t], command.states[t], t)
        /\ command.pc \in {"save", "compare"} =>
              /\ command.source \in [of : command.todo, version : Nat]
              /\ LET t == command.source.of
                 IN  IsCopySince(command.source.version, command.states[t], t)

\* A bundle that is made stays as it is.
BundleHolds ==
    files.manifest # None =>
        /\ views \subseteq files.views
        /\ \A t \in Table :
              /\ table[t].exists => files.manifest[t].exists
              /\ files.manifest[t].exists =>
                    /\ archive[t] = files.manifest[t].content
                    /\ IsCopySince(archive[t], files.manifest[t], t)
              /\ files.manifest[t].exists /\ ~table[t].exists => archive[t] = table[t].version

CleanupHolds ==
    /\ cleanup.manifest => cleanup.copied = TableSuffixes
    /\ cleanup.pc = "delete" \/ rows # TableSuffixes => cleanup.manifest

OneLockRow == boot.locks = (IF boot.txn THEN 1 ELSE 0)

CInv == CTypeOK /\ MakesBundle /\ BundleHolds /\ CleanupHolds /\ OneLockRow
=============================================================================
