------------------------------ MODULE Catalog ------------------------------
(***************************************************************************)
(* The camera catalog, the video inventory and the plan of a manifest      *)
(* (manifest.py).  An operator edits the two files; whoever prepares a     *)
(* package loads both and plans every video: which camera row it belongs   *)
(* to, and when it was captured.                                           *)
(*                                                                         *)
(* A row is kept as what its columns say.  The time a file name carries    *)
(* and the creation_time tags of a video belong to the video; Invalid      *)
(* stands for a text that is no UTC timestamp.                             *)
(***************************************************************************)
EXTENDS Integers, FiniteSets, Sequences, SequencesExt, Nothing

CONSTANTS
    Row,        \* rows an operator may write
    Video,      \* [path, frame, tags, name] of every source video
    Instant,    \* timestamps
    MaxEdits    \* bound: edits of the two files

\* A directory is a sequence of names.
IsPath(p) == p \in Seq(Range(p))

ASSUME CatalogAssumption ==
    /\ \A r \in Row : /\ {"prefix", "from", "to"} \subseteq DOMAIN r
                      /\ IsPath(r.prefix) /\ r.from \in Int /\ r.to \in Int \cup {None}
    /\ \A v \in Video : IsPath(v.path)
    /\ Instant \subseteq Int /\ MaxEdits \in Nat

VARIABLES
    catalog,    \* rows of the catalog file
    inventory,  \* path -> captured_at_utc
    edits

cvars == <<catalog, inventory, edits>>

Invalid == -1

CatalogInit ==
    /\ catalog \in {{r} : r \in Row}
    /\ inventory = [p \in {} |-> 0]
    /\ edits = 0

-----------------------------------------------------------------------------
(* Loading *)

\* _compile_capture_pattern: a rule for file names goes with the sources that
\* use it.
PatternIsValid(r) ==
    CASE r.source \in {"embedded", "inventory"} -> ~r.pattern
      [] r.source = "auto" -> TRUE
      [] r.source = "filename_utc" -> r.pattern
      [] OTHER -> FALSE

\* _parse_catalog_row
RowIsValid(r) ==
    /\ r.line[1] \in 0..(r.frame - 1) /\ r.line[2] \in 0..(r.frame - 1)
    /\ r.line[1] # r.line[2]
    /\ PatternIsValid(r)
    /\ r.to # None => r.to > r.from

\* _intervals_overlap, of half-open ranges.
IntervalsOverlap(left, right) ==
    /\ right.to # None => left.from < right.to
    /\ left.to # None => right.from < left.to

\* (slip) only rows of the same directory are compared.
PrefixesAreEqual(left, right) == left.prefix = right.prefix

PrefixesOverlap(left, right) == IsPrefix(left.prefix, right.prefix) \/ IsPrefix(right.prefix, left.prefix)

\* _validate_catalog
CatalogIsValid(rows) ==
    \A r, s \in rows :
        /\ r.camera = s.camera => r.place = s.place
        /\ r # s => ~(PrefixesOverlap(r, s) /\ IntervalsOverlap(r, s))

\* load_camera_catalog; load_video_inventory takes what Override writes.
Loads == catalog # {} /\ (\A r \in catalog : RowIsValid(r)) /\ CatalogIsValid(catalog)

-----------------------------------------------------------------------------
(* The capture time *)

Failed(reason) == [reason |-> reason]
Resolved(at, source) == [at |-> at, source |-> source]
IsResolved(t) == "at" \in DOMAIN t

\* _parse_embedded_capture_time
EmbeddedTime(v) ==
    LET tags == Range(v.tags)
    IN  CASE Invalid \in tags -> Failed("CAPTURE_TIME_EMBEDDED_INVALID")
          [] Cardinality(tags) > 1 -> Failed("CAPTURE_TIME_EMBEDDED_CONFLICT")
          [] OTHER -> Resolved(v.tags[1], "embedded")

\* _filename_capture_time
FilenameTime(v) ==
    CASE v.name = None -> Failed("CAPTURE_TIME_FILENAME_MISMATCH")
      [] v.name = Invalid -> Failed("CAPTURE_TIME_FILENAME_INVALID")
      [] OTHER -> Resolved(v.name, "filename")

\* _resolve_capture_time: the inventory, then the tags, then the file name.
ResolveCaptureTime(r, v) ==
    CASE r.source \in {"auto", "inventory"} /\ v.path \in DOMAIN inventory
           -> Resolved(inventory[v.path], "inventory_override")
      [] r.source = "inventory" -> Failed("CAPTURE_TIME_MISSING")
      [] r.source \in {"auto", "embedded"} /\ v.tags # <<>> -> EmbeddedTime(v)
      [] r.source = "embedded" \/ ~r.pattern -> Failed("CAPTURE_TIME_MISSING")
      [] OTHER -> FilenameTime(v)

InForce(r, at) == r.from <= at /\ (r.to # None => at < r.to)

-----------------------------------------------------------------------------
(* The plan *)

PathMatches(v) == {r \in catalog : IsPrefix(r.prefix, v.path)}

ActiveMatches(v) ==
    {r \in PathMatches(v) : LET t == ResolveCaptureTime(r, v)
                            IN  IsResolved(t) /\ InForce(r, t.at)}

\* (slip) the most specific row wins.
MostSpecific(v) ==
    IF ActiveMatches(v) = {} THEN Failed("CAMERA_EFFECTIVE_RANGE_MISMATCH")
    ELSE LET r == CHOOSE r \in ActiveMatches(v) :
                     \A s \in ActiveMatches(v) : Len(s.prefix) <= Len(r.prefix)
         IN  [row |-> r, at |-> ResolveCaptureTime(r, v).at,
              source |-> ResolveCaptureTime(r, v).source]

\* match_catalog_entry
MatchCatalogEntry(v) ==
    LET errors == {ResolveCaptureTime(r, v) : r \in PathMatches(v)}
    IN  CASE PathMatches(v) = {} -> Failed("NO_CAMERA_MATCH")
          [] Cardinality(ActiveMatches(v)) = 1
               -> LET r == CHOOSE r \in ActiveMatches(v) : TRUE
                  IN  [row |-> r, at |-> ResolveCaptureTime(r, v).at,
                       source |-> ResolveCaptureTime(r, v).source]
          [] Cardinality(errors) = 1 /\ (\A e \in errors : ~IsResolved(e))
               -> CHOOSE e \in errors : TRUE
          [] OTHER -> Failed("CAMERA_EFFECTIVE_RANGE_MISMATCH")

IsPlan(p) == "row" \in DOMAIN p

\* build_manifest_plan: the date of the path is that of the capture time.
Plan(v) ==
    LET m == MatchCatalogEntry(v)
    IN  IF IsPlan(m) /\ m.row.frame # v.frame THEN Failed("VIDEO_DIMENSION_MISMATCH") ELSE m

-----------------------------------------------------------------------------
(* The operator *)

Edited ==
    /\ edits < MaxEdits
    /\ edits' = edits + 1

AddRow(r) ==
    /\ r \notin catalog
    /\ Edited
    /\ catalog' = catalog \cup {r}
    /\ UNCHANGED inventory

\* A camera that is taken down: its row ends.
EndRow(r, at) ==
    /\ r \in catalog /\ r.to = None
    /\ Edited
    /\ catalog' = (catalog \ {r}) \cup {[r EXCEPT !.to = at]}
    /\ UNCHANGED inventory

\* One row for a path, or the inventory does not load.
Override(v, at) ==
    /\ v.path \notin DOMAIN inventory
    /\ Edited
    /\ inventory' = [p \in DOMAIN inventory \cup {v.path} |->
                        IF p = v.path THEN at ELSE inventory[p]]
    /\ UNCHANGED catalog

CatalogNext ==
    \/ \E r \in Row : AddRow(r)
    \/ \E r \in catalog, at \in Instant : EndRow(r, at)
    \/ \E v \in Video, at \in Instant : Override(v, at)

CatalogSpec == CatalogInit /\ [][CatalogNext]_cvars
-----------------------------------------------------------------------------
(* Properties *)

\* A catalog that loads has at most one row in force for a path at any time:
\* the pairwise check of prefixes and ranges agrees with how a video is matched.
OneRowInForce ==
    Loads => \A v \in Video, at \in Instant :
                Cardinality({r \in PathMatches(v) : InForce(r, at)}) <= 1

\* A row that is added may leave a video without a plan, when its rows resolve
\* the capture time from different sources and two of them are in force; it
\* never moves a video that had a plan to another camera or to another time.
AddedRowsNeverReassign ==
    [][(catalog' # catalog /\ catalog \subseteq catalog' /\ Loads /\ Loads') =>
          \A v \in Video : IsPlan(Plan(v)) /\ IsPlan(Plan(v)') /\ inventory' = inventory
                              => Plan(v)' = Plan(v)]_cvars

-----------------------------------------------------------------------------
(* The inductive invariant *)

\* Rows keep the form in which the operator writes them.
CatalogTypeOK ==
    /\ IsFiniteSet(catalog)
    /\ \A r \in catalog : /\ {"prefix", "from", "to"} \subseteq DOMAIN r
                          /\ IsPath(r.prefix) /\ r.from \in Int /\ r.to \in Int \cup {None}
    /\ edits \in 0..MaxEdits
=============================================================================
