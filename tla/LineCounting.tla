---------------------------- MODULE LineCounting ----------------------------
(***************************************************************************)
(* Counting people across a line (pipelines/rfdetr_botsort.py, video.py,   *)
(* line_counting.py): frames of a video are read, sampled and collected in *)
(* batches; the people detected in a frame are tracked, and a cache keeps  *)
(* the last box of a confirmed track for as long as the tracker may find   *)
(* it again, so that the line does not forget its side.                    *)
(*                                                                         *)
(* The tracker and the line are libraries.  The tracker is taken to give a *)
(* person their track again for no longer than the buffer it was given     *)
(* says, a number of frames at 30 per second; how it converts that to the  *)
(* frames of the video is its own, so its window is any number of frames   *)
(* up to that one, at most TrackerSlack below it.  It confirms a new track *)
(* by a second detection in the next sampled frame; the line counts a      *)
(* track whose side changed and forgets tracks that are not shown to it.   *)
(* What is seen in a frame is chosen when the frame is processed.          *)
(***************************************************************************)
EXTENDS Integers, FiniteSets, FiniteSetsExt, Sequences, SequencesExt, Nothing

CONSTANTS
    Walker,       \* people
    RateUnit,     \* rates are counted in this fraction of a frame per second
    SourceFps,    \* rates a video may have
    SampleFps,    \* rates that may be asked for
    Announced,    \* frames the container announces, which it may get wrong
    Delivered,    \* (bound) frames the capture delivers at most
    BatchSize,
    TrackerSlack  \* frames the tracker may lose in its own conversion

ASSUME LineAssumption ==
    /\ RateUnit \in Nat \ {0}
    /\ SourceFps \subseteq Nat \ {0} /\ SampleFps \subseteq Nat \ {0}
    /\ Announced \in Int /\ Delivered \in Nat /\ BatchSize \in Nat \ {0}
    /\ TrackerSlack \in Nat
    /\ Walker \subseteq Int /\ IsFiniteSet(Walker)

VARIABLES
    settings,   \* [fps, interval, buffer, window, coast]: what the run computed at
                \* its start and the window of its tracker
    reader,     \* [next, batch, pc, done]: index of the next source frame, the
                \* batch, and how many frames of it are processed
    found,      \* tracks of the tracker: id -> [who, hits, last]
    cache,      \* line_track_cache: id -> [side, last]
    zone,       \* sides the line knows
    result,     \* RunResult
    net         \* id -> [first side shown, crossings in less out] (history)

lcvars == <<settings, reader, found, cache, zone, result, net>>

-----------------------------------------------------------------------------
(* Sampling.  The code computes with floats: where a quotient lies half way  *)
(* between two numbers, or on one, the float next to it may be on either     *)
(* side, so each conversion yields a set of results.                         *)

\* round(a / b)
Nearest(a, b) ==
    {n \in (a \div b)..(a \div b + 1) : 2 * a - b <= 2 * n * b /\ 2 * n * b <= 2 * a + b}

\* math.ceil(a / b)
Ceilings(a, b) ==
    {n \in (a \div b)..(a \div b + 1) : a <= n * b /\ (n - 1) * b <= a}

\* sampling_config
Intervals(fps, requested) == {Max({1, n}) : n \in Nearest(fps, Min({requested, fps}))}

\* lost_track_buffer_for_sample_rate: one second, or two sampled frames if these
\* are longer, in frames at 30 per second.
LostTrackBuffers(fps, interval) ==
    {Max({30, n}) : n \in Ceilings(60 * interval * RateUnit, fps)}

\* (slip) the buffer left in seconds.
InSeconds(fps, buffer) == Nearest(buffer, 30)

\* process_frame: the buffer in frames of the video, for the cache.
CacheWindows(fps, buffer) == Nearest(buffer * fps, 30 * RateUnit)

\* The same buffer as the tracker converts it.
TrackerWindows(fps, buffer) ==
    LET longest == (buffer * fps) \div (30 * RateUnit)
    IN  {w \in 0..longest : w + TrackerSlack >= longest}

\* initialize_run_state, for any video and any rate asked for.
LineSettings ==
    UNION {UNION {UNION {[fps : {f}, interval : {i}, buffer : {b},
                          window : TrackerWindows(f, b), coast : CacheWindows(f, b)] :
                            b \in LostTrackBuffers(f, i)} :
                      i \in Intervals(f, r)} :
              f \in SourceFps, r \in SampleFps}

Nobody == [x \in {} |-> None]

LCInit ==
    /\ settings \in LineSettings
    /\ reader = [next |-> 0, batch |-> <<>>, pc |-> "read", done |-> 0]
    /\ found = Nobody /\ cache = Nobody /\ zone = Nobody /\ net = Nobody
    /\ result = [records |-> <<>>, processed |-> 0, read |-> 0, early |-> FALSE, in |-> 0, out |-> 0,
                 entry |-> Nobody]

Interval == settings.interval

IsSampled(index) == index % Interval = 0

-----------------------------------------------------------------------------
(* Reading *)

\* After the last frame the batch is processed even if it is not full.
LeftOver(batch) == IF batch = <<>> THEN "ended" ELSE "process"

\* A frame is read, or skipped if it is not sampled; a full batch is yielded.
ReadFrame ==
    LET batch == IF IsSampled(reader.next) THEN Append(reader.batch, reader.next) ELSE reader.batch
    IN  /\ reader.pc = "read"
        /\ reader.next < Delivered
        /\ reader' = [reader EXCEPT !.next = @ + 1, !.batch = batch,
                                    !.pc = IF Len(batch) = BatchSize THEN "process" ELSE @]
        /\ result' = [result EXCEPT !.read = reader.next + 1]
        /\ UNCHANGED <<settings, found, cache, zone, net>>

\* Decoding stops, at the end of the video or before; how many frames were
\* announced only decides what is said of it.
EndOfVideo ==
    /\ reader.pc = "read"
    /\ reader' = [reader EXCEPT !.pc = LeftOver(reader.batch), !.next = Delivered + 1]
    /\ result' = [result EXCEPT !.early = reader.next + 1 < Announced]
    /\ UNCHANGED <<settings, found, cache, zone, net>>

-----------------------------------------------------------------------------
(* A frame.  What is seen is a function from the people detected to the side *)
(* of the line they are on.                                                  *)

Seen == UNION {[W -> {"left", "right"}] : W \in SUBSET Walker}

\* The tracker: found again within its window, tentative tracks only in the
\* next sampled frame.
TrackOf(w, index) ==
    {id \in DOMAIN found : /\ found[id].who = w
                           /\ index - found[id].last <= IF found[id].hits = 1 THEN Interval ELSE settings.window}

Fresh(w) == 1 + Max({0} \cup DOMAIN found) + Cardinality({v \in Walker : v < w})

IdOf(w, index) == IF TrackOf(w, index) = {} THEN Fresh(w) ELSE Max(TrackOf(w, index))

TrackerUpdate(seen, index) ==
    LET ids == [w \in DOMAIN seen |-> IdOf(w, index)]
    IN  [id \in DOMAIN found \cup Range(ids) |->
           IF id \in Range(ids)
           THEN [who |-> CHOOSE w \in DOMAIN seen : ids[w] = id,
                 hits |-> IF id \in DOMAIN found THEN 2 ELSE 1, last |-> index]
           ELSE found[id]]

\* _confirmed_people: the confirmed tracks of this frame and their side.
Confirmed(tracks, seen, index) ==
    LET ids == {id \in DOMAIN tracks : tracks[id].last = index /\ tracks[id].hits = 2}
    IN  [id \in ids |-> seen[tracks[id].who]]

\* coasting_track_detections
CoastingTracks(shown, index) ==
    LET all == [id \in DOMAIN cache \cup DOMAIN shown |->
                  IF id \in DOMAIN shown THEN [side |-> shown[id], last |-> index] ELSE cache[id]]
    IN  [id \in {i \in DOMAIN all : index - all[i].last <= settings.coast} |-> all[id]]

Crossing(tracks, side) ==
    {id \in DOMAIN tracks \cap DOMAIN zone : tracks[id].side = side /\ zone[id] # side}

\* record_line_counts; the line is shown the cache, and "in" is to the right.
ProcessFrame(seen) ==
    LET index == reader.batch[reader.done + 1]
        tracks == TrackerUpdate(seen, index)
        shown == Confirmed(tracks, seen, index)
        coasting == CoastingTracks(shown, index)
        in == Cardinality(Crossing(coasting, "right"))
        out == Cardinality(Crossing(coasting, "left"))
        new == DOMAIN shown \ DOMAIN result.entry
    IN  /\ reader.pc = "process"
        /\ reader.done < Len(reader.batch)
        /\ found' = tracks
        /\ cache' = coasting
        /\ zone' = [id \in DOMAIN coasting |-> coasting[id].side]
        /\ result' = [result EXCEPT
              !.records = Append(@, [frame |-> index, in |-> in, out |-> out]),
              !.in = @ + in, !.out = @ + out,
              !.entry = [id \in DOMAIN @ \cup new |->
                           IF id \in new THEN Max({0, index - Interval}) ELSE @[id]]]
        /\ reader' = [reader EXCEPT !.done = @ + 1]
        /\ net' = [id \in DOMAIN net \cup DOMAIN shown |->
                     IF id \notin DOMAIN net THEN [first |-> shown[id], in |-> 0]
                     ELSE [net[id] EXCEPT !.in = @ + (IF id \in Crossing(coasting, "right") THEN 1
                                                      ELSE IF id \in Crossing(coasting, "left") THEN -1
                                                      ELSE 0)]]
        /\ UNCHANGED settings

\* process_frame_batch counts the frames of a batch when all are processed.
EndBatch ==
    /\ reader.pc = "process"
    /\ reader.done = Len(reader.batch)
    /\ result' = [result EXCEPT !.processed = @ + Len(reader.batch)]
    /\ reader' = [reader EXCEPT !.pc = IF reader.next > Delivered THEN "ended" ELSE "read",
                                !.batch = <<>>, !.done = 0]
    /\ UNCHANGED <<settings, found, cache, zone, net>>

\* The run is interrupted; what it has counted is written as it is.
Interrupt ==
    /\ reader.pc \in {"read", "process"}
    /\ reader' = [reader EXCEPT !.pc = "interrupted"]
    /\ UNCHANGED <<settings, found, cache, zone, result, net>>

LCNext ==
    \/ ReadFrame \/ EndOfVideo \/ EndBatch \/ Interrupt
    \/ \E seen \in Seen : ProcessFrame(seen)

LCSpec == LCInit /\ [][LCNext]_lcvars
-----------------------------------------------------------------------------
(* Properties *)

\* "A new track must establish its side of the line before a crossing can be
\* registered": from then on no crossing is lost or counted twice for as long
\* as the tracker keeps the track, however often the person is not detected.
TrackedCrossingsAreCounted ==
    \A id \in DOMAIN cache :
        net[id].in = (IF cache[id].side = net[id].first THEN 0
                      ELSE IF cache[id].side = "right" THEN 1 ELSE -1)

\* A run that returned has processed every sampled frame it read, whatever was
\* left in the last batch, and a run that was interrupted has lost no more than
\* one batch; the frames are recorded once each and in order.
ReadFramesAreCounted ==
    LET sampled == {i \in 0..(result.read - 1) : IsSampled(i)}
    IN  /\ \A i \in 1..Len(result.records) : result.records[i].frame = (i - 1) * Interval
        /\ reader.pc = "ended" => /\ Len(result.records) = Cardinality(sampled)
                                  /\ result.processed = Cardinality(sampled)
        /\ reader.pc = "interrupted" => Cardinality(sampled) - result.processed <= BatchSize

\* The frame that was processed last, or the one before the first.
LastFrame == (Len(result.records) - 1) * Interval

\* "BoT-SORT retains tracks for at least one second": the buffer the tracker was
\* given lasts for a second and, however rare the samples are, for a confirmed
\* track that one sampled frame missed until the next sampled frame.
OneMissIsCovered ==
    \A id \in DOMAIN net :
        LET missing == LastFrame + Interval - found[id].last
        IN  missing <= 2 * Interval \/ missing * RateUnit <= settings.fps
              => 30 * RateUnit * missing <= settings.buffer * settings.fps

\* The count is complete: no frame is dropped between the reader and the
\* counter, no track is lost to one missed detection, and no crossing of a
\* tracked person between the counter's frames.
CountIsComplete == ReadFramesAreCounted /\ OneMissIsCovered /\ TrackedCrossingsAreCounted

-----------------------------------------------------------------------------
(* The inductive invariant *)

Sides == {"left", "right"}

LCTypeOK ==
    /\ settings \in [fps : SourceFps, interval : Nat \ {0}, buffer : Nat, window : Nat, coast : Nat]
    /\ DOMAIN reader = {"next", "batch", "pc", "done"}
    /\ reader.next \in Nat /\ reader.batch \in Seq(Nat) /\ reader.done \in 0..Len(reader.batch)
    /\ reader.pc \in {"read", "process", "ended", "interrupted"}
    /\ DOMAIN result = {"records", "processed", "read", "early", "in", "out", "entry"}
    /\ result.records \in Seq([frame : Nat, in : Nat, out : Nat])
    /\ result.processed \in Nat /\ result.read \in Nat
    /\ DOMAIN found \subseteq Nat /\ IsFiniteSet(DOMAIN found)
    /\ found \in [DOMAIN found -> [who : Walker, hits : {1, 2}, last : Nat]]
    /\ cache \in [DOMAIN cache -> [side : Sides, last : Nat]]
    /\ net \in [DOMAIN net -> [first : Sides, in : Int]]

\* Sampled frames among those read.
SampledSoFar == {i \in 0..(result.read - 1) : IsSampled(i)}

\* The sampled frames that were read are those that were processed and those of
\* the batch, in order; the next one is the next multiple of the interval.
BatchIsWhatIsLeft ==
    LET count == result.processed + Len(reader.batch)
    IN  /\ Cardinality(SampledSoFar) = count
        /\ (count - 1) * Interval < result.read /\ result.read <= count * Interval
        /\ \A j \in 1..Len(reader.batch) : reader.batch[j] = (result.processed + j - 1) * Interval
        /\ Len(result.records) = result.processed + reader.done
        /\ \A i \in 1..Len(result.records) : result.records[i].frame = (i - 1) * Interval
        /\ Len(reader.batch) <= BatchSize
        /\ reader.pc = "read" => reader.next = result.read /\ reader.next <= Delivered
                                /\ reader.done = 0 /\ Len(reader.batch) < BatchSize
        /\ reader.pc = "process" => reader.next = result.read \/ reader.next = Delivered + 1
        /\ result.read <= Delivered
        /\ reader.pc = "ended" => reader.batch = <<>>

\* The conversions: the buffer lasts for a second and for two sampled frames,
\* and neither the tracker nor the cache strays further from it than a rounding.
WindowsAgree ==
    /\ 30 <= settings.buffer
    /\ 60 * RateUnit * Interval <= settings.buffer * settings.fps
    /\ 30 * RateUnit * settings.window <= settings.buffer * settings.fps
    /\ 2 * (settings.buffer * settings.fps) <= 60 * RateUnit * settings.coast + 30 * RateUnit

\* The line knows the side of every counted track that the tracker may still
\* find, since the cache keeps it as long.
CacheOutlivesTheTracker ==
    /\ DOMAIN cache \subseteq DOMAIN net /\ DOMAIN net \subseteq DOMAIN found
    /\ zone = [id \in DOMAIN cache |-> cache[id].side]
    /\ \A id \in DOMAIN found : found[id].last <= LastFrame
    /\ \A id \in DOMAIN cache : cache[id].last = found[id].last
    /\ \A id \in DOMAIN net :
          /\ found[id].hits = 2
          /\ LastFrame - found[id].last <= settings.coast => id \in DOMAIN cache

LCInv == LCTypeOK /\ WindowsAgree /\ BatchIsWhatIsLeft /\ CacheOutlivesTheTracker /\ TrackedCrossingsAreCounted
=============================================================================
