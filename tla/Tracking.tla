------------------------------ MODULE Tracking ------------------------------
(***************************************************************************)
(* Identities across the sampled frames of one video                       *)
(* (pipelines/rtdetr_osnet.py): detections of a frame are matched with     *)
(* active tracks by appearance, then by place, then with the gallery of    *)
(* inactive identities; what is left becomes a tentative track, counted    *)
(* when the next frame confirms it.                                        *)
(*                                                                         *)
(* The scene is a row of cells; boxes have one size.  A person looks the   *)
(* same in every frame, so that the moving average of an embedding is the  *)
(* embedding itself: the assumption below keeps two people from matching   *)
(* by appearance, and then a track is only averaged with its own person.   *)
(* Frames are counted in sample intervals.                                 *)
(***************************************************************************)
EXTENDS Integers, FiniteSets, FiniteSetsExt, Functions, Nothing

CONSTANTS
    Person,
    Cell,            \* places, integers
    Similarity,      \* of two looks, in hundredths
    MaxMove,         \* cells a person walks between two frames
    MaxSpeed,        \* max_centroid_displacement, in cells
    Body,            \* height of a box, in half cells
    MaxDisappeared,  \* max_disappeared_frames
    MaxReentry,      \* max_reentry_frames
    MaxFrame         \* bound: sampled frames

ACTIVE_MATCH_THRESHOLD == 70
SECONDARY_MATCH_THRESHOLD == 50
REENTRY_MATCH_THRESHOLD == 75
MIN_CONFIRMATION_FRAMES == 2

ASSUME TrackingAssumption ==
    /\ IsFiniteSet(Person)
    /\ Cell \subseteq Nat /\ IsFiniteSet(Cell) /\ None \notin Cell
    /\ Similarity \in [Person -> [Person -> 0..100]]
    /\ \A p, q \in Person : /\ Similarity[p][q] = Similarity[q][p]
                            /\ IF p = q THEN Similarity[p][q] = 100
                               ELSE Similarity[p][q] < ACTIVE_MATCH_THRESHOLD
    /\ MaxMove \in Nat /\ MaxSpeed \in Nat \ {0} /\ Body \in Nat \ {0}
    /\ MaxDisappeared \in Nat \ {0} /\ MaxReentry \in Nat \ {0} /\ MaxFrame \in Nat

VARIABLES
    frame,       \* sampled frames so far
    scene,       \* where everyone stands, None for away
    tracks,      \* id -> profile; tentative ids are negative
    identities,  \* id -> look
    telemetry,   \* id -> where and when the person was seen
    given        \* id -> persons it was given to (history)

tvars == <<frame, scene, tracks, identities, telemetry, given>>

NoOne == [x \in {} |-> None]

TInit ==
    /\ frame = 0
    /\ scene = [p \in Person |-> None]
    /\ tracks = NoOne /\ identities = NoOne /\ telemetry = NoOne /\ given = NoOne

-----------------------------------------------------------------------------
(* The frame, and what is detected in it *)

Distance(a, b) == IF a < b THEN b - a ELSE a - b

\* People come and go where they like, and walk between two frames.
Scenes ==
    {s \in [Person -> Cell \cup {None}] :
        \A p \in Person : s[p] # None /\ scene[p] # None => Distance(s[p], scene[p]) <= MaxMove}

NearActiveTrack(cell) == \E id \in DOMAIN tracks : 2 * Distance(cell, tracks[id].cell) < Body

\* What the detector may find: anyone who is there, surely or not; unsure ones
\* only near an active track; one of those who stand in the same place.
Detectable(s) ==
    {d \in [Person -> {"sure", "unsure", "missed"}] :
        /\ \A p \in Person : s[p] = None => d[p] = "missed"
        /\ \A p \in Person : d[p] = "unsure" => NearActiveTrack(s[p])
        /\ \A p, q \in Person : p # q /\ s[p] = s[q] => "missed" \in {d[p], d[q]}}

-----------------------------------------------------------------------------
(* Matching.  The association of a frame is a record that every phase        *)
(* completes: the tables, the profiles of this frame, and who is matched.    *)

\* In quarter cells: the way a person may go, but at least half a box's height.
LimitOf(age) == Max({4 * MaxSpeed * Min({age + 1, MaxDisappeared + 1}), Body})

\* centroid_distance_limit
ActiveSpatiallyValid(cell, profile) == 4 * Distance(cell, profile.cell) < LimitOf(profile.age)

ReentrySpatiallyValid(cell, seen) ==
    4 * Distance(cell, seen.cell) < Max({4 * MaxSpeed * Max({1, frame' - seen.last}), Body})

\* Pairs of different people and different ids.
Matchings(pairs) ==
    {m \in SUBSET pairs : \A x, y \in m : x # y => x[1] # y[1] /\ x[2] # y[2]}

Gain(m, gain) == MapThenSumSet(LAMBDA x : gain[x], m)

\* The Hungarian method over the finite costs, the others very high: as many
\* pairs as there can be, and the cheapest of these.
FiniteAssignments(gain) ==
    LET all == Matchings(DOMAIN gain)
        size == Max({Cardinality(m) : m \in all})
        most == {m \in all : Cardinality(m) = size}
        best == Max({Gain(m, gain) : m \in most})
    IN  {m \in most : Gain(m, gain) = best}

Profile(cell, look, first, hits) ==
    [cell |-> cell, look |-> look, age |-> 0, first |-> first, hits |-> hits]

With(f, x, y) == [z \in DOMAIN f \cup {x} |-> IF z = x THEN y ELSE f[z]]

\* _record_track_match
TrackMatch(s, p, id) ==
    LET old == tracks[id]
        hits == old.hits + 1
        confirmed == id < 0 /\ hits >= MIN_CONFIRMATION_FRAMES
        new == IF confirmed THEN s.next ELSE id
        seen == [entry |-> IF confirmed THEN old.first ELSE s.telemetry[id].entry,
                 last |-> frame', cell |-> scene'[p]]
    IN  [s EXCEPT !.next = IF confirmed THEN @ + 1 ELSE @,
                  !.identities = IF confirmed THEN With(@, new, old.look) ELSE @,
                  !.telemetry = IF new > 0 THEN With(@, new, seen) ELSE @,
                  !.updated = With(@, new, Profile(scene'[p], old.look, old.first, hits)),
                  !.people = @ \cup {p},
                  !.matched = @ \cup {id}]

TrackMatches(s, m) == FoldSet(LAMBDA x, t : TrackMatch(t, x[1], x[2]), s, m)

\* (slip) the gallery keeps everyone.
NeverExpires == identities

\* expire_inactive_identities
Unexpired ==
    Restrict(identities,
             {id \in DOMAIN identities :
                 id \in DOMAIN tracks \/ frame' - telemetry[id].last <= MaxReentry})

NewState == [next |-> Cardinality(DOMAIN telemetry) + 1, identities |-> Unexpired,
          telemetry |-> telemetry, updated |-> NoOne, people |-> {}, matched |-> {}]

\* assign_active_appearance_matches: the threshold is applied to the result.
ByAppearance(s, seen) ==
    LET pairs == {x \in seen \X DOMAIN tracks : ActiveSpatiallyValid(scene'[x[1]], tracks[x[2]])}
        gain == [x \in pairs |-> Similarity[x[1]][tracks[x[2]].look]]
    IN  {TrackMatches(s, {x \in m : gain[x] >= ACTIVE_MATCH_THRESHOLD}) :
            m \in FiniteAssignments(gain)}

\* assign_spatial_secondary_matches: of people detected surely; dissimilar
\* pairs are no candidates, and the nearest are matched.
ByPlace(s, sure) ==
    LET pairs == {x \in (sure \ s.people) \X (DOMAIN tracks \ s.matched) :
                     /\ ActiveSpatiallyValid(scene'[x[1]], tracks[x[2]])
                     /\ Similarity[x[1]][tracks[x[2]].look] >= SECONDARY_MATCH_THRESHOLD}
        scale == FoldSet(LAMBDA age, t : LimitOf(age) * t, 1, 0..MaxDisappeared)
        cost == [x \in pairs |-> (4 * Distance(scene'[x[1]], tracks[x[2]].cell) * scale)
                                 \div LimitOf(tracks[x[2]].age)]
    IN  {TrackMatches(s, m) : m \in FiniteAssignments([x \in pairs |-> -cost[x]])}

\* _record_reentry_match: the track, if there is one, is not marked as matched.
ReentryMatch(s, p, id) ==
    [s EXCEPT !.updated = With(@, id, Profile(scene'[p], s.identities[id], s.telemetry[id].entry,
                                              MIN_CONFIRMATION_FRAMES)),
              !.telemetry[id].last = frame', !.telemetry[id].cell = scene'[p],
              !.people = @ \cup {p}]

\* (slip) the best assignment is taken whatever the similarity.
ReentersAnyway(similarity) == TRUE

Reenters(similarity) == similarity >= REENTRY_MATCH_THRESHOLD

\* assign_reentry_matches
ByReentry(s, sure) ==
    LET ids == {id \in DOMAIN s.identities \ DOMAIN s.updated :
                   id \in DOMAIN tracks => tracks[id].age > 0}
        pairs == {x \in (sure \ s.people) \X ids :
                     ReentrySpatiallyValid(scene'[x[1]], s.telemetry[x[2]])}
        gain == [x \in pairs |-> Similarity[x[1]][s.identities[x[2]]]]
    IN  {FoldSet(LAMBDA x, t : ReentryMatch(t, x[1], x[2]), s, {x \in m : Reenters(gain[x])}) :
            m \in FiniteAssignments(gain)}

\* _overlaps_unmatched_track
Overlaps(s, p) ==
    \E id \in DOMAIN tracks \ s.matched :
        /\ ActiveSpatiallyValid(scene'[p], tracks[id])
        /\ Similarity[p][tracks[id].look] >= SECONDARY_MATCH_THRESHOLD

\* A fresh tentative id: one for every frame and place.
TentativeId(cell) == -(frame' * (Max(Cell) + 1) + cell + 1)

\* spawn_tentative_tracks
Spawned(s, sure) ==
    FoldSet(LAMBDA p, t : [t EXCEPT !.updated = With(@, TentativeId(scene'[p]),
                                                     Profile(scene'[p], p, frame', 1))],
            s, {p \in sure \ s.people : ~Overlaps(s, p)})

\* age_unmatched_tracks: tentative tracks go with the first frame they miss.
Kept(id) == id > 0 /\ tracks[id].age + 1 <= MaxDisappeared

Aged(s) ==
    LET aged == {id \in DOMAIN tracks \ (DOMAIN s.updated \cup s.matched) : Kept(id)}
    IN  [id \in DOMAIN s.updated \cup aged |->
           IF id \in aged THEN [tracks[id] EXCEPT !.age = @ + 1] ELSE s.updated[id]]

\* Whom the ids of this frame were given to: the one who stands there and was
\* detected there.
GivenTo(s, found) ==
    [id \in DOMAIN s.telemetry |->
        (IF id \in DOMAIN given THEN given[id] ELSE {})
        \cup {p \in found : s.telemetry[id].last = frame' /\ s.telemetry[id].cell = scene'[p]}]

\* process_frame, of everyone seen and those seen surely.
Associate(found, sure) ==
    \E a \in ByAppearance(NewState, found) :
        \E b \in ByPlace(a, sure) :
            \E s \in ByReentry(b, sure) :
                /\ tracks' = Aged(Spawned(s, sure))
                /\ identities' = s.identities
                /\ telemetry' = s.telemetry
                /\ given' = GivenTo(s, found)

Frame ==
    /\ frame < MaxFrame
    /\ frame' = frame + 1
    /\ scene' \in Scenes
    /\ \E d \in Detectable(scene') :
           Associate({p \in Person : d[p] # "missed"}, {p \in Person : d[p] = "sure"})

TNext == Frame
TSpec == TInit /\ [][TNext]_tvars
-----------------------------------------------------------------------------
(* Properties *)

\* Matching by place may hand an id from one person to another who is enough
\* like the one who had it first; where nobody is, every id counts one person,
\* however people come, go, hide behind each other and return, and however the
\* assignment is completed with pairs below the threshold.
IdsAreOnePerson ==
    \A id \in DOMAIN given :
        \E q \in Person :
            \A p \in given[id] : Similarity[p][q] >= SECONDARY_MATCH_THRESHOLD

\* "without matching against arbitrarily old appearances": an id that was not
\* seen longer than the gallery keeps it, and longer than a track lives
\* unmatched, is never given again.
NoOldIdReturns ==
    [][\A id \in DOMAIN telemetry :
          telemetry'[id].last = telemetry[id].last
          \/ telemetry'[id].last - telemetry[id].last <= Max({MaxReentry, MaxDisappeared + 1})]_tvars
-----------------------------------------------------------------------------
(* The inductive invariant *)

ProfileRow == [cell : Cell, look : Person, age : 0..MaxDisappeared, first : Nat, hits : Nat]
Sighting == [entry : Nat, last : Nat, cell : Cell]

TrackingTypeOK ==
    /\ frame \in Nat
    /\ scene \in [Person -> Cell \cup {None}]
    /\ IsFiniteSet(DOMAIN tracks) /\ DOMAIN tracks \subseteq Int \ {0}
    /\ tracks \in [DOMAIN tracks -> ProfileRow]
    /\ IsFiniteSet(DOMAIN telemetry)
    /\ telemetry \in [1..Cardinality(DOMAIN telemetry) -> Sighting]
    /\ DOMAIN identities \subseteq DOMAIN telemetry
    /\ identities \in [DOMAIN identities -> Person]
    /\ given \in [DOMAIN telemetry -> SUBSET Person]

\* A counted track is in the gallery with its look, and its age is the time
\* since its person was seen.
TracksAreKnown ==
    \A id \in DOMAIN tracks : id > 0 =>
        /\ id \in DOMAIN identities /\ identities[id] = tracks[id].look
        /\ telemetry[id].last + tracks[id].age = frame

SightingsArePast == \A id \in DOMAIN telemetry : telemetry[id].last <= frame

\* Whoever got an id is like the look the gallery has of it.
GalleryIsAlike ==
    \A id \in DOMAIN identities :
        \A p \in given[id] : Similarity[p][identities[id]] >= SECONDARY_MATCH_THRESHOLD

TrackingInv ==
    /\ TrackingTypeOK /\ TracksAreKnown /\ SightingsArePast
    /\ GalleryIsAlike /\ IdsAreOnePerson
=============================================================================
