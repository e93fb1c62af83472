-------------------------- MODULE StoppedVehicles --------------------------
(***************************************************************************)
(* What one tick remembers of the pictures for the next: the boxes of      *)
(* vehicles followed from tick to tick (src/track_persistence.py), the     *)
(* smoothed density (src/density_smoother.py), and how the tick promotes a *)
(* stopped vehicle (src/fusion_pipeline.py, src/tick_orchestrator.py).     *)
(*                                                                         *)
(* A box is a spot on a line; two boxes match (intersection over union at  *)
(* least the threshold) when they are at most Near apart, and the nearer   *)
(* the better.  Densities are integers.                                    *)
(***************************************************************************)
EXTENDS Integers, Sequences, FiniteSets, SequencesExt

CONSTANTS
  Cameras,
  Spots,          \* where a box can be
  Near,           \* how far apart two boxes still match: iou_threshold
  RequiredTicks,  \* required_ticks
  MaxMissed,      \* max_missed_ticks
  Alpha,          \* alpha of the smoother, in percent
  Critical,       \* critical density
  Frames,         \* what a usable frame may show
  MaxTicks        \* bound: ticks

Frame == [boxes: Seq(Spots), density: Nat]

ASSUME VehiclesAssumption ==
  /\ Spots \subseteq Nat /\ Near \in Nat
  /\ RequiredTicks \in Nat \ {0, 1} /\ MaxMissed \in Nat
  /\ Alpha \in 1..100 /\ Critical \in Nat /\ MaxTicks \in Nat
  /\ Frames \subseteq Frame

VARIABLES
  tick,
  _tracks,   \* camera to its tracks
  _state,    \* smoother: camera to its average, once it has one
  states,    \* capacity states of this tick as the physics gets them
  normal,    \* is the local speed of each camera known and normal in this tick
  records    \* ghost: the vision records of each camera, with their ticks

vars == <<tick, _tracks, _state, states, normal, records>>

\* Ghost: seen holds the ticks of all sightings; last_seen is the latest.
Track == [box: Spots, hits: Nat, missed: 0..MaxMissed, seen: SUBSET Nat]

None    == [boxes |-> <<>>, density |-> -1]   \* no usable frame
State   == [density: Nat, vehicle_stopped: BOOLEAN]   \* anomaly_reason

TypeOK ==
  /\ tick \in 0..MaxTicks
  /\ _tracks \in [Cameras -> Seq(Track)]
  /\ DOMAIN _state \subseteq Cameras /\ \A c \in DOMAIN _state : _state[c] \in Nat
  /\ DOMAIN states \subseteq Cameras /\ \A c \in DOMAIN states : states[c] \in State
  /\ normal \in [DOMAIN states -> BOOLEAN]
  /\ \A c \in Cameras : \A r \in Range(records[c]) : r.at \in 1..tick /\ r.frame \in Frames \cup {None}

Distance(a, b) == IF a < b THEN b - a ELSE a - b

(***************************************************************************)
(* The tracker.                                                            *)
(***************************************************************************)

\* Mutant: tracks already matched in this tick are candidates again.
Reusable(tracks, matched, box) == {i \in DOMAIN tracks : Distance(tracks[i].box, box) <= Near}

Candidates(tracks, matched, box) ==
  {i \in DOMAIN tracks \ matched : Distance(tracks[i].box, box) <= Near}

\* The first of the best.
Best(tracks, S, box) ==
  CHOOSE i \in S : \A j \in S \ {i} :
    LET di == Distance(tracks[i].box, box)  dj == Distance(tracks[j].box, box) IN
    di < dj \/ (di = dj /\ i < j)

\* acc holds the tracks and which of them this tick has matched so far.
Match(acc, box, t) ==
  LET near == Candidates(acc.tracks, acc.matched, box) IN
  IF near = {}
  THEN [tracks  |-> Append(acc.tracks, [box |-> box, hits |-> 1, missed |-> 0, seen |-> {t}]),
        matched |-> acc.matched \cup {Len(acc.tracks) + 1}]
  ELSE LET i == Best(acc.tracks, near, box) IN
       [tracks  |-> [acc.tracks EXCEPT ![i] = [box |-> box, hits |-> @.hits + 1, missed |-> 0,
                                               seen |-> @.seen \cup {t}]],
        matched |-> acc.matched \cup {i}]

Aged(tracks, matched) ==
  [i \in DOMAIN tracks |->
     IF i \in matched THEN tracks[i] ELSE [tracks[i] EXCEPT !.missed = @ + 1]]

\* The tracks that have missed at most so many frames, in their order.
Kept(tracks, most) ==
  FoldLeft(LAMBDA kept, track : IF track.missed <= most THEN Append(kept, track) ELSE kept,
           <<>>, tracks)

\* Mutant: a track that misses a frame is dropped one frame late.
SurvivingLate(tracks) == Kept(tracks, MaxMissed + 1)
Surviving(tracks)     == Kept(tracks, MaxMissed)

_update_tracks(tracks, boxes, t) ==
  LET acc == FoldLeft(LAMBDA a, box : Match(a, box, t), [tracks |-> tracks, matched |-> {}], boxes)
  IN Surviving(Aged(acc.tracks, acc.matched))

\* Mutant: a frame that could not be fetched ages nothing.
IgnoreFrame(tracks)        == tracks
mark_camera_missed(tracks) == Surviving(Aged(tracks, {}))

\* Mutant: one tick more than required.
MatureLate(tracks) == {i \in DOMAIN tracks : tracks[i].hits > RequiredTicks}
Mature(tracks)     == {i \in DOMAIN tracks : tracks[i].hits >= RequiredTicks}

(***************************************************************************)
(* The smoother, and the promotion after it.                               *)
(***************************************************************************)
Smoothed(c, raw) ==
  IF c \notin DOMAIN _state THEN raw
  ELSE (Alpha * raw + (100 - Alpha) * _state[c]) \div 100

\* The local speed is known and normal, and some track is mature.
Stopped(tracks, speed) == speed /\ Mature(tracks) # {}

Promoted(density) == IF density > Critical THEN density ELSE Critical + 1

\* Mutant: the stopped vehicle is promoted before the density is smoothed.
ForcedFirst(c, frame, stopped) ==
  LET d == Smoothed(c, IF stopped THEN Promoted(frame.density) ELSE frame.density) IN
  [remembered |-> d, used |-> d]

Density(c, frame, stopped) ==
  LET d == Smoothed(c, frame.density) IN
  [remembered |-> d, used |-> IF stopped THEN Promoted(d) ELSE d]

(***************************************************************************)
(* The actions.                                                            *)
(***************************************************************************)
Init ==
  /\ tick = 0
  /\ _tracks = [c \in Cameras |-> <<>>]
  /\ _state = <<>>
  /\ states = <<>>
  /\ normal = <<>>
  /\ records = [c \in Cameras |-> <<>>]

\* vision holds this tick's records, by camera.  A camera that was excluded, that the
\* API left out or whose whole fetch failed has none, and its memory stays as it is.
Tick(vision, speeds) ==
  LET ok == DOMAIN speeds
      tracks == [c \in Cameras |->
        IF c \in ok THEN _update_tracks(_tracks[c], vision[c].boxes, tick + 1)
        ELSE IF c \in DOMAIN vision THEN mark_camera_missed(_tracks[c]) ELSE _tracks[c]]
      stopped(c) == Stopped(tracks[c], speeds[c])
      density == [c \in ok |-> Density(c, vision[c], stopped(c))]
  IN
  /\ tick < MaxTicks
  /\ tick' = tick + 1
  /\ _tracks' = tracks
  /\ _state' = [c \in DOMAIN _state \cup ok |-> IF c \in ok THEN density[c].remembered ELSE _state[c]]
  /\ states' = [c \in ok |-> [density |-> density[c].used, vehicle_stopped |-> stopped(c)]]
  /\ normal' = speeds
  /\ records' = [c \in Cameras |->
       IF c \in DOMAIN vision THEN Append(records[c], [at |-> tick + 1, frame |-> vision[c]])
       ELSE records[c]]

Usable(vision) == {c \in DOMAIN vision : vision[c] # None}

Next ==
  \E asked \in SUBSET Cameras : \E vision \in [asked -> Frames \cup {None}] :
     \E speeds \in [Usable(vision) -> BOOLEAN] : Tick(vision, speeds)

Spec == Init /\ [][Next]_vars

(***************************************************************************)
(* Properties.                                                             *)
(***************************************************************************)

(* A count of ticks is one of ticks: however the boxes of a frame crowd,   *)
(* each hit of a track is a sighting in a tick of its own.                 *)
HitsAreTicks ==
  \A c \in Cameras : \A k \in DOMAIN _tracks[c] :
     _tracks[c][k].hits = Cardinality(_tracks[c][k].seen)

(* A track bridges at most MaxMissed records of its camera, between two    *)
(* sightings and after the last.  Only records count: a camera that was    *)
(* not asked for hours resumes its tracks.                                 *)
GapsAreShort ==
  \A c \in Cameras : \A k \in DOMAIN _tracks[c] :
     LET seen == _tracks[c][k].seen
         gone(t) == {r \in Range(records[c]) : r.at > t /\ ~ \E s \in seen : s > t /\ s <= r.at}
     IN \A t \in seen : Cardinality(gone(t)) <= MaxMissed

(* A detector that suppresses overlapping boxes: those of a frame are all  *)
(* further apart than two that match.                                      *)
Separated(boxes) == \A i, j \in DOMAIN boxes : i # j => Distance(boxes[i], boxes[j]) > Near

(* A vehicle that stands still is reported: once the last RequiredTicks    *)
(* records of a camera show a box at the very same spot, and its frames    *)
(* were always separated, a tick with normal speed marks the camera.       *)
StillIsReported ==
  \A c \in DOMAIN states :
     LET last == SubSeq(records[c], Len(records[c]) - RequiredTicks + 1, Len(records[c])) IN
     /\ Len(records[c]) >= RequiredTicks
     /\ \E p \in Spots : \A k \in DOMAIN last : p \in Range(last[k].frame.boxes)
     /\ normal[c] /\ \A r \in Range(records[c]) : Separated(r.frame.boxes)
     => states[c].vehicle_stopped

(* A promoted camera is above the critical density, and the density forced *)
(* on it never enters its average, which stays below one it has measured.  *)
ForcedOnce ==
  /\ \A c \in DOMAIN states : states[c].vehicle_stopped => states[c].density > Critical
  /\ \A c \in DOMAIN _state : \E r \in Range(records[c]) : _state[c] <= r.frame.density
=============================================================================
