---------------------- MODULE StoppedVehicles_proofs ----------------------
(***************************************************************************)
(* Proofs about the tracks and the promotion of stopped vehicles, for      *)
(* every detector, smoothing factor, critical density and number of        *)
(* cameras, and for frames of any length: what a tick does to the tracks   *)
(* is a loop over the boxes of a frame, shown by induction on the boxes.   *)
(***************************************************************************)
EXTENDS StoppedVehicles, FoldTheorems, SequenceTheorems, TLAPS

(* A weighted mean lies between zero and a bound of what it mixes.         *)
LEMMA MeanIsBounded ==
  ASSUME NEW a \in 1..100, NEW top \in Nat, NEW x \in 0..top, NEW y \in 0..top
  PROVE  (a * x + (100 - a) * y) \div 100 \in 0..top
<1> DEFINE mix == a * x + (100 - a) * y
<1>1. a * x \in Nat /\ (100 - a) * y \in Nat /\ a * top \in Nat /\ (100 - a) * top \in Nat
  OBVIOUS
<1>2. a * x <= a * top
  OBVIOUS
<1>3. (100 - a) * y <= (100 - a) * top
  OBVIOUS
<1>4. a * top + (100 - a) * top = 100 * top
  OBVIOUS
<1>5. mix \in Nat /\ mix <= 100 * top
  BY <1>1, <1>2, <1>3, <1>4
<1> HIDE DEF mix
<1>6. mix \div 100 \in 0..top
  BY <1>5
<1> QED
  BY <1>6 DEF mix

(* A longer sequence of records holds the new one and all it held before.  *)
LEMMA RecordsGrow ==
  ASSUME NEW S, NEW log \in Seq(S), NEW r \in S
  PROVE  /\ Append(log, r) \in Seq(S)
         /\ Range(Append(log, r)) = Range(log) \cup {r}
<1> DEFINE more == Append(log, r)
<1>1. /\ more \in Seq(S) /\ Len(more) = Len(log) + 1
      /\ \A i \in 1..Len(log) : more[i] = log[i]
      /\ more[Len(log) + 1] = r
  BY AppendProperties
<1> HIDE DEF more
<1>2. DOMAIN log = 1..Len(log) /\ DOMAIN more = 1..(Len(log) + 1) /\ Len(log) \in Nat
  BY <1>1, LenProperties
<1>3. \A x \in Range(more) : x \in Range(log) \/ x = r
  <2> SUFFICES ASSUME NEW i \in DOMAIN more PROVE more[i] \in Range(log) \/ more[i] = r
    BY DEF Range
  <2>1. i \in DOMAIN log \/ i = Len(log) + 1 BY <1>2
  <2> QED BY <1>1, <1>2, <2>1 DEF Range
<1>4. r \in Range(more)
  <2>1. Len(log) + 1 \in DOMAIN more BY <1>2
  <2> QED BY <1>1, <2>1 DEF Range
<1>5. \A x \in Range(log) : x \in Range(more)
  <2> SUFFICES ASSUME NEW i \in DOMAIN log PROVE log[i] \in Range(more) BY DEF Range
  <2>1. i \in DOMAIN more /\ more[i] = log[i] BY <1>1, <1>2
  <2> QED BY <2>1 DEF Range
<1> QED BY <1>1, <1>3, <1>4, <1>5 DEF more

(***************************************************************************)
(* The averages hold measured densities only; the density used for a       *)
(* camera is promoted after its average was taken.                         *)
(***************************************************************************)
Record == [at: Nat, frame: Frames \cup {None}]

Recorded ==
  /\ tick \in Nat
  /\ records \in [Cameras -> Seq(Record)]
  /\ DOMAIN _state \subseteq Cameras

Measured ==
  \A c \in DOMAIN _state : \E r \in Range(records[c]) :
    r.frame.density \in Nat /\ _state[c] \in 0..r.frame.density

IInv == Recorded /\ Measured /\ ForcedOnce

(* What the smoother makes of a frame is at most that frame's density or   *)
(* one it had measured before.                                             *)
LEMMA SmoothedIsMeasured ==
  ASSUME Measured, NEW c, NEW raw \in Nat
  PROVE  /\ Smoothed(c, raw) \in Nat
         /\ \/ Smoothed(c, raw) <= raw
            \/ \E r \in Range(records[c]) : r.frame.density \in Nat /\ Smoothed(c, raw) <= r.frame.density
<1>1. CASE c \notin DOMAIN _state
  BY <1>1 DEF Smoothed
<1>2. CASE c \in DOMAIN _state
  <2>1. PICK r \in Range(records[c]) : r.frame.density \in Nat /\ _state[c] \in 0..r.frame.density
    BY <1>2 DEF Measured
  <2> DEFINE old == r.frame.density
             top == IF raw <= old THEN old ELSE raw
  <2>2. top \in Nat /\ raw \in 0..top /\ _state[c] \in 0..top /\ Alpha \in 1..100
    BY <2>1, VehiclesAssumption
  <2>3. (Alpha * raw + (100 - Alpha) * _state[c]) \div 100 \in 0..top
    <3> HIDE DEF top
    <3> QED BY <2>2, MeanIsBounded
  <2>4. Smoothed(c, raw) \in 0..top
    BY <1>2, <2>3 DEF Smoothed
  <2> QED
    BY <2>1, <2>4
<1> QED
  BY <1>1, <1>2

LEMMA InitiallyInvariant == Init => IInv
BY DEF Init, IInv, Recorded, Measured, ForcedOnce

LEMMA StepsKeepInvariant == IInv /\ [Next]_vars => IInv'
<1> SUFFICES ASSUME IInv, [Next]_vars
             PROVE  IInv'
  OBVIOUS
<1>1. CASE UNCHANGED vars
  BY <1>1 DEF vars, IInv, Recorded, Measured, ForcedOnce
<1>2. CASE Next
  <2>1. PICK asked \in SUBSET Cameras :
          \E vision \in [asked -> Frames \cup {None}] :
            \E speeds \in [Usable(vision) -> BOOLEAN] : Tick(vision, speeds)
    BY <1>2 DEF Next
  <2>2. PICK vision \in [asked -> Frames \cup {None}] :
          \E speeds \in [Usable(vision) -> BOOLEAN] : Tick(vision, speeds)
    BY <2>1
  <2>3. PICK speeds \in [Usable(vision) -> BOOLEAN] : Tick(vision, speeds)
    BY <2>2
  <2> DEFINE ok == DOMAIN speeds
             tracks == [c \in Cameras |->
               IF c \in ok THEN _update_tracks(_tracks[c], vision[c].boxes, tick + 1)
               ELSE IF c \in DOMAIN vision THEN mark_camera_missed(_tracks[c]) ELSE _tracks[c]]
             stopped(c) == Stopped(tracks[c], speeds[c])
             density == [c \in ok |-> Density(c, vision[c], stopped(c))]
             new(c) == [at |-> tick + 1, frame |-> vision[c]]
  <2>4. /\ tick' = tick + 1
        /\ _state' = [c \in DOMAIN _state \cup ok |->
                        IF c \in ok THEN density[c].remembered ELSE _state[c]]
        /\ states' = [c \in ok |-> [density |-> density[c].used, vehicle_stopped |-> stopped(c)]]
        /\ records' = [c \in Cameras |->
                         IF c \in DOMAIN vision THEN Append(records[c], new(c)) ELSE records[c]]
    BY <2>3 DEF Tick
  <2> HIDE DEF tracks
  <2>5. ok \subseteq DOMAIN vision /\ DOMAIN vision \subseteq Cameras /\ \A c \in ok : vision[c] \in Frames
    BY <2>2, <2>3 DEF Usable
  <2>6. \A c \in DOMAIN vision : new(c) \in Record
    BY <2>2 DEF Record, IInv, Recorded
  <2>7. ASSUME NEW c \in Cameras
        PROVE  /\ records'[c] \in Seq(Record)
               /\ Range(records[c]) \subseteq Range(records'[c])
               /\ c \in DOMAIN vision => new(c) \in Range(records'[c])
    <3>1. records[c] \in Seq(Record)
      BY DEF IInv, Recorded
    <3>2. CASE c \in DOMAIN vision
      <4> HIDE DEF new
      <4>1. records'[c] = Append(records[c], new(c))
        BY <2>4, <3>2
      <4> QED
        BY <2>6, <3>1, <3>2, <4>1, RecordsGrow
    <3>3. CASE c \notin DOMAIN vision
      BY <2>4, <3>1, <3>3
    <3> QED
      BY <3>2, <3>3
  <2>8. ASSUME NEW c \in ok
        PROVE  /\ density[c].remembered \in Nat
               /\ \E r \in Range(records'[c]) :
                    r.frame.density \in Nat /\ density[c].remembered <= r.frame.density
               /\ stopped(c) => density[c].used > Critical
    <3> DEFINE d == Smoothed(c, vision[c].density)
    <3>1. vision[c].density \in Nat
      BY <2>5, <2>8, VehiclesAssumption DEF Frame
    <3>2. /\ d \in Nat
          /\ \/ d <= vision[c].density
             \/ \E r \in Range(records[c]) : r.frame.density \in Nat /\ d <= r.frame.density
      BY <3>1, SmoothedIsMeasured DEF IInv
    <3>3. density[c] = [remembered |-> d, used |-> IF stopped(c) THEN Promoted(d) ELSE d]
      BY <2>8 DEF Density
    <3> HIDE DEF d, density, stopped
    <3>4. Promoted(d) > Critical
      BY <3>2, VehiclesAssumption DEF Promoted
    <3>5. new(c) \in Range(records'[c]) /\ Range(records[c]) \subseteq Range(records'[c])
      BY <2>5, <2>7, <2>8
    <3>6. CASE d <= vision[c].density
      BY <3>1, <3>2, <3>3, <3>4, <3>5, <3>6
    <3>7. CASE \E r \in Range(records[c]) : r.frame.density \in Nat /\ d <= r.frame.density
      BY <3>2, <3>3, <3>4, <3>5, <3>7
    <3> QED
      BY <3>2, <3>6, <3>7
  <2> HIDE DEF density, stopped, new
  <2>9. Recorded'
    BY <2>4, <2>5, <2>7 DEF IInv, Recorded
  <2>10. Measured'
    <3> SUFFICES ASSUME NEW c \in DOMAIN _state'
                 PROVE  \E r \in Range(records'[c]) : r.frame.density \in Nat /\ _state'[c] \in 0..r.frame.density
      BY DEF Measured
    <3>1. CASE c \in ok
      <4>1. _state'[c] = density[c].remembered
        BY <2>4, <3>1
      <4>2. PICK r \in Range(records'[c]) :
              r.frame.density \in Nat /\ density[c].remembered <= r.frame.density
        BY <2>8, <3>1
      <4>3. _state'[c] \in 0..r.frame.density
        BY <2>8, <3>1, <4>1, <4>2
      <4> QED
        BY <4>2, <4>3
    <3>2. CASE c \notin ok
      <4>1. c \in DOMAIN _state /\ _state'[c] = _state[c] /\ c \in Cameras
        BY <2>4, <3>2 DEF IInv, Recorded
      <4> QED
        BY <2>7, <4>1 DEF IInv, Measured
    <3> QED
      BY <3>1, <3>2
  <2>11. \A c \in DOMAIN states' : states'[c].vehicle_stopped => states'[c].density > Critical
    BY <2>4, <2>8
  <2>12. \A c \in DOMAIN _state' : \E r \in Range(records'[c]) : _state'[c] <= r.frame.density
    BY <2>10 DEF Measured
  <2> QED
    BY <2>9, <2>10, <2>11, <2>12 DEF IInv, ForcedOnce
<1> QED
  BY <1>1, <1>2

(* However the boxes fall, a stopped vehicle puts its camera above the     *)
(* critical density, and no average ever contains a forced density.        *)
THEOREM ForcedDensityStaysOut == Spec => []ForcedOnce
<1>1. IInv => ForcedOnce
  BY DEF IInv
<1> QED
  BY <1>1, InitiallyInvariant, StepsKeepInvariant, PTL DEF Spec

(***************************************************************************)
(* What the loops of the tracker compute.                                  *)
(***************************************************************************)

\* A track before the tick has dropped the ones missed too often.
Loose == [box: Spots, hits: Nat, missed: Nat, seen: SUBSET Nat]

\* What Match is given and returns.
Acc == {a \in [tracks: Seq(Loose), matched: SUBSET Nat] : a.matched \subseteq DOMAIN a.tracks}

(* The distance of two spots is a number, and 0 only of a spot to itself.  *)
LEMMA DistanceIsNat ==
  ASSUME NEW a \in Spots, NEW b \in Spots
  PROVE  Distance(a, b) \in Nat /\ Distance(a, b) = Distance(b, a) /\ (Distance(a, b) = 0 <=> a = b)
BY VehiclesAssumption DEF Distance

(* Among candidates there is a first of the best.                          *)
LEMMA BestIsCandidate ==
  ASSUME NEW tracks \in Seq(Loose), NEW S \in SUBSET DOMAIN tracks, S # {}, NEW box \in Spots
  PROVE  /\ Best(tracks, S, box) \in S
         /\ \A j \in S : Distance(tracks[Best(tracks, S, box)].box, box) <= Distance(tracks[j].box, box)
<1> DEFINE d(i) == Distance(tracks[i].box, box)
           Beats(i, j) == d(i) < d(j) \/ (d(i) = d(j) /\ i < j)
<1>1. Len(tracks) \in Nat /\ DOMAIN tracks = 1..Len(tracks) BY LenProperties
<1>2. ASSUME NEW i \in DOMAIN tracks PROVE d(i) \in Nat /\ i \in Nat /\ tracks[i].box \in Spots
  <2>1. tracks[i] \in Loose BY ElementOfSeq, <1>1
  <2>2. tracks[i].box \in Spots BY <2>1 DEF Loose
  <2> QED BY <2>2, DistanceIsNat, <1>1
<1> HIDE DEF d
<1>3. \E i \in S : \A j \in S : d(i) <= d(j)
  <2> DEFINE D == {d(i) : i \in S}
  <2>1. D \in SUBSET Nat /\ D # {} BY <1>2
  <2> HIDE DEF D
  <2>2. PICK x \in D : \A y \in D : x <= y BY <2>1, LeastExists
  <2> QED BY <2>2 DEF D
<1>4. PICK m \in S : \A j \in S : d(m) <= d(j) BY <1>3
<1> DEFINE T == {i \in S : d(i) = d(m)}
<1>5. T \in SUBSET Nat /\ T # {} BY <1>2
<1> HIDE DEF T
<1>7. PICK f \in T : \A y \in T : f <= y BY <1>5, LeastExists
<1>8. f \in S /\ d(f) = d(m) BY <1>7 DEF T
<1>9. \A j \in S \ {f} : Beats(f, j)
  <2> SUFFICES ASSUME NEW j \in S, j # f PROVE Beats(f, j) OBVIOUS
  <2>1. CASE d(j) = d(m)
    <3>1. j \in T BY <2>1 DEF T
    <3>2. f \in Nat /\ j \in Nat /\ f <= j BY <1>5, <1>7, <3>1
    <3>3. f < j BY <3>2
    <3> QED BY <2>1, <1>8, <3>3
  <2>2. CASE d(j) # d(m)
    <3>1. d(f) < d(j) BY <1>2, <1>4, <1>8, <2>2
    <3> QED BY <3>1
  <2> QED BY <2>1, <2>2
<1>10. Best(tracks, S, box) = CHOOSE i \in S : \A j \in S \ {i} : Beats(i, j)
  BY DEF Best, d
<1> DEFINE b == CHOOSE i \in S : \A j \in S \ {i} : Beats(i, j)
<1>11. b \in S /\ \A j \in S \ {b} : Beats(b, j) BY <1>8, <1>9
<1>12. \A j \in S : d(b) <= d(j)
  <2> SUFFICES ASSUME NEW j \in S PROVE d(b) <= d(j) OBVIOUS
  <2>1. d(b) \in Nat /\ d(j) \in Nat BY <1>2, <1>11
  <2>2. j = b \/ Beats(b, j) BY <1>11
  <2> HIDE DEF b
  <2> QED BY <2>1, <2>2
<1> QED BY <1>10, <1>11, <1>12 DEF d

(* One box gives it to a track, or makes one.                              *)
LEMMA MatchIsTyped ==
  ASSUME NEW a \in Acc, NEW box \in Spots, NEW t \in Nat
  PROVE  Match(a, box, t) \in Acc
<1> DEFINE near == Candidates(a.tracks, a.matched, box)
           new == [box |-> box, hits |-> 1, missed |-> 0, seen |-> {t}]
<1>1. a.tracks \in Seq(Loose) /\ a.matched \subseteq DOMAIN a.tracks BY DEF Acc
<1>2. Len(a.tracks) \in Nat /\ DOMAIN a.tracks = 1..Len(a.tracks) BY <1>1, LenProperties
<1>3. CASE near = {}
  <2>1. new \in Loose BY DEF Loose
  <2> HIDE DEF new
  <2>2. /\ Append(a.tracks, new) \in Seq(Loose)
        /\ Len(Append(a.tracks, new)) = Len(a.tracks) + 1
    BY <1>1, <2>1, AppendProperties
  <2>3. DOMAIN Append(a.tracks, new) = 1..(Len(a.tracks) + 1) BY <2>2, LenProperties
  <2>4. Match(a, box, t) = [tracks  |-> Append(a.tracks, new),
                            matched |-> a.matched \cup {Len(a.tracks) + 1}]
    BY <1>3 DEF Match, new
  <2>5. a.matched \cup {Len(a.tracks) + 1} \subseteq 1..(Len(a.tracks) + 1) BY <1>1, <1>2
  <2> QED BY <1>2, <2>2, <2>3, <2>4, <2>5 DEF Acc
<1>4. CASE near # {}
  <2> DEFINE i == Best(a.tracks, near, box)
             put == [box |-> box, hits |-> a.tracks[i].hits + 1, missed |-> 0,
                     seen |-> a.tracks[i].seen \cup {t}]
             tracks == [a.tracks EXCEPT ![i] = put]
  <2>1. near \in SUBSET DOMAIN a.tracks BY DEF Candidates
  <2>2. i \in near BY <1>1, <1>4, <2>1, BestIsCandidate
  <2>3. i \in DOMAIN a.tracks BY <2>1, <2>2
  <2>4. a.tracks[i] \in Loose BY <1>1, <1>2, <2>3, ElementOfSeq
  <2>5. put \in Loose BY <2>4 DEF Loose
  <2>6. Match(a, box, t) = [tracks |-> tracks, matched |-> a.matched \cup {i}]
    BY <1>4 DEF Match
  <2> HIDE DEF put, i
  <2>7. tracks \in Seq(Loose) /\ DOMAIN tracks = DOMAIN a.tracks
    BY <1>1, <1>2, <2>3, <2>5, ExceptSeq
  <2>8. a.matched \cup {i} \subseteq DOMAIN a.tracks /\ a.matched \cup {i} \subseteq Nat
    BY <1>1, <1>2, <2>3
  <2> HIDE DEF tracks
  <2> QED BY <2>6, <2>7, <2>8 DEF Acc
<1> QED BY <1>3, <1>4

(* The tracks and matches after each box of a frame.                       *)
LEMMA MatchLoop ==
  ASSUME NEW tracks \in Seq(Loose), NEW boxes \in Seq(Spots), NEW t \in Nat
  PROVE  \E F \in [0..Len(boxes) -> Acc] :
           /\ F[0] = [tracks |-> tracks, matched |-> {}]
           /\ \A k \in 1..Len(boxes) : F[k] = Match(F[k - 1], boxes[k], t)
           /\ _update_tracks(tracks, boxes, t)
                = Surviving(Aged(F[Len(boxes)].tracks, F[Len(boxes)].matched))
<1> DEFINE n == Len(boxes)
           base == [tracks |-> tracks, matched |-> {}]
           Rhs(f, s) == IF s = {} THEN base ELSE Match(f[s \ {Max(s)}], boxes[Max(s)], t)
           iter == CHOOSE f : f = [s \in SUBSET (1..n) |-> Rhs(f, s)]
           step == [i \in 1..n |-> [a \in Acc |-> Match(a, boxes[i], t)]]
<1>1. n \in Nat /\ DOMAIN boxes = 1..n /\ \A i \in 1..n : boxes[i] \in Spots
  BY LenProperties, ElementOfSeq
<1>2. base \in Acc BY DEF Acc
<1>3. step \in [1..n -> [Acc -> Acc]] BY <1>1, MatchIsTyped
<1>4. _update_tracks(tracks, boxes, t) = Surviving(Aged(iter[1..n].tracks, iter[1..n].matched))
  BY <1>1, Zenon DEF _update_tracks, FoldLeft, MapThenFoldSet
<1> HIDE DEF n, base, step
<1>5. PICK f \in [SUBSET (1..n) -> Acc] : Loops(f, n, base, step)
  BY <1>1, <1>2, <1>3, LoopExists
<1>6. \A s \in SUBSET (1..n) :
        (IF s = {} THEN base ELSE step[Max(s)][f[s \ {Max(s)}]]) = Rhs(f, s)
  <2> SUFFICES ASSUME NEW s \in SUBSET (1..n), s # {}
               PROVE  step[Max(s)][f[s \ {Max(s)}]] = Match(f[s \ {Max(s)}], boxes[Max(s)], t)
    OBVIOUS
  <2>1. Max(s) \in 1..n BY <1>1, MaxIsMember
  <2>2. f[s \ {Max(s)}] \in Acc BY <1>5
  <2> QED BY <2>1, <2>2 DEF step
<1>7. f = [s \in SUBSET (1..n) |-> Rhs(f, s)] BY <1>5, <1>6 DEF Loops
<1>8. iter = [s \in SUBSET (1..n) |-> Rhs(iter, s)] BY <1>7, Zenon
<1> HIDE DEF iter
<1> DEFINE F == [k \in 0..n |-> iter[1..k]]
<1>9. F[0] = base
  <2>1. 1..0 = {} /\ {} \in SUBSET (1..n) /\ 0 \in 0..n BY <1>1
  <2>2. F[0] = iter[{}] BY <2>1
  <2> QED BY <1>8, <2>1, <2>2
<1>10. ASSUME NEW k \in 1..n PROVE F[k] = Match(F[k - 1], boxes[k], t)
  <2>1. /\ Max(1..k) = k /\ (1..k) \ {k} = 1..(k - 1) /\ 1..k # {}
        /\ 1..k \in SUBSET (1..n)
    BY <1>1, MaxOfPrefix
  <2>2. k \in 0..n /\ k - 1 \in 0..n BY <1>1
  <2>3. iter[1..k] = Rhs(iter, 1..k) BY <1>8, <2>1
  <2> QED BY <2>1, <2>2, <2>3
<1>11. F \in [0..n -> Acc]
  <2> DEFINE K == {k \in 0..n : F[k] \in Acc}
  <2> HIDE DEF F
  <2>1. 0 \in K BY <1>1, <1>2, <1>9
  <2>2. ASSUME NEW k \in 1..n, k - 1 \in K PROVE k \in K
    <3>1. boxes[k] \in Spots /\ F[k - 1] \in Acc /\ k \in 0..n BY <1>1, <2>2
    <3> QED BY <1>10, <3>1, MatchIsTyped
  <2> HIDE DEF K
  <2>3. 0..n \subseteq K BY <1>1, <2>1, <2>2, UpToInduction
  <2>4. \A k \in 0..n : F[k] \in Acc BY <2>3 DEF K
  <2> QED BY <2>4 DEF F
<1>12. F[n] = iter[1..n] BY <1>1
<1>13. _update_tracks(tracks, boxes, t) = Surviving(Aged(F[n].tracks, F[n].matched))
  BY <1>4, <1>12, Zenon
<1> QED BY <1>9, <1>10, <1>11, <1>13 DEF n, base

(* The tracks that have been kept after looking at each track.             *)
LEMMA KeptLoop ==
  ASSUME NEW tracks \in Seq(Loose), NEW most \in Nat
  PROVE  \E F \in [0..Len(tracks) -> Seq(Loose)] :
           /\ F[0] = <<>>
           /\ \A k \in 1..Len(tracks) :
                F[k] = IF tracks[k].missed <= most THEN Append(F[k - 1], tracks[k]) ELSE F[k - 1]
           /\ Kept(tracks, most) = F[Len(tracks)]
<1> DEFINE n == Len(tracks)
           A == Seq(Loose)
           Take(kept, i) == IF tracks[i].missed <= most THEN Append(kept, tracks[i]) ELSE kept
           Rhs(f, s) == IF s = {} THEN <<>> ELSE Take(f[s \ {Max(s)}], Max(s))
           iter == CHOOSE f : f = [s \in SUBSET (1..n) |-> Rhs(f, s)]
           step == [i \in 1..n |-> [a \in A |-> Take(a, i)]]
<1>1. n \in Nat /\ DOMAIN tracks = 1..n /\ \A i \in 1..n : tracks[i] \in Loose
  BY LenProperties, ElementOfSeq
<1>2. <<>> \in A OBVIOUS
<1>3. ASSUME NEW a \in A, NEW i \in 1..n PROVE Take(a, i) \in A
  BY <1>1, AppendProperties
<1>4. Kept(tracks, most) = iter[1..n]
  BY <1>1, Zenon DEF Kept, FoldLeft, MapThenFoldSet
<1> HIDE DEF n, A, Take
<1>5. step \in [1..n -> [A -> A]] BY <1>3
<1> HIDE DEF step
<1>6. PICK f \in [SUBSET (1..n) -> A] : Loops(f, n, <<>>, step)
  BY <1>1, <1>2, <1>5, LoopExists
<1>7. \A s \in SUBSET (1..n) :
        (IF s = {} THEN <<>> ELSE step[Max(s)][f[s \ {Max(s)}]]) = Rhs(f, s)
  <2> SUFFICES ASSUME NEW s \in SUBSET (1..n), s # {}
               PROVE  step[Max(s)][f[s \ {Max(s)}]] = Take(f[s \ {Max(s)}], Max(s))
    OBVIOUS
  <2>1. Max(s) \in 1..n BY <1>1, MaxIsMember
  <2>2. f[s \ {Max(s)}] \in A BY <1>6
  <2> QED BY <2>1, <2>2 DEF step
<1>8. f = [s \in SUBSET (1..n) |-> Rhs(f, s)] BY <1>6, <1>7 DEF Loops
<1>9. iter = [s \in SUBSET (1..n) |-> Rhs(iter, s)] BY <1>8, Zenon
<1> HIDE DEF iter
<1> DEFINE F == [k \in 0..n |-> iter[1..k]]
<1>10. F[0] = <<>>
  <2>1. 1..0 = {} /\ {} \in SUBSET (1..n) /\ 0 \in 0..n BY <1>1
  <2>2. F[0] = iter[{}] BY <2>1
  <2> QED BY <1>9, <2>1, <2>2
<1>11. ASSUME NEW k \in 1..n PROVE F[k] = Take(F[k - 1], k)
  <2>1. /\ Max(1..k) = k /\ (1..k) \ {k} = 1..(k - 1) /\ 1..k # {}
        /\ 1..k \in SUBSET (1..n)
    BY <1>1, MaxOfPrefix
  <2>2. k \in 0..n /\ k - 1 \in 0..n BY <1>1
  <2>3. iter[1..k] = Rhs(iter, 1..k) BY <1>9, <2>1
  <2> QED BY <2>1, <2>2, <2>3
<1>12. F \in [0..n -> A]
  <2> DEFINE K == {k \in 0..n : F[k] \in A}
  <2> HIDE DEF F
  <2>1. 0 \in K BY <1>1, <1>2, <1>10
  <2>2. ASSUME NEW k \in 1..n, k - 1 \in K PROVE k \in K
    <3>1. F[k - 1] \in A /\ k \in 0..n BY <1>1, <2>2
    <3> QED BY <1>3, <1>11, <3>1
  <2> HIDE DEF K
  <2>3. 0..n \subseteq K BY <1>1, <2>1, <2>2, UpToInduction
  <2>4. \A k \in 0..n : F[k] \in A BY <2>3 DEF K
  <2> QED BY <2>4 DEF F
<1>13. F[n] = iter[1..n] BY <1>1
<1> HIDE DEF F
<1> QED BY <1>4, <1>10, <1>11, <1>12, <1>13 DEF n, A, Take

\* Which of the tracks 1..k each one that is kept is: h.
Keeps(kept, tracks, k, most, h) ==
  /\ h \in [1..Len(kept) -> 1..k]
  /\ \A j \in 1..Len(kept) : kept[j] = tracks[h[j]] /\ tracks[h[j]].missed <= most
  /\ \A i, j \in 1..Len(kept) : i # j => h[i] # h[j]
  /\ \A i \in 1..k : tracks[i].missed <= most => \E j \in 1..Len(kept) : h[j] = i

(* One more track is looked at.                                            *)
LEMMA KeepsOneMore ==
  ASSUME NEW tracks \in Seq(Loose), NEW most \in Nat, NEW k \in 1..Len(tracks),
         NEW kept \in Seq(Loose), NEW h, Keeps(kept, tracks, k - 1, most, h)
  PROVE  \E g : Keeps(IF tracks[k].missed <= most THEN Append(kept, tracks[k]) ELSE kept,
                      tracks, k, most, g)
<1> DEFINE l == Len(kept)
<1>1. tracks[k] \in Loose BY ElementOfSeq
<1>2. l \in Nat /\ k \in Nat BY LenProperties
<1>3. /\ h \in [1..l -> 1..(k - 1)]
      /\ \A j \in 1..l : kept[j] = tracks[h[j]] /\ tracks[h[j]].missed <= most
      /\ \A i, j \in 1..l : i # j => h[i] # h[j]
      /\ \A i \in 1..(k - 1) : tracks[i].missed <= most => \E j \in 1..l : h[j] = i
  BY DEF Keeps
<1>4. CASE tracks[k].missed <= most
  <2> DEFINE more == Append(kept, tracks[k])
             g == [j \in 1..(l + 1) |-> IF j = l + 1 THEN k ELSE h[j]]
  <2>1. /\ Len(more) = l + 1 /\ more[l + 1] = tracks[k]
        /\ \A j \in 1..l : more[j] = kept[j]
    BY <1>1, AppendProperties
  <2> HIDE DEF l, more
  <2>2. g \in [1..(l + 1) -> 1..k] BY <1>2, <1>3
  <2>3. \A j \in 1..(l + 1) : more[j] = tracks[g[j]] /\ tracks[g[j]].missed <= most
    <3> SUFFICES ASSUME NEW j \in 1..(l + 1)
                 PROVE  more[j] = tracks[g[j]] /\ tracks[g[j]].missed <= most OBVIOUS
    <3>1. CASE j = l + 1 BY <1>2, <1>4, <2>1, <3>1
    <3>2. CASE j # l + 1
      <4>1. j \in 1..l /\ g[j] = h[j] BY <1>2, <3>2
      <4> QED BY <1>3, <2>1, <4>1
    <3> QED BY <3>1, <3>2
  <2>4. \A i, j \in 1..(l + 1) : i # j => g[i] # g[j]
    <3>1. \A j \in 1..l : h[j] # k BY <1>2, <1>3
    <3>2. \A j \in 1..(l + 1) : j = l + 1 \/ j \in 1..l BY <1>2
    <3> QED BY <1>2, <1>3, <3>1, <3>2
  <2>5. \A i \in 1..k : tracks[i].missed <= most => \E j \in 1..(l + 1) : g[j] = i
    <3> SUFFICES ASSUME NEW i \in 1..k, tracks[i].missed <= most
                 PROVE  \E j \in 1..(l + 1) : g[j] = i OBVIOUS
    <3>1. CASE i = k
      <4>1. l + 1 \in 1..(l + 1) /\ g[l + 1] = k BY <1>2
      <4> QED BY <3>1, <4>1
    <3>2. CASE i # k
      <4>1. i \in 1..(k - 1) BY <1>2, <3>2
      <4>2. PICK j \in 1..l : h[j] = i BY <1>3, <4>1
      <4>3. j \in 1..(l + 1) /\ g[j] = i BY <1>2, <4>2
      <4> QED BY <4>3
    <3> QED BY <3>1, <3>2
  <2> HIDE DEF g
  <2>6. Keeps(more, tracks, k, most, g) BY <2>1, <2>2, <2>3, <2>4, <2>5 DEF Keeps
  <2> QED BY <1>4, <2>6 DEF more
<1>5. CASE ~ (tracks[k].missed <= most)
  <2>1. h \in [1..l -> 1..k] BY <1>2, <1>3
  <2>2. \A i \in 1..k : tracks[i].missed <= most => i \in 1..(k - 1) BY <1>2, <1>5
  <2>3. Keeps(kept, tracks, k, most, h) BY <1>3, <2>1, <2>2 DEF Keeps
  <2> QED BY <1>5, <2>3
<1> QED BY <1>4, <1>5

(* What is kept is each of the tracks that missed few enough, once.        *)
LEMMA KeptSays ==
  ASSUME NEW tracks \in Seq(Loose), NEW most \in Nat
  PROVE  /\ Kept(tracks, most) \in Seq(Loose)
         /\ \E h : Keeps(Kept(tracks, most), tracks, Len(tracks), most, h)
<1> DEFINE n == Len(tracks)
<1>1. PICK F \in [0..n -> Seq(Loose)] :
        /\ F[0] = <<>>
        /\ \A k \in 1..n :
             F[k] = IF tracks[k].missed <= most THEN Append(F[k - 1], tracks[k]) ELSE F[k - 1]
        /\ Kept(tracks, most) = F[n]
  BY KeptLoop
<1> DEFINE K == {k \in 0..n : \E h : Keeps(F[k], tracks, k, most, h)}
<1>2. n \in Nat BY LenProperties
<1>3. 0 \in K
  <2> DEFINE h == [j \in 1..0 |-> 0]
  <2>1. 0 \in 0..n /\ Len(F[0]) = 0 /\ 1..0 = {} BY <1>1, <1>2
  <2>2. Keeps(F[0], tracks, 0, most, h) BY <2>1 DEF Keeps
  <2> QED BY <2>1, <2>2
<1>4. ASSUME NEW k \in 1..n, k - 1 \in K PROVE k \in K
  <2>0. k - 1 \in 0..n /\ k \in 0..n
    <3> HIDE DEF n
    <3> QED BY <1>2
  <2>1. k - 1 \in 0..n /\ k \in 0..n /\ F[k - 1] \in Seq(Loose) BY <1>1, <2>0
  <2>2. PICK h : Keeps(F[k - 1], tracks, k - 1, most, h) BY <1>4
  <2>3. \E g : Keeps(F[k], tracks, k, most, g) BY <1>1, <2>1, <2>2, KeepsOneMore
  <2> QED BY <2>1, <2>3
<1>5. n \in K
  <2> HIDE DEF K, n
  <2>1. 0..n \subseteq K BY <1>2, <1>3, <1>4, UpToInduction
  <2> QED BY <1>2, <2>1
<1> QED BY <1>1, <1>2, <1>5

(***************************************************************************)
(* What a frame does to the tracks.                                        *)
(***************************************************************************)
Fresh(x, t)      == x.hits = 1 /\ x.missed = 0 /\ x.seen = {t}
Sighted(x, y, t) == x.hits = y.hits + 1 /\ x.missed = 0 /\ x.seen = y.seen \cup {t}

\* From a to b, the box was given to track i: the best of those near it, or a new one.
Takes(a, b, i, box, t) ==
  LET d(j) == Distance(a.tracks[j].box, box)
      free == DOMAIN a.tracks \ a.matched
  IN
  /\ i \notin a.matched /\ b.matched = a.matched \cup {i}
  /\ DOMAIN b.tracks = DOMAIN a.tracks \cup {i}
  /\ b.tracks[i].box = box
  /\ \A j \in DOMAIN a.tracks \ {i} : b.tracks[j] = a.tracks[j]
  /\ \/ /\ i \in DOMAIN a.tracks /\ Sighted(b.tracks[i], a.tracks[i], t)
        /\ d(i) <= Near /\ \A j \in free : d(i) <= d(j)
     \/ /\ i \notin DOMAIN a.tracks /\ Fresh(b.tracks[i], t)
        /\ \A j \in free : ~ (d(j) <= Near)

(* Match gives a box to one track that has none yet.                       *)
LEMMA MatchTakes ==
  ASSUME NEW a \in Acc, NEW box \in Spots, NEW t \in Nat
  PROVE  \E i : Takes(a, Match(a, box, t), i, box, t)
<1> DEFINE near == Candidates(a.tracks, a.matched, box)
           new == [box |-> box, hits |-> 1, missed |-> 0, seen |-> {t}]
<1>1. a.tracks \in Seq(Loose) /\ a.matched \subseteq DOMAIN a.tracks BY DEF Acc
<1>2. Len(a.tracks) \in Nat /\ DOMAIN a.tracks = 1..Len(a.tracks) BY <1>1, LenProperties
<1>3. CASE near = {}
  <2> DEFINE i == Len(a.tracks) + 1
             b == [tracks |-> Append(a.tracks, new), matched |-> a.matched \cup {i}]
  <2>1. new \in Loose BY DEF Loose
  <2>2. Fresh(new, t) /\ new.box = box BY DEF Fresh
  <2> HIDE DEF new
  <2>3. /\ Append(a.tracks, new) \in Seq(Loose)
        /\ Len(Append(a.tracks, new)) = Len(a.tracks) + 1
        /\ \A j \in 1..Len(a.tracks) : Append(a.tracks, new)[j] = a.tracks[j]
        /\ Append(a.tracks, new)[Len(a.tracks) + 1] = new
    BY <1>1, <2>1, AppendProperties
  <2>4. DOMAIN Append(a.tracks, new) = 1..(Len(a.tracks) + 1) BY <2>3, LenProperties
  <2>5. b = Match(a, box, t) BY <1>3 DEF Match, new
  <2>6. i \notin DOMAIN a.tracks /\ 1..(Len(a.tracks) + 1) = DOMAIN a.tracks \cup {i} BY <1>2
  <2>7. \A j \in DOMAIN a.tracks \ a.matched : ~ (Distance(a.tracks[j].box, box) <= Near)
    BY <1>3 DEF Candidates
  <2>8. /\ i \notin a.matched /\ b.matched = a.matched \cup {i}
        /\ DOMAIN b.tracks = DOMAIN a.tracks \cup {i}
        /\ b.tracks[i].box = box /\ Fresh(b.tracks[i], t)
        /\ \A j \in DOMAIN a.tracks \ {i} : b.tracks[j] = a.tracks[j]
    BY <1>1, <1>2, <2>2, <2>3, <2>4, <2>6
  <2> HIDE DEF b, i
  <2>9. Takes(a, b, i, box, t) BY <2>6, <2>7, <2>8 DEF Takes
  <2> QED BY <2>5, <2>9
<1>4. CASE near # {}
  <2> DEFINE i == Best(a.tracks, near, box)
             put == [box |-> box, hits |-> a.tracks[i].hits + 1, missed |-> 0,
                     seen |-> a.tracks[i].seen \cup {t}]
             b == [tracks |-> [a.tracks EXCEPT ![i] = put], matched |-> a.matched \cup {i}]
  <2>1. near \in SUBSET DOMAIN a.tracks BY DEF Candidates
  <2>2. /\ i \in near
        /\ \A j \in near : Distance(a.tracks[i].box, box) <= Distance(a.tracks[j].box, box)
    BY <1>1, <1>4, <2>1, BestIsCandidate
  <2>3. i \in DOMAIN a.tracks /\ i \notin a.matched /\ Distance(a.tracks[i].box, box) <= Near
    BY <2>2 DEF Candidates
  <2>4. Sighted(put, a.tracks[i], t) /\ put.box = box BY DEF Sighted
  <2>5. Match(a, box, t) = b BY <1>4 DEF Match
  <2>6. ASSUME NEW j \in DOMAIN a.tracks \ a.matched
        PROVE  Distance(a.tracks[i].box, box) <= Distance(a.tracks[j].box, box)
    <3>1. CASE j \in near BY <2>2, <3>1
    <3>2. CASE j \notin near
      <4>1. ~ (Distance(a.tracks[j].box, box) <= Near) BY <3>2 DEF Candidates
      <4>2. a.tracks[i] \in Loose /\ a.tracks[j] \in Loose BY <1>1, <1>2, <2>3, ElementOfSeq
      <4>3. a.tracks[i].box \in Spots /\ a.tracks[j].box \in Spots BY <4>2 DEF Loose
      <4>4. /\ Distance(a.tracks[i].box, box) \in Nat
            /\ Distance(a.tracks[j].box, box) \in Nat /\ Near \in Nat
        BY <4>3, DistanceIsNat, VehiclesAssumption
      <4> HIDE DEF i
      <4> QED BY <2>3, <4>1, <4>4
    <3> QED BY <3>1, <3>2
  <2> HIDE DEF put, i
  <2>7. /\ b.matched = a.matched \cup {i} /\ DOMAIN b.tracks = DOMAIN a.tracks \cup {i}
        /\ b.tracks[i] = put /\ \A j \in DOMAIN a.tracks \ {i} : b.tracks[j] = a.tracks[j]
    BY <2>3
  <2> HIDE DEF b
  <2>8. Takes(a, b, i, box, t) BY <2>3, <2>4, <2>6, <2>7 DEF Takes
  <2> QED BY <2>5, <2>8
<1> QED BY <1>3, <1>4

\* What became of the tracks by the time a is reached: matched, made, or as they were.
Taken(a, tracks, t) ==
  /\ DOMAIN tracks \subseteq DOMAIN a.tracks
  /\ \A i \in DOMAIN a.tracks :
       \/ i \in a.matched /\ i \in DOMAIN tracks /\ Sighted(a.tracks[i], tracks[i], t)
       \/ i \in a.matched /\ i \notin DOMAIN tracks /\ Fresh(a.tracks[i], t)
       \/ i \notin a.matched /\ i \in DOMAIN tracks /\ a.tracks[i] = tracks[i]

(* One more box leaves it so.                                              *)
LEMMA TakesKeepsTaken ==
  ASSUME NEW a, NEW b, NEW i, NEW box, NEW t, NEW tracks,
         Taken(a, tracks, t), Takes(a, b, i, box, t)
  PROVE  Taken(b, tracks, t)
<1>1. /\ i \notin a.matched /\ b.matched = a.matched \cup {i}
      /\ DOMAIN b.tracks = DOMAIN a.tracks \cup {i}
      /\ \A j \in DOMAIN a.tracks \ {i} : b.tracks[j] = a.tracks[j]
      /\ \/ i \in DOMAIN a.tracks /\ Sighted(b.tracks[i], a.tracks[i], t)
         \/ i \notin DOMAIN a.tracks /\ Fresh(b.tracks[i], t)
  BY DEF Takes
<1>2. DOMAIN tracks \subseteq DOMAIN b.tracks BY <1>1 DEF Taken
<1>3. ASSUME NEW j \in DOMAIN b.tracks
      PROVE  \/ j \in b.matched /\ j \in DOMAIN tracks /\ Sighted(b.tracks[j], tracks[j], t)
             \/ j \in b.matched /\ j \notin DOMAIN tracks /\ Fresh(b.tracks[j], t)
             \/ j \notin b.matched /\ j \in DOMAIN tracks /\ b.tracks[j] = tracks[j]
  <2>1. CASE j # i
    <3>1. j \in DOMAIN a.tracks /\ b.tracks[j] = a.tracks[j] /\ (j \in b.matched <=> j \in a.matched)
      BY <1>1, <2>1
    <3> QED BY <3>1 DEF Taken
  <2>2. CASE j = i /\ i \in DOMAIN a.tracks
    <3>1. i \in DOMAIN tracks /\ a.tracks[i] = tracks[i] BY <1>1, <2>2 DEF Taken
    <3> QED BY <1>1, <2>2, <3>1
  <2>3. CASE j = i /\ i \notin DOMAIN a.tracks
    <3>1. i \notin DOMAIN tracks BY <2>3 DEF Taken
    <3> QED BY <1>1, <2>3, <3>1
  <2> QED BY <2>1, <2>2, <2>3
<1> QED BY <1>2, <1>3 DEF Taken

Distinct(tracks) == \A i, j \in DOMAIN tracks : tracks[i].box = tracks[j].box => i = j

\* Where the first k boxes of a frame went: each to a track of its own, to the one at its
\* very spot if there was one.
Placed(a, tracks, boxes, k) ==
  /\ \A i \in a.matched : \E m \in 1..k :
       /\ a.tracks[i].box = boxes[m]
       /\ i \in DOMAIN tracks => Distance(tracks[i].box, boxes[m]) <= Near
  /\ \A i, j \in a.matched : a.tracks[i].box = a.tracks[j].box => i = j
  /\ \A m \in 1..k : \E i \in a.matched :
       /\ a.tracks[i].box = boxes[m]
       /\ \A j \in DOMAIN tracks : tracks[j].box = boxes[m] => j = i

(* In a separated frame no box takes the track of another.                 *)
LEMMA TakesKeepsPlaced ==
  ASSUME NEW tracks \in Seq(Loose), Distinct(tracks),
         NEW boxes \in Seq(Spots), Separated(boxes), NEW k \in 1..Len(boxes), NEW t,
         NEW a \in Acc, NEW b, NEW i, Takes(a, b, i, boxes[k], t),
         Taken(a, tracks, t), Placed(a, tracks, boxes, k - 1)
  PROVE  Placed(b, tracks, boxes, k)
<1> DEFINE box == boxes[k]
           d(j) == Distance(a.tracks[j].box, box)
<1>1. /\ i \notin a.matched /\ b.matched = a.matched \cup {i}
      /\ a.matched \subseteq DOMAIN a.tracks
      /\ \A j \in a.matched : j # i /\ b.tracks[j] = a.tracks[j]
      /\ b.tracks[i].box = box
  BY DEF Takes, Acc
<1>2. k \in Nat /\ k \in 1..k /\ \A m \in 1..(k - 1) : m \in 1..k /\ m \in 1..Len(boxes) /\ m # k
  BY LenProperties
<1>3. \A m \in 1..Len(boxes) : boxes[m] \in Spots /\ m \in DOMAIN boxes
  BY ElementOfSeq, LenProperties
<1>4. \A m \in 1..(k - 1) : Distance(box, boxes[m]) > Near /\ boxes[m] # box
  <2> SUFFICES ASSUME NEW m \in 1..(k - 1)
               PROVE  Distance(box, boxes[m]) > Near /\ boxes[m] # box OBVIOUS
  <2>1. Distance(box, boxes[m]) > Near BY <1>2, <1>3 DEF Separated
  <2>2. box \in Spots /\ boxes[m] \in Spots BY <1>2, <1>3
  <2>3. Distance(box, boxes[m]) # 0 /\ (Distance(box, boxes[m]) = 0 <=> box = boxes[m])
    <3>1. Distance(box, boxes[m]) \in Nat /\ (Distance(box, boxes[m]) = 0 <=> box = boxes[m])
      BY <2>2, DistanceIsNat
    <3> HIDE DEF box
    <3> QED BY <2>1, <3>1, VehiclesAssumption
  <2> QED BY <2>1, <2>3, Zenon
<1>5. \A j \in DOMAIN tracks : tracks[j].box \in Spots
  <2> SUFFICES ASSUME NEW j \in DOMAIN tracks PROVE tracks[j].box \in Spots OBVIOUS
  <2>1. tracks[j] \in Loose BY LenProperties, ElementOfSeq
  <2> QED BY <2>1 DEF Loose
<1>6. ASSUME i \in DOMAIN a.tracks
      PROVE  i \in DOMAIN tracks /\ a.tracks[i] = tracks[i] /\ d(i) <= Near
             /\ \A j \in DOMAIN a.tracks \ a.matched : d(i) <= d(j)
  BY <1>1, <1>6 DEF Taken, Takes
<1>7. \A j \in DOMAIN tracks : j \in DOMAIN a.tracks BY DEF Taken
<1>8. \A j \in b.matched : \E m \in 1..k :
        /\ b.tracks[j].box = boxes[m]
        /\ j \in DOMAIN tracks => Distance(tracks[j].box, boxes[m]) <= Near
  <2> SUFFICES ASSUME NEW j \in b.matched
               PROVE  \E m \in 1..k :
                        /\ b.tracks[j].box = boxes[m]
                        /\ j \in DOMAIN tracks => Distance(tracks[j].box, boxes[m]) <= Near
    OBVIOUS
  <2>1. CASE j = i
    <3>1. i \in DOMAIN tracks => Distance(tracks[i].box, boxes[k]) <= Near BY <1>6, <1>7
    <3> QED BY <1>1, <1>2, <2>1, <3>1
  <2>2. CASE j # i
    <3>1. j \in a.matched /\ b.tracks[j] = a.tracks[j] BY <1>1, <2>2
    <3>2. PICK m \in 1..(k - 1) :
            /\ a.tracks[j].box = boxes[m]
            /\ j \in DOMAIN tracks => Distance(tracks[j].box, boxes[m]) <= Near
      BY <3>1 DEF Placed
    <3> QED BY <1>2, <3>1, <3>2
  <2> QED BY <2>1, <2>2
<1>9. \A j \in a.matched : b.tracks[j].box # box
  <2> SUFFICES ASSUME NEW j \in a.matched PROVE b.tracks[j].box # box OBVIOUS
  <2>1. PICK m \in 1..(k - 1) : a.tracks[j].box = boxes[m] BY DEF Placed
  <2> QED BY <1>1, <1>4, <2>1
<1>10. \A j, l \in b.matched : b.tracks[j].box = b.tracks[l].box => j = l
  <2>1. \A j, l \in a.matched : a.tracks[j].box = a.tracks[l].box => j = l BY DEF Placed
  <2> QED BY <1>1, <1>9, <2>1
<1>11. ASSUME NEW j \in DOMAIN tracks, tracks[j].box = box
       PROVE  j = i
  <2>1. j \notin a.matched
    <3> SUFFICES ASSUME j \in a.matched PROVE FALSE OBVIOUS
    <3>1. PICK m \in 1..(k - 1) : Distance(tracks[j].box, boxes[m]) <= Near BY DEF Placed
    <3>2. Distance(box, boxes[m]) <= Near /\ Distance(box, boxes[m]) > Near BY <1>4, <1>11, <3>1
    <3>3. Distance(box, boxes[m]) \in Nat BY <1>2, <1>3, DistanceIsNat
    <3> QED BY <3>2, <3>3, VehiclesAssumption
  <2>2. a.tracks[j] = tracks[j] /\ j \in DOMAIN a.tracks \ a.matched
    BY <1>7, <2>1 DEF Taken
  <2>3. d(j) = 0 /\ box \in Spots BY <1>3, <1>11, <2>2, DistanceIsNat
  <2>4. i \in DOMAIN a.tracks
    <3>1. d(j) <= Near BY <2>3, VehiclesAssumption
    <3> QED BY <2>2, <3>1 DEF Takes
  <2>5. d(i) <= d(j) /\ i \in DOMAIN tracks /\ a.tracks[i] = tracks[i] BY <1>6, <2>2, <2>4
  <2>6. d(i) \in Nat /\ (d(i) = 0 <=> a.tracks[i].box = box) BY <1>5, <2>3, <2>5, DistanceIsNat
  <2>7. tracks[i].box = box BY <2>3, <2>5, <2>6
  <2> QED BY <1>11, <2>5, <2>7 DEF Distinct
<1>12. \A m \in 1..k : \E j \in b.matched :
         /\ b.tracks[j].box = boxes[m]
         /\ \A l \in DOMAIN tracks : tracks[l].box = boxes[m] => l = j
  <2> SUFFICES ASSUME NEW m \in 1..k
               PROVE  \E j \in b.matched :
                        /\ b.tracks[j].box = boxes[m]
                        /\ \A l \in DOMAIN tracks : tracks[l].box = boxes[m] => l = j
    OBVIOUS
  <2>1. CASE m = k BY <1>1, <1>11, <2>1
  <2>2. CASE m # k
    <3>1. m \in 1..(k - 1) BY <1>2, <2>2
    <3>2. PICK j \in a.matched :
            /\ a.tracks[j].box = boxes[m]
            /\ \A l \in DOMAIN tracks : tracks[l].box = boxes[m] => l = j
      BY <3>1 DEF Placed
    <3> QED BY <1>1, <3>2
  <2> QED BY <2>1, <2>2
<1> QED BY <1>8, <1>10, <1>12 DEF Placed

(* After the last box of a frame.                                          *)
LEMMA FrameTaken ==
  ASSUME NEW tracks \in Seq(Loose), NEW boxes \in Seq(Spots), NEW t \in Nat
  PROVE  \E a \in Acc :
           /\ Taken(a, tracks, t)
           /\ Distinct(tracks) /\ Separated(boxes) => Placed(a, tracks, boxes, Len(boxes))
           /\ _update_tracks(tracks, boxes, t) = Surviving(Aged(a.tracks, a.matched))
<1> DEFINE n == Len(boxes)
           apart == Distinct(tracks) /\ Separated(boxes)
           Holds(a, k) == Taken(a, tracks, t) /\ (apart => Placed(a, tracks, boxes, k))
<1>1. PICK F \in [0..n -> Acc] :
        /\ F[0] = [tracks |-> tracks, matched |-> {}]
        /\ \A k \in 1..n : F[k] = Match(F[k - 1], boxes[k], t)
        /\ _update_tracks(tracks, boxes, t) = Surviving(Aged(F[n].tracks, F[n].matched))
  BY MatchLoop
<1> DEFINE K == {k \in 0..n : Holds(F[k], k)}
<1>2. n \in Nat BY LenProperties
<1> HIDE DEF n
<1>3. 0 \in K
  <2>1. Taken(F[0], tracks, t) BY <1>1 DEF Taken
  <2>2. Placed(F[0], tracks, boxes, 0) BY <1>1 DEF Placed
  <2> QED BY <1>2, <2>1, <2>2
<1>4. ASSUME NEW k \in 1..n, k - 1 \in K PROVE k \in K
  <2>1. k \in 0..n /\ k - 1 \in 0..n /\ F[k - 1] \in Acc /\ k \in 1..Len(boxes)
    BY <1>1, <1>2 DEF n
  <2>2. boxes[k] \in Spots BY <2>1, ElementOfSeq
  <2>3. PICK i : Takes(F[k - 1], F[k], i, boxes[k], t) BY <1>1, <2>1, <2>2, MatchTakes
  <2>4. Taken(F[k - 1], tracks, t) /\ (apart => Placed(F[k - 1], tracks, boxes, k - 1)) BY <1>4
  <2>5. Taken(F[k], tracks, t) BY <2>3, <2>4, TakesKeepsTaken
  <2>6. ASSUME apart PROVE Placed(F[k], tracks, boxes, k)
    BY <2>1, <2>3, <2>4, <2>6, TakesKeepsPlaced
  <2> QED BY <2>1, <2>5, <2>6
<1>5. n \in K
  <2> HIDE DEF K
  <2>1. 0..n \subseteq K BY <1>2, <1>3, <1>4, UpToInduction
  <2> QED BY <1>2, <2>1
<1>6. F[n] \in Acc BY <1>1, <1>2
<1>7. Taken(F[n], tracks, t) /\ (apart => Placed(F[n], tracks, boxes, n)) BY <1>5
<1> QED BY <1>1, <1>6, <1>7 DEF n

Older(x, y) == x.box = y.box /\ x.hits = y.hits /\ x.missed = y.missed + 1 /\ x.seen = y.seen

(* Every track that was not matched grows older.                           *)
LEMMA AgedSays ==
  ASSUME NEW tracks \in Seq(Loose), NEW matched
  PROVE  LET aged == Aged(tracks, matched) IN
         /\ aged \in Seq(Loose) /\ DOMAIN aged = DOMAIN tracks
         /\ \A i \in DOMAIN tracks : IF i \in matched THEN aged[i] = tracks[i]
                                     ELSE Older(aged[i], tracks[i])
<1> DEFINE aged == Aged(tracks, matched)
           n == Len(tracks)
<1>1. n \in Nat /\ DOMAIN tracks = 1..n /\ \A i \in 1..n : tracks[i] \in Loose
  BY LenProperties, ElementOfSeq
<1>2. DOMAIN aged = 1..n BY <1>1 DEF Aged
<1>3. ASSUME NEW i \in 1..n
      PROVE  /\ aged[i] \in Loose
             /\ IF i \in matched THEN aged[i] = tracks[i] ELSE Older(aged[i], tracks[i])
  <2>1. tracks[i] \in Loose BY <1>1
  <2>2. aged[i] = IF i \in matched THEN tracks[i] ELSE [tracks[i] EXCEPT !.missed = @ + 1]
    BY <1>1 DEF Aged
  <2> HIDE DEF aged
  <2>3. CASE i \in matched BY <2>1, <2>2, <2>3
  <2>4. CASE i \notin matched
    <3>1. aged[i] = [tracks[i] EXCEPT !.missed = tracks[i].missed + 1] BY <2>2, <2>4
    <3> DEFINE y == tracks[i]
    <3>2. aged[i] \in Loose
      <4>1. y.missed + 1 \in Nat BY <2>1 DEF Loose
      <4>2. \A m \in Nat : [y EXCEPT !.missed = m] \in Loose
        <5> HIDE DEF y
        <5> QED BY <2>1 DEF Loose, y
      <4> QED BY <3>1, <4>1, <4>2
    <3>3. Older(aged[i], tracks[i]) BY <2>1, <3>1 DEF Loose, Older
    <3> QED BY <2>4, <3>2, <3>3
  <2> QED BY <2>3, <2>4
<1>4. aged \in [1..n -> Loose]
  <2>1. aged = [i \in 1..n |-> aged[i]] BY <1>1 DEF Aged
  <2> HIDE DEF aged
  <2> QED BY <1>3, <2>1
<1>5. aged \in Seq(Loose)
  <2> HIDE DEF aged, n
  <2> QED BY <1>1, <1>4, SeqDef
<1> QED BY <1>1, <1>2, <1>3, <1>5

(* Which tracks survive.                                                   *)
LEMMA SurvivingSays ==
  ASSUME NEW tracks \in Seq(Loose)
  PROVE  LET kept == Surviving(tracks) IN
         /\ kept \in Seq(Loose)
         /\ \A k \in DOMAIN kept : \E i \in DOMAIN tracks :
              kept[k] = tracks[i] /\ tracks[i].missed <= MaxMissed
         /\ \A i \in DOMAIN tracks : tracks[i].missed <= MaxMissed =>
              \E k \in DOMAIN kept : kept[k] = tracks[i]
         /\ Distinct(tracks) => Distinct(kept)
<1> DEFINE kept == Surviving(tracks)
<1>1. kept \in Seq(Loose) /\ \E h : Keeps(kept, tracks, Len(tracks), MaxMissed, h)
  BY KeptSays, VehiclesAssumption DEF Surviving
<1> HIDE DEF kept
<1>2. PICK h : Keeps(kept, tracks, Len(tracks), MaxMissed, h) BY <1>1
<1>3. DOMAIN kept = 1..Len(kept) /\ DOMAIN tracks = 1..Len(tracks) BY <1>1, LenProperties
<1>4. /\ \A j \in DOMAIN kept : h[j] \in DOMAIN tracks /\ kept[j] = tracks[h[j]]
                                /\ tracks[h[j]].missed <= MaxMissed
      /\ \A i, j \in DOMAIN kept : i # j => h[i] # h[j]
      /\ \A i \in DOMAIN tracks : tracks[i].missed <= MaxMissed => \E j \in DOMAIN kept : h[j] = i
  BY <1>2, <1>3 DEF Keeps
<1>5. Distinct(tracks) => Distinct(kept) BY <1>4 DEF Distinct
<1>6. \A k \in DOMAIN kept : \E i \in DOMAIN tracks :
        kept[k] = tracks[i] /\ tracks[i].missed <= MaxMissed
  BY <1>4
<1>7. \A i \in DOMAIN tracks : tracks[i].missed <= MaxMissed => \E k \in DOMAIN kept : kept[k] = tracks[i]
  BY <1>4
<1> QED BY <1>1, <1>5, <1>6, <1>7 DEF kept

\* Where each track of the next tick comes from.
Descends(next, tracks, t) ==
  \A k \in DOMAIN next :
    /\ next[k].missed <= MaxMissed
    /\ \/ Fresh(next[k], t)
       \/ \E i \in DOMAIN tracks : Sighted(next[k], tracks[i], t) \/ Older(next[k], tracks[i])

\* That the frame's spots all have a track, which counts one more than the one there had.
Stands(next, tracks, boxes) ==
  \A m \in DOMAIN boxes : \E k \in DOMAIN next :
    /\ next[k].box = boxes[m] /\ next[k].hits >= 1
    /\ \A j \in DOMAIN tracks : tracks[j].box = boxes[m] => next[k].hits = tracks[j].hits + 1

(* What _update_tracks returns.                                            *)
LEMMA UpdateSays ==
  ASSUME NEW tracks \in Seq(Loose), NEW boxes \in Seq(Spots), NEW t \in Nat
  PROVE  LET next == _update_tracks(tracks, boxes, t) IN
         /\ next \in Seq(Loose) /\ Descends(next, tracks, t)
         /\ Distinct(tracks) /\ Separated(boxes) =>
              Distinct(next) /\ Stands(next, tracks, boxes)
<1>1. PICK a \in Acc :
        /\ Taken(a, tracks, t)
        /\ Distinct(tracks) /\ Separated(boxes) => Placed(a, tracks, boxes, Len(boxes))
        /\ _update_tracks(tracks, boxes, t) = Surviving(Aged(a.tracks, a.matched))
  BY FrameTaken
<1> DEFINE aged == Aged(a.tracks, a.matched)
           next == Surviving(aged)
<1>2. a.tracks \in Seq(Loose) /\ a.matched \subseteq DOMAIN a.tracks BY DEF Acc
<1>3. /\ aged \in Seq(Loose) /\ DOMAIN aged = DOMAIN a.tracks
      /\ \A i \in DOMAIN a.tracks : IF i \in a.matched THEN aged[i] = a.tracks[i]
                                    ELSE Older(aged[i], a.tracks[i])
  BY <1>2, AgedSays
<1> HIDE DEF aged
<1>4. /\ next \in Seq(Loose)
      /\ \A k \in DOMAIN next : \E i \in DOMAIN aged :
           next[k] = aged[i] /\ aged[i].missed <= MaxMissed
      /\ \A i \in DOMAIN aged : aged[i].missed <= MaxMissed =>
           \E k \in DOMAIN next : next[k] = aged[i]
      /\ Distinct(aged) => Distinct(next)
  BY <1>3, SurvivingSays
<1> HIDE DEF next
<1>5. Descends(next, tracks, t)
  <2> SUFFICES ASSUME NEW k \in DOMAIN next
               PROVE  /\ next[k].missed <= MaxMissed
                      /\ \/ Fresh(next[k], t)
                         \/ \E i \in DOMAIN tracks :
                              Sighted(next[k], tracks[i], t) \/ Older(next[k], tracks[i])
    BY DEF Descends
  <2>1. PICK i \in DOMAIN aged : next[k] = aged[i] /\ aged[i].missed <= MaxMissed BY <1>4
  <2>2. CASE i \in a.matched
    <3>1. next[k] = a.tracks[i] BY <1>3, <2>1, <2>2
    <3>2. Fresh(a.tracks[i], t) \/ (i \in DOMAIN tracks /\ Sighted(a.tracks[i], tracks[i], t))
      BY <1>1, <1>3, <2>1, <2>2 DEF Taken
    <3> QED BY <2>1, <3>1, <3>2
  <2>3. CASE i \notin a.matched
    <3>1. Older(next[k], a.tracks[i]) BY <1>3, <2>1, <2>3
    <3>2. i \in DOMAIN tracks /\ a.tracks[i] = tracks[i] BY <1>1, <1>3, <2>1, <2>3 DEF Taken
    <3> QED BY <2>1, <3>1, <3>2
  <2> QED BY <2>2, <2>3
<1>6. ASSUME Distinct(tracks), Separated(boxes)
      PROVE  Distinct(next) /\ Stands(next, tracks, boxes)
  <2>1. Placed(a, tracks, boxes, Len(boxes)) BY <1>1, <1>6
  <2>2. \A i \in DOMAIN aged : aged[i].box = a.tracks[i].box BY <1>3 DEF Older
  <2>3. \A i \in DOMAIN a.tracks \ a.matched : i \in DOMAIN tracks /\ a.tracks[i] = tracks[i]
    BY <1>1 DEF Taken
  <2>4. Distinct(aged)
    <3>1. \A i, j \in a.matched : a.tracks[i].box = a.tracks[j].box => i = j BY <2>1 DEF Placed
    <3>2. \A i, j \in DOMAIN a.tracks \ a.matched : a.tracks[i].box = a.tracks[j].box => i = j
      BY <1>6, <2>3 DEF Distinct
    <3>3. ASSUME NEW i \in a.matched, NEW j \in DOMAIN a.tracks \ a.matched
          PROVE  a.tracks[i].box # a.tracks[j].box
      <4>1. PICK m \in 1..Len(boxes) : a.tracks[i].box = boxes[m] BY <2>1 DEF Placed
      <4>2. PICK l \in a.matched : \A q \in DOMAIN tracks : tracks[q].box = boxes[m] => q = l
        BY <2>1 DEF Placed
      <4> QED BY <2>3, <4>1, <4>2
    <3> QED BY <1>3, <2>2, <3>1, <3>2, <3>3 DEF Distinct
  <2>5. ASSUME NEW m \in DOMAIN boxes
        PROVE  \E k \in DOMAIN next :
                 /\ next[k].box = boxes[m] /\ next[k].hits >= 1
                 /\ \A j \in DOMAIN tracks : tracks[j].box = boxes[m] => next[k].hits = tracks[j].hits + 1
    <3>1. m \in 1..Len(boxes) BY LenProperties
    <3>2. PICK i \in a.matched :
            /\ a.tracks[i].box = boxes[m]
            /\ \A j \in DOMAIN tracks : tracks[j].box = boxes[m] => j = i
      BY <2>1, <3>1 DEF Placed
    <3>3. i \in DOMAIN a.tracks /\ aged[i] = a.tracks[i] BY <1>2, <1>3, <3>2
    <3>4. \/ i \in DOMAIN tracks /\ Sighted(aged[i], tracks[i], t)
          \/ i \notin DOMAIN tracks /\ Fresh(aged[i], t)
      BY <1>1, <3>2, <3>3 DEF Taken
    <3>5. aged[i].missed <= MaxMissed BY <3>4, VehiclesAssumption DEF Sighted, Fresh
    <3>6. PICK k \in DOMAIN next : next[k] = aged[i] BY <1>3, <1>4, <3>3, <3>5
    <3>7. aged[i].hits >= 1
      <4>1. CASE i \in DOMAIN tracks /\ Sighted(aged[i], tracks[i], t)
        <5>1. tracks[i] \in Loose BY <4>1, LenProperties, ElementOfSeq
        <5>2. tracks[i].hits \in Nat BY <5>1 DEF Loose
        <5> QED BY <4>1, <5>2 DEF Sighted
      <4>2. CASE Fresh(aged[i], t) BY <4>2 DEF Fresh
      <4> QED BY <3>4, <4>1, <4>2
    <3>8. \A j \in DOMAIN tracks : tracks[j].box = boxes[m] => aged[i].hits = tracks[j].hits + 1
      BY <3>2, <3>4 DEF Sighted
    <3> QED BY <3>2, <3>3, <3>6, <3>7, <3>8
  <2> QED BY <1>4, <2>4, <2>5 DEF Stands
<1> QED BY <1>1, <1>4, <1>5, <1>6 DEF next, aged

(* What mark_camera_missed returns.                                        *)
LEMMA MissedSays ==
  ASSUME NEW tracks \in Seq(Loose), NEW t
  PROVE  LET next == mark_camera_missed(tracks) IN
         /\ next \in Seq(Loose)
         /\ \A k \in DOMAIN next : \E i \in DOMAIN tracks :
              next[k].missed <= MaxMissed /\ Older(next[k], tracks[i])
         /\ Distinct(tracks) => Distinct(next)
<1> DEFINE aged == Aged(tracks, {})
           next == Surviving(aged)
<1>1. /\ aged \in Seq(Loose) /\ DOMAIN aged = DOMAIN tracks
      /\ \A i \in DOMAIN tracks : Older(aged[i], tracks[i])
  BY AgedSays
<1> HIDE DEF aged
<1>2. Distinct(tracks) => Distinct(aged) BY <1>1 DEF Distinct, Older
<1>3. /\ next \in Seq(Loose)
      /\ \A k \in DOMAIN next : \E i \in DOMAIN aged :
           next[k] = aged[i] /\ aged[i].missed <= MaxMissed
      /\ Distinct(aged) => Distinct(next)
  BY <1>1, SurvivingSays
<1>4. mark_camera_missed(tracks) = next BY DEF mark_camera_missed, aged
<1> HIDE DEF next
<1> QED BY <1>1, <1>2, <1>3, <1>4

(***************************************************************************)
(* What a track tells of the records of its camera.                        *)
(***************************************************************************)

\* The records after a sighting at t and before the next one.
Gone(recs, seen, t) == {r \in Range(recs) : r.at > t /\ ~ \E s \in seen : s > t /\ s <= r.at}

\* hits are sightings; at most MaxMissed records lie between two of them, and at most as
\* many as missed says after the last.
Tells(x, recs, now) ==
  /\ x \in Track
  /\ IsFiniteSet(x.seen) /\ x.seen \subseteq 0..now /\ x.hits = Cardinality(x.seen)
  /\ \A t \in x.seen :
       /\ IsFiniteSet(Gone(recs, x.seen, t))
       /\ Cardinality(Gone(recs, x.seen, t)) <= MaxMissed
       /\ (\A s \in x.seen : s <= t) => Cardinality(Gone(recs, x.seen, t)) <= x.missed

\* Records are in the past.
Past(recs, now) == recs \in Seq(Record) /\ \A r \in Range(recs) : r.at \in 1..now

(* A track missed few enough times is a Track.                             *)
LEMMA LooseIsTrack ==
  ASSUME NEW x \in Loose, x.missed <= MaxMissed
  PROVE  x \in Track
<1>1. x.missed \in 0..MaxMissed BY VehiclesAssumption DEF Loose
<1> QED BY <1>1 DEF Loose, Track

(* A new track tells of one sighting, and of no record after it.           *)
LEMMA FreshTells ==
  ASSUME NEW now \in Nat, NEW x \in Loose, x.missed <= MaxMissed, Fresh(x, now + 1),
         NEW recs, Past(recs, now), NEW new \in Record, new.at = now + 1
  PROVE  Tells(x, Append(recs, new), now + 1)
<1> DEFINE more == Append(recs, new)
<1>1. Range(more) = Range(recs) \cup {new} BY RecordsGrow DEF Past
<1> HIDE DEF more
<1>2. x.hits = 1 /\ x.missed = 0 /\ x.seen = {now + 1} BY DEF Fresh
<1>3. IsFiniteSet(x.seen) /\ Cardinality(x.seen) = 1 BY <1>2, FS_Singleton
<1>4. Gone(more, x.seen, now + 1) = {} BY <1>1 DEF Gone, Past
<1>5. IsFiniteSet({}) /\ Cardinality({}) = 0 BY FS_EmptySet
<1>6. now + 1 \in 0..(now + 1) OBVIOUS
<1>7. x \in Track BY LooseIsTrack
<1> QED BY <1>2, <1>3, <1>4, <1>5, <1>6, <1>7, VehiclesAssumption DEF Tells, more

(* A sighting ends the gap that was open.                                  *)
LEMMA SightedTells ==
  ASSUME NEW now \in Nat, NEW x \in Loose, x.missed <= MaxMissed,
         NEW recs, Past(recs, now), NEW new \in Record, new.at = now + 1,
         NEW y, Tells(y, recs, now), Sighted(x, y, now + 1)
  PROVE  Tells(x, Append(recs, new), now + 1)
<1> DEFINE more == Append(recs, new)
<1>1. Range(more) = Range(recs) \cup {new} BY RecordsGrow DEF Past
<1> HIDE DEF more
<1>2. x.hits = y.hits + 1 /\ x.missed = 0 /\ x.seen = y.seen \cup {now + 1} BY DEF Sighted
<1>3. IsFiniteSet(y.seen) /\ y.seen \subseteq 0..now /\ y.hits = Cardinality(y.seen) BY DEF Tells
<1>4. now + 1 \notin y.seen BY <1>3
<1>5. IsFiniteSet(x.seen) /\ x.hits = Cardinality(x.seen)
  BY <1>2, <1>3, <1>4, FS_AddElement
<1>6. x.seen \subseteq 0..(now + 1) BY <1>2, <1>3
<1>7. ASSUME NEW t \in x.seen
      PROVE  /\ IsFiniteSet(Gone(more, x.seen, t))
             /\ Cardinality(Gone(more, x.seen, t)) <= MaxMissed
             /\ (\A s \in x.seen : s <= t) => Cardinality(Gone(more, x.seen, t)) <= x.missed
  <2>1. CASE t = now + 1
    <3>1. Gone(more, x.seen, t) = {} BY <1>1, <2>1 DEF Gone, Past
    <3>2. IsFiniteSet({}) /\ Cardinality({}) = 0 BY FS_EmptySet
    <3> QED BY <1>2, <3>1, <3>2, VehiclesAssumption
  <2>2. CASE t \in y.seen
    <3>1. t \in 0..now BY <1>3, <2>2
    <3>2. now + 1 \in x.seen /\ ~ (now + 1 <= t) BY <1>2, <3>1
    <3>3. Gone(more, x.seen, t) = Gone(recs, y.seen, t)
      <4>1. ~ (new \in Gone(more, x.seen, t)) BY <3>1, <3>2 DEF Gone
      <4>2. \A r \in Range(recs) : r.at \in 1..now BY DEF Past
      <4>3. \A r \in Range(recs) : (\E s \in x.seen : s > t /\ s <= r.at)
                                     <=> (\E s \in y.seen : s > t /\ s <= r.at)
        BY <1>2, <4>2
      <4>4. \A r \in Range(recs) : r \in Gone(more, x.seen, t) <=> r \in Gone(recs, y.seen, t)
        BY <1>1, <4>3 DEF Gone
      <4>5. \A r : r \in Gone(more, x.seen, t) => r \in Range(recs)
        BY <1>1, <4>1 DEF Gone
      <4>6. \A r : r \in Gone(recs, y.seen, t) => r \in Range(recs) BY DEF Gone
      <4> QED BY <4>4, <4>5, <4>6
    <3> QED BY <2>2, <3>2, <3>3 DEF Tells
  <2> QED BY <1>2, <2>1, <2>2
<1>8. x \in Track BY LooseIsTrack
<1> QED BY <1>5, <1>6, <1>7, <1>8 DEF Tells, more

(* A record without a sighting widens the gap that is open by one.         *)
LEMMA OlderTells ==
  ASSUME NEW now \in Nat, NEW x \in Loose, x.missed <= MaxMissed,
         NEW recs, Past(recs, now), NEW new \in Record, new.at = now + 1,
         NEW y, Tells(y, recs, now), Older(x, y)
  PROVE  Tells(x, Append(recs, new), now + 1)
<1> DEFINE more == Append(recs, new)
<1>1. Range(more) = Range(recs) \cup {new} BY RecordsGrow DEF Past
<1> HIDE DEF more
<1>2. x.hits = y.hits /\ x.missed = y.missed + 1 /\ x.seen = y.seen BY DEF Older
<1>3. IsFiniteSet(y.seen) /\ y.seen \subseteq 0..now /\ y.hits = Cardinality(y.seen) BY DEF Tells
<1>4. y.missed \in Nat /\ x.missed \in Nat BY DEF Tells, Track, Loose
<1>5. x.seen \subseteq 0..(now + 1) BY <1>2, <1>3
<1>6. ASSUME NEW t \in x.seen
      PROVE  /\ IsFiniteSet(Gone(more, x.seen, t))
             /\ Cardinality(Gone(more, x.seen, t)) <= MaxMissed
             /\ (\A s \in x.seen : s <= t) => Cardinality(Gone(more, x.seen, t)) <= x.missed
  <2> DEFINE G == Gone(recs, y.seen, t)
  <2>1. t \in 0..now /\ t \in y.seen BY <1>2, <1>3
  <2>2. /\ IsFiniteSet(G) /\ Cardinality(G) <= MaxMissed
        /\ (\A s \in y.seen : s <= t) => Cardinality(G) <= y.missed
    BY <2>1 DEF Tells
  <2>3. Gone(more, x.seen, t) = G \cup (IF \E s \in y.seen : s > t THEN {} ELSE {new})
    <3>1. new \in Gone(more, x.seen, t) <=> ~ \E s \in y.seen : s > t
      BY <1>1, <1>2, <1>3, <2>1 DEF Gone
    <3>2. \A r \in Range(recs) : r \in Gone(more, x.seen, t) <=> r \in G
      BY <1>1, <1>2 DEF Gone
    <3>3. \A r : r \in Gone(more, x.seen, t) => r \in Range(recs) \/ r = new
      BY <1>1 DEF Gone
    <3>4. \A r : r \in G => r \in Range(recs) BY DEF Gone
    <3> HIDE DEF G
    <3> QED BY <3>1, <3>2, <3>3, <3>4
  <2>4. new \notin G BY DEF Gone, Past
  <2> HIDE DEF G
  <2>5. CASE \E s \in y.seen : s > t
    <3>1. Gone(more, x.seen, t) = G BY <2>3, <2>5
    <3>2. ~ \A s \in x.seen : s <= t BY <1>2, <1>3, <2>1, <2>5
    <3> QED BY <2>2, <3>1, <3>2
  <2>6. CASE ~ \E s \in y.seen : s > t
    <3>1. Gone(more, x.seen, t) = G \cup {new} BY <2>3, <2>6
    <3>2. \A s \in y.seen : s <= t BY <1>3, <2>1, <2>6
    <3>3. Cardinality(G) \in Nat /\ Cardinality(G) <= y.missed BY <2>2, <3>2, FS_CardinalityType
    <3>4. IsFiniteSet(G \cup {new}) /\ Cardinality(G \cup {new}) = Cardinality(G) + 1
      BY <2>2, <2>4, FS_AddElement
    <3>5. Cardinality(G) + 1 <= x.missed BY <1>2, <1>4, <3>3
    <3>6. Cardinality(G) + 1 <= MaxMissed BY <1>4, <3>3, <3>5, VehiclesAssumption
    <3> QED BY <3>1, <3>4, <3>5, <3>6
  <2> QED BY <2>5, <2>6
<1>7. x \in Track BY LooseIsTrack
<1> QED BY <1>2, <1>3, <1>5, <1>6, <1>7 DEF Tells, more

(***************************************************************************)
(* A vehicle that stands still.                                            *)
(***************************************************************************)

\* The last k records all show a box at p.
ShownFor(recs, p, k) ==
  \A j \in (Len(recs) - k + 1)..Len(recs) : p \in Range(recs[j].frame.boxes)

\* As long as all frames were separated, what the last k records show has a track with k hits.
Followed(tracks, recs) ==
  (\A r \in Range(recs) : Separated(r.frame.boxes)) =>
    /\ Distinct(tracks)
    /\ \A p \in Spots : \A k \in 1..Len(recs) : ShownFor(recs, p, k) =>
         \E i \in DOMAIN tracks : tracks[i].box = p /\ tracks[i].hits >= k

\* All that is known of a camera at a tick.
Watched(tracks, recs, now) ==
  /\ tracks \in Seq(Track)
  /\ Past(recs, now)
  /\ \A k \in DOMAIN tracks : Tells(tracks[k], recs, now)
  /\ Followed(tracks, recs)

(* A run of records that ends in a new one.                                *)
LEMMA ShownBefore ==
  ASSUME NEW recs \in Seq(Record), NEW new \in Record, NEW p,
         NEW k \in 1..(Len(recs) + 1), ShownFor(Append(recs, new), p, k)
  PROVE  /\ p \in Range(new.frame.boxes)
         /\ k = 1 \/ (k - 1 \in 1..Len(recs) /\ ShownFor(recs, p, k - 1))
<1> DEFINE more == Append(recs, new)
           n == Len(recs)
<1>1. /\ Len(more) = n + 1 /\ more[n + 1] = new /\ \A i \in 1..n : more[i] = recs[i]
  BY AppendProperties
<1>2. n \in Nat BY LenProperties
<1> HIDE DEF more
<1>3. \A j \in ((n + 1) - k + 1)..(n + 1) : p \in Range(more[j].frame.boxes)
  BY <1>1 DEF ShownFor, more
<1> HIDE DEF n
<1>4. k \in 1..(n + 1) BY DEF n
<1>5. p \in Range(new.frame.boxes)
  <2>1. n + 1 \in ((n + 1) - k + 1)..(n + 1) BY <1>2, <1>4
  <2> QED BY <1>1, <1>3, <2>1
<1>6. \A j \in (n - (k - 1) + 1)..n : p \in Range(recs[j].frame.boxes)
  <2> SUFFICES ASSUME NEW j \in (n - (k - 1) + 1)..n PROVE p \in Range(recs[j].frame.boxes)
    OBVIOUS
  <2>1. j \in 1..n /\ j \in ((n + 1) - k + 1)..(n + 1) BY <1>2, <1>4
  <2> QED BY <1>1, <1>3, <2>1
<1>7. k = 1 \/ k - 1 \in 1..n BY <1>2, <1>4
<1> QED BY <1>5, <1>6, <1>7 DEF ShownFor, n

(* A frame that was looked at keeps the tracks at the spots it shows.      *)
LEMMA LookedIsFollowed ==
  ASSUME NEW tracks \in Seq(Loose), NEW recs \in Seq(Record), NEW frame \in Frames, NEW t \in Nat,
         NEW new \in Record, new.frame = frame, Followed(tracks, recs)
  PROVE  Followed(_update_tracks(tracks, frame.boxes, t), Append(recs, new))
<1> DEFINE more == Append(recs, new)
           boxes == frame.boxes
           next == _update_tracks(tracks, boxes, t)
<1>1. Range(more) = Range(recs) \cup {new} /\ Len(more) = Len(recs) + 1
  BY RecordsGrow, AppendProperties
<1>2. boxes \in Seq(Spots) BY VehiclesAssumption DEF Frame
<1>3. /\ next \in Seq(Loose)
      /\ Distinct(tracks) /\ Separated(boxes) => Distinct(next) /\ Stands(next, tracks, boxes)
  BY <1>2, UpdateSays
<1> HIDE DEF next
<1> SUFFICES ASSUME \A r \in Range(more) : Separated(r.frame.boxes)
             PROVE  /\ Distinct(next)
                    /\ \A p \in Spots : \A k \in 1..Len(more) : ShownFor(more, p, k) =>
                         \E i \in DOMAIN next : next[i].box = p /\ next[i].hits >= k
  BY DEF Followed, more, next
<1>4. /\ Distinct(tracks) /\ Separated(boxes)
      /\ \A p \in Spots : \A k \in 1..Len(recs) : ShownFor(recs, p, k) =>
           \E i \in DOMAIN tracks : tracks[i].box = p /\ tracks[i].hits >= k
  BY <1>1 DEF Followed
<1>5. Distinct(next) /\ Stands(next, tracks, boxes) BY <1>3, <1>4
<1>6. ASSUME NEW p \in Spots, NEW k \in 1..Len(more), ShownFor(more, p, k)
      PROVE  \E i \in DOMAIN next : next[i].box = p /\ next[i].hits >= k
  <2>1. k \in 1..(Len(recs) + 1) BY <1>1
  <2>2. /\ p \in Range(boxes)
        /\ k = 1 \/ (k - 1 \in 1..Len(recs) /\ ShownFor(recs, p, k - 1))
    BY <1>6, <2>1, ShownBefore DEF more
  <2>3. PICK m \in DOMAIN boxes : p = boxes[m] BY <2>2 DEF Range
  <2>4. PICK i \in DOMAIN next :
          /\ next[i].box = p /\ next[i].hits >= 1
          /\ \A j \in DOMAIN tracks : tracks[j].box = p => next[i].hits = tracks[j].hits + 1
    BY <1>5, <2>3 DEF Stands
  <2>5. CASE k = 1 BY <2>4, <2>5
  <2>6. CASE k - 1 \in 1..Len(recs) /\ ShownFor(recs, p, k - 1)
    <3>1. PICK j \in DOMAIN tracks : tracks[j].box = p /\ tracks[j].hits >= k - 1
      BY <1>4, <2>6
    <3>2. next[i].hits = tracks[j].hits + 1 BY <2>4, <3>1
    <3>3. tracks[j] \in Loose BY LenProperties, ElementOfSeq
    <3>4. tracks[j].hits \in Nat BY <3>3 DEF Loose
    <3>5. k \in Nat BY <2>1, LenProperties
    <3>6. next[i].hits >= k BY <3>1, <3>2, <3>4, <3>5
    <3> QED BY <2>4, <3>6
  <2> QED BY <2>2, <2>5, <2>6
<1> QED BY <1>5, <1>6

(* A frame that could not be fetched shows nothing.                        *)
LEMMA MissedIsFollowed ==
  ASSUME NEW tracks \in Seq(Loose), NEW recs \in Seq(Record),
         NEW new \in Record, new.frame = None, Followed(tracks, recs)
  PROVE  Followed(mark_camera_missed(tracks), Append(recs, new))
<1> DEFINE more == Append(recs, new)
           next == mark_camera_missed(tracks)
<1>1. Range(more) = Range(recs) \cup {new} /\ Len(more) = Len(recs) + 1
  BY RecordsGrow, AppendProperties
<1>2. Distinct(tracks) => Distinct(next) BY MissedSays
<1>3. Range(new.frame.boxes) = {} BY DEF None, Range
<1>4. \A p \in Spots : \A k \in 1..Len(more) : ~ ShownFor(more, p, k)
  <2> SUFFICES ASSUME NEW p \in Spots, NEW k \in 1..Len(more), ShownFor(more, p, k)
               PROVE  FALSE OBVIOUS
  <2>1. k \in 1..(Len(recs) + 1) BY <1>1
  <2>2. p \in Range(new.frame.boxes) BY <2>1, ShownBefore DEF more
  <2> QED BY <1>3, <2>2
<1> HIDE DEF more, next
<1> SUFFICES Followed(next, more) BY DEF more, next
<1> QED BY <1>1, <1>2, <1>4 DEF Followed

(* The memory of a camera whose frame was looked at.                       *)
LEMMA LookedIsWatched ==
  ASSUME NEW tracks, NEW recs, NEW now \in Nat, Watched(tracks, recs, now),
         NEW frame \in Frames
  PROVE  Watched(_update_tracks(tracks, frame.boxes, now + 1),
                 Append(recs, [at |-> now + 1, frame |-> frame]), now + 1)
<1> DEFINE new == [at |-> now + 1, frame |-> frame]
           next == _update_tracks(tracks, frame.boxes, now + 1)
<1>1. /\ tracks \in Seq(Track) /\ Past(recs, now) /\ recs \in Seq(Record)
      /\ \A k \in DOMAIN tracks : Tells(tracks[k], recs, now)
      /\ Followed(tracks, recs)
  BY DEF Watched, Past
<1>2. Track \subseteq Loose BY DEF Track, Loose
<1>3. tracks \in Seq(Loose) BY <1>1, <1>2, SeqMonotonic
<1>4. frame.boxes \in Seq(Spots) BY VehiclesAssumption DEF Frame
<1>5. next \in Seq(Loose) /\ Descends(next, tracks, now + 1)
  <2> DEFINE boxes == frame.boxes
             t == now + 1
  <2>1. boxes \in Seq(Spots) /\ t \in Nat BY <1>4
  <2> HIDE DEF boxes, t
  <2>2. /\ _update_tracks(tracks, boxes, t) \in Seq(Loose)
        /\ Descends(_update_tracks(tracks, boxes, t), tracks, t)
    BY <1>3, <2>1, UpdateSays
  <2> QED BY <2>2 DEF boxes, t
<1>6. new \in Record /\ new.at = now + 1 /\ new.frame = frame BY DEF Record
<1> HIDE DEF new
<1>7. Followed(next, Append(recs, new)) BY <1>1, <1>3, <1>6, LookedIsFollowed
<1> HIDE DEF next
<1>8. Past(Append(recs, new), now + 1)
  <2>1. Append(recs, new) \in Seq(Record) /\ Range(Append(recs, new)) = Range(recs) \cup {new}
    BY <1>1, <1>6, RecordsGrow
  <2> QED BY <1>1, <1>6, <2>1 DEF Past
<1>9. ASSUME NEW k \in DOMAIN next
      PROVE  next[k] \in Track /\ Tells(next[k], Append(recs, new), now + 1)
  <2>1. next[k] \in Loose /\ next[k].missed <= MaxMissed
    BY <1>5, LenProperties, ElementOfSeq DEF Descends
  <2>2. ASSUME Fresh(next[k], now + 1)
        PROVE  Tells(next[k], Append(recs, new), now + 1)
    BY <1>1, <1>6, <2>1, <2>2, FreshTells
  <2>3. ASSUME NEW i \in DOMAIN tracks, Sighted(next[k], tracks[i], now + 1)
        PROVE  Tells(next[k], Append(recs, new), now + 1)
    <3>1. Tells(tracks[i], recs, now) BY <1>1
    <3> QED BY <1>1, <1>6, <2>1, <2>3, <3>1, SightedTells
  <2>4. ASSUME NEW i \in DOMAIN tracks, Older(next[k], tracks[i])
        PROVE  Tells(next[k], Append(recs, new), now + 1)
    <3>1. Tells(tracks[i], recs, now) BY <1>1
    <3> QED BY <1>1, <1>6, <2>1, <2>4, <3>1, OlderTells
  <2>5. \/ Fresh(next[k], now + 1)
        \/ \E i \in DOMAIN tracks : Sighted(next[k], tracks[i], now + 1) \/ Older(next[k], tracks[i])
    BY <1>5 DEF Descends
  <2>6. Tells(next[k], Append(recs, new), now + 1) BY <2>2, <2>3, <2>4, <2>5
  <2> QED BY <2>6 DEF Tells
<1>10. next \in Seq(Track)
  <2>1. DOMAIN next = 1..Len(next) /\ Len(next) \in Nat /\ next \in [1..Len(next) -> Loose]
    BY <1>5, LenProperties, ElementOfSeq
  <2>2. next \in [1..Len(next) -> Track] BY <1>9, <2>1
  <2> QED BY <2>1, <2>2, SeqDef
<1> QED BY <1>7, <1>8, <1>9, <1>10 DEF Watched, next, new

(* The memory of a camera whose frame was missed.                          *)
LEMMA MissedIsWatched ==
  ASSUME NEW tracks, NEW recs, NEW now \in Nat, Watched(tracks, recs, now)
  PROVE  Watched(mark_camera_missed(tracks),
                 Append(recs, [at |-> now + 1, frame |-> None]), now + 1)
<1> DEFINE new == [at |-> now + 1, frame |-> None]
           next == mark_camera_missed(tracks)
<1>1. /\ tracks \in Seq(Track) /\ Past(recs, now) /\ recs \in Seq(Record)
      /\ \A k \in DOMAIN tracks : Tells(tracks[k], recs, now)
      /\ Followed(tracks, recs)
  BY DEF Watched, Past
<1>2. Track \subseteq Loose BY DEF Track, Loose
<1>3. tracks \in Seq(Loose) BY <1>1, <1>2, SeqMonotonic
<1>4. /\ next \in Seq(Loose)
      /\ \A k \in DOMAIN next : \E i \in DOMAIN tracks :
           next[k].missed <= MaxMissed /\ Older(next[k], tracks[i])
  BY <1>3, MissedSays
<1>5. new \in Record /\ new.at = now + 1 /\ new.frame = None BY DEF Record
<1> HIDE DEF new
<1>6. Followed(next, Append(recs, new)) BY <1>1, <1>3, <1>5, MissedIsFollowed
<1> HIDE DEF next
<1>7. Past(Append(recs, new), now + 1)
  <2>1. Append(recs, new) \in Seq(Record) /\ Range(Append(recs, new)) = Range(recs) \cup {new}
    BY <1>1, <1>5, RecordsGrow
  <2> QED BY <1>1, <1>5, <2>1 DEF Past
<1>8. ASSUME NEW k \in DOMAIN next
      PROVE  next[k] \in Track /\ Tells(next[k], Append(recs, new), now + 1)
  <2>1. next[k] \in Loose BY <1>4, LenProperties, ElementOfSeq
  <2>2. PICK i \in DOMAIN tracks : next[k].missed <= MaxMissed /\ Older(next[k], tracks[i])
    BY <1>4
  <2>3. Tells(tracks[i], recs, now) BY <1>1
  <2>4. Tells(next[k], Append(recs, new), now + 1) BY <1>1, <1>5, <2>1, <2>2, <2>3, OlderTells
  <2> QED BY <2>4 DEF Tells
<1>9. next \in Seq(Track)
  <2>1. DOMAIN next = 1..Len(next) /\ Len(next) \in Nat /\ next \in [1..Len(next) -> Loose]
    BY <1>4, LenProperties, ElementOfSeq
  <2>2. next \in [1..Len(next) -> Track] BY <1>8, <2>1
  <2> QED BY <2>1, <2>2, SeqDef
<1> QED BY <1>6, <1>7, <1>8, <1>9 DEF Watched, next, new

(* The memory of a camera that had no record in the tick.                  *)
LEMMA SkippedIsWatched ==
  ASSUME NEW tracks, NEW recs, NEW now \in Nat, Watched(tracks, recs, now)
  PROVE  Watched(tracks, recs, now + 1)
<1>1. Past(recs, now) => Past(recs, now + 1) BY DEF Past
<1>2. \A k \in DOMAIN tracks : Tells(tracks[k], recs, now) => Tells(tracks[k], recs, now + 1)
  BY DEF Tells
<1> QED BY <1>1, <1>2 DEF Watched

(***************************************************************************)
(* The invariant of the memory.                                            *)
(***************************************************************************)
MemoryInv ==
  /\ TypeOK
  /\ \A c \in Cameras : Watched(_tracks[c], records[c], tick)
  /\ StillIsReported

(* Before the first tick nothing is remembered.                            *)
LEMMA InitiallyRemembered == Init => MemoryInv
<1> SUFFICES ASSUME Init PROVE MemoryInv OBVIOUS
<1>1. \A c \in Cameras : _tracks[c] = <<>> /\ records[c] = <<>> BY DEF Init
<1>2. TypeOK BY <1>1, VehiclesAssumption DEF Init, TypeOK, Range
<1>3. Watched(<<>>, <<>>, 0)
  BY DEF Watched, Past, Followed, Distinct, Range
<1>4. StillIsReported BY DEF Init, StillIsReported
<1> QED BY <1>1, <1>2, <1>3, <1>4 DEF Init, MemoryInv

(* What the types say of the state, over what is known of each camera.     *)
LEMMA WatchedIsTyped ==
  ASSUME NEW tracks, NEW recs, NEW now, Watched(tracks, recs, now)
  PROVE  /\ tracks \in Seq(Track)
         /\ \A r \in Range(recs) : r.at \in 1..now /\ r.frame \in Frames \cup {None}
<1>1. recs \in Seq(Record) /\ \A r \in Range(recs) : r.at \in 1..now BY DEF Watched, Past
<1>2. \A r \in Range(recs) : r \in Record
  <2> SUFFICES ASSUME NEW i \in DOMAIN recs PROVE recs[i] \in Record BY DEF Range
  <2> QED BY <1>1, LenProperties, ElementOfSeq
<1> QED BY <1>1, <1>2 DEF Watched, Record

(* A vehicle shown long enough has a mature track.                         *)
LEMMA ShownIsMature ==
  ASSUME NEW tracks, NEW recs, NEW now, Watched(tracks, recs, now),
         Len(recs) >= RequiredTicks, \A r \in Range(recs) : Separated(r.frame.boxes),
         NEW p \in Spots,
         LET last == SubSeq(recs, Len(recs) - RequiredTicks + 1, Len(recs)) IN
         \A k \in DOMAIN last : p \in Range(last[k].frame.boxes)
  PROVE  Mature(tracks) # {}
<1> DEFINE n == Len(recs)
           m == n - RequiredTicks + 1
           last == SubSeq(recs, m, n)
<1>1. recs \in Seq(Record) BY DEF Watched, Past
<1>2. n \in Nat /\ RequiredTicks \in 1..n /\ m \in Int /\ m >= 1 /\ n - m + 1 = RequiredTicks
  BY <1>1, LenProperties, VehiclesAssumption
<1>3. \A i \in m..n : recs[i] \in Record
  <2> SUFFICES ASSUME NEW i \in m..n PROVE recs[i] \in Record OBVIOUS
  <2>1. i \in 1..Len(recs) BY <1>2
  <2> QED BY <1>1, <2>1, ElementOfSeq
<1> HIDE DEF n, m
<1>4. /\ last \in Seq(Record) /\ Len(last) = (IF m <= n THEN n - m + 1 ELSE 0)
      /\ \A i \in 1..(n - m + 1) : last[i] = recs[m + i - 1]
  BY <1>2, <1>3, SubSeqProperties
<1>5. ShownFor(recs, p, RequiredTicks)
  <2> SUFFICES ASSUME NEW j \in m..n PROVE p \in Range(recs[j].frame.boxes)
    BY DEF ShownFor, m, n
  <2> DEFINE i == j - m + 1
  <2>1. i \in 1..(n - m + 1) /\ m + i - 1 = j /\ m <= n BY <1>2
  <2>2. i \in DOMAIN last BY <1>4, <2>1, LenProperties
  <2>3. p \in Range(last[i].frame.boxes) BY <2>2 DEF m, n
  <2>4. last[i] = recs[j] BY <1>4, <2>1
  <2> QED BY <2>3, <2>4
<1>6. \E i \in DOMAIN tracks : tracks[i].box = p /\ tracks[i].hits >= RequiredTicks
  BY <1>2, <1>5 DEF Watched, Followed, n
<1> QED BY <1>6 DEF Mature

LEMMA StepsRemember == MemoryInv /\ [Next]_vars => MemoryInv'
<1> SUFFICES ASSUME MemoryInv, [Next]_vars
             PROVE  MemoryInv'
  OBVIOUS
<1>1. CASE UNCHANGED vars
  BY <1>1 DEF vars, MemoryInv, TypeOK, StillIsReported
<1>2. CASE Next
  <2>1. PICK asked \in SUBSET Cameras :
          \E vision \in [asked -> Frames \cup {None}] :
            \E speeds \in [Usable(vision) -> BOOLEAN] : Tick(vision, speeds)
    BY <1>2 DEF Next
  <2>2. PICK vision \in [asked -> Frames \cup {None}] :
          \E speeds \in [Usable(vision) -> BOOLEAN] : Tick(vision, speeds)
    BY <2>1
  <2>3. PICK speeds \in [Usable(vision) -> BOOLEAN] : Tick(vision, speeds)
    BY <2>2
  <2> DEFINE ok == DOMAIN speeds
             stopped(c) == Stopped(_tracks'[c], speeds[c])
             density(c) == Density(c, vision[c], stopped(c))
             new(c) == [at |-> tick + 1, frame |-> vision[c]]
  <2>4. /\ ok \subseteq DOMAIN vision /\ DOMAIN vision \subseteq Cameras
        /\ \A c \in ok : vision[c] \in Frames
        /\ \A c \in DOMAIN vision \ ok : vision[c] = None
        /\ speeds \in [ok -> BOOLEAN]
    BY <2>2, <2>3 DEF Usable
  <2>5. _tracks' = [c \in Cameras |->
          IF c \in ok THEN _update_tracks(_tracks[c], vision[c].boxes, tick + 1)
          ELSE IF c \in DOMAIN vision THEN mark_camera_missed(_tracks[c]) ELSE _tracks[c]]
    BY <2>3 DEF Tick
  <2>6. /\ tick' = tick + 1 /\ tick < MaxTicks /\ normal' = speeds
        /\ records' = [c \in Cameras |->
                         IF c \in DOMAIN vision THEN Append(records[c], new(c)) ELSE records[c]]
    BY <2>3 DEF Tick
  <2>7. \A c \in ok : c \in Cameras /\ Stopped(_tracks'[c], speeds[c])
                                       = Stopped(_update_tracks(_tracks[c], vision[c].boxes, tick + 1), speeds[c])
    BY <2>4, <2>5
  <2>8. /\ _state' = [c \in DOMAIN _state \cup ok |->
                        IF c \in ok THEN density(c).remembered ELSE _state[c]]
        /\ states' = [c \in ok |-> [density |-> density(c).used, vehicle_stopped |-> stopped(c)]]
    BY <2>3, <2>5 DEF Tick
  <2>9. tick \in Nat /\ tick' \in 0..MaxTicks BY <2>6, VehiclesAssumption DEF MemoryInv, TypeOK
  <2>10. ASSUME NEW c \in Cameras PROVE Watched(_tracks'[c], records'[c], tick')
    <3>1. Watched(_tracks[c], records[c], tick) BY DEF MemoryInv
    <3>2. CASE c \in ok
      <4>1. _tracks'[c] = _update_tracks(_tracks[c], vision[c].boxes, tick + 1)
            /\ records'[c] = Append(records[c], [at |-> tick + 1, frame |-> vision[c]])
        BY <2>4, <2>5, <2>6, <3>2
      <4>2. vision[c] \in Frames BY <2>4, <3>2
      <4> QED BY <2>6, <2>9, <3>1, <4>1, <4>2, LookedIsWatched
    <3>3. CASE c \in DOMAIN vision \ ok
      <4>1. _tracks'[c] = mark_camera_missed(_tracks[c])
            /\ records'[c] = Append(records[c], [at |-> tick + 1, frame |-> None])
        BY <2>4, <2>5, <2>6, <3>3
      <4> QED BY <2>6, <2>9, <3>1, <4>1, MissedIsWatched
    <3>4. CASE c \notin DOMAIN vision
      <4>1. _tracks'[c] = _tracks[c] /\ records'[c] = records[c] BY <2>4, <2>5, <2>6, <3>4
      <4> QED BY <2>6, <2>9, <3>1, <4>1, SkippedIsWatched
    <3> QED BY <3>2, <3>3, <3>4
  <2>11. ASSUME NEW c \in ok
         PROVE  density(c).remembered \in Nat /\ density(c).used \in Nat /\ stopped(c) \in BOOLEAN
    <3> DEFINE d == Smoothed(c, vision[c].density)
    <3>1. vision[c].density \in Nat BY <2>4, VehiclesAssumption DEF Frame
    <3>2. d \in Nat
      <4>1. CASE c \notin DOMAIN _state BY <3>1, <4>1 DEF Smoothed
      <4>2. CASE c \in DOMAIN _state
        <5> DEFINE x == vision[c].density
                   y == _state[c]
                   top == IF x <= y THEN y ELSE x
        <5>1. y \in Nat BY <4>2 DEF MemoryInv, TypeOK
        <5>2. top \in Nat /\ x \in 0..top /\ y \in 0..top /\ Alpha \in 1..100
          BY <3>1, <5>1, VehiclesAssumption
        <5> HIDE DEF x, y, top
        <5>3. (Alpha * x + (100 - Alpha) * y) \div 100 \in 0..top BY <5>2, MeanIsBounded
        <5>4. (Alpha * x + (100 - Alpha) * y) \div 100 \in Nat BY <5>2, <5>3
        <5> QED BY <4>2, <5>4 DEF Smoothed, x, y
      <4> QED BY <4>1, <4>2
    <3>3. density(c) = [remembered |-> d, used |-> IF stopped(c) THEN Promoted(d) ELSE d]
      BY DEF Density
    <3>4. stopped(c) \in BOOLEAN BY <2>4, <2>11 DEF Stopped
    <3> HIDE DEF d, density, stopped
    <3>5. Promoted(d) \in Nat BY <3>2, VehiclesAssumption DEF Promoted
    <3> QED BY <3>2, <3>3, <3>4, <3>5
  <2>12. TypeOK'
    <3>1. _tracks' \in [Cameras -> Seq(Track)]
      <4>1. \A c \in Cameras : _tracks'[c] \in Seq(Track) BY <2>10, WatchedIsTyped
      <4> QED BY <2>5, <4>1
    <3>2. DOMAIN _state' \subseteq Cameras /\ \A c \in DOMAIN _state' : _state'[c] \in Nat
      <4> HIDE DEF density
      <4> QED BY <2>4, <2>8, <2>11 DEF MemoryInv, TypeOK
    <3>3. DOMAIN states' \subseteq Cameras /\ \A c \in DOMAIN states' : states'[c] \in State
      <4> HIDE DEF density, stopped
      <4> QED BY <2>4, <2>8, <2>11 DEF State
    <3>4. normal' \in [DOMAIN states' -> BOOLEAN] BY <2>4, <2>6, <2>8
    <3>5. \A c \in Cameras : \A r \in Range(records'[c]) :
            r.at \in 1..tick' /\ r.frame \in Frames \cup {None}
      BY <2>10, WatchedIsTyped
    <3> QED BY <2>9, <3>1, <3>2, <3>3, <3>4, <3>5 DEF TypeOK
  <2>13. StillIsReported'
    <3> SUFFICES ASSUME NEW c \in DOMAIN states',
                        Len(records'[c]) >= RequiredTicks,
                        NEW p \in Spots,
                        LET last == SubSeq(records'[c], Len(records'[c]) - RequiredTicks + 1,
                                           Len(records'[c])) IN
                        \A k \in DOMAIN last : p \in Range(last[k].frame.boxes),
                        normal'[c], \A r \in Range(records'[c]) : Separated(r.frame.boxes)
                 PROVE  states'[c].vehicle_stopped
      BY DEF StillIsReported
    <3>1. c \in ok /\ c \in Cameras /\ speeds[c] BY <2>4, <2>6, <2>8
    <3>2. Mature(_tracks'[c]) # {} BY <2>10, <3>1, ShownIsMature
    <3>3. stopped(c) BY <3>1, <3>2 DEF Stopped
    <3> QED BY <2>8, <3>1, <3>3
  <2> QED BY <2>10, <2>12, <2>13 DEF MemoryInv
<1> QED
  BY <1>1, <1>2

(* The smoother and the tracker keep what they are declared to keep.       *)
THEOREM MemoryIsTyped == Spec => []TypeOK
<1>1. MemoryInv => TypeOK BY DEF MemoryInv
<1> QED BY <1>1, InitiallyRemembered, StepsRemember, PTL DEF Spec

(* However the boxes of the frames crowd, no track counts a tick twice:    *)
(* its hits are as many as the ticks it was sighted in.                    *)
THEOREM TracksCountTicks == Spec => []HitsAreTicks
<1>1. MemoryInv => HitsAreTicks
  BY DEF MemoryInv, HitsAreTicks, Watched, Tells
<1> QED BY <1>1, InitiallyRemembered, StepsRemember, PTL DEF Spec

(* A track never bridges more than MaxMissed records of its camera,        *)
(* wherever in the series of records they lie.                             *)
THEOREM TracksBridgeFewRecords == Spec => []GapsAreShort
<1>1. MemoryInv => GapsAreShort
  BY DEF MemoryInv, GapsAreShort, Watched, Tells, Gone
<1> QED BY <1>1, InitiallyRemembered, StepsRemember, PTL DEF Spec

(* As long as the frames of a camera are separated, a box that stays at    *)
(* one spot for RequiredTicks records is reported, whatever else comes and *)
(* goes in between and around it.                                          *)
THEOREM StandingIsReported == Spec => []StillIsReported
<1>1. MemoryInv => StillIsReported BY DEF MemoryInv
<1> QED BY <1>1, InitiallyRemembered, StepsRemember, PTL DEF Spec
=============================================================================
