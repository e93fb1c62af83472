--------------------- MODULE TravelTimeCalibrator_proofs ---------------------
(***************************************************************************)
(* Proofs about the calibrator, for every corridor, every series of        *)
(* readings and predictions, and every setting of its constants.           *)
(***************************************************************************)
EXTENDS TravelTimeCalibrator, FoldTheorems, TLAPS

LEMMA BoundsAreTyped ==
  MaxTicks \in Nat /\ MaxFaults \in Nat /\ Start \in Int /\ Default \in Nat
BY CalibratorAssumption

(* A clamped number lies between the bounds.                               *)
LEMMA ClampIsBounded ==
  ASSUME NEW x \in Int, NEW b \in Nat
  PROVE  Clamp(x, -b, b) \in -b..b
BY DEF Clamp

(* What is learned from an observation is a residual within the bounds.    *)
LEMMA SampleIsTyped ==
  ASSUME NEW o \in Observation, NEW t \in Int
  PROVE  Sample(o, t) \in [of: Observation, residual: -MaxCorrection..MaxCorrection]
<1>1. (t - o.at) - o.eta \in Int
  BY DEF Observation
<1>2. Residual(o, t) \in -MaxCorrection..MaxCorrection
  BY <1>1, ClampIsBounded, CalibratorAssumption DEF Residual
<1> QED
  BY <1>2 DEF Sample

(* A natural number over a positive one is a natural number.               *)
LEMMA DivIsNat ==
  ASSUME NEW a \in Nat, NEW b \in Nat \ {0}
  PROVE  a \div b \in Nat
OBVIOUS

(***************************************************************************)
(* What a list of readings says, for any list.                             *)
(***************************************************************************)
LEMMA TotalIsTyped ==
  ASSUME NEW S, IsFiniteSet(S), NEW w \in [S -> Nat]
  PROVE  Total(w) \in Nat /\ \A x \in S : w[x] <= Total(w)
<1>1. DOMAIN w = S OBVIOUS
<1>2. Total(w) = MapThenSumSet(LAMBDA x : w[x], S) BY <1>1, Zenon DEF Total
<1>3. /\ MapThenSumSet(LAMBDA x : w[x], S) \in Nat
      /\ \A x \in S : w[x] <= MapThenSumSet(LAMBDA y : w[y], S)
  BY SumOfNaturals
<1> QED BY <1>2, <1>3, Zenon

\* The places of a list are finitely many, and each holds a reading.
LEMMA PlacesAreTyped ==
  ASSUME NEW readings \in Readings
  PROVE  /\ IsFiniteSet(DOMAIN readings) /\ DOMAIN readings \subseteq Nat
         /\ \A i \in DOMAIN readings : /\ readings[i].route \in Routes /\ readings[i].speed \in Nat
                                       /\ readings[i].length \in Nat
<1>1. readings \in Seq(Reading) BY CalibratorAssumption
<1>2. Len(readings) \in Nat /\ DOMAIN readings = 1..Len(readings) BY <1>1
<1>3. \A i \in DOMAIN readings : readings[i] \in Reading BY <1>1
<1>4. IsFiniteSet(1..Len(readings)) BY <1>2, FS_Interval
<1> QED BY <1>2, <1>3, <1>4 DEF Reading

(* An average of speeds is a speed.                                        *)
LEMMA AverageIsSpeed ==
  ASSUME NEW readings \in Readings
  PROVE  _weighted_avg_speed(readings) \in Nat \cup {NoSpeed}
<1> DEFINE free   == With(readings, "freeflow")
           length == [i \in free |-> readings[i].length]
           moved  == [i \in free |-> readings[i].speed * readings[i].length]
<1>1. free \subseteq DOMAIN readings BY DEF With
<1>2. IsFiniteSet(free) BY <1>1, PlacesAreTyped, FS_Subset
<1>3. length \in [free -> Nat] BY <1>1, PlacesAreTyped
<1>4. moved \in [free -> Nat]
  <2>1. \A x, y \in Nat : x * y \in Nat OBVIOUS
  <2>2. \A i \in free : readings[i].speed * readings[i].length \in Nat
    BY <1>1, <2>1, PlacesAreTyped
  <2> QED BY <2>2
<1>5. _weighted_avg_speed(readings) = IF Total(length) = 0 THEN NoSpeed
                                      ELSE Total(moved) \div Total(length)
  BY DEF _weighted_avg_speed
<1> HIDE DEF free, length, moved
<1>6. Total(length) \in Nat /\ Total(moved) \in Nat BY <1>2, <1>3, <1>4, TotalIsTyped
<1> QED BY <1>5, <1>6, DivIsNat

\* A part of the corridor is no longer than a larger part.
LEMMA PartsCompare ==
  ASSUME NEW a \in Nat, NEW b \in Nat, a <= b, NEW k \in Nat, NEW n \in Nat \ {0}
  PROVE  /\ (a * k) \div n \in Nat /\ (b * k) \div n \in Nat
         /\ (a * k) \div n <= (b * k) \div n
<1>1. PICK z \in Nat : b = a + z
  <2>1. b - a \in Nat /\ b = a + (b - a) OBVIOUS
  <2> QED BY <2>1
<1>2. b * k = a * k + z * k BY <1>1
<1>3. a * k \in Nat /\ z * k \in Nat BY <1>1
<1> DEFINE x == a * k  y == z * k
<1> HIDE DEF x, y
<1>4. x \in Nat /\ y \in Nat BY <1>3 DEF x, y
<1>5. x \div n \in Nat /\ (x + y) \div n \in Nat /\ x \div n <= (x + y) \div n BY <1>4
<1> QED BY <1>2, <1>5 DEF x, y

\* The share of a route ends after it begins, inside the corridor.
LEMMA SpansAreTyped ==
  ASSUME NEW readings \in Readings, NEW spans, spans = _build_route_spans(readings), NEW r \in DOMAIN spans
  PROVE  r \in Routes /\ spans[r].midpoint \in Nat /\ spans[r].order \in Nat
<1> DEFINE routes    == {readings[i].route : i \in DOMAIN readings}
           at(q)     == {i \in DOMAIN readings : readings[i].route = q}
           lengths(q) == {readings[i].length : i \in at(q)}
           length(q) == Max(lengths(q))
           whole     == [q \in routes |-> length(q)]
           total     == Total(whole)
           upto      == {q \in routes : Min(at(q)) <= Min(at(r))}
           part      == [q \in upto |-> length(q)]
           end       == (Total(part) * Corridor) \div total
           start     == end - (length(r) * Corridor) \div total
<1>1. /\ total # 0 /\ r \in routes
      /\ spans[r] = [midpoint |-> (start + end) \div 2, order |-> Min(at(r))]
  BY DEF _build_route_spans
<1>2. routes \subseteq Routes /\ IsFiniteSet(routes)
  <2>1. routes \subseteq Routes BY PlacesAreTyped
  <2> DEFINE f == [i \in DOMAIN readings |-> readings[i].route]
  <2>2. routes = {f[i] : i \in DOMAIN readings} OBVIOUS
  <2> HIDE DEF f
  <2>3. IsFiniteSet({f[i] : i \in DOMAIN readings}) BY PlacesAreTyped, ImageIsFinite
  <2> QED BY <2>1, <2>2, <2>3
<1>3. ASSUME NEW q \in routes
      PROVE  length(q) \in Nat /\ Min(at(q)) \in Nat
  <2>1. at(q) \subseteq DOMAIN readings /\ at(q) # {} /\ at(q) \subseteq Nat /\ IsFiniteSet(at(q))
    BY PlacesAreTyped, FS_Subset
  <2>2. lengths(q) \subseteq Nat /\ lengths(q) # {} BY <2>1, PlacesAreTyped
  <2>3. IsFiniteSet(lengths(q))
    <3> DEFINE f == [i \in at(q) |-> readings[i].length]
    <3>1. lengths(q) = {f[i] : i \in at(q)} OBVIOUS
    <3> HIDE DEF f, at, lengths
    <3>2. IsFiniteSet({f[i] : i \in at(q)}) BY <2>1, ImageIsFinite
    <3> QED BY <3>1, <3>2
  <2> HIDE DEF at, lengths
  <2>4. \E x \in lengths(q) : \A y \in lengths(q) : x >= y BY <2>2, <2>3, GreatestExists
  <2>5. Max(lengths(q)) \in lengths(q) BY <2>4, Zenon DEF Max
  <2>6. \E x \in at(q) : \A y \in at(q) : x <= y BY <2>1, LeastExists
  <2>7. Min(at(q)) \in at(q) BY <2>6, Zenon DEF Min
  <2> QED BY <2>1, <2>2, <2>5, <2>7
<1> HIDE DEF length, at
<1>4. total \in Nat \ {0}
  <2>1. whole \in [routes -> Nat] BY <1>3
  <2> HIDE DEF whole, routes
  <2>2. Total(whole) \in Nat BY <1>2, <2>1, TotalIsTyped
  <2> QED BY <1>1, <2>2
<1>5. Total(part) \in Nat /\ length(r) <= Total(part)
  <2>1. upto \subseteq routes /\ r \in upto BY <1>1, <1>3
  <2>2. part \in [upto -> Nat] /\ part[r] = length(r) BY <1>3, <2>1
  <2>3. IsFiniteSet(upto) BY <1>2, <2>1, FS_Subset
  <2> HIDE DEF part, upto, routes
  <2>4. Total(part) \in Nat /\ part[r] <= Total(part) BY <2>1, <2>2, <2>3, TotalIsTyped
  <2> QED BY <2>2, <2>4
<1>6. length(r) \in Nat /\ Min(at(r)) \in Nat BY <1>1, <1>3
<1> HIDE DEF total, part
<1>7. start \in Nat /\ end \in Nat
  <2> DEFINE a == (length(r) * Corridor) \div total
  <2>1. a \in Nat /\ end \in Nat /\ a <= end
    BY <1>4, <1>5, <1>6, PartsCompare, CalibratorAssumption
  <2> HIDE DEF a, end
  <2>2. end - a \in Nat BY <2>1
  <2> QED BY <2>1, <2>2 DEF a
<1> HIDE DEF start, end
<1>8. (start + end) \div 2 \in Nat BY <1>7
<1> QED BY <1>1, <1>2, <1>6, <1>8

(* A prediction with a target has one upstream of it.                      *)
LEMMA TargetIsUpstream ==
  ASSUME NEW readings \in Readings, NEW place \in Nat, NEW spans, spans = _build_route_spans(readings),
         HasTarget(place, spans), NEW r, r = _target_span_for_prediction(place, spans)
  PROVE  r \in Routes /\ spans[r].midpoint \in 0..place
<1> DEFINE S == {q \in DOMAIN spans : spans[q].midpoint <= place}
           Best(q) == \A p \in S :
             \/ spans[p].midpoint < spans[q].midpoint
             \/ (spans[p].midpoint = spans[q].midpoint /\ spans[q].order <= spans[p].order)
           far   == [q \in S |-> place - spans[q].midpoint]
           order == [q \in S |-> spans[q].order]
<1>1. \A q \in S : q \in Routes /\ spans[q].midpoint \in 0..place /\ spans[q].order \in Nat
  BY SpansAreTyped
<1>2. far \in [S -> Nat] /\ order \in [S -> Nat] /\ S # {}
  <2>1. S # {} BY DEF HasTarget
  <2>2. \A q \in S : place - spans[q].midpoint \in Nat BY <1>1
  <2> QED BY <1>1, <2>1, <2>2
<1>3. PICK q \in S : \A p \in S : far[q] < far[p] \/ (far[q] = far[p] /\ order[q] <= order[p])
  <2> HIDE DEF far, order, S
  <2> QED BY <1>2, FirstOfTheBest
<1>4. Best(q)
  <2> SUFFICES ASSUME NEW p \in S
               PROVE  \/ spans[p].midpoint < spans[q].midpoint
                      \/ (spans[p].midpoint = spans[q].midpoint /\ spans[q].order <= spans[p].order)
    OBVIOUS
  <2>1. far[q] = place - spans[q].midpoint /\ far[p] = place - spans[p].midpoint
        /\ order[q] = spans[q].order /\ order[p] = spans[p].order
    OBVIOUS
  <2>2. far[q] < far[p] \/ (far[q] = far[p] /\ order[q] <= order[p]) BY <1>3
  <2>3. spans[q].midpoint \in Nat /\ spans[p].midpoint \in Nat BY <1>1
  <2> HIDE DEF far, order, S
  <2> QED BY <2>1, <2>2, <2>3
<1>5. r = CHOOSE p \in S : Best(p) BY DEF _target_span_for_prediction
<1> HIDE DEF Best, S
<1>6. r \in S BY <1>3, <1>4, <1>5, Zenon
<1> QED BY <1>1, <1>6

(* The arrival of a queue at a target upstream is a time.                  *)
LEMMA EtaIsTyped ==
  ASSUME NEW place \in Nat, NEW midpoint \in 0..place, NEW wave \in Waves
  PROVE  _eta_to_span_midpoint(place, midpoint, wave) \in Nat
<1>1. (place - midpoint) \in Nat /\ Hour \in Nat /\ wave \in Nat \ {0}
  BY CalibratorAssumption
<1>2. (place - midpoint) * Hour \in Nat
  BY <1>1
<1> QED
  BY <1>1, <1>2, DivIsNat DEF _eta_to_span_midpoint

(* A weighted mean lies between what it mixes.                             *)
LEMMA MeanIsBetween ==
  ASSUME NEW a \in 0..100, NEW x \in Nat, NEW y \in Nat
  PROVE  LET m == (a * x + (100 - a) * y) \div 100 IN
         /\ m \in Nat
         /\ (m >= x \/ m >= y) /\ (m <= x \/ m <= y)
<1> DEFINE mix == a * x + (100 - a) * y
<1>1. a * x \in Nat /\ (100 - a) * y \in Nat /\ (100 - a) * x \in Nat /\ a * y \in Nat
  OBVIOUS
<1>2. a * x + (100 - a) * x = 100 * x /\ a * y + (100 - a) * y = 100 * y
  OBVIOUS
<1>3. CASE x <= y
  <2>1. a * x <= a * y /\ (100 - a) * x <= (100 - a) * y
    BY <1>3
  <2>2. mix \in Nat /\ 100 * x <= mix /\ mix <= 100 * y
    BY <1>1, <1>2, <2>1
  <2> HIDE DEF mix
  <2>3. mix \div 100 \in Nat /\ mix \div 100 >= x /\ mix \div 100 <= y
    BY <2>2
  <2> QED
    BY <2>3 DEF mix
<1>4. CASE y <= x
  <2>1. a * y <= a * x /\ (100 - a) * y <= (100 - a) * x
    BY <1>4
  <2>2. mix \in Nat /\ 100 * y <= mix /\ mix <= 100 * x
    BY <1>1, <1>2, <2>1
  <2> HIDE DEF mix
  <2>3. mix \div 100 \in Nat /\ mix \div 100 >= y /\ mix \div 100 <= x
    BY <2>2
  <2> QED
    BY <2>3 DEF mix
<1> QED
  BY <1>3, <1>4

(***************************************************************************)
(* Types, with the dates of the ghosts: what is recorded was recorded in   *)
(* this tick or before, and so was every look at the congestion.           *)
(***************************************************************************)
Dated ==
  /\ \A o \in recorded : o.made <= tick
  /\ \A m \in meetings : m.tick <= tick

IInv == TypeOK /\ Dated

(* The observations a tick makes.                                          *)
Made(readings, waves) ==
  LET spans == _build_route_spans(readings)
      target(c) == _target_span_for_prediction(Chainage[c], spans) IN
  {[made |-> tick + 1, at |-> now', camera |-> c, route |-> target(c),
    eta |-> _eta_to_span_midpoint(Chainage[c], spans[target(c)].midpoint, waves[c])] :
     c \in {d \in DOMAIN waves : HasTarget(Chainage[d], spans)}}

NewMeeting(readings) == [tick |-> tick + 1, at |-> now', congested |-> Congested(readings)]

(* What a tick with travel times does to the observations and the ghosts:  *)
(* nothing without spans, or one round of learning, recording and pruning. *)
LEMMA TickLearns ==
  ASSUME NEW readings \in Readings, NEW waves, apply_residual_corrections(readings, waves)
  PROVE  \/ UNCHANGED <<_pending_residuals, _residuals_by_bucket, recorded, meetings>>
         \/ /\ _residuals_by_bucket' = _residuals_by_bucket
                 \cup _learn_residuals(_pending_residuals, Congested(readings), now')
            /\ _pending_residuals' = _prune_pending(
                 Waiting(_pending_residuals, Congested(readings), now') \cup Made(readings, waves), now')
            /\ recorded' = recorded \cup Made(readings, waves)
            /\ meetings' = meetings \cup {NewMeeting(readings)}
BY DEF apply_residual_corrections, Made, NewMeeting, Observed

(* They are typed, and of this tick.                                       *)
LEMMA MadeIsTyped ==
  ASSUME NEW readings \in Readings, NEW seen \in SUBSET Cameras, NEW waves \in [seen -> Waves],
         now' \in Int, tick \in Nat
  PROVE  /\ Made(readings, waves) \subseteq Observation
         /\ \A o \in Made(readings, waves) : o.made = tick + 1 /\ o.at = now'
         /\ NewMeeting(readings) \in Meeting
<1>1. ASSUME NEW o \in Made(readings, waves)
      PROVE  o \in Observation /\ o.made = tick + 1 /\ o.at = now'
  <2> DEFINE spans == _build_route_spans(readings)
  <2>1. PICK c \in DOMAIN waves :
          /\ HasTarget(Chainage[c], spans)
          /\ o = [made |-> tick + 1, at |-> now', camera |-> c,
                  route |-> _target_span_for_prediction(Chainage[c], spans),
                  eta |-> _eta_to_span_midpoint(Chainage[c],
                            spans[_target_span_for_prediction(Chainage[c], spans)].midpoint, waves[c])]
    BY <1>1 DEF Made
  <2> DEFINE r == _target_span_for_prediction(Chainage[c], spans)
  <2>2. c \in Cameras /\ waves[c] \in Waves /\ Chainage[c] \in Nat
    BY CalibratorAssumption
  <2>3. r \in Routes /\ spans[r].midpoint \in 0..Chainage[c]
    BY <2>1, <2>2, TargetIsUpstream
  <2>4. _eta_to_span_midpoint(Chainage[c], spans[r].midpoint, waves[c]) \in Nat
    BY <2>2, <2>3, EtaIsTyped
  <2> HIDE DEF spans, r
  <2> QED
    BY <2>1, <2>2, <2>3, <2>4 DEF Observation, r
<1>2. Congested(readings) \subseteq Routes
  <2>1. readings \in Seq(Reading)
    BY CalibratorAssumption
  <2>2. \A i \in DOMAIN readings : readings[i] \in Reading
    BY <2>1
  <2>3. \A i \in DOMAIN readings : readings[i].route \in Routes
    BY <2>2 DEF Reading
  <2> QED
    BY <2>3 DEF Congested, With
<1> QED
  BY <1>1, <1>2 DEF NewMeeting, Meeting

(* The clock stays a number.                                               *)
LEMMA ClockIsTyped ==
  ASSUME now \in Int, faults \in 0..MaxFaults, Later
  PROVE  now' \in Int /\ faults' \in 0..MaxFaults
BY CalibratorAssumption DEF Later

(* The average stays a natural number, and enters only as update says.     *)
LEMMA UpdateIsTyped ==
  ASSUME NEW readings \in Readings, TypeOK, update(readings)
  PROVE  /\ adapted_free_flow_speed' \in Nat
         /\ measured' \subseteq Nat /\ seed' \in BOOLEAN
<1> DEFINE m == _weighted_avg_speed(readings)
<1>1. Reliable(readings) => m \in Nat
  BY AverageIsSpeed DEF Reliable
<1>2. Reliable(readings) =>
        (Alpha * m + (100 - Alpha) * adapted_free_flow_speed) \div 100 \in Nat
  BY <1>1, MeanIsBetween, CalibratorAssumption DEF TypeOK
<1> HIDE DEF m
<1>3. Adapted(readings, tick_count + 1) \in Nat
  BY <1>1, <1>2 DEF Adapted, TypeOK, m
<1> QED
  BY <1>1, <1>3 DEF update, TypeOK, m

(* A tick with travel times keeps the types and the dates.                 *)
LEMMA TickKeepsTypes ==
  ASSUME NEW readings \in Readings, NEW seen \in SUBSET Cameras, NEW waves \in [seen -> Waves],
         IInv, Tick(readings, waves)
  PROVE  IInv'
<1>1. now \in Int /\ faults \in 0..MaxFaults /\ tick \in 0..MaxTicks /\ tick' = tick + 1 /\ tick < MaxTicks
      /\ MaxTicks \in Nat
  BY CalibratorAssumption DEF IInv, TypeOK, Tick
<1>2. now' \in Int /\ faults' \in 0..MaxFaults
  BY <1>1, ClockIsTyped DEF Tick
<1>3. /\ adapted_free_flow_speed' \in Nat /\ measured' \subseteq Nat /\ seed' \in BOOLEAN
      /\ tick_count' = tick_count + 1
  BY UpdateIsTyped DEF Tick, IInv, update
<1>4. tick' \in 0..MaxTicks /\ tick_count' \in 0..tick'
  BY <1>1, <1>3 DEF IInv, TypeOK
<1>5. /\ Made(readings, waves) \subseteq Observation
      /\ \A o \in Made(readings, waves) : o.made = tick + 1 /\ o.at = now'
      /\ NewMeeting(readings) \in Meeting
  BY <1>1, <1>2, MadeIsTyped
<1>6. /\ _pending_residuals' \subseteq Observation
      /\ _residuals_by_bucket' \subseteq [of: Observation, residual: -MaxCorrection..MaxCorrection]
      /\ recorded' \subseteq Observation /\ meetings' \subseteq Meeting
      /\ \A o \in recorded' : o.made <= tick'
      /\ \A m \in meetings' : m.tick <= tick'
  <2>1. apply_residual_corrections(readings, waves)
    BY DEF Tick
  <2>2. CASE UNCHANGED <<_pending_residuals, _residuals_by_bucket, recorded, meetings>>
    BY <1>1, <2>2 DEF IInv, TypeOK, Dated, Observation, Meeting
  <2>3. CASE /\ _residuals_by_bucket' = _residuals_by_bucket
                  \cup _learn_residuals(_pending_residuals, Congested(readings), now')
             /\ _pending_residuals' = _prune_pending(
                  Waiting(_pending_residuals, Congested(readings), now') \cup Made(readings, waves), now')
             /\ recorded' = recorded \cup Made(readings, waves)
             /\ meetings' = meetings \cup {NewMeeting(readings)}
    <3>1. _learn_residuals(_pending_residuals, Congested(readings), now')
            \subseteq [of: Observation, residual: -MaxCorrection..MaxCorrection]
      BY <1>2, SampleIsTyped DEF _learn_residuals, IInv, TypeOK
    <3>2. _pending_residuals' \subseteq Observation
      BY <1>5, <2>3 DEF _prune_pending, Waiting, IInv, TypeOK
    <3>3. \A o \in recorded' : o.made <= tick'
      BY <1>1, <1>5, <2>3 DEF IInv, TypeOK, Dated, Observation
    <3>4. \A m \in meetings' : m.tick <= tick'
      BY <1>1, <2>3 DEF IInv, TypeOK, Dated, Meeting, NewMeeting
    <3> QED
      BY <1>5, <2>3, <3>1, <3>2, <3>3, <3>4 DEF IInv, TypeOK
  <2> QED
    BY <2>1, <2>2, <2>3, TickLearns
<1> QED
  BY <1>2, <1>3, <1>4, <1>6 DEF IInv, TypeOK, Dated

LEMMA TypesInit == Init => IInv
<1> SUFFICES ASSUME Init PROVE IInv
  OBVIOUS
<1>1. now \in Int /\ tick \in 0..MaxTicks /\ faults \in 0..MaxFaults /\ tick_count \in 0..tick
      /\ adapted_free_flow_speed \in Nat
  BY BoundsAreTyped DEF Init
<1> QED
  BY <1>1 DEF Init, IInv, TypeOK, Dated

LEMMA TypesStep == IInv /\ [Next]_vars => IInv'
<1> SUFFICES ASSUME IInv, [Next]_vars PROVE IInv'
  OBVIOUS
<1>1. ASSUME NEW seen \in SUBSET Cameras, NEW waves \in [seen -> Waves], TickBlind(waves)
      PROVE  IInv'
  <2>1. now' \in Int /\ faults' \in 0..MaxFaults
    BY <1>1, ClockIsTyped DEF TickBlind, IInv, TypeOK
  <2>2. tick' \in 0..MaxTicks /\ tick_count' \in 0..tick' /\ tick' = tick + 1
    <3>1. tick \in 0..MaxTicks /\ tick_count \in 0..tick
      BY DEF IInv, TypeOK
    <3>2. tick < MaxTicks /\ tick' = tick + 1 /\ tick_count' = tick_count
      BY <1>1 DEF TickBlind
    <3> QED
      BY <3>1, <3>2, BoundsAreTyped
  <2>3. Dated'
    <3>1. recorded' = recorded /\ meetings' = meetings
      BY <1>1 DEF TickBlind
    <3>2. tick \in Nat /\ recorded \subseteq Observation /\ meetings \subseteq Meeting
      BY BoundsAreTyped DEF IInv, TypeOK
    <3> QED
      BY <2>2, <3>1, <3>2 DEF IInv, Dated, Observation, Meeting
  <2> QED
    BY <1>1, <2>1, <2>2, <2>3 DEF TickBlind, IInv, TypeOK
<1>2. ASSUME NEW seen \in SUBSET Cameras, NEW waves \in [seen -> Waves], NEW readings \in Readings,
             Tick(readings, waves)
      PROVE  IInv'
  BY <1>2, TickKeepsTypes
<1>3. ASSUME NEW readings \in Readings, TickRaises(readings)
      PROVE  IInv'
  <2>1. /\ adapted_free_flow_speed' \in Nat /\ measured' \subseteq Nat /\ seed' \in BOOLEAN
        /\ tick_count' = tick_count + 1
    BY <1>3, UpdateIsTyped DEF TickRaises, IInv, update
  <2>2. tick' \in 0..MaxTicks /\ tick_count' \in 0..tick' /\ tick' = tick + 1
        /\ now' \in Int /\ faults' \in 0..MaxFaults
    <3>1. PICK g \in Gaps : now' = now + g
      BY <1>3 DEF TickRaises
    <3>2. g \in Int
      BY CalibratorAssumption
    <3> QED
      BY <1>3, <2>1, <3>1, <3>2, BoundsAreTyped DEF TickRaises, IInv, TypeOK
  <2>3. Dated'
    BY <1>3, <2>2 DEF TickRaises, IInv, TypeOK, Dated, Observation, Meeting
  <2> QED
    BY <1>3, <2>1, <2>2, <2>3 DEF TickRaises, IInv, TypeOK
<1>4. CASE Restart
  <2>1. now' \in Int /\ tick' \in 0..MaxTicks /\ faults' \in 0..MaxFaults /\ tick_count' \in 0..tick'
        /\ adapted_free_flow_speed' \in Nat
    BY <1>4, BoundsAreTyped DEF Restart, IInv, TypeOK
  <2> QED
    BY <1>4, <2>1 DEF Restart, IInv, TypeOK, Dated
<1>5. CASE UNCHANGED vars
  BY <1>5 DEF vars, IInv, TypeOK, Dated
<1> QED
  BY <1>1, <1>2, <1>3, <1>4, <1>5 DEF Next

(* What the calibrator keeps is typed: in particular every residual it     *)
(* ever learns is within the bounds of a correction.                       *)
THEOREM CalibratorTypes == Spec => []TypeOK
<1>1. Spec => []IInv
  BY TypesInit, TypesStep, PTL DEF Spec
<1> QED
  BY <1>1, PTL DEF IInv

(***************************************************************************)
(* The average.                                                            *)
(***************************************************************************)
Sources == measured \cup (IF seed THEN {} ELSE {Default})

Between == /\ \E s \in Sources : s >= adapted_free_flow_speed
           /\ \E s \in Sources : s <= adapted_free_flow_speed

LEMMA UpdateStaysBetween ==
  ASSUME NEW readings \in Readings, TypeOK, Between, update(readings)
  PROVE  Between'
<1> DEFINE m == _weighted_avg_speed(readings)
           mean == (Alpha * m + (100 - Alpha) * adapted_free_flow_speed) \div 100
<1>1. CASE ~ Reliable(readings)
  <2>1. measured' = measured /\ seed' = seed /\ adapted_free_flow_speed' = adapted_free_flow_speed
    BY <1>1 DEF update, Adapted, TypeOK
  <2> QED
    BY <2>1 DEF Between, Sources
<1>2. CASE Reliable(readings) /\ tick_count = 0
  <2>1. m \in Nat
    BY <1>2, AverageIsSpeed DEF Reliable
  <2>2. m \in measured' /\ adapted_free_flow_speed' = m
    BY <1>2 DEF update, Adapted, Seeds
  <2> HIDE DEF m
  <2> QED
    BY <2>1, <2>2 DEF Between, Sources
<1>3. CASE Reliable(readings) /\ tick_count # 0
  <2>1. m \in Nat /\ adapted_free_flow_speed \in Nat
    BY <1>3, AverageIsSpeed DEF Reliable, TypeOK
  <2>2. tick_count \in Int /\ tick_count + 1 # 1
    BY <1>3 DEF TypeOK
  <2>3. adapted_free_flow_speed' = mean
    BY <1>3, <2>2 DEF update, Adapted, Seeds
  <2>4. measured' = measured \cup {m} /\ seed' = seed
    BY <1>3 DEF update, TypeOK
  <2>5. /\ mean \in Nat
        /\ mean >= m \/ mean >= adapted_free_flow_speed
        /\ mean <= m \/ mean <= adapted_free_flow_speed
    BY <2>1, MeanIsBetween, CalibratorAssumption
  <2>6. Sources \subseteq Nat /\ Sources' = Sources \cup {m}
    BY <2>4, BoundsAreTyped DEF Sources, TypeOK
  <2> HIDE DEF m, mean
  <2>7. PICK hi \in Sources : hi >= adapted_free_flow_speed
    BY DEF Between
  <2>8. PICK lo \in Sources : lo <= adapted_free_flow_speed
    BY DEF Between
  <2>9. hi \in Nat /\ lo \in Nat
    BY <2>6
  <2>10. \E s \in Sources' : s >= mean
    BY <2>1, <2>5, <2>6, <2>7, <2>9
  <2>11. \E s \in Sources' : s <= mean
    BY <2>1, <2>5, <2>6, <2>8, <2>9
  <2> QED
    BY <2>3, <2>10, <2>11 DEF Between
<1> QED
  BY <1>1, <1>2, <1>3

(* The free-flow speed never leaves the range of what was measured, the    *)
(* default counting among it only until the first update has seeded it.    *)
THEOREM AveragesAreMeasured == Spec => []AdaptedFromMeasurements
<1>1. Init => Between
  BY BoundsAreTyped DEF Init, Between, Sources
<1>2. IInv /\ Between /\ [Next]_vars => Between'
  <2> SUFFICES ASSUME IInv, Between, [Next]_vars PROVE Between'
    OBVIOUS
  <2>1. ASSUME NEW readings \in Readings, update(readings)
        PROVE  Between'
    BY <2>1, UpdateStaysBetween DEF IInv
  <2>2. CASE UNCHANGED <<adapted_free_flow_speed, measured, seed>>
    BY <2>2 DEF Between, Sources
  <2>3. CASE Restart
    BY <2>3, BoundsAreTyped DEF Restart, Between, Sources
  <2> QED
    BY <2>1, <2>2, <2>3 DEF Next, Tick, TickBlind, TickRaises, vars
<1>3. Between => AdaptedFromMeasurements
  BY DEF Between, Sources, AdaptedFromMeasurements
<1> QED
  BY <1>1, <1>2, <1>3, TypesInit, TypesStep, PTL DEF Spec

(***************************************************************************)
(* The residuals.                                                          *)
(***************************************************************************)
\* Judged, by the meetings M.
JudgedBy(o, M) == {m \in M : Judges(m, o) /\ \A n \in M : n.tick < m.tick => ~ Settles(n, o)}

(* One round of learning, recording and pruning adds the meeting of this   *)
(* tick to the history, and nothing else.                                  *)
LEMMA OneRoundOfLearning ==
  ASSUME NEW readings \in Readings, NEW seen \in SUBSET Cameras, NEW waves \in [seen -> Waves],
         IInv, LearnedFromHistory, now' \in Int, tick \in Nat,
         _residuals_by_bucket' = _residuals_by_bucket
           \cup _learn_residuals(_pending_residuals, Congested(readings), now'),
         _pending_residuals' = _prune_pending(
           Waiting(_pending_residuals, Congested(readings), now') \cup Made(readings, waves), now'),
         recorded' = recorded \cup Made(readings, waves),
         meetings' = meetings \cup {NewMeeting(readings)}
  PROVE  LearnedFromHistory'
<1> DEFINE New == Made(readings, waves)
           m == NewMeeting(readings)
           congested == Congested(readings)
           t == now'
<1>1. /\ \A o \in recorded : o \in Observation /\ o.made <= tick /\ o.made \in Nat /\ o.at \in Int
      /\ \A n \in meetings : n.tick \in Nat /\ n.tick <= tick /\ n.at \in Int
  BY DEF IInv, TypeOK, Dated, Observation, Meeting
<1>2. \A o \in New : o.made = tick + 1 /\ o.at = t
  BY MadeIsTyped
<1>3. m.tick = tick + 1 /\ m.at = t /\ m.congested = congested
  BY DEF NewMeeting
<1>4. LateTolerance \in Nat /\ MatchExpiry \in Nat
  BY CalibratorAssumption
<1> HIDE DEF New, m, congested, t
<1>5. \A o \in recorded : /\ Judges(m, o) <=> Teaches(o, congested, t)
                          /\ Settles(m, o) <=> Teaches(o, congested, t) \/ Age(o, t) > MatchExpiry
  BY <1>1, <1>3, <1>4 DEF Judges, Settles, Teaches, Age, t
<1>6. \A o \in New : \A n \in meetings \cup {m} : ~ Settles(n, o) /\ ~ Judges(n, o)
  BY <1>1, <1>2, <1>3 DEF Settles, Judges
<1>7. meetings' = meetings \cup {m} /\ recorded' = recorded \cup New
  BY DEF m, New
<1>8. _pending_residuals' = {o \in recorded' : \A n \in meetings' : ~ Settles(n, o)}
  <2>1. \A o \in recorded : o \in Waiting(_pending_residuals, congested, t) /\ Age(o, t) <= MatchExpiry
                              <=> o \in _pending_residuals /\ ~ Settles(m, o)
    <3>1. \A o \in recorded : t - o.at \in Int
      BY <1>1 DEF t
    <3> QED
      BY <1>4, <1>5, <3>1 DEF Waiting, Age, Teaches
  <2>2. \A o \in New : Age(o, t) <= MatchExpiry
    BY <1>2, <1>4 DEF Age, t
  <2>3. _pending_residuals' = {o \in Waiting(_pending_residuals, congested, t) \cup New : Age(o, t) <= MatchExpiry}
    BY DEF _prune_pending, New, congested, t
  <2>4. Waiting(_pending_residuals, congested, t) \subseteq recorded
    BY DEF Waiting, LearnedFromHistory
  <2>5. \A o \in recorded : o \in _pending_residuals <=> \A n \in meetings : ~ Settles(n, o)
    BY DEF LearnedFromHistory
  <2>6. \A o \in recorded' : o \in _pending_residuals' <=> \A n \in meetings' : ~ Settles(n, o)
    BY <1>6, <1>7, <2>1, <2>2, <2>3, <2>5
  <2>7. _pending_residuals' \subseteq recorded'
    BY <1>7, <2>3, <2>4
  <2> QED
    BY <2>6, <2>7
<1>9. \A o \in New : JudgedBy(o, meetings') = {}
  BY <1>6, <1>7 DEF JudgedBy
<1>10. ASSUME NEW o \in recorded
       PROVE  JudgedBy(o, meetings') = JudgedBy(o, meetings) \cup (IF o \in _pending_residuals /\ Teaches(o, congested, t) THEN {m} ELSE {})
  <2>1. \A n \in meetings : ~ m.tick < n.tick /\ n.tick < m.tick
    BY <1>1, <1>3
  <2>2. ~ m.tick < m.tick
    BY <1>3
  <2>3. o \in _pending_residuals <=> \A n \in meetings : ~ Settles(n, o)
    BY DEF LearnedFromHistory
  <2>4. JudgedBy(o, meetings') = {k \in meetings \cup {m} : Judges(k, o) /\ \A n \in meetings \cup {m} : n.tick < k.tick => ~ Settles(n, o)}
    BY <1>7 DEF JudgedBy
  <2>5. Judges(m, o) <=> Teaches(o, congested, t)
    BY <1>5
  <2> QED
    BY <2>1, <2>2, <2>3, <2>4, <2>5 DEF JudgedBy
<1>11. _residuals_by_bucket' = UNION {{Sample(o, n.at) : n \in JudgedBy(o, meetings')} : o \in recorded'}
  <2>1. _residuals_by_bucket' = _residuals_by_bucket \cup
          {Sample(o, t) : o \in {p \in _pending_residuals : Teaches(p, congested, t)}}
    BY DEF _learn_residuals, congested, t
  <2>2. _pending_residuals \subseteq recorded
    BY DEF LearnedFromHistory
  <2>3. _residuals_by_bucket = UNION {{Sample(o, n.at) : n \in JudgedBy(o, meetings)} : o \in recorded}
    BY DEF LearnedFromHistory, Judged, JudgedBy
  <2>4. ASSUME NEW x \in _residuals_by_bucket'
        PROVE  x \in UNION {{Sample(o, n.at) : n \in JudgedBy(o, meetings')} : o \in recorded'}
    <3>1. CASE x \in _residuals_by_bucket
      <4>1. PICK o \in recorded : \E n \in JudgedBy(o, meetings) : x = Sample(o, n.at)
        BY <2>3, <3>1
      <4>2. PICK n \in JudgedBy(o, meetings) : x = Sample(o, n.at)
        BY <4>1
      <4>3. n \in JudgedBy(o, meetings') /\ o \in recorded'
        BY <1>7, <1>10
      <4> QED
        BY <4>2, <4>3
    <3>2. CASE x \notin _residuals_by_bucket
      <4>1. PICK o \in _pending_residuals : Teaches(o, congested, t) /\ x = Sample(o, t)
        BY <2>1, <2>4, <3>2
      <4>2. m \in JudgedBy(o, meetings') /\ o \in recorded' /\ m.at = t
        BY <1>3, <1>7, <1>10, <2>2, <4>1
      <4> QED
        BY <4>1, <4>2
    <3> QED
      BY <3>1, <3>2
  <2>5. ASSUME NEW o \in recorded', NEW n \in JudgedBy(o, meetings')
        PROVE  Sample(o, n.at) \in _residuals_by_bucket'
    <3>1. o \in recorded
      BY <1>7, <1>9
    <3>2. CASE n \in JudgedBy(o, meetings)
      BY <2>1, <2>3, <3>1, <3>2
    <3>3. CASE n \notin JudgedBy(o, meetings)
      <4>1. o \in _pending_residuals /\ Teaches(o, congested, t) /\ n = m
        BY <1>10, <2>5, <3>1, <3>3
      <4> QED
        BY <1>3, <2>1, <4>1
    <3> QED
      BY <3>2, <3>3
  <2>6. ASSUME NEW x \in UNION {{Sample(o, n.at) : n \in JudgedBy(o, meetings')} : o \in recorded'}
        PROVE  x \in _residuals_by_bucket'
    <3>1. PICK o \in recorded' : x \in {Sample(o, n.at) : n \in JudgedBy(o, meetings')}
      OBVIOUS
    <3>2. PICK n \in JudgedBy(o, meetings') : x = Sample(o, n.at)
      BY <3>1
    <3> QED
      BY <2>5, <3>2
  <2> QED
    BY <2>4, <2>6
<1> QED
  BY <1>8, <1>11 DEF LearnedFromHistory, Judged, JudgedBy

(* What the calibrator has learned, and what still waits, is a function of *)
(* the history of predictions and congestion: every prediction counts at   *)
(* most once, against the first congestion of its route that finds it      *)
(* young enough, by its own uncorrected arrival.                           *)
THEOREM LearningFollowsHistory == Spec => []LearnedFromHistory
<1>1. Init => LearnedFromHistory
  BY DEF Init, LearnedFromHistory
<1>2. IInv /\ LearnedFromHistory /\ [Next]_vars => LearnedFromHistory'
  <2> SUFFICES ASSUME IInv, LearnedFromHistory, [Next]_vars PROVE LearnedFromHistory'
    OBVIOUS
  <2>1. CASE UNCHANGED <<_pending_residuals, _residuals_by_bucket, recorded, meetings>>
    BY <2>1 DEF LearnedFromHistory, Judged
  <2>2. ASSUME NEW seen \in SUBSET Cameras, NEW waves \in [seen -> Waves], NEW readings \in Readings,
               Tick(readings, waves)
        PROVE  LearnedFromHistory'
    <3>1. now' \in Int /\ tick \in Nat
      BY <2>2, ClockIsTyped, BoundsAreTyped DEF Tick, IInv, TypeOK
    <3>2. apply_residual_corrections(readings, waves)
      BY <2>2 DEF Tick
    <3> QED
      BY <2>1, <3>1, <3>2, TickLearns, OneRoundOfLearning
  <2>3. CASE Restart
    BY <2>3 DEF Restart, LearnedFromHistory
  <2> QED
    BY <2>1, <2>2, <2>3 DEF Next, TickBlind, TickRaises, vars
<1> QED
  BY <1>1, <1>2, TypesInit, TypesStep, PTL DEF Spec

(***************************************************************************)
(* The corrections.                                                        *)
(***************************************************************************)

(* What is added up are numbers, and so is their sum.                      *)
LEMMA ResidualsAddUp ==
  ASSUME NEW S, IsFiniteSet(S), \A s \in S : s.residual \in Int
  PROVE  MapThenSumSet(LAMBDA s : s.residual, S) \in Int
<1> DEFINE One(s) == CHOOSE x \in s : TRUE
           Rhs(f, s) == IF s = {} THEN 0 ELSE One(s).residual + f[s \ {One(s)}]
           iter == CHOOSE f : f = [s \in SUBSET S |-> Rhs(f, s)]
           step == [x \in S |-> [a \in Int |-> x.residual + a]]
           pick == [s \in SUBSET S |-> One(s)]
<1>1. MapThenSumSet(LAMBDA s : s.residual, S) = iter[S]
  BY Zenon DEF MapThenSumSet, MapThenFoldSet
<1>2. step \in [S -> [Int -> Int]] OBVIOUS
<1>3. \A s \in SUBSET S : s # {} => One(s) \in s OBVIOUS
<1> HIDE DEF One
<1>4. Picks(pick, S) /\ \A s \in SUBSET S : pick[s] = One(s) BY <1>3 DEF Picks
<1> HIDE DEF step, pick
<1>5. PICK f \in [SUBSET S -> Int] : Iterates(f, S, 0, step, pick)
  <2>1. 0 \in Int OBVIOUS
  <2> QED BY <1>2, <1>4, <2>1, IterationExists, Zenon
<1>6. ASSUME NEW s \in SUBSET S PROVE f[s] = Rhs(f, s)
  <2>1. CASE s = {} BY <1>5, <2>1 DEF Iterates
  <2>2. CASE s # {}
    <3>1. f[s] = step[One(s)][f[s \ {One(s)}]] BY <1>4, <1>5, <2>2 DEF Iterates
    <3>2. One(s) \in S /\ f[s \ {One(s)}] \in Int BY <1>3, <1>5, <2>2
    <3> QED BY <2>2, <3>1, <3>2 DEF step
  <2> QED BY <2>1, <2>2
<1>7. f = [s \in SUBSET S |-> Rhs(f, s)] BY <1>5, <1>6
<1>8. iter = [s \in SUBSET S |-> Rhs(iter, s)] BY <1>7, Zenon
<1> HIDE DEF iter
<1>9. \A s \in SUBSET S : s # {} => pick[s] \in s BY <1>4 DEF Picks
<1>10. iter[{}] \in Int BY <1>8
<1>11. \A s \in SUBSET S : s # {} /\ iter[s \ {pick[s]}] \in Int => iter[s] \in Int
  <2> SUFFICES ASSUME NEW s \in SUBSET S, s # {}, iter[s \ {pick[s]}] \in Int
               PROVE  iter[s] \in Int OBVIOUS
  <2>1. iter[s] = One(s).residual + iter[s \ {One(s)}] /\ pick[s] = One(s) BY <1>4, <1>8
  <2>2. One(s).residual \in Int BY <1>3
  <2> QED BY <2>1, <2>2
<1>12. \A s \in SUBSET S : iter[s] \in Int BY <1>9, <1>10, <1>11, IterationKeeps
<1> QED BY <1>1, <1>12

\* What has been learned, from the predictions R and the meetings M.
SamplesOf(R, M) == UNION {{Sample(o, m.at) : m \in JudgedBy(o, M)} : o \in R}

\* No tick looks at the congestion twice.
OneMeetingEach(M) == \A m, n \in M : m.tick = n.tick => m = n

(* A prediction is judged once at most.                                    *)
LEMMA JudgedOnce ==
  ASSUME NEW M \in SUBSET Meeting, OneMeetingEach(M), NEW o
  PROVE  \A m, n \in JudgedBy(o, M) : m = n
<1> SUFFICES ASSUME NEW m \in JudgedBy(o, M), NEW n \in JudgedBy(o, M) PROVE m = n
  OBVIOUS
<1>1. m \in M /\ n \in M /\ Settles(m, o) /\ Settles(n, o) BY DEF JudgedBy, Settles
<1>2. ~ (m.tick < n.tick) /\ ~ (n.tick < m.tick) BY <1>1 DEF JudgedBy
<1>3. m.tick \in Nat /\ n.tick \in Nat BY <1>1 DEF Meeting
<1>4. m.tick = n.tick BY <1>2, <1>3
<1> QED BY <1>1, <1>4 DEF OneMeetingEach

(* A bucket holds one sample of every judged prediction that belongs there.*)
LEMMA OneSampleEach ==
  ASSUME NEW R \in SUBSET Observation, IsFiniteSet(R),
         NEW M \in SUBSET Meeting, OneMeetingEach(M), NEW b
  PROVE  LET S == InBucket(SamplesOf(R, M), b) IN
         /\ IsFiniteSet(S) /\ \A s \in S : s.residual \in Int
         /\ Cardinality(S)
              = Cardinality({r \in R : _residual_bucket(r) = b /\ JudgedBy(r, M) # {}})
<1> DEFINE S == InBucket(SamplesOf(R, M), b)
           J == {r \in R : _residual_bucket(r) = b /\ JudgedBy(r, M) # {}}
           judge(r) == CHOOSE m \in JudgedBy(r, M) : TRUE
           f == [r \in J |-> Sample(r, judge(r).at)]
<1>1. \A r \in J : judge(r) \in JudgedBy(r, M) OBVIOUS
<1>2. \A r \in J : \A m \in JudgedBy(r, M) : m = judge(r)
  BY <1>1, JudgedOnce
<1> HIDE DEF judge
<1>3. \A r, t : Sample(r, t).of = r BY DEF Sample
<1>4. \A r \in J : f[r] \in S
  <2> SUFFICES ASSUME NEW r \in J PROVE f[r] \in S OBVIOUS
  <2>1. f[r] = Sample(r, judge(r).at) /\ r \in R /\ judge(r) \in JudgedBy(r, M) BY <1>1
  <2>2. f[r] \in SamplesOf(R, M) BY <2>1 DEF SamplesOf
  <2>3. f[r].of = r /\ _residual_bucket(r) = b BY <1>3, <2>1
  <2> QED BY <2>2, <2>3 DEF InBucket
<1>5. \A s \in S : \E r \in J : f[r] = s
  <2> SUFFICES ASSUME NEW s \in S PROVE \E r \in J : f[r] = s OBVIOUS
  <2>1. s \in SamplesOf(R, M) /\ _residual_bucket(s.of) = b BY DEF InBucket
  <2>2. PICK r \in R : s \in {Sample(r, m.at) : m \in JudgedBy(r, M)} BY <2>1 DEF SamplesOf
  <2>3. PICK m \in JudgedBy(r, M) : s = Sample(r, m.at) BY <2>2
  <2>4. s.of = r BY <1>3, <2>3
  <2>5. r \in J BY <2>1, <2>3, <2>4
  <2>6. f[r] = s BY <1>2, <2>3, <2>5
  <2> QED BY <2>5, <2>6
<1>6. \A r, q \in J : f[r] = f[q] => r = q
  <2>1. \A r \in J : f[r].of = r BY <1>3
  <2> HIDE DEF f
  <2> QED BY <2>1
<1>7. IsFiniteSet(J) BY FS_Subset
<1> HIDE DEF J, S
<1>8. f \in Bijection(J, S)
  BY <1>4, <1>5, <1>6 DEF Bijection, Injection, Surjection, IsInjective
<1>9. IsFiniteSet(S) /\ Cardinality(S) = Cardinality(J)
  BY <1>7, <1>8, FS_Bijection DEF ExistsBijection
<1>10. ASSUME NEW s \in S PROVE s.residual \in Int
  <2>1. PICK r \in J : s = Sample(r, judge(r).at) BY <1>5
  <2>2. r \in Observation /\ judge(r).at \in Int BY <1>1, <2>1 DEF J, JudgedBy, Meeting
  <2>3. s \in [of: Observation, residual: -MaxCorrection..MaxCorrection] BY <2>1, <2>2, SampleIsTyped
  <2>4. s.residual \in -MaxCorrection..MaxCorrection BY <2>3
  <2> QED BY <2>4, CalibratorAssumption
<1> QED BY <1>9, <1>10 DEF S, J

(* A correction is within its bounds and leaves no arrival before now.     *)
LEMMA CorrectedIsBounded ==
  ASSUME NEW o \in Observation, NEW samples,
         IsFiniteSet(InBucket(samples, _residual_bucket(o))),
         \A s \in InBucket(samples, _residual_bucket(o)) : s.residual \in Int
  PROVE  LET p == Corrected(o, samples) IN
         /\ p.enabled <=> Cardinality(InBucket(samples, _residual_bucket(o))) >= MinSamples
         /\ p.base = o.eta /\ p.corrected >= 0
         /\ p.corrected - p.base \in (IF p.enabled THEN -MaxCorrection..MaxCorrection ELSE {0})
<1> DEFINE S == InBucket(samples, _residual_bucket(o))
           n == Cardinality(S)
           mean == MapThenSumSet(LAMBDA s : s.residual, S) \div n
           c == IF Enough(n) THEN Clamp(mean, -MaxCorrection, MaxCorrection) ELSE 0
           p == Corrected(o, samples)
<1>1. n \in Nat /\ MapThenSumSet(LAMBDA s : s.residual, S) \in Int
  BY ResidualsAddUp, FS_CardinalityType
<1>2. /\ p.enabled <=> Enough(n)
      /\ p.base = o.eta /\ p.corrected = Max({o.eta + c, 0})
  BY Zenon DEF Corrected
<1>3. MaxCorrection \in Nat /\ MinSamples \in Nat \ {0} /\ o.eta \in Nat
  BY CalibratorAssumption DEF Observation
<1>4. Enough(n) => mean \in Int
  <2> DEFINE sum == MapThenSumSet(LAMBDA s : s.residual, S)
  <2>1. sum \in Int BY <1>1
  <2> HIDE DEF sum, n
  <2>2. Enough(n) => sum \div n \in Int BY <1>1, <1>3, <2>1 DEF Enough
  <2> QED BY <2>2 DEF sum
<1> HIDE DEF mean, n, p
<1>5. c \in -MaxCorrection..MaxCorrection /\ (~ Enough(n) => c = 0)
  BY <1>3, <1>4, ClampIsBounded
<1> HIDE DEF c
<1>6. Max({o.eta + c, 0}) = IF o.eta + c >= 0 THEN o.eta + c ELSE 0
  BY <1>3, <1>5 DEF Max
<1>7. p.corrected >= 0
  BY <1>2, <1>3, <1>5, <1>6
<1>8. p.corrected - p.base \in (IF p.enabled THEN -MaxCorrection..MaxCorrection ELSE {0})
  <2>1. CASE o.eta + c >= 0
    <3>1. p.corrected - p.base = c BY <1>2, <1>3, <1>5, <1>6, <2>1
    <3> QED BY <1>2, <1>5, <3>1
  <2>2. CASE ~ (o.eta + c >= 0)
    <3>1. p.corrected - p.base = - o.eta /\ - o.eta \in -MaxCorrection..MaxCorrection /\ c # 0
      BY <1>2, <1>3, <1>5, <1>6, <2>2
    <3> QED BY <1>2, <1>5, <3>1
  <2> QED BY <2>1, <2>2
<1> QED BY <1>2, <1>7, <1>8 DEF p, n, Enough

(* The history that corrections rest on is finite, with one meeting a tick.*)
Counted == IsFiniteSet(recorded) /\ OneMeetingEach(meetings)

(* A tick makes at most one observation of each camera.                    *)
LEMMA MadeIsFinite ==
  ASSUME NEW readings, NEW seen \in SUBSET Cameras, NEW waves \in [seen -> Waves]
  PROVE  IsFiniteSet(Made(readings, waves))
<1> DEFINE spans == _build_route_spans(readings)
           target(c) == _target_span_for_prediction(Chainage[c], spans)
           made(c) == [made |-> tick + 1, at |-> now', camera |-> c, route |-> target(c),
                       eta |-> _eta_to_span_midpoint(Chainage[c], spans[target(c)].midpoint, waves[c])]
           S == {d \in DOMAIN waves : HasTarget(Chainage[d], spans)}
           f == [c \in S |-> made(c)]
<1>1. Made(readings, waves) = {made(c) : c \in S} BY DEF Made
<1>2. S \in SUBSET Cameras OBVIOUS
<1> HIDE DEF made, S
<1>3. IsFiniteSet(S) BY <1>2, FS_Subset, CalibratorAssumption
<1>4. f \in Surjection(S, Made(readings, waves)) BY <1>1 DEF Surjection
<1> QED BY <1>3, <1>4, FS_Surjection

LEMMA CountedStep == IInv /\ Counted /\ [Next]_vars => Counted'
<1> SUFFICES ASSUME IInv, Counted, [Next]_vars PROVE Counted'
  OBVIOUS
<1>1. CASE UNCHANGED <<_pending_residuals, _residuals_by_bucket, recorded, meetings>>
  BY <1>1 DEF Counted
<1>2. ASSUME NEW seen \in SUBSET Cameras, NEW waves \in [seen -> Waves], NEW readings \in Readings,
             Tick(readings, waves)
      PROVE  Counted'
  <2>1. apply_residual_corrections(readings, waves) BY <1>2 DEF Tick
  <2>2. CASE recorded' = recorded \cup Made(readings, waves)
             /\ meetings' = meetings \cup {NewMeeting(readings)}
    <3>1. IsFiniteSet(recorded') BY <2>2, MadeIsFinite, FS_Union DEF Counted
    <3>2. \A m \in meetings : m.tick \in Nat /\ m.tick <= tick
      BY DEF IInv, TypeOK, Dated, Meeting
    <3>3. NewMeeting(readings).tick = tick + 1 /\ tick \in Nat
      BY BoundsAreTyped DEF NewMeeting, IInv, TypeOK
    <3>4. \A m \in meetings : m.tick # NewMeeting(readings).tick BY <3>2, <3>3
    <3>5. OneMeetingEach(meetings') BY <2>2, <3>4 DEF Counted, OneMeetingEach
    <3> QED BY <3>1, <3>5 DEF Counted
  <2> QED BY <1>1, <2>1, <2>2, TickLearns
<1>3. CASE Restart
  BY <1>3, FS_EmptySet DEF Restart, Counted, OneMeetingEach
<1> QED
  BY <1>1, <1>2, <1>3 DEF Next, TickBlind, TickRaises, vars

(* A tick with travel times corrects each prediction it records by what    *)
(* has been learned, this tick included.                                   *)
LEMMA TickCorrects ==
  ASSUME NEW readings \in Readings, NEW waves, apply_residual_corrections(readings, waves),
         recorded' # recorded, NEW o \in Made(readings, waves)
  PROVE  predictions'[o.camera] = Corrected(o, _residuals_by_bucket')
<1> DEFINE spans == _build_route_spans(readings)
           target(c) == _target_span_for_prediction(Chainage[c], spans)
           made(c) == [made |-> tick + 1, at |-> now', camera |-> c, route |-> target(c),
                       eta |-> _eta_to_span_midpoint(Chainage[c], spans[target(c)].midpoint, waves[c])]
<1>1. PICK c \in DOMAIN waves : HasTarget(Chainage[c], spans) /\ o = made(c) BY DEF Made
<1>2. o.camera = c BY <1>1
<1>3. DOMAIN spans # {} BY <1>1 DEF HasTarget
<1>4. predictions' = [d \in DOMAIN waves |->
                        IF d \in {e \in DOMAIN waves : HasTarget(Chainage[e], spans)}
                        THEN Corrected(made(d), _residuals_by_bucket')
                        ELSE Disabled("no downstream route target")]
  BY <1>3 DEF apply_residual_corrections
<1> HIDE DEF spans, made
<1> QED BY <1>1, <1>2, <1>4

(* What CorrectionsAreBacked says of one prediction.                       *)
Backed(o, p, R, M) ==
  /\ p.enabled <=> Cardinality({r \in R : _residual_bucket(r) = _residual_bucket(o)
                                          /\ JudgedBy(r, M) # {}}) >= MinSamples
  /\ p.base = o.eta /\ p.corrected >= 0
  /\ p.corrected - p.base \in (IF p.enabled THEN -MaxCorrection..MaxCorrection ELSE {0})

(* The same for one that is corrected by all that has been learned.        *)
LEMMA CorrectedIsBacked ==
  ASSUME NEW R \in SUBSET Observation, IsFiniteSet(R),
         NEW M \in SUBSET Meeting, OneMeetingEach(M), NEW o \in Observation
  PROVE  Backed(o, Corrected(o, SamplesOf(R, M)), R, M)
<1> DEFINE b == _residual_bucket(o)
<1>1. LET S == InBucket(SamplesOf(R, M), b) IN
      /\ IsFiniteSet(S) /\ \A s \in S : s.residual \in Int
      /\ Cardinality(S) = Cardinality({r \in R : _residual_bucket(r) = b /\ JudgedBy(r, M) # {}})
  <2> HIDE DEF b
  <2> QED BY OneSampleEach
<1>2. LET p == Corrected(o, SamplesOf(R, M)) IN
      /\ p.enabled <=> Cardinality(InBucket(SamplesOf(R, M), b)) >= MinSamples
      /\ p.base = o.eta /\ p.corrected >= 0
      /\ p.corrected - p.base \in (IF p.enabled THEN -MaxCorrection..MaxCorrection ELSE {0})
  BY <1>1, CorrectedIsBounded
<1> QED BY <1>1, <1>2 DEF Backed

\* CorrectionsAreBacked, by its parts.
AllBacked == \A o \in recorded : o.made = tick => Backed(o, predictions[o.camera], recorded, meetings)

LEMMA BackedStep ==
  IInv /\ IInv' /\ Counted' /\ LearnedFromHistory' /\ AllBacked /\ [Next]_vars => AllBacked'
<1> SUFFICES ASSUME IInv, IInv', Counted', LearnedFromHistory', AllBacked, [Next]_vars
             PROVE  AllBacked'
  OBVIOUS
<1>1. \A o \in recorded : o.made \in Nat /\ o.made <= tick /\ tick \in Nat
  BY BoundsAreTyped DEF IInv, TypeOK, Dated, Observation
<1>2. CASE recorded' = recorded /\ tick' = tick + 1
  BY <1>1, <1>2 DEF AllBacked
<1>3. ASSUME NEW seen \in SUBSET Cameras, NEW waves \in [seen -> Waves], NEW readings \in Readings,
             Tick(readings, waves)
      PROVE  AllBacked'
  <2>1. apply_residual_corrections(readings, waves) /\ tick' = tick + 1 BY <1>3 DEF Tick
  <2>2. CASE recorded' = recorded BY <1>2, <2>1, <2>2
  <2>3. CASE recorded' # recorded
    <3>1. recorded' = recorded \cup Made(readings, waves) BY <2>1, <2>3, TickLearns
    <3> SUFFICES ASSUME NEW o \in recorded', o.made = tick'
                 PROVE  Backed(o, predictions'[o.camera], recorded', meetings')
      BY DEF AllBacked
    <3>2. o \in Made(readings, waves) BY <1>1, <2>1, <3>1
    <3>3. predictions'[o.camera] = Corrected(o, _residuals_by_bucket')
      BY <2>1, <2>3, <3>2, TickCorrects
    <3>4. _residuals_by_bucket' = SamplesOf(recorded', meetings')
      BY DEF LearnedFromHistory, SamplesOf, Judged, JudgedBy
    <3>5. /\ recorded' \subseteq Observation /\ meetings' \subseteq Meeting
          /\ IsFiniteSet(recorded') /\ OneMeetingEach(meetings')
      BY DEF IInv, TypeOK, Counted
    <3>6. o \in Observation BY <3>5
    <3>7. Backed(o, Corrected(o, SamplesOf(recorded', meetings')), recorded', meetings')
      BY <3>5, <3>6, CorrectedIsBacked
    <3> QED BY <3>3, <3>4, <3>7
  <2> QED BY <2>2, <2>3
<1>4. CASE Restart
  BY <1>4 DEF Restart, AllBacked
<1>5. CASE UNCHANGED vars
  BY <1>5 DEF vars, AllBacked
<1> QED
  BY <1>2, <1>3, <1>4, <1>5 DEF Next, TickBlind, TickRaises

(* A prediction is corrected exactly when enough earlier ones of its       *)
(* camera, route, day type and time of day have been judged, by no more    *)
(* than the bound, and never to before now: for every history.             *)
THEOREM CorrectionsRestOnHistory == Spec => []CorrectionsAreBacked
<1>1. Init => Counted /\ AllBacked
  BY FS_EmptySet DEF Init, Counted, AllBacked, OneMeetingEach
<1>2. AllBacked => CorrectionsAreBacked
  BY DEF AllBacked, Backed, CorrectionsAreBacked, Judged, JudgedBy
<1> QED
  BY <1>1, <1>2, TypesInit, TypesStep, CountedStep, BackedStep, LearningFollowsHistory, PTL DEF Spec
=============================================================================
