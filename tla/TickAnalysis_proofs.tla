------------------------ MODULE TickAnalysis_proofs -------------------------
(***************************************************************************)
(* What a tick gets right for all corridors, pictures, readings and        *)
(* situations: its values have their types; operators are told of every    *)
(* confirmed situation and of every predicted queue; an incident has a     *)
(* cause; both feeds show the same advice; every tail has its sign; an     *)
(* arrival lies in its band; a queue grows as its waves do.                *)
(***************************************************************************)
EXTENDS TickAnalysis, FoldTheorems, SequenceTheorems, TLAPS

(***************************************************************************)
(* Choices.                                                                *)
(***************************************************************************)
LEMMA NearestCamera ==
  ASSUME NEW place \in Nat
  PROVE  Nearest(place) \in Cameras
<1> DEFINE f == [c \in Cameras |-> Distance(Chainage[c], place)]
<1>1. f \in [Cameras -> Nat]
  <2>1. \A x \in Cameras : Chainage[x] \in Int BY CorridorAssumption DEF CorridorAssumption
  <2>2. \A x \in Cameras : Distance(Chainage[x], place) \in Nat BY <2>1 DEF Distance
  <2> QED BY <2>2
<1>2. Rank \in [Cameras -> Nat] /\ Cameras # {} BY CorridorAssumption DEF CorridorAssumption
<1>3. \E c \in Cameras : \A d \in Cameras : f[c] < f[d] \/ (f[c] = f[d] /\ Rank[c] <= Rank[d])
  <2> HIDE DEF f
  <2> QED BY <1>1, <1>2, FirstOfTheBest
<1>4. \E c \in Cameras : \A d \in Cameras :
        LET x == Distance(Chainage[c], place)  y == Distance(Chainage[d], place) IN
        x < y \/ (x = y /\ Rank[c] <= Rank[d])
  BY <1>3
<1> QED BY <1>4 DEF Nearest

LEMMA NearestGantry ==
  ASSUME NEW place \in Nat
  PROVE  find_nearest_vms_by_chainage(place) \in Gantries
<1> DEFINE f == [g \in Gantries |-> Distance(Mile[g], place)]
<1>1. f \in [Gantries -> Nat]
  <2>1. \A x \in Gantries : Mile[x] \in Int BY CorridorAssumption DEF CorridorAssumption
  <2>2. \A x \in Gantries : Distance(Mile[x], place) \in Nat BY <2>1 DEF Distance
  <2> QED BY <2>2
<1>2. Mile \in [Gantries -> Nat] /\ Gantries # {} BY CorridorAssumption DEF CorridorAssumption
<1>3. \E g \in Gantries : \A o \in Gantries : f[g] < f[o] \/ (f[g] = f[o] /\ Mile[g] <= Mile[o])
  <2> HIDE DEF f
  <2> QED BY <1>1, <1>2, FirstOfTheBest
<1>4. \E g \in Gantries : \A o \in Gantries :
        LET x == Distance(Mile[g], place)  y == Distance(Mile[o], place) IN
        x < y \/ (x = y /\ Mile[g] <= Mile[o])
  BY <1>3
<1> QED BY <1>4 DEF find_nearest_vms_by_chainage

LEMMA InSequence ==
  ASSUME NEW S, NEW q \in Seq(S), NEW i \in DOMAIN q
  PROVE  q[i] \in S
OBVIOUS

LEMMA Percents ==
  /\ 25..65 \subseteq Nat
  /\ \A p, q \in 25..65 : p < q \/ p = q => p <= q
OBVIOUS

LEMMA FactorType ==
  ASSUME NEW d \in Deviation
  PROVE  _situation_capacity_factor(d) \in 25..65
<1> DEFINE kind == IF d.kind = "accident" THEN 45 ELSE 65
           bad == IF d.severe THEN Least(kind, 35) ELSE kind
           open == (100 * Greatest(2 - d.restricted, 0)) \div 2
<1>1. bad \in 25..65 BY DEF Least
<1>2. d.restricted = None \/ d.restricted \in Nat BY DEF Deviation
<1>3. CASE d.restricted = None
  BY <1>1, <1>3 DEF _situation_capacity_factor, Greatest
<1>4. CASE d.restricted # None
  <2>1. d.restricted \in Nat BY <1>2, <1>4
  <2>2. Greatest(2 - d.restricted, 0) \in Nat BY <2>1 DEF Greatest
  <2>3. open \in Nat BY <2>2
  <2> HIDE DEF bad, open
  <2>4. Greatest(Least(bad, open), 25) \in 25..65 BY <1>1, <2>3 DEF Greatest, Least
  <2>5. Greatest(bad, 25) \in 25..65 BY <1>1 DEF Greatest
  <2> USE DEF bad, open
  <2> QED BY <2>4, <2>5 DEF _situation_capacity_factor
<1> QED BY <1>3, <1>4

\* The strongest deviation of a camera is one of them, and none leaves less capacity.
LEMMA StrongestIsLeast ==
  ASSUME NEW c, NEW ds \in Seq(Deviation), NEW j \in At(c, ds)
  PROVE  /\ Strongest(c, ds) \in At(c, ds)
         /\ _situation_capacity_factor(ds[Strongest(c, ds)]) <= _situation_capacity_factor(ds[j])
<1> DEFINE S == At(c, ds)
           f == [i \in S |-> _situation_capacity_factor(ds[i])]
           g == [i \in S |-> i]
<1>1. S \subseteq Nat /\ \A i \in S : ds[i] \in Deviation BY DEF At
<1>2. f \in [S -> Nat] /\ g \in [S -> Nat]
  <2>1. \A i \in S : _situation_capacity_factor(ds[i]) \in 25..65 BY <1>1, FactorType
  <2> HIDE DEF S
  <2>2. \A i \in S : _situation_capacity_factor(ds[i]) \in Nat BY <2>1, Percents, Zenon
  <2>3. f \in [S -> Nat] BY <2>2, Zenon
  <2>4. g \in [S -> Nat] BY <1>1
  <2> QED BY <2>3, <2>4
<1>3. \E x \in S : \A y \in S : f[x] < f[y] \/ (f[x] = f[y] /\ g[x] <= g[y])
  <2>1. S # {} OBVIOUS
  <2> HIDE DEF S, f, g
  <2> QED BY <1>2, <2>1, FirstOfTheBest
<1>4. \E x \in At(c, ds) : \A y \in At(c, ds) :
        LET p == _situation_capacity_factor(ds[x])
            q == _situation_capacity_factor(ds[y]) IN p < q \/ (p = q /\ x <= y)
  BY <1>3
<1> DEFINE s == Strongest(c, ds)
<1>5. /\ s \in At(c, ds)
      /\ LET p == _situation_capacity_factor(ds[s])
             q == _situation_capacity_factor(ds[j]) IN p < q \/ (p = q /\ s <= j)
  <2> HIDE DEF s
  <2>1. s = CHOOSE x \in At(c, ds) : \A y \in At(c, ds) :
              LET p == _situation_capacity_factor(ds[x])
                  q == _situation_capacity_factor(ds[y]) IN p < q \/ (p = q /\ x <= y)
    BY Zenon DEF s, Strongest
  <2> QED BY <1>4, <2>1
<1>6. /\ _situation_capacity_factor(ds[s]) \in 25..65
      /\ _situation_capacity_factor(ds[j]) \in 25..65
  BY <1>1, <1>5, FactorType
<1> HIDE DEF s
<1>7. \/ _situation_capacity_factor(ds[s]) < _situation_capacity_factor(ds[j])
      \/ _situation_capacity_factor(ds[s]) = _situation_capacity_factor(ds[j])
  BY <1>5, Zenon
<1>8. _situation_capacity_factor(ds[s]) <= _situation_capacity_factor(ds[j])
  BY <1>6, <1>7, Percents, Zenon
<1> QED BY <1>5, <1>8, Zenon DEF s

(***************************************************************************)
(* The state of one camera.                                                *)
(***************************************************************************)
Typed(s) == s \in State /\ s.blocked <= s.lanes

\* An anomaly has a reason: kept by all that is done to a state.
Reasoned(s) == s.anomaly => s.reason # <<>>

LEMMA LeastGreatest ==
  \A x, y \in Int :
    /\ Least(x, y) \in {x, y} /\ Least(x, y) <= x /\ Least(x, y) <= y
    /\ Greatest(x, y) \in {x, y} /\ Greatest(x, y) >= x /\ Greatest(x, y) >= y
BY DEF Least, Greatest

LEMMA Products ==
  /\ \A x, y \in Nat : x * y \in Nat
  /\ \A x \in Nat, y \in Nat \ {0} : x \div y \in Nat
OBVIOUS

\* Of a part of the road in percent.
LEMMA Share ==
  ASSUME NEW P \in Nat \ {0}, NEW f \in Nat, NEW x \in Nat, x <= P * f
  PROVE  x \div P <= f
<1> DEFINE q == x \div P
<1>1. q \in Nat /\ P * q <= x BY Z3
<1>2. CASE q > f
  <2>1. PICK k \in Nat : q = f + 1 + k
    <3>1. q - f - 1 \in Nat BY <1>1, <1>2
    <3> QED BY <1>1, <3>1
  <2> HIDE DEF q
  <2>2. P * q = P * f + P + P * k BY <2>1
  <2>3. P * k >= 0 BY <2>1
  <2>4. P * f \in Nat /\ P * k \in Nat BY <2>1
  <2>5. P * q \in Nat BY <1>1
  <2> QED BY <1>1, <2>2, <2>3, <2>4, <2>5
<1> QED BY <1>1, <1>2

\* What holds a whole is not nothing, and more times as much is more.
LEMMA NotNothing ==
  ASSUME NEW x \in Nat, NEW w \in Nat \ {0}, x >= w
  PROVE  x \div w # 0
<1>1. x < w * (x \div w) + w BY Z3
<1>2. CASE x \div w = 0
  <2>1. w * 0 = 0 OBVIOUS
  <2> QED BY <1>1, <1>2, <2>1
<1> QED BY <1>2

LEMMA MoreOfIt ==
  ASSUME NEW x \in Nat, NEW y \in Nat, NEW z \in Nat, x <= y
  PROVE  x * z <= y * z
<1>1. PICK k \in Nat : y = x + k
  <2>1. y - x \in Nat /\ y = x + (y - x) OBVIOUS
  <2> QED BY <2>1
<1>2. y * z = x * z + k * z BY <1>1
<1>3. x * z \in Nat /\ k * z \in Nat BY Products
<1> QED BY <1>2, <1>3

LEMMA OneReason ==
  /\ <<>> \in Seq(Reasons)
  /\ \A r \in Reasons : <<r>> \in Seq(Reasons) /\ <<r>> # <<>>
  /\ {"stopped vehicle", "density", "accident", "roadwork"} \subseteq Reasons
BY DEF Reasons

\* A state in which a vehicle is found stopped.
Halted(s, critical) ==
  [s EXCEPT !.anomaly = TRUE, !.reason = <<"stopped vehicle">>,
            !.blocked = Greatest(@, 1),
            !.density = Greatest(@, critical + 100),
            !.confidence = Greatest(@, StoppedConfidence)]

LEMMA HaltedState ==
  ASSUME NEW s, Typed(s), NEW critical \in Nat
  PROVE  Typed(Halted(s, critical)) /\ Reasoned(Halted(s, critical))
<1>1. /\ s.blocked \in Nat /\ s.lanes \in Nat \ {0} /\ s.density \in Nat /\ s.confidence \in 0..100
      /\ s.blocked <= s.lanes
  BY DEF Typed, State
<1>2. StoppedConfidence \in 0..100 BY CorridorAssumption DEF CorridorAssumption
<1>3. Greatest(s.blocked, 1) \in Nat /\ Greatest(s.blocked, 1) <= s.lanes BY <1>1 DEF Greatest
<1>4. Greatest(s.density, critical + 100) \in Nat BY <1>1 DEF Greatest
<1>5. Greatest(s.confidence, StoppedConfidence) \in 0..100 BY <1>1, <1>2 DEF Greatest
<1>6. <<"stopped vehicle">> \in Seq(Reasons) /\ <<"stopped vehicle">> # <<>> BY OneReason
<1> QED BY <1>3, <1>4, <1>5, <1>6 DEF Typed, State, Reasoned, Halted

LEMMA DerivedState ==
  ASSUME NEW s, Typed(s), Reasoned(s),
         NEW speed \in Nat, NEW critical \in Nat, NEW factor \in Nat
  PROVE  LET t == _derive_capacity_from_fused_state(s, speed, critical, factor) IN
         Typed(t) /\ (t.density > critical => t.anomaly)
<1>1. /\ s.blocked \in Nat /\ s.lanes \in Nat \ {0} /\ s.density \in Nat /\ s.blocked <= s.lanes
      /\ s.reason \in Seq(Reasons)
      /\ s.anomaly \in BOOLEAN
  BY DEF Typed, State
<1> DEFINE most    == (QCap * s.lanes * Least(factor, 100)) \div 100
           flow    == IF s.density > critical
                      THEN Least((s.density * s.lanes * speed) \div 100, most) ELSE most
           reason  == DerivedReason(s, critical)
           anomaly == reason # <<>> /\ (s.anomaly \/ s.density > critical)
           open    == Greatest(s.lanes - s.blocked, 0)
           capacity == IF anomaly /\ s.blocked > 0 THEN (flow * open) \div s.lanes ELSE flow
<1>2. QCap \in Nat BY CorridorAssumption DEF CorridorAssumption
<1>3. most \in Nat
  <2>1. Least(factor, 100) \in Nat BY DEF Least
  <2>2. QCap * s.lanes \in Nat BY <1>1, <1>2, Products
  <2>3. QCap * s.lanes * Least(factor, 100) \in Nat BY <2>1, <2>2, Products
  <2> QED BY <2>3, Products
<1>4. flow \in Nat
  <2>1. s.density * s.lanes \in Nat BY <1>1, Products
  <2>2. s.density * s.lanes * speed \in Nat BY <2>1, Products
  <2>3. (s.density * s.lanes * speed) \div 100 \in Nat BY <2>2, Products
  <2> HIDE DEF most
  <2> QED BY <1>3, <2>3 DEF Least
<1>5. capacity \in Nat
  <2>1. open \in Nat
    <3>1. s.lanes - s.blocked \in Nat BY <1>1
    <3> QED BY <3>1, LeastGreatest
  <2> HIDE DEF flow, open, anomaly
  <2>2. (flow * open) \div s.lanes \in Nat
    <3>1. flow * open \in Nat BY <1>4, <2>1, Products
    <3> QED BY <1>1, <3>1, Products
  <2> QED BY <1>4, <2>2
<1>6. /\ reason \in Seq(Reasons)
      /\ s.density > critical => reason # <<>>
  <2>1. <<"density">> \in Seq(Reasons) /\ <<>> \in Seq(Reasons) /\ <<"density">> # <<>>
    BY OneReason
  <2>2. s.density > critical => reason = IF s.anomaly THEN s.reason ELSE <<"density">>
    BY Zenon DEF DerivedReason
  <2>3. ~(s.density > critical) => reason \in {<<>>, s.reason} BY Zenon DEF DerivedReason
  <2> QED BY <1>1, <2>1, <2>2, <2>3, Zenon DEF Reasoned
<1>7. _derive_capacity_from_fused_state(s, speed, critical, factor)
        = IF Unobserved(s) THEN s
          ELSE [s EXCEPT !.reason = reason, !.anomaly = anomaly, !.capacity = capacity]
  BY Zenon DEF _derive_capacity_from_fused_state
<1> HIDE DEF reason, capacity
<1>8. CASE Unobserved(s) BY <1>1, <1>7, <1>8 DEF Unobserved
<1>9. CASE ~Unobserved(s)
  <2> DEFINE t == [s EXCEPT !.reason = reason, !.anomaly = anomaly, !.capacity = capacity]
  <2>1. Typed(t) BY <1>5, <1>6 DEF Typed, State
  <2>2. t.density = s.density /\ t.anomaly = anomaly BY DEF Typed, State
  <2> HIDE DEF t
  <2>3. _derive_capacity_from_fused_state(s, speed, critical, factor) = t BY <1>7, <1>9 DEF t
  <2> QED BY <1>6, <2>1, <2>2, <2>3
<1> QED BY <1>8, <1>9

\* The capacity left is no more than what the deviation leaves.
Capped(s, d) == s.capacity * 100 <= QCap * s.lanes * _situation_capacity_factor(d)

\* The lanes of a camera that is not configured are among those it may have.
LEMMA LanesInView ==
  /\ MostLanes \in Nat /\ Lanes \in 1..MostLanes
  /\ \A lanes \in 1..MostLanes : lanes \in Nat \ {0}
BY CorridorAssumption, LanesAssumption DEF CorridorAssumption, LanesAssumption

LEMMA AloneState ==
  ASSUME NEW d \in Deviation, NEW i \in Nat, NEW lanes \in 1..MostLanes, NEW critical \in Nat
  PROVE  LET t == Situation(d, i, lanes, critical) IN
         Typed(t) /\ Capped(t, d) /\ t.anomaly /\ t.confirmed /\ t.lanes = lanes
<1> DEFINE f == _situation_capacity_factor(d)
           blocked == _blocked_lanes_from_deviation(d, lanes)
           capacity == (QCap * lanes * f) \div 100
<1>0. lanes \in Nat \ {0} BY LanesInView
<1>1. f \in Nat BY FactorType, Percents, Zenon
<1>2. blocked \in Nat /\ blocked <= lanes
  BY <1>0 DEF _blocked_lanes_from_deviation, Least, Deviation
<1>3. QCap \in Nat BY CorridorAssumption DEF CorridorAssumption
<1>4. QCap * lanes * f \in Nat
  <2> HIDE DEF f
  <2>1. QCap * lanes \in Nat BY <1>0, <1>3, Products
  <2> QED BY <1>1, <2>1, Products
<1>5. capacity \in Nat /\ capacity * 100 <= QCap * lanes * f
  <2> DEFINE x == QCap * lanes * f
  <2> HIDE DEF x
  <2>1. x \in Nat BY <1>4 DEF x
  <2>2. x \div 100 \in Nat /\ (x \div 100) * 100 <= x BY <2>1
  <2> QED BY <2>2, Zenon DEF x
<1>6. <<d.kind>> \in Seq(Reasons) BY OneReason DEF Deviation
<1> DEFINE t == Situation(d, i, lanes, critical)
<1>7. t = [count |-> 0, blocked |-> blocked, lanes |-> lanes, capacity |-> capacity,
           density |-> critical + 100, direction |-> "northbound", anomaly |-> TRUE,
           reason |-> <<d.kind>>, confidence |-> 95, quality |-> 1,
           confirmed |-> TRUE, situations |-> {i}]
  BY Zenon DEF Situation
<1> HIDE DEF capacity, blocked, f, t
<1>8. Typed(t)
  <2>1. critical + 100 \in Nat /\ {i} \in SUBSET Nat /\ 95 \in 0..100 OBVIOUS
  <2> QED BY <1>2, <1>5, <1>6, <1>7, <2>1 DEF Typed, State
<1>9. t.capacity = capacity /\ t.lanes = lanes /\ t.anomaly /\ t.confirmed BY <1>7
<1>10. Capped(t, d) BY <1>5, <1>9, Zenon DEF Capped, f
<1> QED BY <1>8, <1>9, <1>10, Zenon DEF t

LEMMA MergedState ==
  ASSUME NEW s, Typed(s), NEW d \in Deviation, NEW i \in Nat, NEW critical \in Nat
  PROVE  LET t == Merged(s, d, i, critical) IN
         Typed(t) /\ Capped(t, d) /\ t.anomaly /\ t.confirmed
<1> DEFINE lanes == Greatest(s.lanes, Lanes)
           alone == Situation(d, i, lanes, critical)
           f == _situation_capacity_factor(d)
<1>1. /\ s.blocked \in Nat /\ s.lanes \in Nat \ {0} /\ s.density \in Nat /\ s.capacity \in Nat
      /\ s.confidence \in 0..100 /\ s.blocked <= s.lanes /\ s.situations \in SUBSET Nat
      /\ s.reason \in Seq(Reasons)
  BY LanesInView DEF Typed, State
<1>2. lanes \in 1..MostLanes /\ lanes \in Nat \ {0} /\ s.lanes <= lanes
  <2>1. s.lanes \in 1..MostLanes BY DEF Typed, State
  <2> QED BY <2>1, LanesInView DEF Greatest
<1>3. Typed(alone) /\ Capped(alone, d) /\ alone.lanes = lanes
  <2> HIDE DEF lanes
  <2> QED BY <1>2, AloneState, Zenon
<1>4. /\ alone.blocked \in Nat /\ alone.density \in Nat /\ alone.capacity \in Nat
      /\ alone.blocked <= lanes
  BY <1>3 DEF Typed, State
<1> DEFINE t == Merged(s, d, i, critical)
           reason == IF d.kind \in Range(s.reason) THEN s.reason ELSE Append(s.reason, d.kind)
<1>5. t = [s EXCEPT !.lanes = lanes,
               !.blocked = Greatest(s.blocked, alone.blocked),
               !.capacity = Least(s.capacity, alone.capacity),
               !.density = Greatest(s.density, alone.density),
               !.anomaly = TRUE,
               !.reason = reason,
               !.confidence = Greatest(s.confidence, 95),
               !.confirmed = TRUE, !.situations = s.situations \cup {i}]
  BY Zenon DEF Merged
<1>6. reason \in Seq(Reasons)
  <2>1. d.kind \in Reasons BY OneReason DEF Deviation
  <2>2. Append(s.reason, d.kind) \in Seq(Reasons) BY <1>1, <2>1
  <2> QED BY <1>1, <2>2, Zenon
<1> HIDE DEF lanes, alone, reason, f, t
<1>7. Greatest(s.blocked, alone.blocked) \in Nat /\ Greatest(s.blocked, alone.blocked) <= lanes
  BY <1>1, <1>2, <1>4 DEF Greatest
<1>8. Least(s.capacity, alone.capacity) \in Nat /\ Least(s.capacity, alone.capacity) <= alone.capacity
  BY <1>1, <1>4 DEF Least
<1>9. Greatest(s.density, alone.density) \in Nat BY <1>1, <1>4 DEF Greatest
<1>10. Greatest(s.confidence, 95) \in 0..100 BY <1>1 DEF Greatest
<1>11. Typed(t) BY <1>1, <1>2, <1>5, <1>6, <1>7, <1>8, <1>9, <1>10 DEF Typed, State
<1>12. /\ t.capacity = Least(s.capacity, alone.capacity) /\ t.lanes = lanes
       /\ t.anomaly /\ t.confirmed
  BY <1>5 DEF Typed, State
<1>13. Capped(t, d)
  <2>1. f \in Nat BY FactorType, Percents, Zenon DEF f
  <2>2. QCap \in Nat BY CorridorAssumption DEF CorridorAssumption
  <2> DEFINE limit == QCap * lanes * f
  <2>3. limit \in Nat
    <3>1. QCap * lanes \in Nat BY <1>2, <2>2, Products
    <3> QED BY <2>1, <3>1, Products
  <2> HIDE DEF limit
  <2>4. alone.capacity * 100 <= limit BY <1>3, Zenon DEF Capped, limit, f
  <2>5. t.capacity * 100 <= limit BY <1>4, <1>8, <1>12, <2>3, <2>4
  <2> QED BY <1>12, <2>5, Zenon DEF Capped, limit, f
<1> QED BY <1>11, <1>12, <1>13, Zenon DEF t

\* What the operators are told of a state that is capped.
LEMMA CappedDrop ==
  ASSUME NEW s, Typed(s), NEW d \in Deviation, Capped(s, d)
  PROVE  CapacityDrop(s) >= 100 - _situation_capacity_factor(d)
<1> DEFINE f == _situation_capacity_factor(d)  P == s.lanes * QCap  x == 100 * s.capacity
<1>1. f \in 25..65 BY FactorType
<1>2. s.lanes \in Nat \ {0} /\ s.capacity \in Nat BY LanesInView DEF Typed, State
<1>3. QCap \in Nat \ {0} BY CorridorAssumption DEF CorridorAssumption
<1>4. P \in Nat \ {0} BY <1>2, <1>3
<1>5. x \in Nat /\ x <= P * f
  <2>1. s.capacity * 100 <= QCap * s.lanes * f BY Zenon DEF Capped
  <2>2. QCap * s.lanes = P BY <1>2, <1>3
  <2>3. x = s.capacity * 100 /\ x \in Nat BY <1>2
  <2> QED BY <2>1, <2>2, <2>3, Zenon
<1>6. x \div P <= f /\ x \div P \in Nat
  <2> HIDE DEF P, x, f
  <2>1. f \in Nat BY <1>1
  <2>2. x \div P <= f BY <1>4, <1>5, <2>1, Share
  <2> QED BY <1>4, <1>5, <2>2, Products
<1>7. CapacityDrop(s) = Greatest(0, Least(100 - x \div P, 100)) BY Zenon DEF CapacityDrop
<1> HIDE DEF P, x, f
<1>8. Greatest(0, Least(100 - x \div P, 100)) >= 100 - f BY <1>1, <1>6 DEF Greatest, Least
<1> QED BY <1>7, <1>8, Zenon DEF f

\* What leaves no more than one deviation leaves no more than a weaker one.
LEMMA WeakerCap ==
  ASSUME NEW s, Typed(s), NEW d \in Deviation, NEW e \in Deviation, Capped(s, d),
         _situation_capacity_factor(d) <= _situation_capacity_factor(e)
  PROVE  Capped(s, e)
<1> DEFINE f == _situation_capacity_factor(d)  g == _situation_capacity_factor(e)
           P == QCap * s.lanes
<1>1. f \in Nat /\ g \in Nat BY FactorType, Percents, Zenon
<1>2. P \in Nat /\ s.capacity \in Nat
  <2>1. s.lanes \in Nat /\ s.capacity \in Nat BY LanesInView DEF Typed, State
  <2>2. QCap \in Nat BY CorridorAssumption DEF CorridorAssumption
  <2> QED BY <2>1, <2>2, Products
<1>3. s.capacity * 100 <= P * f BY Zenon DEF Capped
<1>4. f <= g OBVIOUS
<1> HIDE DEF P, f, g
<1>5. PICK k \in Nat : g = f + k
  <2>1. g - f \in Nat BY <1>1, <1>4
  <2> QED BY <1>1, <2>1
<1>6. P * g = P * f + P * k BY <1>1, <1>2, <1>5
<1>7. P * f \in Nat /\ P * k \in Nat BY <1>1, <1>2, Products
<1>8. s.capacity * 100 <= P * g BY <1>2, <1>3, <1>6, <1>7
<1> QED BY <1>8, Zenon DEF Capped, P, g

(***************************************************************************)
(* What a picture shows.                                                   *)
(***************************************************************************)
\* A sum of naturals, and of percentages.
LEMMA TotalIsNumber ==
  ASSUME NEW S, IsFiniteSet(S), NEW w \in [S -> Nat]
  PROVE  Total(w) \in Nat /\ \A x \in S : w[x] <= Total(w)
<1>1. Total(w) = MapThenSumSet(LAMBDA x : w[x], S) BY Zenon DEF Total
<1> QED BY <1>1, SumOfNaturals

LEMMA TotalsCompare ==
  ASSUME NEW S, IsFiniteSet(S), NEW w \in [S -> Nat], NEW v \in [S -> Nat], NEW k \in Nat,
         \A x \in S : w[x] <= k * v[x]
  PROVE  Total(w) <= k * Total(v)
<1>1. Total(w) = MapThenSumSet(LAMBDA x : w[x], S) BY Zenon DEF Total
<1>2. Total(v) = MapThenSumSet(LAMBDA x : v[x], S) BY Zenon DEF Total
<1>3. MapThenSumSet(LAMBDA x : w[x], S) <= k * MapThenSumSet(LAMBDA x : v[x], S)
  BY SumsCompare
<1> QED BY <1>1, <1>2, <1>3, Zenon

LEMMA MeanIsPercent ==
  ASSUME NEW S, IsFiniteSet(S), S # {}, NEW w \in [S -> 0..100]
  PROVE  Total(w) \div Cardinality(S) \in 0..100
<1> DEFINE n == Cardinality(S)
<1>1. w \in [S -> Nat]
  <2>1. \A x \in S : w[x] \in Nat OBVIOUS
  <2> QED BY <2>1
<1>2. Total(w) \in Nat BY <1>1, TotalIsNumber
<1>3. n \in Nat \ {0} BY FS_CardinalityType, FS_EmptySet
<1>4. Total(w) <= n * 100
  <2>1. Total(w) = MapThenSumSet(LAMBDA x : w[x], S) BY Zenon DEF Total
  <2>2. MapThenSumSet(LAMBDA x : w[x], S) <= 100 * n
    <3>1. 100 \in Nat OBVIOUS
    <3> QED BY <3>1, SumIsBounded
  <2>3. 100 * n = n * 100 BY <1>3
  <2> QED BY <2>1, <2>2, <2>3
<1> HIDE DEF n
<1>5. Total(w) \div n <= 100
  <2>1. 100 \in Nat OBVIOUS
  <2> QED BY <1>2, <1>3, <1>4, <2>1, Share
<1>6. Total(w) \div n \in Nat BY <1>2, <1>3, Products
<1> QED BY <1>5, <1>6 DEF n

LEMMA BoxesOfShot ==
  ASSUME NEW boxes \in Seq(Box)
  PROVE  /\ Len(boxes) \in Nat /\ DOMAIN boxes = 1..Len(boxes)
         /\ \A i \in DOMAIN boxes : boxes[i].confidence \in 0..100
         /\ IsFiniteSet(DOMAIN boxes) /\ Cardinality(DOMAIN boxes) = Len(boxes)
         /\ Cardinality(Wide(boxes)) \in Nat
         /\ MeanConfidence(boxes) \in 0..100
<1>1. Len(boxes) \in Nat /\ DOMAIN boxes = 1..Len(boxes) OBVIOUS
<1>2. \A i \in DOMAIN boxes : boxes[i].confidence \in 0..100
  <2> TAKE i \in DOMAIN boxes
  <2>1. boxes[i] \in Box BY InSequence
  <2> QED BY <2>1 DEF Box
<1>3. IsFiniteSet(DOMAIN boxes) /\ Cardinality(DOMAIN boxes) = Len(boxes)
  BY <1>1, FS_Interval
<1>4. Cardinality(Wide(boxes)) \in Nat
  <2>1. Wide(boxes) \subseteq DOMAIN boxes BY Zenon DEF Wide
  <2> QED BY <1>3, <2>1, FS_Subset, FS_CardinalityType
<1>5. MeanConfidence(boxes) \in 0..100
  <2>1. CASE boxes = <<>> BY <2>1 DEF MeanConfidence
  <2>2. CASE boxes # <<>>
    <3> DEFINE w == [i \in DOMAIN boxes |-> boxes[i].confidence]
    <3>1. w \in [DOMAIN boxes -> 0..100] BY <1>2
    <3>2. DOMAIN boxes # {}
      <4>1. Len(boxes) \in Nat \ {0} BY <2>2, EmptySeq, Zenon
      <4>2. 1 \in 1..Len(boxes) BY <4>1
      <4> QED BY <1>1, <4>2
    <3>3. MeanConfidence(boxes) = Total(w) \div Len(boxes) BY <2>2, Zenon DEF MeanConfidence
    <3> HIDE DEF w
    <3>4. Total(w) \div Cardinality(DOMAIN boxes) \in 0..100 BY <1>3, <3>1, <3>2, MeanIsPercent
    <3> QED BY <1>3, <3>3, <3>4
  <2> QED BY <2>1, <2>2
<1> QED BY <1>1, <1>2, <1>3, <1>4, <1>5

\* What is counted on a stretch of road, and what flows on it.
LEMMA DensityAndFlow ==
  ASSUME NEW count \in Nat, NEW lanes \in Nat \ {0}, NEW metres \in Nat \ {0}
  PROVE  /\ _estimate_density(count, lanes, metres) \in Nat
         /\ \A density \in Nat : Flow(density, lanes) \in Nat
<1>1. /\ Jam \in Nat /\ QCap \in Nat /\ FreeFlow \in Nat
  BY CorridorAssumption DEF CorridorAssumption
<1>2. _estimate_density(count, lanes, metres) \in Nat
  <2>1. metres * lanes \in Nat \ {0} BY Z3
  <2>2. (count * 100000) \div (metres * lanes) \in Nat BY <2>1, Products
  <2>3. 100 * Jam \in Nat BY <1>1
  <2> QED BY <2>2, <2>3, LeastGreatest DEF _estimate_density
<1>3. ASSUME NEW density \in Nat PROVE Flow(density, lanes) \in Nat
  <2>1. density * lanes \in Nat BY Products
  <2>2. density * lanes * FreeFlow \in Nat BY <1>1, <2>1, Products
  <2>3. (density * lanes * FreeFlow) \div 100 \in Nat BY <2>2, Products
  <2>4. QCap * lanes \in Nat BY <1>1, Products
  <2>5. Throughput(density, lanes, FreeFlow) \in Nat BY <2>3, <2>4, LeastGreatest DEF Throughput
  <2> QED BY <2>4, <2>5 DEF Flow
<1> QED BY <1>2, <1>3

\* An empty road is not dense.
LEMMA EmptyRoad ==
  ASSUME NEW lanes \in Nat \ {0}, NEW metres \in Nat \ {0}
  PROVE  _estimate_density(0, lanes, metres) = 0 /\ ~(0 > Critical)
<1> DEFINE k == metres * lanes
<1>1. k \in Nat \ {0} BY Z3
<1> HIDE DEF k
<1>2. (0 * 100000) \div k = 0 BY <1>1
<1>3. 100 * Jam \in Nat /\ Critical \in Nat BY CorridorAssumption DEF CorridorAssumption
<1>4. _estimate_density(0, lanes, metres) = Least((0 * 100000) \div k, 100 * Jam)
  BY DEF _estimate_density, k
<1> QED BY <1>2, <1>3, <1>4 DEF Least

LEMMA ReasonsSeen ==
  ASSUME NEW boxes, NEW density
  PROVE  /\ _check_anomalies(boxes, density) \in Seq(Reasons)
         /\ _check_anomalies(boxes, density) \in {<<>>, <<"density">>, <<"aspect ratio">>}
         /\ _check_anomalies(boxes, density) = <<"aspect ratio">> => Wide(boxes) # {}
         /\ _check_anomalies(boxes, density) = <<"density">> => density > Critical
<1>1. /\ <<"aspect ratio">> # <<"density">> /\ <<"aspect ratio">> # <<>>
      /\ <<"density">> # <<>>
  OBVIOUS
<1>2. <<"density">> \in Seq(Reasons) /\ <<"aspect ratio">> \in Seq(Reasons) /\ <<>> \in Seq(Reasons)
  BY OneReason DEF Reasons
<1> QED BY <1>1, <1>2, Zenon DEF _check_anomalies

LEMMA BlackState == Typed(_handle_black_image) /\ Reasoned(_handle_black_image)
<1> DEFINE s == _handle_black_image
<1>1. Lanes \in 1..MostLanes /\ Lanes \in Nat \ {0} BY LanesInView, Zenon
<1>2. <<"black image">> \in Seq(Reasons) BY OneReason DEF Reasons
<1>3. s = [count |-> 0, blocked |-> 0, lanes |-> Lanes, capacity |-> 0, density |-> 0,
           direction |-> "none", anomaly |-> FALSE, reason |-> <<"black image">>,
           confidence |-> 0, quality |-> 1, confirmed |-> FALSE, situations |-> {}]
  BY Zenon DEF _handle_black_image
<1>4. 0 \in Nat /\ 0 \in 0..100 /\ 1 \in 1..3 /\ {} \in SUBSET Nat OBVIOUS
<1> HIDE DEF s
<1>5. s \in State BY <1>1, <1>2, <1>3, <1>4 DEF State
<1>6. s.blocked = 0 /\ s.lanes = Lanes /\ s.anomaly = FALSE BY <1>3
<1> QED BY <1>1, <1>5, <1>6 DEF Typed, Reasoned, s

\* A camera without regions.
LEMMA ArrayState ==
  ASSUME NEW boxes \in Seq(Box)
  PROVE  LET s == analyze_array(boxes) IN
         /\ Typed(s) /\ Reasoned(s)
         /\ s.anomaly => (s.reason = <<"density">> /\ s.count # 0) \/ Wide(boxes) # {}
<1> DEFINE density == _estimate_density(Len(boxes), Lanes, RoiMetres)
           reason  == _check_anomalies(boxes, density)
           blocked == _estimate_blocked_lanes(boxes, Lanes)
           flow    == Flow(density, Lanes)
           capacity == (flow * (Lanes - blocked)) \div Lanes
           s == analyze_array(boxes)
<1>1. Lanes \in 1..MostLanes /\ Lanes \in Nat \ {0} /\ RoiMetres \in Nat \ {0}
  BY CorridorAssumption, LanesAssumption DEF CorridorAssumption, LanesAssumption
<1>2. Len(boxes) \in Nat /\ Cardinality(Wide(boxes)) \in Nat /\ MeanConfidence(boxes) \in 0..100
  BY BoxesOfShot
<1>3. density \in Nat BY <1>1, <1>2, DensityAndFlow
<1>4. flow \in Nat
  <2> HIDE DEF density
  <2> QED BY <1>1, <1>2, <1>3, DensityAndFlow
<1>5. blocked \in Nat /\ blocked <= Lanes
  <2>1. Lanes - 1 \in Nat BY <1>1
  <2> QED BY <1>1, <1>2, <2>1 DEF _estimate_blocked_lanes, Least
<1>6. capacity \in Nat
  <2> HIDE DEF flow, blocked
  <2>1. Lanes - blocked \in Nat BY <1>1, <1>5
  <2>2. flow * (Lanes - blocked) \in Nat BY <1>4, <2>1, Products
  <2> QED BY <1>1, <2>2, Products
<1>7. /\ reason \in Seq(Reasons) /\ reason \in {<<>>, <<"density">>, <<"aspect ratio">>}
      /\ reason = <<"aspect ratio">> => Wide(boxes) # {}
      /\ reason = <<"density">> => density > Critical
  BY ReasonsSeen
<1>13. reason = <<"density">> => Len(boxes) # 0
  <2> SUFFICES ASSUME Len(boxes) = 0 PROVE ~(density > Critical) BY <1>7, Zenon
  <2> HIDE DEF reason
  <2>1. density = 0 BY <1>1, EmptyRoad, Zenon
  <2> QED BY <1>1, <2>1, EmptyRoad, Zenon
<1> DEFINE black == _handle_black_image
<1>11. s = [black EXCEPT !.count = Len(boxes), !.blocked = blocked, !.density = density,
                         !.capacity = capacity, !.anomaly = (reason # <<>>), !.reason = reason,
                         !.confidence = MeanConfidence(boxes)]
  BY Zenon DEF analyze_array
<1>12. black = [count |-> 0, blocked |-> 0, lanes |-> Lanes, capacity |-> 0, density |-> 0,
                direction |-> "none", anomaly |-> FALSE, reason |-> <<"black image">>,
                confidence |-> 0, quality |-> 1, confirmed |-> FALSE, situations |-> {}]
  BY Zenon DEF _handle_black_image
<1> HIDE DEF density, reason, blocked, flow, capacity, s, black
<1>8. s = [count |-> Len(boxes), blocked |-> blocked, lanes |-> Lanes, capacity |-> capacity,
           density |-> density, direction |-> "none", anomaly |-> (reason # <<>>),
           reason |-> reason, confidence |-> MeanConfidence(boxes),
           quality |-> 1, confirmed |-> FALSE, situations |-> {}]
  BY <1>11, <1>12
<1>9. Typed(s)
  <2>1. 1 \in 1..3 /\ {} \in SUBSET Nat OBVIOUS
  <2> QED BY <1>1, <1>2, <1>3, <1>5, <1>6, <1>7, <1>8, <2>1 DEF Typed, State
<1>10. s.anomaly = (reason # <<>>) /\ s.reason = reason /\ s.count = Len(boxes) BY <1>8
<1> QED BY <1>7, <1>9, <1>10, <1>13, Zenon DEF Reasoned, s

\* A region of a camera.
Region == [road: Roads, lanes: Nat \ {0}, quality: 1..3, count: Nat, density: Nat, capacity: Nat,
           anomaly: BOOLEAN, reason: Seq(Reasons), confidence: 0..100]

LEMMA RegionSeen ==
  ASSUME NEW roi \in ROI, NEW boxes \in Seq(Box)
  PROVE  LET s == Segment(roi, boxes) IN
         /\ s \in Region /\ s.road = roi.road /\ s.lanes = roi.lanes
         /\ s.anomaly =>
              /\ s.reason # <<>>
              /\ (s.reason = <<"density">> /\ s.count # 0) \/ Wide(boxes) # {}
<1> DEFINE density == _estimate_density(Len(boxes), roi.lanes, roi.metres)
           reason  == _check_anomalies(boxes, density)
           s == Segment(roi, boxes)
<1>1. roi.lanes \in Nat \ {0} /\ roi.metres \in Nat \ {0} /\ roi.road \in Roads /\ roi.quality \in 1..3
  BY DEF ROI
<1>2. Len(boxes) \in Nat /\ MeanConfidence(boxes) \in 0..100 BY BoxesOfShot
<1>3. density \in Nat BY <1>1, <1>2, DensityAndFlow
<1>9. Len(boxes) = 0 => ~(density > Critical)
  <2> SUFFICES ASSUME Len(boxes) = 0 PROVE ~(density > Critical) OBVIOUS
  <2>1. density = 0 BY <1>1, EmptyRoad, Zenon
  <2> QED BY <1>1, <2>1, EmptyRoad, Zenon
<1> HIDE DEF density
<1>4. Flow(density, roi.lanes) \in Nat BY <1>1, <1>2, <1>3, DensityAndFlow
<1>5. /\ reason \in Seq(Reasons) /\ reason \in {<<>>, <<"density">>, <<"aspect ratio">>}
      /\ reason = <<"aspect ratio">> => Wide(boxes) # {}
      /\ reason = <<"density">> => density > Critical
  BY ReasonsSeen
<1>6. s = [road |-> roi.road, lanes |-> roi.lanes, quality |-> roi.quality,
           count |-> Len(boxes), density |-> density, capacity |-> Flow(density, roi.lanes),
           anomaly |-> reason # <<>>, reason |-> reason, confidence |-> MeanConfidence(boxes)]
  BY Zenon DEF Segment, density
<1> HIDE DEF reason, s
<1>7. s \in Region BY <1>1, <1>2, <1>3, <1>4, <1>5, <1>6 DEF Region
<1>8. /\ s.road = roi.road /\ s.lanes = roi.lanes /\ s.count = Len(boxes)
      /\ s.anomaly = (reason # <<>>) /\ s.reason = reason
  BY <1>6
<1> QED BY <1>5, <1>7, <1>8, <1>9, Zenon DEF s

LEMMA BlackRegion ==
  ASSUME NEW roi \in ROI
  PROVE  LET s == BlackSegment(roi) IN
         s \in Region /\ s.road = roi.road /\ s.lanes = roi.lanes /\ ~s.anomaly
<1> DEFINE t == Segment(roi, <<>>)  s == BlackSegment(roi)
           density == _estimate_density(0, roi.lanes, roi.metres)
<1>1. <<>> \in Seq(Box) /\ Len(<<>>) = 0 /\ Wide(<<>>) = {} BY DEF Wide
<1>2. t \in Region /\ t.road = roi.road /\ t.lanes = roi.lanes BY <1>1, RegionSeen, Zenon
<1>3. density = 0 /\ ~(0 > Critical)
  <2>1. roi.lanes \in Nat \ {0} /\ roi.metres \in Nat \ {0} BY DEF ROI
  <2> QED BY <2>1, EmptyRoad, Zenon
<1>4. ~(density > Critical) BY <1>3, Zenon
<1>5. _check_anomalies(<<>>, density) = <<>> BY <1>1, <1>4, Zenon DEF _check_anomalies
<1>6. t.anomaly = (_check_anomalies(<<>>, density) # <<>>)
  <2>1. t.anomaly = (_check_anomalies(<<>>, _estimate_density(Len(<<>>), roi.lanes, roi.metres)) # <<>>)
    BY DEF Segment
  <2> QED BY <1>1, <2>1, Zenon
<1>7. s = [t EXCEPT !.capacity = 0] BY Zenon DEF BlackSegment
<1> HIDE DEF t, s, density
<1>8. s \in Region /\ s.road = t.road /\ s.lanes = t.lanes /\ s.anomaly = t.anomaly
  BY <1>2, <1>7 DEF Region
<1> QED BY <1>2, <1>5, <1>6, <1>8, Zenon DEF s

\* The regions of a camera, black or not.
LEMMA RegionsSeen ==
  ASSUME NEW c \in Watched, NEW p \in Shots(c), Rois[c] # <<>>
  PROVE  LET q == analyze_multi_roi(Rois[c], p) IN
         /\ DOMAIN q = DOMAIN Rois[c] /\ IsFiniteSet(DOMAIN q)
         /\ \A i \in DOMAIN q :
              /\ q[i] \in Region /\ q[i].road = Rois[c][i].road /\ q[i].lanes = Rois[c][i].lanes
              /\ q[i].anomaly => q[i].reason # <<>>
              /\ q[i].anomaly => \/ q[i].reason = <<"density">> /\ q[i].count # 0
                                 \/ p # Black /\ i \in DOMAIN p /\ Wide(p[i]) # {}
<1> DEFINE q == analyze_multi_roi(Rois[c], p)
<1>1. /\ Rois[c] \in Seq(ROI) /\ Len(Rois[c]) \in Nat
      /\ DOMAIN Rois[c] = 1..Len(Rois[c]) /\ Len(Rois[c]) >= 1
  BY InputAssumption DEF InputAssumption
<1>2. q = [i \in DOMAIN Rois[c] |-> IF p = Black THEN BlackSegment(Rois[c][i])
                                    ELSE Segment(Rois[c][i], p[i])]
  BY Zenon DEF analyze_multi_roi
<1>3. p # Black => p \in [DOMAIN Rois[c] -> Seq(Box)]
  <2>1. Greatest(Len(Rois[c]), 1) = Len(Rois[c]) BY <1>1 DEF Greatest
  <2> QED BY <1>1, <2>1, Zenon DEF Shots
<1> HIDE DEF q
<1>4. DOMAIN q = DOMAIN Rois[c] /\ IsFiniteSet(DOMAIN q) BY <1>1, <1>2, FS_Interval
<1>5. ASSUME NEW i \in DOMAIN q
      PROVE  /\ q[i] \in Region /\ q[i].road = Rois[c][i].road /\ q[i].lanes = Rois[c][i].lanes
             /\ q[i].anomaly => q[i].reason # <<>>
             /\ q[i].anomaly => \/ q[i].reason = <<"density">> /\ q[i].count # 0
                                \/ p # Black /\ i \in DOMAIN p /\ Wide(p[i]) # {}
  <2>1. i \in DOMAIN Rois[c] /\ Rois[c][i] \in ROI
    <3>1. i \in DOMAIN Rois[c] BY <1>4, Zenon
    <3> QED BY <1>1, <3>1, InSequence, Zenon
  <2>2. CASE p = Black
    <3>1. q[i] = BlackSegment(Rois[c][i]) BY <1>2, <2>1, <2>2, Zenon
    <3> QED BY <2>1, <3>1, BlackRegion, Zenon
  <2>3. CASE p # Black
    <3>1. q[i] = Segment(Rois[c][i], p[i]) BY <1>2, <2>1, <2>3, Zenon
    <3>2. i \in DOMAIN p /\ p[i] \in Seq(Box) BY <1>3, <2>1, <2>3, Zenon
    <3> QED BY <2>1, <2>3, <3>1, <3>2, RegionSeen, Zenon
  <2> QED BY <2>2, <2>3, Zenon
<1> QED BY <1>4, <1>5, Zenon DEF q

\* A camera with regions.  It speaks for roads of the corridor only.
LEMMA ViewState ==
  ASSUME NEW c \in Watched, NEW p \in Shots(c), Rois[c] # <<>>
  PROVE  LET s == _aggregate_multi_roi_capacity(analyze_multi_roi(Rois[c], p)) IN
         /\ Typed(s) /\ Reasoned(s)
         /\ s.anomaly =>
              \/ s.reason = <<"density">> /\ s.count # 0
              \/ p # Black /\ \E i \in DOMAIN p :
                                Wide(p[i]) # {} /\ Rois[c][i].road # "southbound"
<1> DEFINE q == analyze_multi_roi(Rois[c], p)
           roads == PhysicsRoads(q)
           lanes == Total([i \in roads |-> q[i].lanes])
           count == Total([i \in roads |-> q[i].count])
           capacity == Total([i \in roads |-> q[i].capacity])
           sure  == [i \in roads |-> q[i].confidence]
           anomalous == {i \in roads : q[i].anomaly}
           densities == {0} \cup {q[i].density : i \in roads}
           qualities == {q[i].quality : i \in roads}
           some == CHOOSE i \in anomalous : TRUE
           s == _aggregate_multi_roi_capacity(q)
<1>1. /\ DOMAIN q = DOMAIN Rois[c] /\ IsFiniteSet(DOMAIN q)
      /\ \A i \in DOMAIN q :
           /\ q[i] \in Region /\ q[i].road = Rois[c][i].road /\ q[i].lanes = Rois[c][i].lanes
           /\ q[i].anomaly => q[i].reason # <<>>
           /\ q[i].anomaly => \/ q[i].reason = <<"density">> /\ q[i].count # 0
                              \/ p # Black /\ i \in DOMAIN p /\ Wide(p[i]) # {}
  BY RegionsSeen, Zenon
<1> HIDE DEF q
<1>2. roads \subseteq DOMAIN q /\ \A i \in roads : q[i].road # "southbound"
  <2> DEFINE on(side) == {i \in DOMAIN q : q[i].road = side}
  <2>1. roads = IF on("northbound") # {} THEN on("northbound")
                ELSE IF on("southbound") # {} THEN {} ELSE DOMAIN q
    BY Zenon DEF PhysicsRoads
  <2> HIDE DEF roads
  <2> QED BY <2>1
<1>3. IsFiniteSet(roads) BY <1>1, <1>2, FS_Subset
<1> HIDE DEF roads
<1>4. \A i \in roads : /\ q[i].lanes \in Nat \ {0} /\ q[i].count \in Nat /\ q[i].capacity \in Nat
                       /\ q[i].density \in Nat /\ q[i].confidence \in 0..100
                       /\ q[i].quality \in 1..3 /\ q[i].reason \in Seq(Reasons)
  <2> TAKE i \in roads
  <2>1. q[i] \in Region BY <1>1, <1>2
  <2> QED BY <2>1 DEF Region
<1>5. /\ count \in Nat /\ capacity \in Nat /\ lanes \in Nat
      /\ \A i \in roads : q[i].count <= count
  <2>1. /\ [i \in roads |-> q[i].count] \in [roads -> Nat]
        /\ [i \in roads |-> q[i].capacity] \in [roads -> Nat]
        /\ [i \in roads |-> q[i].lanes] \in [roads -> Nat]
    BY <1>4
  <2>2. count \in Nat /\ capacity \in Nat /\ lanes \in Nat BY <1>3, <2>1, TotalIsNumber, Zenon
  <2> DEFINE n == [i \in roads |-> q[i].count]
  <2>3. \A i \in roads : n[i] <= Total(n) BY <1>3, <2>1, TotalIsNumber, Zenon
  <2>4. \A i \in roads : n[i] = q[i].count OBVIOUS
  <2>5. \A i \in roads : q[i].count <= count BY <2>3, <2>4, Zenon
  <2> QED BY <2>2, <2>5, Zenon
<1>6. lanes <= MostLanes
  <2>1. roads \in SUBSET DOMAIN Rois[c] BY <1>1, <1>2
  <2>2. [i \in roads |-> q[i].lanes] = [i \in roads |-> Rois[c][i].lanes]
    <3>1. \A i \in roads : q[i].lanes = Rois[c][i].lanes BY <1>1, <1>2, Zenon
    <3> QED BY <3>1
  <2>3. Total([i \in roads |-> Rois[c][i].lanes]) <= MostLanes
    BY <2>1, LanesAssumption, Zenon DEF LanesAssumption
  <2> QED BY <2>2, <2>3, Zenon
<1>7. (IF lanes = 0 THEN Lanes ELSE lanes) \in 1..MostLanes
  <2> HIDE DEF lanes
  <2> QED BY <1>5, <1>6, CorridorAssumption, LanesAssumption DEF CorridorAssumption, LanesAssumption
<1>8. Max(densities) \in Nat
  <2>1. densities \in SUBSET Nat /\ densities # {} BY <1>4
  <2>2. IsFiniteSet(densities)
    <3> DEFINE density == [i \in roads |-> q[i].density]
    <3>1. IsFiniteSet({density[i] : i \in roads}) BY <1>3, ImageIsFinite
    <3>2. {density[i] : i \in roads} = {q[i].density : i \in roads} OBVIOUS
    <3> QED BY <3>1, <3>2, FS_Singleton, FS_Union
  <2> HIDE DEF densities
  <2>3. \E x \in densities : \A y \in densities : x >= y BY <2>1, <2>2, GreatestExists
  <2>4. Max(densities) \in densities BY <2>3 DEF Max
  <2> QED BY <2>1, <2>4
<1>9. (IF roads = {} THEN 1 ELSE Min(qualities)) \in 1..3
  <2>1. CASE roads = {} BY <2>1
  <2>2. CASE roads # {}
    <3>1. qualities \subseteq 1..3 /\ qualities # {} BY <1>4, <2>2
    <3> HIDE DEF qualities
    <3>2. \E x \in qualities : \A y \in qualities : x <= y BY <3>1, LeastExists
    <3>3. Min(qualities) \in qualities BY <3>2 DEF Min
    <3> QED BY <2>2, <3>1, <3>3
  <2> QED BY <2>1, <2>2
<1>10. (IF roads = {} THEN 0 ELSE Total(sure) \div Cardinality(roads)) \in 0..100
  <2>1. CASE roads = {} BY <2>1
  <2>2. CASE roads # {}
    <3>1. sure \in [roads -> 0..100] BY <1>4
    <3> HIDE DEF sure
    <3>2. Total(sure) \div Cardinality(roads) \in 0..100 BY <1>3, <2>2, <3>1, MeanIsPercent
    <3> QED BY <2>2, <3>2
  <2> QED BY <2>1, <2>2
<1>11. anomalous # {} => some \in anomalous OBVIOUS
<1> DEFINE reason == IF anomalous = {} THEN <<>> ELSE q[some].reason
           direction == IF \E i \in DOMAIN q : q[i].road # "other" THEN "northbound" ELSE "none"
<1>12. reason \in Seq(Reasons)
  <2>1. CASE anomalous = {} BY <2>1, OneReason
  <2>2. CASE anomalous # {}
    <3>1. some \in roads BY <1>11, <2>2
    <3> QED BY <1>4, <2>2, <3>1, Zenon
  <2> QED BY <2>1, <2>2
<1>13. s = [count |-> count, blocked |-> 0,
            lanes |-> IF lanes = 0 THEN Lanes ELSE lanes,
            capacity |-> capacity, density |-> Max(densities), direction |-> direction,
            anomaly |-> anomalous # {}, reason |-> reason,
            confidence |-> IF roads = {} THEN 0 ELSE Total(sure) \div Cardinality(roads),
            quality |-> IF roads = {} THEN 1 ELSE Min(qualities),
            confirmed |-> FALSE, situations |-> {}]
  BY Zenon DEF _aggregate_multi_roi_capacity, roads
<1>14. s.anomaly = (anomalous # {}) /\ s.reason = reason /\ s.count = count BY <1>13
<1>15. Typed(s)
  <2>1. direction \in {"northbound", "none"} OBVIOUS
  <2> HIDE DEF count, lanes, capacity, densities, direction, anomalous, reason, sure, qualities, s
  <2> QED BY <1>5, <1>7, <1>8, <1>9, <1>10, <1>12, <1>13, <2>1 DEF Typed, State
<1>16. ASSUME s.anomaly
       PROVE  /\ s.reason # <<>>
              /\ \/ s.reason = <<"density">> /\ s.count # 0
                 \/ p # Black /\ \E i \in DOMAIN p :
                                   Wide(p[i]) # {} /\ Rois[c][i].road # "southbound"
  <2>1. anomalous # {} BY <1>14, <1>16, Zenon
  <2>2. some \in roads /\ q[some].anomaly BY <1>11, <2>1
  <2>3. s.reason = q[some].reason BY <1>14, <2>1, Zenon
  <2>4. some \in DOMAIN q /\ Rois[c][some].road # "southbound" BY <1>1, <1>2, <2>2, Zenon
  <2>5. q[some].count # 0 => s.count # 0
    <3>1. q[some].count \in Nat /\ q[some].count <= count /\ count \in Nat /\ s.count = count
      BY <1>4, <1>5, <1>14, <2>2, Zenon
    <3> HIDE DEF some, s, count
    <3> QED BY <3>1
  <2> HIDE DEF some, s
  <2> QED BY <1>1, <2>2, <2>3, <2>4, <2>5, Zenon
<1> HIDE DEF s
<1> QED BY <1>15, <1>16, Zenon DEF Reasoned, s, q

\* What was seen across a road of the corridor.
WideSeen(c, p) ==
  /\ p \notin {Failed, Black}
  /\ \E i \in DOMAIN p :
       /\ Wide(p[i]) # {}
       /\ Rois[c] = <<>> \/ Rois[c][i].road # "southbound"

\* An anomaly that a picture shows is of traffic, or of a wide box.
Seen(c, s, p) == s.anomaly => (s.reason = <<"density">> /\ s.count # 0) \/ WideSeen(c, p)

\* What a picture shows is a state of its camera.  An anomaly has a reason: a dense road,
\* or a wide box on it.
LEMMA SeenState ==
  ASSUME NEW c \in Watched, NEW p \in Pictures[c], p # Failed
  PROVE  LET s == _process_camera(c, p) IN
         /\ Typed(s) /\ Reasoned(s)
         /\ Seen(c, s, p)
<1> DEFINE s == _process_camera(c, p)
<1>1. p \in Shots(c) BY InputAssumption, Zenon DEF InputAssumption
<1>2. CASE Rois[c] # <<>>
  <2>1. s = _aggregate_multi_roi_capacity(analyze_multi_roi(Rois[c], p))
    BY <1>2, Zenon DEF _process_camera
  <2> HIDE DEF s
  <2>2. /\ Typed(s) /\ Reasoned(s)
        /\ s.anomaly =>
             \/ s.reason = <<"density">> /\ s.count # 0
             \/ p # Black /\ \E i \in DOMAIN p :
                               Wide(p[i]) # {} /\ Rois[c][i].road # "southbound"
    BY <1>1, <1>2, <2>1, ViewState, Zenon
  <2> QED BY <2>2 DEF WideSeen, Seen, s
<1>3. CASE Rois[c] = <<>> /\ p = Black
  <2>1. s = _handle_black_image BY <1>3, Zenon DEF _process_camera
  <2>2. ~_handle_black_image.anomaly BY DEF _handle_black_image
  <2> QED BY <2>1, <2>2, BlackState, Zenon DEF Seen
<1>4. CASE Rois[c] = <<>> /\ p # Black
  <2>1. s = analyze_array(p[1]) BY <1>4, Zenon DEF _process_camera
  <2>2. p \in [1..1 -> Seq(Box)]
    <3>1. Len(<<>>) = 0 /\ Greatest(0, 1) = 1 BY DEF Greatest
    <3> QED BY <1>1, <1>4, <3>1, Zenon DEF Shots
  <2>3. 1 \in DOMAIN p /\ p[1] \in Seq(Box) BY <2>2
  <2> HIDE DEF s
  <2>4. Typed(s) /\ Reasoned(s) /\ (s.anomaly => (s.reason = <<"density">> /\ s.count # 0) \/ Wide(p[1]) # {})
    BY <2>1, <2>3, ArrayState, Zenon
  <2> QED BY <1>4, <2>3, <2>4 DEF WideSeen, Seen, s
<1> QED BY <1>2, <1>3, <1>4

LEMMA SmoothedDensity ==
  ASSUME average \in [Watched -> Nat \cup {None}], NEW c \in Watched, NEW density \in Nat
  PROVE  Smoothed(c, density) \in Nat
<1>1. Alpha \in Nat /\ 100 - Alpha \in Nat BY CorridorAssumption DEF CorridorAssumption
<1>2. CASE average[c] = None BY <1>2 DEF Smoothed
<1>3. CASE average[c] # None
  <2>1. average[c] \in Nat BY <1>3
  <2>2. Alpha * density \in Nat /\ (100 - Alpha) * average[c] \in Nat BY <1>1, <2>1, Products
  <2>3. (Alpha * density + (100 - Alpha) * average[c]) \div 100 \in Nat BY <2>2
  <2> QED BY <1>3, <2>3 DEF Smoothed
<1> QED BY <1>2, <1>3

(***************************************************************************)
(* The states of all cameras, after a situation has struck some of them.   *)
(***************************************************************************)
Dense(ss, critical) == \A c \in DOMAIN ss : ss[c].density > critical => ss[c].anomaly

Holds(ss, d) ==
  LET c == Nearest(d.place) IN
  c \in DOMAIN ss /\ ss[c].anomaly /\ ss[c].confirmed /\ Capped(ss[c], d)

LEMMA FusedStates ==
  ASSUME NEW ss, NEW ds \in Seq(Deviation), NEW critical \in Nat,
         DOMAIN ss \subseteq Cameras, \A c \in DOMAIN ss : Typed(ss[c]), Dense(ss, critical)
  PROVE  LET t == apply_situation_capacity_impacts(ss, ds, critical) IN
         /\ DOMAIN ss \subseteq DOMAIN t /\ DOMAIN t \subseteq Cameras
         /\ \A c \in DOMAIN t : Typed(t[c])
         /\ Dense(t, critical)
         /\ \A i \in DOMAIN ds : ds[i].place # None => Holds(t, ds[i])
<1> DEFINE t == apply_situation_capacity_impacts(ss, ds, critical)
           hit == {c \in Cameras : At(c, ds) # {}}
           i(c) == Strongest(c, ds)
           new(c) == IF c \in DOMAIN ss THEN Merged(ss[c], ds[i(c)], i(c), critical)
                     ELSE Situation(ds[i(c)], i(c), Lanes, critical)
<1>1. t = [c \in DOMAIN ss \cup hit |-> IF c \notin hit THEN ss[c] ELSE new(c)]
  BY Zenon DEF apply_situation_capacity_impacts
<1>2. \A c \in hit : i(c) \in Nat /\ i(c) \in DOMAIN ds /\ ds[i(c)] \in Deviation
  <2> TAKE c \in hit
  <2>1. PICK j : j \in At(c, ds) OBVIOUS
  <2>2. i(c) \in At(c, ds) BY <2>1, StrongestIsLeast, Zenon
  <2>3. i(c) \in DOMAIN ds BY <2>2, Zenon DEF At
  <2> HIDE DEF i
  <2> QED BY <2>3
<1>3. \A c \in hit : Typed(new(c)) /\ Capped(new(c), ds[i(c)]) /\ new(c).anomaly /\ new(c).confirmed
  <2> TAKE c \in hit
  <2>1. i(c) \in Nat /\ ds[i(c)] \in Deviation BY <1>2, Zenon
  <2>2. Lanes \in 1..MostLanes BY LanesInView, Zenon
  <2> HIDE DEF i, hit
  <2>3. CASE c \in DOMAIN ss
    <3>1. Typed(ss[c]) BY <2>3, Zenon
    <3> QED BY <2>1, <2>3, <3>1, MergedState, Zenon
  <2>4. CASE c \notin DOMAIN ss BY <2>1, <2>2, <2>4, AloneState, Zenon
  <2> QED BY <2>3, <2>4, Zenon
<1> HIDE DEF t, new
<1>4. DOMAIN ss \subseteq DOMAIN t /\ DOMAIN t \subseteq Cameras BY <1>1, Zenon
<1>5. \A c \in DOMAIN t : Typed(t[c]) BY <1>1, <1>3, Zenon
<1>6. Dense(t, critical)
  <2> SUFFICES ASSUME NEW c \in DOMAIN t, t[c].density > critical PROVE t[c].anomaly
    BY Zenon DEF Dense
  <2>1. CASE c \in hit BY <1>1, <1>3, <2>1, Zenon
  <2>2. CASE c \notin hit BY <1>1, <2>2, Zenon DEF Dense
  <2> QED BY <2>1, <2>2
<1>7. ASSUME NEW j \in DOMAIN ds, ds[j].place # None PROVE Holds(t, ds[j])
  <2> DEFINE c == Nearest(ds[j].place)
  <2>1. ds[j] \in Deviation /\ ds[j].place \in Nat
    <3>1. ds[j] \in Deviation BY InSequence, Zenon
    <3> HIDE DEF hit, i
    <3> QED BY <1>7, <3>1 DEF Deviation
  <2>2. c \in Cameras BY <2>1, NearestCamera, Zenon
  <2>3. j \in At(c, ds) BY <1>7, Zenon DEF At
  <2>4. c \in hit BY <2>2, <2>3, Zenon
  <2>5. _situation_capacity_factor(ds[i(c)]) <= _situation_capacity_factor(ds[j])
    BY <2>3, StrongestIsLeast, Zenon
  <2>6. t[c] = new(c) /\ c \in DOMAIN t BY <1>1, <2>4, Zenon
  <2>7. ds[i(c)] \in Deviation BY <1>2, <2>4, Zenon
  <2>8. Typed(t[c]) /\ Capped(t[c], ds[i(c)]) /\ t[c].anomaly /\ t[c].confirmed
    BY <1>3, <2>4, <2>6, Zenon
  <2> HIDE DEF i, hit
  <2>9. Capped(t[c], ds[j]) BY <2>1, <2>5, <2>7, <2>8, WeakerCap, Zenon
  <2> QED BY <2>6, <2>8, <2>9, Zenon DEF Holds
<1> QED BY <1>4, <1>5, <1>6, <1>7, Zenon DEF t

(***************************************************************************)
(* What stations and travel times say.                                     *)
(***************************************************************************)
Readings(read) ==
  /\ DOMAIN read \subseteq DOMAIN SitePlace /\ IsFiniteSet(DOMAIN read)
  /\ \A s \in DOMAIN read : read[s].volume \in Nat \ {0} /\ read[s].speed \in Nat

LEMMA StationsRead ==
  ASSUME NEW flows \in Flows
  PROVE  Readings(fetch_sensor_data(flows))
<1> DEFINE of(s) == {i \in DOMAIN flows : flows[i].site = s /\ flows[i].volume > 0}
           loud  == {j \in DOMAIN flows : flows[j].volume > 0}
           heard == {flows[i].site : i \in loud}
           volume(s) == Total([i \in of(s) |-> flows[i].volume])
           speed(s)  == Total([i \in of(s) |-> flows[i].speed])
           read == fetch_sensor_data(flows)
<1>1. /\ IsFiniteSet(DOMAIN flows)
      /\ \A i \in DOMAIN flows : /\ flows[i].site \in DOMAIN SitePlace
                                 /\ flows[i].volume \in Nat /\ flows[i].speed \in Nat
  <2>1. flows \in Seq(Lane) BY InputAssumption, Zenon DEF InputAssumption
  <2>2. IsFiniteSet(DOMAIN flows)
    <3>1. Len(flows) \in Nat /\ DOMAIN flows = 1..Len(flows) BY <2>1
    <3> QED BY <3>1, FS_Interval
  <2>3. ASSUME NEW i \in DOMAIN flows
        PROVE  /\ flows[i].site \in DOMAIN SitePlace
               /\ flows[i].volume \in Nat /\ flows[i].speed \in Nat
    <3>1. flows[i] \in Lane BY <2>1, InSequence, Zenon
    <3> QED BY <3>1 DEF Lane
  <2> QED BY <2>2, <2>3
<1>2. read = [s \in heard |-> [volume |-> volume(s), speed |-> speed(s) \div Cardinality(of(s))]]
  BY Zenon DEF fetch_sensor_data
<1>3. DOMAIN read = heard BY <1>2, Zenon
<1>4. heard \subseteq DOMAIN SitePlace BY <1>1
<1>5. IsFiniteSet(heard)
  <2> DEFINE site == [i \in loud |-> flows[i].site]
  <2>1. IsFiniteSet(loud) BY <1>1, FS_Subset
  <2>2. IsFiniteSet({site[i] : i \in loud}) BY <2>1, ImageIsFinite
  <2>3. {site[i] : i \in loud} = heard OBVIOUS
  <2> QED BY <2>2, <2>3
<1>6. ASSUME NEW s \in DOMAIN read
      PROVE  read[s].volume \in Nat \ {0} /\ read[s].speed \in Nat
  <2>1. PICK j \in of(s) : TRUE BY <1>3, <1>6
  <2>2. IsFiniteSet(of(s)) BY <1>1, FS_Subset
  <2> DEFINE v == [i \in of(s) |-> flows[i].volume]  u == [i \in of(s) |-> flows[i].speed]
  <2>3. v \in [of(s) -> Nat] /\ u \in [of(s) -> Nat] BY <1>1
  <2>4. Total(v) \in Nat /\ v[j] <= Total(v) /\ Total(u) \in Nat
    <3> HIDE DEF v, u
    <3> QED BY <2>1, <2>2, <2>3, TotalIsNumber
  <2>5. v[j] > 0 /\ v[j] \in Nat BY <1>1, <2>1
  <2>6. Cardinality(of(s)) \in Nat \ {0} BY <2>1, <2>2, FS_CardinalityType, FS_EmptySet
  <2>7. read[s].volume = Total(v) /\ read[s].speed = Total(u) \div Cardinality(of(s))
    <3>1. read[s] = [volume |-> volume(s), speed |-> speed(s) \div Cardinality(of(s))]
      BY <1>2, <1>3, <1>6, Zenon
    <3> HIDE DEF volume, speed, of, read
    <3>2. read[s].volume = volume(s) /\ read[s].speed = speed(s) \div Cardinality(of(s)) BY <3>1
    <3> QED BY <3>2, Zenon DEF volume, speed
  <2> HIDE DEF v, u, of, read
  <2>8. Total(u) \div Cardinality(of(s)) \in Nat BY <2>4, <2>6, Products
  <2> QED BY <2>4, <2>5, <2>7, <2>8
<1> HIDE DEF read, heard
<1> QED BY <1>3, <1>4, <1>5, <1>6, Zenon DEF Readings, read

LEMMA AggregateRead ==
  ASSUME NEW read, Readings(read)
  PROVE  Aggregate(read).speed \in Nat \cup {None} /\ Aggregate(read).inflow \in Nat \cup {None}
<1> DEFINE S == DOMAIN read
           v == [s \in S |-> read[s].volume]  u == [s \in S |-> read[s].speed]
           n == Cardinality(S)
<1>1. CASE S = {} BY <1>1 DEF Aggregate
<1>2. CASE S # {}
  <2>1. n \in Nat \ {0} BY <1>2, FS_CardinalityType, FS_EmptySet DEF Readings
  <2>2. v \in [S -> Nat] /\ u \in [S -> Nat] BY DEF Readings
  <2>3. Aggregate(read) = [inflow |-> Total(v) \div n, speed |-> Total(u) \div n]
    BY <1>2, Zenon DEF Aggregate
  <2> HIDE DEF v, u, n
  <2>4. Total(v) \in Nat /\ Total(u) \in Nat BY <2>2, TotalIsNumber DEF Readings
  <2>5. Total(v) \div n \in Nat /\ Total(u) \div n \in Nat BY <2>1, <2>4, Products
  <2> QED BY <2>3, <2>5
<1> QED BY <1>1, <1>2

LEMMA NodesRead ==
  ASSUME NEW times \in Travels, NEW read, Readings(read)
  PROVE  LET nodes == build_node_traffic_states(times, read) IN
         \A c \in DOMAIN nodes : nodes[c].speed \in Nat /\ nodes[c].inflow \in Nat \cup {None}
<1> DEFINE spans == build_travel_time_speed_states(times)
           near(c) == {s \in DOMAIN read : Nearest(SitePlace[s]) = c}
           v(c) == [s \in near(c) |-> read[s].volume]
           u(c) == [s \in near(c) |-> read[s].speed * read[s].volume]
           heard == {c \in Cameras : near(c) # {}}
           nodes == build_node_traffic_states(times, read)
<1>1. nodes = [c \in DOMAIN spans \cup heard |->
                 IF c \in heard
                 THEN [inflow |-> Total(v(c)), speed |-> Total(u(c)) \div Total(v(c)),
                       source |-> "traffic_flow"]
                 ELSE spans[c]]
  BY Zenon DEF build_node_traffic_states
<1>2. ASSUME NEW c \in DOMAIN spans PROVE spans[c].speed \in Nat /\ spans[c].inflow = None
  <2>1. PICK r \in DOMAIN times : spans[c] = [inflow |-> None, speed |-> times[r].speed,
                                              source |-> "travel_time"]
    BY <1>2, Zenon DEF build_travel_time_speed_states
  <2>2. times[r].speed \in Nat BY InputAssumption, Zenon DEF InputAssumption
  <2> HIDE DEF spans
  <2> QED BY <2>1, <2>2
<1>3. ASSUME NEW c \in heard
      PROVE  Total(v(c)) \in Nat /\ Total(u(c)) \div Total(v(c)) \in Nat
  <2>1. PICK j \in near(c) : TRUE OBVIOUS
  <2>2. IsFiniteSet(near(c)) BY FS_Subset DEF Readings
  <2>3. \A s \in near(c) : read[s].volume \in Nat \ {0} /\ read[s].speed \in Nat BY DEF Readings
  <2> HIDE DEF near
  <2>4. v(c) \in [near(c) -> Nat] /\ u(c) \in [near(c) -> Nat]
    <3>1. \A s \in near(c) : read[s].speed * read[s].volume \in Nat BY <2>3, Products
    <3> QED BY <2>3, <3>1
  <2>5. v(c)[j] \in Nat \ {0} BY <2>1, <2>3
  <2> HIDE DEF v, u
  <2>6. Total(v(c)) \in Nat /\ v(c)[j] <= Total(v(c)) /\ Total(u(c)) \in Nat
    BY <2>1, <2>2, <2>4, TotalIsNumber
  <2>7. Total(v(c)) \in Nat \ {0} BY <2>5, <2>6
  <2> QED BY <2>6, <2>7, Products
<1> HIDE DEF spans, near, v, u, heard, nodes
<1>4. ASSUME NEW c \in DOMAIN nodes
      PROVE  nodes[c].speed \in Nat /\ nodes[c].inflow \in Nat \cup {None}
  <2>1. CASE c \in heard
    <3>1. nodes[c] = [inflow |-> Total(v(c)), speed |-> Total(u(c)) \div Total(v(c)),
                      source |-> "traffic_flow"]
      BY <1>1, <1>4, <2>1, Zenon
    <3>2. nodes[c].inflow = Total(v(c)) /\ nodes[c].speed = Total(u(c)) \div Total(v(c)) BY <3>1
    <3> QED BY <1>3, <2>1, <3>2
  <2>2. CASE c \notin heard
    <3>1. c \in DOMAIN spans /\ nodes[c] = spans[c] BY <1>1, <1>4, <2>2, Zenon
    <3> QED BY <1>2, <3>1
  <2> QED BY <2>1, <2>2
<1> QED BY <1>4, Zenon DEF nodes

(***************************************************************************)
(* The inductive invariant: what each phase leaves to the later ones.      *)
(***************************************************************************)
ReadingsTyped ==
  /\ road.critical \in Nat /\ road.free \in Nat
  /\ road.speed \in Nat \cup {None} /\ road.inflow \in Nat \cup {None}
  /\ \A n \in DOMAIN road.nodes :
       road.nodes[n].speed \in Nat /\ road.nodes[n].inflow \in Nat \cup {None}
  /\ weather.capacity \in Nat
  /\ DOMAIN sensors \subseteq DOMAIN SitePlace
  /\ deviations \in Seq(Deviation)

OnlyWatched == phase = "fetched" => DOMAIN states \subseteq Watched

\* Until the states are derived, an anomaly has a reason ...
AnomaliesReasoned ==
  phase \in {"fetched", "smoothed", "measured", "promoted"} =>
    \A c \in DOMAIN states : Reasoned(states[c])

\* ... so that from then on a dense road is an anomaly, ...
DenseIsAnomaly ==
  phase \in {"derived", "fused", "computed", "published"} => Dense(states, road.critical)

\* ... and a situation, once merged, stays.
SituationsHeld ==
  phase \in {"fused", "computed", "published"} =>
    \A i \in DOMAIN deviations :
      deviations[i].place # None => Holds(states, deviations[i])

PredictedIsDense ==
  phase \in {"computed", "published"} =>
    \A c \in DOMAIN predictions :
      c \in DOMAIN states /\ states[c].density >= road.critical

IInv ==
  /\ TypeOK /\ ReadingsTyped /\ OnlyWatched
  /\ AnomaliesReasoned /\ DenseIsAnomaly /\ SituationsHeld /\ PredictedIsDense

LEMMA AreTyped ==
  TypeOK <=>
    /\ tick \in 0..MaxTicks /\ phase \in Phases
    /\ average \in [Watched -> Nat \cup {None}] /\ tracked \subseteq Watched
    /\ DOMAIN states \subseteq Cameras /\ \A c \in DOMAIN states : Typed(states[c])
    /\ DOMAIN predictions \subseteq DOMAIN states /\ DOMAIN corrections = DOMAIN predictions
    /\ \A a \in advice : a.vms \in Gantries
BY Zenon DEF TypeOK, Typed

LEMMA AreTypedNext ==
  TypeOK' <=>
    /\ tick' \in 0..MaxTicks /\ phase' \in Phases
    /\ average' \in [Watched -> Nat \cup {None}] /\ tracked' \subseteq Watched
    /\ DOMAIN states' \subseteq Cameras /\ \A c \in DOMAIN states' : Typed(states'[c])
    /\ DOMAIN predictions' \subseteq DOMAIN states' /\ DOMAIN corrections' = DOMAIN predictions'
    /\ \A a \in advice' : a.vms \in Gantries
BY Zenon DEF TypeOK, Typed

LEMMA InitIInv == Init => IInv
<1> SUFFICES ASSUME Init PROVE IInv OBVIOUS
<1>1. average \in [Watched -> Nat \cup {None}]
  BY InputAssumption DEF Init, InputAssumption
<1>2. /\ tick \in 0..MaxTicks /\ phase = "idle" /\ tracked \subseteq Watched
      /\ DOMAIN states = {} /\ DOMAIN predictions = {} /\ DOMAIN corrections = {} /\ advice = {}
  BY CorridorAssumption DEF Init, Nothing, CorridorAssumption
<1>3. TypeOK BY <1>1, <1>2, AreTyped DEF Phases
<1>4. ReadingsTyped
  BY CorridorAssumption DEF Init, ReadingsTyped, NoRoad, Nothing, Dry, CorridorAssumption
<1> QED BY <1>2, <1>3, <1>4
       DEF IInv, OnlyWatched, AnomaliesReasoned, DenseIsAnomaly, SituationsHeld, PredictedIsDense

LEMMA FetchIInv == IInv /\ Fetch => IInv'
<1> SUFFICES ASSUME IInv, Fetch PROVE IInv' OBVIOUS
<1>1. /\ phase' = "fetched" /\ tick' = tick + 1 /\ tick < MaxTicks
      /\ average' = average /\ tracked' = tracked
      /\ travel' = Nothing /\ sensors' = Nothing /\ deviations' = <<>> /\ weather' = Dry
      /\ road' = NoRoad /\ predictions' = Nothing /\ corrections' = Nothing /\ advice' = {}
  BY Zenon DEF Fetch
<1>2. PICK shown : /\ pictures' = shown
                   /\ \A c \in Watched : shown[c] \in Pictures[c] \cup {Failed}
                   /\ states' = [c \in {d \in Watched : shown[d] # Failed} |->
                                   _process_camera(c, shown[c])]
  BY Zenon DEF Fetch
<1>3. Watched \subseteq Cameras BY CorridorAssumption DEF CorridorAssumption
<1>4. \A c \in DOMAIN states' : c \in Watched /\ shown[c] \in Pictures[c] /\ shown[c] # Failed
  BY <1>2, Zenon
<1>5. \A c \in DOMAIN states' : Typed(states'[c]) /\ Reasoned(states'[c])
  BY <1>2, <1>4, SeenState, Zenon
<1>6. DOMAIN predictions' = {} /\ DOMAIN corrections' = {} BY <1>1 DEF Nothing
<1>7. tick' \in 0..MaxTicks
  BY <1>1, CorridorAssumption DEF CorridorAssumption, IInv, TypeOK
<1>8. TypeOK'
  <2>1. average \in [Watched -> Nat \cup {None}] /\ tracked \subseteq Watched BY Zenon DEF IInv, TypeOK
  <2>2. "fetched" \in Phases BY DEF Phases
  <2> QED BY <1>1, <1>3, <1>4, <1>5, <1>6, <1>7, <2>1, <2>2, AreTypedNext, Zenon
<1>9. ReadingsTyped'
  BY <1>1, CorridorAssumption DEF ReadingsTyped, NoRoad, Nothing, Dry, CorridorAssumption
<1> QED BY <1>1, <1>4, <1>5, <1>8, <1>9
       DEF IInv, OnlyWatched, AnomaliesReasoned, DenseIsAnomaly, SituationsHeld, PredictedIsDense

LEMMA SmoothIInv == IInv /\ Smooth => IInv'
<1> SUFFICES ASSUME IInv, Smooth PROVE IInv' OBVIOUS
<1>1. /\ phase = "fetched" /\ phase' = "smoothed"
      /\ UNCHANGED <<tick, tracked, inputs, road, predictions, corrections, advice>>
      /\ average' = [c \in Watched |->
                       IF c \in DOMAIN states THEN Smoothed(c, states[c].density) ELSE average[c]]
      /\ states' = [c \in DOMAIN states |->
                      [states[c] EXCEPT !.density = Smoothed(c, states[c].density)]]
  BY Zenon DEF Smooth
<1>2. /\ tick \in 0..MaxTicks /\ average \in [Watched -> Nat \cup {None}] /\ tracked \subseteq Watched
      /\ DOMAIN states \subseteq Cameras /\ \A c \in DOMAIN states : Typed(states[c])
      /\ DOMAIN predictions \subseteq DOMAIN states /\ DOMAIN corrections = DOMAIN predictions
      /\ \A a \in advice : a.vms \in Gantries
  BY AreTyped, Zenon DEF IInv
<1>3. DOMAIN states \subseteq Watched BY <1>1, Zenon DEF IInv, OnlyWatched
<1>4. \A c \in DOMAIN states : Reasoned(states[c]) BY <1>1, Zenon DEF IInv, AnomaliesReasoned
<1>5. \A c \in DOMAIN states : Smoothed(c, states[c].density) \in Nat
  <2> TAKE c \in DOMAIN states
  <2>1. states[c].density \in Nat BY <1>2 DEF Typed, State
  <2> QED BY <1>2, <1>3, <2>1, SmoothedDensity, Zenon
<1>6. \A c \in DOMAIN states' : Typed(states'[c]) /\ Reasoned(states'[c])
  <2> SUFFICES ASSUME NEW c \in DOMAIN states PROVE Typed(states'[c]) /\ Reasoned(states'[c])
    BY <1>1, Zenon
  <2>1. states'[c] = [states[c] EXCEPT !.density = Smoothed(c, states[c].density)] BY <1>1, Zenon
  <2>2. Typed(states[c]) /\ Reasoned(states[c]) /\ Smoothed(c, states[c].density) \in Nat
    BY <1>2, <1>4, <1>5, Zenon
  <2> QED BY <2>1, <2>2 DEF Typed, State, Reasoned
<1>7. average' \in [Watched -> Nat \cup {None}] BY <1>1, <1>2, <1>5
<1>8. DOMAIN states' = DOMAIN states BY <1>1, Zenon
<1>9. TypeOK'
  <2>1. "smoothed" \in Phases BY DEF Phases
  <2> QED BY <1>1, <1>2, <1>6, <1>7, <1>8, <2>1, AreTypedNext, Zenon
<1>10. ReadingsTyped' BY <1>1 DEF IInv, ReadingsTyped, inputs
<1> QED BY <1>1, <1>6, <1>9, <1>10
       DEF IInv, OnlyWatched, AnomaliesReasoned, DenseIsAnomaly, SituationsHeld, PredictedIsDense

LEMMA MeasureIInv == IInv /\ Measure => IInv'
<1> SUFFICES ASSUME IInv, Measure PROVE IInv' OBVIOUS
<1>1. /\ phase = "smoothed" /\ phase' = "measured"
      /\ UNCHANGED <<tick, average, tracked, states, deviations, predictions, corrections, advice>>
  BY Zenon DEF Measure
<1>2. PICK flows \in Flows, times \in Travels, w \in Weathers, free \in FreeSpeeds :
        LET read == fetch_sensor_data(flows)  all == Aggregate(read) IN
        /\ sensors' = read /\ weather' = w
        /\ road' = [nodes |-> build_node_traffic_states(times, read),
                    inflow |-> all.inflow, speed |-> all.speed,
                    free |-> (free * w.speed) \div 100,
                    critical |-> (Critical * w.capacity) \div 100]
  BY Zenon DEF Measure
<1>3. /\ w.speed \in Nat /\ w.capacity \in Nat /\ free \in Nat /\ Critical \in Nat
  BY InputAssumption, CorridorAssumption DEF InputAssumption, CorridorAssumption
<1> DEFINE read == fetch_sensor_data(flows)
           nodes == build_node_traffic_states(times, read)
           all == Aggregate(read)
<1>8. Readings(read) BY StationsRead, Zenon
<1>9. /\ all.speed \in Nat \cup {None} /\ all.inflow \in Nat \cup {None}
      /\ \A n \in DOMAIN nodes : nodes[n].speed \in Nat /\ nodes[n].inflow \in Nat \cup {None}
  BY <1>8, AggregateRead, NodesRead, Zenon
<1> HIDE DEF read, nodes, all
<1>4. (free * w.speed) \div 100 \in Nat /\ (Critical * w.capacity) \div 100 \in Nat
  <2>1. free * w.speed \in Nat /\ Critical * w.capacity \in Nat BY <1>3, Products
  <2> QED BY <2>1, Products
<1>5. ReadingsTyped'
  <2>1. /\ road'.critical \in Nat /\ road'.free \in Nat
        /\ road'.speed = all.speed /\ road'.inflow = all.inflow /\ road'.nodes = nodes
    BY <1>2, <1>4 DEF read, nodes, all
  <2>2. deviations' \in Seq(Deviation) BY <1>1, Zenon DEF IInv, ReadingsTyped
  <2>3. sensors' = read /\ weather' = w BY <1>2, Zenon DEF read
  <2>4. DOMAIN read \subseteq DOMAIN SitePlace BY <1>8, Zenon DEF Readings
  <2> QED BY <1>3, <1>9, <2>1, <2>2, <2>3, <2>4, Zenon DEF ReadingsTyped
<1>6. TypeOK'
  <2>1. "measured" \in Phases BY DEF Phases
  <2> QED BY <1>1, <2>1, AreTyped, AreTypedNext, Zenon DEF IInv
<1>7. AnomaliesReasoned' BY <1>1, Zenon DEF IInv, AnomaliesReasoned
<1> QED BY <1>1, <1>5, <1>6, <1>7
       DEF IInv, OnlyWatched, DenseIsAnomaly, SituationsHeld, PredictedIsDense

LEMMA PromoteIInv == IInv /\ Promote => IInv'
<1> SUFFICES ASSUME IInv, Promote PROVE IInv' OBVIOUS
<1>1. /\ phase = "measured" /\ phase' = "promoted"
      /\ states' = _apply_stopped_vehicle_detection(states, stopped', road.critical)
      /\ UNCHANGED <<tick, average, tracked, sensors, deviations, weather, road,
                     predictions, corrections, advice>>
  BY Zenon DEF Promote
<1>2. \A c \in DOMAIN states : Typed(states[c]) /\ Reasoned(states[c])
  BY <1>1, AreTyped, Zenon DEF IInv, AnomaliesReasoned
<1>3. road.critical \in Nat BY Zenon DEF IInv, ReadingsTyped
<1>4. DOMAIN states' = DOMAIN states BY <1>1, Zenon DEF _apply_stopped_vehicle_detection
<1>5. \A c \in DOMAIN states' : Typed(states'[c]) /\ Reasoned(states'[c])
  <2> SUFFICES ASSUME NEW c \in DOMAIN states PROVE Typed(states'[c]) /\ Reasoned(states'[c])
    BY <1>4, Zenon
  <2>1. \/ states'[c] = states[c]
        \/ states'[c] = Halted(states[c], road.critical)
    BY <1>1, Zenon DEF _apply_stopped_vehicle_detection, Halted
  <2> QED BY <1>2, <1>3, <2>1, HaltedState, Zenon
<1>6. TypeOK'
  <2>1. "promoted" \in Phases BY DEF Phases
  <2> QED BY <1>1, <1>4, <1>5, <2>1, AreTyped, AreTypedNext, Zenon DEF IInv
<1>7. ReadingsTyped' BY <1>1, Zenon DEF IInv, ReadingsTyped
<1> QED BY <1>1, <1>5, <1>6, <1>7
       DEF IInv, OnlyWatched, AnomaliesReasoned, DenseIsAnomaly, SituationsHeld, PredictedIsDense

LEMMA DeriveIInv == IInv /\ Derive => IInv'
<1> SUFFICES ASSUME IInv, Derive PROVE IInv' OBVIOUS
<1>1. /\ phase = "promoted" /\ phase' = "derived"
      /\ states' = _apply_fused_capacity_derivation(
                     states, road.nodes, [speed |-> road.speed], road.free, road.critical,
                     weather.capacity)
      /\ UNCHANGED <<tick, average, tracked, inputs, road, predictions, corrections, advice>>
  BY Zenon DEF Derive
<1>2. \A c \in DOMAIN states : Typed(states[c]) /\ Reasoned(states[c])
  BY <1>1, AreTyped, Zenon DEF IInv, AnomaliesReasoned
<1>3. /\ road.critical \in Nat /\ weather.capacity \in Nat
      /\ \A c : FusedSpeed(c, road.nodes, [speed |-> road.speed], road.free) \in Nat
  BY DEF IInv, ReadingsTyped, FusedSpeed
<1>4. DOMAIN states' = DOMAIN states BY <1>1, Zenon DEF _apply_fused_capacity_derivation
<1>5. \A c \in DOMAIN states' :
        Typed(states'[c]) /\ (states'[c].density > road.critical => states'[c].anomaly)
  <2> SUFFICES ASSUME NEW c \in DOMAIN states
               PROVE  Typed(states'[c]) /\ (states'[c].density > road.critical => states'[c].anomaly)
    BY <1>4, Zenon
  <2>1. states'[c] = _derive_capacity_from_fused_state(
                       states[c], FusedSpeed(c, road.nodes, [speed |-> road.speed], road.free),
                       road.critical, weather.capacity)
    BY <1>1, Zenon DEF _apply_fused_capacity_derivation
  <2> QED BY <1>2, <1>3, <2>1, DerivedState, Zenon
<1>6. TypeOK'
  <2>1. "derived" \in Phases BY DEF Phases
  <2> QED BY <1>1, <1>4, <1>5, <2>1, AreTyped, AreTypedNext, Zenon DEF IInv
<1>7. ReadingsTyped' BY <1>1 DEF IInv, ReadingsTyped, inputs
<1>8. DenseIsAnomaly' BY <1>1, <1>5, Zenon DEF DenseIsAnomaly, Dense
<1> QED BY <1>1, <1>6, <1>7, <1>8
       DEF IInv, OnlyWatched, AnomaliesReasoned, SituationsHeld, PredictedIsDense

LEMMA SituationsIInv == IInv /\ ApplySituations => IInv'
<1> SUFFICES ASSUME IInv, ApplySituations PROVE IInv' OBVIOUS
<1>1. /\ phase = "derived" /\ phase' = "fused" /\ deviations' \in Situations
      /\ states' = apply_situation_capacity_impacts(states, deviations', road.critical)
      /\ UNCHANGED <<tick, average, tracked, sensors, weather, road,
                     predictions, corrections, advice>>
  BY Zenon DEF ApplySituations
<1>2. deviations' \in Seq(Deviation) BY <1>1, InputAssumption, Zenon DEF InputAssumption
<1>3. /\ \A c \in DOMAIN states : Typed(states[c])
      /\ DOMAIN states \subseteq Cameras /\ Dense(states, road.critical) /\ road.critical \in Nat
  BY <1>1, AreTyped, Zenon DEF IInv, DenseIsAnomaly, ReadingsTyped
<1>4. /\ DOMAIN states \subseteq DOMAIN states' /\ DOMAIN states' \subseteq Cameras
      /\ \A c \in DOMAIN states' : Typed(states'[c])
      /\ Dense(states', road.critical)
      /\ \A i \in DOMAIN deviations' :
           deviations'[i].place # None => Holds(states', deviations'[i])
  BY <1>1, <1>2, <1>3, FusedStates, Zenon
<1>5. TypeOK'
  <2>1. "fused" \in Phases BY DEF Phases
  <2> QED BY <1>1, <1>4, <2>1, AreTyped, AreTypedNext, Zenon DEF IInv
<1>6. ReadingsTyped' BY <1>1, <1>2, Zenon DEF IInv, ReadingsTyped
<1>7. DenseIsAnomaly' /\ SituationsHeld' BY <1>1, <1>4, Zenon DEF DenseIsAnomaly, SituationsHeld
<1> QED BY <1>1, <1>5, <1>6, <1>7 DEF IInv, OnlyWatched, AnomaliesReasoned, PredictedIsDense

LEMMA PhysicsIInv == IInv /\ Physics => IInv'
<1> SUFFICES ASSUME IInv, Physics PROVE IInv' OBVIOUS
<1>1. /\ phase = "fused" /\ phase' = "computed"
      /\ predictions' = compute(states, road)
      /\ corrections' \in [Bottlenecks(states, road) -> IF travel = Nothing THEN {None} ELSE Corrections]
      /\ UNCHANGED <<tick, average, tracked, inputs, states, road, advice>>
  BY Zenon DEF Physics
<1>2. /\ DOMAIN predictions' = Bottlenecks(states, road)
      /\ DOMAIN corrections' = Bottlenecks(states, road)
  BY <1>1, Zenon DEF compute
<1>3. \A c \in Bottlenecks(states, road) : c \in DOMAIN states /\ states[c].density >= road.critical
  BY Zenon DEF Bottlenecks, IsBottleneck
<1>4. TypeOK'
  <2>1. "computed" \in Phases BY DEF Phases
  <2> QED BY <1>1, <1>2, <1>3, <2>1, AreTyped, AreTypedNext, Zenon DEF IInv
<1>5. ReadingsTyped' BY <1>1 DEF IInv, ReadingsTyped, inputs
<1>6. DenseIsAnomaly' /\ SituationsHeld'
  BY <1>1 DEF IInv, DenseIsAnomaly, SituationsHeld, inputs
<1>7. PredictedIsDense' BY <1>1, <1>2, <1>3, Zenon DEF PredictedIsDense
<1> QED BY <1>1, <1>4, <1>5, <1>6, <1>7 DEF IInv, OnlyWatched, AnomaliesReasoned

LEMMA PhysicsFailsIInv == IInv /\ PhysicsFails => IInv'
<1> SUFFICES ASSUME IInv, PhysicsFails PROVE IInv' OBVIOUS
<1>1. phase' = "failed" /\ UNCHANGED <<tick, average, tracked, inputs, results>>
  BY Zenon DEF PhysicsFails
<1>2. UNCHANGED <<states, road, predictions, corrections, advice, sensors, deviations, weather>>
  BY <1>1 DEF inputs, results
<1>3. TypeOK'
  <2>1. "failed" \in Phases BY DEF Phases
  <2> QED BY <1>1, <1>2, <2>1, AreTyped, AreTypedNext, Zenon DEF IInv
<1>4. ReadingsTyped' BY <1>2, Zenon DEF IInv, ReadingsTyped
<1> QED BY <1>1, <1>3, <1>4
       DEF IInv, OnlyWatched, AnomaliesReasoned, DenseIsAnomaly, SituationsHeld, PredictedIsDense

LEMMA PublishIInv == IInv /\ Publish => IInv'
<1> SUFFICES ASSUME IInv, Publish PROVE IInv' OBVIOUS
<1>1. /\ phase = "computed" /\ phase' = "published"
      /\ advice' = (UNION {generate_recommendations(predictions[c], corrections[c], weather.surface) :
                             c \in DOMAIN predictions})
                   \cup generate_sensor_recommendations(detect_sensor_anomalies(sensors))
      /\ UNCHANGED <<tick, average, tracked, sensors, deviations, weather, states, road,
                     predictions, corrections>>
  BY Zenon DEF Publish
<1>2. \A p, k, w : \A a \in generate_recommendations(p, k, w) : a.vms \in Gantries
  BY DEF generate_recommendations, Advice
<1>3. \A a \in generate_sensor_recommendations(detect_sensor_anomalies(sensors)) : a.vms \in Gantries
  <2>1. \A s \in DOMAIN detect_sensor_anomalies(sensors) : SitePlace[s] \in Nat
    <3>1. DOMAIN detect_sensor_anomalies(sensors) \subseteq DOMAIN sensors
      BY Zenon DEF detect_sensor_anomalies
    <3>2. DOMAIN sensors \subseteq DOMAIN SitePlace BY Zenon DEF IInv, ReadingsTyped
    <3>3. \A s \in DOMAIN SitePlace : SitePlace[s] \in Nat
      BY CorridorAssumption, Zenon DEF CorridorAssumption
    <3> QED BY <3>1, <3>2, <3>3, Zenon
  <2>2. \A s \in DOMAIN detect_sensor_anomalies(sensors) :
          find_nearest_vms_by_chainage(SitePlace[s]) \in Gantries
    BY <2>1, NearestGantry, Zenon
  <2> QED BY <2>2 DEF generate_sensor_recommendations
<1>4. \A a \in advice' : a.vms \in Gantries
  <2> SUFFICES ASSUME NEW a, a \in advice' PROVE a.vms \in Gantries OBVIOUS
  <2>1. \/ \E c \in DOMAIN predictions :
             a \in generate_recommendations(predictions[c], corrections[c], weather.surface)
        \/ a \in generate_sensor_recommendations(detect_sensor_anomalies(sensors))
    <3> DEFINE G == {generate_recommendations(predictions[c], corrections[c], weather.surface) :
                       c \in DOMAIN predictions}
               T == generate_sensor_recommendations(detect_sensor_anomalies(sensors))
    <3>1. advice' = (UNION G) \cup T BY <1>1, Zenon
    <3>2. (\E X \in G : a \in X) \/ a \in T
      <4> HIDE DEF G, T
      <4> QED BY <3>1, Zenon
    <3> QED BY <3>2, Zenon
  <2> QED BY <1>2, <1>3, <2>1, Zenon
<1>5. TypeOK'
  <2>1. "published" \in Phases BY DEF Phases
  <2> QED BY <1>1, <1>4, <2>1, AreTyped, AreTypedNext, Zenon DEF IInv
<1>6. ReadingsTyped' BY <1>1, Zenon DEF IInv, ReadingsTyped
<1>7. DenseIsAnomaly' /\ SituationsHeld' /\ PredictedIsDense'
  BY <1>1, Zenon DEF IInv, DenseIsAnomaly, SituationsHeld, PredictedIsDense
<1> QED BY <1>1, <1>5, <1>6, <1>7 DEF IInv, OnlyWatched, AnomaliesReasoned

LEMMA StepIInv == IInv /\ [Next]_vars => IInv'
<1> SUFFICES ASSUME IInv, [Next]_vars PROVE IInv' OBVIOUS
<1>1. CASE UNCHANGED vars
  <2>1. UNCHANGED <<tick, phase, average, tracked, states, road, predictions, corrections, advice,
                    sensors, deviations, weather>>
    BY <1>1 DEF vars, inputs, results
  <2>2. TypeOK' BY <2>1, AreTyped, AreTypedNext, Zenon DEF IInv
  <2>3. ReadingsTyped' BY <2>1, Zenon DEF IInv, ReadingsTyped
  <2> QED BY <2>1, <2>2, <2>3
         DEF IInv, OnlyWatched, AnomaliesReasoned, DenseIsAnomaly, SituationsHeld, PredictedIsDense
<1> QED
  BY <1>1, FetchIInv, SmoothIInv, MeasureIInv, PromoteIInv, DeriveIInv, SituationsIInv,
     PhysicsIInv, PhysicsFailsIInv, PublishIInv, Zenon DEF Next

LEMMA Invariance == Spec => []IInv
<1>1. Init => IInv BY InitIInv
<1>2. IInv /\ [Next]_vars => IInv' BY StepIInv
<1> QED BY <1>1, <1>2, PTL DEF Spec

(* The states of the cameras are states, and every prediction, correction  *)
(* and sign refers to a camera or gantry that exists, in every phase of    *)
(* every tick (tick_orchestrator.py:202-386).                              *)
THEOREM TickTypes == Spec => []TypeOK
<1>1. IInv => TypeOK BY Zenon DEF IInv
<1> QED BY <1>1, Invariance, PTL

(* Every located situation reaches the operators as a confirmed incident   *)
(* with at least its own loss of capacity, for all corridors, camera views *)
(* and lists of situations (fusion_pipeline.py:560-657).                   *)
THEOREM SituationsAreShown == Spec => []ConfirmedMeansDrop
<1>1. IInv => ConfirmedMeansDrop
  <2> SUFFICES ASSUME IInv, Published, NEW i \in DOMAIN deviations, deviations[i].place # None
               PROVE  LET c == Nearest(deviations[i].place) IN
                      /\ c \in DOMAIN incidents /\ incidents[c].confirmed
                      /\ incidents[c].drop >= 100 - _situation_capacity_factor(deviations[i])
    BY Zenon DEF ConfirmedMeansDrop
  <2> DEFINE c == Nearest(deviations[i].place)
  <2>1. Holds(states, deviations[i]) BY Zenon DEF IInv, SituationsHeld, Published
  <2>2. deviations[i] \in Deviation
    <3>1. deviations \in Seq(Deviation) BY Zenon DEF IInv, ReadingsTyped
    <3> QED BY <3>1, InSequence, Zenon
  <2>3. /\ c \in DOMAIN states /\ states[c].anomaly /\ states[c].confirmed
        /\ Capped(states[c], deviations[i])
    BY <2>1, Zenon DEF Holds
  <2>4. Typed(states[c]) BY <2>3, AreTyped, Zenon DEF IInv
  <2>5. CapacityDrop(states[c]) >= 100 - _situation_capacity_factor(deviations[i])
    BY <2>2, <2>3, <2>4, CappedDrop, Zenon
  <2> HIDE DEF c
  <2>6. c \in DOMAIN incidents BY <2>3, Zenon DEF incidents, build_incident_reports
  <2>7. incidents[c].drop = CapacityDrop(states[c]) /\ incidents[c].confirmed = states[c].confirmed
    BY <2>3 DEF incidents, build_incident_reports
  <2> QED BY <2>3, <2>5, <2>6, <2>7, Zenon DEF c
<1> QED BY <1>1, Invariance, PTL

(* A predicted queue has an incident at its head, whatever the readings:   *)
(* only a density that is exactly critical escapes it                      *)
(* (fusion_pipeline.py:511, physics_engine.py:147).                        *)
THEOREM QueuesAreAnnounced == Spec => []PredictionsAreAnnounced
<1>1. IInv => PredictionsAreAnnounced
  <2> SUFFICES ASSUME IInv, Published, NEW c \in DOMAIN predictions
               PROVE  c \in DOMAIN incidents \/ states[c].density = road.critical
    BY Zenon DEF PredictionsAreAnnounced
  <2>1. c \in DOMAIN states /\ states[c].density >= road.critical
    BY Zenon DEF IInv, PredictedIsDense, Published
  <2>2. states[c].density > road.critical => states[c].anomaly
    BY <2>1, Zenon DEF IInv, DenseIsAnomaly, Dense, Published
  <2>3. states[c].density \in Nat /\ road.critical \in Nat
    <3>1. Typed(states[c]) BY <2>1, AreTyped, Zenon DEF IInv
    <3>2. road.critical \in Nat BY Zenon DEF IInv, ReadingsTyped
    <3> QED BY <3>1, <3>2 DEF Typed, State
  <2>4. states[c].anomaly => c \in DOMAIN incidents
    BY <2>1, Zenon DEF incidents, build_incident_reports
  <2>5. states[c].density > road.critical \/ states[c].density = road.critical BY <2>1, <2>3
  <2> QED BY <2>2, <2>4, <2>5, Zenon
<1> QED BY <1>1, Invariance, PTL

(***************************************************************************)
(* What is advised, and what the operators see of it.                      *)
(***************************************************************************)
QueueAdvice(c, surface) == generate_recommendations(predictions[c], corrections[c], surface)

\* The advice that is published is that of the predictions and stations published with it.
AdvicePublished ==
  Published =>
    advice = (UNION {QueueAdvice(c, weather.surface) : c \in DOMAIN predictions})
             \cup generate_sensor_recommendations(detect_sensor_anomalies(sensors))

\* The predictions are those of the states and the traffic published with them.
PredictionsFollow ==
  phase \in {"computed", "published"} =>
    predictions = compute(states, road)

LEMMA AdviceInvariance == Spec => [](AdvicePublished /\ PredictionsFollow)
<1>1. Init => AdvicePublished /\ PredictionsFollow
  BY DEF Init, AdvicePublished, PredictionsFollow, Published
<1>2. AdvicePublished /\ PredictionsFollow /\ [Next]_vars => (AdvicePublished /\ PredictionsFollow)'
  <2> SUFFICES ASSUME AdvicePublished, PredictionsFollow, [Next]_vars
               PROVE  AdvicePublished' /\ PredictionsFollow'
    OBVIOUS
  <2>1. CASE Publish
    <3>1. /\ phase = "computed" /\ phase' = "published"
          /\ UNCHANGED <<predictions, corrections, weather, sensors, states, road>>
      BY <2>1, Zenon DEF Publish
    <3>2. advice' = (UNION {QueueAdvice(c, weather.surface) : c \in DOMAIN predictions})
                    \cup generate_sensor_recommendations(detect_sensor_anomalies(sensors))
      BY <2>1, Zenon DEF Publish, QueueAdvice
    <3>3. AdvicePublished' BY <3>1, <3>2, Zenon DEF AdvicePublished, QueueAdvice
    <3> QED BY <3>1, <3>3, Zenon DEF PredictionsFollow
  <2>2. CASE Physics
    <3>1. phase' = "computed" /\ UNCHANGED <<states, road>> /\ predictions' = compute(states, road)
      BY <2>2, Zenon DEF Physics
    <3> QED BY <3>1 DEF AdvicePublished, PredictionsFollow, Published
  <2>3. CASE UNCHANGED vars
    <3>1. UNCHANGED <<phase, predictions, corrections, weather, sensors, states, road, advice>>
      BY <2>3 DEF vars, inputs, results
    <3> QED BY <3>1, Zenon DEF AdvicePublished, PredictionsFollow, QueueAdvice, Published
  <2>4. CASE phase' \notin {"computed", "published"}
    BY <2>4 DEF AdvicePublished, PredictionsFollow, Published
  <2>5. \/ Fetch \/ Smooth \/ Measure \/ Promote \/ Derive \/ ApplySituations \/ PhysicsFails
        => phase' \notin {"computed", "published"}
    BY DEF Fetch, Smooth, Measure, Promote, Derive, ApplySituations, PhysicsFails
  <2> QED BY <2>1, <2>2, <2>3, <2>4, <2>5, Zenon DEF Next
<1> QED BY <1>1, <1>2, PTL DEF Spec

(* The operators' two interfaces agree, whatever was predicted: what one   *)
(* of them computes anew when there is no advice is nothing, since the     *)
(* surface it leaves out changes what a sign shows and never which signs   *)
(* there are (operator_api.py:405-415, 446-456).                           *)
THEOREM InterfacesAgree == Spec => []FeedsAgree
<1>1. AdvicePublished => FeedsAgree
  <2> SUFFICES ASSUME AdvicePublished, Published
               PROVE  get_vms_recommendations(TickResult) = export_datex2(TickResult).speeds
    BY Zenon DEF FeedsAgree
  <2> DEFINE anew == {QueueAdvice(c, "dry") : c \in DOMAIN predictions}
  <2>1. /\ TickResult.advice = advice /\ TickResult.statuses = statuses
        /\ TickResult.predictions = predictions /\ TickResult.corrections = corrections
    BY DEF TickResult
  <2>2. export_datex2(TickResult).speeds = Marked(advice, statuses)
    <3>1. export_datex2(TickResult).speeds = Marked(TickResult.advice, TickResult.statuses)
      BY DEF export_datex2
    <3> QED BY <2>1, <3>1, Zenon
  <2>3. CASE advice # {} BY <2>1, <2>2, <2>3, Zenon DEF get_vms_recommendations
  <2>4. CASE advice = {}
    <3>1. get_vms_recommendations(TickResult) = Marked(UNION anew, statuses)
      BY <2>1, <2>4, Zenon DEF get_vms_recommendations, AlwaysAnew, QueueAdvice
    <3>2. \A c \in DOMAIN predictions : QueueAdvice(c, "dry") = {}
      <4> TAKE c \in DOMAIN predictions
      <4>1. QueueAdvice(c, weather.surface) = {}
        BY <2>4, Zenon DEF AdvicePublished
      <4>2. {x \in AdviceHorizons \X Gantries : Names(predictions[c], x[1], x[2])} = {}
        BY <4>1, Zenon DEF QueueAdvice, generate_recommendations
      <4> QED BY <4>2, Zenon DEF QueueAdvice, generate_recommendations
    <3>3. UNION anew = {} BY <3>2, Zenon
    <3> HIDE DEF anew
    <3>4. Marked({}, statuses) = {} BY Zenon DEF Marked
    <3> QED BY <2>2, <2>4, <3>1, <3>3, <3>4, Zenon
  <2> QED BY <2>3, <2>4
<1> QED BY <1>1, AdviceInvariance, PTL

\* A sign before a place at all, and then the last.
LEMMA LastSign ==
  ASSUME NEW tail, NEW o \in Gantries, Mile[o] <= tail - MinUpstream
  PROVE  LET g == find_upstream_vms(tail) IN
         /\ g \in Gantries /\ Mile[g] <= tail - MinUpstream
         /\ \A q \in Gantries : Mile[q] <= tail - MinUpstream => Mile[q] <= Mile[g]
<1> DEFINE before == {g \in Gantries : Mile[g] <= tail - MinUpstream}
           miles == {Mile[g] : g \in before}
<1>1. o \in before OBVIOUS
<1>2. miles \in SUBSET Nat /\ miles # {}
  BY <1>1, CorridorAssumption DEF CorridorAssumption
<1>3. IsFiniteSet(miles)
  <2>1. IsFiniteSet(before) BY FS_Subset, CorridorAssumption DEF CorridorAssumption
  <2> HIDE DEF before
  <2> QED BY <2>1, ImageIsFinite
<1>4. \E x \in miles : \A y \in miles : x >= y
  <2> HIDE DEF miles
  <2> QED BY <1>2, <1>3, GreatestExists
<1>5. \E g \in before : \A q \in before : Mile[q] <= Mile[g]
  <2>1. PICK x \in miles : \A y \in miles : x >= y BY <1>4
  <2>2. PICK g \in before : x = Mile[g] BY <2>1
  <2>3. \A q \in before : Mile[g] >= Mile[q] BY <2>1, <2>2
  <2>4. \A q \in before : Mile[q] \in Nat BY CorridorAssumption DEF CorridorAssumption
  <2> HIDE DEF before, miles
  <2>5. \A q \in before : Mile[q] <= Mile[g] BY <2>2, <2>3, <2>4
  <2> QED BY <2>2, <2>5
<1>6. find_upstream_vms(tail) = CHOOSE g \in before : \A q \in before : Mile[q] <= Mile[g]
  BY <1>1, Zenon DEF find_upstream_vms
<1> DEFINE g == find_upstream_vms(tail)
<1>7. g \in before /\ \A q \in before : Mile[q] <= Mile[g]
  <2> HIDE DEF g, before
  <2> QED BY <1>5, <1>6, Zenon DEF g
<1> QED BY <1>7

\* The sign of a horizon, at the first horizon that names it, is advised; and a sign is
\* advised at one horizon only.
LEMMA SignsOfPrediction ==
  ASSUME NEW p, NEW k, NEW w
  PROVE  LET mine == generate_recommendations(p, k, w)
             sign(h) == find_upstream_vms(predict_queue_tail_chainage(p, h)) IN
         /\ \A a \in mine : a.kind = "queue" /\ a.camera = p.camera /\ a.vms \in Gantries
         /\ \A a, b \in mine : a.vms = b.vms => a = b
         /\ \A h \in AdviceHorizons : sign(h) \in Gantries => \E a \in mine : a.vms = sign(h)
<1> DEFINE mine == generate_recommendations(p, k, w)
           sign(h) == find_upstream_vms(predict_queue_tail_chainage(p, h))
           first(h, g) == sign(h) = g /\ \A l \in AdviceHorizons : l < h => sign(l) # g
<1>1. AdviceHorizons \subseteq Nat BY CorridorAssumption DEF CorridorAssumption
<1>2. \A h, g : Names(p, h, g) <=> first(h, g) BY Zenon DEF Names
<1>3. \A h, g : /\ Advice(p, k, w, h, g).kind = "queue" /\ Advice(p, k, w, h, g).vms = g
                /\ Advice(p, k, w, h, g).camera = p.camera
  BY DEF Advice
<1>4. ASSUME NEW a \in mine
      PROVE  \E h \in AdviceHorizons, g \in Gantries : first(h, g) /\ a = Advice(p, k, w, h, g)
  <2>1. PICK x \in AdviceHorizons \X Gantries :
          Names(p, x[1], x[2]) /\ a = Advice(p, k, w, x[1], x[2])
    BY <1>4, Zenon DEF generate_recommendations
  <2>2. x[1] \in AdviceHorizons /\ x[2] \in Gantries BY <2>1
  <2> QED BY <1>2, <2>1, <2>2, Zenon
<1>5. ASSUME NEW h \in AdviceHorizons, NEW g \in Gantries, first(h, g)
      PROVE  Advice(p, k, w, h, g) \in mine
  <2> DEFINE x == <<h, g>>
  <2>1. x \in AdviceHorizons \X Gantries /\ x[1] = h /\ x[2] = g OBVIOUS
  <2>2. Names(p, x[1], x[2]) BY <1>2, <1>5, <2>1, Zenon
  <2>3. Advice(p, k, w, x[1], x[2]) = Advice(p, k, w, h, g) BY <2>1, Zenon
  <2> HIDE DEF x
  <2> QED BY <2>1, <2>2, <2>3, Zenon DEF generate_recommendations
<1> HIDE DEF mine, sign
<1>6. \A a \in mine : a.kind = "queue" /\ a.camera = p.camera /\ a.vms \in Gantries
  <2> TAKE a \in mine
  <2>1. PICK h \in AdviceHorizons, g \in Gantries : a = Advice(p, k, w, h, g) BY <1>4, Zenon
  <2> QED BY <1>3, <2>1, Zenon
<1>7. \A a, b \in mine : a.vms = b.vms => a = b
  <2> SUFFICES ASSUME NEW a \in mine, NEW b \in mine, a.vms = b.vms PROVE a = b OBVIOUS
  <2>1. PICK h \in AdviceHorizons, g \in Gantries : first(h, g) /\ a = Advice(p, k, w, h, g)
    BY <1>4, Zenon
  <2>2. PICK l \in AdviceHorizons, o \in Gantries : first(l, o) /\ b = Advice(p, k, w, l, o)
    BY <1>4, Zenon
  <2>3. g = o
    <3>1. a.vms = g /\ b.vms = o BY <1>3, <2>1, <2>2, Zenon
    <3> QED BY <3>1, Zenon
  <2>4. ~(l < h) /\ ~(h < l) BY <2>1, <2>2, <2>3, Zenon
  <2>5. h = l
    <3>1. h \in Nat /\ l \in Nat BY <1>1
    <3> QED BY <2>4, <3>1
  <2> QED BY <2>1, <2>2, <2>3, <2>5, Zenon
<1>8. \A h \in AdviceHorizons : sign(h) \in Gantries => \E a \in mine : a.vms = sign(h)
  <2> SUFFICES ASSUME NEW h \in AdviceHorizons, sign(h) \in Gantries
               PROVE  \E a \in mine : a.vms = sign(h)
    OBVIOUS
  <2> DEFINE same == {l \in AdviceHorizons : sign(l) = sign(h)}
  <2>1. h \in same /\ same \subseteq Nat BY <1>1
  <2>2. PICK l \in same : \A m \in same : l <= m
    <3> HIDE DEF same
    <3> QED BY <2>1, LeastExists
  <2>3. first(l, sign(h))
    <3>1. sign(l) = sign(h) /\ l \in Nat BY <2>1, <2>2
    <3>2. ASSUME NEW m \in AdviceHorizons, m < l PROVE sign(m) # sign(h)
      <4>1. m \in Nat BY <1>1
      <4>2. m \notin same BY <2>2, <3>1, <3>2, <4>1
      <4> QED BY <4>2
    <3> QED BY <3>1, <3>2
  <2> QED BY <1>3, <1>5, <2>2, <2>3, Zenon
<1> QED BY <1>6, <1>7, <1>8, Zenon DEF mine, sign

\* Elements that differ in a name are as many as their names.
LEMMA AsManyNames ==
  ASSUME NEW S, IsFiniteSet({a.vms : a \in S}), \A a, b \in S : a.vms = b.vms => a = b
  PROVE  Cardinality({a.vms : a \in S}) = Cardinality(S)
<1> DEFINE T == {a.vms : a \in S}  name == [a \in S |-> a.vms]
<1>1. name \in Injection(S, T) /\ name \in Surjection(S, T) BY DEF Injection, IsInjective, Surjection
<1> HIDE DEF name
<1>2. Cardinality(S) = Cardinality(T) BY <1>1, FS_Injection
<1> QED BY <1>2

(* Every forecast tail is warned of: of each prediction and each horizon   *)
(* the last sign far enough ahead of the tail is among the advice, and no  *)
(* sign is advised twice for one queue, for all corridors, gantries and    *)
(* horizons (vms_orchestrator.py:208-268).                                 *)
THEOREM TailsAreCovered == Spec => []EveryTailIsCovered
<1>1. AdvicePublished /\ PredictionsFollow => EveryTailIsCovered
  <2> SUFFICES ASSUME AdvicePublished, PredictionsFollow, Published, NEW c \in DOMAIN predictions
               PROVE  LET mine == {a \in advice : a.kind = "queue" /\ a.camera = c}
                          far(h) == predictions[c].origin - predictions[c].lengths[h] - MinUpstream
                      IN /\ Cardinality({a.vms : a \in mine}) = Cardinality(mine)
                         /\ \A h \in AdviceHorizons :
                              (\E g \in Gantries : Mile[g] <= far(h)) =>
                                \E a \in mine :
                                  /\ Mile[a.vms] <= far(h)
                                  /\ \A g \in Gantries : Mile[g] <= far(h) => Mile[g] <= Mile[a.vms]
    BY Zenon DEF EveryTailIsCovered
  <2> DEFINE mine == {a \in advice : a.kind = "queue" /\ a.camera = c}
             p == predictions[c]
             tail(h) == predict_queue_tail_chainage(p, h)
             far(h) == p.origin - p.lengths[h] - MinUpstream
             queue(d) == QueueAdvice(d, weather.surface)
             sensor == generate_sensor_recommendations(detect_sensor_anomalies(sensors))
  <2>1. advice = (UNION {queue(d) : d \in DOMAIN predictions}) \cup sensor
    BY Zenon DEF AdvicePublished
  <2>2. \A d \in DOMAIN predictions : predictions[d].camera = d
    <3> TAKE d \in DOMAIN predictions
    <3>1. predictions[d] = _evaluate_bottleneck_piecewise(d, states[d], road)
      BY Zenon DEF PredictionsFollow, Published, compute
    <3>2. _evaluate_bottleneck_piecewise(d, states[d], road).camera = d
      BY DEF _evaluate_bottleneck_piecewise
    <3> QED BY <3>1, <3>2, Zenon
  <2>3. \A a \in sensor : a.kind = "sensor" BY DEF generate_sensor_recommendations
  <2>4. \A d \in DOMAIN predictions : \A a \in queue(d) : a.kind = "queue" /\ a.camera = d
    <3> TAKE d \in DOMAIN predictions
    <3>1. queue(d) = generate_recommendations(predictions[d], corrections[d], weather.surface)
      BY Zenon DEF QueueAdvice
    <3> HIDE DEF queue
    <3>2. \A a \in generate_recommendations(predictions[d], corrections[d], weather.surface) :
            a.kind = "queue" /\ a.camera = predictions[d].camera
      BY SignsOfPrediction
    <3> QED BY <2>2, <3>1, <3>2, Zenon
  <2>5. mine = queue(c)
    <3> HIDE DEF queue, sensor, p
    <3>1. \A a \in mine : a \in queue(c)
      <4> TAKE a \in mine
      <4>1. a \in advice /\ a.kind = "queue" /\ a.camera = c OBVIOUS
      <4>2. a \notin sensor BY <2>3, <4>1
      <4>3. PICK d \in DOMAIN predictions : a \in queue(d) BY <2>1, <4>1, <4>2, Zenon
      <4> QED BY <2>4, <4>1, <4>3, Zenon
    <3>2. \A a \in queue(c) : a \in mine BY <2>1, <2>4, Zenon
    <3> HIDE DEF mine
    <3> QED BY <3>1, <3>2, Zenon
  <2>6. mine = generate_recommendations(p, corrections[c], weather.surface)
    BY <2>5, Zenon DEF QueueAdvice
  <2> HIDE DEF mine, p, queue, sensor
  <2>7. /\ \A a \in mine : a.vms \in Gantries
        /\ \A a, b \in mine : a.vms = b.vms => a = b
        /\ \A h \in AdviceHorizons : find_upstream_vms(tail(h)) \in Gantries =>
             \E a \in mine : a.vms = find_upstream_vms(tail(h))
    <3> DEFINE all == generate_recommendations(p, corrections[c], weather.surface)
    <3>1. /\ \A a \in all : a.vms \in Gantries
          /\ \A a, b \in all : a.vms = b.vms => a = b
          /\ \A h \in AdviceHorizons :
               find_upstream_vms(predict_queue_tail_chainage(p, h)) \in Gantries =>
               \E a \in all : a.vms = find_upstream_vms(predict_queue_tail_chainage(p, h))
      BY SignsOfPrediction
    <3> HIDE DEF all
    <3>2. mine = all BY <2>6 DEF all
    <3> QED BY <3>1, <3>2, Zenon
  <2>8. Cardinality({a.vms : a \in mine}) = Cardinality(mine)
    <3> DEFINE T == {a.vms : a \in mine}
    <3>1. T \subseteq Gantries BY <2>7, Zenon
    <3>2. IsFiniteSet(T)
      <4> HIDE DEF T
      <4> QED BY <3>1, FS_Subset, CorridorAssumption DEF CorridorAssumption
    <3> QED BY <2>7, <3>2, AsManyNames, Zenon
  <2>9. ASSUME NEW h \in AdviceHorizons, NEW o \in Gantries, Mile[o] <= far(h)
        PROVE  \E a \in mine :
                 /\ Mile[a.vms] <= far(h)
                 /\ \A g \in Gantries : Mile[g] <= far(h) => Mile[g] <= Mile[a.vms]
    <3>1. tail(h) - MinUpstream = far(h) BY Zenon DEF predict_queue_tail_chainage
    <3> DEFINE g == find_upstream_vms(tail(h))
    <3> HIDE DEF tail, far
    <3>2. Mile[o] <= tail(h) - MinUpstream BY <2>9, <3>1, Zenon
    <3>3. /\ g \in Gantries /\ Mile[g] <= tail(h) - MinUpstream
          /\ \A q \in Gantries : Mile[q] <= tail(h) - MinUpstream => Mile[q] <= Mile[g]
      BY <3>2, LastSign, Zenon
    <3>4. PICK a \in mine : a.vms = g BY <2>7, <3>3, Zenon
    <3> QED BY <3>1, <3>3, <3>4, Zenon
  <2> QED BY <2>8, <2>9, Zenon DEF mine, p
<1> QED BY <1>1, AdviceInvariance, PTL

(***************************************************************************)
(* Where an incident comes from.                                           *)
(***************************************************************************)
\* What the tick itself may have seen or remembers of a camera.
Caused(c) ==
  \/ c \in Watched /\ average[c] # None /\ average[c] > road.critical
  \/ c \in stopped
  \/ c \in Watched /\ WideSeen(c, pictures[c])

Struck(c) == \E i \in DOMAIN deviations :
               deviations[i].place # None /\ Nearest(deviations[i].place) = c

\* Until the states are derived, they are those of the pictures, ...
StatesAreSeen ==
  phase \in {"fetched", "smoothed", "measured", "promoted"} =>
    \A c \in DOMAIN states :
      /\ c \in Watched
      /\ c \notin stopped => Seen(c, states[c], pictures[c])

\* ... where, once smoothed, the density is the average of the camera, ...
DensityIsAverage ==
  phase \in {"smoothed", "measured", "promoted"} =>
    \A c \in DOMAIN states : c \notin stopped => average[c] = states[c].density

\* ... and no vehicle has been found stopped before the stations are read.
NoneStopped == phase \in {"fetched", "smoothed", "measured"} => stopped = {}

AnomaliesCaused ==
  /\ phase = "derived" => \A c \in DOMAIN states : states[c].anomaly => Caused(c)
  /\ phase \in {"fused", "computed", "published"} =>
       \A c \in DOMAIN states : states[c].anomaly => Caused(c) \/ Struck(c)

CauseInv == StatesAreSeen /\ DensityIsAverage /\ NoneStopped /\ AnomaliesCaused

LEMMA FetchCause == Fetch => CauseInv'
<1> SUFFICES ASSUME Fetch PROVE CauseInv' OBVIOUS
<1>1. phase' = "fetched" /\ stopped' = {} BY Zenon DEF Fetch
<1>2. PICK shown : /\ pictures' = shown
                   /\ \A c \in Watched : shown[c] \in Pictures[c] \cup {Failed}
                   /\ states' = [c \in {d \in Watched : shown[d] # Failed} |->
                                   _process_camera(c, shown[c])]
  BY Zenon DEF Fetch
<1>3. \A c \in DOMAIN states' : c \in Watched /\ shown[c] \in Pictures[c] /\ shown[c] # Failed
  BY <1>2, Zenon
<1>4. \A c \in DOMAIN states' : Seen(c, states'[c], pictures'[c])
  BY <1>2, <1>3, SeenState, Zenon
<1>5. StatesAreSeen' BY <1>3, <1>4, Zenon DEF StatesAreSeen
<1> QED BY <1>1, <1>5 DEF CauseInv, DensityIsAverage, NoneStopped, AnomaliesCaused

LEMMA SmoothCause == IInv /\ CauseInv /\ Smooth => CauseInv'
<1> SUFFICES ASSUME IInv, CauseInv, Smooth PROVE CauseInv' OBVIOUS
<1>1. /\ phase = "fetched" /\ phase' = "smoothed" /\ UNCHANGED inputs
      /\ average' = [c \in Watched |->
                       IF c \in DOMAIN states THEN Smoothed(c, states[c].density) ELSE average[c]]
      /\ states' = [c \in DOMAIN states |->
                      [states[c] EXCEPT !.density = Smoothed(c, states[c].density)]]
  BY Zenon DEF Smooth
<1>2. UNCHANGED <<pictures, stopped>> BY <1>1 DEF inputs
<1>3. stopped = {} /\ \A c \in DOMAIN states : c \in Watched /\ Seen(c, states[c], pictures[c])
  BY <1>1 DEF CauseInv, NoneStopped, StatesAreSeen
<1>4. DOMAIN states' = DOMAIN states BY <1>1, Zenon
<1>5. ASSUME NEW c \in DOMAIN states
      PROVE  Seen(c, states'[c], pictures'[c]) /\ average'[c] = states'[c].density
  <2> DEFINE density == Smoothed(c, states[c].density)
  <2>1. states'[c] = [states[c] EXCEPT !.density = density] /\ average'[c] = density
    BY <1>1, <1>3, <1>5, Zenon
  <2>2. Typed(states[c]) BY <1>5, AreTyped, Zenon DEF IInv
  <2> HIDE DEF density
  <2>3. /\ states'[c].anomaly = states[c].anomaly /\ states'[c].reason = states[c].reason
        /\ states'[c].count = states[c].count /\ states'[c].density = density
    BY <2>1, <2>2 DEF Typed, State
  <2> QED BY <1>2, <1>3, <2>1, <2>3, Zenon DEF Seen
<1>6. StatesAreSeen' /\ DensityIsAverage'
  BY <1>3, <1>4, <1>5, Zenon DEF StatesAreSeen, DensityIsAverage
<1> QED BY <1>1, <1>2, <1>3, <1>6 DEF CauseInv, NoneStopped, AnomaliesCaused

LEMMA PromoteCause == IInv /\ CauseInv /\ Promote => CauseInv'
<1> SUFFICES ASSUME IInv, CauseInv, Promote PROVE CauseInv' OBVIOUS
<1>1. /\ phase = "measured" /\ phase' = "promoted"
      /\ states' = _apply_stopped_vehicle_detection(states, stopped', road.critical)
      /\ UNCHANGED <<average, pictures>>
  BY Zenon DEF Promote
<1>2. DOMAIN states' = DOMAIN states BY <1>1, Zenon DEF _apply_stopped_vehicle_detection
<1>3. \A c \in DOMAIN states : c \notin stopped' => states'[c] = states[c]
  BY <1>1, Zenon DEF _apply_stopped_vehicle_detection
<1>4. \A c \in DOMAIN states :
        c \in Watched /\ Seen(c, states[c], pictures[c]) /\ average[c] = states[c].density
  BY <1>1 DEF CauseInv, StatesAreSeen, DensityIsAverage, NoneStopped
<1>5. StatesAreSeen' /\ DensityIsAverage'
  BY <1>1, <1>2, <1>3, <1>4, Zenon DEF StatesAreSeen, DensityIsAverage
<1> QED BY <1>1, <1>5 DEF CauseInv, NoneStopped, AnomaliesCaused

\* What makes a state an anomaly when it is derived.
LEMMA DerivedAnomaly ==
  ASSUME NEW s, Typed(s), NEW speed \in Nat, NEW critical \in Nat, NEW factor \in Nat
  PROVE  LET t == _derive_capacity_from_fused_state(s, speed, critical, factor) IN
         t.anomaly => \/ s.density > critical
                      \/ s.anomaly /\ s.reason # <<"density">>
                      \/ s.anomaly /\ s.count = 0
<1> DEFINE reason  == DerivedReason(s, critical)
           anomaly == reason # <<>> /\ (s.anomaly \/ s.density > critical)
           t == _derive_capacity_from_fused_state(s, speed, critical, factor)
<1>1. PICK capacity :
        t = IF Unobserved(s) THEN s
            ELSE [s EXCEPT !.reason = reason, !.anomaly = anomaly, !.capacity = capacity]
  BY Zenon DEF _derive_capacity_from_fused_state
<1>2. reason # <<>> /\ ~(s.density > critical) => s.reason # <<"density">>
  BY Zenon DEF DerivedReason
<1> HIDE DEF reason, t
<1>3. CASE Unobserved(s) BY <1>1, <1>3 DEF Unobserved, t
<1>4. CASE ~Unobserved(s)
  <2>1. t = [s EXCEPT !.reason = reason, !.anomaly = anomaly, !.capacity = capacity]
    BY <1>1, <1>4, Zenon
  <2>2. t.anomaly = anomaly BY <2>1 DEF Typed, State
  <2> QED BY <1>2, <2>2, Zenon DEF t
<1> QED BY <1>3, <1>4

LEMMA DeriveCause == IInv /\ CauseInv /\ Derive => CauseInv'
<1> SUFFICES ASSUME IInv, CauseInv, Derive PROVE CauseInv' OBVIOUS
<1>1. /\ phase = "promoted" /\ phase' = "derived"
      /\ states' = _apply_fused_capacity_derivation(
                     states, road.nodes, [speed |-> road.speed], road.free, road.critical,
                     weather.capacity)
      /\ UNCHANGED <<average, inputs, road>>
  BY Zenon DEF Derive
<1>2. UNCHANGED <<pictures, stopped, average, road>> BY <1>1 DEF inputs
<1>3. /\ road.critical \in Nat /\ weather.capacity \in Nat
      /\ \A c : FusedSpeed(c, road.nodes, [speed |-> road.speed], road.free) \in Nat
  BY DEF IInv, ReadingsTyped, FusedSpeed
<1>4. DOMAIN states' = DOMAIN states BY <1>1, Zenon DEF _apply_fused_capacity_derivation
<1>5. ASSUME NEW c \in DOMAIN states, states'[c].anomaly PROVE Caused(c)'
  <2> DEFINE s == states[c]
  <2>1. Typed(s) BY <1>5, AreTyped, Zenon DEF IInv
  <2>2. states'[c] = _derive_capacity_from_fused_state(
                       s, FusedSpeed(c, road.nodes, [speed |-> road.speed], road.free),
                       road.critical, weather.capacity)
    BY <1>1, <1>5, Zenon DEF _apply_fused_capacity_derivation
  <2> HIDE DEF s
  <2>3. \/ s.density > road.critical
        \/ s.anomaly /\ s.reason # <<"density">>
        \/ s.anomaly /\ s.count = 0
    BY <1>3, <1>5, <2>1, <2>2, DerivedAnomaly, Zenon
  <2>4. CASE c \in stopped BY <1>2, <2>4, Zenon DEF Caused
  <2>5. CASE c \notin stopped
    <3>1. c \in Watched /\ Seen(c, s, pictures[c]) /\ average[c] = s.density
      BY <1>1, <1>5, <2>5 DEF CauseInv, StatesAreSeen, DensityIsAverage, s
    <3>2. s.density \in Nat BY <2>1 DEF Typed, State
    <3>3. average[c] # None BY <3>1, <3>2, CorridorAssumption DEF CorridorAssumption
    <3>4. CASE s.density > road.critical BY <1>2, <3>1, <3>3, <3>4, Zenon DEF Caused
    <3>5. CASE ~(s.density > road.critical)
      <4>1. WideSeen(c, pictures[c]) BY <2>3, <3>1, <3>5, Zenon DEF Seen
      <4> QED BY <1>2, <3>1, <4>1, Zenon DEF Caused
    <3> QED BY <3>4, <3>5
  <2> QED BY <2>4, <2>5
<1>6. AnomaliesCaused' BY <1>1, <1>4, <1>5 DEF AnomaliesCaused
<1> QED BY <1>1, <1>6 DEF CauseInv, StatesAreSeen, DensityIsAverage, NoneStopped

LEMMA SituationsCause == CauseInv /\ ApplySituations => CauseInv'
<1> SUFFICES ASSUME CauseInv, ApplySituations PROVE CauseInv' OBVIOUS
<1>1. /\ phase = "derived" /\ phase' = "fused"
      /\ states' = apply_situation_capacity_impacts(states, deviations', road.critical)
      /\ UNCHANGED <<average, pictures, stopped, road>>
  BY Zenon DEF ApplySituations
<1> DEFINE hit == {c \in Cameras : At(c, deviations') # {}}
<1>2. /\ DOMAIN states' = DOMAIN states \cup hit
      /\ \A c \in DOMAIN states : c \notin hit => states'[c] = states[c]
  BY <1>1, Zenon DEF apply_situation_capacity_impacts
<1>3. \A c \in hit : Struck(c)'
  <2> TAKE c \in hit
  <2>1. PICK i : i \in At(c, deviations') OBVIOUS
  <2> QED BY <2>1, Zenon DEF At, Struck
<1> HIDE DEF hit
<1>4. \A c \in DOMAIN states : states[c].anomaly => Caused(c)
  BY <1>1 DEF CauseInv, AnomaliesCaused
<1>5. \A c : Caused(c) => Caused(c)' BY <1>1, Zenon DEF Caused
<1>6. \A c \in DOMAIN states' : states'[c].anomaly => Caused(c)' \/ Struck(c)'
  BY <1>2, <1>3, <1>4, <1>5, Zenon
<1>7. AnomaliesCaused' BY <1>1, <1>6 DEF AnomaliesCaused
<1> QED BY <1>1, <1>7 DEF CauseInv, StatesAreSeen, DensityIsAverage, NoneStopped

LEMMA CauseInvariance == Spec => []CauseInv
<1>1. Init => CauseInv
  BY DEF Init, CauseInv, StatesAreSeen, DensityIsAverage, NoneStopped, AnomaliesCaused
<1>2. IInv /\ CauseInv /\ [Next]_vars => CauseInv'
  <2> SUFFICES ASSUME IInv, CauseInv, [Next]_vars PROVE CauseInv' OBVIOUS
  <2>1. ASSUME UNCHANGED <<average, pictures, stopped, states, deviations>>,
               phase' = phase \/ <<phase, phase'>> \in {<<"smoothed", "measured">>,
                 <<"fused", "computed">>, <<"computed", "published">>, <<"fused", "failed">>},
               phase \in {"derived", "fused", "computed", "published"} => road' = road
        PROVE  CauseInv'
    <3>1. phase \in {"derived", "fused", "computed", "published"} => \A c : Caused(c)' <=> Caused(c)
      BY <2>1, Zenon DEF Caused
    <3>2. \A c : Struck(c)' <=> Struck(c) BY <2>1, Zenon DEF Struck
    <3>3. AnomaliesCaused'
      <4>1. phase' = "derived" => phase = "derived" BY <2>1
      <4>2. phase' \in {"fused", "computed", "published"} =>
              phase \in {"fused", "computed", "published"}
        BY <2>1
      <4> QED BY <2>1, <3>1, <3>2, <4>1, <4>2 DEF CauseInv, AnomaliesCaused
    <3>4. StatesAreSeen' /\ DensityIsAverage' /\ NoneStopped'
      BY <2>1 DEF CauseInv, StatesAreSeen, DensityIsAverage, NoneStopped
    <3> QED BY <3>3, <3>4 DEF CauseInv
  <2>2. CASE Measure
    <3>1. /\ phase = "smoothed" /\ phase' = "measured"
          /\ UNCHANGED <<average, pictures, stopped, states, deviations>>
      BY <2>2, Zenon DEF Measure
    <3> QED BY <2>1, <3>1
  <2>3. CASE Physics \/ PhysicsFails \/ Publish \/ UNCHANGED vars
    <3>1. UNCHANGED <<average, pictures, stopped, states, deviations, road>>
      BY <2>3 DEF Physics, PhysicsFails, Publish, vars, inputs, results
    <3>2. phase' = phase \/ <<phase, phase'>> \in {<<"fused", "computed">>,
            <<"computed", "published">>, <<"fused", "failed">>}
      BY <2>3 DEF Physics, PhysicsFails, Publish, vars
    <3> QED BY <2>1, <3>1, <3>2
  <2> QED BY <2>2, <2>3, FetchCause, SmoothCause, PromoteCause, DeriveCause, SituationsCause, Zenon
          DEF Next
<1> QED BY <1>1, <1>2, Invariance, PTL DEF Spec

(* No incident without a cause that can be pointed at: through smoothing,  *)
(* promotion, derivation and fusion an anomaly is never inherited from a   *)
(* state that has been corrected since, for all pictures, readings and     *)
(* memories (vision_engine.py:527-579, fusion_pipeline.py:484-657).        *)
THEOREM IncidentsAreCaused == Spec => []IncidentsHaveCauses
<1>1. CauseInv => IncidentsHaveCauses
  <2> SUFFICES ASSUME CauseInv, Published, NEW c \in DOMAIN incidents
               PROVE  \/ c \in Watched /\ average[c] # None /\ average[c] > road.critical
                      \/ c \in stopped
                      \/ \E i \in DOMAIN deviations :
                            deviations[i].place # None /\ Nearest(deviations[i].place) = c
                      \/ /\ c \in Watched /\ pictures[c] \notin {Failed, Black}
                         /\ \E i \in DOMAIN pictures[c] :
                              /\ Wide(pictures[c][i]) # {}
                              /\ Rois[c] = <<>> \/ Rois[c][i].road # "southbound"
    BY Zenon DEF IncidentsHaveCauses
  <2>1. c \in DOMAIN states /\ states[c].anomaly
    BY Zenon DEF incidents, build_incident_reports
  <2>2. Caused(c) \/ Struck(c) BY <2>1 DEF CauseInv, AnomaliesCaused, Published
  <2> QED BY <2>2, Zenon DEF Caused, Struck, WideSeen
<1> QED BY <1>1, CauseInvariance, PTL

(***************************************************************************)
(* The queue: what lies upstream, and how fast it is reached.              *)
(***************************************************************************)
\* As many nodes as there are places: each place has one.
LEMMA RanksAreMet ==
  ASSUME NEW S, IsFiniteSet(S), NEW f \in [S -> 1..Cardinality(S)],
         \A x, y \in S : f[x] = f[y] => x = y
  PROVE  \A i \in 1..Cardinality(S) : \E x \in S : f[x] = i
<1> DEFINE n == Cardinality(S)
<1>1. n \in Nat BY FS_CardinalityType
<1>2. IsFiniteSet(1..n) /\ Cardinality(1..n) = n BY <1>1, FS_Interval
<1>3. f \in Injection(S, 1..n) BY DEF Injection, IsInjective
<1> HIDE DEF n
<1>4. Cardinality(S) = Cardinality(1..n) BY <1>2 DEF n
<1>5. f \in Surjection(S, 1..n) BY <1>2, <1>3, <1>4, FS_Injection
<1> QED BY <1>5 DEF Surjection, n

\* Upstream of a camera there are others, each further away than the one before.
LEMMA UpstreamInOrder ==
  ASSUME NEW c \in Cameras
  PROVE  LET up == Upstream(c) IN
         /\ Len(up) \in Nat /\ DOMAIN up = 1..Len(up)
         /\ \A i \in DOMAIN up : up[i] \in Cameras /\ Chainage[up[i]] < Chainage[c]
         /\ \A i, j \in DOMAIN up : i < j => Chainage[up[j]] < Chainage[up[i]]
<1> DEFINE beyond == {d \in Cameras : Chainage[d] < Chainage[c]}
           nodes  == {d \in beyond : \A e \in beyond :
                        Chainage[e] = Chainage[d] => Rank[e] <= Rank[d]}
           upto(d) == {e \in nodes : Chainage[e] >= Chainage[d]}
           n  == Cardinality(nodes)
           up == Upstream(c)
           rank == [d \in nodes |-> Cardinality(upto(d))]
<1>1. /\ IsFiniteSet(Cameras)
      /\ \A d \in Cameras : Chainage[d] \in Nat /\ Rank[d] \in Nat
      /\ \A d, e \in Cameras : Rank[d] = Rank[e] => d = e
  BY CorridorAssumption DEF CorridorAssumption
<1>2. nodes \subseteq Cameras /\ \A d \in nodes : Chainage[d] < Chainage[c] OBVIOUS
<1>3. \A d, e \in nodes : Chainage[d] = Chainage[e] => d = e
  <2> SUFFICES ASSUME NEW d \in nodes, NEW e \in nodes, Chainage[d] = Chainage[e] PROVE d = e
    OBVIOUS
  <2>1. Rank[d] <= Rank[e] /\ Rank[e] <= Rank[d] OBVIOUS
  <2>2. d \in Cameras /\ e \in Cameras OBVIOUS
  <2>3. Rank[d] = Rank[e] BY <1>1, <2>1, <2>2
  <2> QED BY <1>1, <2>2, <2>3
<1>4. up = [i \in 1..n |-> CHOOSE d \in nodes : Cardinality(upto(d)) = i]
  BY Zenon DEF Upstream
<1>5. IsFiniteSet(nodes) /\ n \in Nat BY <1>1, <1>2, FS_Subset, FS_CardinalityType
<1> HIDE DEF nodes, up
<1>6. \A d \in nodes : /\ IsFiniteSet(upto(d)) /\ upto(d) \subseteq nodes
                       /\ Cardinality(upto(d)) \in 1..n
  <2> TAKE d \in nodes
  <2>1. upto(d) \subseteq nodes /\ d \in upto(d)
    <3>1. Chainage[d] \in Nat BY <1>1, <1>2
    <3> QED BY <3>1
  <2> HIDE DEF upto, n
  <2>2. IsFiniteSet(upto(d)) /\ Cardinality(upto(d)) <= n BY <1>5, <2>1, FS_Subset DEF n
  <2>3. Cardinality(upto(d)) \in Nat /\ Cardinality(upto(d)) # 0
    BY <2>1, <2>2, FS_CardinalityType, FS_EmptySet
  <2> QED BY <1>5, <2>1, <2>2, <2>3
<1>7. ASSUME NEW d \in nodes, NEW e \in nodes, Cardinality(upto(d)) < Cardinality(upto(e))
      PROVE  Chainage[e] < Chainage[d]
  <2> SUFFICES ASSUME ~(Chainage[e] < Chainage[d]) PROVE FALSE OBVIOUS
  <2>1. \A x \in nodes : Chainage[x] \in Nat BY <1>1, <1>2
  <2>2. upto(e) \subseteq upto(d) BY <2>1
  <2> HIDE DEF upto
  <2>3. Cardinality(upto(e)) <= Cardinality(upto(d)) BY <1>6, <2>2, FS_Subset
  <2>4. Cardinality(upto(e)) \in Nat /\ Cardinality(upto(d)) \in Nat BY <1>6
  <2> QED BY <1>7, <2>3, <2>4
<1>8. \A d, e \in nodes : rank[d] = rank[e] => d = e
  <2> SUFFICES ASSUME NEW d \in nodes, NEW e \in nodes, rank[d] = rank[e] PROVE d = e
    OBVIOUS
  <2>1. \A x \in nodes : Chainage[x] \in Nat BY <1>1, <1>2
  <2>2. Cardinality(upto(d)) = Cardinality(upto(e)) OBVIOUS
  <2>3. ASSUME NEW x \in nodes, NEW y \in nodes, Chainage[x] < Chainage[y]
        PROVE  Cardinality(upto(x)) # Cardinality(upto(y))
    <3>1. upto(y) \subseteq upto(x) /\ x \in upto(x) /\ x \notin upto(y) BY <2>1, <2>3
    <3> HIDE DEF upto
    <3>2. IsFiniteSet(upto(x)) BY <1>6
    <3> QED BY <3>1, <3>2, FS_Subset
  <2>4. ~(Chainage[d] < Chainage[e]) /\ ~(Chainage[e] < Chainage[d])
    <3> HIDE DEF upto, rank
    <3> QED BY <2>2, <2>3
  <2>5. Chainage[d] = Chainage[e] BY <2>1, <2>4
  <2> QED BY <1>3, <2>5
<1>9. \A i \in 1..n : \E d \in nodes : Cardinality(upto(d)) = i
  <2>1. rank \in [nodes -> 1..n] BY <1>6
  <2>2. \A i \in 1..n : \E d \in nodes : rank[d] = i
    <3> HIDE DEF rank
    <3> QED BY <1>5, <1>8, <2>1, RanksAreMet
  <2> QED BY <2>2
<1>10. \A i \in 1..n : up[i] \in nodes /\ Cardinality(upto(up[i])) = i
  <2> TAKE i \in 1..n
  <2>1. up[i] = CHOOSE d \in nodes : Cardinality(upto(d)) = i BY <1>4
  <2> HIDE DEF upto
  <2> QED BY <1>9, <2>1
<1>11. Len(up) = n /\ DOMAIN up = 1..n
  <2> HIDE DEF upto, n
  <2> QED BY <1>4, <1>5
<1>12. \A i, j \in 1..n : i < j => Chainage[up[j]] < Chainage[up[i]]
  <2> HIDE DEF upto
  <2> QED BY <1>7, <1>10
<1> HIDE DEF upto, n
<1>13. \A i \in DOMAIN up : up[i] \in Cameras /\ Chainage[up[i]] < Chainage[c]
  BY <1>2, <1>10, <1>11
<1> QED BY <1>5, <1>11, <1>12, <1>13 DEF up

\* The traffic and the parameters a prediction is computed with.
RoadTyped(r) ==
  /\ r.critical \in Nat /\ r.free \in Nat \ {0}
  /\ r.speed \in Nat \cup {None} /\ r.inflow \in Nat \cup {None}
  /\ \A n \in DOMAIN r.nodes :
       r.nodes[n].speed \in Nat /\ r.nodes[n].inflow \in Nat \cup {None}

LEMMA LocalReadings ==
  ASSUME NEW r, RoadTyped(r), NEW c
  PROVE  _resolve_local_inflow(c, r) \in Nat \cup {None} /\ _resolve_local_speed(c, r) \in Nat
BY DEF RoadTyped, _resolve_local_inflow, _resolve_local_speed

LEMMA WaveIsNumber ==
  ASSUME NEW q \in Nat, NEW capacity \in Nat, NEW speed \in Nat, NEW lanes \in Nat,
         NEW free \in Nat
  PROVE  _lwr_wave_speed(q, capacity, speed, lanes, free) \in Nat
<1> DEFINE k == lanes * Jam * speed  d == k - q
<1>1. k \in Nat
  <2>1. Jam \in Nat BY CorridorAssumption DEF CorridorAssumption
  <2>2. lanes * Jam \in Nat BY <2>1, Products
  <2> QED BY <2>2, Products
<1>2. CASE Jammed(q, speed, lanes)
  <2>1. free * 50 \in Nat OBVIOUS
  <2> QED BY <1>2, <2>1, Zenon DEF _lwr_wave_speed
<1>3. CASE ~Jammed(q, speed, lanes) /\ q <= capacity
  <2>1. 0 \in Nat OBVIOUS
  <2> QED BY <1>3, <2>1, Zenon DEF _lwr_wave_speed
<1>4. CASE ~Jammed(q, speed, lanes) /\ ~(q <= capacity)
  <2>1. ~(k <= q) BY <1>4, Zenon DEF Jammed
  <2> HIDE DEF k
  <2>2. d \in Nat \ {0} /\ q - capacity \in Nat BY <1>1, <1>4, <2>1
  <2>3. 200 * (q - capacity) \in Nat BY <2>2
  <2>4. 200 * (q - capacity) * speed \in Nat BY <2>3, Products
  <2> DEFINE u == 200 * (q - capacity) * speed
  <2> HIDE DEF u, d
  <2>5. u \in Nat BY <2>4 DEF u
  <2>6. (u + d) \div (2 * d) \in Nat
    <3>1. u + d \in Nat /\ 2 * d \in Nat \ {0} BY <2>2, <2>5
    <3> QED BY <3>1, Products
  <2>7. _lwr_wave_speed(q, capacity, speed, lanes, free) = (u + d) \div (2 * d)
    BY <1>4, Zenon DEF _lwr_wave_speed, u, d, k
  <2> QED BY <2>6, <2>7, Zenon
<1> QED BY <1>2, <1>3, <1>4

\* The walk goes no further than there are cameras, and only where an inflow is known.
LEMMA WalkedIsKnown ==
  ASSUME NEW c \in Cameras, NEW s, NEW r
  PROVE  LET up == Upstream(c)  n == Reached(c, s, r) IN
         /\ n \in 0..Len(up)
         /\ \A i \in 1..n : _resolve_local_inflow(up[i], r) # None
<1> DEFINE up == Upstream(c)  n == Reached(c, s, r)
           grows(d) == LET q == _resolve_local_inflow(d, r) IN
                       q # None /\ Growing(q, s.capacity, _resolve_local_speed(d, r), s.lanes, r.free)
           walked == {i \in DOMAIN up : \A j \in 1..i : grows(up[j])}
<1>1. Len(up) \in Nat /\ DOMAIN up = 1..Len(up) BY UpstreamInOrder
<1>2. n = Cardinality(walked) BY Zenon DEF Reached
<1>3. \A i \in DOMAIN up : grows(up[i]) => _resolve_local_inflow(up[i], r) # None OBVIOUS
<1> HIDE DEF up, n, grows
<1>4. IsFiniteSet(DOMAIN up) /\ Cardinality(DOMAIN up) = Len(up)
  <2> DEFINE k == Len(up)
  <2>1. k \in Nat /\ DOMAIN up = 1..k BY <1>1
  <2> HIDE DEF k
  <2>2. IsFiniteSet(1..k) /\ Cardinality(1..k) = k BY <2>1, FS_Interval
  <2> QED BY <2>1, <2>2, Zenon DEF k
<1>5. n \in 0..Len(up)
  <2>1. walked \subseteq DOMAIN up OBVIOUS
  <2> HIDE DEF walked
  <2>2. IsFiniteSet(walked) /\ Cardinality(walked) <= Len(up) BY <1>4, <2>1, FS_Subset
  <2> QED BY <1>1, <1>2, <2>2, FS_CardinalityType
<1>6. ASSUME NEW i \in 1..n PROVE _resolve_local_inflow(up[i], r) # None
  <2>1. i \in DOMAIN up BY <1>1, <1>5
  <2>2. CASE i \in walked
    <3>1. i \in 1..i BY <1>5
    <3>2. grows(up[i]) BY <2>2, <3>1
    <3> QED BY <1>3, <2>1, <3>2
  <2>3. CASE i \notin walked
    <3>1. PICK j \in 1..i : ~grows(up[j]) BY <2>1, <2>3
    <3>2. walked \subseteq 1..(i - 1)
      <4> SUFFICES ASSUME NEW m \in walked PROVE m \in 1..(i - 1) OBVIOUS
      <4>1. m \in 1..Len(up) /\ \A l \in 1..m : grows(up[l]) BY <1>1
      <4>2. ~(j \in 1..m) BY <3>1, <4>1
      <4> QED BY <1>1, <1>5, <2>1, <4>1, <4>2
    <3>3. i - 1 \in Nat /\ i \in Int /\ n \in Int BY <1>1, <1>5
    <3>4. IsFiniteSet(1..(i - 1)) /\ Cardinality(1..(i - 1)) = i - 1 BY <3>3, FS_Interval
    <3> HIDE DEF walked
    <3>5. Cardinality(walked) <= i - 1 BY <3>2, <3>4, FS_Subset
    <3> QED BY <1>2, <3>3, <3>5
  <2> QED BY <2>2, <2>3
<1> QED BY <1>5, <1>6 DEF up, n

\* What the time and distance of a walk are computed from.
Walk(q) ==
  /\ Len(q) \in Nat /\ DOMAIN q = 1..Len(q)
  /\ \A i \in DOMAIN q : q[i].distance \in Nat \ {0} /\ q[i].wave \in Nat

LEMMA SegmentsWalk ==
  ASSUME NEW c \in Cameras, NEW s, Typed(s), NEW r, RoadTyped(r)
  PROVE  Walk(Segments(c, s, r))
<1> DEFINE up == Upstream(c)  n == Reached(c, s, r)
           from(i) == IF i = 1 THEN c ELSE up[i - 1]
           wave(i) == _lwr_wave_speed(_resolve_local_inflow(up[i], r), s.capacity,
                                      _resolve_local_speed(up[i], r), s.lanes, r.free)
           q == Segments(c, s, r)
<1>1. q = [i \in 1..n |-> [to |-> up[i], distance |-> Gap(from(i), up[i]), wave |-> wave(i),
                           local |-> Local(up[i], r)]]
  BY Zenon DEF Segments
<1>2. /\ Len(up) \in Nat /\ DOMAIN up = 1..Len(up)
      /\ \A i \in DOMAIN up : up[i] \in Cameras /\ Chainage[up[i]] < Chainage[c]
      /\ \A i, j \in DOMAIN up : i < j => Chainage[up[j]] < Chainage[up[i]]
  BY UpstreamInOrder
<1>3. n \in 0..Len(up) /\ \A i \in 1..n : _resolve_local_inflow(up[i], r) # None
  BY WalkedIsKnown
<1>4. s.capacity \in Nat /\ s.lanes \in Nat /\ r.free \in Nat
  BY LanesInView DEF Typed, State, RoadTyped
<1> HIDE DEF up, n, q
<1>5. ASSUME NEW i \in 1..n PROVE wave(i) \in Nat
  <2>1. /\ _resolve_local_inflow(up[i], r) \in Nat \cup {None}
        /\ _resolve_local_speed(up[i], r) \in Nat
    BY LocalReadings
  <2>2. _resolve_local_inflow(up[i], r) \in Nat BY <1>3, <2>1
  <2> QED BY <1>4, <2>1, <2>2, WaveIsNumber, Zenon
<1>6. ASSUME NEW i \in 1..n PROVE Gap(from(i), up[i]) \in Nat \ {0}
  <2>1. i \in DOMAIN up BY <1>2, <1>3
  <2>2. \A d \in Cameras : Chainage[d] \in Nat BY CorridorAssumption DEF CorridorAssumption
  <2>3. CASE i = 1 BY <1>2, <2>1, <2>2, <2>3 DEF Gap
  <2>4. CASE i # 1
    <3>1. i - 1 \in DOMAIN up /\ i - 1 < i BY <1>2, <1>3, <2>4
    <3>2. up[i] \in Cameras /\ up[i - 1] \in Cameras /\ Chainage[up[i]] < Chainage[up[i - 1]]
      BY <1>2, <2>1, <3>1
    <3> QED BY <2>2, <2>4, <3>2 DEF Gap
  <2> QED BY <2>3, <2>4
<1>7. Len(q) = n /\ DOMAIN q = 1..n /\ n \in Nat
  <2>1. n \in Nat BY <1>2, <1>3
  <2> HIDE DEF wave, from
  <2> QED BY <1>1, <2>1
<1>8. ASSUME NEW i \in 1..n PROVE q[i].distance \in Nat \ {0} /\ q[i].wave \in Nat
  <2> HIDE DEF wave, from
  <2>1. q[i] = [to |-> up[i], distance |-> Gap(from(i), up[i]), wave |-> wave(i),
                local |-> Local(up[i], r)]
    BY <1>1, Zenon
  <2>2. q[i].distance = Gap(from(i), up[i]) /\ q[i].wave = wave(i) BY <2>1
  <2> QED BY <1>5, <1>6, <2>2
<1> QED BY <1>7, <1>8 DEF Walk, q

\* A segment takes some time, and a wave of a hundredth of a km/h passes it.
LEMMA TransitTime ==
  ASSUME NEW x, x.distance \in Nat \ {0}, x.wave \in Nat \ {0}
  PROVE  Transit(x) \in Nat \ {0} /\ Transit(x) <= 36000 * x.distance
<1> DEFINE m == x.distance * 36000  w == x.wave
<1>1. m \in Nat \ {0} /\ w \in Nat \ {0} /\ m = 36000 * x.distance OBVIOUS
<1>2. Transit(x) = (m + w - 1) \div w BY DEF Transit
<1> HIDE DEF m, w
<1>3. (m + w - 1) \in Nat /\ (m + w - 1) \div w \in Nat
  <2>1. m + w - 1 \in Nat BY <1>1
  <2> QED BY <1>1, <2>1, Products
<1>4. (m + w - 1) \div w # 0
  <2>1. m + w - 1 \in Nat /\ m + w - 1 >= w BY <1>1
  <2> QED BY <1>1, <2>1, NotNothing
<1>5. (m + w - 1) \div w <= m
  <2>1. m + w - 1 <= w * m
    <3>1. PICK a \in Nat : m = a + 1
      <4>1. m - 1 \in Nat /\ m = (m - 1) + 1 BY <1>1
      <4> QED BY <4>1
    <3>2. PICK b \in Nat : w = b + 1
      <4>1. w - 1 \in Nat /\ w = (w - 1) + 1 BY <1>1
      <4> QED BY <4>1
    <3>3. w * m = b * a + a + b + 1 BY <3>1, <3>2
    <3>4. b * a \in Nat BY Products
    <3> QED BY <3>1, <3>2, <3>3, <3>4
  <2>2. m \in Nat BY <1>1
  <2> QED BY <1>1, <1>3, <2>1, <2>2, Share
<1> QED BY <1>1, <1>2, <1>3, <1>4, <1>5

\* The first n segments.
LEMMA TimeAndReach ==
  ASSUME NEW q, Walk(q), \A i \in DOMAIN q : q[i].wave # 0, NEW n \in 0..Len(q)
  PROVE  /\ Time(q, n) \in Nat /\ Reach(q, n) \in Nat
         /\ Time(q, n) <= 36000 * Reach(q, n)
         /\ n # 0 => Time(q, n) # 0
<1> DEFINE t == [i \in 1..n |-> Transit(q[i])]  d == [i \in 1..n |-> q[i].distance]
<1>1. n \in Nat /\ 1..n \subseteq DOMAIN q /\ IsFiniteSet(1..n)
  <2>1. n \in Nat /\ 1..n \subseteq DOMAIN q BY DEF Walk
  <2> QED BY <2>1, FS_Interval
<1>2. \A i \in 1..n : /\ q[i].distance \in Nat
                      /\ Transit(q[i]) \in Nat \ {0} /\ Transit(q[i]) <= 36000 * q[i].distance
  <2> TAKE i \in 1..n
  <2>1. q[i].distance \in Nat \ {0} /\ q[i].wave \in Nat \ {0} BY <1>1 DEF Walk
  <2> QED BY <2>1, TransitTime
<1>3. t \in [1..n -> Nat] /\ d \in [1..n -> Nat] BY <1>2
<1>4. Time(q, n) = Total(t) /\ Reach(q, n) = Total(d) BY Zenon DEF Time, Reach
<1>5. \A i \in 1..n : t[i] <= 36000 * d[i] /\ t[i] # 0 BY <1>2
<1> HIDE DEF t, d
<1>6. Total(t) \in Nat /\ Total(d) \in Nat /\ \A i \in 1..n : t[i] <= Total(t)
  BY <1>1, <1>3, TotalIsNumber
<1>7. Total(t) <= 36000 * Total(d)
  <2> DEFINE S == 1..n
  <2>1. t \in [S -> Nat] /\ d \in [S -> Nat] /\ IsFiniteSet(S) /\ \A i \in S : t[i] <= 36000 * d[i]
    BY <1>1, <1>3, <1>5
  <2>2. 36000 \in Nat OBVIOUS
  <2> HIDE DEF S
  <2> QED BY <2>1, <2>2, TotalsCompare
<1>8. n # 0 => Total(t) # 0
  <2> SUFFICES ASSUME n # 0 PROVE Total(t) # 0 OBVIOUS
  <2>1. 1 \in 1..n BY <1>1
  <2>2. t[1] \in Nat /\ t[1] # 0 /\ t[1] <= Total(t) BY <1>3, <1>5, <1>6, <2>1
  <2> QED BY <1>6, <2>2
<1> QED BY <1>4, <1>6, <1>7, <1>8

\* A drop that makes a bottleneck makes a wave.
LEMMA BottleneckWave ==
  ASSUME NEW q \in Nat, NEW capacity \in Nat, q - capacity >= MinDrop, NEW speed \in Nat,
         NEW lanes \in 1..MostLanes, NEW free \in Nat \ {0}
  PROVE  _lwr_wave_speed(q, capacity, speed, lanes, free) \in Nat \ {0}
<1> DEFINE k == lanes * Jam * speed  u == 200 * (q - capacity) * speed
<1>1. lanes \in Nat \ {0} /\ Jam \in Nat /\ MostLanes \in Nat /\ MinDrop \in Nat \ {0}
  BY LanesInView, CorridorAssumption, LanesAssumption DEF CorridorAssumption, LanesAssumption
<1>2. k \in Nat /\ u \in Nat /\ k <= u
  <2>1. q - capacity \in Nat BY <1>1
  <2>2. lanes * Jam \in Nat /\ 200 * (q - capacity) \in Nat BY <1>1, <2>1, Products
  <2>3. lanes * Jam <= 200 * (q - capacity)
    <3>1. lanes * Jam <= MostLanes * Jam BY <1>1, MoreOfIt
    <3>2. MostLanes * Jam <= 200 * MinDrop BY LanesAssumption DEF LanesAssumption
    <3>3. 200 * MinDrop <= 200 * (q - capacity) BY <1>1, <2>1
    <3>4. MostLanes * Jam \in Nat BY <1>1, Products
    <3> QED BY <1>1, <2>2, <3>1, <3>2, <3>3, <3>4
  <2>4. lanes * Jam * speed <= 200 * (q - capacity) * speed BY <2>2, <2>3, MoreOfIt
  <2> QED BY <2>2, <2>4, Products
<1>3. _lwr_wave_speed(q, capacity, speed, lanes, free) \in Nat BY <1>1, WaveIsNumber
<1>4. CASE Jammed(q, speed, lanes)
  <2>1. free * 50 # 0 OBVIOUS
  <2> QED BY <1>3, <1>4, <2>1, Zenon DEF _lwr_wave_speed
<1>5. CASE ~Jammed(q, speed, lanes)
  <2>1. ~(k <= q) BY <1>5, Zenon DEF Jammed
  <2>2. ~(q <= capacity) BY <1>1
  <2> DEFINE d == k - q
  <2>3. _lwr_wave_speed(q, capacity, speed, lanes, free) = (u + d) \div (2 * d)
    BY <1>5, <2>2, Zenon DEF _lwr_wave_speed
  <2> HIDE DEF k, u
  <2>4. u + d \in Nat /\ 2 * d \in Nat \ {0} /\ u + d >= 2 * d BY <1>2, <2>1
  <2>5. (u + d) \div (2 * d) # 0 BY <2>4, NotNothing
  <2> QED BY <1>3, <2>3, <2>5
<1> QED BY <1>4, <1>5

\* The lengths of a walk, whole segments and a part of one.
LEMMA LengthsOfWalk ==
  ASSUME NEW q, Walk(q), \A i \in DOMAIN q : q[i].wave # 0, Len(q) # 0, NEW h \in Horizons
  PROVE  _compute_lengths_piecewise(q)[h] \in Int
<1> DEFINE t == Minutes(h)
           passed == {m \in DOMAIN q : Time(q, m) <= t}
           n == Cardinality(passed)
           last == Least(n + 1, Len(q))
           next == q[last]
<1>1. t \in Nat
  <2>1. h \in Nat BY CorridorAssumption DEF CorridorAssumption
  <2> QED BY <2>1 DEF Minutes
<1>2. n \in 0..Len(q)
  <2>1. IsFiniteSet(DOMAIN q) /\ Cardinality(DOMAIN q) = Len(q)
    <3> DEFINE k == Len(q)
    <3>1. k \in Nat /\ DOMAIN q = 1..k BY DEF Walk
    <3> HIDE DEF k
    <3>2. IsFiniteSet(1..k) /\ Cardinality(1..k) = k BY <3>1, FS_Interval
    <3> QED BY <3>1, <3>2, Zenon DEF k
  <2>2. passed \subseteq DOMAIN q OBVIOUS
  <2> HIDE DEF passed
  <2>3. IsFiniteSet(passed) /\ n <= Len(q) BY <2>1, <2>2, FS_Subset
  <2>4. n \in Nat BY <2>3, FS_CardinalityType
  <2> QED BY <2>3, <2>4 DEF Walk
<1> HIDE DEF t, n
<1>3. last \in DOMAIN q BY <1>2 DEF Walk, Least
<1> HIDE DEF last
<1>4. next.wave \in Nat BY <1>3 DEF Walk
<1>5. Time(q, n) \in Nat /\ Reach(q, n) \in Nat BY <1>2, TimeAndReach
<1>6. _compute_lengths_piecewise(q)[h]
        = Reach(q, n) + ((t - Time(q, n)) * next.wave) \div 36000
  BY DEF _compute_lengths_piecewise, t, n, last
<1>7. (t - Time(q, n)) * next.wave \in Int
  <2> DEFINE x == t - Time(q, n)  y == next.wave
  <2>1. x \in Int /\ y \in Int BY <1>1, <1>4, <1>5
  <2> HIDE DEF x, y
  <2>2. x * y \in Int BY <2>1
  <2> QED BY <2>2 DEF x, y
<1> DEFINE z == (t - Time(q, n)) * next.wave
<1> HIDE DEF z
<1>8. z \div 36000 \in Int
  <2>1. z \in Int BY <1>7 DEF z
  <2> QED BY <2>1
<1> QED BY <1>5, <1>6, <1>8 DEF z

\* Every prediction grows, and where its tail is can be computed.
GoodPrediction(p) ==
  /\ p.origin \in Nat /\ p.growth \in Nat \ {0}
  /\ \A h \in Horizons : p.lengths[h] \in Int /\ p.lower[h] \in Int /\ p.upper[h] \in Int

LEMMA PredictionsGrow ==
  ASSUME NEW c \in Cameras, NEW s, Typed(s), NEW r, RoadTyped(r), IsBottleneck(c, s, r),
         \A i \in DOMAIN Segments(c, s, r) : Segments(c, s, r)[i].wave # 0
  PROVE  GoodPrediction(_evaluate_bottleneck_piecewise(c, s, r))
<1> DEFINE q == Segments(c, s, r)
           n == Len(q)
           inflow == _resolve_local_inflow(c, r)
           wave == _lwr_wave_speed(inflow, s.capacity, _resolve_local_speed(c, r), s.lanes, r.free)
           growth == IF n = 0 THEN wave ELSE (Reach(q, n) * 36000) \div Time(q, n)
           lengths == IF n = 0 THEN [h \in Horizons |-> (Minutes(h) * wave) \div 36000]
                      ELSE _compute_lengths_piecewise(q)
           p == _evaluate_bottleneck_piecewise(c, s, r)
           local == IF n = 0 THEN (IF Local(c, r) THEN 1 ELSE 0)
                    ELSE Cardinality({i \in 1..n : q[i].local})
           level == Level(PredictionConfidence(
                      s, _data_confidence(local, Greatest(n, 1) - local, Missing(c, s, r))))
<1>1. p = [camera |-> c, origin |-> Chainage[c], growth |-> growth, segments |-> q,
           lengths |-> lengths, level |-> level,
           lower |-> [h \in Horizons |-> (lengths[h] * (100 - Band(level))) \div 100],
           upper |-> [h \in Horizons |-> (lengths[h] * (100 + Band(level))) \div 100]]
  BY DEF _evaluate_bottleneck_piecewise
<1> HIDE DEF level, local
<1>2. Walk(q) BY SegmentsWalk
<1>3. n \in Nat BY <1>2 DEF Walk
<1>4. wave \in Nat \ {0}
  <2>1. inflow \in Nat /\ inflow - s.capacity >= MinDrop /\ _resolve_local_speed(c, r) \in Nat
    BY LocalReadings DEF IsBottleneck
  <2>2. s.capacity \in Nat /\ s.lanes \in 1..MostLanes /\ r.free \in Nat \ {0}
    BY DEF Typed, State, RoadTyped
  <2> HIDE DEF inflow
  <2> QED BY <2>1, <2>2, BottleneckWave
<1>5. Chainage[c] \in Nat BY CorridorAssumption DEF CorridorAssumption
<1> HIDE DEF q, n, wave, p
<1>6. growth \in Nat \ {0}
  <2>1. CASE n = 0 BY <1>4, <2>1
  <2>2. CASE n # 0
    <3> DEFINE d == Reach(q, n)  t == Time(q, n)
    <3>1. d \in Nat /\ t \in Nat \ {0} /\ t <= 36000 * d
      <4>1. n \in 0..Len(q) BY <1>3 DEF n
      <4> QED BY <1>2, <2>2, <4>1, TimeAndReach DEF q
    <3> HIDE DEF d, t
    <3>2. d * 36000 \in Nat /\ d * 36000 >= t BY <3>1
    <3>3. (d * 36000) \div t # 0 BY <3>1, <3>2, NotNothing
    <3>4. (d * 36000) \div t \in Nat BY <3>1, <3>2, Products
    <3> QED BY <2>2, <3>3, <3>4 DEF d, t
  <2> QED BY <2>1, <2>2
<1>7. ASSUME NEW h \in Horizons PROVE lengths[h] \in Int
  <2>1. CASE n = 0
    <3>1. Minutes(h) \in Nat
      <4>1. h \in Nat BY CorridorAssumption DEF CorridorAssumption
      <4> QED BY <4>1 DEF Minutes
    <3>2. (Minutes(h) * wave) \div 36000 \in Nat
      <4>1. Minutes(h) * wave \in Nat BY <1>4, <3>1, Products
      <4> QED BY <4>1, Products
    <3>3. lengths[h] = (Minutes(h) * wave) \div 36000 BY <2>1
    <3> QED BY <3>2, <3>3
  <2>2. CASE n # 0
    <3>0. lengths = _compute_lengths_piecewise(q) BY <2>2
    <3> HIDE DEF lengths
    <3>1. lengths[h] = _compute_lengths_piecewise(q)[h] BY <3>0, Zenon
    <3>2. _compute_lengths_piecewise(q)[h] \in Int
      BY <1>2, <2>2, LengthsOfWalk DEF q, n
    <3> QED BY <3>1, <3>2
  <2> QED BY <2>1, <2>2
<1> HIDE DEF growth, lengths
<1>8. Band(level) \in Nat
  <2>1. Band(level) = 15 \/ Band(level) = 30 \/ Band(level) = 50 BY DEF Band
  <2> QED BY <2>1
<1>9. ASSUME NEW h \in Horizons
      PROVE  /\ (lengths[h] * (100 - Band(level))) \div 100 \in Int
             /\ (lengths[h] * (100 + Band(level))) \div 100 \in Int
  <2> DEFINE x == lengths[h]  y == Band(level)
  <2>1. x \in Int /\ y \in Int BY <1>7, <1>8
  <2> HIDE DEF x, y
  <2>2. x * (100 - y) \in Int /\ x * (100 + y) \in Int BY <2>1
  <2> DEFINE u == x * (100 - y)  v == x * (100 + y)
  <2> HIDE DEF u, v
  <2>3. u \in Int /\ v \in Int BY <2>2 DEF u, v
  <2>4. u \div 100 \in Int /\ v \div 100 \in Int BY <2>3
  <2> QED BY <2>4 DEF u, v, x, y
<1>10. p.origin = Chainage[c] /\ p.growth = growth /\ p.lengths = lengths BY <1>1
<1>11. ASSUME NEW h \in Horizons PROVE p.lower[h] \in Int /\ p.upper[h] \in Int
  BY <1>1, <1>9
<1> QED BY <1>5, <1>6, <1>7, <1>10, <1>11 DEF GoodPrediction, p

\* The estimate of an advice lies in its band, and so far before its end that only a
\* correction makes it urgent.
LEMMA AdviceInBand ==
  ASSUME NEW p, GoodPrediction(p), NEW k \in Int \cup {None}, NEW w,
         NEW h \in AdviceHorizons, NEW g \in Gantries, Names(p, h, g)
  PROVE  LET a == Advice(p, k, w, h, g) IN
         /\ a.lower <= a.eta /\ a.eta <= a.upper
         /\ a.urgency = "immediate" => k # None /\ k <= 120 - ErrorFloor
<1> DEFINE tail == predict_queue_tail_chainage(p, h)
           away == tail - Mile[g]
           eta == Seconds(away, p.growth)
           until(length) == Seconds(Greatest(p.origin - length - Mile[g], 0), p.growth)
           low == Least(until(p.upper[h]), Greatest(eta - ErrorFloor, 0))
           high == Greatest(until(p.lower[h]), eta + ErrorFloor)
           moved(t) == IF k = None THEN t ELSE Greatest(t + k, 0)
           a == Advice(p, k, w, h, g)
<1>1. /\ h \in Horizons /\ Mile[g] \in Nat /\ MinUpstream \in Nat
      /\ None \notin Int /\ None \notin Gantries
  BY CorridorAssumption DEF CorridorAssumption
<1>2. ErrorFloor \in Nat /\ ErrorFloor > 120 BY FloorAssumption DEF FloorAssumption
<1>3. /\ p.origin \in Nat /\ p.growth \in Nat \ {0}
      /\ p.lengths[h] \in Int /\ p.lower[h] \in Int /\ p.upper[h] \in Int
  BY <1>1 DEF GoodPrediction
<1>4. ASSUME NEW d \in Nat PROVE Seconds(d, p.growth) \in Nat
  <2>1. d * 360 \in Nat BY <1>4
  <2> QED BY <1>3, <2>1, Products DEF Seconds
<1>5. tail \in Int BY <1>3 DEF predict_queue_tail_chainage
<1>6. eta \in Nat
  <2>1. find_upstream_vms(tail) = g BY Zenon DEF Names
  <2>2. Mile[g] <= tail - MinUpstream
    <3>1. CASE \E o \in Gantries : Mile[o] <= tail - MinUpstream
      <4> HIDE DEF tail
      <4> QED BY <2>1, <3>1, LastSign
    <3>2. CASE ~ \E o \in Gantries : Mile[o] <= tail - MinUpstream
      <4> HIDE DEF tail
      <4>1. {o \in Gantries : Mile[o] <= tail - MinUpstream} = {} BY <3>2, Zenon
      <4>2. find_upstream_vms(tail) = None BY <4>1, Zenon DEF find_upstream_vms
      <4> QED BY <1>1, <2>1, <4>2, Zenon
    <3> QED BY <3>1, <3>2
  <2> HIDE DEF tail
  <2>3. away \in Nat BY <1>1, <1>5, <2>2
  <2> QED BY <1>4, <2>3
<1>7. ASSUME NEW length \in Int PROVE until(length) \in Nat
  <2>1. Greatest(p.origin - length - Mile[g], 0) \in Nat BY <1>1, <1>3 DEF Greatest
  <2> QED BY <1>4, <2>1
<1>8. until(p.upper[h]) \in Nat /\ until(p.lower[h]) \in Nat BY <1>3, <1>7
<1> HIDE DEF until, eta
<1>9. low \in Nat /\ low <= eta BY <1>2, <1>6, <1>8 DEF Least, Greatest
<1>10. high \in Nat /\ eta + ErrorFloor <= high BY <1>2, <1>6, <1>8 DEF Greatest
<1> HIDE DEF low, high
<1>11. a.lower = moved(low) /\ a.eta = moved(eta) /\ a.upper = moved(high)
       /\ a.urgency = _classify_urgency(moved(high))
  <2> DEFINE band == _eta_interval_minutes(p, g, h, eta)
  <2>1. band = [lower |-> low, upper |-> high]
    BY Zenon DEF _eta_interval_minutes, low, high, until
  <2> DEFINE times == _corrected_eta_interval(eta, band, k)
  <2>2. times = [eta |-> moved(eta), lower |-> moved(low), upper |-> moved(high)]
    <3>1. times = [eta |-> moved(eta), lower |-> moved(band.lower), upper |-> moved(band.upper)]
      BY Zenon DEF _corrected_eta_interval
    <3>2. band.lower = low /\ band.upper = high BY <2>1
    <3> QED BY <3>1, <3>2, Zenon
  <2>3. /\ a.lower = times.lower /\ a.eta = times.eta /\ a.upper = times.upper
        /\ a.urgency = _classify_urgency(times.upper)
    BY DEF Advice, eta
  <2> HIDE DEF times, moved, a
  <2>4. times.eta = moved(eta) /\ times.lower = moved(low) /\ times.upper = moved(high)
    BY <2>2
  <2> QED BY <2>3, <2>4, Zenon
<1>12. moved(low) <= moved(eta) /\ moved(eta) <= moved(high)
  <2>1. eta <= high BY <1>2, <1>6, <1>10
  <2>2. CASE k = None BY <1>9, <2>1, <2>2
  <2>3. CASE k # None
    <3>1. k \in Int BY <2>3
    <3> QED BY <1>6, <1>9, <1>10, <2>1, <2>3, <3>1 DEF Greatest
  <2> QED BY <2>2, <2>3
<1>13. moved(high) <= 120 => k # None /\ k <= 120 - ErrorFloor
  <2>1. CASE k = None BY <1>2, <1>6, <1>10, <2>1
  <2>2. CASE k # None
    <3>1. k \in Int BY <2>2
    <3> QED BY <1>2, <1>6, <1>10, <2>2, <3>1 DEF Greatest
  <2> QED BY <2>1, <2>2
<1>14. a.urgency = "immediate" => moved(high) <= 120
  BY <1>11 DEF _classify_urgency
<1> HIDE DEF a, moved
<1> QED BY <1>11, <1>12, <1>13, <1>14, Zenon DEF a

\* What a tick has computed it can: no wave is zero, and the corrections are of queues.
ComputedIsSound ==
  phase \in {"computed", "published"} =>
    /\ ~Raises(states, road)
    /\ corrections \in [Bottlenecks(states, road) -> Int \cup {None}]

\* The road is free to move once it is measured.
RoadMoves ==
  phase \in {"measured", "promoted", "derived", "fused", "computed", "published"} =>
    road.free \in Nat \ {0}

AdviceLast == ~Published => advice = {}

LEMMA BandInvariance == Spec => [](ComputedIsSound /\ RoadMoves /\ AdviceLast)
<1> DEFINE Inv == ComputedIsSound /\ RoadMoves /\ AdviceLast
<1>1. Init => Inv BY DEF Init, ComputedIsSound, RoadMoves, AdviceLast
<1>2. Inv /\ [Next]_vars => Inv'
  <2> SUFFICES ASSUME Inv, [Next]_vars PROVE Inv' OBVIOUS
  <2>1. CASE Fetch
    <3>1. phase' = "fetched" /\ advice' = {} BY <2>1, Zenon DEF Fetch
    <3> QED BY <3>1 DEF ComputedIsSound, RoadMoves, AdviceLast
  <2>2. CASE Smooth
    <3>1. phase = "fetched" /\ phase' = "smoothed" /\ UNCHANGED advice BY <2>2, Zenon DEF Smooth
    <3> QED BY <3>1 DEF ComputedIsSound, RoadMoves, AdviceLast, Published
  <2>3. CASE Measure
    <3>1. phase = "smoothed" /\ phase' = "measured" /\ UNCHANGED advice BY <2>3, Zenon DEF Measure
    <3>2. PICK w \in Weathers, free \in FreeSpeeds : \E nodes, inflow, speed, critical :
            road' = [nodes |-> nodes, inflow |-> inflow, speed |-> speed,
                     free |-> (free * w.speed) \div 100, critical |-> critical]
      BY <2>3, Zenon DEF Measure
    <3>3. free \in Nat /\ w.speed \in Nat /\ free * w.speed >= 100
      BY InputAssumption DEF InputAssumption
    <3> DEFINE x == free * w.speed
    <3>4. x \in Nat /\ x >= 100 BY <3>3, Products
    <3> HIDE DEF x
    <3>5. x \div 100 \in Nat /\ x \div 100 # 0 BY <3>4
    <3>6. road'.free = x \div 100 BY <3>2 DEF x
    <3> QED BY <3>1, <3>5, <3>6 DEF ComputedIsSound, RoadMoves, AdviceLast, Published
  <2>4. CASE Promote \/ Derive \/ ApplySituations \/ PhysicsFails
    <3>1. /\ phase \in {"measured", "promoted", "derived", "fused"}
          /\ phase' \in {"promoted", "derived", "fused", "failed"}
          /\ UNCHANGED <<advice, road>>
      BY <2>4 DEF Promote, Derive, ApplySituations, PhysicsFails, results
    <3> QED BY <3>1 DEF ComputedIsSound, RoadMoves, AdviceLast, Published
  <2>5. CASE Physics
    <3>1. /\ phase = "fused" /\ phase' = "computed" /\ ~Raises(states, road)
          /\ corrections' \in [Bottlenecks(states, road) ->
                                 IF travel = Nothing THEN {None} ELSE Corrections]
          /\ UNCHANGED <<states, road, advice>>
      BY <2>5, Zenon DEF Physics
    <3>2. (IF travel = Nothing THEN {None} ELSE Corrections) \subseteq Int \cup {None}
      BY InputAssumption DEF InputAssumption
    <3>3. corrections' \in [Bottlenecks(states, road) -> Int \cup {None}] BY <3>1, <3>2, Zenon
    <3>4. ComputedIsSound' BY <3>1, <3>3, Zenon DEF ComputedIsSound
    <3> QED BY <3>1, <3>4 DEF RoadMoves, AdviceLast, Published
  <2>6. CASE Publish
    <3>1. /\ phase = "computed" /\ phase' = "published"
          /\ UNCHANGED <<states, road, corrections>>
      BY <2>6, Zenon DEF Publish
    <3> QED BY <3>1 DEF ComputedIsSound, RoadMoves, AdviceLast, Published
  <2>7. CASE UNCHANGED vars
    <3>1. UNCHANGED <<phase, states, road, corrections, advice>>
      BY <2>7 DEF vars, results
    <3> QED BY <3>1, Zenon DEF ComputedIsSound, RoadMoves, AdviceLast, Published
  <2> QED BY <2>1, <2>2, <2>3, <2>4, <2>5, <2>6, <2>7, Zenon DEF Next
<1> QED BY <1>1, <1>2, PTL DEF Spec

(* The estimate that drivers are given is never outside its own band, and  *)
(* nothing but a correction of the size the property names makes a warning *)
(* urgent: for all corridors whose least drop makes a wave, all readings,  *)
(* pictures and corrections (vms_orchestrator.py:286-330, 595-665,         *)
(* physics_engine.py:579-623).                                             *)
THEOREM BandsHold == Spec => []BandHoldsEta
<1>1. IInv /\ AdvicePublished /\ PredictionsFollow /\ ComputedIsSound /\ RoadMoves /\ AdviceLast
      => BandHoldsEta
  <2> SUFFICES ASSUME IInv, AdvicePublished, PredictionsFollow, ComputedIsSound, RoadMoves,
                      AdviceLast, NEW a \in advice, a.kind = "queue"
               PROVE  /\ a.lower <= a.eta /\ a.eta <= a.upper
                      /\ a.urgency = "immediate" =>
                           /\ corrections[a.camera] # None
                           /\ corrections[a.camera] <= 120 - ErrorFloor
    BY Zenon DEF BandHoldsEta
  <2> DEFINE queue(d) == QueueAdvice(d, weather.surface)
             sensor == generate_sensor_recommendations(detect_sensor_anomalies(sensors))
  <2>1. Published BY Zenon DEF AdviceLast
  <2>2. advice = (UNION {queue(d) : d \in DOMAIN predictions}) \cup sensor
    BY <2>1, Zenon DEF AdvicePublished
  <2>3. a \notin sensor BY DEF generate_sensor_recommendations
  <2>4. PICK c \in DOMAIN predictions : a \in queue(c)
    <3> HIDE DEF queue, sensor
    <3> QED BY <2>2, <2>3, Zenon
  <2>5. /\ predictions = compute(states, road)
        /\ ~Raises(states, road) /\ corrections \in [Bottlenecks(states, road) -> Int \cup {None}]
        /\ road.free \in Nat \ {0}
    BY <2>1 DEF PredictionsFollow, ComputedIsSound, RoadMoves, Published
  <2>6. /\ c \in Bottlenecks(states, road)
        /\ predictions[c] = _evaluate_bottleneck_piecewise(c, states[c], road)
    BY <2>5, Zenon DEF compute
  <2>7. c \in DOMAIN states /\ IsBottleneck(c, states[c], road)
    BY <2>6, Zenon DEF Bottlenecks
  <2>8. c \in Cameras /\ Typed(states[c]) BY <2>7, AreTyped, Zenon DEF IInv
  <2>9. RoadTyped(road) BY <2>5, Zenon DEF IInv, ReadingsTyped, RoadTyped
  <2>10. \A i \in DOMAIN Segments(c, states[c], road) : Segments(c, states[c], road)[i].wave # 0
    BY <2>5, <2>6, Zenon DEF Raises
  <2>11. GoodPrediction(predictions[c])
    BY <2>6, <2>7, <2>8, <2>9, <2>10, PredictionsGrow, Zenon
  <2>12. predictions[c].camera = c
    <3>1. _evaluate_bottleneck_piecewise(c, states[c], road).camera = c
      BY DEF _evaluate_bottleneck_piecewise
    <3> QED BY <2>6, <3>1, Zenon
  <2>13. corrections[c] \in Int \cup {None} BY <2>5, <2>6, Zenon
  <2>14. PICK x \in AdviceHorizons \X Gantries :
           /\ Names(predictions[c], x[1], x[2])
           /\ a = Advice(predictions[c], corrections[c], weather.surface, x[1], x[2])
    BY <2>4, Zenon DEF QueueAdvice, generate_recommendations
  <2>15. x[1] \in AdviceHorizons /\ x[2] \in Gantries BY <2>14
  <2>16. a.camera = c
    <3>1. Advice(predictions[c], corrections[c], weather.surface, x[1], x[2]).camera
            = predictions[c].camera
      BY DEF Advice
    <3> QED BY <2>12, <2>14, <3>1, Zenon
  <2>17. /\ a.lower <= a.eta /\ a.eta <= a.upper
         /\ a.urgency = "immediate" => corrections[c] # None /\ corrections[c] <= 120 - ErrorFloor
    BY <2>11, <2>13, <2>14, <2>15, AdviceInBand, Zenon
  <2> QED BY <2>16, <2>17, Zenon
<1> QED BY <1>1, Invariance, AdviceInvariance, BandInvariance, PTL

LEMMA TotalSplits ==
  ASSUME NEW S, NEW w, NEW x, NEW v, Shortened(v, S, w, x)
  PROVE  Total(w) = w[x] + Total(v)
<1> DEFINE R == S \ {x}
<1>0. IsFiniteSet(S) /\ IsFiniteSet(R) /\ w \in [S -> Nat] /\ v \in [R -> Nat] /\ DOMAIN w = S /\ DOMAIN v = R
  BY FS_Subset DEF Shortened
<1> HIDE DEF R
<1>1. /\ Total(w) = MapThenSumSet(LAMBDA y : w[y], S)
      /\ Total(v) = MapThenSumSet(LAMBDA y : v[y], R)
  BY <1>0, Zenon DEF Total
<1>2. PICK i : Summed(i, S, w) /\ MapThenSumSet(LAMBDA y : w[y], S) = i[S]
  <2>1. \E i \in [SUBSET S -> Nat] :
          SumsUp(i, S, w) /\ MapThenSumSet(LAMBDA y : w[y], S) = i[S]
    BY <1>0, SumIterates, Zenon
  <2> QED BY <2>1 DEF Summed
<1>3. PICK j : Summed(j, R, v) /\ MapThenSumSet(LAMBDA y : v[y], R) = j[R]
  <2>1. \E j \in [SUBSET R -> Nat] :
          SumsUp(j, R, v) /\ MapThenSumSet(LAMBDA y : v[y], R) = j[R]
    BY <1>0, SumIterates, Zenon
  <2> QED BY <2>1 DEF Summed
<1>4. i[S] = w[x] + j[R]
  <2>1. Summed(i, S, w) /\ Summed(j, S \ {x}, v) BY <1>2, <1>3 DEF R
  <2>2. i[S] = w[x] + j[S \ {x}] BY <2>1, SumSplits
  <2> QED BY <2>2 DEF R
<1> QED BY <1>1, <1>2, <1>3, <1>4, Zenon

(***************************************************************************)
(* How far the tail gets in a time.                                        *)
(***************************************************************************)
\* A segment takes the time its wave needs, rounded up to a hundredth of a second.
LEMMA TransitFits ==
  ASSUME NEW x, x.distance \in Nat \ {0}, x.wave \in Nat \ {0}
  PROVE  /\ Transit(x) \in Nat \ {0}
         /\ 36000 * x.distance <= Transit(x) * x.wave
         /\ Transit(x) * x.wave <= 36000 * x.distance + x.wave
<1> DEFINE m == x.distance * 36000  w == x.wave
<1>1. m \in Nat \ {0} /\ w \in Nat \ {0} /\ m = 36000 * x.distance OBVIOUS
<1>2. Transit(x) = (m + w - 1) \div w BY DEF Transit
<1>3. Transit(x) \in Nat \ {0} BY TransitTime
<1> HIDE DEF m, w
<1> DEFINE u == m + w - 1
<1>4. u \in Nat BY <1>1
<1> HIDE DEF u
<1>5. w * (u \div w) <= u /\ u < w * (u \div w) + w BY <1>1, <1>4, Z3
<1> DEFINE y == u \div w
<1>6. y = Transit(x) BY <1>2 DEF u
<1> HIDE DEF y
<1>7. w * y <= u /\ u < w * y + w BY <1>5 DEF y
<1>8. w * y \in Nat /\ w * y = y * w BY <1>1, <1>3, <1>6
<1>9. m <= y * w /\ y * w <= m + w BY <1>1, <1>4, <1>7, <1>8 DEF u
<1> QED BY <1>1, <1>3, <1>6, <1>9 DEF w

\* A part of a segment at its wave, against a slower and a faster one.
LEMMA RestOfSegment ==
  ASSUME NEW d \in Nat, NEW time \in Nat, NEW e \in 0..time, NEW w \in Nat, NEW v \in 0..w,
         NEW f \in Nat, w <= f, d <= time * w, time * w <= d + w
  PROVE  /\ d <= e * w + (time - e) * f
         /\ e * w + (time - e) * v <= d + f
<1>1. PICK r \in Nat : time = e + r
  <2>1. time - e \in Nat /\ time = e + (time - e) OBVIOUS
  <2> QED BY <2>1
<1>2. e \in Nat /\ v \in Nat /\ time - e = r BY <1>1
<1>3. time * w = e * w + r * w BY <1>1, <1>2
<1>4. w * r <= f * r /\ v * r <= w * r BY <1>2, MoreOfIt
<1>5. /\ e * w \in Nat /\ r * w \in Nat /\ r * f \in Nat /\ r * v \in Nat
      /\ w * r = r * w /\ f * r = r * f /\ v * r = r * v
  BY <1>2
<1>6. d <= e * w + r * f BY <1>3, <1>4, <1>5
<1>7. e * w + r * v <= d + f BY <1>3, <1>4, <1>5
<1> QED BY <1>2, <1>6, <1>7

Moving(q) == Walk(q) /\ \A i \in DOMAIN q : q[i].wave # 0

\* Time and reach, segment by segment.
LEMMA OneMoreSegment ==
  ASSUME NEW q, Moving(q)
  PROVE  /\ Time(q, 0) = 0 /\ Reach(q, 0) = 0
         /\ \A n \in 1..Len(q) : /\ Time(q, n) = Time(q, n - 1) + Transit(q[n])
                                 /\ Reach(q, n) = Reach(q, n - 1) + q[n].distance
<1>1. /\ Len(q) \in Nat /\ DOMAIN q = 1..Len(q)
      /\ \A i \in DOMAIN q : q[i].distance \in Nat \ {0} /\ q[i].wave \in Nat \ {0}
  BY DEF Moving, Walk
<1>2. \A i \in DOMAIN q : Transit(q[i]) \in Nat
  <2> TAKE i \in DOMAIN q
  <2> QED BY <1>1, TransitFits
<1> DEFINE t(n) == [i \in 1..n |-> Transit(q[i])]  d(n) == [i \in 1..n |-> q[i].distance]
<1>3. \A n : Time(q, n) = Total(t(n)) /\ Reach(q, n) = Total(d(n)) BY Zenon DEF Time, Reach
<1>4. \A n \in 0..Len(q) : t(n) \in [1..n -> Nat] /\ d(n) \in [1..n -> Nat]
  <2> TAKE n \in 0..Len(q)
  <2>1. 1..n \subseteq DOMAIN q BY <1>1
  <2> QED BY <1>1, <1>2, <2>1
<1>5. Total(t(0)) = 0 /\ Total(d(0)) = 0
  <2>1. 1..0 = {} OBVIOUS
  <2>2. 0 \in 0..Len(q) BY <1>1
  <2>3. t(0) \in [{} -> Nat] /\ d(0) \in [{} -> Nat] BY <1>4, <2>1, <2>2
  <2> DEFINE a == t(0)  b == d(0)
  <2>4. a \in [{} -> Nat] /\ b \in [{} -> Nat] BY <2>3
  <2> HIDE DEF a, b
  <2>5. DOMAIN a = {} /\ DOMAIN b = {} BY <2>4
  <2>6. Total(a) = 0
    <3>1. MapThenSumSet(LAMBDA y : a[y], {}) = 0 BY <2>4, EmptySum
    <3>2. Total(a) = MapThenSumSet(LAMBDA y : a[y], {}) BY <2>5, Zenon DEF Total
    <3> QED BY <3>1, <3>2, Zenon
  <2>7. Total(b) = 0
    <3>1. MapThenSumSet(LAMBDA y : b[y], {}) = 0 BY <2>4, EmptySum
    <3>2. Total(b) = MapThenSumSet(LAMBDA y : b[y], {}) BY <2>5, Zenon DEF Total
    <3> QED BY <3>1, <3>2, Zenon
  <2> QED BY <2>6, <2>7 DEF a, b
<1>6. ASSUME NEW n \in 1..Len(q)
      PROVE  /\ Total(t(n)) = Transit(q[n]) + Total(t(n - 1))
             /\ Total(d(n)) = q[n].distance + Total(d(n - 1))
  <2> DEFINE S == 1..n  R == 1..(n - 1)
  <2>1. n \in 0..Len(q) /\ n - 1 \in 0..Len(q) /\ n \in Nat BY <1>1
  <2>2. IsFiniteSet(S) /\ n \in S /\ R = S \ {n}
    <3>1. IsFiniteSet(1..n) BY <2>1, FS_Interval
    <3>2. n \in 1..n /\ (1..n) \ {n} = 1..(n - 1) BY <2>1
    <3> QED BY <3>1, <3>2
  <2>3. t(n) \in [S -> Nat] /\ d(n) \in [S -> Nat] BY <1>4, <2>1
  <2>4. t(n - 1) \in [R -> Nat] /\ d(n - 1) \in [R -> Nat] BY <1>4, <2>1
  <2>5. Shortened(t(n - 1), S, t(n), n) /\ Shortened(d(n - 1), S, d(n), n)
    <3>1. \A y \in R : t(n - 1)[y] = t(n)[y] /\ d(n - 1)[y] = d(n)[y] BY <2>2
    <3> HIDE DEF t, d, R
    <3>2. t(n - 1) \in [S \ {n} -> Nat] /\ d(n - 1) \in [S \ {n} -> Nat] BY <2>2, <2>4, Zenon
    <3> QED BY <2>2, <2>3, <3>1, <3>2, Zenon DEF Shortened
  <2>6. t(n)[n] = Transit(q[n]) /\ d(n)[n] = q[n].distance BY <2>2
  <2> HIDE DEF t, d, S, R
  <2>7. Total(t(n)) = t(n)[n] + Total(t(n - 1))
    <3> DEFINE a == t(n)  b == t(n - 1)
    <3>1. Shortened(b, S, a, n) BY <2>5
    <3> HIDE DEF a, b
    <3>2. Total(a) = a[n] + Total(b) BY <3>1, TotalSplits
    <3> QED BY <3>2 DEF a, b
  <2>8. Total(d(n)) = d(n)[n] + Total(d(n - 1))
    <3> DEFINE a == d(n)  b == d(n - 1)
    <3>1. Shortened(b, S, a, n) BY <2>5
    <3> HIDE DEF a, b
    <3>2. Total(a) = a[n] + Total(b) BY <3>1, TotalSplits
    <3> QED BY <3>2 DEF a, b
  <2> QED BY <2>6, <2>7, <2>8
<1> HIDE DEF t, d
<1>7. \A n \in 0..Len(q) : Total(t(n)) \in Nat /\ Total(d(n)) \in Nat
  <2> TAKE n \in 0..Len(q)
  <2>1. IsFiniteSet(1..n) BY <1>1, FS_Interval
  <2> QED BY <1>4, <2>1, TotalIsNumber
<1>8. ASSUME NEW n \in 1..Len(q)
      PROVE  /\ Time(q, n) = Time(q, n - 1) + Transit(q[n])
             /\ Reach(q, n) = Reach(q, n - 1) + q[n].distance
  <2>1. n - 1 \in 0..Len(q) /\ n \in DOMAIN q BY <1>1
  <2>2. /\ Total(t(n - 1)) \in Nat /\ Total(d(n - 1)) \in Nat
        /\ Transit(q[n]) \in Nat /\ q[n].distance \in Nat
    BY <1>1, <1>2, <1>7, <2>1
  <2> QED BY <1>3, <1>6, <2>2
<1> QED BY <1>3, <1>5, <1>8

\* The walk takes time at every segment.
LEMMA TimePasses ==
  ASSUME NEW q, Moving(q)
  PROVE  /\ Len(q) \in Nat /\ DOMAIN q = 1..Len(q)
         /\ \A n \in 0..Len(q) : Time(q, n) \in Nat /\ Reach(q, n) \in Nat
         /\ \A n \in 0..Len(q), m \in 0..Len(q) : m < n => Time(q, m) < Time(q, n)
<1>1. /\ Len(q) \in Nat /\ DOMAIN q = 1..Len(q)
      /\ \A i \in DOMAIN q : q[i].distance \in Nat \ {0} /\ q[i].wave \in Nat \ {0}
  BY DEF Moving, Walk
<1>2. \A n \in 0..Len(q) : Time(q, n) \in Nat /\ Reach(q, n) \in Nat
  BY TimeAndReach DEF Moving
<1>3. ASSUME NEW n \in 1..Len(q) PROVE Time(q, n - 1) < Time(q, n)
  <2>1. n \in DOMAIN q /\ n - 1 \in 0..Len(q) BY <1>1
  <2>2. Transit(q[n]) \in Nat \ {0} BY <1>1, <2>1, TransitFits
  <2>3. Time(q, n) = Time(q, n - 1) + Transit(q[n]) BY OneMoreSegment
  <2>4. Time(q, n - 1) \in Nat BY <1>2, <2>1
  <2> QED BY <2>2, <2>3, <2>4
<1> DEFINE N == Len(q)
           K == {n \in 0..N : \A m \in 0..N : m < n => Time(q, m) < Time(q, n)}
<1>4. 0 \in K BY <1>1
<1>5. ASSUME NEW n \in 1..N, n - 1 \in K PROVE n \in K
  <2>1. ASSUME NEW m \in 0..N, m < n PROVE Time(q, m) < Time(q, n)
    <3>1. n - 1 \in 0..N /\ n \in 0..N /\ m \in Nat BY <1>1
    <3>2. Time(q, n - 1) < Time(q, n) BY <1>3
    <3>3. CASE m = n - 1 BY <3>2, <3>3
    <3>4. CASE m < n - 1
      <4>1. Time(q, m) < Time(q, n - 1) BY <1>5, <3>4
      <4>2. Time(q, m) \in Nat /\ Time(q, n) \in Nat /\ Time(q, n - 1) \in Nat BY <1>2, <3>1
      <4> QED BY <3>2, <4>1, <4>2
    <3>5. m = n - 1 \/ m < n - 1 BY <2>1, <3>1
    <3> QED BY <3>3, <3>4, <3>5
  <2>2. n \in 0..N BY <1>1
  <2> QED BY <2>1, <2>2
<1>6. N \in Nat BY <1>1
<1> HIDE DEF K, N
<1>7. 0..N \subseteq K BY <1>4, <1>5, <1>6, UpToInduction
<1> QED BY <1>1, <1>2, <1>7 DEF K, N

\* The segments the tail has left behind after a time.
Passed(q, time) == Cardinality({m \in DOMAIN q : Time(q, m) <= time})

LEMMA PassedInOrder ==
  ASSUME NEW q, Moving(q), NEW time \in Nat
  PROVE  /\ Passed(q, time) \in 0..Len(q) /\ Time(q, Passed(q, time)) <= time
         /\ \A m \in 0..Len(q) : m > Passed(q, time) => Time(q, m) > time
<1> DEFINE N == Len(q)
           left == {m \in 0..N : Time(q, m) <= time}
<1>1. /\ N \in Nat /\ DOMAIN q = 1..N
      /\ \A n \in 0..N : Time(q, n) \in Nat
      /\ \A n \in 0..N, m \in 0..N : m < n => Time(q, m) < Time(q, n)
  BY TimePasses
<1>2. 0 \in left
  <2>1. Time(q, 0) = 0 BY OneMoreSegment
  <2> QED BY <1>1, <2>1
<1> HIDE DEF N
<1>3. PICK n \in left : \A m \in left : n >= m
  <2>1. left \in SUBSET Nat /\ left # {} BY <1>1, <1>2
  <2>2. IsFiniteSet(left)
    <3>1. IsFiniteSet(0..N) /\ left \subseteq 0..N BY <1>1, FS_Interval
    <3> HIDE DEF left
    <3> QED BY <3>1, FS_Subset
  <2> HIDE DEF left
  <2> QED BY <2>1, <2>2, GreatestExists
<1>4. n \in 0..N /\ Time(q, n) <= time BY <1>3
<1>5. \A m \in 0..N : m > n => Time(q, m) > time
  <2> SUFFICES ASSUME NEW m \in 0..N, m > n PROVE Time(q, m) > time OBVIOUS
  <2>1. m \notin left
    <3>1. ~ (n >= m) BY <1>1, <1>4
    <3> QED BY <1>3, <3>1
  <2>2. Time(q, m) \in Nat BY <1>1
  <2> QED BY <2>1, <2>2
<1>6. {m \in DOMAIN q : Time(q, m) <= time} = 1..n
  <2>1. ASSUME NEW m \in 1..N PROVE Time(q, m) <= time <=> m \in 1..n
    <3>1. m \in 0..N /\ Time(q, m) \in Nat /\ Time(q, n) \in Nat BY <1>1, <1>4
    <3>2. CASE m < n
      <4>1. Time(q, m) < Time(q, n) BY <1>1, <1>4, <3>1, <3>2
      <4> QED BY <1>4, <3>1, <3>2, <4>1
    <3>3. CASE m = n BY <1>4, <3>3
    <3>4. CASE m > n
      <4>1. Time(q, m) > time BY <1>5, <3>1, <3>4
      <4> QED BY <1>4, <3>1, <3>4, <4>1
    <3> QED BY <1>4, <3>2, <3>3, <3>4
  <2>2. 1..n \subseteq 1..N BY <1>1, <1>4
  <2> QED BY <1>1, <2>1, <2>2
<1>7. Cardinality(1..n) = n
  <2>1. n \in Nat BY <1>1, <1>4
  <2> QED BY <2>1, FS_Interval
<1> QED BY <1>4, <1>5, <1>6, <1>7 DEF Passed, N

LEMMA Distributes == \A x, y, z \in Nat : (x + y) * z = x * z + y * z /\ x * z \in Nat
OBVIOUS

\* The wave the tail rides on after n segments, and where it is after a time, in
\* parts of a metre that no step of the walk rounds.
Onward(q, n) == q[Least(n + 1, Len(q))].wave
TailAt(q, time) ==
  36000 * Reach(q, Passed(q, time)) + (time - Time(q, Passed(q, time))) * Onward(q, Passed(q, time))

Between(q, v, f) == /\ v \in Nat /\ f \in Nat
                    /\ \A i \in DOMAIN q : v <= q[i].wave /\ q[i].wave <= f

\* The waves a tail rides on are those of its walk.
LEMMA TailIsNumber ==
  ASSUME NEW q, Moving(q), Len(q) # 0, NEW v, NEW f, Between(q, v, f), NEW time \in Nat
  PROVE  /\ \A n \in 0..Len(q) : /\ Onward(q, n) \in Nat
                                 /\ v <= Onward(q, n) /\ Onward(q, n) <= f
         /\ \A n \in 0..Len(q) : n + 1 \in 0..Len(q) => Onward(q, n) = q[n + 1].wave
         /\ time - Time(q, Passed(q, time)) \in Nat
         /\ TailAt(q, time) \in Nat
<1>1. /\ Len(q) \in Nat \ {0} /\ DOMAIN q = 1..Len(q)
      /\ \A n \in 0..Len(q) : Time(q, n) \in Nat /\ Reach(q, n) \in Nat
      /\ \A i \in DOMAIN q : q[i].wave \in Nat
  BY TimePasses DEF Moving, Walk
<1>2. \A n \in 0..Len(q) : /\ Least(n + 1, Len(q)) \in DOMAIN q
                           /\ n + 1 \in 0..Len(q) => Least(n + 1, Len(q)) = n + 1
  BY <1>1 DEF Least
<1>3. ASSUME NEW n \in 0..Len(q)
      PROVE  Onward(q, n) \in Nat /\ v <= Onward(q, n) /\ Onward(q, n) <= f
  BY <1>1, <1>2 DEF Onward, Between
<1>4. \A n \in 0..Len(q) : n + 1 \in 0..Len(q) => Onward(q, n) = q[n + 1].wave
  BY <1>2, Zenon DEF Onward
<1> DEFINE n == Passed(q, time)
<1>5. n \in 0..Len(q) /\ Time(q, n) <= time BY PassedInOrder
<1>6. time - Time(q, n) \in Nat BY <1>1, <1>5
<1>7. Reach(q, n) \in Nat /\ Onward(q, n) \in Nat BY <1>1, <1>3, <1>5
<1> DEFINE e == time - Time(q, n)
<1>8. e * Onward(q, n) \in Nat
  <2>1. e \in Nat BY <1>6
  <2> HIDE DEF e
  <2> QED BY <1>7, <2>1, Products
<1>9. 36000 * Reach(q, n) \in Nat BY <1>7
<1>10. TailAt(q, time) = 36000 * Reach(q, n) + e * Onward(q, n) BY DEF TailAt
<1> HIDE DEF e, n
<1>11. TailAt(q, time) \in Nat BY <1>8, <1>9, <1>10
<1> QED BY <1>3, <1>4, <1>6, <1>11 DEF n

\* From where the tail is to the end of every segment ahead of it.
LEMMA TailToSegment ==
  ASSUME NEW q, Moving(q), Len(q) # 0, NEW v, NEW f, Between(q, v, f), NEW time \in Nat
  PROVE  \A k \in 0..Len(q) : k > Passed(q, time) =>
           /\ 36000 * Reach(q, k) <= TailAt(q, time) + (Time(q, k) - time) * f
           /\ TailAt(q, time) + (Time(q, k) - time) * v
                <= 36000 * Reach(q, k) + (k - Passed(q, time)) * f
<1> DEFINE N == Len(q)  n == Passed(q, time)  X == TailAt(q, time)
           K == {k \in 0..N : k > n =>
                   /\ 36000 * Reach(q, k) <= X + (Time(q, k) - time) * f
                   /\ X + (Time(q, k) - time) * v <= 36000 * Reach(q, k) + (k - n) * f}
<1>1. /\ N \in Nat \ {0} /\ DOMAIN q = 1..N
      /\ \A k \in 0..N : Time(q, k) \in Nat /\ Reach(q, k) \in Nat
  BY TimePasses
<1>2. /\ n \in 0..N /\ Time(q, n) <= time
      /\ \A k \in 0..N : k > n => Time(q, k) > time
  BY PassedInOrder
<1>3. X \in Nat /\ time - Time(q, n) \in Nat BY TailIsNumber
<1>4. v \in Nat /\ f \in Nat BY DEF Between
<1>5. X = 36000 * Reach(q, n) + (time - Time(q, n)) * Onward(q, n) BY DEF TailAt
<1>6. n + 1 \in 0..N => Onward(q, n) = q[n + 1].wave BY <1>2, TailIsNumber
<1> HIDE DEF n, X, N
<1>7. 0 \in K BY <1>1, <1>2
<1>8. ASSUME NEW k \in 1..N, k - 1 \in K PROVE k \in K
  <2> SUFFICES ASSUME k > n
               PROVE  /\ 36000 * Reach(q, k) <= X + (Time(q, k) - time) * f
                      /\ X + (Time(q, k) - time) * v <= 36000 * Reach(q, k) + (k - n) * f
    BY <1>1
  <2> DEFINE d == 36000 * q[k].distance  t == Transit(q[k])  w == q[k].wave
             r == Reach(q, k - 1)  a == Time(q, k - 1)  s == Time(q, k) - time
  <2>1. k \in DOMAIN q /\ k \in 0..N /\ k - 1 \in 0..N BY <1>1
  <2>2. q[k].distance \in Nat \ {0} /\ q[k].wave \in Nat \ {0} BY <2>1 DEF Moving, Walk
  <2>3. t \in Nat /\ d <= t * w /\ t * w <= d + w BY <2>2, TransitFits
  <2>4. d \in Nat /\ w \in Nat /\ v <= w /\ w <= f BY <2>1, <2>2 DEF Between
  <2>5. Time(q, k) = a + t /\ Reach(q, k) = r + q[k].distance BY OneMoreSegment DEF N
  <2>6. r \in Nat /\ a \in Nat /\ Time(q, k) \in Nat BY <1>1, <2>1
  <2>7. 36000 * Reach(q, k) = 36000 * r + d /\ 36000 * r \in Nat BY <2>2, <2>5, <2>6
  <2>8. s \in Nat /\ s = a + t - time BY <1>2, <2>1, <2>3, <2>5, <2>6
  <2>9. CASE k - 1 = n
    <3> DEFINE e == time - a
    <3>1. e \in 0..t /\ s = t - e
      <4>1. e \in Nat BY <1>3, <2>9
      <4> QED BY <2>3, <2>6, <2>8, <4>1
    <3>2. X = 36000 * r + e * w
      <4>1. n + 1 = k BY <1>2, <2>9
      <4> QED BY <1>5, <1>6, <2>1, <2>9, <4>1
    <3>3. k - n = 1 BY <1>2, <2>9
    <3> HIDE DEF d, t, w, r, a, s, e
    <3>4. d <= e * w + s * f /\ e * w + s * v <= d + f
      BY <1>4, <2>3, <2>4, <3>1, RestOfSegment
    <3>5. e * w \in Nat /\ s * f \in Nat /\ s * v \in Nat
      <4>1. e \in Nat BY <3>1
      <4> QED BY <1>4, <2>4, <2>8, <4>1, Products
    <3>6. 1 * f = f BY <1>4
    <3>7. 36000 * Reach(q, k) <= X + s * f BY <2>4, <2>7, <3>2, <3>4, <3>5
    <3>8. X + s * v <= 36000 * Reach(q, k) + f BY <1>4, <2>4, <2>7, <3>2, <3>4, <3>5
    <3> QED BY <3>3, <3>6, <3>7, <3>8 DEF s
  <2>10. CASE k - 1 > n
    <3> DEFINE b == a - time  c == k - 1 - n
    <3>1. /\ 36000 * r <= X + b * f
          /\ X + b * v <= 36000 * r + c * f
      BY <1>8, <2>10
    <3>2. b \in Nat /\ s = b + t /\ c \in Nat /\ k - n = c + 1
      <4>1. a > time BY <1>2, <2>1, <2>10
      <4> QED BY <1>2, <2>3, <2>6, <2>8, <2>10, <4>1
    <3> HIDE DEF d, t, w, r, a, s, b, c
    <3>3. d <= t * f /\ t * v <= d + f
      <4>1. 0 \in 0..t /\ v \in 0..w BY <1>4, <2>3, <2>4
      <4>2. d <= 0 * w + (t - 0) * f /\ 0 * w + (t - 0) * v <= d + f
        BY <1>4, <2>3, <2>4, <4>1, RestOfSegment
      <4>3. 0 * w = 0 /\ t - 0 = t /\ t * f \in Nat /\ t * v \in Nat BY <1>4, <2>3, <2>4, Products
      <4> QED BY <4>2, <4>3
    <3>4. /\ s * f = b * f + t * f /\ s * v = b * v + t * v /\ (k - n) * f = c * f + f
          /\ b * f \in Nat /\ t * f \in Nat /\ b * v \in Nat /\ t * v \in Nat /\ c * f \in Nat
      <4>1. 1 * f = f /\ 1 \in Nat BY <1>4
      <4> QED BY <1>4, <2>3, <3>2, <4>1, Distributes
    <3>5. 36000 * Reach(q, k) <= X + s * f BY <1>3, <2>4, <2>7, <3>1, <3>3, <3>4
    <3>6. X + s * v <= 36000 * Reach(q, k) + (k - n) * f
      <4>1. X + (b * v + t * v) <= (36000 * r + c * f) + (d + f)
        <5> DEFINE bv == b * v  tv == t * v  rr == 36000 * r  cf == c * f
        <5>1. /\ bv \in Nat /\ tv \in Nat /\ rr \in Nat /\ cf \in Nat
              /\ X + bv <= rr + cf /\ tv <= d + f
          BY <2>7, <3>1, <3>3, <3>4
        <5> HIDE DEF bv, tv, rr, cf
        <5>2. X + (bv + tv) <= (rr + cf) + (d + f) BY <1>3, <1>4, <2>4, <5>1
        <5> QED BY <5>2 DEF bv, tv, rr, cf
      <4>2. (36000 * r + c * f) + (d + f) = 36000 * Reach(q, k) + (c * f + f)
        BY <1>4, <2>4, <2>7, <3>4
      <4> QED BY <3>4, <4>1, <4>2
    <3> QED BY <3>5, <3>6 DEF s
  <2>11. k - 1 = n \/ k - 1 > n BY <1>2
  <2> QED BY <2>9, <2>10, <2>11
<1> HIDE DEF K
<1>9. 0..N \subseteq K BY <1>1, <1>7, <1>8, UpToInduction
<1> QED BY <1>9 DEF K, n, X, N

\* Between two times the tail gets as far as its fastest wave at most, and as far as
\* its slowest at least, but for the rounding at the ends of the segments.
LEMMA TailAdvances ==
  ASSUME NEW q, Moving(q), Len(q) # 0, NEW v, NEW f, Between(q, v, f),
         NEW t \in Nat, NEW u \in Nat, t <= u
  PROVE  /\ TailAt(q, u) <= TailAt(q, t) + (u - t) * f
         /\ TailAt(q, t) + (u - t) * v <= TailAt(q, u) + Len(q) * f
<1> DEFINE N == Len(q)  n == Passed(q, t)  m == Passed(q, u)
           X == TailAt(q, t)  Y == TailAt(q, u)
           x == t - Time(q, n)  y == u - Time(q, m)  w == Onward(q, m)
<1>1. /\ N \in Nat \ {0} /\ v \in Nat /\ f \in Nat
      /\ \A k \in 0..N : Time(q, k) \in Nat /\ Reach(q, k) \in Nat
  BY TimePasses DEF Between
<1>2. /\ n \in 0..N /\ Time(q, n) <= t /\ m \in 0..N /\ Time(q, m) <= u
      /\ \A k \in 0..N : k > n => Time(q, k) > t
      /\ \A k \in 0..N : k > m => Time(q, k) > u
  BY PassedInOrder
<1>3. X \in Nat /\ Y \in Nat /\ x \in Nat /\ y \in Nat BY TailIsNumber
<1>4. w \in Nat /\ v <= w /\ w <= f BY <1>2, TailIsNumber
<1>5. Y = 36000 * Reach(q, m) + y * w BY DEF TailAt
<1>6. u - t \in Nat OBVIOUS
<1>7. N * f \in Nat BY <1>1, Products
<1>8. n <= m
  <2>1. CASE n > m
    <3>1. Time(q, n) > u BY <1>2, <2>1
    <3>2. Time(q, n) \in Nat BY <1>1, <1>2
    <3> QED BY <1>2, <3>1, <3>2
  <2> QED BY <1>2, <2>1
<1>9. CASE n = m
  <2>1. X = 36000 * Reach(q, m) + x * w BY <1>9 DEF TailAt
  <2>2. y = x + (u - t)
    <3>1. Time(q, n) \in Nat BY <1>1, <1>2
    <3> QED BY <1>9, <3>1
  <2> DEFINE z == u - t  R == 36000 * Reach(q, m)
  <2>3. z \in Nat /\ y = x + z BY <1>6, <2>2
  <2>4. R \in Nat
    <3>1. Reach(q, m) \in Nat BY <1>1, <1>2
    <3> QED BY <3>1
  <2> HIDE DEF z, R, x, y, w, X, Y, N, n, m
  <2>5. y * w = x * w + z * w /\ x * w \in Nat /\ z * w \in Nat BY <1>3, <1>4, <2>3, Distributes
  <2>6. w * z <= f * z /\ v * z <= w * z BY <1>1, <1>4, <2>3, MoreOfIt
  <2>7. /\ w * z = z * w /\ f * z = z * f /\ v * z = z * v
        /\ z * f \in Nat /\ z * v \in Nat
    BY <1>1, <1>4, <2>3
  <2>8. X = R + x * w /\ Y = R + y * w BY <1>5, <2>1 DEF R
  <2>9. Y <= X + z * f BY <2>4, <2>5, <2>6, <2>7, <2>8
  <2>10. X + z * v <= Y + N * f BY <1>7, <2>4, <2>5, <2>6, <2>7, <2>8
  <2> QED BY <2>9, <2>10 DEF z, X, Y, N
<1>10. CASE n < m
  <2> DEFINE s == Time(q, m) - t  R == 36000 * Reach(q, m)  z == u - t  c == m - n
  <2>1. R <= X + s * f /\ X + s * v <= R + c * f
    BY <1>2, <1>10, TailToSegment
  <2>2. s \in Nat /\ z = s + y /\ z \in Nat /\ c \in Nat /\ c <= N
    <3>1. Time(q, m) \in Nat /\ Time(q, m) > t BY <1>1, <1>2, <1>10
    <3> QED BY <1>1, <1>2, <1>6, <1>10, <3>1
  <2>3. R \in Nat
    <3>1. Reach(q, m) \in Nat BY <1>1, <1>2
    <3> QED BY <3>1
  <2>4. Y = R + y * w BY <1>5
  <2> HIDE DEF s, R, z, c, x, y, w, X, Y, N, n, m
  <2>5. z * f = s * f + y * f /\ z * v = s * v + y * v /\ s * f \in Nat /\ s * v \in Nat
    BY <1>1, <1>3, <2>2, Distributes
  <2>6. w * y <= f * y /\ v * y <= w * y /\ c * f <= N * f
    BY <1>1, <1>3, <1>4, <2>2, MoreOfIt
  <2>7. /\ w * y = y * w /\ f * y = y * f /\ v * y = y * v
        /\ y * f \in Nat /\ y * v \in Nat /\ y * w \in Nat /\ c * f \in Nat
    BY <1>1, <1>3, <1>4, <2>2
  <2>8. Y <= X + z * f BY <1>3, <2>1, <2>3, <2>4, <2>5, <2>6, <2>7
  <2>9. X + z * v <= Y + N * f
    <3>1. X + z * v = (X + s * v) + y * v BY <1>3, <2>5, <2>7
    <3>2. (X + s * v) + y * v <= (R + c * f) + y * w BY <1>3, <2>1, <2>3, <2>5, <2>6, <2>7
    <3>3. (R + c * f) + y * w <= Y + N * f BY <1>7, <2>3, <2>4, <2>6, <2>7
    <3>4. X + z * v \in Nat /\ Y + N * f \in Nat BY <1>3, <1>7, <2>5, <2>7
    <3> QED BY <1>7, <2>3, <2>7, <3>1, <3>2, <3>3, <3>4
  <2> QED BY <2>8, <2>9 DEF z, X, Y, N
<1> QED
  <2>1. n = m \/ n < m BY <1>2, <1>8
  <2> QED BY <1>9, <1>10, <2>1

\* A tail starts at its bottleneck, and a length is where it is, in whole metres.
LEMMA LengthOfTail ==
  ASSUME NEW q, Moving(q), Len(q) # 0
  PROVE  /\ TailAt(q, 0) = 0
         /\ \A h \in Horizons :
              _compute_lengths_piecewise(q)[h] = TailAt(q, Minutes(h)) \div 36000
<1>1. /\ Len(q) \in Nat \ {0} /\ DOMAIN q = 1..Len(q)
      /\ \A n \in 0..Len(q) : Time(q, n) \in Nat /\ Reach(q, n) \in Nat
      /\ \A n \in 0..Len(q), m \in 0..Len(q) : m < n => Time(q, m) < Time(q, n)
      /\ \A i \in DOMAIN q : q[i].wave \in Nat
  BY TimePasses DEF Moving, Walk
<1>2. Time(q, 0) = 0 /\ Reach(q, 0) = 0 BY OneMoreSegment
<1>3. \A n \in 0..Len(q) : Onward(q, n) \in Nat
  <2> TAKE n \in 0..Len(q)
  <2>1. Least(n + 1, Len(q)) \in DOMAIN q BY <1>1 DEF Least
  <2> QED BY <1>1, <2>1 DEF Onward
<1>4. TailAt(q, 0) = 0
  <2> DEFINE n == Passed(q, 0)
  <2>1. n \in 0..Len(q) /\ Time(q, n) <= 0
    <3>1. 0 \in Nat OBVIOUS
    <3> QED BY <3>1, PassedInOrder
  <2>2. n = 0
    <3>1. CASE n > 0
      <4>1. 0 \in 0..Len(q) /\ Time(q, n) \in Nat BY <1>1, <2>1
      <4>2. Time(q, 0) < Time(q, n) BY <1>1, <2>1, <3>1, <4>1
      <4> QED BY <1>2, <2>1, <4>1, <4>2
    <3> QED BY <1>1, <2>1, <3>1
  <2>3. TailAt(q, 0) = 36000 * Reach(q, n) + (0 - Time(q, n)) * Onward(q, n) BY DEF TailAt
  <2>4. Onward(q, 0) \in Nat BY <1>1, <1>3
  <2>5. 0 * Onward(q, 0) = 0 BY <2>4
  <2> QED BY <1>2, <2>2, <2>3, <2>5
<1>5. ASSUME NEW h \in Horizons
      PROVE  _compute_lengths_piecewise(q)[h] = TailAt(q, Minutes(h)) \div 36000
  <2> DEFINE t == Minutes(h)  n == Passed(q, t)  z == (t - Time(q, n)) * Onward(q, n)
  <2>1. t \in Nat
    <3>1. h \in Nat BY CorridorAssumption DEF CorridorAssumption
    <3> QED BY <3>1 DEF Minutes
  <2>2. _compute_lengths_piecewise(q)[h] = Reach(q, n) + z \div 36000
    BY DEF _compute_lengths_piecewise, Passed, Onward
  <2>3. TailAt(q, t) = 36000 * Reach(q, n) + z BY DEF TailAt
  <2> HIDE DEF t
  <2>4. n \in 0..Len(q) /\ Time(q, n) <= t BY <2>1, PassedInOrder
  <2>5. Reach(q, n) \in Nat /\ Onward(q, n) \in Nat /\ t - Time(q, n) \in Nat
    BY <1>1, <1>3, <2>1, <2>4
  <2>6. z \in Nat BY <2>5, Products
  <2> HIDE DEF z, n
  <2>7. (36000 * Reach(q, n) + z) \div 36000 = Reach(q, n) + z \div 36000 BY <2>5, <2>6
  <2> QED BY <2>2, <2>3, <2>7 DEF t
<1> QED BY <1>4, <1>5

\* Rounded to whole metres.
LEMMA RoundedGrowth ==
  ASSUME NEW a \in Nat, NEW b \in Nat, NEW c \in Nat, NEW d \in Nat, NEW e \in Nat,
         b <= a + c, a + d <= b + e
  PROVE  /\ b \div 36000 - a \div 36000 <= c \div 36000 + 1
         /\ b \div 36000 - a \div 36000 >= (d - e) \div 36000
OBVIOUS

\* The slowest and the fastest of some waves.
LEMMA RangeOfWaves ==
  ASSUME NEW W \in SUBSET Nat, IsFiniteSet(W), W # {}
  PROVE  /\ Max(W) \in W /\ Min(W) \in W
         /\ \A w \in W : Min(W) <= w /\ w <= Max(W)
<1>1. Max(W) \in W /\ \A w \in W : Max(W) >= w
  <2>1. \E x \in W : \A y \in W : x >= y BY GreatestExists
  <2> QED BY <2>1, Zenon DEF Max
<1>2. Min(W) \in W /\ \A w \in W : Min(W) <= w
  <2>1. \E x \in W : \A y \in W : x <= y BY LeastExists
  <2> QED BY <2>1, Zenon DEF Min
<1>3. \A w \in W : Max(W) \in Nat /\ w \in Nat BY <1>1
<1> QED BY <1>1, <1>2, <1>3

\* A position that moves at waves between v and f, but for e, and lengths that are
\* this position in whole metres.
Rides(X, v, f, e) ==
  /\ X \in [Nat -> Nat] /\ X[0] = 0
  /\ \A t, u \in Nat : t <= u => X[u] <= X[t] + (u - t) * f /\ X[t] + (u - t) * v <= X[u] + e
Rounds(lengths, X) == \A h \in Horizons : lengths[h] = X[Minutes(h)] \div 36000

LEMMA PositionsFollow ==
  ASSUME NEW p, NEW X, NEW v \in Nat, NEW f \in Nat, NEW n \in Nat,
         Rides(X, v, f, n * f), Rounds(p.lengths, X)
  PROVE  Within(p, v, f, n)
<1> DEFINE at(h) == IF h = 0 THEN 0 ELSE p.lengths[h]
<1>1. ASSUME NEW h \in Horizons \cup {0}, NEW k \in Horizons, h < k
      PROVE  /\ at(k) - at(h) <= (Minutes(k - h) * f) \div 36000 + 1
             /\ at(k) - at(h) >= (Minutes(k - h) * v - n * f) \div 36000
  <2>1. h \in Nat /\ k \in Nat /\ k # 0
    <3>1. Horizons \subseteq Nat BY CorridorAssumption DEF CorridorAssumption
    <3> QED BY <1>1, <3>1
  <2> DEFINE t == Minutes(h)  u == Minutes(k)  z == Minutes(k - h)
  <2>2. t \in Nat /\ u \in Nat /\ t <= u /\ z \in Nat /\ u - t = z BY <1>1, <2>1 DEF Minutes
  <2>3. at(k) = X[u] \div 36000
    <3>1. p.lengths[k] = X[u] \div 36000 BY DEF Rounds
    <3> QED BY <2>1, <3>1
  <2>4. at(h) = X[t] \div 36000
    <3>1. CASE h = 0
      <4>1. t = 0 BY <3>1 DEF Minutes
      <4>2. 0 \div 36000 = 0 OBVIOUS
      <4>3. X[0] = 0 BY DEF Rides
      <4> QED BY <3>1, <4>1, <4>2, <4>3
    <3>2. CASE h # 0
      <4>1. h \in Horizons BY <3>2
      <4>2. p.lengths[h] = X[t] \div 36000 BY <4>1 DEF Rounds
      <4> QED BY <3>2, <4>2
    <3> QED BY <3>1, <3>2
  <2> HIDE DEF t, u, z
  <2>5. X[u] <= X[t] + z * f /\ X[t] + z * v <= X[u] + n * f
    <3>1. X[u] <= X[t] + (u - t) * f /\ X[t] + (u - t) * v <= X[u] + n * f
      BY <2>2, Zenon DEF Rides
    <3> QED BY <2>2, <3>1
  <2>6. X[u] \in Nat /\ X[t] \in Nat BY <2>2, Zenon DEF Rides
  <2>7. z * f \in Nat /\ z * v \in Nat /\ n * f \in Nat BY <2>2, Products
  <2> DEFINE a == X[t]  b == X[u]  c == z * f  d == z * v  e == n * f
  <2> HIDE DEF a, b, c, d, e
  <2>8. /\ b \div 36000 - a \div 36000 <= c \div 36000 + 1
        /\ b \div 36000 - a \div 36000 >= (d - e) \div 36000
    <3>1. a \in Nat /\ b \in Nat /\ c \in Nat /\ d \in Nat /\ e \in Nat
      BY <2>6, <2>7 DEF a, b, c, d, e
    <3>2. b <= a + c /\ a + d <= b + e BY <2>5 DEF a, b, c, d, e
    <3> QED BY <3>1, <3>2, RoundedGrowth
  <2> HIDE DEF at
  <2>9. at(k) = b \div 36000 /\ at(h) = a \div 36000 BY <2>3, <2>4 DEF a, b
  <2>10. /\ at(k) - at(h) <= c \div 36000 + 1
         /\ at(k) - at(h) >= (d - e) \div 36000
    BY <2>8, <2>9
  <2> QED BY <2>10 DEF c, d, e, z
<1> QED BY <1>1 DEF Within

\* A tail without a segment ahead, and one that walks.
LEMMA FreeTail ==
  ASSUME NEW w \in Nat, NEW X, X = [t \in Nat |-> t * w],
         NEW lengths, lengths = [h \in Horizons |-> (Minutes(h) * w) \div 36000]
  PROVE  Rides(X, w, w, 0 * w) /\ Rounds(lengths, X)
<1>1. X \in [Nat -> Nat] /\ X[0] = 0 /\ 0 * w = 0
  <2>1. \A t \in Nat : t * w \in Nat BY Products
  <2>2. 0 * w = 0 OBVIOUS
  <2> QED BY <2>1, <2>2
<1>2. ASSUME NEW t \in Nat, NEW u \in Nat, t <= u
      PROVE  X[u] = X[t] + (u - t) * w
  <2>1. PICK z \in Nat : u = t + z /\ u - t = z
    <3>1. u - t \in Nat /\ u = t + (u - t) BY <1>2
    <3> QED BY <3>1
  <2>2. (t + z) * w = t * w + z * w BY Distributes
  <2> QED BY <2>1, <2>2
<1>3. ASSUME NEW t \in Nat, NEW u \in Nat, t <= u
      PROVE  X[u] <= X[t] + (u - t) * w /\ X[t] + (u - t) * w <= X[u] + 0 * w
  <2>1. X[u] \in Nat BY <1>1
  <2>2. X[u] = X[t] + (u - t) * w BY <1>2, <1>3
  <2>3. 0 * w = 0 BY <1>1
  <2> DEFINE z == (u - t) * w
  <2> HIDE DEF z
  <2>4. X[u] <= X[t] + z /\ X[t] + z <= X[u] + 0 BY <2>1, <2>2 DEF z
  <2> QED BY <2>3, <2>4 DEF z
<1>4. \A h \in Horizons : Minutes(h) \in Nat
  <2>1. Horizons \subseteq Nat BY CorridorAssumption DEF CorridorAssumption
  <2> QED BY <2>1 DEF Minutes
<1>5. Rounds(lengths, X) BY <1>4 DEF Rounds
<1>6. Rides(X, w, w, 0 * w) BY <1>1, <1>3 DEF Rides
<1> QED BY <1>5, <1>6

LEMMA WalkingTail ==
  ASSUME NEW q, Moving(q), Len(q) # 0, NEW v, NEW f, Between(q, v, f)
  PROVE  LET X == [t \in Nat |-> TailAt(q, t)] IN
         /\ Rides(X, v, f, Len(q) * f)
         /\ Rounds(_compute_lengths_piecewise(q), X)
<1> DEFINE X == [t \in Nat |-> TailAt(q, t)]
<1>1. X \in [Nat -> Nat] /\ X[0] = 0
  <2>1. \A t \in Nat : TailAt(q, t) \in Nat BY TailIsNumber
  <2>2. TailAt(q, 0) = 0 BY LengthOfTail
  <2> QED BY <2>1, <2>2
<1>2. ASSUME NEW t \in Nat, NEW u \in Nat, t <= u
      PROVE  X[u] <= X[t] + (u - t) * f /\ X[t] + (u - t) * v <= X[u] + Len(q) * f
  <2>1. X[u] = TailAt(q, u) /\ X[t] = TailAt(q, t) OBVIOUS
  <2> HIDE DEF X
  <2>2. /\ TailAt(q, u) <= TailAt(q, t) + (u - t) * f
        /\ TailAt(q, t) + (u - t) * v <= TailAt(q, u) + Len(q) * f
    BY <1>2, TailAdvances
  <2> QED BY <2>1, <2>2
<1>3. \A h \in Horizons : Minutes(h) \in Nat
  <2>1. Horizons \subseteq Nat BY CorridorAssumption DEF CorridorAssumption
  <2> QED BY <2>1 DEF Minutes
<1>4. ASSUME NEW h \in Horizons
      PROVE  _compute_lengths_piecewise(q)[h] = X[Minutes(h)] \div 36000
  <2>1. _compute_lengths_piecewise(q)[h] = TailAt(q, Minutes(h)) \div 36000 BY LengthOfTail
  <2>2. X[Minutes(h)] = TailAt(q, Minutes(h)) BY <1>3
  <2> QED BY <2>1, <2>2
<1> HIDE DEF X
<1>5. Rounds(_compute_lengths_piecewise(q), X) BY <1>4 DEF Rounds
<1>6. Rides(X, v, f, Len(q) * f) BY <1>1, <1>2 DEF Rides
<1> QED BY <1>5, <1>6 DEF X

\* The slowest and the fastest wave of a walk bound it.
LEMMA WavesOfWalk ==
  ASSUME NEW q, Moving(q), Len(q) # 0, NEW W, W = {s.wave : s \in Range(q)}
  PROVE  Between(q, Min(W), Max(W))
<1>1. /\ Len(q) \in Nat \ {0} /\ DOMAIN q = 1..Len(q)
      /\ \A i \in DOMAIN q : q[i].wave \in Nat
  BY DEF Moving, Walk
<1>2. Range(q) = {q[i] : i \in DOMAIN q} BY Zenon DEF Range
<1>3. \A i \in DOMAIN q : q[i].wave \in W BY <1>2
<1>4. \A w \in W : \E i \in DOMAIN q : w = q[i].wave BY <1>2
<1>5. W \in SUBSET Nat /\ W # {}
  <2>1. 1 \in DOMAIN q BY <1>1
  <2> QED BY <1>1, <1>3, <1>4, <2>1
<1>6. IsFiniteSet(W)
  <2> DEFINE S == DOMAIN q  f == [i \in S |-> q[i].wave]
  <2>1. W = {f[i] : i \in S} BY <1>3, <1>4
  <2>2. IsFiniteSet(S) BY <1>1, FS_Interval
  <2> HIDE DEF S, f
  <2>3. IsFiniteSet({f[i] : i \in S}) BY <2>2, ImageIsFinite
  <2> QED BY <2>1, <2>3
<1> QED
  <2>1. /\ Max(W) \in W /\ Min(W) \in W
        /\ \A w \in W : Min(W) <= w /\ w <= Max(W)
    BY <1>5, <1>6, RangeOfWaves
  <2>2. Max(W) \in Nat /\ Min(W) \in Nat BY <1>5, <2>1
  <2> QED BY <1>3, <2>1, <2>2, Zenon DEF Between

\* Every prediction follows its waves.
LEMMA PredictionWithin ==
  ASSUME NEW c \in Cameras, NEW s, Typed(s), NEW r, RoadTyped(r), IsBottleneck(c, s, r),
         \A i \in DOMAIN Segments(c, s, r) : Segments(c, s, r)[i].wave # 0,
         NEW p, p = _evaluate_bottleneck_piecewise(c, s, r)
  PROVE  Within(p, Min(Waves(p)), Max(Waves(p)), Len(p.segments))
<1> DEFINE q == Segments(c, s, r)
           n == Len(q)
           inflow == _resolve_local_inflow(c, r)
           wave == _lwr_wave_speed(inflow, s.capacity, _resolve_local_speed(c, r), s.lanes, r.free)
           W == {x.wave : x \in Range(q)}
<1>1. /\ p.segments = q
      /\ p.growth = IF n = 0 THEN wave ELSE (Reach(q, n) * 36000) \div Time(q, n)
      /\ p.lengths = IF n = 0 THEN [h \in Horizons |-> (Minutes(h) * wave) \div 36000]
                     ELSE _compute_lengths_piecewise(q)
  BY DEF _evaluate_bottleneck_piecewise
<1>2. Moving(q) /\ n \in Nat
  <2>1. Walk(q) BY SegmentsWalk
  <2> QED BY <2>1 DEF Moving, Walk
<1>3. wave \in Nat \ {0}
  <2>1. inflow \in Nat /\ inflow - s.capacity >= MinDrop /\ _resolve_local_speed(c, r) \in Nat
    BY LocalReadings DEF IsBottleneck
  <2>2. s.capacity \in Nat /\ s.lanes \in 1..MostLanes /\ r.free \in Nat \ {0}
    BY DEF Typed, State, RoadTyped
  <2> HIDE DEF inflow
  <2> QED BY <2>1, <2>2, BottleneckWave
<1>4. n = 0 <=> q = <<>>
  <2>1. n = 0 => q = <<>>
    <3>1. DOMAIN q = 1..n BY <1>2 DEF Moving, Walk
    <3>2. q = [i \in 1..Reached(c, s, r) |-> q[i]] BY DEF Segments
    <3>3. q = [i \in DOMAIN q |-> q[i]] BY <3>2
    <3> HIDE DEF q, n
    <3>4. n = 0 => DOMAIN q = {} BY <3>1
    <3> QED BY <3>3, <3>4
  <2>2. Len(<<>>) = 0 OBVIOUS
  <2> QED BY <2>1, <2>2
<1> HIDE DEF q, n, wave, W
<1>5. CASE n = 0
  <2>1. Waves(p) = {wave} /\ Len(p.segments) = 0 BY <1>1, <1>4, <1>5 DEF Waves, n
  <2>2. Min(Waves(p)) = wave /\ Max(Waves(p)) = wave
    <3>1. {wave} \in SUBSET Nat /\ IsFiniteSet({wave}) /\ {wave} # {} BY <1>3, FS_Singleton
    <3>2. Max({wave}) \in {wave} /\ Min({wave}) \in {wave} BY <3>1, RangeOfWaves
    <3> QED BY <2>1, <3>2
  <2>3. p.lengths = [h \in Horizons |-> (Minutes(h) * wave) \div 36000] BY <1>1, <1>5
  <2> DEFINE X == [t \in Nat |-> t * wave]
  <2>0. X = [t \in Nat |-> t * wave] OBVIOUS
  <2> HIDE DEF X
  <2>4. Rides(X, wave, wave, 0 * wave) /\ Rounds(p.lengths, X)
    <3>1. wave \in Nat BY <1>3
    <3> QED BY <3>1, <2>0, <2>3, FreeTail
  <2>5. wave \in Nat /\ 0 \in Nat BY <1>3
  <2>6. Within(p, wave, wave, 0) BY <2>4, <2>5, PositionsFollow
  <2> QED BY <2>1, <2>2, <2>6
<1>6. CASE n # 0
  <2>1. Waves(p) = W /\ Len(p.segments) = n
    <3>1. p.segments # <<>> BY <1>1, <1>4, <1>6
    <3>2. Waves(p) = {x.wave : x \in Range(p.segments)} BY <3>1, Zenon DEF Waves
    <3> QED BY <1>1, <3>2 DEF W, n
  <2>2. p.lengths = _compute_lengths_piecewise(q) BY <1>1, <1>6
  <2>3. Between(q, Min(W), Max(W)) BY <1>2, <1>6, WavesOfWalk DEF n, W
  <2> DEFINE v == Min(W)  f == Max(W)  X == [t \in Nat |-> TailAt(q, t)]
  <2>4. Rides(X, v, f, n * f) /\ Rounds(p.lengths, X)
    BY <1>2, <1>6, <2>2, <2>3, WalkingTail DEF n
  <2>5. v \in Nat /\ f \in Nat BY <2>3 DEF Between
  <2> HIDE DEF X, v, f
  <2>6. Within(p, v, f, n) BY <1>2, <2>4, <2>5, PositionsFollow
  <2> QED BY <2>1, <2>6 DEF v, f
<1> QED BY <1>5, <1>6

\* There are predictions only from the physics to the end of a tick.
PredictionsLast == phase \notin {"computed", "published"} => predictions = Nothing

LEMMA PredictionsWait == Spec => []PredictionsLast
<1>1. Init => PredictionsLast BY DEF Init, PredictionsLast
<1>2. PredictionsLast /\ [Next]_vars => PredictionsLast'
  <2> SUFFICES ASSUME PredictionsLast, [Next]_vars PROVE PredictionsLast' OBVIOUS
  <2>1. CASE Fetch
    <3>1. predictions' = Nothing BY <2>1, Zenon DEF Fetch
    <3> QED BY <3>1 DEF PredictionsLast
  <2>2. CASE Smooth \/ Measure \/ Promote \/ Derive \/ ApplySituations \/ PhysicsFails
    <3>1. phase \in {"fetched", "smoothed", "measured", "promoted", "derived", "fused"}
      BY <2>2, Zenon DEF Smooth, Measure, Promote, Derive, ApplySituations, PhysicsFails
    <3>2. UNCHANGED predictions
      <4>1. CASE PhysicsFails BY <4>1 DEF PhysicsFails, results
      <4>2. CASE Smooth \/ Measure \/ Promote \/ Derive \/ ApplySituations
        BY <4>2, Zenon DEF Smooth, Measure, Promote, Derive, ApplySituations
      <4> QED BY <2>2, <4>1, <4>2
    <3> QED BY <3>1, <3>2 DEF PredictionsLast
  <2>3. CASE Physics \/ Publish
    <3>1. phase' \in {"computed", "published"} BY <2>3 DEF Physics, Publish
    <3> QED BY <3>1 DEF PredictionsLast
  <2>4. CASE UNCHANGED vars BY <2>4 DEF vars, results, PredictionsLast
  <2> QED BY <2>1, <2>2, <2>3, <2>4 DEF Next
<1> QED BY <1>1, <1>2, PTL DEF Spec

(* Between any two horizons a queue grows as its waves allow, for every    *)
(* corridor and every walk (physics_engine.py:514-573).                    *)
THEOREM QueuesFollowWaves == Spec => []GrowthFollowsWaves
<1>1. IInv /\ PredictionsFollow /\ PredictionsLast /\ ComputedIsSound /\ RoadMoves
      => GrowthFollowsWaves
  <2> DEFINE Fits(p) == Within(p, Min(Waves(p)), Max(Waves(p)), Len(p.segments))
  <2>0. (\A c \in DOMAIN predictions : Fits(predictions[c])) => GrowthFollowsWaves
    BY Zenon DEF GrowthFollowsWaves
  <2> HIDE DEF Fits
  <2> SUFFICES ASSUME IInv, PredictionsFollow, PredictionsLast, ComputedIsSound, RoadMoves,
                      NEW c \in DOMAIN predictions
               PROVE  Fits(predictions[c])
    BY <2>0
  <2>1. phase \in {"computed", "published"} BY DEF PredictionsLast, Nothing
  <2>2. /\ predictions = compute(states, road) /\ ~Raises(states, road)
        /\ road.free \in Nat \ {0}
    BY <2>1 DEF PredictionsFollow, ComputedIsSound, RoadMoves
  <2>3. /\ c \in Bottlenecks(states, road)
        /\ predictions[c] = _evaluate_bottleneck_piecewise(c, states[c], road)
    BY <2>2, Zenon DEF compute
  <2>4. c \in DOMAIN states /\ IsBottleneck(c, states[c], road)
    BY <2>3, Zenon DEF Bottlenecks
  <2>5. c \in Cameras /\ Typed(states[c]) BY <2>4, AreTyped, Zenon DEF IInv
  <2>6. RoadTyped(road) BY <2>2, Zenon DEF IInv, ReadingsTyped, RoadTyped
  <2>7. \A i \in DOMAIN Segments(c, states[c], road) : Segments(c, states[c], road)[i].wave # 0
    BY <2>2, <2>3, Zenon DEF Raises
  <2> QED BY <2>3, <2>4, <2>5, <2>6, <2>7, PredictionWithin, Zenon DEF Fits
<1> QED BY <1>1, Invariance, AdviceInvariance, BandInvariance, PredictionsWait, PTL

=============================================================================
