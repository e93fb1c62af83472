---------------------- MODULE EvaluationLogger_proofs ----------------------
(***************************************************************************)
(* Theorems about EvaluationLogger, for every corridor, every cadence and  *)
(* every stream of camera states and queue predictions; the last one about *)
(* the logger on a road with real queues.                                  *)
(***************************************************************************)
EXTENDS ProphecyOutlook, TLAPS, SequenceTheorems, FiniteSetTheorems

(***************************************************************************)
(* What the operators of the logger return.                                *)
(***************************************************************************)

(* bisect_left stays within the list of cameras.                           *)
LEMMA SouthOfRange ==
  ASSUME NEW source \in Cameras
  PROVE  SouthOf(Chainage[source]) \in 0..CameraCount
<1> DEFINE S == {c \in Cameras : Chainage[c] < Chainage[source]}
<1>1. IsFiniteSet(Cameras) /\ Cardinality(Cameras) = CameraCount
  BY FS_Interval, ConstantsAssumption DEF Cameras
<1>2. S \in SUBSET Cameras
  OBVIOUS
<1> HIDE DEF S
<1>3. IsFiniteSet(S) /\ Cardinality(S) <= CameraCount
  BY <1>1, <1>2, FS_Subset
<1>4. Cardinality(S) \in Nat
  BY <1>3, FS_CardinalityType
<1> QED
  BY <1>3, <1>4, ConstantsAssumption DEF SouthOf, S

(* A tracked prediction becomes a pending prophecy that falls due at least *)
(* MinEta after the tick.                                                  *)
LEMMA MadeIsProphecy ==
  ASSUME NEW source \in Cameras, NEW speed \in Nat, NEW t \in Nat, Tracked(source, speed)
  PROVE  /\ Made(source, speed, t) \in Prophecy
         /\ Made(source, speed, t).status = "pending"
         /\ Made(source, speed, t).created_at = t
         /\ Made(source, speed, t).evaluation_time = NotYet
         /\ Made(source, speed, t).impact >= t + MinEta
<1>1. Eta(source, speed) \in Nat /\ Eta(source, speed) >= MinEta
  <2>1. Chainage[source] - Chainage[UpstreamOf(source)] \in Nat
    BY ConstantsAssumption DEF Tracked
  <2>2. speed \in Nat \ {0}
    BY DEF Tracked
  <2> QED
    BY <2>1, <2>2, ConstantsAssumption DEF Tracked, Eta
<1>2. UpstreamOf(source) \in Cameras
  BY DEF Tracked
<1>3. t + Eta(source, speed) \in Nat /\ t + Eta(source, speed) >= t + MinEta
  BY <1>1, ConstantsAssumption
<1> HIDE DEF Eta
<1> QED
  BY <1>2, <1>3 DEF Made, Prophecy, Statuses, NotYet

(* An arrangement of a set of positions is a sequence over that set.       *)
LEMMA ArrangementIsSeq ==
  ASSUME NEW n \in Nat, NEW S \in SUBSET (1..n), NEW f \in [1..Cardinality(S) -> S]
  PROVE  f \in Seq(S) /\ Len(f) = Cardinality(S) /\ Cardinality(S) \in Nat
<1>1. IsFiniteSet(1..n)
  BY FS_Interval
<1>2. Cardinality(S) \in Nat
  BY <1>1, FS_Subset, FS_CardinalityType
<1>3. f \in Seq(S)
  BY <1>2, SeqDef
<1> QED
  BY <1>2, <1>3, LenProperties

(* The prophecies a tick makes from its predictions.                       *)
LEMMA BatchIsProphecies ==
  ASSUME NEW t \in Nat, NEW forecast \in Forecasts,
         NEW order \in Orders({c \in DOMAIN forecast : Tracked(c, forecast[c])}),
         NEW made, made = [k \in 1..Len(order) |-> Made(order[k], forecast[order[k]], t)]
  PROVE  /\ made \in Seq(Prophecy)
         /\ Len(order) \in Nat
         /\ Len(made) = Len(order)
         /\ \A k \in 1..Len(made) : /\ made[k].status = "pending"
                                    /\ made[k].created_at = t
                                    /\ made[k].evaluation_time = NotYet
                                    /\ made[k].impact >= t + MinEta
<1> DEFINE sources == {c \in DOMAIN forecast : Tracked(c, forecast[c])}
<1>1. sources \in SUBSET (1..CameraCount)
  BY InputsAssumption DEF Cameras
<1>2. order \in [1..Cardinality(sources) -> sources]
  BY DEF Orders
<1>3. order \in Seq(sources) /\ Len(order) \in Nat
  <2> HIDE DEF sources
  <2> QED
    BY <1>1, <1>2, ArrangementIsSeq, ConstantsAssumption
<1>4. ASSUME NEW k \in 1..Len(order)
      PROVE  /\ made[k] \in Prophecy
             /\ made[k].status = "pending"
             /\ made[k].created_at = t
             /\ made[k].evaluation_time = NotYet
             /\ made[k].impact >= t + MinEta
  <2>1. order[k] \in sources
    BY <1>3, ElementOfSeq
  <2>2. /\ order[k] \in Cameras
        /\ forecast[order[k]] \in Nat
        /\ Tracked(order[k], forecast[order[k]])
    BY <2>1, InputsAssumption
  <2>3. made[k] = Made(order[k], forecast[order[k]], t)
    OBVIOUS
  <2> QED
    BY <2>2, <2>3, MadeIsProphecy
<1>5. made \in [1..Len(order) -> Prophecy]
  BY <1>4
<1>6. made \in Seq(Prophecy)
  BY <1>3, <1>5, SeqDef
<1>7. Len(made) = Len(order)
  BY <1>3, <1>5, <1>6, LenProperties
<1> QED
  BY <1>3, <1>4, <1>6, <1>7

(* Lines about prophecies of a book are entries.                           *)
LEMMA EntriesAreEntries ==
  ASSUME NEW b \in Seq(Prophecy), NEW ids \in Seq(DOMAIN b)
  PROVE  Entries(ids, b) \in Seq(Entry)
<1>1. Len(ids) \in Nat
  BY LenProperties
<1>2. ASSUME NEW k \in 1..Len(ids)
      PROVE  [id |-> ids[k], status |-> b[ids[k]].status] \in Entry
  <2>1. ids[k] \in DOMAIN b
    BY ElementOfSeq
  <2>2. ids[k] \in 1..Len(b) /\ Len(b) \in Nat
    BY <2>1, LenProperties
  <2>3. b[ids[k]] \in Prophecy
    BY <2>2, ElementOfSeq
  <2>4. b[ids[k]].status \in Statuses
    BY <2>3 DEF Prophecy
  <2>5. ids[k] \in Nat \ {0}
    BY <2>2
  <2> QED
    BY <2>4, <2>5 DEF Entry
<1>3. Entries(ids, b) \in [1..Len(ids) -> Entry]
  BY <1>2 DEF Entries
<1>4. \A n \in Nat : [1..n -> Entry] \subseteq Seq(Entry)
  BY SeqDef
<1> QED
  BY <1>1, <1>3, <1>4

(* The rolling window keeps entries.                                       *)
LEMMA NewestIsHistory ==
  ASSUME NEW h \in Seq(Entry)
  PROVE  Newest(h) \in Seq(Entry)
<1>1. CASE Len(h) > MaxHistory
  <2>1. Len(h) \in Nat /\ MaxHistory \in Nat
    BY LenProperties, ConstantsAssumption
  <2>2. \A k \in 1..MaxHistory : h[Len(h) - MaxHistory + k] \in Entry
    BY <1>1, <2>1, ElementOfSeq
  <2>3. Newest(h) \in [1..MaxHistory -> Entry]
    BY <1>1, <2>2 DEF Newest
  <2> QED
    BY <2>1, <2>3, SeqDef
<1>2. CASE ~ (Len(h) > MaxHistory)
  BY <1>2 DEF Newest
<1> QED
  BY <1>1, <1>2

(* Whatever a failing write leaves in the file, it is lines.               *)
LEMMA WrittenIsLines ==
  ASSUME NEW lines \in Seq(Entry), NEW wrote \in Written(lines)
  PROVE  wrote \in Seq(Entry)
<1>1. CASE wrote = lines
  BY <1>1
<1>2. ASSUME NEW n \in 0..Len(lines), wrote = SubSeq(lines, 1, n)
      PROVE  wrote \in Seq(Entry)
  <2>1. Len(lines) \in Nat
    BY LenProperties
  <2>2. \A i \in 1..n : lines[i] \in Entry
    BY <2>1, ElementOfSeq
  <2> QED
    BY <1>2, <2>1, <2>2, SubSeqProperties
<1> QED
  BY <1>1, <1>2 DEF Written

(* evaluate_pending changes statuses and evaluation times, nothing else,   *)
(* and only those of pending prophecies.                                   *)
LEMMA BookAfterIsBook ==
  ASSUME book \in Seq(Prophecy), NEW t \in Nat, NEW view
  PROVE  /\ BookAfter(t, view) \in Seq(Prophecy)
         /\ Len(BookAfter(t, view)) = Len(book)
         /\ Len(book) \in Nat
         /\ \A i \in 1..Len(book) :
               BookAfter(t, view)[i] = IF i \in Resolved(t, view) THEN Marked(book[i], t, view) ELSE book[i]
<1>1. Len(book) \in Nat /\ DOMAIN book = 1..Len(book)
  BY LenProperties
<1>2. ASSUME NEW i \in 1..Len(book)
      PROVE  (IF i \in Resolved(t, view) THEN Marked(book[i], t, view) ELSE book[i]) \in Prophecy
  <2>1. book[i] \in Prophecy
    BY ElementOfSeq
  <2>2. ASSUME i \in Resolved(t, view)
        PROVE  Marked(book[i], t, view) \in Prophecy
    <3>1. Verdict(book[i], t, view) \in Statuses
      BY <2>2 DEF Resolved, Settled
    <3> QED
      BY <2>1, <3>1 DEF Marked, Prophecy
  <2> QED
    BY <2>1, <2>2
<1>3. BookAfter(t, view) \in [1..Len(book) -> Prophecy]
  BY <1>1, <1>2 DEF BookAfter
<1>4. BookAfter(t, view) \in Seq(Prophecy)
  BY <1>1, <1>3, SeqDef
<1>5. Len(BookAfter(t, view)) = Len(book)
  BY <1>1, <1>3, <1>4, LenProperties
<1> QED
  BY <1>1, <1>4, <1>5 DEF BookAfter

(* How many prophecies a tick settles is a number.                         *)
LEMMA TalliesAreNumbers ==
  ASSUME TypeOK, NEW t, NEW view
  PROVE  /\ StatsAfter(t, view) \in Totals
         /\ \A S : Cardinality(Settled(t, view, S)) \in Nat
<1>1. Len(book) \in Nat /\ pending \in SUBSET (1..Len(book))
  BY LenProperties DEF TypeOK
<1>2. \A S : Settled(t, view, S) \in SUBSET (1..Len(book))
  BY <1>1 DEF Settled
<1>3. ASSUME NEW S
      PROVE  Cardinality(Settled(t, view, S)) \in Nat
  <2>1. IsFiniteSet(1..Len(book))
    BY <1>1, FS_Interval
  <2> QED
    BY <1>2, <2>1, FS_Subset, FS_CardinalityType
<1>4. stats \in Totals
  BY DEF TypeOK
<1>5. StatsAfter(t, view) \in Totals
  BY <1>3, <1>4 DEF StatsAfter, Totals
<1> QED
  BY <1>3, <1>5

(***************************************************************************)
(* What a step does to the book and the pending list, whichever order and  *)
(* whichever files the step chose: settle, then append m new prophecies.   *)
(***************************************************************************)
Evaluated(t, view, m) ==
  /\ now' = t
  /\ book' \in Seq(Prophecy)
  /\ Len(book') = Len(book) + m
  /\ \A i \in 1..Len(book) : book'[i] = BookAfter(t, view)[i]
  /\ \A i \in (Len(book) + 1)..(Len(book) + m) :
        /\ book'[i].status = "pending"
        /\ book'[i].created_at = t
        /\ book'[i].evaluation_time = NotYet
        /\ book'[i].impact >= t + MinEta
  /\ pending' = StillPending(t, view) \cup ((Len(book) + 1)..(Len(book) + m))
  /\ stats' = [StatsAfter(t, view) EXCEPT !.created = @ + m]
  /\ looks' = LooksAfter(t, DOMAIN view)
  /\ born' = born

(* A tick's timestamp lies after the previous one, by one of the gaps.     *)
LEMMA TickTimesAreLater ==
  ASSUME TypeOK, NEW t \in TickTimes
  PROVE  t \in Nat /\ t > now /\ t - now \in Gaps
BY ConstantsAssumption DEF TypeOK, TickTimes

(* A whole tick evaluates and appends, and keeps the types.                *)
LEMMA TickEvaluates ==
  ASSUME TypeOK, NEW t \in TickTimes, NEW view, NEW forecast \in Forecasts, Tick(t, view, forecast)
  PROVE  /\ \E m \in Nat : Evaluated(t, view, m)
         /\ history' \in Seq(Entry)
         /\ file' \in Seq(Entry)
         /\ faults' \in Nat
<1> DEFINE sources == {c \in DOMAIN forecast : Tracked(c, forecast[c])}
           settled == BookAfter(t, view)
<1>1. t \in Nat
  BY TickTimesAreLater
<1>2. PICK order \in Orders(sources), resolved \in Listing(Resolved(t, view)), judged \in Listing(Judged(t, view)) :
       LET made == [k \in 1..Len(order) |-> Made(order[k], forecast[order[k]], t)]
           ids  == [k \in 1..Len(order) |-> Len(book) + k]
           births   == Entries(ids, settled \o made)
           outcomes == Entries(resolved, settled)
       IN
       /\ book' = BookAfterTick(t, view, made)
       /\ pending' = StillPending(t, view) \cup {ids[k] : k \in DOMAIN ids}
       /\ history' = Newest(history \o Entries(judged, settled) \o births)
       /\ stats' = [StatsAfter(t, view) EXCEPT !.created = @ + Len(order)]
       /\ \E wrote1 \in Written(outcomes), wrote2 \in Written(births) :
            /\ file' = file \o wrote1 \o wrote2
            /\ faults' = IF wrote1 = outcomes /\ wrote2 = births THEN faults ELSE faults + 1
  BY DEF Tick
<1> DEFINE made == [k \in 1..Len(order) |-> Made(order[k], forecast[order[k]], t)]
           ids  == [k \in 1..Len(order) |-> Len(book) + k]
           births   == Entries(ids, settled \o made)
           outcomes == Entries(resolved, settled)
           m == Len(order)
<1>3. /\ made \in Seq(Prophecy)
      /\ m \in Nat
      /\ Len(made) = m
      /\ \A k \in 1..Len(made) : /\ made[k].status = "pending"
                                 /\ made[k].created_at = t
                                 /\ made[k].evaluation_time = NotYet
                                 /\ made[k].impact >= t + MinEta
  <2>1. made = [k \in 1..Len(order) |-> Made(order[k], forecast[order[k]], t)]
    OBVIOUS
  <2> HIDE DEF made
  <2> QED
    BY <1>1, <2>1, BatchIsProphecies
<1>4. book \in Seq(Prophecy) /\ Len(book) \in Nat /\ pending \in SUBSET (1..Len(book))
  BY LenProperties DEF TypeOK
<1>5. settled \in Seq(Prophecy) /\ Len(settled) = Len(book)
  BY <1>1, <1>4, BookAfterIsBook
<1>6. /\ settled \o made \in Seq(Prophecy)
      /\ Len(settled \o made) = Len(book) + m
      /\ \A i \in 1..(Len(book) + m) :
            (settled \o made)[i] = IF i <= Len(book) THEN settled[i] ELSE made[i - Len(book)]
  <2>1. made \in Seq(Prophecy) /\ Len(made) = m
    BY <1>3
  <2> HIDE DEF settled, made, m
  <2>2. /\ settled \o made \in Seq(Prophecy)
        /\ Len(settled \o made) = Len(settled) + Len(made)
        /\ \A i \in 1..(Len(settled) + Len(made)) :
              (settled \o made)[i] = IF i <= Len(settled) THEN settled[i] ELSE made[i - Len(settled)]
    BY <1>5, <2>1, ConcatProperties
  <2> QED
    BY <1>5, <2>1, <2>2
<1>7. book' = settled \o made
  BY <1>2 DEF BookAfterTick
<1>8. Evaluated(t, view, m)
  <2>1. \A i \in 1..Len(book) : book'[i] = settled[i]
    <3> HIDE DEF settled, made, m
    <3> QED
      BY <1>3, <1>4, <1>6, <1>7
  <2>2. ASSUME NEW i \in (Len(book) + 1)..(Len(book) + m)
        PROVE  /\ book'[i].status = "pending"
               /\ book'[i].created_at = t
               /\ book'[i].evaluation_time = NotYet
               /\ book'[i].impact >= t + MinEta
    <3> HIDE DEF settled, made, m
    <3>1. i - Len(book) \in 1..Len(made) /\ book'[i] = made[i - Len(book)]
      BY <1>3, <1>4, <1>6, <1>7
    <3> QED
      BY <1>3, <3>1
  <2>3. {ids[k] : k \in DOMAIN ids} = (Len(book) + 1)..(Len(book) + m)
    <3> DEFINE n == Len(book)
    <3>1. DOMAIN ids = 1..m /\ \A k \in 1..m : ids[k] = n + k
      OBVIOUS
    <3>2. n \in Nat
      BY <1>4
    <3> HIDE DEF ids, m, n
    <3>3. \A j \in (n + 1)..(n + m) : j - n \in 1..m /\ j = n + (j - n)
      BY <1>3, <3>2
    <3>4. \A k \in 1..m : n + k \in (n + 1)..(n + m)
      BY <1>3, <3>2
    <3>5. {ids[k] : k \in DOMAIN ids} = (n + 1)..(n + m)
      BY <3>1, <3>3, <3>4
    <3> QED
      BY <3>5 DEF n
  <2>4. pending' = StillPending(t, view) \cup ((Len(book) + 1)..(Len(book) + m))
    BY <1>2, <2>3
  <2>5. stats' = [StatsAfter(t, view) EXCEPT !.created = @ + m]
    BY <1>2
  <2>6. /\ now' = t
        /\ looks' = LooksAfter(t, DOMAIN view)
        /\ born' = born
    BY DEF Tick
  <2> HIDE DEF made, m
  <2>7. book' \in Seq(Prophecy) /\ Len(book') = Len(book) + m
    BY <1>6, <1>7
  <2> QED
    BY <2>1, <2>2, <2>4, <2>5, <2>6, <2>7 DEF Evaluated
<1>9. births \in Seq(Entry) /\ outcomes \in Seq(Entry) /\ Entries(judged, settled) \in Seq(Entry)
  <2>1. DOMAIN settled = 1..Len(book) /\ DOMAIN (settled \o made) = 1..(Len(book) + m)
    BY <1>5, <1>6, LenProperties
  <2>2. ids \in Seq(DOMAIN (settled \o made))
    <3>1. ids \in [1..m -> 1..(Len(book) + m)]
      <4> HIDE DEF m
      <4> QED
        BY <1>3, <1>4
    <3> QED
      BY <1>3, <2>1, <3>1, SeqDef
  <2>3. resolved \in Seq(DOMAIN settled) /\ judged \in Seq(DOMAIN settled)
    <3>1. /\ Resolved(t, view) \in SUBSET (1..Len(book))
          /\ Judged(t, view) \in SUBSET (1..Len(book))
      BY <1>4 DEF Resolved, Judged, Settled
    <3>2. /\ resolved \in [1..Cardinality(Resolved(t, view)) -> Resolved(t, view)]
          /\ judged \in [1..Cardinality(Judged(t, view)) -> Judged(t, view)]
      BY DEF Listing
    <3>3. resolved \in Seq(Resolved(t, view)) /\ judged \in Seq(Judged(t, view))
      BY <1>4, <3>1, <3>2, ArrangementIsSeq
    <3> QED
      BY <2>1, <3>1, <3>3, SeqMonotonic
  <2>4. births \in Seq(Entry)
    <3> HIDE DEF made, ids
    <3> QED
      BY <1>6, <2>2, EntriesAreEntries
  <2> QED
    BY <1>5, <2>3, <2>4, EntriesAreEntries
<1>10. history' \in Seq(Entry)
  <2> HIDE DEF births
  <2>1. history \in Seq(Entry)
    BY DEF TypeOK
  <2>2. history \o Entries(judged, settled) \o births \in Seq(Entry)
    BY <1>9, <2>1, ConcatProperties
  <2>3. history' = Newest(history \o Entries(judged, settled) \o births)
    BY <1>2 DEF births
  <2> QED
    BY <2>2, <2>3, NewestIsHistory
<1>11. file' \in Seq(Entry) /\ faults' \in Nat
  <2>1. PICK wrote1 \in Written(outcomes), wrote2 \in Written(births) :
            /\ file' = file \o wrote1 \o wrote2
            /\ faults' = IF wrote1 = outcomes /\ wrote2 = births THEN faults ELSE faults + 1
    BY <1>2
  <2> HIDE DEF births, outcomes
  <2>2. wrote1 \in Seq(Entry) /\ wrote2 \in Seq(Entry)
    BY <1>9, WrittenIsLines
  <2> QED
    BY <2>1, <2>2, ConcatProperties DEF TypeOK
<1> QED
  BY <1>3, <1>8, <1>10, <1>11

(* A tick whose write raises has evaluated, and made no prophecy.          *)
LEMMA RaisingEvaluates ==
  ASSUME TypeOK, NEW t \in TickTimes, NEW view, EvaluationRaises(t, view)
  PROVE  /\ Evaluated(t, view, 0)
         /\ history' \in Seq(Entry)
         /\ file' \in Seq(Entry)
         /\ faults' \in Nat
<1>1. t \in Nat
  BY TickTimesAreLater
<1>2. book \in Seq(Prophecy) /\ Len(book) \in Nat /\ pending \in SUBSET (1..Len(book))
  BY LenProperties DEF TypeOK
<1>3. BookAfter(t, view) \in Seq(Prophecy) /\ Len(BookAfter(t, view)) = Len(book)
  BY <1>1, <1>2, BookAfterIsBook
<1>4. (Len(book) + 1)..(Len(book) + 0) = {}
  BY <1>2
<1>5. stats' = [StatsAfter(t, view) EXCEPT !.created = @ + 0]
  <2>1. StatsAfter(t, view) \in Totals /\ stats' = StatsAfter(t, view)
    BY TalliesAreNumbers DEF EvaluationRaises
  <2> QED
    BY <2>1 DEF Totals
<1>6. Evaluated(t, view, 0)
  <2>1. /\ now' = t
        /\ book' = BookAfter(t, view)
        /\ pending' = StillPending(t, view)
        /\ looks' = LooksAfter(t, DOMAIN view)
        /\ born' = born
    BY DEF EvaluationRaises
  <2>2. Len(book') = Len(book) + 0
    BY <1>2, <1>3, <2>1
  <2> QED
    BY <1>3, <1>4, <1>5, <2>1, <2>2 DEF Evaluated
<1>7. PICK judged \in Listing(Judged(t, view)) :
         history' = Newest(history \o Entries(judged, BookAfter(t, view)))
  BY DEF EvaluationRaises
<1>8. judged \in Seq(DOMAIN BookAfter(t, view))
  <2>1. Judged(t, view) \in SUBSET (1..Len(book))
    BY <1>2 DEF Judged, Settled
  <2>2. judged \in [1..Cardinality(Judged(t, view)) -> Judged(t, view)]
    BY DEF Listing
  <2>3. judged \in Seq(Judged(t, view))
    BY <1>2, <2>1, <2>2, ArrangementIsSeq
  <2> QED
    BY <1>3, <2>1, <2>3, SeqMonotonic, LenProperties
<1>9. history' \in Seq(Entry)
  <2>1. history \o Entries(judged, BookAfter(t, view)) \in Seq(Entry)
    BY <1>3, <1>8, EntriesAreEntries, ConcatProperties DEF TypeOK
  <2> QED
    BY <1>7, <2>1, NewestIsHistory
<1> QED
  BY <1>6, <1>9 DEF EvaluationRaises, TypeOK

(* Every step evaluates at a tick, misses a tick, or restarts.             *)
LEMMA StepCases ==
  ASSUME TypeOK, Next
  PROVE  \/ \E t \in TickTimes, view \in Views, m \in Nat : Evaluated(t, view, m)
         \/ \E t \in TickTimes : TickFails(t)
         \/ Restart
<1>1. CASE TickStep
  BY <1>1, TickEvaluates DEF TickStep
<1>2. CASE \E t \in TickTimes, view \in Views : EvaluationRaises(t, view)
  BY <1>2, RaisingEvaluates
<1> QED
  BY <1>1, <1>2 DEF Next

(* The types survive an evaluation.                                        *)
LEMMA EvaluatedTypes ==
  ASSUME TypeOK, NEW t \in TickTimes, NEW view, NEW m \in Nat, Evaluated(t, view, m),
         history' \in Seq(Entry), file' \in Seq(Entry), faults' \in Nat
  PROVE  TypeOK'
<1>1. Len(book) \in Nat /\ pending \in SUBSET (1..Len(book)) /\ DOMAIN book = 1..Len(book)
  BY LenProperties DEF TypeOK
<1>2. book' \in Seq(Prophecy) /\ Len(book') = Len(book) + m
  BY DEF Evaluated
<1>3. DOMAIN book' = 1..(Len(book) + m)
  BY <1>2, LenProperties
<1>4. pending' \in SUBSET DOMAIN book'
  BY <1>1, <1>3 DEF Evaluated, StillPending
<1>5. stats' \in Totals
  <2>1. StatsAfter(t, view) \in Totals
    BY TalliesAreNumbers
  <2>2. \A s \in Totals : [s EXCEPT !.created = @ + m] \in Totals
    BY DEF Totals
  <2>3. stats' = [StatsAfter(t, view) EXCEPT !.created = @ + m]
    BY DEF Evaluated
  <2> QED
    BY <2>1, <2>2, <2>3
<1>6. born' \in 0..Len(book')
  BY <1>1, <1>2 DEF Evaluated, TypeOK
<1>7. DOMAIN looks' \subseteq DOMAIN book' /\ \A i \in DOMAIN looks' : looks'[i] \in Nat
  <2>1. SeenAt(t, DOMAIN view) \subseteq 1..Len(book)
    BY <1>1 DEF SeenAt, TypeOK
  <2>2. /\ DOMAIN looks' = DOMAIN looks \cup SeenAt(t, DOMAIN view)
        /\ \A i \in DOMAIN looks' : looks'[i] = IF i \in DOMAIN looks THEN looks[i] ELSE t
    BY DEF Evaluated, LooksAfter
  <2>3. t \in Nat
    BY TickTimesAreLater
  <2> QED
    BY <1>1, <1>3, <2>1, <2>2, <2>3 DEF TypeOK
<1>8. now' \in Nat
  BY TickTimesAreLater DEF Evaluated
<1> QED
  BY <1>2, <1>4, <1>5, <1>6, <1>7, <1>8 DEF TypeOK

(* Every variable of the logger keeps its type: positions refer to         *)
(* prophecies that exist, and nothing is counted below zero.               *)
THEOREM TypeCorrect == Spec => []TypeOK
<1>1. Init => TypeOK
  BY EmptySeq, ConstantsAssumption DEF Init, TypeOK, NoTotals, Totals
<1>2. TypeOK /\ [Next]_vars => TypeOK'
  <2> SUFFICES ASSUME TypeOK, [Next]_vars
               PROVE  TypeOK'
    OBVIOUS
  <2>1. CASE TickStep
    BY <2>1, TickEvaluates, EvaluatedTypes DEF TickStep
  <2>2. ASSUME NEW t \in TickTimes, NEW view \in Views, EvaluationRaises(t, view)
        PROVE  TypeOK'
    <3>1. /\ Evaluated(t, view, 0)
          /\ history' \in Seq(Entry)
          /\ file' \in Seq(Entry)
          /\ faults' \in Nat
      BY <2>2, RaisingEvaluates
    <3> QED
      BY <3>1, EvaluatedTypes
  <2>3. ASSUME NEW t \in TickTimes, TickFails(t)
        PROVE  TypeOK'
    BY <2>3, TickTimesAreLater DEF TypeOK, TickFails
  <2>4. CASE Restart
    <3>1. Len(book) \in Nat
      BY LenProperties DEF TypeOK
    <3>2. history' \in Seq(Entry)
      BY <2>4, EmptySeq DEF Restart
    <3>3. stats' \in Totals
      BY <2>4 DEF Restart, NoTotals, Totals
    <3> QED
      BY <2>4, <3>1, <3>2, <3>3 DEF TypeOK, Restart
  <2>5. CASE UNCHANGED vars
    BY <2>5 DEF TypeOK, vars
  <2> QED
    BY <2>1, <2>2, <2>3, <2>4, <2>5 DEF Next
<1> QED
  BY <1>1, <1>2, PTL DEF Spec

(***************************************************************************)
(* The inductive invariant behind the theorems that follow.                *)
(***************************************************************************)

\* Prophecies come from the past and fall due no sooner than the shortest ETA.
Dated == \A i \in DOMAIN book : /\ book[i].created_at <= now
                                /\ book[i].impact >= book[i].created_at + MinEta

\* The pending list holds unsettled prophecies only.
Unsettled == \A i \in pending : book[i].status = "pending"

Inv == /\ TypeOK
       /\ Dated
       /\ Unsettled
       /\ NoSelfConfirmation

(* One evaluation preserves each part.                                     *)
LEMMA EvaluatedKeepsInv ==
  ASSUME Inv, NEW t \in TickTimes, NEW view, NEW m \in Nat, Evaluated(t, view, m)
  PROVE  Dated' /\ Unsettled' /\ NoSelfConfirmation'
<1>1. Len(book) \in Nat /\ pending \in SUBSET (1..Len(book)) /\ DOMAIN book = 1..Len(book)
  BY LenProperties DEF Inv, TypeOK
<1>2. DOMAIN book' = 1..(Len(book) + m)
  BY LenProperties DEF Evaluated
<1>3. t \in Nat /\ now \in Nat /\ t > now /\ now' = t
  BY TickTimesAreLater DEF Evaluated, Inv, TypeOK
<1>4. ASSUME NEW i \in 1..Len(book)
      PROVE  /\ book[i] \in Prophecy
             /\ book[i].created_at <= now
             /\ book[i].impact >= book[i].created_at + MinEta
             /\ book[i].evaluation_time # NotYet => book[i].created_at < book[i].evaluation_time
             /\ book'[i] = IF i \in Resolved(t, view) THEN Marked(book[i], t, view) ELSE book[i]
  <2>1. book[i] \in Prophecy
    BY ElementOfSeq DEF Inv, TypeOK
  <2>2. book'[i] = IF i \in Resolved(t, view) THEN Marked(book[i], t, view) ELSE book[i]
    BY <1>1, BookAfterIsBook, <1>3 DEF Evaluated, Inv, TypeOK
  <2> QED
    BY <1>1, <2>1, <2>2 DEF Inv, Dated, NoSelfConfirmation
<1>5. ASSUME NEW i \in 1..Len(book)
      PROVE  /\ book'[i].created_at = book[i].created_at
             /\ book'[i].impact = book[i].impact
             /\ book'[i].evaluation_time = IF i \in Resolved(t, view) THEN t ELSE book[i].evaluation_time
  BY <1>4 DEF Marked, Prophecy
<1>6. ASSUME NEW i \in (Len(book) + 1)..(Len(book) + m)
      PROVE  /\ book'[i].status = "pending"
             /\ book'[i].created_at = t
             /\ book'[i].evaluation_time = NotYet
             /\ book'[i].impact >= t + MinEta
  BY DEF Evaluated
<1>7. \A i \in 1..(Len(book) + m) : i \in 1..Len(book) \/ i \in (Len(book) + 1)..(Len(book) + m)
  BY <1>1
<1>8. Dated'
  <2>1. ASSUME NEW i \in 1..Len(book)
        PROVE  book'[i].created_at <= now' /\ book'[i].impact >= book'[i].created_at + MinEta
    <3>1. book[i].created_at \in Nat
      BY <1>4 DEF Prophecy
    <3> QED
      BY <1>3, <1>4, <1>5, <3>1
  <2>2. ASSUME NEW i \in (Len(book) + 1)..(Len(book) + m)
        PROVE  book'[i].created_at <= now' /\ book'[i].impact >= book'[i].created_at + MinEta
    BY <1>3, <1>6
  <2> QED
    BY <1>2, <1>7, <2>1, <2>2 DEF Dated
<1>9. Unsettled'
  <2>1. ASSUME NEW i \in StillPending(t, view)
        PROVE  book'[i].status = "pending"
    BY <1>1, <1>4 DEF StillPending, Inv, Unsettled
  <2>2. \A i \in (Len(book) + 1)..(Len(book) + m) : book'[i].status = "pending"
    BY <1>6
  <2>3. pending' = StillPending(t, view) \cup ((Len(book) + 1)..(Len(book) + m))
    BY DEF Evaluated
  <2> QED
    BY <2>1, <2>2, <2>3 DEF Unsettled
<1>10. NoSelfConfirmation'
  <2>1. ASSUME NEW i \in 1..Len(book), book'[i].evaluation_time # NotYet
        PROVE  book'[i].created_at < book'[i].evaluation_time
    <3>1. book[i].created_at \in Nat
      BY <1>4 DEF Prophecy
    <3> QED
      BY <1>3, <1>4, <1>5, <2>1, <3>1
  <2> QED
    BY <1>2, <1>6, <1>7, <2>1 DEF NoSelfConfirmation
<1> QED
  BY <1>8, <1>9, <1>10

(* The invariant holds initially and every step keeps it.                  *)
LEMMA InvInductive == Spec => []Inv
<1>1. Init => Inv
  <2> SUFFICES ASSUME Init PROVE Inv
    OBVIOUS
  <2>1. TypeOK
    BY EmptySeq, ConstantsAssumption DEF Init, TypeOK, NoTotals, Totals
  <2>2. book = <<>> /\ pending = {} /\ DOMAIN book = {}
    BY DEF Init
  <2> QED
    BY <2>1, <2>2 DEF Inv, Dated, Unsettled, NoSelfConfirmation
<1>2. Inv /\ TypeOK' /\ [Next]_vars => Inv'
  <2> SUFFICES ASSUME Inv, TypeOK', [Next]_vars
               PROVE  Dated' /\ Unsettled' /\ NoSelfConfirmation'
    BY DEF Inv
  <2>0. TypeOK
    BY DEF Inv
  <2>1. CASE \E t \in TickTimes, view \in Views, m \in Nat : Evaluated(t, view, m)
    BY <2>1, EvaluatedKeepsInv
  <2>2. ASSUME NEW t \in TickTimes, TickFails(t)
        PROVE  Dated' /\ Unsettled' /\ NoSelfConfirmation'
    <3>1. t \in Nat /\ now \in Nat /\ t > now
      BY <2>0, TickTimesAreLater DEF TypeOK
    <3>2. ASSUME NEW i \in DOMAIN book
          PROVE  book[i].created_at \in Nat
      <4>1. book[i] \in Prophecy
        BY <2>0, LenProperties, ElementOfSeq DEF TypeOK
      <4> QED
        BY <4>1 DEF Prophecy
    <3>3. now' = t /\ book' = book /\ pending' = pending
      BY <2>2 DEF TickFails
    <3> QED
      BY <3>1, <3>2, <3>3 DEF Inv, Dated, Unsettled, NoSelfConfirmation
  <2>3. CASE Restart
    BY <2>3 DEF Restart, Inv, Dated, Unsettled, NoSelfConfirmation
  <2>4. CASE UNCHANGED vars
    BY <2>4 DEF vars, Inv, Dated, Unsettled, NoSelfConfirmation
  <2> QED
    BY <2>0, <2>1, <2>2, <2>3, <2>4, StepCases
<1> QED
  BY <1>1, <1>2, TypeCorrect, PTL DEF Spec

(* No prediction confirms itself: every settled prophecy was settled at a  *)
(* tick later than the one that made it.                                   *)
THEOREM NeverSelfConfirming == Spec => []NoSelfConfirmation
<1>1. Inv => NoSelfConfirmation
  BY DEF Inv
<1> QED
  BY <1>1, InvInductive, PTL

(***************************************************************************)
(* Refinement.                                                             *)
(***************************************************************************)

\* The ledger that the contract sees.
Ledger == [i \in 1..Len(book) |-> [due |-> book[i].impact, status |-> book[i].status]]

(* A settled verdict is one the contract allows.                           *)
LEMMA VerdictIsAllowed ==
  ASSUME NEW p \in Prophecy, NEW t \in Nat, NEW view, Verdict(p, t, view) # "pending"
  PROVE  Contract!MaySettle(p.impact, Verdict(p, t, view), t)
<1>1. p.impact \in Nat
  BY DEF Prophecy
<1>2. CASE t > p.impact + Expiry
  <2>1. ~ (t <= p.impact + Expiry)
    BY <1>1, <1>2, ConstantsAssumption
  <2>2. Verdict(p, t, view) = "EXPIRED"
    BY <1>2, <2>1 DEF Verdict
  <2> QED
    BY <1>2, <2>2 DEF Contract!MaySettle
<1>3. CASE ~ (t > p.impact + Expiry)
  <2>1. t <= p.impact + Expiry
    BY <1>1, <1>3, ConstantsAssumption
  <2>2. InWindow(p, t) /\ Verdict(p, t, view) = Observed(p, view)
    BY <1>3, <2>1 DEF Verdict
  <2> QED
    BY <1>1, <2>2 DEF InWindow, Observed, Contract!MaySettle
<1> QED
  BY <1>2, <1>3

(* An evaluation is a step of the contract.                                *)
LEMMA EvaluatedKeepsContract ==
  ASSUME Inv, NEW t \in TickTimes, NEW view, NEW m \in Nat, Evaluated(t, view, m)
  PROVE  Contract!Next
<1>1. Len(book) \in Nat /\ pending \in SUBSET (1..Len(book)) /\ book \in Seq(Prophecy)
  BY LenProperties DEF Inv, TypeOK
<1>2. book' \in Seq(Prophecy) /\ Len(book') = Len(book) + m
  BY DEF Evaluated
<1>3. t \in Nat /\ now \in Nat /\ t > now /\ now' = t
  BY TickTimesAreLater DEF Evaluated, Inv, TypeOK
<1>4. /\ Ledger \in Seq([due : Nat, status : Statuses]) /\ Len(Ledger) = Len(book)
      /\ Ledger' \in Seq([due : Nat, status : Statuses]) /\ Len(Ledger') = Len(book) + m
  <2>1. ASSUME NEW b \in Seq(Prophecy), NEW i \in 1..Len(b)
        PROVE  [due |-> b[i].impact, status |-> b[i].status] \in [due : Nat, status : Statuses]
    <3>1. b[i] \in Prophecy
      BY ElementOfSeq
    <3> QED
      BY <3>1 DEF Prophecy
  <2>2. Ledger \in [1..Len(book) -> [due : Nat, status : Statuses]]
    BY <1>1, <2>1 DEF Ledger
  <2>3. Ledger' \in [1..Len(book') -> [due : Nat, status : Statuses]]
    BY <1>2, <2>1 DEF Ledger
  <2>4. Len(book) \in Nat /\ Len(book') \in Nat
    BY <1>1, <1>2
  <2>5. \A n \in Nat : [1..n -> [due : Nat, status : Statuses]] \subseteq Seq([due : Nat, status : Statuses])
    BY SeqDef
  <2> HIDE DEF Ledger
  <2>6. /\ Ledger \in Seq([due : Nat, status : Statuses])
        /\ Ledger' \in Seq([due : Nat, status : Statuses])
    BY <2>2, <2>3, <2>4, <2>5
  <2> QED
    BY <1>2, <2>2, <2>3, <2>4, <2>6, LenProperties
<1>5. ASSUME NEW i \in 1..Len(book)
      PROVE  \/ Ledger'[i] = Ledger[i]
             \/ /\ Ledger[i].status = "pending"
                /\ Ledger'[i].due = Ledger[i].due
                /\ Contract!MaySettle(Ledger[i].due, Ledger'[i].status, now')
  <2>1. book[i] \in Prophecy
    BY <1>1, ElementOfSeq
  <2>2. book'[i] = IF i \in Resolved(t, view) THEN Marked(book[i], t, view) ELSE book[i]
    <3>1. book'[i] = BookAfter(t, view)[i]
      BY DEF Evaluated
    <3>2. BookAfter(t, view)[i] = IF i \in Resolved(t, view) THEN Marked(book[i], t, view) ELSE book[i]
      BY <1>1, <1>3, BookAfterIsBook
    <3> QED
      BY <3>1, <3>2
  <2>3. /\ Ledger[i] = [due |-> book[i].impact, status |-> book[i].status]
        /\ Ledger'[i] = [due |-> book'[i].impact, status |-> book'[i].status]
    BY <1>1, <1>2 DEF Ledger
  <2>4. CASE i \in Resolved(t, view)
    <3>1. /\ Verdict(book[i], t, view) # "pending"
          /\ book[i].status = "pending"
      BY <2>4 DEF Resolved, Settled, Inv, Unsettled
    <3>2. book'[i].impact = book[i].impact /\ book'[i].status = Verdict(book[i], t, view)
      BY <2>1, <2>2, <2>4 DEF Marked, Prophecy
    <3>3. Contract!MaySettle(book[i].impact, Verdict(book[i], t, view), t)
      BY <1>3, <2>1, <3>1, VerdictIsAllowed
    <3> QED
      BY <1>3, <2>3, <3>1, <3>2, <3>3
  <2>5. CASE i \notin Resolved(t, view)
    BY <2>2, <2>3, <2>5
  <2> QED
    BY <2>4, <2>5
<1>6. ASSUME NEW i \in (Len(book) + 1)..(Len(book) + m)
      PROVE  Ledger'[i].status = "pending" /\ Ledger'[i].due > now'
  <2>1. book'[i].status = "pending" /\ book'[i].impact >= t + MinEta
    BY DEF Evaluated
  <2>2. i \in 1..Len(book')
    BY <1>1, <1>2
  <2>3. book'[i].impact \in Nat
    <3>1. book'[i] \in Prophecy
      BY <1>2, <2>2, ElementOfSeq
    <3> QED
      BY <3>1 DEF Prophecy
  <2>4. Ledger'[i] = [due |-> book'[i].impact, status |-> book'[i].status]
    BY <2>2 DEF Ledger
  <2> QED
    BY <1>3, <2>1, <2>3, <2>4, ConstantsAssumption
<1> HIDE DEF Ledger
<1>7. /\ now' >= now
      /\ Len(Ledger') >= Len(Ledger)
      /\ \A i \in 1..Len(Ledger) :
           \/ Ledger'[i] = Ledger[i]
           \/ /\ Ledger[i].status = "pending"
              /\ Ledger'[i].due = Ledger[i].due
              /\ Contract!MaySettle(Ledger[i].due, Ledger'[i].status, now')
      /\ \A i \in (Len(Ledger) + 1)..Len(Ledger') : Ledger'[i].status = "pending" /\ Ledger'[i].due > now'
  <2>1. now' >= now /\ Len(Ledger') >= Len(Ledger)
    BY <1>1, <1>3, <1>4
  <2>2. 1..Len(Ledger) = 1..Len(book)
    BY <1>4
  <2>3. (Len(Ledger) + 1)..Len(Ledger') = (Len(book) + 1)..(Len(book) + m)
    BY <1>3, <1>4
  <2> QED
    BY <1>5, <1>6, <2>1, <2>2, <2>3, Zenon
<1> QED
  BY <1>7 DEF Contract!Next, Ledger

(* The logger implements the prophecy contract: whatever ticks, views,     *)
(* failures and restarts come, a prophecy is settled at most once, inside  *)
(* its window or after its expiry, and never in the step that makes it.    *)
THEOREM LoggerImplementsContract == Spec => ImplementsContract
<1>1. Init => Contract!Init
  <2> SUFFICES ASSUME Init PROVE Contract!Init
    OBVIOUS
  <2>1. book = <<>> /\ Len(book) = 0 /\ now = 0
    BY EmptySeq DEF Init
  <2>2. [i \in 1..Len(book) |-> [due |-> book[i].impact, status |-> book[i].status]] = <<>>
    BY <2>1
  <2> QED
    BY <2>1, <2>2 DEF Contract!Init
<1>2. Inv /\ [Next]_vars => [Contract!Next]_(Contract!vars)
  <2> SUFFICES ASSUME Inv, [Next]_vars
               PROVE  Contract!Next \/ UNCHANGED Contract!vars
    OBVIOUS
  <2>0. TypeOK /\ Len(book) \in Nat
    BY LenProperties DEF Inv, TypeOK
  <2>1. CASE \E t \in TickTimes, view \in Views, m \in Nat : Evaluated(t, view, m)
    BY <2>1, EvaluatedKeepsContract
  <2>2. ASSUME NEW t \in TickTimes, TickFails(t)
        PROVE  Contract!Next
    <3>1. book' = book /\ now' = t /\ t > now /\ t \in Nat /\ now \in Nat
      BY <2>0, <2>2, TickTimesAreLater DEF TickFails, TypeOK
    <3>2. Ledger' = Ledger /\ Len(Ledger) \in Nat
      <4>1. Ledger \in [1..Len(book) -> [due : {book[i].impact : i \in 1..Len(book)},
                                         status : {book[i].status : i \in 1..Len(book)}]]
        BY DEF Ledger
      <4>2. Ledger \in Seq([due : {book[i].impact : i \in 1..Len(book)},
                            status : {book[i].status : i \in 1..Len(book)}])
        BY <2>0, <4>1, SeqDef
      <4> QED
        BY <3>1, <4>2, LenProperties DEF Ledger
    <3> HIDE DEF Ledger
    <3>3. /\ now' >= now
          /\ Len(Ledger') >= Len(Ledger)
          /\ \A i \in 1..Len(Ledger) : Ledger'[i] = Ledger[i]
          /\ (Len(Ledger) + 1)..Len(Ledger') = {}
      BY <3>1, <3>2
    <3> QED
      BY <3>3 DEF Contract!Next, Ledger
  <2>3. CASE Restart
    BY <2>3 DEF Restart, Contract!vars
  <2>4. CASE UNCHANGED vars
    BY <2>4 DEF vars, Contract!vars
  <2> QED
    BY <2>0, <2>1, <2>2, <2>3, <2>4, StepCases
<1> QED
  BY <1>1, <1>2, InvInductive, PTL DEF Spec, ImplementsContract, Contract!Spec

(***************************************************************************)
(* The running totals.                                                     *)
(***************************************************************************)

\* The prophecies of this process that have a given status.
Mine    == (born + 1)..Len(book)
With(s) == {i \in Mine : book[i].status = s}

Outcomes == {"VERIFIED_SUCCESS", "FAILED", "EXPIRED"}

(* Counting a set and a disjoint set of positions.                         *)
LEMMA DisjointCount ==
  ASSUME NEW n \in Nat, NEW S \in SUBSET (1..n), NEW T \in SUBSET (1..n), S \cap T = {}
  PROVE  Cardinality(S \cup T) = Cardinality(S) + Cardinality(T)
<1>1. IsFiniteSet(1..n)
  BY FS_Interval
<1>2. IsFiniteSet(S) /\ IsFiniteSet(T)
  BY <1>1, FS_Subset
<1>3. Cardinality(S) \in Nat /\ Cardinality(T) \in Nat
  BY <1>2, FS_CardinalityType
<1>4. Cardinality(S \cup T) = Cardinality(S) + Cardinality(T) - Cardinality(S \cap T)
  BY <1>2, FS_Union
<1>5. Cardinality(S \cap T) = 0
  BY FS_EmptySet
<1> QED
  BY <1>3, <1>4, <1>5

(* After an evaluation, what has a final status had it before or was just  *)
(* settled with it, and what is pending is on the pending list.            *)
LEMMA EvaluatedOutcomes ==
  ASSUME Inv, StatsMatchBook, NEW t \in TickTimes, NEW view, NEW m \in Nat, Evaluated(t, view, m)
  PROVE  /\ pending' = With("pending")'
         /\ \A s \in Outcomes : /\ With(s)' = With(s) \cup Settled(t, view, {s})
                                /\ With(s) \cap Settled(t, view, {s}) = {}
<1>1. /\ Len(book) \in Nat /\ book \in Seq(Prophecy)
      /\ born \in 0..Len(book) /\ pending = With("pending")
  BY LenProperties DEF Inv, TypeOK, StatsMatchBook, With, Mine
<1>2. Len(book') = Len(book) + m /\ born' = born
  BY DEF Evaluated
<1>3. t \in Nat
  BY TickTimesAreLater DEF Inv
<1>4. ASSUME NEW i \in Mine
      PROVE  /\ i \in Resolved(t, view) => /\ book[i].status = "pending"
                                           /\ book'[i].status = Verdict(book[i], t, view)
                                           /\ book'[i].status # "pending"
             /\ i \notin Resolved(t, view) => book'[i].status = book[i].status
  <2>1. i \in 1..Len(book)
    BY <1>1 DEF Mine
  <2>2. book[i] \in Prophecy
    BY <1>1, <2>1, ElementOfSeq
  <2>3. book'[i] = IF i \in Resolved(t, view) THEN Marked(book[i], t, view) ELSE book[i]
    <3>1. book'[i] = BookAfter(t, view)[i]
      BY <2>1 DEF Evaluated
    <3> QED
      BY <1>1, <1>3, <2>1, <3>1, BookAfterIsBook
  <2>4. i \in Resolved(t, view) => book[i].status = "pending" /\ Verdict(book[i], t, view) # "pending"
    BY <1>1 DEF Resolved, Settled, With
  <2> QED
    BY <2>2, <2>3, <2>4 DEF Marked, Prophecy
<1>5. ASSUME NEW i \in (Len(book) + 1)..(Len(book) + m)
      PROVE  book'[i].status = "pending"
  BY DEF Evaluated
<1>6. Mine' = Mine \cup ((Len(book) + 1)..(Len(book) + m)) /\ pending \subseteq Mine
  BY <1>1, <1>2 DEF Mine, With
<1>7. pending' = StillPending(t, view) \cup ((Len(book) + 1)..(Len(book) + m))
  BY DEF Evaluated
<1>8. pending' = With("pending")'
  <2>1. ASSUME NEW i \in pending'
        PROVE  i \in With("pending")'
    BY <1>1, <1>4, <1>5, <1>6, <1>7 DEF With, StillPending
  <2>2. ASSUME NEW i \in With("pending")'
        PROVE  i \in pending'
    BY <1>1, <1>4, <1>6, <1>7 DEF With, StillPending
  <2> QED
    BY <2>1, <2>2
<1>9. ASSUME NEW s \in Outcomes
      PROVE  /\ With(s)' = With(s) \cup Settled(t, view, {s})
             /\ With(s) \cap Settled(t, view, {s}) = {}
  <2>1. \A i \in Settled(t, view, {s}) : i \in Resolved(t, view) /\ i \in Mine /\ Verdict(book[i], t, view) = s
    BY <1>6 DEF Settled, Resolved, Outcomes, Statuses
  <2>2. \A i \in Resolved(t, view) : Verdict(book[i], t, view) = s => i \in Settled(t, view, {s})
    BY DEF Settled, Resolved
  <2>3. s # "pending"
    BY DEF Outcomes
  <2>4. ASSUME NEW i \in With(s)'
        PROVE  i \in With(s) \cup Settled(t, view, {s})
    BY <1>4, <1>5, <1>6, <2>2, <2>3 DEF With
  <2>5. ASSUME NEW i \in With(s) \cup Settled(t, view, {s})
        PROVE  i \in With(s)'
    BY <1>4, <1>6, <2>1, <2>3 DEF With
  <2>6. With(s) \cap Settled(t, view, {s}) = {}
    BY <1>4, <2>1, <2>3 DEF With
  <2> QED
    BY <2>4, <2>5, <2>6
<1> QED
  BY <1>8, <1>9

(* The totals that the evaluation endpoint reports are the totals of the   *)
(* prophecies themselves, whatever ticks fail on the way.                  *)
THEOREM TotalsAgreeWithBook == Spec => []StatsMatchBook
<1>1. Init => StatsMatchBook
  <2> SUFFICES ASSUME Init PROVE StatsMatchBook
    OBVIOUS
  <2>1. book = <<>> /\ Len(book) = 0 /\ born = 0 /\ pending = {} /\ stats = NoTotals
    BY EmptySeq DEF Init
  <2>2. (born + 1)..Len(book) = {}
    BY <2>1
  <2> QED
    BY <2>1, <2>2, FS_EmptySet DEF StatsMatchBook, NoTotals
<1>2. Inv /\ StatsMatchBook /\ [Next]_vars => StatsMatchBook'
  <2> SUFFICES ASSUME Inv, StatsMatchBook, [Next]_vars
               PROVE  StatsMatchBook'
    OBVIOUS
  <2>0. /\ TypeOK /\ Len(book) \in Nat /\ born \in 0..Len(book) /\ stats \in Totals
        /\ pending \in SUBSET (1..Len(book))
    BY LenProperties DEF Inv, TypeOK
  <2>1. ASSUME NEW t \in TickTimes, NEW view \in Views, NEW m \in Nat, Evaluated(t, view, m)
        PROVE  StatsMatchBook'
    <3>1. ASSUME NEW s \in Outcomes
          PROVE  Cardinality(With(s)') = Cardinality(With(s)) + Cardinality(Settled(t, view, {s}))
      <4>1. With(s) \in SUBSET (1..Len(book)) /\ Settled(t, view, {s}) \in SUBSET (1..Len(book))
        <5>1. With(s) \in SUBSET (1..Len(book))
          BY <2>0 DEF With, Mine
        <5>2. Settled(t, view, {s}) \in SUBSET (1..Len(book))
          BY <2>0 DEF Settled
        <5> QED
          BY <5>1, <5>2
      <4>2. /\ With(s)' = With(s) \cup Settled(t, view, {s})
            /\ With(s) \cap Settled(t, view, {s}) = {}
        BY <2>1, EvaluatedOutcomes
      <4> QED
        BY <2>0, <4>1, <4>2, DisjointCount
    <3>2. stats' = [StatsAfter(t, view) EXCEPT !.created = @ + m]
      BY <2>1 DEF Evaluated
    <3>3. /\ stats'.created = stats.created + m
          /\ stats'.verified = stats.verified + Cardinality(Settled(t, view, {"VERIFIED_SUCCESS"}))
          /\ stats'.failed = stats.failed + Cardinality(Settled(t, view, {"FAILED"}))
          /\ stats'.expired = stats.expired + Cardinality(Settled(t, view, {"EXPIRED"}))
      BY <3>2 DEF StatsAfter
    <3>4. stats'.created = Cardinality(Mine')
      <4>1. Len(book') = Len(book) + m /\ born' = born
        BY <2>1 DEF Evaluated
      <4>2. Cardinality(Mine) = Len(book) - born /\ Cardinality(Mine') = Len(book) + m - born
        <5>1. /\ born + 1 \in Int /\ born \in Int
              /\ Len(book) \in Int /\ Len(book) >= born
              /\ Len(book) + m \in Int /\ Len(book) + m >= born
          BY <2>0
        <5>2. \A b \in Int : b >= born => Cardinality((born + 1)..b) = b - born
          <6>1. SUFFICES ASSUME NEW b \in Int, b >= born
                         PROVE  Cardinality((born + 1)..b) = b - born
            OBVIOUS
          <6>2. Cardinality((born + 1)..b) = IF born + 1 > b THEN 0 ELSE b - (born + 1) + 1
            BY <5>1, FS_Interval
          <6> QED
            BY <5>1, <6>1, <6>2
        <5>3. Mine = (born + 1)..Len(book) /\ Mine' = (born + 1)..(Len(book) + m)
          BY <4>1 DEF Mine
        <5> QED
          BY <5>1, <5>2, <5>3
      <4> QED
        BY <2>0, <3>3, <4>2 DEF StatsMatchBook, Mine
    <3>5. /\ stats.verified = Cardinality(With("VERIFIED_SUCCESS"))
          /\ stats.failed = Cardinality(With("FAILED"))
          /\ stats.expired = Cardinality(With("EXPIRED"))
      BY DEF StatsMatchBook, With, Mine
    <3>6. pending' = With("pending")'
      BY <2>1, EvaluatedOutcomes
    <3>7. /\ stats'.verified = Cardinality(With("VERIFIED_SUCCESS")')
          /\ stats'.failed = Cardinality(With("FAILED")')
          /\ stats'.expired = Cardinality(With("EXPIRED")')
      BY <3>1, <3>3, <3>5 DEF Outcomes
    <3> QED
      BY <3>4, <3>6, <3>7 DEF StatsMatchBook, With, Mine
  <2>2. ASSUME NEW t \in TickTimes, TickFails(t)
        PROVE  StatsMatchBook'
    BY <2>2 DEF TickFails, StatsMatchBook
  <2>3. CASE Restart
    <3>1. Len(book') = Len(book) /\ born' = Len(book) /\ pending' = {} /\ stats' = NoTotals
      BY <2>3 DEF Restart
    <3>2. (born' + 1)..Len(book') = {}
      BY <2>0, <3>1
    <3> QED
      BY <3>1, <3>2, FS_EmptySet DEF StatsMatchBook, NoTotals
  <2>4. CASE UNCHANGED vars
    BY <2>4 DEF vars, StatsMatchBook
  <2> QED
    BY <2>0, <2>1, <2>2, <2>3, <2>4, StepCases
<1> QED
  BY <1>1, <1>2, InvInductive, PTL DEF Spec

(***************************************************************************)
(* The first look.                                                         *)
(***************************************************************************)

\* Nothing is written off before its time, so its window has closed for good.
WrittenOffLate == \A i \in DOMAIN book : book[i].status = "EXPIRED" => now > book[i].impact + Expiry

(* A pending prophecy is judged by exactly the ticks that look at it.      *)
LEMMA JudgedIffSeen ==
  ASSUME NEW p \in Prophecy, NEW t \in Nat, NEW view
  PROVE  Verdict(p, t, view) \in {"VERIFIED_SUCCESS", "FAILED"} <=>
           t \in (p.impact - Tolerance)..(p.impact + Tolerance) /\ p.target \in DOMAIN view
<1>1. p.impact \in Nat /\ Tolerance \in Nat /\ Expiry \in Nat /\ Tolerance <= Expiry
  BY ConstantsAssumption DEF Prophecy
<1>2. InWindow(p, t) <=> t \in (p.impact - Tolerance)..(p.impact + Tolerance)
  BY <1>1 DEF InWindow
<1>3. InWindow(p, t) => t <= p.impact + Expiry
  BY <1>1 DEF InWindow
<1>4. Observed(p, view) \in {"VERIFIED_SUCCESS", "FAILED"}
  BY DEF Observed
<1>5. CASE t > p.impact + Expiry
  <2>1. ~ (t <= p.impact + Expiry)
    BY <1>1, <1>5
  <2>2. Verdict(p, t, view) = "EXPIRED"
    BY <1>5, <2>1 DEF Verdict
  <2> QED
    BY <1>2, <1>3, <2>1, <2>2
<1>6. CASE t <= p.impact + Expiry
  <2>1. ~ (t > p.impact + Expiry)
    BY <1>1, <1>6
  <2>2. CASE InWindow(p, t) /\ p.target \in DOMAIN view
    BY <1>2, <1>4, <1>6, <2>1, <2>2 DEF Verdict
  <2>3. CASE ~ (InWindow(p, t) /\ p.target \in DOMAIN view)
    BY <1>2, <1>6, <2>1, <2>3 DEF Verdict
  <2> QED
    BY <2>2, <2>3
<1> QED
  BY <1>1, <1>5, <1>6

(* An evaluation judges what it looks at for the first time, and looks at  *)
(* nothing that was settled before without having been looked at.          *)
LEMMA EvaluatedLooks ==
  ASSUME Inv, StatsMatchBook, FirstLookDecides, WrittenOffLate,
         NEW t \in TickTimes, NEW view, NEW m \in Nat, Evaluated(t, view, m)
  PROVE  FirstLookDecides' /\ WrittenOffLate'
<1> DEFINE seen == SeenAt(t, DOMAIN view)
           judged == {"VERIFIED_SUCCESS", "FAILED"}
<1>1. /\ Len(book) \in Nat /\ DOMAIN book = 1..Len(book) /\ born \in 0..Len(book)
      /\ pending \subseteq DOMAIN book /\ DOMAIN looks \subseteq DOMAIN book
  BY LenProperties DEF Inv, TypeOK
<1>2. t \in Nat /\ now \in Nat /\ t > now /\ now' = t
  BY TickTimesAreLater DEF Inv, TypeOK, Evaluated
<1>3. DOMAIN book' = 1..(Len(book) + m)
  BY LenProperties DEF Evaluated
<1>4. /\ DOMAIN looks' = DOMAIN looks \cup seen
      /\ \A i \in DOMAIN looks' : looks'[i] = IF i \in DOMAIN looks THEN looks[i] ELSE t
  BY DEF Evaluated, LooksAfter
<1>5. pending = {i \in (born + 1)..Len(book) : book[i].status = "pending"}
  BY DEF StatsMatchBook
<1>6. ASSUME NEW i \in 1..Len(book)
      PROVE  /\ book[i] \in Prophecy
             /\ book[i].impact \in Nat
             /\ book'[i] = IF i \in Resolved(t, view) THEN Marked(book[i], t, view) ELSE book[i]
  <2>1. book \in Seq(Prophecy)
    BY DEF Inv, TypeOK
  <2>2. book[i] \in Prophecy
    BY <2>1, ElementOfSeq
  <2>3. book[i].impact \in Nat
    BY <2>2 DEF Prophecy
  <2>4. book'[i] = BookAfter(t, view)[i]
    BY DEF Evaluated
  <2>5. BookAfter(t, view)[i] = IF i \in Resolved(t, view) THEN Marked(book[i], t, view) ELSE book[i]
    BY <1>2, <2>1, BookAfterIsBook
  <2> QED
    BY <2>2, <2>3, <2>4, <2>5
<1>7. \A i \in 1..Len(book) : i \in seen <=>
         /\ i > born /\ book[i].target \in DOMAIN view
         /\ t \in (book[i].impact - Tolerance)..(book[i].impact + Tolerance)
  BY <1>1 DEF SeenAt
<1>8. seen \subseteq 1..Len(book)
  BY <1>1 DEF SeenAt
<1> HIDE DEF seen
<1>9. ASSUME NEW i \in 1..Len(book)
      PROVE  /\ book'[i].status \in judged <=> i \in DOMAIN looks'
             /\ i \in DOMAIN looks' => book'[i].evaluation_time = looks'[i]
             /\ book'[i].status = "EXPIRED" => t > book'[i].impact + Expiry
  <2>1. /\ book[i].status \in judged <=> i \in DOMAIN looks
        /\ i \in DOMAIN looks => book[i].evaluation_time = looks[i]
        /\ book[i].status = "EXPIRED" => now > book[i].impact + Expiry
    BY <1>1 DEF FirstLookDecides, WrittenOffLate
  <2>2. book[i] \in Prophecy /\ book[i].impact \in Nat /\ book[i].status \in Statuses
    BY <1>6 DEF Prophecy
  <2>3. CASE i \in pending
    <3>1. i > born /\ book[i].status = "pending" /\ i \notin DOMAIN looks
      BY <1>1, <1>5, <2>1, <2>3
    <3>2. Verdict(book[i], t, view) \in judged <=> i \in seen
      BY <1>2, <1>7, <2>2, <3>1, JudgedIffSeen
    <3>3. CASE i \in Resolved(t, view)
      <4>1. /\ book'[i].status = Verdict(book[i], t, view) /\ book'[i].evaluation_time = t
            /\ book'[i].impact = book[i].impact
        BY <1>6, <2>2, <3>3 DEF Marked, Prophecy
      <4>2. Verdict(book[i], t, view) = "EXPIRED" => t > book[i].impact + Expiry
        BY <1>2, <2>2, ConstantsAssumption DEF Verdict, Observed
      <4> QED
        BY <1>4, <3>1, <3>2, <4>1, <4>2
    <3>4. CASE i \notin Resolved(t, view)
      <4>1. book'[i] = book[i]
        BY <1>6, <3>4
      <4>2. Verdict(book[i], t, view) \notin judged
        BY <2>3, <3>4 DEF Resolved, Settled, Statuses
      <4> QED
        BY <1>4, <3>1, <3>2, <4>1, <4>2
    <3> QED
      BY <3>3, <3>4
  <2>4. CASE i \notin pending
    <3>1. book'[i] = book[i]
      BY <1>6, <2>4 DEF Resolved, Settled
    <3>2. i \in seen => i \in DOMAIN looks
      <4>1. SUFFICES ASSUME i \in seen, i \notin DOMAIN looks
                     PROVE  FALSE
        OBVIOUS
      <4>2. i > born /\ t <= book[i].impact + Tolerance
        BY <1>7, <4>1, <2>2, ConstantsAssumption
      <4>3. book[i].status # "pending"
        BY <1>1, <1>5, <2>4, <4>2
      <4>4. now > book[i].impact + Expiry
        BY <2>1, <2>2, <4>1, <4>3 DEF Statuses
      <4> QED
        BY <1>2, <2>2, <4>2, <4>4, ConstantsAssumption
    <3>3. book[i].status = "EXPIRED" => t > book[i].impact + Expiry
      BY <1>2, <2>1, <2>2, ConstantsAssumption
    <3> QED
      BY <1>4, <2>1, <3>1, <3>2, <3>3
  <2> QED
    BY <2>3, <2>4
<1>10. ASSUME NEW i \in (Len(book) + 1)..(Len(book) + m)
       PROVE  book'[i].status = "pending" /\ i \notin DOMAIN looks'
  BY <1>1, <1>4, <1>8 DEF Evaluated
<1>11. \A i \in 1..(Len(book) + m) : i \in 1..Len(book) \/ i \in (Len(book) + 1)..(Len(book) + m)
  BY <1>1
<1> QED
  BY <1>2, <1>3, <1>9, <1>10, <1>11 DEF FirstLookDecides, WrittenOffLate

(* The first look decides: a prophecy is judged exactly if some tick of    *)
(* its process had data inside its window, and at the first such tick, for *)
(* every sequence of gaps between ticks, failed ticks and restarts; so     *)
(* EXPIRED means that nothing was seen (docs/handoff.md:254-256).          *)
THEOREM FirstLooksDecide == Spec => []FirstLookDecides
<1> DEFINE Looked == FirstLookDecides /\ WrittenOffLate
<1>1. Init => Looked
  <2> SUFFICES ASSUME Init PROVE Looked
    OBVIOUS
  <2>1. DOMAIN book = {}
    BY DEF Init
  <2> QED
    BY <2>1 DEF FirstLookDecides, WrittenOffLate
<1>2. Inv /\ StatsMatchBook /\ Looked /\ [Next]_vars => Looked'
  <2> SUFFICES ASSUME Inv, StatsMatchBook, FirstLookDecides, WrittenOffLate, [Next]_vars
               PROVE  FirstLookDecides' /\ WrittenOffLate'
    OBVIOUS
  <2>0. TypeOK
    BY DEF Inv
  <2>1. CASE \E t \in TickTimes, view \in Views, m \in Nat : Evaluated(t, view, m)
    BY <2>1, EvaluatedLooks
  <2>2. ASSUME NEW t \in TickTimes, TickFails(t)
        PROVE  FirstLookDecides' /\ WrittenOffLate'
    <3>1. t \in Nat /\ now \in Nat /\ t > now
      BY <2>0, TickTimesAreLater DEF TypeOK
    <3>2. now' = t /\ book' = book /\ looks' = looks
      BY <2>2 DEF TickFails
    <3>3. ASSUME NEW i \in DOMAIN book
          PROVE  book[i].impact \in Nat
      <4>1. book[i] \in Prophecy
        BY <2>0, LenProperties, ElementOfSeq DEF TypeOK
      <4> QED
        BY <4>1 DEF Prophecy
    <3>4. FirstLookDecides'
      BY <3>2 DEF FirstLookDecides
    <3>5. WrittenOffLate'
      BY <3>1, <3>2, <3>3, ConstantsAssumption DEF WrittenOffLate
    <3> QED
      BY <3>4, <3>5
  <2>3. CASE Restart
    BY <2>3 DEF Restart, FirstLookDecides, WrittenOffLate
  <2>4. CASE UNCHANGED vars
    BY <2>4 DEF vars, FirstLookDecides, WrittenOffLate
  <2> QED
    BY <2>0, <2>1, <2>2, <2>3, <2>4, StepCases
<1>3. Looked => FirstLookDecides
  OBVIOUS
<1> HIDE DEF Looked
<1> QED
  BY <1>1, <1>2, <1>3, InvInductive, TotalsAgreeWithBook, PTL DEF Spec

(***************************************************************************)
(* Sequences of lines.                                                     *)
(***************************************************************************)
LEMMA EntriesSay ==
  ASSUME NEW b \in Seq(Prophecy), NEW ids \in Seq(DOMAIN b)
  PROVE  /\ Entries(ids, b) \in Seq(Entry) /\ Len(Entries(ids, b)) = Len(ids)
         /\ \A k \in 1..Len(ids) : Entries(ids, b)[k] = [id |-> ids[k], status |-> b[ids[k]].status]
<1>1. Entries(ids, b) \in Seq(Entry) BY EntriesAreEntries
<1>2. DOMAIN Entries(ids, b) = 1..Len(ids) /\ Len(ids) \in Nat BY LenProperties DEF Entries
<1>3. Len(Entries(ids, b)) \in Nat /\ DOMAIN Entries(ids, b) = 1..Len(Entries(ids, b))
  <2> HIDE DEF Entries
  <2> QED BY <1>1, LenProperties
<1>4. Len(Entries(ids, b)) = Len(ids) BY <1>2, <1>3
<1> QED BY <1>1, <1>4 DEF Entries

(* A listing names each element once.                                      *)
LEMMA ListingNamesAll ==
  ASSUME NEW n \in Nat, NEW S \in SUBSET (1..n), NEW f \in Listing(S)
  PROVE  /\ f \in Seq(S)
         /\ \A j, k \in 1..Len(f) : j < k => f[j] # f[k]
         /\ \A i \in S : \E k \in 1..Len(f) : f[k] = i
<1> DEFINE c == Cardinality(S)
<1>1. f \in [1..c -> S] /\ \A j, k \in 1..c : j < k => f[j] < f[k] BY DEF Listing
<1>2. f \in Seq(S) /\ Len(f) = c /\ c \in Nat BY <1>1, ArrangementIsSeq
<1> HIDE DEF c
<1>3. \A k \in 1..c : f[k] \in Nat
  <2>1. \A k \in 1..c : f[k] \in 1..n BY <1>1
  <2> QED BY <2>1
<1>4. \A j, k \in 1..c : j < k => f[j] # f[k] BY <1>1, <1>3
<1>5. f \in Injection(1..c, S)
  <2>1. \A j, k \in 1..c : f[j] = f[k] => j = k BY <1>2, <1>4
  <2> QED BY <1>1, <2>1 DEF Injection, IsInjective
<1>6. IsFiniteSet(S) /\ Cardinality(1..c) = c
  <2>1. IsFiniteSet(1..n) BY FS_Interval
  <2>2. IsFiniteSet(S) BY <2>1, FS_Subset
  <2>3. Cardinality(1..c) = IF 1 > c THEN 0 ELSE c - 1 + 1 BY <1>2, FS_Interval
  <2> QED BY <1>2, <2>2, <2>3
<1>7. f \in Surjection(1..c, S) BY <1>5, <1>6, FS_Injection DEF c
<1>8. \A i \in S : \E k \in 1..c : f[k] = i BY <1>7 DEF Surjection
<1> QED BY <1>2, <1>4, <1>8

(* Where a line of three batches comes from.                               *)
LEMMA ThreeBatches ==
  ASSUME NEW a \in Seq(Entry), NEW b \in Seq(Entry), NEW c \in Seq(Entry)
  PROVE  LET all == a \o b \o c  la == Len(a)  lb == Len(b)  lc == Len(c) IN
         /\ all \in Seq(Entry) /\ Len(all) = la + lb + lc
         /\ la \in Nat /\ lb \in Nat /\ lc \in Nat
         /\ \A k \in 1..la : all[k] = a[k]
         /\ \A k \in 1..lb : all[la + k] = b[k]
         /\ \A k \in 1..Len(all) :
              \/ k \in 1..la /\ all[k] = a[k]
              \/ k - la \in 1..lb /\ all[k] = b[k - la]
              \/ k - (la + lb) \in 1..lc /\ all[k] = c[k - (la + lb)]
<1> DEFINE ab == a \o b
<1>1. /\ ab \in Seq(Entry) /\ Len(ab) = Len(a) + Len(b)
      /\ \A k \in 1..(Len(a) + Len(b)) : ab[k] = IF k <= Len(a) THEN a[k] ELSE b[k - Len(a)]
  BY ConcatProperties
<1>2. Len(a) \in Nat /\ Len(b) \in Nat /\ Len(c) \in Nat BY LenProperties
<1> HIDE DEF ab
<1>3. /\ ab \o c \in Seq(Entry) /\ Len(ab \o c) = Len(ab) + Len(c)
      /\ \A k \in 1..(Len(ab) + Len(c)) : (ab \o c)[k] = IF k <= Len(ab) THEN ab[k] ELSE c[k - Len(ab)]
  <2>1. ab \in Seq(Entry) BY <1>1
  <2> QED BY <2>1, ConcatProperties
<1> DEFINE all == ab \o c
<1>4. /\ all \in Seq(Entry) /\ Len(all) = Len(a) + Len(b) + Len(c)
      /\ \A k \in 1..(Len(a) + Len(b) + Len(c)) :
           all[k] = IF k <= Len(a) THEN a[k]
                    ELSE IF k <= Len(a) + Len(b) THEN b[k - Len(a)] ELSE c[k - (Len(a) + Len(b))]
  BY <1>1, <1>2, <1>3
<1> HIDE DEF all
<1>5. \A k \in 1..Len(a) : all[k] = a[k] BY <1>2, <1>4
<1>6. \A k \in 1..Len(b) : all[Len(a) + k] = b[k]
  <2> SUFFICES ASSUME NEW k \in 1..Len(b) PROVE all[Len(a) + k] = b[k] OBVIOUS
  <2>1. /\ Len(a) + k \in 1..(Len(a) + Len(b) + Len(c)) /\ ~ (Len(a) + k <= Len(a))
        /\ Len(a) + k <= Len(a) + Len(b) /\ (Len(a) + k) - Len(a) = k
    BY <1>2
  <2> QED BY <1>4, <2>1
<1>7. ASSUME NEW k \in 1..Len(all)
      PROVE  \/ k \in 1..Len(a) /\ all[k] = a[k]
             \/ k - Len(a) \in 1..Len(b) /\ all[k] = b[k - Len(a)]
             \/ k - (Len(a) + Len(b)) \in 1..Len(c) /\ all[k] = c[k - (Len(a) + Len(b))]
  <2>1. CASE k <= Len(a) BY <1>2, <1>4, <2>1
  <2>2. CASE ~ (k <= Len(a)) /\ k <= Len(a) + Len(b) BY <1>2, <1>4, <2>2
  <2>3. CASE ~ (k <= Len(a)) /\ ~ (k <= Len(a) + Len(b)) BY <1>2, <1>4, <2>3
  <2> QED BY <2>1, <2>2, <2>3
<1>8. all = a \o b \o c BY DEF all, ab
<1> QED BY <1>2, <1>4, <1>5, <1>6, <1>7, <1>8

(* The rolling window is the end of what it is taken from.                 *)
LEMMA NewestIsEnd ==
  ASSUME NEW h \in Seq(Entry)
  PROVE  \E d \in Nat : /\ Newest(h) \in Seq(Entry) /\ Len(h) = d + Len(Newest(h))
                        /\ \A k \in 1..Len(Newest(h)) : Newest(h)[k] = h[d + k]
<1>1. Newest(h) \in Seq(Entry) /\ Len(h) \in Nat BY NewestIsHistory, LenProperties
<1>2. CASE Len(h) > MaxHistory
  <2>1. Newest(h) = [k \in 1..MaxHistory |-> h[Len(h) - MaxHistory + k]] BY <1>2 DEF Newest
  <2>2. MaxHistory \in Nat /\ Len(h) - MaxHistory \in Nat BY <1>1, <1>2, ConstantsAssumption
  <2>3. DOMAIN Newest(h) = 1..MaxHistory BY <2>1
  <2>4. Len(Newest(h)) \in Nat /\ DOMAIN Newest(h) = 1..Len(Newest(h)) BY <1>1, LenProperties
  <2>5. Len(Newest(h)) = MaxHistory BY <2>2, <2>3, <2>4
  <2>6. Len(h) = (Len(h) - MaxHistory) + MaxHistory BY <1>1, <2>2
  <2> QED BY <1>1, <2>1, <2>2, <2>5, <2>6
<1>3. CASE ~ (Len(h) > MaxHistory)
  <2>1. Newest(h) = h BY <1>3 DEF Newest
  <2>2. 0 \in Nat /\ Len(h) = 0 + Len(h) /\ \A k \in 1..Len(h) : 0 + k = k BY <1>1
  <2> QED BY <1>1, <2>1, <2>2
<1> QED BY <1>2, <1>3

(* A write that was cut short left the beginning of its lines.             *)
LEMMA WrittenIsPrefix ==
  ASSUME NEW lines \in Seq(Entry), NEW wrote \in Written(lines)
  PROVE  /\ wrote \in Seq(Entry) /\ Len(wrote) \in 0..Len(lines)
         /\ \A k \in 1..Len(wrote) : wrote[k] = lines[k]
<1>1. Len(lines) \in Nat BY LenProperties
<1>2. CASE wrote = lines BY <1>1, <1>2
<1>3. ASSUME NEW n \in 0..Len(lines), wrote = SubSeq(lines, 1, n)
      PROVE  /\ wrote \in Seq(Entry) /\ Len(wrote) \in 0..Len(lines)
             /\ \A k \in 1..Len(wrote) : wrote[k] = lines[k]
  <2>1. 1 \in Int /\ n \in Int /\ \A i \in 1..n : lines[i] \in Entry BY <1>1, ElementOfSeq
  <2>2. /\ SubSeq(lines, 1, n) \in Seq(Entry)
        /\ Len(SubSeq(lines, 1, n)) = IF 1 <= n THEN n - 1 + 1 ELSE 0
        /\ \A i \in 1..(n - 1 + 1) : SubSeq(lines, 1, n)[i] = lines[1 + i - 1]
    BY <2>1, SubSeqProperties
  <2>3. n - 1 + 1 = n /\ \A i \in 1..n : 1 + i - 1 = i BY <1>1
  <2>4. Len(wrote) = n BY <1>1, <1>3, <2>2, <2>3
  <2> QED BY <1>3, <2>2, <2>3, <2>4
<1> QED BY <1>2, <1>3 DEF Written

(***************************************************************************)
(* What a tick tells the feed and the file.                                *)
(***************************************************************************)
\* OutcomeLines of prophecies the tick has settled, each at most once.
OutcomeLines(lines, t, view) ==
  /\ \A k \in 1..Len(lines) : /\ lines[k].id \in Resolved(t, view)
                              /\ lines[k].status = book'[lines[k].id].status
  /\ \A j, k \in 1..Len(lines) : j < k => lines[j].id # lines[k].id

\* Creations of prophecies the tick has made, each at most once.
BirthLines(lines, m) ==
  /\ \A k \in 1..Len(lines) : /\ lines[k].id \in (Len(book) + 1)..(Len(book) + m)
                              /\ lines[k].status = "pending"
  /\ \A j, k \in 1..Len(lines) : j < k => lines[j].id # lines[k].id

\* Every verdict of the tick is told.
TellsAll(lines, t, view) ==
  \A i \in Judged(t, view) : \E k \in 1..Len(lines) : lines[k] = [id |-> i, status |-> book'[i].status]

Reported(t, view, m) ==
  /\ Evaluated(t, view, m)
  /\ \E judged, births \in Seq(Entry) :
       /\ OutcomeLines(judged, t, view) /\ TellsAll(judged, t, view) /\ BirthLines(births, m)
       /\ history' = Newest(history \o judged \o births)
  /\ \E outcomes, births \in Seq(Entry) :
       /\ OutcomeLines(outcomes, t, view) /\ BirthLines(births, m)
       /\ file' = file \o outcomes \o births

(* A settled prophecy leaves the pending list with its verdict; the others *)
(* are as they were.                                                       *)
LEMMA BookOfTick ==
  ASSUME Inv, NEW t \in TickTimes, NEW view, NEW m \in Nat, Evaluated(t, view, m)
  PROVE  /\ Len(book) \in Nat /\ Len(book') = Len(book) + m
         /\ Resolved(t, view) \subseteq 1..Len(book) /\ Judged(t, view) \subseteq Resolved(t, view)
         /\ \A i \in 1..Len(book) :
              /\ book[i].status \in Statuses
              /\ i \notin Resolved(t, view) => book'[i] = book[i]
              /\ i \in Resolved(t, view) =>
                   /\ book[i].status = "pending" /\ book'[i].status = Verdict(book[i], t, view)
                   /\ book'[i].status \in Statuses \ {"pending"}
                   /\ i \in Judged(t, view) <=> book'[i].status \in {"VERIFIED_SUCCESS", "FAILED"}
         /\ \A i \in (Len(book) + 1)..(Len(book) + m) : book'[i].status = "pending"
<1>1. Len(book) \in Nat /\ pending \in SUBSET (1..Len(book))
  BY LenProperties DEF Inv, TypeOK
<1>2. Resolved(t, view) \subseteq 1..Len(book) /\ Judged(t, view) \subseteq Resolved(t, view)
  BY <1>1 DEF Resolved, Judged, Settled, Statuses
<1>3. ASSUME NEW i \in 1..Len(book)
      PROVE  /\ book[i].status \in Statuses
             /\ i \notin Resolved(t, view) => book'[i] = book[i]
             /\ i \in Resolved(t, view) =>
                   /\ book[i].status = "pending" /\ book'[i].status = Verdict(book[i], t, view)
                   /\ book'[i].status \in Statuses \ {"pending"}
                   /\ i \in Judged(t, view) <=> book'[i].status \in {"VERIFIED_SUCCESS", "FAILED"}
  <2>1. book[i] \in Prophecy BY ElementOfSeq DEF Inv, TypeOK
  <2>2. t \in Nat BY TickTimesAreLater DEF Inv
  <2>3. book'[i] = IF i \in Resolved(t, view) THEN Marked(book[i], t, view) ELSE book[i]
    BY <1>1, <2>2, BookAfterIsBook DEF Evaluated, Inv, TypeOK
  <2>4. ASSUME i \in Resolved(t, view)
        PROVE  /\ book[i].status = "pending" /\ book'[i].status = Verdict(book[i], t, view)
               /\ book'[i].status \in Statuses \ {"pending"}
               /\ i \in Judged(t, view) <=> book'[i].status \in {"VERIFIED_SUCCESS", "FAILED"}
    <3>1. i \in pending /\ Verdict(book[i], t, view) \in Statuses \ {"pending"}
      BY <2>4 DEF Resolved, Settled
    <3>2. book'[i].status = Verdict(book[i], t, view)
      BY <2>1, <2>3, <2>4 DEF Marked, Prophecy
    <3>3. book[i].status = "pending" BY <3>1 DEF Inv, Unsettled
    <3>4. i \in Judged(t, view) <=> Verdict(book[i], t, view) \in {"VERIFIED_SUCCESS", "FAILED"}
      BY <3>1 DEF Judged, Settled
    <3> QED BY <3>1, <3>2, <3>3, <3>4
  <2> QED BY <2>1, <2>3, <2>4 DEF Prophecy
<1> QED BY <1>1, <1>2, <1>3 DEF Evaluated

(* Entries about a listing of settled prophecies are outcomes.             *)
LEMMA ListingIsOutcomes ==
  ASSUME Inv, NEW t \in TickTimes, NEW view, NEW m \in Nat, Evaluated(t, view, m),
         NEW S \in SUBSET Resolved(t, view), NEW ids \in Listing(S)
  PROVE  LET lines == Entries(ids, BookAfter(t, view)) IN
         /\ lines \in Seq(Entry) /\ OutcomeLines(lines, t, view)
         /\ \A i \in S : \E k \in 1..Len(lines) : lines[k] = [id |-> i, status |-> book'[i].status]
<1> DEFINE after == BookAfter(t, view)
           lines == Entries(ids, after)
<1>1. /\ Len(book) \in Nat /\ S \in SUBSET (1..Len(book)) BY BookOfTick
<1>2. /\ after \in Seq(Prophecy) /\ Len(after) = Len(book)
      /\ \A i \in 1..Len(book) : book'[i] = after[i]
  BY TickTimesAreLater, BookAfterIsBook DEF Inv, TypeOK, Evaluated
<1>3. /\ ids \in Seq(S) /\ \A j, k \in 1..Len(ids) : j < k => ids[j] # ids[k]
      /\ \A i \in S : \E k \in 1..Len(ids) : ids[k] = i
  <2>1. Len(book) \in Nat /\ S \in SUBSET (1..Len(book)) /\ ids \in Listing(S) BY <1>1
  <2> DEFINE n == Len(book)
  <2>2. n \in Nat /\ S \in SUBSET (1..n) BY <2>1
  <2>3. ids \in Listing(S) BY <2>1
  <2> HIDE DEF n, after, lines
  <2> QED BY <2>2, <2>3, ListingNamesAll, ZenonT(60)
<1> HIDE DEF after
<1>4. ids \in Seq(DOMAIN after)
  <2>1. DOMAIN after = 1..Len(book) BY <1>2, LenProperties
  <2> QED BY <1>1, <1>3, <2>1, SeqMonotonic
<1>5. /\ lines \in Seq(Entry) /\ Len(lines) = Len(ids)
      /\ \A k \in 1..Len(ids) : lines[k] = [id |-> ids[k], status |-> after[ids[k]].status]
  BY <1>2, <1>4, EntriesSay
<1> HIDE DEF lines
<1>6. \A k \in 1..Len(ids) : ids[k] \in S /\ after[ids[k]] = book'[ids[k]]
  <2> SUFFICES ASSUME NEW k \in 1..Len(ids) PROVE ids[k] \in S /\ after[ids[k]] = book'[ids[k]]
    OBVIOUS
  <2>1. ids[k] \in S BY <1>3, ElementOfSeq
  <2> QED BY <1>1, <1>2, <2>1
<1>7. OutcomeLines(lines, t, view)
  <2>1. \A k \in 1..Len(lines) : lines[k].id = ids[k] /\ lines[k].status = book'[ids[k]].status
    <3> SUFFICES ASSUME NEW k \in 1..Len(lines)
                 PROVE  lines[k].id = ids[k] /\ lines[k].status = book'[ids[k]].status
      OBVIOUS
    <3>1. k \in 1..Len(ids) BY <1>5
    <3>2. lines[k] = [id |-> ids[k], status |-> after[ids[k]].status] BY <1>5, <3>1
    <3>3. after[ids[k]] = book'[ids[k]] BY <1>6, <3>1
    <3>4. lines[k] = [id |-> ids[k], status |-> book'[ids[k]].status] BY <3>2, <3>3
    <3> QED BY <3>4
  <2>2. \A k \in 1..Len(lines) : /\ lines[k].id \in Resolved(t, view)
                                 /\ lines[k].status = book'[lines[k].id].status
    BY <1>5, <1>6, <2>1
  <2>3. \A j, k \in 1..Len(lines) : j < k => lines[j].id # lines[k].id BY <1>3, <1>5, <2>1
  <2> QED BY <2>2, <2>3 DEF OutcomeLines
<1>8. \A i \in S : \E k \in 1..Len(lines) : lines[k] = [id |-> i, status |-> book'[i].status]
  BY <1>3, <1>5, <1>6
<1> QED BY <1>5, <1>7, <1>8 DEF lines, after

(* What is left of a batch is as good as the batch.                        *)
LEMMA PrefixIsBatch ==
  ASSUME NEW lines \in Seq(Entry), NEW wrote \in Written(lines)
  PROVE  /\ \A t, view : OutcomeLines(lines, t, view) => OutcomeLines(wrote, t, view)
         /\ \A m : BirthLines(lines, m) => BirthLines(wrote, m)
<1>1. Len(lines) \in Nat BY LenProperties
<1>2. /\ Len(wrote) \in 0..Len(lines) /\ \A k \in 1..Len(wrote) : wrote[k] = lines[k]
  BY WrittenIsPrefix
<1>3. \A k \in 1..Len(wrote) : k \in 1..Len(lines) BY <1>1, <1>2
<1> QED BY <1>2, <1>3 DEF OutcomeLines, BirthLines

(* New prophecies are appended to the book in the order of their lines.    *)
LEMMA BirthsOfBatch ==
  ASSUME NEW b \in Seq(Prophecy), NEW n \in Nat, NEW m \in Nat, Len(b) = n + m,
         \A i \in (n + 1)..(n + m) : b[i].status = "pending", n = Len(book)
  PROVE  LET lines == Entries([k \in 1..m |-> n + k], b) IN
         lines \in Seq(Entry) /\ BirthLines(lines, m)
<1> DEFINE ids == [k \in 1..m |-> n + k]
           lines == Entries(ids, b)
<1>1. ids \in [1..m -> 1..(n + m)] OBVIOUS
<1>2. DOMAIN b = 1..(n + m) BY LenProperties
<1>3. ids \in Seq(DOMAIN b) /\ Len(ids) = m
  <2>1. ids \in Seq(1..(n + m)) BY <1>1, SeqDef
  <2>2. Len(ids) \in Nat /\ DOMAIN ids = 1..Len(ids) BY <2>1, LenProperties
  <2>3. DOMAIN ids = 1..m BY <1>1
  <2>4. Len(ids) = m BY <2>2, <2>3
  <2> QED BY <1>2, <2>1, <2>4
<1>4. \A k \in 1..m : ids[k] = n + k OBVIOUS
<1> HIDE DEF ids
<1>5. /\ lines \in Seq(Entry) /\ Len(lines) = m
      /\ \A k \in 1..m : lines[k] = [id |-> ids[k], status |-> b[ids[k]].status]
  BY <1>3, EntriesSay
<1> HIDE DEF lines
<1>6. ASSUME NEW k \in 1..m
      PROVE  lines[k].id = n + k /\ lines[k].id \in (n + 1)..(n + m) /\ lines[k].status = "pending"
  <2>1. ids[k] = n + k /\ n + k \in (n + 1)..(n + m) BY <1>4
  <2>2. lines[k] = [id |-> n + k, status |-> b[n + k].status] BY <1>5, <2>1
  <2> QED BY <2>1, <2>2
<1>7. \A j, k \in 1..m : j < k => lines[j].id # lines[k].id BY <1>6
<1>8. BirthLines(lines, m) BY <1>5, <1>6, <1>7 DEF BirthLines
<1> QED BY <1>5, <1>8 DEF lines, ids

LEMMA TickReports ==
  ASSUME Inv, NEW t \in TickTimes, NEW view, NEW forecast \in Forecasts, Tick(t, view, forecast)
  PROVE  \E m \in Nat : Reported(t, view, m)
<1> DEFINE sources == {c \in DOMAIN forecast : Tracked(c, forecast[c])}
           after == BookAfter(t, view)
<1>1. TypeOK /\ t \in Nat BY TickTimesAreLater DEF Inv
<1>2. PICK m \in Nat : Evaluated(t, view, m) BY <1>1, TickEvaluates
<1>3. PICK order \in Orders(sources), resolved \in Listing(Resolved(t, view)), judged \in Listing(Judged(t, view)) :
       LET made == [k \in 1..Len(order) |-> Made(order[k], forecast[order[k]], t)]
           ids  == [k \in 1..Len(order) |-> Len(book) + k]
           births   == Entries(ids, after \o made)
           outcomes == Entries(resolved, after)
       IN
       /\ book' = BookAfterTick(t, view, made)
       /\ history' = Newest(history \o Entries(judged, after) \o births)
       /\ \E wrote1 \in Written(outcomes), wrote2 \in Written(births) :
            file' = file \o wrote1 \o wrote2
  BY DEF Tick
<1> DEFINE made == [k \in 1..Len(order) |-> Made(order[k], forecast[order[k]], t)]
           births == Entries([k \in 1..Len(order) |-> Len(book) + k], after \o made)
           outcomes == Entries(resolved, after)
           verdicts == Entries(judged, after)
<1>4. book' = after \o made BY <1>3 DEF BookAfterTick
<1>5. /\ made \in Seq(Prophecy) /\ Len(order) \in Nat /\ Len(made) = Len(order)
  <2> DEFINE batch == made
  <2>1. batch = [k \in 1..Len(order) |-> Made(order[k], forecast[order[k]], t)] OBVIOUS
  <2>2. order \in Orders({c \in DOMAIN forecast : Tracked(c, forecast[c])}) BY <1>3
  <2> HIDE DEF batch, sources, after
  <2>3. batch \in Seq(Prophecy) /\ Len(order) \in Nat /\ Len(batch) = Len(order)
    BY <1>1, <2>1, <2>2, BatchIsProphecies
  <2> QED BY <2>3 DEF batch
<1>6. after \in Seq(Prophecy) /\ Len(after) = Len(book) /\ Len(book) \in Nat
  BY <1>1, BookAfterIsBook DEF TypeOK
<1>7. Len(order) = m
  <2> HIDE DEF made, after
  <2>1. Len(after \o made) = Len(book) + Len(order) BY <1>5, <1>6, ConcatProperties
  <2>2. Len(book') = Len(book) + m BY <1>2 DEF Evaluated
  <2> QED BY <1>4, <1>5, <1>6, <2>1, <2>2
<1>8. births \in Seq(Entry) /\ BirthLines(births, m)
  <2> DEFINE b == after \o made
             n == Len(book)
  <2>1. b = book' /\ b \in Seq(Prophecy) /\ Len(b) = n + m
    BY <1>2, <1>4 DEF Evaluated
  <2>2. \A i \in (n + 1)..(n + m) : b[i].status = "pending" BY <1>2, <1>4 DEF Evaluated
  <2>3. n \in Nat BY <1>6
  <2>4. births = Entries([k \in 1..m |-> n + k], b) BY <1>7
  <2>5. n = Len(book) OBVIOUS
  <2> HIDE DEF b, n, births
  <2> QED BY <2>1, <2>2, <2>3, <2>4, <2>5, BirthsOfBatch
<1>9. /\ Judged(t, view) \subseteq Resolved(t, view) BY <1>2, BookOfTick
<1>10. outcomes \in Seq(Entry) /\ OutcomeLines(outcomes, t, view)
  BY <1>2, ListingIsOutcomes
<1>11. verdicts \in Seq(Entry) /\ OutcomeLines(verdicts, t, view) /\ TellsAll(verdicts, t, view)
  BY <1>2, <1>9, ListingIsOutcomes DEF TellsAll
<1>12. /\ history' = Newest(history \o verdicts \o births)
       /\ \E wrote1 \in Written(outcomes), wrote2 \in Written(births) :
            file' = file \o wrote1 \o wrote2
  BY <1>3
<1> HIDE DEF verdicts, births, outcomes, made, after
<1>13. PICK wrote1 \in Written(outcomes), wrote2 \in Written(births) : file' = file \o wrote1 \o wrote2
  BY <1>12
<1>14. /\ wrote1 \in Seq(Entry) /\ OutcomeLines(wrote1, t, view)
       /\ wrote2 \in Seq(Entry) /\ BirthLines(wrote2, m)
  BY <1>8, <1>10, WrittenIsPrefix, PrefixIsBatch
<1> QED BY <1>2, <1>8, <1>11, <1>12, <1>13, <1>14 DEF Reported

LEMMA RaisingReports ==
  ASSUME Inv, NEW t \in TickTimes, NEW view, EvaluationRaises(t, view)
  PROVE  Reported(t, view, 0)
<1>1. TypeOK /\ Evaluated(t, view, 0) BY RaisingEvaluates DEF Inv
<1>2. PICK judged \in Listing(Judged(t, view)) :
         history' = Newest(history \o Entries(judged, BookAfter(t, view)))
  BY DEF EvaluationRaises
<1> DEFINE verdicts == Entries(judged, BookAfter(t, view))
<1>3. verdicts \in Seq(Entry) /\ OutcomeLines(verdicts, t, view) /\ TellsAll(verdicts, t, view)
  <2>1. Judged(t, view) \subseteq Resolved(t, view) BY <1>1, BookOfTick
  <2> QED BY <1>1, <2>1, ListingIsOutcomes DEF TellsAll
<1>4. <<>> \in Seq(Entry) /\ OutcomeLines(<<>>, t, view) /\ BirthLines(<<>>, 0)
  BY EmptySeq DEF OutcomeLines, BirthLines
<1> HIDE DEF verdicts
<1>5. history' = Newest(history \o verdicts \o <<>>)
  <2>1. history \o verdicts \in Seq(Entry) BY <1>1, <1>3, ConcatProperties DEF TypeOK
  <2>2. (history \o verdicts) \o <<>> = history \o verdicts BY <2>1, ConcatEmptySeq
  <2> QED BY <1>2, <2>2 DEF verdicts
<1>6. file' = file \o <<>> \o <<>>
  <2>1. file \in Seq(Entry) /\ file' = file BY <1>1 DEF EvaluationRaises, TypeOK
  <2>2. file \o <<>> = file BY <2>1, ConcatEmptySeq
  <2> QED BY <2>1, <2>2
<1> QED BY <1>1, <1>3, <1>4, <1>5, <1>6 DEF Reported

(***************************************************************************)
(* The feed.                                                               *)
(***************************************************************************)
Feed == FeedTellsVerdict /\ \A k \in DOMAIN history : history[k].id \in 1..Len(book)

LEMMA FeedGrows ==
  ASSUME Inv, Feed, NEW t \in TickTimes, NEW view, NEW m \in Nat, Reported(t, view, m)
  PROVE  Feed'
<1>1. Evaluated(t, view, m) BY DEF Reported
<1>2. PICK judged \in Seq(Entry), births \in Seq(Entry) :
        /\ OutcomeLines(judged, t, view) /\ TellsAll(judged, t, view) /\ BirthLines(births, m)
        /\ history' = Newest(history \o judged \o births)
  BY DEF Reported
<1> DEFINE all == history \o judged \o births
           n == Len(book)  lh == Len(history)  lj == Len(judged)
<1>3. history \in Seq(Entry) /\ DOMAIN history = 1..lh BY LenProperties DEF Inv, TypeOK
<1>4. /\ all \in Seq(Entry) /\ Len(all) \in Nat /\ lh \in Nat /\ lj \in Nat
      /\ \A k \in 1..lh : all[k] = history[k]
      /\ \A k \in 1..lj : all[lh + k] = judged[k]
      /\ Len(all) = lh + lj + Len(births) /\ Len(births) \in Nat
      /\ \A k \in 1..Len(all) :
           \/ k \in 1..lh /\ all[k] = history[k]
           \/ k - lh \in 1..lj /\ all[k] = judged[k - lh]
           \/ k - (lh + lj) \in 1..Len(births) /\ all[k] = births[k - (lh + lj)]
  <2> HIDE DEF all, lh, lj
  <2>1. history \in Seq(Entry) BY <1>3
  <2> USE DEF all, lh, lj
  <2>2. LET a == history \o judged \o births IN
        /\ a \in Seq(Entry) /\ Len(a) = Len(history) + Len(judged) + Len(births)
        /\ Len(history) \in Nat /\ Len(judged) \in Nat /\ Len(births) \in Nat
        /\ \A k \in 1..Len(history) : a[k] = history[k]
        /\ \A k \in 1..Len(judged) : a[Len(history) + k] = judged[k]
        /\ \A k \in 1..Len(a) :
             \/ k \in 1..Len(history) /\ a[k] = history[k]
             \/ k - Len(history) \in 1..Len(judged) /\ a[k] = judged[k - Len(history)]
             \/ k - (Len(history) + Len(judged)) \in 1..Len(births)
                  /\ a[k] = births[k - (Len(history) + Len(judged))]
    BY <2>1, ThreeBatches
  <2>3. Len(all) \in Nat BY <2>2, LenProperties
  <2> QED BY <2>2, <2>3
<1>5. /\ n \in Nat /\ Len(book') = n + m /\ Resolved(t, view) \subseteq 1..n
      /\ \A i \in 1..n :
           /\ i \notin Resolved(t, view) => book'[i] = book[i]
           /\ i \in Resolved(t, view) =>
                /\ book'[i].status \in Statuses \ {"pending"}
                /\ i \in Judged(t, view) <=> book'[i].status \in {"VERIFIED_SUCCESS", "FAILED"}
      /\ \A i \in (n + 1)..(n + m) : book'[i].status = "pending"
  BY <1>1, BookOfTick
<1> HIDE DEF all, n, lh, lj
<1>6. ASSUME NEW p \in 1..Len(all) PROVE all[p].id \in 1..(n + m)
  <2>1. CASE p \in 1..lh /\ all[p] = history[p]
    <3>1. history[p].id \in 1..n BY <1>3, <2>1 DEF Feed, n
    <3> QED BY <1>5, <2>1, <3>1
  <2>2. CASE p - lh \in 1..lj /\ all[p] = judged[p - lh]
    <3>1. judged[p - lh].id \in 1..n BY <1>2, <1>5, <2>2 DEF OutcomeLines, lj
    <3> QED BY <1>5, <2>2, <3>1
  <2>3. CASE p - (lh + lj) \in 1..Len(births) /\ all[p] = births[p - (lh + lj)]
    <3>1. births[p - (lh + lj)].id \in (n + 1)..(n + m) BY <1>2, <2>3 DEF BirthLines, n
    <3> QED BY <1>5, <2>3, <3>1
  <2> QED BY <1>4, <2>1, <2>2, <2>3
<1>7. ASSUME NEW p \in 1..Len(all), all[p].status = "pending",
             book'[all[p].id].status \in {"VERIFIED_SUCCESS", "FAILED"}
      PROVE  \E q \in (p + 1)..Len(all) :
               all[q] = [id |-> all[p].id, status |-> book'[all[p].id].status]
  <2>1. CASE p \in 1..lh /\ all[p] = history[p]
    <3> DEFINE i == history[p].id
    <3>1. i \in 1..n /\ p \in DOMAIN history /\ all[p].id = i BY <1>3, <2>1 DEF Feed, n
    <3>2. CASE i \in Resolved(t, view)
      <4>1. i \in Judged(t, view) BY <1>5, <1>7, <3>1, <3>2
      <4>2. PICK k \in 1..lj : judged[k] = [id |-> i, status |-> book'[i].status]
        BY <1>2, <4>1 DEF TellsAll, lj
      <4>3. lh + k \in (p + 1)..Len(all) /\ all[lh + k] = judged[k] BY <1>4, <2>1
      <4> QED BY <3>1, <4>2, <4>3
    <3>3. CASE i \notin Resolved(t, view)
      <4>1. book'[i] = book[i] BY <1>5, <3>1, <3>3
      <4>2. history[p].status = "pending" /\ book[i].status \in {"VERIFIED_SUCCESS", "FAILED"}
        BY <1>7, <2>1, <3>1, <4>1
      <4>3. PICK q \in (p + 1)..lh : history[q] = [id |-> i, status |-> book[i].status]
        BY <3>1, <4>2 DEF Feed, FeedTellsVerdict, lh
      <4>4. q \in (p + 1)..Len(all) /\ all[q] = history[q] BY <1>4, <2>1
      <4> QED BY <3>1, <4>1, <4>3, <4>4
    <3> QED BY <3>2, <3>3
  <2>2. CASE p - lh \in 1..lj /\ all[p] = judged[p - lh]
    <3>1. /\ judged[p - lh].id \in Resolved(t, view)
          /\ judged[p - lh].status = book'[judged[p - lh].id].status
      BY <1>2, <2>2 DEF OutcomeLines, lj
    <3>2. all[p].status # "pending" BY <1>5, <2>2, <3>1
    <3> QED BY <1>7, <3>2
  <2>3. CASE p - (lh + lj) \in 1..Len(births) /\ all[p] = births[p - (lh + lj)]
    <3>1. births[p - (lh + lj)].id \in (n + 1)..(n + m) BY <1>2, <2>3 DEF BirthLines, n
    <3>2. book'[all[p].id].status = "pending" BY <1>5, <2>3, <3>1
    <3> QED BY <1>7, <3>2
  <2> QED BY <1>4, <2>1, <2>2, <2>3
<1>8. PICK d \in Nat : /\ Newest(all) \in Seq(Entry) /\ Len(all) = d + Len(Newest(all))
                       /\ \A k \in 1..Len(Newest(all)) : Newest(all)[k] = all[d + k]
  BY <1>4, NewestIsEnd
<1>9. history' = Newest(all) BY <1>2 DEF all
<1>10. /\ Len(history') \in Nat /\ DOMAIN history' = 1..Len(history') /\ Len(all) = d + Len(history')
       /\ \A k \in 1..Len(history') : history'[k] = all[d + k] /\ d + k \in 1..Len(all)
  <2>1. Len(history') \in Nat /\ DOMAIN history' = 1..Len(history') BY <1>8, <1>9, LenProperties
  <2>2. \A k \in 1..Len(history') : d + k \in 1..Len(all) BY <1>8, <1>9, <2>1
  <2> QED BY <1>8, <1>9, <2>1, <2>2
<1>11. \A k \in DOMAIN history' : history'[k].id \in 1..Len(book') BY <1>5, <1>6, <1>10
<1>12. FeedTellsVerdict'
  <2> SUFFICES ASSUME NEW k \in DOMAIN history', history'[k].status = "pending",
                      book'[history'[k].id].status \in {"VERIFIED_SUCCESS", "FAILED"}
               PROVE  \E q \in (k + 1)..Len(history') :
                        history'[q] = [id |-> history'[k].id, status |-> book'[history'[k].id].status]
    BY DEF FeedTellsVerdict
  <2>1. history'[k] = all[d + k] /\ d + k \in 1..Len(all) /\ k \in 1..Len(history') BY <1>10
  <2>2. PICK q \in ((d + k) + 1)..Len(all) :
          all[q] = [id |-> history'[k].id, status |-> book'[history'[k].id].status]
    BY <1>7, <2>1
  <2>3. q - d \in (k + 1)..Len(history') /\ d + (q - d) = q BY <1>10, <2>1
  <2>4. q - d \in 1..Len(history') BY <2>1, <2>3
  <2>5. history'[q - d] = all[q] BY <1>10, <2>3, <2>4
  <2> QED BY <2>2, <2>3, <2>5
<1> QED BY <1>11, <1>12 DEF Feed

(* Every step evaluates and reports, misses a tick, restarts or stutters.  *)
LEMMA ReportCases ==
  ASSUME Inv, [Next]_vars
  PROVE  \/ \E t \in TickTimes, view \in Views, m \in Nat : Reported(t, view, m)
         \/ \E t \in TickTimes : TickFails(t)
         \/ Restart
         \/ UNCHANGED vars
<1>1. CASE TickStep BY <1>1, TickReports DEF TickStep
<1>2. CASE \E t \in TickTimes, view \in Views : EvaluationRaises(t, view)
  <2>1. 0 \in Nat OBVIOUS
  <2> QED BY <1>2, <2>1, RaisingReports
<1> QED BY <1>1, <1>2 DEF Next

(* The dashboard feed never shows a judged prophecy as still pending: for  *)
(* every corridor and every rolling window of _history, a creation entry   *)
(* that is shown is followed by the verdict as soon as there is one.       *)
THEOREM FeedIsTruthful == Spec => []FeedTellsVerdict
<1>1. Init => Feed
  <2> SUFFICES ASSUME Init PROVE Feed OBVIOUS
  <2>1. DOMAIN history = {} BY EmptySeq DEF Init
  <2> QED BY <2>1 DEF Feed, FeedTellsVerdict
<1>2. Inv /\ Feed /\ [Next]_vars => Feed'
  <2> SUFFICES ASSUME Inv, Feed, [Next]_vars PROVE Feed' OBVIOUS
  <2>1. CASE \E t \in TickTimes, view \in Views, m \in Nat : Reported(t, view, m)
    BY <2>1, FeedGrows
  <2>2. CASE \E t \in TickTimes : TickFails(t)
    BY <2>2 DEF TickFails, Feed, FeedTellsVerdict
  <2>3. CASE Restart
    <3>1. DOMAIN history' = {} BY <2>3, EmptySeq DEF Restart
    <3> QED BY <3>1 DEF Feed, FeedTellsVerdict
  <2>4. CASE UNCHANGED vars BY <2>4 DEF vars, Feed, FeedTellsVerdict
  <2> QED BY <2>1, <2>2, <2>3, <2>4, ReportCases
<1>3. Feed => FeedTellsVerdict BY DEF Feed
<1> QED BY <1>1, <1>2, <1>3, InvInductive, PTL DEF Spec

(***************************************************************************)
(* The file.                                                               *)
(***************************************************************************)
Story == FileTellsOneStory /\ \A k \in DOMAIN file : file[k].id \in 1..Len(book)

LEMMA StoryGrows ==
  ASSUME Inv, Story, NEW t \in TickTimes, NEW view, NEW m \in Nat, Reported(t, view, m)
  PROVE  Story'
<1>1. Evaluated(t, view, m) BY DEF Reported
<1>2. PICK outcomes \in Seq(Entry), births \in Seq(Entry) :
        /\ OutcomeLines(outcomes, t, view) /\ BirthLines(births, m)
        /\ file' = file \o outcomes \o births
  BY DEF Reported
<1> DEFINE n == Len(book)  lf == Len(file)  lo == Len(outcomes)  lb == Len(births)
<1>3. file \in Seq(Entry) /\ DOMAIN file = 1..lf BY LenProperties DEF Inv, TypeOK
<1>4. /\ file' \in Seq(Entry) /\ lf \in Nat /\ lo \in Nat /\ lb \in Nat
      /\ DOMAIN file' = 1..Len(file')
      /\ \A k \in 1..Len(file') :
           \/ k \in 1..lf /\ file'[k] = file[k]
           \/ k - lf \in 1..lo /\ file'[k] = outcomes[k - lf]
           \/ k - (lf + lo) \in 1..lb /\ file'[k] = births[k - (lf + lo)]
  <2> DEFINE a == file \o outcomes \o births
  <2> HIDE DEF lf, lo, lb
  <2>1. file \in Seq(Entry) BY <1>3
  <2> USE DEF lf, lo, lb
  <2>2. /\ a \in Seq(Entry)
        /\ Len(file) \in Nat /\ Len(outcomes) \in Nat /\ Len(births) \in Nat
        /\ \A k \in 1..Len(a) :
             \/ k \in 1..Len(file) /\ a[k] = file[k]
             \/ k - Len(file) \in 1..Len(outcomes) /\ a[k] = outcomes[k - Len(file)]
             \/ k - (Len(file) + Len(outcomes)) \in 1..Len(births)
                  /\ a[k] = births[k - (Len(file) + Len(outcomes))]
    BY <2>1, ThreeBatches
  <2>3. file' = a BY <1>2
  <2> HIDE DEF a
  <2>4. DOMAIN a = 1..Len(a) BY <2>2, LenProperties
  <2> QED BY <2>2, <2>3, <2>4
<1>5. /\ n \in Nat /\ Len(book') = n + m /\ Resolved(t, view) \subseteq 1..n
      /\ \A i \in 1..n :
           /\ i \notin Resolved(t, view) => book'[i] = book[i]
           /\ i \in Resolved(t, view) =>
                book[i].status = "pending" /\ book'[i].status \in Statuses \ {"pending"}
      /\ \A i \in (n + 1)..(n + m) : book'[i].status = "pending"
  BY <1>1, BookOfTick
<1>6. /\ \A k \in 1..lf : file[k].id \in 1..n /\ file[k].status \in {"pending", book[file[k].id].status}
      /\ \A j, k \in 1..lf :
           j < k /\ file[j].id = file[k].id => file[j].status = "pending" /\ file[k].status # "pending"
  BY <1>3 DEF Story, FileTellsOneStory
<1>7. /\ \A k \in 1..lo : outcomes[k].id \in Resolved(t, view) /\ outcomes[k].status = book'[outcomes[k].id].status
      /\ \A j, k \in 1..lo : j < k => outcomes[j].id # outcomes[k].id
  BY <1>2 DEF OutcomeLines
<1>8. /\ \A k \in 1..lb : births[k].id \in (n + 1)..(n + m) /\ births[k].status = "pending"
      /\ \A j, k \in 1..lb : j < k => births[j].id # births[k].id
  BY <1>2 DEF BirthLines
<1> DEFINE Old(k)  == k \in 1..lf /\ file'[k] = file[k]
           Told(k) == k - lf \in 1..lo /\ file'[k] = outcomes[k - lf]
           Born(k) == k - (lf + lo) \in 1..lb /\ file'[k] = births[k - (lf + lo)]
<1>9. \A k \in 1..Len(file') : Old(k) \/ Told(k) \/ Born(k) BY <1>4
<1> HIDE DEF n, lf, lo, lb
<1>10. ASSUME NEW k \in 1..Len(file'), Old(k)
       PROVE  /\ file'[k].id \in 1..n /\ file'[k].status \in {"pending", book'[file'[k].id].status}
              /\ file'[k].id \in Resolved(t, view) => file'[k].status = "pending"
  <2>1. file[k].id \in 1..n /\ file[k].status \in {"pending", book[file[k].id].status} BY <1>6, <1>10
  <2> QED BY <1>5, <1>10, <2>1
<1>11. ASSUME NEW k \in 1..Len(file'), Told(k)
       PROVE  /\ file'[k].id \in Resolved(t, view) /\ file'[k].id \in 1..n
              /\ file'[k].status = book'[file'[k].id].status /\ file'[k].status # "pending"
  <2>1. outcomes[k - lf].id \in Resolved(t, view)
        /\ outcomes[k - lf].status = book'[outcomes[k - lf].id].status
    BY <1>7, <1>11
  <2> QED BY <1>5, <1>11, <2>1
<1>12. ASSUME NEW k \in 1..Len(file'), Born(k)
       PROVE  file'[k].id \in (n + 1)..(n + m) /\ file'[k].status = "pending"
  <2>1. births[k - (lf + lo)].id \in (n + 1)..(n + m) /\ births[k - (lf + lo)].status = "pending"
    BY <1>8, <1>12
  <2> QED BY <1>12, <2>1
<1>13. \A k \in 1..Len(file') : /\ file'[k].id \in 1..(n + m)
                                /\ file'[k].status \in {"pending", book'[file'[k].id].status}
  <2> SUFFICES ASSUME NEW k \in 1..Len(file')
               PROVE  file'[k].id \in 1..(n + m) /\ file'[k].status \in {"pending", book'[file'[k].id].status}
    OBVIOUS
  <2> HIDE DEF Old, Told, Born
  <2>0. 1..n \subseteq 1..(n + m) /\ (n + 1)..(n + m) \subseteq 1..(n + m) BY <1>5
  <2>1. CASE Old(k)
    <3>1. file'[k].id \in 1..n /\ file'[k].status \in {"pending", book'[file'[k].id].status} BY <1>10, <2>1
    <3> QED BY <2>0, <3>1, Zenon
  <2>2. CASE Told(k)
    <3>1. file'[k].id \in 1..n /\ file'[k].status = book'[file'[k].id].status BY <1>11, <2>2
    <3> QED BY <2>0, <3>1, Zenon
  <2>3. CASE Born(k)
    <3>1. file'[k].id \in (n + 1)..(n + m) /\ file'[k].status = "pending" BY <1>12, <2>3
    <3> QED BY <2>0, <3>1, Zenon
  <2> QED BY <1>9, <2>1, <2>2, <2>3
<1>14. ASSUME NEW j \in 1..Len(file'), NEW k \in 1..Len(file'), j < k, file'[j].id = file'[k].id
       PROVE  file'[j].status = "pending" /\ file'[k].status # "pending"
  <2>0. \A i \in 1..n : i \notin (n + 1)..(n + m) BY <1>5
  <2>1. CASE Old(j) /\ Old(k) BY <1>6, <1>14, <2>1
  <2>2. CASE Old(j) /\ Told(k)
    <3>1. /\ file'[j].id \in Resolved(t, view) => file'[j].status = "pending"
          /\ file'[k].id \in Resolved(t, view) /\ file'[k].status # "pending"
      <4> HIDE DEF Old, Told
      <4> QED BY <1>10, <1>11, <2>2
    <3> QED BY <1>14, <3>1
  <2>3. CASE (Old(j) \/ Told(j)) /\ Born(k)
    <3> HIDE DEF Old, Told, Born
    <3>1. file'[j].id \in 1..n /\ file'[k].id \in (n + 1)..(n + m) BY <1>10, <1>11, <1>12, <2>3
    <3> QED BY <1>14, <2>0, <3>1
  <2>4. CASE Born(j) /\ (Old(k) \/ Told(k))
    <3> HIDE DEF Old, Told, Born
    <3>1. file'[k].id \in 1..n /\ file'[j].id \in (n + 1)..(n + m) BY <1>10, <1>11, <1>12, <2>4
    <3> QED BY <1>14, <2>0, <3>1
  <2>5. CASE Told(j) /\ Old(k) BY <1>4, <1>14, <2>5
  <2>6. CASE Told(j) /\ Told(k)
    <3>1. j - lf < k - lf BY <1>4, <1>14
    <3> QED BY <1>7, <1>14, <2>6, <3>1
  <2>7. CASE Born(j) /\ Born(k)
    <3>1. j - (lf + lo) < k - (lf + lo) BY <1>4, <1>14
    <3> QED BY <1>8, <1>14, <2>7, <3>1
  <2> HIDE DEF Old, Told, Born
  <2> QED BY <1>9, <2>1, <2>2, <2>3, <2>4, <2>5, <2>6, <2>7
<1> HIDE DEF Old, Told, Born
<1>15. FileTellsOneStory' BY <1>4, <1>13, <1>14 DEF FileTellsOneStory
<1>16. \A k \in DOMAIN file' : file'[k].id \in 1..Len(book') BY <1>4, <1>5, <1>13
<1> QED BY <1>15, <1>16 DEF Story

(* evaluation_metrics.jsonl tells one story per prophecy, whatever writes  *)
(* are cut short and however often the process restarts: at most a         *)
(* creation line, then at most one outcome, the one the totals counted.    *)
THEOREM FileIsOneStory == Spec => []FileTellsOneStory
<1>1. Init => Story
  <2> SUFFICES ASSUME Init PROVE Story OBVIOUS
  <2>1. DOMAIN file = {} BY EmptySeq DEF Init
  <2> QED BY <2>1 DEF Story, FileTellsOneStory
<1>2. Inv /\ Story /\ [Next]_vars => Story'
  <2> SUFFICES ASSUME Inv, Story, [Next]_vars PROVE Story' OBVIOUS
  <2>1. CASE \E t \in TickTimes, view \in Views, m \in Nat : Reported(t, view, m)
    BY <2>1, StoryGrows
  <2>2. CASE \E t \in TickTimes : TickFails(t)
    BY <2>2 DEF TickFails, Story, FileTellsOneStory
  <2>3. CASE Restart BY <2>3 DEF Restart, Story, FileTellsOneStory
  <2>4. CASE UNCHANGED vars BY <2>4 DEF vars, Story, FileTellsOneStory
  <2> QED BY <2>1, <2>2, <2>3, <2>4, ReportCases
<1>3. Story => FileTellsOneStory BY DEF Story
<1> QED BY <1>1, <1>2, <1>3, InvInductive, PTL DEF Spec

(***************************************************************************)
(* The logger on a road with real queues.                                  *)
(***************************************************************************)
\* The logger's invariant, and what the verdicts so far say of the road.
OutlookInv == /\ Inv
              /\ VerdictBracketsArrival
              /\ arrival \in [Cameras -> Nat]

(* A verdict that a tick reaches on a view of the road is about whether    *)
(* the queue had come by then, and it is reached inside the window.        *)
LEMMA VerdictSeesRoad ==
  ASSUME arrival \in [Cameras -> Nat], NEW p \in Prophecy, NEW t \in Nat,
         NEW view \in {RoadAt(t), <<>>}
  PROVE  /\ Verdict(p, t, view) = "VERIFIED_SUCCESS" => arrival[p.target] <= p.impact + Tolerance
         /\ Verdict(p, t, view) = "FAILED" => arrival[p.target] > p.impact - Tolerance
<1>1. /\ p.target \in Cameras /\ p.impact \in Nat /\ arrival[p.target] \in Nat
      /\ Tolerance \in Nat
  BY ConstantsAssumption DEF Prophecy
<1> SUFFICES ASSUME Verdict(p, t, view) \in {"VERIFIED_SUCCESS", "FAILED"}
             PROVE  /\ Verdict(p, t, view) = "VERIFIED_SUCCESS" => arrival[p.target] <= t
                    /\ Verdict(p, t, view) = "FAILED" => arrival[p.target] > t
                    /\ p.impact - Tolerance <= t /\ t <= p.impact + Tolerance
  BY <1>1
<1>2. /\ Verdict(p, t, view) = Observed(p, view)
      /\ InWindow(p, t) /\ p.target \in DOMAIN view
  BY DEF Verdict
<1>3. view = RoadAt(t)
  <2>1. DOMAIN <<>> = {} OBVIOUS
  <2> QED BY <1>2, <2>1
<1>4. view[p.target] = IF t >= arrival[p.target] THEN Queued ELSE Healthy
  BY <1>1, <1>3 DEF RoadAt
<1>5. Verdict(p, t, view) = IF t >= arrival[p.target] THEN "VERIFIED_SUCCESS" ELSE "FAILED"
  BY <1>2, <1>4, OutlookAssumption DEF Observed
<1>6. p.impact - Tolerance <= t /\ t <= p.impact + Tolerance BY <1>2 DEF InWindow
<1> QED BY <1>1, <1>5, <1>6

(* An evaluation keeps it: old verdicts stand, because neither the         *)
(* prophecy nor the road is changed, and new ones see the road.            *)
LEMMA EvaluatedKeepsBrackets ==
  ASSUME OutlookInv, NEW t \in TickTimes, NEW view \in {RoadAt(t), <<>>}, NEW m \in Nat,
         Evaluated(t, view, m), UNCHANGED arrival
  PROVE  VerdictBracketsArrival'
<1>1. /\ Len(book) \in Nat /\ DOMAIN book = 1..Len(book) /\ DOMAIN book' = 1..(Len(book) + m)
      /\ t \in Nat /\ TypeOK
  BY LenProperties, TickTimesAreLater DEF OutlookInv, Inv, TypeOK, Evaluated
<1>2. ASSUME NEW i \in 1..Len(book)
      PROVE  /\ book'[i].status = "VERIFIED_SUCCESS" =>
                   arrival[book'[i].target] <= book'[i].impact + Tolerance
             /\ book'[i].status = "FAILED" => arrival[book'[i].target] > book'[i].impact - Tolerance
  <2>1. book[i] \in Prophecy BY <1>1, ElementOfSeq DEF TypeOK
  <2>2. book'[i] = IF i \in Resolved(t, view) THEN Marked(book[i], t, view) ELSE book[i]
    BY <1>1, BookAfterIsBook DEF Evaluated, TypeOK
  <2>3. CASE i \in Resolved(t, view)
    <3>1. /\ book'[i].status = Verdict(book[i], t, view)
          /\ book'[i].target = book[i].target /\ book'[i].impact = book[i].impact
      BY <2>1, <2>2, <2>3 DEF Marked, Prophecy
    <3> QED BY <1>1, <2>1, <3>1, VerdictSeesRoad DEF OutlookInv
  <2>4. CASE i \notin Resolved(t, view)
    BY <1>1, <2>2, <2>4 DEF OutlookInv, VerdictBracketsArrival
  <2> QED BY <2>3, <2>4
<1>3. \A i \in (Len(book) + 1)..(Len(book) + m) : book'[i].status = "pending"
  BY DEF Evaluated
<1>4. \A i \in 1..(Len(book) + m) : i \in 1..Len(book) \/ i \in (Len(book) + 1)..(Len(book) + m)
  BY <1>1
<1> QED BY <1>1, <1>2, <1>3, <1>4 DEF VerdictBracketsArrival

(* What a step of this world is for the logger.                            *)
LEMMA OutlookCases ==
  ASSUME TypeOK, OutlookNext
  PROVE  \/ \E t \in TickTimes : \E view \in {RoadAt(t), <<>>} : \E m \in Nat :
              /\ Evaluated(t, view, m)
              /\ history' \in Seq(Entry) /\ file' \in Seq(Entry) /\ faults' \in Nat
         \/ \E t \in TickTimes : TickFails(t)
         \/ Restart
<1>1. CASE OutlookTick
  <2>1. PICK t \in TickTimes : \E view \in {RoadAt(t), <<>>} :
          \E forecast \in {f \in Forecasts : DOMAIN f \subseteq DOMAIN view} : Tick(t, view, forecast)
    BY <1>1 DEF OutlookTick
  <2>2. PICK view \in {RoadAt(t), <<>>} :
          \E forecast \in {f \in Forecasts : DOMAIN f \subseteq DOMAIN view} : Tick(t, view, forecast)
    BY <2>1
  <2>3. PICK forecast \in {f \in Forecasts : DOMAIN f \subseteq DOMAIN view} : Tick(t, view, forecast)
    BY <2>2
  <2>4. forecast \in Forecasts OBVIOUS
  <2> QED BY <2>3, <2>4, TickEvaluates
<1>2. ASSUME NEW t \in TickTimes, EvaluationRaises(t, RoadAt(t))
      PROVE  /\ Evaluated(t, RoadAt(t), 0)
             /\ history' \in Seq(Entry) /\ file' \in Seq(Entry) /\ faults' \in Nat
  BY <1>2, RaisingEvaluates
<1> QED BY <1>1, <1>2 DEF OutlookNext

(* A verdict is right about the road within the tolerance, whatever the    *)
(* arrival times, the cadence and the failures: after a success the queue  *)
(* had come by the end of the window, after a failure it had not come when *)
(* the window began.                                                       *)
THEOREM VerdictsTellTheRoad == OutlookSpec => []VerdictBracketsArrival
<1>1. OutlookInit => OutlookInv
  <2> SUFFICES ASSUME OutlookInit PROVE OutlookInv OBVIOUS
  <2>1. TypeOK
    BY EmptySeq, ConstantsAssumption DEF OutlookInit, Init, TypeOK, NoTotals, Totals
  <2>2. book = <<>> /\ pending = {} /\ DOMAIN book = {} BY DEF OutlookInit, Init
  <2>3. arrival \in [Cameras -> Nat] BY OutlookAssumption DEF OutlookInit
  <2> QED
    BY <2>1, <2>2, <2>3
    DEF OutlookInv, Inv, Dated, Unsettled, NoSelfConfirmation, VerdictBracketsArrival
<1>2. OutlookInv /\ [OutlookNext]_outlookVars => OutlookInv'
  <2> SUFFICES ASSUME OutlookInv, [OutlookNext]_outlookVars PROVE OutlookInv' OBVIOUS
  <2>0. TypeOK /\ Inv BY DEF OutlookInv, Inv
  <2>1. UNCHANGED arrival BY DEF OutlookNext, outlookVars
  <2>2. ASSUME NEW t \in TickTimes, NEW view \in {RoadAt(t), <<>>}, NEW m \in Nat,
               Evaluated(t, view, m),
               history' \in Seq(Entry), file' \in Seq(Entry), faults' \in Nat
        PROVE  OutlookInv'
    <3>1. TypeOK' BY <2>0, <2>2, EvaluatedTypes
    <3>2. Dated' /\ Unsettled' /\ NoSelfConfirmation' BY <2>0, <2>2, EvaluatedKeepsInv
    <3>3. VerdictBracketsArrival' BY <2>1, <2>2, EvaluatedKeepsBrackets
    <3> QED BY <2>1, <3>1, <3>2, <3>3 DEF OutlookInv, Inv
  <2>3. ASSUME NEW t \in TickTimes, TickFails(t)
        PROVE  OutlookInv'
    <3>1. t \in Nat /\ now \in Nat /\ t > now BY <2>0, TickTimesAreLater DEF TypeOK
    <3>2. TypeOK' BY <2>0, <2>3, <3>1 DEF TypeOK, TickFails
    <3>3. ASSUME NEW i \in DOMAIN book PROVE book[i].created_at \in Nat
      <4>1. book[i] \in Prophecy BY <2>0, LenProperties, ElementOfSeq DEF TypeOK
      <4> QED BY <4>1 DEF Prophecy
    <3>4. now' = t /\ book' = book /\ pending' = pending BY <2>3 DEF TickFails
    <3>5. Dated' /\ Unsettled' /\ NoSelfConfirmation'
      BY <2>0, <3>1, <3>3, <3>4 DEF Inv, Dated, Unsettled, NoSelfConfirmation
    <3> QED BY <2>1, <3>2, <3>4, <3>5 DEF OutlookInv, Inv, VerdictBracketsArrival
  <2>4. CASE Restart
    <3>1. Len(book) \in Nat BY <2>0, LenProperties DEF TypeOK
    <3>2. TypeOK'
      <4>1. history' \in Seq(Entry) /\ stats' \in Totals
        BY <2>4, EmptySeq DEF Restart, NoTotals, Totals
      <4> QED BY <2>0, <2>4, <3>1, <4>1 DEF TypeOK, Restart
    <3> QED
      BY <2>0, <2>1, <2>4, <3>2
      DEF OutlookInv, Inv, Dated, Unsettled, NoSelfConfirmation, VerdictBracketsArrival, Restart
  <2>5. CASE UNCHANGED outlookVars
    BY <2>0, <2>5
    DEF OutlookInv, Inv, TypeOK, Dated, Unsettled, NoSelfConfirmation, VerdictBracketsArrival,
        outlookVars
  <2> QED BY <2>0, <2>2, <2>3, <2>4, <2>5, OutlookCases
<1>3. OutlookInv => VerdictBracketsArrival BY DEF OutlookInv
<1> QED BY <1>1, <1>2, <1>3, PTL DEF OutlookSpec
=============================================================================
