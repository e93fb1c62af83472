------------------------- MODULE EvaluationLogger -------------------------
(***************************************************************************)
(* The camera-to-camera prophecy logger of src/evaluation_logger.py, driven*)
(* by the background tick loop of main.py.  A tick hands the logger the    *)
(* capacity states of its cameras and the queue predictions of the physics *)
(* engine; the logger first settles pending prophecies against the states, *)
(* then turns the predictions into new prophecies.                         *)
(*                                                                         *)
(* Time and chainage are integers in units a model chooses; a camera is    *)
(* named by its position in _sorted_cameras.  Prophecy objects live in     *)
(* book, in order of creation, and are referred to by their position.      *)
(***************************************************************************)
EXTENDS Integers, FiniteSets, Sequences

CONSTANTS
  CameraCount,    \* number of cameras on the corridor
  Chainage,       \* chainage of camera 1..CameraCount, south to north
  SamePlace,      \* two cameras closer than this are one site (0.01 km)
  FreeFlowPerLane,\* FREE_FLOW_PER_LANE_VPH
  MinEta, MaxEta, \* MIN_ETA_MINUTES, MAX_ETA_MINUTES
  Tolerance,      \* EVALUATION_TOLERANCE_SECONDS
  Expiry,         \* EXPIRY_MINUTES
  MaxHistory,     \* _max_history
  Gaps,           \* distances between the timestamps of consecutive ticks
  Views,          \* capacity states a tick may deliver: partial functions of Cameras
  Forecasts,      \* queue predictions a tick may deliver: growth speed by camera
  MaxProphecies,  \* bound: prophecies made in a behaviour
  RecordUntil,    \* bound: time after which no prediction is offered
  Horizon,        \* bound: time of the last tick
  MaxFaults       \* bound: failed ticks, failed writes and restarts

Cameras == 1..CameraCount

VARIABLES
  now,        \* timestamp of the last tick
  book,       \* every Prophecy object ever created
  pending,    \* _pending, as positions in book
  history,    \* _history: [id, status] as shown to the dashboard
  stats,      \* _total_created, _total_verified, _total_failed, _total_expired
  file,       \* evaluation_metrics.jsonl: [id, status] lines
  born,       \* prophecies created before this process started
  looks,      \* ghost: for a prophecy, the first tick that had data inside its window
  faults      \* faults so far

vars == <<now, book, pending, history, stats, file, born, looks, faults>>

ASSUME ConstantsAssumption ==
  /\ CameraCount \in Nat
  /\ Chainage \in [Cameras -> Nat]
  /\ \A c, d \in Cameras : c <= d => Chainage[c] <= Chainage[d]
  /\ SamePlace \in Nat /\ FreeFlowPerLane \in Nat
  /\ MinEta \in Nat \ {0} /\ MaxEta \in Nat
  /\ Tolerance \in Nat /\ Expiry \in Nat /\ Tolerance <= Expiry
  /\ MaxHistory \in Nat \ {0}
  /\ Gaps \subseteq Nat \ {0}
  /\ MaxProphecies \in Nat /\ RecordUntil \in Nat /\ Horizon \in Nat /\ MaxFaults \in Nat

ASSUME InputsAssumption ==
  /\ \A v \in Views : /\ DOMAIN v \subseteq Cameras
                      /\ \A c \in DOMAIN v : v[c] \in [is_anomaly: BOOLEAN, capacity: Nat, lanes: Nat]
  /\ \A f \in Forecasts : DOMAIN f \subseteq Cameras /\ \A c \in DOMAIN f : f[c] \in Nat

Statuses == {"pending", "VERIFIED_SUCCESS", "FAILED", "EXPIRED"}
NotYet   == -1

Prophecy == [source: Cameras, target: Cameras, created_at: Nat, impact: Nat,
             status: Statuses, evaluation_time: Nat \cup {NotYet}]

Entry == [id: Nat \ {0}, status: Statuses]

Totals == [created: Nat, verified: Nat, failed: Nat, expired: Nat]
NoTotals == [created |-> 0, verified |-> 0, failed |-> 0, expired |-> 0]

TypeOK ==
  /\ now \in Nat
  /\ book \in Seq(Prophecy)
  /\ pending \in SUBSET DOMAIN book
  /\ history \in Seq(Entry)
  /\ stats \in Totals
  /\ file \in Seq(Entry)
  /\ born \in 0..Len(book)
  /\ DOMAIN looks \subseteq DOMAIN book /\ \A i \in DOMAIN looks : looks[i] \in Nat
  /\ faults \in Nat

(***************************************************************************)
(* Which predictions become prophecies.                                    *)
(***************************************************************************)

\* bisect_left: the cameras strictly south of a chainage are a prefix.
SouthOf(km) == Cardinality({c \in Cameras : Chainage[c] < km})

\* Position of the camera that _find_upstream_camera returns, 0 for None.
UpstreamOf(source) ==
  LET idx == SouthOf(Chainage[source]) IN
  IF idx > 0 /\ Chainage[source] - Chainage[idx] < SamePlace THEN idx - 1 ELSE idx

Eta(source, speed) == (Chainage[source] - Chainage[UpstreamOf(source)]) \div speed

Tracked(source, speed) ==
  /\ UpstreamOf(source) \in Cameras
  /\ Chainage[UpstreamOf(source)] < Chainage[source]
  /\ speed > 0
  /\ Eta(source, speed) \in MinEta..MaxEta

\* Mutant: the impact time is counted back from the tick.
MadeBackwards(source, speed, t) ==
  [source |-> source, target |-> UpstreamOf(source), created_at |-> t,
   impact |-> t - Eta(source, speed), status |-> "pending", evaluation_time |-> NotYet]

Made(source, speed, t) ==
  [source |-> source, target |-> UpstreamOf(source), created_at |-> t,
   impact |-> t + Eta(source, speed), status |-> "pending", evaluation_time |-> NotYet]

(***************************************************************************)
(* How a pending prophecy is settled at a tick.                            *)
(***************************************************************************)

\* A lane count of zero gives ratio 1.0; CAPACITY_DROP_FRACTION is one half.
QueueArrived(state) ==
  state.is_anomaly \/ 2 * state.capacity < state.lanes * FreeFlowPerLane

\* Mutant: the window has no beginning.
InWindowFromCreation(p, t) == t <= p.impact + Tolerance

InWindow(p, t) == p.impact - Tolerance <= t /\ t <= p.impact + Tolerance

Observed(p, view) == IF QueueArrived(view[p.target]) THEN "VERIFIED_SUCCESS" ELSE "FAILED"

\* Mutants: only the exact impact time is judged; nothing ever expires.
VerdictAtImpact(p, t, view) ==
  CASE t > p.impact + Expiry                        -> "EXPIRED"
    [] t = p.impact /\ p.target \in DOMAIN view     -> Observed(p, view)
    [] OTHER                                        -> "pending"
VerdictWithoutExpiry(p, t, view) ==
  IF InWindow(p, t) /\ p.target \in DOMAIN view THEN Observed(p, view) ELSE "pending"

Verdict(p, t, view) ==
  CASE t > p.impact + Expiry                        -> "EXPIRED"
    [] t <= p.impact + Expiry /\ InWindow(p, t) /\ p.target \in DOMAIN view
                                                    -> Observed(p, view)
    [] OTHER                                        -> "pending"

Settled(t, view, S) == {i \in pending : Verdict(book[i], t, view) \in S}
Resolved(t, view)   == Settled(t, view, Statuses \ {"pending"})

\* Mutant: only successes are added to the feed.
VerifiedOnly(t, view) == Settled(t, view, {"VERIFIED_SUCCESS"})
Judged(t, view)       == Settled(t, view, {"VERIFIED_SUCCESS", "FAILED"})

\* Mutant: an expired prophecy stays on the pending list.
PendingWithExpired(t, view) == pending \ Judged(t, view)
StillPending(t, view)       == pending \ Resolved(t, view)

Marked(p, t, view) == [p EXCEPT !.status = Verdict(p, t, view), !.evaluation_time = t]

BookAfter(t, view) ==
  [i \in DOMAIN book |-> IF i \in Resolved(t, view) THEN Marked(book[i], t, view) ELSE book[i]]

\* Mutant: prophecies are recorded before the pending ones are evaluated.
RecordedFirst(t, view, made) ==
  LET all == book \o made IN
  [i \in DOMAIN all |->
     IF (i \in pending \/ i > Len(book)) /\ Verdict(all[i], t, view) # "pending"
     THEN Marked(all[i], t, view) ELSE all[i]]

\* evaluate_pending first, then record_prophecies.
BookAfterTick(t, view, made) == BookAfter(t, view) \o made

\* Mutant: expiries are not counted.
StatsWithoutExpired(t, view) ==
  [stats EXCEPT
     !.verified = @ + Cardinality(Settled(t, view, {"VERIFIED_SUCCESS"})),
     !.failed   = @ + Cardinality(Settled(t, view, {"FAILED"}))]

StatsAfter(t, view) ==
  [created  |-> stats.created,
   verified |-> stats.verified + Cardinality(Settled(t, view, {"VERIFIED_SUCCESS"})),
   failed   |-> stats.failed + Cardinality(Settled(t, view, {"FAILED"})),
   expired  |-> stats.expired + Cardinality(Settled(t, view, {"EXPIRED"}))]

\* The elements of a set of naturals, in order, as the one sequence there is.
Listing(S) ==
  {f \in [1..Cardinality(S) -> S] : \A i, j \in 1..Cardinality(S) : i < j => f[i] < f[j]}

\* The elements of a set in every order.
Orders(S) ==
  {f \in [1..Cardinality(S) -> S] : \A i, j \in 1..Cardinality(S) : i # j => f[i] # f[j]}

Entries(ids, b) == [k \in 1..Len(ids) |-> [id |-> ids[k], status |-> b[ids[k]].status]]

Newest(h) == IF Len(h) > MaxHistory
             THEN [k \in 1..MaxHistory |-> h[Len(h) - MaxHistory + k]]
             ELSE h

\* _write_jsonl: a batch is appended, or cut short when the file cannot be written.
Written(lines) ==
  {lines} \cup (IF faults < MaxFaults THEN {SubSeq(lines, 1, n) : n \in 0..Len(lines)} ELSE {})

\* The prophecies of this process that get data at t within Tolerance of their impact,
\* settled or not; looks keeps the first time for each and no action reads it.
SeenAt(t, seen) ==
  {i \in (born + 1)..Len(book) :
     /\ t \in (book[i].impact - Tolerance)..(book[i].impact + Tolerance)
     /\ book[i].target \in seen}

LooksAfter(t, seen) ==
  [i \in DOMAIN looks \cup SeenAt(t, seen) |-> IF i \in DOMAIN looks THEN looks[i] ELSE t]

(***************************************************************************)
(* The actions.  A tick takes its timestamp when it starts; what the       *)
(* event loop does with the result is one step, since neither              *)
(* evaluate_pending nor record_prophecies awaits.                          *)
(***************************************************************************)
Init ==
  /\ now = 0
  /\ book = <<>> /\ pending = {} /\ history = <<>> /\ stats = NoTotals
  /\ file = <<>>
  /\ born = 0 /\ looks = <<>> /\ faults = 0

TickTimes == {t \in {now + g : g \in Gaps} : t <= Horizon}

\* evaluate_pending settles what it can, then record_prophecies adds the new ones.
Tick(t, view, forecast) ==
  LET sources == {c \in DOMAIN forecast : Tracked(c, forecast[c])}
      settled == BookAfter(t, view)
  IN
  /\ sources # {} => t <= RecordUntil
  /\ Len(book) + Cardinality(sources) <= MaxProphecies
  /\ \E order \in Orders(sources), resolved \in Listing(Resolved(t, view)), judged \in Listing(Judged(t, view)) :
       LET made == [k \in 1..Len(order) |-> Made(order[k], forecast[order[k]], t)]
           ids  == [k \in 1..Len(order) |-> Len(book) + k]
           births   == Entries(ids, settled \o made)
           outcomes == Entries(resolved, settled)
       IN
       /\ book' = BookAfterTick(t, view, made)
       /\ pending' = StillPending(t, view) \cup {ids[k] : k \in DOMAIN ids}
       /\ history' = Newest(history \o Entries(judged, settled) \o births)
       /\ stats' = [StatsAfter(t, view) EXCEPT !.created = @ + Len(order)]
       /\ \E wrote1 \in Written(outcomes), wrote2 \in Written(births) :
            /\ file' = file \o wrote1 \o wrote2
            /\ faults' = IF wrote1 = outcomes /\ wrote2 = births THEN faults ELSE faults + 1
  /\ now' = t
  /\ looks' = LooksAfter(t, DOMAIN view)
  /\ UNCHANGED born

\* The data directory cannot be created: _write_jsonl raises after evaluate_pending has
\* replaced _pending, and the exception takes the tick past record_prophecies.
EvaluationRaises(t, view) ==
  /\ faults < MaxFaults
  /\ Resolved(t, view) # {}
  /\ \E judged \in Listing(Judged(t, view)) :
       history' = Newest(history \o Entries(judged, BookAfter(t, view)))
  /\ book' = BookAfter(t, view)
  /\ pending' = StillPending(t, view)
  /\ stats' = StatsAfter(t, view)
  /\ now' = t
  /\ looks' = LooksAfter(t, DOMAIN view)
  /\ faults' = faults + 1
  /\ UNCHANGED <<file, born>>

\* tick_once raised: nothing reaches the logger, the loop carries on.
TickFails(t) ==
  /\ faults < MaxFaults
  /\ now' = t
  /\ faults' = faults + 1
  /\ UNCHANGED <<book, pending, history, stats, file, born, looks>>

\* A new process starts with a new logger; only the file survives.
Restart ==
  /\ faults < MaxFaults
  /\ pending' = {} /\ history' = <<>> /\ stats' = NoTotals
  /\ born' = Len(book)
  /\ faults' = faults + 1
  /\ UNCHANGED <<now, book, file, looks>>

TickStep ==
  \E t \in TickTimes, view \in Views :
     \E forecast \in {f \in Forecasts : DOMAIN f \subseteq DOMAIN view} : Tick(t, view, forecast)

Next ==
  \/ TickStep
  \/ \E t \in TickTimes, view \in Views : EvaluationRaises(t, view)
  \/ \E t \in TickTimes : TickFails(t)
  \/ Restart

Spec == Init /\ [][Next]_vars

(***************************************************************************)
(* Properties.                                                             *)
(***************************************************************************)

(* The running totals that /api/v1/evaluation/stats reports agree with the *)
(* prophecies themselves, whichever ticks failed: everything created in    *)
(* this process is pending, verified, failed or expired, and the pending   *)
(* list holds exactly the unsettled ones.                                  *)
StatsMatchBook ==
  LET mine == (born + 1)..Len(book)
      With(s) == {i \in mine : book[i].status = s}
  IN
  /\ stats.created = Cardinality(mine)
  /\ pending = With("pending")
  /\ stats.verified = Cardinality(With("VERIFIED_SUCCESS"))
  /\ stats.failed = Cardinality(With("FAILED"))
  /\ stats.expired = Cardinality(With("EXPIRED"))

(* A prophecy is never settled by the camera picture that gave rise to it: *)
(* the shortest ETA lies inside the tolerance, so only the order of the    *)
(* two calls in the tick loop keeps a prediction from confirming itself.   *)
NoSelfConfirmation ==
  \A i \in DOMAIN book :
     book[i].evaluation_time # NotYet => book[i].created_at < book[i].evaluation_time

(* The first data received inside the window decide, at that very tick, and*)
(* without any the prophecy expires (docs/handoff.md:254-256): however far *)
(* apart the ticks come, whichever of them fail, and across restarts, no   *)
(* look is passed over, none comes too late, and nothing expires that was  *)
(* looked at.                                                              *)
FirstLookDecides ==
  \A i \in DOMAIN book :
     /\ book[i].status \in {"VERIFIED_SUCCESS", "FAILED"} <=> i \in DOMAIN looks
     /\ i \in DOMAIN looks => book[i].evaluation_time = looks[i]

(* The dashboard feed never shows a judged prophecy as still pending: while*)
(* its creation entry is in the rolling window, so is a later verdict.     *)
FeedTellsVerdict ==
  \A k \in DOMAIN history :
     LET i == history[k].id IN
     history[k].status = "pending" /\ book[i].status \in {"VERIFIED_SUCCESS", "FAILED"} =>
       \E m \in (k + 1)..Len(history) : history[m] = [id |-> i, status |-> book[i].status]

(* evaluation_metrics.jsonl tells one story per prophecy, across lost      *)
(* writes and restarts: at most a creation line, then at most one outcome, *)
(* and the outcome is the one the totals counted.                          *)
FileTellsOneStory ==
  /\ \A k \in DOMAIN file : file[k].status \in {"pending", book[file[k].id].status}
  /\ \A j, k \in DOMAIN file :
       j < k /\ file[j].id = file[k].id => file[j].status = "pending" /\ file[k].status # "pending"

(* The logger keeps the contract of a prophecy: settled once, inside its   *)
(* window or after its expiry, never in the step that creates it.          *)
Contract == INSTANCE ProphecyContract WITH
              clock <- now,
              ledger <- [i \in 1..Len(book) |-> [due |-> book[i].impact, status |-> book[i].status]]
ImplementsContract == Contract!Spec

(* Every pending prophecy is settled in the end (or its process is gone),  *)
(* however many ticks failed on the way.                                   *)
EventuallySettled == \A i \in 1..MaxProphecies : i \in pending ~> i \notin pending
=============================================================================
