------------------------- MODULE ProphecyOutlook --------------------------
(***************************************************************************)
(* The prophecy logger in a world with real queues: camera c carries a     *)
(* queue from time arrival[c] on, and every tick sees exactly that.  Used  *)
(* to compare what a verdict says with what the road did.                  *)
(***************************************************************************)
EXTENDS EvaluationLogger

CONSTANTS
  Queued,    \* the state a camera reports when the queue is there
  Healthy,   \* the state it reports before
  Arrivals   \* when the queue reaches each camera: the roads considered

VARIABLE arrival

\* The two states differ in what a verdict looks at.
ASSUME OutlookAssumption ==
  /\ QueueArrived(Queued) /\ ~QueueArrived(Healthy)
  /\ Arrivals \subseteq [Cameras -> Nat]

outlookVars == <<now, book, pending, history, stats, file, born, looks, faults, arrival>>

RoadAt(t) == [c \in Cameras |-> IF t >= arrival[c] THEN Queued ELSE Healthy]

OutlookInit == Init /\ arrival \in Arrivals

\* A tick that sees the road, or whose camera fetch failed.
OutlookTick ==
  \E t \in TickTimes : \E view \in {RoadAt(t), <<>>} :
     \E forecast \in {f \in Forecasts : DOMAIN f \subseteq DOMAIN view} : Tick(t, view, forecast)

OutlookNext ==
  /\ \/ OutlookTick
     \/ \E t \in TickTimes : EvaluationRaises(t, RoadAt(t)) \/ TickFails(t)
     \/ Restart
  /\ UNCHANGED arrival

OutlookSpec == OutlookInit /\ [][OutlookNext]_outlookVars

\* The loop of main.py goes on with the next tick whatever became of the last one.
FairOutlook == OutlookSpec /\ WF_outlookVars(OutlookTick /\ UNCHANGED arrival)

(* What a verdict says of the road: a success means that the queue came no *)
(* later than the end of the window, a failure that it had not come before *)
(* the window began.                                                       *)
VerdictBracketsArrival ==
  \A i \in DOMAIN book :
     /\ book[i].status = "VERIFIED_SUCCESS" => arrival[book[i].target] <= book[i].impact + Tolerance
     /\ book[i].status = "FAILED" => arrival[book[i].target] > book[i].impact - Tolerance
=============================================================================
