------------------------ MODULE MCEvaluationLogger ------------------------
(***************************************************************************)
(* A corridor of four cameras: 2 and 3 share a site, 4 is far north.  One  *)
(* time unit is 30 s and MaxEta and Expiry are scaled down, so that a      *)
(* window, the silence after it and the expiry all fit in a short run.     *)
(***************************************************************************)
EXTENDS EvaluationLogger

MCChainage == <<0, 3, 4, 16>>
\* Ticks that catch every window, and one that leaps over a whole window.
MCGaps == {2, 3, 8}

State(anomaly, capacity, lanes) == [is_anomaly |-> anomaly, capacity |-> capacity, lanes |-> lanes]
Clear == State(FALSE, 5, 2)     \* exactly half of free flow: not a drop
Low   == State(FALSE, 4, 2)
Alarm == State(TRUE, 10, 2)
NoLanes == State(FALSE, 0, 0)

Partial(D, R) == UNION {[S -> R] : S \in SUBSET D}

\* The fetch failed, or cameras 2 and 4 answered with some of the two targets.
MCViews ==
  {<<>>} \cup
  {[c \in {2, 4} \cup DOMAIN a \cup DOMAIN b |->
      IF c \in DOMAIN a THEN a[c] ELSE IF c \in DOMAIN b THEN b[c] ELSE Low] :
     a \in Partial({1}, {Clear, Low}), b \in Partial({3}, {Alarm, NoLanes})}

\* Camera 2 at speed 2 is too close, camera 4 at speed 1 too far, speed 0 no queue.
Queues(c, s, d, r) == [x \in {c, d} |-> IF x = c THEN s ELSE r]
MCForecasts ==
  {<<>>, [c \in {2} |-> 1], Queues(2, 0, 3, 2), Queues(2, 2, 4, 2), Queues(3, 2, 4, 2), Queues(2, 2, 4, 1)}
=============================================================================
