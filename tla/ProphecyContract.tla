------------------------- MODULE ProphecyContract -------------------------
(***************************************************************************)
(* What a camera-to-camera prophecy promises, with no logger, no cameras   *)
(* and no files: a ledger of predictions that is only ever extended, in    *)
(* which a prediction is settled at most once, only at a clock reading     *)
(* that its window allows, and never in the step that makes it.            *)
(* EvaluationLogger implements this specification.                         *)
(***************************************************************************)
EXTENDS Integers, Sequences

CONSTANTS
  Tolerance,  \* half-width of the evaluation window around the due time
  Expiry      \* how long after the due time a prediction is given up

VARIABLES
  clock,      \* timestamp of the newest tick
  ledger      \* sequence of [due, status], one entry per prophecy ever made

vars == <<clock, ledger>>

(* A verdict needs an observation inside the window; giving up needs the   *)
(* expiry to have passed.                                                  *)
MaySettle(due, status, t) ==
  \/ status \in {"VERIFIED_SUCCESS", "FAILED"} /\ due - Tolerance <= t /\ t <= due + Tolerance
  \/ status = "EXPIRED" /\ t > due + Expiry

Init ==
  /\ clock = 0
  /\ ledger = <<>>

Next ==
  /\ clock' >= clock
  /\ Len(ledger') >= Len(ledger)
  /\ \A i \in 1..Len(ledger) :
       \/ ledger'[i] = ledger[i]
       \/ /\ ledger[i].status = "pending"
          /\ ledger'[i].due = ledger[i].due
          /\ MaySettle(ledger[i].due, ledger'[i].status, clock')
  /\ \A i \in (Len(ledger) + 1)..Len(ledger') :
       ledger'[i].status = "pending" /\ ledger'[i].due > clock'

Spec == Init /\ [][Next]_vars
=============================================================================
