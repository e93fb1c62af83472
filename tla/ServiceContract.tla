-------------------------- MODULE ServiceContract --------------------------
(***************************************************************************)
(* What an operator may rely on of the live service: the dashboard shows   *)
(* whole ticks that are on disk already, each newer than the one before,   *)
(* and once a shutdown has begun it shows nothing new.                     *)
(***************************************************************************)
EXTENDS Naturals

VARIABLES
  saved,   \* newest tick in sensor_data.jsonl
  shown,   \* tick on the dashboard, 0 for none
  up       \* the service runs and no shutdown has begun

Init == saved = 0 /\ shown = 0 /\ up = TRUE

Save  == saved' > saved /\ UNCHANGED <<shown, up>>
Show  == up /\ saved > shown /\ shown' = saved /\ UNCHANGED <<saved, up>>
Stop  == up /\ up' = FALSE /\ UNCHANGED <<saved, shown>>

\* A new process has nothing to show yet.
Start == shown' = 0 /\ up' = TRUE /\ UNCHANGED saved

Next == Save \/ Show \/ Stop \/ Start

Spec == Init /\ [][Next]_<<saved, shown, up>>
=============================================================================
