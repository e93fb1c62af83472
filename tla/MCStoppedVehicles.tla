------------------------- MODULE MCStoppedVehicles -------------------------
(***************************************************************************)
(* One camera, for cameras share nothing but the tick.  Boxes at 0 and 1   *)
(* match, as do those at 1 and 2; a frame with 0 and 1 is crowded.         *)
(***************************************************************************)
EXTENDS StoppedVehicles

CONSTANT c1

MCCameras == {c1}
MCSpots   == 0..2
MCFrames  == {[boxes |-> b, density |-> 20 * Len(b)] :
                b \in {<<>>, <<0>>, <<1>>, <<0, 2>>, <<2, 0>>, <<1, 0>>}}
=============================================================================
