----------------------------- MODULE MCMainLoop -----------------------------
(***************************************************************************)
(* Two cameras and two sources: one camera can be excluded while the other *)
(* stays, and the sensors' future is collected while the cameras still run.*)
(* Two ticks: an exclusion during the first takes hold in the second.      *)
(***************************************************************************)
EXTENDS MainLoop

CONSTANTS c1, c2

MCCameras  == {c1, c2}
MCOrder    == <<"cameras", "sensors">>
=============================================================================
