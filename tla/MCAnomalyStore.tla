--------------------------- MODULE MCAnomalyStore ---------------------------
(***************************************************************************)
(* Two camera workers, three lines over two days of which one is kept:     *)
(* the first compaction can drop some lines and keep others.               *)
(***************************************************************************)
EXTENDS AnomalyStore, TLC

CONSTANTS c1, c2

MCCameras == {c1, c2}
MCSymmetry == Permutations(MCCameras)
=============================================================================
