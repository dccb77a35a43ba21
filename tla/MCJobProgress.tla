---------------------------- MODULE MCJobProgress ----------------------------
(***************************************************************************)
(* Four events are enough for a job that waits for its key, is resumed and *)
(* ends while two pages read, poll or have stopped at any of them; with    *)
(* five, a restart or a second cancel comes on top, for one page that may  *)
(* also be loaded anew.                                                    *)
(***************************************************************************)
EXTENDS JobProgress, TLC

Symmetric == Permutations(Pages)
=============================================================================
