---------------------------- MODULE MCBrowserTrips ----------------------------
(***************************************************************************)
(* Two tabs, three edits, two replans and versions up to five: enough for  *)
(* a stale tab, a replan overtaken by an edit or by another replan, an     *)
(* undo in the other tab and a history longer than the two revisions kept. *)
(***************************************************************************)
EXTENDS BrowserTrips, TLC

Symmetric == Permutations(Tabs) \cup Permutations(Edits) \cup Permutations(Replans)
=============================================================================
