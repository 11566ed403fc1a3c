-------------------------- MODULE MCWaybackArchive --------------------------
(***************************************************************************)
(* WaybackArchive for TLC: three captures, so that two may share a digest  *)
(* and one may lie beyond the tries of the search.                         *)
(***************************************************************************)
EXTENDS WaybackArchive

CONSTANTS good, bad

MCTimes == 1 .. 3

MCFailures ==
  {"none_found", "save_failed", "mismatch", "not_served_yet", "unchecked"}
=============================================================================
