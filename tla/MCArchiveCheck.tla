--------------------------- MODULE MCArchiveCheck ---------------------------
(***************************************************************************)
(* ArchiveCheck for TLC: minutes for seconds.  A round stretched by a 429  *)
(* leaves no time for another, and every bound of the code is reached.     *)
(***************************************************************************)
EXTENDS ArchiveCheck

MCListingWaits == <<1, 2>>
=============================================================================
