----------------------------- MODULE MCStatusPage -----------------------------
(***************************************************************************)
(* StatusPage for TLC.                                                     *)
(***************************************************************************)
EXTENDS StatusPage
=============================================================================
