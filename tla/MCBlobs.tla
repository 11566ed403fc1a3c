------------------------------- MODULE MCBlobs -------------------------------
(***************************************************************************)
(* Blobs for TLC.                                                          *)
(***************************************************************************)
EXTENDS Blobs
=============================================================================
