----------------------------- MODULE MCCDQueue ------------------------------
(***************************************************************************)
(* TLC instance of CDQueue.                                                *)
(***************************************************************************)
EXTENDS CDQueue
=============================================================================
