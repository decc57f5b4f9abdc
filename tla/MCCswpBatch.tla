---------------------------- MODULE MCCswpBatch ----------------------------
(***************************************************************************)
(* TLC instance of CswpBatch.                                              *)
(***************************************************************************)
EXTENDS CswpBatch
=============================================================================
