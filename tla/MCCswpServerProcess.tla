------------------------ MODULE MCCswpServerProcess ------------------------
(***************************************************************************)
(* TLC instance of CswpServerProcess: both transports.                     *)
(***************************************************************************)
EXTENDS CswpServerProcess
=============================================================================
