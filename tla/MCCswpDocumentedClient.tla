----------------------- MODULE MCCswpDocumentedClient -----------------------
(***************************************************************************)
(* TLC instance of CswpDocumentedClient.                                   *)
(***************************************************************************)
EXTENDS CswpDocumentedClient, TLC

\* The directories are only compared with each other.
DirSymmetry == Permutations(Dirs)
=============================================================================
