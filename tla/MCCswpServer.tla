---------------------------- MODULE MCCswpServer ----------------------------
(***************************************************************************)
(* TLC instance of CswpServer: any client, any order of commands.          *)
(***************************************************************************)
EXTENDS CswpServer, TLC

\* The directories are only compared with each other.
DirSymmetry == Permutations(Dirs)
=============================================================================
