-------------------------- MODULE CswpBatchPromise --------------------------
(***************************************************************************)
(* What a batch promises (cswp_client.h: cswp_batch_begin): its commands   *)
(* run in order, each at most once; a batch that aborts on error runs      *)
(* nothing after the first command that failed, any other batch runs them  *)
(* all; the answer comes when nothing is left to run.                      *)
(***************************************************************************)
EXTENDS Naturals, Sequences

CONSTANT MaxOps   \* bound: commands in a batch

VARIABLES
  open,      \* the batch is with the server
  size,      \* its number of commands
  aborts,    \* whether it aborts on error
  results    \* TRUE or FALSE for each command run so far: it succeeded

vars == <<open, size, aborts, results>>

SomeFailed == \E i \in DOMAIN results : ~results[i]

Init ==
  /\ open = FALSE
  /\ size = 0
  /\ aborts = FALSE
  /\ results = <<>>

Submit ==
  /\ ~open
  /\ open' = TRUE
  /\ size' \in 1 .. MaxOps
  /\ aborts' \in BOOLEAN
  /\ results' = <<>>

RunNext ==
  /\ open
  /\ Len(results) < size
  /\ ~(aborts /\ SomeFailed)
  /\ \E ok \in BOOLEAN : results' = Append(results, ok)
  /\ UNCHANGED <<open, size, aborts>>

Answer ==
  /\ open
  /\ Len(results) = size \/ (aborts /\ SomeFailed)
  /\ open' = FALSE
  /\ UNCHANGED <<size, aborts, results>>

\* The connection is lost: the client does not learn what ran.
Lose ==
  /\ open
  /\ open' = FALSE
  /\ UNCHANGED <<size, aborts, results>>

Next == Submit \/ RunNext \/ Answer \/ Lose

Spec == Init /\ [][Next]_vars
=============================================================================
