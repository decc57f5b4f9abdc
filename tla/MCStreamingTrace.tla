-------------------------- MODULE MCStreamingTrace --------------------------
(***************************************************************************)
(* TLC instances of the streaming trace library: under the capture         *)
(* application (CaptureSpec), and under a client that makes the calls of   *)
(* the library in any order (MCSpec).                                      *)
(***************************************************************************)
EXTENDS StreamingTraceCapture

MCInit == Init /\ AppInit /\ app = "other"

\* Any client but the capture application.
OtherClient ==
  /\ app = "other"
  /\ \E s \in Sinks : Call(s)
  /\ UNCHANGED appVars

MCNext == CaptureNext \/ OtherClient

MCSpec == MCInit /\ [][MCNext]_captureVars /\ CaptureFairness
=============================================================================
