-------------------------- MODULE UsbDevicePromise --------------------------
(***************************************************************************)
(* What the interface of a USB device promises of its transfers            *)
(* (usb_device.h: submitReadTransfer, cancelTransfers, completeTransfer):  *)
(* a transfer that was accepted is completed to its owner once; transfers  *)
(* that succeed on one endpoint are completed in the order they were       *)
(* submitted in, so that what was read can be put together.                *)
(***************************************************************************)
EXTENDS Naturals, Sequences

CONSTANTS
  Endpoints,   \* endpoint addresses
  Tokens       \* tokens of transfers, numbered as they are submitted

VARIABLES
  pending,     \* per endpoint the tokens not completed yet
  answers      \* what completeTransfer returned: token and status

vars == <<pending, answers>>

Init ==
  /\ pending = [e \in Endpoints |-> {}]
  /\ answers = <<>>

Submit(e, t) ==
  /\ \A a \in Endpoints : \A u \in pending[a] : u < t
  /\ \A i \in DOMAIN answers : answers[i].token < t
  /\ pending' = [pending EXCEPT ![e] = @ \cup {t}]
  /\ UNCHANGED answers

Complete(e, t, status) ==
  /\ t \in pending[e]
  /\ status = "SUCCESS" => \A u \in pending[e] : t <= u
  /\ pending' = [pending EXCEPT ![e] = @ \ {t}]
  /\ answers' = Append(answers, [token |-> t, status |-> status])

Next ==
  \E e \in Endpoints, t \in Tokens :
    \/ Submit(e, t)
    \/ \E s \in {"SUCCESS", "CANCELLED", "ERROR"} : Complete(e, t, s)

Spec == Init /\ [][Next]_vars
=============================================================================
