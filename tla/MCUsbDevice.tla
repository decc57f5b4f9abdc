---------------------------- MODULE MCUsbDevice -----------------------------
(***************************************************************************)
(* USBDevice::create picks one implementation; a client drives it.  The    *)
(* client completes what is pending, as every user of the class does, and  *)
(* keeps to one of two disciplines: it uses one endpoint, or it keeps to   *)
(* asyncTransferCount on each.                                             *)
(***************************************************************************)
EXTENDS UsbDeviceLinux, UsbDeviceWindows

VARIABLES
  oneEndpoint,   \* the discipline: the only endpoint, or NULL
  asked          \* history: transfers pending at some call of cancelTransfers

mcVars == <<commonVars, linuxVars, windowsVars, oneEndpoint, asked>>

Response == CHOOSE e \in Endpoints : TRUE

Devices == [matches : {TRUE}, serial : {"A"}, opens : BOOLEAN]

\* The response endpoint and the command endpoint, both bulk.
MCDescriptor ==
  [e \in Endpoints |->
     [dir |-> IF e = Response THEN "IN" ELSE "OUT", attributes |-> 2]]

MCBuses == {<<>>} \cup {<<[matches |-> TRUE, serial |-> "B", opens |-> b], d>> :
                         b \in BOOLEAN, d \in Devices}

MCInit ==
  /\ platform \in {"Linux", "Windows"}
  /\ CommonInit
  /\ LinuxInit
  /\ WindowsInit
  /\ oneEndpoint \in {NULL, Response}
  /\ asked = {}

MaySubmit(e) ==
  IF oneEndpoint = NULL THEN Len(inFlight[e]) < MAX_IN_FLIGHT ELSE e = oneEndpoint

OnLinux == platform = "Linux" /\ UNCHANGED <<windowsVars, oneEndpoint>>
OnWindows == platform = "Windows" /\ UNCHANGED <<linuxVars, oneEndpoint>>

LinuxComplete == \E c \in Completers : LinuxEnter(c) \/ LinuxLeave(c)

LinuxCallback == \E t \in InDriver, s \in Statuses : TransferComplete(t, s)

WindowsComplete == \E c \in Completers : WindowsEnter(c) \/ WindowsLeave(c)

WindowsDriver == \E t \in InDriver, s \in Statuses : DriverSignals(t, s)

LinuxNext ==
  \/ LinuxConnect
  \/ LinuxDisconnect
  \/ \E e \in Endpoints : MaySubmit(e) /\ LinuxSubmitReadTransfer(e)
  \/ \E e \in Endpoints : MaySubmit(e) /\ LinuxSubmitWriteTransfer(e)
  \/ ControlTransferBegins
  \/ ControlTransferEnds
  \/ LinuxComplete
  \/ LinuxCallback

WindowsNext ==
  \/ WindowsConnect
  \/ WindowsDisconnect
  \/ \E e \in Endpoints : MaySubmit(e) /\ WindowsSubmitTransfer(e)
  \/ WindowsComplete
  \/ WindowsDriver

MCNext ==
  \/ OnLinux /\ LinuxNext /\ UNCHANGED asked
  \/ OnLinux /\ LinuxCancelTransfers /\ asked' = asked \cup Owed
  \/ OnWindows /\ WindowsNext /\ UNCHANGED asked
  \/ OnWindows /\ WindowsCancelTransfers /\ asked' = asked \cup Owed

\* The driver ends what it was asked to cancel, a thread that is awake runs,
\* and the client calls completeTransfer while anything is pending.
EndsCancelled(t) == t \in cancelling /\ MCNext /\ t \notin cancelling'

Completes ==
  /\ Owed # {}
  /\ \/ OnLinux /\ LinuxComplete
     \/ OnWindows /\ WindowsComplete
  /\ UNCHANGED asked

MCFairness ==
  /\ \A t \in Token : WF_mcVars(EndsCancelled(t))
  /\ WF_mcVars(Completes)

MCSpec == MCInit /\ [][MCNext]_mcVars /\ MCFairness

-----------------------------------------------------------------------------

UsbTypeOK == CommonTypeOK /\ LinuxTypeOK /\ WindowsTypeOK

PendingTransfers ==
  IF platform = "Linux" THEN LinuxPendingTransfers ELSE WindowsPendingTransfers

\* pendingTransfers() is the number of transfers the client has not got back,
\* so that the loop of detachDevice ends exactly when all are back.
PendingCountExact == PendingTransfers = Cardinality(Owed)

\* A buffer that completeTransfer returned is not in the hands of the driver
\* any more: the client may free it.
ReturnedNotInUse == ReturnedTokens \cap InDriver = {}

Held(e) ==
  {t \in HeldAt(e) \cup ToSet(queued) \cup {completed[i].token : i \in DOMAIN completed} :
     endpointOf[t] = e}

Promise == INSTANCE UsbDevicePromise WITH
  Tokens  <- Token,
  pending <- [e \in Endpoints |-> Held(e)],
  answers <- returned

\* Each transfer is completed once and what succeeds on an endpoint in order,
\* on both platforms.
KeepsUsbPromise == Promise!Spec

\* After cancelTransfers a client that goes on calling completeTransfer gets
\* all its buffers back.
CancelledReturn == \A t \in Token : t \in asked ~> t \in ReturnedTokens
=============================================================================
