--------------------------- MODULE UsbDeviceLinux ---------------------------
(***************************************************************************)
(* usb_device_linux.cpp: a USB device over libusb.  Transfers beyond       *)
(* MAX_IN_FLIGHT are queued and submitted when one of them completes.      *)
(* libusb is external: a thread inside it (completeTransfer waiting for an *)
(* event, or any synchronous control transfer) runs the callbacks.         *)
(***************************************************************************)
EXTENDS UsbDevice

VARIABLES
  queued,          \* m_queuedTransfers, of all endpoints
  completedFlag,   \* m_completedFlag
  controlling      \* a thread is in libusb_control_transfer

linuxVars == <<queued, completedFlag, controlling>>

LinuxTypeOK ==
  /\ queued \in Seq(Token)
  /\ completedFlag \in BOOLEAN
  /\ controlling \in BOOLEAN

LinuxInit ==
  /\ queued = <<>>
  /\ completedFlag = FALSE
  /\ controlling = FALSE

\* Devices that cannot be opened or whose serial number cannot be read are
\* passed over.
FindAndOpenDeviceBySerialNumber(serial) ==
  \E i \in DOMAIN bus : Wanted(bus[i], serial) /\ bus[i].opens

\* The type of an endpoint from the low bits of its attributes.
ExamineEndpoints ==
  [e \in Endpoints |->
     CASE Descriptor[e].attributes % 4 = 0 -> "CONTROL"
       [] Descriptor[e].attributes % 4 = 1 -> "ISOCHRONOUS"
       [] Descriptor[e].attributes % 4 = 2 -> "BULK"
       [] Descriptor[e].attributes % 4 = 3 -> "INTERRUPT"]

\* The search, the claim of the interface and the endpoint list; a failure
\* behind the search leaves the device open.
LinuxConnect ==
  /\ link = "closed"
  /\ \E serial \in Serials :
       link' \in IF FindAndOpenDeviceBySerialNumber(serial)
                 THEN {"half", "open"} ELSE {"closed"}
  /\ bus' = <<>>
  /\ UNCHANGED <<platform, nextToken, endpointOf, inFlight, numInFlight,
                 completed, returned, caller, driverVars, linuxVars>>

\* The owner disconnects when nothing is pending (the destructor, a detach).
LinuxDisconnect ==
  /\ link # "closed"
  /\ Owed = {}
  /\ link' = "closed"
  /\ UNCHANGED <<platform, bus, nextToken, endpointOf, inFlight,
                 numInFlight, completed, returned, caller, driverVars, linuxVars>>

\* Slip: what is queued is not counted.
StartedTransfers == numInFlight + Len(completed)

LinuxPendingTransfers == Len(queued) + numInFlight + Len(completed)

CreatesTransfer(e) == ExamineEndpoints[e] \in {"BULK", "INTERRUPT"}

\* A transfer in the wrong direction, of the wrong type or one that libusb
\* refuses costs a token and throws.
LinuxSubmitTransfer(e, dir) ==
  /\ link = "open" /\ nextToken \in Token
  /\ nextToken' = nextToken + 1
  /\ \/ /\ \/ dir # Descriptor[e].dir
           \/ ~CreatesTransfer(e)
           \/ SubmitsFail /\ Len(inFlight[e]) < MAX_IN_FLIGHT
        /\ UNCHANGED <<endpointOf, inFlight, numInFlight, driver, queued>>
     \/ /\ dir = Descriptor[e].dir /\ CreatesTransfer(e)
        /\ endpointOf' = [endpointOf EXCEPT ![nextToken] = e]
        /\ IF Len(inFlight[e]) < MAX_IN_FLIGHT
           THEN /\ inFlight' = [inFlight EXCEPT ![e] = Append(@, nextToken)]
                /\ numInFlight' = numInFlight + 1
                /\ driver' = Append(driver, nextToken)
                /\ UNCHANGED queued
           ELSE /\ queued' = Append(queued, nextToken)
                /\ UNCHANGED <<inFlight, numInFlight, driver>>
  /\ UNCHANGED <<deviceVars, completed, returned, caller, cancelling,
                 completedFlag, controlling>>

LinuxSubmitReadTransfer(e)  == LinuxSubmitTransfer(e, "IN")
LinuxSubmitWriteTransfer(e) == LinuxSubmitTransfer(e, "OUT")

Cancelled(ts) == [i \in DOMAIN ts |-> [token |-> ts[i], status |-> "CANCELLED"]]

\* Slip: what is queued is cancelled like what libusb holds.
CancelsQueuedToo ==
  /\ cancelling' = InDriver \cup ToSet(queued)
  /\ UNCHANGED <<deviceVars, nextToken, endpointOf, inFlight, numInFlight,
                 completed, returned, caller, driver, linuxVars>>

LinuxCancelTransfers ==
  /\ cancelling' = {t \in InDriver : \E e \in Endpoints : t \in HeldAt(e)}
  /\ completed' = completed \o Cancelled(queued)
  /\ queued' = <<>>
  /\ UNCHANGED <<deviceVars, nextToken, endpointOf, inFlight, numInFlight,
                 returned, caller, driver, completedFlag, controlling>>

\* completeTransfer up to libusb_handle_events_completed, or to its return.
LinuxEnter(c) ==
  /\ caller[c].at = "idle"
  /\ IF completed = <<>> /\ numInFlight > 0
     THEN IF completedFlag
          THEN completedFlag' = FALSE /\ NothingReady(c)
          ELSE /\ caller' = [caller EXCEPT ![c].at = "waiting"]
               /\ UNCHANGED <<returned, completed, completedFlag>>
     ELSE Returns(c) /\ UNCHANGED completedFlag
  /\ UNCHANGED <<deviceVars, nextToken, endpointOf, inFlight, numInFlight,
                 driverVars, queued, controlling>>

\* completeTransfer from there on, once the flag is set.
LinuxLeave(c) ==
  /\ caller[c].at = "waiting"
  /\ completedFlag
  /\ completedFlag' = FALSE
  /\ Returns(c)
  /\ UNCHANGED <<deviceVars, nextToken, endpointOf, inFlight, numInFlight,
                 driverVars, queued, controlling>>

HandlesEvents == controlling \/ \E c \in Completers : caller[c].at = "waiting"

\* How many queued transfers go to libusb when endpoint e has room for n.
Resubmits(n) == IF Len(queued) < n THEN Len(queued) ELSE n

\* Slip: the oldest transfer of the endpoint completes, whichever t is.
CompletesOldest(t, status) ==
  LET e == endpointOf[t] IN
  /\ HandlesEvents
  /\ MayFinish(t, status)
  /\ DriverDrops(t)
  /\ completed' = Append(completed, [token |-> inFlight[e][1], status |-> status])
  /\ completedFlag' = TRUE
  /\ inFlight' = [inFlight EXCEPT ![e] = Tail(@)]
  /\ numInFlight' = numInFlight - 1
  /\ UNCHANGED <<deviceVars, nextToken, endpointOf, returned, caller, queued,
                 controlling>>

\* The callback for t.  It looks for t among the transfers of its endpoint
\* and then submits k queued transfers, of whatever endpoint, which it counts
\* to that one; if libusb refuses another it is freed.
TransferComplete(t, status) ==
  LET e     == endpointOf[t]
      found == t \in HeldAt(e)
      rest  == Without(inFlight[e], t)
      room  == IF Len(rest) < MAX_IN_FLIGHT THEN MAX_IN_FLIGHT - Len(rest) ELSE 0
  IN
  /\ HandlesEvents
  /\ MayFinish(t, status)
  /\ completed' = IF found THEN Append(completed, [token |-> t, status |-> status])
                  ELSE completed
  /\ completedFlag' = (completedFlag \/ found)
  /\ \E k \in 0 .. Resubmits(room), refused \in {0, 1} :
       LET moved == SubSeq(queued, 1, k) IN
       /\ refused = 1 => ResubmitsFail /\ k < Resubmits(room)
       /\ refused = 0 => k = Resubmits(room)
       /\ queued' = SubSeq(queued, k + refused + 1, Len(queued))
       /\ inFlight' = [inFlight EXCEPT ![e] = rest \o moved]
       /\ numInFlight' = numInFlight + k - (IF found THEN 1 ELSE 0)
       /\ driver' = Without(driver, t) \o moved
  /\ cancelling' = cancelling \ {t}
  /\ UNCHANGED <<deviceVars, nextToken, endpointOf, returned, caller, controlling>>

\* A synchronous control transfer of another thread; libusb handles events
\* in it.
ControlTransferBegins ==
  /\ link = "open" /\ ~controlling
  /\ controlling' = TRUE
  /\ UNCHANGED <<commonVars, queued, completedFlag>>

ControlTransferEnds ==
  /\ controlling
  /\ controlling' = FALSE
  /\ UNCHANGED <<commonVars, queued, completedFlag>>
=============================================================================
