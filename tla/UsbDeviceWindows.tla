-------------------------- MODULE UsbDeviceWindows --------------------------
(***************************************************************************)
(* usb_device_windows.cpp: a USB device over WinUSB.  Every transfer has   *)
(* an event; completeTransfer waits, without the lock, for the events of   *)
(* the oldest transfer of each endpoint.  WinUSB is external.              *)
(***************************************************************************)
EXTENDS UsbDevice

VARIABLES
  status,    \* Transfer::status of each transfer
  event      \* external: its event and result, "unset" until it is signalled

windowsVars == <<status, event>>

WindowsTypeOK ==
  /\ status \in [Token -> Statuses \cup {"IN_PROGRESS"}]
  /\ event \in [Token -> Statuses \cup {"unset"}]

WindowsInit ==
  /\ status = [t \in Token |-> "IN_PROGRESS"]
  /\ event = [t \in Token |-> "unset"]

\* getDevicePath: with a serial number to look for, every device up to the
\* wanted one is opened, and one that does not open ends the search.
GetDevicePath(serial) ==
  IF serial = ""
  THEN \E i \in DOMAIN bus : bus[i].matches
  ELSE \E i \in DOMAIN bus :
         /\ Wanted(bus[i], serial)
         /\ \A j \in 1 .. i : bus[j].matches => bus[j].opens

\* Creation and connect.  The device found is opened once more, which may
\* fail; an endpoint list that cannot be read leaves it open.
WindowsConnect ==
  /\ link = "closed"
  /\ \E serial \in Serials :
       link' \in IF GetDevicePath(serial)
                 THEN {"closed", "half", "open"} ELSE {"closed"}
  /\ bus' = <<>>
  /\ UNCHANGED <<platform, nextToken, endpointOf, inFlight, numInFlight,
                 completed, returned, caller, driverVars, windowsVars>>

WindowsDisconnect ==
  /\ link # "closed"
  /\ Owed = {}
  /\ link' = "closed"
  /\ UNCHANGED <<platform, bus, nextToken, endpointOf, inFlight,
                 numInFlight, completed, returned, caller, driverVars, windowsVars>>

WindowsPendingTransfers == numInFlight + Len(completed)

\* The transfer completes at once, is under way, or is refused, which costs
\* a token and throws.
WindowsSubmitTransfer(e) ==
  /\ link = "open" /\ nextToken \in Token
  /\ nextToken' = nextToken + 1
  /\ \/ /\ endpointOf' = [endpointOf EXCEPT ![nextToken] = e]
        /\ inFlight' = [inFlight EXCEPT ![e] = Append(@, nextToken)]
        /\ numInFlight' = numInFlight + 1
        /\ \/ /\ driver' = Append(driver, nextToken)
              /\ UNCHANGED <<status, event>>
           \/ /\ \A t \in InDriver : endpointOf[t] # e
              /\ status' = [status EXCEPT ![nextToken] = "SUCCESS"]
              /\ event' = [event EXCEPT ![nextToken] = "SUCCESS"]
              /\ UNCHANGED driver
     \/ /\ SubmitsFail
        /\ UNCHANGED <<endpointOf, inFlight, numInFlight, driver, status, event>>
  /\ UNCHANGED <<deviceVars, completed, returned, caller, cancelling>>

\* Slip: only the oldest transfer of each endpoint is cancelled.
CancelsOldestOnly ==
  /\ cancelling' = cancelling \cup
       {t \in InDriver : t = inFlight[endpointOf[t]][1]}
  /\ UNCHANGED <<deviceVars, nextToken, endpointOf, inFlight, numInFlight,
                 completed, returned, caller, driver, windowsVars>>

WindowsCancelTransfers ==
  /\ cancelling' = cancelling \cup
       {t \in InDriver : status[t] = "IN_PROGRESS" /\ t \in HeldAt(endpointOf[t])}
  /\ UNCHANGED <<deviceVars, nextToken, endpointOf, inFlight, numInFlight,
                 completed, returned, caller, driver, windowsVars>>

\* External: the driver ends a transfer and signals its event.
DriverSignals(t, result) ==
  /\ MayFinish(t, result)
  /\ DriverDrops(t)
  /\ event' = [event EXCEPT ![t] = result]
  /\ UNCHANGED <<deviceVars, nextToken, endpointOf, inFlight, numInFlight,
                 completed, returned, caller, status>>

Oldest == {inFlight[e][1] : e \in {a \in Endpoints : inFlight[a] # <<>>}}

\* completeTransfer up to WaitForMultipleObjects, or to its return.
WindowsEnter(c) ==
  /\ caller[c].at = "idle"
  /\ IF completed = <<>> /\ numInFlight > 0
     THEN /\ caller' = [caller EXCEPT ![c] = [at |-> "waiting", watch |-> Oldest]]
          /\ UNCHANGED <<returned, completed>>
     ELSE Returns(c)
  /\ UNCHANGED <<deviceVars, nextToken, endpointOf, inFlight, numInFlight,
                 driverVars, windowsVars>>

\* An event that was waited for is set.  What is looked at then is the oldest
\* transfer that its endpoint has by now.  Whatever WinUsb_GetOverlappedResult
\* fails with, the transfer becomes cancelled: `err = ERROR_OPERATION_ABORTED'.
WindowsLeave(c) ==
  /\ caller[c].at = "waiting"
  /\ \E w \in caller[c].watch :
       LET e    == endpointOf[w]
           t    == inFlight[e][1]
           done == IF event[t] = "SUCCESS" THEN "SUCCESS" ELSE "CANCELLED"
           all  == Append(completed, [token |-> t, status |-> done])
       IN
       /\ event[w] # "unset"
       /\ inFlight[e] # <<>>
       /\ status' = [status EXCEPT ![t] = done]
       /\ inFlight' = [inFlight EXCEPT ![e] = Tail(@)]
       /\ numInFlight' = numInFlight - 1
       /\ returned' = Append(returned, Head(all))
       /\ completed' = Tail(all)
  /\ caller' = [caller EXCEPT ![c] = Idle]
  /\ UNCHANGED <<deviceVars, nextToken, endpointOf, driverVars, event>>
=============================================================================
