----------------------------- MODULE UsbDevice ------------------------------
(***************************************************************************)
(* What the two USB devices of usb_client have in common: the bus that is  *)
(* searched, the transfers in flight per endpoint and the queue of those   *)
(* that completed, and the operating system's driver, which is external.   *)
(* UsbDeviceLinux and UsbDeviceWindows add the calls.                      *)
(***************************************************************************)
EXTENDS Naturals, Sequences, FiniteSets, SequencesExt

CONSTANTS
  Endpoints,      \* addresses of the interface's endpoints
  Descriptor,     \* per endpoint: dir ("IN", "OUT") and attributes, a byte
  MaxTokens,      \* bound: calls of submitReadTransfer and submitWriteTransfer
  MAX_IN_FLIGHT,  \* transfers in flight on an endpoint, 32 or 8
  Completers,     \* threads that call completeTransfer
  Buses,          \* sequences of devices that connect may find
  SubmitsFail,    \* BOOLEAN: the driver may refuse a transfer
  ResubmitsFail,  \* BOOLEAN: libusb may refuse one that was queued
  NULL

ASSUME UsbAssumption ==
  /\ MaxTokens \in Nat /\ MAX_IN_FLIGHT \in Nat \ {0}
  /\ SubmitsFail \in BOOLEAN /\ ResubmitsFail \in BOOLEAN
  /\ NULL \notin Endpoints
  /\ Descriptor \in [Endpoints -> [dir : {"IN", "OUT"}, attributes : 0 .. 255]]

Token == 0 .. MaxTokens - 1

VARIABLES
  platform,       \* which implementation USBDevice::create chose
  bus,            \* the devices connect will find: matches, serial, opens
  link,           \* the device: "closed", "half" (opened, connect threw), "open"
  nextToken,      \* m_nextToken
  endpointOf,     \* the endpoint of a transfer, NULL unless a token was returned
  inFlight,       \* m_epInFlightTransfers, m_inFlightTransfers
  numInFlight,    \* m_inFlightTransfers, m_numInFlightTransfers
  completed,      \* m_completedTransfers
  returned,       \* what completeTransfer returned so far
  caller,         \* per completer: "idle" or "waiting", and what it waits for
  driver,         \* external: transfers the driver holds, in the order it got them
  cancelling      \* external: those it was asked to cancel

deviceVars == <<platform, bus, link>>
driverVars == <<driver, cancelling>>
commonVars == <<deviceVars, nextToken, endpointOf, inFlight, numInFlight,
                completed, returned, caller, driverVars>>

Statuses == {"SUCCESS", "CANCELLED", "ERROR"}
Answer   == [token : Token, status : Statuses]
Idle     == [at |-> "idle", watch |-> {}]

ReturnedTokens == {returned[i].token : i \in DOMAIN returned}
Owed           == {t \in Token : endpointOf[t] # NULL} \ ReturnedTokens
InDriver       == ToSet(driver)
HeldAt(e)      == ToSet(inFlight[e])

CommonTypeOK ==
  /\ platform \in {"Linux", "Windows"}
  /\ link \in {"closed", "half", "open"}
  /\ nextToken \in 0 .. MaxTokens
  /\ endpointOf \in [Token -> Endpoints \cup {NULL}]
  /\ inFlight \in [Endpoints -> Seq(Token)]
  /\ driver \in Seq(Token)
  /\ numInFlight \in Nat
  /\ completed \in Seq(Answer) /\ returned \in Seq(Answer)
  /\ caller \in [Completers -> [at : {"idle", "waiting"}, watch : SUBSET Token]]
  /\ cancelling \subseteq InDriver

CommonInit ==
  /\ bus \in Buses
  /\ link = "closed"
  /\ nextToken = 0
  /\ endpointOf = [t \in Token |-> NULL]
  /\ inFlight = [e \in Endpoints |-> <<>>]
  /\ numInFlight = 0
  /\ completed = <<>>
  /\ returned = <<>>
  /\ caller = [c \in Completers |-> Idle]
  /\ driver = <<>>
  /\ cancelling = {}

\* Vendor, product and interface match, and the serial number if one is given.
Wanted(d, serial) == d.matches /\ (serial = "" \/ serial = d.serial)

Serials == {""} \cup {bus[i].serial : i \in DOMAIN bus}

\* Slip: the newest completed transfer is returned.
PopNewest(c) ==
  /\ completed # <<>>
  /\ returned' = Append(returned, Last(completed))
  /\ completed' = Front(completed)
  /\ caller' = [caller EXCEPT ![c] = Idle]

\* completeTransfer hands the oldest completed transfer to thread c.
PopCompleted(c) ==
  /\ completed # <<>>
  /\ returned' = Append(returned, Head(completed))
  /\ completed' = Tail(completed)
  /\ caller' = [caller EXCEPT ![c] = Idle]

\* It returns -1.
NothingReady(c) ==
  /\ completed = <<>>
  /\ caller' = [caller EXCEPT ![c] = Idle]
  /\ UNCHANGED <<returned, completed>>

Returns(c) == PopCompleted(c) \/ NothingReady(c)

\* The driver got no transfer of t's endpoint before t.
FirstOfItsEndpoint(t) ==
  \E i \in DOMAIN driver :
    driver[i] = t /\ \A j \in 1 .. i - 1 : endpointOf[driver[j]] # endpointOf[t]

\* The driver is done with t, in order unless t was cancelled.
MayFinish(t, status) ==
  /\ t \in InDriver
  /\ IF status = "CANCELLED" THEN t \in cancelling ELSE FirstOfItsEndpoint(t)

\* ts after the entry for t, if there is one, is erased.
Without(ts, t) ==
  IF t \in ToSet(ts) THEN RemoveAt(ts, CHOOSE i \in DOMAIN ts : ts[i] = t) ELSE ts

DriverDrops(t) ==
  /\ driver' = Without(driver, t)
  /\ cancelling' = cancelling \ {t}
=============================================================================
