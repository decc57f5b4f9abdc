------------------------ MODULE CswpDocumentedClient ------------------------
(***************************************************************************)
(* The server driven by one client that keeps the order of calls of the    *)
(* protocol specification, section 4.4: CSWP_INIT first, the device list   *)
(* set while no device is open, a device opened before its resources are   *)
(* used and not used after CSWP_DEVICE_CLOSE.  The client knows only what  *)
(* the replies told it: a command that failed is taken as not done, a      *)
(* close as done.                                                          *)
(***************************************************************************)
EXTENDS CswpServer

CONSTANT
  ListMemAp   \* BOOLEAN: the client lists the registers of a mem-ap device

ASSUME ClientAssumption == ListMemAp \in BOOLEAN

VARIABLES
  began,     \* CSWP_INIT was answered with success, CSWP_TERM not yet sent
  listed,    \* the device list is known to be the one the client wants
  opened     \* devices whose CSWP_DEVICE_OPEN was answered with success

client == <<began, listed, opened>>
allvars == <<vars, client>>

ClientTypeOK ==
  /\ TypeOK
  /\ began \in BOOLEAN /\ listed \in BOOLEAN
  /\ opened \subseteq Device

ClientInit ==
  /\ Init
  /\ began = FALSE
  /\ listed = FALSE
  /\ opened = {}

Accepted == reply'.err = "SUCCESS"

-----------------------------------------------------------------------------

Begin ==
  /\ ~began
  /\ CmdInit \/ DecodeFails("INIT")
  /\ began' = Accepted
  /\ listed' = Accepted
  /\ UNCHANGED opened

End ==
  /\ began
  /\ CmdTerm
  /\ began' = FALSE
  /\ listed' = FALSE
  /\ opened' = {}

SetDeviceList ==
  /\ began /\ opened = {}
  /\ CmdSetDevices \/ DecodeFails("SET_DEVICES")
  /\ listed' = Accepted
  /\ UNCHANGED <<began, opened>>

\* Commands about the session or about a device of the list, open or not.
Ask ==
  /\ began /\ listed
  /\ \/ CmdClientInfo \/ CmdGetDevices \/ CmdGetSystemDescription
     \/ \E d \in Device : CmdSetConfig(d) \/ CmdGetConfig(d) \/ CmdGetDeviceCapabilities(d)
     \/ \E cmd \in {"CLIENT_INFO", "SET_CONFIG", "GET_CONFIG"} : DecodeFails(cmd)
  /\ UNCHANGED client

Open(d) ==
  /\ began /\ listed
  /\ CmdDeviceOpen(d) \/ InvalidDevice("DEVICE_OPEN", d)
  /\ opened' = IF Accepted THEN opened \cup {d} ELSE opened \ {d}
  /\ UNCHANGED <<began, listed>>

Close(d) ==
  /\ d \in opened
  /\ CmdDeviceClose(d)
  /\ opened' = opened \ {d}
  /\ UNCHANGED <<began, listed>>

ListRegisters(d) ==
  /\ d \in opened
  /\ table[d].type = "mem-ap" => ListMemAp
  /\ CmdRegList(d)
  /\ UNCHANGED client

AccessRegister(cmd, d, r) ==
  /\ d \in opened
  /\ CmdRegAccess(cmd, d, r)
  /\ UNCHANGED client

AccessMemory(cmd, d) ==
  /\ d \in opened
  /\ CmdMemAccess(cmd, d)
  /\ UNCHANGED client

ClientNext ==
  \/ Begin \/ End \/ SetDeviceList \/ Ask
  \/ \E d \in Device :
       \/ Open(d) \/ Close(d) \/ ListRegisters(d)
       \/ \E cmd \in {"REG_READ", "REG_WRITE"}, r \in RegisterIds :
            AccessRegister(cmd, d, r)
       \/ \E cmd \in {"MEM_READ", "MEM_WRITE", "MEM_POLL"} : AccessMemory(cmd, d)

ClientSpec == ClientInit /\ [][ClientNext]_allvars

-----------------------------------------------------------------------------
(* Properties *)

\* A client that follows the specification cannot make a handler dereference
\* a null pointer, whatever fails on the way: a directory scan, a truncated
\* device list, a full response buffer.
NoCrash == alive

\* What the client believes is true of the server: its session exists, its
\* open devices are in the list, and every device it may name has a type.
ClientViewHolds ==
  /\ began => session
  /\ opened # {} => began /\ listed
  /\ \A d \in opened : d < deviceCount
  /\ began /\ listed =>
       \A d \in Device : d < deviceCount => table[d].type # NULL

\* While a device stays open with the same PATH, the registers a successful
\* discovery numbered keep their numbers: a register id the client learned
\* from CSWP_REG_LIST is not renumbered by any other command.
RegisterIdsStable ==
  [][\A d \in opened \cap opened' :
       /\ devPriv[d].regsDiscovered = "ok"
       /\ devPriv'[d].regsDiscovered = "ok"
       /\ reply'.cmd # "DEVICE_OPEN"
       => /\ table'[d].registerCount = table[d].registerCount
          /\ table'[d].registerInfo = table[d].registerInfo
          /\ devPriv'[d].path = devPriv[d].path]_allvars

\* cswp_server_impl.h: register_list_build "Detect all the registers
\* available and add it to the register list"; section 4.5: "Clients can
\* discover the registers supported by a device using the CSWP_REG_LIST
\* command".  CSWP_REG_LIST of an open device is answered.
RegListAnswered == [][\A d \in Device : ListRegisters(d) => alive']_allvars
=============================================================================
