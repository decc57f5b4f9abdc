-------------------------- MODULE CswpServerProofs --------------------------
(***************************************************************************)
(* Proofs about CswpServer, for every number of devices and registers and  *)
(* every client, and about the server under a client that keeps the        *)
(* documented order of calls.                                              *)
(***************************************************************************)
EXTENDS CswpDocumentedClient, TLAPS

-----------------------------------------------------------------------------
(* Any client *)

\* The handlers keep the types of the session's state.
LEMMA TypeStep == TypeOK /\ [Next]_vars => TypeOK'
<1> SUFFICES ASSUME TypeOK, [Next]_vars PROVE TypeOK'
  OBVIOUS
<1> USE ServerAssumption DEF TypeOK
<1>r. \A cmd \in Commands, err \in Errors :
        Replies(cmd, err) => reply' \in [cmd : Commands, type : Commands, err : Errors]
  BY DEF Replies
<1>s. \A cmd \in Commands :
        Succeeds(cmd) => reply' \in [cmd : Commands, type : Commands, err : Errors]
  BY <1>r DEF Succeeds, Errors
<1>e. EmptyRow \in Row /\ EmptyPrivRow \in PrivRow
  BY DEF EmptyRow, EmptyPrivRow, Row, PrivRow
<1>1. CASE CmdInit
  <2>1. CASE \E n \in 1 .. MaxDevices, dir \in [Device -> Dirs] : InitScans(n, dir)
    <3> PICK n \in 1 .. MaxDevices, dir \in [Device -> Dirs] : InitScans(n, dir)
      BY <2>1
    <3>1. table' \in [Device -> Row]
      BY DEF InitScans, EmptyRow, Row, Types
    <3>2. devPriv' \in [Device -> PrivRow]
      BY DEF InitScans, EmptyPrivRow, PrivRow, Paths, Device
    <3> QED
      BY <1>1, <3>1, <3>2, <1>s DEF CmdInit, InitScans, Commands
  <2>2. CASE InitScanFailed
    BY <1>1, <2>2, <1>e, <1>s DEF CmdInit, InitScanFailed, Commands
  <2> QED
    BY <1>1, <2>1, <2>2 DEF CmdInit
<1>2. CASE CmdTerm
  <2>1. reply' \in [cmd : Commands, type : Commands, err : Errors]
    BY <1>2, <1>s DEF CmdTerm, Commands
  <2>2. table' \in [Device -> Row]
    BY <1>2, <1>e DEF CmdTerm
  <2>3. devPriv' \in [Device -> PrivRow]
    BY <1>2, <1>e DEF CmdTerm
  <2>4. deviceCount' \in 0 .. MaxDevices /\ privCount' \in 0 .. MaxDevices
    BY <1>2 DEF CmdTerm
  <2>5. alive' \in BOOLEAN /\ session' \in BOOLEAN /\ description' \in BOOLEAN
    BY <1>2 DEF CmdTerm
  <2> QED
    BY <2>1, <2>2, <2>3, <2>4, <2>5
<1>3. CASE CmdClientInfo
  BY <1>3, <1>s DEF CmdClientInfo, TablesUnchanged, Commands
<1>4. CASE CmdSetDevices
  <2>1. CASE ~session
    BY <1>4, <2>1 DEF CmdSetDevices, Crash
  <2>2. CASE session
    <3>1. PICK n \in 0 .. MaxDevices, types \in [Device -> Types] :
            \/ SetDevices(n, n, types) /\ Succeeds("SET_DEVICES")
            \/ \E k \in 0 .. n - 1 :
                 /\ SetDevices(n, k, types)
                 /\ \E err \in DecodeErrors : Replies("SET_DEVICES", err)
      BY <1>4, <2>2 DEF CmdSetDevices
    <3>2. PICK k \in Int : SetDevices(n, k, types)
      BY <3>1
    <3>3. table' \in [Device -> Row]
      BY <3>2, <1>e DEF SetDevices, RowOfType, EmptyRow, Row
    <3>4. devPriv' \in [Device -> PrivRow]
      BY <3>2, <1>e DEF SetDevices, PrivRowOfType, EmptyPrivRow, PrivRow, Paths
    <3>5. reply' \in [cmd : Commands, type : Commands, err : Errors]
      BY <3>1, <1>s, <1>r DEF Commands, Errors, DecodeErrors
    <3> QED
      BY <1>4, <2>2, <3>2, <3>3, <3>4, <3>5 DEF CmdSetDevices, SetDevices
  <2> QED
    BY <2>1, <2>2
<1>5. CASE CmdGetDevices
  BY <1>5, <1>s, <1>r DEF CmdGetDevices, Crash, TablesUnchanged, Commands, Errors
<1>6. CASE CmdGetSystemDescription
  BY <1>6, <1>s, <1>r DEF CmdGetSystemDescription, TablesUnchanged, Commands, Errors
<1>7. CASE UnknownCommand
  BY <1>7, <1>r DEF UnknownCommand, TablesUnchanged, Commands, Errors
<1>8. ASSUME NEW cmd \in Commands, DecodeFails(cmd) PROVE TypeOK'
  BY <1>8, <1>r DEF DecodeFails, DecodeErrors, TablesUnchanged, Errors
<1>9. ASSUME NEW cmd \in DeviceCommands, NEW d \in Device, InvalidDevice(cmd, d)
      PROVE TypeOK'
  BY <1>9 DEF InvalidDevice, DeviceCommands, Commands, Errors, TablesUnchanged
<1>10. ASSUME NEW cmd \in DeviceCommands, NEW d \in Device, DeviceCommand(cmd, d)
       PROVE TypeOK'
  <2>1. CASE CmdDeviceOpen(d)
    <3>1. table' \in [Device -> Row]
      BY <2>1 DEF CmdDeviceOpen, Row
    <3>2. devPriv' \in [Device -> PrivRow]
      BY <2>1 DEF CmdDeviceOpen, PrivRow
    <3>3. reply' \in [cmd : Commands, type : Commands, err : Errors]
      BY <2>1, <1>s DEF CmdDeviceOpen, Commands
    <3> QED
      BY <2>1, <3>1, <3>2, <3>3 DEF CmdDeviceOpen
  <2>2. CASE CmdDeviceClose(d)
    BY <2>2, <1>s DEF CmdDeviceClose, Commands, Row
  <2>3. CASE CmdSetConfig(d)
    <3>1. ASSUME NEW path \in Paths, SetPath(d, path)
          PROVE devPriv' \in [Device -> PrivRow]
      BY <3>1 DEF SetPath, PrivRow
    <3> QED
      BY <2>3, <3>1, <1>s, <1>r DEF CmdSetConfig, Crash, Commands, Errors
  <2>4. CASE CmdGetConfig(d)
    BY <2>4, <1>s, <1>r DEF CmdGetConfig, TablesUnchanged, Commands, Errors
  <2>5. CASE CmdGetDeviceCapabilities(d)
    BY <2>5, <1>s DEF CmdGetDeviceCapabilities, Crash, TablesUnchanged, Commands
  <2>d. ASSUME NEW count \in Counts(d), NEW info \in Infos, NEW how \in {"ok", "failed"},
               SetDiscovery(d, count, info, how)
        PROVE table' \in [Device -> Row] /\ devPriv' \in [Device -> PrivRow]
    <3>1. count \in Nat
      BY DEF Counts, Row
    <3>2. table' \in [Device -> Row]
      BY <2>d, <3>1 DEF SetDiscovery, Infos, Row
    <3>3. devPriv' \in [Device -> PrivRow]
      BY <2>d DEF SetDiscovery, PrivRow
    <3> QED
      BY <3>2, <3>3
  <2>f. DiscoveryFails(d) => table' \in [Device -> Row] /\ devPriv' \in [Device -> PrivRow]
    BY <2>d DEF DiscoveryFails, Counts, Infos, Row
  <2>6. CASE CmdRegList(d)
    <3>1. ASSUME NEW count, NEW info, EncodeRegList(count, info)
          PROVE alive' \in BOOLEAN /\ reply' \in [cmd : Commands, type : Commands, err : Errors]
      BY <3>1, <1>s, <1>r DEF EncodeRegList, Commands, Errors
    <3> QED
      BY <2>6, <3>1, <2>d, <2>f DEF CmdRegList, Crash
  <2>7. ASSUME NEW c \in {"REG_READ", "REG_WRITE"}, NEW r \in RegisterIds, CmdRegAccess(c, d, r)
        PROVE TypeOK'
    <3>1. ASSUME NEW count, NEW info, RegAccess(c, d, r, count, info)
          PROVE alive' \in BOOLEAN /\ reply' \in [cmd : Commands, type : Commands, err : Errors]
      BY <3>1, <1>s, <1>r DEF RegAccess, Commands, Errors
    <3>2. CASE NeedsPathAndType(c, d)
      BY <3>2, <1>r DEF NeedsPathAndType, TablesUnchanged, Commands, Errors
    <3>3. CASE DiscoversThenAccesses(c, d, r)
      BY <3>3, <3>1, <2>d, <2>f, <1>r DEF DiscoversThenAccesses, Commands, Errors
    <3>4. CASE AccessesDiscovered(c, d, r)
      BY <3>4, <3>1 DEF AccessesDiscovered
    <3> QED
      BY <2>7, <3>2, <3>3, <3>4 DEF CmdRegAccess
  <2>8. ASSUME NEW c \in {"REG_READ", "REG_WRITE"}, CmdRegAccessNone(c, d)
        PROVE TypeOK'
    BY <2>8, <1>s DEF CmdRegAccessNone, TablesUnchanged, Commands
  <2>9. ASSUME NEW c \in {"MEM_READ", "MEM_WRITE", "MEM_POLL"}, CmdMemAccess(c, d)
        PROVE TypeOK'
    <3>1. c \in Commands /\ "MEM_POLL" \in Commands
      BY DEF Commands
    <3>2. MemErrors(c) \subseteq Errors
      BY DEF MemErrors, Errors
    <3>3. ChecksLastPoll => reply' \in [cmd : Commands, type : Commands, err : Errors]
      BY <3>1, <1>s, <1>r DEF ChecksLastPoll, Errors
    <3>4. reply' \in [cmd : Commands, type : Commands, err : Errors]
      BY <2>9, <3>1, <3>2, <3>3, <1>s, <1>r DEF CmdMemAccess, Errors
    <3> QED
      BY <2>9, <3>4 DEF CmdMemAccess, TablesUnchanged
  <2> QED
    BY <1>10, <2>1, <2>2, <2>3, <2>4, <2>5, <2>6, <2>7, <2>8, <2>9 DEF DeviceCommand
<1>11. CASE UNCHANGED vars
  BY <1>11 DEF vars
<1> QED
  BY <1>1, <1>2, <1>3, <1>4, <1>5, <1>6, <1>7, <1>8, <1>9, <1>10, <1>11
  DEF Next, SessionCommand

LEMMA TypeInit == Init => TypeOK
<1> SUFFICES ASSUME Init PROVE TypeOK
  OBVIOUS
<1>1. EmptyRow \in Row /\ EmptyPrivRow \in PrivRow
  BY DEF EmptyRow, EmptyPrivRow, Row, PrivRow
<1>2. table \in [Device -> Row] /\ devPriv \in [Device -> PrivRow]
  BY <1>1 DEF Init
<1>3. reply \in [cmd : Commands, type : Commands, err : Errors]
  BY DEF Init, Commands, Errors
<1>4. deviceCount \in 0 .. MaxDevices /\ privCount \in 0 .. MaxDevices
  BY ServerAssumption DEF Init
<1>5. alive \in BOOLEAN /\ session \in BOOLEAN /\ description \in BOOLEAN
  BY DEF Init
<1> QED
  BY <1>2, <1>3, <1>4, <1>5 DEF TypeOK

\* The variables of the session keep their types under every client.
THEOREM TypeCorrect == Spec => []TypeOK
  BY TypeInit, TypeStep, PTL DEF Spec

-----------------------------------------------------------------------------
(* Which commands touch the tables *)

\* A command about one device leaves the device list, the session and the
\* rows of every other device alone.
LEMMA DeviceCommandIsLocal ==
  ASSUME NEW cmd \in DeviceCommands, NEW d \in Device,
         DeviceCommand(cmd, d) \/ InvalidDevice(cmd, d)
  PROVE  UNCHANGED <<session, deviceCount, privCount, description>>
  BY DEF DeviceCommand, InvalidDevice, TablesUnchanged, Crash, CmdDeviceOpen,
         CmdDeviceClose, CmdSetConfig, CmdGetConfig, CmdGetDeviceCapabilities,
         CmdRegList, CmdRegAccess, NeedsPathAndType, DiscoversThenAccesses,
         AccessesDiscovered, CmdRegAccessNone, CmdMemAccess

\* CSWP_SET_DEVICES rebuilds both tables, however much of the list it could
\* decode, or crashes.
LEMMA SetDevicesRebuilds ==
  ASSUME CmdSetDevices
  PROVE  \/ Crash
         \/ /\ session /\ session'
            /\ \E n \in 0 .. MaxDevices, k \in Int, types \in [Device -> Types] :
                 SetDevices(n, k, types)
<1>1. CASE ~session
  BY <1>1 DEF CmdSetDevices
<1>2. CASE session
  <2>1. PICK n \in 0 .. MaxDevices, types \in [Device -> Types] :
          \/ SetDevices(n, n, types)
          \/ \E k \in 0 .. n - 1 : SetDevices(n, k, types)
    BY <1>2 DEF CmdSetDevices
  <2>2. \E k \in Int : SetDevices(n, k, types)
    BY <2>1
  <2>3. session'
    BY <1>2 DEF CmdSetDevices
  <2> QED
    BY <1>2, <2>2, <2>3
<1> QED
  BY <1>1, <1>2

\* The handlers keep the private table as long as the public one.
LEMMA CoverageStep ==
  TypeOK /\ PrivateTableCoversDevices /\ [Next]_vars => PrivateTableCoversDevices'
<1> SUFFICES ASSUME TypeOK, PrivateTableCoversDevices, [Next]_vars
             PROVE  PrivateTableCoversDevices'
  OBVIOUS
<1> USE DEF PrivateTableCoversDevices
<1>1. CASE CmdInit
  BY <1>1 DEF CmdInit, InitScans, InitScanFailed, TypeOK
<1>2. CASE CmdTerm
  BY <1>2 DEF CmdTerm
<1>3. CASE CmdSetDevices
  <2>1. CASE Crash
    BY <2>1 DEF Crash
  <2>2. ASSUME session', NEW n \in 0 .. MaxDevices, NEW k \in Int,
               NEW types \in [Device -> Types], SetDevices(n, k, types)
        PROVE PrivateTableCoversDevices'
    BY <2>2 DEF SetDevices
  <2> QED
    BY <1>3, <2>1, <2>2, SetDevicesRebuilds
<1>4. CASE CmdClientInfo \/ CmdGetDevices \/ CmdGetSystemDescription \/ UnknownCommand
  BY <1>4 DEF CmdClientInfo, CmdGetDevices, CmdGetSystemDescription,
              UnknownCommand, Crash, TablesUnchanged
<1>5. ASSUME NEW cmd \in Commands, DecodeFails(cmd)
      PROVE PrivateTableCoversDevices'
  BY <1>5 DEF DecodeFails, TablesUnchanged
<1>6. ASSUME NEW cmd \in DeviceCommands, NEW d \in Device,
             DeviceCommand(cmd, d) \/ InvalidDevice(cmd, d)
      PROVE PrivateTableCoversDevices'
  BY <1>6, DeviceCommandIsLocal
<1>7. CASE UNCHANGED vars
  BY <1>7 DEF vars
<1> QED
  BY <1>1, <1>2, <1>3, <1>4, <1>5, <1>6, <1>7 DEF Next, SessionCommand

\* Under every client, a handler that has checked a device number against
\* deviceCount has a session and a private row to index.
THEOREM Coverage == Spec => []PrivateTableCoversDevices
<1>1. Init => PrivateTableCoversDevices
  BY DEF Init, PrivateTableCoversDevices
<1> QED
  BY <1>1, CoverageStep, TypeCorrect, PTL DEF Spec

-----------------------------------------------------------------------------
(* Register names follow the path *)

\* What NamesMatchPath needs to be inductive: CSWP_SET_CONFIG gives only a
\* linux.cscomp device a new path, so a mem-ap, whose discovery scans no
\* directory, is never on one.
MemApOffDirs ==
  \A d \in Device :
    d < deviceCount /\ table[d].type = "mem-ap" => devPriv[d].path \notin Dirs

NamesInv == NamesMatchPath /\ MemApOffDirs

\* Every handler keeps NamesInv.
LEMMA NamesStep == TypeOK /\ NamesInv /\ [Next]_vars => NamesInv'
<1> SUFFICES ASSUME TypeOK, NamesInv, [Next]_vars PROVE NamesInv'
  OBVIOUS
<1> USE ServerAssumption DEF NamesInv, NamesMatchPath, MemApOffDirs
<1>1. CASE CmdInit
  <2>1. CASE InitScanFailed
    BY <2>1 DEF InitScanFailed, Device
  <2>2. ASSUME NEW n \in 1 .. MaxDevices, NEW dir \in [Device -> Dirs], InitScans(n, dir)
        PROVE NamesInv'
    BY <2>2 DEF InitScans, EmptyRow, EmptyPrivRow
  <2> QED
    BY <1>1, <2>1, <2>2 DEF CmdInit
<1>2. CASE CmdTerm
  BY <1>2 DEF CmdTerm, Device
<1>3. CASE CmdSetDevices
  <2>1. ASSUME NEW n \in 0 .. MaxDevices, NEW k \in Int,
               NEW types \in [Device -> Types], SetDevices(n, k, types)
        PROVE NamesInv'
    BY <2>1 DEF SetDevices, RowOfType, PrivRowOfType, EmptyRow, EmptyPrivRow
  <2>2. CASE Crash
    BY <2>2 DEF Crash
  <2> QED
    BY <1>3, <2>1, <2>2, SetDevicesRebuilds
<1>4. CASE CmdClientInfo \/ CmdGetDevices \/ CmdGetSystemDescription \/ UnknownCommand
  BY <1>4 DEF CmdClientInfo, CmdGetDevices, CmdGetSystemDescription,
              UnknownCommand, Crash, TablesUnchanged
<1>5. ASSUME NEW cmd \in Commands, DecodeFails(cmd) PROVE NamesInv'
  BY <1>5 DEF DecodeFails, TablesUnchanged
<1>6. ASSUME NEW cmd \in DeviceCommands, NEW d \in Device, InvalidDevice(cmd, d)
      PROVE NamesInv'
  BY <1>6 DEF InvalidDevice, TablesUnchanged
<1>7. ASSUME NEW cmd \in DeviceCommands, NEW d \in Device, DeviceCommand(cmd, d)
      PROVE NamesInv'
  <2>1. CASE CmdDeviceOpen(d)
    BY <2>1 DEF CmdDeviceOpen, TypeOK, Row, PrivRow
  <2>2. CASE CmdDeviceClose(d)
    BY <2>2 DEF CmdDeviceClose, TypeOK, Row
  <2>3. CASE CmdSetConfig(d)
    <3>1. ASSUME NEW path \in Paths, SetPath(d, path), table[d].type = "linux.cscomp",
                 UNCHANGED <<deviceCount, table>>
          PROVE NamesInv'
      BY <3>1 DEF SetPath, TypeOK, PrivRow
    <3> QED
      BY <2>3, <3>1 DEF CmdSetConfig, Crash
  <2>4. ASSUME NEW count \in Counts(d), NEW info \in Infos, d < deviceCount,
               Discovered(d, count, info), SetDiscovery(d, count, info, "ok"),
               UNCHANGED deviceCount
        PROVE NamesInv'
    BY <2>4 DEF Discovered, SetDiscovery, TypeOK, Row, PrivRow, Infos, Paths
  <2>5. ASSUME DiscoveryFails(d), UNCHANGED deviceCount PROVE NamesInv'
    BY <2>5 DEF DiscoveryFails, SetDiscovery, TypeOK, Row, PrivRow
  <2>6. CASE CmdRegList(d)
    BY <2>6, <2>4, <2>5 DEF CmdRegList, ValidDevice, Crash
  <2>7. ASSUME NEW c \in {"REG_READ", "REG_WRITE"}, NEW r \in RegisterIds, CmdRegAccess(c, d, r)
        PROVE NamesInv'
    BY <2>7, <2>4, <2>5
    DEF CmdRegAccess, NeedsPathAndType, DiscoversThenAccesses,
        AccessesDiscovered, ValidDevice, TablesUnchanged
  <2>8. CASE \/ CmdGetConfig(d) \/ CmdGetDeviceCapabilities(d)
             \/ \E c \in {"REG_READ", "REG_WRITE"} : CmdRegAccessNone(c, d)
             \/ \E c \in {"MEM_READ", "MEM_WRITE", "MEM_POLL"} : CmdMemAccess(c, d)
    BY <2>8 DEF CmdGetConfig, CmdGetDeviceCapabilities, CmdRegAccessNone,
                CmdMemAccess, TablesUnchanged, Crash
  <2> QED
    BY <1>7, <2>1, <2>2, <2>3, <2>6, <2>7, <2>8 DEF DeviceCommand
<1>8. CASE UNCHANGED vars
  BY <1>8 DEF vars
<1> QED
  BY <1>1, <1>2, <1>3, <1>4, <1>5, <1>6, <1>7, <1>8 DEF Next, SessionCommand

\* Under every client, register names in use after a successful discovery
\* come from the directory the device's PATH names now.
THEOREM Names == Spec => []NamesMatchPath
<1>1. Init => NamesInv
  BY DEF Init, NamesInv, NamesMatchPath, MemApOffDirs, Device
<1>2. NamesInv => NamesMatchPath
  BY DEF NamesInv
<1> QED
  BY <1>1, <1>2, NamesStep, TypeCorrect, PTL DEF Spec

-----------------------------------------------------------------------------
(* The documented client *)

\* Every step of the client's is a step of the server under any client.
LEMMA ClientStepIsServerStep == [ClientNext]_allvars => [Next]_vars
<1> SUFFICES ASSUME ClientNext PROVE Next
  BY DEF allvars
<1>1. CASE Begin \/ End \/ SetDeviceList
  BY <1>1 DEF Begin, End, SetDeviceList, Next, SessionCommand, Commands
<1>2. CASE Ask
  BY <1>2 DEF Ask, Next, SessionCommand, Commands, DeviceCommand, DeviceCommands
<1>3. ASSUME NEW d \in Device, Open(d) \/ Close(d) \/ ListRegisters(d)
      PROVE Next
  BY <1>3 DEF Open, Close, ListRegisters, Next, DeviceCommand, DeviceCommands
<1>4. ASSUME NEW d \in Device, NEW cmd \in {"REG_READ", "REG_WRITE"},
             NEW r \in RegisterIds, AccessRegister(cmd, d, r)
      PROVE Next
  BY <1>4 DEF AccessRegister, Next, DeviceCommand, DeviceCommands
<1>5. ASSUME NEW d \in Device, NEW cmd \in {"MEM_READ", "MEM_WRITE", "MEM_POLL"},
             AccessMemory(cmd, d)
      PROVE Next
  BY <1>5 DEF AccessMemory, Next, DeviceCommand, DeviceCommands
<1> QED
  BY <1>1, <1>2, <1>3, <1>4, <1>5 DEF ClientNext

\* The client's own variables keep their types, as do the server's.
THEOREM ClientTypeCorrect == ClientSpec => []ClientTypeOK
<1>1. ClientInit => ClientTypeOK
  BY TypeInit DEF ClientInit, ClientTypeOK
<1>2. ClientTypeOK /\ [ClientNext]_allvars => ClientTypeOK'
  <2> SUFFICES ASSUME ClientTypeOK, [ClientNext]_allvars PROVE ClientTypeOK'
    OBVIOUS
  <2>1. TypeOK'
    BY ClientStepIsServerStep, TypeStep DEF ClientTypeOK
  <2>2. UNCHANGED client => ClientTypeOK'
    BY <2>1 DEF client, ClientTypeOK
  <2>3. CASE Begin \/ End \/ SetDeviceList
    BY <2>1, <2>3 DEF Begin, End, SetDeviceList, ClientTypeOK, Accepted
  <2>4. ASSUME NEW d \in Device, Open(d) \/ Close(d) PROVE ClientTypeOK'
    BY <2>1, <2>4 DEF Open, Close, ClientTypeOK
  <2> QED
    BY <2>2, <2>3, <2>4
    DEF ClientNext, allvars, Ask, ListRegisters, AccessRegister, AccessMemory
<1> QED
  BY <1>1, <1>2, PTL DEF ClientSpec

-----------------------------------------------------------------------------
(* The documented client cannot crash the server *)

\* A device the client has open, other than a mem-ap, has a register list if
\* it has a register count.  Without it NoCrash is not inductive: a register
\* command walks the list as far as the count says.
OpenListsExist ==
  \A d \in opened :
    table[d].type # "mem-ap" => ~NullList(table[d].registerCount, table[d].registerInfo)

ClientInv == NoCrash /\ ClientViewHolds /\ OpenListsExist

\* The initial state satisfies the invariant.
LEMMA ClientInvInit == ClientInit => ClientInv
  BY DEF ClientInit, Init, ClientInv, NoCrash, ClientViewHolds, OpenListsExist

\* What a session command other than INIT, TERM and SET_DEVICES, or an error
\* reply, leaves alone.
LEMMA QuietStep ==
  ASSUME ClientInv, TablesUnchanged, UNCHANGED client
  PROVE  ClientInv'
  BY DEF ClientInv, TablesUnchanged, client, NoCrash, ClientViewHolds, OpenListsExist

\* Opening the session: the scan succeeds, every device gets a type.
LEMMA BeginStep ==
  ASSUME InitScanFails = FALSE, ClientTypeOK, ClientInv, Begin
  PROVE  ClientInv'
<1> USE DEF Begin, ClientInv, NoCrash, ClientViewHolds, OpenListsExist
<1>1. opened = {}
  OBVIOUS
<1>2. CASE CmdInit
  <2>1. PICK n \in 1 .. MaxDevices, dir \in [Device -> Dirs] : InitScans(n, dir)
    BY <1>2 DEF CmdInit, InitScanFailed
  <2>2. \A d \in Device : d < deviceCount' => table'[d].type # NULL
    BY <2>1, ServerAssumption DEF InitScans, EmptyRow
  <2> QED
    BY <1>1, <1>2, <2>1, <2>2 DEF CmdInit, InitScans
<1>3. CASE DecodeFails("INIT")
  <2>1. ~Accepted
    BY <1>3 DEF DecodeFails, Replies, DecodeErrors, Accepted
  <2>2. ~began' /\ opened' = {} /\ alive'
    BY <1>1, <1>3, <2>1 DEF DecodeFails, TablesUnchanged
  <2> QED
    BY ONLY <2>2 DEF ClientInv, NoCrash, ClientViewHolds, OpenListsExist
<1> QED
  BY <1>2, <1>3

\* Setting the device list: a list that was accepted is typed throughout.
LEMMA SetDeviceListStep ==
  ASSUME ClientTypeOK, ClientInv, SetDeviceList
  PROVE  ClientInv'
<1> USE DEF SetDeviceList, ClientInv, NoCrash, ClientViewHolds, OpenListsExist
<1>1. opened' = {} /\ session /\ began' = began
  OBVIOUS
<1>2. CASE CmdSetDevices
  <2>1. alive' /\ session'
    BY <1>1, <1>2 DEF CmdSetDevices
  <2>2. PICK n \in 0 .. MaxDevices, types \in [Device -> Types] :
          \/ SetDevices(n, n, types) /\ Succeeds("SET_DEVICES")
          \/ \E k \in 0 .. n - 1 :
               /\ SetDevices(n, k, types)
               /\ \E err \in DecodeErrors : Replies("SET_DEVICES", err)
    BY <1>1, <1>2 DEF CmdSetDevices
  <2>3. CASE SetDevices(n, n, types)
    <3>1. \A d \in Device : d < deviceCount' => table'[d].type # NULL
      BY <2>3, ServerAssumption DEF SetDevices, RowOfType, EmptyRow, Types
    <3> QED
      BY <1>1, <2>1, <3>1
  <2>4. CASE \E err \in DecodeErrors : Replies("SET_DEVICES", err)
    <3>a. ~Accepted
      BY <2>4 DEF Replies, DecodeErrors, Accepted
    <3>1. ~listed'
      BY <3>a
    <3> QED
      BY ONLY <1>1, <2>1, <3>1 DEF ClientInv, NoCrash, ClientViewHolds, OpenListsExist
  <2> QED
    BY <2>2, <2>3, <2>4
<1>3. CASE DecodeFails("SET_DEVICES")
  <2>a. ~Accepted
    BY <1>3 DEF DecodeFails, Replies, DecodeErrors, Accepted
  <2>1. ~listed'
    BY <2>a
  <2>2. alive' /\ session'
    BY <1>1, <1>3 DEF DecodeFails, TablesUnchanged
  <2> QED
    BY ONLY <1>1, <2>1, <2>2 DEF ClientInv, NoCrash, ClientViewHolds, OpenListsExist
<1> QED
  BY <1>2, <1>3

\* A discovery leaves no count without a list, except on a mem-ap.
LEMMA DiscoveryKeepsLists ==
  ASSUME ClientTypeOK, NEW d \in Device, NEW count \in Counts(d), NEW info \in Infos,
         table[d].type # "mem-ap", Discovered(d, count, info),
         ~NullList(table[d].registerCount, table[d].registerInfo)
  PROVE  ~NullList(count, info)
  BY ServerAssumption
  DEF ClientTypeOK, TypeOK, PrivRow, Paths, Discovered, NullList, Counts, Infos

\* A register command whose outcome on device d is count and info.
LEMMA RegisterStep ==
  ASSUME ClientTypeOK, ClientInv, NEW d \in opened, NEW count \in Nat, NEW info \in Infos,
         NEW how \in {"ok", "failed"},
         SetDiscovery(d, count, info, how), alive',
         table[d].type # "mem-ap" => ~NullList(count, info),
         UNCHANGED <<session, deviceCount, privCount, description>>,
         UNCHANGED client
  PROVE  ClientInv'
<1> USE DEF ClientInv, NoCrash, ClientViewHolds, OpenListsExist
<1>1. d \in Device /\ table \in [Device -> Row] /\ opened \subseteq Device
  BY DEF ClientTypeOK, TypeOK
<1>2. \A e \in Device : table'[e].type = table[e].type
  BY <1>1 DEF SetDiscovery, Row
<1>3. table'[d].registerCount = count /\ table'[d].registerInfo = info
  BY <1>1 DEF SetDiscovery, Row
<1>4. \A e \in Device \ {d} : table'[e] = table[e]
  BY <1>1 DEF SetDiscovery, Row
<1>5. OpenListsExist'
  BY <1>1, <1>2, <1>3, <1>4 DEF client
<1> QED
  BY <1>1, <1>2, <1>5 DEF client

\* CSWP_DEVICE_OPEN: the device starts with no registers.
LEMMA OpenStep ==
  ASSUME ClientTypeOK, ClientInv, NEW d \in Device, Open(d)
  PROVE  ClientInv'
<1> USE DEF Open, ClientInv, NoCrash, ClientViewHolds, OpenListsExist
<1>1. opened \subseteq Device /\ table \in [Device -> Row]
  BY DEF ClientTypeOK, TypeOK
<1>2. CASE CmdDeviceOpen(d)
  <2>1. alive' /\ d < deviceCount /\ began /\ listed /\ session
    BY <1>2 DEF CmdDeviceOpen, ValidDevice
  <2>2. UNCHANGED <<session, deviceCount, began, listed>>
    BY <1>2 DEF CmdDeviceOpen
  <2>3. opened' \subseteq opened \cup {d}
    OBVIOUS
  <2>4. \A e \in Device : table'[e].type = table[e].type
    BY <1>1, <1>2 DEF CmdDeviceOpen, Row
  <2>5. table'[d].registerCount = 0
    BY <1>1, <1>2 DEF CmdDeviceOpen, Row
  <2>6. \A e \in Device \ {d} : table'[e] = table[e]
    BY <1>1, <1>2 DEF CmdDeviceOpen, Row
  <2>7. OpenListsExist'
    BY <1>1, <2>3, <2>4, <2>5, <2>6 DEF NullList
  <2>8. ClientViewHolds'
    BY <1>1, <2>1, <2>2, <2>3, <2>4
  <2> QED
    BY <2>1, <2>7, <2>8
<1>3. CASE InvalidDevice("DEVICE_OPEN", d)
  <2>1. ~Accepted
    BY <1>3 DEF InvalidDevice, Accepted
  <2>2. opened' \subseteq opened /\ UNCHANGED <<began, listed>>
    BY <2>1
  <2>3. UNCHANGED <<alive, session, deviceCount, table>>
    BY <1>3 DEF InvalidDevice, TablesUnchanged
  <2> QED
    BY <1>1, <2>2, <2>3
<1> QED
  BY <1>2, <1>3

\* CSWP_DEVICE_CLOSE leaves a count without a list, on a device that the
\* client does not name until it opens it again.
LEMMA CloseStep ==
  ASSUME ClientTypeOK, ClientInv, NEW d \in Device, Close(d)
  PROVE  ClientInv'
<1> USE DEF Close, ClientInv, NoCrash, ClientViewHolds, OpenListsExist
<1>1. opened \subseteq Device /\ table \in [Device -> Row]
  BY DEF ClientTypeOK, TypeOK
<1>2. UNCHANGED <<alive, session, deviceCount, began, listed>> /\ opened' = opened \ {d}
  BY DEF CmdDeviceClose
<1>3. \A e \in Device : table'[e].type = table[e].type
  BY <1>1 DEF CmdDeviceClose, Row
<1>4. \A e \in Device \ {d} : table'[e] = table[e]
  BY <1>1 DEF CmdDeviceClose, Row
<1> QED
  BY <1>1, <1>2, <1>3, <1>4

\* CSWP_REG_LIST of a device that is not a mem-ap.
LEMMA ListRegistersStep ==
  ASSUME ListMemAp = FALSE, ClientTypeOK, ClientInv, NEW d \in Device, ListRegisters(d)
  PROVE  ClientInv'
<1> USE DEF ListRegisters
<1>1. d \in opened /\ table[d].type # "mem-ap" /\ alive
  BY DEF ClientInv, NoCrash
<1>2. d < deviceCount /\ table[d].type # NULL
  BY <1>1 DEF ClientInv, ClientViewHolds
<1>3. ~NullList(table[d].registerCount, table[d].registerInfo)
  BY <1>1 DEF ClientInv, OpenListsExist
<1>4. table[d].registerCount \in Nat /\ table[d].registerInfo \in Infos
  BY DEF ClientTypeOK, TypeOK, Row, Infos
<1>5. \A count, info : EncodeRegList(count, info) /\ ~NullList(count, info) => alive'
  BY <1>1 DEF EncodeRegList
<1>6. CASE devPriv[d].regsDiscovered = "no"
  <2>1. UNCHANGED <<session, deviceCount, privCount, description>>
    BY <1>2, <1>6 DEF CmdRegList
  <2>2. ASSUME NEW count \in Counts(d), NEW info \in Infos,
               Discovered(d, count, info), SetDiscovery(d, count, info, "ok"),
               EncodeRegList(count, info)
        PROVE ClientInv'
    <3>1. ~NullList(count, info)
      BY <2>2, <1>1, <1>3, DiscoveryKeepsLists
    <3>2. count \in Nat
      BY <1>4, ServerAssumption DEF Counts
    <3> QED
      BY <1>1, <1>5, <2>1, <2>2, <3>1, <3>2, RegisterStep
  <2>3. ASSUME DiscoveryFails(d),
               EncodeRegList(table[d].registerCount, table[d].registerInfo)
        PROVE ClientInv'
    BY <1>1, <1>3, <1>4, <1>5, <2>1, <2>3, RegisterStep DEF DiscoveryFails
  <2> QED
    BY <1>2, <1>6, <2>2, <2>3 DEF CmdRegList
<1>7. CASE devPriv[d].regsDiscovered # "no"
  <2>1. alive'
    BY <1>3, <1>5, <1>7 DEF CmdRegList
  <2>2. TablesUnchanged
    BY <1>1, <1>7, <2>1 DEF CmdRegList, EncodeRegList, TablesUnchanged, NullList
  <2> QED
    BY <2>2, QuietStep
<1> QED
  BY <1>6, <1>7

\* CSWP_REG_READ and CSWP_REG_WRITE of a register of an open device.
LEMMA AccessRegisterStep ==
  ASSUME ClientTypeOK, ClientInv, NEW d \in Device, NEW cmd \in {"REG_READ", "REG_WRITE"},
         NEW r \in RegisterIds, AccessRegister(cmd, d, r)
  PROVE  ClientInv'
<1> USE DEF AccessRegister
<1>1. d \in opened /\ alive
  BY DEF ClientInv, NoCrash
<1>2. table[d].type # "mem-ap" => ~NullList(table[d].registerCount, table[d].registerInfo)
  BY <1>1 DEF ClientInv, OpenListsExist
<1>3. table[d].registerCount \in Nat /\ table[d].registerInfo \in Infos
  BY DEF ClientTypeOK, TypeOK, Row, Infos
<1>4. ASSUME NEW count \in Nat, NEW info, RegAccess(cmd, d, r, count, info),
             table[d].type # "mem-ap" => ~NullList(count, info)
      PROVE alive'
  <2>1. r \in Nat
    BY ServerAssumption DEF RegisterIds
  <2>2. r < count => ~(table[d].type # "mem-ap" /\ info = NULL)
    BY <1>4, <2>1 DEF NullList
  <2>3. alive' = alive
    BY ONLY <1>4, <2>2 DEF RegAccess
  <2> QED
    BY <1>1, <2>3
<1>5. CASE NeedsPathAndType(cmd, d)
  BY <1>5, QuietStep DEF NeedsPathAndType
<1>6. CASE DiscoversThenAccesses(cmd, d, r)
  <2>1. UNCHANGED <<session, deviceCount, privCount, description>>
    BY <1>6 DEF DiscoversThenAccesses
  <2>2. ASSUME NEW count \in Counts(d), NEW info \in Infos,
               Discovered(d, count, info), SetDiscovery(d, count, info, "ok"),
               RegAccess(cmd, d, r, count, info)
        PROVE ClientInv'
    <3>1. table[d].type # "mem-ap" => ~NullList(count, info)
      BY <2>2, <1>1, <1>2, DiscoveryKeepsLists
    <3>2. count \in Nat
      BY <1>3, ServerAssumption DEF Counts
    <3>3. alive'
      BY <1>4, <2>2, <3>1, <3>2
    <3> QED
      BY <1>1, <2>1, <2>2, <3>1, <3>2, <3>3, RegisterStep
  <2>3. ASSUME DiscoveryFails(d), alive' = alive PROVE ClientInv'
    BY <1>1, <1>2, <1>3, <2>1, <2>3, RegisterStep DEF DiscoveryFails
  <2> QED
    BY <1>6, <2>2, <2>3 DEF DiscoversThenAccesses
<1>7. CASE AccessesDiscovered(cmd, d, r)
  <2>1. alive'
    BY <1>2, <1>3, <1>4, <1>7 DEF AccessesDiscovered
  <2>2. TablesUnchanged
    BY <1>1, <1>7, <2>1 DEF AccessesDiscovered, TablesUnchanged
  <2> QED
    BY <2>2, QuietStep
<1> QED
  BY <1>5, <1>6, <1>7 DEF CmdRegAccess

\* Commands that ask or configure: SET_CONFIG may move a device's path.
LEMMA AskStep ==
  ASSUME ClientTypeOK, ClientInv, Ask
  PROVE  ClientInv'
<1> USE DEF Ask
<1>1. \A d \in Device : d < deviceCount => table[d].type # NULL
  BY DEF ClientInv, ClientViewHolds
<1>2. alive
  BY DEF ClientInv, NoCrash
<1>3. CASE CmdClientInfo \/ CmdGetDevices \/ CmdGetSystemDescription
  BY <1>1, <1>3, QuietStep DEF CmdClientInfo, CmdGetDevices, CmdGetSystemDescription
<1>4. ASSUME NEW d \in Device, CmdSetConfig(d) PROVE ClientInv'
  <2>1. UNCHANGED <<alive, session, deviceCount, table, privCount, description>>
    BY <1>1, <1>4 DEF CmdSetConfig, ValidDevice
  <2> QED
    BY <2>1 DEF ClientInv, client, NoCrash, ClientViewHolds, OpenListsExist
<1>5. ASSUME NEW d \in Device, CmdGetConfig(d) \/ CmdGetDeviceCapabilities(d)
      PROVE ClientInv'
  BY <1>1, <1>5, QuietStep DEF CmdGetConfig, CmdGetDeviceCapabilities, ValidDevice
<1>6. ASSUME NEW cmd, DecodeFails(cmd) PROVE ClientInv'
  BY <1>6, QuietStep DEF DecodeFails
<1> QED
  BY <1>3, <1>4, <1>5, <1>6

\* Every step of the client keeps the invariant.
LEMMA ClientInvStep ==
  ASSUME InitScanFails = FALSE, ListMemAp = FALSE,
         ClientTypeOK, ClientInv, [ClientNext]_allvars
  PROVE  ClientInv'
<1>1. CASE End
  BY <1>1 DEF End, CmdTerm, ClientInv, NoCrash, ClientViewHolds, OpenListsExist
<1>2. ASSUME NEW d \in Device, NEW cmd, AccessMemory(cmd, d) PROVE ClientInv'
  BY <1>2, QuietStep DEF AccessMemory, CmdMemAccess
<1>3. CASE UNCHANGED allvars
  BY <1>3, QuietStep DEF allvars, vars, client, TablesUnchanged
<1> QED
  BY <1>1, <1>2, <1>3, BeginStep, SetDeviceListStep, AskStep, OpenStep, CloseStep,
     ListRegistersStep, AccessRegisterStep
  DEF ClientNext

\* With CORESIGHT_DEVICES present at CSWP_INIT, and short of listing a
\* mem-ap's registers, a client that keeps the documented order cannot crash
\* the server, whatever the target answers and whichever replies fit.
THEOREM NoCrashHolds ==
  ASSUME InitScanFails = FALSE, ListMemAp = FALSE
  PROVE  ClientSpec => []NoCrash
<1>1. ClientInv => NoCrash
  BY DEF ClientInv
<1> QED
  BY <1>1, ClientInvInit, ClientInvStep, ClientTypeCorrect, PTL DEF ClientSpec

\* Under the same conditions what the client believes is true of the server.
THEOREM ClientViewCorrect ==
  ASSUME InitScanFails = FALSE, ListMemAp = FALSE
  PROVE  ClientSpec => []ClientViewHolds
<1>1. ClientInv => ClientViewHolds
  BY DEF ClientInv
<1> QED
  BY <1>1, ClientInvInit, ClientInvStep, ClientTypeCorrect, PTL DEF ClientSpec
-----------------------------------------------------------------------------
(* Register ids keep their meaning *)

\* Devices are open in a session only, so that CSWP_INIT finds none open.
OpenInSession == opened # {} => began

\* What a command leaves of the registers of d that were discovered before and
\* are after it.
KeepsRegisters(d) ==
  devPriv[d].regsDiscovered = "ok" /\ devPriv'[d].regsDiscovered = "ok" =>
    /\ table'[d].registerCount = table[d].registerCount
    /\ table'[d].registerInfo = table[d].registerInfo
    /\ devPriv'[d].path = devPriv[d].path

LEMMA OpenInSessionStep == OpenInSession /\ [ClientNext]_allvars => OpenInSession'
  BY DEF OpenInSession, ClientNext, Begin, End, SetDeviceList, Ask, Open, Close, ListRegisters,
         AccessRegister, AccessMemory, client, allvars

\* A new PATH forgets the discovery, the old one again changes nothing.
LEMMA SetConfigKeeps ==
  ASSUME TypeOK, NEW d \in Device, NEW e \in Device, CmdSetConfig(e)
  PROVE  KeepsRegisters(d)
<1>1. /\ table' = table
      /\ devPriv' = devPriv \/ \E path \in Paths : SetPath(e, path)
  BY DEF CmdSetConfig, Crash
<1>2. ASSUME NEW path \in Paths, SetPath(e, path)
      PROVE  devPriv'[d] = devPriv[d] \/ devPriv'[d].regsDiscovered = "no"
  BY <1>2 DEF SetPath, TypeOK, PrivRow
<1> QED
  BY <1>1, <1>2 DEF KeepsRegisters

\* Registers are discovered only where they are not.
LEMMA DiscoveryKeeps ==
  ASSUME TypeOK, NEW d \in Device, NEW e \in Device, devPriv[e].regsDiscovered = "no",
         NEW count, NEW info, NEW how, SetDiscovery(e, count, info, how)
  PROVE  KeepsRegisters(d)
<1>1. d # e => table'[d] = table[d] /\ devPriv'[d] = devPriv[d]
  BY DEF SetDiscovery, TypeOK
<1> QED
  BY <1>1 DEF KeepsRegisters

\* Register commands, one case per outcome.
LEMMA RegisterCommandKeeps ==
  ASSUME TypeOK, NEW d \in Device, NEW e \in Device, NEW cmd, NEW r,
         CmdRegList(e) \/ CmdRegAccess(cmd, e, r)
  PROVE  KeepsRegisters(d)
<1>1. ASSUME UNCHANGED <<table, devPriv>>
      PROVE  KeepsRegisters(d)
  BY <1>1 DEF KeepsRegisters
<1>2. CASE /\ devPriv[e].regsDiscovered = "no"
           /\ \E count, info, how : SetDiscovery(e, count, info, how)
  BY <1>2, DiscoveryKeeps
<1>3. CASE CmdRegList(e)
  BY <1>1, <1>2, <1>3 DEF CmdRegList, Crash, DiscoveryFails
<1>4. CASE CmdRegAccess(cmd, e, r)
  BY <1>1, <1>2, <1>4
  DEF CmdRegAccess, NeedsPathAndType, TablesUnchanged, DiscoversThenAccesses, DiscoveryFails,
      AccessesDiscovered
<1> QED
  BY <1>3, <1>4

\* Of the commands of a client only CSWP_DEVICE_OPEN touches the registers of
\* a device that is open before and after.
LEMMA RegistersStay ==
  ASSUME TypeOK, OpenInSession, [ClientNext]_allvars, NEW d \in opened \cap opened',
         d \in Device, reply'.cmd # "DEVICE_OPEN"
  PROVE  KeepsRegisters(d)
<1>1. ASSUME UNCHANGED <<table, devPriv>>
      PROVE  KeepsRegisters(d)
  BY <1>1 DEF KeepsRegisters
<1>2. CASE Begin \/ End \/ SetDeviceList
  BY <1>2 DEF Begin, End, SetDeviceList, OpenInSession
<1>3. CASE Ask
  <2>1. ASSUME NEW e \in Device, CmdSetConfig(e)
        PROVE  KeepsRegisters(d)
    BY <2>1, SetConfigKeeps
  <2>2. CASE CmdClientInfo \/ CmdGetDevices \/ CmdGetSystemDescription
    BY <1>1, <2>2
    DEF CmdClientInfo, CmdGetDevices, CmdGetSystemDescription, TablesUnchanged, Crash
  <2>3. ASSUME NEW e \in Device, CmdGetConfig(e) \/ CmdGetDeviceCapabilities(e)
        PROVE  KeepsRegisters(d)
    BY <1>1, <2>3 DEF CmdGetConfig, CmdGetDeviceCapabilities, TablesUnchanged, Crash
  <2>4. ASSUME NEW cmd, DecodeFails(cmd)
        PROVE  KeepsRegisters(d)
    BY <1>1, <2>4 DEF DecodeFails, TablesUnchanged
  <2> QED
    BY <1>3, <2>1, <2>2, <2>3, <2>4 DEF Ask
<1>4. ASSUME NEW e \in Device, Open(e)
      PROVE  FALSE
  BY <1>4 DEF Open, CmdDeviceOpen, Succeeds, Replies, InvalidDevice
<1>5. ASSUME NEW e \in Device, Close(e)
      PROVE  KeepsRegisters(d)
  <2>1. d # e
    BY <1>5 DEF Close
  <2>2. table'[d] = table[d] /\ devPriv' = devPriv
    BY <1>5, <2>1 DEF Close, CmdDeviceClose, TypeOK
  <2> QED
    BY <2>2 DEF KeepsRegisters
<1>6. ASSUME NEW e \in Device, ListRegisters(e)
      PROVE  KeepsRegisters(d)
  BY <1>6, RegisterCommandKeeps DEF ListRegisters
<1>7. ASSUME NEW e \in Device, NEW cmd, NEW r, AccessRegister(cmd, e, r)
      PROVE  KeepsRegisters(d)
  BY <1>7, RegisterCommandKeeps DEF AccessRegister
<1>8. ASSUME NEW e \in Device, NEW cmd, AccessMemory(cmd, e)
      PROVE  KeepsRegisters(d)
  BY <1>1, <1>8 DEF AccessMemory, CmdMemAccess, TablesUnchanged, Crash
<1>9. CASE UNCHANGED allvars
  BY <1>1, <1>9 DEF allvars, vars
<1> QED
  BY <1>2, <1>3, <1>4, <1>5, <1>6, <1>7, <1>8, <1>9 DEF ClientNext

\* The registers a discovery numbered keep their numbers while the device stays
\* open with the same PATH, whatever else the client does with this device
\* and others, with scans that fail and with mem-ap lists as well.
THEOREM RegisterIdsAreStable == ClientSpec => RegisterIdsStable
<1> DEFINE Stable == \A d \in opened \cap opened' :
                       /\ devPriv[d].regsDiscovered = "ok"
                       /\ devPriv'[d].regsDiscovered = "ok"
                       /\ reply'.cmd # "DEVICE_OPEN"
                       => /\ table'[d].registerCount = table[d].registerCount
                          /\ table'[d].registerInfo = table[d].registerInfo
                          /\ devPriv'[d].path = devPriv[d].path
<1>1. ClientInit => OpenInSession
  BY DEF ClientInit, OpenInSession
<1>2. ClientTypeOK /\ OpenInSession /\ [ClientNext]_allvars => [Stable]_allvars
  <2>1. ClientTypeOK => opened \subseteq Device /\ TypeOK
    BY DEF ClientTypeOK
  <2> QED
    BY <2>1, RegistersStay DEF KeepsRegisters
<1> QED
  BY <1>1, <1>2, OpenInSessionStep, ClientTypeCorrect, PTL DEF ClientSpec, RegisterIdsStable
=============================================================================
