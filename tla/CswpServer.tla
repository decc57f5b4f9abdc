----------------------------- MODULE CswpServer -----------------------------
(***************************************************************************)
(* The CSWP server's session: the device table built by CSWP_INIT and      *)
(* CSWP_SET_DEVICES, the private table the target implementation keeps     *)
(* beside it, and the register lists discovered on demand.                 *)
(*                                                                         *)
(* One action per command handler of cswp_server_cmdint.c, each taken with *)
(* the calls it makes into cswp_server_impl.c and the target's             *)
(* cswp_impl.c.  A handler that dereferences a null pointer ends the       *)
(* process: alive becomes FALSE and nothing happens afterwards.            *)
(***************************************************************************)
EXTENDS Integers

CONSTANTS
  MaxDevices,    \* bound: entries of the largest device list
  MaxRegs,       \* bound: register files a directory scan finds
  MemApRegs,     \* registers a mem-ap device claims (4095 in the code)
  Dirs,          \* directories a device's PATH can name
  DevMem,        \* the path "/dev/mem"
  NULL,          \* a null pointer
  InitScanFails  \* BOOLEAN: the scan of CORESIGHT_DEVICES may fail at INIT

ASSUME ServerAssumption ==
  /\ MaxDevices \in Nat \ {0}
  /\ MaxRegs \in Nat
  /\ MemApRegs \in Nat \ {0}
  /\ DevMem \notin Dirs
  /\ NULL \notin Dirs \cup {DevMem}
  /\ NULL \notin {"mem-ap", "memory", "cscomp", "linux.cscomp"}
  /\ InitScanFails \in BOOLEAN

VARIABLES
  alive,        \* FALSE once a handler dereferenced a null pointer
  session,      \* state->priv # NULL
  deviceCount,  \* state->deviceCount
  table,        \* state->deviceTypes (and names), state->deviceInfo
  privCount,    \* entries allocated in priv->devicePriv
  devPriv,      \* priv->devicePriv
  description,  \* state->systemDescription # NULL
  reply         \* the last sub-response: command, its type field, error code

vars == <<alive, session, deviceCount, table, privCount, devPriv,
          description, reply>>

Device  == 0 .. MaxDevices - 1
Types   == {"mem-ap", "memory", "cscomp", "linux.cscomp"}
Paths   == Dirs \cup {DevMem}

Commands ==
  {"INIT", "TERM", "CLIENT_INFO", "SET_DEVICES", "GET_DEVICES",
   "GET_SYSTEM_DESCRIPTION", "DEVICE_OPEN", "DEVICE_CLOSE", "SET_CONFIG",
   "GET_CONFIG", "GET_DEVICE_CAPABILITIES", "REG_LIST", "REG_READ",
   "REG_WRITE", "MEM_READ", "MEM_WRITE", "MEM_POLL", "UNKNOWN"}

Errors ==
  {"SUCCESS", "NOT_INITIALIZED", "BUFFER_FULL", "BUFFER_EMPTY",
   "OUTPUT_BUFFER_OVERFLOW", "UNSUPPORTED", "FAILED", "INVALID_DEVICE", "BAD_ARGS",
   "REG_FAILED", "MEM_FAILED", "MEM_BAD_ACCESS_SIZE", "MEM_POLL_NO_MATCH"}

\* A row of the public table: its type (NULL until set), the number of
\* registers, and the register list - NULL or the directory it was read from.
Row     == [type : Types \cup {NULL}, registerCount : Nat,
            registerInfo : Paths \cup {NULL}]
\* A row of the private table: the path, and regsDiscovered, whose value 1
\* is split by how the discovery that set it ended.
PrivRow == [path : Paths \cup {NULL}, regsDiscovered : {"no", "ok", "failed"}]

EmptyRow     == [type |-> NULL, registerCount |-> 0, registerInfo |-> NULL]
EmptyPrivRow == [path |-> NULL, regsDiscovered |-> "no"]

TypeOK ==
  /\ alive \in BOOLEAN /\ session \in BOOLEAN /\ description \in BOOLEAN
  /\ deviceCount \in 0 .. MaxDevices
  /\ privCount \in 0 .. MaxDevices
  /\ table \in [Device -> Row]
  /\ devPriv \in [Device -> PrivRow]
  /\ reply \in [cmd : Commands, type : Commands, err : Errors]

Init ==
  /\ alive = TRUE
  /\ session = FALSE
  /\ deviceCount = 0
  /\ table = [d \in Device |-> EmptyRow]
  /\ privCount = 0
  /\ devPriv = [d \in Device |-> EmptyPrivRow]
  /\ description = FALSE
  /\ reply = [cmd |-> "UNKNOWN", type |-> "UNKNOWN", err |-> "SUCCESS"]

-----------------------------------------------------------------------------
(* Replies *)

\* A sub-response of the command's own type.
Replies(cmd, err) == reply' = [cmd |-> cmd, type |-> cmd, err |-> err]

\* The success response, which may not fit in what is left of the response
\* buffer: the error then goes out instead, after the command took effect.
Succeeds(cmd) == \E err \in {"SUCCESS", "BUFFER_FULL"} : Replies(cmd, err)

\* A handler dereferences a null pointer.
Crash ==
  /\ alive' = FALSE
  /\ UNCHANGED <<session, deviceCount, table, privCount, devPriv,
                 description, reply>>

TablesUnchanged ==
  UNCHANGED <<alive, session, deviceCount, table, privCount, devPriv,
              description>>

\* cswp_decode_..._body fails: the body is truncated, or one of its strings
\* is longer than the handler's buffer.
DecodeErrors == {"BUFFER_EMPTY", "OUTPUT_BUFFER_OVERFLOW"}

DecodeFails(cmd) ==
  /\ alive
  /\ cmd \notin {"TERM", "GET_DEVICES", "GET_SYSTEM_DESCRIPTION", "UNKNOWN"}
  /\ \E err \in DecodeErrors : Replies(cmd, err)
  /\ TablesUnchanged

\* deviceNo >= state->deviceCount.  Six handlers label the error response
\* CSWP_DEVICE_OPEN instead of their own type.
Mislabelled ==
  {"DEVICE_CLOSE", "REG_LIST", "REG_WRITE", "MEM_READ", "MEM_WRITE",
   "MEM_POLL"}

InvalidDevice(cmd, d) ==
  /\ alive
  /\ d >= deviceCount
  /\ reply' = [cmd |-> cmd,
               type |-> IF cmd \in Mislabelled THEN "DEVICE_OPEN" ELSE cmd,
               err |-> "INVALID_DEVICE"]
  /\ TablesUnchanged

\* cswp_dispatch_command's default case.
UnknownCommand ==
  /\ alive
  /\ Replies("UNKNOWN", "UNSUPPORTED")
  /\ TablesUnchanged

-----------------------------------------------------------------------------
(* Session commands *)

\* cswp_server_impl_init: device 0 is system memory, the others are the
\* n - 1 entries of CORESIGHT_DEVICES.
InitScans(n, dir) ==
  /\ session' = TRUE
  /\ deviceCount' = n
  /\ privCount' = n
  /\ table' = [d \in Device |->
       IF d < n
       THEN [EmptyRow EXCEPT !.type = IF d = 0 THEN "memory" ELSE "cscomp"]
       ELSE EmptyRow]
  /\ devPriv' = [d \in Device |->
       IF d < n
       THEN [EmptyPrivRow EXCEPT !.path = IF d = 0 THEN DevMem ELSE dir[d]]
       ELSE EmptyPrivRow]
  /\ description' \in BOOLEAN

\* The scan failed: cswp_server_init has emptied the public table, and the
\* private state, if any, stays as it was.
InitScanFailed ==
  /\ InitScanFails
  /\ deviceCount' = 0
  /\ table' = [d \in Device |-> EmptyRow]
  /\ UNCHANGED <<session, privCount, devPriv, description>>

\* CSWP_INIT reports success whatever impl->init returned.
CmdInit ==
  /\ alive
  /\ \/ \E n \in 1 .. MaxDevices, dir \in [Device -> Dirs] : InitScans(n, dir)
     \/ InitScanFailed
  /\ Succeeds("INIT")
  /\ UNCHANGED alive

\* Slip: the private state is freed and the device table kept.
CmdTermKeepsTable ==
  /\ alive
  /\ session' = FALSE
  /\ privCount' = 0
  /\ devPriv' = [d \in Device |-> EmptyPrivRow]
  /\ Succeeds("TERM")
  /\ UNCHANGED <<alive, deviceCount, table, description>>

\* impl->term frees priv; cswp_server_clear_devices empties the table.
CmdTerm ==
  /\ alive
  /\ session' = FALSE
  /\ deviceCount' = 0
  /\ privCount' = 0
  /\ table' = [d \in Device |-> EmptyRow]
  /\ devPriv' = [d \in Device |-> EmptyPrivRow]
  /\ Succeeds("TERM")
  /\ UNCHANGED <<alive, description>>

CmdClientInfo ==
  /\ alive
  /\ Succeeds("CLIENT_INFO")
  /\ TablesUnchanged

\* cswp_server_set_device with cswp_server_impl_device_add.
RowOfType(t)     == [EmptyRow EXCEPT !.type = t]
PrivRowOfType(t) ==
  [EmptyPrivRow EXCEPT
     !.path = IF t \in {"mem-ap", "memory"} THEN DevMem ELSE NULL]

\* Slip: the memory device is counted on top of the list.
SetDevicesAndMemory(n, k, types) ==
  /\ deviceCount' = n + 1
  /\ privCount' = n + 1
  /\ table' = [d \in Device |->
                 IF d < k THEN RowOfType(types[d]) ELSE EmptyRow]
  /\ devPriv' = [d \in Device |->
                   IF d < k THEN PrivRowOfType(types[d]) ELSE EmptyPrivRow]

\* n devices are announced and the first k are decoded: a name or type that
\* cannot be decoded ends the loop with the rest of the table zeroed.
SetDevices(n, k, types) ==
  /\ deviceCount' = n
  /\ privCount' = n
  /\ table' = [d \in Device |->
                 IF d < k THEN RowOfType(types[d]) ELSE EmptyRow]
  /\ devPriv' = [d \in Device |->
                   IF d < k THEN PrivRowOfType(types[d]) ELSE EmptyPrivRow]

\* Slip: a list that is cut short is reported as set.
CmdSetDevicesIgnoresErrors ==
  /\ alive
  /\ IF session
     THEN /\ \E n \in 0 .. MaxDevices, types \in [Device -> Types] :
               \E k \in 0 .. n : SetDevices(n, k, types)
          /\ Succeeds("SET_DEVICES")
          /\ UNCHANGED <<alive, session, description>>
     ELSE Crash

CmdSetDevices ==
  /\ alive
  /\ IF session
     THEN /\ \E n \in 0 .. MaxDevices, types \in [Device -> Types] :
               \/ SetDevices(n, n, types) /\ Succeeds("SET_DEVICES")
               \/ \E k \in 0 .. n - 1 :
                    /\ SetDevices(n, k, types)
                    /\ \E err \in DecodeErrors : Replies("SET_DEVICES", err)
          /\ UNCHANGED <<alive, session, description>>
     ELSE Crash     \* cswp_server_impl_init_devices writes through priv

\* Every name and type goes through strlen, unless the response buffer is
\* full before.
CmdGetDevices ==
  /\ alive
  /\ IF \E d \in Device : d < deviceCount /\ table[d].type = NULL
     THEN Crash \/ (Replies("GET_DEVICES", "BUFFER_FULL") /\ TablesUnchanged)
     ELSE Succeeds("GET_DEVICES") /\ TablesUnchanged

CmdGetSystemDescription ==
  /\ alive
  /\ IF description
     THEN Succeeds("GET_SYSTEM_DESCRIPTION")
     ELSE Replies("GET_SYSTEM_DESCRIPTION", "UNSUPPORTED")
  /\ TablesUnchanged

-----------------------------------------------------------------------------
(* Device commands, for a device number below deviceCount *)

ValidDevice(d) == alive /\ d < deviceCount

\* Slip: DEVICE_OPEN drops the register list and keeps its length, as
\* DEVICE_CLOSE does.
CmdDeviceOpenKeepsCount(d) ==
  /\ ValidDevice(d)
  /\ table' = [table EXCEPT ![d].registerInfo = NULL]
  /\ Succeeds("DEVICE_OPEN")
  /\ UNCHANGED <<alive, session, deviceCount, privCount, devPriv, description>>

CmdDeviceOpen(d) ==
  /\ ValidDevice(d)
  /\ table' = [table EXCEPT ![d].registerCount = 0, ![d].registerInfo = NULL]
  /\ devPriv' = [devPriv EXCEPT ![d].regsDiscovered = "no"]
  /\ Succeeds("DEVICE_OPEN")
  /\ UNCHANGED <<alive, session, deviceCount, privCount, description>>

\* cswp_server_clear_device_info drops the list and keeps registerCount; the
\* implementation has no device_close, so regsDiscovered stays as it is.
CmdDeviceClose(d) ==
  /\ ValidDevice(d)
  /\ table' = [table EXCEPT ![d].registerInfo = NULL]
  /\ Succeeds("DEVICE_CLOSE")
  /\ UNCHANGED <<alive, session, deviceCount, privCount, devPriv, description>>

\* Slip: a new PATH leaves the registers discovered.
SetPathOnly(d, path) == devPriv' = [devPriv EXCEPT ![d].path = path]

\* PATH of a linux.cscomp device: a new value forgets the discovery.
SetPath(d, path) ==
  IF devPriv[d].path = path
  THEN UNCHANGED devPriv
  ELSE devPriv' = [devPriv EXCEPT ![d].path = path,
                                  ![d].regsDiscovered = "no"]

\* Item "PATH" with a value, or some other item.
CmdSetConfig(d) ==
  /\ ValidDevice(d)
  /\ IF table[d].type = NULL
     THEN Crash
     ELSE /\ \/ /\ table[d].type = "linux.cscomp"
                /\ \E path \in Paths : SetPath(d, path)
                /\ Succeeds("SET_CONFIG")
             \/ /\ table[d].type \in {"linux.cscomp", "mem-ap"}
                /\ Replies("SET_CONFIG", "BAD_ARGS")
                /\ UNCHANGED devPriv
             \/ /\ table[d].type # "linux.cscomp"
                /\ Succeeds("SET_CONFIG")
                /\ UNCHANGED devPriv
          /\ UNCHANGED <<alive, session, deviceCount, table, privCount,
                         description>>

CmdGetConfig(d) ==
  /\ ValidDevice(d)
  /\ Succeeds("GET_CONFIG") \/ Replies("GET_CONFIG", "BAD_ARGS")
  /\ TablesUnchanged

CmdGetDeviceCapabilities(d) ==
  /\ ValidDevice(d)
  /\ IF table[d].type = NULL
     THEN Crash
     ELSE Succeeds("GET_DEVICE_CAPABILITIES") /\ TablesUnchanged

-----------------------------------------------------------------------------
(* Register commands *)

\* cswp_server_impl_device_discover_regs gives d the list and count that a
\* successful call leaves.  A directory scan finds between 0 and MaxRegs files.
Discovered(d, count, info) ==
  CASE table[d].type = "mem-ap" ->
         count = MemApRegs /\ info = table[d].registerInfo
    [] table[d].type # "mem-ap" /\ devPriv[d].path \in {NULL, DevMem} ->
         count = table[d].registerCount /\ info = table[d].registerInfo
    [] OTHER ->
         count \in 0 .. MaxRegs /\ info = devPriv[d].path

ScanMayFail(d) == table[d].type # "mem-ap" /\ devPriv[d].path \in Dirs

\* Walking a list of count entries that starts at info.
NullList(count, info) == count > 0 /\ info = NULL

SetDiscovery(d, count, info, how) ==
  /\ table' = [table EXCEPT ![d].registerCount = count,
                            ![d].registerInfo = info]
  /\ devPriv' = [devPriv EXCEPT ![d].regsDiscovered = how]

\* The list is encoded entry by entry: a null list crashes the server unless
\* the response buffer is full before the first entry.
EncodeRegList(count, info) ==
  IF NullList(count, info)
  THEN \/ alive' = FALSE /\ UNCHANGED reply
       \/ alive' = alive /\ Replies("REG_LIST", "BUFFER_FULL")
  ELSE alive' = alive /\ Succeeds("REG_LIST")

\* What a discovery can leave as count and list.
Counts(d) == 0 .. MaxRegs \cup {MemApRegs, table[d].registerCount}
Infos     == Paths \cup {NULL}

\* A discovery that fails leaves the list as it was, and yet is recorded.
DiscoveryFails(d) ==
  /\ ScanMayFail(d)
  /\ SetDiscovery(d, table[d].registerCount, table[d].registerInfo, "failed")

\* Slip: the registers are discovered at every CSWP_REG_LIST.
CmdRegListRediscovers(d) ==
  /\ ValidDevice(d)
  /\ IF table[d].type = NULL
     THEN Crash
     ELSE /\ \/ \E count \in Counts(d), info \in Infos :
                  /\ Discovered(d, count, info)
                  /\ SetDiscovery(d, count, info, "ok")
                  /\ EncodeRegList(count, info)
             \/ /\ DiscoveryFails(d)
                /\ EncodeRegList(table[d].registerCount, table[d].registerInfo)
          /\ UNCHANGED <<session, deviceCount, privCount, description>>

\* CSWP_REG_LIST: the result of register_list_build is overwritten, and the
\* list is encoded as it then stands.  A NULL type goes through strncmp.
CmdRegList(d) ==
  /\ ValidDevice(d)
  /\ IF devPriv[d].regsDiscovered = "no"
     THEN IF table[d].type = NULL
          THEN Crash
          ELSE /\ \/ \E count \in Counts(d), info \in Infos :
                       /\ Discovered(d, count, info)
                       /\ SetDiscovery(d, count, info, "ok")
                       /\ EncodeRegList(count, info)
                  \/ /\ DiscoveryFails(d)
                     /\ EncodeRegList(table[d].registerCount,
                                      table[d].registerInfo)
               /\ UNCHANGED <<session, deviceCount, privCount, description>>
     ELSE /\ EncodeRegList(table[d].registerCount, table[d].registerInfo)
          /\ UNCHANGED <<session, deviceCount, table, privCount, devPriv,
                         description>>

\* The access itself: a register number past the count is refused, a mem-ap
\* goes through /dev/mem, any other device through its register list.
RegAccess(cmd, d, r, count, info) ==
  \/ r >= count /\ alive' = alive /\ Replies(cmd, "BAD_ARGS")
  \/ /\ r < count
     /\ IF table[d].type # "mem-ap" /\ info = NULL
        THEN alive' = FALSE /\ UNCHANGED reply
        ELSE /\ alive' = alive
             /\ \/ Succeeds(cmd)
                \/ \E err \in {"REG_FAILED", "MEM_FAILED"} : Replies(cmd, err)

\* CSWP_REG_READ and CSWP_REG_WRITE of register r.  (Of several registers
\* the first that fails ends the loop: as many such steps; of none, success.)
NeedsPathAndType(cmd, d) ==
  /\ devPriv[d].path = NULL \/ table[d].type = NULL
  /\ Replies(cmd, "NOT_INITIALIZED")
  /\ TablesUnchanged

DiscoversThenAccesses(cmd, d, r) ==
  /\ devPriv[d].regsDiscovered = "no"
  /\ \/ \E count \in Counts(d), info \in Infos :
          /\ Discovered(d, count, info)
          /\ SetDiscovery(d, count, info, "ok")
          /\ RegAccess(cmd, d, r, count, info)
     \/ /\ DiscoveryFails(d)
        /\ alive' = alive
        /\ Replies(cmd, "INVALID_DEVICE")
  /\ UNCHANGED <<session, deviceCount, privCount, description>>

AccessesDiscovered(cmd, d, r) ==
  /\ devPriv[d].regsDiscovered # "no"
  /\ RegAccess(cmd, d, r, table[d].registerCount, table[d].registerInfo)
  /\ UNCHANGED <<session, deviceCount, table, privCount, devPriv, description>>

CmdRegAccess(cmd, d, r) ==
  /\ ValidDevice(d)
  /\ \/ NeedsPathAndType(cmd, d)
     \/ /\ devPriv[d].path # NULL /\ table[d].type # NULL
        /\ DiscoversThenAccesses(cmd, d, r) \/ AccessesDiscovered(cmd, d, r)

CmdRegAccessNone(cmd, d) ==
  /\ ValidDevice(d)
  /\ Succeeds(cmd)
  /\ TablesUnchanged

-----------------------------------------------------------------------------
(* Memory commands: only what they read of the tables.  Device 0 alone     *)
(* gives access to memory.                                                 *)

MemErrors(cmd) ==
  {"BAD_ARGS", "MEM_FAILED", "MEM_BAD_ACCESS_SIZE"}
    \cup (IF cmd = "MEM_POLL" THEN {"FAILED", "MEM_POLL_NO_MATCH"} ELSE {})

\* A poll that checks the data of the last one looks at no table.
ChecksLastPoll ==
  Succeeds("MEM_POLL")
    \/ \E err \in {"BAD_ARGS", "MEM_POLL_NO_MATCH"} : Replies("MEM_POLL", err)

CmdMemAccess(cmd, d) ==
  /\ ValidDevice(d)
  /\ \/ cmd = "MEM_POLL" /\ ChecksLastPoll
     \/ /\ devPriv[d].path = NULL \/ table[d].type = NULL
        /\ Replies(cmd, "NOT_INITIALIZED")
     \/ /\ devPriv[d].path # NULL /\ table[d].type # NULL
        /\ IF d # 0
           THEN Replies(cmd, "UNSUPPORTED")
           ELSE Succeeds(cmd) \/ \E err \in MemErrors(cmd) : Replies(cmd, err)
  /\ TablesUnchanged

-----------------------------------------------------------------------------

DeviceCommands ==
  {"DEVICE_OPEN", "DEVICE_CLOSE", "SET_CONFIG", "GET_CONFIG",
   "GET_DEVICE_CAPABILITIES", "REG_LIST", "REG_READ", "REG_WRITE",
   "MEM_READ", "MEM_WRITE", "MEM_POLL"}

RegisterIds == 0 .. MaxRegs

DeviceCommand(cmd, d) ==
  \/ cmd = "DEVICE_OPEN" /\ CmdDeviceOpen(d)
  \/ cmd = "DEVICE_CLOSE" /\ CmdDeviceClose(d)
  \/ cmd = "SET_CONFIG" /\ CmdSetConfig(d)
  \/ cmd = "GET_CONFIG" /\ CmdGetConfig(d)
  \/ cmd = "GET_DEVICE_CAPABILITIES" /\ CmdGetDeviceCapabilities(d)
  \/ cmd = "REG_LIST" /\ CmdRegList(d)
  \/ cmd \in {"REG_READ", "REG_WRITE"} /\ \E r \in RegisterIds : CmdRegAccess(cmd, d, r)
  \/ cmd \in {"REG_READ", "REG_WRITE"} /\ CmdRegAccessNone(cmd, d)
  \/ cmd \in {"MEM_READ", "MEM_WRITE", "MEM_POLL"} /\ CmdMemAccess(cmd, d)

SessionCommand ==
  CmdInit \/ CmdTerm \/ CmdClientInfo \/ CmdSetDevices \/ CmdGetDevices
    \/ CmdGetSystemDescription \/ UnknownCommand

Next ==
  \/ SessionCommand
  \/ \E cmd \in Commands : DecodeFails(cmd)
  \/ \E cmd \in DeviceCommands, d \in Device :
       DeviceCommand(cmd, d) \/ InvalidDevice(cmd, d)

Spec == Init /\ [][Next]_vars

-----------------------------------------------------------------------------
(* Properties *)

\* The public and the private table never disagree about which devices
\* exist: with a device in the list there is a private table that has a row
\* for it, whatever order of INIT (also a failing one), TERM and SET_DEVICES
\* led there.  Every handler indexes devicePriv by a number it has checked
\* against deviceCount only.
PrivateTableCoversDevices ==
  /\ deviceCount > 0 => session
  /\ deviceCount <= privCount

\* After a discovery that succeeded, the register names held for a device
\* were read from the directory its path names now: a PATH change never
\* leaves the names of the old directory in use.
NamesMatchPath ==
  \A d \in Device :
    d < deviceCount /\ devPriv[d].regsDiscovered = "ok"
      /\ devPriv[d].path \in Dirs /\ table[d].registerInfo # NULL
      => table[d].registerInfo = devPriv[d].path
=============================================================================
