------------------------------- MODULE VhciTool -------------------------------
(***************************************************************************)
(* The client for Linux of the server's tree: the commands of              *)
(* cmd/vhci_attach.c (attach, attachall, detach, port) with the view of    *)
(* the kernel's vhci_hcd driver that lib/vhci_driver.c keeps.  Every       *)
(* command is a process of its own.  They meet in the kernel's ports, in   *)
(* the record of each port under /var/run, and at the server, which lets   *)
(* one client have a device.  The kernel and the server are external.      *)
(***************************************************************************)
EXTENDS Integers, Sequences, FiniteSets

CONSTANTS
  Cmds,        \* runs of the tool; bound: each runs one command
  Devs,        \* devices that the server exports
  List,        \* these, in the order of its list
  Bare,        \* those without interfaces
  NPorts,      \* ports of the kernel's driver
  PortArgs,    \* numbers a user asks to detach
  NULL

ASSUME VhciAssumption ==
  /\ IsFiniteSet(Cmds) /\ IsFiniteSet(Devs) /\ Bare \subseteq Devs
  /\ List \in Seq(Devs) /\ \A i, j \in 1..Len(List) : List[i] = List[j] => i = j
  /\ NPorts \in 1..256 /\ PortArgs \subseteq Nat
  /\ NULL \notin Devs \cup Nat \cup Cmds

VARIABLES
  port,        \* the kernel's ports: the device attached, how far it has come
  record,      \* VHCI_STATE_PATH/port%d: the device it names, NULL when empty or absent
  used,        \* devices that the server regards as imported
  cmd,         \* the processes
  recorder,    \* history: the process that attached a port's present device
  misrecorded, \* history: ports whose record could not be written, or was written late
  alone        \* history: commands that could succeed, and nobody disturbed

vhciVars == <<port, record, used, cmd, recorder, misrecorded, alone>>

Ports == 0..NPorts - 1

Empty == [dev |-> NULL, phase |-> "null"]

Attached(d) == \E p \in Ports : port[p].dev = d

\* A device's connection is open as long as a process or the kernel has it.
Held(d) == Attached(d) \/ \E c \in Cmds : d \in cmd[c].fds

Goto(c, to) == cmd' = [cmd EXCEPT ![c].at = to]

Undisturbed == UNCHANGED <<recorder, misrecorded, alone>>

\* Others than c find the kernel or the server changed.
Disturbs(c) == alone' = alone \cap {c}

(***************************************************************************)
(* External: the kernel and the server.                                    *)
(***************************************************************************)

\* A device gets its address, which its status shows, and then its entry in sysfs.
Enumerates(p) ==
  /\ port[p].phase \in {"notassigned", "addressed"}
  /\ port' = [port EXCEPT ![p].phase = IF @ = "addressed" THEN "used" ELSE "addressed"]
  /\ UNCHANGED <<record, used, cmd>> /\ Undisturbed

\* The connection of an attached device ends.
Breaks(p) ==
  /\ port[p].dev # NULL
  /\ port' = [port EXCEPT ![p] = Empty]
  /\ Disturbs(NULL)
  /\ UNCHANGED <<record, used, cmd, recorder, misrecorded>>

\* The server learns that nobody holds a device's connection any more.
ServerNotices(d) ==
  /\ d \in used /\ ~Held(d)
  /\ used' = used \ {d}
  /\ UNCHANGED <<port, record, cmd>> /\ Undisturbed

(***************************************************************************)
(* main: what a process is asked for.                                      *)
(***************************************************************************)

\* What attach_exported_devices takes for the devices of a list.  Each is followed by
\* its interfaces, which are not read: what comes after a device that has some is taken
\* from the middle of what was sent, and names no device.
ListAsRead == [i \in 1..Len(List) |->
                 IF \E j \in 1..(i - 1) : List[j] \notin Bare THEN NULL ELSE List[i]]

Wanted == {[op |-> "attach", devs |-> <<d>>, arg |-> NULL] : d \in Devs}
          \cup {[op |-> "attachall", devs |-> ListAsRead, arg |-> NULL],
                [op |-> "port", devs |-> <<>>, arg |-> NULL]}
          \cup {[op |-> "detach", devs |-> <<>>, arg |-> n] : n \in PortArgs}

\* The devices that a user asks for: attachall stands for all that the server exports.
Asked(w) == IF w.op = "attachall" THEN {List[i] : i \in 1..Len(List)}
                                  ELSE {w.devs[i] : i \in 1..Len(w.devs)}

\* Nothing stands in the way of it.
Possible(w) ==
  /\ Asked(w) \cap used = {}
  /\ Cardinality({p \in Ports : port[p].dev = NULL}) >= Cardinality(Asked(w))

Start(c) ==
  /\ cmd[c].at = "idle"
  /\ \E w \in Wanted :
       /\ cmd' = [cmd EXCEPT
            ![c] = [@ EXCEPT !.op = w.op, !.devs = w.devs, !.arg = w.arg,
                             !.at = CASE w.op \in {"detach", "port"} -> "open"
                                      [] w.op = "attachall" /\ w.devs = <<>> -> "next"
                                      [] OTHER -> "import"]]
       /\ alone' = IF Possible(w) THEN alone \cup {c} ELSE alone
  /\ UNCHANGED <<port, record, used, recorder, misrecorded>>

\* The process ends after its last device: what it still has open is closed.
Next(c) ==
  /\ cmd[c].at = "next"
  /\ IF cmd[c].i < Len(cmd[c].devs)
     THEN cmd' = [cmd EXCEPT ![c] = [@ EXCEPT !.i = cmd[c].i + 1, !.at = "import"]]
     ELSE cmd' = [cmd EXCEPT ![c] = [@ EXCEPT !.at = "done", !.fds = {}, !.port = NULL]]
  /\ UNCHANGED <<port, record, used>> /\ Undisturbed

(***************************************************************************)
(* attach_device                                                           *)
(***************************************************************************)

Dev(c) == cmd[c].devs[cmd[c].i]

\* tcp_connect, query_import_device: a device that is in use, or unknown, is refused.
\* The socket is not closed, but the server closes its end.
QueryImport(c) ==
  /\ cmd[c].at = "import"
  /\ IF Dev(c) \notin Devs \/ Dev(c) \in used
     THEN Goto(c, "next") /\ UNCHANGED <<used, alone>>
     ELSE /\ used' = used \cup {Dev(c)}
          /\ cmd' = [cmd EXCEPT ![c] = [@ EXCEPT !.fds = cmd[c].fds \cup {Dev(c)}, !.at = "open"]]
          /\ Disturbs(c)
  /\ UNCHANGED <<port, record, recorder, misrecorded>>

\* usbip_vhci_driver_open, get_nports: the status of all ports is read, once.
ReadStatus(c) ==
  /\ cmd[c].at = "open"
  /\ cmd' = [cmd EXCEPT ![c] = [@ EXCEPT !.at = "refresh",
                                         !.idev = [p \in Ports |-> port[p].phase]]]
  /\ UNCHANGED <<port, record, used>> /\ Undisturbed

\* refresh_imported_device_list, parse_status: the entry in sysfs of each device in use
\* is opened; one that is not there yet, or no longer, makes the driver's opening fail.
RefreshFails(c) == \E p \in Ports : /\ cmd[c].idev[p] \notin {"null", "notassigned"}
                                    /\ port[p].phase # "used"

\* What the process has opened the driver for.
Object(c) == IF cmd[c].op \in {"detach", "port"} THEN cmd[c].arg ELSE Dev(c)

\* Faulty variant: the last port is never used.
FreePortsButLast(c) == {p \in Ports : cmd[c].idev[p] = "null" /\ p < NPorts - 1}

\* usbip_vhci_get_free_port: the first of these.
FreePorts(c) == {p \in Ports : cmd[c].idev[p] = "null"}

Refresh(c) ==
  /\ cmd[c].at = "refresh"
  /\ IF RefreshFails(c)
     THEN cmd' = [cmd EXCEPT ![c] = [@ EXCEPT !.at = "next", !.idev = NULL,
                                              !.missed = cmd[c].missed \cup {Object(c)}]]
     ELSE LET free == FreePorts(c) IN
          cmd' = [cmd EXCEPT ![c] = [@ EXCEPT !.idev = NULL,
            !.at = CASE cmd[c].op = "detach" -> "detach"
                     [] cmd[c].op \notin {"detach", "port"} /\ free # {} -> "attach"
                     [] OTHER -> "next",
            !.port = IF free = {} THEN NULL ELSE CHOOSE p \in free : \A q \in free : p <= q]]
  /\ UNCHANGED <<port, record, used>> /\ Undisturbed

\* Faulty variant: the socket stays open.
ClosesNot(c) == cmd[c].fds

\* attach_device after the import: close.
Closes(c) == cmd[c].fds \ {Dev(c)}

\* usbip_vhci_attach_device2: what is written to sysfs makes the kernel take the port.
AttachToPort(p, d) == port' = [port EXCEPT ![p] = [dev |-> d, phase |-> "notassigned"]]

\* The rest of import_device, with the kernel's refusal of a port taken meanwhile.  A
\* connection is closed only after an attach that succeeded.
AttachDevice(c) ==
  LET p == cmd[c].port
  IN  /\ cmd[c].at = "attach"
      /\ IF port[p].dev # NULL
         THEN Goto(c, "next") /\ UNCHANGED <<port, recorder, misrecorded, alone>>
         ELSE /\ AttachToPort(p, Dev(c))
              /\ recorder' = [recorder EXCEPT ![p] = c]
              /\ misrecorded' = misrecorded \ {p}
              /\ cmd' = [cmd EXCEPT ![c] = [@ EXCEPT !.at = "truncate", !.fds = Closes(c)]]
              /\ Disturbs(c)
      /\ UNCHANGED <<record, used>>

\* record_connection: open, with O_TRUNC, or its failure,
OpenRecord(c) ==
  LET p == cmd[c].port
  IN  /\ cmd[c].at = "truncate"
      /\ \/ Goto(c, "write") /\ record' = [record EXCEPT ![p] = NULL]
         \/ Goto(c, "next") /\ UNCHANGED record
      /\ misrecorded' = IF cmd'[c].at = "next" \/ recorder[p] # c
                        THEN misrecorded \cup {p} ELSE misrecorded
      /\ UNCHANGED <<port, used, recorder, alone>>

\* Faulty variant: the port's number is that of the device on the list.
WriteRecordWrong(c) ==
  /\ cmd[c].at = "write"
  /\ Goto(c, "next")
  /\ record' = [record EXCEPT ![(cmd[c].port + 1) % NPorts] = Dev(c)]
  /\ UNCHANGED <<port, used, recorder, misrecorded, alone>>

\* and write.
WriteRecord(c) ==
  LET p == cmd[c].port
  IN  /\ cmd[c].at = "write"
      /\ Goto(c, "next")
      /\ \/ record' = [record EXCEPT ![p] = Dev(c)]
         \/ UNCHANGED record
      /\ misrecorded' = IF record'[p] # Dev(c) \/ recorder[p] # c
                        THEN misrecorded \cup {p} ELSE misrecorded
      /\ UNCHANGED <<port, used, recorder, alone>>

(***************************************************************************)
(* detach_port                                                             *)
(***************************************************************************)

\* atoi to a uint8_t
PortNum(n) == n % 256

\* usbip_vhci_detach_device; the record of the port stays.
DetachDevice(c) ==
  LET p == PortNum(cmd[c].arg)
  IN  /\ cmd[c].at = "detach"
      /\ IF p \in Ports
         THEN /\ port' = [port EXCEPT ![p] = Empty]
              /\ cmd' = [cmd EXCEPT ![c] = [@ EXCEPT !.at = "next", !.emptied = p]]
              /\ Disturbs(c)
         ELSE Goto(c, "next") /\ UNCHANGED <<port, alone>>
      /\ UNCHANGED <<record, used, recorder, misrecorded>>

(***************************************************************************)
(* The specification.                                                      *)
(***************************************************************************)

NewCmd == [at |-> "idle", op |-> "none", devs |-> <<>>, i |-> 1, arg |-> NULL,
           fds |-> {}, idev |-> NULL, port |-> NULL, missed |-> {}, emptied |-> NULL]

VhciInit ==
  /\ port = [p \in Ports |-> Empty]
  /\ record = [p \in Ports |-> NULL]
  /\ used = {}
  /\ cmd = [c \in Cmds |-> NewCmd]
  /\ recorder = [p \in Ports |-> NULL]
  /\ misrecorded = {}
  /\ alone = {}

Runs(c) == \/ Start(c) \/ Next(c) \/ QueryImport(c) \/ ReadStatus(c) \/ Refresh(c)
           \/ AttachDevice(c) \/ OpenRecord(c) \/ WriteRecord(c) \/ DetachDevice(c)

VhciNext == \/ \E c \in Cmds : Runs(c)
            \/ \E p \in Ports : Enumerates(p) \/ Breaks(p)
            \/ \E d \in Devs : ServerNotices(d)

VhciSpec == VhciInit /\ [][VhciNext]_vhciVars

(***************************************************************************)
(* Properties.                                                             *)
(***************************************************************************)

Over(c) == cmd[c].at = "done"

\* A device that comes after one with interfaces on the server's list.
Behind(d) == \E i, j \in 1..Len(List) : j < i /\ List[i] = d /\ List[j] \notin Bare

\* A number that is no port's, but that a uint8_t makes one.
Wraps(n) == n \notin Ports /\ PortNum(n) \in Ports

\* What a command that nobody disturbed comes to, with the devices asked for free at the
\* server and ports for all of them.  attach attaches its device, attachall those of the
\* whole list but for the ones behind a device with interfaces, although its help says
\* "all remote USB devices" (vhci_attach.c:508); either leaves out a device, and only
\* that one, for which the driver could not be opened, another being enumerated.  detach
\* empties the port asked for, under the same condition, and no other, but for a number
\* that a uint8_t cuts to one.
AloneOutcome ==
  \A c \in alone : Over(c) =>
    /\ \A d \in Asked(cmd[c]) :
         Attached(d) <=> /\ d \notin cmd[c].missed
                         /\ cmd[c].op = "attachall" => ~Behind(d)
    /\ cmd[c].op = "detach" =>
         /\ cmd[c].arg \in Ports \ cmd[c].missed => port[cmd[c].arg].dev = NULL
         /\ cmd[c].emptied \in {NULL, cmd[c].arg} \/ Wraps(cmd[c].arg)

\* What the port command shows as the origin of p's device: usbip_vhci_imported_device_dump,
\* read_record.
Origin(p) == record[p]

\* What the port command shows as the origin of a port's device is where it came from,
\* once the process that attached it has written the record; unless that failed, or
\* a process whose device is gone from the port wrote its own after it.
RecordTellsDevice ==
  \A p \in Ports :
    \/ port[p].dev \in {NULL, Origin(p)}
    \/ p \in misrecorded
    \/ cmd[recorder[p]].at \in {"truncate", "write"} /\ cmd[recorder[p]].port = p

\* A port's device is imported, and no device is on two ports: the server keeps a device
\* for the client as long as its connection is open in the kernel or in a process.
AttachedIsImported ==
  \A p \in Ports : port[p].dev # NULL =>
    /\ port[p].dev \in used
    /\ \A q \in Ports \ {p} : port[q].dev # port[p].dev
    /\ \A c \in Cmds : port[p].dev \notin cmd[c].fds

=============================================================================
