# Formal model of Android-usbip

USB/IP carries USB requests over TCP. In this repository a PC uses a device that
an Android phone exports: the phone runs the server (`src/Server/usbipd`), started
by an Android application and able to offer an emulated touch pad; the PC runs the
Windows client (`src/Client`): a virtual USB bus driver, a tool that joins the
driver to the server's socket, and a dialog that drives the tool. The server's
tree also holds a client for Linux.

The modules here model, from the C, C++ and Java source, all parts of this chain.
TLC checks them on small instances; TLAPS proves, for instances of every size, the
safety invariants that the runs check: of the driver's queue, I/O count, device list and
device objects, of the forwarder, of both clients' tools and the dialog, of the server's
sessions with the touch pad, and of the Android application (section 6 names the two it
does not). `PROJECT.json` maps each definition to the lines it stands for and lists the
runs, the hazards and the theorems.

## 1. Inventory

### Client: virtual bus driver (kernel mode)

| Part | State | Operations | Other parts |
|---|---|---|---|
| URB queue of a device: `busenum.c` | `ioctl_q` (entries `urb_req`: IRP, number, sent or not), `pending_read_irp`, `seq_num`, spin lock `q_lock`; of each IRP its cancel flag and cancel routine | `Bus_Internal_IoCtl`/`try_addq`, `Bus_Read`/`process_read_irp`, `Bus_Write`/`process_write_irp`, `cancel_irp` | called by function drivers, by the tool and by the I/O manager's cancellation, all at once |
| Unplug: `pnp.c` | `Present` | `bus_unplug_dev`, `complete_pending_read_irp`, `complete_pending_irp`, `Bus_DestroyPdo` | called by an IOCTL or by `Bus_Cleanup`; takes `fdodata->Mutex`, then `q_lock` |
| I/O count: `busenum.c` | `OutstandingIO` (biased to 1), `StopEvent`, `RemoveEvent` | `Bus_IncIoCount`, `Bus_DecIoCount`, at the ends of each dispatch routine | `IRP_MN_STOP_DEVICE` and `IRP_MN_REMOVE_DEVICE` wait on the events |
| Devices and PnP: `pnp.c`, `buspdo.c` | `ListOfPDOs`, `NumPDOs`; of FDO and PDOs `DevicePnPState`, `PreviousPnPState`; of PDOs `Present`, `ReportedMissing`, `ParentFdo`, `fo`; of handles `FsContext` | `bus_plugin_dev`, `bus_unplug_dev`, `Bus_Cleanup`, `Bus_EjectDevice`, `Bus_FDO_PnP`, `Bus_PDO_PnP` | user-mode threads and the PnP manager |
| Device objects: `buspdo.c` | `DevicePowerState`, `SystemPowerState`, `InterfaceRefCount` | answers to the queries of `Bus_PDO_PnP`, `Bus_PDO_Power`, `Bus_InterfaceReference`, `Bus_InterfaceDereference` | PnP manager and drivers above, which call the interface without the bus driver's locks |
| Pipes: `busenum.c` | the pipe handles that a function driver was given | `proc_select_config`, `post_select_interface`, `set_pipe` | the server keeps a table of its own for the same device |
| Requests and answers: `busenum.c` | none | `prepare_*`, `set_read_irp_data`, `process_write_irp` | the tool and the server parse the same stream by rules of their own |
| Power, WMI of the bus: `power.c`, `Wmi.c` | | `Bus_Power`, `Bus_SystemControl` | count their requests |

Correct means: a URB is completed exactly once and never forgotten; an answer
completes the URB it belongs to; the tool's read never sleeps while a URB waits;
numbers follow the order of submission; a cancelled URB ends; an unplug ends what
is queued; the device object outlives its requests and every wait for the count
ends; the list of devices is exact, and what reads and writes go through is never a
device that was deleted. A query of a device object is answered whole or
not at all, and a driver that uses its interface holds off the removal.

### Client: user mode

* **Forwarder** (`usbip_vbus_ui.c`): one thread with one overlapped read on the driver
  and one on the socket, buffers for both, and `out_q_seqnum_array`, a table of at most
  256 numbers of OUT requests (`record_out`, `check_out`), which decides whether a
  payload follows an answer. The table lives as long as the process, not the session.
  Correct: driver, tool and server agree where each request ends; as long as answers
  belong to the requests of their numbers, the tool stays at the headers of the stream and
  the table is exact; a session goes on as long as both sides do, and ends when one of
  them has.
* **Tool** (`usbip.c`, `usbip_network.c`): reads an option, an address and an id from a
  local stream; list, attach (query, import, plug-in, forward), detach. Correct: it
  reads each message for what it is; it holds a device only during an attach.
* **Dialog** (`LUSBIP/usbip_ui`): buttons, messages to the tool, a list of devices.
  Correct: its buttons agree with the tool's session, and the tool ends with it.

### Client for Linux

* **Commands** (`cmd/vhci_attach.c`, `lib/vhci_driver.c`): attach, attachall, detach, port,
  each a process of its own that reads the kernel's ports once (`read_status`), imports
  a device, hands its socket to a port and writes a record under `/var/run`. Correct: it is
  known what a command comes to that is alone, and where that is not what was asked for; the record of a port tells where its
  device is from; a device on a port is imported, and by this client alone.

### Server

* **Sessions** (`stub_server.c`): one thread runs a GLib main loop with handlers for
  the listening socket (`process_comming_request`), the client that imported the
  device (`process_client_pdu`) and the device (`process_device_urb_test`). State:
  the exported devices, each with a status, a client's socket and a list of
  requests (`processing_urbs`). Two handlers block the loop: `recv_pdu`, until
  the peer has said what it wants, and `export_device`, until the device
  application connects. Correct: a device has one client at a time; the parts of a
  session come and go together; no request is forgotten; a client that goes frees
  the device; the server outlives all normal use.
* **Device channel** (`usbip_network.c`: `server_listen_accept`, `send_dev`,
  `recv_dev`): replaces the kernel's usbfs in this build. The number of a request
  goes to the application on a socket; its answers bear no number, and `recv_dev`
  numbers them with a static counter. Correct: an answer gets the number of the
  request it was made for.
* **Endpoints** (`lib/stub_driver.c`, `stub_server.c`): the table of endpoints of the
  present settings (`add_ep_info`, `usbip_refresh_eps`), refreshed when a client's
  request sets a configuration or an interface (`tweak_set_interface_cmd`); a request for
  another endpoint ends the session. Correct: the table has the endpoints of the
  device's settings, and a function driver that uses its pipes never ends a session.
* **URB splitting** (`stub_server.c`: `submit_bulk_in_urb`, `submit_bulk_out_urb`,
  `submit_iso_urb`): unreachable in this build, whose fixed descriptors
  (`lib/stub_driver.c`) have no bulk and no isochronous endpoint.
* **Operation protocol and host drivers** (`usbip_network.c`, `lib/`,
  `sysfslib/`): framing, and attributes in sysfs; sequential.

### Touch pad

* **Application** (`App/LTouchpad`): Java threads around `UsbipMouse.c`. It connects,
  answers the requests of the enumeration from a table (`process_cmd`), then sends
  an event for each touch; a thread of its own reads request numbers (`recv_ack`),
  and `is_sendable` paces moves and scrolls by them. State: `seqnum`, `re_seqnum`.
  Correct: the enumeration is answered to its end; events do not run away from
  the requests.
* **Console program** (`LTouchPad.c`): the same tables and counters, sequential.

### Android application

* **Launcher** (`Server/Android-USB`: `USBIP_AppActivity.java`, `ShellProc.java`,
  `USBIPConnect.c`): starts `usbipd` and `usbip_bind_driver` and reads their reports on two
  local connections with two threads; it tells the connections apart by the order in
  which they were accepted. Its sockets and threads belong to the process, its widgets to
  the activity. It is told when a program is ready, and not when the touch pad or the
  server goes. Correct: what it shows was so; what is got ready is shown.
* **Keyboard and messenger linkers**: applications that only share the repository.

### What is hard

Threads of four kinds meet in the driver without a common lock (function driver,
tool, I/O manager, PnP manager); ownership of an IRP passes by the cancel
routine; locks are dropped in the middle of operations (`try_addq`,
`bus_plugin_dev`, `bus_unplug_dev`); flags are tested before a lock is taken
(`Present`, `pending_read_irp`, `Deleted`); events follow interlocked counts in a
separate call; a 32-bit number wraps and uses 0 for "none". In the server a peer may go away
between any two handlers or in the middle of a reply, a handler may block the loop,
and counters on both ends of the device channel stay equal only if nothing is lost,
added or answered by someone else. Four programs compute the length of the same
request, and two keep tables of the same endpoints. On both ends of the local streams
`recv` may swallow a message; views of ports, sessions and buttons are read once
and used later. `PROJECT.json`
lists each of these under `hazards` with its line.

## 2. Plan

| # | Module | Builds on | Checked by | Proved in |
|---|---|---|---|---|
| 1 | `UrbQueue`: queue of one device | implements `UrbService` | `urb_queue` | `UrbQueueProofs` |
| 2 | `UrbUnplug`: queue, unplug, destruction | extends `UrbQueue` | `urb_unplug`, `unplug_cancel_lost` | `UrbQueueProofs` |
| 3 | `IoCount`: count, events, all dispatch routines | | `io_count` | `BusObjectsProofs` |
| 4 | `BusPnp`: devices, handles, PnP states | | `bus_pnp` | `BusPnpProofs` |
| 5 | `PdoRequests`: queries, interface, power of a device object | | `pdo_requests` | `BusObjectsProofs` |
| 6 | `StubServer`: main loop, sessions, device channel | | by `TouchPad` | `StubServerProofs` |
| 7 | `TouchPad`: the application that is the device | extends `StubServer` | `stub_server` | `StubServerProofs` |
| 8 | `UsbipPdu`: form of requests and answers | | by `VbusForward` | `VbusForwardProofs` |
| 9 | `VbusForward`: forwarder between driver and server | extends `UsbipPdu` | `vbus_forward` | `VbusForwardProofs` |
| 10 | `UsbPipes`: endpoints in driver and server | | `usb_pipes` | `BusObjectsProofs` |
| 11 | `UsbipTool`: dialog and tool | | `usbip_tool` | `InterfaceProofs` |
| 12 | `UsbipApp`: Android application and the programs it starts | | `usbip_app` | `InterfaceProofs` |
| 13 | `VhciTool`: client for Linux | | `vhci_tool` | `VhciToolProofs` |

The order is that of concurrency and of what the rest stands on: the driver's queue
first. `SeqLemmas` has the facts about sequences that several proofs cite.

## 3. The modules

### UrbQueue

One PDO. A section under `q_lock` is one action. In `try_addq` it is two: the I/O
manager's cancellation takes the cancel spin lock and no `q_lock`, so it may fall
between `IoSetCancelRoutine` and the test of `Irp->Cancel`; `q_lock` (the variable)
holds the lock across them.

| Code | Actions |
|---|---|
| `Bus_Internal_IoCtl`, `try_addq` | `Submit`, `AddqNoMemory`, `AddqArm` (no read waits) or `AddqTakeRead`, `AddqFilled`/`AddqFillFailed` (second section), `AddqCancelled`/`AddqInsert`, `AddqFinishRead`, `DispatchComplete` |
| `IoCancelIrp` (external), `cancel_irp` | `CancelFlag`, `CancelSwap`, `CancelSearch` (`CancelFound` or `CancelNotFound`), `CancelComplete` |
| `Bus_Read`, `process_read_irp` | `StartRead`, `ReadTake`, `ReadReject`, `ReadPark`, `ReadFinishUrb`, `FinishRead` |
| `Bus_Write`, `process_write_irp` | `WriteReply`, `WriteStray`, `WriteMatch`, `WriteNoMatch`, `WriteFinishUrb` |

What a request or an answer looks like is abstracted: `set_read_irp_data` and
`prepare_*` may succeed or fail, the decoding of an answer yields one of the
statuses that `process_write_irp` can set. Requests that `proc_urb` finishes by
itself complete in `DispatchComplete`. `Wire` is the 32-bit number modulo
`SeqLimit`. `ahead` is a history variable: the URBs queued before one was
submitted.

### UrbService

What the queue promises, without queue, lock or thread: a URB is handed over at
most once, finished once, succeeds only if the tool was given it, is reported
cancelled only on request, and a requested cancellation ends. `UrbQueue` is
shown to implement it by the mapping at its end (`ImplementsUrbService`); theorem
`QueueImplementsService` proves the safety part.

### UrbUnplug

`UrbQueue` with threads that call `bus_unplug_dev` (the IOCTL's and
`Bus_Cleanup`'s may overlap) and with the removal's `Bus_DestroyPdo`. A drain
takes the head of the list and leaves its cancel routine set, as
`complete_pending_irp` does. `Destroy` comes when the function driver got all its
URBs back. What runs after `Destroy` is followed as if the memory were still
there; the run about it stops at the first bad state.

### IoCount

Every dispatch routine of the bus by its order of counting and testing `Deleted`:
`io` and `open` count first, `power` tests first, and `open` (`Bus_Create`,
`Bus_Cleanup`, `Bus_Close`) returns without `Bus_DecIoCount` from a deleted bus.
The interlocked operation and the call on an event that follows are two steps
(`EventCall`). The PnP thread stops, starts and removes the bus.

### BusPnp

The list of devices, handles, and the PnP states of bus and devices. User-mode
threads run `bus_plugin_dev` (`PlugCheck`, `PlugClaim`, `PlugInsert`: the Mutex is
dropped between them), `bus_unplug_dev` (`Mark`, `UnplugDrain`) and `Bus_Cleanup`.
`Pdo*` and `Fdo*` are the cases of `Bus_PDO_PnP` and `Bus_FDO_PnP`;
`QueryRelations` reports devices and marks absent ones. The PnP manager is
external: `bus`, `node` and `missing` are its view, and guards on them are the
order of IRPs that the code's comments rely on. Assumed: a handle is closed when
no plug-in through it is in progress (the tool does both on one thread).
`ListOfPDOs` is written under the Mutex only, so such a section is one action.

`Bus_Cleanup` and, after `IRP_MN_REMOVE_DEVICE`, `Bus_DestroyPdo` take the tie between a
handle and its device apart without the Mutex, so that each access is a step:

| Code | Actions |
|---|---|
| `Bus_Cleanup` | `Cleanup` (reads `FsContext`), `CleanupForget` (clears `fo`), `CleanupClear` (clears `FsContext`), `CleanupUnplug` (tests `Present`, and unplugs) |
| `Bus_DestroyPdo` | `PdoDestroyTest` (tests `fo`), `PdoDestroyClear` (clears the handle's `FsContext`), `PdoDestroyDelete` |

Between `CleanupForget` and `CleanupClear` a destruction finds no handle to clear and
deletes the device, so that `FsContext` dangles until the close clears it; before that, it
may free the extension that the close is about to write. `Crash` is what the machine may do
then, and when `Bus_DestroyPdo` reads a second time the `fo` that a close has cleared meanwhile;
what is read in freed memory is arbitrary. `HandleOwnsItsDevice` says how far this goes: a
dangling `FsContext` is that of a handle in the middle of its close, which no read or write
uses any more.

The model also shows two ways to lose a device that no comment of the code
excludes: one that is unplugged or orphaned before the first query of the
relations reports it is never removed by the PnP manager, so it keeps its
address; and one whose `IRP_MN_REMOVE_DEVICE` after a surprise removal is
answered before it was reported missing is kept when the bus goes. The
properties say where they except these.

### StubServer

The server and what is on its way to and from it. A handler is one action unless it
blocks; the variable `blocked` says where the thread waits.

| Code | Actions |
|---|---|
| `process_comming_request`, `recv_pdu` | `Accept`, then `Import`, `Export`, `OpReply` or `OpLost` |
| `export_device`, `server_listen_accept` | `Export` (binds, or exits because the port is bound), `Exported` (the application has connected) |
| `process_client_pdu`, `recv_client_pdu` | `RecvSubmit`, `RecvSpecial` (`special_urb`), `RecvInvalid`, `RecvUnlink`, `RecvEof` |
| `process_device_urb_test`, `stub_send_ret_submit`, `recv_dev` | `SendRetSubmit`, `DeviceEventUnwanted`, `DeviceHup` |
| clients (external) | `Connect`, `AskFor`, `ClientSubmit`, `ClientUnlink`, `Leave` |

A send to a peer that has left succeeds, fails or kills the process, for SIGPIPE has
no handler. `ret_len` of an answer is read without having been set; the outcome of
that is a choice (`RetSubmitOutcomes`). The Windows driver selects the
configuration itself and sends the device transfers only; a Linux client's
SET_CONFIGURATION and the like are requests of the kind `special`. One request to unlink
is on its way at a time, a bound.

`irregular` is a history variable: what has happened so far that is not part of
normal use. `disorder` is a client that leaves, an invalid request or a touch
before the enumeration is over; `gone` the end of the application; `special` a
request that the server answers for the device; `button` a button press, which is
not paced; `ret_len` a length that was not set; `unlink` a cancelled request of the
enumeration. The code misbehaves after some of
these, and the model shows it: the server aborts when the device sends
something while no client is there, it exits when the device is exported a second
time, and it numbers answers wrongly after a reconnection, a `special` request or a
cancelled request of the enumeration: the client then goes on before the application has
answered, and of two numbers that arrive at once the application sees one. (With an
enumeration of one request, which the run has, that cannot happen; it came up when the
inductive invariant was tried with two.)
These are listed as hazards, and each property says which of them it excepts.

### TouchPad

The application, composed with the server: `PadCommand` is `process_cmd`, `PadAck`
the thread that calls `recv_ack`, `PadMove`, `PadScroll` and `PadButton` are the
touch events. `recv` may return several numbers at once, of which `sscanf` sees the
first (`Receives`). A move is two events after one question to `is_sendable`; a
scroll may come before the enumeration is over; a button asks nothing. What an event
means to the client is abstracted.

`MCTouchPad` gives the bounds and a second initial state, in which an earlier
connection has exported the device, so that both connections of the run can be
clients.

### PdoRequests

What one device object answers. A query comes with a status and information that a
driver above may have set (`Before`); `Result` is the switch of `Bus_PDO_PnP` with the
handler of each query, whose outcome depends on memory or on the parent's answer. The
interface handed out by `IRP_MN_QUERY_INTERFACE` is a counted reference; drivers above
take and drop references at any time (`InterfaceReference`, `InterfaceDereference`),
also between the two steps of `IRP_MN_QUERY_REMOVE_DEVICE`, which reads the count
(`QueryRemoveAsks`) and then sets `RemovePending` (`QueryRemoveAgrees`). `StartDevice`,
`StopDevice`, `CancelRemove`, `GoesMissing`, `SurpriseRemoval`, `RemoveDevice` are the
life of the object as far as it matters here (`BusPnp` has all of it); `SetPower` is
`Bus_PDO_Power`. `DeviceState` is the map of power states that
`Bus_PDO_QueryDeviceCaps` makes from the parent's. `late` is a history variable.

### UsbipPdu

Operators only: how long a request or an answer is, by the rules of each party.
`Encode` and `Encodable` are the driver's (`prepare_*`, `set_read_irp_data`), with
direction, type and packets of the URB; `ToolPasses`, `Follows`, `TooBig` are the tool's
(which looks at the header and at its table); `ServerTakes`, `ServerReads`, `Reply` and
`SpecialReply` are the server's; `Decodable` says which answers `process_write_irp` takes. Where
one side does not swap a field of the header, the model has the value that the other side reads.

`Reply` takes nothing from a request. In this build the number of an answer is a counter
of `recv_dev`, direction, packets and length are those of the urb which the application has
sent, and to the length is added what `malloc` left in `ret_len` (`unset`). `Fits` says that
such an urb is what a given request has asked for. The tool's length of what follows is an
`int`: the packets of an isochronous answer, of which the byte order is swapped once, make
it negative for 8 to 15 packets (modulo 16), and `TooBig` then lets it pass (`Signed`). `SWAP` is
what 1 becomes by the swap, 2^24 in the code.

### VbusForward

The forwarder between the driver's queue (each call one step) and a server that numbers
whatever its application sends, in the order in which it is sent.

| Code | Actions |
|---|---|
| `usbip_vbus_forward` | `DevEvent`, `SockEvent`, `Timeout`, and the first two calls (`stage`), whose results are ignored |
| `dev_read_async`, `write_to_sock` | `DevRead`, `WriteToSock` (with `record_out`) |
| `sock_read_async`, `write_to_dev` | `SockRead`, `WriteToDev` (with `check_out`), `WriteToDevData` (blocks until the payload is there) |
| `attach_device` | `BeginSession`, `EndSession` |
| driver and its users | `SubmitUrb`, `CancelUrb`, `Unplug` |
| server (external) | `ServerReceives`, `ServerAnswers`, `ServerLeaves` |
| console | `CtrlC` |

A header may arrive in parts (the socket's overlapped read takes what there is). The
application may send any of `DeviceUrbs` at any time: the answer gets the next number of
the server process (`server.seqnum`), whether or not there is such a request. A control request
that writes may also be carried out by the server itself, which answers with the request's number
(`SpecialReply`) and does not count, so that the numbers after it are shifted. `usbip_recv` of the
data takes what is there, headers of further answers too.

The next session has a new device, whose requests are numbered from 1, but the old table
(`leftover` is what it holds when a session begins), and either the old server process,
whose counter goes on, or a new one. `blame` collects what may have disturbed the
session, and each property says which causes it excepts:

* `astray`: an answer whose number is no open request's, or that does not fit this request;
* `misread`: a number of an earlier session, or an isochronous answer;
* `swallowed`: the data of an answer was taken from other bytes;
* `cut`: a header arrived in parts;
* `disturbed`: unplug, full table, a request that cannot be encoded or taken, server gone.

`refused` says that the driver refused an answer. A thread that waits for data which nobody
sends, after an answer that was astray or a negative length, is `Starved`: an unplug does not
end its session until bytes come or the server leaves.

### UsbPipes

A device's endpoints as two programs see them. `ServerSeek`, `AddEps`, `ParseConfig`
and `Refresh` are the server's reading of the descriptors (`parse_interface`,
`add_ep_info`, `parse_config`, `usbip_refresh_eps`), `ClientSeek` and `Endpoints` the
driver's (`seek_to_one_intf_desc`, `set_pipe`); `Setting` is what the descriptors mean: the
endpoints that stand behind an interface's descriptor and before the next (`Between`). A
function driver selects a configuration (`SelectConfig`, of which the server is not told)
or a setting (`SelectInterface`, `ServerSelects`, `PostSelectInterface`), and uses its pipes
(`Transfer`, `ServerTransfers`). A device may refuse a setting and the function driver's
room for pipes may not fit; then the sides differ, and `apart`, a history variable, has
the interface. The device's settings survive a session.

This build pins one descriptor, the mouse's, and its ioctls reach no real device. The
code is general, so the devices are a parameter, `WellFormed` states what USB demands of
them, and the outcome of `USBDEVFS_SETINTERFACE` is a choice. `WellFormed` asks that a setting
has as many endpoint descriptors as it announces and as many addresses, that settings stand in
order, and that endpoints in use at a time have different addresses, none of them 0, which
is the control pipe's and which `add_ep_info` refuses.

### UsbipTool

The dialog and the tool. Clicks send messages (`OnBnClicked*`, `OnClose`); the tool reads
an option, an address and, for `-a`, an id (`MainOption`, `MainAddress`, `MainId`);
`recv_msg` takes all the messages that have come and sees the first.
`ShowExportedDevices`, `QueryInterface`, `QueryImport` and `ImportDevice` are the commands with each failure
of connection, reply and plug-in; `AttachReturns` is the end of the session
(`VbusForward` is what happens in it). `DetachPort` has the port number as the signed
char it becomes: the dialog's `-d` sends no address and the tool then passes the server's
port, 3240, which is no address of the driver. Disconnect therefore detaches nothing; nor is it
read while a session runs. `skewed` and `unseen` are history variables: messages were lost or
misaligned, the dialog was told of a change too late or not at all.

### UsbipApp

The process outlives its activity; each opening is a life. `Open` is `onCreate` with
`ShellProc`'s start, in which a second `server_bind` of the process fails; `ClickConnect` and
`ClickReady` start the two programs; `ListenUsbipd` and `ListenBinddriver` accept a connection each,
`Receive` is one `recv` of either thread, on the socket which the library has by then;
`HandleMessage` is the activity's handler. `ConnectToApp`, `UsbipdStarts`, `AskExport`,
`UsbipdExports`, `PadConnects` and `BindComplete` are the programs up to their reports:
`UsbipdExports` is `recv_request_export` until it waits for the touch pad, or replies without it,
or exits, for the touch pad's port can be bound once (`sockfd_pad`); `PadConnects` is the rest of
`claim_dev`, which may fail, with `export_device`. `Replied` is what the reply makes of the program
that asked.

What was exported may go again: the touch pad leaves (`PadLeaves`), which ends its export or the
server, and `usbipd` may exit at any time (`UsbipdEnds`; `Ends` takes along what it exported and
who waits for it). Of all this the application learns nothing, or "err"; `gone` is a history
variable that says what has gone. Starting a thread twice throws, and ends the
application (`Starts`); so may the end of a started program, after which `ThreadExec` stops its own
thread (`ThreadStops`).

### VhciTool

The Linux client's commands as processes. `Start` chooses what a process is asked for;
an attach goes `QueryImport`, `ReadStatus` (the status of all ports, read once), `Refresh`
(which opens the entry of each device in use, and chooses the first free port),
`AttachDevice`, `OpenRecord` (truncates), `WriteRecord`; a detach `ReadStatus`,
`Refresh`, `DetachDevice`, with the argument cut to 8 bits. The kernel's ports
(`Enumerates`, `Breaks`) and the server (`ServerNotices`) are external. `attachall` does not
read the interfaces that follow each device of the list, so that what comes after a device which
has some is no device (`ListAsRead`); `Asked` has what the user asked for, which is the whole
list. The variables `alone`, `recorder` and `misrecorded` are history, and so are two fields of a
process: `missed` (what it could not open the driver for) and `emptied` (the port it has detached).

## 4. Runs

| Run | Instance | Shows |
|---|---|---|
| `urb_queue` | 2 URBs, 2 reads that may overlap, 1 writer, a stray answer 0, no wrap | all safety properties of the queue, `CancelEnds`, `ImplementsUrbService` |
| `urb_unplug` | 2 URBs, 1 read, 1 writer, 2 unplugs, numbers modulo 2 | one owner for each URB nobody cancels, through unplugs and wrap; the drains complete what is queued and the waiting read comes back |
| `unplug_cancel_lost` | the same with 1 unplug and a stray answer | fails: see below |
| `io_count` | 3 requests of any kind, any number of stops and starts, a removal | count exact, the object outlives admitted requests, waits end |
| `bus_pnp` | 2 devices, 1 handle, 2 threads, 1 address, all PnP IRPs | list exact, no dangling parent, a dangling handle only in the middle of its close, cancels restore, an unplugged device is destroyed |
| `pdo_requests` | 2 references, every query, status, and outcome | answers whole, users hold off the removal |
| `stub_server` | 2 connections of 3 and 1 requests, 4 events, 1 of them early | sessions whole and exclusive, no request forgotten, answers numbered right in normal use, the server survives it, the pad is at most one event ahead; a client that left frees the device, the enumeration ends |
| `vbus_forward` | 2 URBs of 4 kinds, 2 sessions, a table of 1, 2 answers numbered by a server process | one reading of the requests; an exact table and a tool in step until an answer is astray; sessions go on and end, unless starved |
| `usb_pipes` | a mouse, a camera, a disk; 2 requests under way | both sides read descriptors alike; transfers end a session only where sides were set apart |
| `usbip_tool` | 6 clicks | tool and dialog in step, buttons tell the session, the tool ends with its dialog |
| `usbip_app` | 3 lives, in each of which pad and server may go | what is shown was so, a ready device is shown |
| `vhci_tool` | 2 commands, 3 devices (1 without interfaces), 3 ports, detach of 0, 3 and 256 | what undisturbed commands come to, records tell the device, devices on ports are imported and exclusive |

Bounds. Two URBs meet in every section of the queue, one of them queued, sent or
lost while the other passes; two reads are what it takes for one to find another
parked. One writer suffices for the race with cancellation and reads; sections
of two writers are serialised by `q_lock`. With `SeqLimit = 2` the second number
wraps to 0, which is also "not sent". Two unplugs are the IOCTL's and a cleanup's.
Three requests give the count every value around 2, 1 and 0 while two threads owe
calls on events. Two devices with one address and one handle meet in the list and on
the handle; more addresses and handles only separate them.

In `stub_server` the enumeration is one request instead of five, and `CMD_MAX` is
two above it as in the code: the table's last answer, the request after it that
has none, and the one that ends the enumeration are three different
requests. The invariants, with `ServerInv` of section 6, were also checked with an
enumeration of two requests (1.1 million states), which the temporal properties are too slow
for; the theorems hold for any length. The first connection
can come to its end; the second one meets what the first left. Three events are a
move and one that comes when the pad may not send; the fourth lets one be early.
Requests other than transfers come only while nothing irregular has happened. An answer
arrives whole.

In `vbus_forward` a table of one makes the second outstanding OUT request the one too many,
and two sessions let a number of the first be met in the second; two answers let the second
have a number that is too high or too low, or be one that nobody asked for. The four URBs are an
interrupt read, a class request that writes, one that the driver cannot encode, and an isochronous
read of 8 packets; what the application sends fits one of these, so that it is astray where it
meets another. TLC's integers end where the code's words do, so the run's `SWAP` is a quarter
of the real one, and with it the words; the length of 8 packets is the least int, as in the
code (`MCSwap`). Not in the run: a server that gives up for a request's packets (`ServerLeaves` may
come at that moment), lengths that are too big and positive, and other contents of `ret_len` than
0; the theorems cover these. In `usb_pipes` the camera has settings with no,
one and two endpoints of different types, the disk two interfaces that both have
settings, as the two ways of seeking a descriptor need to differ. Six
clicks are a list, an attach that fails, another, and what a dialog does after it. The third
life of the application is the first in which a socket was never bound. Of three ports 0 is
one, 3 the first number out of range, and 256 is 0 in 8 bits; two commands are every race of one
read with one write.

`vhci_tool` uses symmetry of the commands (no definition tells them apart) with safety
properties only. Deadlock is checked in `usb_pipes` only: elsewhere URBs, reads, devices,
connections, clicks or commands are finite, and a run ends when they are used up.

One property fails, a finding with its source line. `CancelFindsUrb`: the drain of an
unplug completes a URB whose cancel routine is still set; a cancellation then does not
find it on the list (`cancel_irp`'s warning) and completes it again.

What the models show besides, and the properties therefore except:

* A read that passed the test of `Present` may park itself after the unplug, and the
  device is destroyed under it (`UnplugEnds` speaks of reads that wait at the unplug).
* `Bus_IncIoCount` clears `StopEvent` after it counted, so that a stop may consume an
  old signal and not wait for an existing request (`WaitsEnd` asks for the end of the wait
  only).
* An open, cleanup or close that a deleted bus refuses stays counted, and the removal then
  waits for ever (`leaked` in `WaitsEnd`).
* Two overlapping plug-ins may get the same address, because the Mutex is dropped between
  the check and the insertion; no property claims the contrary.
* A session that ends while OUT requests are unanswered leaves their numbers in the
  forwarder's table; a later session that meets one takes an IN answer for an OUT one.
* A close that overlaps the destruction of its device uses freed memory (`Crash`), and for a
  while the handle's `FsContext` points to it.
* Nothing ties an answer of the application to a request: after one that is astray the tool
  may take data for headers, give a URB the answer to another, or wait for data that nobody sends,
  so that even an unplug does not end the session (`Starved`). An isochronous answer of 8
  to 15 packets does the same by its negative length.
* The dialog's Disconnect detaches nothing.
* `attachall`, of which the help says "Attach all remote USB devices" (`vhci_attach.c:508`), attaches
  no device after one that has interfaces: `AloneOutcome` says that these, and those missed for
  want of the driver, are all that it leaves out.
* Detaching 256 empties port 0 (`Wraps` in `AloneOutcome`).
* The application shows the list, and the touch pad as ready, when server or touch pad have
  long gone.
* From the application's second life on no new socket listens; what the first life's threads
  still accept may be the other program's connection, whose words they do not know.

## 5. Fairness

Weak fairness on code that was entered, no strong fairness anywhere.

* `UrbQueue`, `UrbUnplug`, `IoCount`: a thread inside the driver is scheduled, a spin lock's
  holder releases it, `IoCancelIrp` calls the routine it took out, the driver below completes
  `IRP_MN_START_DEVICE`. Callers are under no obligation: nothing makes anyone submit,
  read, write, cancel or unplug.
* `BusPnp` adds what the driver relies on the PnP manager for: it answers
  `IoInvalidateDeviceRelations` with a query, removes devices that are missing and
  ends a removal it began. All this is as long as the machine runs (`Up`).
* `TouchPad`: the main loop dispatches every source that stays ready, and the application's
  thread, which is in `recv`, takes what arrives; nothing is assumed of clients and users.
  `recv_pdu` and `export_device` wait for peers inside a handler, so `LeaverFreesDevice`
  and `EnumerationEnds` hold under a premise that they state: the loop is reached again
  and again.
* `VbusForward`: the tool's thread runs. Nobody has to use the device, nor the server to answer.
* `UsbipTool`: the tool's main loop and the dialog's message loop run, and servers answer or
  connections fail. A session need not end, nor anybody click.
* `UsbipApp`: the handler's looper, the receiving threads and the started programs run; the
  touch pad need not connect, nor stay, and nothing makes `usbipd` end or not end.

`PdoRequests`, `UsbPipes` and `VhciTool` have safety properties only.

## 6. Proofs

`TypeCorrect` (`UrbQueueProofs`) is the type invariant of the core module. The type
invariants of the other modules are conjuncts of the inductive invariants below, in the form
which the proofs need.

### UrbQueueProofs

For every set of URBs, reads and writers, every number of overlapping reads, every width
of the number and every stray answer:

* `TypeCorrect`: `Spec => []TypeOK`;
* `InvariantHolds`: `Spec => []IInv`;
* `EveryUrbHasOneOwner`: `Spec => []ExactlyOneOwner`;
* `NoReadSleepsOverAUrb`: `Spec => []ReadWaitsForNothing`;
* `CancelAlwaysFinds`: `Spec => [][\A u \in Urbs : ~CancelNotFound(u)]_vars`. The
  branch of `cancel_irp` that warns "why we can't found it?" is dead while no device
  is unplugged; `RoutineInv` gives it. The run `unplug_cancel_lost` shows that the
  drain of an unplug revives it;
* `CancelIsPursued`: `Spec => []CancelIsUnderWay`. A cancelled URB that is not finished is in
  the hands of a thread: it does not lie on the list until the tool answers. If `IoCancelIrp`
  comes before the routine is armed it calls nobody; `PursuedInv` has that its work is then never
  over for a URB on the list, since `try_addq` tests the flag after it armed the routine;
* `AnswersFindTheirUrbs`: `Spec => []AnswerFindsUrb`;
* `AnswersCompleteTheirUrbs`: `Spec => []AnswerCompletesItsUrb`;
* `NumbersInOrder`: `Spec => []NumberedInOrder`;
* `QueueImplementsService`: the safety part of `ImplementsUrbService`, that is, every initial
  state is one of `UrbService`'s and every step is one of its steps or not seen by it, while
  `seq_num` has not wrapped and no stray answer carries a number other than 0. Both
  hypotheses are needed: a stray answer with a number that was given out, or a late answer to
  a wrapped one, lets a URB succeed that no read has returned. `UrbQueue.cfg` satisfies
  them.

`ExactlyOneOwner` is not inductive: that a Bus_Write finds nobody else on a URB
follows only from who holds its cancel routine. `IInv` adds who holds `q_lock` and
between which steps (`LockInv`), what the submitting thread holds at each step
(`DispatchInv`), that a cancel routine is set exactly for URBs on the list or
about to be inserted and not swapped out (`RoutineInv`), that the parties exclude
each other (`OwnerInv`), that completions count once (`OnceInv`), where each read
is (`ReadInv`), and that a parked read leaves nothing unsent (`WaitInv`). Each
conjunct has a lemma per group of actions; `SeqLemmas` holds the facts about
`RemoveAt` and `Append` they need. The only assumption is `ConstantsAssumption`.

The numbers have an invariant of their own, inductive relative to `IInv` (`NumbersHold`).
`NumInv` says that a waiting read is lent to one thread (`LentInv`), that an entry is filled in
once (`SentInv`), that a read that was handed a URB carries the number of its entry
(`HandedInv`) and is the only one for that URB (`ToldOnce`), that a rejected URB is told to
nobody (`RejectInv`), that no two URBs have one number (`NumberInv`), what a write in
progress carries and has found (`AnswerInv`), and that the list keeps the order of submission
(`OrderInv`). That a URB given straight to a waiting read overtakes none is `WaitInv` again:
the read waits only when every entry was sent. For the refinement, `AskedInv` adds that only a
requested cancellation is reported, `SuccessInv` that only the answer to a read succeeds.

`UnplugLeavesOneOwner` is `UnplugSpec => []OneOwnerUnlessCancelled` of `UrbUnplug`, for every
set of unplugging threads too. `IInv` does not hold there: the drain leaves the cancel
routine of the URB it takes, `cancel_irp` may then find no entry, and a cancelled URB can
have two owners or none. The inductive invariant `UnplugInv` is therefore in two parts.
`BaseInv` holds of every URB: the type, what the submitting thread holds at each step
(`DispatchInv` again), that whoever was given a read finds it where it was given away
(`GivenInv`), and that the list has each URB once, put there by a thread that will not
complete it (`ListInv`). `TameInv` holds of the URBs that nobody asked to cancel: the
submitting thread, the list, the tool's read, its answer, the drain and the completed state
exclude each other (`OneParty`), and each has the URB at most once (`PartyOnce`). It needs no
cancel routine to say so: for such a URB the list alone decides who completes it. The run
`urb_unplug` is the instance; TLC found `UnplugInv` to hold in it before the proof.

### BusObjectsProofs

Of `IoCount`, for every finite set of requests: `CountInvariant` (`CountSpec => []CountInv`),
`CountIsAlwaysExact` (`CountIsExact`), `RemovalWaits` (`RemoveWaitsForAdmitted`). That
nobody is at work when the PnP thread finds `RemoveEvent` set has its reason in the past,
when the count fell to 0. `CountInv` carries it: the count is the number of those inside
(`Exact`), the bus is deleted exactly since the PnP thread began the removal (`DeletedSince`), and once a thread
owes the call that sets `RemoveEvent`, no counted request is at work (`Signalled`).
`NoSignalIsLost` (`[]NoWaitForNothing`): while the PnP thread waits for an event that is not set, a
request is on the count, a thread owes the call that sets it, or the driver below has the IRP. The
count and the event change in separate steps, so that a late `KeClearEvent` could undo a
`KeSetEvent`; it cannot leave the wait without an end, since a thread that owes the former is
itself on the count (`ClearsInside`) and will owe the latter when it leaves last. The lemmas
about `Cardinality` rest on the library's `FiniteSetTheorems`. Assumption:
`IoCountAssumption`.

Of `PdoRequests`, for any number of references: `UsersHoldOff` (`UsersHoldOffRemoval`), from
`PdoInv`: the count is the number of references, pending states are entered from the started
one only, and after the question references are late ones. `AnswersAreWhole`
(`AnswersWhole`): the last answer is one that a handler gives to a query, whatever the drivers
above had set. `CapsRestrict`: for every map of power states of the driver below, the
device's is no more powered than it, except in S1 (`CapsRestrictParent`, a statement about the
operator `DeviceState`). Assumption: `PdoAssumption`.

Of `UsbPipes`, for any set of well-formed devices, with any number of interfaces, settings and
endpoints, and any number of requests under way: `TablesAlwaysSettings` (`TablesAreSettings`) and
`EndsOnlyWhereApart` (`EndsOnlyApart`), from `PipesInv` (`PipesInvHolds`; TLC found it to hold
in `usb_pipes` before). Its parts: both tables are what the descriptors mean (`Meant`); behind the
selection of a setting nothing follows for its interface, and while its answer is on the way
there is no request (`SelectsLast`); on an interface that is not apart the device is in the function
driver's setting, or will be when the answer under way is there, and the transfers under way
are for that setting's endpoints (`Alike`).

The rest is about the descriptors. For a well-formed device `SeeksFind` has what
`parse_interface` and `seek_to_one_intf_desc` find from any offset before a setting,
`EndpointsAreBetween` that counting off the announced number of endpoints ends before the next
interface, `AddsSetting` that `add_ep_info` leaves none out, and `ParseConfigEnters`,
`RefreshEnters` and `SelectConfigFinds` what `parse_config`, `usbip_refresh_eps` and
`proc_select_config` compute. The first and the last are recursive along the interfaces. For a
well-formed device their value at each interface can be named beforehand: the function of these
values satisfies the recursion, so that one exists that does, and every one that does
has these values, by `Climbs`: a set of numbers that has 0 and with each number the next has
all of them, since otherwise there were a least one left (`Smallest`).

The proof showed `WellFormed` to be too weak at first. It counted a setting's
endpoints, not its endpoint descriptors, so that a setting which announces one endpoint
and describes it twice was well-formed, and nothing said that address 0 is the control
pipe's. Assumption: `PipesAssumption`.

### BusPnpProofs

For any number of devices, handles, threads and addresses: `HandlesOwn`
(`HandleOwnsItsDevice`) and `ListAlwaysExact` (`ListIsExact`). A PDO that `bus_plugin_dev`
has tied to a handle does not know the handle before it is filled in; `HandleInv` says that
until then one thread knows both (`Plugging`) and that no PDO is half made without such a thread
(`MadeKnown`). Afterwards handle and PDO agree (`HandleKnown`, `OwnerKnown`), but for who takes the
tie apart, one access at a time: the thread that closes the handle is the only one to do so, and
until it has made the device forget the handle, the device knows it or was freed (`ClosingKnown`);
the handle that a destruction is about to clear is its device's, or was cleared by a close
already (`DetachKnown`). So the two may both clear a pointer, but never one of another tie.
`ListInv` is the exactness of the list with what survives the bus, `FdoInv` what the bus's own states lead to: without it a surprise-removed bus could count again.

`CancelsRestore` is the action property `CancelRestores`: a cancelled query brings back the state
before it. That `PreviousPnPState` is the right one is in the past, so `RestoreInv` (inductive
relative to `PnpInv`) keeps it: where the PnP manager has the bus or a device as started, its
state is a running one, or the device was unplugged; where a query has been answered, the
state is the pending one and the state before it a running one. A device that is not filled in yet is not
known to the PnP manager. Assumption: `BusAssumption`.

### VbusForwardProofs

For any set of URBs and of what the application sends, any sizes of headers, words and buffer, any
length of the table and any number of sessions and answers: `AllMeasureAlike` (`FramesAgree`) and
`TableIsExact` (`OutTableIsExact`), from `ForwardInv` (`ForwardIsInvariant`), which has two parts.

`Base` holds whatever the application sends: the types, with requests that are the
driver's and answers that are some `Reply`. `FramesAgree`, which is about requests, follows from it.
`SessionInv` holds until an answer is astray or swallowed (`Trusting`): each number is in one place,
in the tool's hands, on its way or at the server (`NumbersApart`); the table has those of the OUT
requests among them and, besides, only what an earlier session left (`TableTells`); on the stream
from the server each header is followed by the data it tells of (`InOrder`). Without the first, an
answer could strike out the number of a request that is still under way. That an answer which is not
astray is one to its request (`AnswerTo`) is not assumed of the server: it is what `ServerAnswers` and
`SpecialReply` give when the counter meets a request and the urb fits it (`AnswerComes`, `ServerReceivesCases`).

`StreamStaysInFrame` (`StreamInFrame`) and `SessionGoesOn` (`GoesOnInOrder`) have a hypothesis,
`Manageable`: the answer to an IN request fits the tool's buffer, and the driver has a
mapped buffer for it. Without it they are false: when a URB asks for more than `BIG_SIZE`
the tool gives up (`write_to_dev`, too big len), which TLC finds at once. The run's URBs are
manageable (`MCManageable`). `WholeInv` adds to `ForwardInv` that, until a misread number, an answer
that is astray or a cut header is to blame (`Straight`), the thread stands at a header or before the data it
asks for, and so swallows nothing (`InFrame`, `Frame`); that the driver's queue has the URB each
number means (`KnowsUrbs`), hence that the driver refuses nothing (`NotRefused`), and hence that no call
of the thread fails while nothing disturbs the session (`Runs`). Assumptions: `PduAssumption`,
`ForwardAssumption`.

### StubServerProofs

For every set of connections, every number of requests and events and every length of the
enumeration:

* `SessionInvHolds` (`Spec => []SessionInv`) and `SessionAlwaysWhole`
  (`SessionIsWhole`). `SessionIsWhole` is not inductive: `CloseConn` in a handler would
  leave half a session if the connection had one. `SessionInv` adds that the connection on
  which a handler is blocked has none, that nothing is exported while `export_device` waits,
  and the types that tell a list of requests from `NULL`. There is one lemma per group of
  handlers; `SameSide`, `ClosesOp` and `EndsSession` are the three ways in which a
  step may change a connection.
* `ServerTypeCorrect` (`ServerTypeOK`), from `StreamTypes`, which also has the requests of a
  client on their way in the order of their numbers.
* `NoRequestForgotten` (`WaitingIsListed`), from `WaitingInv`: nobody submits before the import
  has succeeded, so a list is empty when a session begins, and a request that is read is
  listed before its answer can come.
* `OrderlySessionSurvives` (`OrderlySurvives`), `PadKeepsPace` (`PadOneAheadAtMost`) and
  `EnumerationIsAnsweredRight` (`EnumerationAnswersMatch`), from `ServerInv`. They cannot be
  proved one by one: the server's count stays below the requests it has read only while
  the application keeps pace, and the application keeps pace only while there is one
  session from the first request on. `OrderlyInv` says that as long as nothing is in disorder
  there is one session at most, of which some number of requests has been read
  (`ReadUpTo`), and relates to it the counters on both ends of the device channel, in the
  enumeration (`Enumerates`) and after it (`InStep`). `MatchesInv` has the
  numbers of the enumeration's answers, which the client waits for one by one. `SurvivesInv`
  follows where the server would abort: an event without a client, a second export.

Assumptions: `PadAssumption`, and `StubAssumption`, which has the constants of the code as far as
they matter: `CMD_MAX` is at least two above `CMD_MAX_RECV` (7 and 5). `Spec` starts
with nothing exported; the second initial state of `MCTouchPad` is only checked.

### InterfaceProofs

The programs with buttons, for any number of clicks and of lives.

* `IdleToolHoldsNothing`: the Windows tool has a device plugged in exactly during a session,
  and outside an attach the server's device is free or was forgotten by a failed one
  (`IdleHoldsNothing`; inductive with the shape of the tool's record).
* `ToolIsInStep` (`InStep`), from `StepInv`: until a message is lost, what is left of the
  stream to the tool is made of commands, of which the first may lack the part that was
  read; after the dialog was closed it ends with "q".
* `ButtonsTell` (`ButtonsTellSession`), which speaks of moments when nothing is under way;
  `ButtonsInv` says for every moment that Disconnect is enabled exactly when an attach is
  somewhere: with "-a" on its way, in the tool, in its session, or with "failed" on
  its way back, and in one of these places only (`OneAttach`).
* `WhatIsShownIsSo` (`ShownIsSo`) of the Android application: it shows nothing that was never
  so. A word that a program has sent, or a message to the handler, may wait through lives before it
  is acted on, and what it tells of may go in the meantime: `AppInv` says that, unless a `usbipd`
  has listened, the word that one has started comes after the word or message that tells of an error
  (`ErrorComesFirst`), and that nobody was granted an export, or said "complete", before the
  touch pad was exported (`CompleteIsTrue`). `Present` has that the server is there for whoever waits
  for its reply, and for what is exported.

Assumptions: `ToolAssumption`, `AppAssumption`.

### VhciToolProofs

For any number of processes, devices and ports, with `VhciInv`:

* `AttachedAreImported` (`AttachedIsImported`): a connection is one process's or the kernel's
  (`Exclusive`), and the process about to attach a device has its connection (`Brings`).
* `RecordsTellDevices` (`RecordTellsDevice`), from `RecordInv`: the process that attached a
  port's device last is its `recorder`, and while it writes, what it is about to write is that
  device.
* `OutcomeOfAlone` (`AloneOutcome`): what a command comes to whose devices were free, with ports
  for all of them, and that nobody disturbed. The property is about the devices the user asked for, not
  those that the command reads: a device of the list is attached exactly if it stands behind none
  with interfaces and the driver could be opened for it. From `AloneInv`: at every place on the way
  of such an attach, the devices it has passed are attached or missed, what it knows of the ports is
  still so, and there are as many free ports as devices left (`Attaches`, a matter of cardinalities);
  what it did not read, and what it missed, is on no port (`Omitted`, `LeavesOut`); a detach that is
  done has emptied the port of its number in 8 bits, or none (`Empties`).

Assumption: `VhciAssumption`.

### What is only model-checked

* Liveness under fairness, and `ENABLED`, are beyond the prover: the fairness of
  `UrbService` and all temporal properties of the runs that are not action properties. Of
  `CancelEnds` and `WaitsEnd`, `CancelIsPursued` and `NoSignalIsLost` prove what does not depend on
  fairness: that in every state there is somebody whose steps lead to the end.

Every invariant and every action property that a passing run checks is a theorem.

## 7. Not modelled

* **Texts, names, tables**: wording of identifiers and descriptions, the names of states and
  speeds, log messages, the list that `port` and `list` print (`show_port_status`), the
  layouts of dialog and activity. They carry no control.
* **Driver entry, WMI data blocks**: run once, or report only; of WMI its count is in
  `IoCount`.
* **Byte layouts** of the operation protocol: a reply's fields are outcomes (`Replies`), not
  bytes; an unswapped field is modelled by the value the peer reads.
* **URB splitting** of the server (`submit_bulk_in_urb`, `submit_bulk_out_urb`,
  `submit_iso_urb`): this build's descriptors have no such endpoint, so it cannot be reached.
* **Several exported devices, malformed requests**: the device channel is for one device, and
  requests whose fields contradict each other make the server abort. Nor are
  answers of the application that arrive in pieces, and the end of its stream, which `recv_dev`
  reads as data for ever.
* **sysfs library, lists, names, option parser**: third-party sequential code; the attributes that
  host drivers read and write are the kernel's.
* **Console touch pad**: the tables and counters of the application, in a sequential program.
* **Keyboard and messenger linkers**: applications of their own, which share no state with
  the rest.
