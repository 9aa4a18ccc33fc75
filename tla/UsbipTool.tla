------------------------------ MODULE UsbipTool ------------------------------
(***************************************************************************)
(* The client's two programs: the dialog (usbip_uiDlg.cpp), whose buttons  *)
(* send messages over a local stream, and the tool (usbip.c), whose main   *)
(* loop reads an option, an address and, for "-a", an id, attaches the     *)
(* device and forwards until the session is over (module VbusForward).     *)
(*                                                                         *)
(* Each message is a string with its zero.  The tool's recv takes as many  *)
(* messages as have come and sees the first: the others are lost.  During  *)
(* a session the tool reads no message.                                    *)
(***************************************************************************)
EXTENDS Naturals, Sequences, SequencesExt

CONSTANTS MaxClicks   \* bound: buttons pressed

ASSUME ToolAssumption == MaxClicks \in Nat

VARIABLES
  buttons,    \* which of the dialog's buttons are enabled
  chosen,     \* an id was chosen in the dialog's list: selectId is not empty
  closed,     \* the dialog was closed
  clicks,     \* buttons pressed so far
  to_tool, to_ui,
  tool,       \* the tool: where its thread is, the option it has read
  server,     \* who has the exported device: no one, a connection of the tool, or one
              \* that the tool has forgotten
  plugged,    \* the device is plugged in
  skewed,     \* history: messages were lost, or one was sent without its address
  unseen      \* history: a change of which the dialog was told too late or not at all

toolVars == <<buttons, chosen, closed, clicks, to_tool, to_ui, tool, server, plugged,
              skewed, unseen>>
uiVars == <<buttons, chosen, closed, clicks>>

Options == {"-l", "-a", "-d", "q"}

(***************************************************************************)
(* The dialog.                                                             *)
(***************************************************************************)

\* sendMsg of each string
Sends(strings) == to_tool' = to_tool \o strings

Click == ~closed /\ clicks < MaxClicks /\ clicks' = clicks + 1

OnBnClickedList ==
  /\ Click /\ buttons.list
  /\ Sends(<<"-l", "address">>)
  /\ UNCHANGED <<buttons, chosen, closed, to_ui, tool, server, plugged, skewed, unseen>>

OnCbnSelchangeBusid ==
  /\ ~closed /\ buttons.connect /\ ~chosen
  /\ chosen' = TRUE
  /\ UNCHANGED <<buttons, closed, clicks, to_tool, to_ui, tool, server, plugged, skewed,
                 unseen>>

\* Faulty variant: an id that is empty is not sent.
ConnectMessagesShort ==
  IF chosen THEN <<"-a", "address", "id">> ELSE <<"-a", "address">>

ConnectMessages == <<"-a", "address", IF chosen THEN "id" ELSE "no id">>

OnBnClickedConnect ==
  /\ Click /\ buttons.connect
  /\ Sends(ConnectMessages)
  /\ buttons' = [list |-> FALSE, connect |-> FALSE, disconnect |-> TRUE]
  /\ UNCHANGED <<chosen, closed, to_ui, tool, server, plugged, skewed, unseen>>

\* Sends no address.
OnBnClickedDisconnect ==
  /\ Click /\ buttons.disconnect
  /\ Sends(<<"-d">>)
  /\ buttons' = [list |-> TRUE, connect |-> TRUE, disconnect |-> FALSE]
  /\ skewed' = TRUE
  /\ UNCHANGED <<chosen, closed, to_ui, tool, server, plugged, unseen>>

\* OnClose, OnBnClickedClose
OnClose ==
  /\ ~closed
  /\ closed' = TRUE
  /\ Sends(<<"q">>)
  /\ to_ui' = <<>>
  /\ UNCHANGED <<buttons, chosen, clicks, tool, server, plugged, skewed, unseen>>

\* Faulty variant: that an attach has failed is only shown.
OnReceiveDataShows ==
  /\ to_ui # <<>> /\ ~closed
  /\ to_ui' = Tail(to_ui)
  /\ buttons' = IF Head(to_ui) = "list" THEN [buttons EXCEPT !.connect = TRUE,
                                                             !.disconnect = FALSE]
                ELSE buttons
  /\ UNCHANGED <<chosen, closed, clicks, to_tool, tool, server, plugged, skewed, unseen>>

\* A list that was asked for before Connect was pressed arrives after: its buttons are
\* those of a dialog that has not connected.
OnReceiveData ==
  /\ to_ui # <<>> /\ ~closed
  /\ to_ui' = Tail(to_ui)
  /\ CASE Head(to_ui) = "list" ->
            /\ buttons' = [buttons EXCEPT !.connect = TRUE, !.disconnect = FALSE]
            /\ unseen' = (unseen \/ buttons.disconnect)
       [] Head(to_ui) = "failed" ->
            /\ buttons' = [list |-> TRUE, connect |-> TRUE, disconnect |-> FALSE]
            /\ UNCHANGED unseen
       [] OTHER -> UNCHANGED <<buttons, unseen>>
  /\ UNCHANGED <<chosen, closed, clicks, to_tool, tool, server, plugged, skewed>>

(***************************************************************************)
(* The tool's main loop.                                                   *)
(***************************************************************************)

At(place) == tool.at = place

Tells(m) == to_ui' = IF closed THEN to_ui ELSE Append(to_ui, m)

\* recv_msg: waits for a message and takes those that have come, or finds that the
\* dialog has gone.
recv_msg ==
  \/ \E n \in 1..Len(to_tool) :
       /\ to_tool' = SubSeq(to_tool, n + 1, Len(to_tool))
       /\ skewed' = (skewed \/ n > 1)
  \/ to_tool = <<>> /\ closed /\ UNCHANGED <<to_tool, skewed>>

\* What its buffer has then: the first of them, or nothing.
msg == IF to_tool = <<>> THEN "" ELSE Head(to_tool)

\* Faulty variant: "q" is looked for with the other options, after an address was read.
MainOptionLate ==
  /\ At("option")
  /\ recv_msg
  /\ tool' = [at |-> "address", option |-> msg]
  /\ UNCHANGED <<uiVars, to_ui, server, plugged, unseen>>

MainOption ==
  /\ At("option")
  /\ recv_msg
  /\ tool' = IF msg = "q" THEN [tool EXCEPT !.at = "ended"]
                          ELSE [at |-> "address", option |-> msg]
  /\ UNCHANGED <<uiVars, to_ui, server, plugged, unseen>>

\* detach_port: the driver unplugs the device at this address, a signed char.
DetachPort(n) == plugged' = IF ((n + 128) % 256) - 128 \in 1..127 THEN FALSE ELSE plugged

\* Whatever it is, the second message is the address; parse_opt tells what to do, and the
\* port that "-d" names is the server's, 3240.
MainAddress ==
  /\ At("address")
  /\ recv_msg
  /\ tool' = [tool EXCEPT !.at = CASE tool.option = "-a" -> "id"
                                   [] tool.option = "-l" -> "list"
                                   [] OTHER -> "option"]
  /\ IF tool.option = "-d" THEN DetachPort(3240) ELSE UNCHANGED plugged
  /\ UNCHANGED <<uiVars, to_ui, server, unseen>>

MainId ==
  /\ At("id")
  /\ recv_msg
  /\ tool' = [at |-> "query", option |-> msg]
  /\ UNCHANGED <<uiVars, to_ui, server, plugged, unseen>>

(***************************************************************************)
(* Listing and attaching.                                                  *)
(***************************************************************************)

Back == tool' = [at |-> "option", option |-> ""]

\* A reply's header: it came, is of this version, has the code that was asked for and
\* says ST_OK.
usbip_recv_op_common(reply, code) ==
  reply.came /\ reply.version = "ours" /\ reply.code = code /\ reply.status = "ok"

Replies == [came : BOOLEAN, version : {"ours", "other"}, code : {"devlist", "import"},
            status : {"ok", "na"}]

\* A host's addresses, by what becomes of an attempt to connect to them.
Hosts == SUBSET {"no socket", "refuses", "answers"}

\* tcp_connect tries all of them.
tcp_connect(host) == "answers" \in host

\* show_exported_devices: one message for each device, or that there is no connection.
\* The connection is closed.
ShowExportedDevices ==
  /\ At("list")
  /\ Back
  /\ \E host \in Hosts, reply \in Replies :
       IF ~tcp_connect(host) THEN Tells("no connection")
       ELSE IF usbip_recv_op_common(reply, "devlist") THEN Tells("list")
       ELSE UNCHANGED to_ui
  /\ UNCHANGED <<uiVars, to_tool, server, plugged, skewed, unseen>>

Fails == Back /\ Tells("failed")

\* attach_device up to the second connection: a server that cannot be reached, an answer
\* that is none, or an id that is not on the list (query_interface0).
QueryInterface ==
  /\ At("query")
  /\ \/ Fails
     \/ /\ tool.option = "id"
        /\ \E host \in Hosts, reply \in Replies :
             tcp_connect(host) /\ usbip_recv_op_common(reply, "devlist")
        /\ tool' = [at |-> "import", option |-> ""]
        /\ UNCHANGED to_ui
  /\ UNCHANGED <<uiVars, to_tool, server, plugged, skewed, unseen>>

\* query_import_device up to the answer: the server gives the device to the connection
\* if it is free.
QueryImport ==
  /\ At("import")
  /\ \/ Fails /\ UNCHANGED server
     \/ /\ server = "free"
        /\ server' = "ours"
        /\ tool' = [at |-> "plug", option |-> ""]
        /\ UNCHANGED to_ui
  /\ UNCHANGED <<uiVars, to_tool, plugged, skewed, unseen>>

\* The rest of it, and import_device: the reply may break off, the driver be absent, all
\* its ports be used, or the device not be plugged in.  The connection stays open.
ImportDevice ==
  /\ At("plug")
  /\ \/ Fails /\ server' = "forgotten" /\ UNCHANGED plugged
     \/ /\ tool' = [at |-> "session", option |-> ""]
        /\ plugged' = TRUE
        /\ Tells("attached")
        /\ UNCHANGED server
  /\ UNCHANGED <<uiVars, to_tool, skewed, unseen>>

\* usbip_vbus_forward returns: CloseHandle unplugs the device, closesocket frees it at
\* the server.  Nobody tells the dialog.
AttachReturns ==
  /\ At("session")
  /\ Back
  /\ plugged' = FALSE
  /\ server' = "free"
  /\ unseen' = TRUE
  /\ UNCHANGED <<uiVars, to_tool, to_ui, skewed>>

ToolInit ==
  /\ buttons = [list |-> TRUE, connect |-> FALSE, disconnect |-> FALSE]
  /\ chosen = FALSE /\ closed = FALSE /\ clicks = 0
  /\ to_tool = <<>> /\ to_ui = <<>>
  /\ tool = [at |-> "option", option |-> ""]
  /\ server = "free" /\ plugged = FALSE
  /\ skewed = FALSE /\ unseen = FALSE

User == \/ OnBnClickedList \/ OnCbnSelchangeBusid \/ OnBnClickedConnect
        \/ OnBnClickedDisconnect \/ OnClose

main == \/ MainOption \/ MainAddress \/ MainId
        \/ ShowExportedDevices \/ QueryInterface \/ QueryImport \/ ImportDevice

ToolNext == User \/ OnReceiveData \/ main \/ AttachReturns

ToolSpec == ToolInit /\ [][ToolNext]_toolVars

\* The tool and the dialog run and servers answer.  A session need not end.
ToolFairSpec == ToolSpec /\ WF_toolVars(main) /\ WF_toolVars(OnReceiveData)

(***************************************************************************)
(* Properties.                                                             *)
(***************************************************************************)

\* As long as no recv takes two messages and Disconnect was not pressed, the tool reads
\* each message for what it is: an option, an address or an id.
InStep ==
  ~skewed /\ to_tool # <<>> =>
    /\ At("option") => Head(to_tool) \in Options
    /\ At("address") => Head(to_tool) = "address"
    /\ At("id") => Head(to_tool) \in {"id", "no id"}

\* Whatever messages were lost: outside of an attach and its session no device is plugged
\* in, and the server's device is free unless an attach has failed after its import.
IdleHoldsNothing ==
  /\ plugged <=> At("session")
  /\ ~At("plug") /\ ~At("session") => server \in {"free", "forgotten"}

\* When nothing is on its way and the dialog was told of every change, Disconnect is
\* enabled if, and only if, a session is going on, and Connect is not enabled in one.
ButtonsTellSession ==
  /\ ~skewed /\ ~unseen /\ ~closed
  /\ to_tool = <<>> /\ to_ui = <<>>
  /\ At("option") \/ At("session")
  => /\ buttons.disconnect <=> At("session")
     /\ buttons.connect => ~At("session")

\* A tool that was in step when its dialog was closed ends, or goes into a session.
CloseEnds ==
  (closed /\ ~At("session") /\ ~skewed) ~> (At("ended") \/ At("session") \/ skewed)

=============================================================================
