------------------------------ MODULE TouchPad ------------------------------
(***************************************************************************)
(* The touch pad application (App/LTouchpad/jni/UsbipMouse.c and the Java  *)
(* threads that call it), composed with the server it is the device of.    *)
(* It answers the requests of the enumeration from a table, then sends an  *)
(* event for each touch and paces itself by the request numbers it sees.   *)
(***************************************************************************)
EXTENDS StubServer

CONSTANTS
  MaxEvents,  \* events of one run of the application
  MaxEarly    \* of which before the enumeration is over

ASSUME PadAssumption == MaxEvents \in Nat /\ MaxEarly \in 0..MaxEvents

VARIABLES
  pc,         \* the application: "off", "process_cmd", "ready" or "gone"
  seqnum,     \* counts the events, from CMD_MAX on once it is ready
  re_seqnum,  \* the last request number that was looked at
  events      \* events sent

padVars == <<pc, seqnum, re_seqnum, events>>
vars == <<serverVars, padVars>>

PadIs(states) == fate = "running" /\ pc \in states

\* connect_usbip succeeds while the server's listening socket exists.
PadConnect ==
  /\ PadIs({"off"})
  /\ listening
  /\ pc' = "process_cmd"
  /\ pad_sock' = "open"
  /\ UNCHANGED <<seqnum, re_seqnum, events, fate, blocked, listening, edev, recv_seqnum,
                 conn, to_dev, from_dev, irregular>>

\* recv_seqnum returns what has arrived, up to 20 bytes: one number or several, of
\* which sscanf sees the first.
Receives(k) == to_dev' = SubSeq(to_dev, k + 1, Len(to_dev))

\* send_cmd has an answer for each request of the enumeration, by its number.
InTable(cmd) == cmd <= CMD_MAX_RECV

\* Faulty variant: the last request of the enumeration is not answered.
PadCommandStopsEarly ==
  LET cmd == Head(to_dev)
  IN  /\ PadIs({"process_cmd"})
      /\ to_dev # <<>>
      /\ Receives(1)
      /\ from_dev' = IF cmd < CMD_MAX_RECV THEN Append(from_dev, cmd) ELSE from_dev
      /\ UNCHANGED <<padVars, fate, blocked, listening, edev, recv_seqnum, conn,
                     pad_sock, irregular>>

\* process_cmd
PadCommand ==
  LET cmd == Head(to_dev)
  IN  /\ PadIs({"process_cmd"})
      /\ to_dev # <<>>
      /\ \E k \in 1..Len(to_dev) : Receives(k)
      /\ from_dev' = IF InTable(cmd) THEN Append(from_dev, cmd) ELSE from_dev
      /\ IF cmd >= CMD_MAX
         THEN pc' = "ready" /\ seqnum' = cmd /\ re_seqnum' = cmd
         ELSE UNCHANGED <<pc, seqnum, re_seqnum>>
      /\ UNCHANGED <<events, fate, blocked, listening, edev, recv_seqnum, conn,
                     pad_sock, irregular>>

\* recv_ack, in the thread of its own that RecvThread is.
PadAck ==
  /\ PadIs({"ready"})
  /\ to_dev # <<>>
  /\ \E k \in 1..Len(to_dev) : Receives(k)
  /\ re_seqnum' = Head(to_dev)
  /\ UNCHANGED <<pc, seqnum, events, fate, blocked, listening, edev, recv_seqnum, conn,
                 from_dev, pad_sock, irregular>>

\* Faulty variant: one more event is let through.
IsSendableLate == seqnum <= re_seqnum + 2

is_sendable == seqnum <= re_seqnum + 1

Connected == PadIs({"process_cmd", "ready"})

\* send_control, m times
Sends(m) ==
  /\ events + m <= IF pc = "ready" THEN MaxEvents ELSE MaxEarly
  /\ events' = events + m
  /\ seqnum' = seqnum + m
  /\ from_dev' = from_dev \o [i \in 1..m |-> 0]
  /\ UNCHANGED <<pc, re_seqnum, fate, blocked, listening, edev, recv_seqnum, conn,
                 to_dev, pad_sock>>

\* A move is an event and one that ends it.
PadMove ==
  /\ PadIs({"ready"})
  /\ is_sendable
  /\ Sends(2)
  /\ UNCHANGED irregular

\* A scroll does not ask whether the enumeration is over.
PadScroll ==
  /\ Connected
  /\ is_sendable
  /\ Sends(2)
  /\ Blames(IF pc = "ready" THEN {} ELSE {"disorder"})

\* A button asks neither that nor whether an event may be sent.
PadButton ==
  /\ Connected
  /\ Sends(1)
  /\ Blames(IF pc = "ready" THEN {"button"} ELSE {"disorder"})

\* The application ends; the connection is reset if it leaves numbers unread.
PadGone ==
  /\ Connected
  /\ pc' = "gone"
  /\ pad_sock' = IF to_dev # <<>> THEN "reset" ELSE "closed"
  /\ to_dev' = <<>>
  /\ Blames({"gone"})
  /\ UNCHANGED <<seqnum, re_seqnum, events, fate, blocked, listening, edev, recv_seqnum,
                 conn, from_dev>>

Init ==
  /\ ServerInit
  /\ pc = "off"
  /\ seqnum = 0
  /\ re_seqnum = 0
  /\ events = 0

Pad == \/ PadConnect \/ PadCommand \/ PadAck
       \/ PadMove \/ PadScroll \/ PadButton \/ PadGone

ServerStep == ServerNext /\ UNCHANGED padVars

ClientStep == (\E c \in Conns : Client(c)) /\ UNCHANGED padVars

Next == ServerStep \/ ClientStep \/ Pad

(***************************************************************************)
(* The main loop of the server dispatches every source that stays ready,   *)
(* and the application's thread is in recv until it is told to leave.      *)
(* Nothing makes a client or a user act.                                   *)
(***************************************************************************)
Fairness ==
  /\ \A c \in Conns : /\ WF_vars(Accept(c) /\ UNCHANGED padVars)
                      /\ WF_vars(Operation(c) /\ UNCHANGED padVars)
                      /\ WF_vars(ClientPdu(c) /\ UNCHANGED padVars)
  /\ WF_vars(Exported /\ UNCHANGED padVars)
  /\ WF_vars(DeviceUrb /\ UNCHANGED padVars)
  /\ WF_vars(PadCommand)

Spec == Init /\ [][Next]_vars /\ Fairness

(***************************************************************************)
(* Properties.                                                             *)
(***************************************************************************)

Answers == 0..CMD_MAX_RECV

\* Every variable has its type: only requests of the enumeration are answered, and
\* answers are numbered from 1 on.
ServerTypeOK ==
  /\ fate \in {"running", "killed", "aborted", "exited"}
  /\ blocked \in [at : {"loop", "op", "accept"}, conn : Conns \cup {NULL}]
  /\ listening \in BOOLEAN
  /\ edev \in [exported : BOOLEAN, status : {"AVAILABLE", "USED"},
               client_fd : Conns \cup {NULL},
               processing_urbs : (SUBSET Numbers) \cup {NULL}]
  /\ recv_seqnum \in Nat
  /\ \A c \in Conns :
       /\ conn[c].peer \in {"new", "connected", "asking", "attached", "done", "left"}
       /\ conn[c].here \in {"none", "op", "session", "closed"}
       /\ conn[c].op \in {"devlist", "import", "export", NULL}
       /\ conn[c].waiting \subseteq 1..conn[c].issued
       /\ conn[c].up \in Seq([cmd : {"SUBMIT", "UNLINK"}, seq : Numbers,
                         kind : Kinds \cup {"none"}])
  /\ to_dev \in Seq(Numbers)
  /\ from_dev \in Seq(Answers)
  /\ pad_sock \in {"none", "open", "closed", "reset", "gone"}
  /\ irregular \subseteq {"disorder", "gone", "button", "special", "unlink", "ret_len"}
  /\ pc \in {"off", "process_cmd", "ready", "gone"}
  /\ seqnum \in Nat /\ re_seqnum \in Nat
  /\ events \in 0..MaxEvents

Undisturbed(causes) == irregular \cap causes = {}

\* The device has one client at a time, and the parts of a session come and go
\* together: the state of the device, its client's socket, the list of requests and
\* the watch on the socket (recv_request_import, un_imported_dev).
SessionIsWhole ==
  fate = "running" =>
    /\ edev.status = "USED" <=> edev.client_fd # NULL
    /\ edev.status = "USED" <=> edev.processing_urbs # NULL
    /\ edev.status = "USED" => edev.exported
    /\ \A c \in Conns : conn[c].here = "session" <=> edev.client_fd = c

Submits(up) == {up[i].seq : i \in {j \in 1..Len(up) : up[j].cmd = "SUBMIT"}}

\* What a client has submitted and the server has not read.
Unread(c) == Submits(conn[c].up)

\* What a client waits for and the server has read is on the server's list: no request
\* is forgotten before its answer, unlinked ones neither (submit_single_urb, cancel_urb,
\* delete_aurb).  More may be on it: an answer sent ahead of its request comes before
\* the entry that it should delete.
WaitingIsListed ==
  \A c \in Conns : fate = "running" /\ edev.client_fd = c /\ conn[c].peer = "attached"
                     => conn[c].waiting \ Unread(c) \subseteq edev.processing_urbs

\* While the first client is there, asks the device only, cancels no request of the
\* enumeration, and the pad is not touched before that is over, each answer on its way
\* will be given the number of the request that it was made for, although it bears none
\* (recv_dev counts).  A client that cancels goes on before the pad has answered; of two
\* numbers that arrive at once the pad sees one.
EnumerationAnswersMatch ==
  Undisturbed({"disorder", "special", "unlink"}) =>
    \A i \in 1..Len(from_dev) :
      LET n == NextAnswer + i - 1
      IN  n <= CMD_MAX_RECV \/ from_dev[i] # 0 => from_dev[i] = n

\* The server outlives every sequence of operations, requests and events in which no
\* peer goes away and the pad is not touched early (g_error, exit, signals).
OrderlySurvives ==
  Undisturbed({"disorder", "gone", "ret_len"}) => fate = "running"

\* The pad paces moves and scrolls by the requests that arrive: what it has sent is
\* at most one ahead of what the server has read (is_sendable lets the last event of a
\* pair run ahead).
PadOneAheadAtMost ==
  Undisturbed({"disorder", "button"}) =>
    \A c \in Conns : edev.client_fd = c =>
      recv_seqnum + Len(from_dev) <= conn[c].issued - Cardinality(Unread(c)) + 1

\* If the loop does not stay blocked in a handler, the device of a client that left
\* becomes available in the end, whatever the client had sent (process_client_pdu).
LeaverFreesDevice ==
  []<>(blocked.at = "loop") =>
    (\E c \in Conns : conn[c].here = "session" /\ conn[c].peer = "left")
      ~> (edev.status = "AVAILABLE" \/ fate # "running")

\* If the loop does not stay blocked, each request of the enumeration is answered, unless
\* a peer goes away, the server answers for the device, one of them is cancelled, or the
\* pad is touched early.
EnumerationEnds ==
  []<>(blocked.at = "loop") =>
    \A n \in 1..CMD_MAX_RECV :
      (\E c \in Conns : n \in conn[c].waiting)
        ~> \/ \A c \in Conns : n \notin conn[c].waiting
           \/ ~Undisturbed({"disorder", "gone", "special", "unlink", "ret_len"})
=============================================================================
