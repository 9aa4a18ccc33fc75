----------------------------- MODULE StubServer -----------------------------
(***************************************************************************)
(* usbipd, the server (Server/usbipd/cmd/stub_server.c): one thread runs   *)
(* the handlers of a GLib main loop, for the listening socket, the client  *)
(* that imported the device and the device application.  This build has    *)
(* one device, whose descriptors are fixed: control endpoint 0 and an      *)
(* interrupt endpoint (lib/stub_driver.c, usb_parse_desc); the paths of    *)
(* bulk and isochronous endpoints are unreachable, and usbfs_fd is -1, so  *)
(* that ioctls on it fail.  The device is an application on a socket,      *)
(* which sees the number of each request and returns unnumbered answers:   *)
(* recv_dev numbers them by counting.  A handler is one step unless it     *)
(* blocks.  The clients are external.  Module TouchPad adds the            *)
(* application.                                                            *)
(***************************************************************************)
EXTENDS Naturals, Sequences, FiniteSets

CONSTANTS
  Conns,         \* connections to the server in the order they are made, each used once
  NULL,
  Kinds,         \* kinds of CMD_SUBMIT that clients send
  CMD_MAX_RECV,  \* requests of the enumeration, that the device has answers for
  CMD_MAX,       \* the request with which the enumeration is over
  MaxSeq         \* for each connection, the number of requests submitted on it

\* The numbers of requests.
Numbers == UNION {1..MaxSeq[c] : c \in Conns}

ASSUME StubAssumption ==
  /\ Conns \subseteq Nat /\ NULL \notin Conns
  /\ Kinds \subseteq {"transfer", "special", "invalid"}
  /\ CMD_MAX_RECV \in Nat \ {0}
  /\ CMD_MAX \in Nat /\ CMD_MAX >= CMD_MAX_RECV + 2
  /\ MaxSeq \in [Conns -> Nat]
  /\ \A S \in SUBSET Numbers : NULL # S

VARIABLES
  fate,         \* the server process: "running", or how it ended
  blocked,      \* where the thread is: in the loop, or blocked in a handler
  listening,    \* a socket listens on the application's port; nothing closes it
  edev,         \* the exported device: exported, status, client_fd, processing_urbs
  recv_seqnum,  \* static seqnum of recv_dev
  conn,         \* each connection: the peer's state, the server's, what is on its way
  to_dev,       \* request numbers on their way to the device application
  from_dev,     \* its answers: the request each was made for, 0 for an event
  pad_sock,     \* the application's connection
  irregular     \* history: what happened that is not in the order of normal use

serverVars == <<fate, blocked, listening, edev, recv_seqnum, conn, to_dev,
                from_dev, pad_sock, irregular>>

InLoop == fate = "running" /\ blocked.at = "loop"

Loop == [at |-> "loop", conn |-> NULL]

\* Being out of order counts for everything; further causes are not recorded.
Blames(causes) == irregular' = LET all == irregular \cup causes IN
                    IF "disorder" \in all THEN {"disorder"} ELSE all

(***************************************************************************)
(* The clients: what they may send (usbip.c and busenum.c, or Linux).      *)
(***************************************************************************)

Peer(c, states) == fate = "running" /\ conn[c].peer \in states

Connect(c) ==
  /\ Peer(c, {"new"})
  /\ \A d \in Conns : d < c => conn[d].peer # "new"
  /\ conn' = [conn EXCEPT ![c].peer = "connected"]
  /\ UNCHANGED <<fate, blocked, listening, edev, recv_seqnum, to_dev, from_dev,
                 pad_sock, irregular>>

AskFor(c, op) ==
  /\ Peer(c, {"connected"})
  /\ conn' = [conn EXCEPT ![c].peer = "asking", ![c].op = op]
  /\ UNCHANGED <<fate, blocked, listening, edev, recv_seqnum, to_dev, from_dev,
                 pad_sock, irregular>>

Leave(c) ==
  /\ Peer(c, {"connected", "asking", "attached"})
  /\ conn' = [conn EXCEPT ![c].peer = "left"]
  /\ Blames({"disorder"})
  /\ UNCHANGED <<fate, blocked, listening, edev, recv_seqnum, to_dev, from_dev,
                 pad_sock>>

\* How many requests the client may have outstanding when it sends number n: the
\* enumeration is one control transfer after the other, then the reads overlap.  Bound:
\* other requests than transfers come only where all was regular before.
Depth(n) == IF n <= CMD_MAX_RECV + 1 THEN 1 ELSE CMD_MAX - CMD_MAX_RECV

ClientSubmit(c) ==
  LET n == conn[c].issued + 1
  IN  /\ Peer(c, {"attached"})
      /\ n <= MaxSeq[c]
      /\ Cardinality(conn[c].waiting) < Depth(n)
      /\ \E k \in Kinds :
           /\ k = "transfer" \/ irregular \subseteq {"unlink"}
           /\ conn' = [conn EXCEPT ![c].issued = n, ![c].waiting = @ \cup {n},
                         ![c].up = Append(@, [cmd |-> "SUBMIT", seq |-> n, kind |-> k])]
      /\ UNCHANGED <<fate, blocked, listening, edev, recv_seqnum, to_dev, from_dev,
                     pad_sock, irregular>>

\* Bound: one request to unlink is on its way at a time.
ClientUnlink(c) ==
  /\ Peer(c, {"attached"})
  /\ \A i \in 1..Len(conn[c].up) : conn[c].up[i].cmd = "SUBMIT"
  /\ \E n \in conn[c].waiting :
       conn' = [conn EXCEPT
         ![c].up = Append(@, [cmd |-> "UNLINK", seq |-> n, kind |-> "none"])]
  /\ UNCHANGED <<fate, blocked, listening, edev, recv_seqnum, to_dev, from_dev,
                 pad_sock, irregular>>

(***************************************************************************)
(* Sending to a client.  A peer that has gone makes a send succeed, fail,  *)
(* or end the process: SIGPIPE is not handled.                             *)
(***************************************************************************)

SendOutcomes(c) == IF conn[c].peer = "left" THEN {"ok", "error", "killed"}
                   ELSE {"ok"}

\* An answer with number n ends the request that waits under it, if any.
Answered(k, n) == [k EXCEPT !.waiting = @ \ {n}]

\* un_imported_dev on the device; its client's connection is closed.
UnImported(e) == [e EXCEPT !.status = "AVAILABLE", !.client_fd = NULL,
                           !.processing_urbs = NULL]

NewConn == [peer |-> "new", here |-> "none", op |-> NULL, issued |-> 0, waiting |-> {},
            up |-> <<>>]

ClosedConn == [NewConn EXCEPT !.peer = "done", !.here = "closed"]

\* What was on its way is lost; the record of the connection is not kept.
CloseConn(c) == conn' = [conn EXCEPT ![c] = ClosedConn]

UnImport(c) == edev' = UnImported(edev) /\ CloseConn(c)

(***************************************************************************)
(* process_comming_request: accept, then recv_pdu, which blocks the loop   *)
(* until the peer has sent its operation.                                  *)
(***************************************************************************)

Accept(c) ==
  /\ InLoop
  /\ conn[c].peer # "new" /\ conn[c].here = "none"
  /\ blocked' = [at |-> "op", conn |-> c]
  /\ conn' = [conn EXCEPT ![c].here = "op"]
  /\ UNCHANGED <<fate, listening, edev, recv_seqnum, to_dev, from_dev, pad_sock,
                 irregular>>

Serves(c, op) ==
  /\ fate = "running"
  /\ blocked = [at |-> "op", conn |-> c]
  /\ conn[c].op = op

\* The peer left without a word: recv_pdu fails.
OpLost(c) ==
  /\ Serves(c, NULL)
  /\ conn[c].peer = "left"
  /\ blocked' = Loop
  /\ CloseConn(c)
  /\ UNCHANGED <<fate, listening, edev, recv_seqnum, to_dev, from_dev, pad_sock,
                 irregular>>

Free == edev.exported /\ edev.status = "AVAILABLE"

\* Faulty variant: any client may import an exported device.
ImportAlways(c) ==
  /\ Serves(c, "import")
  /\ edev.exported
  /\ edev' = [edev EXCEPT !.status = "USED", !.client_fd = c, !.processing_urbs = {}]
  /\ conn' = [conn EXCEPT ![c].here = "session", ![c].peer = "attached"]
  /\ blocked' = Loop
  /\ UNCHANGED <<fate, listening, recv_seqnum, to_dev, from_dev, pad_sock,
                 irregular>>

\* recv_request_import of a device that nobody uses: the device is marked as used
\* after both parts of the reply were sent.
Import(c) ==
  /\ Serves(c, "import")
  /\ Free
  /\ \E out \in SendOutcomes(c) :
       /\ fate' = IF out = "killed" THEN "killed" ELSE fate
       /\ IF out = "ok"
          THEN /\ edev' = [edev EXCEPT !.status = "USED", !.client_fd = c,
                                       !.processing_urbs = {}]
               /\ conn' = [conn EXCEPT ![c].here = "session",
                    ![c].peer = IF @ = "left" THEN @ ELSE "attached"]
          ELSE CloseConn(c) /\ UNCHANGED edev
  /\ blocked' = Loop
  /\ UNCHANGED <<listening, recv_seqnum, to_dev, from_dev, pad_sock, irregular>>

\* Replies that change nothing here: the device list, an import refused, an export of
\* what is exported; the connection is closed.
OpReply(c) ==
  /\ \/ Serves(c, "devlist")
     \/ Serves(c, "import") /\ ~Free
     \/ Serves(c, "export") /\ edev.exported
  /\ \E out \in SendOutcomes(c) : fate' = IF out = "killed" THEN "killed" ELSE fate
  /\ blocked' = Loop
  /\ CloseConn(c)
  /\ UNCHANGED <<listening, edev, recv_seqnum, to_dev, from_dev, pad_sock,
                 irregular>>

\* Faulty variant: a device is exported again and again.
ExportAgain(c) ==
  /\ Serves(c, "export")
  /\ IF listening
     THEN fate' = "exited" /\ UNCHANGED <<blocked, listening>>
     ELSE fate' = fate /\ listening' = TRUE /\ blocked' = [at |-> "accept", conn |-> c]
  /\ UNCHANGED <<edev, recv_seqnum, conn, to_dev, from_dev, pad_sock, irregular>>

\* export_device waits for the application, with the loop: server_listen_accept
\* binds a new socket each time and exits when the port is still bound.
Export(c) ==
  /\ Serves(c, "export")
  /\ ~edev.exported
  /\ IF listening
     THEN fate' = "exited" /\ UNCHANGED <<blocked, listening>>
     ELSE fate' = fate /\ listening' = TRUE /\ blocked' = [at |-> "accept", conn |-> c]
  /\ UNCHANGED <<edev, recv_seqnum, conn, to_dev, from_dev, pad_sock, irregular>>

\* The application has connected: the device is exported, the reply is sent.
Exported ==
  LET c == blocked.conn
  IN  /\ fate = "running"
      /\ blocked.at = "accept"
      /\ pad_sock # "none"
      /\ edev' = [UnImported(edev) EXCEPT !.exported = TRUE]
      /\ \E out \in SendOutcomes(c) : fate' = IF out = "killed" THEN "killed" ELSE fate
      /\ blocked' = Loop
      /\ CloseConn(c)
      /\ UNCHANGED <<listening, recv_seqnum, to_dev, from_dev, pad_sock, irregular>>

(***************************************************************************)
(* process_client_pdu and recv_client_pdu.                                 *)
(***************************************************************************)

ReadsFrom(c, cmd) ==
  /\ InLoop
  /\ edev.client_fd = c
  /\ conn[c].up # <<>>
  /\ Head(conn[c].up).cmd = cmd

Read(k) == [k EXCEPT !.up = Tail(@)]

Reads(c) == conn' = [conn EXCEPT ![c] = Read(@)]

\* Faulty variant: the device is not marked as available.
RecvEofStaysUsed(c) ==
  /\ InLoop
  /\ edev.client_fd = c
  /\ conn[c].peer = "left"
  /\ edev' = [UnImported(edev) EXCEPT !.status = "USED"]
  /\ CloseConn(c)
  /\ UNCHANGED <<fate, blocked, listening, recv_seqnum, to_dev, from_dev, pad_sock,
                 irregular>>

\* The header cannot be received, or the channel reports an error, which is looked at
\* before what the client had sent.
RecvEof(c) ==
  /\ InLoop
  /\ edev.client_fd = c
  /\ conn[c].peer = "left"
  /\ UnImport(c)
  /\ UNCHANGED <<fate, blocked, listening, recv_seqnum, to_dev, from_dev, pad_sock,
                 irregular>>

\* Faulty variant: the request is not remembered.
RecvSubmitForgets(c) ==
  /\ ReadsFrom(c, "SUBMIT")
  /\ Head(conn[c].up).kind = "transfer"
  /\ to_dev' = Append(to_dev, Head(conn[c].up).seq)
  /\ Reads(c)
  /\ UNCHANGED <<fate, blocked, listening, edev, recv_seqnum, from_dev, pad_sock,
                 irregular>>

\* stub_recv_cmd_submit, submit_single_urb: the number goes to the application, whose
\* connection may be gone (the result of send_dev is ignored), and on processing_urbs.
RecvSubmit(c) ==
  LET n == Head(conn[c].up).seq
  IN  /\ ReadsFrom(c, "SUBMIT")
      /\ Head(conn[c].up).kind = "transfer"
      /\ to_dev' = IF pad_sock = "open" THEN Append(to_dev, n) ELSE to_dev
      /\ pad_sock' = IF pad_sock = "closed" THEN "reset" ELSE pad_sock
      /\ fate' \in IF pad_sock = "reset" THEN {"running", "killed"} ELSE {"running"}
      /\ edev' = [edev EXCEPT !.processing_urbs = @ \cup {n}]
      /\ Reads(c)
      /\ UNCHANGED <<blocked, listening, recv_seqnum, from_dev, irregular>>

\* special_urb: requests to clear a halt, to select an interface or a configuration,
\* or to reset are answered here; the device does not see them.
RecvSpecial(c) ==
  LET n == Head(conn[c].up).seq
  IN  /\ ReadsFrom(c, "SUBMIT")
      /\ Head(conn[c].up).kind = "special"
      /\ Blames({"special"})
      /\ \E out \in SendOutcomes(c) :
           \/ /\ out = "ok"
              /\ conn' = [conn EXCEPT ![c] = Answered(Read(@), n)]
              /\ UNCHANGED <<fate, edev>>
           \/ out = "error" /\ UnImport(c) /\ UNCHANGED fate
           \/ out = "killed" /\ fate' = "killed" /\ UNCHANGED edev /\ Reads(c)
      /\ UNCHANGED <<blocked, listening, recv_seqnum, to_dev, from_dev, pad_sock>>

\* A request that fails (wrong endpoint, missing data): the session is over.
RecvInvalid(c) ==
  /\ ReadsFrom(c, "SUBMIT")
  /\ Head(conn[c].up).kind = "invalid"
  /\ Blames({"disorder"})
  /\ UnImport(c)
  /\ UNCHANGED <<fate, blocked, listening, recv_seqnum, to_dev, from_dev, pad_sock>>

\* stub_recv_cmd_unlink: USBDEVFS_DISCARDURB fails and the request stays on the list;
\* RET_UNLINK, for which the client stops waiting, is sent or the process ends.
\* reset_dev (USBIP_RESET_DEV) answers alike.
RecvUnlink(c) ==
  LET n == Head(conn[c].up).seq
  IN  /\ ReadsFrom(c, "UNLINK")
      /\ \E out \in SendOutcomes(c) :
           fate' = CASE out = "ok" -> fate [] out = "error" -> "aborted" [] OTHER -> "killed"
      /\ conn' = [conn EXCEPT ![c] = Answered(Read(@), n)]
      /\ Blames(IF n <= CMD_MAX_RECV THEN {"unlink"} ELSE {})
      /\ UNCHANGED <<blocked, listening, edev, recv_seqnum, to_dev, from_dev, pad_sock>>

(***************************************************************************)
(* process_device_urb_test and stub_send_ret_submit.                       *)
(***************************************************************************)

DeviceReady == InLoop /\ edev.exported /\ pad_sock \in {"open", "closed"}

\* Data, or the end of the stream, from the application when nobody has imported the
\* device: g_error("why I have event when not imported?").
DeviceEventUnwanted ==
  /\ DeviceReady
  /\ from_dev # <<>> \/ pad_sock = "closed"
  /\ edev.status # "USED"
  /\ fate' = "aborted"
  /\ UNCHANGED <<blocked, listening, edev, recv_seqnum, conn, to_dev, from_dev,
                 pad_sock, irregular>>

\* How RET_SUBMIT of an answer goes: its ret_len is read without having been set, and
\* may be a length that cannot be sent.
RetSubmitOutcomes(c) == {<<out, FALSE>> : out \in SendOutcomes(c)}
                        \cup {<<out, TRUE>> : out \in {"ok", "error"}}

\* Faulty variant: recv_dev counts from 0.
NextAnswerFromZero == recv_seqnum

\* recv_dev: aurb->seqnum = ++seqnum
NextAnswer == recv_seqnum + 1

\* stub_send_ret_submit: recv_dev numbers the answer; RET_SUBMIT goes to the client,
\* then the request is deleted, if there is one with that number.
SendRetSubmit(c) ==
  LET n == NextAnswer
  IN  /\ DeviceReady
      /\ from_dev # <<>>
      /\ edev.client_fd = c
      /\ from_dev' = Tail(from_dev)
      /\ recv_seqnum' = recv_seqnum + 1
      /\ \E out \in RetSubmitOutcomes(c) :
           /\ Blames(IF out[2] THEN {"ret_len"} ELSE {})
           /\ \/ /\ out[1] = "ok"
                 /\ conn' = IF conn[c].peer = "left" THEN conn
                            ELSE [conn EXCEPT ![c] = Answered(@, n)]
                 /\ edev' = [edev EXCEPT !.processing_urbs = @ \ {n}]
                 /\ UNCHANGED fate
              \/ out[1] = "error" /\ fate' = "aborted" /\ UNCHANGED <<conn, edev>>
              \/ out[1] = "killed" /\ fate' = "killed" /\ UNCHANGED <<conn, edev>>
      /\ UNCHANGED <<blocked, listening, to_dev, pad_sock>>

\* The application's connection is reset: the device is taken from its client and
\* is exported no longer.  (The end of the stream alone is read as data, without end.)
DeviceHup ==
  /\ InLoop
  /\ edev.exported
  /\ pad_sock = "reset"
  /\ pad_sock' = "gone"
  /\ from_dev' = <<>>
  /\ edev' = [UnImported(edev) EXCEPT !.exported = FALSE]
  /\ conn' = [c \in Conns |-> IF edev.client_fd = c THEN ClosedConn ELSE conn[c]]
  /\ UNCHANGED <<fate, blocked, listening, recv_seqnum, to_dev, irregular>>

(***************************************************************************)
(* The steps, for module TouchPad to compose.                              *)
(***************************************************************************)

ServerInit ==
  /\ fate = "running"
  /\ blocked = Loop
  /\ listening = FALSE
  /\ edev = [exported |-> FALSE, status |-> "AVAILABLE", client_fd |-> NULL,
             processing_urbs |-> NULL]
  /\ recv_seqnum = 0
  /\ conn = [c \in Conns |-> NewConn]
  /\ to_dev = <<>>
  /\ from_dev = <<>>
  /\ pad_sock = "none"
  /\ irregular = {}

Client(c) == \/ Connect(c) \/ Leave(c) \/ ClientSubmit(c) \/ ClientUnlink(c)
             \/ \E op \in {"devlist", "import", "export"} : AskFor(c, op)

Operation(c) == OpLost(c) \/ Import(c) \/ OpReply(c) \/ Export(c)

ClientPdu(c) == \/ RecvEof(c) \/ RecvSubmit(c) \/ RecvSpecial(c)
                \/ RecvInvalid(c) \/ RecvUnlink(c)

DeviceUrb == DeviceEventUnwanted \/ DeviceHup \/ \E c \in Conns : SendRetSubmit(c)

ServerNext == \/ \E c \in Conns : Accept(c) \/ Operation(c) \/ ClientPdu(c)
              \/ Exported
              \/ DeviceUrb

=============================================================================
