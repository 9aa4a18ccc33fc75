----------------------------- MODULE VbusForward -----------------------------
(***************************************************************************)
(* The tool's forwarder (usbip_vbus_ui.c): one thread passes the requests  *)
(* of a device from the driver to the server, and the answers back, with   *)
(* an asynchronous read on each side.  Which answers bring data it tells   *)
(* by a table of the OUT requests it has sent, out_q_seqnum_array, which   *)
(* lives as long as the process: the next session has a new device, whose  *)
(* requests are numbered from 1 again, but the old table.  The driver's    *)
(* queue is the one of module UrbQueue with each call taken as one step;   *)
(* the server numbers what its application sends as it comes.              *)
(***************************************************************************)
EXTENDS UsbipPdu, Sequences, FiniteSets, SequencesExt

CONSTANTS
  NULL,
  Urbs,         \* the URBs that function drivers may submit
  DeviceUrbs,   \* what the application behind the server may send for answers
  OUT_Q_LEN,    \* slots of out_q_seqnum_array
  MaxUrbs,      \* bound: URBs submitted to all devices together
  MaxAnswers,   \* bound: answers that one server process numbers
  MaxSessions   \* bound: sessions of the process

ASSUME ForwardAssumption ==
  /\ \A u \in Urbs : u \in Urb /\ Consistent(u)
  /\ DeviceUrbs \subseteq DeviceUrb
  /\ OUT_Q_LEN \in Nat \ {0}
  /\ MaxUrbs \in Nat /\ MaxAnswers \in Nat /\ MaxSessions \in Nat

VARIABLES
  Present,      \* the device is plugged in
  ioctl_q,      \* its URBs: what they are, their number, 0 until the tool has read them
  seq_num,      \* the last number given
  tool,         \* the thread: where it is, its two reads and their buffers
  out_q_seqnum_array,
  signalflag,   \* Ctrl-C was pressed; nothing resets it
  to_server,    \* requests on their way
  to_client,    \* headers and data on their way
  server,       \* the server's end: open, the requests it is working on (processing_urbs),
                \* and the static counter that numbers the application's answers
  issued,       \* URBs submitted so far
  session,      \* sessions begun
  leftover,     \* history: the table's numbers when the session began
  refused,      \* history: the driver refused an answer of this session
  blame         \* history: what may have disturbed the session

driverVars == <<Present, ioctl_q, seq_num>>
streamVars == <<to_server, to_client, server>>
envVars == <<issued, session, leftover>>
forwardVars == <<driverVars, tool, out_q_seqnum_array, signalflag, streamVars, envVars,
                 refused, blame>>

Slots == 1..OUT_Q_LEN

Recorded(n) == {i \in Slots : out_q_seqnum_array[i] = n}

FirstOf(slots) == CHOOSE i \in slots : \A j \in slots : i <= j

InSession == tool.at # "idle"

Blame(cause) == blame' = blame \cup {cause}

(***************************************************************************)
(* The driver (modules UrbQueue and UrbUnplug), and who uses the device.   *)
(***************************************************************************)

\* try_addq: a read that is parked is filled at once, or fails together with a URB that
\* cannot be encoded.
SubmitUrb ==
  /\ Present /\ issued < MaxUrbs
  /\ issued' = issued + 1
  /\ \E u \in Urbs :
       IF tool.dev_read # "pending"
       THEN /\ ioctl_q' = Append(ioctl_q, [urb |-> u, num |-> 0])
            /\ UNCHANGED <<seq_num, tool, blame>>
       ELSE /\ seq_num' = seq_num + 1
            /\ IF Encodable(u, BIG_SIZE)
               THEN /\ ioctl_q' = Append(ioctl_q, [urb |-> u, num |-> seq_num'])
                    /\ tool' = [tool EXCEPT !.dev_read = "done",
                                            !.request = Encode(u, seq_num')]
                    /\ UNCHANGED blame
               ELSE /\ tool' = [tool EXCEPT !.dev_read = "failed"]
                    /\ Blame("disturbed")
                    /\ UNCHANGED ioctl_q
  /\ UNCHANGED <<Present, out_q_seqnum_array, signalflag, streamVars, session, leftover,
                 refused>>

CancelUrb ==
  /\ \E i \in 1..Len(ioctl_q) :
       ioctl_q' = RemoveAt(ioctl_q, i)
  /\ UNCHANGED <<Present, seq_num, tool, out_q_seqnum_array, signalflag, streamVars,
                 envVars, refused, blame>>

\* Faulty variant: the waiting read stays with the device.
UnplugKeepsRead ==
  /\ Present
  /\ Present' = FALSE
  /\ ioctl_q' = <<>>
  /\ Blame("disturbed")
  /\ UNCHANGED <<seq_num, tool, out_q_seqnum_array, signalflag, streamVars, envVars,
                 refused>>

\* bus_unplug_dev, with complete_pending_irp, on a request of somebody else than this thread
Unplug ==
  /\ Present
  /\ Present' = FALSE
  /\ ioctl_q' = <<>>
  /\ tool' = [tool EXCEPT !.dev_read = IF @ = "pending" THEN "failed" ELSE @]
  /\ Blame("disturbed")
  /\ UNCHANGED <<seq_num, out_q_seqnum_array, signalflag, streamVars, envVars, refused>>

(***************************************************************************)
(* The thread.  usbip_vbus_forward makes two first calls, whose results it *)
(* ignores; then it waits for either read and ends when a call fails.      *)
(***************************************************************************)

At(place) == tool.at = place

\* Where a call returns to.
After(t, ok) ==
  CASE t.stage = "first_dev"  -> [t EXCEPT !.at = "sock_read", !.stage = "first_sock"]
    [] t.stage = "first_sock" -> [t EXCEPT !.at = "wait", !.stage = "loop"]
    [] OTHER -> [t EXCEPT !.at = IF ok /\ ~signalflag THEN "wait" ELSE "over"]

Unsent == {i \in 1..Len(ioctl_q) : ioctl_q[i].num = 0}

\* ReadFile of dev_read_async (Bus_Read): it fails, gets the first URB that was not sent,
\* or waits for one.
DevRead ==
  /\ At("dev_read")
  /\ IF ~Present
     THEN /\ tool' = After([tool EXCEPT !.dev_read = "none"], FALSE)
          /\ UNCHANGED <<ioctl_q, seq_num, blame>>
     ELSE IF Unsent = {}
     THEN /\ tool' = After([tool EXCEPT !.dev_read = "pending"], TRUE)
          /\ UNCHANGED <<ioctl_q, seq_num, blame>>
     ELSE LET i == FirstOf(Unsent)
              u == ioctl_q[i].urb
          IN  /\ seq_num' = seq_num + 1
              /\ IF Encodable(u, BIG_SIZE)
                 THEN /\ tool' = [tool EXCEPT !.at = "to_sock", !.dev_read = "none",
                                              !.request = Encode(u, seq_num')]
                      /\ ioctl_q' = [ioctl_q EXCEPT ![i].num = seq_num']
                      /\ UNCHANGED blame
                 ELSE /\ tool' = After([tool EXCEPT !.dev_read = "none"], FALSE)
                      /\ ioctl_q' = RemoveAt(ioctl_q, i)
                      /\ Blame("disturbed")
  /\ UNCHANGED <<Present, out_q_seqnum_array, signalflag, streamVars, envVars, refused>>

record_out(n) == [out_q_seqnum_array EXCEPT ![FirstOf(Recorded(0))] = n]

\* write_to_sock: the length is checked and the number of an OUT request is recorded
\* before the request is sent; a server that has left may make the send fail.
WriteToSock ==
  LET q == tool.request
      out == ~q.in
      full == out /\ Recorded(0) = {}
  IN  /\ At("to_sock")
      /\ IF ~ToolPasses(q) \/ full
         THEN /\ tool' = After([tool EXCEPT !.request = NULL], FALSE)
              /\ blame' = IF full THEN blame \cup {"disturbed"} ELSE blame
              /\ UNCHANGED <<out_q_seqnum_array, to_server>>
         ELSE /\ out_q_seqnum_array' = IF out THEN record_out(q.num)
                                       ELSE out_q_seqnum_array
              /\ UNCHANGED blame
              /\ \/ /\ to_server' = IF server.open THEN Append(to_server, q) ELSE to_server
                    /\ tool' = [tool EXCEPT !.at = "dev_read", !.request = NULL]
                 \/ /\ ~server.open
                    /\ tool' = After([tool EXCEPT !.request = NULL], FALSE)
                    /\ UNCHANGED to_server
      /\ UNCHANGED <<driverVars, signalflag, to_client, server, envVars, refused>>

SockReady == to_client # <<>> \/ ~server.open

\* What a read of a header's length from the socket brings: the header, data that is
\* taken for one (the command is unknown), a part of it where the network cut it, or the
\* end of the stream.
ReadsSock(t) ==
  \/ /\ to_client # <<>>
     /\ to_client' = Tail(to_client)
     /\ tool' = IF Head(to_client).kind = "header"
                THEN [t EXCEPT !.at = "to_dev", !.answer = Head(to_client).answer]
                ELSE After(t, FALSE)
     /\ UNCHANGED blame
  \/ /\ to_client # <<>>
     /\ tool' = After(t, FALSE)
     /\ Blame("cut")
     /\ UNCHANGED to_client
  \/ /\ to_client = <<>>
     /\ tool' = After(t, FALSE)
     /\ UNCHANGED <<to_client, blame>>

\* ReadFile of sock_read_async
SockRead ==
  /\ At("sock_read")
  /\ \/ SockReady /\ ReadsSock([tool EXCEPT !.sock_read = "none"])
     \/ /\ ~SockReady
        /\ tool' = After([tool EXCEPT !.sock_read = "pending"], TRUE)
        /\ UNCHANGED <<to_client, blame>>
  /\ UNCHANGED <<driverVars, out_q_seqnum_array, signalflag, to_server, server, envVars,
                 refused>>

\* WriteFile of write_to_dev (Bus_Write): no entry with the number is no error; then
\* sock_read_async goes on.
GivesDevice(a, size) ==
  LET found == {i \in 1..Len(ioctl_q) : ioctl_q[i].num = a.num}
  IN  IF ~Present
      THEN /\ tool' = After([tool EXCEPT !.answer = NULL, !.need = 0, !.left = 0], FALSE)
           /\ UNCHANGED <<ioctl_q, refused>>
      ELSE /\ tool' = [tool EXCEPT !.at = "sock_read", !.answer = NULL, !.need = 0, !.left = 0]
           /\ IF found = {}
              THEN UNCHANGED <<ioctl_q, refused>>
              ELSE LET i == FirstOf(found)
                   IN  /\ ioctl_q' = RemoveAt(ioctl_q, i)
                       /\ refused' = (refused \/ ~Decodable(ioctl_q[i].urb, a, size))

\* Faulty variant: the number stays in the table.
check_out_keeps(n) == out_q_seqnum_array

\* check_out: the first slot that holds the number is cleared.
check_out(n) == IF Recorded(n) = {} THEN out_q_seqnum_array
                ELSE [out_q_seqnum_array EXCEPT ![FirstOf(Recorded(n))] = 0]

\* write_to_dev up to the data
WriteToDev ==
  LET a == tool.answer
      out == Recorded(a.num) # {}
      \* history: a number of an earlier session, or packets that the swap multiplies
      odd == a.num \in leftover \/ a.packets > 0
  IN  /\ At("to_dev")
      /\ out_q_seqnum_array' = check_out(a.num)
      /\ blame' = IF odd THEN blame \cup {"misread"} ELSE blame
      /\ IF Follows(a, out) = 0
         THEN GivesDevice(a, HEADER)
         ELSE /\ tool' = IF TooBig(a, out) THEN After([tool EXCEPT !.answer = NULL], FALSE)
                         ELSE [tool EXCEPT !.at = "data", !.need = Follows(a, out),
                                           !.left = Follows(a, out)]
              /\ UNCHANGED <<ioctl_q, refused>>
      /\ UNCHANGED <<Present, seq_num, signalflag, streamVars, envVars>>

SizeOf(e) == IF e.kind = "header" THEN HEADER ELSE e.bytes

\* usbip_recv of the data blocks until all has come, or the server has left.  It takes
\* what is there, headers too, and from a longer item leaves a rest that is no header.
\* (A length of HalfWord and more never comes.  What it would do to the buffer, which
\* ends before, is left out.)
WriteToDevData ==
  /\ At("data")
  /\ SockReady
  /\ LET e == Head(to_client)
         size == SizeOf(e)
         rest == [kind |-> "data", bytes |-> size - tool.left]
         \* history: it takes other bytes than the data of the answer
         swallows == e # [kind |-> "data", bytes |-> tool.need]
     IN  \/ /\ to_client = <<>>
            /\ tool' = After([tool EXCEPT !.answer = NULL, !.need = 0, !.left = 0], FALSE)
            /\ UNCHANGED <<ioctl_q, refused, to_client, blame>>
         \/ /\ to_client # <<>> /\ size < tool.left
            /\ to_client' = Tail(to_client)
            /\ tool' = [tool EXCEPT !.left = @ - size]
            /\ Blame("swallowed")
            /\ UNCHANGED <<ioctl_q, refused>>
         \/ /\ to_client # <<>> /\ size >= tool.left
            /\ to_client' = (IF size = tool.left THEN <<>> ELSE <<rest>>) \o Tail(to_client)
            /\ GivesDevice(tool.answer, HEADER + tool.need)
            /\ blame' = IF swallows THEN blame \cup {"swallowed"} ELSE blame
  /\ UNCHANGED <<Present, seq_num, out_q_seqnum_array, signalflag, to_server, server,
                 envVars>>

\* WaitForMultipleObjects: of two events the driver's is taken.
DevReady == tool.dev_read \in {"done", "failed"}

DevEvent ==
  /\ At("wait")
  /\ DevReady
  /\ tool' = IF tool.dev_read = "done"
             THEN [tool EXCEPT !.at = "to_sock", !.dev_read = "none"]
             ELSE After([tool EXCEPT !.dev_read = "none"], FALSE)
  /\ UNCHANGED <<driverVars, out_q_seqnum_array, signalflag, streamVars, envVars,
                 refused, blame>>

SockEvent ==
  /\ At("wait")
  /\ ~DevReady
  /\ tool.sock_read = "pending" /\ SockReady
  /\ ReadsSock([tool EXCEPT !.sock_read = "none"])
  /\ UNCHANGED <<driverVars, out_q_seqnum_array, signalflag, to_server, server, envVars,
                 refused>>

\* The wait ends after 100 ms for the sake of Ctrl-C.
Timeout ==
  /\ At("wait")
  /\ signalflag
  /\ tool' = [tool EXCEPT !.at = "over"]
  /\ UNCHANGED <<driverVars, out_q_seqnum_array, signalflag, streamVars, envVars,
                 refused, blame>>

CtrlC ==
  /\ InSession
  /\ ~signalflag
  /\ signalflag' = TRUE
  /\ UNCHANGED <<driverVars, tool, out_q_seqnum_array, streamVars, envVars, refused,
                 blame>>

(***************************************************************************)
(* Sessions: attach_device.                                                *)
(***************************************************************************)

\* The server's end is closed; its process may go on.
Closed == [server EXCEPT !.open = FALSE, !.taken = {}]

IdleTool == [at |-> "idle", stage |-> "first_dev", dev_read |-> "none",
             sock_read |-> "none", request |-> NULL, answer |-> NULL, need |-> 0, left |-> 0]

\* A device that was just plugged in, and the connection on which it was imported: to the
\* same server process, or to one that has numbered no answer yet.
BeginSession ==
  /\ At("idle")
  /\ session < MaxSessions
  /\ session' = session + 1
  /\ Present' = TRUE
  /\ seq_num' = 0
  /\ \E n \in {server.seqnum, 0} : server' = [open |-> TRUE, taken |-> {}, seqnum |-> n]
  /\ tool' = [IdleTool EXCEPT !.at = "dev_read"]
  /\ leftover' = {out_q_seqnum_array[i] : i \in Slots} \ {0}
  /\ blame' = {}
  /\ refused' = FALSE
  /\ UNCHANGED <<ioctl_q, out_q_seqnum_array, signalflag, to_server, to_client, issued>>

\* CloseHandle unplugs the device (Bus_Cleanup), closesocket ends the connection.
EndSession ==
  /\ At("over")
  /\ tool' = IdleTool
  /\ Present' = FALSE
  /\ ioctl_q' = <<>>
  /\ server' = Closed
  /\ to_server' = <<>>
  /\ to_client' = <<>>
  /\ blame' = {}
  /\ refused' = FALSE
  /\ UNCHANGED <<seq_num, out_q_seqnum_array, signalflag, envVars>>

(***************************************************************************)
(* The server (module StubServer), and the application behind it.          *)
(***************************************************************************)

Data(n) == IF n = 0 THEN <<>> ELSE <<[kind |-> "data", bytes |-> n]>>

Answered(a) == <<[kind |-> "header", answer |-> a]>> \o Data(a.data) \o Data(a.descs)

\* stub_recv_cmd_submit: a request is for the application, or is carried out and answered
\* by the server itself, or ends the session.
ServerReceives ==
  /\ server.open
  /\ to_server # <<>>
  /\ to_server' = Tail(to_server)
  /\ LET q == Head(to_server)
     IN  \/ /\ ServerTakes(q)
            /\ server' = [server EXCEPT !.taken = @ \cup {q}]
            /\ UNCHANGED <<to_client, blame>>
         \/ /\ ServerTakes(q) /\ Special(q)
            /\ to_client' = to_client \o Answered(SpecialReply(q))
            /\ UNCHANGED <<server, blame>>
         \/ /\ ~ServerTakes(q)
            /\ server' = Closed
            /\ Blame("disturbed")
            /\ UNCHANGED to_client
  /\ UNCHANGED <<driverVars, tool, out_q_seqnum_array, signalflag, envVars, refused>>

\* stub_send_ret_submit: whatever the application sends, and whenever, gets the next
\* number, and the request of that number is deleted from processing_urbs.  History: the
\* answer is astray if there is no such request, or if it does not fit.
ServerAnswers ==
  /\ server.open
  /\ server.seqnum < MaxAnswers
  /\ \E d \in DeviceUrbs :
       LET n == server.seqnum + 1
           due == {q \in server.taken : q.num = n}
       IN  /\ to_client' = to_client \o Answered(Reply(n, d))
           /\ server' = [server EXCEPT !.seqnum = n, !.taken = @ \ due]
           /\ blame' = IF \E q \in due : Fits(d, q) THEN blame ELSE blame \cup {"astray"}
  /\ UNCHANGED <<driverVars, tool, out_q_seqnum_array, signalflag, to_server, envVars,
                 refused>>

\* What it had sent arrives or is lost.
ServerLeaves ==
  /\ server.open
  /\ server' = Closed
  /\ to_client' \in {to_client, <<>>}
  /\ Blame("disturbed")
  /\ UNCHANGED <<driverVars, tool, out_q_seqnum_array, signalflag, to_server, envVars,
                 refused>>

ForwardInit ==
  /\ Present = FALSE /\ ioctl_q = <<>> /\ seq_num = 0
  /\ tool = IdleTool
  /\ out_q_seqnum_array = [i \in Slots |-> 0]
  /\ signalflag = FALSE
  /\ to_server = <<>> /\ to_client = <<>>
  /\ server = [open |-> FALSE, taken |-> {}, seqnum |-> 0]
  /\ issued = 0 /\ session = 0
  /\ leftover = {} /\ refused = FALSE /\ blame = {}

usbip_vbus_forward == \/ DevRead \/ WriteToSock
                      \/ SockRead \/ WriteToDev \/ WriteToDevData
                      \/ DevEvent \/ SockEvent \/ Timeout

Surroundings == \/ SubmitUrb \/ CancelUrb \/ Unplug \/ CtrlC
                \/ ServerReceives \/ ServerAnswers \/ ServerLeaves

ForwardNext == \/ usbip_vbus_forward \/ BeginSession \/ EndSession
               \/ Surroundings

ForwardSpec == ForwardInit /\ [][ForwardNext]_forwardVars

\* The thread runs.  Nothing makes anybody use the device or the server answer.
ForwardFairSpec == ForwardSpec /\ WF_forwardVars(usbip_vbus_forward \/ EndSession)

(***************************************************************************)
(* Properties.                                                             *)
(***************************************************************************)

\* The driver, the tool and the server agree where each request on its way ends.
FramesAgree ==
  \A i \in 1..Len(to_server) :
    LET q == to_server[i] IN ToolPasses(q) /\ q.size = ServerReads(q)

Headers == {to_client[i].answer : i \in {j \in 1..Len(to_client) :
                                           to_client[j].kind = "header"}}

\* OUT requests that were sent, and whose answer the tool has not looked at
OutOutstanding ==
  {q.num : q \in {r \in server.taken \cup ToSet(to_server) \cup Headers
                        \cup (IF At("to_dev") THEN {tool.answer} ELSE {}) : ~r.in}}

InTable == {out_q_seqnum_array[i] : i \in Slots} \ {0}

Undisturbed(causes) == blame \cap causes = {}

\* While the server is there, the table holds the numbers of the OUT requests whose
\* answers have not come, besides those an earlier session has left in it; until an
\* answer is astray, or one is swallowed with its header.
OutTableIsExact ==
  InSession /\ server.open /\ Undisturbed({"astray", "swallowed"}) =>
    /\ OutOutstanding \subseteq InTable
    /\ InTable \subseteq OutOutstanding \cup leftover
    /\ leftover = {} => Cardinality(InTable) = Cardinality(Slots \ Recorded(0))

\* The URBs that the driver encodes, and what the two properties below take of them: the
\* answer fits the tool's buffer, or else write_to_dev gives it up (too big len), and the
\* driver can store it, or else process_write_irp fails the write.
Encodables == {u \in Urbs : Encodable(u, BIG_SIZE)}

Manageable ==
  \A u \in Encodables :
    /\ u.fn = "select_interface" => u.known
    /\ DirIn(u) => u.mapped /\ HEADER + Asks(u) <= BIG_SIZE

\* Unless a number of an earlier session is met, an isochronous answer comes, a header
\* arrives in parts or an answer is astray, the tool reads from each answer what follows
\* its header, and stands at a header after it; and the driver refuses no answer.  (Of
\* Manageable URBs.)
StreamInFrame ==
  Undisturbed({"misread", "cut", "astray"}) =>
    /\ At("to_dev") /\ tool.answer.num \notin leftover /\ tool.answer.packets = 0 =>
         Follows(tool.answer, Recorded(tool.answer.num) # {}) = tool.answer.data
    /\ ~At("to_dev") /\ ~At("data") /\ to_client # <<>> => Head(to_client).kind = "header"
    /\ ~refused

\* A session goes on, with a read outstanding on either side whenever it waits, as long
\* as the device is plugged in, the server stays, every URB can be encoded, the table has
\* room, answers fit their requests, arrive whole and are understood and nobody presses
\* Ctrl-C.  (Of Manageable URBs.)
GoesOnInOrder ==
  blame = {} /\ ~signalflag =>
    /\ ~At("over")
    /\ At("wait") => tool.dev_read # "none" /\ tool.sock_read = "pending"

\* The thread waits in usbip_recv for what an answer told of and the server does not send.
Starved ==
  At("data") /\ to_client = <<>> /\ server.open /\ ~Undisturbed({"astray", "swallowed"})

\* A session whose device was unplugged or whose server has left ends, unless the first
\* read of that side had failed and its result was ignored.  But the thread does not see
\* the unplug while it is starved, by an answer that was astray or by the length of an
\* isochronous one, which write_to_dev takes for small when it is negative.
SessionEnds ==
  InSession /\ ~(Present /\ server.open)
    ~> \/ ~InSession
       \/ /\ ~Present => (At("wait") /\ tool.dev_read = "none") \/ Starved
          /\ ~server.open => At("wait") /\ tool.sock_read = "none"
=============================================================================
