------------------------------- MODULE UsbipPdu -------------------------------
(***************************************************************************)
(* The form of the requests and answers that the bus driver, the tool and  *)
(* the server exchange: a header, data, and a descriptor for each          *)
(* isochronous packet.  Nothing on the stream marks where a request ends:  *)
(* the driver that writes it (busenum.c), the tool that passes it on       *)
(* (usbip_vbus_ui.c) and the server that reads it (stub_server.c) each     *)
(* compute its length by rules of their own.  Lengths are in bytes; what   *)
(* the bytes of data are is left out.                                      *)
(***************************************************************************)
EXTENDS Integers

CONSTANTS
  HEADER,    \* sizeof(struct usbip_header)
  ISO_DESC,  \* sizeof(struct usbip_iso_packet_descriptor)
  BIG_SIZE,  \* the size of each of the tool's two buffers
  SWAP       \* 1 with its bytes reversed: 2^24 in words of 32 bits

ASSUME PduAssumption == /\ HEADER \in Nat \ {0} /\ ISO_DESC \in Nat
                        /\ BIG_SIZE \in Nat /\ SWAP \in Nat \ {0}

\* Words, of four bytes: unsigned, with sums of two of them, and as an int.
HalfWord == 128 * SWAP
Word == 256 * SWAP
Wrapped(n) == IF n < Word THEN n ELSE n - Word
Signed(n) == IF n < HalfWord THEN n ELSE n - Word

Descriptors == {"device_descriptor", "interface_descriptor"}
Commands == {"select_interface", "select_config", "reset_port"}
OnPipe == {"bulk", "iso"}
Functions == Descriptors \cup Commands \cup OnPipe \cup {"class_vendor", "vendor_other"}

\* A URB as a function driver submits it: its pipe's type and direction, the direction
\* its flags state, and whether the driver can handle its details: the type of the
\* descriptor it asks for, the address of its buffer, the offsets of its packets, and
\* whether each of these is as small as the endpoint's.
Urb == [fn : Functions, type : {"control", "iso", "bulk", "interrupt"},
        pipe_in : BOOLEAN, flag_in : BOOLEAN, length : 0..(Word - 1), packets : Nat,
        known : BOOLEAN, mapped : BOOLEAN, offsets : {"from_0", "late", "descending"},
        small : BOOLEAN]

\* What USB's function drivers submit: flags that agree with the pipe, packets only in
\* isochronous URBs.
Consistent(u) ==
  /\ u.fn \in OnPipe => u.flag_in = u.pipe_in
  /\ u.packets > 0 <=> u.fn = "iso"

(***************************************************************************)
(* The driver: set_read_irp_data and the prepare functions.                *)
(***************************************************************************)

\* pipe2direct, or the flags, or what the function implies
DirIn(u) == \/ u.fn \in Descriptors
            \/ u.fn \in OnPipe /\ u.pipe_in
            \/ u.fn = "class_vendor" /\ u.flag_in

\* transfer_buffer_length of the header
Asks(u) == IF u.fn \in Commands THEN 0 ELSE u.length

\* CHECK_SIZE_RW, CHECK_SIZE_READ and their like in prepare_iso_urb: the room a URB
\* needs in the buffer of a read.  They go by the flags, the copy by the pipe.
RoomNeeded(u) ==
  LET data == IF u.fn \in Descriptors \cup Commands \/ u.flag_in THEN 0 ELSE u.length
  IN  HEADER + data + u.packets * ISO_DESC

PipeFits(u) == \/ u.fn = "bulk" /\ u.type \in {"bulk", "interrupt"}
               \/ u.fn = "iso" /\ u.type = "iso"
               \/ u.fn \notin OnPipe

\* What set_read_irp_data can turn into a request.
Encodable(u, room) ==
  /\ u.fn # "vendor_other"
  /\ RoomNeeded(u) <= room
  /\ PipeFits(u)
  /\ u.fn = "device_descriptor" => u.known
  /\ u.fn \in OnPipe /\ ~u.pipe_in => u.mapped
  /\ u.fn = "iso" => u.offsets # "descending"

\* The header and the number of bytes that follow it in the read's buffer; the endpoint
\* stands for its type, which set_pipe took from the device's configuration.
Encode(u, n) ==
  [num |-> n, in |-> DirIn(u), length |-> Asks(u), packets |-> u.packets,
   type |-> IF u.fn \in OnPipe THEN u.type ELSE "control",
   offsets |-> u.offsets, small |-> u.small,
   size |-> HEADER + (IF DirIn(u) THEN 0 ELSE Asks(u)) + u.packets * ISO_DESC]

(***************************************************************************)
(* The tool: write_to_sock.                                                *)
(***************************************************************************)

\* Faulty variant: the descriptors of isochronous packets are forgotten.
ToolExpectsNoIso(q) == HEADER + (IF q.in THEN 0 ELSE q.length)

ToolExpects(q) == HEADER + (IF q.in THEN 0 ELSE q.length) + q.packets * ISO_DESC

ToolPasses(q) == q.size >= HEADER /\ q.size = ToolExpects(q)

(***************************************************************************)
(* The server: recv_client_pdu, stub_recv_cmd_submit.                      *)
(***************************************************************************)

IsoPackets(q) == IF q.type = "iso" THEN q.packets ELSE 0

\* Faulty variant: data is read whatever the direction.
ServerReadsBoth(q) == HEADER + q.length + IsoPackets(q) * ISO_DESC

ServerReads(q) == HEADER + (IF q.in THEN 0 ELSE q.length) + IsoPackets(q) * ISO_DESC

\* Requests the server does not end the session for ("fix your client driver"); an IN
\* packet that is too big it makes smaller.
ServerTakes(q) ==
  q.type = "iso" => q.packets \in 1..128 /\ q.offsets = "from_0" /\ (q.in \/ q.small)

(***************************************************************************)
(* Its answer: stub_send_ret_submit, send_err_ret_cmd_submit.              *)
(***************************************************************************)

\* What the application sends for an answer and recv_dev takes in: its endpoint's
\* direction and type, packets, length; and what malloc left in ret_len, to which
\* stub_send_ret_submit adds the length.
DeviceUrb == [in : BOOLEAN, iso : BOOLEAN, packets : 0..128, actual : 0..(HalfWord - 1),
              unset : 0..(Word - 1)]

ret_len(d) == Wrapped(d.unset + d.actual)

\* Faulty variant: data is sent whatever the direction.
ReplyBoth(n, d) ==
  [num |-> n, in |-> d.in, actual |-> ret_len(d), packets |-> d.packets,
   data |-> ret_len(d), descs |-> IF d.iso THEN d.packets * ISO_DESC ELSE 0]

\* The answer that gets the number n: the header, which does not tell the direction, and
\* the number of bytes of data and of descriptors that come after it.  Nothing in it is
\* taken from a request.
Reply(n, d) ==
  [num |-> n, in |-> d.in, actual |-> ret_len(d), packets |-> d.packets,
   data |-> IF ~d.in \/ Signed(ret_len(d)) <= 0 THEN 0
            ELSE IF d.iso THEN d.actual ELSE ret_len(d),
   descs |-> IF d.iso THEN d.packets * ISO_DESC ELSE 0]

\* Such an answer is what the request q asked for, and its length was not read unset.
Fits(d, q) ==
  /\ d.in = q.in /\ (d.iso <=> q.type = "iso")
  /\ d.packets = IsoPackets(q) /\ d.actual <= q.length
  /\ d.unset = 0

\* The requests that the server may carry out itself (special_urb), and its answer.
Special(q) == q.type = "control" /\ ~q.in

SpecialReply(q) ==
  [num |-> q.num, in |-> q.in, actual |-> 0, packets |-> q.packets, data |-> 0, descs |-> 0]

(***************************************************************************)
(* The tool: write_to_dev, and the driver: process_write_irp.              *)
(***************************************************************************)

\* The server's correct_endian_ret_submit leaves number_of_packets in its own byte order
\* and the tool's swaps it: at most 128 packets are SWAP times as many.
Swapped(n) == n * SWAP

\* The same times ISO_DESC, in a word.
IsoLen(a) == ((a.packets * ISO_DESC) % 256) * SWAP

\* Whether the tool takes the answer for that of an OUT request decides if it reads data.
Follows(a, out) == Wrapped((IF out THEN 0 ELSE a.actual) + IsoLen(a))

\* Faulty variant: the length is compared as an unsigned one.
TooBigUnsigned(a, out) == HEADER + Follows(a, out) > BIG_SIZE

\* len is an int: one of HalfWord and more is negative, and not too big.
TooBig(a, out) == Signed(Wrapped(HEADER + Follows(a, out))) > BIG_SIZE

\* The checks of process_write_irp: what completes the URB with success.
Decodable(u, a, size) ==
  \/ u.fn = "reset_port"
  \/ /\ u.fn = "select_interface" => u.known
     /\ a.actual <= Asks(u)
     /\ u.fn = "iso" => Swapped(a.packets) = u.packets
     /\ size = HEADER + (IF DirIn(u) THEN a.actual ELSE 0) + u.packets * ISO_DESC
     /\ DirIn(u) /\ a.actual > 0 => u.mapped
=============================================================================
