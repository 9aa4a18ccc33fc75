------------------------------- MODULE UsbPipes -------------------------------
(***************************************************************************)
(* Which endpoints a device has at the moment, as two programs see it.     *)
(* The bus driver (busenum.c) gives pipes to the function driver when that *)
(* selects a configuration or an alternate setting of an interface; the    *)
(* server (stub_driver.c, stub_server.c) keeps a table of the endpoints,   *)
(* and ends the session when a request is not for one of them.  Each side  *)
(* reads the configuration descriptor for itself.  Requests and answers    *)
(* are in order; what module UrbQueue has of them is left out here.        *)
(***************************************************************************)
EXTENDS Sequences, FiniteSets, FiniteSetsExt, Integers

CONSTANTS
  Devices,   \* devices: a configuration's descriptors in their order, and the speed
  MaxWire    \* bound: requests, or answers, under way

(***************************************************************************)
(* Configuration descriptors.  An offset is the number of descriptors      *)
(* before it; every descriptor of a Device has the length of its type.     *)
(***************************************************************************)

\* The n endpoint descriptors that seek_to_next_desc finds from an offset on.
EndpointsFrom(d, offset, n) ==
  {k \in offset + 1 .. Len(d) :
     /\ d[k].kind = "endpoint"
     /\ Cardinality({j \in offset + 1 .. k - 1 : d[j].kind = "endpoint"}) < n}

\* The offset behind an interface and its endpoints.
Behind(d, k) == Max({k} \cup EndpointsFrom(d, k, d[k].endpoints))

\* wMaxPacketSize with its multiplier, in set_pipe and add_ep_info.
PacketSize(dev, ep) ==
  IF ep.type = "iso" /\ dev.high THEN (ep.size % 2048) * (1 + ((ep.size \div 2048) % 4))
  ELSE ep.size

Endpoint(dev, k) ==
  LET ep == dev.desc[k]
  IN  [in |-> ep.in, addr |-> ep.addr, type |-> ep.type, size |-> PacketSize(dev, ep)]

Endpoints(dev, k) ==
  {Endpoint(dev, p) : p \in EndpointsFrom(dev.desc, k, dev.desc[k].endpoints)}

\* What the descriptors mean: the endpoints between an interface's descriptor and the
\* next interface's.
IsSetting(d, k, n, a) == d[k].kind = "interface" /\ d[k].num = n /\ d[k].alt = a

Between(d, k) ==
  {j \in k + 1 .. Len(d) : /\ d[j].kind = "endpoint"
                           /\ \A i \in k + 1 .. j : d[i].kind # "interface"}

Setting(dev, n, a) ==
  LET d  == dev.desc
      at == CHOOSE k \in 1..Len(d) : IsSetting(d, k, n, a)
  IN  {Endpoint(dev, k) : k \in Between(d, at)}

Ifaces(d) == {d[k].num : k \in {k \in 1..Len(d) : d[k].kind = "interface"}}
Alts(d, n) == {d[k].alt : k \in {k \in 1..Len(d) : d[k].kind = "interface" /\ d[k].num = n}}

\* An endpoint has one of 16 numbers, 0 of which is the control pipe's.
Descriptors ==
  [kind : {"config"}, interfaces : Nat]
    \cup [kind : {"interface"}, num : Nat, alt : Nat, endpoints : Nat]
    \cup [kind : {"endpoint"}, in : BOOLEAN, addr : 1..15,
          type : {"iso", "bulk", "interrupt"}, size : Nat]
    \cup [kind : {"other"}]

\* As USB has them: interfaces and their settings are numbered from 0 and in order, each
\* has as many endpoint descriptors as it announces, and no two endpoints that are in use
\* at a time have one address.
Address(dev, n, a) == {<<e.in, e.addr>> : e \in Setting(dev, n, a)}

WellFormed(dev) ==
  LET d == dev.desc IN
  /\ d \in Seq(Descriptors)
  /\ Len(d) > 0 /\ d[1].kind = "config" /\ d[1].interfaces = Cardinality(Ifaces(d))
  /\ Ifaces(d) = 0 .. d[1].interfaces - 1
  /\ \A n \in Ifaces(d) :
       /\ Alts(d, n) = 0 .. Cardinality(Alts(d, n)) - 1
       /\ \A a \in Alts(d, n) :
            \E k \in 1..Len(d) : /\ IsSetting(d, k, n, a)
                                 /\ d[k].endpoints = Cardinality(Between(d, k))
                                 /\ d[k].endpoints = Cardinality(Address(dev, n, a))
  /\ \A j, k \in 1..Len(d) :
       j < k /\ d[j].kind = "interface" /\ d[k].kind = "interface"
         => d[j].num < d[k].num \/ (d[j].num = d[k].num /\ d[j].alt < d[k].alt)
  /\ \A m, n \in Ifaces(d) : \A a \in Alts(d, m), b \in Alts(d, n) :
       m # n => Address(dev, m, a) \cap Address(dev, n, b) = {}

ASSUME PipesAssumption ==
  MaxWire \in Nat \ {0} /\ \A dev \in Devices : WellFormed(dev)

VARIABLES
  device,    \* the one that is exported
  saved,     \* the bus driver has its configuration descriptor (dev_config)
  pipes,     \* for each interface, the pipes that its function driver has
  chosen,    \* the setting whose pipes these are, -1 for none
  wire,      \* requests on their way to the server
  answers,   \* and answers on their way back
  eps,       \* the server's table: the valid entries of edev->eps
  setting,   \* the device's setting of each interface
  session,   \* the server has a client
  apart      \* history: interfaces that are not known to be set alike on both sides

pipesVars == <<device, saved, pipes, chosen, wire, answers, eps, setting, session, apart>>

desc == device.desc
Selecting(n) == \/ \E k \in 1..Len(wire) : wire[k].op = "select" /\ wire[k].iface = n
                \/ \E k \in 1..Len(answers) : answers[k].iface = n

(***************************************************************************)
(* The server.                                                             *)
(***************************************************************************)

\* parse_interface: the descriptor of a setting, 0 if it gives up.
ServerSeek(d, offset, n, a) ==
  LET first == {k \in offset + 1 .. Len(d) :
                  d[k].kind = "interface" /\ d[k].num >= n /\ d[k].alt >= a}
  IN  IF first = {} \/ d[Min(first)].alt > a THEN 0 ELSE Min(first)

\* add_ep_info for the endpoints behind a descriptor; one whose address is taken or 0
\* is left out.
AddEps(dev, table, k, n, a) ==
  table \cup {[ep |-> e, intf |-> n, alter |-> a] :
                e \in {e \in Endpoints(dev, k) :
                         /\ e.addr # 0
                         /\ \A t \in table : <<t.ep.in, t.ep.addr>> # <<e.in, e.addr>>}}

\* parse_config: setting 0 of every interface, each looked for behind the one before.
ParseConfig(dev) ==
  LET d == dev.desc
      parsed[n \in 0 .. d[1].interfaces] ==
        IF n = 0 THEN [offset |-> 1, table |-> {}]
        ELSE LET k == ServerSeek(d, parsed[n - 1].offset, n - 1, 0)
             IN  [offset |-> Behind(d, k),
                  table |-> AddEps(dev, parsed[n - 1].table, k, n - 1, 0)]
  IN  parsed[d[1].interfaces].table

\* Faulty variants: the interface's old endpoints stay valid; the table is not changed.
RefreshKeeps(dev, table, n, a) == AddEps(dev, table, ServerSeek(dev.desc, 0, n, a), n, a)
RefreshNot(dev, table, n, a) == table

\* usbip_refresh_eps
Refresh(dev, table, n, a) ==
  AddEps(dev, {t \in table : t.intf # n}, ServerSeek(dev.desc, 0, n, a), n, a)

\* tweak_set_interface_cmd: the device may refuse.  A setting that parse_interface does
\* not find would end the server; a WellFormed device has the settings it announces.
ServerSelects ==
  /\ wire # <<>> /\ Head(wire).op = "select" /\ session
  /\ Len(answers) < MaxWire
  /\ LET n == Head(wire).iface  a == Head(wire).alt IN
     \E accepted \in BOOLEAN :
       /\ IF accepted
          THEN /\ eps' = Refresh(device, eps, n, a)
               /\ setting' = [setting EXCEPT ![n] = a]
          ELSE UNCHANGED <<eps, setting>>
       /\ answers' = Append(answers, [iface |-> n, alt |-> a, room |-> Head(wire).room,
                                      accepted |-> accepted])
  /\ wire' = Tail(wire)
  /\ UNCHANGED <<device, saved, pipes, chosen, session, apart>>

\* is_valid_ep, and what stub_recv_cmd_submit asks of the packets.  Where only one side
\* takes the endpoint for an isochronous one, packets' descriptors are missing or are
\* taken for the next request, and the session ends, too.
Serves(table, e) ==
  \E t \in table : /\ t.ep.in = e.in /\ t.ep.addr = e.addr
                   /\ (t.ep.type = "iso") = (e.type = "iso")
                   /\ e.type = "iso" /\ ~e.in => e.size <= t.ep.size

\* A request on a pipe; it ends the session if it is not for an endpoint of the table.
ServerTransfers ==
  /\ wire # <<>> /\ Head(wire).op = "transfer" /\ session
  /\ session' = Serves(eps, Head(wire).ep)
  /\ wire' = IF session' THEN Tail(wire) ELSE <<>>
  /\ UNCHANGED <<device, saved, pipes, chosen, answers, eps, setting, apart>>

\* The session ends for other reasons.
ClientLeaves ==
  /\ session
  /\ session' = FALSE
  /\ wire' = <<>>
  /\ UNCHANGED <<device, saved, pipes, chosen, answers, eps, setting, apart>>

(***************************************************************************)
(* The bus driver.                                                         *)
(***************************************************************************)

\* seek_to_one_intf_desc
ClientSeek(d, offset, n, a) ==
  LET first == {k \in offset + 1 .. Len(d) :
                  /\ d[k].kind = "interface"
                  /\ d[k].num > n \/ (d[k].num = n /\ d[k].alt >= a)}
  IN  IF first # {} /\ IsSetting(d, Min(first), n, a) THEN Min(first) ELSE 0

\* A client attaches the device: it has a new device object.
Attach ==
  /\ ~session
  /\ session' = TRUE
  /\ saved' = FALSE
  /\ pipes' = [n \in Ifaces(desc) |-> {}]
  /\ chosen' = [n \in Ifaces(desc) |-> -1]
  /\ wire' = <<>> /\ answers' = <<>>
  /\ apart' = {n \in Ifaces(desc) : setting[n] # 0}
  /\ UNCHANGED <<device, eps, setting>>

\* try_save_config, of an answer that has the whole configuration, when there is memory.
SaveConfig ==
  /\ session /\ ~saved
  /\ saved' = TRUE
  /\ UNCHANGED <<device, pipes, chosen, wire, answers, eps, setting, session, apart>>

\* proc_select_config for the first m interfaces, with setting 0; it fails, without a
\* trace, for a setting other than 0 or a number of pipes that does not fit.  The server
\* is not told.
SelectConfig(m) ==
  /\ session /\ saved
  /\ \A n \in Ifaces(desc) : ~Selecting(n)
  /\ LET at[n \in 0 .. m] ==
           IF n = 0 THEN 0
           ELSE ClientSeek(desc, IF n = 1 THEN 0 ELSE Behind(desc, at[n - 1]), n - 1, 0)
     IN  /\ \A n \in 1..m : at[n] # 0
         /\ pipes' = [n \in Ifaces(desc) |-> IF n < m THEN Endpoints(device, at[n + 1])
                                             ELSE {}]
  /\ chosen' = [n \in Ifaces(desc) |-> IF n < m THEN 0 ELSE -1]
  /\ apart' = apart \cup {n \in Ifaces(desc) : chosen[n] > 0}
  /\ UNCHANGED <<device, saved, wire, answers, eps, setting, session>>

\* URB_FUNCTION_SELECT_INTERFACE goes to the server.  Its room for pipes may be other
\* than what the setting needs.
SelectInterface(n) ==
  /\ session /\ ~Selecting(n) /\ Len(wire) < MaxWire
  /\ \E a \in Alts(desc, n), room \in BOOLEAN :
       wire' = Append(wire, [op |-> "select", iface |-> n, alt |-> a, room |-> room])
  /\ UNCHANGED <<device, saved, pipes, chosen, answers, eps, setting, session, apart>>

\* Its answer: post_select_interface sets the pipes whatever the answer's status is, unless
\* it finds fault with the request itself.
PostSelectInterface ==
  /\ answers # <<>> /\ session
  /\ LET ans == Head(answers)
         n   == ans.iface
         k   == ClientSeek(desc, 0, n, ans.alt)
         set == saved /\ k # 0 /\ ans.room
     IN  /\ IF set
            THEN /\ pipes' = [pipes EXCEPT ![n] = Endpoints(device, k)]
                 /\ chosen' = [chosen EXCEPT ![n] = ans.alt]
            ELSE UNCHANGED <<pipes, chosen>>
         /\ apart' = CASE set /\ ans.accepted -> apart \ {n}
                       [] ~set /\ ~ans.accepted -> apart
                       [] OTHER -> apart \cup {n}
  /\ answers' = Tail(answers)
  /\ UNCHANGED <<device, saved, wire, eps, setting, session>>

\* The function driver uses a pipe; it does not while it selects a setting.
Transfer(n) ==
  /\ session /\ ~Selecting(n) /\ Len(wire) < MaxWire
  /\ \E e \in pipes[n] :
       wire' = Append(wire, [op |-> "transfer", iface |-> n, ep |-> e])
  /\ UNCHANGED <<device, saved, pipes, chosen, answers, eps, setting, session, apart>>

PipesInit ==
  /\ device \in Devices
  /\ saved = FALSE
  /\ pipes = [n \in Ifaces(desc) |-> {}]
  /\ chosen = [n \in Ifaces(desc) |-> -1]
  /\ wire = <<>> /\ answers = <<>>
  /\ eps = ParseConfig(device)
  /\ setting = [n \in Ifaces(desc) |-> 0]
  /\ session = FALSE
  /\ apart = {}

PipesNext ==
  \/ ServerSelects \/ ServerTransfers \/ ClientLeaves
  \/ Attach \/ SaveConfig \/ PostSelectInterface
  \/ \E m \in 0 .. desc[1].interfaces : SelectConfig(m)
  \/ \E n \in Ifaces(desc) : SelectInterface(n) \/ Transfer(n)

PipesSpec == PipesInit /\ [][PipesNext]_pipesVars

(***************************************************************************)
(* Properties.                                                             *)
(***************************************************************************)

\* Both sides read the descriptors as they are meant, in whatever order settings are
\* selected: the server's table (add_ep_info, usbip_refresh_eps) has the endpoints of the
\* settings that the device is in, and a function driver has the pipes of one setting.
TablesAreSettings ==
  /\ {t.ep : t \in eps} = UNION {Setting(device, n, setting[n]) : n \in Ifaces(desc)}
  /\ \A n \in Ifaces(desc) :
       pipes[n] = IF chosen[n] = -1 THEN {} ELSE Setting(device, n, chosen[n])

\* "not a valid endpoint, fix your client driver" (stub_server.c:1305): a function driver
\* that uses its pipes ends its session only on an interface whose last selection failed on
\* one side only, that was back in setting 0 with a configuration selected anew, or that
\* an earlier client left in a setting of its own.
EndsOnlyApart ==
  [][session /\ ~session' /\ wire # <<>> /\ Head(wire).op = "transfer"
       /\ ~Serves(eps, Head(wire).ep) => Head(wire).iface \in apart]_pipesVars

=============================================================================
