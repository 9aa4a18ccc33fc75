--------------------------- MODULE VhciToolProofs ---------------------------
(***************************************************************************)
(* Proofs about the Linux client's tool: what its processes, the kernel's  *)
(* ports, the records in the file system and the server hold of a device   *)
(* agree, for any number of processes that run side by side, of devices    *)
(* and of ports.                                                           *)
(*                                                                         *)
(* AttachedIsImported is not inductive: that a device goes to one port     *)
(* rests on its connection, which one process has, from the import to the  *)
(* attach.  Exclusive says that of every connection, and Brings that the   *)
(* process about to attach a device has it.  RecordTellsDevice says        *)
(* nothing of a record that is being written: RecordInv adds what the      *)
(* writer will write.  AloneOutcome speaks of processes that are done:     *)
(* AloneInv says at each place on the way what is done so far, that ports  *)
(* enough are free for what is left, and that the server has not imported  *)
(* what the process never read off the list.                               *)
(***************************************************************************)
EXTENDS VhciTool, SeqLemmas, FiniteSetTheorems, TLAPS

Fields == {"at", "op", "devs", "i", "arg", "fds", "idev", "port", "missed", "emptied"}

\* The variables are functions of the right shape; the processes' fields may hold anything.
Shapes ==
  /\ cmd = [c \in Cmds |-> cmd[c]]
  /\ \A c \in Cmds : cmd[c] = [f \in Fields |-> cmd[c][f]]
  /\ port = [p \in Ports |-> port[p]]
  /\ \A p \in Ports : port[p] = [dev |-> port[p].dev, phase |-> port[p].phase]

\* A device is imported while a port or a process has it, and one of them has it.
Exclusive ==
  /\ \A p \in Ports : port[p].dev # NULL =>
       /\ port[p].dev \in used
       /\ \A q \in Ports : port[q].dev = port[p].dev => q = p
       /\ \A c \in Cmds : port[p].dev \notin cmd[c].fds
  /\ \A c \in Cmds : \A d \in cmd[c].fds :
       /\ d \in used /\ d # NULL
       /\ \A b \in Cmds : d \in cmd[b].fds => b = c

\* A process that is on its way to attach a device has its connection.
Brings ==
  \A c \in Cmds :
    \/ cmd[c].at \in {"open", "refresh"} /\ cmd[c].op \notin {"detach", "port"}
    \/ cmd[c].at = "attach"
    => Dev(c) \in cmd[c].fds

VhciInv == Shapes /\ Exclusive /\ Brings

\* The steps assign a process a record that is its old one with some fields replaced.
LEMMA Replaces ==
  ASSUME Shapes, NEW c \in Cmds, NEW r, cmd' = [cmd EXCEPT ![c] = r],
         r = [f \in Fields |-> r[f]]
  PROVE  /\ cmd'[c] = r
         /\ \A b \in Cmds \ {c} : cmd'[b] = cmd[b]
         /\ cmd' = [b \in Cmds |-> cmd'[b]]
         /\ \A b \in Cmds : cmd'[b] = [f \in Fields |-> cmd'[b][f]]
<1>1. cmd'[c] = r /\ \A b \in Cmds \ {c} : cmd'[b] = cmd[b]
  BY DEF Shapes
<1>2. cmd' = [b \in Cmds |-> cmd'[b]]
  BY DEF Shapes
<1> QED
  BY <1>1, <1>2 DEF Shapes

\* What a process is on its way to attach, told of a record.
Bringing(r) == \/ r.at \in {"open", "refresh"} /\ r.op \notin {"detach", "port"}
               \/ r.at = "attach"

\* A step of a process that takes no connection and touches no port.
LEMMA GainsNothing ==
  ASSUME VhciInv, NEW c \in Cmds, NEW r, cmd' = [cmd EXCEPT ![c] = r],
         r = [f \in Fields |-> r[f]], r.fds \subseteq cmd[c].fds,
         Bringing(r) => r.devs[r.i] \in r.fds,
         port' = port, used' = used
  PROVE  VhciInv'
<1> USE DEF VhciInv
<1>1. Shapes'
  BY Replaces DEF Shapes
<1>2. Exclusive'
  <2>1. \A b \in Cmds : cmd'[b].fds \subseteq cmd[b].fds
    BY Replaces
  <2> QED
    BY <2>1 DEF Exclusive
<1>3. Brings'
  BY Replaces DEF Brings, Bringing, Dev
<1> QED
  BY <1>1, <1>2, <1>3

\* A process is told what to do; it has no connection yet.
LEMMA StartKeeps ==
  ASSUME VhciInv, NEW c \in Cmds, Start(c)
  PROVE  VhciInv'
<1>1. PICK w \in Wanted, at \in {"open", "next", "import"} :
        /\ cmd' = [cmd EXCEPT ![c] = [@ EXCEPT !.op = w.op, !.devs = w.devs, !.arg = w.arg,
                                              !.at = at]]
        /\ at = "open" => w.op \in {"detach", "port"}
  BY DEF Start
<1> DEFINE r == [cmd[c] EXCEPT !.op = w.op, !.devs = w.devs, !.arg = w.arg, !.at = at]
<1>2. /\ cmd' = [cmd EXCEPT ![c] = r]
      /\ r = [f \in Fields |-> r[f]]
      /\ r.fds = cmd[c].fds /\ r.at = at /\ r.op = w.op
  BY ZenonT(30), <1>1 DEF VhciInv, Shapes, Fields
<1> HIDE DEF r
<1> QED
  BY <1>1, <1>2, GainsNothing DEF Start, Bringing

\* It goes on to its next device, or ends and closes what it has.
LEMMA NextKeeps ==
  ASSUME VhciInv, NEW c \in Cmds, Next(c)
  PROVE  VhciInv'
<1> USE DEF VhciInv
<1>1. CASE cmd' = [cmd EXCEPT ![c] = [@ EXCEPT !.i = cmd[c].i + 1, !.at = "import"]]
  <2> DEFINE r == [cmd[c] EXCEPT !.i = cmd[c].i + 1, !.at = "import"]
  <2>1. cmd' = [cmd EXCEPT ![c] = r]
    BY <1>1, Zenon
  <2>2. /\ r = [f \in Fields |-> r[f]]
        /\ r.fds = cmd[c].fds /\ r.at = "import"
    BY DEF Shapes, Fields
  <2> HIDE DEF r
  <2> QED
    BY <2>1, <2>2, GainsNothing DEF Next, Bringing
<1>2. CASE cmd' = [cmd EXCEPT ![c] = [@ EXCEPT !.at = "done", !.fds = {}, !.port = NULL]]
  <2> DEFINE r == [cmd[c] EXCEPT !.at = "done", !.fds = {}, !.port = NULL]
  <2>1. /\ cmd' = [cmd EXCEPT ![c] = r] /\ r = [f \in Fields |-> r[f]]
        /\ r.fds = {} /\ r.at = "done"
    BY <1>2 DEF Shapes, Fields
  <2> HIDE DEF r
  <2> QED
    BY <2>1, GainsNothing DEF Next, Bringing
<1> QED
  BY <1>1, <1>2 DEF Next

\* A step of a process to another place, of those where it has nothing to bring.
LEMMA GotoKeeps ==
  ASSUME VhciInv, NEW c \in Cmds, NEW to \in {"next", "write"}, Goto(c, to),
         port' = port, used' = used
  PROVE  VhciInv'
<1> DEFINE r == [cmd[c] EXCEPT !.at = to]
<1>1. /\ cmd' = [cmd EXCEPT ![c] = r] /\ r = [f \in Fields |-> r[f]]
      /\ r.fds = cmd[c].fds /\ r.at = to
  BY DEF VhciInv, Shapes, Fields, Goto
<1> HIDE DEF r
<1> QED
  BY <1>1, GainsNothing DEF Bringing

\* The server gives a device that nobody holds to the process's new connection.
LEMMA QueryImportKeeps ==
  ASSUME VhciInv, NEW c \in Cmds, QueryImport(c)
  PROVE  VhciInv'
<1> USE DEF VhciInv
<1>1. CASE Dev(c) \notin Devs \/ Dev(c) \in used
  BY <1>1, GotoKeeps DEF QueryImport
<1>2. CASE ~(Dev(c) \notin Devs \/ Dev(c) \in used)
  <2> DEFINE r == [cmd[c] EXCEPT !.fds = cmd[c].fds \cup {Dev(c)}, !.at = "open"]
  <2>1. /\ cmd' = [cmd EXCEPT ![c] = r] /\ r = [f \in Fields |-> r[f]]
        /\ r.fds = cmd[c].fds \cup {Dev(c)} /\ r.devs = cmd[c].devs /\ r.i = cmd[c].i
    BY ZenonT(30), <1>2 DEF QueryImport, Shapes, Fields
  <2> HIDE DEF r
  <2>2. /\ used' = used \cup {Dev(c)} /\ port' = port
        /\ Dev(c) \notin used /\ Dev(c) # NULL /\ Dev(c) = r.devs[r.i]
    BY <1>2, <2>1, VhciAssumption DEF QueryImport, Dev
  <2>3. Shapes'
    BY <2>1, <2>2, Replaces DEF Shapes
  <2>4. \A b \in Cmds : cmd'[b].fds = IF b = c THEN cmd[b].fds \cup {Dev(c)} ELSE cmd[b].fds
    BY <2>1, Replaces
  <2>5. Exclusive'
    <3>1. ASSUME NEW p \in Ports, port[p].dev # NULL
          PROVE  port[p].dev \in used /\ port[p].dev # Dev(c)
      BY <2>2, <3>1 DEF Exclusive
    <3>2. ASSUME NEW b \in Cmds, NEW d \in cmd[b].fds
          PROVE  d \in used /\ d # Dev(c) /\ d # NULL
      BY <2>2, <3>2 DEF Exclusive
    <3>3. \A p \in Ports : port[p].dev # NULL => \A b \in Cmds : port[p].dev \notin cmd'[b].fds
      BY <2>4, <3>1 DEF Exclusive
    <3>4. ASSUME NEW b \in Cmds, NEW a \in Cmds, NEW d, d \in cmd'[a].fds, d \in cmd'[b].fds
          PROVE  a = b
      <4>1. CASE d = Dev(c)
        BY <2>4, <3>2, <3>4, <4>1
      <4>2. CASE d # Dev(c)
        BY ZenonT(30), <2>4, <3>4, <4>2 DEF Exclusive
      <4> QED
        BY <4>1, <4>2
    <3>5. \A b \in Cmds : \A d \in cmd'[b].fds : d \in used' /\ d # NULL
      BY <2>2, <2>4, <3>2
    <3> QED
      BY <2>2, <3>1, <3>3, <3>4, <3>5 DEF Exclusive
  <2>6. Brings'
    BY <2>1, <2>2, Replaces DEF Brings, Dev
  <2> QED
    BY <2>3, <2>5, <2>6
<1> QED
  BY <1>1, <1>2

\* The driver is opened: the process keeps its connection on the way to the attach.
LEMMA OpenKeeps ==
  ASSUME VhciInv, NEW c \in Cmds, ReadStatus(c) \/ Refresh(c)
  PROVE  VhciInv'
<1> USE DEF VhciInv
<1>1. CASE ReadStatus(c)
  <2> DEFINE r == [cmd[c] EXCEPT !.at = "refresh", !.idev = [p \in Ports |-> port[p].phase]]
  <2>1. cmd' = [cmd EXCEPT ![c] = r]
    BY <1>1 DEF ReadStatus, Shapes
  <2>2. /\ r = [f \in Fields |-> r[f]] /\ r.op = cmd[c].op
        /\ r.fds = cmd[c].fds /\ r.devs = cmd[c].devs /\ r.i = cmd[c].i /\ r.at = "refresh"
    BY ZenonT(30) DEF Shapes, Fields
  <2> HIDE DEF r
  <2> QED
    BY <1>1, <2>1, <2>2, GainsNothing DEF ReadStatus, Bringing, Brings, Dev
<1>2. ASSUME Refresh(c), RefreshFails(c) PROVE VhciInv'
  <2> DEFINE r == [cmd[c] EXCEPT !.at = "next", !.idev = NULL,
                                 !.missed = cmd[c].missed \cup {Object(c)}]
  <2>1. cmd' = [cmd EXCEPT ![c] = r]
    BY <1>2, Zenon DEF Refresh
  <2>2. r = [f \in Fields |-> r[f]] /\ r.fds = cmd[c].fds /\ r.at = "next"
    BY DEF Shapes, Fields
  <2> HIDE DEF r
  <2> QED
    BY <1>2, <2>1, <2>2, GainsNothing DEF Refresh, Bringing
<1>3. ASSUME Refresh(c), ~RefreshFails(c) PROVE VhciInv'
  <2> DEFINE at == CASE cmd[c].op = "detach" -> "detach"
                     [] cmd[c].op \notin {"detach", "port"} /\ FreePorts(c) # {} -> "attach"
                     [] OTHER -> "next"
             p == IF FreePorts(c) = {} THEN NULL
                  ELSE CHOOSE n \in FreePorts(c) : \A q \in FreePorts(c) : n <= q
             r == [cmd[c] EXCEPT !.idev = NULL, !.at = at, !.port = p]
  <2>1. at = "attach" => cmd[c].op \notin {"detach", "port"}
    OBVIOUS
  <2>4. at \in {"detach", "attach", "next"}
    <3>1. CASE cmd[c].op = "detach"
      BY <3>1
    <3>2. CASE cmd[c].op \notin {"detach", "port"} /\ FreePorts(c) # {}
      BY <3>2
    <3>3. CASE cmd[c].op # "detach" /\ ~(cmd[c].op \notin {"detach", "port"} /\ FreePorts(c) # {})
      BY <3>3
    <3> QED
      BY <3>1, <3>2, <3>3
  <2>2. cmd' = [cmd EXCEPT ![c] = r]
    BY <1>3, Zenon DEF Refresh
  <2> HIDE DEF at, p
  <2>3. /\ r = [f \in Fields |-> r[f]]
        /\ r.fds = cmd[c].fds /\ r.devs = cmd[c].devs /\ r.i = cmd[c].i /\ r.at = at
    BY ZenonT(30) DEF Shapes, Fields
  <2> HIDE DEF r
  <2> QED
    BY <1>3, <2>1, <2>2, <2>3, <2>4, GainsNothing DEF Refresh, Bringing, Brings, Dev
<1> QED
  BY <1>1, <1>2, <1>3

\* The kernel's port takes the device with the connection, which the process closes.
LEMMA AttachKeeps ==
  ASSUME VhciInv, NEW c \in Cmds, AttachDevice(c)
  PROVE  VhciInv'
<1> USE DEF VhciInv
<1> DEFINE p == cmd[c].port
<1>1. CASE port[p].dev # NULL
  BY <1>1, GotoKeeps DEF AttachDevice
<1>2. CASE port[p].dev = NULL
  <2> DEFINE r == [cmd[c] EXCEPT !.at = "truncate", !.fds = Closes(c)]
  <2>1. cmd' = [cmd EXCEPT ![c] = r]
    BY <1>2, Zenon DEF AttachDevice
  <2>2. /\ r = [f \in Fields |-> r[f]]
        /\ r.fds = cmd[c].fds \ {Dev(c)} /\ r.at = "truncate"
    BY DEF Shapes, Fields, Closes
  <2> HIDE DEF r
  <2>3. /\ used' = used /\ Dev(c) \in cmd[c].fds
        /\ port' = [port EXCEPT ![p] = [dev |-> Dev(c), phase |-> "notassigned"]]
    BY <1>2 DEF AttachDevice, AttachToPort, Brings
  <2>4. Shapes'
    BY <2>1, <2>2, <2>3, Replaces DEF Shapes
  <2>5. \A q \in Ports : port'[q].dev = IF q = p THEN Dev(c) ELSE port[q].dev
    BY <2>3 DEF Shapes
  <2>6. \A b \in Cmds : cmd'[b].fds = IF b = c THEN cmd[b].fds \ {Dev(c)} ELSE cmd[b].fds
    BY <2>1, <2>2, Replaces
  <2>7. Exclusive'
    <3>1. \A q \in Ports : port[q].dev # Dev(c)
      BY <2>3 DEF Exclusive
    <3>2. \A b \in Cmds : Dev(c) \notin cmd'[b].fds
      BY <2>3, <2>6 DEF Exclusive
    <3>3. ASSUME NEW q \in Ports, port'[q].dev # NULL
          PROVE  /\ port'[q].dev \in used
                 /\ \A s \in Ports : port'[s].dev = port'[q].dev => s = q
                 /\ \A b \in Cmds : port'[q].dev \notin cmd'[b].fds
      <4>1. CASE q = p
        <5>1. port'[q].dev = Dev(c)
          BY <2>5, <4>1
        <5>2. \A s \in Ports : port'[s].dev = Dev(c) => s = p
          BY <2>5, <3>1
        <5> QED
          BY <2>3, <3>2, <4>1, <5>1, <5>2 DEF Exclusive
      <4>2. CASE q # p
        <5>1. port'[q].dev = port[q].dev /\ port[q].dev # Dev(c)
          BY <2>5, <3>1, <4>2
        <5>2. \A s \in Ports : port'[s].dev = port[q].dev => s = q
          BY <2>5, <3>3, <5>1 DEF Exclusive
        <5> QED
          BY <2>6, <3>3, <5>1, <5>2 DEF Exclusive
      <4> QED
        BY <4>1, <4>2
    <3>4. \A b \in Cmds : \A d \in cmd'[b].fds :
            d \in used /\ d # NULL /\ \A a \in Cmds : d \in cmd'[a].fds => a = b
      BY <2>6 DEF Exclusive
    <3> QED
      BY <2>3, <3>3, <3>4 DEF Exclusive
  <2>8. Brings'
    BY <2>1, <2>2, Replaces DEF Brings, Dev
  <2> QED
    BY <2>4, <2>7, <2>8
<1> QED
  BY <1>1, <1>2

\* What the kernel does to a port, other than taking a device.
PortStep(p) == \/ port' = [port EXCEPT ![p] = Empty]
               \/ \E phase : port' = [port EXCEPT ![p].phase = phase]
               \/ port' = port

\* The kernel's own steps give no port a device.
LEMMA PortLoses ==
  ASSUME Shapes, NEW p, PortStep(p)
  PROVE  /\ \A q \in Ports : port'[q].dev \in {port[q].dev, NULL}
         /\ port' = [q \in Ports |-> port'[q]]
         /\ \A q \in Ports : port'[q] = [dev |-> port'[q].dev, phase |-> port'[q].phase]
<1>1. CASE port' = [port EXCEPT ![p] = Empty]
  <2>1. \A q \in Ports : port'[q] = IF q = p THEN Empty ELSE port[q]
    BY <1>1 DEF Shapes
  <2>2. Empty = [dev |-> Empty.dev, phase |-> Empty.phase] /\ Empty.dev = NULL
    BY DEF Empty
  <2>3. port' = [q \in Ports |-> port'[q]]
    BY <1>1 DEF Shapes
  <2> QED
    BY <2>1, <2>2, <2>3 DEF Shapes
<1>2. ASSUME NEW phase, port' = [port EXCEPT ![p].phase = phase]
      PROVE  /\ \A q \in Ports : port'[q].dev = port[q].dev
             /\ port' = [q \in Ports |-> port'[q]]
             /\ \A q \in Ports : port'[q] = [dev |-> port'[q].dev, phase |-> port'[q].phase]
  <2>1. port' = [q \in Ports |-> port'[q]]
    BY <1>2 DEF Shapes
  <2>2. ASSUME NEW q \in Ports, q # p PROVE port'[q] = port[q]
    BY <1>2, <2>2 DEF Shapes
  <2>3. ASSUME p \in Ports PROVE port'[p] = [dev |-> port[p].dev, phase |-> phase]
    <3>1. port'[p] = [port[p] EXCEPT !.phase = phase]
      BY <1>2, <2>3 DEF Shapes
    <3> QED
      BY <3>1, <2>3 DEF Shapes
  <2> QED
    BY <2>1, <2>2, <2>3 DEF Shapes
<1> QED
  BY <1>1, <1>2 DEF PortStep, Shapes

\* A port that becomes free because its connection broke, or whose device is enumerated.
LEMMA PortKeeps ==
  ASSUME VhciInv, NEW p, cmd' = cmd, used' = used, PortStep(p)
  PROVE  VhciInv'
<1> USE DEF VhciInv
<1>1. Shapes'
  BY PortLoses DEF Shapes
<1>2. Exclusive' /\ Brings'
  BY PortLoses DEF Exclusive, Brings, Dev
<1> QED
  BY <1>1, <1>2

\* detach_port: the process has nothing to bring.
LEMMA DetachKeeps ==
  ASSUME VhciInv, NEW c \in Cmds, DetachDevice(c)
  PROVE  VhciInv'
<1> USE DEF VhciInv
<1> DEFINE p == PortNum(cmd[c].arg)
<1>1. PICK r : /\ cmd' = [cmd EXCEPT ![c] = r] /\ r = [f \in Fields |-> r[f]]
               /\ r.fds = cmd[c].fds /\ r.at = "next"
  <2>1. CASE p \in Ports
    <3> DEFINE s == [cmd[c] EXCEPT !.at = "next", !.emptied = p]
    <3>1. cmd' = [cmd EXCEPT ![c] = s]
      BY <2>1, Zenon DEF DetachDevice
    <3> HIDE DEF p
    <3>2. s = [f \in Fields |-> s[f]] /\ s.fds = cmd[c].fds /\ s.at = "next"
      BY DEF Shapes, Fields
    <3> HIDE DEF s
    <3> QED
      BY <3>1, <3>2
  <2>2. CASE p \notin Ports
    <3> DEFINE s == [cmd[c] EXCEPT !.at = "next"]
    <3>1. cmd' = [cmd EXCEPT ![c] = s]
      BY <2>2, Zenon DEF DetachDevice, Goto
    <3> HIDE DEF p
    <3>2. s = [f \in Fields |-> s[f]] /\ s.fds = cmd[c].fds /\ s.at = "next"
      BY DEF Shapes, Fields
    <3> HIDE DEF s
    <3> QED
      BY <3>1, <3>2
  <2> QED
    BY <2>1, <2>2
<1>2. used' = used /\ PortStep(p)
  BY DEF DetachDevice, PortStep
<1> HIDE DEF p
<1>3. /\ \A q \in Ports : port'[q].dev \in {port[q].dev, NULL}
      /\ \A b \in Cmds : cmd'[b].fds = cmd[b].fds
  BY <1>1, <1>2, Replaces, PortLoses
<1>4. Shapes'
  BY <1>1, <1>2, Replaces, PortLoses DEF Shapes
<1>5. Exclusive'
  BY <1>2, <1>3 DEF Exclusive
<1>6. Brings'
  BY <1>1, Replaces DEF Brings, Dev
<1> QED
  BY <1>4, <1>5, <1>6

\* The server takes back a device that nobody holds.
LEMMA NoticeKeeps ==
  ASSUME VhciInv, NEW d \in Devs, ServerNotices(d)
  PROVE  VhciInv'
BY DEF VhciInv, ServerNotices, Shapes, Exclusive, Brings, Held, Attached, Dev

\* The inductive invariant of every run.
THEOREM VhciInvHolds == VhciSpec => []VhciInv
<1>1. VhciInit => VhciInv
  <2> SUFFICES ASSUME VhciInit PROVE VhciInv
    OBVIOUS
  <2>1. \A c \in Cmds : cmd[c] = NewCmd
    BY DEF VhciInit
  <2>2. NewCmd = [f \in Fields |-> NewCmd[f]] /\ NewCmd.fds = {} /\ NewCmd.at = "idle"
    BY DEF NewCmd, Fields
  <2>3. \A p \in Ports : port[p] = Empty
    BY DEF VhciInit
  <2>4. Shapes
    BY <2>1, <2>2, <2>3 DEF VhciInit, Shapes, Empty
  <2>5. Exclusive /\ Brings
    BY <2>1, <2>2, <2>3 DEF Exclusive, Brings, Empty
  <2> QED
    BY <2>4, <2>5 DEF VhciInv
<1>2. VhciInv /\ [VhciNext]_vhciVars => VhciInv'
  <2> SUFFICES ASSUME VhciInv, [VhciNext]_vhciVars PROVE VhciInv'
    OBVIOUS
  <2>1. ASSUME NEW c \in Cmds, Runs(c) PROVE VhciInv'
    <3>1. CASE OpenRecord(c) \/ WriteRecord(c)
      BY <3>1, GotoKeeps DEF OpenRecord, WriteRecord
    <3> QED
      BY <2>1, <3>1, StartKeeps, NextKeeps, QueryImportKeeps, OpenKeeps, AttachKeeps,
         DetachKeeps DEF Runs
  <2>2. ASSUME NEW p \in Ports, Enumerates(p) \/ Breaks(p) PROVE VhciInv'
    <3>1. cmd' = cmd /\ used' = used /\ PortStep(p)
      BY <2>2 DEF Enumerates, Breaks, PortStep
    <3> QED
      BY <3>1, PortKeeps
  <2>3. CASE \E d \in Devs : ServerNotices(d)
    BY <2>3, NoticeKeeps
  <2>4. CASE UNCHANGED vhciVars
    BY <2>4 DEF vhciVars, VhciInv, Shapes, Exclusive, Brings, Dev
  <2> QED
    BY <2>1, <2>2, <2>3, <2>4 DEF VhciNext
<1> QED
  BY <1>1, <1>2, PTL DEF VhciSpec

\* The device of a port is imported, and no other port and no process has it, whatever
\* commands run side by side and whenever connections break.
THEOREM AttachedAreImported == VhciSpec => []AttachedIsImported
<1>1. VhciInv => AttachedIsImported
  BY DEF VhciInv, Exclusive, AttachedIsImported
<1> QED
  BY <1>1, VhciInvHolds, PTL

(***************************************************************************)
(* What each step of a process does to its record, and to no other's.      *)
(***************************************************************************)

\* A command's step leaves the records of the others alone.
LEMMA OthersStay ==
  ASSUME Shapes, NEW c \in Cmds, NEW r, cmd' = [cmd EXCEPT ![c] = r]
  PROVE  cmd'[c] = r /\ \A b \in Cmds \ {c} : cmd'[b] = cmd[b]
BY DEF Shapes

OnlyAt(c) ==
  /\ cmd'[c].op = cmd[c].op /\ cmd'[c].devs = cmd[c].devs /\ cmd'[c].i = cmd[c].i
  /\ cmd'[c].arg = cmd[c].arg

\* No note is taken of what c missed or emptied.
Unnoted(c) == cmd'[c].missed = cmd[c].missed /\ cmd'[c].emptied = cmd[c].emptied

\* What goto does: the command is somewhere else, and nothing more.
LEMMA GotoDoes ==
  ASSUME Shapes, NEW c \in Cmds, NEW to, Goto(c, to)
  PROVE  /\ \A b \in Cmds \ {c} : cmd'[b] = cmd[b]
         /\ cmd'[c].at = to /\ OnlyAt(c)
         /\ Unnoted(c) /\ cmd'[c].port = cmd[c].port
<1> DEFINE r == [cmd[c] EXCEPT !.at = to]
<1>1. cmd' = [cmd EXCEPT ![c] = r]
  BY DEF Goto
<1>2. /\ r.at = to /\ r.op = cmd[c].op /\ r.devs = cmd[c].devs /\ r.i = cmd[c].i
      /\ r.arg = cmd[c].arg /\ r.missed = cmd[c].missed /\ r.port = cmd[c].port
      /\ r.emptied = cmd[c].emptied
  BY DEF Shapes, Fields
<1> HIDE DEF r
<1>3. cmd'[c] = r /\ \A b \in Cmds \ {c} : cmd'[b] = cmd[b]
  BY <1>1, OthersStay
<1> QED
  BY <1>2, <1>3 DEF OnlyAt, Unnoted

\* What starting a command does.
LEMMA StartDoes ==
  ASSUME Shapes, NEW c \in Cmds, Start(c)
  PROVE  \E w \in Wanted :
           /\ cmd'[c].op = w.op /\ cmd'[c].devs = w.devs /\ cmd'[c].arg = w.arg
           /\ cmd'[c].i = cmd[c].i /\ cmd[c].at = "idle" /\ Unnoted(c)
           /\ \/ w.op \in {"detach", "port"} /\ cmd'[c].at = "open"
              \/ w.op = "attachall" /\ w.devs = <<>> /\ cmd'[c].at = "next"
              \/ /\ ~(w.op \in {"detach", "port"}) /\ ~(w.op = "attachall" /\ w.devs = <<>>)
                 /\ cmd'[c].at = "import"
           /\ alone' = IF Possible(w) THEN alone \cup {c} ELSE alone
           /\ \A b \in Cmds \ {c} : cmd'[b] = cmd[b]
           /\ port' = port /\ record' = record /\ used' = used /\ recorder' = recorder
           /\ misrecorded' = misrecorded
<1>1. PICK w \in Wanted :
       /\ cmd' = [cmd EXCEPT
            ![c] = [@ EXCEPT !.op = w.op, !.devs = w.devs, !.arg = w.arg,
                             !.at = CASE w.op \in {"detach", "port"} -> "open"
                                      [] w.op = "attachall" /\ w.devs = <<>> -> "next"
                                      [] OTHER -> "import"]]
       /\ alone' = IF Possible(w) THEN alone \cup {c} ELSE alone
  BY DEF Start
<1> DEFINE at == CASE w.op \in {"detach", "port"} -> "open"
                   [] w.op = "attachall" /\ w.devs = <<>> -> "next"
                   [] OTHER -> "import"
<1>2. \/ w.op \in {"detach", "port"} /\ at = "open"
      \/ w.op = "attachall" /\ w.devs = <<>> /\ at = "next"
      \/ /\ ~(w.op \in {"detach", "port"}) /\ ~(w.op = "attachall" /\ w.devs = <<>>)
         /\ at = "import"
  <2>1. CASE w.op \in {"detach", "port"}
    BY <2>1
  <2>2. CASE w.op = "attachall" /\ w.devs = <<>>
    BY <2>2
  <2>3. CASE ~(w.op \in {"detach", "port"}) /\ ~(w.op = "attachall" /\ w.devs = <<>>)
    BY <2>3
  <2> QED
    BY <2>1, <2>2, <2>3
<1>3. cmd' = [cmd EXCEPT ![c] = [@ EXCEPT !.op = w.op, !.devs = w.devs, !.arg = w.arg, !.at = at]]
  BY <1>1
<1> HIDE DEF at
<1> DEFINE r == [cmd[c] EXCEPT !.op = w.op, !.devs = w.devs, !.arg = w.arg, !.at = at]
<1>4. cmd' = [cmd EXCEPT ![c] = r]
  BY <1>3, Zenon
<1>5. /\ r.op = w.op /\ r.devs = w.devs /\ r.arg = w.arg /\ r.at = at /\ r.i = cmd[c].i
      /\ r.missed = cmd[c].missed /\ r.emptied = cmd[c].emptied
  BY DEF Shapes, Fields
<1> HIDE DEF r
<1>6. cmd'[c] = r /\ \A b \in Cmds \ {c} : cmd'[b] = cmd[b]
  BY <1>4, OthersStay
<1>7. /\ cmd[c].at = "idle" /\ port' = port /\ record' = record /\ used' = used
      /\ recorder' = recorder /\ misrecorded' = misrecorded
  BY DEF Start
<1> QED
  BY <1>1, <1>2, <1>5, <1>6, <1>7, Zenon DEF Unnoted

\* What going on to the next device does.
LEMMA NextDoes ==
  ASSUME Shapes, NEW c \in Cmds, Next(c)
  PROVE  /\ cmd[c].at = "next"
         /\ cmd'[c].op = cmd[c].op /\ cmd'[c].devs = cmd[c].devs /\ cmd'[c].arg = cmd[c].arg
         /\ Unnoted(c)
         /\ \/ /\ cmd[c].i < Len(cmd[c].devs) /\ cmd'[c].i = cmd[c].i + 1
               /\ cmd'[c].at = "import"
            \/ /\ ~(cmd[c].i < Len(cmd[c].devs)) /\ cmd'[c].i = cmd[c].i
               /\ cmd'[c].at = "done"
         /\ \A b \in Cmds \ {c} : cmd'[b] = cmd[b]
         /\ port' = port /\ record' = record /\ used' = used /\ recorder' = recorder
         /\ misrecorded' = misrecorded /\ alone' = alone
<1>1. CASE cmd[c].i < Len(cmd[c].devs)
  <2> DEFINE r == [cmd[c] EXCEPT !.i = cmd[c].i + 1, !.at = "import"]
  <2>1. cmd' = [cmd EXCEPT ![c] = r]
    BY <1>1, Zenon DEF Next
  <2>2. /\ r.op = cmd[c].op /\ r.devs = cmd[c].devs /\ r.arg = cmd[c].arg
        /\ r.missed = cmd[c].missed /\ r.emptied = cmd[c].emptied
        /\ r.i = cmd[c].i + 1 /\ r.at = "import"
    BY DEF Shapes, Fields
  <2> HIDE DEF r
  <2>3. cmd'[c] = r /\ \A b \in Cmds \ {c} : cmd'[b] = cmd[b]
    BY <2>1, OthersStay
  <2> QED
    BY <1>1, <2>2, <2>3, Zenon DEF Next, Undisturbed, Unnoted
<1>2. CASE ~(cmd[c].i < Len(cmd[c].devs))
  <2> DEFINE r == [cmd[c] EXCEPT !.at = "done", !.fds = {}, !.port = NULL]
  <2>1. cmd' = [cmd EXCEPT ![c] = r]
    BY <1>2, Zenon DEF Next
  <2>2. /\ r.op = cmd[c].op /\ r.devs = cmd[c].devs /\ r.arg = cmd[c].arg
        /\ r.missed = cmd[c].missed /\ r.emptied = cmd[c].emptied
        /\ r.i = cmd[c].i /\ r.at = "done"
    BY DEF Shapes, Fields
  <2> HIDE DEF r
  <2>3. cmd'[c] = r /\ \A b \in Cmds \ {c} : cmd'[b] = cmd[b]
    BY <2>1, OthersStay
  <2> QED
    BY <1>2, <2>2, <2>3, Zenon DEF Next, Undisturbed, Unnoted
<1> QED
  BY <1>1, <1>2

\* What importing a device from the server does.
LEMMA ImportDoes ==
  ASSUME Shapes, NEW c \in Cmds, QueryImport(c)
  PROVE  /\ cmd[c].at = "import" /\ OnlyAt(c) /\ Unnoted(c)
         /\ \/ /\ Dev(c) \notin Devs \/ Dev(c) \in used
               /\ cmd'[c].at = "next" /\ used' = used /\ alone' = alone
            \/ /\ ~(Dev(c) \notin Devs \/ Dev(c) \in used)
               /\ cmd'[c].at = "open" /\ used' = used \cup {Dev(c)} /\ Disturbs(c)
         /\ \A b \in Cmds \ {c} : cmd'[b] = cmd[b]
         /\ port' = port /\ record' = record /\ recorder' = recorder
         /\ misrecorded' = misrecorded
<1>1. CASE Dev(c) \notin Devs \/ Dev(c) \in used
  BY <1>1, GotoDoes DEF QueryImport
<1>2. CASE ~(Dev(c) \notin Devs \/ Dev(c) \in used)
  <2> DEFINE r == [cmd[c] EXCEPT !.fds = cmd[c].fds \cup {Dev(c)}, !.at = "open"]
  <2>1. cmd' = [cmd EXCEPT ![c] = r]
    BY <1>2, Zenon DEF QueryImport
  <2>2. /\ r.op = cmd[c].op /\ r.devs = cmd[c].devs /\ r.arg = cmd[c].arg
        /\ r.missed = cmd[c].missed /\ r.emptied = cmd[c].emptied
        /\ r.i = cmd[c].i /\ r.at = "open"
    BY DEF Shapes, Fields
  <2> HIDE DEF r
  <2>3. cmd'[c] = r /\ \A b \in Cmds \ {c} : cmd'[b] = cmd[b]
    BY <2>1, OthersStay
  <2> QED
    BY <1>2, <2>2, <2>3, Zenon DEF QueryImport, OnlyAt, Unnoted
<1> QED
  BY <1>1, <1>2

\* What reading the ports' status does.
LEMMA StatusDoes ==
  ASSUME Shapes, NEW c \in Cmds, ReadStatus(c)
  PROVE  /\ cmd[c].at = "open" /\ OnlyAt(c) /\ Unnoted(c)
         /\ cmd'[c].at = "refresh" /\ cmd'[c].idev = [p \in Ports |-> port[p].phase]
         /\ \A b \in Cmds \ {c} : cmd'[b] = cmd[b]
         /\ port' = port /\ record' = record /\ used' = used /\ recorder' = recorder
         /\ misrecorded' = misrecorded /\ alone' = alone
<1> DEFINE idev == [p \in Ports |-> port[p].phase]
<1>1. cmd' = [cmd EXCEPT ![c] = [@ EXCEPT !.at = "refresh", !.idev = idev]]
  BY DEF ReadStatus
<1> HIDE DEF idev
<1> DEFINE r == [cmd[c] EXCEPT !.at = "refresh", !.idev = idev]
<1>2. cmd' = [cmd EXCEPT ![c] = r]
  BY <1>1, Zenon
<1>3. /\ r.op = cmd[c].op /\ r.devs = cmd[c].devs /\ r.arg = cmd[c].arg
      /\ r.missed = cmd[c].missed /\ r.emptied = cmd[c].emptied
      /\ r.i = cmd[c].i /\ r.at = "refresh" /\ r.idev = idev
  BY DEF Shapes, Fields
<1> HIDE DEF r
<1>4. cmd'[c] = r /\ \A b \in Cmds \ {c} : cmd'[b] = cmd[b]
  BY <1>2, OthersStay
<1> QED
  BY <1>3, <1>4, Zenon DEF ReadStatus, OnlyAt, Unnoted, Undisturbed, idev

\* What reading the records does: the command detaches, attaches, or gives up.
LEMMA RefreshDoes ==
  ASSUME Shapes, NEW c \in Cmds, Refresh(c)
  PROVE  /\ cmd[c].at = "refresh" /\ OnlyAt(c)
         /\ \/ /\ cmd'[c].at = "next" /\ cmd'[c].emptied = cmd[c].emptied
               /\ cmd'[c].missed = cmd[c].missed \cup {Object(c)}
            \/ /\ Unnoted(c)
               /\ \/ cmd[c].op = "detach" /\ cmd'[c].at = "detach"
                  \/ /\ cmd[c].op \notin {"detach", "port"} /\ FreePorts(c) # {}
                     /\ cmd'[c].at = "attach"
                     /\ cmd'[c].port = CHOOSE p \in FreePorts(c) : \A q \in FreePorts(c) : p <= q
                  \/ /\ cmd[c].op = "port" \/ FreePorts(c) = {}
                     /\ cmd[c].op # "detach" /\ cmd'[c].at = "next"
         /\ \A b \in Cmds \ {c} : cmd'[b] = cmd[b]
         /\ port' = port /\ record' = record /\ used' = used /\ recorder' = recorder
         /\ misrecorded' = misrecorded /\ alone' = alone
<1>1. ASSUME RefreshFails(c)
      PROVE  /\ OnlyAt(c) /\ cmd'[c].at = "next" /\ cmd'[c].emptied = cmd[c].emptied
             /\ cmd'[c].missed = cmd[c].missed \cup {Object(c)}
             /\ \A b \in Cmds \ {c} : cmd'[b] = cmd[b]
  <2> DEFINE r == [cmd[c] EXCEPT !.at = "next", !.idev = NULL,
                                 !.missed = cmd[c].missed \cup {Object(c)}]
  <2>1. cmd' = [cmd EXCEPT ![c] = r]
    BY <1>1, Zenon DEF Refresh
  <2>2. /\ r.op = cmd[c].op /\ r.devs = cmd[c].devs /\ r.arg = cmd[c].arg
        /\ r.missed = cmd[c].missed \cup {Object(c)} /\ r.emptied = cmd[c].emptied
        /\ r.i = cmd[c].i /\ r.at = "next"
    BY DEF Shapes, Fields
  <2> HIDE DEF r
  <2>3. cmd'[c] = r /\ \A b \in Cmds \ {c} : cmd'[b] = cmd[b]
    BY <2>1, OthersStay
  <2> QED
    BY <2>2, <2>3, Zenon DEF OnlyAt
<1>2. ASSUME ~RefreshFails(c)
      PROVE  /\ OnlyAt(c) /\ Unnoted(c)
             /\ \/ cmd[c].op = "detach" /\ cmd'[c].at = "detach"
                \/ /\ cmd[c].op \notin {"detach", "port"} /\ FreePorts(c) # {}
                   /\ cmd'[c].at = "attach"
                   /\ cmd'[c].port = CHOOSE p \in FreePorts(c) : \A q \in FreePorts(c) : p <= q
                \/ /\ cmd[c].op = "port" \/ FreePorts(c) = {}
                   /\ cmd[c].op # "detach" /\ cmd'[c].at = "next"
             /\ \A b \in Cmds \ {c} : cmd'[b] = cmd[b]
  <2> DEFINE free == FreePorts(c)
             at == CASE cmd[c].op = "detach" -> "detach"
                     [] cmd[c].op \notin {"detach", "port"} /\ free # {} -> "attach"
                     [] OTHER -> "next"
             first == CHOOSE n \in free : \A q \in free : n <= q
             p == IF free = {} THEN NULL ELSE first
             r == [cmd[c] EXCEPT !.idev = NULL, !.at = at, !.port = p]
  <2>1. cmd' = [cmd EXCEPT ![c] = r]
    BY <1>2, Zenon DEF Refresh
  <2> HIDE DEF free, first
  <2>2. \/ cmd[c].op = "detach" /\ at = "detach"
        \/ cmd[c].op \notin {"detach", "port"} /\ free # {} /\ at = "attach"
        \/ (cmd[c].op = "port" \/ free = {}) /\ cmd[c].op # "detach" /\ at = "next"
    <3>1. CASE cmd[c].op = "detach"
      BY <3>1
    <3>2. CASE cmd[c].op \notin {"detach", "port"} /\ free # {}
      BY <3>2
    <3>3. CASE cmd[c].op # "detach" /\ ~(cmd[c].op \notin {"detach", "port"} /\ free # {})
      BY <3>3
    <3> QED
      BY <3>1, <3>2, <3>3
  <2>3. free # {} => p = first
    OBVIOUS
  <2> HIDE DEF at, p
  <2>4. /\ r.op = cmd[c].op /\ r.devs = cmd[c].devs /\ r.arg = cmd[c].arg
        /\ r.missed = cmd[c].missed /\ r.emptied = cmd[c].emptied
        /\ r.i = cmd[c].i /\ r.at = at /\ r.port = p
    BY DEF Shapes, Fields
  <2> HIDE DEF r
  <2>5. cmd'[c] = r /\ \A b \in Cmds \ {c} : cmd'[b] = cmd[b]
    BY <2>1, OthersStay
  <2> QED
    BY <2>2, <2>3, <2>4, <2>5, Zenon DEF OnlyAt, Unnoted, free, first
<1>3. /\ cmd[c].at = "refresh" /\ port' = port /\ record' = record /\ used' = used
      /\ recorder' = recorder /\ misrecorded' = misrecorded /\ alone' = alone
  BY Zenon DEF Refresh, Undisturbed
<1> QED
  BY <1>1, <1>2, <1>3, Zenon

\* What attaching to the port it has chosen does.
LEMMA AttachDoes ==
  ASSUME Shapes, NEW c \in Cmds, AttachDevice(c)
  PROVE  /\ cmd[c].at = "attach" /\ OnlyAt(c) /\ Unnoted(c)
         /\ cmd'[c].port = cmd[c].port
         /\ \/ /\ port[cmd[c].port].dev # NULL /\ cmd'[c].at = "next"
               /\ port' = port /\ recorder' = recorder /\ misrecorded' = misrecorded
               /\ alone' = alone
            \/ /\ port[cmd[c].port].dev = NULL /\ cmd'[c].at = "truncate"
               /\ AttachToPort(cmd[c].port, Dev(c))
               /\ recorder' = [recorder EXCEPT ![cmd[c].port] = c]
               /\ misrecorded' = misrecorded \ {cmd[c].port} /\ Disturbs(c)
         /\ \A b \in Cmds \ {c} : cmd'[b] = cmd[b]
         /\ record' = record /\ used' = used
<1>1. CASE port[cmd[c].port].dev # NULL
  BY <1>1, GotoDoes DEF AttachDevice
<1>2. CASE port[cmd[c].port].dev = NULL
  <2> DEFINE r == [cmd[c] EXCEPT !.at = "truncate", !.fds = Closes(c)]
  <2>1. cmd' = [cmd EXCEPT ![c] = r]
    BY <1>2, Zenon DEF AttachDevice
  <2>2. /\ r.op = cmd[c].op /\ r.devs = cmd[c].devs /\ r.arg = cmd[c].arg
        /\ r.missed = cmd[c].missed /\ r.emptied = cmd[c].emptied
        /\ r.i = cmd[c].i /\ r.at = "truncate"
        /\ r.port = cmd[c].port
    BY DEF Shapes, Fields
  <2> HIDE DEF r
  <2>3. cmd'[c] = r /\ \A b \in Cmds \ {c} : cmd'[b] = cmd[b]
    BY <2>1, OthersStay
  <2> QED
    BY <1>2, <2>2, <2>3, Zenon DEF AttachDevice, OnlyAt, Unnoted
<1> QED
  BY <1>1, <1>2

\* What detaching a port does.
LEMMA DetachDoes ==
  ASSUME Shapes, NEW c \in Cmds, DetachDevice(c)
  PROVE  /\ cmd[c].at = "detach" /\ cmd'[c].at = "next" /\ OnlyAt(c)
         /\ cmd'[c].missed = cmd[c].missed
         /\ \/ /\ PortNum(cmd[c].arg) \in Ports
               /\ port' = [port EXCEPT ![PortNum(cmd[c].arg)] = Empty]
               /\ cmd'[c].emptied = PortNum(cmd[c].arg)
            \/ /\ PortNum(cmd[c].arg) \notin Ports
               /\ port' = port /\ cmd'[c].emptied = cmd[c].emptied
         /\ \A b \in Cmds \ {c} : cmd'[b] = cmd[b]
<1> DEFINE p == PortNum(cmd[c].arg)
<1>1. CASE p \in Ports
  <2> DEFINE r == [cmd[c] EXCEPT !.at = "next", !.emptied = p]
  <2>1. cmd' = [cmd EXCEPT ![c] = r]
    BY <1>1, Zenon DEF DetachDevice
  <2>2. cmd[c].at = "detach" /\ port' = [port EXCEPT ![p] = Empty]
    BY <1>1, Zenon DEF DetachDevice
  <2> HIDE DEF p
  <2>3. /\ r.op = cmd[c].op /\ r.devs = cmd[c].devs /\ r.arg = cmd[c].arg
        /\ r.missed = cmd[c].missed /\ r.emptied = p /\ r.i = cmd[c].i /\ r.at = "next"
    BY DEF Shapes, Fields
  <2> HIDE DEF r
  <2>4. cmd'[c] = r /\ \A b \in Cmds \ {c} : cmd'[b] = cmd[b]
    BY <2>1, OthersStay
  <2> QED
    BY <1>1, <2>2, <2>3, <2>4, Zenon DEF OnlyAt, p
<1>2. CASE p \notin Ports
  <2>1. cmd[c].at = "detach" /\ Goto(c, "next") /\ port' = port
    BY <1>2, Zenon DEF DetachDevice
  <2> QED
    BY <1>2, <2>1, GotoDoes DEF Unnoted
<1> QED
  BY <1>1, <1>2

(***************************************************************************)
(* The record of a port.                                                   *)
(*                                                                         *)
(* RecordTellsDevice is not inductive: while the process that attached a   *)
(* port's device is about to write the record, what it will write is to be *)
(* that device.                                                            *)
(***************************************************************************)

Writing(c, p) == cmd[c].at \in {"truncate", "write"} /\ cmd[c].port = p

Recorded ==
  \A p \in Ports :
    port[p].dev # NULL /\ p \notin misrecorded =>
      /\ recorder[p] \in Cmds
      /\ IF Writing(recorder[p], p) THEN Dev(recorder[p]) = port[p].dev
                                    ELSE record[p] = port[p].dev

RecordShapes ==
  /\ record = [p \in Ports |-> record[p]]
  /\ recorder = [p \in Ports |-> recorder[p]]

RecordInv == RecordShapes /\ Recorded

\* A step of a process that is not writing, and does not begin to, takes devices off ports at most.
LEMMA RecordStays ==
  ASSUME RecordInv, NEW c \in Cmds, \A b \in Cmds \ {c} : cmd'[b] = cmd[b],
         cmd[c].at \notin {"truncate", "write"}, cmd'[c].at \notin {"truncate", "write"},
         record' = record, recorder' = recorder, misrecorded' = misrecorded,
         \A p \in Ports : port'[p].dev \in {port[p].dev, NULL}
  PROVE  RecordInv'
<1>1. ASSUME NEW p \in Ports, port'[p].dev # NULL, p \notin misrecorded
      PROVE  /\ recorder[p] \in Cmds
             /\ Writing(recorder[p], p)' => Dev(recorder[p])' = port'[p].dev
             /\ ~Writing(recorder[p], p)' => record[p] = port'[p].dev
  <2>1. port'[p].dev = port[p].dev
    BY <1>1
  <2>2. /\ recorder[p] \in Cmds
        /\ Writing(recorder[p], p) => Dev(recorder[p]) = port[p].dev
        /\ ~Writing(recorder[p], p) => record[p] = port[p].dev
    BY <1>1, <2>1, Zenon DEF RecordInv, Recorded
  <2>3. CASE recorder[p] = c
    <3>1. ~Writing(c, p) /\ ~Writing(c, p)'
      BY DEF Writing
    <3> QED
      BY <2>1, <2>2, <2>3, <3>1
  <2>4. CASE recorder[p] # c
    <3>1. cmd'[recorder[p]] = cmd[recorder[p]]
      BY <2>2, <2>4
    <3> QED
      BY <2>1, <2>2, <3>1 DEF Writing, Dev
  <2> QED
    BY <2>3, <2>4
<1>2. Recorded'
  BY <1>1, Zenon DEF Recorded
<1> QED
  BY <1>2, Zenon DEF RecordInv, RecordShapes

\* RecordInv does not depend on what ports lose.
LEMMA RecordStaysToo ==
  ASSUME RecordInv, cmd' = cmd, record' = record, recorder' = recorder,
         misrecorded' = misrecorded, \A p \in Ports : port'[p].dev \in {port[p].dev, NULL}
  PROVE  RecordInv'
<1>1. ASSUME NEW p \in Ports, port'[p].dev # NULL PROVE port'[p].dev = port[p].dev
  BY <1>1
<1>2. Recorded'
  BY <1>1, Zenon DEF RecordInv, Recorded, Writing, Dev
<1> QED
  BY <1>2, Zenon DEF RecordInv, RecordShapes

\* Who attaches a device becomes the one that writes its record.
LEMMA AttachRecorded ==
  ASSUME VhciInv, RecordInv, NEW c \in Cmds, AttachDevice(c)
  PROVE  RecordInv'
<1> USE DEF VhciInv
<1> DEFINE p == cmd[c].port
<1>1. CASE port[p].dev # NULL
  <2>1. /\ \A b \in Cmds \ {c} : cmd'[b] = cmd[b]
        /\ cmd[c].at = "attach" /\ cmd'[c].at = "next" /\ port' = port
        /\ record' = record /\ recorder' = recorder /\ misrecorded' = misrecorded
    BY <1>1, AttachDoes
  <2> QED
    BY <2>1, RecordStays
<1>2. CASE port[p].dev = NULL
  <2>1. /\ cmd[c].at = "attach" /\ cmd'[c].at = "truncate" /\ cmd'[c].port = p
        /\ OnlyAt(c) /\ AttachToPort(p, Dev(c))
        /\ recorder' = [recorder EXCEPT ![p] = c] /\ misrecorded' = misrecorded \ {p}
        /\ record' = record /\ \A b \in Cmds \ {c} : cmd'[b] = cmd[b]
    BY <1>2, AttachDoes
  <2> HIDE DEF p
  <2>2. /\ \A q \in Ports : q # p => port'[q] = port[q] /\ recorder'[q] = recorder[q]
        /\ p \in Ports => port'[p].dev = Dev(c) /\ recorder'[p] = c
        /\ recorder' = [q \in Ports |-> recorder'[q]]
    BY <2>1 DEF AttachToPort, Shapes, RecordInv, RecordShapes
  <2>3. ASSUME NEW q \in Ports, port'[q].dev # NULL, q \notin misrecorded'
        PROVE  /\ recorder'[q] \in Cmds
               /\ Writing(recorder[q], q)' => Dev(recorder[q])' = port'[q].dev
               /\ ~Writing(recorder[q], q)' => record'[q] = port'[q].dev
    <3>1. CASE q = p
      <4>1. recorder'[q] = c /\ port'[q].dev = Dev(c) /\ Dev(c)' = Dev(c)
        BY <2>1, <2>2, <3>1 DEF Dev, OnlyAt
      <4>2. Writing(c, q)'
        BY <2>1, <3>1 DEF Writing
      <4> QED
        BY <4>1, <4>2
    <3>2. CASE q # p
      <4>1. /\ recorder'[q] = recorder[q] /\ port'[q] = port[q] /\ q \notin misrecorded
        BY <2>1, <2>2, <2>3, <3>2
      <4>2. /\ recorder[q] \in Cmds
            /\ Writing(recorder[q], q) => Dev(recorder[q]) = port[q].dev
            /\ ~Writing(recorder[q], q) => record[q] = port[q].dev
        BY <2>3, <4>1, Zenon DEF RecordInv, Recorded
      <4>3. CASE recorder[q] = c
        <5>1. ~Writing(c, q) /\ ~Writing(c, q)'
          BY <2>1, <3>2 DEF Writing
        <5> QED
          BY <2>1, <4>1, <4>2, <4>3, <5>1
      <4>4. CASE recorder[q] # c
        <5>1. cmd'[recorder[q]] = cmd[recorder[q]]
          BY <2>1, <4>2, <4>4
        <5> QED
          BY <2>1, <4>1, <4>2, <5>1 DEF Writing, Dev
      <4> QED
        BY <4>3, <4>4
    <3> QED
      BY <3>1, <3>2
  <2>4. Recorded'
    BY <2>3, Zenon DEF Recorded
  <2> QED
    BY <2>1, <2>2, <2>4, Zenon DEF RecordInv, RecordShapes
<1> QED
  BY <1>1, <1>2

\* A process that writes a record writes its own, or the port is set apart.
LEMMA WriteRecorded ==
  ASSUME VhciInv, RecordInv, NEW c \in Cmds, OpenRecord(c) \/ WriteRecord(c)
  PROVE  RecordInv'
<1> USE DEF VhciInv
<1> DEFINE p == cmd[c].port
<1>1. PICK to \in {"write", "next"} : Goto(c, to)
  BY DEF OpenRecord, WriteRecord
<1>2. /\ \A b \in Cmds \ {c} : cmd'[b] = cmd[b]
      /\ cmd'[c].at = to /\ cmd'[c].port = p /\ Dev(c)' = Dev(c)
  BY <1>1, GotoDoes DEF OnlyAt, Dev
<1>3. /\ port' = port /\ recorder' = recorder
      /\ \E d : record' = [record EXCEPT ![p] = d] \/ record' = record
      /\ misrecorded' \in {misrecorded, misrecorded \cup {p}}
      /\ recorder[p] # c => misrecorded' = misrecorded \cup {p}
  BY DEF OpenRecord, WriteRecord
<1>4. /\ record' = [q \in Ports |-> record'[q]]
      /\ \A q \in Ports : q # p => record'[q] = record[q]
  BY <1>3 DEF RecordInv, RecordShapes
<1>5. cmd[c].at \in {"truncate", "write"}
  BY DEF OpenRecord, WriteRecord
<1>6. \/ to = "write"
      \/ misrecorded' = misrecorded \cup {p}
      \/ to = "next" /\ record'[p] = Dev(c)
  <2>1. CASE OpenRecord(c)
    BY <1>1, <1>2, <2>1 DEF OpenRecord
  <2>2. CASE WriteRecord(c)
    <3>1. misrecorded' = IF record'[p] # Dev(c) \/ recorder[p] # c
                         THEN misrecorded \cup {p} ELSE misrecorded
      BY <2>2 DEF WriteRecord
    <3> QED
      BY <1>1, <3>1
  <2> QED
    BY <2>1, <2>2
<1> HIDE DEF p
<1>7. ASSUME NEW q \in Ports, port[q].dev # NULL, q \notin misrecorded'
      PROVE  /\ recorder[q] \in Cmds
             /\ Writing(recorder[q], q)' => Dev(recorder[q])' = port[q].dev
             /\ ~Writing(recorder[q], q)' => record'[q] = port[q].dev
  <2>1. /\ recorder[q] \in Cmds
        /\ Writing(recorder[q], q) => Dev(recorder[q]) = port[q].dev
        /\ ~Writing(recorder[q], q) => record[q] = port[q].dev
    BY <1>3, <1>7, Zenon DEF RecordInv, Recorded
  <2>2. CASE q = p
    <3>1. recorder[q] = c /\ Writing(c, q)
      BY <1>3, <1>5, <1>7, <2>2 DEF Writing, p
    <3>2. Dev(c)' = port[q].dev
      BY <1>2, <2>1, <3>1
    <3>3. CASE to = "write"
      <4>1. Writing(c, q)'
        BY <1>2, <2>2, <3>3 DEF Writing
      <4> QED
        BY <2>1, <3>1, <3>2, <4>1, <1>3
    <3>4. CASE to = "next" /\ record'[p] = Dev(c)
      <4>1. ~Writing(c, q)'
        BY <1>2, <3>4 DEF Writing
      <4> QED
        BY <1>2, <2>1, <2>2, <3>1, <3>2, <3>4, <4>1, <1>3
    <3> QED
      BY <1>6, <1>7, <2>2, <3>3, <3>4
  <2>3. CASE q # p
    <3>1. record'[q] = record[q]
      BY <1>4, <2>3
    <3>2. CASE recorder[q] = c
      <4>1. ~Writing(c, q) /\ ~Writing(c, q)'
        BY <1>2, <2>3 DEF Writing, p
      <4> QED
        BY <1>3, <2>1, <3>1, <3>2, <4>1
    <3>3. CASE recorder[q] # c
      <4>1. cmd'[recorder[q]] = cmd[recorder[q]]
        BY <1>2, <2>1, <3>3
      <4> QED
        BY <1>3, <2>1, <3>1, <4>1 DEF Writing, Dev
    <3> QED
      BY <3>2, <3>3
  <2> QED
    BY <2>2, <2>3
<1>8. Recorded'
  BY <1>3, <1>7, Zenon DEF Recorded
<1> QED
  BY <1>3, <1>4, <1>8, Zenon DEF RecordInv, RecordShapes

\* Every step keeps RecordInv.
LEMMA RecordStep ==
  ASSUME VhciInv, RecordInv, [VhciNext]_vhciVars
  PROVE  RecordInv'
<1> USE DEF VhciInv
<1>1. ASSUME NEW c \in Cmds, Start(c) \/ Next(c) \/ QueryImport(c) \/ ReadStatus(c) \/ Refresh(c)
      PROVE  RecordInv'
  <2>1. /\ \A b \in Cmds \ {c} : cmd'[b] = cmd[b]
        /\ cmd[c].at \notin {"truncate", "write"} /\ cmd'[c].at \notin {"truncate", "write"}
        /\ port' = port /\ record' = record /\ recorder' = recorder
        /\ misrecorded' = misrecorded
    <3>1. CASE Start(c)
      BY <3>1, StartDoes
    <3>2. CASE Next(c)
      BY <3>2, NextDoes
    <3>3. CASE QueryImport(c)
      BY <3>3, ImportDoes
    <3>4. CASE ReadStatus(c)
      BY <3>4, StatusDoes
    <3>5. CASE Refresh(c)
      BY <3>5, RefreshDoes
    <3> QED
      BY <1>1, <3>1, <3>2, <3>3, <3>4, <3>5
  <2> QED
    BY <2>1, RecordStays
<1>2. ASSUME NEW c \in Cmds, DetachDevice(c) PROVE RecordInv'
  <2>1. /\ \A b \in Cmds \ {c} : cmd'[b] = cmd[b]
        /\ cmd[c].at \notin {"truncate", "write"} /\ cmd'[c].at \notin {"truncate", "write"}
        /\ record' = record /\ recorder' = recorder /\ misrecorded' = misrecorded
    BY <1>2, DetachDoes DEF DetachDevice
  <2>2. PortStep(PortNum(cmd[c].arg))
    BY <1>2 DEF DetachDevice, PortStep
  <2>3. \A p \in Ports : port'[p].dev \in {port[p].dev, NULL}
    BY <2>2, PortLoses
  <2> QED
    BY <2>1, <2>3, RecordStays
<1>3. ASSUME NEW p \in Ports, Enumerates(p) \/ Breaks(p) PROVE RecordInv'
  <2>1. /\ cmd' = cmd /\ record' = record /\ recorder' = recorder
        /\ misrecorded' = misrecorded /\ PortStep(p)
    BY <1>3 DEF Enumerates, Breaks, Undisturbed, PortStep
  <2> QED
    BY <2>1, PortLoses, RecordStaysToo
<1>4. CASE \/ \E d \in Devs : ServerNotices(d)
           \/ UNCHANGED vhciVars
  <2>1. /\ cmd' = cmd /\ record' = record /\ recorder' = recorder
        /\ misrecorded' = misrecorded /\ port' = port
    BY <1>4 DEF ServerNotices, Undisturbed, vhciVars
  <2> QED
    BY <2>1, RecordStaysToo
<1> QED
  BY <1>1, <1>2, <1>3, <1>4, AttachRecorded, WriteRecorded DEF VhciNext, Runs

\* What the port command shows as the origin of a port's device is where it came from, once
\* the process that attached it has written the record (record_connection), unless that failed
\* or a process whose device is gone wrote its own after it.
THEOREM RecordsTellDevices == VhciSpec => []RecordTellsDevice
<1>1. VhciInit => RecordInv
  <2> SUFFICES ASSUME VhciInit PROVE RecordInv
    OBVIOUS
  <2>1. \A p \in Ports : port[p].dev = NULL
    BY DEF VhciInit, Empty
  <2> QED
    BY <2>1 DEF VhciInit, RecordInv, RecordShapes, Recorded
<1>2. VhciInv /\ RecordInv /\ [VhciNext]_vhciVars => RecordInv'
  BY RecordStep
<1>3. RecordInv => RecordTellsDevice
  BY Zenon DEF RecordInv, Recorded, RecordTellsDevice, Writing, Origin
<1> QED
  BY <1>1, <1>2, <1>3, VhciInvHolds, PTL DEF VhciSpec

(***************************************************************************)
(* A command that nobody disturbs.                                         *)
(*                                                                         *)
(* AloneOutcome says what such a command has done in the end.  On the way  *)
(* what it has still to attach is free at the server, apart from the       *)
(* device that it has just imported, and there are ports for all of it.    *)
(* What it did not read off the list is not imported at all, and what it   *)
(* missed is imported but on no port.                                      *)
(***************************************************************************)

Free == {p \in Ports : port[p].dev = NULL}

ToImport == {"import", "open", "refresh", "attach"}

\* Where c has not come to yet, among the devices it was told, and those of them to attach.
Left(c) == {j \in 1..Len(cmd[c].devs) :
              j > cmd[c].i \/ (j = cmd[c].i /\ cmd[c].at \in ToImport)}

Pending(c) == {d \in Devs : ~Attached(d) /\ \E j \in Left(c) : cmd[c].devs[j] = d}

\* The devices asked for that it did not read off the server's list.
Omitted(r) == Asked(r) \ {r.devs[j] : j \in 1..Len(r.devs)}

\* A process that attaches: what it has passed is attached, or was missed, what is left finds
\* a port, and what it knows of the ports is still so.
Attaches(c) ==
  /\ cmd[c].at \in ToImport \cup {"truncate", "write", "next", "done"}
  /\ cmd[c].at \notin {"next", "done"} => cmd[c].i <= Len(cmd[c].devs)
  /\ cmd[c].at = "done" => cmd[c].i >= Len(cmd[c].devs)
  /\ \A j \in 1..Len(cmd[c].devs) :
       j \notin Left(c) => \/ cmd[c].devs[j] \in {NULL} \cup cmd[c].missed
                           \/ Attached(cmd[c].devs[j])
  /\ \A d \in Pending(c) : d \in used => cmd[c].at \in {"open", "refresh", "attach"} /\ d = Dev(c)
  /\ Cardinality(Pending(c)) <= Cardinality(Free)
  /\ cmd[c].at = "refresh" => \A p \in Ports : cmd[c].idev[p] = "null" <=> port[p].dev = NULL
  /\ cmd[c].at = "attach" => cmd[c].port \in Free

\* What it has left out, and will leave out, is on no port.
LeavesOut(c) ==
  /\ \A d \in cmd[c].missed : ~Attached(d) /\ \A j \in Left(c) : cmd[c].devs[j] # d
  /\ Omitted(cmd[c]) \cap used = {}

\* A process that detaches: when it is done the port is free, or was missed.
Empties(c) ==
  /\ cmd[c].at \in {"open", "refresh", "detach", "next", "done"}
  /\ cmd[c].at \in {"next", "done"} /\ PortNum(cmd[c].arg) \in Ports =>
       PortNum(cmd[c].arg) \in Free \/ cmd[c].arg \in cmd[c].missed
  /\ cmd[c].emptied = NULL \/ (cmd[c].emptied = PortNum(cmd[c].arg) /\ cmd[c].emptied \in Ports)

OnItsWay(c) == \/ cmd[c].op \in {"attach", "attachall"} /\ Attaches(c) /\ LeavesOut(c)
               \/ cmd[c].op = "detach" /\ Empties(c)
               \/ cmd[c].op = "port"

Phases == \A p \in Ports : port[p].phase = "null" <=> port[p].dev = NULL

\* The devices of a command are those of what was asked for, each once.
Devices(op, devs) ==
  /\ devs \in Seq(Devs \cup {NULL})
  /\ \A j, k \in 1..Len(devs) : devs[j] = devs[k] /\ devs[j] # NULL => j = k
  /\ op \in {"detach", "port"} => devs = <<>>
  /\ op = "attachall" => devs = ListAsRead
  /\ op = "attach" => devs # <<>> /\ \A j \in 1..Len(devs) : devs[j] # NULL

Told ==
  \A c \in Cmds :
    /\ cmd[c].at = "idle" =>
         cmd[c].i = 1 /\ c \notin alone /\ cmd[c].missed = {} /\ cmd[c].emptied = NULL
    /\ cmd[c].i \in Nat \ {0}
    /\ Devices(cmd[c].op, cmd[c].devs)
    /\ cmd[c].op = "detach" => cmd[c].arg \in Nat

AloneInv ==
  /\ Phases
  /\ Told
  /\ alone \subseteq Cmds
  /\ \A c \in alone : OnItsWay(c)

\* The free ports can be counted.
LEMMA FreeIsFinite == IsFiniteSet(Free) /\ Free \subseteq Nat
<1>1. IsFiniteSet(Ports) /\ Ports \subseteq Nat
  <2>1. NPorts - 1 \in Int /\ 0 \in Int
    BY VhciAssumption
  <2>2. IsFiniteSet(0..NPorts - 1)
    BY <2>1, FS_Interval
  <2> QED
    BY <2>1, <2>2 DEF Ports
<1>2. Free \in SUBSET Ports
  BY DEF Free
<1> QED
  BY <1>1, <1>2, FS_Subset

\* The devices a command has to attach yet can be counted.
LEMMA PendingIsFinite == ASSUME NEW c PROVE IsFiniteSet(Pending(c))
<1>1. Pending(c) \in SUBSET Devs
  BY DEF Pending
<1> QED
  BY <1>1, FS_Subset, VhciAssumption

\* What is attached depends on the ports' devices alone.
LEMMA SamePorts ==
  ASSUME \A p \in Ports : port'[p].dev = port[p].dev
  PROVE  (\A d : Attached(d)' = Attached(d)) /\ Free' = Free
BY DEF Attached, Free

\* What others do as long as they disturb nobody.
LEMMA OthersLeave ==
  ASSUME NEW c, OnItsWay(c), cmd'[c] = cmd[c], used' \subseteq used,
         \A p \in Ports : port'[p].dev = port[p].dev
  PROVE  OnItsWay(c)'
<1>1. /\ \A d : Attached(d)' = Attached(d)
      /\ Free' = Free
  BY SamePorts
<1>2. Left(c)' = Left(c) /\ Dev(c)' = Dev(c)
  BY DEF Left, Dev
<1>3. Pending(c)' = Pending(c)
  BY <1>1, <1>2, Zenon DEF Pending
<1>4. Attaches(c) => Attaches(c)'
  <2> SUFFICES ASSUME Attaches(c) PROVE Attaches(c)'
    OBVIOUS
  <2>1. \A d \in Pending(c)' : d \in used' =>
          cmd'[c].at \in {"open", "refresh", "attach"} /\ d = Dev(c)'
    BY <1>2, <1>3 DEF Attaches
  <2>2. (\A j \in 1..Len(cmd[c].devs) :
            j \notin Left(c) => \/ cmd[c].devs[j] \in {NULL} \cup cmd[c].missed
                                \/ Attached(cmd[c].devs[j]))'
    BY <1>2 DEF Attaches, Attached
  <2> QED
    BY <1>1, <1>3, <2>1, <2>2, Zenon DEF Attaches
<1>5. Empties(c) => Empties(c)'
  BY <1>1, Zenon DEF Empties
<1>6. LeavesOut(c) => LeavesOut(c)'
  <2>1. Omitted(cmd'[c]) = Omitted(cmd[c]) /\ Omitted(cmd[c])' = Omitted(cmd'[c])
    BY DEF Omitted, Asked
  <2>2. ASSUME LeavesOut(c), NEW d \in cmd[c].missed
        PROVE  ~(\E p \in Ports : port'[p].dev = d) /\ \A j \in Left(c) : cmd[c].devs[j] # d
    BY <2>2 DEF LeavesOut, Attached
  <2> QED
    BY <1>2, <2>1, <2>2 DEF LeavesOut, Attached
<1> QED
  BY <1>4, <1>5, <1>6, Zenon DEF OnItsWay

\* A step of c with which it comes to no other device, or to one that was attached or missed,
\* and which leaves the ports and the server alone.
LEMMA AttachesStill ==
  ASSUME NEW c, Attaches(c), LeavesOut(c),
         cmd'[c].op = cmd[c].op, cmd'[c].devs = cmd[c].devs,
         \A p \in Ports : port'[p].dev = port[p].dev,
         \/ used' = used
         \/ /\ used' = used \cup {Dev(c)'} /\ cmd'[c].at = "open"
            /\ \E j \in 1..Len(cmd[c].devs) : cmd[c].devs[j] = Dev(c)',
         Left(c)' \subseteq Left(c),
         cmd[c].missed \subseteq cmd'[c].missed,
         \A d \in cmd'[c].missed \ cmd[c].missed :
           ~Attached(d) /\ \A j \in Left(c)' : cmd[c].devs[j] # d,
         \A j \in 1..Len(cmd[c].devs) :
           j \in Left(c) \ Left(c)' => \/ cmd[c].devs[j] \in {NULL} \cup cmd'[c].missed
                                       \/ Attached(cmd[c].devs[j]),
         cmd[c].at \in {"open", "refresh", "attach"} =>
           \/ cmd'[c].at \in {"open", "refresh", "attach"} /\ Dev(c)' = Dev(c)
           \/ Dev(c) \in cmd'[c].missed,
         cmd'[c].at \in ToImport \cup {"truncate", "write", "next", "done"},
         cmd'[c].at \notin {"next", "done"} => cmd'[c].i <= Len(cmd'[c].devs),
         cmd'[c].at = "done" => cmd'[c].i >= Len(cmd'[c].devs),
         cmd'[c].at = "refresh" => \A p \in Ports : cmd'[c].idev[p] = "null" <=> port[p].dev = NULL,
         cmd'[c].at = "attach" => cmd'[c].port \in Free
  PROVE  Attaches(c)' /\ LeavesOut(c)'
<1>1. /\ \A d : Attached(d)' = Attached(d)
      /\ Free' = Free
  BY SamePorts
<1>2. Pending(c)' \subseteq Pending(c)
  BY <1>1 DEF Pending
<1>3. Cardinality(Pending(c)') <= Cardinality(Free')
  <2>1. Cardinality(Pending(c)') <= Cardinality(Pending(c)) /\ IsFiniteSet(Pending(c)')
    BY <1>2, PendingIsFinite, FS_Subset
  <2>2. /\ Cardinality(Pending(c)') \in Nat /\ Cardinality(Pending(c)) \in Nat
        /\ Cardinality(Free) \in Nat
    BY <2>1, PendingIsFinite, FreeIsFinite, FS_CardinalityType
  <2>3. Cardinality(Pending(c)) <= Cardinality(Free)
    BY DEF Attaches
  <2> QED
    BY <1>1, <2>1, <2>2, <2>3
<1>4. \A j \in 1..Len(cmd[c].devs) :
        j \notin Left(c)' => \/ cmd[c].devs[j] \in {NULL} \cup cmd'[c].missed
                             \/ Attached(cmd[c].devs[j])
  BY DEF Attaches
<1>5. \A d \in cmd'[c].missed : ~Attached(d) /\ \A j \in Left(c)' : cmd[c].devs[j] # d
  BY DEF LeavesOut
<1>6. ASSUME NEW d \in Pending(c)', d \in used'
      PROVE  cmd'[c].at \in {"open", "refresh", "attach"} /\ d = Dev(c)'
  <2>1. CASE d \in used
    <3>1. cmd[c].at \in {"open", "refresh", "attach"} /\ d = Dev(c)
      BY <1>2, <2>1 DEF Attaches
    <3>2. d \notin cmd'[c].missed
      BY <1>5, <1>6 DEF Pending
    <3> QED
      BY <3>1, <3>2
  <2>2. CASE d \notin used
    BY <1>6, <2>2
  <2> QED
    BY <2>1, <2>2
<1>7. (\A j \in 1..Len(cmd[c].devs) :
          j \notin Left(c) => \/ cmd[c].devs[j] \in {NULL} \cup cmd[c].missed
                              \/ Attached(cmd[c].devs[j]))'
  BY <1>1, <1>4 DEF Attached
<1>8. \A d \in Pending(c)' : d \in used' =>
         cmd'[c].at \in {"open", "refresh", "attach"} /\ d = Dev(c)'
  BY <1>6
<1>9. /\ cmd'[c].at = "refresh" => \A p \in Ports : cmd'[c].idev[p] = "null" <=> port'[p].dev = NULL
      /\ cmd'[c].at = "attach" => cmd'[c].port \in Free'
  BY <1>1
<1>10. Attaches(c)'
  BY <1>3, <1>7, <1>8, <1>9, Zenon DEF Attaches, ToImport
<1>11. Omitted(cmd[c])' = Omitted(cmd[c])
  BY DEF Omitted, Asked
<1>12. Omitted(cmd[c]) \cap used' = {}
  <2>1. Omitted(cmd[c]) \cap used = {}
    BY DEF LeavesOut
  <2>2. \A j \in 1..Len(cmd[c].devs) : cmd[c].devs[j] \notin Omitted(cmd[c])
    BY DEF Omitted
  <2> QED
    BY <2>1, <2>2
<1>13. (\A d \in cmd[c].missed : ~Attached(d) /\ \A j \in Left(c) : cmd[c].devs[j] # d)'
  BY <1>1, <1>5 DEF Attached
<1> QED
  BY <1>10, <1>11, <1>12, <1>13 DEF LeavesOut

\* The devices a command was given, with its place among them.
LEMMA DevsOf ==
  ASSUME Told, NEW c \in Cmds
  PROVE  /\ Len(cmd[c].devs) \in Nat /\ cmd[c].i \in Nat \ {0}
         /\ \A j \in 1..Len(cmd[c].devs) : cmd[c].devs[j] \in Devs \cup {NULL}
         /\ \A j, k \in 1..Len(cmd[c].devs) :
              cmd[c].devs[j] = cmd[c].devs[k] /\ cmd[c].devs[j] # NULL => j = k
BY DEF Told, Devices

\* What attach_exported_devices reads off the list: devices of it, each once, and those not
\* behind one with interfaces.
LEMMA ListRead ==
  /\ ListAsRead \in Seq(Devs \cup {NULL}) /\ Len(ListAsRead) = Len(List) /\ Len(List) \in Nat
  /\ \A i \in 1..Len(List) :
       /\ List[i] \in Devs /\ List[i] # NULL
       /\ Behind(List[i]) => ListAsRead[i] = NULL
       /\ ~Behind(List[i]) => ListAsRead[i] = List[i]
  /\ \A i, j \in 1..Len(List) : ListAsRead[i] = List[j] => i = j
<1>1. /\ List \in Seq(Devs) /\ Len(List) \in Nat /\ NULL \notin Devs
      /\ \A i, j \in 1..Len(List) : List[i] = List[j] => i = j
  BY VhciAssumption
<1>2. \A i \in 1..Len(List) : List[i] \in Devs
  BY <1>1
<1>3. Len(ListAsRead) = Len(List) /\ ListAsRead \in Seq(Devs \cup {NULL})
  BY <1>1, <1>2 DEF ListAsRead
<1>4. ASSUME NEW i \in 1..Len(List)
      PROVE  /\ Behind(List[i]) => ListAsRead[i] = NULL
             /\ ~Behind(List[i]) => ListAsRead[i] = List[i]
  <2>1. Behind(List[i]) <=> \E j \in 1..(i - 1) : List[j] \notin Bare
    <3>1. ASSUME NEW j \in 1..(i - 1), List[j] \notin Bare PROVE Behind(List[i])
      <4>1. j \in 1..Len(List) /\ j < i
        BY <1>1
      <4> QED
        BY <3>1, <4>1 DEF Behind
    <3>2. ASSUME Behind(List[i]) PROVE \E j \in 1..(i - 1) : List[j] \notin Bare
      <4>1. PICK k, j \in 1..Len(List) : j < k /\ List[k] = List[i] /\ List[j] \notin Bare
        BY <3>2 DEF Behind
      <4>2. k = i /\ j \in 1..(i - 1)
        BY <1>1, <4>1
      <4> QED
        BY <4>1, <4>2
    <3> QED
      BY <3>1, <3>2
  <2>2. ListAsRead[i] = IF \E j \in 1..(i - 1) : List[j] \notin Bare THEN NULL ELSE List[i]
    BY DEF ListAsRead
  <2> QED
    BY <2>1, <2>2
<1>5. ASSUME NEW i \in 1..Len(List), NEW j \in 1..Len(List), ListAsRead[i] = List[j]
      PROVE  i = j
  <2>1. ListAsRead[i] \in {NULL, List[i]}
    BY <1>4
  <2>2. List[i] = List[j]
    BY <1>1, <1>2, <1>5, <2>1
  <2> QED
    BY <1>1, <2>2
<1> QED
  BY <1>1, <1>2, <1>3, <1>4, <1>5

\* main: what is asked for is possible.
LEMMA WantedDevs ==
  ASSUME NEW w \in Wanted
  PROVE  /\ Devices(w.op, w.devs)
         /\ w.op \in {"attach", "attachall", "port", "detach"}
         /\ w.op = "detach" => w.arg \in Nat
         /\ \A j \in 1..Len(w.devs) : w.devs[j] # NULL => w.devs[j] \in Asked(w)
         /\ Asked(w) \subseteq Devs
<1>1. \/ \E d \in Devs : w = [op |-> "attach", devs |-> <<d>>, arg |-> NULL]
      \/ w = [op |-> "attachall", devs |-> ListAsRead, arg |-> NULL]
      \/ w = [op |-> "port", devs |-> <<>>, arg |-> NULL]
      \/ \E n \in PortArgs : w = [op |-> "detach", devs |-> <<>>, arg |-> n]
  BY Zenon DEF Wanted
<1>2. CASE \E d \in Devs : w = [op |-> "attach", devs |-> <<d>>, arg |-> NULL]
  <2>1. PICK d \in Devs : w = [op |-> "attach", devs |-> <<d>>, arg |-> NULL]
    BY <1>2
  <2> DEFINE s == <<d>>
  <2>2. /\ s \in Seq(Devs \cup {NULL}) /\ s # <<>> /\ Len(s) = 1 /\ s[1] = d
        /\ d # NULL
    BY VhciAssumption
  <2>3. w = [op |-> "attach", devs |-> s, arg |-> NULL]
    BY <2>1
  <2> HIDE DEF s
  <2>4. w.op = "attach" /\ w.devs = s
    BY <2>3
  <2>5. \A j \in 1..Len(s) : j = 1 /\ s[j] = d
    BY <2>2
  <2>6. Devices("attach", s)
    BY <2>2, <2>5 DEF Devices
  <2>7. Asked(w) = {s[i] : i \in 1..Len(s)}
    BY <2>4 DEF Asked
  <2> QED
    BY <2>4, <2>5, <2>6, <2>7
<1>3. CASE w = [op |-> "attachall", devs |-> ListAsRead, arg |-> NULL]
  <2>1. w.op = "attachall" /\ w.devs = ListAsRead
    BY <1>3
  <2>2. Asked(w) = {List[i] : i \in 1..Len(List)}
    BY <2>1 DEF Asked
  <2>3. ASSUME NEW j \in 1..Len(ListAsRead), ListAsRead[j] # NULL
        PROVE  ListAsRead[j] = List[j] /\ j \in 1..Len(List)
    BY <2>3, ListRead
  <2>4. ASSUME NEW j \in 1..Len(ListAsRead), NEW k \in 1..Len(ListAsRead),
               ListAsRead[j] = ListAsRead[k], ListAsRead[j] # NULL
        PROVE  j = k
    <3>1. ListAsRead[j] = List[k]
      BY <2>3, <2>4
    <3> QED
      BY <2>4, <3>1, ListRead
  <2>5. Devices("attachall", ListAsRead)
    BY <2>4, ListRead DEF Devices
  <2>6. Asked(w) \subseteq Devs
    BY <2>2, ListRead
  <2> QED
    BY <2>1, <2>2, <2>3, <2>5, <2>6
<1>4. CASE \/ w = [op |-> "port", devs |-> <<>>, arg |-> NULL]
           \/ \E n \in PortArgs : w = [op |-> "detach", devs |-> <<>>, arg |-> n]
  <2> DEFINE s == <<>>
  <2>1. \/ w = [op |-> "port", devs |-> s, arg |-> NULL]
        \/ \E n \in PortArgs : w = [op |-> "detach", devs |-> s, arg |-> n]
    BY <1>4
  <2>2. s \in Seq(Devs \cup {NULL}) /\ s = <<>> /\ Len(s) = 0
    BY EmptySeq
  <2> HIDE DEF s
  <2>3. w.op \in {"port", "detach"} /\ w.devs = s /\ (w.op = "detach" => w.arg \in PortArgs)
    BY <2>1
  <2>4. Devices(w.op, s)
    BY <2>2, <2>3 DEF Devices
  <2>5. Asked(w) = {}
    BY <2>2, <2>3 DEF Asked
  <2>6. PortArgs \subseteq Nat
    BY VhciAssumption
  <2>7. w.op = "detach" => w.arg \in Nat
    BY <2>3, <2>6
  <2>8. \A j \in 1..Len(w.devs) : w.devs[j] # NULL => w.devs[j] \in Asked(w)
    BY <2>2, <2>3
  <2> QED
    BY <2>3, <2>4, <2>5, <2>7, <2>8
<1> QED
  BY <1>1, <1>2, <1>3, <1>4

\* A command that starts alone, with enough ports, is on its way.
LEMMA StartAlone ==
  ASSUME VhciInv, AloneInv, NEW c \in Cmds, Start(c), c \in alone'
  PROVE  OnItsWay(c)'
<1>1. PICK w \in Wanted :
        /\ cmd'[c].op = w.op /\ cmd'[c].devs = w.devs /\ cmd'[c].arg = w.arg
        /\ cmd'[c].i = cmd[c].i /\ cmd[c].at = "idle" /\ Unnoted(c)
        /\ \/ w.op \in {"detach", "port"} /\ cmd'[c].at = "open"
           \/ w.op = "attachall" /\ w.devs = <<>> /\ cmd'[c].at = "next"
           \/ /\ ~(w.op \in {"detach", "port"}) /\ ~(w.op = "attachall" /\ w.devs = <<>>)
              /\ cmd'[c].at = "import"
        /\ alone' = IF Possible(w) THEN alone \cup {c} ELSE alone
        /\ port' = port /\ used' = used
  BY StartDoes DEF VhciInv
<1>2. /\ cmd[c].i = 1 /\ Possible(w)
      /\ cmd'[c].missed = {} /\ cmd'[c].emptied = NULL
  BY <1>1 DEF AloneInv, Told, Unnoted
<1>3. /\ w.devs \in Seq(Devs \cup {NULL})
      /\ w.op \in {"attach", "attachall", "port", "detach"}
      /\ w.op \in {"detach", "port"} => w.devs = <<>>
      /\ w.op = "attach" => w.devs # <<>>
      /\ \A j \in 1..Len(w.devs) : w.devs[j] # NULL => w.devs[j] \in Asked(w)
      /\ Asked(w) \subseteq Devs
  BY WantedDevs DEF Devices
<1>4. CASE w.op = "port"
  BY <1>1, <1>4 DEF OnItsWay
<1>5. CASE w.op = "detach"
  BY <1>1, <1>2, <1>5 DEF OnItsWay, Empties
<1>6. CASE w.op \in {"attach", "attachall"}
  <2> DEFINE asked == Asked(w)
  <2>1. Len(w.devs) \in Nat /\ \A j \in 1..Len(w.devs) : w.devs[j] \in Devs \cup {NULL}
    BY <1>3
  <2>2. asked \cap used = {} /\ Cardinality(Free) >= Cardinality(asked)
    BY <1>2 DEF Possible, Free
  <2>3. asked \in SUBSET Devs
    BY <1>3
  <2>4. Pending(c)' \in SUBSET asked
    <3>1. ASSUME NEW d \in Pending(c)' PROVE d \in asked
      <4>1. PICK j \in 1..Len(w.devs) : w.devs[j] = d
        BY <1>1 DEF Pending, Left
      <4>2. d # NULL
        BY VhciAssumption DEF Pending
      <4> QED
        BY <1>3, <4>1, <4>2
    <3> QED
      BY <3>1
  <2>11. LeavesOut(c)'
    <3>1. Omitted(cmd'[c]) \subseteq asked
      BY <1>1 DEF Omitted, Asked
    <3>2. Omitted(cmd'[c]) \cap used' = {}
      BY <1>1, <2>2, <3>1
    <3>3. Omitted(cmd[c])' = Omitted(cmd'[c])
      BY DEF Omitted, Asked
    <3> QED
      BY <1>2, <3>2, <3>3 DEF LeavesOut
  <2> HIDE DEF asked
  <2>5. Cardinality(Pending(c)') <= Cardinality(Free')
    <3>1. IsFiniteSet(asked)
      BY <2>3, FS_Subset, VhciAssumption
    <3>2. IsFiniteSet(Pending(c)') /\ Cardinality(Pending(c)') <= Cardinality(asked)
      BY <2>4, <3>1, FS_Subset
    <3>3. /\ Cardinality(Pending(c)') \in Nat /\ Cardinality(asked) \in Nat
          /\ Cardinality(Free) \in Nat
      BY <3>1, <3>2, FreeIsFinite, FS_CardinalityType
    <3>4. Free' = Free
      BY <1>1 DEF Free
    <3> QED
      BY <2>2, <3>2, <3>3, <3>4
  <2>6. \A d \in Pending(c)' : d \notin used'
    BY <1>1, <2>2, <2>4
  <2>7. \/ w.devs = <<>> /\ cmd'[c].at = "next" /\ Len(w.devs) = 0
        \/ w.devs # <<>> /\ cmd'[c].at = "import" /\ Len(w.devs) >= 1
    BY <1>1, <1>3, <1>6, <2>1
  <2>8. \A j \in 1..Len(w.devs) : j \in Left(c)'
    <3>1. CASE Len(w.devs) = 0
      BY <3>1
    <3>2. CASE cmd'[c].at = "import"
      <4>1. \A j \in 1..Len(w.devs) : j > 1 \/ j = 1
        BY <2>1
      <4> QED
        BY <1>1, <1>2, <3>2, <4>1 DEF Left, ToImport
    <3> QED
      BY <2>7, <3>1, <3>2
  <2>9. (\A j \in 1..Len(cmd[c].devs) : j \in Left(c))'
    BY <1>1, <2>8
  <2>10. Attaches(c)'
    <3>1. /\ cmd'[c].at \in {"import", "next"}
          /\ cmd'[c].at = "import" => cmd'[c].i <= Len(cmd'[c].devs)
      BY <1>1, <1>2, <2>1, <2>7
    <3> QED
      BY <2>5, <2>6, <2>9, <3>1 DEF Attaches, ToImport
  <2> QED
    BY <1>1, <1>6, <2>10, <2>11 DEF OnItsWay
<1> QED
  BY <1>3, <1>4, <1>5, <1>6

\* Going on to its next device, it stays on its way.
LEMMA NextAlone ==
  ASSUME VhciInv, AloneInv, NEW c \in Cmds, Next(c), OnItsWay(c)
  PROVE  OnItsWay(c)'
<1>1. /\ cmd[c].at = "next"
      /\ cmd'[c].op = cmd[c].op /\ cmd'[c].devs = cmd[c].devs /\ cmd'[c].arg = cmd[c].arg
      /\ cmd'[c].missed = cmd[c].missed /\ cmd'[c].emptied = cmd[c].emptied
      /\ \/ /\ cmd[c].i < Len(cmd[c].devs) /\ cmd'[c].i = cmd[c].i + 1
            /\ cmd'[c].at = "import"
         \/ /\ ~(cmd[c].i < Len(cmd[c].devs)) /\ cmd'[c].i = cmd[c].i
            /\ cmd'[c].at = "done"
      /\ port' = port /\ used' = used
  BY NextDoes DEF VhciInv, Unnoted
<1>2. Len(cmd[c].devs) \in Nat /\ cmd[c].i \in Nat \ {0}
  BY DevsOf DEF AloneInv
<1>3. CASE cmd[c].op \in {"attach", "attachall"} /\ Attaches(c) /\ LeavesOut(c)
  <2>1. Left(c)' = Left(c)
    <3>1. CASE cmd'[c].at = "import"
      <4>1. \A j \in 1..Len(cmd[c].devs) : j > cmd[c].i <=> (j > cmd[c].i + 1 \/ j = cmd[c].i + 1)
        BY <1>2
      <4>2. cmd'[c].i = cmd[c].i + 1 /\ cmd'[c].devs = cmd[c].devs
        BY <1>1, <3>1
      <4> QED
        BY <1>1, <3>1, <4>1, <4>2 DEF Left, ToImport
    <3>2. CASE cmd'[c].at = "done"
      BY <1>1, <3>2 DEF Left, ToImport
    <3> QED
      BY <1>1, <3>1, <3>2
  <2>2. /\ cmd'[c].at = "import" => cmd'[c].i <= Len(cmd'[c].devs)
        /\ cmd'[c].at = "done" => cmd'[c].i >= Len(cmd'[c].devs)
    BY <1>1, <1>2
  <2>3. Attaches(c)' /\ LeavesOut(c)'
    BY <1>1, <1>3, <2>1, <2>2, AttachesStill DEF ToImport
  <2> QED
    BY <1>1, <1>3, <2>3 DEF OnItsWay
<1>4. CASE cmd[c].op = "detach" /\ Empties(c)
  <2>1. cmd[c].devs = <<>> /\ Len(cmd[c].devs) = 0
    BY <1>4 DEF AloneInv, Told, Devices
  <2>2. cmd'[c].at = "done"
    BY <1>1, <1>2, <2>1
  <2> QED
    BY <1>1, <1>4, <2>2 DEF OnItsWay, Empties, Free
<1>5. CASE cmd[c].op = "port"
  BY <1>1, <1>5 DEF OnItsWay
<1> QED
  BY <1>3, <1>4, <1>5 DEF OnItsWay

\* Importing its device, it stays on its way.
LEMMA ImportAlone ==
  ASSUME VhciInv, AloneInv, NEW c \in Cmds, QueryImport(c), OnItsWay(c)
  PROVE  OnItsWay(c)'
<1>1. /\ cmd[c].at = "import" /\ OnlyAt(c) /\ Unnoted(c) /\ Dev(c)' = Dev(c) /\ port' = port
      /\ \/ /\ Dev(c) \notin Devs \/ Dev(c) \in used
            /\ cmd'[c].at = "next" /\ used' = used
         \/ /\ ~(Dev(c) \notin Devs \/ Dev(c) \in used)
            /\ cmd'[c].at = "open" /\ used' = used \cup {Dev(c)}
  BY ImportDoes DEF VhciInv, Dev, OnlyAt
<1>2. CASE cmd[c].op \in {"attach", "attachall"} /\ Attaches(c) /\ LeavesOut(c)
  <2>1. /\ cmd[c].i \in 1..Len(cmd[c].devs) /\ cmd[c].i \in Left(c)
        /\ Dev(c) \in Devs \cup {NULL} /\ Dev(c) = cmd[c].devs[cmd[c].i]
    BY <1>1, <1>2, DevsOf DEF AloneInv, Attaches, Dev, Left, ToImport
  <2>2. CASE cmd'[c].at = "next"
    <3>1. Left(c)' \subseteq Left(c) /\ Left(c) \ Left(c)' \subseteq {cmd[c].i}
      BY <1>1, <2>2 DEF Left, OnlyAt, ToImport
    <3>2. Dev(c) = NULL \/ Attached(Dev(c))
      <4>1. CASE Dev(c) \notin Devs
        BY <2>1, <4>1
      <4>2. CASE Dev(c) \in Devs /\ Dev(c) \in used
        <5>1. Dev(c) \notin Pending(c)
          BY <1>1, <1>2, <4>2 DEF Attaches
        <5> QED
          BY <2>1, <4>2, <5>1 DEF Pending
      <4> QED
        BY <1>1, <2>2, <4>1, <4>2
    <3>3. \A j \in 1..Len(cmd[c].devs) :
            j \in Left(c) \ Left(c)' => \/ cmd[c].devs[j] \in {NULL} \cup cmd'[c].missed
                                        \/ Attached(cmd[c].devs[j])
      BY <2>1, <3>1, <3>2
    <3>4. used' = used /\ \A p \in Ports : port'[p].dev = port[p].dev
      BY <1>1, <2>2
    <3>5. Attaches(c)' /\ LeavesOut(c)'
      BY <1>1, <1>2, <2>2, <3>1, <3>3, <3>4, AttachesStill DEF OnlyAt, Unnoted, ToImport
    <3> QED
      BY <1>1, <1>2, <3>5 DEF OnItsWay, OnlyAt
  <2>3. CASE cmd'[c].at = "open"
    <3>1. Left(c)' = Left(c)
      BY <1>1, <2>3 DEF Left, OnlyAt, ToImport
    <3>2. /\ used' = used \cup {Dev(c)'} /\ \A p \in Ports : port'[p].dev = port[p].dev
          /\ cmd'[c].i <= Len(cmd'[c].devs)
          /\ \E j \in 1..Len(cmd[c].devs) : cmd[c].devs[j] = Dev(c)'
      BY <1>1, <1>2, <2>1, <2>3 DEF Attaches, OnlyAt
    <3>3. Attaches(c)' /\ LeavesOut(c)'
      BY <1>1, <1>2, <2>3, <3>1, <3>2, AttachesStill DEF OnlyAt, Unnoted, ToImport
    <3> QED
      BY <1>1, <1>2, <3>3 DEF OnItsWay, OnlyAt
  <2> QED
    BY <1>1, <2>2, <2>3
<1>3. CASE cmd[c].op = "port"
  BY <1>1, <1>3 DEF OnItsWay, OnlyAt
<1> QED
  BY <1>1, <1>2, <1>3 DEF OnItsWay, Empties

\* Reading the status, it sees a free port.
LEMMA StatusAlone ==
  ASSUME VhciInv, AloneInv, NEW c \in Cmds, ReadStatus(c), OnItsWay(c)
  PROVE  OnItsWay(c)'
<1>1. /\ cmd[c].at = "open" /\ OnlyAt(c) /\ Unnoted(c) /\ Dev(c)' = Dev(c) /\ port' = port /\ used' = used
      /\ cmd'[c].at = "refresh" /\ cmd'[c].idev = [p \in Ports |-> port[p].phase]
  BY StatusDoes DEF VhciInv, Dev, OnlyAt
<1>2. CASE cmd[c].op \in {"attach", "attachall"} /\ Attaches(c) /\ LeavesOut(c)
  <2>1. Left(c)' = Left(c)
    BY <1>1 DEF Left, OnlyAt, ToImport
  <2>2. \A p \in Ports : cmd'[c].idev[p] = "null" <=> port[p].dev = NULL
    BY <1>1 DEF AloneInv, Phases
  <2>3. /\ \A p \in Ports : port'[p].dev = port[p].dev
        /\ cmd'[c].i <= Len(cmd'[c].devs)
    BY <1>1, <1>2 DEF Attaches, OnlyAt
  <2>4. Attaches(c)' /\ LeavesOut(c)'
    BY <1>1, <1>2, <2>1, <2>2, <2>3, AttachesStill DEF OnlyAt, Unnoted, ToImport
  <2> QED
    BY <1>1, <1>2, <2>4 DEF OnItsWay, OnlyAt
<1>3. CASE cmd[c].op = "detach" /\ Empties(c)
  BY <1>1, <1>3 DEF OnItsWay, OnlyAt, Unnoted, Empties
<1>4. CASE cmd[c].op = "port"
  BY <1>1, <1>4 DEF OnItsWay, OnlyAt
<1> QED
  BY <1>2, <1>3, <1>4 DEF OnItsWay

\* When the driver cannot be opened, the device goes to no port, and is not among those left.
LEMMA MissedAlone ==
  ASSUME VhciInv, AloneInv, NEW c \in Cmds, Refresh(c), OnItsWay(c),
         cmd'[c].at = "next", cmd'[c].missed = cmd[c].missed \cup {Object(c)},
         cmd'[c].emptied = cmd[c].emptied
  PROVE  OnItsWay(c)'
<1>1. /\ cmd[c].at = "refresh" /\ OnlyAt(c) /\ Dev(c)' = Dev(c) /\ port' = port /\ used' = used
  BY RefreshDoes DEF VhciInv, Dev, OnlyAt
<1>2. CASE cmd[c].op \in {"attach", "attachall"} /\ Attaches(c) /\ LeavesOut(c)
  <2>1. /\ cmd[c].i \in 1..Len(cmd[c].devs)
        /\ Dev(c) \in Devs \cup {NULL} /\ Dev(c) = cmd[c].devs[cmd[c].i]
    BY <1>1, <1>2, DevsOf DEF AloneInv, Attaches, Dev, Left, ToImport
  <2>2. Dev(c) \in cmd[c].fds
    BY <1>1, <1>2 DEF VhciInv, Brings
  <2>3. Dev(c) # NULL /\ ~Attached(Dev(c))
    BY <2>2 DEF VhciInv, Exclusive, Attached
  <2>4. Object(c) = Dev(c) /\ cmd'[c].missed = cmd[c].missed \cup {Dev(c)}
    BY <1>2 DEF Object
  <2>5. Left(c)' = Left(c) \ {cmd[c].i} /\ Left(c) \ Left(c)' \subseteq {cmd[c].i}
    BY <1>1, <2>1, DevsOf DEF Left, OnlyAt, ToImport, AloneInv
  <2>6. \A j \in Left(c)' : cmd[c].devs[j] # Dev(c)
    <3>1. ASSUME NEW j \in Left(c)', cmd[c].devs[j] = Dev(c) PROVE FALSE
      <4>1. j \in 1..Len(cmd[c].devs) /\ j # cmd[c].i
        BY <2>5 DEF Left
      <4> QED
        BY <2>1, <2>3, <3>1, <4>1, DevsOf DEF AloneInv
    <3> QED
      BY <3>1
  <2>7. \A j \in 1..Len(cmd[c].devs) :
          j \in Left(c) \ Left(c)' => \/ cmd[c].devs[j] \in {NULL} \cup cmd'[c].missed
                                      \/ Attached(cmd[c].devs[j])
    BY <2>1, <2>4, <2>5
  <2>8. /\ \A p \in Ports : port'[p].dev = port[p].dev
        /\ cmd'[c].i <= Len(cmd'[c].devs)
    BY <1>1, <1>2 DEF Attaches, OnlyAt
  <2>9. \A d \in cmd'[c].missed \ cmd[c].missed :
          ~Attached(d) /\ \A j \in Left(c)' : cmd[c].devs[j] # d
    BY <2>3, <2>4, <2>6
  <2>10. Left(c)' \subseteq Left(c) /\ cmd[c].missed \subseteq cmd'[c].missed
         /\ Dev(c) \in cmd'[c].missed
    BY <2>4, <2>5
  <2>11. Attaches(c)' /\ LeavesOut(c)'
    BY <1>1, <1>2, <2>7, <2>8, <2>9, <2>10, AttachesStill DEF OnlyAt, ToImport
  <2> QED
    BY <1>1, <1>2, <2>11 DEF OnItsWay, OnlyAt
<1>3. CASE cmd[c].op = "detach" /\ Empties(c)
  <2>1. cmd'[c].arg \in cmd'[c].missed
    BY <1>1, <1>3 DEF Object, OnlyAt
  <2>2. PortNum(cmd'[c].arg) = PortNum(cmd[c].arg)
    BY <1>1 DEF OnlyAt
  <2> QED
    BY <1>1, <1>3, <2>1, <2>2 DEF OnItsWay, OnlyAt, Empties
<1>4. CASE cmd[c].op = "port"
  BY <1>1, <1>4 DEF OnItsWay, OnlyAt
<1> QED
  BY <1>2, <1>3, <1>4 DEF OnItsWay

\* There is a free port, and the first of them is one.
LEMMA RefreshAlone ==
  ASSUME VhciInv, AloneInv, NEW c \in Cmds, Refresh(c), OnItsWay(c)
  PROVE  OnItsWay(c)'
<1>5. CASE /\ cmd'[c].at = "next" /\ cmd'[c].missed = cmd[c].missed \cup {Object(c)}
           /\ cmd'[c].emptied = cmd[c].emptied
  BY <1>5, MissedAlone
<1> SUFFICES ASSUME ~(/\ cmd'[c].at = "next" /\ cmd'[c].missed = cmd[c].missed \cup {Object(c)}
                      /\ cmd'[c].emptied = cmd[c].emptied)
             PROVE  OnItsWay(c)'
  BY <1>5
<1>1. /\ cmd[c].at = "refresh" /\ OnlyAt(c) /\ Unnoted(c) /\ Dev(c)' = Dev(c) /\ port' = port /\ used' = used
      /\ \/ cmd[c].op = "detach" /\ cmd'[c].at = "detach"
         \/ /\ cmd[c].op \notin {"detach", "port"} /\ FreePorts(c) # {}
            /\ cmd'[c].at = "attach"
            /\ cmd'[c].port = CHOOSE p \in FreePorts(c) : \A q \in FreePorts(c) : p <= q
         \/ /\ cmd[c].op = "port" \/ FreePorts(c) = {}
            /\ cmd[c].op # "detach" /\ cmd'[c].at = "next"
  BY RefreshDoes DEF VhciInv, Dev, OnlyAt
<1>2. CASE cmd[c].op \in {"attach", "attachall"} /\ Attaches(c) /\ LeavesOut(c)
  <2>1. FreePorts(c) = Free
    BY <1>1, <1>2 DEF Attaches, FreePorts, Free
  <2>2. /\ cmd[c].i \in 1..Len(cmd[c].devs) /\ cmd[c].i \in Left(c)
        /\ Dev(c) \in Devs \cup {NULL} /\ Dev(c) = cmd[c].devs[cmd[c].i]
    BY <1>1, <1>2, DevsOf DEF AloneInv, Attaches, Dev, Left, ToImport
  <2>3. Dev(c) \in cmd[c].fds
    BY <1>1, <1>2 DEF VhciInv, Brings
  <2>4. Dev(c) \in Devs /\ ~Attached(Dev(c))
    BY <2>2, <2>3 DEF VhciInv, Exclusive, Attached
  <2>5. Dev(c) \in Pending(c)
    BY <2>2, <2>4 DEF Pending
  <2>6. Free # {}
    <3>1. Cardinality(Pending(c)) # 0 /\ Cardinality(Pending(c)) \in Nat
      BY <2>5, PendingIsFinite, FS_EmptySet, FS_CardinalityType
    <3>2. Cardinality(Pending(c)) <= Cardinality(Free)
      BY <1>2 DEF Attaches
    <3>3. Cardinality(Free) # 0
      BY <3>1, <3>2, FreeIsFinite, FS_CardinalityType
    <3> QED
      BY <3>3, FS_EmptySet
  <2>7. cmd'[c].at = "attach" /\ cmd'[c].port \in Free
    <3>1. \E p \in Free : \A q \in Free : p <= q
      BY <2>6, FreeIsFinite, Smallest
    <3>2. (CHOOSE p \in Free : \A q \in Free : p <= q) \in Free
      BY <3>1, Zenon
    <3> QED
      BY <1>1, <1>2, <2>1, <2>6, <3>2
  <2>8. Left(c)' = Left(c)
    BY <1>1, <2>7 DEF Left, OnlyAt, ToImport
  <2>9. /\ \A p \in Ports : port'[p].dev = port[p].dev
        /\ cmd'[c].i <= Len(cmd'[c].devs)
    BY <1>1, <1>2 DEF Attaches, OnlyAt
  <2>10. Attaches(c)' /\ LeavesOut(c)'
    BY <1>1, <1>2, <2>7, <2>8, <2>9, AttachesStill DEF OnlyAt, Unnoted, ToImport
  <2> QED
    BY <1>1, <1>2, <2>10 DEF OnItsWay, OnlyAt
<1>3. CASE cmd[c].op = "detach" /\ Empties(c)
  BY <1>1, <1>3 DEF OnItsWay, OnlyAt, Unnoted, Empties
<1>4. CASE cmd[c].op = "port"
  BY <1>1, <1>4 DEF OnItsWay, OnlyAt
<1> QED
  BY <1>2, <1>3, <1>4 DEF OnItsWay

\* The port that the process has found is still free: one device less, and one port less.
LEMMA AttachAlone ==
  ASSUME VhciInv, AloneInv, NEW c \in Cmds, AttachDevice(c), OnItsWay(c)
  PROVE  OnItsWay(c)'
<1> DEFINE p == cmd[c].port
           d == Dev(c)
<1>1. /\ cmd[c].at = "attach" /\ OnlyAt(c) /\ Unnoted(c) /\ Dev(c)' = d /\ used' = used
      /\ \/ port[p].dev # NULL
         \/ /\ port[p].dev = NULL /\ cmd'[c].at = "truncate"
            /\ AttachToPort(p, d)
  BY AttachDoes DEF VhciInv, Dev, OnlyAt
<1>2. CASE cmd[c].op \in {"attach", "attachall"} /\ Attaches(c) /\ LeavesOut(c)
  <2>1. p \in Free /\ p \in Ports /\ port[p].dev = NULL
    BY <1>1, <1>2 DEF Attaches, Free
  <2>2. cmd'[c].at = "truncate" /\ AttachToPort(p, d)
    BY <1>1, <2>1
  <2>3. /\ cmd[c].i \in 1..Len(cmd[c].devs) /\ cmd[c].i \in Left(c)
        /\ d \in Devs \cup {NULL} /\ d = cmd[c].devs[cmd[c].i]
    BY <1>1, <1>2, DevsOf DEF AloneInv, Attaches, Dev, Left, ToImport
  <2>4. d \in cmd[c].fds
    BY <1>1 DEF VhciInv, Brings
  <2>5. d \in Devs /\ ~Attached(d) /\ d # NULL
    BY <2>3, <2>4 DEF VhciInv, Exclusive, Attached
  <2>6. d \in Pending(c)
    BY <2>3, <2>5 DEF Pending
  <2>7. /\ \A q \in Ports : q # p => port'[q].dev = port[q].dev
        /\ port'[p].dev = d
    BY <2>1, <2>2 DEF AttachToPort, VhciInv, Shapes
  <2> HIDE DEF p, d
  <2>8. Free' = Free \ {p}
    BY <2>1, <2>5, <2>7 DEF Free
  <2>9. \A e : e # NULL => (Attached(e)' <=> Attached(e) \/ e = d)
    BY <2>1, <2>7 DEF Attached
  <2>10. Left(c)' = Left(c) \ {cmd[c].i}
    BY <1>1, <2>2, <2>3 DEF Left, OnlyAt, ToImport
  <2>11. Pending(c)' \subseteq Pending(c) \ {d}
    <3>1. ASSUME NEW e \in Devs, ~Attached(e)', NEW j \in Left(c)', cmd'[c].devs[j] = e
          PROVE  e \in Pending(c) \ {d}
      <4>1. e # NULL
        BY VhciAssumption
      <4>2. ~Attached(e) /\ e # d
        BY <2>9, <3>1, <4>1
      <4>3. j \in Left(c) /\ cmd[c].devs[j] = e
        BY <1>1, <2>10, <3>1 DEF OnlyAt
      <4> QED
        BY <4>2, <4>3 DEF Pending
    <3> QED
      BY <3>1 DEF Pending
  <2>12. Cardinality(Pending(c)') <= Cardinality(Free')
    <3>1. /\ IsFiniteSet(Pending(c)) /\ Cardinality(Pending(c)) \in Nat
          /\ IsFiniteSet(Free) /\ Cardinality(Free) \in Nat
      BY PendingIsFinite, FreeIsFinite, FS_CardinalityType
    <3>2. /\ IsFiniteSet(Pending(c) \ {d})
          /\ Cardinality(Pending(c) \ {d}) = Cardinality(Pending(c)) - 1
      BY <2>6, <3>1, FS_RemoveElement
    <3>3. Cardinality(Free') = Cardinality(Free) - 1
      BY <2>1, <2>8, <3>1, FS_RemoveElement
    <3>4. /\ Cardinality(Pending(c)') <= Cardinality(Pending(c) \ {d})
          /\ IsFiniteSet(Pending(c)')
      BY <2>11, <3>2, FS_Subset
    <3>5. Cardinality(Pending(c)') \in Nat
      BY <3>4, FS_CardinalityType
    <3>6. Cardinality(Pending(c)) <= Cardinality(Free)
      BY <1>2 DEF Attaches
    <3> QED
      BY <3>1, <3>2, <3>3, <3>4, <3>5, <3>6
  <2>13. \A e \in Pending(c)' : e \notin used'
    BY <1>1, <1>2, <2>11 DEF Attaches, d
  <2>14. ASSUME NEW j \in 1..Len(cmd[c].devs), j \notin Left(c)'
         PROVE  \/ cmd[c].devs[j] \in {NULL} \cup cmd[c].missed
                \/ \E q \in Ports : port'[q].dev = cmd[c].devs[j]
    <3>1. CASE j = cmd[c].i
      BY <2>1, <2>3, <2>7, <3>1
    <3>2. CASE j # cmd[c].i
      <4>1. \/ cmd[c].devs[j] \in {NULL} \cup cmd[c].missed
            \/ cmd[c].devs[j] # NULL /\ Attached(cmd[c].devs[j])
        BY <1>2, <2>10, <2>14, <3>2 DEF Attaches
      <4>2. CASE cmd[c].devs[j] # NULL /\ Attached(cmd[c].devs[j])
        <5>1. PICK q \in Ports : port[q].dev = cmd[c].devs[j]
          BY <4>2 DEF Attached
        <5>2. q # p
          BY <2>1, <4>2, <5>1
        <5> QED
          BY <2>7, <5>1, <5>2
      <4> QED
        BY <4>1, <4>2
    <3> QED
      BY <3>1, <3>2
  <2>15. (\A j \in 1..Len(cmd[c].devs) :
            j \notin Left(c) => \/ cmd[c].devs[j] \in {NULL} \cup cmd[c].missed
                                \/ Attached(cmd[c].devs[j]))'
    BY <1>1, <2>14 DEF Attached, OnlyAt, Unnoted
  <2>16. cmd'[c].i <= Len(cmd'[c].devs)
    BY <1>1, <1>2 DEF Attaches, OnlyAt
  <2>17. Attaches(c)'
    BY <2>2, <2>12, <2>13, <2>15, <2>16 DEF Attaches, ToImport
  <2>18. ASSUME NEW e \in cmd[c].missed
         PROVE  /\ ~\E q \in Ports : port'[q].dev = e
                /\ \A j \in Left(c)' : cmd[c].devs[j] # e
    <3>1. ~Attached(e) /\ e # d
      BY <1>2, <2>3 DEF LeavesOut
    <3> QED
      BY <1>2, <2>7, <2>10, <3>1 DEF LeavesOut, Attached
  <2>19. Omitted(cmd[c])' = Omitted(cmd[c])
    BY <1>1 DEF Omitted, Asked, OnlyAt
  <2>20. LeavesOut(c)'
    BY <1>1, <1>2, <2>18, <2>19 DEF LeavesOut, Attached, OnlyAt, Unnoted
  <2> QED
    BY <1>1, <1>2, <2>17, <2>20 DEF OnItsWay, OnlyAt
<1>3. CASE cmd[c].op = "port"
  BY <1>1, <1>3 DEF OnItsWay, OnlyAt
<1> QED
  BY <1>1, <1>2, <1>3 DEF OnItsWay, Empties

\* Writing its record, it stays on its way.
LEMMA RecordAlone ==
  ASSUME VhciInv, AloneInv, NEW c \in Cmds, OpenRecord(c) \/ WriteRecord(c), OnItsWay(c)
  PROVE  OnItsWay(c)'
<1>1. PICK to \in {"write", "next"} : Goto(c, to)
  BY DEF OpenRecord, WriteRecord
<1>2. /\ cmd[c].at \in {"truncate", "write"} /\ cmd'[c].at = to /\ OnlyAt(c) /\ Unnoted(c)
      /\ Dev(c)' = Dev(c) /\ port' = port /\ used' = used
  BY <1>1, GotoDoes DEF OpenRecord, WriteRecord, VhciInv, OnlyAt, Dev
<1>3. CASE cmd[c].op \in {"attach", "attachall"} /\ Attaches(c) /\ LeavesOut(c)
  <2>1. Left(c)' = Left(c)
    BY <1>2 DEF Left, OnlyAt, ToImport
  <2>2. /\ \A p \in Ports : port'[p].dev = port[p].dev
        /\ cmd'[c].i <= Len(cmd'[c].devs)
    BY <1>2, <1>3 DEF Attaches, OnlyAt
  <2>3. Attaches(c)' /\ LeavesOut(c)'
    BY <1>2, <1>3, <2>1, <2>2, AttachesStill DEF OnlyAt, Unnoted, ToImport
  <2> QED
    BY <1>2, <1>3, <2>3 DEF OnItsWay, OnlyAt
<1>4. CASE cmd[c].op = "port"
  BY <1>2, <1>4 DEF OnItsWay, OnlyAt
<1> QED
  BY <1>2, <1>3, <1>4 DEF OnItsWay, Empties

\* Detaching its port, it stays on its way.
LEMMA DetachAlone ==
  ASSUME VhciInv, AloneInv, NEW c \in Cmds, DetachDevice(c), OnItsWay(c)
  PROVE  OnItsWay(c)'
<1> DEFINE p == PortNum(cmd[c].arg)
<1>1. /\ cmd[c].at = "detach" /\ cmd'[c].at = "next" /\ OnlyAt(c)
      /\ \/ p \in Ports /\ port' = [port EXCEPT ![p] = Empty] /\ cmd'[c].emptied = p
         \/ p \notin Ports /\ cmd'[c].emptied = cmd[c].emptied
  BY DetachDoes DEF VhciInv
<1>2. PortNum(cmd[c].arg)' = p
  BY <1>1 DEF OnlyAt, PortNum
<1>3. p = PortNum(cmd[c].arg)
  OBVIOUS
<1> HIDE DEF p
<1>6. p \in Ports => p \in Free'
  BY <1>1 DEF Free, Empty, VhciInv, Shapes
<1>4. CASE cmd[c].op = "detach"
  <2>1. cmd[c].emptied = NULL \/ (cmd[c].emptied = p /\ cmd[c].emptied \in Ports)
    BY <1>3, <1>4 DEF OnItsWay, Empties
  <2> QED
    BY <1>1, <1>2, <1>6, <1>4, <2>1 DEF OnItsWay, OnlyAt, Empties
<1>5. CASE cmd[c].op = "port"
  BY <1>1, <1>5 DEF OnItsWay, OnlyAt
<1> QED
  BY <1>1, <1>4, <1>5 DEF OnItsWay, Attaches, ToImport

\* A port is without a device when its status is null, and only then.
LEMMA PhasesKeep ==
  ASSUME VhciInv, Phases, [VhciNext]_vhciVars
  PROVE  Phases'
<1> USE DEF VhciInv
<1>1. ASSUME NEW p, port' = [port EXCEPT ![p] = Empty] PROVE Phases'
  BY <1>1 DEF Phases, Empty, Shapes
<1>2. ASSUME NEW c \in Cmds, AttachDevice(c) PROVE Phases'
  <2>1. CASE port' = port
    BY <2>1 DEF Phases
  <2>2. CASE AttachToPort(cmd[c].port, Dev(c))
    <3>1. Dev(c) # NULL
      BY <1>2 DEF AttachDevice, Brings, Exclusive
    <3> DEFINE new == [dev |-> Dev(c), phase |-> "notassigned"]
    <3>2. new.dev # NULL /\ new.phase # "null"
      BY <3>1
    <3>3. port' = [port EXCEPT ![cmd[c].port] = new]
      BY <2>2 DEF AttachToPort
    <3> HIDE DEF new
    <3> QED
      BY <3>2, <3>3 DEF Phases, Shapes
  <2> QED
    BY <1>2, <2>1, <2>2, AttachDoes
<1>3. ASSUME NEW p \in Ports, Enumerates(p) PROVE Phases'
  <2>1. PICK phase \in {"used", "addressed"} : port' = [port EXCEPT ![p].phase = phase]
    BY <1>3 DEF Enumerates
  <2>2. port[p].phase # "null"
    BY <1>3 DEF Enumerates
  <2>3. port'[p] = [port[p] EXCEPT !.phase = phase]
    BY <2>1 DEF Shapes
  <2>4. port'[p].dev = port[p].dev /\ port'[p].phase = phase
    BY <2>3 DEF Shapes
  <2>5. \A q \in Ports : q # p => port'[q] = port[q]
    BY <2>1 DEF Shapes
  <2> QED
    BY <2>2, <2>4, <2>5 DEF Phases
<1>4. ASSUME NEW c \in Cmds, Runs(c), ~AttachDevice(c) PROVE Phases'
  <2>1. CASE port' = port
    BY <2>1 DEF Phases
  <2>2. CASE DetachDevice(c)
    BY <1>1, <2>1, <2>2 DEF DetachDevice
  <2> QED
    BY <1>4, <2>1, <2>2 DEF Runs, Start, Next, QueryImport, ReadStatus, Refresh, OpenRecord,
       WriteRecord
<1>5. CASE \/ \E d \in Devs : ServerNotices(d)
           \/ UNCHANGED vhciVars
  BY <1>5 DEF ServerNotices, vhciVars, Phases
<1>6. ASSUME NEW p \in Ports, Breaks(p) PROVE Phases'
  BY <1>1, <1>6 DEF Breaks
<1> QED
  BY <1>2, <1>3, <1>4, <1>5, <1>6 DEF VhciNext

\* Where a command goes on from writing its record, or detaching.
LEMMA WritesGo ==
  ASSUME Shapes, NEW c \in Cmds, OpenRecord(c) \/ WriteRecord(c) \/ DetachDevice(c)
  PROVE  /\ \A b \in Cmds \ {c} : cmd'[b] = cmd[b]
         /\ cmd'[c].at # "idle" /\ OnlyAt(c)
<1>1. CASE DetachDevice(c)
  BY <1>1, DetachDoes
<1>2. ASSUME NEW to \in {"write", "next"}, Goto(c, to)
      PROVE  /\ \A b \in Cmds \ {c} : cmd'[b] = cmd[b]
             /\ cmd'[c].at # "idle" /\ OnlyAt(c)
  BY <1>2, GotoDoes
<1> QED
  BY <1>1, <1>2 DEF OpenRecord, WriteRecord

\* Every step keeps what is said of all commands.
LEMMA ToldKeeps ==
  ASSUME VhciInv, AloneInv, [VhciNext]_vhciVars
  PROVE  Told' /\ alone' \subseteq Cmds
<1> USE DEF VhciInv
<1>1. ASSUME NEW c \in Cmds, \A b \in Cmds \ {c} : cmd'[b] = cmd[b],
             alone' \subseteq alone \cup {c}, cmd'[c].at # "idle",
             cmd'[c].i \in Nat \ {0}, Devices(cmd'[c].op, cmd'[c].devs),
             cmd'[c].op = "detach" => cmd'[c].arg \in Nat
      PROVE  Told' /\ alone' \subseteq Cmds
  <2>1. ASSUME NEW b \in Cmds
        PROVE  /\ cmd'[b].at = "idle" =>
                    cmd'[b].i = 1 /\ b \notin alone' /\ cmd'[b].missed = {} /\ cmd'[b].emptied = NULL
               /\ cmd'[b].i \in Nat \ {0} /\ Devices(cmd'[b].op, cmd'[b].devs)
               /\ cmd'[b].op = "detach" => cmd'[b].arg \in Nat
    <3>1. CASE b = c
      BY <1>1, <3>1
    <3>2. CASE b # c
      <4>1. cmd'[b] = cmd[b] /\ (b \in alone' => b \in alone)
        BY <1>1, <3>2
      <4> QED
        BY <4>1, Zenon DEF AloneInv, Told
    <3> QED
      BY <3>1, <3>2
  <2>2. \A op, devs : Devices(op, devs)' = Devices(op, devs)
    BY DEF Devices
  <2> QED
    BY <1>1, <2>1 DEF Told, AloneInv, Devices
<1>2. ASSUME NEW c \in Cmds, \A b \in Cmds \ {c} : cmd'[b] = cmd[b],
             alone' \subseteq alone, cmd'[c].at # "idle", OnlyAt(c)
      PROVE  Told' /\ alone' \subseteq Cmds
  <2>1. /\ cmd'[c].i \in Nat \ {0} /\ Devices(cmd'[c].op, cmd'[c].devs)
        /\ cmd'[c].op = "detach" => cmd'[c].arg \in Nat
    BY <1>2 DEF OnlyAt, AloneInv, Told
  <2> QED
    BY <1>1, <1>2, <2>1
<1>3. ASSUME NEW c \in Cmds, Start(c) PROVE Told' /\ alone' \subseteq Cmds
  <2>1. PICK w \in Wanted :
           /\ cmd'[c].op = w.op /\ cmd'[c].devs = w.devs /\ cmd'[c].arg = w.arg
           /\ cmd'[c].i = cmd[c].i /\ cmd'[c].at \in {"open", "next", "import"}
           /\ alone' = IF Possible(w) THEN alone \cup {c} ELSE alone
           /\ \A b \in Cmds \ {c} : cmd'[b] = cmd[b]
    BY <1>3, StartDoes
  <2>2. /\ cmd'[c].i \in Nat \ {0} /\ Devices(cmd'[c].op, cmd'[c].devs)
        /\ cmd'[c].op = "detach" => cmd'[c].arg \in Nat
    BY <2>1, WantedDevs DEF AloneInv, Told
  <2> QED
    BY <1>1, <2>1, <2>2
<1>4. ASSUME NEW c \in Cmds, Next(c) PROVE Told' /\ alone' \subseteq Cmds
  <2>1. /\ cmd'[c].op = cmd[c].op /\ cmd'[c].devs = cmd[c].devs /\ cmd'[c].arg = cmd[c].arg
        /\ cmd'[c].i = cmd[c].i \/ cmd'[c].i = cmd[c].i + 1
        /\ cmd'[c].at # "idle" /\ alone' = alone
        /\ \A b \in Cmds \ {c} : cmd'[b] = cmd[b]
    BY <1>4, NextDoes
  <2>2. /\ cmd'[c].i \in Nat \ {0} /\ Devices(cmd'[c].op, cmd'[c].devs)
        /\ cmd'[c].op = "detach" => cmd'[c].arg \in Nat
    BY <2>1 DEF AloneInv, Told
  <2> QED
    BY <1>1, <2>1, <2>2
<1>5. ASSUME NEW c \in Cmds,
             \/ QueryImport(c) \/ ReadStatus(c) \/ Refresh(c) \/ AttachDevice(c)
             \/ OpenRecord(c) \/ WriteRecord(c) \/ DetachDevice(c)
      PROVE  Told' /\ alone' \subseteq Cmds
  <2>1. /\ \A b \in Cmds \ {c} : cmd'[b] = cmd[b]
        /\ cmd'[c].at # "idle" /\ OnlyAt(c)
    <3>1. CASE QueryImport(c) \/ ReadStatus(c)
      BY <3>1, ImportDoes, StatusDoes
    <3>2. CASE Refresh(c) \/ AttachDevice(c)
      BY <3>2, RefreshDoes, AttachDoes
    <3>3. CASE OpenRecord(c) \/ WriteRecord(c) \/ DetachDevice(c)
      BY <3>3, WritesGo
    <3> QED
      BY <1>5, <3>1, <3>2, <3>3
  <2>2. alone' \subseteq alone
    BY <1>5 DEF QueryImport, ReadStatus, Refresh, AttachDevice, OpenRecord, WriteRecord,
       DetachDevice, Disturbs, Undisturbed
  <2> QED
    BY <1>2, <2>1, <2>2
<1>6. CASE \/ \E p \in Ports : Enumerates(p) \/ Breaks(p)
           \/ \E d \in Devs : ServerNotices(d)
           \/ UNCHANGED vhciVars
  <2>1. cmd' = cmd /\ alone' \subseteq alone
    BY <1>6 DEF Enumerates, Breaks, ServerNotices, Undisturbed, Disturbs, vhciVars
  <2> QED
    BY <2>1 DEF AloneInv, Told
<1> QED
  BY <1>3, <1>4, <1>5, <1>6 DEF VhciNext, Runs

\* Who is undisturbed after a step made it, or sees its own record and the ports as before.
LEMMA WhoIsAlone ==
  ASSUME VhciInv, AloneInv, NEW c \in Cmds, c \in alone', [VhciNext]_vhciVars
  PROVE  \/ Runs(c)
         \/ /\ c \in alone /\ cmd'[c] = cmd[c] /\ used' \subseteq used
            /\ \A p \in Ports : port'[p].dev = port[p].dev
<1> USE DEF VhciInv
<1>1. ASSUME NEW b \in Cmds, Runs(b), b # c
      PROVE  /\ c \in alone /\ cmd'[c] = cmd[c] /\ used' = used /\ port' = port
  <2>1. cmd'[c] = cmd[c]
    <3>1. CASE Start(b) \/ Next(b) \/ QueryImport(b)
      BY <1>1, <3>1, StartDoes, NextDoes, ImportDoes
    <3>2. CASE ReadStatus(b) \/ Refresh(b) \/ AttachDevice(b)
      BY <1>1, <3>2, StatusDoes, RefreshDoes, AttachDoes
    <3>3. CASE OpenRecord(b) \/ WriteRecord(b) \/ DetachDevice(b)
      BY <1>1, <3>3, WritesGo
    <3> QED
      BY <1>1, <3>1, <3>2, <3>3 DEF Runs
  <2>2. CASE Start(b)
    <3>1. alone' \subseteq alone \cup {b} /\ used' = used /\ port' = port
      BY <2>2, StartDoes
    <3> QED
      BY <1>1, <2>1, <3>1
  <2>3. CASE \/ Next(b) \/ ReadStatus(b) \/ Refresh(b) \/ OpenRecord(b) \/ WriteRecord(b)
    BY <2>1, <2>3 DEF Next, ReadStatus, Refresh, OpenRecord, WriteRecord, Undisturbed
  <2>4. CASE QueryImport(b) \/ AttachDevice(b) \/ DetachDevice(b)
    <3>1. ~Disturbs(b)
      BY <1>1 DEF Disturbs
    <3> QED
      BY <2>1, <2>4, <3>1 DEF QueryImport, AttachDevice, DetachDevice
  <2> QED
    BY <1>1, <2>2, <2>3, <2>4 DEF Runs
<1>2. ASSUME NEW p \in Ports, Enumerates(p)
      PROVE  /\ c \in alone /\ cmd'[c] = cmd[c] /\ used' \subseteq used
             /\ \A q \in Ports : port'[q].dev = port[q].dev
  <2>1. PICK phase \in {"used", "addressed"} : port' = [port EXCEPT ![p].phase = phase]
    BY <1>2 DEF Enumerates
  <2>2. port'[p] = [port[p] EXCEPT !.phase = phase]
    BY <2>1 DEF Shapes
  <2>3. port'[p].dev = port[p].dev
    BY <2>2 DEF Shapes
  <2>4. \A q \in Ports : q # p => port'[q] = port[q]
    BY <2>1 DEF Shapes
  <2> QED
    BY <1>2, <2>3, <2>4 DEF Enumerates, Undisturbed
<1>3. ASSUME NEW p \in Ports, Breaks(p) PROVE FALSE
  BY <1>3, VhciAssumption DEF Breaks, Disturbs
<1>4. CASE \/ \E d \in Devs : ServerNotices(d)
           \/ UNCHANGED vhciVars
  BY <1>4 DEF ServerNotices, Undisturbed, vhciVars
<1> QED
  BY <1>1, <1>2, <1>3, <1>4 DEF VhciNext

\* Every step keeps AloneInv.
LEMMA AloneStep ==
  ASSUME VhciInv, AloneInv, [VhciNext]_vhciVars
  PROVE  AloneInv'
<1> USE DEF VhciInv
<1>1. Phases' /\ Told' /\ alone' \subseteq Cmds
  BY PhasesKeep, ToldKeeps DEF AloneInv
<1>2. ASSUME NEW c \in alone' PROVE OnItsWay(c)'
  <2>1. c \in Cmds
    BY <1>1
  <2>2. ASSUME c \in alone, cmd'[c] = cmd[c], used' \subseteq used,
               \A p \in Ports : port'[p].dev = port[p].dev
        PROVE  OnItsWay(c)'
    <3>1. OnItsWay(c)
      BY <1>2, <2>2, Zenon DEF AloneInv
    <3> QED
      BY <2>2, <3>1, OthersLeave
  <2>3. CASE Start(c)
    BY <2>1, <2>3, StartAlone
  <2>4. ASSUME Runs(c), ~Start(c) PROVE OnItsWay(c)'
    <3>1. alone' \subseteq alone
      BY <2>4 DEF Runs, Next, QueryImport, ReadStatus, Refresh, AttachDevice, OpenRecord,
         WriteRecord, DetachDevice, Disturbs, Undisturbed
    <3>2. OnItsWay(c)
      BY <1>2, <3>1, Zenon DEF AloneInv
    <3> QED
      BY <1>2, <2>1, <2>4, <3>2, NextAlone, ImportAlone, StatusAlone, RefreshAlone,
         AttachAlone, RecordAlone, DetachAlone, Zenon DEF Runs
  <2> QED
    BY <1>2, <2>1, <2>2, <2>3, <2>4, WhoIsAlone
<1> QED
  BY <1>1, <1>2, Zenon DEF AloneInv

\* The lemma that the theorem ends in: a process that is over has left nothing.
LEMMA OverLeavesNothing ==
  ASSUME AloneInv, NEW c \in Cmds, Over(c), Attaches(c)
  PROVE  \A j \in 1..Len(cmd[c].devs) : j \notin Left(c)
<1>1. Len(cmd[c].devs) \in Nat /\ cmd[c].i \in Nat \ {0}
  BY DevsOf DEF AloneInv
<1>2. cmd[c].i >= Len(cmd[c].devs)
  BY DEF Attaches, Over
<1> QED
  BY <1>1, <1>2 DEF Left, ToImport, Over

\* What it attached, of what was asked.
LEMMA AttachedOutcome ==
  ASSUME VhciInv, AloneInv, NEW c \in Cmds, Over(c), NEW d \in Asked(cmd[c]),
         cmd[c].op \in {"attach", "attachall"}, Attaches(c), LeavesOut(c)
  PROVE  Attached(d) <=> /\ d \notin cmd[c].missed
                         /\ cmd[c].op = "attachall" => ~Behind(d)
<1>1. d \in cmd[c].missed => ~Attached(d)
  BY DEF LeavesOut
<1>2. ASSUME NEW j \in 1..Len(cmd[c].devs), cmd[c].devs[j] = d, d # NULL, d \notin cmd[c].missed
      PROVE  Attached(d)
  BY <1>2, OverLeavesNothing DEF Attaches
<1>3. ASSUME d \in Omitted(cmd[c]), d # NULL PROVE ~Attached(d)
  BY <1>3 DEF LeavesOut, VhciInv, Exclusive, Attached
<1>4. Devices(cmd[c].op, cmd[c].devs)
  BY DEF AloneInv, Told
<1>5. CASE cmd[c].op = "attach"
  <2>1. PICK j \in 1..Len(cmd[c].devs) : cmd[c].devs[j] = d
    BY <1>5 DEF Asked
  <2>2. d # NULL
    BY <1>4, <1>5, <2>1 DEF Devices
  <2> QED
    BY <1>1, <1>2, <1>5, <2>1, <2>2
<1>6. CASE cmd[c].op = "attachall"
  <2>1. cmd[c].devs = ListAsRead
    BY <1>4, <1>6 DEF Devices
  <2>2. PICK i \in 1..Len(List) : List[i] = d
    BY <1>6 DEF Asked
  <2>3. d # NULL
    BY <2>2, ListRead
  <2>4. CASE Behind(d)
    <3>1. ListAsRead[i] = NULL
      BY <2>2, <2>4, ListRead
    <3>2. ASSUME NEW j \in 1..Len(cmd[c].devs), cmd[c].devs[j] = d PROVE FALSE
      <4>1. j \in 1..Len(List) /\ ListAsRead[j] = List[i]
        BY <2>1, <2>2, <3>2, ListRead
      <4>2. j = i
        BY <4>1, ListRead
      <4> QED
        BY <2>3, <3>1, <4>1, <4>2, <2>2
    <3>3. d \in Omitted(cmd[c])
      BY <3>2 DEF Omitted
    <3> QED
      BY <1>3, <1>6, <2>3, <2>4, <3>3
  <2>5. CASE ~Behind(d)
    <3>1. i \in 1..Len(cmd[c].devs) /\ cmd[c].devs[i] = d
      BY <2>1, <2>2, <2>5, ListRead
    <3> QED
      BY <1>1, <1>2, <2>3, <2>5, <3>1
  <2> QED
    BY <2>4, <2>5
<1> QED
  BY <1>5, <1>6

\* What it detached.
LEMMA DetachedOutcome ==
  ASSUME AloneInv, NEW c \in Cmds, Over(c), cmd[c].op = "detach", Empties(c)
  PROVE  /\ cmd[c].arg \in Ports \ cmd[c].missed => port[cmd[c].arg].dev = NULL
         /\ cmd[c].emptied \in {NULL, cmd[c].arg} \/ Wraps(cmd[c].arg)
<1> DEFINE n == cmd[c].arg
<1>1. n \in Nat
  BY DEF AloneInv, Told
<1>2. /\ PortNum(n) \in Ports => PortNum(n) \in Free \/ n \in cmd[c].missed
      /\ cmd[c].emptied = NULL \/ (cmd[c].emptied = PortNum(n) /\ cmd[c].emptied \in Ports)
  BY DEF Empties, Over
<1> HIDE DEF n
<1>3. n \in Ports => PortNum(n) = n
  BY <1>1, VhciAssumption DEF Ports, PortNum
<1>4. n \in Ports \ cmd[c].missed => port[n].dev = NULL
  BY <1>2, <1>3 DEF Free
<1>5. cmd[c].emptied \in {NULL, n} \/ Wraps(n)
  BY <1>2, <1>3 DEF Wraps
<1> QED
  BY <1>4, <1>5 DEF n

\* What a command comes to that nobody disturbed, with the devices asked for free and ports for
\* all of them: attach and attachall (attach_device, attach_exported_devices) attach exactly
\* the devices asked for but those behind one with interfaces on the list and those for which
\* the driver could not be opened, and detach (detach_port) empties the port asked for and no
\* other, but for a number that 8 bits cut to one; for any number of processes, ports, devices.
THEOREM OutcomeOfAlone == VhciSpec => []AloneOutcome
<1>1. VhciInit => AloneInv
  <2> SUFFICES ASSUME VhciInit PROVE AloneInv
    OBVIOUS
  <2>1. /\ \A c \in Cmds : cmd[c] = NewCmd
        /\ \A p \in Ports : port[p] = Empty
        /\ alone = {}
    BY DEF VhciInit
  <2>2. /\ NewCmd.i = 1 /\ NewCmd.op = "none" /\ Devices(NewCmd.op, NewCmd.devs)
        /\ NewCmd.missed = {} /\ NewCmd.emptied = NULL
    <3> DEFINE s == <<>>
    <3>1. NewCmd = [at |-> "idle", op |-> "none", devs |-> s, i |-> 1, arg |-> NULL,
                    fds |-> {}, idev |-> NULL, port |-> NULL, missed |-> {}, emptied |-> NULL]
      BY DEF NewCmd
    <3>2. s \in Seq(Devs \cup {NULL}) /\ Len(s) = 0
      BY EmptySeq
    <3> HIDE DEF s
    <3>3. Devices("none", s)
      BY <3>2 DEF Devices
    <3> QED
      BY <3>1, <3>3
  <2>3. Empty.dev = NULL /\ Empty.phase = "null"
    BY DEF Empty
  <2> HIDE DEF NewCmd
  <2> QED
    BY <2>1, <2>2, <2>3 DEF AloneInv, Phases, Told
<1>2. VhciInv /\ AloneInv /\ [VhciNext]_vhciVars => AloneInv'
  BY AloneStep
<1>3. VhciInv /\ AloneInv => AloneOutcome
  <2> SUFFICES ASSUME VhciInv, AloneInv, NEW c \in alone, Over(c)
               PROVE  /\ \A d \in Asked(cmd[c]) :
                           Attached(d) <=> /\ d \notin cmd[c].missed
                                           /\ cmd[c].op = "attachall" => ~Behind(d)
                      /\ cmd[c].op = "detach" =>
                           /\ cmd[c].arg \in Ports \ cmd[c].missed => port[cmd[c].arg].dev = NULL
                           /\ cmd[c].emptied \in {NULL, cmd[c].arg} \/ Wraps(cmd[c].arg)
    BY Zenon DEF AloneOutcome
  <2>1. OnItsWay(c) /\ c \in Cmds
    BY DEF AloneInv
  <2>2. CASE cmd[c].op \in {"attach", "attachall"} /\ Attaches(c) /\ LeavesOut(c)
    BY <2>1, <2>2, AttachedOutcome
  <2>3. CASE cmd[c].op = "detach" /\ Empties(c)
    <3>1. Asked(cmd[c]) = {}
      <4>1. cmd[c].devs = <<>> /\ Len(cmd[c].devs) = 0
        BY <2>1, <2>3 DEF AloneInv, Told, Devices
      <4> QED
        BY <2>3, <4>1 DEF Asked
    <3> QED
      BY <2>1, <2>3, <3>1, DetachedOutcome
  <2>4. CASE cmd[c].op = "port"
    <3>1. Asked(cmd[c]) = {}
      <4>1. cmd[c].devs = <<>> /\ Len(cmd[c].devs) = 0
        BY <2>1, <2>4 DEF AloneInv, Told, Devices
      <4> QED
        BY <2>4, <4>1 DEF Asked
    <3> QED
      BY <2>4, <3>1
  <2> QED
    BY <2>1, <2>2, <2>3, <2>4, Zenon DEF OnItsWay
<1> QED
  BY <1>1, <1>2, <1>3, VhciInvHolds, PTL DEF VhciSpec

=============================================================================
