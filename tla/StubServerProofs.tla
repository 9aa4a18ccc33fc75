-------------------------- MODULE StubServerProofs --------------------------
(***************************************************************************)
(* Proofs about the server with the touch pad, for every set of            *)
(* connections, every number of requests and every length of the           *)
(* enumeration: the device has one client at a time, the parts of a        *)
(* session come and go together, no request is forgotten, and a session    *)
(* in which nothing goes wrong outside of the server goes on.              *)
(*                                                                         *)
(* SessionIsWhole is not inductive: it does not say that the connection a  *)
(* handler is blocked on has no session yet, nor that nothing is exported  *)
(* while export_device waits.  SessionInv adds that, and the types that    *)
(* tell a list of requests from NULL.  WaitingInv adds to WaitingIsListed  *)
(* that a connection has requests in its session only, and StreamTypes     *)
(* that requests are on their way in the order of their numbers.           *)
(*                                                                         *)
(* OrderlySurvives, PadOneAheadAtMost and EnumerationAnswersMatch depend   *)
(* on each other: the numbers match while the application keeps pace, and  *)
(* it keeps pace while the server lives.  ServerInv has them together,     *)
(* over a count of the requests that the one session has read.             *)
(***************************************************************************)
EXTENDS TouchPad, SeqLemmas, FiniteSetTheorems, TLAPS

Pdu == [cmd : {"SUBMIT", "UNLINK"}, seq : Numbers, kind : Kinds \cup {"none"}]

ConnRec == [peer : {"new", "connected", "asking", "attached", "done", "left"},
            here : {"none", "op", "session", "closed"},
            op : {"devlist", "import", "export", NULL},
            issued : Nat, waiting : SUBSET Numbers, up : Seq(Pdu)]

Edev == [exported : BOOLEAN, status : {"AVAILABLE", "USED"},
         client_fd : Conns \cup {NULL}, processing_urbs : (SUBSET Numbers) \cup {NULL}]

SessionTypes ==
  /\ conn \in [Conns -> ConnRec]
  /\ edev \in Edev
  /\ blocked \in [at : {"loop", "op", "accept"}, conn : Conns \cup {NULL}]

\* The parts of a session agree.
Whole ==
  /\ edev.status = "USED" <=> edev.client_fd # NULL
  /\ edev.status = "USED" <=> edev.processing_urbs # NULL
  /\ edev.status = "USED" => edev.exported
  /\ \A c \in Conns : conn[c].here = "session" <=> edev.client_fd = c

\* A handler is blocked on a connection that has no session; export_device is called
\* while nothing is exported.
BlockedOnOp ==
  /\ blocked.at # "loop" => /\ blocked.conn \in Conns
                            /\ conn[blocked.conn].here = "op"
  /\ blocked.at = "accept" => ~edev.exported

SessionInv == SessionTypes /\ Whole /\ BlockedOnOp

(***************************************************************************)
(* What the steps do to a connection.                                      *)
(***************************************************************************)

\* A closed connection, and one that ends in this step, has the type of one.
LEMMA ClosedType == NewConn \in ConnRec /\ ClosedConn \in ConnRec
                    /\ ClosedConn.here = "closed" /\ NewConn.here = "none"
<1>1. NewConn \in ConnRec /\ NewConn.here = "none"
  BY DEF NewConn, ConnRec
<1>2. ClosedConn \in ConnRec /\ ClosedConn.here = "closed"
  BY <1>1 DEF ClosedConn, ConnRec
<1> QED
  BY <1>1, <1>2

\* The device without its client.
LEMMA UnImportedType ==
  ASSUME NEW e \in Edev
  PROVE  LET f == UnImported(e)
         IN  /\ f \in Edev /\ f.exported = e.exported
             /\ f.status = "AVAILABLE" /\ f.client_fd = NULL /\ f.processing_urbs = NULL
  BY DEF UnImported, Edev

\* A step that gives one connection another record and leaves the rest of the session
\* as it is keeps the invariant if the record has the same state of the server's side.
LEMMA SameSide ==
  ASSUME SessionInv, NEW c \in Conns, NEW r \in ConnRec, r.here = conn[c].here,
         conn' = [conn EXCEPT ![c] = r], UNCHANGED <<edev, blocked>>
  PROVE  SessionInv'
<1>1. SessionTypes'
  BY DEF SessionInv, SessionTypes
<1>2. \A d \in Conns : conn'[d].here = conn[d].here
  BY DEF SessionInv, SessionTypes
<1>3. Whole'
  BY <1>2 DEF SessionInv, Whole
<1>4. BlockedOnOp'
  BY <1>2 DEF SessionInv, BlockedOnOp
<1> QED
  BY <1>1, <1>3, <1>4 DEF SessionInv

\* Closing a connection on which a handler is blocked, and going back to the loop.
LEMMA ClosesOp ==
  ASSUME StubAssumption, SessionInv, NEW c \in Conns, blocked.at # "loop", blocked.conn = c,
         CloseConn(c), blocked' = Loop, UNCHANGED edev
  PROVE  SessionInv'
<1>1. SessionTypes'
  BY ClosedType DEF SessionInv, SessionTypes, CloseConn, Loop
<1>2. edev.client_fd # c /\ conn[c].here = "op"
  BY DEF SessionInv, BlockedOnOp, Whole
<1>3. Whole'
  BY <1>2, ClosedType DEF SessionInv, SessionTypes, Whole, CloseConn
<1>4. BlockedOnOp'
  BY DEF BlockedOnOp, Loop
<1> QED
  BY <1>1, <1>3, <1>4 DEF SessionInv

\* un_imported_dev leaves no part of the session.
LEMMA EndsSession ==
  ASSUME StubAssumption, SessionInv, InLoop, NEW c \in Conns, edev.client_fd = c, UnImport(c),
         UNCHANGED blocked
  PROVE  SessionInv'
<1>1. edev' \in Edev /\ edev'.status = "AVAILABLE" /\ edev'.client_fd = NULL
      /\ edev'.processing_urbs = NULL
  BY UnImportedType DEF SessionInv, SessionTypes, UnImport
<1>2. SessionTypes'
  BY <1>1, ClosedType DEF SessionInv, SessionTypes, UnImport, CloseConn
<1>3. \A d \in Conns : conn'[d].here # "session"
  BY ClosedType DEF SessionInv, SessionTypes, Whole, UnImport, CloseConn
<1>4. Whole'
  BY <1>1, <1>3 DEF Whole, StubAssumption
<1>5. BlockedOnOp'
  BY DEF BlockedOnOp, InLoop
<1> QED
  BY <1>2, <1>4, <1>5 DEF SessionInv

\* What a connection's record is made of.
LEMMA Fields ==
  ASSUME SessionTypes, NEW c \in Conns
  PROVE  /\ conn[c] \in ConnRec
         /\ conn[c].issued \in Nat /\ conn[c].waiting \subseteq Numbers /\ conn[c].up \in Seq(Pdu)
  BY DEF SessionTypes, ConnRec

(***************************************************************************)
(* What a client does to the record of its connection, k before and r      *)
(* after the step.                                                         *)
(***************************************************************************)

SameData(k, r) == r.here = k.here /\ r.issued = k.issued /\ r.waiting = k.waiting /\ r.up = k.up

Talks(k, r) == /\ SameData(k, r)
               /\ k.peer \in {"new", "connected"} /\ r.peer \in {"connected", "asking"}
               /\ irregular' = irregular

Leaves(k, r) == SameData(k, r) /\ r.peer = "left" /\ Blames({"disorder"})

Asks(k, r) == /\ k.peer = "attached" /\ r.peer = "attached" /\ r.here = k.here
              /\ Cardinality(k.waiting) < Depth(k.issued + 1)
              /\ r.issued = k.issued + 1
              /\ r.waiting = k.waiting \cup {k.issued + 1}
              /\ \E p \in Pdu : p.cmd = "SUBMIT" /\ p.seq = k.issued + 1 /\ r.up = Append(k.up, p)
              /\ irregular' = irregular

Cancels(k, r) == /\ k.peer = "attached" /\ r.peer = "attached" /\ r.here = k.here
                 /\ r.issued = k.issued /\ r.waiting = k.waiting
                 /\ \E p \in Pdu : p.cmd # "SUBMIT" /\ r.up = Append(k.up, p)
                 /\ irregular' = irregular

\* A client's step changes the record of its connection in one of these ways, and nothing
\* else.
LEMMA ClientChanges ==
  ASSUME StubAssumption, SessionTypes, NEW c \in Conns, Client(c)
  PROVE  /\ UNCHANGED <<fate, blocked, listening, edev, recv_seqnum, to_dev, from_dev, pad_sock>>
         /\ \E r \in ConnRec :
              /\ conn' = [conn EXCEPT ![c] = r] /\ r.here = conn[c].here
              /\ \/ Talks(conn[c], r) \/ Leaves(conn[c], r)
                 \/ Asks(conn[c], r) \/ Cancels(conn[c], r)
<1> DEFINE k == conn[c]
           Same == UNCHANGED <<fate, blocked, listening, edev, recv_seqnum, to_dev, from_dev,
                               pad_sock>>
           Way(r) == \/ Talks(k, r) \/ Leaves(k, r) \/ Asks(k, r) \/ Cancels(k, r)
<1>0. k \in ConnRec /\ k.issued \in Nat /\ k.waiting \subseteq Numbers /\ k.up \in Seq(Pdu)
  BY Fields
<1>f. conn \in [Conns -> ConnRec]
  BY DEF SessionTypes
<1>s. SUFFICES Same /\ \E r \in ConnRec : conn' = [conn EXCEPT ![c] = r] /\ r.here = k.here /\ Way(r)
  OBVIOUS
<1>1. CASE Connect(c)
  <2> DEFINE r == [k EXCEPT !.peer = "connected"]
  <2>1. r \in ConnRec /\ SameData(k, r) /\ r.peer = "connected"
    BY <1>0 DEF ConnRec, SameData
  <2>2. conn' = [conn EXCEPT ![c] = r] /\ k.peer = "new" /\ irregular' = irregular /\ Same
    BY <1>1, <1>f DEF Connect, Peer
  <2> HIDE DEF r
  <2>3. Talks(k, r) /\ r.here = k.here
    BY <2>1, <2>2 DEF Talks, SameData
  <2> QED
    BY <2>1, <2>2, <2>3
<1>2. ASSUME NEW op \in {"devlist", "import", "export"}, AskFor(c, op)
      PROVE  Same /\ \E r \in ConnRec : conn' = [conn EXCEPT ![c] = r] /\ r.here = k.here /\ Way(r)
  <2> DEFINE r == [k EXCEPT !.peer = "asking", !.op = op]
  <2>1. r \in ConnRec /\ SameData(k, r) /\ r.peer = "asking"
    BY <1>0 DEF ConnRec, SameData
  <2>2. conn' = [conn EXCEPT ![c] = r] /\ k.peer = "connected" /\ irregular' = irregular /\ Same
    BY <1>2, <1>f DEF AskFor, Peer
  <2> HIDE DEF r
  <2>3. Talks(k, r) /\ r.here = k.here
    BY <2>1, <2>2 DEF Talks, SameData
  <2> QED
    BY <2>1, <2>2, <2>3
<1>3. CASE Leave(c)
  <2> DEFINE r == [k EXCEPT !.peer = "left"]
  <2>1. r \in ConnRec /\ SameData(k, r) /\ r.peer = "left"
    BY <1>0 DEF ConnRec, SameData
  <2>2. conn' = [conn EXCEPT ![c] = r] /\ Blames({"disorder"}) /\ Same
    BY <1>3, <1>f DEF Leave
  <2> HIDE DEF r
  <2>3. Leaves(k, r) /\ r.here = k.here
    BY <2>1, <2>2 DEF Leaves, SameData
  <2> QED
    BY <2>1, <2>2, <2>3
<1>4. CASE ClientSubmit(c)
  <2> DEFINE n == k.issued + 1
  <2> PICK kind \in Kinds :
        conn' = [conn EXCEPT ![c].issued = n, ![c].waiting = @ \cup {n},
                   ![c].up = Append(@, [cmd |-> "SUBMIT", seq |-> n, kind |-> kind])]
    BY <1>4 DEF ClientSubmit
  <2> DEFINE pdu == [cmd |-> "SUBMIT", seq |-> n, kind |-> kind]
             r == [k EXCEPT !.issued = n, !.waiting = @ \cup {n}, !.up = Append(@, pdu)]
  <2>0. n \in Nat /\ n \in Numbers
    <3>1. n \in Nat /\ 1 <= n /\ n <= MaxSeq[c] /\ MaxSeq[c] \in Nat
      BY <1>0, <1>4 DEF ClientSubmit, StubAssumption
    <3>2. n \in 1..MaxSeq[c]
      BY <3>1
    <3> QED
      BY <3>1, <3>2 DEF Numbers
  <2>1. pdu \in Pdu /\ pdu.cmd = "SUBMIT" /\ pdu.seq = n
    BY <2>0 DEF Pdu
  <2>2. Append(k.up, pdu) \in Seq(Pdu) /\ k.waiting \cup {n} \subseteq Numbers
    BY <1>0, <2>0, <2>1
  <2>3. /\ r \in ConnRec /\ r.here = k.here /\ r.peer = k.peer /\ r.issued = n
        /\ r.waiting = k.waiting \cup {n} /\ r.up = Append(k.up, pdu)
    <3> HIDE DEF n, pdu
    <3> QED
      BY <1>0, <2>0, <2>1, <2>2 DEF ConnRec
  <2>4. conn' = [conn EXCEPT ![c] = r] /\ irregular' = irregular /\ Same
        /\ k.peer = "attached" /\ Cardinality(k.waiting) < Depth(n)
    BY <1>4, <1>f DEF ClientSubmit, Peer
  <2> HIDE DEF r, pdu
  <2>5. Asks(k, r)
    BY <2>1, <2>3, <2>4 DEF Asks
  <2> QED
    BY <2>3, <2>4, <2>5
<1>5. CASE ClientUnlink(c)
  <2> PICK n \in k.waiting :
        conn' = [conn EXCEPT
          ![c].up = Append(@, [cmd |-> "UNLINK", seq |-> n, kind |-> "none"])]
    BY <1>5 DEF ClientUnlink
  <2> DEFINE pdu == [cmd |-> "UNLINK", seq |-> n, kind |-> "none"]
             r == [k EXCEPT !.up = Append(@, pdu)]
  <2>1. pdu \in Pdu /\ pdu.cmd # "SUBMIT" /\ pdu.seq = n
    BY <1>0 DEF Pdu
  <2>2. Append(k.up, pdu) \in Seq(Pdu)
    BY <1>0, <2>1
  <2>3. /\ r \in ConnRec /\ r.here = k.here /\ r.peer = k.peer /\ r.issued = k.issued
        /\ r.waiting = k.waiting /\ r.up = Append(k.up, pdu)
    <3> HIDE DEF pdu
    <3> QED
      BY <1>0, <2>2 DEF ConnRec
  <2>4. conn' = [conn EXCEPT ![c] = r] /\ Same /\ k.peer = "attached" /\ irregular' = irregular
    BY <1>5, <1>f DEF ClientUnlink, Peer
  <2> HIDE DEF r, pdu
  <2>5. Cancels(k, r)
    BY <2>1, <2>3, <2>4 DEF Cancels
  <2> QED
    BY <2>3, <2>4, <2>5
<1> QED
  BY <1>1, <1>2, <1>3, <1>4, <1>5 DEF Client

(***************************************************************************)
(* The steps.                                                              *)
(***************************************************************************)

\* Clients change their side of a connection.
LEMMA ClientKeeps ==
  ASSUME StubAssumption, SessionInv, NEW c \in Conns, Client(c)
  PROVE  SessionInv'
<1>1. PICK r \in ConnRec : conn' = [conn EXCEPT ![c] = r] /\ r.here = conn[c].here
  BY ClientChanges DEF SessionInv
<1>2. UNCHANGED <<edev, blocked>>
  BY ClientChanges DEF SessionInv
<1> QED
  BY <1>1, <1>2, SameSide

\* Accepting a connection: the handler blocks on it, without a session.
LEMMA AcceptKeeps ==
  ASSUME StubAssumption, SessionInv, NEW c \in Conns, Accept(c)
  PROVE  SessionInv'
<1> DEFINE r == [conn[c] EXCEPT !.here = "op"]
<1>1. r \in ConnRec /\ r.here = "op"
  BY Fields DEF SessionInv, ConnRec
<1>2. conn' = [conn EXCEPT ![c] = r] /\ edev' = edev /\ blocked' = [at |-> "op", conn |-> c]
  BY DEF Accept, SessionInv, SessionTypes
<1>3. SessionTypes'
  BY <1>1, <1>2 DEF SessionInv, SessionTypes
<1>4. edev.client_fd # c
  BY DEF Accept, SessionInv, Whole
<1>5. Whole'
  BY <1>1, <1>2, <1>4 DEF SessionInv, SessionTypes, Whole
<1>6. BlockedOnOp'
  BY <1>1, <1>2 DEF SessionInv, SessionTypes, BlockedOnOp
<1> QED
  BY <1>3, <1>5, <1>6 DEF SessionInv

\* The operation that a handler waited for.
LEMMA OperationKeeps ==
  ASSUME StubAssumption, SessionInv, NEW c \in Conns, Operation(c)
  PROVE  SessionInv'
<1>0. blocked = [at |-> "op", conn |-> c] /\ blocked.at = "op" /\ blocked.conn = c
  BY DEF Operation, OpLost, Import, OpReply, Export, Serves
<1>1. CASE OpLost(c)
  BY <1>0, <1>1, ClosesOp DEF OpLost
<1>2. CASE OpReply(c)
  BY <1>0, <1>2, ClosesOp DEF OpReply
<1>3. CASE Export(c)
  <2>1. UNCHANGED <<edev, conn>> /\ ~edev.exported
        /\ blocked' \in {blocked, [at |-> "accept", conn |-> c]}
    BY <1>3 DEF Export
  <2>2. SessionTypes'
    BY <2>1 DEF SessionInv, SessionTypes
  <2>3. Whole'
    BY <2>1 DEF SessionInv, Whole
  <2>4. BlockedOnOp'
    BY <1>0, <2>1 DEF SessionInv, BlockedOnOp
  <2> QED
    BY <2>2, <2>3, <2>4 DEF SessionInv
<1>4. CASE Import(c)
  <2>1. CASE CloseConn(c) /\ UNCHANGED edev
    BY <1>0, <1>4, <2>1, ClosesOp DEF Import
  <2>2. CASE /\ edev' = [edev EXCEPT !.status = "USED", !.client_fd = c,
                                     !.processing_urbs = {}]
             /\ conn' = [conn EXCEPT ![c].here = "session",
                           ![c].peer = IF @ = "left" THEN @ ELSE "attached"]
    <3> DEFINE p == IF conn[c].peer = "left" THEN conn[c].peer ELSE "attached"
               r == [conn[c] EXCEPT !.here = "session", !.peer = p]
    <3>1. r \in ConnRec /\ r.here = "session"
      BY Fields DEF SessionInv, ConnRec
    <3>2. conn' = [conn EXCEPT ![c] = r]
      BY <2>2 DEF SessionInv, SessionTypes
    <3>3. edev' \in Edev /\ edev'.status = "USED" /\ edev'.client_fd = c
          /\ edev'.processing_urbs = {} /\ edev'.exported = edev.exported
      BY <2>2 DEF SessionInv, SessionTypes, Edev
    <3>4. edev.exported /\ edev.client_fd = NULL
      BY <1>4 DEF Import, Free, SessionInv, Whole
    <3>5. \A d \in Conns : conn[d].here # "session"
      BY <3>4 DEF SessionInv, Whole, StubAssumption
    <3>6. SessionTypes'
      BY <1>4, <3>1, <3>2, <3>3 DEF SessionInv, SessionTypes, Import, Loop
    <3>7. \A d \in Conns : conn'[d].here = "session" <=> d = c
      BY <3>1, <3>2, <3>5 DEF SessionInv, SessionTypes
    <3>8. edev'.client_fd # NULL /\ edev'.processing_urbs # NULL
      BY <3>3 DEF StubAssumption
    <3>9. Whole'
      BY <3>3, <3>4, <3>7, <3>8 DEF Whole
    <3>10. BlockedOnOp'
      BY <1>4 DEF BlockedOnOp, Import, Loop
    <3> QED
      BY <3>6, <3>9, <3>10 DEF SessionInv
  <2> QED
    BY <1>4, <2>1, <2>2 DEF Import
<1> QED
  BY <1>1, <1>2, <1>3, <1>4 DEF Operation

\* The application has connected: the device is exported, without a client.
LEMMA ExportedKeeps ==
  ASSUME StubAssumption, SessionInv, Exported
  PROVE  SessionInv'
<1> DEFINE c == blocked.conn
           e == UnImported(edev)
<1>1. c \in Conns /\ conn[c].here = "op" /\ ~edev.exported
  BY DEF Exported, SessionInv, BlockedOnOp
<1>2. \A d \in Conns : conn[d].here # "session"
  BY <1>1 DEF SessionInv, Whole, StubAssumption
<1>3. e \in Edev /\ e.status = "AVAILABLE" /\ e.client_fd = NULL /\ e.processing_urbs = NULL
  BY UnImportedType DEF SessionInv, SessionTypes
<1>4. edev' = [e EXCEPT !.exported = TRUE] /\ CloseConn(c) /\ blocked' = Loop
  BY DEF Exported
<1>5. edev' \in Edev /\ edev'.status = "AVAILABLE" /\ edev'.client_fd = NULL
      /\ edev'.processing_urbs = NULL
  <2> HIDE DEF e
  <2> QED
    BY <1>3, <1>4 DEF Edev
<1>6. SessionTypes'
  BY <1>1, <1>4, <1>5, ClosedType DEF SessionInv, SessionTypes, CloseConn, Loop
<1>7. \A d \in Conns : conn'[d].here # "session"
  BY <1>1, <1>2, <1>4, ClosedType DEF SessionInv, SessionTypes, CloseConn
<1>8. Whole'
  BY <1>5, <1>7 DEF Whole, StubAssumption
<1>9. BlockedOnOp'
  BY <1>4 DEF BlockedOnOp, Loop
<1> QED
  BY <1>6, <1>8, <1>9 DEF SessionInv

\* Answering a request leaves the server's side of the connection.
LEMMA AnsweredType ==
  ASSUME NEW k \in ConnRec, NEW n
  PROVE  Answered(k, n) \in ConnRec /\ Answered(k, n).here = k.here
  BY DEF Answered, ConnRec

\* So does reading one.
LEMMA ReadType ==
  ASSUME SessionTypes, NEW c \in Conns, conn[c].up # <<>>
  PROVE  /\ Read(conn[c]) \in ConnRec /\ Read(conn[c]).here = conn[c].here
         /\ Head(conn[c].up).seq \in Numbers
<1>1. /\ conn[c] \in ConnRec
      /\ Tail(conn[c].up) \in Seq(Pdu) /\ Head(conn[c].up) \in Pdu
  BY Fields
<1>2. Head(conn[c].up).seq \in Numbers
  BY <1>1 DEF Pdu
<1>3. Read(conn[c]) \in ConnRec /\ Read(conn[c]).here = conn[c].here
  BY <1>1 DEF Read, ConnRec
<1> QED
  BY <1>2, <1>3

\* The requests of the client, and its end.
LEMMA ClientPduKeeps ==
  ASSUME StubAssumption, SessionInv, NEW c \in Conns, ClientPdu(c)
  PROVE  SessionInv'
<1> DEFINE n == Head(conn[c].up).seq
           r == Read(conn[c])
<1>0. InLoop /\ edev.client_fd = c
  BY DEF ClientPdu, RecvEof, RecvSubmit, RecvSpecial, RecvInvalid, RecvUnlink, ReadsFrom
<1>1. conn[c].up # <<>> =>
        /\ n \in Numbers /\ r \in ConnRec /\ r.here = conn[c].here
        /\ Answered(r, n) \in ConnRec /\ Answered(r, n).here = conn[c].here
  BY ReadType, AnsweredType DEF SessionInv
<1>2. CASE RecvEof(c)
  BY <1>0, <1>2, EndsSession DEF RecvEof
<1>3. CASE RecvInvalid(c)
  BY <1>0, <1>3, EndsSession DEF RecvInvalid
<1>4. CASE RecvSubmit(c)
  <2> DEFINE urbs == edev.processing_urbs \cup {n}
  <2>1. /\ n \in Numbers /\ r \in ConnRec /\ r.here = conn[c].here
        /\ conn' = [conn EXCEPT ![c] = r] /\ blocked' = blocked
        /\ edev' = [edev EXCEPT !.processing_urbs = urbs]
    BY <1>1, <1>4 DEF RecvSubmit, ReadsFrom, Reads
  <2>2. edev.status = "USED" /\ edev.exported /\ edev.processing_urbs \in SUBSET Numbers
    BY <1>0 DEF SessionInv, SessionTypes, Whole, StubAssumption, Edev
  <2>3. urbs \in SUBSET Numbers /\ urbs # NULL
    BY <2>1, <2>2 DEF StubAssumption
  <2>4. edev' \in Edev /\ edev'.status = "USED" /\ edev'.client_fd = c
        /\ edev'.processing_urbs # NULL /\ edev'.exported = edev.exported
    <3> HIDE DEF urbs
    <3> QED
      BY <1>0, <2>1, <2>2, <2>3 DEF SessionInv, SessionTypes, Edev
  <2>5. SessionTypes'
    BY <2>1, <2>4 DEF SessionInv, SessionTypes
  <2>6. \A d \in Conns : conn'[d].here = conn[d].here
    BY <2>1 DEF SessionInv, SessionTypes
  <2>7. Whole'
    BY <1>0, <2>2, <2>4, <2>6 DEF SessionInv, Whole, StubAssumption
  <2>8. BlockedOnOp'
    BY <1>0, <2>1 DEF BlockedOnOp, InLoop
  <2> QED
    BY <2>5, <2>7, <2>8 DEF SessionInv
<1>5. CASE RecvSpecial(c)
  <2>1. conn[c].up # <<>> /\ blocked' = blocked
    BY <1>5 DEF RecvSpecial, ReadsFrom
  <2>2. \/ conn' = [conn EXCEPT ![c] = Answered(r, n)] /\ UNCHANGED edev
        \/ conn' = [conn EXCEPT ![c] = r] /\ UNCHANGED edev
        \/ UnImport(c)
    BY <1>5 DEF RecvSpecial, Reads
  <2> QED
    BY <1>0, <1>1, <2>1, <2>2, SameSide, EndsSession
<1>6. CASE RecvUnlink(c)
  <2>1. conn[c].up # <<>> /\ conn' = [conn EXCEPT ![c] = Answered(r, n)]
        /\ UNCHANGED <<edev, blocked>>
    BY <1>6 DEF RecvUnlink, ReadsFrom
  <2> QED
    BY <1>1, <2>1, SameSide
<1> QED
  BY <1>2, <1>3, <1>4, <1>5, <1>6 DEF ClientPdu

\* What comes from the application, and its end.
LEMMA DeviceUrbKeeps ==
  ASSUME StubAssumption, SessionInv, DeviceUrb
  PROVE  SessionInv'
<1>1. CASE DeviceEventUnwanted
  BY <1>1 DEF DeviceEventUnwanted, SessionInv, SessionTypes, Whole, BlockedOnOp
<1>2. CASE DeviceHup
  <2> DEFINE e == UnImported(edev)
  <2>1. e \in Edev /\ e.status = "AVAILABLE" /\ e.client_fd = NULL
        /\ e.processing_urbs = NULL
    BY UnImportedType DEF SessionInv, SessionTypes
  <2>2. edev' = [e EXCEPT !.exported = FALSE] /\ blocked' = blocked /\ blocked.at = "loop"
        /\ conn' = [c \in Conns |-> IF edev.client_fd = c THEN ClosedConn ELSE conn[c]]
    BY <1>2 DEF DeviceHup, InLoop
  <2>3. edev' \in Edev /\ edev'.status = "AVAILABLE" /\ edev'.client_fd = NULL
        /\ edev'.processing_urbs = NULL
    <3> HIDE DEF e
    <3> QED
      BY <2>1, <2>2 DEF Edev
  <2>4. SessionTypes'
    BY <2>2, <2>3, ClosedType DEF SessionInv, SessionTypes
  <2>5. \A c \in Conns : conn'[c].here # "session"
    BY <2>2, ClosedType DEF SessionInv, Whole
  <2>6. Whole'
    BY <2>3, <2>5 DEF Whole, StubAssumption
  <2>7. BlockedOnOp'
    BY <2>2 DEF BlockedOnOp
  <2> QED
    BY <2>4, <2>6, <2>7 DEF SessionInv
<1>3. ASSUME NEW c \in Conns, SendRetSubmit(c)
      PROVE  SessionInv'
  <2> DEFINE n == NextAnswer
             r == Answered(conn[c], n)
             urbs == edev.processing_urbs \ {n}
  <2>1. edev.client_fd = c /\ blocked' = blocked /\ blocked.at = "loop"
    BY <1>3 DEF SendRetSubmit, DeviceReady, InLoop
  <2>2. r \in ConnRec /\ r.here = conn[c].here
    BY AnsweredType, Fields DEF SessionInv
  <2>3. conn' \in {conn, [conn EXCEPT ![c] = r]}
    BY <1>3 DEF SendRetSubmit
  <2>4. edev' \in {edev, [edev EXCEPT !.processing_urbs = urbs]}
    BY <1>3 DEF SendRetSubmit
  <2>5. edev.status = "USED" /\ edev.exported /\ edev.processing_urbs \in SUBSET Numbers
    BY <2>1 DEF SessionInv, SessionTypes, Whole, StubAssumption, Edev
  <2>6. urbs \in SUBSET Numbers
    BY <2>5
  <2>7. edev' \in Edev /\ edev'.status = "USED" /\ edev'.client_fd = c
        /\ edev'.processing_urbs \in SUBSET Numbers /\ edev'.exported = edev.exported
    <3> HIDE DEF urbs
    <3> QED
      BY <2>1, <2>4, <2>5, <2>6 DEF SessionInv, SessionTypes, Edev
  <2>8. conn' \in [Conns -> ConnRec] /\ \A d \in Conns : conn'[d].here = conn[d].here
    <3> HIDE DEF r
    <3> QED
      BY <2>2, <2>3 DEF SessionInv, SessionTypes
  <2>9. SessionTypes'
    BY <2>1, <2>7, <2>8 DEF SessionInv, SessionTypes
  <2>10. Whole'
    BY <2>1, <2>5, <2>7, <2>8 DEF SessionInv, Whole, StubAssumption
  <2>11. BlockedOnOp'
    BY <2>1 DEF BlockedOnOp
  <2> QED
    BY <2>9, <2>10, <2>11 DEF SessionInv
<1> QED
  BY <1>1, <1>2, <1>3 DEF DeviceUrb

\* The application touches neither the sessions nor the server's thread.
LEMMA PadKeeps ==
  ASSUME SessionInv, Pad \/ UNCHANGED vars
  PROVE  SessionInv'
<1>1. UNCHANGED <<conn, edev, blocked>>
  <2>1. CASE UNCHANGED vars
    BY <2>1 DEF vars, serverVars
  <2>2. CASE Pad
    BY <2>2 DEF Pad, PadConnect, PadCommand, PadAck, PadMove, PadScroll, PadButton,
                PadGone, Sends
  <2> QED
    BY <2>1, <2>2
<1> QED
  BY <1>1 DEF SessionInv, SessionTypes, Whole, BlockedOnOp

(***************************************************************************)
(* The theorems.                                                           *)
(***************************************************************************)

\* Before anything is exported there is no session.
LEMMA InitSession == StubAssumption /\ Init => SessionInv
<1> SUFFICES ASSUME StubAssumption, Init PROVE SessionInv
  OBVIOUS
<1>1. edev \in Edev /\ edev.status = "AVAILABLE" /\ edev.client_fd = NULL
      /\ edev.processing_urbs = NULL
  BY DEF Init, ServerInit, Edev
<1>2. conn \in [Conns -> ConnRec] /\ \A c \in Conns : conn[c].here = "none"
  BY ClosedType DEF Init, ServerInit
<1>3. SessionTypes /\ BlockedOnOp
  BY <1>1, <1>2 DEF Init, ServerInit, SessionTypes, BlockedOnOp, Loop
<1>4. Whole
  BY <1>1, <1>2 DEF Whole, StubAssumption
<1> QED
  BY <1>3, <1>4 DEF SessionInv

\* Every step keeps the invariant.
LEMMA SessionStep == StubAssumption /\ SessionInv /\ [Next]_vars => SessionInv'
<1> SUFFICES ASSUME StubAssumption, SessionInv, [Next]_vars PROVE SessionInv'
  OBVIOUS
<1>1. CASE ServerStep
  BY <1>1, AcceptKeeps, OperationKeeps, ClientPduKeeps, ExportedKeeps, DeviceUrbKeeps
     DEF ServerStep, ServerNext
<1>2. CASE ClientStep
  BY <1>2, ClientKeeps DEF ClientStep
<1>3. CASE Pad \/ UNCHANGED vars
  BY <1>3, PadKeeps
<1> QED
  BY <1>1, <1>2, <1>3 DEF Next

\* The inductive invariant: types, the parts of a session agree, and a handler is blocked
\* on a connection without a session.
THEOREM SessionInvHolds == Spec => []SessionInv
  BY StubAssumption, InitSession, SessionStep, PTL DEF Spec

\* The device has one client at a time, and its status, its client's socket, its list
\* of requests and the watch on the socket come and go together, whatever clients and
\* the application do and whenever they leave (recv_request_import, un_imported_dev,
\* process_device_urb_test, export_device).
THEOREM SessionAlwaysWhole == Spec => []SessionIsWhole
<1>1. SessionInv => SessionIsWhole
  BY DEF SessionInv, Whole, SessionIsWhole
<1> QED
  BY <1>1, SessionInvHolds, PTL

(***************************************************************************)
(* What is on its way from a client.                                       *)
(***************************************************************************)

\* The requests on their way are in the order of their numbers.
InOrder(up) ==
  \A i, j \in 1..Len(up) :
    i < j /\ up[i].cmd = "SUBMIT" /\ up[j].cmd = "SUBMIT" => up[i].seq < up[j].seq

\* Sending one more.
LEMMA SendOne ==
  ASSUME NEW up \in Seq(Pdu), NEW p \in Pdu
  PROVE  LET more == Append(up, p)
         IN  /\ p.cmd = "SUBMIT" => Submits(more) = Submits(up) \cup {p.seq}
             /\ p.cmd # "SUBMIT" => Submits(more) = Submits(up)
             /\ InOrder(up) /\ (p.cmd = "SUBMIT" => \A n \in Submits(up) : n < p.seq)
                  => InOrder(more)
<1> DEFINE more == Append(up, p)
           Is(q, i) == q[i].cmd = "SUBMIT"
<1>1. Len(up) \in Nat /\ Len(more) = Len(up) + 1 /\ more[Len(up) + 1] = p
      /\ \A i \in 1..Len(up) : more[i] = up[i]
  OBVIOUS
<1>2. \A i \in 1..Len(more) : i \in 1..Len(up) \/ i = Len(up) + 1
  BY <1>1
<1>3. \A i \in 1..Len(up) : i \in 1..Len(more) /\ i < Len(up) + 1
  BY <1>1
<1>4. Len(up) + 1 \in 1..Len(more)
  BY <1>1
<1> HIDE DEF more
<1>5. p.cmd = "SUBMIT" => Submits(more) = Submits(up) \cup {p.seq}
  BY <1>1, <1>2, <1>3, <1>4 DEF Submits
<1>6. p.cmd # "SUBMIT" => Submits(more) = Submits(up)
  BY <1>1, <1>2, <1>3 DEF Submits
<1>7. ASSUME InOrder(up), p.cmd = "SUBMIT" => \A n \in Submits(up) : n < p.seq
      PROVE  InOrder(more)
  <2>1. ASSUME NEW i \in 1..Len(more), NEW j \in 1..Len(more), i < j, Is(more, i), Is(more, j)
        PROVE  more[i].seq < more[j].seq
    <3>1. i \in 1..Len(up) /\ more[i] = up[i]
      BY <1>1, <1>2, <2>1
    <3>2. CASE j \in 1..Len(up)
      BY <1>1, <1>7, <2>1, <3>1, <3>2 DEF InOrder
    <3>3. CASE j = Len(up) + 1
      <4>1. more[j] = p /\ up[i].seq \in Submits(up)
        BY <1>1, <2>1, <3>1, <3>3 DEF Submits
      <4> QED
        BY <1>7, <2>1, <3>1, <4>1
    <3> QED
      BY <1>2, <3>2, <3>3
  <2> QED
    BY <2>1 DEF InOrder
<1> QED
  BY <1>5, <1>6, <1>7 DEF more

\* Reading the first one.
LEMMA ReadOne ==
  ASSUME NEW up \in Seq(Pdu), up # <<>>
  PROVE  /\ Head(up).cmd = "SUBMIT" => Submits(up) = Submits(Tail(up)) \cup {Head(up).seq}
         /\ Head(up).cmd # "SUBMIT" => Submits(up) = Submits(Tail(up))
         /\ InOrder(up) => /\ InOrder(Tail(up))
                           /\ Head(up).cmd = "SUBMIT" =>
                                \A n \in Submits(Tail(up)) : Head(up).seq < n
<1> DEFINE t == Tail(up)
           h == Head(up)
           Is(q, i) == q[i].cmd = "SUBMIT"
<1>1. Len(up) \in Nat \ {0} /\ Len(t) = Len(up) - 1 /\ h = up[1]
      /\ \A i \in 1..Len(t) : t[i] = up[i + 1]
  OBVIOUS
<1>2. 1 \in 1..Len(up) /\ \A i \in 1..Len(up) : i = 1 \/ (i - 1 \in 1..Len(t) /\ t[i - 1] = up[i])
  <2>1. \A i \in 1..Len(up) : i = 1 \/ (i - 1 \in 1..Len(t) /\ (i - 1) + 1 = i)
    BY <1>1
  <2> QED
    BY <1>1, <2>1
<1>3. \A i \in 1..Len(t) : i + 1 \in 1..Len(up) /\ 1 < i + 1 /\ t[i] = up[i + 1]
  BY <1>1
<1> HIDE DEF t, h
<1>4. Submits(t) \subseteq Submits(up)
  BY <1>3 DEF Submits
<1>5. ASSUME NEW n \in Submits(up) PROVE n \in Submits(t) \/ (h.cmd = "SUBMIT" /\ n = h.seq)
  <2>1. PICK i \in 1..Len(up) : Is(up, i) /\ n = up[i].seq
    BY DEF Submits
  <2>2. CASE i = 1
    BY <1>1, <2>1, <2>2
  <2>3. CASE i # 1
    <3>1. i - 1 \in 1..Len(t) /\ t[i - 1] = up[i]
      BY <1>2, <2>3
    <3> QED
      BY <2>1, <3>1 DEF Submits
  <2> QED
    BY <2>2, <2>3
<1>6. h.cmd = "SUBMIT" => h.seq \in Submits(up)
  BY <1>1, <1>2 DEF Submits
<1>7. ASSUME InOrder(up) PROVE InOrder(t)
  <2>1. \A i, j \in 1..Len(t) : i < j => i + 1 < j + 1
    BY <1>1
  <2> QED
    BY <1>3, <1>7, <2>1 DEF InOrder
<1>8. ASSUME InOrder(up), h.cmd = "SUBMIT", NEW n \in Submits(t) PROVE h.seq < n
  <2>1. PICK i \in 1..Len(t) : Is(t, i) /\ n = t[i].seq
    BY DEF Submits
  <2> QED
    BY <1>1, <1>2, <1>3, <1>8, <2>1 DEF InOrder
<1> QED
  BY <1>4, <1>5, <1>6, <1>7, <1>8 DEF t, h

(***************************************************************************)
(* What the server does to the record of a connection.                     *)
(***************************************************************************)

\* It reads, it answers, it goes on from the operation to the session.
Shrinks(k, r) ==
  /\ r.issued = k.issued
  /\ r.waiting \subseteq k.waiting
  /\ r.up = k.up \/ (k.up # <<>> /\ r.up = Tail(k.up))
  /\ r.peer = k.peer \/ (r.peer = "attached" /\ r.here = "session")
  /\ k.here = "session" => r.here = "session"

\* Nothing changes, or everything is lost.
LEMMA ShrinksOrNot ==
  /\ \A k : Shrinks(k, k)
  /\ ClosedConn.peer = "done" /\ ClosedConn.issued = 0 /\ ClosedConn.waiting = {}
  /\ ClosedConn.up = <<>>
  BY DEF Shrinks, ClosedConn, NewConn

\* Reading and answering.
LEMMA ReadAndAnswered ==
  ASSUME NEW k \in ConnRec, NEW n
  PROVE  /\ Shrinks(k, Answered(k, n))
         /\ Answered(k, n).up = k.up /\ Answered(k, n).peer = k.peer
         /\ Answered(k, n).waiting = k.waiting \ {n} /\ Answered(k, n).issued = k.issued
         /\ k.up # <<>> =>
              /\ Shrinks(k, Read(k)) /\ Shrinks(k, Answered(Read(k), n))
              /\ Read(k).up = Tail(k.up) /\ Answered(Read(k), n).up = Tail(k.up)
              /\ Read(k).peer = k.peer /\ Answered(Read(k), n).peer = k.peer
              /\ Read(k).waiting = k.waiting /\ Answered(Read(k), n).waiting = k.waiting \ {n}
              /\ Read(k).issued = k.issued /\ Answered(Read(k), n).issued = k.issued
<1> DEFINE t == Tail(k.up)
           w == k.waiting \ {n}
<1>1. Read(k) = [k EXCEPT !.up = t] /\ Answered(k, n) = [k EXCEPT !.waiting = w]
  BY DEF Read, Answered
<1>2. /\ Read(k).up = t /\ Read(k).waiting = k.waiting /\ Read(k).issued = k.issued
      /\ Read(k).peer = k.peer /\ Read(k).here = k.here
      /\ DOMAIN Read(k) = DOMAIN k
  <2> HIDE DEF t, w
  <2> QED
    BY <1>1 DEF ConnRec
<1>3. Answered(Read(k), n) = [Read(k) EXCEPT !.waiting = w]
  BY <1>2 DEF Answered
<1>4. /\ Answered(Read(k), n).up = t /\ Answered(Read(k), n).waiting = w
      /\ Answered(Read(k), n).issued = k.issued
      /\ Answered(Read(k), n).peer = k.peer /\ Answered(Read(k), n).here = k.here
  <2> HIDE DEF t, w
  <2> QED
    BY <1>1, <1>3 DEF ConnRec
<1>5. /\ Answered(k, n).up = k.up /\ Answered(k, n).waiting = w /\ Answered(k, n).issued = k.issued
      /\ Answered(k, n).peer = k.peer /\ Answered(k, n).here = k.here
  <2> HIDE DEF t, w
  <2> QED
    BY <1>1 DEF ConnRec
<1> QED
  BY <1>2, <1>4, <1>5 DEF Shrinks

\* A step of the server closes a connection, or leaves less of it.
LEMMA ServerRecords ==
  ASSUME StubAssumption, SessionInv, ServerNext, NEW d \in Conns
  PROVE  conn'[d] = ClosedConn \/ Shrinks(conn[d], conn'[d])
<1>f. conn \in [Conns -> ConnRec] /\ edev \in Edev
  BY DEF SessionInv, SessionTypes
<1>s. conn' = conn => Shrinks(conn[d], conn'[d])
  BY ShrinksOrNot
<1>c. ASSUME NEW c \in Conns, CloseConn(c)
      PROVE  conn'[d] = ClosedConn \/ Shrinks(conn[d], conn'[d])
  <2>1. conn'[d] = ClosedConn \/ conn'[d] = conn[d]
    BY <1>f, <1>c DEF CloseConn
  <2> QED
    BY <2>1, ShrinksOrNot
<1>r. ASSUME NEW c \in Conns, NEW r, Shrinks(conn[c], r), conn' = [conn EXCEPT ![c] = r]
      PROVE  Shrinks(conn[d], conn'[d])
  <2>1. conn'[d] = IF d = c THEN r ELSE conn[d]
    BY <1>f, <1>r
  <2> QED
    BY <1>r, <2>1, ShrinksOrNot
<1>1. ASSUME NEW c \in Conns, Accept(c)
      PROVE  Shrinks(conn[d], conn'[d])
  <2> DEFINE r == [conn[c] EXCEPT !.here = "op"]
  <2>1. conn' = [conn EXCEPT ![c] = r] /\ conn[c].here = "none"
    BY <1>1, <1>f DEF Accept
  <2>2. Shrinks(conn[c], r)
    BY <1>f, <2>1 DEF Shrinks, ConnRec
  <2> QED
    BY <1>r, <2>1, <2>2
<1>2. ASSUME NEW c \in Conns, Operation(c)
      PROVE  conn'[d] = ClosedConn \/ Shrinks(conn[d], conn'[d])
  <2>1. CASE OpLost(c) \/ OpReply(c)
    BY <1>c, <2>1 DEF OpLost, OpReply
  <2>2. CASE Export(c)
    BY <1>s, <2>2 DEF Export
  <2>3. CASE Import(c)
    <3>1. CASE CloseConn(c)
      BY <1>c, <3>1
    <3>2. CASE conn' = [conn EXCEPT ![c].here = "session",
                          ![c].peer = IF @ = "left" THEN @ ELSE "attached"]
      <4> DEFINE p == IF conn[c].peer = "left" THEN conn[c].peer ELSE "attached"
                 r == [conn[c] EXCEPT !.here = "session", !.peer = p]
      <4>1. conn' = [conn EXCEPT ![c] = r]
        BY <1>f, <3>2
      <4>2. Shrinks(conn[c], r)
        BY <1>f DEF Shrinks, ConnRec
      <4> QED
        BY <1>r, <4>1, <4>2
    <3> QED
      BY <2>3, <3>1, <3>2 DEF Import
  <2> QED
    BY <1>2, <2>1, <2>2, <2>3 DEF Operation
<1>3. ASSUME NEW c \in Conns, ClientPdu(c)
      PROVE  conn'[d] = ClosedConn \/ Shrinks(conn[d], conn'[d])
  <2> DEFINE n == Head(conn[c].up).seq
  <2>1. CASE RecvEof(c) \/ RecvInvalid(c)
    BY <1>c, <2>1 DEF RecvEof, RecvInvalid, UnImport
  <2>2. CASE RecvSubmit(c) \/ RecvSpecial(c) \/ RecvUnlink(c)
    <3>1. conn[c].up # <<>>
      BY <2>2 DEF RecvSubmit, RecvSpecial, RecvUnlink, ReadsFrom
    <3>2. \/ CloseConn(c)
          \/ conn' = [conn EXCEPT ![c] = Read(conn[c])]
          \/ conn' = [conn EXCEPT ![c] = Answered(Read(conn[c]), n)]
      BY <2>2 DEF RecvSubmit, RecvSpecial, RecvUnlink, UnImport, Reads
    <3>3. Shrinks(conn[c], Read(conn[c])) /\ Shrinks(conn[c], Answered(Read(conn[c]), n))
      BY <1>f, <3>1, ReadAndAnswered
    <3> QED
      BY <1>c, <1>r, <3>2, <3>3
  <2> QED
    BY <1>3, <2>1, <2>2 DEF ClientPdu
<1>4. CASE Exported
  BY <1>c, <1>4 DEF Exported, SessionInv, BlockedOnOp
<1>5. CASE DeviceUrb
  <2>1. CASE DeviceEventUnwanted
    BY <1>s, <2>1 DEF DeviceEventUnwanted
  <2>2. CASE DeviceHup
    BY <2>2, ShrinksOrNot DEF DeviceHup
  <2>3. ASSUME NEW c \in Conns, SendRetSubmit(c)
        PROVE  Shrinks(conn[d], conn'[d])
    <3>1. conn' = conn \/ conn' = [conn EXCEPT ![c] = Answered(conn[c], NextAnswer)]
      BY <2>3 DEF SendRetSubmit
    <3>2. Shrinks(conn[c], Answered(conn[c], NextAnswer))
      BY <1>f, ReadAndAnswered
    <3> QED
      BY <1>r, <1>s, <3>1, <3>2
  <2> QED
    BY <1>5, <2>1, <2>2, <2>3 DEF DeviceUrb
<1> QED
  BY <1>1, <1>2, <1>3, <1>4, <1>5 DEF ServerNext

(***************************************************************************)
(* The types.                                                              *)
(***************************************************************************)

\* The types that SessionInv does not give.
StreamTypes ==
  /\ fate \in {"running", "killed", "aborted", "exited"}
  /\ listening \in BOOLEAN
  /\ recv_seqnum \in Nat
  /\ \A c \in Conns : conn[c].waiting \subseteq 1..conn[c].issued
  /\ to_dev \in Seq(Numbers)
  /\ from_dev \in Seq(Answers)
  /\ pad_sock \in {"none", "open", "closed", "reset", "gone"}
  /\ irregular \subseteq {"disorder", "gone", "button", "special", "unlink", "ret_len"}
  /\ pc \in {"off", "process_cmd", "ready", "gone"}
  /\ seqnum \in Nat /\ re_seqnum \in Nat
  /\ events \in 0..MaxEvents

\* Requests have numbers.
LEMMA NumbersAreNat == StubAssumption => Numbers \subseteq Nat
  BY DEF StubAssumption, Numbers

\* What is read of a list of numbers, and left.
LEMMA ReceivesType ==
  ASSUME NEW S, NEW q \in Seq(S), NEW k \in 1..Len(q)
  PROVE  LET t == SubSeq(q, k + 1, Len(q))
         IN  /\ t \in Seq(S) /\ Len(t) = Len(q) - k
             /\ \A i \in 1..Len(t) : i + k \in 1..Len(q) /\ t[i] = q[i + k]
             /\ Head(q) = q[1] /\ Head(q) \in S /\ 1 \in 1..Len(q)
<1> DEFINE t == SubSeq(q, k + 1, Len(q))
<1>1. Len(q) \in Nat /\ k \in Nat /\ 1 <= k /\ k <= Len(q)
  OBVIOUS
<1>2. t \in Seq(S) /\ Len(t) = Len(q) - k
  BY <1>1
<1>3. \A i \in 1..Len(t) : i + k \in 1..Len(q)
  BY <1>1, <1>2
<1>4. \A i \in 1..Len(t) : t[i] = q[i + k]
  BY <1>1
<1>5. Head(q) = q[1] /\ Head(q) \in S /\ 1 \in 1..Len(q)
  BY <1>1
<1> QED
  BY <1>2, <1>3, <1>4, <1>5

\* The causes that are recorded.
LEMMA BlamesType ==
  ASSUME NEW S, irregular \subseteq S, "disorder" \in S, NEW causes \in SUBSET S, Blames(causes)
  PROVE  irregular' \subseteq S
  BY DEF Blames

\* What a client waits for it has issued.
LEMMA WaitsForIssued ==
  ASSUME NEW k \in ConnRec, NEW r \in ConnRec, k.waiting \subseteq 1..k.issued
  PROVE  /\ Shrinks(k, r) => r.waiting \subseteq 1..r.issued
         /\ Talks(k, r) \/ Leaves(k, r) \/ Asks(k, r) \/ Cancels(k, r)
              => r.waiting \subseteq 1..r.issued
<1>1. k.issued \in Nat
  BY DEF ConnRec
<1>2. \A i \in 1..k.issued : i \in 1..(k.issued + 1)
  BY <1>1
<1>3. k.issued + 1 \in 1..(k.issued + 1)
  BY <1>1
<1> QED
  BY <1>2, <1>3 DEF Shrinks, Talks, Leaves, Asks, Cancels, SameData

\* The steps of clients and of the server on what clients wait for.
LEMMA WaitingType ==
  ASSUME StubAssumption, SessionInv, SessionInv', ServerNext \/ \E c \in Conns : Client(c),
         \A c \in Conns : conn[c].waiting \subseteq 1..conn[c].issued, NEW d \in Conns
  PROVE  conn'[d].waiting \subseteq 1..conn'[d].issued
<1>1. conn[d] \in ConnRec /\ conn'[d] \in ConnRec /\ conn \in [Conns -> ConnRec]
  BY DEF SessionInv, SessionTypes
<1>2. CASE ServerNext
  <2>1. CASE conn'[d] = ClosedConn
    BY <2>1, ShrinksOrNot
  <2>2. CASE Shrinks(conn[d], conn'[d])
    BY <1>1, <2>2, WaitsForIssued
  <2> QED
    BY <1>2, <2>1, <2>2, ServerRecords
<1>3. ASSUME NEW c \in Conns, Client(c)
      PROVE  conn'[d].waiting \subseteq 1..conn'[d].issued
  <2>1. PICK r \in ConnRec :
              /\ conn' = [conn EXCEPT ![c] = r]
              /\ Talks(conn[c], r) \/ Leaves(conn[c], r) \/ Asks(conn[c], r) \/ Cancels(conn[c], r)
    BY <1>3, ClientChanges DEF SessionInv
  <2>2. CASE d = c
    BY <1>1, <2>1, <2>2, WaitsForIssued
  <2>3. CASE d # c
    BY <1>1, <2>1, <2>3
  <2> QED
    BY <2>2, <2>3
<1> QED
  BY <1>2, <1>3

\* The server keeps the types.
LEMMA ServerTypes ==
  ASSUME StubAssumption, SessionInv, SessionInv', StreamTypes, ServerStep
  PROVE  StreamTypes'
<1>0. ServerNext /\ UNCHANGED <<pc, seqnum, re_seqnum, events>>
  BY DEF ServerStep, padVars
<1>1. \A c \in Conns : conn'[c].waiting \subseteq 1..conn'[c].issued
  BY <1>0, WaitingType DEF StreamTypes
<1>a. \A c \in Conns : SendOutcomes(c) \subseteq {"ok", "error", "killed"}
  BY DEF SendOutcomes
<1>b. fate' \in {fate, "killed", "aborted", "exited"}
  <2>1. ASSUME NEW c \in Conns, RecvUnlink(c) PROVE fate' \in {fate, "killed", "aborted", "exited"}
    <3>1. PICK out \in SendOutcomes(c) :
            fate' = CASE out = "ok" -> fate [] out = "error" -> "aborted" [] OTHER -> "killed"
      BY <2>1 DEF RecvUnlink
    <3> QED
      BY <1>a, <3>1
  <2>2. ASSUME NEW c \in Conns, SendRetSubmit(c)
        PROVE  fate' \in {fate, "killed", "aborted", "exited"}
    BY <2>2 DEF SendRetSubmit
  <2>3. ASSUME NEW c \in Conns, RecvEof(c) \/ RecvSubmit(c) \/ RecvSpecial(c) \/ RecvInvalid(c)
        PROVE  fate' \in {fate, "killed", "aborted", "exited"}
    BY <2>3 DEF RecvEof, RecvSubmit, RecvSpecial, RecvInvalid, ReadsFrom, InLoop
  <2>4. ASSUME NEW c \in Conns, Accept(c) \/ Operation(c)
        PROVE  fate' \in {fate, "killed", "aborted", "exited"}
    BY <2>4 DEF Accept, Operation, OpLost, Import, OpReply, Export
  <2>5. CASE Exported \/ DeviceEventUnwanted \/ DeviceHup
    BY <2>5 DEF Exported, DeviceEventUnwanted, DeviceHup
  <2> QED
    BY <1>0, <2>1, <2>2, <2>3, <2>4, <2>5 DEF ServerNext, ClientPdu, DeviceUrb
<1>2. /\ listening' \in {listening, TRUE}
      /\ pad_sock' \in {pad_sock, "reset", "gone"}
  BY <1>0 DEF ServerNext, Accept, Operation, OpLost, Import, OpReply, Export,
     Exported, ClientPdu, RecvEof, RecvSubmit, RecvSpecial, RecvInvalid, RecvUnlink, DeviceUrb,
     DeviceEventUnwanted, SendRetSubmit, DeviceHup
<1>3. recv_seqnum' \in {recv_seqnum, recv_seqnum + 1}
  BY <1>0 DEF ServerNext, Accept, Operation, OpLost, Import, OpReply, Export,
     Exported, ClientPdu, RecvEof, RecvSubmit, RecvSpecial, RecvInvalid, RecvUnlink, DeviceUrb,
     DeviceEventUnwanted, SendRetSubmit, DeviceHup
<1>4. from_dev' = from_dev \/ (from_dev # <<>> /\ from_dev' = Tail(from_dev)) \/ from_dev' = <<>>
  BY <1>0 DEF ServerNext, Accept, Operation, OpLost, Import, OpReply, Export,
     Exported, ClientPdu, RecvEof, RecvSubmit, RecvSpecial, RecvInvalid, RecvUnlink, DeviceUrb,
     DeviceEventUnwanted, SendRetSubmit, DeviceHup
<1>5. from_dev' \in Seq(Answers)
  <2>1. <<>> \in Seq(Answers)
    BY EmptySeq
  <2>2. from_dev \in Seq(Answers) /\ (from_dev # <<>> => Tail(from_dev) \in Seq(Answers))
    BY DEF StreamTypes
  <2> QED
    BY <1>4, <2>1, <2>2
<1>6. to_dev' = to_dev \/ \E c \in Conns : conn[c].up # <<>>
                                         /\ to_dev' = Append(to_dev, Head(conn[c].up).seq)
  BY <1>0 DEF ServerNext, Accept, Operation, OpLost, Import, OpReply, Export,
     Exported, ClientPdu, RecvEof, RecvSubmit, RecvSpecial, RecvInvalid, RecvUnlink, DeviceUrb,
     DeviceEventUnwanted, SendRetSubmit, DeviceHup, ReadsFrom
<1>7. to_dev' \in Seq(Numbers)
  <2>1. CASE to_dev' = to_dev
    BY <2>1 DEF StreamTypes
  <2>2. ASSUME NEW c \in Conns, conn[c].up # <<>>, to_dev' = Append(to_dev, Head(conn[c].up).seq)
        PROVE  to_dev' \in Seq(Numbers)
    BY <2>2, ReadType DEF SessionInv, StreamTypes
  <2> QED
    BY <1>6, <2>1, <2>2
<1>8. irregular' = irregular
      \/ \E causes \in SUBSET {"special", "disorder", "unlink", "ret_len"} : Blames(causes)
  BY <1>0 DEF ServerNext, Accept, Operation, OpLost, Import, OpReply, Export,
     Exported, ClientPdu, RecvEof, RecvSubmit, RecvSpecial, RecvInvalid, RecvUnlink, DeviceUrb,
     DeviceEventUnwanted, SendRetSubmit, DeviceHup
<1>9. irregular' \subseteq {"disorder", "gone", "button", "special", "unlink", "ret_len"}
  BY <1>8 DEF StreamTypes, Blames
<1>10. fate' \in {"running", "killed", "aborted", "exited"}
  BY <1>b DEF StreamTypes
<1>11. listening' \in BOOLEAN
  BY <1>2 DEF StreamTypes
<1>12. recv_seqnum' \in Nat
  BY <1>3 DEF StreamTypes
<1>13. pad_sock' \in {"none", "open", "closed", "reset", "gone"}
  BY <1>2 DEF StreamTypes
<1>14. /\ pc' \in {"off", "process_cmd", "ready", "gone"}
       /\ seqnum' \in Nat /\ re_seqnum' \in Nat /\ events' \in 0..MaxEvents
  BY <1>0 DEF StreamTypes
<1> QED
  BY <1>1, <1>5, <1>7, <1>9, <1>10, <1>11, <1>12, <1>13, <1>14 DEF StreamTypes

\* So do the clients.
LEMMA ClientTypes ==
  ASSUME StubAssumption, SessionInv, SessionInv', StreamTypes, ClientStep
  PROVE  StreamTypes'
<1>1. PICK c \in Conns : Client(c)
  BY DEF ClientStep
<1>2. \A d \in Conns : conn'[d].waiting \subseteq 1..conn'[d].issued
  BY <1>1, WaitingType DEF StreamTypes
<1>3. UNCHANGED <<fate, listening, recv_seqnum, to_dev, from_dev, pad_sock>>
  BY <1>1, ClientChanges DEF SessionInv
<1>4. UNCHANGED padVars
  BY DEF ClientStep
<1>5. irregular' = irregular \/ Blames({"disorder"})
  BY <1>1, ClientChanges DEF SessionInv, Talks, Leaves, Asks, Cancels
<1>6. irregular' \subseteq {"disorder", "gone", "button", "special", "unlink", "ret_len"}
  BY <1>5 DEF StreamTypes, Blames
<1> QED
  BY <1>2, <1>3, <1>4, <1>6 DEF StreamTypes, padVars

\* What the application's steps leave alone.
LEMMA PadLeaves ==
  ASSUME Pad
  PROVE  UNCHANGED <<fate, blocked, listening, edev, recv_seqnum, conn>>
  BY DEF Pad, PadConnect, PadCommand, PadAck, PadMove, PadScroll, PadButton, PadGone, Sends

\* Answers of zeros.
LEMMA EventsType ==
  ASSUME NEW m \in Nat, from_dev \in Seq(Answers)
  PROVE  LET e == [i \in 1..m |-> 0]
         IN  /\ from_dev \o e \in Seq(Answers) /\ Len(from_dev \o e) = Len(from_dev) + m
             /\ \A i \in 1..(Len(from_dev) + m) :
                  (from_dev \o e)[i] = IF i <= Len(from_dev) THEN from_dev[i] ELSE 0
<1> DEFINE e == [i \in 1..m |-> 0]
<1>0. CMD_MAX_RECV \in Nat \ {0}
  BY StubAssumption DEF StubAssumption
<1>1. e \in Seq(Answers) /\ Len(e) = m /\ \A i \in 1..m : e[i] = 0
  BY <1>0 DEF Answers
<1>2. Len(from_dev) \in Nat
  OBVIOUS
<1>3. /\ from_dev \o e \in Seq(Answers)
      /\ Len(from_dev \o e) = Len(from_dev) + Len(e)
      /\ \A i \in 1..(Len(from_dev) + Len(e)) :
           (from_dev \o e)[i] = IF i <= Len(from_dev) THEN from_dev[i] ELSE e[i - Len(from_dev)]
  <2> HIDE DEF e
  <2> QED
    BY <1>1, ConcatProperties
<1> HIDE DEF e
<1>4. ASSUME NEW i \in 1..(Len(from_dev) + m), ~(i <= Len(from_dev))
      PROVE  i - Len(from_dev) \in 1..m
  BY <1>2, <1>4
<1>5. ASSUME NEW i \in 1..(Len(from_dev) + m)
      PROVE  (from_dev \o e)[i] = IF i <= Len(from_dev) THEN from_dev[i] ELSE 0
  BY <1>1, <1>3, <1>4, <1>5
<1> QED
  BY <1>1, <1>3, <1>5 DEF e

\* What the application sends and reads.
LEMMA PadTypes ==
  ASSUME StubAssumption, PadAssumption, StreamTypes, Pad
  PROVE  StreamTypes'
<1>0. UNCHANGED <<fate, listening, recv_seqnum, conn>>
  BY PadLeaves
<1>1. /\ pad_sock' \in {"none", "open", "closed", "reset", "gone"}
      /\ pc' \in {"off", "process_cmd", "ready", "gone"}
  BY DEF Pad, PadConnect, PadCommand, PadAck, PadMove, PadScroll, PadButton, PadGone, Sends,
         StreamTypes
<1>2. irregular' = irregular \/ \E causes \in SUBSET {"disorder", "button", "gone"} : Blames(causes)
  BY DEF Pad, PadConnect, PadCommand, PadAck, PadMove, PadScroll, PadButton, PadGone, Sends
<1>3. irregular' \subseteq {"disorder", "gone", "button", "special", "unlink", "ret_len"}
  BY <1>2 DEF StreamTypes, Blames
<1>h. to_dev # <<>> => Head(to_dev) \in Numbers /\ Head(to_dev) \in Nat
  BY NumbersAreNat DEF StreamTypes
<1>4. to_dev' \in Seq(Numbers)
  <2>1. to_dev' = to_dev \/ to_dev' = <<>> \/ \E k \in 1..Len(to_dev) : Receives(k)
    BY DEF Pad, PadConnect, PadCommand, PadAck, PadMove, PadScroll, PadButton, PadGone, Sends
  <2>2. <<>> \in Seq(Numbers)
    BY EmptySeq
  <2>3. \A k \in 1..Len(to_dev) : Receives(k) => to_dev' \in Seq(Numbers)
    BY ReceivesType DEF StreamTypes, Receives
  <2> QED
    BY <2>1, <2>2, <2>3 DEF StreamTypes
<1>5. from_dev' \in Seq(Answers)
  <2>1. CASE PadCommand
    <3>1. InTable(Head(to_dev)) => Head(to_dev) \in Answers
      BY <1>h, <2>1 DEF PadCommand, InTable, Answers, StubAssumption
    <3> QED
      BY <2>1, <3>1 DEF PadCommand, StreamTypes
  <2>2. ASSUME NEW m \in {1, 2}, Sends(m)
        PROVE  from_dev' \in Seq(Answers)
    <3>1. m \in Nat
      OBVIOUS
    <3> QED
      BY <2>2, <3>1, EventsType DEF Sends, StreamTypes
  <2>3. CASE PadMove \/ PadScroll \/ PadButton
    BY <2>2, <2>3 DEF PadMove, PadScroll, PadButton
  <2>4. CASE PadConnect \/ PadAck \/ PadGone
    BY <2>4 DEF PadConnect, PadAck, PadGone, StreamTypes
  <2> QED
    BY <2>1, <2>3, <2>4 DEF Pad
<1>6. seqnum' \in Nat /\ re_seqnum' \in Nat /\ events' \in 0..MaxEvents
  <2>1. CASE PadCommand \/ PadAck \/ PadConnect \/ PadGone
    BY <1>h, <2>1 DEF PadCommand, PadAck, PadConnect, PadGone, StreamTypes
  <2>2. ASSUME NEW m \in {1, 2}, Sends(m)
        PROVE  seqnum' \in Nat /\ re_seqnum' \in Nat /\ events' \in 0..MaxEvents
    <3>1. events + m <= MaxEvents
      BY <2>2 DEF Sends, PadAssumption, StreamTypes
    <3>2. seqnum' = seqnum + m /\ events' = events + m /\ re_seqnum' = re_seqnum
      BY <2>2 DEF Sends
    <3>3. seqnum \in Nat /\ re_seqnum \in Nat /\ events \in 0..MaxEvents /\ m \in 1..2
      BY DEF StreamTypes
    <3> QED
      BY <3>1, <3>2, <3>3 DEF PadAssumption
  <2>3. CASE PadMove \/ PadScroll \/ PadButton
    BY <2>2, <2>3 DEF PadMove, PadScroll, PadButton
  <2> QED
    BY <2>1, <2>3 DEF Pad
<1> QED
  BY <1>0, <1>1, <1>3, <1>4, <1>5, <1>6 DEF StreamTypes

\* The types hold at the start.
LEMMA InitTypes == StubAssumption /\ PadAssumption /\ Init => StreamTypes
<1> SUFFICES ASSUME StubAssumption, PadAssumption, Init PROVE StreamTypes
  OBVIOUS
<1>1. to_dev \in Seq(Numbers) /\ from_dev \in Seq(Answers)
  BY EmptySeq DEF Init, ServerInit
<1>2. \A c \in Conns : conn[c].waiting = {}
  BY DEF Init, ServerInit, NewConn
<1>3. recv_seqnum \in Nat /\ seqnum \in Nat /\ re_seqnum \in Nat /\ events \in 0..MaxEvents
  BY DEF Init, ServerInit, PadAssumption
<1>4. /\ fate \in {"running", "killed", "aborted", "exited"}
      /\ pad_sock \in {"none", "open", "closed", "reset", "gone"}
      /\ pc \in {"off", "process_cmd", "ready", "gone"}
  BY DEF Init, ServerInit
<1>5. listening \in BOOLEAN
      /\ irregular \subseteq {"disorder", "gone", "button", "special", "unlink", "ret_len"}
  BY DEF Init, ServerInit
<1>6. \A c \in Conns : conn[c].waiting \subseteq 1..conn[c].issued
  BY <1>2
<1> QED
  BY <1>1, <1>3, <1>4, <1>5, <1>6 DEF StreamTypes

\* Every step keeps the types.
LEMMA TypesStep ==
  StubAssumption /\ PadAssumption /\ SessionInv /\ SessionInv' /\ StreamTypes /\ [Next]_vars
    => StreamTypes'
<1> SUFFICES ASSUME StubAssumption, PadAssumption, SessionInv, SessionInv', StreamTypes, [Next]_vars
             PROVE  StreamTypes'
  OBVIOUS
<1>1. CASE UNCHANGED vars
  BY <1>1 DEF vars, serverVars, padVars, StreamTypes
<1> QED
  BY <1>1, ServerTypes, ClientTypes, PadTypes DEF Next

\* Every variable has its type.
THEOREM TypesHold == Spec => [](SessionInv /\ StreamTypes)
<1>1. Init => StreamTypes
  BY StubAssumption, PadAssumption, InitTypes
<1>2. SessionInv /\ SessionInv' /\ StreamTypes /\ [Next]_vars => StreamTypes'
  BY StubAssumption, PadAssumption, TypesStep
<1> QED
  BY <1>1, <1>2, SessionInvHolds, PTL DEF Spec

\* In the words of the module that declares the variables.
THEOREM ServerTypeCorrect == Spec => []ServerTypeOK
<1>1. SessionInv /\ StreamTypes => ServerTypeOK
  <2> SUFFICES ASSUME SessionInv, StreamTypes PROVE ServerTypeOK
    OBVIOUS
  <2>1. /\ blocked \in [at : {"loop", "op", "accept"}, conn : Conns \cup {NULL}]
        /\ edev \in [exported : BOOLEAN, status : {"AVAILABLE", "USED"},
                     client_fd : Conns \cup {NULL},
                     processing_urbs : (SUBSET Numbers) \cup {NULL}]
    BY DEF SessionInv, SessionTypes, Edev
  <2>2. ASSUME NEW c \in Conns
        PROVE  /\ conn[c].peer \in {"new", "connected", "asking", "attached", "done", "left"}
               /\ conn[c].here \in {"none", "op", "session", "closed"}
               /\ conn[c].op \in {"devlist", "import", "export", NULL}
               /\ conn[c].waiting \subseteq 1..conn[c].issued
               /\ conn[c].up \in Seq([cmd : {"SUBMIT", "UNLINK"}, seq : Numbers,
                                kind : Kinds \cup {"none"}])
    <3>1. conn[c] \in ConnRec
      BY DEF SessionInv, SessionTypes
    <3> QED
      BY <3>1 DEF ConnRec, Pdu, StreamTypes
  <2> QED
    BY <2>1, <2>2 DEF ServerTypeOK, StreamTypes
<1> QED
  BY <1>1, TypesHold, PTL

(***************************************************************************)
(* No request is forgotten before its answer.  It takes that a connection  *)
(* without a session has no requests.                                      *)
(***************************************************************************)

\* A connection on which nothing was submitted.
Fresh(k) == k.issued = 0 /\ k.waiting = {} /\ k.up = <<>>

\* A connection is fresh until its import has succeeded, and then it has the session.
OnlyInSession ==
  \A c \in Conns : /\ conn[c].peer \in {"new", "connected", "asking", "done"} => Fresh(conn[c])
                   /\ conn[c].peer = "attached" => conn[c].here = "session"

\* WaitingIsListed on the record k of the client, for a list of requests.
Listed(k, urbs) == k.peer = "attached" => k.waiting \ Submits(k.up) \subseteq urbs

WaitingInv ==
  /\ OnlyInSession
  /\ fate = "running" =>
       \A c \in Conns : edev.client_fd = c => Listed(conn[c], edev.processing_urbs)

\* Nobody submits before the import has succeeded.
LEMMA OnlyInSessionKeeps ==
  ASSUME StubAssumption, SessionInv, OnlyInSession, [Next]_vars
  PROVE  OnlyInSession'
<1> SUFFICES ASSUME NEW d \in Conns
             PROVE  /\ conn'[d].peer \in {"new", "connected", "asking", "done"} => Fresh(conn'[d])
                    /\ conn'[d].peer = "attached" => conn'[d].here = "session"
  BY DEF OnlyInSession
<1>f. conn \in [Conns -> ConnRec]
  BY DEF SessionInv, SessionTypes
<1>0. /\ conn[d].peer \in {"new", "connected", "asking", "done"} => Fresh(conn[d])
      /\ conn[d].peer = "attached" => conn[d].here = "session"
  BY DEF OnlyInSession
<1>1. CASE conn' = conn
  BY <1>0, <1>1
<1>2. CASE ServerNext
  <2>1. CASE conn'[d] = ClosedConn
    BY <2>1, ShrinksOrNot DEF Fresh
  <2>2. CASE Shrinks(conn[d], conn'[d])
    BY <1>0, <2>2 DEF Fresh, Shrinks
  <2> QED
    BY <1>2, <2>1, <2>2, ServerRecords
<1>3. CASE ClientStep
  <2>1. PICK c \in Conns : Client(c)
    BY <1>3 DEF ClientStep
  <2>2. PICK r \in ConnRec :
              /\ conn' = [conn EXCEPT ![c] = r] /\ r.here = conn[c].here
              /\ Talks(conn[c], r) \/ Leaves(conn[c], r) \/ Asks(conn[c], r) \/ Cancels(conn[c], r)
    BY <2>1, ClientChanges DEF SessionInv
  <2>3. CASE d # c
    BY <1>f, <1>0, <2>2, <2>3
  <2>4. CASE d = c
    BY <1>f, <1>0, <2>2, <2>4 DEF Talks, Leaves, Asks, Cancels, SameData, Fresh
  <2> QED
    BY <2>3, <2>4
<1>4. CASE Pad \/ UNCHANGED vars
  BY <1>1, <1>4, PadLeaves DEF vars, serverVars
<1> QED
  BY <1>2, <1>3, <1>4 DEF Next, ServerStep

\* Accepting, replying and exporting leave the client of the device alone.
LEMMA Quiet ==
  ASSUME StubAssumption, SessionInv, NEW c \in Conns,
         Accept(c) \/ OpLost(c) \/ OpReply(c) \/ Export(c)
  PROVE  /\ UNCHANGED <<edev, recv_seqnum, to_dev, from_dev, pad_sock, irregular>>
         /\ \A d \in Conns : edev.client_fd = d => conn'[d] = conn[d]
<1>f. conn \in [Conns -> ConnRec]
  BY DEF SessionInv, SessionTypes
<1>1. CASE Accept(c)
  BY <1>f, <1>1 DEF Accept, SessionInv, Whole
<1>2. CASE OpLost(c) \/ OpReply(c)
  <2>1. blocked.at # "loop" /\ blocked.conn = c /\ CloseConn(c)
        /\ UNCHANGED <<edev, recv_seqnum, to_dev, from_dev, pad_sock, irregular>>
    BY <1>2 DEF OpLost, OpReply, Serves
  <2>2. conn[c].here # "session"
    BY <2>1 DEF SessionInv, BlockedOnOp
  <2> QED
    BY <1>f, <2>1, <2>2 DEF CloseConn, SessionInv, Whole
<1>3. CASE Export(c)
  BY <1>3 DEF Export
<1> QED
  BY <1>1, <1>2, <1>3

\* After a successful import the connection is a fresh one.
LEMMA ImportIsFresh ==
  ASSUME StubAssumption, SessionInv, OnlyInSession, NEW c \in Conns, Import(c),
         edev'.client_fd = c
  PROVE  /\ edev.exported /\ edev.status # "USED"
         /\ edev' = [edev EXCEPT !.status = "USED", !.client_fd = c, !.processing_urbs = {}]
         /\ conn'[c].peer = "attached" => Fresh(conn'[c])
         /\ conn'[c].peer = "attached" \/ conn[c].peer = "left"
<1>f. conn \in [Conns -> ConnRec]
  BY DEF SessionInv, SessionTypes
<1>1. conn[c].here = "op" /\ conn[c].peer # "attached" /\ edev.client_fd # c
  BY DEF Import, Serves, SessionInv, BlockedOnOp, OnlyInSession, Whole
<1>2. edev' = [edev EXCEPT !.status = "USED", !.client_fd = c, !.processing_urbs = {}]
      /\ conn' = [conn EXCEPT ![c].here = "session",
                    ![c].peer = IF @ = "left" THEN @ ELSE "attached"]
  BY <1>1 DEF Import
<1>3. edev.exported /\ edev.status # "USED"
  BY DEF Import, Free
<1>4. conn'[c].peer = "attached" => conn[c].peer # "left" /\ Fresh(conn[c])
  BY <1>f, <1>1, <1>2 DEF OnlyInSession, ConnRec
<1>5. Fresh(conn[c]) => Fresh(conn'[c])
  BY <1>f, <1>2 DEF Fresh, ConnRec
<1>6. conn'[c].peer = "attached" \/ conn[c].peer = "left"
  BY <1>f, <1>2 DEF ConnRec
<1> QED
  BY <1>2, <1>3, <1>4, <1>5, <1>6

\* Reading a request puts it on the list, or the client does not wait for it.
LEMMA ReadIsListed ==
  ASSUME NEW k \in ConnRec, NEW urbs, Listed(k, urbs), k.up # <<>>
  PROVE  /\ Listed(Read(k), urbs \cup {Head(k.up).seq})
         /\ Listed(Answered(Read(k), Head(k.up).seq), urbs)
<1>1. k.up \in Seq(Pdu)
  BY DEF ConnRec
<1>2. Submits(k.up) \subseteq Submits(Tail(k.up)) \cup {Head(k.up).seq}
  <2>1. Head(k.up).cmd = "SUBMIT" \/ Head(k.up).cmd # "SUBMIT"
    OBVIOUS
  <2> QED
    BY <1>1, <2>1, ReadOne
<1> QED
  BY <1>2, ReadAndAnswered DEF Listed

\* An answer takes a request off both.
LEMMA AnsweredIsListed ==
  ASSUME NEW k \in ConnRec, NEW urbs, NEW n, Listed(k, urbs)
  PROVE  Listed(Answered(k, n), urbs \ {n})
  BY ReadAndAnswered DEF Listed

\* A client that waits for one more has it on its way.
LEMMA ClientIsListed ==
  ASSUME NEW k \in ConnRec, NEW r \in ConnRec, NEW urbs, Listed(k, urbs),
         Talks(k, r) \/ Leaves(k, r) \/ Asks(k, r) \/ Cancels(k, r)
  PROVE  Listed(r, urbs)
<1>1. k.up \in Seq(Pdu)
  BY DEF ConnRec
<1>2. CASE Asks(k, r)
  <2>1. r.waiting = k.waiting \cup {k.issued + 1} /\ Submits(r.up) = Submits(k.up) \cup {k.issued + 1}
        /\ k.peer = "attached"
    BY <1>1, <1>2, SendOne DEF Asks
  <2> QED
    BY <2>1 DEF Listed
<1>3. CASE Cancels(k, r)
  <2>1. r.waiting = k.waiting /\ Submits(r.up) = Submits(k.up) /\ k.peer = "attached"
    BY <1>1, <1>3, SendOne DEF Cancels
  <2> QED
    BY <2>1 DEF Listed
<1>4. CASE Talks(k, r) \/ Leaves(k, r)
  BY <1>4 DEF Talks, Leaves, Listed
<1> QED
  BY <1>2, <1>3, <1>4

\* The list keeps up with what is read and answered.
LEMMA WaitingKeeps ==
  ASSUME StubAssumption, SessionInv, SessionInv', WaitingInv, [Next]_vars
  PROVE  WaitingInv'
<1>f. conn \in [Conns -> ConnRec] /\ edev \in Edev
  BY DEF SessionInv, SessionTypes
<1>o. OnlyInSession'
  BY OnlyInSessionKeeps DEF WaitingInv
<1> SUFFICES ASSUME fate' = "running", NEW d \in Conns, edev'.client_fd = d
             PROVE  Listed(conn'[d], edev'.processing_urbs)
  BY <1>o DEF WaitingInv
<1>e. \A e : edev'.client_fd = NULL => Listed(conn'[d], e)
  BY DEF StubAssumption
<1>w. fate = "running" /\ edev.client_fd = d => Listed(conn[d], edev.processing_urbs)
  BY DEF WaitingInv
<1>1. CASE UNCHANGED <<conn, edev, fate>>
  BY <1>1, <1>w
<1>2. CASE ClientStep
  <2>1. PICK c \in Conns : Client(c)
    BY <1>2 DEF ClientStep
  <2>2. PICK r \in ConnRec :
              /\ conn' = [conn EXCEPT ![c] = r] /\ r.here = conn[c].here
              /\ Talks(conn[c], r) \/ Leaves(conn[c], r) \/ Asks(conn[c], r) \/ Cancels(conn[c], r)
    BY <2>1, ClientChanges DEF SessionInv
  <2>3. UNCHANGED <<edev, fate>>
    BY <2>1, ClientChanges DEF SessionInv
  <2>4. CASE d # c
    BY <1>f, <1>w, <2>2, <2>3, <2>4
  <2>5. CASE d = c
    BY <1>f, <1>w, <2>2, <2>3, <2>5, ClientIsListed
  <2> QED
    BY <2>4, <2>5
<1>3. ASSUME NEW c \in Conns, Accept(c) \/ OpLost(c) \/ OpReply(c) \/ Export(c)
      PROVE  Listed(conn'[d], edev'.processing_urbs)
  <2>1. fate = "running"
    BY <1>3 DEF Accept, OpLost, OpReply, Export, Serves, InLoop
  <2> QED
    BY <1>3, <1>w, <2>1, Quiet
<1>4. ASSUME NEW c \in Conns, Import(c)
      PROVE  Listed(conn'[d], edev'.processing_urbs)
  <2>1. CASE edev' = edev /\ CloseConn(c)
    <3>1. edev.client_fd # c /\ fate = "running"
      BY <1>4 DEF Import, Serves, SessionInv, BlockedOnOp, Whole
    <3> QED
      BY <1>f, <1>w, <2>1, <3>1 DEF CloseConn
  <2>2. CASE edev' = [edev EXCEPT !.status = "USED", !.client_fd = c, !.processing_urbs = {}]
    <3>1. edev'.client_fd = c /\ d = c
      BY <1>f, <2>2 DEF Edev
    <3>2. conn'[c].peer = "attached" => Fresh(conn'[c])
      BY <1>4, <3>1, ImportIsFresh DEF WaitingInv
    <3> QED
      BY <3>1, <3>2 DEF Listed, Fresh
  <2> QED
    BY <1>4, <2>1, <2>2 DEF Import
<1>5. CASE Exported
  BY <1>5, <1>f, <1>e DEF Exported, UnImported, Edev
<1>6. ASSUME NEW c \in Conns, UnImport(c)
      PROVE  Listed(conn'[d], edev'.processing_urbs)
  BY <1>6, <1>f, <1>e DEF UnImport, UnImported, Edev
<1>7. ASSUME NEW c \in Conns, RecvSubmit(c) \/ RecvSpecial(c) \/ RecvUnlink(c)
      PROVE  Listed(conn'[d], edev'.processing_urbs)
  <2> DEFINE n == Head(conn[c].up).seq
             k == conn[c]
  <2>1. edev.client_fd = c /\ k.up # <<>> /\ fate = "running"
    BY <1>7 DEF RecvSubmit, RecvSpecial, RecvUnlink, ReadsFrom, InLoop
  <2>2. k \in ConnRec /\ Listed(k, edev.processing_urbs)
    BY <1>f, <2>1 DEF WaitingInv
  <2>3. CASE RecvSubmit(c)
    <3>1. edev' = [edev EXCEPT !.processing_urbs = @ \cup {n}] /\ conn' = [conn EXCEPT ![c] = Read(k)]
      BY <2>3 DEF RecvSubmit, Reads
    <3>2. edev'.client_fd = c /\ edev'.processing_urbs = edev.processing_urbs \cup {n}
          /\ conn'[c] = Read(k)
      BY <1>f, <2>1, <3>1 DEF Edev
    <3> QED
      BY <2>1, <2>2, <3>2, ReadIsListed
  <2>4. CASE edev' = edev /\ conn' = [conn EXCEPT ![c] = Answered(Read(k), n)]
    BY <1>f, <2>1, <2>2, <2>4, ReadIsListed
  <2>5. CASE RecvSpecial(c)
    <3>1. \/ edev' = edev /\ conn' = [conn EXCEPT ![c] = Answered(Read(k), n)]
          \/ UnImport(c)
          \/ fate' = "killed"
      BY <2>5 DEF RecvSpecial
    <3> QED
      BY <1>6, <2>4, <3>1
  <2>6. CASE RecvUnlink(c)
    BY <2>4, <2>6 DEF RecvUnlink
  <2> QED
    BY <1>7, <2>3, <2>5, <2>6
<1>8. CASE DeviceEventUnwanted
  BY <1>8, <1>1 DEF DeviceEventUnwanted
<1>9. CASE DeviceHup
  BY <1>9, <1>f, <1>e DEF DeviceHup, UnImported, Edev
<1>10. ASSUME NEW c \in Conns, SendRetSubmit(c)
       PROVE  Listed(conn'[d], edev'.processing_urbs)
  <2> DEFINE n == NextAnswer
             k == conn[c]
  <2>1. edev.client_fd = c /\ fate = "running"
    BY <1>10 DEF SendRetSubmit, DeviceReady, InLoop
  <2>2. k \in ConnRec /\ Listed(k, edev.processing_urbs)
    BY <1>f, <2>1 DEF WaitingInv
  <2>3. /\ conn' = IF k.peer = "left" THEN conn ELSE [conn EXCEPT ![c] = Answered(k, n)]
        /\ edev' = [edev EXCEPT !.processing_urbs = @ \ {n}]
    BY <1>10 DEF SendRetSubmit
  <2>4. d = c /\ edev'.processing_urbs = edev.processing_urbs \ {n}
    BY <1>f, <2>1, <2>3 DEF Edev
  <2>5. CASE k.peer = "left"
    BY <2>3, <2>4, <2>5 DEF Listed
  <2>6. CASE k.peer # "left"
    <3>1. conn'[c] = Answered(k, n)
      BY <1>f, <2>3, <2>6
    <3> QED
      BY <2>2, <2>4, <3>1, AnsweredIsListed
  <2> QED
    BY <2>5, <2>6
<1>11. CASE ServerStep
  <2>1. CASE \E c \in Conns : Accept(c) \/ Operation(c)
    BY <1>3, <1>4, <2>1 DEF Operation
  <2>2. CASE \E c \in Conns : ClientPdu(c)
    BY <1>6, <1>7, <2>2 DEF ClientPdu, RecvEof, RecvInvalid
  <2>3. CASE DeviceUrb
    BY <1>8, <1>9, <1>10, <2>3 DEF DeviceUrb
  <2> QED
    BY <1>5, <1>11, <2>1, <2>2, <2>3 DEF ServerStep, ServerNext
<1>12. CASE Pad \/ UNCHANGED vars
  BY <1>1, <1>12, PadLeaves DEF vars, serverVars
<1> QED
  BY <1>2, <1>11, <1>12 DEF Next

\* The list of requests and what clients submit agree, in every state.
THEOREM WaitingInvHolds == Spec => []WaitingInv
<1>1. Init => WaitingInv
  <2> SUFFICES ASSUME Init PROVE WaitingInv
    OBVIOUS
  <2>1. edev.client_fd = NULL /\ \A c \in Conns : conn[c] = NewConn
    BY DEF Init, ServerInit
  <2>2. OnlyInSession
    BY <2>1 DEF OnlyInSession, NewConn, Fresh
  <2> QED
    BY <2>1, <2>2, StubAssumption DEF WaitingInv, StubAssumption
<1>2. SessionInv /\ SessionInv' /\ WaitingInv /\ [Next]_vars => WaitingInv'
  BY StubAssumption, WaitingKeeps
<1> QED
  BY <1>1, <1>2, SessionInvHolds, PTL DEF Spec

\* What a client waits for and the server has read is on the server's list: no request is
\* forgotten before its answer, whatever is unlinked, and however the application's
\* answers and the client's requests overtake each other (submit_single_urb, cancel_urb,
\* delete_aurb).
THEOREM NoRequestForgotten == Spec => []WaitingIsListed
<1>1. WaitingInv => WaitingIsListed
  BY DEF WaitingInv, Listed, WaitingIsListed, Unread
<1> QED
  BY <1>1, WaitingInvHolds, PTL

(***************************************************************************)
(* The application's connection.                                           *)
(***************************************************************************)

\* A device that is exported has its application, which has a socket to come to; once
\* the application has come, only its end lets the device be exported no longer.
PadInv ==
  /\ edev.exported => listening /\ pad_sock # "none"
  /\ blocked.at = "accept" => listening
  /\ pad_sock \in {"closed", "reset", "gone"} => pc = "gone"
  /\ listening => edev.exported \/ blocked.at = "accept" \/ pc = "gone"

\* Importing and un-importing leave a device exported.
LEMMA ImportLeavesExported ==
  ASSUME SessionTypes, NEW c \in Conns
  PROVE  UnImport(c) \/ Import(c) \/ RecvSubmit(c) \/ SendRetSubmit(c)
           => edev'.exported = edev.exported
<1>1. edev \in Edev
  BY DEF SessionTypes
<1>2. CASE UnImport(c)
  BY <1>1, <1>2, UnImportedType DEF UnImport
<1>3. CASE Import(c) \/ RecvSubmit(c) \/ SendRetSubmit(c)
  BY <1>1, <1>3 DEF Import, RecvSubmit, SendRetSubmit, Edev
<1> QED
  BY <1>2, <1>3

\* Every step keeps what is known of the application's connection.
LEMMA PadInvKeeps ==
  ASSUME StubAssumption, SessionInv, PadInv, [Next]_vars
  PROVE  PadInv'
<1>t. SessionTypes
  BY DEF SessionInv
<1>0. ASSUME edev'.exported = edev.exported, UNCHANGED <<listening, pc>>,
             blocked'.at = blocked.at,
             pad_sock' = pad_sock \/ (pad_sock' = "reset" /\ pad_sock = "closed")
      PROVE  PadInv'
  BY <1>0 DEF PadInv
<1>1. ASSUME edev'.exported = edev.exported, UNCHANGED <<listening, pc, pad_sock>>,
             blocked' = Loop, blocked.at = "op"
      PROVE  PadInv'
  BY <1>1 DEF PadInv, Loop
<1>2. CASE ServerStep
  <2>0. pc' = pc
    BY <1>2 DEF ServerStep, padVars
  <2>1. ASSUME NEW c \in Conns, Accept(c) PROVE PadInv'
    BY <2>0, <2>1 DEF PadInv, Accept, InLoop
  <2>2. ASSUME NEW c \in Conns, Operation(c) PROVE PadInv'
    <3>1. CASE OpLost(c) \/ OpReply(c) \/ Import(c)
      <4>1. edev'.exported = edev.exported
        BY <1>t, <3>1, ImportLeavesExported DEF OpLost, OpReply
      <4> QED
        BY <1>1, <2>0, <3>1, <4>1 DEF OpLost, OpReply, Import, Serves
    <3>2. CASE Export(c)
      BY <2>0, <3>2 DEF Export, Serves, PadInv
    <3> QED
      BY <2>2, <3>1, <3>2 DEF Operation
  <2>3. ASSUME NEW c \in Conns, ClientPdu(c) PROVE PadInv'
    <3>1. edev'.exported = edev.exported
      BY <1>t, <2>3, ImportLeavesExported
         DEF ClientPdu, RecvEof, RecvSpecial, RecvInvalid, RecvUnlink
    <3>2. UNCHANGED <<listening, blocked>>
          /\ (pad_sock' = pad_sock \/ (pad_sock' = "reset" /\ pad_sock = "closed"))
      BY <2>3 DEF ClientPdu, RecvEof, RecvSubmit, RecvSpecial, RecvInvalid, RecvUnlink
    <3> QED
      BY <1>0, <2>0, <3>1, <3>2
  <2>4. CASE Exported
    <3>1. blocked.at = "accept" /\ pad_sock # "none" /\ blocked' = Loop
          /\ UNCHANGED <<listening, pad_sock>>
      BY <2>4 DEF Exported
    <3>2. edev' = [UnImported(edev) EXCEPT !.exported = TRUE] /\ UnImported(edev) \in Edev
      BY <1>t, <2>4, UnImportedType DEF Exported, SessionTypes
    <3>3. edev'.exported
      BY <3>2 DEF Edev
    <3> QED
      BY <2>0, <3>1, <3>3 DEF PadInv, Loop
  <2>5. CASE DeviceEventUnwanted
    BY <1>0, <2>0, <2>5 DEF DeviceEventUnwanted
  <2>6. CASE DeviceHup
    <3>1. pad_sock = "reset" /\ pad_sock' = "gone" /\ UNCHANGED <<listening, blocked>>
          /\ blocked.at = "loop"
      BY <2>6 DEF DeviceHup, InLoop
    <3>2. edev' = [UnImported(edev) EXCEPT !.exported = FALSE] /\ UnImported(edev) \in Edev
      BY <1>t, <2>6, UnImportedType DEF DeviceHup, SessionTypes
    <3>3. ~edev'.exported
      BY <3>2 DEF Edev
    <3> QED
      BY <2>0, <3>1, <3>3 DEF PadInv
  <2>7. ASSUME NEW c \in Conns, SendRetSubmit(c) PROVE PadInv'
    <3>1. edev'.exported = edev.exported
      BY <1>t, <2>7, ImportLeavesExported
    <3> QED
      BY <1>0, <2>0, <2>7, <3>1 DEF SendRetSubmit
  <2> QED
    BY <1>2, <2>1, <2>2, <2>3, <2>4, <2>5, <2>6, <2>7 DEF ServerStep, ServerNext, DeviceUrb
<1>3. CASE ClientStep
  BY <1>0, <1>3, <1>t, ClientChanges DEF ClientStep, padVars
<1>4. CASE Pad
  <2>1. UNCHANGED <<blocked, listening, edev>>
    BY <1>4, PadLeaves
  <2>2. CASE PadConnect
    BY <2>1, <2>2 DEF PadConnect, PadIs, PadInv
  <2>3. CASE PadGone
    BY <2>1, <2>3 DEF PadGone, PadInv
  <2>4. CASE PadCommand \/ PadAck \/ PadMove \/ PadScroll \/ PadButton
    <3>1. pad_sock' = pad_sock /\ (pc = "gone" => pc' = "gone")
      BY <2>4 DEF PadCommand, PadAck, PadMove, PadScroll, PadButton, Sends, PadIs, Connected
    <3>2. pc # "gone"
      BY <2>4 DEF PadCommand, PadAck, PadMove, PadScroll, PadButton, PadIs, Connected
    <3> QED
      BY <2>1, <3>1, <3>2 DEF PadInv
  <2> QED
    BY <1>4, <2>2, <2>3, <2>4 DEF Pad
<1>5. CASE UNCHANGED vars
  BY <1>0, <1>5 DEF vars, serverVars, padVars
<1> QED
  BY <1>2, <1>3, <1>4, <1>5 DEF Next

(***************************************************************************)
(* What has happened stays recorded.                                       *)
(***************************************************************************)

\* A step after which a cause is not recorded has not blamed it.
LEMMA BlamesTells ==
  ASSUME NEW causes, "disorder" \in causes, NEW S, Blames(S), Undisturbed(causes)'
  PROVE  Undisturbed(causes) /\ S \cap causes = {}
<1> DEFINE all == irregular \cup S
<1>1. "disorder" \notin irregular'
  BY DEF Undisturbed
<1>2. irregular' = IF "disorder" \in all THEN {"disorder"} ELSE all
  BY DEF Blames
<1>3. irregular' = all
  BY <1>1, <1>2
<1> QED
  BY <1>3 DEF Undisturbed

\* No step forgets what was recorded.
LEMMA StaysRecorded ==
  ASSUME StubAssumption, SessionTypes, [Next]_vars, NEW causes, "disorder" \in causes,
         Undisturbed(causes)'
  PROVE  Undisturbed(causes)
<1>1. irregular' = irregular \/ \E S : Blames(S)
  <2>1. CASE ServerStep
    BY <2>1 DEF ServerStep, ServerNext, Accept, Operation, OpLost, Import, OpReply, Export,
     Exported, ClientPdu, RecvEof, RecvSubmit, RecvSpecial, RecvInvalid, RecvUnlink, DeviceUrb,
     DeviceEventUnwanted, SendRetSubmit, DeviceHup
  <2>2. CASE ClientStep
    BY <2>2, ClientChanges DEF ClientStep, Talks, Leaves, Asks, Cancels
  <2>3. CASE Pad
    BY <2>3 DEF Pad, PadConnect, PadCommand, PadAck, PadMove, PadScroll, PadButton, PadGone, Sends
  <2>4. CASE UNCHANGED vars
    BY <2>4 DEF vars, serverVars
  <2> QED
    BY <2>1, <2>2, <2>3, <2>4 DEF Next
<1>2. CASE irregular' = irregular
  BY <1>2 DEF Undisturbed
<1> QED
  BY <1>1, <1>2, BlamesTells

(***************************************************************************)
(* Reading the requests of the one session.                                *)
(***************************************************************************)

\* Of the requests that k has issued the server has read those up to r.
ReadUpTo(k, r) ==
  /\ r <= k.issued
  /\ Submits(k.up) = (r + 1)..k.issued
  /\ InOrder(k.up)

\* Nothing is read of a connection on which nothing was submitted.
LEMMA FreshIsRead ==
  ASSUME NEW k, Fresh(k)
  PROVE  ReadUpTo(k, 0)
<1>1. k.issued = 0 /\ k.up = <<>> /\ 1..0 = {}
  BY DEF Fresh
<1>2. Len(k.up) = 0
  BY <1>1, EmptySeq
<1>3. Submits(k.up) = {} /\ InOrder(k.up)
  BY <1>2 DEF Submits, InOrder
<1> QED
  BY <1>1, <1>3 DEF ReadUpTo

\* The next one read has the next number.
LEMMA ReadNext ==
  ASSUME NEW k \in ConnRec, NEW r \in Nat, ReadUpTo(k, r), k.up # <<>>, NEW s,
         s.issued = k.issued, s.up = Tail(k.up)
  PROVE  /\ Head(k.up).cmd = "SUBMIT" => Head(k.up).seq = r + 1 /\ ReadUpTo(s, r + 1)
         /\ Head(k.up).cmd # "SUBMIT" => ReadUpTo(s, r)
<1> DEFINE n == Head(k.up).seq
           rest == Submits(Tail(k.up))
<1>0. k.up \in Seq(Pdu) /\ k.issued \in Nat
  BY DEF ConnRec
<1>1. InOrder(Tail(k.up))
  BY <1>0, ReadOne DEF ReadUpTo
<1>2. CASE Head(k.up).cmd = "SUBMIT"
  <2>1. (r + 1)..k.issued = rest \cup {n} /\ \A m \in rest : n < m
    BY <1>0, <1>2, ReadOne DEF ReadUpTo
  <2> HIDE DEF n, rest
  <2>2. n \in (r + 1)..k.issued /\ rest \subseteq (r + 1)..k.issued
    BY <2>1
  <2>3. r + 1 \in (r + 1)..k.issued
    BY <1>0, <2>2
  <2>4. n = r + 1
    BY <1>0, <2>1, <2>2, <2>3
  <2>5. r + 1 <= k.issued
    BY <1>0, <2>2, <2>4
  <2>6. rest = ((r + 1) + 1)..k.issued
    <3>1. ASSUME NEW m \in rest PROVE m \in ((r + 1) + 1)..k.issued
      BY <1>0, <2>1, <2>2, <2>4, <3>1
    <3>2. ASSUME NEW m \in ((r + 1) + 1)..k.issued PROVE m \in rest
      <4>1. m \in (r + 1)..k.issued /\ m # n
        BY <1>0, <2>4, <3>2
      <4> QED
        BY <2>1, <4>1
    <3> QED
      BY <3>1, <3>2
  <2> QED
    BY <1>1, <1>2, <2>4, <2>5, <2>6 DEF ReadUpTo, n, rest
<1>3. CASE Head(k.up).cmd # "SUBMIT"
  BY <1>0, <1>1, <1>3, ReadOne DEF ReadUpTo
<1> QED
  BY <1>2, <1>3

\* What the client does leaves that.
LEMMA ClientIsRead ==
  ASSUME NEW k \in ConnRec, NEW s \in ConnRec, NEW r \in Nat, ReadUpTo(k, r),
         Talks(k, s) \/ Leaves(k, s) \/ Asks(k, s) \/ Cancels(k, s)
  PROVE  ReadUpTo(s, r)
<1>0. k.up \in Seq(Pdu) /\ k.issued \in Nat
  BY DEF ConnRec
<1>1. CASE SameData(k, s)
  BY <1>1 DEF SameData, ReadUpTo
<1>2. CASE Asks(k, s)
  <2>1. Submits(k.up) = (r + 1)..k.issued /\ r <= k.issued /\ InOrder(k.up)
    BY DEF ReadUpTo
  <2>2. \A n \in Submits(k.up) : n < k.issued + 1
    BY <1>0, <2>1
  <2>3. Submits(s.up) = Submits(k.up) \cup {k.issued + 1} /\ InOrder(s.up)
    BY <1>0, <1>2, <2>1, <2>2, SendOne DEF Asks
  <2>4. (r + 1)..(k.issued + 1) = (r + 1)..k.issued \cup {k.issued + 1} /\ r <= k.issued + 1
    BY <1>0, <2>1
  <2> QED
    BY <1>2, <2>1, <2>3, <2>4 DEF Asks, ReadUpTo
<1>3. CASE Cancels(k, s)
  BY <1>0, <1>3, SendOne DEF Cancels, ReadUpTo
<1> QED
  BY <1>1, <1>2, <1>3 DEF Talks, Leaves

\* The number of requests that the server has read.
LEMMA HowManyRead ==
  ASSUME NEW k \in ConnRec, NEW r \in Nat, ReadUpTo(k, r)
  PROVE  k.issued - Cardinality(Submits(k.up)) = r
<1>1. k.issued \in Nat /\ r <= k.issued /\ Submits(k.up) = (r + 1)..k.issued
  BY DEF ConnRec, ReadUpTo
<1>2. r + 1 \in Int /\ k.issued \in Int
  BY <1>1
<1>3. Cardinality((r + 1)..k.issued)
        = IF r + 1 > k.issued THEN 0 ELSE k.issued - (r + 1) + 1
  BY ONLY <1>2, FS_Interval
<1>4. Cardinality(Submits(k.up)) = k.issued - r
  BY <1>1, <1>3
<1> QED
  BY <1>1, <1>4

(***************************************************************************)
(* The pace of the application in the one session, of which r requests     *)
(* have been read.                                                         *)
(***************************************************************************)

\* What the application has sent, read by the server or not.
Sent == recv_seqnum + Len(from_dev)

\* While the enumeration lasts it has answered at most what it has seen.
Enumerates(r) ==
  /\ Sent <= CMD_MAX_RECV
  /\ Sent + Len(to_dev) <= r
  /\ \A i \in 1..Len(to_dev) : Sent + i <= to_dev[i]

\* Then it counts on from a request after those it has answers for, and what it sees is
\* no further than what was read.
InStep(r) ==
  /\ \A i \in 1..Len(to_dev) : to_dev[i] <= r
  /\ pc \in {"off", "process_cmd"} => Enumerates(r)
  /\ pc = "ready" => Sent + 2 <= seqnum /\ re_seqnum <= r
  /\ Undisturbed({"disorder", "button"}) =>
       /\ pc = "ready" => seqnum <= r + 3
       /\ pc = "gone" => Sent <= r + 1

\* Reading a request that does not reach the application.
LEMMA ReadsAhead ==
  ASSUME StreamTypes, NEW r \in Nat, InStep(r), Undisturbed({"disorder", "button"})' =>
           Undisturbed({"disorder", "button"}),
         UNCHANGED <<recv_seqnum, from_dev, to_dev, pc, seqnum, re_seqnum>>
  PROVE  InStep(r)' /\ InStep(r + 1)'
<1>1. /\ Sent \in Nat /\ Len(to_dev) \in Nat /\ \A i \in 1..Len(to_dev) : to_dev[i] \in Nat
      /\ seqnum \in Nat /\ re_seqnum \in Nat
  BY NumbersAreNat, StubAssumption DEF StreamTypes, Sent
<1>2. Sent' = Sent
  BY DEF Sent
<1>3. InStep(r)'
  BY <1>2 DEF InStep, Enumerates
<1>4. Enumerates(r) => Enumerates(r + 1)'
  BY <1>1, <1>2 DEF Enumerates
<1>5. InStep(r + 1)'
  BY <1>1, <1>2, <1>4 DEF InStep
<1> QED
  BY <1>3, <1>5

\* Reading one that does.
LEMMA ReadsOn ==
  ASSUME StreamTypes, NEW r \in Nat, InStep(r), UNCHANGED irregular,
         UNCHANGED <<recv_seqnum, from_dev, pc, seqnum, re_seqnum>>, to_dev' = Append(to_dev, r + 1)
  PROVE  InStep(r + 1)'
<1>1. /\ Sent \in Nat /\ Len(to_dev) \in Nat /\ \A i \in 1..Len(to_dev) : to_dev[i] \in Nat
      /\ seqnum \in Nat /\ re_seqnum \in Nat
  BY NumbersAreNat, StubAssumption DEF StreamTypes, Sent
<1>2. Sent' = Sent
  BY DEF Sent
<1>3. /\ Len(to_dev') = Len(to_dev) + 1 /\ to_dev'[Len(to_dev) + 1] = r + 1
      /\ \A i \in 1..Len(to_dev) : to_dev'[i] = to_dev[i]
  BY DEF StreamTypes
<1>4. \A i \in 1..Len(to_dev') : i \in 1..Len(to_dev) \/ i = Len(to_dev) + 1
  BY <1>1, <1>3
<1>5. \A i \in 1..Len(to_dev') : to_dev'[i] <= r + 1
  BY <1>1, <1>3, <1>4 DEF InStep
<1>6. Enumerates(r) => Enumerates(r + 1)'
  <2> SUFFICES ASSUME Enumerates(r) PROVE Enumerates(r + 1)'
    OBVIOUS
  <2>1. Sent <= CMD_MAX_RECV /\ Sent + Len(to_dev) <= r
    BY DEF Enumerates
  <2>2. ASSUME NEW i \in 1..Len(to_dev') PROVE Sent + i <= to_dev'[i]
    <3>1. CASE i \in 1..Len(to_dev)
      BY <1>3, <3>1 DEF Enumerates
    <3>2. CASE i = Len(to_dev) + 1
      BY <1>1, <1>3, <2>1, <3>2
    <3> QED
      BY <1>4, <3>1, <3>2
  <2> QED
    BY <1>1, <1>2, <1>3, <2>1, <2>2 DEF Enumerates
<1>7. Undisturbed({"disorder", "button"})' <=> Undisturbed({"disorder", "button"})
  BY DEF Undisturbed
<1> QED
  BY <1>1, <1>2, <1>5, <1>6, <1>7 DEF InStep

\* An answer is taken off the way to the server and counted.
LEMMA CountsOn ==
  ASSUME StreamTypes, from_dev # <<>>, from_dev' = Tail(from_dev), recv_seqnum' = recv_seqnum + 1
  PROVE  /\ Sent' = Sent
         /\ Len(from_dev) \in Nat /\ Len(from_dev') = Len(from_dev) - 1
         /\ \A i \in 1..Len(from_dev') : i + 1 \in 1..Len(from_dev) /\ from_dev'[i] = from_dev[i + 1]
<1>1. /\ Len(from_dev) \in Nat \ {0} /\ Len(from_dev') = Len(from_dev) - 1
      /\ \A i \in 1..Len(from_dev') : from_dev'[i] = from_dev[i + 1]
  BY DEF StreamTypes
<1>2. \A i \in 1..Len(from_dev') : i + 1 \in 1..Len(from_dev)
  BY <1>1
<1>3. Sent' = Sent
  BY <1>1 DEF Sent, StreamTypes
<1> QED
  BY <1>1, <1>2, <1>3

\* The lengths and numbers that the application works with.
LEMMA PadNumbers ==
  ASSUME StubAssumption, StreamTypes
  PROVE  /\ recv_seqnum \in Nat /\ seqnum \in Nat /\ re_seqnum \in Nat
         /\ Len(from_dev) \in Nat /\ Sent \in Nat
         /\ Len(to_dev) \in Nat /\ \A i \in 1..Len(to_dev) : to_dev[i] \in Nat
         /\ CMD_MAX_RECV \in Nat /\ CMD_MAX \in Nat /\ CMD_MAX_RECV + 2 <= CMD_MAX
  BY NumbersAreNat DEF StreamTypes, Sent, StubAssumption

\* What is left when k numbers were taken at once, the first of which was looked at.
LEMMA TakesNumbers ==
  ASSUME StubAssumption, StreamTypes, NEW k \in 1..Len(to_dev), Receives(k)
  PROVE  /\ Head(to_dev) = to_dev[1] /\ 1 \in 1..Len(to_dev)
         /\ Len(to_dev') = Len(to_dev) - k
         /\ \A i \in 1..Len(to_dev') : i + k \in 1..Len(to_dev) /\ to_dev'[i] = to_dev[i + k]
  BY ReceivesType DEF Receives, StreamTypes

\* One answer more.
LEMMA OneMore ==
  ASSUME StubAssumption, StreamTypes, NEW n \in Answers, from_dev' = Append(from_dev, n),
         recv_seqnum' = recv_seqnum
  PROVE  /\ Sent' = Sent + 1 /\ Len(from_dev') = Len(from_dev) + 1
         /\ from_dev'[Len(from_dev) + 1] = n
         /\ \A i \in 1..Len(from_dev) : from_dev'[i] = from_dev[i]
<1>1. /\ Len(from_dev) \in Nat /\ Len(from_dev') = Len(from_dev) + 1
      /\ from_dev'[Len(from_dev) + 1] = n
      /\ \A i \in 1..Len(from_dev) : from_dev'[i] = from_dev[i]
  BY DEF StreamTypes
<1>2. Sent' = Sent + 1
  BY <1>1, PadNumbers DEF Sent
<1> QED
  BY <1>1, <1>2

\* Events are sent.
LEMMA SendsMore ==
  ASSUME StubAssumption, StreamTypes, NEW m \in 1..2, Sends(m)
  PROVE  /\ Sent' = Sent + m /\ Len(from_dev') = Len(from_dev) + m
         /\ \A i \in 1..Len(from_dev') :
              from_dev'[i] = IF i <= Len(from_dev) THEN from_dev[i] ELSE 0
         /\ seqnum' = seqnum + m /\ UNCHANGED <<pc, re_seqnum, to_dev, recv_seqnum>>
<1>1. /\ from_dev' = from_dev \o [i \in 1..m |-> 0] /\ seqnum' = seqnum + m
      /\ UNCHANGED <<pc, re_seqnum, to_dev, recv_seqnum>>
  BY DEF Sends
<1>2. m \in Nat /\ from_dev \in Seq(Answers)
  BY DEF StreamTypes
<1>3. /\ Len(from_dev') = Len(from_dev) + m
      /\ \A i \in 1..(Len(from_dev) + m) :
           from_dev'[i] = IF i <= Len(from_dev) THEN from_dev[i] ELSE 0
  BY <1>1, <1>2, EventsType
<1>4. Sent' = Sent + m
  BY <1>1, <1>2, <1>3, PadNumbers DEF Sent
<1> QED
  BY <1>1, <1>3, <1>4

\* Answering a request of the enumeration, which may end with it.
LEMMA CommandInStep ==
  ASSUME StubAssumption, StreamTypes, NEW r \in Nat, InStep(r), PadCommand
  PROVE  InStep(r)'
<1> DEFINE cmd == Head(to_dev)
<1>1. PICK k \in 1..Len(to_dev) : Receives(k)
  BY DEF PadCommand
<1>2. /\ cmd = to_dev[1] /\ 1 \in 1..Len(to_dev) /\ Len(to_dev') = Len(to_dev) - k
      /\ \A i \in 1..Len(to_dev') : i + k \in 1..Len(to_dev) /\ to_dev'[i] = to_dev[i + k]
  BY <1>1, TakesNumbers
<1>3. /\ pc = "process_cmd" /\ recv_seqnum' = recv_seqnum
      /\ from_dev' = IF InTable(cmd) THEN Append(from_dev, cmd) ELSE from_dev
      /\ IF cmd >= CMD_MAX THEN pc' = "ready" /\ seqnum' = cmd /\ re_seqnum' = cmd
                           ELSE UNCHANGED <<pc, seqnum, re_seqnum>>
  BY DEF PadCommand, PadIs
<1>4. Enumerates(r) /\ \A i \in 1..Len(to_dev) : to_dev[i] <= r
  BY <1>3 DEF InStep
<1>5. cmd \in Nat /\ Sent + 1 <= cmd /\ cmd <= r
  BY <1>2, <1>4, PadNumbers DEF Enumerates
<1>6. (InTable(cmd) /\ Sent' = Sent + 1) \/ (~InTable(cmd) /\ Sent' = Sent)
  <2>1. CASE InTable(cmd)
    <3>1. cmd \in Answers
      BY <1>5, <2>1, PadNumbers DEF InTable, Answers
    <3> QED
      BY <1>3, <2>1, <3>1, OneMore
  <2>2. CASE ~InTable(cmd)
    BY <1>3, <2>2 DEF Sent
  <2> QED
    BY <2>1, <2>2
<1>7. \A i \in 1..Len(to_dev') : to_dev'[i] <= r
  BY <1>2, <1>4
<1>8. Enumerates(r)'
  <2>1. Sent' <= CMD_MAX_RECV
    BY <1>4, <1>5, <1>6, PadNumbers DEF Enumerates, InTable
  <2>2. Sent' + Len(to_dev') <= r
    BY SMTT(30), <1>1, <1>2, <1>4, <1>6, PadNumbers DEF Enumerates
  <2>3. ASSUME NEW i \in 1..Len(to_dev') PROVE Sent' + i <= to_dev'[i]
    <3>1. i + k \in 1..Len(to_dev) /\ to_dev'[i] = to_dev[i + k] /\ Sent + (i + k) <= to_dev[i + k]
      BY <1>2, <1>4 DEF Enumerates
    <3>2. i \in Nat /\ k \in Nat /\ 1 <= k /\ to_dev[i + k] \in Nat
      BY <1>1, <3>1, PadNumbers
    <3>3. Sent' + i <= Sent + (i + k) /\ Sent' + i \in Nat /\ Sent + (i + k) \in Nat
      <4>1. \A a, b, m, n \in Nat : 1 <= n /\ (b = a \/ b = a + 1)
              => b + m <= a + (m + n) /\ b + m \in Nat /\ a + (m + n) \in Nat
        OBVIOUS
      <4>2. Sent \in Nat /\ Sent' \in Nat /\ (Sent' = Sent \/ Sent' = Sent + 1)
        BY <1>6, PadNumbers
      <4>3. i \in Nat /\ k \in Nat /\ 1 <= k
        BY <3>2
      <4> QED
        BY <4>1, <4>2, <4>3
    <3> QED
      BY <3>1, <3>2, <3>3
  <2> QED
    BY <2>1, <2>2, <2>3 DEF Enumerates
<1>9. CASE cmd >= CMD_MAX
  <2>1. pc' = "ready" /\ seqnum' = cmd /\ re_seqnum' = cmd
    BY <1>3, <1>9
  <2>2. Sent' <= CMD_MAX_RECV
    BY <1>8 DEF Enumerates
  <2>3. Sent' \in Nat
    BY SMTT(30), <1>6, PadNumbers
  <2>4. Sent' + 2 <= seqnum' /\ re_seqnum' <= r /\ seqnum' <= r + 3
    BY SMTT(30), <1>5, <1>9, <2>1, <2>2, <2>3, PadNumbers
  <2> QED
    BY <1>7, <2>1, <2>4 DEF InStep
<1>10. CASE ~(cmd >= CMD_MAX)
  <2>1. pc' = "process_cmd"
    BY <1>3, <1>10
  <2> QED
    BY <1>7, <1>8, <2>1 DEF InStep
<1> QED
  BY <1>9, <1>10

\* Each step of the application, as long as nothing is in disorder.
LEMMA PadInStep ==
  ASSUME StubAssumption, StreamTypes, NEW r \in Nat, InStep(r), Pad, Undisturbed({"disorder"})'
  PROVE  InStep(r)'
<1>1. CASE PadCommand
  BY <1>1, CommandInStep
<1>2. CASE PadConnect
  <2>1. pc = "off" /\ pc' = "process_cmd" /\ UNCHANGED <<recv_seqnum, to_dev, from_dev>>
    BY <1>2 DEF PadConnect, PadIs
  <2>2. Enumerates(r)' /\ \A i \in 1..Len(to_dev') : to_dev'[i] <= r
    BY <2>1 DEF InStep, Enumerates, Sent
  <2> QED
    BY <2>1, <2>2 DEF InStep
<1>3. CASE PadAck
  <2>1. PICK k \in 1..Len(to_dev) : Receives(k)
    BY <1>3 DEF PadAck
  <2>2. /\ Head(to_dev) = to_dev[1] /\ 1 \in 1..Len(to_dev)
        /\ \A i \in 1..Len(to_dev') : i + k \in 1..Len(to_dev) /\ to_dev'[i] = to_dev[i + k]
    BY <2>1, TakesNumbers
  <2>3. /\ pc = "ready" /\ pc' = "ready" /\ re_seqnum' = to_dev[1] /\ seqnum' = seqnum
        /\ UNCHANGED <<irregular, recv_seqnum, from_dev>>
    BY <1>3, <2>2 DEF PadAck, PadIs
  <2>4. Sent' = Sent /\ (Undisturbed({"disorder", "button"})' => Undisturbed({"disorder", "button"}))
    BY <2>3 DEF Sent, Undisturbed
  <2>5. re_seqnum' <= r /\ \A i \in 1..Len(to_dev') : to_dev'[i] <= r
    BY <2>2, <2>3 DEF InStep
  <2> QED
    BY <2>3, <2>4, <2>5 DEF InStep
<1>4. ASSUME is_sendable, Sends(2), pc = "ready", irregular' = irregular PROVE InStep(r)'
  <2>1. /\ Sent' = Sent + 2 /\ seqnum' = seqnum + 2
        /\ pc' = "ready" /\ UNCHANGED <<re_seqnum, to_dev>>
    BY <1>4, SendsMore
  <2>2. Sent + 2 <= seqnum /\ re_seqnum <= r /\ seqnum <= re_seqnum + 1
    BY <1>4 DEF InStep, is_sendable
  <2>3. Sent' + 2 <= seqnum' /\ re_seqnum' <= r /\ seqnum' <= r + 3
    BY SMTT(30), <2>1, <2>2, PadNumbers
  <2> QED
    BY <2>1, <2>3 DEF InStep
<1>5. CASE PadMove
  BY <1>4, <1>5 DEF PadMove, PadIs
<1>n. ~Blames({"disorder"})
  BY BlamesTells
<1>6. CASE PadScroll
  <2>1. pc = "ready" /\ Blames({}) /\ is_sendable /\ Sends(2)
    BY <1>6, <1>n DEF PadScroll
  <2>2. irregular' = irregular
    BY <2>1 DEF Blames, Undisturbed
  <2> QED
    BY <1>4, <2>1, <2>2
<1>7. CASE PadButton
  <2>1. pc = "ready" /\ Blames({"button"}) /\ Sends(1)
    BY <1>7, <1>n DEF PadButton
  <2>2. ~Undisturbed({"disorder", "button"})'
    BY <2>1, BlamesTells
  <2>3. /\ Sent' = Sent + 1 /\ seqnum' = seqnum + 1
        /\ pc' = "ready" /\ UNCHANGED <<re_seqnum, to_dev>>
    BY <2>1, SendsMore
  <2>4. Sent' + 2 <= seqnum' /\ re_seqnum' <= r
    BY <2>1, <2>3, PadNumbers DEF InStep
  <2> QED
    BY <2>2, <2>3, <2>4 DEF InStep
<1>8. CASE PadGone
  <2>1. pc' = "gone" /\ to_dev' = <<>> /\ UNCHANGED <<recv_seqnum, from_dev>> /\ Blames({"gone"})
        /\ pc \in {"process_cmd", "ready"}
    BY <1>8 DEF PadGone, Connected, PadIs
  <2>2. Sent' = Sent /\ Len(to_dev') = 0
    BY <2>1, EmptySeq DEF Sent
  <2>3. Undisturbed({"disorder", "button"})' => Undisturbed({"disorder", "button"})
    BY <2>1, BlamesTells
  <2>4. Undisturbed({"disorder", "button"}) => Sent <= r + 1
    <3>1. CASE pc = "process_cmd"
      BY <3>1, PadNumbers DEF InStep, Enumerates
    <3>2. CASE pc = "ready"
      BY <3>2, PadNumbers DEF InStep
    <3> QED
      BY <2>1, <3>1, <3>2
  <2>5. \A i \in 1..Len(to_dev') : to_dev'[i] <= r
    BY <2>2
  <2> QED
    BY <2>1, <2>2, <2>3, <2>4, <2>5 DEF InStep
<1> QED
  BY <1>1, <1>2, <1>3, <1>5, <1>6, <1>7, <1>8 DEF Pad

(***************************************************************************)
(* As long as nothing is in disorder, there is one session at most.        *)
(***************************************************************************)

\* Before the session.
Unused == /\ recv_seqnum = 0 /\ from_dev = <<>> /\ to_dev = <<>>
          /\ pc \in {"off", "process_cmd", "gone"}

\* After the application's connection was reset; the device is not exported again.
HungUp == /\ listening /\ ~edev.exported /\ blocked.at # "accept"
        /\ from_dev = <<>> /\ pc = "gone"

InSession(c) == \E r \in Nat : ReadUpTo(conn[c], r) /\ InStep(r)

Orderly ==
  /\ \A c \in Conns : conn[c].peer # "left"
  /\ edev.client_fd = NULL => Unused \/ HungUp
  /\ \A c \in Conns : edev.client_fd = c => InSession(c)

OrderlyInv == Undisturbed({"disorder"}) => Orderly

\* Nobody has left.
LEMMA NobodyLeft ==
  ASSUME StubAssumption, SessionInv, [Next]_vars, \A c \in Conns : conn[c].peer # "left",
         Undisturbed({"disorder"})', NEW d \in Conns
  PROVE  conn'[d].peer # "left"
<1>f. conn \in [Conns -> ConnRec]
  BY DEF SessionInv, SessionTypes
<1>1. CASE conn' = conn
  BY <1>1
<1>2. CASE ServerNext
  BY <1>2, ServerRecords, ShrinksOrNot DEF Shrinks
<1>3. CASE ClientStep
  <2>1. PICK c \in Conns : Client(c)
    BY <1>3 DEF ClientStep
  <2>2. PICK r \in ConnRec :
              /\ conn' = [conn EXCEPT ![c] = r]
              /\ Talks(conn[c], r) \/ Leaves(conn[c], r) \/ Asks(conn[c], r) \/ Cancels(conn[c], r)
    BY <2>1, ClientChanges DEF SessionInv
  <2>3. ~Blames({"disorder"})
    BY BlamesTells
  <2>4. r.peer # "left"
    BY <2>2, <2>3 DEF Talks, Leaves, Asks, Cancels
  <2> QED
    BY <1>f, <2>2, <2>4
<1>4. CASE Pad \/ UNCHANGED vars
  BY <1>1, <1>4, PadLeaves DEF vars, serverVars
<1> QED
  BY <1>2, <1>3, <1>4 DEF Next, ServerStep

\* Sending to a client that has not left succeeds.
LEMMA SendsWell ==
  ASSUME NEW c \in Conns, conn[c].peer # "left"
  PROVE  SendOutcomes(c) = {"ok"}
  BY DEF SendOutcomes

\* The import that begins the session.
LEMMA ImportStarts ==
  ASSUME StubAssumption, SessionInv, OnlyInSession, PadInv, StreamTypes, Orderly,
         NEW c \in Conns, Import(c), edev'.client_fd = c, UNCHANGED padVars
  PROVE  /\ Unused /\ conn'[c].peer = "attached" /\ Fresh(conn'[c])
         /\ InSession(c)'
<1>1. edev.client_fd = NULL /\ edev.exported /\ conn[c].peer # "left"
  BY ImportIsFresh DEF SessionInv, Whole, Orderly
<1>2. Unused
  BY <1>1 DEF Orderly, HungUp
<1>3. conn'[c].peer = "attached" /\ Fresh(conn'[c])
  BY <1>1, ImportIsFresh
<1>4. UNCHANGED <<recv_seqnum, to_dev, from_dev, pc>>
  BY DEF Import, padVars
<1>5. /\ recv_seqnum' = 0 /\ from_dev' = <<>> /\ to_dev' = <<>>
      /\ pc' \in {"off", "process_cmd", "gone"}
  BY <1>2, <1>4 DEF Unused
<1>6. Len(from_dev') = 0 /\ Len(to_dev') = 0
  BY <1>5, EmptySeq
<1>7. Sent' = 0
  BY <1>5, <1>6 DEF Sent
<1>8. Enumerates(0)'
  BY <1>6, <1>7 DEF Enumerates, StubAssumption
<1>9. InStep(0)'
  BY <1>5, <1>6, <1>7, <1>8 DEF InStep
<1> QED
  BY <1>2, <1>3, <1>9, FreshIsRead DEF InSession

\* The server's steps for its client.
LEMMA ServerInSession ==
  ASSUME StubAssumption, SessionInv, SessionInv', PadInv, StreamTypes, Orderly,
         NEW c \in Conns, edev.client_fd = c,
         ClientPdu(c) \/ SendRetSubmit(c), UNCHANGED padVars, Undisturbed({"disorder"})'
  PROVE  edev'.client_fd = c /\ InSession(c)'
<1> DEFINE k == conn[c]
<1>f. conn \in [Conns -> ConnRec] /\ edev \in Edev /\ k \in ConnRec
  BY DEF SessionInv, SessionTypes
<1>p. UNCHANGED <<pc, seqnum, re_seqnum>>
  BY DEF padVars
<1>l. k.peer # "left"
  BY DEF Orderly
<1>r. PICK r \in Nat : ReadUpTo(k, r) /\ InStep(r)
  BY DEF Orderly, InSession
<1>d. \A S : Blames(S) => (Undisturbed({"disorder", "button"})' => Undisturbed({"disorder", "button"}))
  BY BlamesTells
<1>n. ~Blames({"disorder"})
  BY BlamesTells
<1>o. SendOutcomes(c) = {"ok"}
  BY <1>l, SendsWell
<1>1. ASSUME NEW s, s \in {Read(k), Answered(Read(k), Head(k.up).seq)}, k.up # <<>>
      PROVE  /\ Head(k.up).cmd = "SUBMIT" => Head(k.up).seq = r + 1 /\ ReadUpTo(s, r + 1)
             /\ Head(k.up).cmd # "SUBMIT" => ReadUpTo(s, r)
  <2>1. s.issued = k.issued /\ s.up = Tail(k.up)
    BY <1>f, <1>1, ReadAndAnswered
  <2> QED
    BY <1>f, <1>r, <1>1, <2>1, ReadNext
<1>2. CASE RecvSubmit(c)
  <2>1. /\ k.up # <<>> /\ Head(k.up).cmd = "SUBMIT"
        /\ conn' = [conn EXCEPT ![c] = Read(k)]
        /\ edev' = [edev EXCEPT !.processing_urbs = @ \cup {Head(k.up).seq}]
        /\ to_dev' = IF pad_sock = "open" THEN Append(to_dev, Head(k.up).seq) ELSE to_dev
        /\ UNCHANGED <<recv_seqnum, from_dev, irregular>>
    BY <1>2 DEF RecvSubmit, ReadsFrom, Reads
  <2>2. conn'[c] = Read(k) /\ edev'.client_fd = c
    BY <1>f, <2>1 DEF Edev
  <2>3. Head(k.up).seq = r + 1 /\ ReadUpTo(conn'[c], r + 1)
    BY <1>1, <2>1, <2>2
  <2>4. InStep(r + 1)'
    <3>1. CASE to_dev' = to_dev
      <4>1. Undisturbed({"disorder", "button"})' => Undisturbed({"disorder", "button"})
        BY <2>1 DEF Undisturbed
      <4> QED
        BY <1>p, <1>r, <2>1, <3>1, <4>1, ReadsAhead
    <3>2. CASE to_dev' = Append(to_dev, r + 1)
      BY <1>p, <1>r, <2>1, <3>2, ReadsOn
    <3> QED
      BY <2>1, <2>3, <3>1, <3>2
  <2> QED
    BY <1>r, <2>2, <2>3, <2>4 DEF InSession
<1>3. CASE RecvSpecial(c)
  <2>1. /\ k.up # <<>> /\ Head(k.up).cmd = "SUBMIT" /\ Blames({"special"})
        /\ conn' = [conn EXCEPT ![c] = Answered(Read(k), Head(k.up).seq)] /\ edev' = edev
        /\ UNCHANGED <<recv_seqnum, from_dev, to_dev>>
    BY <1>3, <1>o DEF RecvSpecial, ReadsFrom
  <2>2. conn'[c] = Answered(Read(k), Head(k.up).seq) /\ edev'.client_fd = c
    BY <1>f, <2>1
  <2>3. ReadUpTo(conn'[c], r + 1)
    BY <1>1, <2>1, <2>2
  <2>4. InStep(r + 1)'
    BY <1>d, <1>p, <1>r, <2>1, ReadsAhead
  <2> QED
    BY <1>r, <2>2, <2>3, <2>4 DEF InSession
<1>4. CASE RecvUnlink(c)
  <2>1. /\ k.up # <<>> /\ Head(k.up).cmd # "SUBMIT" /\ \E S : Blames(S)
        /\ conn' = [conn EXCEPT ![c] = Answered(Read(k), Head(k.up).seq)] /\ edev' = edev
        /\ UNCHANGED <<recv_seqnum, from_dev, to_dev>>
    BY <1>4 DEF RecvUnlink, ReadsFrom
  <2>2. conn'[c] = Answered(Read(k), Head(k.up).seq) /\ edev'.client_fd = c
    BY <1>f, <2>1
  <2>3. ReadUpTo(conn'[c], r)
    BY <1>1, <2>1, <2>2
  <2>4. InStep(r)'
    BY <1>d, <1>p, <1>r, <2>1, ReadsAhead
  <2> QED
    BY <1>r, <2>2, <2>3, <2>4 DEF InSession
<1>5. CASE RecvEof(c) \/ RecvInvalid(c)
  BY <1>5, <1>l, <1>n DEF RecvEof, RecvInvalid
<1>6. CASE SendRetSubmit(c)
  <2>1. /\ from_dev # <<>> /\ from_dev' = Tail(from_dev) /\ recv_seqnum' = recv_seqnum + 1
        /\ to_dev' = to_dev /\ \E S : Blames(S)
        /\ conn' = conn \/ conn' = [conn EXCEPT ![c] = Answered(k, NextAnswer)]
        /\ edev' = edev \/ edev' = [edev EXCEPT !.processing_urbs = @ \ {NextAnswer}]
    BY <1>6 DEF SendRetSubmit
  <2>2. (conn'[c] = k \/ conn'[c] = Answered(k, NextAnswer)) /\ edev'.client_fd = c
    BY <1>f, <2>1 DEF Edev
  <2>3. conn'[c].issued = k.issued /\ conn'[c].up = k.up
    BY <1>f, <2>2, ReadAndAnswered
  <2>4. ReadUpTo(conn'[c], r)
    BY <1>r, <2>3 DEF ReadUpTo
  <2>5. Sent' = Sent
    BY <2>1, CountsOn
  <2>6. Undisturbed({"disorder", "button"})' => Undisturbed({"disorder", "button"})
    BY <1>d, <2>1
  <2>7. InStep(r)'
    BY <1>p, <1>r, <2>1, <2>5, <2>6 DEF InStep, Enumerates
  <2> QED
    BY <1>r, <2>2, <2>4, <2>7 DEF InSession
<1> QED
  BY <1>2, <1>3, <1>4, <1>5, <1>6 DEF ClientPdu

\* Every step keeps the order.
LEMMA OrderlyKeeps ==
  ASSUME StubAssumption, SessionInv, SessionInv', StreamTypes, OnlyInSession, PadInv, Orderly,
         [Next]_vars, Undisturbed({"disorder"})'
  PROVE  Orderly'
<1>f. conn \in [Conns -> ConnRec] /\ edev \in Edev
  BY DEF SessionInv, SessionTypes
<1>n. \A c \in Conns : conn'[c].peer # "left"
  BY NobodyLeft DEF Orderly
<1>b. ASSUME NEW S, Blames(S)
      PROVE  Undisturbed({"disorder", "button"})' => Undisturbed({"disorder", "button"})
  BY <1>b, BlamesTells
<1>m. irregular' = irregular => (Undisturbed({"disorder", "button"})' => Undisturbed({"disorder", "button"}))
  BY DEF Undisturbed
\* The session goes on in other steps than those of its parties.
<1>0. ASSUME NEW c \in Conns, edev.client_fd = c, conn'[c] = conn[c], irregular' = irregular,
             UNCHANGED <<recv_seqnum, from_dev, to_dev, padVars>>
      PROVE  InSession(c)'
  <2>1. PICK r \in Nat : ReadUpTo(conn[c], r) /\ InStep(r)
    BY <1>0 DEF Orderly, InSession
  <2>2. InStep(r)'
    BY <1>0, <1>m, <2>1, ReadsAhead DEF padVars
  <2> QED
    BY <1>0, <2>1, <2>2 DEF InSession
<1>u. UNCHANGED <<recv_seqnum, from_dev, to_dev, padVars>> /\ Unused => Unused'
  BY DEF Unused, padVars
<1>1. CASE ClientStep
  <2>1. PICK c \in Conns : Client(c)
    BY <1>1 DEF ClientStep
  <2>2. UNCHANGED <<blocked, listening, edev, recv_seqnum, to_dev, from_dev, padVars>>
    BY <1>1, <2>1, ClientChanges DEF ClientStep, SessionInv
  <2>3. PICK s \in ConnRec :
              /\ conn' = [conn EXCEPT ![c] = s]
              /\ Talks(conn[c], s) \/ Leaves(conn[c], s) \/ Asks(conn[c], s) \/ Cancels(conn[c], s)
    BY <2>1, ClientChanges DEF SessionInv
  <2>4. irregular' = irregular
    BY <2>3, BlamesTells DEF Talks, Leaves, Asks, Cancels
  <2>5. edev'.client_fd = NULL => (Unused \/ HungUp)'
    BY <2>2 DEF Orderly, Unused, HungUp, padVars
  <2>6. ASSUME NEW d \in Conns, edev'.client_fd = d PROVE InSession(d)'
    <3>1. CASE d # c
      BY <1>0, <1>f, <2>2, <2>3, <2>4, <2>6, <3>1
    <3>2. CASE d = c
      <4>1. PICK r \in Nat : ReadUpTo(conn[c], r) /\ InStep(r)
        BY <2>2, <2>6, <3>2 DEF Orderly, InSession
      <4>2. conn'[c] = s /\ ReadUpTo(s, r)
        BY <1>f, <2>3, <4>1, ClientIsRead
      <4>3. InStep(r)'
        BY <1>m, <2>2, <2>4, <4>1, ReadsAhead DEF padVars
      <4> QED
        BY <3>2, <4>2, <4>3 DEF InSession
    <3> QED
      BY <3>1, <3>2
  <2> QED
    BY <1>n, <2>5, <2>6 DEF Orderly
<1>2. ASSUME ServerNext, UNCHANGED padVars
      PROVE  /\ edev'.client_fd = NULL => (Unused \/ HungUp)'
             /\ \A d \in Conns : edev'.client_fd = d => InSession(d)'
  <2>1. ASSUME NEW c \in Conns, Accept(c) \/ OpLost(c) \/ OpReply(c) \/ Export(c)
        PROVE  /\ edev'.client_fd = NULL => (Unused \/ HungUp)'
               /\ \A d \in Conns : edev'.client_fd = d => InSession(d)'
    <3>1. /\ UNCHANGED <<edev, recv_seqnum, to_dev, from_dev, irregular>>
          /\ \A d \in Conns : edev.client_fd = d => conn'[d] = conn[d]
      BY <2>1, Quiet
    <3>2. ASSUME HungUp PROVE HungUp'
      <4>1. listening' = listening /\ blocked'.at # "accept"
        <5>1. CASE Accept(c)
          BY <5>1 DEF Accept
        <5>2. CASE OpLost(c) \/ OpReply(c)
          BY <5>2 DEF OpLost, OpReply, Loop
        <5>3. CASE Export(c)
          BY <3>2, <5>3 DEF Export, HungUp
        <5> QED
          BY <2>1, <5>1, <5>2, <5>3
      <4> QED
        BY <1>2, <3>1, <3>2, <4>1 DEF HungUp, padVars
    <3> QED
      BY <1>0, <1>2, <1>u, <3>1, <3>2 DEF Orderly
  <2>2. ASSUME NEW c \in Conns, Import(c)
        PROVE  /\ edev'.client_fd = NULL => (Unused \/ HungUp)'
               /\ \A d \in Conns : edev'.client_fd = d => InSession(d)'
    <3>1. edev.client_fd = NULL /\ edev.exported /\ blocked' = Loop
          /\ UNCHANGED <<recv_seqnum, to_dev, from_dev, irregular, listening>>
      BY <2>2 DEF Import, Free, SessionInv, Whole
    <3>2. Unused
      BY <3>1 DEF Orderly, HungUp
    <3>3. edev' = edev \/ edev'.client_fd = c
      BY <1>f, <2>2 DEF Import, Edev
    <3>4. edev'.client_fd = c => InSession(c)'
      BY <1>2, <2>2, ImportStarts
    <3> QED
      BY <1>2, <1>u, <3>1, <3>2, <3>3, <3>4 DEF StubAssumption
  <2>3. ASSUME Exported
        PROVE  /\ edev'.client_fd = NULL => (Unused \/ HungUp)'
               /\ \A d \in Conns : edev'.client_fd = d => InSession(d)'
    <3>1. blocked.at = "accept" /\ UNCHANGED <<recv_seqnum, to_dev, from_dev>>
          /\ edev' = [UnImported(edev) EXCEPT !.exported = TRUE] /\ UnImported(edev) \in Edev
          /\ UnImported(edev).client_fd = NULL
      BY <1>f, <2>3, UnImportedType DEF Exported
    <3>2. edev'.client_fd = NULL
      BY <3>1 DEF Edev
    <3>3. edev.client_fd = NULL
      BY <3>1 DEF SessionInv, SessionTypes, Edev, BlockedOnOp, Whole
    <3>4. Unused
      BY <3>1, <3>3 DEF Orderly, HungUp
    <3> QED
      BY <1>2, <1>u, <3>1, <3>2, <3>4 DEF StubAssumption
  <2>4. ASSUME NEW c \in Conns, edev.client_fd = c, ClientPdu(c) \/ SendRetSubmit(c)
        PROVE  /\ edev'.client_fd = NULL => (Unused \/ HungUp)'
               /\ \A d \in Conns : edev'.client_fd = d => InSession(d)'
    BY <1>2, <2>4, ServerInSession DEF StubAssumption
  <2>5. ASSUME DeviceEventUnwanted
        PROVE  /\ edev'.client_fd = NULL => (Unused \/ HungUp)'
               /\ \A d \in Conns : edev'.client_fd = d => InSession(d)'
    <3>1. UNCHANGED <<edev, blocked, listening, conn, recv_seqnum, to_dev, from_dev, irregular>>
      BY <2>5 DEF DeviceEventUnwanted
    <3>2. HungUp => HungUp'
      BY <1>2, <3>1 DEF HungUp, padVars
    <3> QED
      BY <1>0, <1>2, <1>u, <3>1, <3>2 DEF Orderly
  <2>6. ASSUME DeviceHup
        PROVE  /\ edev'.client_fd = NULL => (Unused \/ HungUp)'
               /\ \A d \in Conns : edev'.client_fd = d => InSession(d)'
    <3>1. /\ blocked.at = "loop" /\ edev.exported /\ pad_sock = "reset" /\ from_dev' = <<>>
          /\ UNCHANGED <<blocked, listening>> /\ pc' = pc
          /\ edev' = [UnImported(edev) EXCEPT !.exported = FALSE] /\ UnImported(edev) \in Edev
          /\ UnImported(edev).client_fd = NULL
      BY <1>2, <1>f, <2>6, UnImportedType DEF DeviceHup, InLoop, padVars
    <3>2. edev'.client_fd = NULL /\ ~edev'.exported
      BY <3>1 DEF Edev
    <3>3. listening /\ pc = "gone"
      BY <3>1 DEF PadInv
    <3>4. HungUp'
      BY <3>1, <3>2, <3>3 DEF HungUp
    <3> QED
      BY <3>2, <3>4 DEF StubAssumption
  <2>7. \A c \in Conns : ClientPdu(c) \/ SendRetSubmit(c) => edev.client_fd = c
    BY DEF ClientPdu, RecvEof, RecvSubmit, RecvSpecial, RecvInvalid, RecvUnlink, ReadsFrom,
           SendRetSubmit
  <2> QED
    BY <1>2, <2>1, <2>2, <2>3, <2>4, <2>5, <2>6, <2>7 DEF ServerNext, Operation, DeviceUrb
<1>3. CASE ServerStep
  BY <1>2, <1>3, <1>n DEF ServerStep, Orderly
<1>4. CASE Pad
  <2>1. UNCHANGED <<blocked, listening, edev, recv_seqnum, conn>>
    BY <1>4, PadLeaves
  <2>2. ASSUME NEW c \in Conns, edev'.client_fd = c PROVE InSession(c)'
    <3>1. PICK r \in Nat : ReadUpTo(conn[c], r) /\ InStep(r)
      BY <2>1, <2>2 DEF Orderly, InSession
    <3>2. InStep(r)'
      BY <1>4, <3>1, PadInStep
    <3> QED
      BY <2>1, <3>1, <3>2 DEF InSession
  <2>3. ASSUME Unused PROVE Unused'
    <3>n. ~Blames({"disorder"})
      BY BlamesTells
    <3>1. pc # "ready" /\ to_dev = <<>> /\ Len(to_dev) = 0
      BY <2>3, EmptySeq DEF Unused
    <3>2. PadConnect \/ PadGone
      BY <1>4, <3>n, <3>1 DEF Pad, PadCommand, PadAck, PadMove, PadScroll, PadButton, PadIs
    <3> QED
      BY <2>1, <2>3, <3>2 DEF PadConnect, PadGone, Unused
  <2>4. ASSUME HungUp PROVE HungUp'
    BY <1>4, <2>4 DEF HungUp, Pad, PadConnect, PadCommand, PadAck, PadMove, PadScroll, PadButton,
       PadGone, Connected, PadIs
  <2> QED
    BY <1>n, <2>1, <2>2, <2>3, <2>4 DEF Orderly
<1>5. CASE UNCHANGED vars
  <2>1. UNCHANGED <<edev, blocked, listening, conn, recv_seqnum, to_dev, from_dev, irregular,
                    padVars>>
    BY <1>5 DEF vars, serverVars
  <2>2. HungUp => HungUp'
    BY <2>1 DEF HungUp, padVars
  <2> QED
    BY <1>0, <1>n, <1>u, <2>1, <2>2 DEF Orderly
<1> QED
  BY <1>1, <1>3, <1>4, <1>5 DEF Next

(***************************************************************************)
(* The answers of the enumeration get the numbers of their requests.       *)
(***************************************************************************)

\* For a client with the record k: what is on its way is numbered right, an event only
\* after the enumeration; until then the client has one request beyond what was
\* answered, and waits for all the server has not counted.
Matches(k) ==
  /\ \A i \in 1..Len(from_dev) :
       recv_seqnum + i <= CMD_MAX_RECV \/ from_dev[i] # 0 => from_dev[i] = recv_seqnum + i
  /\ pc = "ready" => CMD_MAX_RECV <= Sent
  /\ \/ CMD_MAX_RECV <= Sent
     \/ /\ k.issued <= Sent + 1
        /\ \A n \in (recv_seqnum + 1)..k.issued : n \in k.waiting

MatchesInv == Undisturbed({"disorder", "special", "unlink"}) =>
                \A c \in Conns : edev.client_fd = c => Matches(conn[c])

\* A client submits the next request of the enumeration when the last one was answered.
LEMMA ClientMatches ==
  ASSUME StubAssumption, StreamTypes, NEW k \in ConnRec, NEW s \in ConnRec,
         k.waiting \subseteq 1..k.issued, Matches(k),
         Talks(k, s) \/ Leaves(k, s) \/ Asks(k, s) \/ Cancels(k, s)
  PROVE  Matches(s)
<1>0. k.issued \in Nat /\ IsFiniteSet(k.waiting)
  <2>1. k.issued \in Nat
    BY DEF ConnRec
  <2>2. IsFiniteSet(1..k.issued)
    <3>1. 1 \in Int /\ k.issued \in Int
      BY <2>1
    <3> QED
      BY ONLY <3>1, FS_Interval
  <2> QED
    BY <2>1, <2>2, FS_Subset
<1>1. CASE s.issued = k.issued /\ s.waiting = k.waiting
  BY <1>1 DEF Matches
<1>2. CASE Asks(k, s) /\ ~(CMD_MAX_RECV <= Sent)
  <2>1. k.issued <= Sent + 1 /\ \A n \in (recv_seqnum + 1)..k.issued : n \in k.waiting
    BY <1>2 DEF Matches
  <2>2. k.issued + 1 <= CMD_MAX_RECV + 1
    BY <1>0, <1>2, <2>1, PadNumbers
  <2>3. Cardinality(k.waiting) < 1
    BY <1>2, <2>2 DEF Asks, Depth
  <2>4. k.waiting = {}
    BY <1>0, <2>3, FS_EmptySet, FS_CardinalityType
  <2>5. k.issued <= recv_seqnum
    <3>1. k.issued \notin (recv_seqnum + 1)..k.issued
      BY <2>1, <2>4
    <3> QED
      BY <1>0, <3>1, PadNumbers
  <2>6. recv_seqnum <= Sent
    BY PadNumbers DEF Sent
  <2>7. s.issued = k.issued + 1 /\ s.issued \in s.waiting /\ s.issued <= Sent + 1
    BY <1>0, <1>2, <2>5, <2>6, PadNumbers DEF Asks
  <2>8. ASSUME NEW n \in (recv_seqnum + 1)..s.issued PROVE n \in s.waiting
    <3>1. n = s.issued
      BY <1>0, <2>5, <2>7, <2>8, PadNumbers
    <3> QED
      BY <2>7, <3>1
  <2> QED
    BY <2>7, <2>8 DEF Matches
<1>3. CASE CMD_MAX_RECV <= Sent
  BY <1>3 DEF Matches
<1> QED
  BY <1>1, <1>2, <1>3 DEF Talks, Leaves, Asks, Cancels, SameData

\* An answer is counted, and its request is no longer waited for.
LEMMA AnswerMatches ==
  ASSUME StubAssumption, StreamTypes, NEW k \in ConnRec, NEW s, Matches(k),
         from_dev # <<>>, from_dev' = Tail(from_dev), recv_seqnum' = recv_seqnum + 1, pc' = pc,
         s.issued = k.issued, k.waiting \ {recv_seqnum + 1} \subseteq s.waiting
  PROVE  Matches(s)'
<1>0. k.issued \in Nat
  BY DEF ConnRec
<1>1. Sent' = Sent /\ Len(from_dev) \in Nat /\ Len(from_dev') = Len(from_dev) - 1
      /\ \A i \in 1..Len(from_dev') : i + 1 \in 1..Len(from_dev) /\ from_dev'[i] = from_dev[i + 1]
  BY CountsOn
<1>2. ASSUME NEW i \in 1..Len(from_dev'), recv_seqnum' + i <= CMD_MAX_RECV \/ from_dev'[i] # 0
      PROVE  from_dev'[i] = recv_seqnum' + i
  <2>1. i + 1 \in 1..Len(from_dev) /\ from_dev'[i] = from_dev[i + 1]
    BY <1>1
  <2>2. recv_seqnum + (i + 1) = recv_seqnum' + i
    <3>1. i \in Nat /\ recv_seqnum \in Nat
      BY PadNumbers
    <3> QED
      BY <3>1
  <2> QED
    BY <1>2, <2>1, <2>2 DEF Matches
<1>3. ASSUME ~(CMD_MAX_RECV <= Sent), NEW n \in (recv_seqnum' + 1)..s.issued
      PROVE  n \in s.waiting
  <2>1. n \in (recv_seqnum + 1)..k.issued /\ n # recv_seqnum + 1
    BY <1>0, <1>3, PadNumbers
  <2> QED
    BY <1>3, <2>1 DEF Matches
<1> QED
  BY <1>1, <1>2, <1>3 DEF Matches

\* The application answers a request with its number; events come later.
LEMMA PadMatches ==
  ASSUME StubAssumption, StreamTypes, NEW k \in ConnRec, NEW r \in Nat, r <= k.issued, InStep(r),
         Matches(k), Pad, Undisturbed({"disorder"})'
  PROVE  Matches(k)'
<1>0. k.issued \in Nat /\ recv_seqnum' = recv_seqnum
  BY PadLeaves DEF ConnRec
<1>m. \A i \in 1..Len(from_dev) :
        recv_seqnum + i <= CMD_MAX_RECV \/ from_dev[i] # 0 => from_dev[i] = recv_seqnum + i
  BY DEF Matches
<1>n. ~Blames({"disorder"})
  BY BlamesTells
<1>1. CASE PadCommand
  <2> DEFINE cmd == Head(to_dev)
  <2>1. PICK j \in 1..Len(to_dev) : Receives(j)
    BY <1>1 DEF PadCommand
  <2>2. cmd = to_dev[1] /\ 1 \in 1..Len(to_dev)
    BY <2>1, TakesNumbers
  <2>3. /\ pc = "process_cmd"
        /\ from_dev' = IF InTable(cmd) THEN Append(from_dev, cmd) ELSE from_dev
        /\ pc' = "ready" => cmd >= CMD_MAX
    BY <1>1 DEF PadCommand, PadIs
  <2>4. cmd \in Nat /\ Sent + 1 <= cmd /\ cmd <= k.issued
    <3>1. Sent + 1 <= cmd /\ cmd <= r /\ cmd \in Nat
      BY <2>2, <2>3, PadNumbers DEF InStep, Enumerates
    <3> QED
      BY <1>0, <3>1, PadNumbers
  <2>5. CASE InTable(cmd)
    <3>1. cmd \in Answers /\ cmd <= CMD_MAX_RECV
      BY <2>4, <2>5, PadNumbers DEF InTable, Answers
    <3>2. /\ Sent' = Sent + 1 /\ Len(from_dev') = Len(from_dev) + 1
          /\ from_dev'[Len(from_dev) + 1] = cmd
          /\ \A i \in 1..Len(from_dev) : from_dev'[i] = from_dev[i]
      BY <1>0, <2>3, <2>5, <3>1, OneMore
    <3>3. ~(CMD_MAX_RECV <= Sent)
      BY <2>4, <3>1, PadNumbers
    <3>4. k.issued <= Sent + 1 /\ \A n \in (recv_seqnum + 1)..k.issued : n \in k.waiting
      BY <3>3 DEF Matches
    <3>5. cmd = recv_seqnum + (Len(from_dev) + 1)
      <4>1. cmd = Sent + 1
        BY <1>0, <2>4, <3>4, PadNumbers
      <4> QED
        BY <4>1, PadNumbers DEF Sent
    <3>6. \A i \in 1..Len(from_dev') : i \in 1..Len(from_dev) \/ i = Len(from_dev) + 1
      BY <3>2, PadNumbers
    <3>7. \A i \in 1..Len(from_dev') :
            recv_seqnum + i <= CMD_MAX_RECV \/ from_dev'[i] # 0 => from_dev'[i] = recv_seqnum + i
      BY <1>m, <3>2, <3>5, <3>6
    <3>8. pc' # "ready"
      BY <2>3, <2>4, <3>1, PadNumbers
    <3>9. k.issued <= Sent' + 1
      BY <1>0, <3>2, <3>4, PadNumbers
    <3> QED
      BY <1>0, <3>4, <3>7, <3>8, <3>9 DEF Matches
  <2>6. CASE ~InTable(cmd)
    <3>1. from_dev' = from_dev /\ Sent' = Sent
      BY <1>0, <2>3, <2>6 DEF Sent
    <3>2. pc' = "ready" => CMD_MAX_RECV <= Sent
      BY SMTT(30), <1>0, <2>3, <2>4, PadNumbers DEF Matches
    <3> QED
      BY <1>0, <3>1, <3>2 DEF Matches
  <2> QED
    BY <2>5, <2>6
<1>2. ASSUME NEW m \in 1..2, Sends(m), pc = "ready" PROVE Matches(k)'
  <2>1. /\ Sent' = Sent + m /\ Len(from_dev') = Len(from_dev) + m
        /\ \A i \in 1..Len(from_dev') :
             from_dev'[i] = IF i <= Len(from_dev) THEN from_dev[i] ELSE 0
    BY <1>2, SendsMore
  <2>2. CMD_MAX_RECV <= Sent
    BY <1>2 DEF Matches
  <2>3. CMD_MAX_RECV <= Sent'
    BY <2>1, <2>2, PadNumbers
  <2>4. ASSUME NEW i \in 1..Len(from_dev'),
               recv_seqnum + i <= CMD_MAX_RECV \/ from_dev'[i] # 0
        PROVE  from_dev'[i] = recv_seqnum + i
    <3>1. i <= Len(from_dev)
      <4>1. ASSUME ~(i <= Len(from_dev)) PROVE FALSE
        <5>1. from_dev'[i] = 0 /\ i \in Nat
          BY <2>1, <4>1
        <5>2. recv_seqnum + i > CMD_MAX_RECV
          BY <2>2, <4>1, <5>1, PadNumbers DEF Sent
        <5> QED
          BY <2>4, <5>1, <5>2, PadNumbers
      <4> QED
        BY <4>1
    <3>2. i \in 1..Len(from_dev) /\ from_dev'[i] = from_dev[i]
      BY <2>1, <3>1
    <3> QED
      BY <1>m, <2>4, <3>2
  <2> QED
    BY <1>0, <2>3, <2>4 DEF Matches
<1>3. CASE PadMove \/ PadScroll
  BY <1>2, <1>3, <1>n DEF PadMove, PadScroll, PadIs
<1>4. CASE PadButton
  BY <1>2, <1>4, <1>n DEF PadButton
<1>5. CASE PadConnect \/ PadAck \/ PadGone
  <2>1. from_dev' = from_dev /\ (pc' = "ready" => pc = "ready")
    BY <1>5 DEF PadConnect, PadAck, PadGone, PadIs
  <2>2. Sent' = Sent
    BY <1>0, <2>1 DEF Sent
  <2> QED
    BY <1>0, <2>1, <2>2 DEF Matches
<1> QED
  BY <1>1, <1>3, <1>4, <1>5 DEF Pad

\* Every step keeps that, while nobody else answers and nothing is cancelled.
LEMMA MatchesKeeps ==
  ASSUME StubAssumption, SessionInv, SessionInv', StreamTypes, OnlyInSession, PadInv, Orderly,
         \A c \in Conns : edev.client_fd = c => Matches(conn[c]),
         [Next]_vars, Undisturbed({"disorder", "special", "unlink"})',
         NEW c \in Conns, edev'.client_fd = c
  PROVE  Matches(conn[c])'
<1>f. conn \in [Conns -> ConnRec] /\ edev \in Edev /\ conn'[c] \in ConnRec
  BY DEF SessionInv, SessionTypes
<1>d. Undisturbed({"disorder"})'
  BY DEF Undisturbed
<1>n. ~Blames({"disorder"}) /\ ~Blames({"special"}) /\ ~Blames({"unlink"})
  BY BlamesTells
<1>w. conn[c].waiting \subseteq 1..conn[c].issued
  BY DEF StreamTypes
<1>0. ASSUME edev.client_fd = c, conn'[c].issued = conn[c].issued, conn'[c].waiting = conn[c].waiting,
             UNCHANGED <<recv_seqnum, from_dev, pc>>
      PROVE  Matches(conn[c])'
  <2>1. Sent' = Sent
    BY <1>0 DEF Sent
  <2> QED
    BY <1>0, <2>1 DEF Matches
<1>1. CASE ClientStep
  <2>1. PICK b \in Conns : Client(b)
    BY <1>1 DEF ClientStep
  <2>2. UNCHANGED <<edev, recv_seqnum, from_dev, pc>>
    BY <1>1, <2>1, ClientChanges DEF ClientStep, SessionInv, padVars
  <2>3. PICK s \in ConnRec :
              /\ conn' = [conn EXCEPT ![b] = s]
              /\ Talks(conn[b], s) \/ Leaves(conn[b], s) \/ Asks(conn[b], s) \/ Cancels(conn[b], s)
    BY <2>1, ClientChanges DEF SessionInv
  <2>4. CASE c # b
    BY <1>0, <1>f, <2>2, <2>3, <2>4
  <2>5. CASE c = b
    <3>1. Matches(s) /\ conn'[c] = s
      BY <1>f, <1>w, <2>2, <2>3, <2>5, ClientMatches
    <3>2. Sent' = Sent
      BY <2>2 DEF Sent
    <3> QED
      BY <2>2, <3>1, <3>2 DEF Matches
  <2> QED
    BY <2>4, <2>5
<1>2. CASE ServerStep
  <2>p. ServerNext /\ UNCHANGED padVars /\ pc' = pc
    BY <1>2 DEF ServerStep, padVars
  <2>1. ASSUME NEW b \in Conns, Accept(b) \/ OpLost(b) \/ OpReply(b) \/ Export(b)
        PROVE  Matches(conn[c])'
    BY <1>0, <2>p, <2>1, Quiet
  <2>2. ASSUME NEW b \in Conns, Import(b) PROVE Matches(conn[c])'
    <3>1. edev.client_fd = NULL
      BY <2>2 DEF Import, Free, SessionInv, Whole
    <3>2. edev' = edev \/ edev'.client_fd = b
      BY <1>f, <2>2 DEF Import, Edev
    <3>3. c = b
      BY <3>1, <3>2 DEF StubAssumption
    <3>4. Unused /\ Fresh(conn'[c])
      BY <2>2, <2>p, <3>3, ImportStarts
    <3>5. recv_seqnum' = 0 /\ from_dev' = <<>> /\ pc' # "ready"
      BY <2>2, <2>p, <3>4 DEF Import, Unused
    <3>6. Len(from_dev') = 0 /\ Sent' = 0
      BY <3>5, EmptySeq DEF Sent
    <3>7. conn'[c].issued = 0 /\ (recv_seqnum' + 1)..conn'[c].issued = {}
      BY <3>4, <3>5 DEF Fresh
    <3> QED
      BY <3>5, <3>6, <3>7 DEF Matches
  <2>3. CASE Exported \/ DeviceHup
    BY <1>f, <2>3, UnImportedType DEF Exported, DeviceHup, StubAssumption, Edev
  <2>4. ASSUME NEW b \in Conns, RecvSubmit(b) PROVE Matches(conn[c])'
    <3>1. edev.client_fd = b /\ conn[b].up # <<>> /\ conn' = [conn EXCEPT ![b] = Read(conn[b])]
          /\ UNCHANGED <<recv_seqnum, from_dev>>
          /\ edev' = [edev EXCEPT !.processing_urbs = @ \cup {Head(conn[b].up).seq}]
      BY <2>4 DEF RecvSubmit, ReadsFrom, Reads
    <3>2. c = b
      BY <1>f, <3>1 DEF Edev
    <3>3. conn'[c] = Read(conn[c])
      BY <1>f, <3>1, <3>2
    <3> QED
      BY SMTT(30), <1>0, <1>f, <2>p, <3>1, <3>2, <3>3, ReadAndAnswered
  <2>5. ASSUME NEW b \in Conns, RecvSpecial(b) PROVE Matches(conn[c])'
    BY <1>n, <2>5 DEF RecvSpecial
  <2>6. ASSUME NEW b \in Conns, RecvUnlink(b) PROVE Matches(conn[c])'
    <3> DEFINE n == Head(conn[b].up).seq
    <3>1. edev.client_fd = b /\ conn[b].up # <<>> /\ edev' = edev
          /\ conn' = [conn EXCEPT ![b] = Answered(Read(conn[b]), n)]
          /\ UNCHANGED <<recv_seqnum, from_dev>>
          /\ Blames(IF n <= CMD_MAX_RECV THEN {"unlink"} ELSE {})
      BY <2>6 DEF RecvUnlink, ReadsFrom
    <3>2. ~(n <= CMD_MAX_RECV)
      BY <1>n, <3>1
    <3>3. c = b /\ n \in Nat
      BY <3>1, ReadType, NumbersAreNat DEF SessionInv
    <3>4. conn'[c] = Answered(Read(conn[c]), n)
      BY <1>f, <3>1, <3>3
    <3>5. conn'[c].issued = conn[c].issued /\ conn'[c].waiting = conn[c].waiting \ {n}
      BY <1>f, <3>1, <3>3, <3>4, ReadAndAnswered
    <3> HIDE DEF n
    <3>6. Matches(conn[c]) /\ Sent' = Sent
      BY <3>1, <3>3 DEF Sent
    <3>7. ASSUME ~(CMD_MAX_RECV <= Sent), NEW m \in (recv_seqnum + 1)..conn[c].issued
          PROVE  m \in conn'[c].waiting
      <4>1. conn[c].issued <= Sent + 1 /\ m \in conn[c].waiting
        BY <3>6, <3>7 DEF Matches
      <4>2. conn[c].issued \in Nat
        BY <1>f DEF ConnRec
      <4>3. m # n
        BY SMTT(30), <3>2, <3>3, <3>7, <4>1, <4>2, PadNumbers
      <4> QED
        BY <3>5, <4>1, <4>3
    <3> QED
      BY <2>p, <3>1, <3>5, <3>6, <3>7 DEF Matches
  <2>7. ASSUME NEW b \in Conns, RecvEof(b) \/ RecvInvalid(b) PROVE Matches(conn[c])'
    BY <1>f, <2>7, UnImportedType DEF RecvEof, RecvInvalid, UnImport, StubAssumption
  <2>8. CASE DeviceEventUnwanted
    BY <1>0, <2>p, <2>8 DEF DeviceEventUnwanted
  <2>9. ASSUME NEW b \in Conns, SendRetSubmit(b) PROVE Matches(conn[c])'
    <3>1. /\ edev.client_fd = b
          /\ from_dev # <<>> /\ from_dev' = Tail(from_dev) /\ recv_seqnum' = recv_seqnum + 1
          /\ conn' = conn \/ conn' = [conn EXCEPT ![b] = Answered(conn[b], NextAnswer)]
          /\ edev' = edev \/ edev' = [edev EXCEPT !.processing_urbs = @ \ {NextAnswer}]
      BY <2>9 DEF SendRetSubmit
    <3>2. c = b
      BY <1>f, <3>1 DEF Edev
    <3>3. conn'[c] = conn[c] \/ conn'[c] = Answered(conn[c], recv_seqnum + 1)
      BY <1>f, <3>1, <3>2 DEF NextAnswer
    <3>4. PICK s : s = conn'[c]
      OBVIOUS
    <3>5. s.issued = conn[c].issued /\ conn[c].waiting \ {recv_seqnum + 1} \subseteq s.waiting
      BY <1>f, <3>3, <3>4, ReadAndAnswered
    <3>6. Matches(s)'
      BY <1>f, <2>p, <3>1, <3>2, <3>5, AnswerMatches
    <3> QED
      BY <3>4, <3>6 DEF Matches
  <2> QED
    BY <2>p, <2>1, <2>2, <2>3, <2>4, <2>5, <2>6, <2>7, <2>8, <2>9
       DEF ServerNext, Operation, ClientPdu, DeviceUrb
<1>3. CASE Pad
  <2>1. edev' = edev /\ conn' = conn
    BY <1>3, PadLeaves
  <2>2. PICK r \in Nat : ReadUpTo(conn[c], r) /\ InStep(r)
    BY <2>1 DEF Orderly, InSession
  <2>3. PICK k \in ConnRec : k = conn[c]
    BY <1>f
  <2>4. Matches(k)'
    BY <1>3, <1>d, <2>1, <2>2, <2>3, PadMatches DEF ReadUpTo
  <2> QED
    BY <2>1, <2>3, <2>4 DEF Matches
<1>4. CASE UNCHANGED vars
  BY <1>0, <1>4 DEF vars, serverVars, padVars
<1> QED
  BY <1>1, <1>2, <1>3, <1>4 DEF Next

(***************************************************************************)
(* The server outlives an orderly session.                                 *)
(***************************************************************************)

SurvivesInv == Undisturbed({"disorder", "gone", "ret_len"}) => fate = "running" /\ pc # "gone"

\* Sending RET_SUBMIT to a client that is there fails only for the length.
LEMMA RetSubmitFails ==
  ASSUME NEW c \in Conns, conn[c].peer # "left", NEW out \in RetSubmitOutcomes(c), ~out[2]
  PROVE  out[1] = "ok"
<1>1. SendOutcomes(c) = {"ok"}
  BY SendsWell
<1>2. PICK o : (o \in SendOutcomes(c) /\ out = <<o, FALSE>>) \/ (o \in {"ok", "error"} /\ out = <<o, TRUE>>)
  BY DEF RetSubmitOutcomes
<1>3. CASE o \in SendOutcomes(c) /\ out = <<o, FALSE>>
  <2>1. o = "ok"
    BY <1>1, <1>3
  <2>2. out[1] = o
    BY <1>3
  <2> QED
    BY <2>1, <2>2
<1>4. CASE out = <<o, TRUE>>
  <2>1. out[2] = TRUE
    BY <1>4
  <2> QED
    BY <2>1
<1> QED
  BY <1>2, <1>3, <1>4

\* In an orderly session no step ends the server or the application.
LEMMA SurvivesKeeps ==
  ASSUME StubAssumption, SessionInv, PadInv, StreamTypes, Orderly, fate = "running", pc # "gone",
         [Next]_vars, Undisturbed({"disorder", "gone", "ret_len"})'
  PROVE  fate' = "running" /\ pc' # "gone"
<1>n. ~Blames({"gone"}) /\ ~Blames({"ret_len"})
  BY BlamesTells
<1>o. \A c \in Conns : SendOutcomes(c) = {"ok"}
  BY SendsWell DEF Orderly
<1>1. CASE ClientStep
  BY <1>1, ClientChanges DEF ClientStep, padVars, SessionInv
<1>2. CASE ServerStep
  <2>p. ServerNext /\ pc' = pc
    BY <1>2 DEF ServerStep, padVars
  <2>1. ASSUME NEW c \in Conns, Accept(c) \/ OpLost(c) \/ OpReply(c) \/ Import(c)
        PROVE  fate' = "running"
    BY <1>o, <2>1 DEF Accept, OpLost, OpReply, Import
  <2>2. ASSUME NEW c \in Conns, Export(c) PROVE fate' = "running"
    BY <2>2 DEF Export, Serves, PadInv
  <2>3. ASSUME NEW c \in Conns, ClientPdu(c) PROVE fate' = "running"
    <3>1. CASE RecvSubmit(c)
      BY <3>1 DEF RecvSubmit, PadInv
    <3>2. CASE RecvSpecial(c)
      BY <1>o, <3>2 DEF RecvSpecial
    <3>3. CASE RecvUnlink(c)
      BY <1>o, <3>3 DEF RecvUnlink
    <3>4. CASE RecvEof(c) \/ RecvInvalid(c)
      BY <3>4 DEF RecvEof, RecvInvalid
    <3> QED
      BY <2>3, <3>1, <3>2, <3>3, <3>4 DEF ClientPdu
  <2>4. CASE Exported
    <3>1. blocked.conn \in Conns
      BY <2>4 DEF Exported, SessionInv, BlockedOnOp
    <3>2. \E out \in SendOutcomes(blocked.conn) :
            fate' = IF out = "killed" THEN "killed" ELSE fate
      BY <2>4 DEF Exported
    <3> QED
      BY <1>o, <2>p, <3>1, <3>2
  <2>5. CASE DeviceEventUnwanted
    <3>1. edev.client_fd = NULL
      BY <2>5 DEF DeviceEventUnwanted, SessionInv, Whole
    <3>2. from_dev = <<>>
      BY <3>1 DEF Orderly, Unused, HungUp
    <3> QED
      BY <2>5, <3>2 DEF DeviceEventUnwanted, PadInv
  <2>6. CASE DeviceHup
    <3>1. fate' = fate
      BY <2>6 DEF DeviceHup
    <3> QED
      BY <2>p, <3>1
  <2>7. ASSUME NEW c \in Conns, SendRetSubmit(c) PROVE fate' = "running"
    <3>1. PICK out \in RetSubmitOutcomes(c) :
            /\ Blames(IF out[2] THEN {"ret_len"} ELSE {})
            /\ out[1] = "ok" => UNCHANGED fate
      BY <2>7 DEF SendRetSubmit
    <3>2. ~out[2]
      BY <1>n, <3>1
    <3>3. out[1] = "ok"
      BY <3>2, RetSubmitFails DEF Orderly
    <3> QED
      BY <3>1, <3>3
  <2> QED
    BY <2>p, <2>1, <2>2, <2>3, <2>4, <2>5, <2>6, <2>7 DEF ServerNext, Operation, DeviceUrb
<1>3. CASE Pad
  <2>1. fate' = fate
    BY <1>3, PadLeaves
  <2>2. ~PadGone
    BY <1>n DEF PadGone
  <2> QED
    BY <1>3, <2>1, <2>2 DEF Pad, PadConnect, PadCommand, PadAck, PadMove, PadScroll, PadButton, Sends
<1>4. CASE UNCHANGED vars
  BY <1>4 DEF vars, serverVars, padVars
<1> QED
  BY <1>1, <1>2, <1>3, <1>4 DEF Next

(***************************************************************************)
(* The theorems about an orderly session.                                  *)
(***************************************************************************)

ServerInv ==
  /\ SessionInv /\ StreamTypes /\ OnlyInSession /\ PadInv
  /\ OrderlyInv /\ MatchesInv /\ SurvivesInv

\* At the start there is no session, no application and no disorder.
LEMMA InitServer == StubAssumption /\ PadAssumption /\ Init => ServerInv
<1> SUFFICES ASSUME StubAssumption, PadAssumption, Init PROVE ServerInv
  OBVIOUS
<1>0. SessionInv /\ StreamTypes
  BY InitSession, InitTypes
<1>1. /\ edev.client_fd = NULL /\ ~edev.exported /\ listening = FALSE /\ blocked.at = "loop"
      /\ pad_sock = "none" /\ pc = "off" /\ fate = "running"
      /\ recv_seqnum = 0 /\ to_dev = <<>> /\ from_dev = <<>>
      /\ \A c \in Conns : conn[c] = NewConn
  BY DEF Init, ServerInit, Loop
<1>2. OnlyInSession
  BY <1>1 DEF OnlyInSession, NewConn, Fresh
<1>3. PadInv
  BY <1>1 DEF PadInv
<1>4. Unused
  BY <1>1 DEF Unused
<1>5. \A c \in Conns : edev.client_fd # c /\ conn[c].peer # "left"
  BY <1>1 DEF StubAssumption, NewConn
<1>6. OrderlyInv
  BY <1>4, <1>5 DEF OrderlyInv, Orderly
<1>7. MatchesInv
  BY <1>5 DEF MatchesInv
<1>8. SurvivesInv
  BY <1>1 DEF SurvivesInv
<1> QED
  BY <1>0, <1>2, <1>3, <1>6, <1>7, <1>8 DEF ServerInv

\* Every step keeps the invariant.
LEMMA ServerInvStep ==
  StubAssumption /\ PadAssumption /\ ServerInv /\ [Next]_vars => ServerInv'
<1> SUFFICES ASSUME StubAssumption, PadAssumption, ServerInv, [Next]_vars PROVE ServerInv'
  OBVIOUS
<1>0. SessionInv /\ StreamTypes /\ OnlyInSession /\ PadInv
  BY DEF ServerInv
<1>1. SessionInv'
  BY <1>0, SessionStep
<1>2. StreamTypes'
  BY <1>0, <1>1, TypesStep
<1>3. OnlyInSession' /\ PadInv'
  BY <1>0, OnlyInSessionKeeps, PadInvKeeps
<1>t. SessionTypes
  BY <1>0 DEF SessionInv
<1>4. ASSUME Undisturbed({"disorder"})' PROVE Orderly /\ Orderly'
  <2>1. Undisturbed({"disorder"})
    BY <1>4, <1>t, StaysRecorded
  <2>2. Orderly
    BY <2>1 DEF ServerInv, OrderlyInv
  <2> QED
    BY <1>0, <1>1, <1>4, <2>2, OrderlyKeeps
<1>5. OrderlyInv'
  BY <1>4 DEF OrderlyInv
<1>6. MatchesInv'
  <2> SUFFICES ASSUME Undisturbed({"disorder", "special", "unlink"})', NEW c \in Conns,
                      edev'.client_fd = c
               PROVE  Matches(conn[c])'
    BY DEF MatchesInv
  <2>1. Undisturbed({"disorder", "special", "unlink"}) /\ Undisturbed({"disorder"})'
    BY <1>t, StaysRecorded DEF Undisturbed
  <2>2. \A d \in Conns : edev.client_fd = d => Matches(conn[d])
    BY <2>1 DEF ServerInv, MatchesInv
  <2> QED
    BY <1>0, <1>1, <1>4, <2>1, <2>2, MatchesKeeps
<1>7. SurvivesInv'
  <2> SUFFICES ASSUME Undisturbed({"disorder", "gone", "ret_len"})'
               PROVE  fate' = "running" /\ pc' # "gone"
    BY DEF SurvivesInv
  <2>1. Undisturbed({"disorder", "gone", "ret_len"}) /\ Undisturbed({"disorder"})'
    BY <1>t, StaysRecorded DEF Undisturbed
  <2>2. fate = "running" /\ pc # "gone"
    BY <2>1 DEF ServerInv, SurvivesInv
  <2> QED
    BY <1>0, <1>4, <2>1, <2>2, SurvivesKeeps
<1> QED
  BY <1>0, <1>1, <1>2, <1>3, <1>5, <1>6, <1>7 DEF ServerInv

\* The inductive invariant of orderly sessions.
THEOREM ServerInvHolds == Spec => []ServerInv
<1>1. Init => ServerInv
  BY StubAssumption, PadAssumption, InitServer
<1>2. ServerInv /\ [Next]_vars => ServerInv'
  BY StubAssumption, PadAssumption, ServerInvStep
<1> QED
  BY <1>1, <1>2, PTL DEF Spec

\* The server outlives every sequence of operations, requests and events in which no peer
\* goes away and the pad is not touched early (g_error, exit, signals).
THEOREM OrderlySessionSurvives == Spec => []OrderlySurvives
<1>1. ServerInv => OrderlySurvives
  BY DEF ServerInv, SurvivesInv, OrderlySurvives
<1> QED
  BY <1>1, ServerInvHolds, PTL

\* The application is at most one event ahead of the requests that the server has read
\* (is_sendable), unless buttons are pressed or something is in disorder.
THEOREM PadKeepsPace == Spec => []PadOneAheadAtMost
<1>1. ServerInv => PadOneAheadAtMost
  <2> SUFFICES ASSUME ServerInv, Undisturbed({"disorder", "button"}), NEW c \in Conns,
                      edev.client_fd = c
               PROVE  Sent <= conn[c].issued - Cardinality(Unread(c)) + 1
    BY DEF PadOneAheadAtMost, Sent
  <2>1. Undisturbed({"disorder"}) /\ StreamTypes /\ conn[c] \in ConnRec
    BY DEF Undisturbed, ServerInv, SessionInv, SessionTypes
  <2>2. PICK r \in Nat : ReadUpTo(conn[c], r) /\ InStep(r)
    BY <2>1 DEF ServerInv, OrderlyInv, Orderly, InSession
  <2>3. conn[c].issued - Cardinality(Unread(c)) = r
    BY <2>1, <2>2, HowManyRead DEF Unread
  <2>4. Sent <= r + 1
    <3>1. CASE pc \in {"off", "process_cmd"}
      BY <2>1, <2>2, <3>1, PadNumbers, StubAssumption DEF InStep, Enumerates
    <3>2. CASE pc = "ready"
      BY <2>1, <2>2, <3>2, PadNumbers, StubAssumption DEF InStep
    <3>3. CASE pc = "gone"
      BY <2>2, <3>3 DEF InStep
    <3> QED
      BY <2>1, <3>1, <3>2, <3>3 DEF StreamTypes
  <2> QED
    BY <2>3, <2>4
<1> QED
  BY <1>1, ServerInvHolds, PTL

\* While the first client is there, asks the device only, cancels no request of the
\* enumeration, and the pad is not touched before that is over, each answer on its way
\* will be given the number of its request (recv_dev, process_cmd).
THEOREM EnumerationIsAnsweredRight == Spec => []EnumerationAnswersMatch
<1>1. ServerInv => EnumerationAnswersMatch
  <2> SUFFICES ASSUME ServerInv, Undisturbed({"disorder", "special", "unlink"}),
                      NEW i \in 1..Len(from_dev),
                      NextAnswer + i - 1 <= CMD_MAX_RECV \/ from_dev[i] # 0
               PROVE  from_dev[i] = NextAnswer + i - 1
    BY DEF EnumerationAnswersMatch
  <2>1. Undisturbed({"disorder"}) /\ StreamTypes
    BY DEF Undisturbed, ServerInv
  <2>2. NextAnswer + i - 1 = recv_seqnum + i
    BY <2>1, PadNumbers, StubAssumption DEF NextAnswer
  <2>3. CASE edev.client_fd = NULL
    <3>1. from_dev = <<>>
      BY <2>1, <2>3 DEF ServerInv, OrderlyInv, Orderly, Unused, HungUp
    <3>2. Len(from_dev) = 0
      BY <3>1, EmptySeq
    <3> QED
      BY <3>2
  <2>4. ASSUME NEW c \in Conns, edev.client_fd = c
        PROVE  from_dev[i] = NextAnswer + i - 1
    <3>1. Matches(conn[c])
      BY <2>4 DEF ServerInv, MatchesInv
    <3> QED
      BY <2>2, <3>1 DEF Matches
  <2>5. edev.client_fd \in Conns \cup {NULL}
    BY DEF ServerInv, SessionInv, SessionTypes, Edev
  <2> QED
    BY <2>3, <2>4, <2>5
<1> QED
  BY <1>1, ServerInvHolds, PTL

==============================================================================
