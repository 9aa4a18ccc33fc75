--------------------------- MODULE UrbQueueProofs ---------------------------
(***************************************************************************)
(* Proofs about UrbQueue, for every set of URBs, reads and writers, every  *)
(* number of overlapping reads, every width of seq_num and every stray     *)
(* answer: its type, that every URB has exactly one party bound to         *)
(* complete it, that an answer finds the URB it is for, and that the queue *)
(* implements UrbService as far as safety goes.                            *)
(*                                                                         *)
(* ExactlyOneOwner is not inductive: it says nothing of the cancel         *)
(* routines by which the parties keep off each other's URBs, of the lock,  *)
(* or of the reads that try_addq borrows.  IInv adds that.  NumInv says    *)
(* who knows which number, AskedInv and SuccessInv how a URB may end.      *)
(*                                                                         *)
(* While the device is unplugged IInv does not hold: the drain leaves the  *)
(* cancel routine of what it takes.  UnplugInv says what is left of it,    *)
(* for every URB, and for those that nobody asked to cancel.               *)
(***************************************************************************)
EXTENDS UrbUnplug, SeqLemmas, TLAPS

(***************************************************************************)
(* The type invariant.                                                     *)
(***************************************************************************)

\* What the type invariant says of the elements of each function.
LEMMA Elements ==
  ASSUME TypeOK
  PROVE  /\ \A u \in Urbs : /\ urb_req[u] \in UrbReq
                            /\ irp[u] \in Irp
                            /\ dispatch[u] \in DispatchState
         /\ \A r \in Reads : reader[r] \in ReaderState
         /\ \A w \in Writers : writer[w] \in WriterState
  BY DEF TypeOK

\* RemoveAt leaves a list of URBs.
LEMMA RemovedType ==
  ASSUME TypeOK, NEW i \in 1..Len(ioctl_q)
  PROVE  ioctl_q[i] \in Urbs /\ RemoveAt(ioctl_q, i) \in Seq(Urbs)
  BY RemoveAtElements DEF TypeOK

\* Completing a URB, with a status of any party, keeps irp's type.
LEMMA CompleteType ==
  ASSUME TypeOK, NEW u \in Urbs, NEW st \in Statuses, Complete(u, st)
  PROVE  irp' \in [Urbs -> Irp]
<1>1. irp[u] \in Irp /\ irp[u].completions + 1 \in Nat
  BY Elements DEF Irp
<1>2. \A n \in Nat : [irp[u] EXCEPT !.completions = n, !.status = st] \in Irp
  BY <1>1 DEF Irp
<1> QED
  BY <1>1, <1>2 DEF Complete, TypeOK

\* The URBs of the list are URBs.
LEMMA QueuedType ==
  ASSUME TypeOK
  PROVE  Queued \subseteq Urbs
  BY DEF TypeOK, Queued, ToSet

\* The steps of a submitting thread keep the type.
LEMMA DispatchType ==
  ASSUME TypeOK, NEW u \in Urbs, Dispatch(u)
  PROVE  TypeOK'
<1> DEFINE d == dispatch[u]
<1>1. d \in DispatchState /\ irp[u] \in Irp
  BY Elements
<1>2. \A p \in DispatchPcs, st \in Statuses : [d EXCEPT !.pc = p, !.status = st] \in DispatchState
  BY <1>1 DEF DispatchState
<1>3. \A p \in DispatchPcs : [d EXCEPT !.pc = p] \in DispatchState
  BY <1>1 DEF DispatchState
<1>4. \A b \in BOOLEAN : [irp[u] EXCEPT !.routine = b] \in Irp
  BY <1>1 DEF Irp
<1>5. CASE Submit(u)
  <2>1. dispatch' \in [Urbs -> DispatchState]
    BY <1>2, <1>3, <1>5 DEF Submit, TypeOK, DispatchPcs, Statuses
  <2>2. ahead' \in [Urbs -> SUBSET Urbs]
    BY <1>5, QueuedType DEF Submit, TypeOK
  <2> QED
    BY <1>5, <2>1, <2>2 DEF Submit, TypeOK
<1>6. CASE AddqNoMemory(u)
  BY <1>2, <1>6 DEF AddqNoMemory, TypeOK, DispatchPcs, Statuses
<1>7. CASE AddqArm(u)
  BY <1>3, <1>4, <1>7 DEF AddqArm, TypeOK, DispatchPcs
<1>8. CASE AddqTakeRead(u)
  <2>1. pending_read_irp \in Reads /\ NextSeq \in Nat
    BY <1>8 DEF AddqTakeRead, ReaderWaits, NextSeq, TypeOK
  <2>2. [d EXCEPT !.pc = "fill", !.seq = NextSeq, !.read = pending_read_irp] \in DispatchState
    BY <1>1, <2>1 DEF DispatchState, DispatchPcs
  <2>3. [reader[pending_read_irp] EXCEPT !.pc = "lent"] \in ReaderState
    BY <2>1, Elements DEF ReaderState, ReaderPcs
  <2> QED
    BY <1>8, <2>1, <2>2, <2>3 DEF AddqTakeRead, TypeOK
<1>9. CASE AddqFilled(u)
  <2>1. SentEntry(u) \in UrbReq
    BY <1>1 DEF SentEntry, UrbReq, DispatchState
  <2> QED
    BY <1>3, <1>4, <1>9, <2>1 DEF AddqFilled, TypeOK, DispatchPcs
<1>10. CASE AddqFillFailed(u)
  BY <1>2, <1>10 DEF AddqFillFailed, TypeOK, DispatchPcs, Statuses
<1>11. CASE AddqCancelled(u)
  <2>1. AfterSection(u) \in DispatchPcs /\ "CANCELLED" \in Statuses
    BY DEF AfterSection, DispatchPcs, Statuses
  <2> QED
    BY <1>2, <1>4, <1>11, <2>1 DEF AddqCancelled, TypeOK
<1>12. CASE AddqInsert(u)
  <2>1. Append(ioctl_q, u) \in Seq(Urbs)
    BY DEF TypeOK
  <2> QED
    BY <1>3, <1>12, <2>1 DEF AddqInsert, TypeOK, DispatchPcs
<1>13. CASE AddqFinishRead(u)
  <2>1. d.seq \in Nat /\ d.read \in Reads \cup {NULL}
    BY <1>1 DEF DispatchState
  <2>2. [pc |-> "done", status |-> "SUCCESS", urb |-> u, seq |-> d.seq] \in ReaderState
    BY <2>1 DEF ReaderState, ReaderPcs, Statuses
  <2>3. \A r \in Reads :
          [reader[r] EXCEPT !.pc = "done", !.status = "INVALID_PARAMETER"] \in ReaderState
    BY Elements DEF ReaderState, ReaderPcs, Statuses
  <2> QED
    BY <1>3, <1>13, <2>1, <2>2, <2>3 DEF AddqFinishRead, TypeOK, DispatchPcs
<1>14. CASE DispatchComplete(u)
  <2>1. irp' \in [Urbs -> Irp]
    BY <1>1, <1>14, CompleteType DEF DispatchComplete, DispatchState
  <2> QED
    BY <1>3, <1>14, <2>1 DEF DispatchComplete, TypeOK, DispatchPcs
<1> QED
  BY <1>5, <1>6, <1>7, <1>8, <1>9, <1>10, <1>11, <1>12, <1>13, <1>14 DEF Dispatch

\* The steps of a cancellation keep the type.
LEMMA CancelType ==
  ASSUME TypeOK, NEW u \in Urbs, Cancel(u)
  PROVE  TypeOK'
<1>1. \A b \in BOOLEAN : /\ [irp[u] EXCEPT !.cancel = b] \in Irp
                         /\ [irp[u] EXCEPT !.routine = b] \in Irp
  BY Elements DEF Irp
<1>2. CASE CancelFlag(u)
  BY <1>1, <1>2 DEF CancelFlag, TypeOK, CancellerStates
<1>3. CASE CancelSwap(u)
  BY <1>1, <1>3 DEF CancelSwap, TypeOK, CancellerStates
<1>4. CASE CancelSearch(u) /\ u \in Queued
  <2>1. ioctl_q' \in Seq(Urbs)
    BY <1>4, RemovedType DEF CancelSearch, CancelFound
  <2> QED
    BY <1>4, <2>1 DEF CancelSearch, CancelFound, TypeOK, CancellerStates
<1>5. CASE CancelSearch(u) /\ u \notin Queued
  BY <1>5 DEF CancelSearch, CancelNotFound, TypeOK, CancellerStates
<1>6. CASE CancelComplete(u)
  <2>1. irp' \in [Urbs -> Irp]
    BY <1>6, CompleteType DEF CancelComplete, Statuses
  <2> QED
    BY <1>6, <2>1 DEF CancelComplete, TypeOK, CancellerStates
<1> QED
  BY <1>2, <1>3, <1>4, <1>5, <1>6 DEF Cancel

\* The steps of a read keep the type.
LEMMA ReadType ==
  ASSUME TypeOK, NEW r \in Reads, Read(r)
  PROVE  TypeOK'
<1> DEFINE d == reader[r]
<1>1. d \in ReaderState
  BY Elements
<1>2. \A p \in ReaderPcs, st \in Statuses : [d EXCEPT !.pc = p, !.status = st] \in ReaderState
  BY <1>1 DEF ReaderState
<1>3. \A p \in ReaderPcs : [d EXCEPT !.pc = p] \in ReaderState
  BY <1>1 DEF ReaderState
<1>4. NextSeq \in Nat
  BY DEF NextSeq, TypeOK
<1>5. CASE StartRead(r)
  BY <1>2, <1>3, <1>5 DEF StartRead, TypeOK, ReaderPcs, Statuses
<1>6. CASE ReadTake(r)
  <2>1. PICK i \in 1..Len(ioctl_q), ok \in BOOLEAN :
          /\ urb_req' = [urb_req EXCEPT ![ioctl_q[i]] = [send |-> TRUE, seq |-> NextSeq]]
          /\ reader' = [reader EXCEPT ![r] =
               IF ok THEN [pc |-> "finish", status |-> "SUCCESS", urb |-> ioctl_q[i], seq |-> NextSeq]
                     ELSE [@ EXCEPT !.pc = "finish", !.status = "INVALID_PARAMETER"]]
    BY <1>6 DEF ReadTake
  <2>2. ioctl_q[i] \in Urbs
    BY RemovedType
  <2>3. [send |-> TRUE, seq |-> NextSeq] \in UrbReq
    BY <1>4 DEF UrbReq
  <2>4. [pc |-> "finish", status |-> "SUCCESS", urb |-> ioctl_q[i], seq |-> NextSeq] \in ReaderState
    BY <1>4, <2>2 DEF ReaderState, ReaderPcs, Statuses
  <2>5. [d EXCEPT !.pc = "finish", !.status = "INVALID_PARAMETER"] \in ReaderState
    BY <1>2 DEF ReaderPcs, Statuses
  <2> QED
    BY <1>4, <1>6, <2>1, <2>3, <2>4, <2>5 DEF ReadTake, TypeOK
<1>7. CASE ReadReject(r)
  <2>1. PICK i \in 1..Len(ioctl_q) :
          /\ irp' = [irp EXCEPT ![ioctl_q[i]].routine = FALSE]
          /\ urb_req' = [urb_req EXCEPT ![ioctl_q[i]] = [send |-> TRUE, seq |-> NextSeq]]
          /\ ioctl_q' = RemoveAt(ioctl_q, i)
          /\ reader' = [reader EXCEPT ![r].pc = "finish_urb", ![r].urb = ioctl_q[i],
                                      ![r].status = "INVALID_PARAMETER"]
    BY <1>7 DEF ReadReject
  <2>2. ioctl_q[i] \in Urbs /\ ioctl_q' \in Seq(Urbs)
    BY <2>1, RemovedType
  <2>3. [send |-> TRUE, seq |-> NextSeq] \in UrbReq
    BY <1>4 DEF UrbReq
  <2>4. [irp[ioctl_q[i]] EXCEPT !.routine = FALSE] \in Irp
    BY <2>2, Elements DEF Irp
  <2>5. [d EXCEPT !.pc = "finish_urb", !.urb = ioctl_q[i], !.status = "INVALID_PARAMETER"]
          \in ReaderState
    BY <1>1, <2>2 DEF ReaderState, ReaderPcs, Statuses
  <2> QED
    BY <1>4, <1>7, <2>1, <2>2, <2>3, <2>4, <2>5 DEF ReadReject, TypeOK
<1>8. CASE ReadPark(r)
  BY <1>2, <1>3, <1>8 DEF ReadPark, TypeOK, ReaderPcs, Statuses
<1>9. CASE ReadFinishUrb(r)
  <2>1. irp' \in [Urbs -> Irp]
    <3>1. CASE d.urb \in Urbs
      BY <1>9, <3>1, CompleteType DEF ReadFinishUrb, Statuses
    <3>2. CASE d.urb = NULL
      BY <1>9, <3>2, ConstantsAssumption DEF ReadFinishUrb, Complete, TypeOK
    <3> QED
      BY <1>1, <3>1, <3>2 DEF ReaderState
  <2>2. [d EXCEPT !.pc = "finish", !.urb = NULL] \in ReaderState
    BY <1>1 DEF ReaderState, ReaderPcs
  <2> QED
    BY <1>9, <2>1, <2>2 DEF ReadFinishUrb, TypeOK
<1>10. CASE FinishRead(r)
  BY <1>3, <1>10 DEF FinishRead, TypeOK, ReaderPcs
<1> QED
  BY <1>5, <1>6, <1>7, <1>8, <1>9, <1>10 DEF Read

\* The steps of a writer keep the type.
LEMMA WriteType ==
  ASSUME TypeOK, NEW w \in Writers, Write(w)
  PROVE  TypeOK'
<1> DEFINE d == writer[w]
<1>1. d \in WriterState /\ IdleWriter \in WriterState
  BY Elements DEF IdleWriter, WriterState, WriterPcs, Statuses
<1>2. ASSUME NEW s \in Nat, NEW r \in Reads \cup {NULL}, StartWrite(w, Wire(s), r)
      PROVE  writer' \in [Writers -> WriterState]
  <2>1. Wire(s) \in Nat
    BY ConstantsAssumption DEF Wire
  <2>2. [d EXCEPT !.pc = "search", !.wire = Wire(s), !.read = r] \in WriterState
    BY <1>1, <2>1 DEF WriterState, WriterPcs
  <2> QED
    BY <1>2, <2>2 DEF StartWrite, TypeOK
<1>3. ASSUME NEW r \in Reads, WriteReply(w, r)
      PROVE  TypeOK'
  <2>1. writer' \in [Writers -> WriterState]
    BY <1>2, <1>3, Elements DEF WriteReply, ReaderState
  <2>2. [reader[r] EXCEPT !.pc = "answered"] \in ReaderState
    BY Elements DEF ReaderState, ReaderPcs
  <2> QED
    BY <1>3, <2>1, <2>2 DEF WriteReply, StartWrite, TypeOK
<1>4. ASSUME NEW s \in StraySeqs, WriteStray(w, s)
      PROVE  TypeOK'
  <2>1. writer' \in [Writers -> WriterState]
    BY <1>2, <1>4, ConstantsAssumption DEF WriteStray
  <2> QED
    BY <1>4, <2>1 DEF WriteStray, StartWrite, TypeOK
<1>5. CASE WriteMatch(w)
  <2>1. PICK i \in 1..Len(ioctl_q), st \in WriteStatuses :
          /\ irp' = [irp EXCEPT ![ioctl_q[i]].routine = FALSE]
          /\ ioctl_q' = RemoveAt(ioctl_q, i)
          /\ writer' = [writer EXCEPT ![w].pc = "finish_urb", ![w].urb = ioctl_q[i],
                                      ![w].status = st]
    BY <1>5 DEF WriteMatch
  <2>2. ioctl_q[i] \in Urbs /\ ioctl_q' \in Seq(Urbs)
    BY <2>1, RemovedType
  <2>3. [irp[ioctl_q[i]] EXCEPT !.routine = FALSE] \in Irp
    BY <2>2, Elements DEF Irp
  <2>4. [d EXCEPT !.pc = "finish_urb", !.urb = ioctl_q[i], !.status = st] \in WriterState
    BY <1>1, <2>2 DEF WriterState, WriterPcs, WriteStatuses, Statuses
  <2> QED
    BY <1>5, <2>1, <2>2, <2>3, <2>4 DEF WriteMatch, TypeOK
<1>6. CASE WriteNoMatch(w)
  BY <1>1, <1>6 DEF WriteNoMatch, TypeOK
<1>7. CASE WriteFinishUrb(w)
  <2>1. irp' \in [Urbs -> Irp]
    <3>1. CASE d.urb \in Urbs
      BY <1>1, <1>7, <3>1, CompleteType DEF WriteFinishUrb, WriterState
    <3>2. CASE d.urb = NULL
      BY <1>7, <3>2, ConstantsAssumption DEF WriteFinishUrb, Complete, TypeOK
    <3> QED
      BY <1>1, <3>1, <3>2 DEF WriterState
  <2> QED
    BY <1>1, <1>7, <2>1 DEF WriteFinishUrb, TypeOK
<1> QED
  BY <1>3, <1>4, <1>5, <1>6, <1>7 DEF Write

\* The initial state has the type.
LEMMA TypeInit == Init => TypeOK
  BY ConstantsAssumption DEF Init, TypeOK, IdleWriter, Statuses, DispatchPcs, ReaderPcs, WriterPcs,
     CancellerStates, UrbReq, Irp, DispatchState, ReaderState, WriterState

\* Every step keeps the type.
LEMMA TypeStep == TypeOK /\ [Next]_vars => TypeOK'
<1>1. ASSUME TypeOK, UNCHANGED vars
      PROVE  TypeOK'
  BY <1>1 DEF vars, TypeOK
<1> QED
  BY <1>1, DispatchType, CancelType, ReadType, WriteType DEF Next

\* Every variable of the queue keeps its type: in particular the list holds URBs only,
\* and no thread completes or hands out something that is not a URB.
THEOREM TypeCorrect == Spec => []TypeOK
  BY TypeInit, TypeStep, PTL DEF Spec

(***************************************************************************)
(* The inductive invariant.                                                *)
(***************************************************************************)

\* Who is bound to complete a URB, as sets of URBs.
DispatchHas == {u \in Urbs : DispatchOwns(u)}
CancelHas == {u \in Urbs : CancelOwns(u)}
ReadHas == {u \in Urbs : \E r \in Reads : ReadOwns(r, u)}
WriteHas == {u \in Urbs : \E w \in Writers : WriteOwns(w, u)}
Finished == {u \in Urbs : Completed(u)}

Submitted == {u \in Urbs : dispatch[u].pc # "new"}
Armed == {u \in Urbs : dispatch[u].pc = "armed"}

\* The URBs whose cancel routine is armed, and those whose cancel_irp was called.
Cancellable == {u \in Urbs : irp[u].routine}
Called == {u \in Urbs : canceller[u] = "called"}

\* q_lock is held between two steps by the URB whose try_addq is between them.
LockInv == \A u \in Urbs : q_lock = u <=> u \in Armed

\* The status and the read that a submitting thread carries from section to section.
DispatchInv ==
  \A u \in Urbs :
    /\ dispatch[u].pc \in {"new", "addq", "armed", "fill"} => dispatch[u].status = "PENDING"
    /\ dispatch[u].pc \in {"fill", "finish_read"} => dispatch[u].read # NULL

\* The URBs on the list, or about to be put on it, are those whose cancel routine is
\* armed or whose cancel_irp was called and has not run, and never both: so cancel_irp
\* finds what it looks for, and the others take off the list only what it has not.
RoutineInv ==
  /\ Cancellable \cap Called = {}
  /\ Cancellable \cup Called = Queued \cup Armed
  /\ \A u \in Urbs : canceller[u] # "lost"

\* A submitted URB is with one of the parties, or finished, and never with two.
OwnerInv ==
  /\ DispatchHas \cap (Queued \cup CancelHas \cup ReadHas \cup WriteHas \cup Finished) = {}
  /\ Queued \cap (CancelHas \cup ReadHas \cup WriteHas \cup Finished) = {}
  /\ CancelHas \cap (ReadHas \cup WriteHas \cup Finished) = {}
  /\ ReadHas \cap (WriteHas \cup Finished) = {}
  /\ WriteHas \cap Finished = {}
  /\ Submitted = DispatchHas \cup Queued \cup CancelHas \cup ReadHas \cup WriteHas \cup Finished

\* No party has a URB twice, and no URB is completed twice.
OnceInv ==
  /\ Distinct(ioctl_q)
  /\ \A u \in Urbs : irp[u].completions <= 1
  /\ \A u \in Urbs : \A q, r \in Reads : ReadOwns(q, u) /\ ReadOwns(r, u) => q = r
  /\ \A u \in Urbs : \A v, w \in Writers : WriteOwns(v, u) /\ WriteOwns(w, u) => v = w

\* The read that waits is parked, one that a submitting thread took is not in
\* anybody else's hands, and a thread that must complete a URB knows which.
ReadInv ==
  /\ \A u \in Urbs : dispatch[u].read # NULL =>
       reader[dispatch[u].read].pc \in {"lent", "done", "answered"}
  /\ pending_read_irp # NULL => reader[pending_read_irp].pc = "parked"
  /\ \A r \in Reads : reader[r].pc = "finish_urb" => reader[r].urb # NULL
  /\ \A w \in Writers : writer[w].pc = "finish_urb" => writer[w].urb # NULL

\* While a read waits, every entry was sent, the one about to be inserted included.
WaitInv ==
  pending_read_irp # NULL => \A u \in Queued \cup Armed : urb_req[u].send

\* All but the type.
Rest == LockInv /\ DispatchInv /\ RoutineInv /\ OwnerInv /\ OnceInv /\ ReadInv /\ WaitInv

\* The inductive invariant.
IInv == TypeOK /\ Rest

\* Everything the invariant says of who has which URB.
Parties == <<DispatchHas, Queued, CancelHas, ReadHas, WriteHas, Finished, Submitted,
             Armed, Cancellable, Called>>

(***************************************************************************)
(* The steps.                                                              *)
(***************************************************************************)

\* A step that leaves every URB with its party.
LEMMA PartiesKept ==
  ASSUME Rest, UNCHANGED Parties, UNCHANGED canceller
  PROVE  OwnerInv' /\ RoutineInv'
  BY DEF Rest, Parties, OwnerInv, RoutineInv

\* Submitting makes the submitting thread the URB's party.
LEMMA SubmitStep ==
  ASSUME IInv, NEW u \in Urbs, Submit(u)
  PROVE  Rest'
<1>1. /\ dispatch[u].pc = "new"
      /\ dispatch'[u].pc \in {"addq", "complete"}
      /\ dispatch'[u].pc = "addq" => dispatch'[u].status = dispatch[u].status
      /\ dispatch'[u].read = dispatch[u].read
      /\ \A v \in Urbs \ {u} : dispatch'[v] = dispatch[v]
      /\ UNCHANGED <<ioctl_q, q_lock, pending_read_irp, urb_req, irp, canceller, reader, writer>>
  BY DEF Submit, DispatchState, IInv, TypeOK
<1>2. dispatch'[u].pc = "complete" => dispatch'[u].status # "PENDING"
  BY DEF Submit, DispatchState, IInv, TypeOK
<1>3. /\ DispatchHas' = DispatchHas \cup {u}
      /\ Submitted' = Submitted \cup {u} /\ u \notin Submitted
      /\ Armed' = Armed
  BY <1>1 DEF DispatchHas, DispatchOwns, Submitted, Armed
<1>4. UNCHANGED <<Queued, CancelHas, ReadHas, WriteHas, Finished, Cancellable, Called>>
  BY <1>1 DEF Queued, CancelHas, CancelOwns, ReadHas, ReadOwns, WriteHas, WriteOwns, Finished,
     Completed, Cancellable, Called
<1>5. LockInv' /\ DispatchInv'
  BY <1>1, <1>2, <1>3 DEF LockInv, DispatchInv, IInv, Rest
<1>6. OwnerInv' /\ RoutineInv'
  BY <1>1, <1>3, <1>4 DEF OwnerInv, RoutineInv, IInv, Rest
<1>7. OnceInv' /\ ReadInv' /\ WaitInv'
  BY <1>1, <1>3, <1>4 DEF OnceInv, ReadInv, WaitInv, ReadOwns, WriteOwns, IInv, Rest
<1> QED
  BY <1>5, <1>6, <1>7 DEF Rest

\* The submitting thread fails before it has armed the routine.
LEMMA RefuseStep ==
  ASSUME IInv, NEW u \in Urbs, AddqNoMemory(u) \/ AddqFillFailed(u)
  PROVE  Rest'
<1>1. /\ dispatch[u].pc \in {"addq", "fill"}
      /\ dispatch'[u].pc \in {"complete", "finish_read"}
      /\ dispatch'[u].pc = "finish_read" => dispatch[u].pc = "fill"
      /\ dispatch'[u].status # "PENDING"
      /\ dispatch'[u].read = dispatch[u].read
      /\ \A v \in Urbs \ {u} : dispatch'[v] = dispatch[v]
      /\ UNCHANGED <<ioctl_q, q_lock, pending_read_irp, urb_req, irp, canceller, reader, writer>>
  BY DEF AddqNoMemory, AddqFillFailed, DispatchState, IInv, TypeOK
<1>2. UNCHANGED <<DispatchHas, Submitted, Armed>>
  BY <1>1 DEF DispatchHas, DispatchOwns, Submitted, Armed
<1>3. UNCHANGED Parties
  BY <1>1, <1>2 DEF Parties, Queued, CancelHas, CancelOwns, ReadHas, ReadOwns, WriteHas,
     WriteOwns, Finished, Completed, Cancellable, Called
<1>4. LockInv' /\ DispatchInv'
  BY <1>1, <1>2 DEF LockInv, DispatchInv, IInv, Rest
<1>5. OwnerInv' /\ RoutineInv'
  BY <1>1, <1>3, PartiesKept DEF IInv
<1>6. OnceInv' /\ ReadInv' /\ WaitInv'
  BY <1>1, <1>3 DEF Parties, OnceInv, ReadInv, WaitInv, ReadOwns, WriteOwns, IInv, Rest
<1> QED
  BY <1>4, <1>5, <1>6 DEF Rest

\* Either section of try_addq arms the routine and holds the lock.  A URB that was
\* not handed to a read is armed when no read waits.
LEMMA ArmStep ==
  ASSUME IInv, NEW u \in Urbs, AddqArm(u) \/ AddqFilled(u)
  PROVE  Rest'
<1>1. /\ dispatch[u].pc \in {"addq", "fill"} /\ q_lock = NULL /\ q_lock' = u
      /\ UNCHANGED <<ioctl_q, pending_read_irp, canceller, reader, writer>>
      /\ \A v \in Urbs :
           /\ dispatch'[v].pc = IF v = u THEN "armed" ELSE dispatch[v].pc
           /\ dispatch'[v].status = dispatch[v].status
           /\ dispatch'[v].read = dispatch[v].read
           /\ irp'[v].routine <=> v = u \/ irp[v].routine
           /\ irp'[v].completions = irp[v].completions
      /\ \A v \in Urbs \ {u} : urb_req'[v] = urb_req[v]
  BY DEF AddqArm, AddqFilled, LockFree, DispatchState, Irp, IInv, TypeOK
<1>2. urb_req'[u].send \/ pending_read_irp = NULL
  BY DEF AddqArm, AddqFilled, SentEntry, ReaderWaits, IInv, TypeOK
<1>3. /\ Armed' = Armed \cup {u} /\ u \notin Armed
      /\ DispatchHas' = DispatchHas /\ u \in DispatchHas
      /\ Submitted' = Submitted
  BY <1>1 DEF Armed, DispatchHas, DispatchOwns, Submitted
<1>4. Cancellable' = Cancellable \cup {u} /\ Finished' = Finished
  BY <1>1 DEF Cancellable, Finished, Completed
<1>5. UNCHANGED <<Queued, CancelHas, Called, ReadHas, WriteHas>>
  BY <1>1 DEF Queued, CancelHas, CancelOwns, Called, ReadHas, ReadOwns, WriteHas, WriteOwns
<1>6. LockInv'
  BY <1>1, <1>3, ConstantsAssumption DEF LockInv, Armed, IInv, Rest
<1>7. DispatchInv'
  BY <1>1 DEF DispatchInv, IInv, Rest
<1>8. RoutineInv'
  BY <1>1, <1>3, <1>4, <1>5 DEF RoutineInv, OwnerInv, IInv, Rest
<1>9. OwnerInv'
  BY <1>3, <1>4, <1>5 DEF OwnerInv, IInv, Rest
<1>10. OnceInv' /\ ReadInv'
  BY <1>1 DEF OnceInv, ReadInv, ReadOwns, WriteOwns, IInv, Rest
<1>11. WaitInv'
  <2>1. ASSUME pending_read_irp # NULL, NEW v \in Queued \cup Armed
        PROVE  urb_req'[v].send
    BY <1>1, <1>2, <2>1, QueuedType DEF WaitInv, Armed, IInv, Rest
  <2> QED
    BY <1>1, <1>2, <1>3, <1>5, <2>1 DEF WaitInv
<1> QED
  BY <1>6, <1>7, <1>8, <1>9, <1>10, <1>11 DEF Rest

\* try_addq takes the waiting read: no URB changes hands.
LEMMA TakeReadStep ==
  ASSUME IInv, NEW u \in Urbs, AddqTakeRead(u)
  PROVE  Rest'
<1>1. /\ dispatch[u].pc = "addq" /\ dispatch'[u].pc = "fill"
      /\ dispatch'[u].status = dispatch[u].status
      /\ dispatch'[u].read = pending_read_irp
      /\ \A v \in Urbs \ {u} : dispatch'[v] = dispatch[v]
      /\ pending_read_irp \in Reads /\ pending_read_irp' = NULL
      /\ UNCHANGED <<ioctl_q, q_lock, urb_req, irp, canceller, writer>>
      /\ reader'[pending_read_irp].pc = "lent"
      /\ \A r \in Reads \ {pending_read_irp} : reader'[r] = reader[r]
  BY DEF AddqTakeRead, ReaderWaits, DispatchState, ReaderState, IInv, TypeOK
<1>2. reader[pending_read_irp].pc = "parked"
  BY <1>1, ConstantsAssumption DEF ReadInv, IInv, Rest
<1>3. UNCHANGED <<DispatchHas, Submitted, Armed>>
  BY <1>1 DEF DispatchHas, DispatchOwns, Submitted, Armed
<1>4. \A q \in Reads : \A v : ReadOwns(q, v)' <=> ReadOwns(q, v)
  BY <1>1, <1>2 DEF ReadOwns
<1>5. UNCHANGED Parties
  BY <1>1, <1>3, <1>4 DEF Parties, Queued, CancelHas, CancelOwns, ReadHas, WriteHas,
     WriteOwns, Finished, Completed, Cancellable, Called
<1>6. LockInv' /\ DispatchInv'
  BY <1>1, <1>3, ConstantsAssumption DEF LockInv, DispatchInv, IInv, Rest
<1>7. OwnerInv' /\ RoutineInv'
  BY <1>1, <1>5, PartiesKept DEF IInv
<1>8. OnceInv'
  BY <1>1, <1>4 DEF OnceInv, WriteOwns, IInv, Rest
<1>9. ReadInv' /\ WaitInv'
  <2>1. \A v \in Urbs : dispatch[v].read \in Reads \cup {NULL}
    BY Elements DEF DispatchState, IInv
  <2> QED
    BY <1>1, <1>2, <2>1 DEF ReadInv, WaitInv, IInv, Rest
<1> QED
  BY <1>6, <1>7, <1>8, <1>9 DEF Rest

\* try_addq takes the routine back: the URB stays with its thread.
LEMMA CancelledStep ==
  ASSUME IInv, NEW u \in Urbs, AddqCancelled(u)
  PROVE  Rest'
<1>1. /\ dispatch[u].pc = "armed" /\ irp[u].routine
      /\ dispatch'[u].pc = AfterSection(u)
      /\ dispatch'[u].status = "CANCELLED"
      /\ dispatch'[u].read = dispatch[u].read
      /\ \A v \in Urbs \ {u} : dispatch'[v] = dispatch[v]
      /\ \A v \in Urbs : /\ irp'[v].routine <=> v # u /\ irp[v].routine
                         /\ irp'[v].completions = irp[v].completions
      /\ q_lock' = NULL
      /\ UNCHANGED <<ioctl_q, pending_read_irp, urb_req, canceller, reader, writer>>
  BY DEF AddqCancelled, MustAbort, CanClaim, DispatchState, Irp, IInv, TypeOK
<1>2. /\ AfterSection(u) \in {"complete", "finish_read"}
      /\ AfterSection(u) = "finish_read" => dispatch[u].read # NULL
  BY DEF AfterSection
<1>3. /\ Armed' = Armed \ {u} /\ u \in Armed
      /\ DispatchHas' = DispatchHas /\ u \in DispatchHas
      /\ Submitted' = Submitted
  BY <1>1, <1>2 DEF Armed, DispatchHas, DispatchOwns, Submitted
<1>4. Cancellable' = Cancellable \ {u} /\ u \in Cancellable /\ Finished' = Finished
  BY <1>1 DEF Cancellable, Finished, Completed
<1>5. UNCHANGED <<Queued, CancelHas, Called, ReadHas, WriteHas>>
  BY <1>1 DEF Queued, CancelHas, CancelOwns, Called, ReadHas, ReadOwns, WriteHas, WriteOwns
<1>6. LockInv'
  BY <1>1, <1>3, ConstantsAssumption DEF LockInv, IInv, Rest
<1>7. DispatchInv'
  BY <1>1, <1>2 DEF DispatchInv, IInv, Rest
<1>8. RoutineInv' /\ OwnerInv'
  BY <1>1, <1>3, <1>4, <1>5 DEF RoutineInv, OwnerInv, IInv, Rest
<1>9. OnceInv' /\ ReadInv'
  BY <1>1 DEF OnceInv, ReadInv, ReadOwns, WriteOwns, IInv, Rest
<1>10. WaitInv'
  BY <1>1, <1>3, <1>5 DEF WaitInv, IInv, Rest
<1> QED
  BY <1>6, <1>7, <1>8, <1>9, <1>10 DEF Rest

\* try_addq inserts the entry: the URB passes from its thread to the list.
LEMMA InsertStep ==
  ASSUME IInv, NEW u \in Urbs, AddqInsert(u)
  PROVE  Rest'
<1>1. /\ dispatch[u].pc = "armed"
      /\ dispatch'[u].pc \in {"returned", "finish_read"}
      /\ dispatch'[u].pc = "finish_read" => dispatch[u].read # NULL
      /\ dispatch'[u].status = dispatch[u].status
      /\ dispatch'[u].read = dispatch[u].read
      /\ \A v \in Urbs \ {u} : dispatch'[v] = dispatch[v]
      /\ ioctl_q' = Append(ioctl_q, u)
      /\ q_lock' = NULL
      /\ UNCHANGED <<pending_read_irp, urb_req, irp, canceller, reader, writer>>
  BY DEF AddqInsert, DispatchState, IInv, TypeOK
<1>2. dispatch[u].status = "PENDING"
  BY <1>1 DEF DispatchInv, IInv, Rest
<1>3. /\ Armed' = Armed \ {u} /\ u \in Armed
      /\ DispatchHas' = DispatchHas \ {u} /\ u \in DispatchHas
      /\ Submitted' = Submitted
  BY <1>1, <1>2 DEF Armed, DispatchHas, DispatchOwns, Submitted
<1>4. UNCHANGED <<CancelHas, Called, ReadHas, WriteHas, Finished, Cancellable>>
  BY <1>1 DEF CancelHas, CancelOwns, Called, ReadHas, ReadOwns, WriteHas, WriteOwns, Finished,
     Completed, Cancellable
<1>5. u \notin Queued
  BY <1>3 DEF OwnerInv, IInv, Rest
<1>6. Queued' = Queued \cup {u} /\ Distinct(ioctl_q')
  BY <1>1, <1>5, AppendDistinct DEF Queued, OnceInv, IInv, Rest, TypeOK
<1>7. LockInv'
  BY <1>1, <1>3, ConstantsAssumption DEF LockInv, IInv, Rest
<1>8. DispatchInv'
  BY <1>1 DEF DispatchInv, IInv, Rest
<1>9. RoutineInv'
  BY <1>1, <1>3, <1>4, <1>6 DEF RoutineInv, IInv, Rest
<1>10. OwnerInv'
  BY <1>3, <1>4, <1>6 DEF OwnerInv, IInv, Rest
<1>11. OnceInv' /\ ReadInv'
  BY <1>1, <1>6 DEF OnceInv, ReadInv, ReadOwns, WriteOwns, IInv, Rest
<1>12. WaitInv'
  BY <1>1, <1>3, <1>6 DEF WaitInv, IInv, Rest
<1> QED
  BY <1>7, <1>8, <1>9, <1>10, <1>11, <1>12 DEF Rest

\* try_addq completes the read it took: no URB changes hands.
LEMMA FinishLentReadStep ==
  ASSUME IInv, NEW u \in Urbs, AddqFinishRead(u)
  PROVE  Rest'
<1>1. dispatch[u].pc = "finish_read" /\ dispatch[u].read \in Reads
  BY Elements DEF AddqFinishRead, DispatchState, DispatchInv, IInv, Rest
<1>2. /\ dispatch'[u].pc = IF dispatch[u].status = "PENDING" THEN "returned" ELSE "complete"
      /\ dispatch'[u].status = dispatch[u].status
      /\ dispatch'[u].read = dispatch[u].read
      /\ \A v \in Urbs \ {u} : dispatch'[v] = dispatch[v]
      /\ UNCHANGED <<ioctl_q, q_lock, pending_read_irp, urb_req, irp, canceller, writer>>
  BY DEF AddqFinishRead, DispatchState, IInv, TypeOK
<1>3. /\ reader'[dispatch[u].read].pc = "done"
      /\ \A r \in Reads \ {dispatch[u].read} : reader'[r] = reader[r]
  BY <1>1 DEF AddqFinishRead, ReaderState, IInv, TypeOK
<1>4. reader[dispatch[u].read].pc \in {"lent", "done", "answered"}
  BY <1>1, ConstantsAssumption DEF ReadInv, IInv, Rest
<1>5. UNCHANGED <<DispatchHas, Submitted, Armed>>
  BY <1>1, <1>2 DEF DispatchHas, DispatchOwns, Submitted, Armed
<1>6. \A q \in Reads : \A v : ReadOwns(q, v)' <=> ReadOwns(q, v)
  BY <1>3, <1>4 DEF ReadOwns
<1>7. UNCHANGED Parties
  BY <1>2, <1>5, <1>6 DEF Parties, Queued, CancelHas, CancelOwns, ReadHas, WriteHas,
     WriteOwns, Finished, Completed, Cancellable, Called
<1>8. LockInv' /\ DispatchInv'
  BY <1>1, <1>2, <1>5 DEF LockInv, DispatchInv, IInv, Rest
<1>9. OwnerInv' /\ RoutineInv'
  BY <1>2, <1>7, PartiesKept DEF IInv
<1>10. OnceInv'
  BY <1>2, <1>6 DEF OnceInv, WriteOwns, IInv, Rest
<1>11. ReadInv'
  <2>1. /\ \A v \in Urbs : dispatch[v].read \in Reads \cup {NULL}
        /\ pending_read_irp \in Reads \cup {NULL}
    BY Elements DEF DispatchState, IInv, TypeOK
  <2>2. pending_read_irp # dispatch[u].read
    BY <1>1, <1>4, ConstantsAssumption DEF ReadInv, IInv, Rest
  <2> QED
    BY <1>2, <1>3, <2>1, <2>2 DEF ReadInv, IInv, Rest
<1>12. WaitInv'
  BY <1>2, <1>7 DEF WaitInv, Parties, IInv, Rest
<1> QED
  BY <1>8, <1>9, <1>10, <1>11, <1>12 DEF Rest

\* A party that has a URB completes it: Finished gains it, and it was not there.
LEMMA FinishedGains ==
  ASSUME IInv, NEW u \in Urbs, NEW st, Complete(u, st), u \notin Finished
  PROVE  /\ Finished' = Finished \cup {u}
         /\ UNCHANGED Cancellable
         /\ \A v \in Urbs : irp'[v].completions <= 1
<1>1. \A v \in Urbs : irp[v].completions \in Nat /\ irp[v].completions <= 1
  BY Elements DEF Irp, OnceInv, IInv, Rest
<1>2. /\ irp'[u].completions = irp[u].completions + 1
      /\ irp'[u].routine = irp[u].routine
      /\ \A v \in Urbs \ {u} : irp'[v] = irp[v]
  BY DEF Complete, Irp, IInv, TypeOK
<1>3. irp[u].completions = 0
  BY <1>1 DEF Finished, Completed
<1> QED
  BY <1>1, <1>2, <1>3 DEF Finished, Completed, Cancellable

\* The submitting thread completes its URB.
LEMMA DispatchCompleteStep ==
  ASSUME IInv, NEW u \in Urbs, DispatchComplete(u)
  PROVE  Rest'
<1>1. /\ dispatch[u].pc = "complete" /\ dispatch'[u].pc = "returned"
      /\ dispatch'[u].status = dispatch[u].status
      /\ dispatch'[u].read = dispatch[u].read
      /\ \A v \in Urbs \ {u} : dispatch'[v] = dispatch[v]
      /\ UNCHANGED <<ioctl_q, q_lock, pending_read_irp, urb_req, canceller, reader, writer>>
  BY DEF DispatchComplete, DispatchState, IInv, TypeOK
<1>2. /\ DispatchHas' = DispatchHas \ {u} /\ u \in DispatchHas
      /\ UNCHANGED <<Submitted, Armed>>
  BY <1>1 DEF DispatchHas, DispatchOwns, Submitted, Armed
<1>3. u \notin Finished
  BY <1>2 DEF OwnerInv, IInv, Rest
<1>4. /\ Finished' = Finished \cup {u}
      /\ UNCHANGED Cancellable
      /\ \A v \in Urbs : irp'[v].completions <= 1
  BY <1>3, FinishedGains DEF DispatchComplete
<1>5. UNCHANGED <<Queued, CancelHas, Called, ReadHas, WriteHas>>
  BY <1>1 DEF Queued, CancelHas, CancelOwns, Called, ReadHas, ReadOwns, WriteHas, WriteOwns
<1>6. LockInv' /\ DispatchInv'
  BY <1>1, <1>2 DEF LockInv, DispatchInv, IInv, Rest
<1>7. RoutineInv' /\ OwnerInv'
  BY <1>1, <1>2, <1>4, <1>5 DEF RoutineInv, OwnerInv, IInv, Rest
<1>8. OnceInv' /\ ReadInv'
  BY <1>1, <1>4 DEF OnceInv, ReadInv, ReadOwns, WriteOwns, IInv, Rest
<1>9. WaitInv'
  BY <1>1, <1>2, <1>5 DEF WaitInv, IInv, Rest
<1> QED
  BY <1>6, <1>7, <1>8, <1>9 DEF Rest

\* IoCancelIrp sets the flag: no URB changes hands.
LEMMA CancelFlagStep ==
  ASSUME IInv, NEW u \in Urbs, CancelFlag(u)
  PROVE  Rest'
<1>1. /\ canceller[u] = "none" /\ canceller'[u] = "flagged"
      /\ \A v \in Urbs \ {u} : canceller'[v] = canceller[v]
      /\ \A v \in Urbs : /\ irp'[v].routine <=> irp[v].routine
                         /\ irp'[v].completions = irp[v].completions
      /\ UNCHANGED <<ioctl_q, q_lock, pending_read_irp, urb_req, dispatch, reader, writer>>
  BY DEF CancelFlag, Irp, IInv, TypeOK
<1>2. UNCHANGED Parties
  BY <1>1 DEF Parties, DispatchHas, DispatchOwns, Submitted, Armed, Queued, CancelHas, CancelOwns,
     ReadHas, ReadOwns, WriteHas, WriteOwns, Finished, Completed, Cancellable, Called
<1>3. OwnerInv' /\ RoutineInv'
  BY <1>1, <1>2 DEF Parties, OwnerInv, RoutineInv, IInv, Rest
<1>4. LockInv' /\ DispatchInv' /\ OnceInv' /\ ReadInv' /\ WaitInv'
  BY <1>1, <1>2 DEF Parties, LockInv, DispatchInv, OnceInv, ReadInv, WaitInv, ReadOwns, WriteOwns,
     IInv, Rest
<1> QED
  BY <1>3, <1>4 DEF Rest

\* IoCancelIrp takes the routine out and calls it: Cancellable loses what Called gains.
LEMMA CancelSwapStep ==
  ASSUME IInv, NEW u \in Urbs, CancelSwap(u)
  PROVE  Rest'
<1>1. /\ canceller[u] = "flagged"
      /\ canceller'[u] = IF u \in Cancellable THEN "called" ELSE "over"
      /\ \A v \in Urbs \ {u} : canceller'[v] = canceller[v]
      /\ \A v \in Urbs : /\ irp'[v].routine <=> v # u /\ irp[v].routine
                         /\ irp'[v].completions = irp[v].completions
      /\ UNCHANGED <<ioctl_q, q_lock, pending_read_irp, urb_req, dispatch, reader, writer>>
  BY DEF CancelSwap, Cancellable, Irp, IInv, TypeOK
<1>2. UNCHANGED <<DispatchHas, Submitted, Armed, Queued, CancelHas, ReadHas, WriteHas, Finished>>
  BY <1>1 DEF DispatchHas, DispatchOwns, Submitted, Armed, Queued, CancelHas, CancelOwns,
     ReadHas, ReadOwns, WriteHas, WriteOwns, Finished, Completed
<1>3. /\ Cancellable' = Cancellable \ {u}
      /\ Called' = IF u \in Cancellable THEN Called \cup {u} ELSE Called
  BY <1>1 DEF Cancellable, Called
<1>4. OwnerInv'
  BY <1>2 DEF OwnerInv, IInv, Rest
<1>5. RoutineInv'
  BY <1>1, <1>2, <1>3 DEF RoutineInv, IInv, Rest
<1>6. LockInv' /\ DispatchInv' /\ OnceInv' /\ ReadInv' /\ WaitInv'
  BY <1>1, <1>2 DEF LockInv, DispatchInv, OnceInv, ReadInv, WaitInv, ReadOwns, WriteOwns, IInv, Rest
<1> QED
  BY <1>4, <1>5, <1>6 DEF Rest

\* The lock is free: no URB is between the two steps of a section.
LEMMA NoneArmed ==
  ASSUME IInv, LockFree
  PROVE  Armed = {}
  BY ConstantsAssumption DEF LockInv, LockFree, Armed, IInv, Rest

\* Taking the entry at position i off the list.
LEMMA TakenOff ==
  ASSUME IInv, NEW i \in 1..Len(ioctl_q), ioctl_q' = RemoveAt(ioctl_q, i)
  PROVE  /\ ioctl_q[i] \in Urbs /\ ioctl_q[i] \in Queued
         /\ Queued' = Queued \ {ioctl_q[i]}
         /\ Distinct(ioctl_q')
<1>1. ioctl_q \in Seq(Urbs) /\ Distinct(ioctl_q)
  BY DEF OnceInv, IInv, TypeOK, Rest
<1>2. ioctl_q[i] \in Urbs /\ ioctl_q[i] \in Queued
  BY RemovedType DEF Queued, ToSet, IInv
<1> QED
  BY <1>1, <1>2, RemoveAtDistinct DEF Queued

\* cancel_irp takes the URB off the list.
LEMMA CancelFoundStep ==
  ASSUME IInv, NEW u \in Urbs, CancelFound(u)
  PROVE  Rest'
<1>1. /\ canceller[u] = "called" /\ canceller'[u] = "removed"
      /\ \A v \in Urbs \ {u} : canceller'[v] = canceller[v]
      /\ UNCHANGED <<q_lock, pending_read_irp, urb_req, irp, dispatch, reader, writer>>
  BY DEF CancelFound, IInv, TypeOK
<1>2. PICK i \in 1..Len(ioctl_q) : ioctl_q[i] = u /\ ioctl_q' = RemoveAt(ioctl_q, i)
  BY DEF CancelFound
<1>3. Queued' = Queued \ {u} /\ u \in Queued /\ Distinct(ioctl_q')
  BY <1>2, TakenOff
<1>4. /\ CancelHas' = CancelHas \cup {u}
      /\ Called' = Called \ {u} /\ u \in Called
  BY <1>1 DEF CancelHas, CancelOwns, Called
<1>5. Armed = {}
  BY NoneArmed DEF CancelFound
<1>6. UNCHANGED <<DispatchHas, Submitted, Armed, ReadHas, WriteHas, Finished, Cancellable>>
  BY <1>1 DEF DispatchHas, DispatchOwns, Submitted, Armed, ReadHas, ReadOwns, WriteHas, WriteOwns,
     Finished, Completed, Cancellable
<1>7. RoutineInv'
  BY <1>1, <1>3, <1>4, <1>5, <1>6 DEF RoutineInv, IInv, Rest
<1>8. OwnerInv'
  BY <1>3, <1>4, <1>6 DEF OwnerInv, IInv, Rest
<1>9. LockInv' /\ DispatchInv' /\ OnceInv' /\ ReadInv' /\ WaitInv'
  BY <1>1, <1>3, <1>6 DEF LockInv, DispatchInv, OnceInv, ReadInv, WaitInv, ReadOwns, WriteOwns,
     IInv, Rest
<1> QED
  BY <1>7, <1>8, <1>9 DEF Rest

\* cancel_irp always finds its URB: it is on the list, for nobody else could take it off.
LEMMA NotFoundNever ==
  ASSUME IInv, NEW u \in Urbs
  PROVE  ~CancelNotFound(u)
<1> SUFFICES ASSUME CancelNotFound(u)
             PROVE  FALSE
  OBVIOUS
<1>1. u \in Called /\ u \notin Queued /\ LockFree
  BY DEF CancelNotFound, Called
<1> QED
  BY <1>1, NoneArmed DEF RoutineInv, IInv, Rest

\* cancel_irp completes its URB.
LEMMA CancelCompleteStep ==
  ASSUME IInv, NEW u \in Urbs, CancelComplete(u)
  PROVE  Rest'
<1>1. /\ canceller[u] \in {"removed", "lost"} /\ canceller'[u] = "over"
      /\ \A v \in Urbs \ {u} : canceller'[v] = canceller[v]
      /\ UNCHANGED <<ioctl_q, q_lock, pending_read_irp, urb_req, dispatch, reader, writer>>
  BY DEF CancelComplete, IInv, TypeOK
<1>2. /\ CancelHas' = CancelHas \ {u} /\ u \in CancelHas
      /\ Called' = Called
  BY <1>1 DEF CancelHas, CancelOwns, Called
<1>3. u \notin Finished
  BY <1>2 DEF OwnerInv, IInv, Rest
<1>4. /\ Finished' = Finished \cup {u}
      /\ UNCHANGED Cancellable
      /\ \A v \in Urbs : irp'[v].completions <= 1
  BY <1>3, FinishedGains DEF CancelComplete
<1>5. UNCHANGED <<DispatchHas, Submitted, Armed, Queued, ReadHas, WriteHas>>
  BY <1>1 DEF DispatchHas, DispatchOwns, Submitted, Armed, Queued, ReadHas, ReadOwns,
     WriteHas, WriteOwns
<1>6. RoutineInv'
  BY <1>1, <1>2, <1>4, <1>5 DEF RoutineInv, IInv, Rest
<1>7. OwnerInv'
  BY <1>2, <1>4, <1>5 DEF OwnerInv, IInv, Rest
<1>8. LockInv' /\ DispatchInv' /\ OnceInv' /\ ReadInv' /\ WaitInv'
  BY <1>1, <1>4, <1>5 DEF LockInv, DispatchInv, OnceInv, ReadInv, WaitInv, ReadOwns, WriteOwns,
     IInv, Rest
<1> QED
  BY <1>6, <1>7, <1>8 DEF Rest

\* What the reads' and writes' steps that touch no URB's party have in common.
LEMMA QuietReadStep ==
  ASSUME IInv, NEW r \in Reads, StartRead(r) \/ FinishRead(r)
  PROVE  Rest'
<1>1. /\ reader[r].pc \in {"idle", "finish"}
      /\ reader'[r].pc \in {"finish", "process", "done"}
      /\ \A q \in Reads \ {r} : reader'[q] = reader[q]
      /\ UNCHANGED <<ioctl_q, q_lock, pending_read_irp, urb_req, irp, dispatch, canceller, writer>>
  <2>1. CASE StartRead(r)
    BY <2>1 DEF StartRead, ReaderState, IInv, TypeOK
  <2>2. CASE FinishRead(r)
    BY <2>2 DEF FinishRead, ReaderState, IInv, TypeOK
  <2> QED
    BY <2>1, <2>2
<1>2. \A q \in Reads : \A v : ReadOwns(q, v)' <=> ReadOwns(q, v)
  BY <1>1 DEF ReadOwns
<1>3. UNCHANGED Parties
  BY <1>1, <1>2 DEF Parties, DispatchHas, DispatchOwns, Submitted, Armed, Queued, CancelHas,
     CancelOwns, ReadHas, WriteHas, WriteOwns, Finished, Completed, Cancellable, Called
<1>4. OwnerInv' /\ RoutineInv'
  BY <1>1, <1>3, PartiesKept DEF IInv
<1>5. ReadInv'
  <2>1. /\ \A v \in Urbs : dispatch[v].read \in Reads \cup {NULL}
        /\ pending_read_irp \in Reads \cup {NULL}
    BY Elements DEF DispatchState, IInv, TypeOK
  <2> QED
    BY <1>1, <2>1 DEF ReadInv, IInv, Rest
<1>6. LockInv' /\ DispatchInv' /\ OnceInv' /\ WaitInv'
  BY <1>1, <1>2, <1>3 DEF Parties, LockInv, DispatchInv, OnceInv, WaitInv, WriteOwns, IInv, Rest
<1> QED
  BY <1>4, <1>5, <1>6 DEF Rest

\* A read is handed a URB, which stays on the list.
LEMMA ReadTakeStep ==
  ASSUME IInv, NEW r \in Reads, ReadTake(r)
  PROVE  Rest'
<1>1. PICK i \in 1..Len(ioctl_q) :
        urb_req' = [urb_req EXCEPT ![ioctl_q[i]] = [send |-> TRUE, seq |-> NextSeq]]
  BY DEF ReadTake
<1>2. ioctl_q[i] \in Urbs
  BY RemovedType DEF IInv
<1>3. \A v \in Urbs : urb_req'[v] = urb_req[v] \/ urb_req'[v].send
  BY <1>1, <1>2 DEF IInv, TypeOK
<1>4. /\ reader[r].pc = "process" /\ reader'[r].pc = "finish"
      /\ \A q \in Reads \ {r} : reader'[q] = reader[q]
      /\ UNCHANGED <<ioctl_q, q_lock, pending_read_irp, irp, dispatch, canceller, writer>>
  BY DEF ReadTake, ReaderState, IInv, TypeOK
<1>5. \A q \in Reads : \A v : ReadOwns(q, v)' <=> ReadOwns(q, v)
  BY <1>4 DEF ReadOwns
<1>6. UNCHANGED Parties
  BY <1>4, <1>5 DEF Parties, DispatchHas, DispatchOwns, Submitted, Armed, Queued, CancelHas,
     CancelOwns, ReadHas, WriteHas, WriteOwns, Finished, Completed, Cancellable, Called
<1>7. OwnerInv' /\ RoutineInv'
  BY <1>4, <1>6, PartiesKept DEF IInv
<1>8. ReadInv'
  <2>1. /\ \A v \in Urbs : dispatch[v].read \in Reads \cup {NULL}
        /\ pending_read_irp \in Reads \cup {NULL}
    BY Elements DEF DispatchState, IInv, TypeOK
  <2> QED
    BY <1>4, <2>1 DEF ReadInv, IInv, Rest
<1>9. LockInv' /\ DispatchInv' /\ OnceInv'
  BY <1>4, <1>5, <1>6 DEF Parties, LockInv, DispatchInv, OnceInv, WriteOwns, IInv, Rest
<1>10. WaitInv'
  BY <1>3, <1>4, <1>6, QueuedType DEF Parties, WaitInv, Armed, IInv, Rest
<1> QED
  BY <1>7, <1>8, <1>9, <1>10 DEF Rest

\* A read waits: only when every entry was sent and none is about to be inserted.
LEMMA ReadParkStep ==
  ASSUME IInv, NEW r \in Reads, ReadPark(r)
  PROVE  Rest'
<1>1. /\ reader[r].pc = "process"
      /\ \/ pending_read_irp' = r /\ reader'[r].pc = "parked"
         \/ pending_read_irp' = pending_read_irp /\ reader'[r].pc = "finish"
      /\ \A q \in Reads \ {r} : reader'[q] = reader[q]
      /\ UNCHANGED <<ioctl_q, q_lock, urb_req, irp, dispatch, canceller, writer>>
  BY DEF ReadPark, ReaderState, IInv, TypeOK
<1>2. \A q \in Reads : \A v : ReadOwns(q, v)' <=> ReadOwns(q, v)
  BY <1>1 DEF ReadOwns
<1>3. UNCHANGED Parties
  BY <1>1, <1>2 DEF Parties, DispatchHas, DispatchOwns, Submitted, Armed, Queued, CancelHas,
     CancelOwns, ReadHas, WriteHas, WriteOwns, Finished, Completed, Cancellable, Called
<1>4. OwnerInv' /\ RoutineInv'
  BY <1>1, <1>3, PartiesKept DEF IInv
<1>5. ReadInv'
  <2>1. /\ \A v \in Urbs : dispatch[v].read \in Reads \cup {NULL}
        /\ pending_read_irp \in Reads \cup {NULL}
    BY Elements DEF DispatchState, IInv, TypeOK
  <2> QED
    BY <1>1, <2>1 DEF ReadInv, IInv, Rest
<1>6. LockInv' /\ DispatchInv' /\ OnceInv'
  BY <1>1, <1>2, <1>3 DEF Parties, LockInv, DispatchInv, OnceInv, WriteOwns, IInv, Rest
<1>7. \A u \in Queued : urb_req[u].send
  BY DEF ReadPark, UnsentAt, Queued, ToSet
<1>8. Armed = {}
  BY NoneArmed DEF ReadPark
<1>9. WaitInv'
  BY <1>1, <1>3, <1>7, <1>8 DEF Parties, WaitInv
<1> QED
  BY <1>4, <1>5, <1>6, <1>9 DEF Rest

\* set_read_irp_data failed: the read's thread takes the URB off the list.
LEMMA ReadRejectStep ==
  ASSUME IInv, NEW r \in Reads, ReadReject(r)
  PROVE  Rest'
<1>1. PICK i \in 1..Len(ioctl_q) :
        /\ CanClaim(ioctl_q[i])
        /\ irp' = [irp EXCEPT ![ioctl_q[i]].routine = FALSE]
        /\ urb_req' = [urb_req EXCEPT ![ioctl_q[i]] = [send |-> TRUE, seq |-> NextSeq]]
        /\ ioctl_q' = RemoveAt(ioctl_q, i)
        /\ reader' = [reader EXCEPT ![r].pc = "finish_urb", ![r].urb = ioctl_q[i],
                                    ![r].status = "INVALID_PARAMETER"]
  BY DEF ReadReject
<1> DEFINE u == ioctl_q[i]
<1>2. u \in Urbs
  BY RemovedType DEF IInv
<1>3. Queued' = Queued \ {u} /\ u \in Queued /\ Distinct(ioctl_q')
  BY <1>1, TakenOff
<1> HIDE DEF u
<1>4. /\ u \in Cancellable
      /\ \A v \in Urbs : /\ irp'[v].routine <=> v # u /\ irp[v].routine
                         /\ irp'[v].completions = irp[v].completions
  BY <1>1, <1>2 DEF u, CanClaim, Cancellable, Irp, IInv, TypeOK
<1>5. /\ reader[r].pc = "process" /\ reader'[r].pc = "finish_urb" /\ reader'[r].urb = u
      /\ \A q \in Reads \ {r} : reader'[q] = reader[q]
      /\ UNCHANGED <<q_lock, pending_read_irp, dispatch, canceller, writer>>
  BY <1>1 DEF u, ReadReject, ReaderState, IInv, TypeOK
<1>6. \A v \in Urbs : urb_req'[v] = urb_req[v] \/ urb_req'[v].send
  BY <1>1, <1>2 DEF u, IInv, TypeOK
<1>7. Cancellable' = Cancellable \ {u} /\ Finished' = Finished
  BY <1>4 DEF Cancellable, Finished, Completed
<1>8. ReadHas' = ReadHas \cup {u} /\ u \notin ReadHas
  <2>1. u \notin ReadHas
    BY <1>3 DEF OwnerInv, IInv, Rest
  <2> QED
    BY <1>2, <1>5, <2>1 DEF ReadHas, ReadOwns
<1>9. UNCHANGED <<DispatchHas, Submitted, Armed, CancelHas, Called, WriteHas>>
  BY <1>5 DEF DispatchHas, DispatchOwns, Submitted, Armed, CancelHas, CancelOwns, Called,
     WriteHas, WriteOwns
<1>10. Armed = {}
  BY NoneArmed DEF ReadReject
<1>11. RoutineInv'
  BY <1>3, <1>4, <1>5, <1>7, <1>9, <1>10 DEF RoutineInv, IInv, Rest
<1>12. OwnerInv'
  BY <1>3, <1>7, <1>8, <1>9 DEF OwnerInv, IInv, Rest
<1>13. OnceInv'
  BY <1>2, <1>3, <1>4, <1>5, <1>8 DEF OnceInv, ReadHas, ReadOwns, WriteOwns, IInv, Rest
<1>14. ReadInv'
  <2>1. /\ \A v \in Urbs : dispatch[v].read \in Reads \cup {NULL}
        /\ pending_read_irp \in Reads \cup {NULL}
    BY Elements DEF DispatchState, IInv, TypeOK
  <2> QED
    BY <1>2, <1>5, <2>1, ConstantsAssumption DEF ReadInv, IInv, Rest
<1>15. LockInv' /\ DispatchInv'
  BY <1>5, <1>9 DEF LockInv, DispatchInv, IInv, Rest
<1>16. WaitInv'
  BY <1>3, <1>5, <1>6, <1>9, QueuedType DEF WaitInv, Armed, IInv, Rest
<1> QED
  BY <1>11, <1>12, <1>13, <1>14, <1>15, <1>16 DEF Rest

\* A read's thread completes the URB it rejected.
LEMMA ReadFinishUrbStep ==
  ASSUME IInv, NEW r \in Reads, ReadFinishUrb(r)
  PROVE  Rest'
<1> DEFINE u == reader[r].urb
<1>1. reader[r].pc = "finish_urb" /\ u \in Urbs
  BY Elements DEF ReadFinishUrb, ReaderState, ReadInv, IInv, Rest
<1> HIDE DEF u
<1>2. /\ reader'[r].pc = "finish"
      /\ \A q \in Reads \ {r} : reader'[q] = reader[q]
      /\ UNCHANGED <<ioctl_q, q_lock, pending_read_irp, urb_req, dispatch, canceller, writer>>
  BY DEF ReadFinishUrb, ReaderState, IInv, TypeOK
<1>3. \A q \in Reads : ReadOwns(q, u) => q = r
  BY <1>1 DEF u, ReadOwns, OnceInv, IInv, Rest
<1>4. ReadHas' = ReadHas \ {u} /\ u \in ReadHas
  BY <1>1, <1>2, <1>3 DEF u, ReadHas, ReadOwns
<1>5. u \notin Finished
  BY <1>4 DEF OwnerInv, IInv, Rest
<1>6. /\ Finished' = Finished \cup {u}
      /\ UNCHANGED Cancellable
      /\ \A v \in Urbs : irp'[v].completions <= 1
  BY <1>1, <1>5, FinishedGains DEF u, ReadFinishUrb
<1>7. UNCHANGED <<DispatchHas, Submitted, Armed, Queued, CancelHas, Called, WriteHas>>
  BY <1>2 DEF DispatchHas, DispatchOwns, Submitted, Armed, Queued, CancelHas, CancelOwns, Called,
     WriteHas, WriteOwns
<1>8. RoutineInv' /\ OwnerInv'
  BY <1>2, <1>4, <1>6, <1>7 DEF RoutineInv, OwnerInv, IInv, Rest
<1>9. OnceInv'
  BY <1>2, <1>6 DEF OnceInv, ReadOwns, WriteOwns, IInv, Rest
<1>10. ReadInv'
  <2>1. /\ \A v \in Urbs : dispatch[v].read \in Reads \cup {NULL}
        /\ pending_read_irp \in Reads \cup {NULL}
    BY Elements DEF DispatchState, IInv, TypeOK
  <2> QED
    BY <1>1, <1>2, <2>1 DEF ReadInv, IInv, Rest
<1>11. LockInv' /\ DispatchInv' /\ WaitInv'
  BY <1>2, <1>7 DEF LockInv, DispatchInv, WaitInv, IInv, Rest
<1> QED
  BY <1>8, <1>9, <1>10, <1>11 DEF Rest

\* An answer comes in, or is dropped.
LEMMA QuietWriteStep ==
  ASSUME IInv, NEW w \in Writers,
         \/ \E r \in Reads : WriteReply(w, r)
         \/ \E s \in StraySeqs : WriteStray(w, s)
         \/ WriteNoMatch(w)
  PROVE  Rest'
<1>1. /\ writer[w].pc \in {"idle", "search"} /\ writer'[w].pc \in {"idle", "search"}
      /\ \A v \in Writers \ {w} : writer'[v] = writer[v]
      /\ UNCHANGED <<ioctl_q, q_lock, pending_read_irp, urb_req, irp, dispatch, canceller>>
  <2>1. ASSUME NEW s, NEW r, StartWrite(w, s, r)
        PROVE  <1>1!1 /\ <1>1!2 /\ <1>1!3
    BY <2>1 DEF StartWrite, WriterState, IInv, TypeOK
  <2>2. CASE WriteNoMatch(w)
    BY <2>2 DEF WriteNoMatch, IdleWriter, IInv, TypeOK
  <2> QED
    BY <2>1, <2>2 DEF WriteReply, WriteStray
<1>2. \A q \in Reads : \/ reader'[q] = reader[q]
                       \/ reader[q].pc = "done" /\ reader'[q].pc = "answered"
  BY DEF WriteReply, WriteStray, WriteNoMatch, ReaderState, IInv, TypeOK
<1>3. /\ \A q \in Reads : \A v : ReadOwns(q, v)' <=> ReadOwns(q, v)
      /\ \A x \in Writers : \A v : WriteOwns(x, v)' <=> WriteOwns(x, v)
  BY <1>1, <1>2 DEF ReadOwns, WriteOwns
<1>4. UNCHANGED Parties
  BY <1>1, <1>3 DEF Parties, DispatchHas, DispatchOwns, Submitted, Armed, Queued, CancelHas,
     CancelOwns, ReadHas, WriteHas, Finished, Completed, Cancellable, Called
<1>5. OwnerInv' /\ RoutineInv'
  BY <1>1, <1>4, PartiesKept DEF IInv
<1>6. ReadInv'
  <2>1. /\ \A v \in Urbs : dispatch[v].read \in Reads \cup {NULL}
        /\ pending_read_irp \in Reads \cup {NULL}
    BY Elements DEF DispatchState, IInv, TypeOK
  <2> QED
    BY <1>1, <1>2, <2>1 DEF ReadInv, IInv, Rest
<1>7. LockInv' /\ DispatchInv' /\ OnceInv' /\ WaitInv'
  BY <1>1, <1>3, <1>4 DEF Parties, LockInv, DispatchInv, OnceInv, WaitInv, IInv, Rest
<1> QED
  BY <1>5, <1>6, <1>7 DEF Rest

\* A writer takes the answered URB off the list.
LEMMA WriteMatchStep ==
  ASSUME IInv, NEW w \in Writers, WriteMatch(w)
  PROVE  Rest'
<1>1. PICK i \in 1..Len(ioctl_q), st \in WriteStatuses :
        /\ CanClaim(ioctl_q[i])
        /\ irp' = [irp EXCEPT ![ioctl_q[i]].routine = FALSE]
        /\ ioctl_q' = RemoveAt(ioctl_q, i)
        /\ writer' = [writer EXCEPT ![w].pc = "finish_urb", ![w].urb = ioctl_q[i],
                                    ![w].status = st]
  BY DEF WriteMatch
<1> DEFINE u == ioctl_q[i]
<1>2. u \in Urbs
  BY RemovedType DEF IInv
<1>3. Queued' = Queued \ {u} /\ u \in Queued /\ Distinct(ioctl_q')
  BY <1>1, TakenOff
<1> HIDE DEF u
<1>4. /\ u \in Cancellable
      /\ \A v \in Urbs : /\ irp'[v].routine <=> v # u /\ irp[v].routine
                         /\ irp'[v].completions = irp[v].completions
  BY <1>1, <1>2 DEF u, CanClaim, Cancellable, Irp, IInv, TypeOK
<1>5. /\ writer[w].pc = "search" /\ writer'[w].pc = "finish_urb" /\ writer'[w].urb = u
      /\ \A x \in Writers \ {w} : writer'[x] = writer[x]
      /\ UNCHANGED <<q_lock, pending_read_irp, urb_req, dispatch, canceller, reader>>
  BY <1>1 DEF u, WriteMatch, WriterState, IInv, TypeOK
<1>6. Cancellable' = Cancellable \ {u} /\ Finished' = Finished
  BY <1>4 DEF Cancellable, Finished, Completed
<1>7. WriteHas' = WriteHas \cup {u} /\ u \notin WriteHas
  <2>1. u \notin WriteHas
    BY <1>3 DEF OwnerInv, IInv, Rest
  <2> QED
    BY <1>2, <1>5, <2>1 DEF WriteHas, WriteOwns
<1>8. UNCHANGED <<DispatchHas, Submitted, Armed, CancelHas, Called, ReadHas>>
  BY <1>5 DEF DispatchHas, DispatchOwns, Submitted, Armed, CancelHas, CancelOwns, Called,
     ReadHas, ReadOwns
<1>9. Armed = {}
  BY NoneArmed DEF WriteMatch
<1>10. RoutineInv'
  BY <1>3, <1>4, <1>5, <1>6, <1>8, <1>9 DEF RoutineInv, IInv, Rest
<1>11. OwnerInv'
  BY <1>3, <1>6, <1>7, <1>8 DEF OwnerInv, IInv, Rest
<1>12. OnceInv'
  BY <1>2, <1>3, <1>4, <1>5, <1>7 DEF OnceInv, WriteHas, ReadOwns, WriteOwns, IInv, Rest
<1>13. ReadInv'
  BY <1>2, <1>5, ConstantsAssumption DEF ReadInv, IInv, Rest
<1>14. LockInv' /\ DispatchInv' /\ WaitInv'
  BY <1>3, <1>5, <1>8 DEF LockInv, DispatchInv, WaitInv, IInv, Rest
<1> QED
  BY <1>10, <1>11, <1>12, <1>13, <1>14 DEF Rest

\* A writer completes the URB that was answered.
LEMMA WriteFinishUrbStep ==
  ASSUME IInv, NEW w \in Writers, WriteFinishUrb(w)
  PROVE  Rest'
<1> DEFINE u == writer[w].urb
<1>1. writer[w].pc = "finish_urb" /\ u \in Urbs
  BY Elements DEF WriteFinishUrb, WriterState, ReadInv, IInv, Rest
<1> HIDE DEF u
<1>2. /\ writer'[w].pc = "idle"
      /\ \A x \in Writers \ {w} : writer'[x] = writer[x]
      /\ UNCHANGED <<ioctl_q, q_lock, pending_read_irp, urb_req, dispatch, canceller, reader>>
  BY DEF WriteFinishUrb, IdleWriter, IInv, TypeOK
<1>3. \A x \in Writers : WriteOwns(x, u) => x = w
  BY <1>1 DEF u, WriteOwns, OnceInv, IInv, Rest
<1>4. WriteHas' = WriteHas \ {u} /\ u \in WriteHas
  BY <1>1, <1>2, <1>3 DEF u, WriteHas, WriteOwns
<1>5. u \notin Finished
  BY <1>4 DEF OwnerInv, IInv, Rest
<1>6. /\ Finished' = Finished \cup {u}
      /\ UNCHANGED Cancellable
      /\ \A v \in Urbs : irp'[v].completions <= 1
  BY <1>1, <1>5, FinishedGains DEF u, WriteFinishUrb
<1>7. UNCHANGED <<DispatchHas, Submitted, Armed, Queued, CancelHas, Called, ReadHas>>
  BY <1>2 DEF DispatchHas, DispatchOwns, Submitted, Armed, Queued, CancelHas, CancelOwns, Called,
     ReadHas, ReadOwns
<1>8. RoutineInv' /\ OwnerInv'
  BY <1>2, <1>4, <1>6, <1>7 DEF RoutineInv, OwnerInv, IInv, Rest
<1>9. OnceInv' /\ ReadInv'
  BY <1>2, <1>6 DEF OnceInv, ReadInv, ReadOwns, WriteOwns, IInv, Rest
<1>10. LockInv' /\ DispatchInv' /\ WaitInv'
  BY <1>2, <1>7 DEF LockInv, DispatchInv, WaitInv, IInv, Rest
<1> QED
  BY <1>8, <1>9, <1>10 DEF Rest

(***************************************************************************)
(* The theorems.                                                           *)
(***************************************************************************)

\* The invariant holds at first.
LEMMA InvariantInit == Init => IInv
<1> SUFFICES ASSUME Init
             PROVE  IInv
  OBVIOUS
<1>1. TypeOK
  BY TypeInit
<1>2. /\ Queued = {} /\ Distinct(ioctl_q)
  BY DEF Init, Queued, ToSet, Distinct
<1>3. Parties = <<{}, {}, {}, {}, {}, {}, {}, {}, {}, {}>>
  BY <1>2 DEF Init, IdleWriter, Parties, DispatchHas, DispatchOwns, Submitted, Armed, CancelHas,
     CancelOwns, ReadHas, ReadOwns, WriteHas, WriteOwns, Finished, Completed, Cancellable, Called
<1>4. LockInv /\ DispatchInv
  BY <1>3, ConstantsAssumption DEF Init, Parties, LockInv, DispatchInv
<1>5. RoutineInv /\ OwnerInv
  BY <1>3 DEF Init, Parties, RoutineInv, OwnerInv
<1>6. OnceInv /\ ReadInv /\ WaitInv
  BY <1>2 DEF Init, IdleWriter, OnceInv, ReadInv, WaitInv, ReadOwns, WriteOwns
<1> QED
  BY <1>1, <1>4, <1>5, <1>6 DEF IInv, Rest

\* Every step keeps the invariant.
LEMMA InvariantStep == IInv /\ [Next]_vars => IInv'
<1> SUFFICES ASSUME IInv, [Next]_vars
             PROVE  IInv'
  OBVIOUS
<1>1. TypeOK'
  BY TypeStep DEF IInv
<1>2. ASSUME NEW u \in Urbs, Dispatch(u)
      PROVE  Rest'
  BY <1>2, SubmitStep, RefuseStep, ArmStep, TakeReadStep, CancelledStep, InsertStep,
     FinishLentReadStep, DispatchCompleteStep DEF Dispatch
<1>3. ASSUME NEW u \in Urbs, Cancel(u)
      PROVE  Rest'
  BY <1>3, CancelFlagStep, CancelSwapStep, CancelFoundStep, NotFoundNever, CancelCompleteStep
     DEF Cancel, CancelSearch
<1>4. ASSUME NEW r \in Reads, Read(r)
      PROVE  Rest'
  BY <1>4, QuietReadStep, ReadTakeStep, ReadRejectStep, ReadParkStep, ReadFinishUrbStep DEF Read
<1>5. ASSUME NEW w \in Writers, Write(w)
      PROVE  Rest'
  BY <1>5, QuietWriteStep, WriteMatchStep, WriteFinishUrbStep DEF Write
<1>6. CASE UNCHANGED vars
  <2>1. UNCHANGED Parties
    BY <1>6 DEF vars, Parties, DispatchHas, DispatchOwns, Submitted, Armed, Queued, CancelHas,
       CancelOwns, ReadHas, ReadOwns, WriteHas, WriteOwns, Finished, Completed, Cancellable, Called
  <2>2. OwnerInv' /\ RoutineInv'
    BY <1>6, <2>1, PartiesKept DEF vars, IInv
  <2>3. LockInv' /\ DispatchInv' /\ OnceInv' /\ ReadInv' /\ WaitInv'
    BY <1>6, <2>1 DEF vars, Parties, LockInv, DispatchInv, OnceInv, ReadInv, WaitInv, ReadOwns,
       WriteOwns, IInv, Rest
  <2> QED
    BY <1>1, <2>2, <2>3 DEF Rest, IInv
<1> QED
  BY <1>1, <1>2, <1>3, <1>4, <1>5, <1>6 DEF Next, IInv

\* The invariant holds in every reachable state.
THEOREM InvariantHolds == Spec => []IInv
  BY InvariantInit, InvariantStep, PTL DEF Spec

\* cancel_irp never comes to the branch that warns "why we can't found it?"
\* (busenum.c:1644): without an unplug its URB is still on the list when it gets
\* q_lock, for whoever else removes an entry takes the cancel routine first.
THEOREM CancelAlwaysFinds == Spec => [][\A u \in Urbs : ~CancelNotFound(u)]_vars
<1>1. IInv => \A u \in Urbs : ~CancelNotFound(u)
  BY NotFoundNever
<1> QED
  BY <1>1, InvariantHolds, PTL

\* The invariant implies ExactlyOneOwner.
LEMMA OneOwner == IInv => ExactlyOneOwner
<1> SUFFICES ASSUME IInv, NEW u \in Urbs
             PROVE  IF dispatch[u].pc = "new" \/ Completed(u)
                    THEN Owners(u) = {} /\ irp[u].completions <= 1
                    ELSE \E o \in Owners(u) : Owners(u) = {o}
  BY DEF ExactlyOneOwner
<1> DEFINE positions == {j \in 1..Len(ioctl_q) : ioctl_q[j] = u}
           reads == {r \in Reads : ReadOwns(r, u)}
           writes == {w \in Writers : WriteOwns(w, u)}
<1>1. /\ DispatchOwns(u) <=> u \in DispatchHas
      /\ CancelOwns(u) <=> u \in CancelHas
      /\ positions # {} <=> u \in Queued
      /\ reads # {} <=> u \in ReadHas
      /\ writes # {} <=> u \in WriteHas
  <2>1. DispatchOwns(u) <=> u \in DispatchHas
    BY DEF DispatchHas
  <2>2. CancelOwns(u) <=> u \in CancelHas
    BY DEF CancelHas
  <2>3. positions # {} <=> u \in Queued
    BY DEF Queued, ToSet
  <2>4. reads # {} <=> u \in ReadHas
    BY DEF ReadHas
  <2>5. writes # {} <=> u \in WriteHas
    BY DEF WriteHas
  <2> QED
    BY <2>1, <2>2, <2>3, <2>4, <2>5
<1>2. /\ \A i, j \in positions : i = j
      /\ \A q, r \in reads : q = r
      /\ \A v, w \in writes : v = w
  BY DEF OnceInv, Distinct, IInv, Rest
<1>3. Owners(u) = {o \in {<<"dispatch", u>>} : u \in DispatchHas}
                    \cup {<<"queue", i>> : i \in positions}
                    \cup {o \in {<<"cancel", u>>} : u \in CancelHas}
                    \cup {<<"read", r>> : r \in reads}
                    \cup {<<"write", w>> : w \in writes}
  BY <1>1 DEF Owners
<1> HIDE DEF positions, reads, writes
<1>4. CASE dispatch[u].pc = "new" \/ Completed(u)
  <2>1. /\ u \notin DispatchHas /\ u \notin CancelHas
        /\ positions = {} /\ reads = {} /\ writes = {}
    <3>1. u \notin Submitted \/ u \in Finished
      BY <1>4 DEF Submitted, Finished
    <3> QED
      BY <1>1, <3>1 DEF OwnerInv, IInv, Rest
  <2>2. irp[u].completions <= 1
    BY DEF OnceInv, IInv, Rest
  <2> QED
    BY <1>3, <1>4, <2>1, <2>2
<1>5. CASE ~(dispatch[u].pc = "new" \/ Completed(u))
  <2>1. u \in Submitted /\ u \notin Finished
    BY <1>5 DEF Submitted, Finished
  <2>2. \/ u \in DispatchHas \/ positions # {} \/ u \in CancelHas \/ reads # {} \/ writes # {}
    BY <1>1, <2>1 DEF OwnerInv, IInv, Rest
  <2>3. /\ u \in DispatchHas => positions = {} /\ u \notin CancelHas /\ reads = {} /\ writes = {}
        /\ positions # {} => u \notin CancelHas /\ reads = {} /\ writes = {}
        /\ u \in CancelHas => reads = {} /\ writes = {}
        /\ reads # {} => writes = {}
    BY <1>1 DEF OwnerInv, IInv, Rest
  <2>4. \E o \in Owners(u) : Owners(u) = {o}
    <3>1. CASE u \in DispatchHas
      BY <1>3, <2>3, <3>1
    <3>2. CASE positions # {}
      <4> PICK i \in positions : TRUE
        BY <3>2
      <4>1. positions = {i}
        BY <1>2
      <4>2. u \notin DispatchHas /\ u \notin CancelHas /\ reads = {} /\ writes = {}
        BY <2>3, <3>2
      <4>3. Owners(u) = {<<"queue", i>>}
        BY <1>3, <4>1, <4>2
      <4> QED
        BY <4>3
    <3>3. CASE u \in CancelHas
      BY <1>3, <2>3, <3>3
    <3>4. CASE reads # {}
      <4> PICK r \in reads : TRUE
        BY <3>4
      <4>1. reads = {r}
        BY <1>2
      <4>2. u \notin DispatchHas /\ u \notin CancelHas /\ positions = {} /\ writes = {}
        BY <2>3, <3>4
      <4>3. Owners(u) = {<<"read", r>>}
        BY <1>3, <4>1, <4>2
      <4> QED
        BY <4>3
    <3>5. CASE writes # {}
      <4> PICK w \in writes : TRUE
        BY <3>5
      <4>1. writes = {w}
        BY <1>2
      <4>2. u \notin DispatchHas /\ u \notin CancelHas /\ positions = {} /\ reads = {}
        BY <2>3, <3>5
      <4>3. Owners(u) = {<<"write", w>>}
        BY <1>3, <4>1, <4>2
      <4> QED
        BY <4>3
    <3> QED
      BY <2>2, <3>1, <3>2, <3>3, <3>4, <3>5
  <2> QED
    BY <1>5, <2>4
<1> QED
  BY <1>4, <1>5

\* A URB that was submitted and not completed always has exactly one party bound to
\* complete it, and none is completed twice: the hand-over protocol of IoSetCancelRoutine,
\* q_lock and the list in try_addq, cancel_irp, process_read_irp and process_write_irp.
THEOREM EveryUrbHasOneOwner == Spec => []ExactlyOneOwner
  BY InvariantHolds, OneOwner, PTL

\* The tool's read never waits while a URB waits to be handed out: try_addq and
\* process_read_irp decide under q_lock, and a URB about to be inserted counts.
THEOREM NoReadSleepsOverAUrb == Spec => []ReadWaitsForNothing
<1>1. IInv => ReadWaitsForNothing
  BY DEF IInv, Rest, WaitInv, ReadWaitsForNothing, UnsentAt, Queued, ToSet
<1> QED
  BY <1>1, InvariantHolds, PTL

(***************************************************************************)
(* The numbers: which answer is for which URB.                             *)
(***************************************************************************)

\* A read whose URB's number the tool has, or is about to see.
Handed(r) == reader[r].pc \in {"finish", "done", "answered"} /\ reader[r].status = "SUCCESS"

\* A submitting thread that has a read of the tool.
Lends(u) == dispatch[u].read # NULL /\ dispatch[u].pc \in {"fill", "armed", "finish_read"}

\* A read is lent to one thread, which gives it back once.
LentInv ==
  /\ \A u \in Urbs : Lends(u) => reader[dispatch[u].read].pc = "lent"
  /\ \A u, v \in Urbs : dispatch[u].read # NULL /\ dispatch[u].read = dispatch[v].read => u = v

\* An entry is filled in once, by the thread that lends the read or by the read that
\* finds it on the list.
SentInv ==
  \A u \in Urbs :
    /\ urb_req[u].send => dispatch[u].pc \notin {"new", "addq", "fill"}
    /\ IF urb_req[u].send THEN urb_req[u].seq > 0 ELSE urb_req[u].seq = 0
    /\ Lends(u) /\ dispatch[u].pc # "fill" /\ dispatch[u].status # "INVALID_PARAMETER" =>
         urb_req[u] = [send |-> TRUE, seq |-> dispatch[u].seq]
    /\ dispatch[u].pc = "finish_read" =>
         dispatch[u].status \in {"PENDING", "CANCELLED", "INVALID_PARAMETER"}

\* The URB of read r has the number of the read in its entry, no Bus_Read completes it,
\* and its own thread does only if it was cancelled.
HandedUrb(r, u) ==
  /\ u \in Urbs
  /\ urb_req[u] = [send |-> TRUE, seq |-> reader[r].seq]
  /\ reader[r].seq > 0
  /\ \/ dispatch[u].pc = "returned"
     \/ dispatch[u].pc = "complete" /\ dispatch[u].status = "CANCELLED"
  /\ u \notin ReadHas

HandedInv == \A r \in Reads : Handed(r) => HandedUrb(r, reader[r].urb)

\* No two reads tell the tool of one URB.
ToldOnce ==
  \A q, r \in Reads : Handed(q) /\ Handed(r) /\ reader[q].urb = reader[r].urb => q = r

\* A URB that a Bus_Read took off the list is left by its own thread, and its number is
\* not told to the tool.
RejectInv ==
  /\ \A u \in ReadHas : dispatch[u].pc = "returned"
  /\ \A r \in Reads : reader[r].pc = "finish_urb" => reader[r].status # "SUCCESS"

Numbers(u) == {urb_req[u].seq, dispatch[u].seq} \ {0}

\* No two URBs have one number, before it wraps.
NumberInv ==
  /\ \A u \in Urbs : /\ urb_req[u].seq <= seq_num /\ dispatch[u].seq <= seq_num
                     /\ dispatch[u].read # NULL <=> dispatch[u].seq > 0
                     /\ dispatch[u].pc \in {"new", "addq"} => dispatch[u].read = NULL
  /\ \A u, v \in Urbs : u # v => Numbers(u) \cap Numbers(v) = {}

\* A write that answers a read carries its number, and finds its URB.
AnswerInv ==
  \A w \in Writers : writer[w].pc # "idle" /\ writer[w].read # NULL =>
    LET r == writer[w].read IN
    /\ Handed(r) /\ reader[r].pc = "answered"
    /\ writer[w].pc = "search" => writer[w].wire = Wire(reader[r].seq)
    /\ writer[w].pc = "finish_urb" /\ seq_num < SeqLimit => writer[w].urb = reader[r].urb

\* The URBs that were queued before another one was submitted stand before it.
ListInOrder ==
  /\ \A u \in Urbs : \A v \in ahead[u] : dispatch[v].pc = "returned"
  /\ \A u \in Urbs : \A v \in ahead[u] : StandsBefore(ioctl_q, v, u)

OrderInv == ListInOrder /\ NumberedInOrder

\* What the invariant says of the numbers, apart from the order.
TellInv == LentInv /\ SentInv /\ HandedInv /\ ToldOnce /\ RejectInv /\ NumberInv

NumInv == TellInv /\ AnswerInv /\ OrderInv

\* A list that stays or loses an entry keeps its order, and has no new URBs.
LEMMA ListKept ==
  ASSUME IInv,
         ioctl_q' = ioctl_q \/ \E k \in 1..Len(ioctl_q) : ioctl_q' = RemoveAt(ioctl_q, k)
  PROVE  /\ Queued' \subseteq Queued
         /\ \A u, v : StandsBefore(ioctl_q, v, u) => StandsBefore(ioctl_q, v, u)'
<1>1. CASE ioctl_q' = ioctl_q
  BY <1>1 DEF Queued, StandsBefore
<1>2. CASE \E k \in 1..Len(ioctl_q) : ioctl_q' = RemoveAt(ioctl_q, k)
  <2>1. PICK k \in 1..Len(ioctl_q) : ioctl_q' = RemoveAt(ioctl_q, k)
    BY <1>2
  <2>2. Queued' \subseteq Queued
    BY <2>1, TakenOff
  <2>3. ioctl_q \in Seq(Urbs)
    BY DEF IInv, TypeOK
  <2>4. \A u, v : StandsBefore(ioctl_q, v, u) => StandsBefore(RemoveAt(ioctl_q, k), v, u)
    BY <2>3, RemoveAtBefore
  <2>5. \A u, v : StandsBefore(ioctl_q, v, u)' <=> StandsBefore(RemoveAt(ioctl_q, k), v, u)
    BY <2>1 DEF StandsBefore
  <2> QED
    BY <2>2, <2>4, <2>5
<1> QED
  BY <1>1, <1>2

\* A step that inserts nothing and numbers nothing keeps the order.
LEMMA OrderKept ==
  ASSUME IInv, OrderInv, UNCHANGED ahead,
         ioctl_q' = ioctl_q \/ \E k \in 1..Len(ioctl_q) : ioctl_q' = RemoveAt(ioctl_q, k),
         \A v \in Urbs : dispatch[v].pc = "returned" => dispatch'[v].pc = "returned",
         \A v \in Urbs : /\ urb_req[v].send => urb_req'[v].send
                         /\ urb_req[v].seq = 0 /\ dispatch[v].seq = 0 =>
                              urb_req'[v].seq = 0 /\ dispatch'[v].seq = 0
  PROVE  OrderInv'
<1>1. \A u \in Urbs : ahead[u] \subseteq Urbs
  BY DEF IInv, TypeOK
<1>2. ListInOrder'
  BY <1>1, ListKept DEF OrderInv, ListInOrder
<1>3. NumberedInOrder'
  BY <1>1, ListKept DEF OrderInv, NumberedInOrder
<1> QED
  BY <1>2, <1>3 DEF OrderInv

\* A step after which no Bus_Read has a URB it had not, and which changes nothing else
\* of the numbers.
LEMMA TellKept ==
  ASSUME TellInv, UNCHANGED <<seq_num, urb_req, dispatch, reader>>
  PROVE  TellInv'
<1>1. ReadHas' = ReadHas /\ \A r \in Reads : Handed(r)' <=> Handed(r)
  BY DEF ReadHas, ReadOwns, Handed
<1>2. LentInv' /\ SentInv'
  BY DEF TellInv, LentInv, SentInv, Lends
<1>3. HandedInv' /\ RejectInv' /\ ToldOnce'
  BY <1>1 DEF TellInv, HandedInv, HandedUrb, RejectInv, ToldOnce
<1>4. NumberInv'
  BY DEF TellInv, NumberInv, Numbers
<1> QED
  BY <1>2, <1>3, <1>4 DEF TellInv

\* Cancelling a URB changes no number.
LEMMA CancelNumbers ==
  ASSUME IInv, NumInv, NEW u \in Urbs, Cancel(u)
  PROVE  NumInv'
<1>1. /\ UNCHANGED <<seq_num, urb_req, dispatch, reader, writer, ahead>>
      /\ ioctl_q' = ioctl_q \/ \E k \in 1..Len(ioctl_q) : ioctl_q' = RemoveAt(ioctl_q, k)
  BY DEF Cancel, CancelFlag, CancelSwap, CancelSearch, CancelFound, CancelNotFound, CancelComplete
<1>2. TellInv'
  BY <1>1, TellKept DEF NumInv
<1>3. OrderInv'
  BY <1>1, OrderKept DEF NumInv
<1>4. AnswerInv'
  BY <1>1 DEF NumInv, AnswerInv, Handed
<1> QED
  BY <1>2, <1>3, <1>4 DEF NumInv

\* The steps of a submitting thread that take no number: they change its own state only.
QuietDispatch(u) ==
  \/ Submit(u) \/ AddqNoMemory(u) \/ AddqArm(u) \/ AddqFillFailed(u) \/ AddqCancelled(u)
  \/ AddqInsert(u) \/ DispatchComplete(u)

\* A read that is lent, or carries a number, is the tool's or a thread's; these steps do
\* not touch it.
LEMMA QuietDispatchTells ==
  ASSUME IInv, TellInv, NEW u \in Urbs, QuietDispatch(u)
  PROVE  /\ TellInv'
         /\ dispatch[u].pc # "returned"
         /\ dispatch'[u].seq = dispatch[u].seq
         /\ \A v \in Urbs \ {u} : dispatch'[v] = dispatch[v]
         /\ UNCHANGED <<seq_num, urb_req, reader, writer>>
<1> DEFINE d == dispatch[u]
           e == dispatch'[u]
<1>1. dispatch \in [Urbs -> DispatchState]
  BY DEF IInv, TypeOK
<1>2. /\ d.pc \in {"new", "addq", "fill", "armed", "complete"}
      /\ e.seq = d.seq /\ e.read = d.read
      /\ \A v \in Urbs \ {u} : dispatch'[v] = dispatch[v]
      /\ UNCHANGED <<seq_num, urb_req, reader, writer>>
  BY <1>1 DEF QuietDispatch, Submit, AddqNoMemory, AddqArm, AddqFillFailed, AddqCancelled,
     AddqInsert, DispatchComplete, DispatchState
<1>3. /\ e.pc \in {"new", "addq", "fill"} => e.pc = "addq" /\ d.pc = "new"
      /\ d.pc = "complete" => e.pc = "returned"
      /\ e.pc \in {"armed", "finish_read"} =>
           \/ d.pc = "addq"
           \/ d.pc = "fill" /\ e.status = "INVALID_PARAMETER" /\ e.pc = "finish_read"
           \/ d.pc = "armed" /\ e.status \in {"PENDING", "CANCELLED"} /\ e.pc = "finish_read"
      /\ d.pc = "addq" => e.pc # "finish_read"
  <2>1. d.pc = "armed" => d.status = "PENDING"
    BY DEF DispatchInv, IInv, Rest
  <2>2. AfterSection(u) \in {"complete", "finish_read"}
    BY DEF AfterSection
  <2>3. CASE Submit(u) \/ AddqNoMemory(u) \/ AddqArm(u)
    BY <1>1, <2>3 DEF Submit, AddqNoMemory, AddqArm, DispatchState
  <2>4. CASE AddqFillFailed(u) \/ DispatchComplete(u)
    BY <1>1, <2>4 DEF AddqFillFailed, DispatchComplete, DispatchState
  <2>5. CASE AddqCancelled(u)
    BY <1>1, <2>2, <2>5 DEF AddqCancelled, DispatchState
  <2>6. CASE AddqInsert(u)
    BY <1>1, <2>1, <2>6 DEF AddqInsert, DispatchState
  <2> QED
    BY <2>3, <2>4, <2>5, <2>6 DEF QuietDispatch
<1> HIDE DEF d, e
<1>4. d.pc \in {"new", "addq"} => d.read = NULL
  BY DEF d, TellInv, NumberInv
<1>5. LentInv'
  <2>1. Lends(u)' => Lends(u)
    BY <1>2, <1>3, <1>4 DEF d, e, Lends
  <2>2. \A v \in Urbs : /\ Lends(v)' => Lends(v)
                        /\ dispatch'[v].read = dispatch[v].read
    BY <1>2, <2>1 DEF d, e, Lends
  <2> QED
    BY <1>2, <2>2 DEF TellInv, LentInv
<1>6. SentInv'
  <2>1. /\ urb_req[u].send => e.pc \notin {"new", "addq", "fill"}
        /\ e.pc = "finish_read" => e.status \in {"PENDING", "CANCELLED", "INVALID_PARAMETER"}
    BY <1>2, <1>3 DEF d, TellInv, SentInv
  <2>2. Lends(u)' /\ e.pc # "fill" /\ e.status # "INVALID_PARAMETER" =>
          urb_req[u] = [send |-> TRUE, seq |-> d.seq]
    <3>1. ASSUME Lends(u)', e.pc # "fill", e.status # "INVALID_PARAMETER"
          PROVE  d.pc = "armed" /\ Lends(u)
      BY <1>2, <1>3, <1>4, <3>1 DEF d, e, Lends
    <3>2. d.pc = "armed" => d.status = "PENDING"
      BY DEF d, DispatchInv, IInv, Rest
    <3> QED
      BY <3>1, <3>2 DEF d, TellInv, SentInv
  <2>3. \A v \in Urbs \ {u} : Lends(v)' <=> Lends(v)
    BY <1>2 DEF Lends
  <2> QED
    BY ZenonT(30), <1>2, <2>1, <2>2, <2>3 DEF d, e, TellInv, SentInv
<1>7. ReadHas' = ReadHas /\ ReadHas \subseteq Urbs \ {u}
  BY <1>2 DEF d, ReadHas, ReadOwns, TellInv, RejectInv
<1>8. HandedInv'
  <2> SUFFICES ASSUME NEW r \in Reads, Handed(r)
               PROVE  HandedUrb(r, reader[r].urb)'
    BY <1>2 DEF HandedInv, Handed
  <2>1. HandedUrb(r, reader[r].urb)
    BY DEF TellInv, HandedInv
  <2>2. CASE reader[r].urb = u
    BY <1>2, <1>3, <1>7, <2>1, <2>2 DEF d, e, HandedUrb
  <2>3. CASE reader[r].urb # u
    BY <1>2, <1>7, <2>1, <2>3 DEF HandedUrb
  <2> QED
    BY <2>2, <2>3
<1>9. RejectInv' /\ ToldOnce'
  BY <1>2, <1>7 DEF TellInv, RejectInv, ToldOnce, Handed
<1>10. NumberInv'
  <2>1. \A v \in Urbs : Numbers(v)' = Numbers(v)
    BY <1>2 DEF d, e, Numbers
  <2>2. e.pc \in {"new", "addq"} => e.read = NULL
    BY <1>2, <1>3, <1>4
  <2> QED
    BY <1>2, <2>1, <2>2 DEF d, e, TellInv, NumberInv
<1> QED
  BY <1>2, <1>5, <1>6, <1>8, <1>9, <1>10 DEF d, e, TellInv

\* A submitted URB stands behind those already queued, and has no number.
LEMMA SubmitOrder ==
  ASSUME IInv, TellInv, OrderInv, NEW u \in Urbs, Submit(u)
  PROVE  OrderInv'
<1>1. /\ dispatch[u].pc = "new"
      /\ ahead' = [ahead EXCEPT ![u] = {v \in Queued : dispatch[v].pc = "returned"}]
      /\ dispatch'[u].seq = dispatch[u].seq
      /\ \A v \in Urbs \ {u} : dispatch'[v] = dispatch[v]
      /\ UNCHANGED <<ioctl_q, urb_req>>
  BY DEF Submit, DispatchState, IInv, TypeOK
<1>2. /\ \A v \in Urbs \ {u} : ahead'[v] = ahead[v]
      /\ ahead'[u] = {v \in Queued : dispatch[v].pc = "returned"}
      /\ \A v \in Urbs : ahead[v] \subseteq Urbs
      /\ Queued \subseteq Urbs
  BY <1>1, QueuedType DEF IInv, TypeOK
<1>3. u \notin Queued
  BY <1>1 DEF Submitted, OwnerInv, IInv, Rest
<1>4. \A v : StandsBefore(ioctl_q, v, u)
  BY <1>3 DEF StandsBefore, Queued, ToSet
<1>5. ListInOrder'
  <2>1. ASSUME NEW x \in Urbs, NEW v \in ahead'[x]
        PROVE  dispatch[v].pc = "returned" /\ v \in Urbs /\ StandsBefore(ioctl_q, v, x)
    BY <1>2, <1>4, <2>1 DEF OrderInv, ListInOrder
  <2>2. \A x, v : StandsBefore(ioctl_q, v, x)' <=> StandsBefore(ioctl_q, v, x)
    BY <1>1 DEF StandsBefore
  <2> QED
    BY <1>1, <2>1, <2>2 DEF ListInOrder
<1>6. urb_req[u].seq = 0 /\ dispatch[u].seq = 0
  <2>1. ~urb_req[u].send
    BY <1>1 DEF TellInv, SentInv
  <2>2. dispatch[u].seq \in Nat /\ ~(dispatch[u].seq > 0)
    BY <1>1, Elements DEF DispatchState, IInv, TellInv, NumberInv
  <2>3. dispatch[u].seq = 0
    BY <2>2
  <2> QED
    BY <2>1, <2>3 DEF TellInv, SentInv
<1>7. NumberedInOrder'
  BY <1>1, <1>2, <1>6 DEF OrderInv, NumberedInOrder, Queued
<1> QED
  BY <1>5, <1>7 DEF OrderInv

\* An inserted URB is the last one on the list.
LEMMA InsertOrder ==
  ASSUME IInv, OrderInv, NEW u \in Urbs, AddqInsert(u)
  PROVE  OrderInv'
<1>1. /\ dispatch[u].pc = "armed"
      /\ ioctl_q' = Append(ioctl_q, u)
      /\ dispatch'[u].seq = dispatch[u].seq
      /\ \A v \in Urbs \ {u} : dispatch'[v] = dispatch[v]
      /\ UNCHANGED <<urb_req, ahead>>
  BY DEF AddqInsert, DispatchState, IInv, TypeOK
<1>2. \A v \in Urbs : ahead[v] \subseteq Urbs \ {u}
  BY <1>1 DEF OrderInv, ListInOrder, IInv, TypeOK
<1>3. u \notin Queued /\ ioctl_q \in Seq(Urbs) /\ Distinct(ioctl_q)
  BY <1>1 DEF DispatchHas, DispatchOwns, OwnerInv, OnceInv, IInv, Rest, TypeOK
<1>4. Queued' = Queued \cup {u}
  BY <1>1, <1>3, AppendDistinct DEF Queued
<1>5. ASSUME NEW x \in Urbs, NEW v \in ahead[x]
      PROVE  StandsBefore(ioctl_q, v, x)'
  <2>1. v # u /\ StandsBefore(ioctl_q, v, x)
    BY <1>2 DEF OrderInv, ListInOrder
  <2>2. StandsBefore(Append(ioctl_q, u), v, x)
    <3>1. CASE x = u
      BY <1>3, <2>1, <3>1, AppendBefore DEF Queued
    <3>2. CASE x # u
      BY <1>3, <2>1, <3>2, AppendOtherBefore
    <3> QED
      BY <3>1, <3>2
  <2> QED
    BY <1>1, <2>2 DEF StandsBefore
<1>6. ListInOrder'
  BY <1>1, <1>2, <1>5 DEF OrderInv, ListInOrder
<1>7. NumberedInOrder'
  BY <1>1, <1>2, <1>4 DEF OrderInv, NumberedInOrder
<1> QED
  BY <1>6, <1>7 DEF OrderInv

\* The steps of a submitting thread that take no number keep NumInv.
LEMMA QuietDispatchNumbers ==
  ASSUME IInv, NumInv, NEW u \in Urbs, QuietDispatch(u)
  PROVE  NumInv'
<1>1. /\ TellInv'
      /\ dispatch[u].pc # "returned"
      /\ dispatch'[u].seq = dispatch[u].seq
      /\ \A v \in Urbs \ {u} : dispatch'[v] = dispatch[v]
      /\ UNCHANGED <<seq_num, urb_req, reader, writer>>
  BY QuietDispatchTells DEF NumInv
<1>2. AnswerInv'
  BY <1>1 DEF NumInv, AnswerInv, Handed
<1>3. OrderInv'
  <2>1. CASE Submit(u)
    BY <2>1, SubmitOrder DEF NumInv
  <2>2. CASE AddqInsert(u)
    BY <2>2, InsertOrder DEF NumInv
  <2>3. CASE AddqNoMemory(u) \/ AddqArm(u) \/ AddqFillFailed(u) \/ AddqCancelled(u)
             \/ DispatchComplete(u)
    <3>1. UNCHANGED <<ioctl_q, ahead>>
      BY <2>3 DEF AddqNoMemory, AddqArm, AddqFillFailed, AddqCancelled, DispatchComplete
    <3> QED
      BY <1>1, <3>1, OrderKept DEF NumInv
  <2> QED
    BY <2>1, <2>2, <2>3 DEF QuietDispatch
<1> QED
  BY <1>1, <1>2, <1>3 DEF NumInv

\* try_addq takes a number that no URB has, and the read that is parked, so that nobody
\* else lends it; every entry was sent.
LEMMA TakeReadNumbers ==
  ASSUME IInv, NumInv, NEW u \in Urbs, AddqTakeRead(u)
  PROVE  NumInv'
<1> DEFINE p == pending_read_irp
<1>1. /\ dispatch[u].pc = "addq" /\ dispatch'[u].pc = "fill"
      /\ dispatch'[u].seq = seq_num + 1 /\ dispatch'[u].read = p
      /\ \A v \in Urbs \ {u} : dispatch'[v] = dispatch[v]
      /\ p \in Reads /\ p # NULL /\ seq_num' = seq_num + 1 /\ seq_num \in Nat
      /\ reader'[p].pc = "lent"
      /\ \A r \in Reads \ {p} : reader'[r] = reader[r]
      /\ UNCHANGED <<ioctl_q, urb_req, writer, ahead>>
  BY DEF AddqTakeRead, ReaderWaits, NextSeq, DispatchState, ReaderState, IInv, TypeOK
<1>2. reader[p].pc = "parked"
  BY <1>1 DEF ReadInv, IInv, Rest
<1> HIDE DEF p
<1>3. /\ \A v \in Urbs : /\ urb_req[v].seq \in Nat /\ dispatch[v].seq \in Nat
                         /\ dispatch[v].read \in Reads \cup {NULL}
      /\ dispatch[u].read = NULL /\ dispatch[u].seq = 0
  <2>1. \A v \in Urbs : /\ urb_req[v].seq \in Nat /\ dispatch[v].seq \in Nat
                        /\ dispatch[v].read \in Reads \cup {NULL}
    BY Elements DEF DispatchState, UrbReq, IInv
  <2>2. dispatch[u].read = NULL /\ ~(dispatch[u].seq > 0)
    BY <1>1 DEF NumInv, TellInv, NumberInv
  <2> QED
    BY <2>1, <2>2
<1>4. LentInv'
  <2>1. \A v \in Urbs : dispatch[v].read # p
    BY <1>1, <1>2 DEF ReadInv, IInv, Rest
  <2>2. \A v \in Urbs \ {u} : Lends(v)' <=> Lends(v)
    BY <1>1 DEF Lends
  <2> QED
    BY <1>1, <1>3, <2>1, <2>2 DEF NumInv, TellInv, LentInv, Lends
<1>5. SentInv'
  <2>1. \A v \in Urbs \ {u} : Lends(v)' <=> Lends(v)
    BY <1>1 DEF Lends
  <2> QED
    BY <1>1, <2>1 DEF NumInv, TellInv, SentInv
<1>6. ReadHas' = ReadHas /\ u \notin ReadHas
  <2>1. \A q \in Reads : \A v : ReadOwns(q, v)' <=> ReadOwns(q, v)
    BY <1>1, <1>2 DEF ReadOwns
  <2> QED
    BY <1>1, <2>1 DEF ReadHas, NumInv, TellInv, RejectInv
<1>7. \A r \in Reads : Handed(r)' => Handed(r) /\ reader'[r] = reader[r]
  BY <1>1 DEF Handed
<1>8. HandedInv'
  BY <1>1, <1>6, <1>7 DEF NumInv, TellInv, HandedInv, HandedUrb
<1>9. RejectInv' /\ ToldOnce'
  <2>1. \A v \in ReadHas : v \in Urbs \ {u}
    BY <1>6 DEF ReadHas
  <2> QED
    BY <1>1, <1>6, <1>7, <2>1 DEF NumInv, TellInv, RejectInv, ToldOnce
<1>10. NumberInv'
  <2>1. \A v \in Urbs \ {u} : Numbers(v)' = Numbers(v)
    BY <1>1 DEF Numbers
  <2>2. Numbers(u)' \subseteq Numbers(u) \cup {seq_num + 1}
    BY <1>1 DEF Numbers
  <2>3. \A v \in Urbs : seq_num + 1 \notin Numbers(v)
    BY <1>1, <1>3 DEF Numbers, NumInv, TellInv, NumberInv
  <2>4. \A v, x \in Urbs : v # x => Numbers(v)' \cap Numbers(x)' = {}
    BY <2>1, <2>2, <2>3 DEF NumInv, TellInv, NumberInv
  <2>5. \A v \in Urbs : /\ urb_req[v].seq <= seq_num /\ dispatch[v].seq <= seq_num
                        /\ dispatch[v].read # NULL <=> dispatch[v].seq > 0
                        /\ dispatch[v].pc \in {"new", "addq"} => dispatch[v].read = NULL
    BY DEF NumInv, TellInv, NumberInv
  <2>6. \A v \in Urbs : /\ urb_req'[v].seq <= seq_num' /\ dispatch'[v].seq <= seq_num'
                        /\ dispatch'[v].read # NULL <=> dispatch'[v].seq > 0
                        /\ dispatch'[v].pc \in {"new", "addq"} => dispatch'[v].read = NULL
    BY <1>1, <1>3, <2>5
  <2> QED
    BY <2>4, <2>6 DEF NumberInv
<1>11. AnswerInv'
  <2>1. \A r \in Reads : Handed(r) => reader'[r] = reader[r]
    BY <1>1, <1>2 DEF Handed
  <2>2. seq_num' < SeqLimit => seq_num < SeqLimit
    BY <1>1, ConstantsAssumption
  <2>3. \A w \in Writers : writer[w].read \in Reads \cup {NULL}
    BY Elements DEF WriterState, IInv
  <2> QED
    BY <1>1, <2>1, <2>2, <2>3 DEF NumInv, AnswerInv, Handed
<1>12. OrderInv'
  <2>1. \A v \in Urbs : ahead[v] \subseteq Urbs \ {u}
    BY <1>1 DEF NumInv, OrderInv, ListInOrder, IInv, TypeOK
  <2>2. \A v \in Queued : urb_req[v].send
    BY <1>1 DEF p, WaitInv, IInv, Rest
  <2>3. Queued' = Queued /\ \A v, x : StandsBefore(ioctl_q, v, x)' <=> StandsBefore(ioctl_q, v, x)
    BY <1>1 DEF Queued, StandsBefore
  <2>4. ListInOrder'
    BY <1>1, <2>1, <2>3 DEF NumInv, OrderInv, ListInOrder
  <2>5. NumberedInOrder'
    BY <1>1, <2>2, <2>3 DEF NumberedInOrder
  <2> QED
    BY <2>4, <2>5 DEF OrderInv
<1> QED
  BY <1>4, <1>5, <1>8, <1>9, <1>10, <1>11, <1>12 DEF NumInv, TellInv

\* set_read_irp_data succeeded: the entry gets the number that its thread took.
LEMMA FilledNumbers ==
  ASSUME IInv, NumInv, NEW u \in Urbs, AddqFilled(u)
  PROVE  NumInv'
<1>1. /\ dispatch[u].pc = "fill" /\ dispatch'[u].pc = "armed"
      /\ dispatch'[u].seq = dispatch[u].seq /\ dispatch'[u].read = dispatch[u].read
      /\ dispatch'[u].status = dispatch[u].status
      /\ \A v \in Urbs \ {u} : dispatch'[v] = dispatch[v]
      /\ urb_req'[u] = [send |-> TRUE, seq |-> dispatch[u].seq]
      /\ \A v \in Urbs \ {u} : urb_req'[v] = urb_req[v]
      /\ UNCHANGED <<ioctl_q, seq_num, reader, writer, ahead>>
  BY DEF AddqFilled, SentEntry, DispatchState, IInv, TypeOK
<1>2. \A v \in Urbs : Lends(v)' <=> Lends(v)
  BY <1>1 DEF Lends
<1>3. LentInv'
  BY <1>1, <1>2 DEF NumInv, TellInv, LentInv
<1>4. SentInv'
  <2>1. ASSUME NEW v \in Urbs \ {u}
        PROVE  dispatch'[v] = dispatch[v] /\ urb_req'[v] = urb_req[v] /\ (Lends(v)' <=> Lends(v))
    BY <1>1, <1>2
  <2>2. /\ urb_req'[u] = [send |-> TRUE, seq |-> dispatch'[u].seq]
        /\ urb_req'[u].send /\ urb_req'[u].seq = dispatch[u].seq
    BY <1>1
  <2>3. dispatch[u].seq > 0
    BY <1>1 DEF DispatchInv, IInv, Rest, NumInv, TellInv, NumberInv
  <2>4. /\ IF urb_req'[u].send THEN urb_req'[u].seq > 0 ELSE urb_req'[u].seq = 0
        /\ dispatch'[u].pc = "armed"
    BY <1>1, <2>2, <2>3
  <2> QED
    BY ZenonT(30), <2>1, <2>2, <2>4 DEF NumInv, TellInv, SentInv
<1>5. ReadHas' = ReadHas /\ ReadHas \subseteq Urbs \ {u}
  BY <1>1 DEF ReadHas, ReadOwns, NumInv, TellInv, RejectInv
<1>6. HandedInv'
  <2> SUFFICES ASSUME NEW r \in Reads, Handed(r)
               PROVE  HandedUrb(r, reader[r].urb)'
    BY <1>1 DEF HandedInv, Handed
  <2>1. HandedUrb(r, reader[r].urb) /\ reader[r].urb # u
    BY <1>1 DEF NumInv, TellInv, HandedInv, HandedUrb
  <2> QED
    BY <1>1, <1>5, <2>1 DEF HandedUrb
<1>7. RejectInv' /\ ToldOnce'
  BY <1>1, <1>5 DEF NumInv, TellInv, RejectInv, ToldOnce, Handed
<1>8. NumberInv'
  <2>1. \A v \in Urbs : Numbers(v)' \subseteq Numbers(v)
    BY <1>1 DEF Numbers
  <2>2. \A v \in Urbs : /\ urb_req'[v].seq <= seq_num /\ dispatch'[v].seq <= seq_num
                        /\ dispatch'[v].read # NULL <=> dispatch'[v].seq > 0
                        /\ dispatch'[v].pc \in {"new", "addq"} => dispatch'[v].read = NULL
    BY <1>1 DEF NumInv, TellInv, NumberInv
  <2> QED
    BY <1>1, <2>1, <2>2 DEF NumInv, TellInv, NumberInv
<1>9. AnswerInv'
  BY <1>1 DEF NumInv, AnswerInv, Handed
<1>10. OrderInv'
  BY <1>1, OrderKept DEF NumInv
<1> QED
  BY <1>3, <1>4, <1>6, <1>7, <1>8, <1>9, <1>10 DEF NumInv, TellInv

\* try_addq gives the read back, with the number of the entry unless the URB was refused.
LEMMA FinishLentReadNumbers ==
  ASSUME IInv, NumInv, NEW u \in Urbs, AddqFinishRead(u)
  PROVE  NumInv'
<1> DEFINE st == dispatch[u].status
<1> PICK p \in Reads : p = dispatch[u].read
  BY Elements DEF AddqFinishRead, DispatchState, DispatchInv, IInv, Rest
<1>1. dispatch[u].pc = "finish_read" /\ dispatch[u].read = p /\ p # NULL
  BY ConstantsAssumption DEF AddqFinishRead
<1>2. /\ dispatch'[u].pc = IF st = "PENDING" THEN "returned" ELSE "complete"
      /\ dispatch'[u].status = st
      /\ dispatch'[u].read = p /\ dispatch'[u].seq = dispatch[u].seq
      /\ \A v \in Urbs \ {u} : dispatch'[v] = dispatch[v]
      /\ UNCHANGED <<ioctl_q, seq_num, urb_req, writer, ahead>>
  BY DEF AddqFinishRead, DispatchState, IInv, TypeOK
<1>3. /\ IF st = "INVALID_PARAMETER"
         THEN reader'[p].pc = "done" /\ reader'[p].status = st
         ELSE reader'[p] = [pc |-> "done", status |-> "SUCCESS", urb |-> u, seq |-> dispatch[u].seq]
      /\ \A r \in Reads \ {p} : reader'[r] = reader[r]
  BY <1>1 DEF AddqFinishRead, ReaderState, IInv, TypeOK
<1> HIDE DEF st
<1>4. Lends(u) /\ reader[p].pc = "lent"
  BY <1>1 DEF Lends, NumInv, TellInv, LentInv
<1>5. /\ ~Lends(u)'
      /\ \A v \in Urbs \ {u} : Lends(v)' <=> Lends(v)
  BY <1>2 DEF Lends
<1>6. LentInv'
  <2>1. ASSUME NEW v \in Urbs, Lends(v)'
        PROVE  reader'[dispatch'[v].read].pc = "lent"
    <3>1. v # u /\ Lends(v) /\ dispatch'[v] = dispatch[v]
      BY <1>2, <1>5, <2>1
    <3>2. dispatch[v].read # p /\ dispatch[v].read \in Reads
      BY <1>1, <3>1, Elements DEF Lends, DispatchState, IInv, NumInv, TellInv, LentInv
    <3> QED
      BY <1>3, <3>1, <3>2 DEF NumInv, TellInv, LentInv
  <2>2. \A v \in Urbs : dispatch'[v].read = dispatch[v].read
    BY <1>1, <1>2
  <2> QED
    BY <2>1, <2>2 DEF NumInv, TellInv, LentInv
<1>7. SentInv'
  BY <1>2, <1>5 DEF NumInv, TellInv, SentInv
<1>8. ReadHas' = ReadHas /\ ReadHas \subseteq Urbs \ {u}
  <2>1. \A q \in Reads : \A v : ReadOwns(q, v)' <=> ReadOwns(q, v)
    BY <1>3, <1>4 DEF ReadOwns
  <2>2. ReadHas' = ReadHas
    BY <2>1 DEF ReadHas
  <2> QED
    BY <1>1, <2>2 DEF ReadHas, NumInv, TellInv, RejectInv
<1>9. HandedInv'
  <2>1. ASSUME NEW r \in Reads, r # p, Handed(r)
        PROVE  HandedUrb(r, reader[r].urb)'
    <3>1. HandedUrb(r, reader[r].urb) /\ reader[r].urb # u
      BY <1>1, <2>1 DEF NumInv, TellInv, HandedInv, HandedUrb
    <3> QED
      BY <1>2, <1>3, <1>8, <2>1, <3>1 DEF HandedUrb
  <2>2. ASSUME Handed(p)'
        PROVE  HandedUrb(p, reader[p].urb)'
    <3>1. st # "INVALID_PARAMETER"
      BY <1>3, <2>2 DEF Handed
    <3>2. urb_req[u] = [send |-> TRUE, seq |-> dispatch[u].seq] /\ st \in {"PENDING", "CANCELLED"}
      BY <1>1, <1>4, <3>1 DEF st, NumInv, TellInv, SentInv
    <3>3. dispatch[u].seq > 0
      BY <1>1 DEF NumInv, TellInv, NumberInv
    <3>4. reader'[p].urb = u /\ reader'[p].seq = dispatch[u].seq
      BY <1>3, <3>1
    <3>5. \/ dispatch'[u].pc = "returned"
          \/ dispatch'[u].pc = "complete" /\ dispatch'[u].status = "CANCELLED"
      BY <1>2, <3>2
    <3> QED
      BY <1>2, <1>8, <3>2, <3>3, <3>4, <3>5 DEF HandedUrb
  <2>3. \A r \in Reads : r # p => (Handed(r)' <=> Handed(r))
    BY <1>3 DEF Handed
  <2>4. \A r \in Reads : Handed(r)' => HandedUrb(r, reader[r].urb)'
    BY <2>1, <2>2, <2>3
  <2> QED
    BY <2>4 DEF HandedInv
<1>10. RejectInv' /\ ToldOnce'
  <2>1. RejectInv'
    BY <1>2, <1>3, <1>8 DEF NumInv, TellInv, RejectInv
  <2>2. \A r \in Reads : Handed(r)' /\ r # p =>
          Handed(r) /\ reader'[r] = reader[r] /\ reader[r].urb # u
    BY <1>1, <1>3 DEF Handed, NumInv, TellInv, HandedInv, HandedUrb
  <2>3. Handed(p)' => reader'[p].urb = u
    BY <1>3 DEF Handed
  <2> QED
    BY <2>1, <2>2, <2>3 DEF NumInv, TellInv, ToldOnce
<1>11. NumberInv'
  <2>1. \A v \in Urbs : Numbers(v)' = Numbers(v)
    BY <1>2 DEF Numbers
  <2>2. \A v \in Urbs : /\ dispatch'[v].seq = dispatch[v].seq /\ dispatch'[v].read = dispatch[v].read
                        /\ dispatch'[v].pc \in {"new", "addq"} => dispatch'[v].pc = dispatch[v].pc
    BY <1>1, <1>2
  <2> QED
    BY <1>2, <2>1, <2>2 DEF NumInv, TellInv, NumberInv
<1>12. AnswerInv'
  <2>1. \A r \in Reads : reader[r].pc = "answered" => reader'[r] = reader[r]
    BY <1>3, <1>4
  <2>2. \A w \in Writers : writer[w].read \in Reads \cup {NULL}
    BY Elements DEF WriterState, IInv
  <2> QED
    BY <1>2, <2>1, <2>2 DEF NumInv, AnswerInv, Handed
<1>13. OrderInv'
  <2>1. \A v \in Urbs : /\ dispatch[v].pc = "returned" => dispatch'[v].pc = "returned"
                        /\ dispatch'[v].seq = dispatch[v].seq
    BY <1>1, <1>2
  <2> QED
    BY <1>2, <2>1, OrderKept DEF NumInv
<1> QED
  BY <1>6, <1>7, <1>9, <1>10, <1>11, <1>12, <1>13 DEF NumInv, TellInv

\* The steps of a read that take no URB: they leave the reads the tool has answered, and
\* those that were lent, alone.
QuietRead(r) == StartRead(r) \/ ReadPark(r) \/ ReadFinishUrb(r) \/ FinishRead(r)

LEMMA QuietReadNumbers ==
  ASSUME IInv, NumInv, NEW r \in Reads, QuietRead(r)
  PROVE  NumInv'
<1>1. /\ reader[r].pc \in {"idle", "process", "finish_urb", "finish"}
      /\ reader'[r].pc \in {"process", "parked", "finish", "done"}
      /\ \A q \in Reads \ {r} : reader'[q] = reader[q]
      /\ UNCHANGED <<ioctl_q, seq_num, urb_req, dispatch, writer, ahead>>
      /\ \/ reader'[r].pc \notin {"finish", "done"} \/ reader'[r].status # "SUCCESS"
         \/ /\ reader[r].pc = "finish" /\ reader[r].status = "SUCCESS"
            /\ reader'[r].seq = reader[r].seq /\ reader'[r].urb = reader[r].urb
  <2>1. reader \in [Reads -> ReaderState]
    BY DEF IInv, TypeOK
  <2>2. reader[r].pc = "finish_urb" => reader[r].status # "SUCCESS"
    BY DEF NumInv, TellInv, RejectInv
  <2>3. CASE StartRead(r)
    BY <2>1, <2>3 DEF StartRead, ReaderState
  <2>4. CASE ReadPark(r)
    BY <2>1, <2>4 DEF ReadPark, ReaderState
  <2>5. CASE ReadFinishUrb(r)
    BY <2>1, <2>2, <2>5 DEF ReadFinishUrb, ReaderState
  <2>6. CASE FinishRead(r)
    BY <2>1, <2>6 DEF FinishRead, ReaderState
  <2> QED
    BY <2>3, <2>4, <2>5, <2>6 DEF QuietRead
<1>2. /\ Handed(r)' => /\ Handed(r)
                       /\ reader'[r].seq = reader[r].seq /\ reader'[r].urb = reader[r].urb
      /\ \A q \in Reads \ {r} : Handed(q)' <=> Handed(q)
  BY <1>1 DEF Handed
<1>3. ReadHas' \subseteq ReadHas
  BY <1>1 DEF ReadHas, ReadOwns
<1>4. \A v \in Urbs : (Lends(v)' <=> Lends(v)) /\ dispatch[v].read \in Reads \cup {NULL}
  BY <1>1, Elements DEF Lends, DispatchState, IInv
<1>5. LentInv'
  BY <1>1, <1>4 DEF NumInv, TellInv, LentInv, Lends
<1>6. SentInv'
  BY <1>1, <1>4 DEF NumInv, TellInv, SentInv
<1>7. HandedInv'
  BY <1>1, <1>2, <1>3 DEF NumInv, TellInv, HandedInv, HandedUrb
<1>8. RejectInv' /\ ToldOnce'
  BY <1>1, <1>2, <1>3 DEF NumInv, TellInv, RejectInv, ToldOnce
<1>9. NumberInv'
  BY <1>1 DEF NumInv, TellInv, NumberInv, Numbers
<1>10. AnswerInv'
  <2>1. \A q \in Reads : reader[q].pc = "answered" => reader'[q] = reader[q]
    BY <1>1
  <2>2. \A w \in Writers : writer[w].read \in Reads \cup {NULL}
    BY Elements DEF WriterState, IInv
  <2> QED
    BY <1>1, <2>1, <2>2 DEF NumInv, AnswerInv, Handed
<1>11. OrderInv'
  BY <1>1, OrderKept DEF NumInv
<1> QED
  BY <1>5, <1>6, <1>7, <1>8, <1>9, <1>10, <1>11 DEF NumInv, TellInv

\* process_read_irp hands out, or rejects, the first entry that was not sent.
LEMMA ReadNumbers ==
  ASSUME IInv, NumInv, NEW r \in Reads, ReadTake(r) \/ ReadReject(r)
  PROVE  NumInv'
<1>1. PICK i \in 1..Len(ioctl_q) :
        /\ IsFirst(i, UnsentAt)
        /\ urb_req' = [urb_req EXCEPT ![ioctl_q[i]] = [send |-> TRUE, seq |-> NextSeq]]
        /\ ioctl_q' = ioctl_q \/ ioctl_q' = RemoveAt(ioctl_q, i)
        /\ reader'[r].pc \in {"finish", "finish_urb"}
        /\ \/ reader'[r] = [pc |-> "finish", status |-> "SUCCESS", urb |-> ioctl_q[i], seq |-> NextSeq]
           \/ reader'[r].status # "SUCCESS"
        /\ reader'[r].pc = "finish_urb" => reader'[r].urb = ioctl_q[i]
  <2>1. reader \in [Reads -> ReaderState]
    BY DEF IInv, TypeOK
  <2>2. CASE ReadTake(r)
    <3>1. PICK i \in 1..Len(ioctl_q), ok \in BOOLEAN :
            /\ IsFirst(i, UnsentAt)
            /\ urb_req' = [urb_req EXCEPT ![ioctl_q[i]] = [send |-> TRUE, seq |-> NextSeq]]
            /\ reader' = [reader EXCEPT ![r] =
                 IF ok THEN [pc |-> "finish", status |-> "SUCCESS", urb |-> ioctl_q[i], seq |-> NextSeq]
                       ELSE [@ EXCEPT !.pc = "finish", !.status = "INVALID_PARAMETER"]]
      BY <2>2 DEF ReadTake
    <3>2. ioctl_q' = ioctl_q
      BY <2>2 DEF ReadTake
    <3>3. CASE ok
      BY <2>1, <3>1, <3>2, <3>3
    <3>4. CASE ~ok
      <4>1. reader'[r].pc = "finish" /\ reader'[r].status = "INVALID_PARAMETER"
        BY <2>1, <3>1, <3>4 DEF ReaderState
      <4> QED
        BY <3>1, <3>2, <4>1
    <3> QED
      BY <3>3, <3>4
  <2>3. CASE ReadReject(r)
    <3>1. PICK i \in 1..Len(ioctl_q) :
            /\ IsFirst(i, UnsentAt)
            /\ urb_req' = [urb_req EXCEPT ![ioctl_q[i]] = [send |-> TRUE, seq |-> NextSeq]]
            /\ ioctl_q' = RemoveAt(ioctl_q, i)
            /\ reader' = [reader EXCEPT ![r].pc = "finish_urb", ![r].urb = ioctl_q[i],
                                        ![r].status = "INVALID_PARAMETER"]
      BY <2>3 DEF ReadReject
    <3>2. /\ reader'[r].pc = "finish_urb" /\ reader'[r].status = "INVALID_PARAMETER"
          /\ reader'[r].urb = ioctl_q[i]
      BY <2>1, <3>1 DEF ReaderState
    <3> QED
      BY <3>1, <3>2
  <2> QED
    BY <2>2, <2>3
<1> PICK u \in Urbs : u = ioctl_q[i]
  BY RemovedType DEF IInv
<1>2. /\ reader[r].pc = "process"
      /\ \A q \in Reads \ {r} : reader'[q] = reader[q]
      /\ seq_num' = seq_num + 1 /\ seq_num \in Nat
      /\ UNCHANGED <<dispatch, writer, ahead>>
  BY DEF ReadTake, ReadReject, NextSeq, IInv, TypeOK
<1>3. /\ urb_req'[u] = [send |-> TRUE, seq |-> seq_num + 1]
      /\ urb_req'[u].send /\ urb_req'[u].seq = seq_num + 1
      /\ \A v \in Urbs \ {u} : urb_req'[v] = urb_req[v]
  BY <1>1 DEF NextSeq, IInv, TypeOK
<1>4. ~urb_req[u].send /\ u \in Queued
  BY <1>1 DEF IsFirst, UnsentAt, Queued, ToSet
<1>5. dispatch[u].pc = "returned"
  <2>1. u \in Submitted /\ ~DispatchOwns(u)
    BY <1>4 DEF DispatchHas, OwnerInv, IInv, Rest
  <2>2. dispatch[u].pc # "finish_read"
    <3> SUFFICES ASSUME dispatch[u].pc = "finish_read"
                 PROVE  FALSE
      OBVIOUS
    <3>1. dispatch[u].status = "PENDING"
      BY <2>1 DEF DispatchOwns
    <3>2. Lends(u)
      BY DEF Lends, DispatchInv, IInv, Rest
    <3>3. urb_req[u] = [send |-> TRUE, seq |-> dispatch[u].seq]
      BY <3>1, <3>2 DEF NumInv, TellInv, SentInv
    <3> QED
      BY <1>4, <3>3
  <2> QED
    BY <2>1, <2>2, Elements DEF Submitted, DispatchOwns, DispatchState, DispatchPcs, IInv
<1>6. ReadHas' \subseteq ReadHas \cup {u} /\ u \notin ReadHas
  BY <1>1, <1>2, <1>4 DEF ReadHas, ReadOwns, OwnerInv, IInv, Rest
<1>7. /\ \A v \in Urbs : (Lends(v)' <=> Lends(v)) /\ dispatch[v].read \in Reads \cup {NULL}
      /\ ~Lends(u)
  BY <1>2, <1>5, Elements DEF Lends, DispatchState, IInv
<1>8. LentInv'
  BY <1>2, <1>7 DEF NumInv, TellInv, LentInv, Lends
<1>9. SentInv'
  BY <1>2, <1>3, <1>5, <1>7 DEF NumInv, TellInv, SentInv
<1>10. HandedInv'
  <2>1. ASSUME NEW q \in Reads, q # r, Handed(q)'
        PROVE  HandedUrb(q, reader[q].urb)'
    <3>1. Handed(q) /\ reader'[q] = reader[q]
      BY <1>2, <2>1 DEF Handed
    <3>2. HandedUrb(q, reader[q].urb) /\ reader[q].urb # u
      BY <1>4, <3>1 DEF NumInv, TellInv, HandedInv, HandedUrb
    <3> QED
      BY <1>2, <1>3, <1>6, <3>1, <3>2 DEF HandedUrb
  <2>2. ASSUME Handed(r)'
        PROVE  HandedUrb(r, reader[r].urb)'
    <3>1. reader'[r] = [pc |-> "finish", status |-> "SUCCESS", urb |-> u, seq |-> seq_num + 1]
      BY <1>1, <2>2 DEF Handed, NextSeq
    <3>2. u \notin ReadHas'
      BY <1>2, <1>6, <3>1 DEF ReadHas, ReadOwns
    <3> QED
      BY <1>2, <1>3, <1>5, <3>1, <3>2 DEF HandedUrb
  <2> QED
    BY <2>1, <2>2 DEF HandedInv
<1>11. RejectInv' /\ ToldOnce'
  <2>1. reader'[r].pc = "finish_urb" => reader'[r].status # "SUCCESS"
    BY <1>1
  <2>2. RejectInv'
    BY <1>2, <1>5, <1>6, <2>1 DEF NumInv, TellInv, RejectInv
  <2>3. \A q \in Reads : Handed(q)' /\ q # r =>
          Handed(q) /\ reader'[q] = reader[q] /\ reader[q].urb # u
    <3>1. ASSUME NEW q \in Reads, Handed(q)
          PROVE  reader[q].urb # u
      <4>1. HandedUrb(q, reader[q].urb)
        BY <3>1 DEF NumInv, TellInv, HandedInv
      <4> QED
        BY <1>4, <4>1 DEF HandedUrb
    <3> QED
      BY <1>2, <3>1 DEF Handed
  <2>4. Handed(r)' => reader'[r].urb = u
    BY <1>1 DEF Handed
  <2> QED
    BY <2>2, <2>3, <2>4 DEF NumInv, TellInv, ToldOnce
<1>12. NumberInv'
  <2>1. \A v \in Urbs : /\ urb_req[v].seq \in Nat /\ dispatch[v].seq \in Nat
                        /\ urb_req[v].seq <= seq_num /\ dispatch[v].seq <= seq_num
                        /\ dispatch[v].read # NULL <=> dispatch[v].seq > 0
                        /\ dispatch[v].pc \in {"new", "addq"} => dispatch[v].read = NULL
    BY Elements DEF DispatchState, UrbReq, IInv, NumInv, TellInv, NumberInv
  <2>2. \A v \in Urbs \ {u} : Numbers(v)' = Numbers(v)
    BY <1>2, <1>3 DEF Numbers
  <2>3. Numbers(u)' \subseteq Numbers(u) \cup {seq_num + 1}
    BY <1>2, <1>3 DEF Numbers
  <2>4. \A v \in Urbs : seq_num + 1 \notin Numbers(v)
    BY <1>2, <2>1 DEF Numbers
  <2>5. \A v, x \in Urbs : v # x => Numbers(v)' \cap Numbers(x)' = {}
    BY <2>2, <2>3, <2>4 DEF NumInv, TellInv, NumberInv
  <2>6. \A v \in Urbs : urb_req'[v].seq <= seq_num' /\ dispatch[v].seq <= seq_num'
    BY <1>2, <1>3, <2>1
  <2> QED
    BY <1>2, <2>1, <2>5, <2>6 DEF NumberInv
<1>13. AnswerInv'
  <2>1. \A q \in Reads : Handed(q) /\ reader[q].pc = "answered" => reader'[q] = reader[q]
    BY <1>2
  <2>2. seq_num' < SeqLimit => seq_num < SeqLimit
    BY <1>2, ConstantsAssumption
  <2>3. \A w \in Writers : writer[w].read \in Reads \cup {NULL}
    BY Elements DEF WriterState, IInv
  <2> QED
    BY <1>2, <2>1, <2>2, <2>3 DEF NumInv, AnswerInv, Handed
<1>14. ListInOrder' /\ Queued' \subseteq Queued
  <2>1. ioctl_q' = ioctl_q \/ \E k \in 1..Len(ioctl_q) : ioctl_q' = RemoveAt(ioctl_q, k)
    BY <1>1
  <2>2. /\ Queued' \subseteq Queued
        /\ \A x, v : StandsBefore(ioctl_q, v, x) => StandsBefore(ioctl_q, v, x)'
    BY <2>1, ListKept
  <2> QED
    BY <1>2, <2>2 DEF NumInv, OrderInv, ListInOrder
<1>15. NumberedInOrder'
  <2>1. ASSUME NEW v \in ahead[u], v \in Queued
        PROVE  urb_req[v].send
    <3>1. PICK j \in 1..Len(ioctl_q) : ioctl_q[j] = v
      BY <2>1 DEF Queued, ToSet
    <3>2. j < i
      BY <3>1 DEF NumInv, OrderInv, ListInOrder, StandsBefore
    <3> QED
      BY <1>1, <3>1, <3>2 DEF IsFirst, UnsentAt
  <2>2. \A x \in Urbs : ahead[x] \subseteq Urbs
    BY DEF IInv, TypeOK
  <2>3. \A v \in Urbs : urb_req[v].send => urb_req'[v].send
    BY <1>3
  <2>4. ASSUME NEW x \in Urbs, NEW v \in ahead[x] \cap Queued, ~urb_req'[v].send
        PROVE  urb_req'[x].seq = 0 /\ dispatch[x].seq = 0
    <3>1. x # u /\ ~urb_req[v].send
      BY <2>1, <2>2, <2>3, <2>4
    <3> QED
      BY <1>3, <3>1 DEF NumInv, OrderInv, NumberedInOrder
  <2> QED
    BY <1>2, <1>14, <2>4 DEF NumberedInOrder
<1> QED
  BY <1>8, <1>9, <1>10, <1>11, <1>12, <1>13, <1>14, <1>15 DEF NumInv, TellInv, OrderInv

\* A write answers a read that was handed a URB, or carries a number nobody asked for.
LEMMA StartWriteNumbers ==
  ASSUME IInv, NumInv, NEW w \in Writers,
         (\E r \in Reads : WriteReply(w, r)) \/ (\E s \in StraySeqs : WriteStray(w, s))
  PROVE  NumInv'
<1>1. UNCHANGED <<ioctl_q, seq_num, urb_req, dispatch, ahead>>
  BY DEF WriteReply, WriteStray, StartWrite
<1>2. OrderInv'
  BY <1>1, OrderKept DEF NumInv
<1>3. CASE \E s \in StraySeqs : WriteStray(w, s)
  <2>1. /\ reader' = reader
        /\ \A x \in Writers : writer'[x] = writer[x] \/ writer'[x].read = NULL
    <3>1. PICK s \in StraySeqs : WriteStray(w, s)
      BY <1>3
    <3>2. reader' = reader
      BY <3>1 DEF WriteStray
    <3>3. \/ writer' = writer
          \/ writer' = [writer EXCEPT ![w] = [@ EXCEPT !.pc = "search", !.wire = Wire(s),
                                                     !.read = NULL]]
      BY <3>1 DEF WriteStray, StartWrite
    <3>4. writer \in [Writers -> WriterState]
      BY DEF IInv, TypeOK
    <3>5. \A x \in Writers : writer'[x] = writer[x] \/ writer'[x].read = NULL
      BY <3>3, <3>4 DEF WriterState
    <3> QED
      BY <3>2, <3>5
  <2>2. TellInv'
    BY <1>1, <2>1, TellKept DEF NumInv
  <2>3. AnswerInv'
    BY <1>1, <2>1 DEF NumInv, AnswerInv, Handed
  <2> QED
    BY <1>2, <2>2, <2>3 DEF NumInv
<1>4. CASE \E r \in Reads : WriteReply(w, r)
  <2>1. PICK r \in Reads : WriteReply(w, r)
    BY <1>4
  <2>2. /\ reader[r].pc = "done" /\ reader'[r].pc = "answered"
        /\ reader'[r].status = reader[r].status /\ reader'[r].urb = reader[r].urb
        /\ reader'[r].seq = reader[r].seq /\ reader[r].status = "SUCCESS"
        /\ \A q \in Reads \ {r} : reader'[q] = reader[q]
    BY <2>1 DEF WriteReply, ReaderState, IInv, TypeOK
  <2>3. /\ \A x \in Writers \ {w} : writer'[x] = writer[x]
        /\ \/ writer'[w] = writer[w]
           \/ /\ writer'[w].pc = "search" /\ writer'[w].read = r
              /\ writer'[w].wire = Wire(reader[r].seq)
    BY <2>1 DEF WriteReply, StartWrite, WriterState, IInv, TypeOK
  <2>4. \A q \in Reads : /\ Handed(q)' <=> Handed(q)
                         /\ reader'[q].urb = reader[q].urb /\ reader'[q].seq = reader[q].seq
    BY <2>2 DEF Handed
  <2>5. ReadHas' = ReadHas
    BY <2>2 DEF ReadHas, ReadOwns
  <2>6. \A v \in Urbs : (Lends(v)' <=> Lends(v)) /\ dispatch[v].read \in Reads \cup {NULL}
    BY <1>1, Elements DEF Lends, DispatchState, IInv
  <2>7. LentInv' /\ SentInv'
    BY <1>1, <2>2, <2>6 DEF NumInv, TellInv, LentInv, SentInv, Lends
  <2>8. HandedInv' /\ RejectInv' /\ ToldOnce'
    BY <1>1, <2>2, <2>4, <2>5 DEF NumInv, TellInv, HandedInv, HandedUrb, RejectInv, ToldOnce
  <2>9. NumberInv'
    BY <1>1 DEF NumInv, TellInv, NumberInv, Numbers
  <2>10. AnswerInv'
    <3>1. \A x \in Writers : writer[x].read \in Reads \cup {NULL}
      BY Elements DEF WriterState, IInv
    <3>2. ASSUME NEW x \in Writers, writer'[x] = writer[x], writer[x].pc # "idle",
                 writer[x].read # NULL
          PROVE  reader[writer[x].read].pc = "answered" /\ writer[x].read # r
      BY <2>2, <3>1, <3>2 DEF NumInv, AnswerInv
    <3>3. Handed(r)'
      BY <2>2 DEF Handed
    <3> QED
      BY <1>1, <2>2, <2>3, <2>4, <3>1, <3>2, <3>3 DEF NumInv, AnswerInv
  <2> QED
    BY <1>2, <2>7, <2>8, <2>9, <2>10 DEF NumInv, TellInv
<1> QED
  BY <1>3, <1>4

\* The other steps of a write change no number; the entry that process_write_irp finds is
\* that of the URB it answers, until the numbers wrap.
LEMMA WriteNumbers ==
  ASSUME IInv, NumInv, NEW w \in Writers,
         WriteMatch(w) \/ WriteNoMatch(w) \/ WriteFinishUrb(w)
  PROVE  NumInv'
<1>1. /\ UNCHANGED <<seq_num, urb_req, dispatch, reader, ahead>>
      /\ ioctl_q' = ioctl_q \/ \E k \in 1..Len(ioctl_q) : ioctl_q' = RemoveAt(ioctl_q, k)
  BY DEF WriteMatch, WriteNoMatch, WriteFinishUrb
<1>2. TellInv' /\ OrderInv'
  BY <1>1, TellKept, OrderKept DEF NumInv
<1>3. CASE WriteNoMatch(w) \/ WriteFinishUrb(w)
  <2>1. \A x \in Writers : writer'[x] = writer[x] \/ writer'[x].pc = "idle"
    BY <1>3 DEF WriteNoMatch, WriteFinishUrb, IdleWriter, IInv, TypeOK
  <2>2. AnswerInv'
    BY <1>1, <2>1 DEF NumInv, AnswerInv, Handed
  <2> QED
    BY <1>2, <2>2 DEF NumInv
<1>4. CASE WriteMatch(w)
  <2>1. PICK i \in 1..Len(ioctl_q), st \in WriteStatuses :
          /\ IsFirst(i, NumberedAt(writer[w].wire))
          /\ writer' = [writer EXCEPT ![w].pc = "finish_urb", ![w].urb = ioctl_q[i], ![w].status = st]
    BY <1>4 DEF WriteMatch
  <2> PICK u \in Urbs : u = ioctl_q[i]
    BY RemovedType DEF IInv
  <2>2. /\ writer[w].pc = "search"
        /\ writer'[w].pc = "finish_urb" /\ writer'[w].urb = u
        /\ writer'[w].read = writer[w].read
        /\ \A x \in Writers \ {w} : writer'[x] = writer[x]
    <3>1. writer[w].pc = "search" /\ writer \in [Writers -> WriterState]
      BY <1>4 DEF WriteMatch, IInv, TypeOK
    <3> QED
      BY <2>1, <3>1 DEF WriterState
  <2>3. Wire(urb_req[u].seq) = writer[w].wire
    BY <2>1 DEF IsFirst, NumberedAt
  <2>4. ASSUME writer[w].read # NULL, seq_num < SeqLimit
        PROVE  u = reader[writer[w].read].urb
    <3>1. PICK r \in Reads : r = writer[w].read
      BY <2>4, Elements DEF WriterState, IInv
    <3>2. Handed(r) /\ writer[w].wire = Wire(reader[r].seq)
      BY <2>2, <2>4, <3>1 DEF NumInv, AnswerInv
    <3> DEFINE v == reader[r].urb
    <3>3. HandedUrb(r, v)
      BY <3>2 DEF NumInv, TellInv, HandedInv
    <3>4. v \in Urbs /\ urb_req[v].seq = reader[r].seq /\ reader[r].seq > 0
      BY <3>3 DEF HandedUrb
    <3> HIDE DEF v
    <3>5. /\ urb_req[u].seq \in Nat /\ urb_req[v].seq \in Nat
          /\ urb_req[u].seq <= seq_num /\ urb_req[v].seq <= seq_num /\ seq_num \in Nat
      BY <3>4, Elements DEF UrbReq, IInv, TypeOK, NumInv, TellInv, NumberInv
    <3>6. \A n \in Nat : n < SeqLimit => n % SeqLimit = n
      BY ConstantsAssumption
    <3>7. Wire(urb_req[u].seq) = urb_req[u].seq /\ Wire(urb_req[v].seq) = urb_req[v].seq
      <4>1. urb_req[u].seq < SeqLimit /\ urb_req[v].seq < SeqLimit
        BY <2>4, <3>5, ConstantsAssumption
      <4> QED
        BY <3>5, <3>6, <4>1 DEF Wire
    <3>8. urb_req[u].seq = urb_req[v].seq
      BY <2>3, <3>2, <3>4, <3>7
    <3>9. urb_req[u].seq \in Numbers(u) \cap Numbers(v)
      BY <3>4, <3>5, <3>8 DEF Numbers
    <3> QED
      BY <3>1, <3>4, <3>9 DEF v, NumInv, TellInv, NumberInv
  <2>5. \A r \in Reads : Handed(r)' <=> Handed(r)
    BY <1>1 DEF Handed
  <2>6. \A x \in Writers : writer[x].read \in Reads \cup {NULL}
    BY Elements DEF WriterState, IInv
  <2>7. AnswerInv'
    BY <1>1, <2>2, <2>4, <2>5, <2>6 DEF NumInv, AnswerInv
  <2> QED
    BY <1>2, <2>7 DEF NumInv
<1> QED
  BY <1>3, <1>4

\* At first nobody has a number.
LEMMA NumbersInit == Init => NumInv
<1> SUFFICES ASSUME Init
             PROVE  NumInv
  OBVIOUS
<1>1. LentInv /\ SentInv
  BY DEF Init, LentInv, SentInv, Lends
<1>2. HandedInv /\ RejectInv /\ ToldOnce
  BY DEF Init, HandedInv, Handed, RejectInv, ReadHas, ReadOwns, ToldOnce
<1>3. NumberInv
  BY DEF Init, NumberInv, Numbers
<1>4. AnswerInv
  BY DEF Init, AnswerInv, IdleWriter
<1>5. OrderInv
  BY DEF Init, OrderInv, ListInOrder, NumberedInOrder
<1> QED
  BY <1>1, <1>2, <1>3, <1>4, <1>5 DEF NumInv, TellInv

\* Every step keeps what the invariant says of the numbers.
LEMMA NumbersStep == IInv /\ NumInv /\ [Next]_vars => NumInv'
<1> SUFFICES ASSUME IInv, NumInv, [Next]_vars
             PROVE  NumInv'
  OBVIOUS
<1>1. ASSUME NEW u \in Urbs, Dispatch(u)
      PROVE  NumInv'
  BY <1>1, QuietDispatchNumbers, TakeReadNumbers, FilledNumbers, FinishLentReadNumbers
     DEF Dispatch, QuietDispatch
<1>2. ASSUME NEW r \in Reads, Read(r)
      PROVE  NumInv'
  BY <1>2, QuietReadNumbers, ReadNumbers DEF Read, QuietRead
<1>3. ASSUME NEW w \in Writers, Write(w)
      PROVE  NumInv'
  BY <1>3, StartWriteNumbers, WriteNumbers DEF Write
<1>4. CASE UNCHANGED vars
  <2>1. UNCHANGED <<ioctl_q, seq_num, urb_req, dispatch, reader, writer, ahead>>
    BY <1>4 DEF vars
  <2>2. TellInv' /\ OrderInv'
    BY <2>1, TellKept, OrderKept DEF NumInv
  <2>3. AnswerInv'
    BY <2>1 DEF NumInv, AnswerInv, Handed
  <2> QED
    BY <2>2, <2>3 DEF NumInv
<1> QED
  BY <1>1, <1>2, <1>3, <1>4, CancelNumbers DEF Next

\* Both parts of the invariant hold in every reachable state.
THEOREM NumbersHold == Spec => [](IInv /\ NumInv)
<1>1. Init => IInv /\ NumInv
  BY InvariantInit, NumbersInit
<1>2. IInv /\ NumInv /\ [Next]_vars => IInv' /\ NumInv'
  BY InvariantStep, NumbersStep
<1> QED
  BY <1>1, <1>2, PTL DEF Spec

\* An answer to a URB that was handed to the tool cannot miss it, whether the URB went
\* straight to a waiting read (try_addq) or was found on the list (process_read_irp): the
\* entry is there under the number the tool saw, unless somebody has claimed the URB.
THEOREM AnswersFindTheirUrbs == Spec => []AnswerFindsUrb
<1>1. IInv /\ NumInv => AnswerFindsUrb
  <2> SUFFICES ASSUME IInv, NumInv, NEW r \in Reads, NEW u, u = reader[r].urb,
                      reader[r].pc \in {"done", "answered"}, reader[r].status = "SUCCESS"
               PROVE  \/ u \in Queued /\ urb_req[u] = [send |-> TRUE, seq |-> reader[r].seq]
                      \/ Completed(u)
                      \/ CancelOwns(u) \/ dispatch[u].status = "CANCELLED"
                      \/ \E w \in Writers : WriteOwns(w, u)
    BY DEF AnswerFindsUrb
  <2>1. HandedUrb(r, u)
    BY DEF Handed, NumInv, TellInv, HandedInv
  <2>2. CASE dispatch[u].pc = "returned"
    <3>1. u \in Submitted /\ u \notin DispatchHas /\ u \notin ReadHas
      BY <2>1, <2>2 DEF HandedUrb, Submitted, DispatchHas, DispatchOwns
    <3>2. u \in Queued \cup CancelHas \cup WriteHas \cup Finished
      BY <3>1 DEF OwnerInv, IInv, Rest
    <3> QED
      BY <2>1, <3>2 DEF HandedUrb, CancelHas, WriteHas, Finished
  <2> QED
    BY <2>1, <2>2 DEF HandedUrb
<1> QED
  BY <1>1, NumbersHold, PTL

\* The answer to a URB completes that URB and no other one, as long as seq_num has not
\* wrapped: no two URBs ever have one number (++pdodata->seq_num under q_lock), and the
\* entry keeps the number the tool saw.
THEOREM AnswersCompleteTheirUrbs == Spec => []AnswerCompletesItsUrb
<1>1. NumInv => AnswerCompletesItsUrb
  BY DEF NumInv, AnswerInv, AnswerCompletesItsUrb
<1> QED
  BY <1>1, NumbersHold, PTL

\* URBs get their numbers in the order in which they were queued: a URB that goes straight
\* to a waiting read overtakes none, for the read waits only when every entry was sent.
THEOREM NumbersInOrder == Spec => []NumberedInOrder
<1>1. NumInv => NumberedInOrder
  BY DEF NumInv, OrderInv
<1> QED
  BY <1>1, NumbersHold, PTL

(***************************************************************************)
(* The queue implements the service.                                       *)
(***************************************************************************)

Refusals == {"IMMEDIATE", "NOT_CONNECTED", "INSUFFICIENT_RESOURCES", "CANCELLED",
             "INVALID_PARAMETER"}

\* A URB ends as cancelled only if its cancellation was asked for, and its own thread
\* never reports success.
AskedInv ==
  \A u \in Urbs : /\ canceller[u] # "none" => irp[u].cancel
                  /\ dispatch[u].status = "CANCELLED" => irp[u].cancel
                  /\ dispatch[u].pc = "complete" => dispatch[u].status \in Refusals

\* Only the answer to a read succeeds: a stray one meets no number that was given out.
SuccessInv ==
  \A w \in Writers :
    /\ writer[w].pc = "search" /\ writer[w].read = NULL => writer[w].wire = 0
    /\ writer[w].pc = "finish_urb" => writer[w].status \in WriteStatuses
    /\ /\ writer[w].pc = "finish_urb" /\ writer[w].status = "SUCCESS"
       /\ seq_num < SeqLimit
       => writer[w].read # NULL

\* The ways in which a step that is not IoCancelIrp's changes a URB IRP.
IrpKept == \/ irp' = irp
           \/ \E x \in Urbs, b \in BOOLEAN : irp' = [irp EXCEPT ![x].routine = b]
           \/ \E x \in Urbs \cup {NULL}, st \in Statuses : Complete(x, st)

\* They leave the Cancel flags.
LEMMA FlagsKept ==
  ASSUME TypeOK, IrpKept
  PROVE  \A v \in Urbs : irp'[v].cancel <=> irp[v].cancel
<1>1. irp \in [Urbs -> Irp]
  BY DEF TypeOK
<1>2. CASE \E x \in Urbs, b \in BOOLEAN : irp' = [irp EXCEPT ![x].routine = b]
  BY <1>1, <1>2 DEF Irp
<1>3. CASE \E x \in Urbs \cup {NULL}, st \in Statuses : Complete(x, st)
  BY <1>1, <1>3 DEF Irp, Complete
<1> QED
  BY <1>2, <1>3 DEF IrpKept

\* Every step keeps AskedInv.
LEMMA AskedStep ==
  ASSUME IInv, NumInv, AskedInv, [Next]_vars
  PROVE  AskedInv'
<1>1. /\ irp \in [Urbs -> Irp] /\ dispatch \in [Urbs -> DispatchState]
      /\ canceller \in [Urbs -> CancellerStates] /\ ioctl_q \in Seq(Urbs)
  BY DEF IInv, TypeOK
<1>2. ASSUME NEW u \in Urbs, Dispatch(u)
      PROVE  AskedInv'
  <2>1. /\ \A v \in Urbs \ {u} : dispatch'[v] = dispatch[v]
        /\ \A v \in Urbs : irp'[v].cancel <=> irp[v].cancel
        /\ canceller' = canceller
    <3>1. dispatch[u].status \in Statuses
      BY <1>1 DEF DispatchState
    <3>2. IrpKept
      BY <1>2, <3>1 DEF IrpKept, Dispatch, Submit, AddqNoMemory, AddqArm, AddqTakeRead, AddqFilled,
         AddqFillFailed, AddqCancelled, AddqInsert, AddqFinishRead, DispatchComplete
    <3>3. canceller' = canceller /\ \A v \in Urbs \ {u} : dispatch'[v] = dispatch[v]
      BY <1>1, <1>2 DEF Dispatch, Submit, AddqNoMemory, AddqArm, AddqTakeRead, AddqFilled,
         AddqFillFailed, AddqCancelled, AddqInsert, AddqFinishRead, DispatchComplete
    <3> QED
      BY <3>2, <3>3, FlagsKept DEF IInv
  <2>2. /\ dispatch'[u].status = "CANCELLED" => irp[u].cancel
        /\ dispatch'[u].pc = "complete" => dispatch'[u].status \in Refusals
    <3>1. CASE Submit(u) \/ AddqNoMemory(u)
      BY <1>1, <3>1 DEF Submit, AddqNoMemory, Refusals, DispatchState, AskedInv
    <3>2. CASE AddqArm(u) \/ AddqTakeRead(u) \/ AddqFilled(u) \/ AddqFillFailed(u)
               \/ AddqInsert(u) \/ DispatchComplete(u)
      BY <1>1, <3>2 DEF AddqArm, AddqTakeRead, AddqFilled, AddqFillFailed, AddqInsert,
         DispatchComplete, DispatchState, AskedInv
    <3>3. CASE AddqCancelled(u)
      BY <1>1, <3>3 DEF AddqCancelled, MustAbort, Refusals, DispatchState
    <3>4. CASE AddqFinishRead(u)
      <4>1. dispatch[u].status \in {"PENDING", "CANCELLED", "INVALID_PARAMETER"}
        BY <3>4 DEF AddqFinishRead, NumInv, TellInv, SentInv
      <4> QED
        BY <1>1, <3>4, <4>1 DEF AddqFinishRead, Refusals, DispatchState, AskedInv
    <3> QED
      BY <1>2, <3>1, <3>2, <3>3, <3>4 DEF Dispatch
  <2> QED
    BY <2>1, <2>2 DEF AskedInv
<1>3. ASSUME NEW u \in Urbs, Cancel(u)
      PROVE  AskedInv'
  <2>1. /\ \A v \in Urbs \ {u} : canceller'[v] = canceller[v]
        /\ \A v \in Urbs \ {u} : irp'[v].cancel <=> irp[v].cancel
        /\ irp[u].cancel => irp'[u].cancel
        /\ canceller[u] # "none" \/ irp'[u].cancel
        /\ dispatch' = dispatch
    <3>1. CASE CancelFlag(u)
      BY <1>1, <3>1 DEF CancelFlag, Irp
    <3>2. CASE CancelSwap(u) \/ CancelSearch(u) \/ CancelComplete(u)
      <4>1. IrpKept
        BY <3>2 DEF IrpKept, CancelSwap, CancelSearch, CancelFound, CancelNotFound, CancelComplete,
           Statuses
      <4>2. /\ \A v \in Urbs \ {u} : canceller'[v] = canceller[v]
            /\ canceller[u] # "none"
            /\ dispatch' = dispatch
        BY <1>1, <3>2 DEF CancelSwap, CancelSearch, CancelFound, CancelNotFound, CancelComplete
      <4> QED
        BY <4>1, <4>2, FlagsKept DEF IInv
    <3> QED
      BY <1>3, <3>1, <3>2 DEF Cancel
  <2> QED
    BY <2>1 DEF AskedInv
<1>4. ASSUME NEW r \in Reads, Read(r)
      PROVE  AskedInv'
  <2>1. /\ \A v \in Urbs : irp'[v].cancel <=> irp[v].cancel
        /\ UNCHANGED <<dispatch, canceller>>
    <3>1. reader[r].urb \in Urbs \cup {NULL} /\ \A i \in 1..Len(ioctl_q) : ioctl_q[i] \in Urbs
      BY <1>1, Elements DEF ReaderState, IInv
    <3>2. IrpKept
      BY <1>4, <3>1 DEF IrpKept, Read, StartRead, ReadTake, ReadReject, ReadPark, ReadFinishUrb,
         FinishRead, Statuses
    <3>3. UNCHANGED <<dispatch, canceller>>
      BY <1>4 DEF Read, StartRead, ReadTake, ReadReject, ReadPark, ReadFinishUrb, FinishRead
    <3> QED
      BY <3>2, <3>3, FlagsKept DEF IInv
  <2> QED
    BY <2>1 DEF AskedInv
<1>5. ASSUME NEW w \in Writers, Write(w)
      PROVE  AskedInv'
  <2>1. /\ \A v \in Urbs : irp'[v].cancel <=> irp[v].cancel
        /\ UNCHANGED <<dispatch, canceller>>
    <3>1. /\ writer[w].urb \in Urbs \cup {NULL} /\ writer[w].status \in Statuses
          /\ \A i \in 1..Len(ioctl_q) : ioctl_q[i] \in Urbs
      BY <1>1, Elements DEF WriterState, IInv
    <3>2. IrpKept
      BY <1>5, <3>1 DEF IrpKept, Write, WriteReply, WriteStray, StartWrite, WriteMatch,
         WriteNoMatch, WriteFinishUrb
    <3>3. UNCHANGED <<dispatch, canceller>>
      BY <1>5 DEF Write, WriteReply, WriteStray, StartWrite, WriteMatch, WriteNoMatch,
         WriteFinishUrb
    <3> QED
      BY <3>2, <3>3, FlagsKept DEF IInv
  <2> QED
    BY <2>1 DEF AskedInv
<1>6. CASE UNCHANGED vars
  BY <1>6 DEF vars, AskedInv
<1> QED
  BY <1>2, <1>3, <1>4, <1>5, <1>6 DEF Next

\* A write that starts changes its own record only.
LEMMA StartWriteSets ==
  ASSUME TypeOK, NEW w \in Writers, NEW s, NEW r, StartWrite(w, s, r)
  PROVE  /\ \A x \in Writers \ {w} : writer'[x] = writer[x]
         /\ \/ writer'[w] = writer[w]
            \/ writer'[w].pc = "search" /\ writer'[w].wire = s /\ writer'[w].read = r
<1>1. writer \in [Writers -> WriterState]
  BY DEF TypeOK
<1> DEFINE d == [writer[w] EXCEPT !.pc = "search", !.wire = s, !.read = r]
<1>2. d.pc = "search" /\ d.wire = s /\ d.read = r
  BY <1>1 DEF WriterState
<1>3. writer' = writer \/ writer' = [writer EXCEPT ![w] = d]
  BY DEF StartWrite
<1> HIDE DEF d
<1> QED
  BY <1>1, <1>2, <1>3

\* Every step keeps SuccessInv, if nobody answers with a number other than 0.
LEMMA SuccessStep ==
  ASSUME StraySeqs \subseteq {0}, IInv, NumInv, SuccessInv, [Next]_vars
  PROVE  SuccessInv'
<1>1. writer \in [Writers -> WriterState] /\ seq_num \in Nat /\ SeqLimit \in Nat \ {0}
  BY ConstantsAssumption DEF IInv, TypeOK
<1>2. ASSUME UNCHANGED writer, seq_num' \in {seq_num, seq_num + 1}
      PROVE  SuccessInv'
  <2>1. seq_num' < SeqLimit => seq_num < SeqLimit
    BY <1>1, <1>2
  <2> QED
    BY <1>2, <2>1 DEF SuccessInv
<1>3. ASSUME NEW u \in Urbs, Dispatch(u) \/ Cancel(u)
      PROVE  SuccessInv'
  <2>1. UNCHANGED writer /\ seq_num' \in {seq_num, seq_num + 1}
    BY <1>3 DEF Dispatch, Submit, AddqNoMemory, AddqArm, AddqTakeRead, AddqFilled,
       AddqFillFailed, AddqCancelled, AddqInsert, AddqFinishRead, DispatchComplete, NextSeq,
       Cancel, CancelFlag, CancelSwap, CancelSearch, CancelFound, CancelNotFound, CancelComplete
  <2> QED
    BY <1>2, <2>1
<1>4. ASSUME NEW r \in Reads, Read(r)
      PROVE  SuccessInv'
  <2>1. UNCHANGED writer /\ seq_num' \in {seq_num, seq_num + 1}
    BY <1>4 DEF Read, StartRead, ReadTake, ReadReject, ReadPark, ReadFinishUrb, FinishRead, NextSeq
  <2> QED
    BY <1>2, <2>1
<1>5. ASSUME NEW w \in Writers, Write(w)
      PROVE  SuccessInv'
  <2>1. seq_num' = seq_num
    BY <1>5 DEF Write, WriteReply, WriteStray, StartWrite, WriteMatch, WriteNoMatch, WriteFinishUrb
  <2>2. CASE \E r \in Reads : WriteReply(w, r)
    <3>1. /\ \A x \in Writers \ {w} : writer'[x] = writer[x]
          /\ writer'[w] = writer[w] \/ (writer'[w].pc = "search" /\ writer'[w].read # NULL)
      <4>1. PICK r \in Reads : StartWrite(w, Wire(reader[r].seq), r)
        BY <2>2 DEF WriteReply
      <4> QED
        BY <4>1, StartWriteSets, ConstantsAssumption DEF IInv
    <3> QED
      BY <2>1, <3>1 DEF SuccessInv
  <2>3. CASE \E s \in StraySeqs : WriteStray(w, s)
    <3>1. Wire(0) = 0
      BY <1>1 DEF Wire
    <3>2. /\ \A x \in Writers \ {w} : writer'[x] = writer[x]
          /\ writer'[w] = writer[w] \/ (writer'[w].pc = "search" /\ writer'[w].wire = 0)
      <4>1. StartWrite(w, 0, NULL)
        BY <2>3, <3>1 DEF WriteStray
      <4> QED
        BY <4>1, StartWriteSets DEF IInv
    <3> QED
      BY <2>1, <3>2 DEF SuccessInv
  <2>4. CASE WriteMatch(w)
    <3>1. PICK i \in 1..Len(ioctl_q), st \in WriteStatuses :
            /\ IsFirst(i, NumberedAt(writer[w].wire))
            /\ urb_req[ioctl_q[i]].send \/ st = "INVALID_PARAMETER"
            /\ writer' = [writer EXCEPT ![w].pc = "finish_urb", ![w].urb = ioctl_q[i],
                                        ![w].status = st]
      BY <2>4 DEF WriteMatch
    <3> PICK u \in Urbs : u = ioctl_q[i]
      BY RemovedType DEF IInv
    <3>2. /\ writer[w].pc = "search" /\ writer'[w].pc = "finish_urb" /\ writer'[w].status = st
          /\ writer'[w].read = writer[w].read
          /\ \A x \in Writers \ {w} : writer'[x] = writer[x]
      <4>1. writer[w].pc = "search"
        BY <2>4 DEF WriteMatch
      <4> QED
        BY <1>1, <3>1, <4>1 DEF WriterState
    <3>3. ASSUME writer[w].read = NULL, seq_num < SeqLimit
          PROVE  st # "SUCCESS"
      <4>1. Wire(urb_req[u].seq) = 0
        BY <3>1, <3>2, <3>3 DEF SuccessInv, IsFirst, NumberedAt
      <4>2. urb_req[u].seq \in Nat /\ urb_req[u].seq <= seq_num
        BY Elements DEF UrbReq, IInv, NumInv, TellInv, NumberInv
      <4>3. \A n \in Nat : n < SeqLimit => n % SeqLimit = n
        BY <1>1
      <4>4. urb_req[u].seq < SeqLimit
        BY <1>1, <3>3, <4>2
      <4>5. urb_req[u].seq = 0
        BY <4>1, <4>2, <4>3, <4>4 DEF Wire
      <4>6. ~urb_req[u].send
        <5>1. ~(urb_req[u].seq > 0)
          BY <4>5
        <5> QED
          BY <5>1 DEF NumInv, TellInv, SentInv
      <4> QED
        BY <3>1, <4>6
    <3> QED
      BY <2>1, <3>2, <3>3 DEF SuccessInv
  <2>5. CASE WriteNoMatch(w) \/ WriteFinishUrb(w)
    <3>1. /\ \A x \in Writers \ {w} : writer'[x] = writer[x]
          /\ writer'[w].pc = "idle"
      BY <1>1, <2>5 DEF WriteNoMatch, WriteFinishUrb, IdleWriter
    <3> QED
      BY <2>1, <3>1 DEF SuccessInv
  <2> QED
    BY <1>5, <2>2, <2>3, <2>4, <2>5 DEF Write
<1>6. CASE UNCHANGED vars
  BY <1>2, <1>6 DEF vars
<1> QED
  BY <1>3, <1>4, <1>5, <1>6 DEF Next

\* What the service sees of the queue: the substitution of INSTANCE UrbService.
Phase == [u \in Urbs |-> IF Completed(u) THEN "finished"
                         ELSE IF dispatch[u].pc = "new" THEN "idle" ELSE "pending"]
Requested == {u \in Urbs : irp[u].cancel}
Tells(r) == reader[r].pc \in {"done", "answered"} /\ reader[r].status = "SUCCESS"
HandedTo == [u \in Urbs |-> {r \in Reads : /\ reader[r].pc \in {"done", "answered"}
                                           /\ reader[r].status = "SUCCESS"
                                           /\ reader[r].urb = u}]
Result == [u \in Urbs |-> irp[u].status]

ServiceStep == [Service!ServiceNext]_(Service!serviceVars)

\* HandedTo in terms of Tells.
LEMMA HandedIsTold ==
  /\ HandedTo = [u \in Urbs |-> {r \in Reads : Tells(r) /\ reader[r].urb = u}]
  /\ HandedTo' = [u \in Urbs |-> {r \in Reads : Tells(r) /\ reader[r].urb = u}]'
  BY DEF HandedTo, Tells

\* How a step of the queue is a step of the service.
LEMMA StutterMeans ==
  ASSUME UNCHANGED <<Phase, Requested, HandedTo, Result>>
  PROVE  ServiceStep
  BY DEF ServiceStep, Service!serviceVars, Phase, Requested, HandedTo, Result

LEMMA AcceptMeans ==
  ASSUME NEW u \in Urbs, Phase[u] = "idle", Phase' = [Phase EXCEPT ![u] = "pending"],
         UNCHANGED <<Requested, HandedTo, Result>>
  PROVE  ServiceStep
<1>1. Service!Accept(u)
  BY DEF Service!Accept, Phase, Requested, HandedTo, Result
<1> QED
  BY <1>1 DEF ServiceStep, Service!ServiceNext

LEMMA RequestMeans ==
  ASSUME NEW u \in Urbs, Phase[u] = "pending", Requested' = Requested \cup {u},
         UNCHANGED <<Phase, HandedTo, Result>>
  PROVE  ServiceStep
<1>1. Service!RequestCancel(u)
  BY DEF Service!RequestCancel, Phase, Requested, HandedTo, Result
<1> QED
  BY <1>1 DEF ServiceStep, Service!ServiceNext

LEMMA HandMeans ==
  ASSUME NEW u \in Urbs, NEW r \in Reads, Phase[u] # "idle", HandedTo[u] = {},
         HandedTo' = [HandedTo EXCEPT ![u] = {r}],
         UNCHANGED <<Phase, Requested, Result>>
  PROVE  ServiceStep
<1>1. Service!Hand(u, r)
  BY DEF Service!Hand, Phase, Requested, HandedTo, Result
<1> QED
  BY <1>1 DEF ServiceStep, Service!ServiceNext

LEMMA FinishMeans ==
  ASSUME NEW u \in Urbs, NEW st \in Refusals \cup {"SUCCESS"}, Phase[u] = "pending",
         st = "SUCCESS" => HandedTo[u] # {},
         st = "CANCELLED" => u \in Requested,
         Phase' = [Phase EXCEPT ![u] = "finished"],
         Result' = [Result EXCEPT ![u] = st],
         UNCHANGED <<Requested, HandedTo>>
  PROVE  ServiceStep
<1>1. st \in {"SUCCESS", "CANCELLED", "IMMEDIATE", "INVALID_PARAMETER", "NOT_CONNECTED",
               "INSUFFICIENT_RESOURCES"}
  BY DEF Refusals
<1>2. \E s \in {"SUCCESS", "CANCELLED", "IMMEDIATE", "INVALID_PARAMETER", "NOT_CONNECTED",
                "INSUFFICIENT_RESOURCES"} :
        /\ s = "SUCCESS" => HandedTo[u] # {}
        /\ s = "CANCELLED" => u \in Requested
        /\ Result' = [Result EXCEPT ![u] = s]
  BY <1>1
<1>3. Service!Finish(u)
  BY <1>2 DEF Service!Finish, Phase, Requested, HandedTo, Result
<1> QED
  BY <1>3 DEF ServiceStep, Service!ServiceNext

\* A step that completes nothing and submits nothing changes neither phase nor result.
LEMMA PhaseKept ==
  ASSUME IInv,
         irp' = irp \/ \E x \in Urbs, b \in BOOLEAN : irp' = [irp EXCEPT ![x].routine = b],
         \A v \in Urbs : dispatch'[v].pc = "new" <=> dispatch[v].pc = "new"
  PROVE  UNCHANGED <<Phase, Requested, Result>>
<1>1. irp \in [Urbs -> Irp]
  BY DEF IInv, TypeOK
<1>2. \A v \in Urbs : /\ irp'[v].completions = irp[v].completions
                      /\ irp'[v].status = irp[v].status
                      /\ irp'[v].cancel <=> irp[v].cancel
  BY <1>1 DEF Irp
<1>3. Phase' = Phase
  BY <1>2 DEF Phase, Completed
<1>4. Requested' = Requested /\ Result' = Result
  BY <1>2 DEF Requested, Result
<1> QED
  BY <1>3, <1>4

\* A step that ends no read successfully hands nothing.
LEMMA HandedKept ==
  ASSUME \A r \in Reads : /\ Tells(r)' <=> Tells(r)
                          /\ Tells(r) => reader'[r].urb = reader[r].urb
  PROVE  UNCHANGED HandedTo
<1>1. ASSUME NEW u \in Urbs
      PROVE  {r \in Reads : Tells(r) /\ reader[r].urb = u}'
               = {r \in Reads : Tells(r) /\ reader[r].urb = u}
  OBVIOUS
<1> QED
  BY <1>1, HandedIsTold

\* A party that has a URB finishes it.
LEMMA CompleteFinishes ==
  ASSUME IInv, NEW u \in Urbs, NEW st \in Refusals \cup {"SUCCESS"}, Complete(u, st),
         u \in Submitted, u \notin Finished,
         \A v \in Urbs : dispatch'[v].pc = "new" <=> dispatch[v].pc = "new",
         UNCHANGED HandedTo,
         st = "SUCCESS" => HandedTo[u] # {},
         st = "CANCELLED" => irp[u].cancel
  PROVE  ServiceStep
<1>1. irp \in [Urbs -> Irp]
  BY DEF IInv, TypeOK
<1>2. /\ irp'[u].completions = irp[u].completions + 1
      /\ irp'[u].status = st /\ (irp'[u].cancel <=> irp[u].cancel)
      /\ \A v \in Urbs \ {u} : irp'[v] = irp[v]
      /\ irp[u].completions = 0
  BY <1>1 DEF Complete, Irp, Finished, Completed
<1>3. Completed(u)' /\ ~Completed(u) /\ \A v \in Urbs \ {u} : Completed(v)' <=> Completed(v)
  BY <1>2 DEF Completed
<1>4. Phase[u] = "pending"
  BY <1>3 DEF Phase, Submitted
<1>5. Phase' = [Phase EXCEPT ![u] = "finished"]
  BY <1>3 DEF Phase
<1>6. Result' = [Result EXCEPT ![u] = st]
  BY <1>2 DEF Result
<1>7. Requested' = Requested /\ (st = "CANCELLED" => u \in Requested)
  BY <1>2 DEF Requested
<1> QED
  BY <1>4, <1>5, <1>6, <1>7, FinishMeans

\* A read that ends with a URB nobody was told of hands it.
LEMMA TellHands ==
  ASSUME IInv, NEW u \in Urbs, NEW r \in Reads,
         u \in Submitted,
         \A q \in Reads : Tells(q) => reader[q].urb # u,
         Tells(r)', ~Tells(r), reader'[r].urb = u,
         \A q \in Reads \ {r} : reader'[q] = reader[q],
         irp' = irp,
         \A v \in Urbs : dispatch'[v].pc = "new" <=> dispatch[v].pc = "new"
  PROVE  ServiceStep
<1>1. UNCHANGED <<Phase, Requested, Result>>
  BY PhaseKept
<1>2. Phase[u] # "idle"
  BY DEF Phase, Submitted
<1>3. HandedTo[u] = {}
  BY HandedIsTold
<1>4. \A q \in Reads \ {r} : (Tells(q)' <=> Tells(q)) /\ reader'[q].urb = reader[q].urb
  BY DEF Tells
<1>5. ASSUME NEW v \in Urbs
      PROVE  {q \in Reads : Tells(q) /\ reader[q].urb = v}'
               = IF v = u THEN {r} ELSE {q \in Reads : Tells(q) /\ reader[q].urb = v}
  BY <1>4
<1>6. HandedTo' = [HandedTo EXCEPT ![u] = {r}]
  BY <1>5, HandedIsTold
<1> QED
  BY <1>1, <1>2, <1>3, <1>6, HandMeans

\* A submitting thread's steps: submitting accepts, completing finishes, giving back a
\* read hands its URB unless it was refused; the others the service does not see.
LEMMA DispatchServes ==
  ASSUME IInv, NumInv, AskedInv, NEW u \in Urbs, Dispatch(u)
  PROVE  ServiceStep
<1>1. dispatch \in [Urbs -> DispatchState] /\ irp \in [Urbs -> Irp]
  BY DEF IInv, TypeOK
<1>2. CASE Submit(u)
  <2>1. /\ dispatch[u].pc = "new" /\ dispatch'[u].pc # "new"
        /\ \A v \in Urbs \ {u} : dispatch'[v] = dispatch[v]
        /\ UNCHANGED <<irp, reader>>
    BY <1>1, <1>2 DEF Submit, DispatchState
  <2>2. ~Completed(u)
    BY <2>1 DEF Submitted, Finished, OwnerInv, IInv, Rest
  <2>3. \A v \in Urbs : Completed(v)' <=> Completed(v)
    BY <2>1 DEF Completed
  <2>4. Phase[u] = "idle" /\ Phase' = [Phase EXCEPT ![u] = "pending"]
    BY <2>1, <2>2, <2>3 DEF Phase
  <2>5. UNCHANGED <<Requested, HandedTo, Result>>
    BY <2>1 DEF Requested, HandedTo, Result
  <2> QED
    BY <2>4, <2>5, AcceptMeans
<1>3. CASE DispatchComplete(u)
  <2>1. dispatch[u].pc = "complete" /\ Complete(u, dispatch[u].status)
    BY <1>3 DEF DispatchComplete
  <2>2. u \in Submitted /\ u \notin Finished
    BY <2>1 DEF Submitted, DispatchHas, DispatchOwns, OwnerInv, IInv, Rest
  <2>3. /\ dispatch[u].status \in Refusals /\ dispatch[u].status # "SUCCESS"
        /\ dispatch[u].status = "CANCELLED" => irp[u].cancel
    BY <2>1 DEF AskedInv, Refusals
  <2>4. \A v \in Urbs : dispatch'[v].pc = "new" <=> dispatch[v].pc = "new"
    BY <1>1, <1>3 DEF DispatchComplete, DispatchState
  <2>5. UNCHANGED HandedTo
    BY <1>3 DEF DispatchComplete, HandedTo
  <2> QED
    BY <2>1, <2>2, <2>3, <2>4, <2>5, CompleteFinishes
<1>4. CASE AddqFinishRead(u)
  <2>1. /\ dispatch[u].pc = "finish_read" /\ dispatch[u].read \in Reads
        /\ Lends(u) /\ reader[dispatch[u].read].pc = "lent"
    BY <1>4, Elements DEF AddqFinishRead, DispatchState, DispatchInv, IInv, Rest, Lends, NumInv,
       TellInv, LentInv
  <2> PICK p \in Reads : p = dispatch[u].read
    BY <2>1
  <2>2. /\ \A q \in Reads \ {p} : reader'[q] = reader[q]
        /\ IF dispatch[u].status = "INVALID_PARAMETER"
           THEN reader'[p].status = "INVALID_PARAMETER"
           ELSE reader'[p].pc = "done" /\ reader'[p].status = "SUCCESS" /\ reader'[p].urb = u
        /\ irp' = irp
    BY <1>4, <2>1 DEF AddqFinishRead, ReaderState, IInv, TypeOK
  <2>3. \A v \in Urbs : dispatch'[v].pc = "new" <=> dispatch[v].pc = "new"
    BY <1>1, <1>4 DEF AddqFinishRead, DispatchState
  <2>4. ~Tells(p)
    BY <2>1 DEF Tells
  <2>5. CASE dispatch[u].status = "INVALID_PARAMETER"
    <3>1. \A q \in Reads : /\ Tells(q)' <=> Tells(q)
                           /\ Tells(q) => reader'[q].urb = reader[q].urb
      BY <2>2, <2>4, <2>5 DEF Tells
    <3> QED
      BY <2>2, <2>3, <3>1, HandedKept, PhaseKept, StutterMeans
  <2>6. CASE dispatch[u].status # "INVALID_PARAMETER"
    <3>1. ASSUME NEW q \in Reads, Tells(q)
          PROVE  reader[q].urb # u
      BY <2>1, <3>1 DEF Tells, Handed, NumInv, TellInv, HandedInv, HandedUrb
    <3>2. u \in Submitted
      BY <2>1 DEF Submitted
    <3>3. Tells(p)' /\ reader'[p].urb = u
      BY <2>2, <2>6 DEF Tells
    <3> QED
      BY <2>2, <2>3, <2>4, <3>1, <3>2, <3>3, TellHands
  <2> QED
    BY <2>5, <2>6
<1>5. CASE AddqTakeRead(u)
  <2>1. /\ pending_read_irp \in Reads
        /\ reader[pending_read_irp].pc = "parked" /\ reader'[pending_read_irp].pc = "lent"
        /\ \A q \in Reads \ {pending_read_irp} : reader'[q] = reader[q]
        /\ irp' = irp
    BY <1>5 DEF AddqTakeRead, ReaderWaits, ReadInv, ReaderState, IInv, TypeOK, Rest
  <2>2. \A q \in Reads : /\ Tells(q)' <=> Tells(q)
                         /\ Tells(q) => reader'[q].urb = reader[q].urb
    BY <2>1 DEF Tells
  <2>3. \A v \in Urbs : dispatch'[v].pc = "new" <=> dispatch[v].pc = "new"
    BY <1>1, <1>5 DEF AddqTakeRead, DispatchState
  <2> QED
    BY <2>1, <2>2, <2>3, HandedKept, PhaseKept, StutterMeans
<1>6. CASE AddqNoMemory(u) \/ AddqArm(u) \/ AddqFilled(u) \/ AddqFillFailed(u)
           \/ AddqCancelled(u) \/ AddqInsert(u)
  <2>1. \A v \in Urbs : dispatch'[v].pc = "new" <=> dispatch[v].pc = "new"
    <3>1. CASE AddqNoMemory(u) \/ AddqArm(u)
      BY <1>1, <3>1 DEF AddqNoMemory, AddqArm, DispatchState
    <3>2. CASE AddqFilled(u)
      BY <1>1, <3>2 DEF AddqFilled, AfterSection, DispatchState
    <3>3. CASE AddqFillFailed(u)
      BY <1>1, <3>3 DEF AddqFillFailed, DispatchState
    <3>4. CASE AddqCancelled(u) \/ AddqInsert(u)
      BY <1>1, <3>4 DEF AddqCancelled, AddqInsert, AfterSection, DispatchState
    <3> QED
      BY <1>6, <3>1, <3>2, <3>3, <3>4
  <2>2. irp' = irp \/ \E x \in Urbs, b \in BOOLEAN : irp' = [irp EXCEPT ![x].routine = b]
    BY <1>6 DEF AddqNoMemory, AddqArm, AddqFilled, AddqFillFailed, AddqCancelled, AddqInsert
  <2>3. UNCHANGED HandedTo
    BY <1>6 DEF AddqNoMemory, AddqArm, AddqFilled, AddqFillFailed, AddqCancelled, AddqInsert,
       HandedTo
  <2> QED
    BY <2>1, <2>2, <2>3, PhaseKept, StutterMeans
<1> QED
  BY <1>2, <1>3, <1>4, <1>5, <1>6 DEF Dispatch

\* A cancellation's steps: setting the flag requests it, cancel_irp finishes the URB.
LEMMA CancelServes ==
  ASSUME IInv, NumInv, AskedInv, NEW u \in Urbs, Cancel(u)
  PROVE  ServiceStep
<1>1. UNCHANGED <<dispatch, reader>>
  BY DEF Cancel, CancelFlag, CancelSwap, CancelSearch, CancelFound, CancelNotFound, CancelComplete
<1>2. UNCHANGED HandedTo
  BY <1>1 DEF HandedTo
<1>3. CASE CancelFlag(u)
  <2>1. /\ dispatch[u].pc # "new" /\ ~Completed(u)
        /\ irp' = [irp EXCEPT ![u].cancel = TRUE]
    BY <1>3 DEF CancelFlag
  <2>2. /\ \A v \in Urbs : /\ irp'[v].completions = irp[v].completions
                           /\ irp'[v].status = irp[v].status
        /\ \A v \in Urbs \ {u} : irp'[v] = irp[v]
        /\ irp'[u].cancel
    BY <2>1 DEF Irp, IInv, TypeOK
  <2>3. Phase[u] = "pending" /\ Phase' = Phase
    BY <1>1, <2>1, <2>2 DEF Phase, Completed
  <2>4. Requested' = Requested \cup {u} /\ Result' = Result
    BY <2>2 DEF Requested, Result
  <2> QED
    BY <1>2, <2>3, <2>4, RequestMeans
<1>4. CASE CancelSwap(u) \/ CancelSearch(u)
  <2>1. irp' = irp \/ \E x \in Urbs, b \in BOOLEAN : irp' = [irp EXCEPT ![x].routine = b]
    BY <1>4 DEF CancelSwap, CancelSearch, CancelFound, CancelNotFound
  <2> QED
    BY <1>1, <1>2, <2>1, PhaseKept, StutterMeans
<1>5. CASE CancelComplete(u)
  <2>1. u \in CancelHas /\ Complete(u, "CANCELLED") /\ canceller[u] # "none"
    BY <1>5 DEF CancelComplete, CancelHas, CancelOwns
  <2>2. u \in Submitted /\ u \notin Finished
    BY <2>1 DEF OwnerInv, IInv, Rest
  <2>3. irp[u].cancel
    BY <2>1 DEF AskedInv
  <2>4. "CANCELLED" \in Refusals \cup {"SUCCESS"}
    BY DEF Refusals
  <2> QED
    BY <1>1, <1>2, <2>1, <2>2, <2>3, <2>4, CompleteFinishes
<1> QED
  BY <1>3, <1>4, <1>5 DEF Cancel

\* A read's steps: ending with a URB hands it, a rejected one is finished.
LEMMA ReadServes ==
  ASSUME IInv, NumInv, NEW r \in Reads, Read(r)
  PROVE  ServiceStep
<1>1. UNCHANGED dispatch /\ \A q \in Reads \ {r} : reader'[q] = reader[q]
  BY DEF Read, StartRead, ReadTake, ReadReject, ReadPark, ReadFinishUrb, FinishRead, IInv, TypeOK
<1>2. ASSUME reader[r].pc \in {"idle", "process", "finish_urb"}, reader'[r].pc \notin {"done", "answered"}
      PROVE  UNCHANGED HandedTo
  <2>1. \A q \in Reads : /\ Tells(q)' <=> Tells(q)
                         /\ Tells(q) => reader'[q].urb = reader[q].urb
    BY <1>1, <1>2 DEF Tells
  <2> QED
    BY <2>1, HandedKept
<1>3. CASE StartRead(r) \/ ReadTake(r) \/ ReadReject(r) \/ ReadPark(r)
  <2>1. reader[r].pc \in {"idle", "process"}
    BY <1>3 DEF StartRead, ReadTake, ReadReject, ReadPark
  <2>2. reader'[r].pc \in {"process", "parked", "finish", "finish_urb"}
    <3>1. CASE StartRead(r) \/ ReadPark(r)
      <4>1. CASE StartRead(r)
        BY <4>1 DEF StartRead, ReaderState, IInv, TypeOK
      <4>2. CASE ReadPark(r)
        BY <4>2 DEF ReadPark, ReaderState, IInv, TypeOK
      <4> QED
        BY <3>1, <4>1, <4>2
    <3>2. CASE ReadTake(r)
      BY <3>2 DEF ReadTake, ReaderState, IInv, TypeOK
    <3>3. CASE ReadReject(r)
      BY <3>3 DEF ReadReject, ReaderState, IInv, TypeOK
    <3> QED
      BY <1>3, <3>1, <3>2, <3>3
  <2>3. irp' = irp \/ \E x \in Urbs, b \in BOOLEAN : irp' = [irp EXCEPT ![x].routine = b]
    <3>1. \A i \in 1..Len(ioctl_q) : ioctl_q[i] \in Urbs
      BY DEF IInv, TypeOK
    <3> QED
      BY <1>3, <3>1 DEF StartRead, ReadTake, ReadReject, ReadPark
  <2> QED
    BY <1>1, <1>2, <2>1, <2>2, <2>3, PhaseKept, StutterMeans
<1>4. CASE ReadFinishUrb(r)
  <2> PICK u \in Urbs : u = reader[r].urb
    BY <1>4, Elements DEF ReadFinishUrb, ReadInv, ReaderState, IInv, Rest
  <2>1. reader[r].pc = "finish_urb" /\ Complete(u, "INVALID_PARAMETER") /\ u \in ReadHas
    BY <1>4 DEF ReadFinishUrb, ReadHas, ReadOwns
  <2>2. u \in Submitted /\ u \notin Finished
    BY <2>1 DEF OwnerInv, IInv, Rest
  <2>3. reader'[r].pc = "finish"
    BY <1>4 DEF ReadFinishUrb, ReaderState, IInv, TypeOK
  <2>4. "INVALID_PARAMETER" \in Refusals \cup {"SUCCESS"}
    BY DEF Refusals
  <2> QED
    BY <1>1, <1>2, <2>1, <2>2, <2>3, <2>4, CompleteFinishes
<1>5. CASE FinishRead(r)
  <2>1. /\ reader[r].pc = "finish" /\ reader'[r].pc = "done"
        /\ reader'[r].status = reader[r].status /\ reader'[r].urb = reader[r].urb
        /\ irp' = irp
    BY <1>5 DEF FinishRead, ReaderState, IInv, TypeOK
  <2>2. CASE reader[r].status # "SUCCESS"
    <3>1. \A q \in Reads : /\ Tells(q)' <=> Tells(q)
                           /\ Tells(q) => reader'[q].urb = reader[q].urb
      BY <1>1, <2>1, <2>2 DEF Tells
    <3> QED
      BY <1>1, <2>1, <3>1, HandedKept, PhaseKept, StutterMeans
  <2>3. CASE reader[r].status = "SUCCESS"
    <3>1. Handed(r)
      BY <2>1, <2>3 DEF Handed
    <3>2. HandedUrb(r, reader[r].urb)
      BY <3>1 DEF NumInv, TellInv, HandedInv
    <3> PICK u \in Urbs : u = reader[r].urb
      BY <3>2 DEF HandedUrb
    <3>3. u \in Submitted
      BY <3>2 DEF HandedUrb, Submitted
    <3>4. ASSUME NEW q \in Reads, Tells(q)
          PROVE  reader[q].urb # u
      BY <2>1, <3>1, <3>4 DEF Tells, Handed, NumInv, TellInv, ToldOnce
    <3>5. Tells(r)' /\ ~Tells(r)
      BY <2>1, <2>3 DEF Tells
    <3> QED
      BY <1>1, <2>1, <3>3, <3>4, <3>5, TellHands
  <2> QED
    BY <2>2, <2>3
<1> QED
  BY <1>3, <1>4, <1>5 DEF Read

\* A write's steps: completing finishes the URB, with success only if the tool has it.
LEMMA WriteServes ==
  ASSUME IInv, NumInv, SuccessInv, seq_num < SeqLimit, NEW w \in Writers, Write(w)
  PROVE  ServiceStep
<1>1. UNCHANGED dispatch
  BY DEF Write, WriteReply, WriteStray, StartWrite, WriteMatch, WriteNoMatch, WriteFinishUrb
<1>2. UNCHANGED HandedTo
  <2>1. \A q \in Reads : /\ Tells(q)' <=> Tells(q)
                         /\ Tells(q) => reader'[q].urb = reader[q].urb
    <3>1. CASE \E r \in Reads : WriteReply(w, r)
      <4>1. PICK r \in Reads : WriteReply(w, r)
        BY <3>1
      <4>2. /\ reader[r].pc = "done" /\ reader'[r].pc = "answered"
            /\ reader'[r].status = reader[r].status /\ reader'[r].urb = reader[r].urb
            /\ \A q \in Reads \ {r} : reader'[q] = reader[q]
        BY <4>1 DEF WriteReply, ReaderState, IInv, TypeOK
      <4> QED
        BY <4>2 DEF Tells
    <3>2. CASE ~ \E r \in Reads : WriteReply(w, r)
      <4>1. reader' = reader
        BY <3>2 DEF Write, WriteStray, WriteMatch, WriteNoMatch, WriteFinishUrb
      <4> QED
        BY <4>1 DEF Tells
    <3> QED
      BY <3>1, <3>2
  <2> QED
    BY <2>1, HandedKept
<1>3. CASE WriteFinishUrb(w)
  <2> PICK u \in Urbs : u = writer[w].urb
    BY <1>3, Elements DEF WriteFinishUrb, ReadInv, WriterState, IInv, Rest
  <2> DEFINE st == writer[w].status
  <2>1. writer[w].pc = "finish_urb" /\ Complete(u, st) /\ u \in WriteHas
    BY <1>3 DEF WriteFinishUrb, WriteHas, WriteOwns
  <2>2. u \in Submitted /\ u \notin Finished
    BY <2>1 DEF OwnerInv, IInv, Rest
  <2>3. st \in Refusals \cup {"SUCCESS"} /\ st # "CANCELLED"
    BY <2>1 DEF SuccessInv, WriteStatuses, Refusals
  <2>4. ASSUME st = "SUCCESS"
        PROVE  HandedTo[u] # {}
    <3>1. writer[w].read # NULL
      BY <2>1, <2>4 DEF SuccessInv
    <3> PICK r \in Reads : r = writer[w].read
      BY <3>1, Elements DEF WriterState, IInv
    <3>2. Tells(r) /\ reader[r].urb = u
      BY <2>1, <3>1 DEF NumInv, AnswerInv, Handed, Tells
    <3> QED
      BY <3>2, HandedIsTold
  <2> QED
    BY <1>1, <1>2, <2>1, <2>2, <2>3, <2>4, CompleteFinishes
<1>4. CASE ~WriteFinishUrb(w)
  <2>1. irp' = irp \/ \E x \in Urbs, b \in BOOLEAN : irp' = [irp EXCEPT ![x].routine = b]
    <3>1. \A i \in 1..Len(ioctl_q) : ioctl_q[i] \in Urbs
      BY DEF IInv, TypeOK
    <3> QED
      BY <1>4, <3>1 DEF Write, WriteReply, WriteStray, StartWrite, WriteMatch, WriteNoMatch
  <2> QED
    BY <1>1, <1>2, <2>1, PhaseKept, StutterMeans
<1> QED
  BY <1>3, <1>4

\* The safety part of ImplementsUrbService: every step of the queue is a step of the
\* service or one it does not see, as long as seq_num has not wrapped and the tool answers
\* with no number that it was not given (number 0, which stands for "not sent", excepted).
THEOREM QueueImplementsService ==
  ASSUME StraySeqs \subseteq {0}
  PROVE  Spec /\ [](seq_num < SeqLimit) =>
           Service!ServiceInit /\ [][Service!ServiceNext]_(Service!serviceVars)
<1> DEFINE Small == seq_num < SeqLimit
           All == IInv /\ NumInv /\ AskedInv /\ SuccessInv
<1>1. Init => Service!ServiceInit
  BY DEF Init, Service!ServiceInit, Completed
<1>2. Init => All
  <2> SUFFICES ASSUME Init
               PROVE  AskedInv /\ SuccessInv
    BY InvariantInit, NumbersInit
  <2>1. AskedInv
    BY DEF Init, AskedInv
  <2>2. SuccessInv
    BY DEF Init, SuccessInv, IdleWriter
  <2> QED
    BY <2>1, <2>2
<1>3. All /\ [Next]_vars => All'
  BY InvariantStep, NumbersStep, AskedStep, SuccessStep
<1>4. All /\ Small /\ [Next]_vars => [Service!ServiceNext]_(Service!serviceVars)
  <2> SUFFICES ASSUME All, Small, [Next]_vars
               PROVE  ServiceStep
    BY DEF ServiceStep
  <2>1. CASE UNCHANGED vars
    <3>1. UNCHANGED <<dispatch, irp, reader>>
      BY <2>1 DEF vars
    <3> QED
      BY <3>1, StutterMeans DEF Phase, Completed, Requested, HandedTo, Result
  <2> QED
    BY <2>1, DispatchServes, CancelServes, ReadServes, WriteServes DEF Next
<1> QED
  BY <1>1, <1>2, <1>3, <1>4, PTL DEF Spec

(***************************************************************************)
(* Cancellation.                                                           *)
(*                                                                         *)
(* That a cancelled URB is completed is a matter of fairness.  That it is  *)
(* never left on the list with nobody on the way to it is not: IoCancelIrp *)
(* may run before try_addq has armed the routine, and finds nothing to     *)
(* call.  Then the flag, which try_addq reads after it armed the routine,  *)
(* keeps the URB off the list.                                             *)
(***************************************************************************)

PursuedInv ==
  \A u \in Urbs : /\ irp[u].cancel <=> canceller[u] # "none"
                  /\ u \in Queued => canceller[u] # "over"
                  /\ irp[u].cancel => u \in Submitted

LEMMA PursuedInit == Init => PursuedInv
  BY DEF Init, PursuedInv, Queued, ToSet

LEMMA PursuedStep ==
  ASSUME IInv, PursuedInv, [Next]_vars
  PROVE  PursuedInv'
<1>1. /\ irp \in [Urbs -> Irp] /\ dispatch \in [Urbs -> DispatchState]
      /\ canceller \in [Urbs -> CancellerStates] /\ ioctl_q \in Seq(Urbs)
  BY DEF IInv, TypeOK
\* A step that is not a cancellation's, and does not insert.
<1>2. ASSUME IrpKept, UNCHANGED canceller,
             ioctl_q' = ioctl_q \/ \E k \in 1..Len(ioctl_q) : ioctl_q' = RemoveAt(ioctl_q, k),
             Submitted \subseteq Submitted'
      PROVE  PursuedInv'
  <2>1. \A v \in Urbs : irp'[v].cancel <=> irp[v].cancel
    BY <1>2, FlagsKept DEF IInv
  <2>2. Queued' \subseteq Queued
    BY <1>2, ListKept
  <2> QED
    BY <1>2, <2>1, <2>2 DEF PursuedInv
<1>3. ASSUME NEW u \in Urbs, Dispatch(u)
      PROVE  PursuedInv'
  <2>1. Submitted \subseteq Submitted'
    <3>1. /\ \A v \in Urbs \ {u} : dispatch'[v] = dispatch[v]
          /\ dispatch'[u].pc # "new"
      <4>1. CASE Submit(u) \/ AddqNoMemory(u) \/ AddqArm(u) \/ AddqTakeRead(u) \/ AddqFilled(u)
        BY <1>1, <4>1 DEF Submit, AddqNoMemory, AddqArm, AddqTakeRead, AddqFilled, DispatchState
      <4>2. CASE AddqFillFailed(u) \/ AddqCancelled(u) \/ AddqInsert(u) \/ AddqFinishRead(u)
                 \/ DispatchComplete(u)
        BY <1>1, <4>2 DEF AddqFillFailed, AddqCancelled, AddqInsert, AddqFinishRead,
           DispatchComplete, AfterSection, DispatchState
      <4> QED
        BY <1>3, <4>1, <4>2 DEF Dispatch
    <3> QED
      BY <3>1 DEF Submitted
  <2>2. CASE AddqInsert(u)
    <3>1. /\ dispatch[u].pc = "armed" /\ ~MustAbort(u)
          /\ ioctl_q' = Append(ioctl_q, u) /\ UNCHANGED <<irp, canceller>>
      BY <2>2 DEF AddqInsert
    <3>2. Queued' \subseteq Queued \cup {u}
      BY <1>1, <3>1 DEF Queued, ToSet
    <3>3. canceller[u] # "over"
      <4> SUFFICES ASSUME canceller[u] = "over" PROVE FALSE
        OBVIOUS
      <4>1. u \notin Cancellable
        BY <3>1 DEF PursuedInv, MustAbort, CanClaim, Cancellable
      <4>2. u \in Called
        BY <3>1, <4>1 DEF IInv, Rest, RoutineInv, Armed
      <4> QED
        BY <4>2 DEF Called
    <3> QED
      BY <2>1, <3>1, <3>2, <3>3 DEF PursuedInv
  <2>3. CASE ~AddqInsert(u)
    <3>1. dispatch[u].status \in Statuses
      BY <1>1 DEF DispatchState
    <3>2. IrpKept
      BY <1>3, <2>3, <3>1 DEF IrpKept, Dispatch, Submit, AddqNoMemory, AddqArm, AddqTakeRead,
         AddqFilled, AddqFillFailed, AddqCancelled, AddqFinishRead, DispatchComplete
    <3>3. UNCHANGED <<canceller, ioctl_q>>
      BY <1>3, <2>3 DEF Dispatch, Submit, AddqNoMemory, AddqArm, AddqTakeRead,
         AddqFilled, AddqFillFailed, AddqCancelled, AddqFinishRead, DispatchComplete
    <3> QED
      BY <1>2, <2>1, <3>2, <3>3
  <2> QED
    BY <2>2, <2>3
<1>4. ASSUME NEW u \in Urbs, Cancel(u)
      PROVE  PursuedInv'
  <2>1. Submitted' = Submitted
    BY <1>4 DEF Submitted, Cancel, CancelFlag, CancelSwap, CancelSearch, CancelFound,
       CancelNotFound, CancelComplete
  <2>2. CASE CancelFlag(u)
    <3>1. /\ canceller'[u] = "flagged" /\ irp'[u].cancel
          /\ \A v \in Urbs \ {u} : canceller'[v] = canceller[v] /\ irp'[v] = irp[v]
          /\ ioctl_q' = ioctl_q
      BY <1>1, <2>2 DEF CancelFlag, Irp
    <3>2. u \in Submitted
      BY <2>2 DEF CancelFlag, Submitted
    <3> QED
      BY <2>1, <3>1, <3>2 DEF PursuedInv, Queued
  <2>3. CASE CancelSwap(u)
    <3>1. /\ canceller[u] = "flagged"
          /\ canceller'[u] = IF irp[u].routine THEN "called" ELSE "over"
          /\ \A v \in Urbs \ {u} : canceller'[v] = canceller[v]
          /\ ioctl_q' = ioctl_q
      BY <1>1, <2>3 DEF CancelSwap
    <3>2. IrpKept
      BY <2>3 DEF IrpKept, CancelSwap
    <3>3. u \in Queued => irp[u].routine
      BY <3>1 DEF IInv, Rest, RoutineInv, Called, Cancellable
    <3>4. \A v \in Urbs : irp'[v].cancel <=> irp[v].cancel
      BY <3>2, FlagsKept DEF IInv
    <3> QED
      BY <2>1, <3>1, <3>3, <3>4 DEF PursuedInv, Queued
  <2>4. CASE CancelSearch(u)
    <3>1. CancelFound(u)
      BY <2>4, NotFoundNever DEF CancelSearch
    <3>2. /\ canceller[u] = "called" /\ canceller'[u] = "removed" /\ irp' = irp
          /\ \A v \in Urbs \ {u} : canceller'[v] = canceller[v]
          /\ \E k \in 1..Len(ioctl_q) : ioctl_q' = RemoveAt(ioctl_q, k)
      BY <1>1, <3>1 DEF CancelFound
    <3>3. Queued' \subseteq Queued
      BY <3>2, ListKept
    <3> QED
      BY <2>1, <3>2, <3>3 DEF PursuedInv
  <2>5. CASE CancelComplete(u)
    <3>1. /\ canceller[u] \in {"removed", "lost"} /\ canceller'[u] = "over"
          /\ \A v \in Urbs \ {u} : canceller'[v] = canceller[v]
          /\ ioctl_q' = ioctl_q
      BY <1>1, <2>5 DEF CancelComplete
    <3>2. IrpKept
      BY <2>5 DEF IrpKept, CancelComplete, Statuses
    <3>3. u \notin Queued
      BY <3>1 DEF IInv, Rest, OwnerInv, CancelHas, CancelOwns
    <3>4. \A v \in Urbs : irp'[v].cancel <=> irp[v].cancel
      BY <3>2, FlagsKept DEF IInv
    <3> QED
      BY <2>1, <3>1, <3>3, <3>4 DEF PursuedInv, Queued
  <2> QED
    BY <1>4, <2>2, <2>3, <2>4, <2>5 DEF Cancel
<1>5. ASSUME NEW r \in Reads, Read(r)
      PROVE  PursuedInv'
  <2>1. reader[r].urb \in Urbs \cup {NULL} /\ \A i \in 1..Len(ioctl_q) : ioctl_q[i] \in Urbs
    BY <1>1, Elements DEF ReaderState, IInv
  <2>2. IrpKept
    BY <1>5, <2>1 DEF IrpKept, Read, StartRead, ReadTake, ReadReject, ReadPark, ReadFinishUrb,
       FinishRead, Statuses
  <2>3. UNCHANGED canceller /\ Submitted' = Submitted
    BY <1>5 DEF Submitted, Read, StartRead, ReadTake, ReadReject, ReadPark, ReadFinishUrb,
       FinishRead
  <2>4. ioctl_q' = ioctl_q \/ \E k \in 1..Len(ioctl_q) : ioctl_q' = RemoveAt(ioctl_q, k)
    BY <1>5 DEF Read, StartRead, ReadTake, ReadReject, ReadPark, ReadFinishUrb, FinishRead
  <2> QED
    BY <1>2, <2>2, <2>3, <2>4
<1>6. ASSUME NEW w \in Writers, Write(w)
      PROVE  PursuedInv'
  <2>1. /\ writer[w].urb \in Urbs \cup {NULL} /\ writer[w].status \in Statuses
        /\ \A i \in 1..Len(ioctl_q) : ioctl_q[i] \in Urbs
    BY <1>1, Elements DEF WriterState, IInv
  <2>2. IrpKept
    BY <1>6, <2>1 DEF IrpKept, Write, WriteReply, WriteStray, StartWrite, WriteMatch,
       WriteNoMatch, WriteFinishUrb
  <2>3. UNCHANGED canceller /\ Submitted' = Submitted
    BY <1>6 DEF Submitted, Write, WriteReply, WriteStray, StartWrite, WriteMatch, WriteNoMatch,
       WriteFinishUrb
  <2>4. ioctl_q' = ioctl_q \/ \E k \in 1..Len(ioctl_q) : ioctl_q' = RemoveAt(ioctl_q, k)
    BY <1>6 DEF Write, WriteReply, WriteStray, StartWrite, WriteMatch, WriteNoMatch,
       WriteFinishUrb
  <2> QED
    BY <1>2, <2>2, <2>3, <2>4
<1>7. CASE UNCHANGED vars
  BY <1>7 DEF vars, PursuedInv, Queued, Submitted
<1> QED
  BY <1>3, <1>4, <1>5, <1>6, <1>7 DEF Next

\* A URB that the I/O manager asked to cancel is finished, or there is a thread at work that will
\* finish it: the one that submitted it, IoCancelIrp or cancel_irp, a Bus_Read, a Bus_Write.
CancelIsUnderWay ==
  \A u \in Urbs : irp[u].cancel /\ ~Completed(u) =>
    \/ DispatchOwns(u)
    \/ canceller[u] \in {"flagged", "called", "removed"}
    \/ \E r \in Reads : ReadOwns(r, u)
    \/ \E w \in Writers : WriteOwns(w, u)

\* Wherever IoCancelIrp comes between the steps of try_addq, process_read_irp and
\* process_write_irp, a cancelled URB does not stay on the list for an answer of the tool:
\* what CancelEnds leaves to fairness is only that threads which run go on.
THEOREM CancelIsPursued == Spec => []CancelIsUnderWay
<1>1. IInv /\ PursuedInv => CancelIsUnderWay
  <2> SUFFICES ASSUME IInv, PursuedInv, NEW u \in Urbs, irp[u].cancel, u \notin Finished
               PROVE  \/ DispatchOwns(u)
                      \/ canceller[u] \in {"flagged", "called", "removed"}
                      \/ \E r \in Reads : ReadOwns(r, u)
                      \/ \E w \in Writers : WriteOwns(w, u)
    BY DEF CancelIsUnderWay, Finished
  <2>1. canceller[u] \in {"flagged", "called", "removed", "over"}
    BY DEF PursuedInv, IInv, TypeOK, Rest, RoutineInv, CancellerStates
  <2>2. u \in Submitted
    BY DEF PursuedInv
  <2> QED
    BY <2>1, <2>2 DEF PursuedInv, IInv, Rest, OwnerInv, DispatchHas, CancelHas, CancelOwns, ReadHas,
       WriteHas
<1>2. IInv /\ PursuedInv /\ [Next]_vars => PursuedInv'
  BY PursuedStep
<1> QED
  BY <1>1, <1>2, PursuedInit, InvariantHolds, PTL DEF Spec

(***************************************************************************)
(* Unplugging.                                                             *)
(***************************************************************************)

\* The URBs that nobody asked to cancel, and those that a drain has taken off the list.
Tame == {u \in Urbs : ~irp[u].cancel}
DrainHas == {u \in Urbs : \E p \in Unpluggers : DrainOwns(p, u)}

\* A read that somebody other than its own thread has, or had: its thread is out of the
\* driver and holds no URB.
GivenPcs == {"parked", "lent", "done", "answered"}

\* Who has a read or a URB of which he will complete it.
GivenInv ==
  /\ \A u \in Urbs : dispatch[u].read # NULL => reader[dispatch[u].read].pc \in GivenPcs
  /\ pending_read_irp # NULL => reader[pending_read_irp].pc \in GivenPcs
  /\ \A p \in Unpluggers :
       unplugger[p].pc = "finish_read" =>
         unplugger[p].irp \in Reads /\ reader[unplugger[p].irp].pc \in GivenPcs
  /\ \A p \in Unpluggers : unplugger[p].pc = "finish_urb" => unplugger[p].irp \in Urbs
  /\ \A r \in Reads : reader[r].pc = "finish_urb" => reader[r].urb # NULL
  /\ \A w \in Writers : writer[w].pc = "finish_urb" => writer[w].urb # NULL

\* A URB is put on the list once, by a thread that will not complete it.
ListInv ==
  /\ Distinct(ioctl_q)
  /\ \A u \in Queued : dispatch[u].status = "PENDING"
                       /\ dispatch[u].pc \in {"finish_read", "returned"}

\* All this holds of every URB.
BaseInv == UnplugTypeOK /\ DispatchInv /\ GivenInv /\ ListInv

\* OwnerInv of one URB, without cancel_irp and with the drain.
OneParty(u) ==
  /\ u \in DispatchHas => u \notin Queued \cup ReadHas \cup WriteHas \cup DrainHas \cup Finished
  /\ u \in Queued => u \notin ReadHas \cup WriteHas \cup DrainHas \cup Finished
  /\ u \in ReadHas => u \notin WriteHas \cup DrainHas \cup Finished
  /\ u \in WriteHas => u \notin DrainHas \cup Finished
  /\ u \in DrainHas => u \notin Finished
  /\ u \in Submitted <=>
       u \in DispatchHas \cup Queued \cup ReadHas \cup WriteHas \cup DrainHas \cup Finished

\* OnceInv of one URB, which cancel_irp does not have.
PartyOnce(u) ==
  /\ canceller[u] = "none"
  /\ irp[u].completions <= 1
  /\ \A q, r \in Reads : ReadOwns(q, u) /\ ReadOwns(r, u) => q = r
  /\ \A v, w \in Writers : WriteOwns(v, u) /\ WriteOwns(w, u) => v = w
  /\ \A p, q \in Unpluggers : DrainOwns(p, u) /\ DrainOwns(q, u) => p = q

\* Of URBs that nobody asked to cancel; the others may have two parties, or none.
TameInv == \A u \in Tame : OneParty(u) /\ PartyOnce(u)

\* The inductive invariant of a queue whose device may be unplugged.
UnplugInv == BaseInv /\ TameInv

(***************************************************************************)
(* What holds of every URB.                                                *)
(***************************************************************************)

\* What the type says of a thread that unplugs.
UnplugPcs == {"idle", "take_read", "finish_read", "marked", "drain", "finish_urb", "over"}
UnpluggerState == [pc : UnplugPcs, irp : Urbs \cup Reads \cup {NULL}]

LEMMA UnplugElements ==
  ASSUME UnplugTypeOK
  PROVE  /\ TypeOK /\ unplugger \in [Unpluggers -> UnpluggerState]
         /\ \A p \in Unpluggers : unplugger[p] \in UnpluggerState
  BY DEF UnplugTypeOK, UnpluggerState, UnplugPcs

\* Where a thread that unplugs goes on.
LEMMA GoesOnMeans ==
  ASSUME UnplugTypeOK, NEW p \in Unpluggers, NEW pc, NEW i, GoesOn(p, pc, i)
  PROVE  /\ unplugger'[p].pc = pc /\ unplugger'[p].irp = i
         /\ \A q \in Unpluggers \ {p} : unplugger'[q] = unplugger[q]
         /\ pc \in UnplugPcs /\ i \in Urbs \cup Reads \cup {NULL} =>
              unplugger' \in [Unpluggers -> UnpluggerState]
  BY UnplugElements DEF GoesOn, UnpluggerState

\* A step of the queue keeps the type, whatever of its device is left.
LEMMA QueueStepType ==
  ASSUME UnplugTypeOK, QueueStep
  PROVE  UnplugTypeOK'
  BY TypeStep DEF UnplugTypeOK, QueueStep, unplugVars

\* A step of unplugging keeps the type.
LEMMA UnplugStepType ==
  ASSUME UnplugTypeOK, NEW p \in Unpluggers, UnplugMark(p) \/ UnplugStep(p)
  PROVE  UnplugTypeOK'
<1>1. /\ TypeOK /\ destroyed \in BOOLEAN
      /\ unplugger[p].irp \in Urbs \cup Reads \cup {NULL}
  BY UnplugElements DEF UnplugTypeOK, UnpluggerState
<1> SUFFICES TypeOK' /\ unplugger' \in [Unpluggers -> UnpluggerState] /\ destroyed' \in BOOLEAN
  BY DEF UnplugTypeOK, UnpluggerState, UnplugPcs
<1>2. CASE UnplugMark(p)
  BY <1>1, <1>2, GoesOnMeans DEF UnplugMark, TypeOK, UnplugPcs
<1>3. CASE UnplugTakeRead(p)
  <2>1. pending_read_irp \in Reads \cup {NULL}
    BY <1>1 DEF TypeOK
  <2>2. unplugger' \in [Unpluggers -> UnpluggerState]
    BY <1>3, <2>1, GoesOnMeans DEF UnplugTakeRead, UnplugPcs
  <2> QED
    BY <1>1, <1>3, <2>2 DEF UnplugTakeRead, TypeOK
<1>4. CASE UnplugFinishRead(p)
  <2>1. unplugger' \in [Unpluggers -> UnpluggerState]
    BY <1>4, GoesOnMeans DEF UnplugFinishRead, UnplugPcs
  <2>2. \A r \in Reads : [reader[r] EXCEPT !.pc = "done", !.status = "NOT_CONNECTED"] \in ReaderState
    BY <1>1, Elements DEF ReaderState, ReaderPcs, Statuses
  <2>3. reader' \in [Reads -> ReaderState]
    BY <1>1, <1>4, <2>2 DEF UnplugFinishRead, TypeOK
  <2> QED
    BY <1>1, <1>4, <2>1, <2>3 DEF UnplugFinishRead, TypeOK
<1>5. CASE DrainBegin(p)
  BY <1>1, <1>5, GoesOnMeans DEF DrainBegin, vars, TypeOK, UnplugPcs
<1>6. CASE DrainTake(p)
  <2>1. Head(ioctl_q) \in Urbs /\ Tail(ioctl_q) \in Seq(Urbs)
    BY <1>1, <1>6 DEF DrainTake, TypeOK
  <2>2. unplugger' \in [Unpluggers -> UnpluggerState]
    BY <1>6, <2>1, GoesOnMeans DEF DrainTake, UnplugPcs
  <2> QED
    BY <1>1, <1>6, <2>1, <2>2 DEF DrainTake, TypeOK
<1>7. CASE DrainFinishUrb(p)
  <2>1. unplugger' \in [Unpluggers -> UnpluggerState]
    BY <1>7, GoesOnMeans DEF DrainFinishUrb, UnplugPcs
  <2>2. irp' \in [Urbs -> Irp]
    <3>1. CASE unplugger[p].irp \in Urbs
      BY <1>1, <1>7, <3>1, CompleteType DEF DrainFinishUrb, Statuses
    <3>2. CASE unplugger[p].irp \notin Urbs
      BY <1>1, <1>7, <3>2 DEF DrainFinishUrb, Complete, TypeOK
    <3> QED
      BY <3>1, <3>2
  <2> QED
    BY <1>1, <1>7, <2>1, <2>2 DEF DrainFinishUrb, TypeOK
<1>8. CASE DrainEnd(p)
  BY <1>1, <1>8, GoesOnMeans DEF DrainEnd, vars, TypeOK, UnplugPcs
<1> QED
  BY <1>2, <1>3, <1>4, <1>5, <1>6, <1>7, <1>8 DEF UnplugStep

\* No step takes a read that was given away back to its own thread.
LEMMA GivenStays ==
  ASSUME UnplugTypeOK, NEW r \in Reads, reader[r].pc \in GivenPcs,
         \/ QueueStep
         \/ \E p \in Unpluggers : UnplugMark(p) \/ UnplugStep(p)
         \/ Destroy
  PROVE  reader'[r].pc \in GivenPcs
<1>1. TypeOK
  BY UnplugElements
<1>2. /\ \A q \in Reads : reader[q] \in ReaderState
      /\ reader = [q \in Reads |-> reader[q]]
  BY <1>1, Elements DEF TypeOK
<1>3. ASSUME NEW u \in Urbs, Dispatch(u) PROVE reader'[r].pc \in GivenPcs
  <2>1. CASE AddqTakeRead(u)
    BY <1>2, <2>1 DEF AddqTakeRead, GivenPcs, ReaderState
  <2>2. CASE AddqFinishRead(u)
    BY <1>2, <2>2 DEF AddqFinishRead, GivenPcs, ReaderState
  <2>3. CASE ~AddqTakeRead(u) /\ ~AddqFinishRead(u)
    BY <1>3, <2>3 DEF Dispatch, Submit, AddqNoMemory, AddqArm, AddqFilled, AddqFillFailed,
       AddqCancelled, AddqInsert, DispatchComplete
  <2> QED
    BY <2>1, <2>2, <2>3
<1>4. ASSUME NEW u \in Urbs, Cancel(u) PROVE reader'[r].pc \in GivenPcs
  BY <1>4 DEF Cancel, CancelFlag, CancelSwap, CancelSearch, CancelFound, CancelNotFound,
     CancelComplete
<1>5. ASSUME NEW q \in Reads, Read(q) PROVE reader'[r].pc \in GivenPcs
  <2>1. reader[q].pc \notin GivenPcs
    BY <1>5 DEF Read, StartRead, ReadTake, ReadReject, ReadPark, ReadFinishUrb, FinishRead, GivenPcs
  <2>2. reader'[r] = reader[r]
    BY <1>2, <1>5, <2>1 DEF Read, StartRead, ReadTake, ReadReject, ReadPark, ReadFinishUrb, FinishRead
  <2> QED
    BY <2>2
<1>6. ASSUME NEW w \in Writers, Write(w) PROVE reader'[r].pc \in GivenPcs
  BY <1>2, <1>6 DEF Write, WriteReply, WriteStray, WriteMatch, WriteNoMatch, WriteFinishUrb,
     ReaderState, GivenPcs
<1>7. ASSUME NEW p \in Unpluggers, UnplugFinishRead(p) PROVE reader'[r].pc \in GivenPcs
  BY <1>2, <1>7 DEF UnplugFinishRead, ReaderState, GivenPcs
<1>8. ASSUME NEW p \in Unpluggers, UnplugMark(p) \/ UnplugStep(p), ~UnplugFinishRead(p)
      PROVE  reader' = reader
  BY <1>8 DEF UnplugMark, UnplugStep, UnplugTakeRead, DrainBegin, DrainTake, DrainFinishUrb,
     DrainEnd, vars
<1>9. CASE Destroy
  BY <1>9 DEF Destroy, vars
<1> QED
  BY <1>3, <1>4, <1>5, <1>6, <1>7, <1>8, <1>9 DEF QueueStep, Next

\* A step of the queue, of unplugging or of the device's destruction.
Unplugging == \E p \in Unpluggers : UnplugMark(p) \/ UnplugStep(p)
Stepping == QueueStep \/ Unplugging \/ Destroy

\* GivenInv is kept where reads are given away by those who have them.
LEMMA GivenKept ==
  ASSUME UnplugTypeOK, GivenInv, Stepping,
         \A v \in Urbs : \/ dispatch'[v].read = dispatch[v].read
                         \/ dispatch'[v].read = pending_read_irp,
         \/ pending_read_irp' = pending_read_irp \/ pending_read_irp' = NULL
         \/ reader'[pending_read_irp'].pc \in GivenPcs,
         \A p \in Unpluggers :
           \/ unplugger'[p] = unplugger[p]
           \/ unplugger'[p].pc \notin {"finish_read", "finish_urb"}
           \/ /\ unplugger'[p].pc = "finish_read" /\ pending_read_irp # NULL
              /\ unplugger'[p].irp = pending_read_irp
           \/ unplugger'[p].pc = "finish_urb" /\ unplugger'[p].irp \in Urbs,
         \A r \in Reads : reader'[r].pc = "finish_urb" => reader'[r].urb # NULL,
         \A w \in Writers : writer'[w].pc = "finish_urb" => writer'[w].urb # NULL
  PROVE  GivenInv'
<1>1. TypeOK
  BY UnplugElements
<1>2. /\ pending_read_irp \in Reads \cup {NULL}
      /\ \A v \in Urbs : dispatch[v].read \in Reads \cup {NULL}
  BY <1>1, Elements DEF TypeOK, DispatchState
<1>3. \A r \in Reads : reader[r].pc \in GivenPcs => reader'[r].pc \in GivenPcs
  BY GivenStays DEF Stepping, Unplugging
<1>4. \A v \in Urbs : dispatch'[v].read # NULL => reader'[dispatch'[v].read].pc \in GivenPcs
  BY <1>2, <1>3 DEF GivenInv
<1>5. pending_read_irp' # NULL => reader'[pending_read_irp'].pc \in GivenPcs
  BY <1>2, <1>3 DEF GivenInv
<1>6. \A p \in Unpluggers :
        unplugger'[p].pc = "finish_read" =>
          unplugger'[p].irp \in Reads /\ reader'[unplugger'[p].irp].pc \in GivenPcs
  BY <1>2, <1>3 DEF GivenInv
<1>7. \A p \in Unpluggers : unplugger'[p].pc = "finish_urb" => unplugger'[p].irp \in Urbs
  BY DEF GivenInv
<1> QED
  BY <1>4, <1>5, <1>6, <1>7 DEF GivenInv

\* The submitting threads' steps, their locals and the list.
LEMMA DispatchBase ==
  ASSUME BaseInv, QueueStep, NEW u \in Urbs, Dispatch(u)
  PROVE  BaseInv'
<1>1. /\ TypeOK /\ UnplugTypeOK' /\ UNCHANGED unplugger
      /\ dispatch[u] \in DispatchState
      /\ \A q \in Reads : reader[q] \in ReaderState
  BY UnplugElements, QueueStepType, Elements DEF BaseInv, QueueStep, unplugVars
<1>2. /\ ioctl_q \in Seq(Urbs) /\ Distinct(ioctl_q)
      /\ dispatch = [v \in Urbs |-> dispatch[v]]
  BY <1>1 DEF TypeOK, BaseInv, ListInv
<1>3. \A v \in Urbs \ {u} : dispatch'[v] = dispatch[v]
  BY <1>1 DEF TypeOK, Dispatch, Submit, AddqNoMemory, AddqArm, AddqTakeRead, AddqFilled,
     AddqFillFailed, AddqCancelled, AddqInsert, AddqFinishRead, DispatchComplete
<1>4. \/ dispatch'[u].read = dispatch[u].read
      \/ dispatch'[u].read = pending_read_irp
  <2>1. CASE AddqTakeRead(u)
    BY <1>1, <2>1 DEF AddqTakeRead, TypeOK, DispatchState
  <2>2. CASE AddqFinishRead(u) \/ AddqFilled(u) \/ AddqCancelled(u) \/ AddqInsert(u)
    BY <1>1, <2>2 DEF TypeOK, DispatchState, AddqFinishRead, AddqFilled, AddqCancelled, AddqInsert
  <2>3. CASE Submit(u) \/ AddqNoMemory(u) \/ AddqArm(u) \/ AddqFillFailed(u) \/ DispatchComplete(u)
    BY <1>1, <2>3 DEF TypeOK, DispatchState, Submit, AddqNoMemory, AddqArm, AddqFillFailed,
       DispatchComplete
  <2> QED
    BY <2>1, <2>2, <2>3 DEF Dispatch
<1>5. UNCHANGED writer /\ (pending_read_irp' = pending_read_irp \/ pending_read_irp' = NULL)
  BY DEF Dispatch, Submit, AddqNoMemory, AddqArm, AddqTakeRead, AddqFilled,
     AddqFillFailed, AddqCancelled, AddqInsert, AddqFinishRead, DispatchComplete
<1>6. \A r \in Reads : reader'[r] = reader[r] \/ reader'[r].pc \in {"lent", "done"}
  <2>1. CASE AddqTakeRead(u)
    BY <1>1, <2>1 DEF AddqTakeRead, TypeOK, ReaderState
  <2>2. CASE AddqFinishRead(u)
    BY <1>1, <2>2 DEF AddqFinishRead, TypeOK, ReaderState
  <2>3. CASE ~AddqTakeRead(u) /\ ~AddqFinishRead(u)
    BY <2>3 DEF Dispatch, Submit, AddqNoMemory, AddqArm, AddqFilled, AddqFillFailed,
       AddqCancelled, AddqInsert, DispatchComplete
  <2> QED
    BY <2>1, <2>2, <2>3
<1>7. GivenInv'
  BY <1>1, <1>3, <1>4, <1>5, <1>6, GivenKept DEF BaseInv, Stepping, GivenInv
<1>8. ASSUME DispatchInv PROVE DispatchInv' 
  <2>1. /\ dispatch'[u].pc \in {"new", "addq", "armed", "fill"} => dispatch'[u].status = "PENDING"
        /\ dispatch'[u].pc \in {"fill", "finish_read"} => dispatch'[u].read # NULL
    BY <1>1, <1>8 DEF TypeOK, DispatchState, DispatchInv, Dispatch, Submit, AddqNoMemory, AddqArm,
       AddqTakeRead, AddqFilled, AddqFillFailed, AddqCancelled, AddqInsert, AddqFinishRead,
       DispatchComplete, AfterSection, ReaderWaits
  <2> QED
    BY <1>3, <1>8, <2>1 DEF DispatchInv
<1>9. ListInv'
  <2>1. CASE AddqInsert(u)
    <3>1. /\ dispatch[u].pc = "armed" /\ dispatch[u].status = "PENDING"
          /\ ioctl_q' = Append(ioctl_q, u)
          /\ dispatch'[u].pc \in {"returned", "finish_read"}
          /\ dispatch'[u].status = "PENDING"
      BY <1>1, <2>1 DEF AddqInsert, BaseInv, DispatchInv, TypeOK, DispatchState
    <3>2. u \notin Queued
      BY <3>1 DEF BaseInv, ListInv
    <3>3. Queued' = Queued \cup {u} /\ Distinct(ioctl_q')
      BY <1>2, <3>1, <3>2, AppendDistinct DEF Queued
    <3> QED
      BY <1>1, <1>3, <3>1, <3>3, QueuedType DEF BaseInv, ListInv
  <2>2. CASE ~AddqInsert(u)
    <3>1. UNCHANGED ioctl_q
      BY <2>2 DEF Dispatch, Submit, AddqNoMemory, AddqArm, AddqTakeRead, AddqFilled,
         AddqFillFailed, AddqCancelled, AddqFinishRead, DispatchComplete
    <3>2. dispatch[u].status = "PENDING" /\ dispatch[u].pc \in {"finish_read", "returned"} =>
            /\ dispatch'[u].status = "PENDING"
            /\ dispatch'[u].pc \in {"finish_read", "returned"}
      BY <1>1, <2>2 DEF TypeOK, DispatchState, Dispatch, Submit, AddqNoMemory, AddqArm, AddqTakeRead,
         AddqFilled, AddqFillFailed, AddqCancelled, AddqFinishRead, DispatchComplete
    <3> QED
      BY <1>1, <1>3, <3>1, <3>2, QueuedType DEF BaseInv, ListInv, Queued
  <2> QED
    BY <2>1, <2>2
<1> QED
  BY <1>1, <1>7, <1>8, <1>9 DEF BaseInv

\* An entry leaves the list.
LEMMA ListLoses ==
  ASSUME TypeOK, ListInv, NEW i \in 1..Len(ioctl_q), ioctl_q' = RemoveAt(ioctl_q, i),
         UNCHANGED dispatch
  PROVE  /\ ListInv'
         /\ ioctl_q[i] \in Urbs /\ ioctl_q[i] \in Queued
         /\ Queued' = Queued \ {ioctl_q[i]}
<1>1. ioctl_q \in Seq(Urbs) /\ Distinct(ioctl_q)
  BY DEF TypeOK, ListInv
<1>2. ioctl_q[i] \in Urbs /\ ioctl_q[i] \in Queued
  BY RemovedType DEF Queued, ToSet
<1>3. Queued' = Queued \ {ioctl_q[i]} /\ Distinct(ioctl_q')
  BY <1>1, RemoveAtDistinct DEF Queued
<1> QED
  BY <1>2, <1>3 DEF ListInv

\* The other steps of the queue.
LEMMA OthersBase ==
  ASSUME BaseInv, QueueStep,
         \/ \E u \in Urbs : Cancel(u)
         \/ \E r \in Reads : Read(r)
         \/ \E w \in Writers : Write(w)
  PROVE  BaseInv'
<1>1. /\ TypeOK /\ UnplugTypeOK' /\ UNCHANGED unplugger
      /\ \A q \in Reads : reader[q] \in ReaderState
      /\ \A w \in Writers : writer[w] \in WriterState
  BY UnplugElements, QueueStepType, Elements DEF BaseInv, QueueStep, unplugVars
<1>2. UNCHANGED dispatch
  BY DEF Cancel, CancelFlag, CancelSwap, CancelSearch, CancelFound, CancelNotFound, CancelComplete,
     Read, StartRead, ReadTake, ReadReject, ReadPark, ReadFinishUrb, FinishRead,
     Write, WriteReply, WriteStray, StartWrite, WriteMatch, WriteNoMatch, WriteFinishUrb
<1>3. DispatchInv'
  BY <1>2 DEF DispatchInv, BaseInv
<1>4. ListInv'
  <2>1. UNCHANGED ioctl_q \/ \E i \in 1..Len(ioctl_q) : ioctl_q' = RemoveAt(ioctl_q, i)
    <3>1. ASSUME NEW u \in Urbs, Cancel(u) PROVE <2>1
      BY <3>1 DEF Cancel, CancelFlag, CancelSwap, CancelSearch, CancelFound, CancelNotFound,
         CancelComplete
    <3>2. ASSUME NEW r \in Reads, Read(r) PROVE <2>1
      <4>1. CASE ReadReject(r)
        BY <4>1 DEF ReadReject
      <4>2. CASE ~ReadReject(r)
        BY <3>2, <4>2 DEF Read, StartRead, ReadTake, ReadPark, ReadFinishUrb, FinishRead
      <4> QED
        BY <4>1, <4>2
    <3>3. ASSUME NEW w \in Writers, Write(w) PROVE <2>1
      <4>1. CASE WriteMatch(w)
        BY <4>1 DEF WriteMatch
      <4>2. CASE ~WriteMatch(w)
        BY <3>3, <4>2 DEF Write, WriteReply, WriteStray, StartWrite, WriteNoMatch,
           WriteFinishUrb
      <4> QED
        BY <4>1, <4>2
    <3> QED
      BY <3>1, <3>2, <3>3
  <2> QED
    BY <1>1, <1>2, <2>1, ListLoses DEF BaseInv, ListInv, Queued
<1>5. ASSUME NEW u \in Urbs, Cancel(u) PROVE GivenInv'
  <2>1. UNCHANGED <<pending_read_irp, reader, writer>>
    BY <1>5 DEF Cancel, CancelFlag, CancelSwap, CancelSearch, CancelFound, CancelNotFound,
       CancelComplete
  <2> QED
    BY <1>1, <1>2, <2>1, GivenKept DEF BaseInv, Stepping, GivenInv
<1>6. ASSUME NEW r \in Reads, Read(r) PROVE GivenInv'
  <2>1. UNCHANGED writer
    BY <1>6 DEF Read, StartRead, ReadTake, ReadReject, ReadPark, ReadFinishUrb, FinishRead
  <2>2. \A q \in Reads \ {r} : reader'[q] = reader[q]
    BY <1>1, <1>6 DEF TypeOK, Read, StartRead, ReadTake, ReadReject, ReadPark, ReadFinishUrb,
       FinishRead
  <2>3. \/ pending_read_irp' = pending_read_irp
        \/ reader'[pending_read_irp'].pc \in GivenPcs
    <3>1. CASE ReadPark(r)
      BY <1>1, <3>1 DEF ReadPark, TypeOK, ReaderState, GivenPcs
    <3>2. CASE ~ReadPark(r)
      BY <1>6, <3>2 DEF Read, StartRead, ReadTake, ReadReject, ReadFinishUrb, FinishRead
    <3> QED
      BY <3>1, <3>2
  <2>4. reader'[r].pc = "finish_urb" => reader'[r].urb # NULL
    <3>1. CASE ReadReject(r)
      <4>1. PICK i \in 1..Len(ioctl_q) :
              reader' = [reader EXCEPT ![r].pc = "finish_urb", ![r].urb = ioctl_q[i],
                                       ![r].status = "INVALID_PARAMETER"]
        BY <3>1 DEF ReadReject
      <4>2. ioctl_q[i] \in Urbs
        BY <1>1, RemovedType
      <4> QED
        BY <1>1, <4>1, <4>2, ConstantsAssumption DEF TypeOK, ReaderState
    <3>2. CASE ~ReadReject(r)
      <4>1. CASE StartRead(r) \/ ReadPark(r)
        <5>1. CASE StartRead(r)
          BY <1>1, <5>1 DEF TypeOK, ReaderState, StartRead
        <5>2. CASE ReadPark(r)
          BY <1>1, <5>2 DEF TypeOK, ReaderState, ReadPark
        <5> QED
          BY <4>1, <5>1, <5>2
      <4>2. CASE ReadFinishUrb(r) \/ FinishRead(r)
        BY <1>1, <4>2 DEF TypeOK, ReaderState, ReadFinishUrb, FinishRead
      <4>3. CASE ReadTake(r)
        BY <1>1, <4>3 DEF TypeOK, ReaderState, ReadTake
      <4> QED
        BY <1>6, <3>2, <4>1, <4>2, <4>3 DEF Read
    <3> QED
      BY <3>1, <3>2
  <2> QED
    BY <1>1, <1>2, <2>1, <2>2, <2>3, <2>4, GivenKept DEF BaseInv, Stepping, GivenInv
<1>7. ASSUME NEW w \in Writers, Write(w) PROVE GivenInv'
  <2>1. /\ UNCHANGED pending_read_irp
        /\ \A v \in Writers \ {w} : writer'[v] = writer[v]
    <3>1. ASSUME NEW s, NEW r, StartWrite(w, s, r) PROVE <2>1
      BY <1>1, <3>1 DEF StartWrite, TypeOK
    <3>2. CASE WriteMatch(w)
      BY <1>1, <3>2 DEF WriteMatch, TypeOK
    <3>3. CASE WriteNoMatch(w) \/ WriteFinishUrb(w)
      BY <1>1, <3>3 DEF WriteNoMatch, WriteFinishUrb, TypeOK
    <3> QED
      BY <1>7, <3>1, <3>2, <3>3 DEF Write, WriteReply, WriteStray
  <2>2. \A r \in Reads : reader'[r] = reader[r] \/ reader'[r].pc = "answered"
    <3>1. CASE UNCHANGED reader
      BY <3>1
    <3>2. ASSUME NEW q \in Reads, WriteReply(w, q) PROVE <2>2
      BY <1>1, <3>2 DEF WriteReply, TypeOK, ReaderState
    <3> QED
      BY <1>7, <3>1, <3>2 DEF Write, WriteStray, WriteMatch, WriteNoMatch, WriteFinishUrb
  <2>3. writer'[w].pc = "finish_urb" => writer'[w].urb # NULL
    <3>1. CASE WriteMatch(w)
      <4>1. PICK i \in 1..Len(ioctl_q), st \in WriteStatuses :
              writer' = [writer EXCEPT ![w].pc = "finish_urb", ![w].urb = ioctl_q[i],
                                       ![w].status = st]
        BY <3>1 DEF WriteMatch
      <4>2. ioctl_q[i] \in Urbs
        BY <1>1, RemovedType
      <4> QED
        BY <1>1, <4>1, <4>2, ConstantsAssumption DEF TypeOK, WriterState
    <3>2. CASE ~WriteMatch(w)
      <4>1. writer'[w] = writer[w] \/ writer'[w].pc \in {"search", "idle"}
        <5>1. ASSUME NEW s, NEW r, StartWrite(w, s, r) PROVE <4>1
          BY <1>1, <5>1 DEF StartWrite, TypeOK, WriterState
        <5>2. CASE WriteNoMatch(w) \/ WriteFinishUrb(w)
          BY <1>1, <5>2 DEF WriteNoMatch, WriteFinishUrb, IdleWriter, TypeOK
        <5> QED
          BY <1>7, <3>2, <5>1, <5>2 DEF Write, WriteReply, WriteStray
      <4> QED
        BY <4>1 DEF BaseInv, GivenInv
    <3> QED
      BY <3>1, <3>2
  <2> QED
    BY <1>1, <1>2, <2>1, <2>2, <2>3, GivenKept DEF BaseInv, Stepping, GivenInv
<1> QED
  BY <1>1, <1>3, <1>4, <1>5, <1>6, <1>7 DEF BaseInv

\* The steps of unplugging and the device's destruction.
LEMMA UnplugBase ==
  ASSUME BaseInv, Unplugging \/ Destroy
  PROVE  BaseInv'
<1>1. /\ TypeOK /\ UnplugTypeOK
      /\ \A q \in Reads : reader[q] \in ReaderState
      /\ ioctl_q \in Seq(Urbs)
  BY UnplugElements, Elements DEF BaseInv, TypeOK
<1>2. ASSUME NEW p \in Unpluggers, UnplugMark(p) \/ UnplugStep(p) PROVE BaseInv'
  <2>1. UnplugTypeOK'
    BY <1>1, <1>2, UnplugStepType
  <2>2. UNCHANGED <<dispatch, writer>>
    BY <1>2 DEF UnplugMark, UnplugStep, UnplugTakeRead, UnplugFinishRead, DrainBegin, DrainTake,
       DrainFinishUrb, DrainEnd, vars
  <2>3. ListInv'
    <3>1. CASE DrainTake(p)
      <4>1. 1 \in 1..Len(ioctl_q) /\ ioctl_q' = RemoveAt(ioctl_q, 1)
        BY <1>1, <3>1, TailRemoves DEF DrainTake
      <4> QED
        BY <1>1, <2>2, <4>1, ListLoses DEF BaseInv
    <3>2. CASE ~DrainTake(p)
      <4>1. UNCHANGED ioctl_q
        BY <1>2, <3>2 DEF UnplugMark, UnplugStep, UnplugTakeRead, UnplugFinishRead, DrainBegin,
           DrainFinishUrb, DrainEnd, vars
      <4> QED
        BY <2>2, <4>1 DEF BaseInv, ListInv, Queued
    <3> QED
      BY <3>1, <3>2
  <2>4. \A r \in Reads : reader'[r] = reader[r] \/ reader'[r].pc = "done"
    <3>1. CASE UnplugFinishRead(p)
      BY <1>1, <3>1 DEF UnplugFinishRead, TypeOK, ReaderState
    <3>2. CASE ~UnplugFinishRead(p)
      BY <1>2, <3>2 DEF UnplugMark, UnplugStep, UnplugTakeRead, DrainBegin, DrainTake,
         DrainFinishUrb, DrainEnd, vars
    <3> QED
      BY <3>1, <3>2
  <2>5. pending_read_irp' = pending_read_irp \/ pending_read_irp' = NULL
    BY <1>2 DEF UnplugMark, UnplugStep, UnplugTakeRead, UnplugFinishRead, DrainBegin, DrainTake,
       DrainFinishUrb, DrainEnd, vars
  <2>6. \A q \in Unpluggers \ {p} : unplugger'[q] = unplugger[q]
    BY <1>1, <1>2, GoesOnMeans DEF UnplugMark, UnplugStep, UnplugTakeRead, UnplugFinishRead,
       DrainBegin, DrainTake, DrainFinishUrb, DrainEnd
  <2>7. \/ unplugger'[p].pc \notin {"finish_read", "finish_urb"}
        \/ /\ unplugger'[p].pc = "finish_read" /\ pending_read_irp # NULL
           /\ unplugger'[p].irp = pending_read_irp
        \/ unplugger'[p].pc = "finish_urb" /\ unplugger'[p].irp \in Urbs
    <3>1. CASE UnplugTakeRead(p)
      BY <1>1, <3>1, GoesOnMeans DEF UnplugTakeRead, ReaderWaits
    <3>2. CASE DrainTake(p)
      <4>1. Head(ioctl_q) \in Urbs
        BY <1>1, <3>2 DEF DrainTake
      <4> QED
        BY <1>1, <3>2, <4>1, GoesOnMeans DEF DrainTake
    <3>3. CASE ~UnplugTakeRead(p) /\ ~DrainTake(p)
      BY <1>1, <1>2, <3>3, GoesOnMeans DEF UnplugMark, UnplugStep, UnplugFinishRead, DrainBegin,
         DrainFinishUrb, DrainEnd
    <3> QED
      BY <3>1, <3>2, <3>3
  <2>8. GivenInv'
    BY <1>1, <1>2, <2>2, <2>4, <2>5, <2>6, <2>7, GivenKept DEF BaseInv, Stepping, Unplugging, GivenInv
  <2> QED
    BY <2>1, <2>2, <2>3, <2>8 DEF BaseInv, DispatchInv
<1>3. CASE Destroy
  BY <1>3 DEF Destroy, vars, BaseInv, UnplugTypeOK, TypeOK, DispatchInv, GivenInv, ListInv, Queued
<1> QED
  BY <1>2, <1>3 DEF Unplugging

\* Every step keeps what holds of every URB.
LEMMA BaseStep ==
  ASSUME BaseInv, [UnplugNext]_allVars
  PROVE  BaseInv'
<1>1. CASE QueueStep
  BY <1>1, DispatchBase, OthersBase DEF QueueStep, Next
<1>2. CASE UNCHANGED allVars
  BY <1>2 DEF allVars, vars, unplugVars, BaseInv, UnplugTypeOK, TypeOK, DispatchInv, GivenInv,
     ListInv, Queued
<1> QED
  BY <1>1, <1>2, UnplugBase DEF UnplugNext, Unplugging

(***************************************************************************)
(* Who has a URB that nobody asked to cancel.                              *)
(***************************************************************************)

\* A step after which u is with the party it was with before.
SameParty(u) ==
  /\ DispatchOwns(u)' <=> DispatchOwns(u)
  /\ u \in Queued' <=> u \in Queued
  /\ \A r \in Reads : ReadOwns(r, u)' <=> ReadOwns(r, u)
  /\ \A w \in Writers : WriteOwns(w, u)' <=> WriteOwns(w, u)
  /\ \A p \in Unpluggers : DrainOwns(p, u)' <=> DrainOwns(p, u)
  /\ irp'[u].completions = irp[u].completions
  /\ dispatch'[u].pc = "new" <=> dispatch[u].pc = "new"
  /\ canceller'[u] = canceller[u]

\* A step may pass one URB on; the others stay with their parties.
LEMMA TamePasses ==
  ASSUME TameInv, NEW u \in Urbs, Tame' \subseteq Tame,
         \A v \in Tame' \ {u} : SameParty(v),
         u \in Tame' => SameParty(u) \/ (OneParty(u)' /\ PartyOnce(u)')
  PROVE  TameInv'
<1>1. ASSUME NEW v \in Urbs, SameParty(v)
      PROVE  /\ v \in DispatchHas' <=> v \in DispatchHas
             /\ v \in ReadHas' <=> v \in ReadHas
             /\ v \in WriteHas' <=> v \in WriteHas
             /\ v \in DrainHas' <=> v \in DrainHas
             /\ v \in Finished' <=> v \in Finished
             /\ v \in Submitted' <=> v \in Submitted
             /\ v \in Queued' <=> v \in Queued
  BY <1>1 DEF SameParty, DispatchHas, ReadHas, WriteHas, DrainHas, Finished, Completed, Submitted
<1>2. ASSUME NEW v \in Urbs, SameParty(v), OneParty(v), PartyOnce(v)
      PROVE  OneParty(v)' /\ PartyOnce(v)'
  <2>1. OneParty(v)'
    BY <1>1, <1>2 DEF OneParty
  <2>2. PartyOnce(v)'
    BY <1>2 DEF PartyOnce, SameParty
  <2> QED
    BY <2>1, <2>2
<1> QED
  BY <1>2 DEF TameInv, Tame

\* A step after which everybody is with the party he was with before, and which asks
\* nobody's cancellation.
LEMMA TameKept ==
  ASSUME TameInv, Tame' \subseteq Tame, \A v \in Tame' : SameParty(v)
  PROVE  TameInv'
<1>1. CASE Urbs = {}
  BY <1>1 DEF TameInv, Tame
<1>2. CASE Urbs # {}
  BY <1>2, TamePasses
<1> QED
  BY <1>1, <1>2

\* Inserting adds the URB to the list.
LEMMA InsertAdds ==
  ASSUME TypeOK, DispatchInv, ListInv, NEW u \in Urbs, AddqInsert(u)
  PROVE  Queued' = Queued \cup {u} /\ u \notin Queued
<1>1. /\ dispatch[u].pc = "armed" /\ ioctl_q' = Append(ioctl_q, u)
      /\ ioctl_q \in Seq(Urbs) /\ Distinct(ioctl_q)
  BY DEF AddqInsert, TypeOK, ListInv
<1>2. u \notin Queued
  BY <1>1 DEF ListInv
<1> QED
  BY <1>1, <1>2, AppendDistinct DEF Queued

\* The submitting thread has its URB from Submit on, until it is on the list.
LEMMA DispatchTame ==
  ASSUME UnplugInv, QueueStep, NEW u \in Urbs, Dispatch(u)
  PROVE  TameInv'
<1>1. /\ TypeOK /\ UNCHANGED unplugger /\ u \in Urbs
      /\ dispatch[u] \in DispatchState
      /\ \A q \in Reads : reader[q] \in ReaderState
      /\ \A v \in Urbs : irp[v] \in Irp
      /\ TameInv /\ DispatchInv /\ GivenInv /\ ListInv
  BY UnplugElements, Elements DEF UnplugInv, BaseInv, QueueStep, unplugVars
<1>2. UNCHANGED <<canceller, writer>>
  BY DEF Dispatch, Submit, AddqNoMemory, AddqArm, AddqTakeRead, AddqFilled,
     AddqFillFailed, AddqCancelled, AddqInsert, AddqFinishRead, DispatchComplete
<1>3. \A v \in Urbs \ {u} : dispatch'[v] = dispatch[v]
  BY <1>1 DEF TypeOK, Dispatch, Submit, AddqNoMemory, AddqArm, AddqTakeRead, AddqFilled,
     AddqFillFailed, AddqCancelled, AddqInsert, AddqFinishRead, DispatchComplete
<1>4. \A r \in Reads : \/ reader'[r] = reader[r]
                       \/ reader'[r].pc # "finish_urb" /\ reader[r].pc # "finish_urb"
  <2>1. CASE AddqTakeRead(u)
    BY <1>1, <2>1, ConstantsAssumption DEF AddqTakeRead, ReaderWaits, TypeOK, ReaderState, GivenInv,
       GivenPcs
  <2>2. CASE AddqFinishRead(u)
    BY <1>1, <2>2, ConstantsAssumption DEF AddqFinishRead, TypeOK, ReaderState, DispatchState,
       GivenInv, GivenPcs
  <2>3. CASE ~AddqTakeRead(u) /\ ~AddqFinishRead(u)
    BY <2>3 DEF Dispatch, Submit, AddqNoMemory, AddqArm, AddqFilled, AddqFillFailed,
       AddqCancelled, AddqInsert, DispatchComplete
  <2> QED
    BY <2>1, <2>2, <2>3
<1>5. /\ \A r \in Reads : \A v : ReadOwns(r, v)' <=> ReadOwns(r, v)
      /\ \A w \in Writers : \A v : WriteOwns(w, v)' <=> WriteOwns(w, v)
      /\ \A p \in Unpluggers : \A v : DrainOwns(p, v)' <=> DrainOwns(p, v)
  BY <1>1, <1>2, <1>4 DEF ReadOwns, WriteOwns, DrainOwns
<1>6. \A v \in Urbs : /\ irp'[v].cancel = irp[v].cancel
                      /\ v # u => irp'[v].completions = irp[v].completions
                      /\ irp'[u].completions = IF DispatchComplete(u)
                                               THEN irp[u].completions + 1 ELSE irp[u].completions
  <2>1. CASE DispatchComplete(u)
    BY <1>1, <2>1 DEF DispatchComplete, Complete, TypeOK, Irp
  <2>2. CASE AddqArm(u) \/ AddqFilled(u) \/ AddqCancelled(u)
    <3>1. ~DispatchComplete(u)
      BY <2>2 DEF AddqArm, AddqFilled, AddqCancelled, DispatchComplete
    <3> QED
      BY <1>1, <2>2, <3>1 DEF AddqArm, AddqFilled, AddqCancelled, TypeOK, Irp
  <2>3. CASE ~(AddqArm(u) \/ AddqFilled(u) \/ AddqCancelled(u) \/ DispatchComplete(u))
    BY <2>3 DEF Dispatch, Submit, AddqNoMemory, AddqTakeRead, AddqFillFailed, AddqInsert,
       AddqFinishRead
  <2> QED
    BY <2>1, <2>2, <2>3
<1>7. Tame' = Tame
  BY <1>6 DEF Tame
<1>8. \A v \in Urbs \ {u} : v \in Queued' <=> v \in Queued
  <2>1. CASE AddqInsert(u)
    <3>1. Queued' = Queued \cup {u}
      BY <1>1, <2>1, InsertAdds
    <3> QED
      BY <3>1
  <2>2. CASE ~AddqInsert(u)
    BY <2>2 DEF Queued, Dispatch, Submit, AddqNoMemory, AddqArm, AddqTakeRead, AddqFilled,
       AddqFillFailed, AddqCancelled, AddqFinishRead, DispatchComplete
  <2> QED
    BY <2>1, <2>2
<1>9. \A v \in Tame' \ {u} : SameParty(v)
  BY <1>2, <1>3, <1>5, <1>6, <1>8 DEF SameParty, DispatchOwns, Tame
<1> SUFFICES ASSUME u \in Tame PROVE SameParty(u) \/ (OneParty(u)' /\ PartyOnce(u)')
  BY <1>1, <1>7, <1>9, TamePasses
<1>10. OneParty(u) /\ PartyOnce(u)
  BY <1>1 DEF TameInv
<1>11. /\ u \in ReadHas' <=> u \in ReadHas
       /\ u \in WriteHas' <=> u \in WriteHas
       /\ u \in DrainHas' <=> u \in DrainHas
  BY <1>5 DEF ReadHas, WriteHas, DrainHas
<1>12. irp'[u].completions <= 1 => PartyOnce(u)'
  BY <1>2, <1>5, <1>10 DEF PartyOnce
<1>13. CASE Submit(u)
  <2>1. u \notin Submitted /\ u \in DispatchHas' /\ u \in Submitted' /\ UNCHANGED <<irp, ioctl_q>>
    BY <1>1, <1>13 DEF Submit, TypeOK, DispatchState, Submitted, DispatchHas, DispatchOwns
  <2>2. (u \in Finished' <=> u \in Finished) /\ (u \in Queued' <=> u \in Queued)
    BY <2>1 DEF Finished, Completed, Queued
  <2> QED
    BY <1>10, <1>11, <1>12, <2>1, <2>2 DEF OneParty, PartyOnce
<1>14. CASE AddqInsert(u)
  <2>1. /\ u \in DispatchHas /\ u \notin DispatchHas' /\ u \in Submitted /\ u \in Submitted'
        /\ UNCHANGED irp
    BY <1>1, <1>14 DEF AddqInsert, TypeOK, DispatchState, Submitted, DispatchHas, DispatchOwns,
       DispatchInv
  <2>2. u \in Queued' /\ (u \in Finished' <=> u \in Finished)
    BY <1>1, <1>14, <2>1, InsertAdds DEF Finished, Completed
  <2> QED
    BY <1>10, <1>11, <1>12, <2>1, <2>2 DEF OneParty, PartyOnce
<1>15. CASE DispatchComplete(u)
  <2>1. /\ u \in DispatchHas /\ u \notin DispatchHas' /\ u \in Submitted /\ u \in Submitted'
        /\ UNCHANGED ioctl_q
    BY <1>1, <1>15 DEF DispatchComplete, TypeOK, DispatchState, Submitted, DispatchHas, DispatchOwns
  <2>2. u \notin Finished /\ u \notin Queued
    BY <1>10, <2>1 DEF OneParty
  <2>3. irp[u].completions = 0 /\ irp'[u].completions = 1
    BY <1>1, <1>6, <1>15, <2>2 DEF Finished, Completed, Irp
  <2>4. u \in Finished' /\ u \notin Queued'
    BY <2>1, <2>2, <2>3 DEF Finished, Completed, Queued
  <2> QED
    BY <1>10, <1>11, <1>12, <2>1, <2>2, <2>3, <2>4 DEF OneParty
<1>16. CASE ~(Submit(u) \/ AddqInsert(u) \/ DispatchComplete(u))
  <2>1. DispatchOwns(u)' <=> DispatchOwns(u)
    BY <1>1, <1>16 DEF Dispatch, AddqNoMemory, AddqArm, AddqTakeRead, AddqFilled, AddqFillFailed,
       AddqCancelled, AddqFinishRead, AfterSection, TypeOK, DispatchState, DispatchOwns
  <2>2. /\ dispatch'[u].pc # "new" /\ dispatch[u].pc # "new" /\ UNCHANGED ioctl_q
    BY <1>1, <1>16 DEF Dispatch, AddqNoMemory, AddqArm, AddqTakeRead, AddqFilled, AddqFillFailed,
       AddqCancelled, AddqFinishRead, AfterSection, TypeOK, DispatchState
  <2> QED
    BY <1>2, <1>5, <1>6, <1>16, <2>1, <2>2 DEF SameParty, Queued
<1> QED
  BY <1>13, <1>14, <1>15, <1>16

\* Whoever has asked to cancel a URB, it is no longer tame: cancel_irp touches no other.
LEMMA CancelTame ==
  ASSUME UnplugInv, QueueStep, NEW u \in Urbs, Cancel(u)
  PROVE  TameInv'
<1>1. /\ TypeOK /\ TameInv /\ ListInv
      /\ UNCHANGED <<unplugger, dispatch, reader, writer>>
  BY UnplugElements DEF UnplugInv, BaseInv, QueueStep, unplugVars, Cancel, CancelFlag, CancelSwap,
     CancelSearch, CancelFound, CancelNotFound, CancelComplete
<1>2. u \notin Tame'
  <2>1. CASE CancelFlag(u)
    BY <1>1, <2>1 DEF CancelFlag, TypeOK, Irp, Tame
  <2>2. CASE ~CancelFlag(u)
    <3>1. canceller[u] # "none"
      BY <2>2 DEF Cancel, CancelSwap, CancelSearch, CancelFound, CancelNotFound, CancelComplete
    <3>2. irp[u].cancel
      BY <1>1, <3>1 DEF TameInv, PartyOnce, Tame
    <3>3. irp'[u].cancel
      <4>1. CASE CancelSwap(u)
        BY <1>1, <3>2, <4>1 DEF CancelSwap, TypeOK, Irp
      <4>2. CASE CancelSearch(u)
        BY <3>2, <4>2 DEF CancelSearch, CancelFound, CancelNotFound
      <4>3. CASE CancelComplete(u)
        BY <1>1, <3>2, <4>3 DEF CancelComplete, Complete, TypeOK, Irp
      <4> QED
        BY <2>2, <4>1, <4>2, <4>3 DEF Cancel
    <3> QED
      BY <3>3 DEF Tame
  <2> QED
    BY <2>1, <2>2
<1>3. \A v \in Urbs \ {u} : irp'[v] = irp[v] /\ canceller'[v] = canceller[v]
  BY <1>1 DEF Cancel, CancelFlag, CancelSwap, CancelSearch, CancelFound, CancelNotFound,
     CancelComplete, Complete, TypeOK
<1>4. \A v \in Urbs \ {u} : v \in Queued' <=> v \in Queued
  <2>1. CASE CancelFound(u)
    <3>1. PICK i \in 1..Len(ioctl_q) : ioctl_q[i] = u /\ ioctl_q' = RemoveAt(ioctl_q, i)
      BY <2>1 DEF CancelFound
    <3>2. Queued' = Queued \ {u}
      BY <1>1, <3>1, ListLoses
    <3> QED
      BY <3>2
  <2>2. CASE ~CancelFound(u)
    BY <2>2 DEF Queued, Cancel, CancelFlag, CancelSwap, CancelSearch, CancelNotFound, CancelComplete
  <2> QED
    BY <2>1, <2>2
<1>5. Tame' \subseteq Tame \ {u}
  BY <1>2, <1>3 DEF Tame
<1>6. \A v \in Tame' : SameParty(v)
  BY <1>1, <1>3, <1>4, <1>5 DEF SameParty, DispatchOwns, ReadOwns, WriteOwns, DrainOwns, Tame
<1> QED
  BY <1>1, <1>5, <1>6, TameKept

\* A party that has a URB completes it: what changes of irp.
LEMMA CompleteMeans ==
  ASSUME TypeOK, NEW u \in Urbs, NEW st, Complete(u, st)
  PROVE  /\ Tame' = Tame
         /\ \A v \in Urbs \ {u} : irp'[v] = irp[v]
         /\ u \in Finished'
         /\ u \notin Finished => irp'[u].completions <= 1
<1>1. irp[u] \in Irp
  BY Elements
<1>2. /\ irp'[u].completions = irp[u].completions + 1
      /\ irp'[u].cancel = irp[u].cancel
      /\ \A v \in Urbs \ {u} : irp'[v] = irp[v]
  BY <1>1 DEF Complete, TypeOK, Irp
<1>3. Tame' = Tame
  BY <1>2 DEF Tame
<1> QED
  BY <1>1, <1>2, <1>3 DEF Finished, Completed, Irp

\* A read's thread has the URB that it took off the list, until it has completed it.
LEMMA ReadTame ==
  ASSUME UnplugInv, QueueStep, NEW r \in Reads, Read(r)
  PROVE  TameInv'
<1>1. /\ TypeOK /\ TameInv /\ ListInv /\ GivenInv
      /\ UNCHANGED <<unplugger, dispatch, canceller, writer>>
      /\ \A q \in Reads : reader[q] \in ReaderState
      /\ \A v \in Urbs : irp[v] \in Irp
  BY UnplugElements, Elements DEF UnplugInv, BaseInv, QueueStep, unplugVars, Read, StartRead,
     ReadTake, ReadReject, ReadPark, ReadFinishUrb, FinishRead
<1>2. \A q \in Reads \ {r} : reader'[q] = reader[q]
  BY <1>1 DEF TypeOK, Read, StartRead, ReadTake, ReadReject, ReadPark, ReadFinishUrb, FinishRead
<1>3. /\ \A v : DispatchOwns(v)' <=> DispatchOwns(v)
      /\ \A w \in Writers : \A v : WriteOwns(w, v)' <=> WriteOwns(w, v)
      /\ \A p \in Unpluggers : \A v : DrainOwns(p, v)' <=> DrainOwns(p, v)
      /\ \A q \in Reads \ {r} : \A v : ReadOwns(q, v)' <=> ReadOwns(q, v)
      /\ UNCHANGED <<DispatchHas, WriteHas, DrainHas, Submitted>>
  BY <1>1, <1>2 DEF DispatchOwns, WriteOwns, DrainOwns, ReadOwns, DispatchHas, WriteHas, DrainHas,
     Submitted
<1>4. CASE ReadReject(r)
  <2>1. PICK i \in 1..Len(ioctl_q) :
          /\ irp' = [irp EXCEPT ![ioctl_q[i]].routine = FALSE]
          /\ ioctl_q' = RemoveAt(ioctl_q, i)
          /\ reader' = [reader EXCEPT ![r].pc = "finish_urb", ![r].urb = ioctl_q[i],
                                      ![r].status = "INVALID_PARAMETER"]
    BY <1>4 DEF ReadReject
  <2>2. PICK u \in Urbs : u = ioctl_q[i] /\ u \in Queued /\ Queued' = Queued \ {u}
    BY <1>1, <2>1, ListLoses
  <2>3. /\ reader[r].pc = "process" /\ reader'[r].pc = "finish_urb" /\ reader'[r].urb = u
    BY <1>1, <1>4, <2>1, <2>2 DEF ReadReject, TypeOK, ReaderState
  <2>4. \A v \in Urbs : irp'[v].cancel = irp[v].cancel /\ irp'[v].completions = irp[v].completions
    BY <1>1, <2>1 DEF TypeOK, Irp
  <2>5. Tame' = Tame /\ Finished' = Finished
    BY <2>4 DEF Tame, Finished, Completed
  <2>6. \A v \in Tame' \ {u} : SameParty(v)
    BY <1>1, <1>2, <1>3, <2>2, <2>3, <2>4 DEF SameParty, ReadOwns, Tame
  <2>7. ASSUME u \in Tame PROVE OneParty(u)' /\ PartyOnce(u)'
    <3>1. OneParty(u) /\ PartyOnce(u)
      BY <1>1, <2>7 DEF TameInv
    <3>2. u \notin ReadHas /\ u \in ReadHas'
      BY <2>2, <2>3, <3>1 DEF OneParty, ReadHas, ReadOwns
    <3>3. OneParty(u)'
      BY <1>3, <2>2, <2>5, <3>1, <3>2 DEF OneParty
    <3>4. PartyOnce(u)'
      BY <1>1, <1>3, <2>2, <2>4, <3>1, <3>2 DEF PartyOnce, ReadHas
    <3> QED
      BY <3>3, <3>4
  <2> QED
    BY <1>1, <2>2, <2>5, <2>6, <2>7, TamePasses
<1>5. CASE ReadFinishUrb(r)
  <2>1. PICK u \in Urbs : reader[r].pc = "finish_urb" /\ reader[r].urb = u
    BY <1>1, <1>5 DEF ReadFinishUrb, ReaderState, GivenInv
  <2>2. reader'[r].pc = "finish" /\ UNCHANGED ioctl_q /\ Complete(u, "INVALID_PARAMETER")
    BY <1>1, <1>5, <2>1 DEF ReadFinishUrb, TypeOK, ReaderState
  <2>3. /\ ReadOwns(r, u) /\ \A v \in Urbs \ {u} : ~ReadOwns(r, v)
        /\ \A v : ~ReadOwns(r, v)'
    BY <2>1, <2>2 DEF ReadOwns
  <2>4. /\ Tame' = Tame /\ u \in Finished'
        /\ \A v \in Urbs \ {u} : irp'[v] = irp[v]
        /\ u \notin Finished => irp'[u].completions <= 1
    BY <1>1, <2>1, <2>2, CompleteMeans
  <2>5. Queued' = Queued
    BY <2>2 DEF Queued
  <2>6. \A v \in Tame' \ {u} : SameParty(v)
    BY <1>1, <1>3, <2>3, <2>4, <2>5 DEF SameParty, Tame
  <2>7. ASSUME u \in Tame PROVE OneParty(u)' /\ PartyOnce(u)'
    <3>1. OneParty(u) /\ PartyOnce(u)
      BY <1>1, <2>7 DEF TameInv
    <3>2. u \in ReadHas /\ u \notin ReadHas' /\ u \notin Finished
      BY <1>3, <2>1, <2>3, <3>1 DEF OneParty, PartyOnce, ReadHas
    <3>3. OneParty(u)'
      BY <1>3, <2>4, <2>5, <3>1, <3>2 DEF OneParty
    <3>4. PartyOnce(u)'
      BY <1>1, <1>3, <2>3, <2>4, <3>1, <3>2 DEF PartyOnce
    <3> QED
      BY <3>3, <3>4
  <2> QED
    BY <1>1, <2>1, <2>4, <2>6, <2>7, TamePasses
<1>6. CASE StartRead(r) \/ ReadTake(r) \/ ReadPark(r) \/ FinishRead(r)
  <2>1. /\ reader[r].pc # "finish_urb"
        /\ UNCHANGED <<irp, ioctl_q>>
    BY <1>6 DEF StartRead, ReadTake, ReadPark, FinishRead
  <2>2. reader'[r].pc # "finish_urb"
    <3>1. CASE StartRead(r)
      BY <1>1, <3>1 DEF StartRead, TypeOK, ReaderState
    <3>2. CASE ReadTake(r)
      BY <1>1, <3>2 DEF ReadTake, TypeOK, ReaderState
    <3>3. CASE ReadPark(r)
      BY <1>1, <3>3 DEF ReadPark, TypeOK, ReaderState
    <3>4. CASE FinishRead(r)
      BY <1>1, <3>4 DEF FinishRead, TypeOK, ReaderState
    <3> QED
      BY <1>6, <3>1, <3>2, <3>3, <3>4
  <2>3. \A v : ReadOwns(r, v)' <=> ReadOwns(r, v)
    BY <2>1, <2>2 DEF ReadOwns
  <2>4. \A v \in Tame' : SameParty(v)
    BY <1>1, <1>3, <2>1, <2>3 DEF SameParty, Queued
  <2> QED
    BY <1>1, <2>1, <2>4, TameKept DEF Tame
<1> QED
  BY <1>4, <1>5, <1>6 DEF Read

\* A writer has the URB whose answer it brought, until it has completed it.
LEMMA WriteTame ==
  ASSUME UnplugInv, QueueStep, NEW w \in Writers, Write(w)
  PROVE  TameInv'
<1>1. /\ TypeOK /\ TameInv /\ ListInv /\ GivenInv
      /\ UNCHANGED <<unplugger, dispatch, canceller>>
      /\ \A q \in Reads : reader[q] \in ReaderState
      /\ \A v \in Writers : writer[v] \in WriterState
      /\ \A v \in Urbs : irp[v] \in Irp
  BY UnplugElements, Elements DEF UnplugInv, BaseInv, QueueStep, unplugVars, Write, WriteReply,
     WriteStray, StartWrite, WriteMatch, WriteNoMatch, WriteFinishUrb
<1>2. \A v \in Writers \ {w} : writer'[v] = writer[v]
  BY <1>1 DEF TypeOK, Write, WriteReply, WriteStray, StartWrite, WriteMatch, WriteNoMatch,
     WriteFinishUrb
<1>3. \A q \in Reads : \/ reader'[q] = reader[q]
                       \/ reader[q].pc = "done" /\ reader'[q].pc = "answered"
  <2>1. CASE UNCHANGED reader
    BY <2>1
  <2>2. ASSUME NEW q \in Reads, WriteReply(w, q) PROVE <1>3
    BY <1>1, <2>2 DEF WriteReply, TypeOK, ReaderState
  <2> QED
    BY <2>1, <2>2 DEF Write, WriteStray, WriteMatch, WriteNoMatch, WriteFinishUrb
<1>4. /\ \A v : DispatchOwns(v)' <=> DispatchOwns(v)
      /\ \A q \in Reads : \A v : ReadOwns(q, v)' <=> ReadOwns(q, v)
      /\ \A p \in Unpluggers : \A v : DrainOwns(p, v)' <=> DrainOwns(p, v)
      /\ \A x \in Writers \ {w} : \A v : WriteOwns(x, v)' <=> WriteOwns(x, v)
  BY <1>1, <1>2, <1>3 DEF DispatchOwns, WriteOwns, DrainOwns, ReadOwns
<1>5. UNCHANGED <<DispatchHas, ReadHas, DrainHas, Submitted>>
  BY <1>1, <1>4 DEF DispatchHas, ReadHas, DrainHas, Submitted
<1>6. CASE WriteMatch(w)
  <2>1. PICK i \in 1..Len(ioctl_q), st \in WriteStatuses :
          /\ irp' = [irp EXCEPT ![ioctl_q[i]].routine = FALSE]
          /\ ioctl_q' = RemoveAt(ioctl_q, i)
          /\ writer' = [writer EXCEPT ![w].pc = "finish_urb", ![w].urb = ioctl_q[i],
                                      ![w].status = st]
    BY <1>6 DEF WriteMatch
  <2>2. PICK u \in Urbs : u = ioctl_q[i] /\ u \in Queued /\ Queued' = Queued \ {u}
    BY <1>1, <2>1, ListLoses
  <2>3. writer[w].pc = "search" /\ writer'[w].pc = "finish_urb" /\ writer'[w].urb = u
    BY <1>1, <1>6, <2>1, <2>2 DEF WriteMatch, TypeOK, WriterState
  <2>4. \A v \in Urbs : irp'[v].cancel = irp[v].cancel /\ irp'[v].completions = irp[v].completions
    BY <1>1, <2>1 DEF TypeOK, Irp
  <2>5. Tame' = Tame /\ Finished' = Finished
    BY <2>4 DEF Tame, Finished, Completed
  <2>6. \A v \in Tame' \ {u} : SameParty(v)
    BY <1>1, <1>2, <1>4, <2>2, <2>3, <2>4 DEF SameParty, WriteOwns, Tame
  <2>7. ASSUME u \in Tame PROVE OneParty(u)' /\ PartyOnce(u)'
    <3>1. OneParty(u) /\ PartyOnce(u)
      BY <1>1, <2>7 DEF TameInv
    <3>2. u \notin WriteHas /\ u \in WriteHas'
      BY <2>2, <2>3, <3>1 DEF OneParty, WriteHas, WriteOwns
    <3>3. OneParty(u)'
      BY <1>5, <2>2, <2>5, <3>1, <3>2 DEF OneParty
    <3>4. PartyOnce(u)'
      BY <1>1, <1>4, <2>2, <2>4, <3>1, <3>2 DEF PartyOnce, WriteHas
    <3> QED
      BY <3>3, <3>4
  <2> QED
    BY <1>1, <2>2, <2>5, <2>6, <2>7, TamePasses
<1>7. CASE WriteFinishUrb(w)
  <2>1. PICK u \in Urbs : writer[w].pc = "finish_urb" /\ writer[w].urb = u
    BY <1>1, <1>7 DEF WriteFinishUrb, WriterState, GivenInv
  <2>2. writer'[w].pc = "idle" /\ UNCHANGED ioctl_q /\ Complete(u, writer[w].status)
    BY <1>1, <1>7, <2>1 DEF WriteFinishUrb, IdleWriter, TypeOK
  <2>3. /\ WriteOwns(w, u) /\ \A v \in Urbs \ {u} : ~WriteOwns(w, v)
        /\ \A v : ~WriteOwns(w, v)'
    BY <2>1, <2>2 DEF WriteOwns
  <2>4. /\ Tame' = Tame /\ u \in Finished'
        /\ \A v \in Urbs \ {u} : irp'[v] = irp[v]
        /\ u \notin Finished => irp'[u].completions <= 1
    BY <1>1, <2>1, <2>2, CompleteMeans
  <2>5. Queued' = Queued
    BY <2>2 DEF Queued
  <2>6. \A v \in Tame' \ {u} : SameParty(v)
    BY <1>1, <1>4, <2>3, <2>4, <2>5 DEF SameParty, Tame
  <2>7. ASSUME u \in Tame PROVE OneParty(u)' /\ PartyOnce(u)'
    <3>1. OneParty(u) /\ PartyOnce(u)
      BY <1>1, <2>7 DEF TameInv
    <3>2. u \in WriteHas /\ u \notin WriteHas' /\ u \notin Finished
      BY <1>4, <2>1, <2>3, <3>1 DEF OneParty, PartyOnce, WriteHas
    <3>3. OneParty(u)'
      BY <1>5, <2>4, <2>5, <3>1, <3>2 DEF OneParty
    <3>4. PartyOnce(u)'
      BY <1>1, <1>4, <2>3, <2>4, <3>1, <3>2 DEF PartyOnce
    <3> QED
      BY <3>3, <3>4
  <2> QED
    BY <1>1, <2>1, <2>4, <2>6, <2>7, TamePasses
<1>8. CASE ~WriteMatch(w) /\ ~WriteFinishUrb(w)
  <2>1. /\ writer[w].pc # "finish_urb" /\ writer'[w].pc # "finish_urb"
        /\ UNCHANGED <<irp, ioctl_q>>
    <3>1. ASSUME NEW s, NEW r, StartWrite(w, s, r) PROVE <2>1
      BY <1>1, <3>1 DEF StartWrite, TypeOK, WriterState
    <3>2. CASE WriteNoMatch(w)
      BY <1>1, <3>2 DEF WriteNoMatch, IdleWriter, TypeOK
    <3> QED
      BY <1>8, <3>1, <3>2 DEF Write, WriteReply, WriteStray
  <2>2. \A v : WriteOwns(w, v)' <=> WriteOwns(w, v)
    BY <2>1 DEF WriteOwns
  <2>3. \A v \in Tame' : SameParty(v)
    BY <1>1, <1>4, <2>1, <2>2 DEF SameParty, Queued
  <2> QED
    BY <1>1, <2>1, <2>3, TameKept DEF Tame
<1> QED
  BY <1>6, <1>7, <1>8

\* A thread that drains has the URB that it took off the list, until it has completed it.
LEMMA UnplugTame ==
  ASSUME UnplugInv, NEW p \in Unpluggers, UnplugMark(p) \/ UnplugStep(p)
  PROVE  TameInv'
<1>1. /\ TypeOK /\ UnplugTypeOK /\ TameInv /\ ListInv /\ GivenInv
      /\ \A q \in Reads : reader[q] \in ReaderState
      /\ ioctl_q \in Seq(Urbs)
  BY UnplugElements, Elements DEF UnplugInv, BaseInv, TypeOK
<1>2. UNCHANGED <<dispatch, canceller, writer>>
  BY DEF UnplugMark, UnplugStep, UnplugTakeRead, UnplugFinishRead, DrainBegin, DrainTake,
     DrainFinishUrb, DrainEnd, vars
<1>3. \A q \in Unpluggers \ {p} : unplugger'[q] = unplugger[q]
  BY <1>1, GoesOnMeans DEF UnplugMark, UnplugStep, UnplugTakeRead, UnplugFinishRead,
     DrainBegin, DrainTake, DrainFinishUrb, DrainEnd
<1>4. \A r \in Reads : \/ reader'[r] = reader[r]
                       \/ reader'[r].pc # "finish_urb" /\ reader[r].pc # "finish_urb"
  <2>1. CASE UnplugFinishRead(p)
    BY <1>1, <2>1 DEF UnplugFinishRead, AtUnplug, TypeOK, ReaderState, GivenInv, GivenPcs
  <2>2. CASE ~UnplugFinishRead(p)
    BY <2>2 DEF UnplugMark, UnplugStep, UnplugTakeRead, DrainBegin, DrainTake, DrainFinishUrb,
       DrainEnd, vars
  <2> QED
    BY <2>1, <2>2
<1>5. /\ \A v : DispatchOwns(v)' <=> DispatchOwns(v)
      /\ \A q \in Reads : \A v : ReadOwns(q, v)' <=> ReadOwns(q, v)
      /\ \A x \in Writers : \A v : WriteOwns(x, v)' <=> WriteOwns(x, v)
      /\ \A q \in Unpluggers \ {p} : \A v : DrainOwns(q, v)' <=> DrainOwns(q, v)
  BY <1>2, <1>3, <1>4 DEF DispatchOwns, WriteOwns, DrainOwns, ReadOwns
<1>6. UNCHANGED <<DispatchHas, ReadHas, WriteHas, Submitted>>
  BY <1>2, <1>5 DEF DispatchHas, ReadHas, WriteHas, Submitted
<1>7. CASE DrainTake(p)
  <2>1. /\ 1 \in 1..Len(ioctl_q) /\ Head(ioctl_q) = ioctl_q[1]
        /\ ioctl_q' = RemoveAt(ioctl_q, 1)
    BY <1>1, <1>7, TailRemoves DEF DrainTake
  <2>2. PICK u \in Urbs : u = Head(ioctl_q) /\ u \in Queued /\ Queued' = Queued \ {u}
    BY <1>1, <1>2, <2>1, ListLoses
  <2>3. /\ unplugger[p].pc = "drain" /\ unplugger'[p].pc = "finish_urb"
        /\ unplugger'[p].irp = u
    BY <1>1, <1>7, <2>2, GoesOnMeans DEF DrainTake, AtUnplug
  <2>4. Tame' = Tame /\ Finished' = Finished /\ UNCHANGED irp
    BY <1>7 DEF DrainTake, Tame, Finished, Completed
  <2>5. \A v \in Tame' \ {u} : SameParty(v)
    BY <1>2, <1>5, <2>2, <2>3, <2>4 DEF SameParty, DrainOwns, Tame
  <2>6. ASSUME u \in Tame PROVE OneParty(u)' /\ PartyOnce(u)'
    <3>1. OneParty(u) /\ PartyOnce(u)
      BY <1>1, <2>6 DEF TameInv
    <3>2. u \notin DrainHas /\ u \in DrainHas'
      BY <2>2, <2>3, <3>1 DEF OneParty, DrainHas, DrainOwns
    <3>3. OneParty(u)'
      BY <1>6, <2>2, <2>4, <3>1, <3>2 DEF OneParty
    <3>4. PartyOnce(u)'
      BY <1>2, <1>5, <2>2, <2>4, <3>1, <3>2 DEF PartyOnce, DrainHas
    <3> QED
      BY <3>3, <3>4
  <2> QED
    BY <1>1, <2>2, <2>4, <2>5, <2>6, TamePasses
<1>8. CASE DrainFinishUrb(p)
  <2>1. PICK u \in Urbs : unplugger[p].pc = "finish_urb" /\ unplugger[p].irp = u
    BY <1>1, <1>8 DEF DrainFinishUrb, AtUnplug, GivenInv
  <2>2. unplugger'[p].pc = "drain" /\ UNCHANGED ioctl_q /\ Complete(u, "NOT_CONNECTED")
    BY <1>1, <1>8, <2>1, GoesOnMeans DEF DrainFinishUrb
  <2>3. /\ DrainOwns(p, u) /\ \A v \in Urbs \ {u} : ~DrainOwns(p, v)
        /\ \A v : ~DrainOwns(p, v)'
    BY <2>1, <2>2 DEF DrainOwns
  <2>4. /\ Tame' = Tame /\ u \in Finished'
        /\ \A v \in Urbs \ {u} : irp'[v] = irp[v]
        /\ u \notin Finished => irp'[u].completions <= 1
    BY <1>1, <2>1, <2>2, CompleteMeans
  <2>5. Queued' = Queued
    BY <2>2 DEF Queued
  <2>6. \A v \in Tame' \ {u} : SameParty(v)
    BY <1>2, <1>5, <2>3, <2>4, <2>5 DEF SameParty, Tame
  <2>7. ASSUME u \in Tame PROVE OneParty(u)' /\ PartyOnce(u)'
    <3>1. OneParty(u) /\ PartyOnce(u)
      BY <1>1, <2>7 DEF TameInv
    <3>2. u \in DrainHas /\ u \notin DrainHas' /\ u \notin Finished
      BY <1>5, <2>1, <2>3, <3>1 DEF OneParty, PartyOnce, DrainHas
    <3>3. OneParty(u)'
      BY <1>6, <2>4, <2>5, <3>1, <3>2 DEF OneParty
    <3>4. PartyOnce(u)'
      BY <1>2, <1>5, <2>3, <2>4, <3>1, <3>2 DEF PartyOnce
    <3> QED
      BY <3>3, <3>4
  <2> QED
    BY <1>1, <2>1, <2>4, <2>6, <2>7, TamePasses
<1>9. CASE ~DrainTake(p) /\ ~DrainFinishUrb(p)
  <2>1. UNCHANGED <<irp, ioctl_q>>
    BY <1>9 DEF UnplugMark, UnplugStep, UnplugTakeRead, UnplugFinishRead, DrainBegin, DrainEnd, vars
  <2>2. unplugger[p].pc # "finish_urb" /\ unplugger'[p].pc # "finish_urb"
    BY <1>1, <1>9, GoesOnMeans DEF UnplugMark, UnplugStep, UnplugTakeRead, UnplugFinishRead,
       DrainBegin, DrainEnd, AtUnplug
  <2>3. \A v : DrainOwns(p, v)' <=> DrainOwns(p, v)
    BY <2>2 DEF DrainOwns
  <2>4. \A v \in Tame' : SameParty(v)
    BY <1>2, <1>5, <2>1, <2>3 DEF SameParty, Queued
  <2> QED
    BY <1>1, <2>1, <2>4, TameKept DEF Tame
<1> QED
  BY <1>7, <1>8, <1>9

\* A step that leaves the queue and the threads as they are.
LEMMA IdleTame ==
  ASSUME TameInv, UNCHANGED <<vars, unplugger>>
  PROVE  TameInv'
<1>1. Tame' = Tame
  BY DEF vars, Tame
<1>2. \A v \in Tame' : SameParty(v)
  BY DEF vars, SameParty, DispatchOwns, ReadOwns, WriteOwns, DrainOwns, Queued
<1> QED
  BY <1>1, <1>2, TameKept

\* The invariant holds at first.
LEMMA UnpluggedInit == UnplugInit => UnplugInv
<1> SUFFICES ASSUME UnplugInit PROVE UnplugInv
  OBVIOUS
<1>1. TypeOK /\ IInv /\ Init
  BY TypeInit, InvariantInit DEF UnplugInit
<1>2. /\ unplugger = [p \in Unpluggers |-> [pc |-> "idle", irp |-> NULL]] /\ destroyed = FALSE
  BY DEF UnplugInit
<1>3. UnplugTypeOK
  BY <1>1, <1>2 DEF UnplugTypeOK
<1>4. Queued = {} /\ Distinct(ioctl_q)
  BY <1>1 DEF Init, Queued, ToSet, Distinct
<1>5. DispatchInv /\ GivenInv /\ ListInv
  BY <1>1, <1>2, <1>4 DEF Init, IdleWriter, IInv, Rest, GivenInv, ListInv
<1>6. /\ DispatchHas = {} /\ ReadHas = {} /\ WriteHas = {} /\ DrainHas = {} /\ Finished = {}
      /\ Submitted = {}
  BY <1>1, <1>2 DEF Init, IdleWriter, DispatchHas, DispatchOwns, ReadHas, ReadOwns, WriteHas,
     WriteOwns, DrainHas, DrainOwns, Finished, Completed, Submitted
<1>7. \A u \in Urbs : OneParty(u)
  BY <1>4, <1>6 DEF OneParty
<1>8. \A u \in Urbs : PartyOnce(u)
  BY <1>1, <1>2 DEF Init, IdleWriter, PartyOnce, ReadOwns, WriteOwns, DrainOwns
<1> QED
  BY <1>3, <1>5, <1>7, <1>8 DEF UnplugInv, BaseInv, TameInv, Tame

\* Every step keeps the invariant.
LEMMA UnpluggedStep == UnplugInv /\ [UnplugNext]_allVars => UnplugInv'
<1> SUFFICES ASSUME UnplugInv, [UnplugNext]_allVars PROVE BaseInv' /\ TameInv'
  BY DEF UnplugInv
<1>1. BaseInv'
  BY BaseStep DEF UnplugInv
<1>2. ASSUME QueueStep PROVE TameInv'
  BY <1>2, DispatchTame, CancelTame, ReadTame, WriteTame DEF QueueStep, Next
<1>3. ASSUME NEW p \in Unpluggers, UnplugMark(p) \/ UnplugStep(p) PROVE TameInv'
  BY <1>3, UnplugTame
<1>4. ASSUME Destroy \/ UNCHANGED allVars PROVE TameInv'
  BY <1>4, IdleTame DEF Destroy, allVars, unplugVars, UnplugInv
<1> QED
  BY <1>1, <1>2, <1>3, <1>4 DEF UnplugNext

\* The invariant implies OneOwnerUnlessCancelled.
LEMMA OneTameOwner == UnplugInv => OneOwnerUnlessCancelled
<1> SUFFICES ASSUME UnplugInv, NEW u \in Urbs, ~irp[u].cancel
             PROVE  LET owners == Owners(u) \cup {<<"drain", p>> : p \in {q \in Unpluggers : DrainOwns(q, u)}}
                    IN  IF dispatch[u].pc = "new" \/ Completed(u)
                        THEN owners = {} /\ irp[u].completions <= 1
                        ELSE \E o \in owners : owners = {o}
  BY DEF OneOwnerUnlessCancelled
<1> DEFINE positions == {j \in 1..Len(ioctl_q) : ioctl_q[j] = u}
           reads == {r \in Reads : ReadOwns(r, u)}
           writes == {w \in Writers : WriteOwns(w, u)}
           drains == {q \in Unpluggers : DrainOwns(q, u)}
           owners == Owners(u) \cup {<<"drain", p>> : p \in drains}
<1>1. OneParty(u) /\ PartyOnce(u) /\ Distinct(ioctl_q)
  BY DEF UnplugInv, BaseInv, ListInv, TameInv, Tame
<1>2. /\ DispatchOwns(u) <=> u \in DispatchHas
      /\ positions # {} <=> u \in Queued
      /\ reads # {} <=> u \in ReadHas
      /\ writes # {} <=> u \in WriteHas
      /\ drains # {} <=> u \in DrainHas
      /\ Completed(u) <=> u \in Finished
      /\ dispatch[u].pc = "new" <=> u \notin Submitted
  BY DEF DispatchHas, Queued, ToSet, ReadHas, WriteHas, DrainHas, Finished, Submitted
<1>3. /\ ~CancelOwns(u)
      /\ irp[u].completions <= 1
      /\ \A i, j \in positions : i = j
      /\ \A q, r \in reads : q = r
      /\ \A v, w \in writes : v = w
      /\ \A p, q \in drains : p = q
  BY <1>1 DEF PartyOnce, CancelOwns, Distinct
<1>4. owners = {o \in {<<"dispatch", u>>} : u \in DispatchHas}
                 \cup {<<"queue", i>> : i \in positions}
                 \cup {<<"read", r>> : r \in reads}
                 \cup {<<"write", w>> : w \in writes}
                 \cup {<<"drain", p>> : p \in drains}
  BY <1>2, <1>3 DEF Owners
<1> SUFFICES IF u \notin Submitted \/ u \in Finished THEN owners = {} ELSE \E o \in owners : owners = {o}
  BY <1>2, <1>3
<1> HIDE DEF positions, reads, writes, drains, owners
<1>5. /\ u \in DispatchHas => positions = {} /\ reads = {} /\ writes = {} /\ drains = {}
      /\ positions # {} => reads = {} /\ writes = {} /\ drains = {}
      /\ reads # {} => writes = {} /\ drains = {}
      /\ writes # {} => drains = {}
  BY <1>1, <1>2 DEF OneParty
<1>6. CASE u \notin Submitted \/ u \in Finished
  <2>1. u \notin DispatchHas /\ positions = {} /\ reads = {} /\ writes = {} /\ drains = {}
    BY <1>1, <1>2, <1>6 DEF OneParty
  <2> QED
    BY <1>4, <1>6, <2>1
<1>7. CASE ~(u \notin Submitted \/ u \in Finished)
  <2>1. u \in DispatchHas \/ positions # {} \/ reads # {} \/ writes # {} \/ drains # {}
    BY <1>1, <1>2, <1>7 DEF OneParty
  <2>2. CASE u \in DispatchHas
    <3>1. owners = {<<"dispatch", u>>}
      BY <1>4, <1>5, <2>2
    <3> QED
      BY <1>7, <3>1
  <2>3. CASE positions # {}
    <3>1. PICK i \in positions : positions = {i}
      BY <1>3, <2>3
    <3>2. u \notin DispatchHas
      BY <1>5, <2>3
    <3>3. owners = {<<"queue", i>>}
      BY <1>4, <1>5, <2>3, <3>1, <3>2
    <3> QED
      BY <1>7, <3>3
  <2>4. CASE reads # {}
    <3>1. PICK r \in reads : reads = {r}
      BY <1>3, <2>4
    <3>2. u \notin DispatchHas /\ positions = {}
      BY <1>5, <2>4
    <3>3. owners = {<<"read", r>>}
      BY <1>4, <1>5, <2>4, <3>1, <3>2
    <3> QED
      BY <1>7, <3>3
  <2>5. CASE writes # {}
    <3>1. PICK w \in writes : writes = {w}
      BY <1>3, <2>5
    <3>2. u \notin DispatchHas /\ positions = {} /\ reads = {}
      BY <1>5, <2>5
    <3>3. owners = {<<"write", w>>}
      BY <1>4, <1>5, <2>5, <3>1, <3>2
    <3> QED
      BY <1>7, <3>3
  <2>6. CASE drains # {}
    <3>1. PICK p \in drains : drains = {p}
      BY <1>3, <2>6
    <3>2. u \notin DispatchHas /\ positions = {} /\ reads = {} /\ writes = {}
      BY <1>5, <2>6
    <3>3. owners = {<<"drain", p>>}
      BY <1>4, <3>1, <3>2
    <3> QED
      BY <1>7, <3>3
  <2> QED
    BY <2>1, <2>2, <2>3, <2>4, <2>5, <2>6
<1> QED
  BY <1>6, <1>7

\* While its device is unplugged and destroyed, a URB that nobody asked to cancel keeps
\* one party bound to complete it until it is completed, once: complete_pending_irp, the
\* tool's read and answer and the submitting thread exclude each other on the list
\* although the drain leaves the cancel routine where it is.
THEOREM UnplugLeavesOneOwner == UnplugSpec => []OneOwnerUnlessCancelled
  BY UnpluggedInit, UnpluggedStep, OneTameOwner, PTL DEF UnplugSpec

=============================================================================
