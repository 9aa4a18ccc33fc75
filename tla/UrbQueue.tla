------------------------------ MODULE UrbQueue ------------------------------
(***************************************************************************)
(* The URB queue of one USB/IP device (PDO) in the Windows virtual bus     *)
(* driver, Client/usbip/busenum.c.                                         *)
(*                                                                         *)
(* A USB function driver submits URB IRPs (Bus_Internal_IoCtl, try_addq);  *)
(* the user-mode tool takes them with read IRPs (Bus_Read,                 *)
(* process_read_irp) and answers them with write IRPs (Bus_Write,          *)
(* process_write_irp); the I/O manager may cancel a URB at any time        *)
(* (IoCancelIrp, cancel_irp).  A section under q_lock is one step, except  *)
(* in try_addq, where the I/O manager's cancellation (which takes no       *)
(* q_lock) can fall between arming the cancel routine and testing          *)
(* Irp->Cancel; there the lock is held across two steps.                   *)
(***************************************************************************)
EXTENDS Naturals, Sequences, FiniteSets, SequencesExt

CONSTANTS
  Urbs,       \* URB IRPs; each is submitted at most once
  Reads,      \* read IRPs of the tool; each is issued at most once
  Writers,    \* user-mode threads that answer URBs with writes
  NULL,
  MaxReads,   \* read IRPs the tool keeps outstanding at one time
  SeqLimit,     \* seq_num is an unsigned long: 2^32 in the program
  StraySeqs   \* numbers a confused peer may answer without having been asked

ASSUME ConstantsAssumption ==
  /\ NULL \notin Urbs \cup Reads
  /\ SeqLimit \in Nat \ {0}
  /\ StraySeqs \subseteq Nat

VARIABLES
  Present,           \* pdodata->Present
  ioctl_q,           \* pdodata->ioctl_q, the URBs of its entries in list order
  q_lock,            \* the URB whose try_addq holds q_lock between two steps
  seq_num,           \* how often pdodata->seq_num was incremented
  pending_read_irp,  \* pdodata->pending_read_irp
  urb_req,           \* the struct urb_req of each URB
  irp,               \* the URB IRPs: Cancel flag, cancel routine, completions
  dispatch,          \* Bus_Internal_IoCtl's thread for each URB, with its locals
  canceller,         \* IoCancelIrp / cancel_irp for each URB
  reader,            \* Bus_Read for each read IRP, with its outcome
  writer,            \* Bus_Write of each writer thread
  ahead              \* history: the URBs already queued when a URB was submitted

vars == <<Present, ioctl_q, q_lock, seq_num, pending_read_irp, urb_req, irp,
          dispatch, canceller, reader, writer, ahead>>

(***************************************************************************)
(* State formulae.                                                         *)
(***************************************************************************)

\* The number on the wire and in urb_r->seq_num; 0 also stands for "not sent".
Wire(n) == n % SeqLimit

\* Faulty variant: only the first URB gets a number of its own.
NextSeqOnce == IF seq_num = 0 THEN 1 ELSE seq_num

\* ++(pdodata->seq_num)
NextSeq == seq_num + 1

Queued == ToSet(ioctl_q)

LockFree == q_lock = NULL

\* Faulty variant: entries that were handed out are handed out again.
UnsentAtAll == 1..Len(ioctl_q)

\* Positions of the queue whose URB was not handed to the tool.
UnsentAt == {i \in 1..Len(ioctl_q) : ~urb_req[ioctl_q[i]].send}

\* Positions of the queue whose URB goes by wire number n.
NumberedAt(n) == {i \in 1..Len(ioctl_q) : Wire(urb_req[ioctl_q[i]].seq) = n}

\* Faulty variant: the list is walked from its tail.
IsFirstFromTail(i, S) == i \in S /\ \A j \in S : j <= i

\* i is the one of the positions S that a walk down the list meets first.
IsFirst(i, S) == i \in S /\ \A j \in S : i <= j

\* Faulty variant: try_addq overlooks the read that waits.
ReaderWaitsUnseen == FALSE

ReaderWaits == pending_read_irp # NULL

Completed(u) == irp[u].completions > 0

Outstanding == {r \in Reads : reader[r].pc \notin {"idle", "done", "answered"}}

\* Faulty variant: a URB is claimed although cancel_irp may be on its way.
CanClaimAlways(u) == TRUE

\* IoSetCancelRoutine(irp, NULL) returned the routine: who took it out owns the URB.
CanClaim(u) == irp[u].routine

\* IoCompleteRequest on URB u: irp' with the completion counted.
Complete(u, st) ==
  irp' = [irp EXCEPT ![u].completions = @ + 1, ![u].status = st]

(***************************************************************************)
(* Submitting a URB: Bus_Internal_IoCtl and try_addq.                      *)
(***************************************************************************)

\* Bus_Internal_IoCtl up to the call of try_addq.  proc_urb finishes some
\* requests at once; a device that is gone answers NOT_CONNECTED.
Submit(u) ==
  /\ dispatch[u].pc = "new"
  /\ \/ /\ Present
        /\ dispatch' = [dispatch EXCEPT ![u].pc = "addq"]
     \/ /\ Present
        /\ dispatch' = [dispatch EXCEPT ![u].pc = "complete", ![u].status = "IMMEDIATE"]
     \/ /\ ~Present
        /\ dispatch' = [dispatch EXCEPT ![u].pc = "complete", ![u].status = "NOT_CONNECTED"]
  /\ ahead' = [ahead EXCEPT ![u] = {v \in Queued : dispatch[v].pc = "returned"}]
  /\ UNCHANGED <<Present, ioctl_q, q_lock, seq_num, pending_read_irp, urb_req, irp,
                 canceller, reader, writer>>

\* try_addq when the lookaside list is exhausted.
AddqNoMemory(u) ==
  /\ dispatch[u].pc = "addq"
  /\ dispatch' = [dispatch EXCEPT ![u].pc = "complete",
                                  ![u].status = "INSUFFICIENT_RESOURCES"]
  /\ UNCHANGED <<Present, ioctl_q, q_lock, seq_num, pending_read_irp, urb_req, irp,
                 canceller, reader, writer, ahead>>

\* try_addq, first section, no reader waits: take the lock, arm the routine.
AddqArm(u) ==
  /\ dispatch[u].pc = "addq"
  /\ LockFree
  /\ ~ReaderWaits
  /\ q_lock' = u
  /\ irp' = [irp EXCEPT ![u].routine = TRUE]
  /\ dispatch' = [dispatch EXCEPT ![u].pc = "armed"]
  /\ UNCHANGED <<Present, ioctl_q, seq_num, pending_read_irp, urb_req, canceller,
                 reader, writer, ahead>>

\* try_addq, first section, a reader waits: take it and a sequence number.
AddqTakeRead(u) ==
  /\ dispatch[u].pc = "addq"
  /\ LockFree
  /\ ReaderWaits
  /\ pending_read_irp' = NULL
  /\ seq_num' = NextSeq
  /\ dispatch' = [dispatch EXCEPT ![u].pc = "fill", ![u].seq = NextSeq,
                                  ![u].read = pending_read_irp]
  /\ reader' = [reader EXCEPT ![pending_read_irp].pc = "lent"]
  /\ UNCHANGED <<Present, ioctl_q, q_lock, urb_req, irp, canceller, writer, ahead>>

\* Faulty variant: the entry goes on the list as RtlZeroMemory left its number.
SentEntryZero(u) == [send |-> TRUE, seq |-> 0]

\* The entry of a URB that went straight to the waiting read.
SentEntry(u) == [send |-> TRUE, seq |-> dispatch[u].seq]

\* set_read_irp_data succeeded: second section, fill the entry, arm the routine.
AddqFilled(u) ==
  /\ dispatch[u].pc = "fill"
  /\ LockFree
  /\ q_lock' = u
  /\ urb_req' = [urb_req EXCEPT ![u] = SentEntry(u)]
  /\ irp' = [irp EXCEPT ![u].routine = TRUE]
  /\ dispatch' = [dispatch EXCEPT ![u].pc = "armed"]
  /\ UNCHANGED <<Present, ioctl_q, seq_num, pending_read_irp, canceller, reader,
                 writer, ahead>>

\* set_read_irp_data refused the URB: nothing is queued.
AddqFillFailed(u) ==
  /\ dispatch[u].pc = "fill"
  /\ dispatch' = [dispatch EXCEPT ![u].pc = "finish_read",
                                  ![u].status = "INVALID_PARAMETER"]
  /\ UNCHANGED <<Present, ioctl_q, q_lock, seq_num, pending_read_irp, urb_req, irp,
                 canceller, reader, writer, ahead>>

AfterSection(u) == IF dispatch[u].read = NULL THEN "complete" ELSE "finish_read"

\* Faulty variant: Irp->Cancel is not looked at again after the routine is armed.
MustAbortNever(u) == FALSE

\* Irp->Cancel && IoSetCancelRoutine(Irp, NULL)
MustAbort(u) == irp[u].cancel /\ CanClaim(u)

\* The end of either section: Irp->Cancel is tested, the URB is queued unless it
\* was cancelled and the routine could be taken back, and the lock is released.
AddqCancelled(u) ==
  /\ dispatch[u].pc = "armed"
  /\ MustAbort(u)
  /\ irp' = [irp EXCEPT ![u].routine = FALSE]
  /\ q_lock' = NULL
  /\ dispatch' = [dispatch EXCEPT ![u].pc = AfterSection(u), ![u].status = "CANCELLED"]
  /\ UNCHANGED <<Present, ioctl_q, seq_num, pending_read_irp, urb_req, canceller,
                 reader, writer, ahead>>

AddqInsert(u) ==
  /\ dispatch[u].pc = "armed"
  /\ ~MustAbort(u)
  /\ ioctl_q' = Append(ioctl_q, u)
  /\ q_lock' = NULL
  /\ dispatch' = [dispatch EXCEPT
       ![u].pc = IF dispatch[u].read = NULL THEN "returned" ELSE "finish_read"]
  /\ UNCHANGED <<Present, seq_num, pending_read_irp, urb_req, irp, canceller,
                 reader, writer, ahead>>

\* try_addq completes the read IRP it took, then returns its status.
AddqFinishRead(u) ==
  LET st == dispatch[u].status
  IN  /\ dispatch[u].pc = "finish_read"
      /\ reader' = [reader EXCEPT ![dispatch[u].read] =
           IF st = "INVALID_PARAMETER"
           THEN [@ EXCEPT !.pc = "done", !.status = "INVALID_PARAMETER"]
           ELSE [pc |-> "done", status |-> "SUCCESS", urb |-> u, seq |-> dispatch[u].seq]]
      /\ dispatch' = [dispatch EXCEPT
           ![u].pc = IF st = "PENDING" THEN "returned" ELSE "complete"]
      /\ UNCHANGED <<Present, ioctl_q, q_lock, seq_num, pending_read_irp, urb_req,
                     irp, canceller, writer, ahead>>

\* Bus_Internal_IoCtl completes the IRP when the status is not PENDING.
DispatchComplete(u) ==
  /\ dispatch[u].pc = "complete"
  /\ Complete(u, dispatch[u].status)
  /\ dispatch' = [dispatch EXCEPT ![u].pc = "returned"]
  /\ UNCHANGED <<Present, ioctl_q, q_lock, seq_num, pending_read_irp, urb_req,
                 canceller, reader, writer, ahead>>

(***************************************************************************)
(* Cancelling a URB: IoCancelIrp and the driver's cancel_irp.  Both hold   *)
(* the system-wide cancel spin lock, so one URB at a time.                 *)
(***************************************************************************)

CancelLockFree == \A u \in Urbs : canceller[u] \in {"none", "over"}

\* IoCancelIrp takes the cancel lock and sets Irp->Cancel.
CancelFlag(u) ==
  /\ dispatch[u].pc # "new"
  /\ canceller[u] = "none"
  /\ ~Completed(u)
  /\ CancelLockFree
  /\ irp' = [irp EXCEPT ![u].cancel = TRUE]
  /\ canceller' = [canceller EXCEPT ![u] = "flagged"]
  /\ UNCHANGED <<Present, ioctl_q, q_lock, seq_num, pending_read_irp, urb_req,
                 dispatch, reader, writer, ahead>>

\* IoCancelIrp swaps the cancel routine out and calls it if there was one.
CancelSwap(u) ==
  /\ canceller[u] = "flagged"
  /\ canceller' = [canceller EXCEPT ![u] = IF irp[u].routine THEN "called" ELSE "over"]
  /\ irp' = [irp EXCEPT ![u].routine = FALSE]
  /\ UNCHANGED <<Present, ioctl_q, q_lock, seq_num, pending_read_irp, urb_req,
                 dispatch, reader, writer, ahead>>

\* cancel_irp under q_lock: look for the entry and remove it.
CancelFound(u) ==
  /\ canceller[u] = "called"
  /\ LockFree
  /\ \E i \in 1..Len(ioctl_q) : ioctl_q[i] = u /\ ioctl_q' = RemoveAt(ioctl_q, i)
  /\ canceller' = [canceller EXCEPT ![u] = "removed"]
  /\ UNCHANGED <<Present, q_lock, seq_num, pending_read_irp, urb_req, irp, dispatch,
                 reader, writer, ahead>>

\* cancel_irp finds no entry: it warns, and goes on to complete the IRP.
CancelNotFound(u) ==
  /\ canceller[u] = "called"
  /\ LockFree
  /\ u \notin Queued
  /\ canceller' = [canceller EXCEPT ![u] = "lost"]
  /\ UNCHANGED <<Present, ioctl_q, q_lock, seq_num, pending_read_irp, urb_req, irp,
                 dispatch, reader, writer, ahead>>

\* cancel_irp's walk down the list.  Without an unplug (UrbUnplug) it always finds
\* the entry: theorem CancelAlwaysFinds of UrbQueueProofs.
CancelSearch(u) == IF u \in Queued THEN CancelFound(u) ELSE CancelNotFound(u)

\* cancel_irp completes the IRP and releases the cancel lock.
CancelComplete(u) ==
  /\ canceller[u] \in {"removed", "lost"}
  /\ Complete(u, "CANCELLED")
  /\ canceller' = [canceller EXCEPT ![u] = "over"]
  /\ UNCHANGED <<Present, ioctl_q, q_lock, seq_num, pending_read_irp, urb_req,
                 dispatch, reader, writer, ahead>>

(***************************************************************************)
(* Handing a URB to the tool: Bus_Read and process_read_irp.               *)
(***************************************************************************)

\* Bus_Read's checks, made without q_lock.
StartRead(r) ==
  /\ reader[r].pc = "idle"
  /\ Cardinality(Outstanding) < MaxReads
  /\ reader' = [reader EXCEPT ![r] =
       IF ~Present
       THEN [@ EXCEPT !.pc = "finish", !.status = "INVALID_DEVICE_REQUEST"]
       ELSE IF pending_read_irp # NULL
       THEN [@ EXCEPT !.pc = "finish", !.status = "INVALID_PARAMETER"]
       ELSE [@ EXCEPT !.pc = "process"]]
  /\ UNCHANGED <<Present, ioctl_q, q_lock, seq_num, pending_read_irp, urb_req, irp,
                 dispatch, canceller, writer, ahead>>

\* process_read_irp finds a URB that was not sent; set_read_irp_data succeeds,
\* or fails while cancel_irp is on its way and will complete the URB.
ReadTake(r) ==
  /\ reader[r].pc = "process"
  /\ LockFree
  /\ \E i \in 1..Len(ioctl_q), ok \in BOOLEAN :
       LET u == ioctl_q[i] IN
       /\ IsFirst(i, UnsentAt)
       /\ ok \/ ~CanClaim(u)
       /\ urb_req' = [urb_req EXCEPT ![u] = [send |-> TRUE, seq |-> NextSeq]]
       /\ reader' = [reader EXCEPT ![r] =
            IF ok THEN [pc |-> "finish", status |-> "SUCCESS", urb |-> u, seq |-> NextSeq]
                  ELSE [@ EXCEPT !.pc = "finish", !.status = "INVALID_PARAMETER"]]
  /\ seq_num' = NextSeq
  /\ UNCHANGED <<Present, ioctl_q, q_lock, pending_read_irp, irp, dispatch, canceller,
                 writer, ahead>>

\* set_read_irp_data fails and the cancel routine is taken back: the URB leaves
\* the queue and this thread must complete it.
ReadReject(r) ==
  /\ reader[r].pc = "process"
  /\ LockFree
  /\ \E i \in 1..Len(ioctl_q) :
       LET u == ioctl_q[i] IN
       /\ IsFirst(i, UnsentAt)
       /\ CanClaim(u)
       /\ irp' = [irp EXCEPT ![u].routine = FALSE]
       /\ urb_req' = [urb_req EXCEPT ![u] = [send |-> TRUE, seq |-> NextSeq]]
       /\ ioctl_q' = RemoveAt(ioctl_q, i)
       /\ reader' = [reader EXCEPT ![r].pc = "finish_urb", ![r].urb = u,
                                   ![r].status = "INVALID_PARAMETER"]
  /\ seq_num' = NextSeq
  /\ UNCHANGED <<Present, q_lock, pending_read_irp, dispatch, canceller, writer, ahead>>

\* process_read_irp finds nothing to send: the read waits, unless another one does.
ReadPark(r) ==
  /\ reader[r].pc = "process"
  /\ LockFree
  /\ UnsentAt = {}
  /\ IF pending_read_irp = NULL
     THEN /\ pending_read_irp' = r
          /\ reader' = [reader EXCEPT ![r].pc = "parked"]
     ELSE /\ reader' = [reader EXCEPT ![r].pc = "finish",
                                      ![r].status = "INVALID_DEVICE_REQUEST"]
          /\ UNCHANGED pending_read_irp
  /\ UNCHANGED <<Present, ioctl_q, q_lock, seq_num, urb_req, irp, dispatch, canceller,
                 writer, ahead>>

\* process_read_irp completes the URB it rejected.
ReadFinishUrb(r) ==
  /\ reader[r].pc = "finish_urb"
  /\ Complete(reader[r].urb, "INVALID_PARAMETER")
  /\ reader' = [reader EXCEPT ![r].pc = "finish", ![r].urb = NULL]
  /\ UNCHANGED <<Present, ioctl_q, q_lock, seq_num, pending_read_irp, urb_req,
                 dispatch, canceller, writer, ahead>>

\* Bus_Read completes the read IRP; the tool now sees what it holds.
FinishRead(r) ==
  /\ reader[r].pc = "finish"
  /\ reader' = [reader EXCEPT ![r].pc = "done"]
  /\ UNCHANGED <<Present, ioctl_q, q_lock, seq_num, pending_read_irp, urb_req, irp,
                 dispatch, canceller, writer, ahead>>

(***************************************************************************)
(* Answering a URB: Bus_Write and process_write_irp.                       *)
(***************************************************************************)

WriteStatuses == {"SUCCESS", "INVALID_PARAMETER"}

\* Bus_Write's check, made without q_lock, of a write that carries wire number s.
StartWrite(w, s, r) ==
  /\ writer[w].pc = "idle"
  /\ writer' = IF Present
               THEN [writer EXCEPT ![w] = [@ EXCEPT !.pc = "search", !.wire = s, !.read = r]]
               ELSE writer
  /\ UNCHANGED <<Present, ioctl_q, q_lock, seq_num, pending_read_irp, urb_req, irp,
                 dispatch, canceller, ahead>>

\* The answer to a URB the tool got from read IRP r.
WriteReply(w, r) ==
  /\ reader[r].pc = "done" /\ reader[r].status = "SUCCESS"
  /\ StartWrite(w, Wire(reader[r].seq), r)
  /\ reader' = [reader EXCEPT ![r].pc = "answered"]

\* An answer with a number that was not asked for.
WriteStray(w, s) ==
  /\ StartWrite(w, Wire(s), NULL)
  /\ UNCHANGED reader

IdleWriter == [pc |-> "idle", urb |-> NULL, status |-> "PENDING", read |-> NULL, wire |-> 0]

\* process_write_irp under q_lock: the entry with the number leaves the queue if
\* its cancel routine can be taken.  Many checks of the answer decide the status;
\* what fails them is answered INVALID_PARAMETER (or a status of no other
\* consequence), and so is a URB that was not sent.
WriteMatch(w) ==
  LET found == NumberedAt(writer[w].wire)
  IN  /\ writer[w].pc = "search"
      /\ LockFree
      /\ \E i \in 1..Len(ioctl_q), st \in WriteStatuses :
           LET u == ioctl_q[i] IN
           /\ IsFirst(i, found)
           /\ CanClaim(u)
           /\ urb_req[u].send \/ st = "INVALID_PARAMETER"
           /\ irp' = [irp EXCEPT ![u].routine = FALSE]
           /\ ioctl_q' = RemoveAt(ioctl_q, i)
           /\ writer' = [writer EXCEPT ![w].pc = "finish_urb", ![w].urb = u, ![w].status = st]
      /\ UNCHANGED <<Present, q_lock, seq_num, pending_read_irp, urb_req, dispatch,
                     canceller, reader, ahead>>

\* No such entry, or cancel_irp has it: the answer is dropped, with success.
WriteNoMatch(w) ==
  LET found == NumberedAt(writer[w].wire)
  IN  /\ writer[w].pc = "search"
      /\ LockFree
      /\ \A i \in 1..Len(ioctl_q) : IsFirst(i, found) => ~CanClaim(ioctl_q[i])
      /\ writer' = [writer EXCEPT ![w] = IdleWriter]
      /\ UNCHANGED <<Present, ioctl_q, q_lock, seq_num, pending_read_irp, urb_req, irp,
                     dispatch, canceller, reader, ahead>>

\* process_write_irp completes the URB it removed.
WriteFinishUrb(w) ==
  /\ writer[w].pc = "finish_urb"
  /\ Complete(writer[w].urb, writer[w].status)
  /\ writer' = [writer EXCEPT ![w] = IdleWriter]
  /\ UNCHANGED <<Present, ioctl_q, q_lock, seq_num, pending_read_irp, urb_req,
                 dispatch, canceller, reader, ahead>>

(***************************************************************************)
(* The specification.                                                      *)
(***************************************************************************)

Init ==
  /\ Present = TRUE
  /\ ioctl_q = <<>>
  /\ q_lock = NULL
  /\ seq_num = 0
  /\ pending_read_irp = NULL
  /\ urb_req = [u \in Urbs |-> [send |-> FALSE, seq |-> 0]]
  /\ irp = [u \in Urbs |-> [cancel |-> FALSE, routine |-> FALSE, completions |-> 0,
                            status |-> "PENDING"]]
  /\ dispatch = [u \in Urbs |-> [pc |-> "new", seq |-> 0, read |-> NULL,
                                 status |-> "PENDING"]]
  /\ canceller = [u \in Urbs |-> "none"]
  /\ reader = [r \in Reads |-> [pc |-> "idle", status |-> "PENDING", urb |-> NULL, seq |-> 0]]
  /\ writer = [w \in Writers |-> IdleWriter]
  /\ ahead = [u \in Urbs |-> {}]

Dispatch(u) == \/ Submit(u) \/ AddqNoMemory(u) \/ AddqArm(u) \/ AddqTakeRead(u)
               \/ AddqFilled(u) \/ AddqFillFailed(u) \/ AddqCancelled(u)
               \/ AddqInsert(u) \/ AddqFinishRead(u) \/ DispatchComplete(u)

Cancel(u) == \/ CancelFlag(u) \/ CancelSwap(u) \/ CancelSearch(u)
             \/ CancelComplete(u)

Read(r) == \/ StartRead(r) \/ ReadTake(r) \/ ReadReject(r) \/ ReadPark(r)
           \/ ReadFinishUrb(r) \/ FinishRead(r)

Write(w) == \/ \E r \in Reads : WriteReply(w, r)
            \/ \E s \in StraySeqs : WriteStray(w, s)
            \/ WriteMatch(w) \/ WriteNoMatch(w) \/ WriteFinishUrb(w)

Next == \/ \E u \in Urbs : Dispatch(u) \/ Cancel(u)
        \/ \E r \in Reads : Read(r)
        \/ \E w \in Writers : Write(w)

Spec == Init /\ [][Next]_vars

\* Code that has started runs to its end: a thread inside the driver or inside
\* IoCancelIrp is scheduled, and a spin lock is released by code that is running.
\* Nothing makes a caller submit, cancel, read or write.
Fairness ==
  /\ \A u \in Urbs : /\ WF_vars(AddqArm(u) \/ AddqTakeRead(u))
                     /\ WF_vars(AddqFilled(u) \/ AddqFillFailed(u))
                     /\ WF_vars(AddqCancelled(u) \/ AddqInsert(u))
                     /\ WF_vars(AddqFinishRead(u) \/ DispatchComplete(u))
                     /\ WF_vars(CancelSwap(u))
                     /\ WF_vars(CancelSearch(u))
                     /\ WF_vars(CancelComplete(u))
  /\ \A r \in Reads : WF_vars(ReadTake(r) \/ ReadReject(r) \/ ReadPark(r)
                              \/ ReadFinishUrb(r) \/ FinishRead(r))
  /\ \A w \in Writers : WF_vars(WriteMatch(w) \/ WriteNoMatch(w) \/ WriteFinishUrb(w))

FairSpec == Spec /\ Fairness

(***************************************************************************)
(* Properties.                                                             *)
(***************************************************************************)

Statuses == {"PENDING", "SUCCESS", "IMMEDIATE", "NOT_CONNECTED", "CANCELLED",
             "INSUFFICIENT_RESOURCES", "INVALID_PARAMETER", "INVALID_DEVICE_REQUEST"}

DispatchPcs == {"new", "addq", "armed", "fill", "finish_read", "complete", "returned"}
CancellerStates == {"none", "flagged", "called", "removed", "lost", "over"}
ReaderPcs == {"idle", "process", "parked", "lent", "finish_urb", "finish", "done", "answered"}
WriterPcs == {"idle", "search", "finish_urb"}

UrbReq == [send : BOOLEAN, seq : Nat]
Irp == [cancel : BOOLEAN, routine : BOOLEAN, completions : Nat, status : Statuses]
DispatchState == [pc : DispatchPcs, seq : Nat, read : Reads \cup {NULL}, status : Statuses]
ReaderState == [pc : ReaderPcs, status : Statuses, urb : Urbs \cup {NULL}, seq : Nat]
WriterState == [pc : WriterPcs, urb : Urbs \cup {NULL}, status : Statuses,
                read : Reads \cup {NULL}, wire : Nat]

\* The type of every variable.
TypeOK ==
  /\ Present \in BOOLEAN
  /\ ioctl_q \in Seq(Urbs)
  /\ q_lock \in Urbs \cup {NULL}
  /\ seq_num \in Nat
  /\ pending_read_irp \in Reads \cup {NULL}
  /\ urb_req \in [Urbs -> UrbReq]
  /\ irp \in [Urbs -> Irp]
  /\ dispatch \in [Urbs -> DispatchState]
  /\ canceller \in [Urbs -> CancellerStates]
  /\ reader \in [Reads -> ReaderState]
  /\ writer \in [Writers -> WriterState]
  /\ ahead \in [Urbs -> SUBSET Urbs]

\* The parties that may be bound to complete URB u: the thread that submitted it,
\* the list (so that whoever takes it off is), cancel_irp, a Bus_Read, a Bus_Write.
DispatchOwns(u) == \/ dispatch[u].pc \in {"addq", "armed", "fill", "complete"}
                   \/ dispatch[u].pc = "finish_read" /\ dispatch[u].status # "PENDING"
CancelOwns(u) == canceller[u] \in {"removed", "lost"}
ReadOwns(r, u) == reader[r].pc = "finish_urb" /\ reader[r].urb = u
WriteOwns(w, u) == writer[w].pc = "finish_urb" /\ writer[w].urb = u

Owners(u) == {o \in {<<"dispatch", u>>} : DispatchOwns(u)}
        \cup {<<"queue", i>> : i \in {j \in 1..Len(ioctl_q) : ioctl_q[j] = u}}
        \cup {o \in {<<"cancel", u>>} : CancelOwns(u)}
        \cup {<<"read", r>> : r \in {q \in Reads : ReadOwns(q, u)}}
        \cup {<<"write", w>> : w \in {v \in Writers : WriteOwns(v, u)}}

\* A URB that was submitted and not completed has one party bound to complete it,
\* and a completed one has none and was completed once: no URB is forgotten and
\* none is completed twice, however the cancel routine, the reader, the writer and
\* the submitting thread interleave (busenum.c: cancel_irp, try_addq,
\* process_read_irp, process_write_irp).
ExactlyOneOwner ==
  \A u \in Urbs :
    IF dispatch[u].pc = "new" \/ Completed(u)
    THEN Owners(u) = {} /\ irp[u].completions <= 1
    ELSE \E o \in Owners(u) : Owners(u) = {o}

\* The tool's read never sleeps while a URB waits to be handed out: both try_addq
\* and process_read_irp decide under q_lock.
ReadWaitsForNothing == pending_read_irp # NULL => UnsentAt = {}

\* When the tool has been handed a URB, an answer to it cannot miss it: the entry
\* is on the list under the number the tool saw, unless somebody has claimed it.
\* try_addq inserts the entry before it completes the read.
AnswerFindsUrb ==
  \A r \in Reads :
    reader[r].pc \in {"done", "answered"} /\ reader[r].status = "SUCCESS" =>
      LET u == reader[r].urb IN
      \/ u \in Queued /\ urb_req[u] = [send |-> TRUE, seq |-> reader[r].seq]
      \/ Completed(u)
      \/ CancelOwns(u) \/ dispatch[u].status = "CANCELLED"
      \/ \E w \in Writers : WriteOwns(w, u)

\* Until the 32-bit sequence number wraps, the answer to a URB completes that URB
\* and no other one.
AnswerCompletesItsUrb ==
  seq_num < SeqLimit =>
    \A w \in Writers :
      writer[w].pc = "finish_urb" /\ writer[w].read # NULL =>
        writer[w].urb = reader[writer[w].read].urb

\* URBs get their numbers in the order they were queued: none has a number while
\* one that was already on the list when it was submitted still waits for one.
\* (A bulk pipe's data would be reordered otherwise.)
NumberedInOrder ==
  \A u \in Urbs : \A v \in ahead[u] \cap Queued :
    ~urb_req[v].send => urb_req[u].seq = 0 /\ dispatch[u].seq = 0

\* A URB the I/O manager asked to cancel is completed, whatever the tool does:
\* neither try_addq nor process_read_irp nor process_write_irp loses the request.
CancelEnds == \A u \in Urbs : irp[u].cancel ~> Completed(u)

(***************************************************************************)
(* What the queue implements.                                              *)
(***************************************************************************)

Service == INSTANCE UrbService WITH
  phase <- [u \in Urbs |-> IF Completed(u) THEN "finished"
                           ELSE IF dispatch[u].pc = "new" THEN "idle" ELSE "pending"],
  requested <- {u \in Urbs : irp[u].cancel},
  handed <- [u \in Urbs |-> {r \in Reads : /\ reader[r].pc \in {"done", "answered"}
                                           /\ reader[r].status = "SUCCESS"
                                           /\ reader[r].urb = u}],
  result <- [u \in Urbs |-> irp[u].status]

\* The queue keeps the promise of UrbService: the driver's locks and cancel
\* routines make every URB finish once, and its cancellation end.
ImplementsUrbService == Service!ServiceSpec

=============================================================================
