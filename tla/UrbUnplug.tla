----------------------------- MODULE UrbUnplug -----------------------------
(***************************************************************************)
(* The URB queue while its device is unplugged and removed: UrbQueue       *)
(* composed with bus_unplug_dev, which marks the device as gone, completes *)
(* the tool's waiting read and drains the list (complete_pending_irp), and *)
(* with the Bus_DestroyPdo of the removal that follows (Client/usbip/      *)
(* pnp.c).  The unplug may come from the IOCTL or from Bus_Cleanup when    *)
(* the tool's handle is closed; fdodata->Mutex keeps two of them apart.    *)
(***************************************************************************)
EXTENDS UrbQueue

CONSTANT Unpluggers  \* threads that call bus_unplug_dev, once each

VARIABLES
  unplugger,  \* each thread in bus_unplug_dev, with the IRP it is completing
  destroyed   \* Bus_DestroyPdo has run

unplugVars == <<unplugger, destroyed>>
allVars == <<vars, unplugVars>>

AtUnplug(p, pc) == unplugger[p].pc = pc

\* fdodata->Mutex is held from the mark to the end of complete_pending_read_irp, and
\* again for the drain; it is free between the two loops of bus_unplug_dev.
MutexFree == \A p \in Unpluggers : unplugger[p].pc \in {"idle", "marked", "over"}

GoesOn(p, pc, i) == unplugger' = [unplugger EXCEPT ![p] = [pc |-> pc, irp |-> i]]

UnplugInit ==
  /\ Init
  /\ unplugger = [p \in Unpluggers |-> [pc |-> "idle", irp |-> NULL]]
  /\ destroyed = FALSE

\* bus_unplug_dev marks the device; handlers that test Present refuse from now on.
UnplugMark(p) ==
  /\ AtUnplug(p, "idle")
  /\ MutexFree
  /\ ~destroyed
  /\ Present' = FALSE
  /\ GoesOn(p, "take_read", NULL)
  /\ UNCHANGED <<ioctl_q, q_lock, seq_num, pending_read_irp, urb_req, irp, dispatch,
                 canceller, reader, writer, ahead, destroyed>>

\* complete_pending_read_irp takes the waiting read, if any.
UnplugTakeRead(p) ==
  /\ AtUnplug(p, "take_read")
  /\ LockFree
  /\ pending_read_irp' = NULL
  /\ IF ReaderWaits THEN GoesOn(p, "finish_read", pending_read_irp)
                    ELSE GoesOn(p, "marked", NULL)
  /\ UNCHANGED <<Present, ioctl_q, q_lock, seq_num, urb_req, irp, dispatch, canceller,
                 reader, writer, ahead, destroyed>>

UnplugFinishRead(p) ==
  /\ AtUnplug(p, "finish_read")
  /\ reader' = [reader EXCEPT ![unplugger[p].irp].pc = "done",
                              ![unplugger[p].irp].status = "NOT_CONNECTED"]
  /\ GoesOn(p, "marked", NULL)
  /\ UNCHANGED <<Present, ioctl_q, q_lock, seq_num, pending_read_irp, urb_req, irp,
                 dispatch, canceller, writer, ahead, destroyed>>

\* The second loop of bus_unplug_dev, if the device is still on the bus's list.
DrainBegin(p) ==
  /\ AtUnplug(p, "marked")
  /\ MutexFree
  /\ GoesOn(p, IF destroyed THEN "over" ELSE "drain", NULL)
  /\ UNCHANGED <<vars, destroyed>>

\* Faulty variant: the head of the list is completed where it is.
DrainTakePeeks(p) ==
  /\ AtUnplug(p, "drain")
  /\ LockFree
  /\ ioctl_q # <<>>
  /\ GoesOn(p, "finish_urb", Head(ioctl_q))
  /\ UNCHANGED <<vars, destroyed>>

\* complete_pending_irp takes the head of the list; its cancel routine stays.
DrainTake(p) ==
  /\ AtUnplug(p, "drain")
  /\ LockFree
  /\ ioctl_q # <<>>
  /\ ioctl_q' = Tail(ioctl_q)
  /\ GoesOn(p, "finish_urb", Head(ioctl_q))
  /\ UNCHANGED <<Present, q_lock, seq_num, pending_read_irp, urb_req, irp, dispatch,
                 canceller, reader, writer, ahead, destroyed>>

DrainFinishUrb(p) ==
  /\ AtUnplug(p, "finish_urb")
  /\ Complete(unplugger[p].irp, "NOT_CONNECTED")
  /\ GoesOn(p, "drain", NULL)
  /\ UNCHANGED <<Present, ioctl_q, q_lock, seq_num, pending_read_irp, urb_req, dispatch,
                 canceller, reader, writer, ahead, destroyed>>

\* Faulty variant: complete_pending_irp stops before the list is empty.
DrainEndEarly(p) ==
  /\ AtUnplug(p, "drain")
  /\ GoesOn(p, "over", NULL)
  /\ UNCHANGED <<vars, destroyed>>

\* complete_pending_irp finds the list empty; bus_unplug_dev is over.
DrainEnd(p) ==
  /\ AtUnplug(p, "drain")
  /\ LockFree
  /\ ioctl_q = <<>>
  /\ GoesOn(p, "over", NULL)
  /\ UNCHANGED <<vars, destroyed>>

\* IRP_MN_REMOVE_DEVICE of the missing device, under the Mutex: its function driver
\* has got all its URBs back, Bus_DestroyPdo frees the PDO and detaches it from the
\* tool's handle.
Destroy ==
  /\ ~destroyed
  /\ ~Present
  /\ MutexFree
  /\ \A u \in Urbs : \/ dispatch[u].pc = "new"
                     \/ dispatch[u].pc = "returned" /\ Completed(u)
  /\ destroyed' = TRUE
  /\ UNCHANGED <<vars, unplugger>>

\* The function driver is gone once the device is destroyed.
QueueStep == /\ Next
             /\ destroyed => dispatch' = dispatch
             /\ UNCHANGED unplugVars

UnplugStep(p) == \/ UnplugTakeRead(p) \/ UnplugFinishRead(p) \/ DrainBegin(p)
                 \/ DrainTake(p) \/ DrainFinishUrb(p) \/ DrainEnd(p)

UnplugNext == \/ QueueStep
              \/ \E p \in Unpluggers : UnplugMark(p) \/ UnplugStep(p)
              \/ Destroy

UnplugSpec == UnplugInit /\ [][UnplugNext]_allVars

\* As in UrbQueue, a thread that is inside the driver runs to its end.
UnplugFairSpec == UnplugSpec /\ Fairness /\ \A p \in Unpluggers : WF_allVars(UnplugStep(p))

(***************************************************************************)
(* Properties.                                                             *)
(***************************************************************************)

UnplugTypeOK ==
  /\ TypeOK
  /\ unplugger \in [Unpluggers -> [pc : {"idle", "take_read", "finish_read", "marked",
                                        "drain", "finish_urb", "over"},
                                  irp : Urbs \cup Reads \cup {NULL}]]
  /\ destroyed \in BOOLEAN

DrainOwns(p, u) == unplugger[p].pc = "finish_urb" /\ unplugger[p].irp = u

\* Unplugging completes a URB a second time only if its cancellation was requested:
\* without that, the drain, the tool's answer, the tool's read and the submitting
\* thread still leave every URB exactly one party to complete it.
OneOwnerUnlessCancelled ==
  \A u \in Urbs : ~irp[u].cancel =>
    LET owners == Owners(u) \cup {<<"drain", p>> : p \in {q \in Unpluggers : DrainOwns(q, u)}} IN
    IF dispatch[u].pc = "new" \/ Completed(u)
    THEN owners = {} /\ irp[u].completions <= 1
    ELSE \E o \in owners : owners = {o}

\* Unplugging ends what it finds: a URB that is on the list before the drain has ended is
\* completed, and a read that waits when the device is unplugged comes back to the tool.
UnplugEnds ==
  /\ \A u \in Urbs :
       u \in Queued /\ (\E p \in Unpluggers :
                         unplugger[p].pc \in {"take_read", "finish_read", "marked", "drain"})
         ~> Completed(u)
  /\ \A r \in Reads :
       pending_read_irp = r /\ (\E p \in Unpluggers : AtUnplug(p, "take_read"))
         ~> reader[r].pc \in {"done", "answered"}

\* cancel_irp finds the URB it was called for on the list: busenum.c:1644 takes
\* the contrary for impossible ("Warning, why we can't found it?").
CancelFindsUrb == \A u \in Urbs : canceller[u] # "lost"

=============================================================================
