------------------------------- MODULE BusPnp -------------------------------
(***************************************************************************)
(* The bus FDO's list of devices (PDOs) and the PnP states of both, in the *)
(* Windows virtual bus driver (Client/usbip/pnp.c, buspdo.c, Bus_Cleanup   *)
(* of busenum.c).                                                          *)
(*                                                                         *)
(* User-mode threads plug devices in, unplug them and close their handles; *)
(* the PnP manager queries the relations, starts, stops and removes the    *)
(* devices and the bus.  A section under fdodata->Mutex is one step; where *)
(* the code holds no lock (Bus_Cleanup and Bus_DestroyPdo, which clear     *)
(* each other's pointers) each access to what both touch is a step of its  *)
(* own.  The PnP manager is external: bus, node and missing say what it    *)
(* knows, and which IRPs may follow.                                       *)
(***************************************************************************)
EXTENDS Naturals, Sequences, FiniteSets, SequencesExt

CONSTANTS
  Pdos,     \* the PDOs bus_plugin_dev can create, each once
  Handles,  \* file objects of the bus, each opened by one process
  Addrs,    \* addresses that devices are plugged in at
  Callers,  \* user-mode threads
  NULL

ASSUME BusAssumption == NULL \notin Pdos \cup Handles /\ Addrs \subseteq 1..127

VARIABLES
  fdo,         \* DevicePnPState and PreviousPnPState of the bus
  ListOfPDOs,
  NumPDOs,
  pdo,         \* the device extension of each PDO
  FsContext,   \* of each handle: the PDO plugged in through it
  closed,      \* the handles that were closed
  caller,      \* each user-mode thread inside the driver
  stale,       \* IoInvalidateDeviceRelations was called since the last query
  bus, node,   \* the PnP manager's view of the bus and of each device
  missing,     \* devices that were in an earlier relation and not in the last
  crashed      \* the machine stopped: the driver used NULL or freed memory

busVars == <<fdo, ListOfPDOs, NumPDOs, pdo, FsContext, closed, caller, stale, bus, node,
             missing, crashed>>

Listed == ToSet(ListOfPDOs)

\* Faulty variant: the previous state is not remembered.
SetStateOnly(d, s) == [d EXCEPT !.state = s]

\* SET_NEW_PNP_STATE
SetState(d, s) == [d EXCEPT !.previous = d.state, !.state = s]

\* RESTORE_PREVIOUS_PNP_STATE, if the device is in state s
RestoreFrom(d, s) == IF d.state = s THEN [d EXCEPT !.state = d.previous] ELSE d

\* A device extension before bus_plugin_dev fills it in, and after it was freed.  held is
\* the fo that Bus_DestroyPdo has tested and not cleared yet.
NoPdo == [life |-> "none", SerialNo |-> 0, fo |-> NULL, held |-> NULL, Present |-> FALSE,
          ReportedMissing |-> FALSE, ParentFdo |-> FALSE,
          state |-> "NotStarted", previous |-> "NotStarted"]

Destroyed == [NoPdo EXCEPT !.life = "deleted"]

SetPdo(p, s) == pdo' = [pdo EXCEPT ![p] = SetState(@, s)]

(***************************************************************************)
(* User-mode requests.  Each is counted, so a bus that is Deleted refuses  *)
(* it and IRP_MN_REMOVE_DEVICE waits for it.                               *)
(***************************************************************************)

IdleCaller == [pc |-> "idle", handle |-> NULL, addr |-> 0, pdo |-> NULL]

Admitted(c) == caller[c].pc = "idle" /\ fdo.state # "Deleted"

Returns(c) == caller' = [caller EXCEPT ![c] = IdleCaller]

Taken(a) == \E p \in Listed : /\ pdo[p].SerialNo = a
                              /\ pdo[p].state # "SurpriseRemovePending"

\* bus_plugin_dev looks under the Mutex whether the address is free.
PlugCheck(c, h, a) ==
  /\ Admitted(c)
  /\ h \notin closed
  /\ ~Taken(a)
  /\ caller' = [caller EXCEPT ![c] = [pc |-> "plug", handle |-> h, addr |-> a, pdo |-> NULL]]
  /\ UNCHANGED <<fdo, ListOfPDOs, NumPDOs, pdo, FsContext, closed, stale, bus, node, missing>>

\* IoCreateDevice: which of the PDOs that are not made yet is all the same.
NextPdo == CHOOSE p \in Pdos : pdo[p].life = "none"

\* Faulty variant: a handle that has a device gets another one.
PlugClaimAnyway(c) ==
  /\ caller[c].pc = "plug"
  /\ \E p \in Pdos :
       /\ pdo[p].life = "none" /\ p = NextPdo
       /\ pdo' = [pdo EXCEPT ![p].life = "made"]
       /\ FsContext' = [FsContext EXCEPT ![caller[c].handle] = p]
       /\ caller' = [caller EXCEPT ![c].pc = "insert", ![c].pdo = p]
  /\ UNCHANGED <<fdo, ListOfPDOs, NumPDOs, closed, stale, bus, node, missing>>

\* It creates the PDO and ties it to the handle by a compare-and-exchange; without
\* memory, or if the handle has a device, the PDO is deleted again.
PlugClaim(c) ==
  /\ caller[c].pc = "plug"
  /\ \/ Returns(c) /\ UNCHANGED <<pdo, FsContext>>
     \/ /\ FsContext[caller[c].handle] = NULL
        /\ \E p \in Pdos :
             /\ pdo[p].life = "none" /\ p = NextPdo
             /\ pdo' = [pdo EXCEPT ![p].life = "made"]
             /\ FsContext' = [FsContext EXCEPT ![caller[c].handle] = p]
             /\ caller' = [caller EXCEPT ![c].pc = "insert", ![c].pdo = p]
  /\ UNCHANGED <<fdo, ListOfPDOs, NumPDOs, closed, stale, bus, node, missing>>

\* It fills in the device extension, which nobody reads yet (bus_init_pdo), inserts
\* the PDO in the list and asks for a query of the relations.
PlugInsert(c) ==
  /\ caller[c].pc = "insert"
  /\ pdo' = [pdo EXCEPT ![caller[c].pdo] =
       [life |-> "there", SerialNo |-> caller[c].addr, fo |-> caller[c].handle,
        held |-> NULL, Present |-> TRUE, ReportedMissing |-> FALSE, ParentFdo |-> TRUE,
        state |-> "NotStarted", previous |-> "NotStarted"]]
  /\ ListOfPDOs' = Append(ListOfPDOs, caller[c].pdo)
  /\ NumPDOs' = NumPDOs + 1
  /\ stale' = TRUE
  /\ Returns(c)
  /\ UNCHANGED <<fdo, FsContext, closed, bus, node, missing>>

\* The PDOs that bus_unplug_dev marks: all for 0, else the first at the address.
Marked(a) ==
  LET At == {i \in 1..Len(ListOfPDOs) : pdo[ListOfPDOs[i]].SerialNo = a}
  IN IF a = 0 THEN Listed
     ELSE {ListOfPDOs[i] : i \in {j \in At : \A k \in At : j <= k}}

\* Faulty variant: the PnP manager is not told.
MarkSilently(c, a) ==
  /\ pdo' = [p \in Pdos |-> IF p \in Marked(a) THEN [pdo[p] EXCEPT !.Present = FALSE]
                                               ELSE pdo[p]]
  /\ IF Marked(a) = {} THEN Returns(c)
                       ELSE caller' = [caller EXCEPT ![c] = [IdleCaller EXCEPT !.pc = "drain"]]
  /\ UNCHANGED <<fdo, ListOfPDOs, NumPDOs, FsContext, closed, stale, bus, node, missing>>

\* bus_unplug_dev, first section.  UrbUnplug models what it does to the queue.
Mark(c, a) ==
  /\ IF NumPDOs = 0 \/ Marked(a) = {}
     THEN Returns(c) /\ UNCHANGED <<pdo, stale>>
     ELSE /\ pdo' = [p \in Pdos |-> IF p \in Marked(a) THEN [pdo[p] EXCEPT !.Present = FALSE]
                                                       ELSE pdo[p]]
          /\ stale' = TRUE
          /\ caller' = [caller EXCEPT ![c] = [IdleCaller EXCEPT !.pc = "drain"]]
  /\ UNCHANGED <<fdo, ListOfPDOs, NumPDOs, FsContext, closed, bus, node, missing>>

\* IOCTL_USBVBUS_UNPLUG_HARDWARE
Unplug(c, a) == Admitted(c) /\ Mark(c, a)

\* bus_unplug_dev, second section: every device that is not present.
UnplugDrain(c) ==
  /\ caller[c].pc = "drain"
  /\ pdo' = [p \in Pdos |-> IF p \in Listed /\ ~pdo[p].Present
                            THEN SetState(pdo[p], "PNP_DEVICE_REMOVED") ELSE pdo[p]]
  /\ Returns(c)
  /\ UNCHANGED <<fdo, ListOfPDOs, NumPDOs, FsContext, closed, stale, bus, node, missing>>

\* A device extension that Bus_DestroyPdo freed.
Freed(p) == pdo[p].life = "deleted"

\* Bus_Cleanup: the process closes its handle, with no plug-in in progress on it.  It
\* reads FsContext, and from here to its unplug it holds no lock.
Cleanup(c, h) ==
  /\ caller[c].pc = "idle"
  /\ h \notin closed
  /\ \A d \in Callers : caller[d].handle # h
  /\ closed' = closed \cup {h}
  /\ IF fdo.state = "Deleted" \/ FsContext[h] = NULL
     THEN UNCHANGED caller
     ELSE caller' = [caller EXCEPT ![c] = [pc |-> "forget", handle |-> h, addr |-> 0,
                                           pdo |-> FsContext[h]]]
  /\ UNCHANGED <<fdo, ListOfPDOs, NumPDOs, pdo, FsContext, stale, bus, node, missing>>

\* The device forgets the handle; nobody reads what is written to freed memory.
CleanupForget(c) ==
  /\ caller[c].pc = "forget"
  /\ LET p == caller[c].pdo
     IN pdo' = IF Freed(p) THEN pdo ELSE [pdo EXCEPT ![p].fo = NULL]
  /\ caller' = [caller EXCEPT ![c].pc = "clear"]
  /\ UNCHANGED <<fdo, ListOfPDOs, NumPDOs, FsContext, closed, stale, bus, node, missing>>

\* The handle forgets the device (nobody else tests the FsContext of a closed handle, so
\* the next access goes with this one), and Present is tested: anything in freed memory,
CleanupClear(c) ==
  /\ caller[c].pc = "clear"
  /\ FsContext' = [FsContext EXCEPT ![caller[c].handle] = NULL]
  /\ LET p == caller[c].pdo
     IN \/ (Freed(p) \/ pdo[p].Present) /\ caller' = [caller EXCEPT ![c].pc = "unplug"]
        \/ (Freed(p) \/ ~pdo[p].Present) /\ Returns(c)
  /\ UNCHANGED <<fdo, ListOfPDOs, NumPDOs, pdo, closed, stale, bus, node, missing>>

\* and unplugs the device at SerialNo, which is anything too.
CleanupUnplug(c) ==
  /\ caller[c].pc = "unplug"
  /\ LET p == caller[c].pdo
     IN \E a \in Addrs \cup {0} : (Freed(p) \/ a = pdo[p].SerialNo) /\ Mark(c, a)

(***************************************************************************)
(* PnP IRPs of a device: Bus_PDO_PnP.                                      *)
(***************************************************************************)

There(p) == pdo[p].life = "there"

\* The PnP manager takes the devices down.
Leaving(p) == p \in missing \/ bus \in {"surprise", "query_remove", "failed"}

Moves(p, to) ==
  /\ node' = [node EXCEPT ![p] = to]
  /\ UNCHANGED <<fdo, ListOfPDOs, NumPDOs, FsContext, closed, caller, stale, bus, missing>>

\* IRP_MN_START_DEVICE; if the interface cannot be registered, a removal follows.
PdoStart(p) ==
  /\ There(p)
  /\ node[p] \in {"reported", "stopped", "removed"}
  /\ bus = "started" /\ p \notin missing
  /\ SetPdo(p, "Started")
  /\ Moves(p, "started") \/ Moves(p, "failed")

PdoQueryStop(p) ==
  /\ There(p) /\ node[p] = "started" /\ bus = "started"
  /\ SetPdo(p, "StopPending")
  /\ Moves(p, "query_stop")

\* Also without a query, if a driver above failed it.
PdoCancelStop(p) ==
  /\ There(p) /\ node[p] \in {"started", "query_stop"} /\ bus = "started"
  /\ pdo' = [pdo EXCEPT ![p] = RestoreFrom(@, "StopPending")]
  /\ Moves(p, "started")

PdoStop(p) ==
  /\ There(p) /\ node[p] = "query_stop" /\ bus \in {"started", "query_stop"}
  /\ SetPdo(p, "Stopped")
  /\ Moves(p, "stopped")

\* IRP_MN_QUERY_REMOVE_DEVICE while nobody holds InterfaceRefCount up.
PdoQueryRemove(p) ==
  /\ There(p) /\ node[p] = "started" /\ bus = "started"
  /\ SetPdo(p, "RemovePending")
  /\ Moves(p, "query_remove")

PdoCancelRemove(p) ==
  /\ There(p) /\ node[p] \in {"started", "query_remove"} /\ bus = "started"
  /\ pdo' = [pdo EXCEPT ![p] = RestoreFrom(@, "RemovePending")]
  /\ Moves(p, "started")

\* IRP_MN_SURPRISE_REMOVAL: the device is missing, its bus goes, or its driver
\* reported a failure.
PdoSurprise(p) ==
  /\ There(p)
  /\ \/ node[p] = "started"
     \/ node[p] \in {"query_stop", "stopped", "query_remove"} /\ Leaving(p)
  /\ SetPdo(p, "SurpriseRemovePending")
  /\ Moves(p, "surprise")

\* IRP_MN_REMOVE_DEVICE may come for p.
RemoveComes(p) == \/ node[p] \in {"query_remove", "surprise", "failed"}
                  \/ node[p] \in {"reported", "removed"} /\ Leaving(p)

\* RemoveEntryList of the device's link.
Unlinked(p) == \E i \in 1..Len(ListOfPDOs) : /\ ListOfPDOs[i] = p
                                             /\ ListOfPDOs' = RemoveAt(ListOfPDOs, i)

\* Faulty variant: the count of devices is not taken down.
PdoRemoveKeepsCount(p) ==
  /\ There(p) /\ RemoveComes(p)
  /\ pdo[p].ReportedMissing
  /\ pdo' = [pdo EXCEPT ![p] = [SetState(@, "Deleted") EXCEPT !.life = "dying"]]
  /\ IF pdo[p].ParentFdo THEN Unlinked(p) ELSE UNCHANGED ListOfPDOs
  /\ node' = [node EXCEPT ![p] = "gone"]
  /\ missing' = missing \ {p}
  /\ UNCHANGED <<fdo, NumPDOs, FsContext, closed, caller, stale, bus>>

\* IRP_MN_REMOVE_DEVICE of a device that was reported missing takes it off the list,
PdoRemove(p) ==
  /\ There(p) /\ RemoveComes(p)
  /\ pdo[p].ReportedMissing
  /\ pdo' = [pdo EXCEPT ![p] = [SetState(@, "Deleted") EXCEPT !.life = "dying"]]
  /\ IF pdo[p].ParentFdo
     THEN Unlinked(p) /\ NumPDOs' = NumPDOs - 1
     ELSE UNCHANGED <<ListOfPDOs, NumPDOs>>
  /\ node' = [node EXCEPT ![p] = "gone"]
  /\ missing' = missing \ {p}
  /\ UNCHANGED <<fdo, FsContext, closed, caller, stale, bus>>

\* and keeps any other, which may be started again.
PdoDisable(p) ==
  /\ There(p) /\ RemoveComes(p)
  /\ ~pdo[p].ReportedMissing
  /\ IF pdo[p].Present THEN SetPdo(p, "NotStarted") ELSE UNCHANGED pdo
  /\ Moves(p, "removed")

\* The handles after Bus_DestroyPdo of the PDOs ds: each of them forgets its PDO.
Detached(ds) == [h \in Handles |-> IF \E p \in ds : pdo[p].fo = h THEN NULL ELSE FsContext[h]]

\* Bus_DestroyPdo, without the Mutex: it tests fo and deletes the device that has none,
PdoDestroyTest(p) ==
  /\ pdo[p].life = "dying"
  /\ pdo' = [pdo EXCEPT ![p] = IF @.fo = NULL THEN Destroyed
                               ELSE [@ EXCEPT !.life = "detaching", !.held = pdo[p].fo]]
  /\ UNCHANGED <<fdo, ListOfPDOs, NumPDOs, FsContext, closed, caller, stale, bus, node, missing>>

\* or clears the handle's FsContext (the build may read fo again, see Crash),
PdoDestroyClear(p) ==
  /\ pdo[p].life = "detaching"
  /\ FsContext' = [FsContext EXCEPT ![pdo[p].held] = NULL]
  /\ pdo' = [pdo EXCEPT ![p].life = "detached"]
  /\ UNCHANGED <<fdo, ListOfPDOs, NumPDOs, closed, caller, stale, bus, node, missing>>

\* then fo, and deletes the device.
PdoDestroyDelete(p) ==
  /\ pdo[p].life = "detached"
  /\ pdo' = [pdo EXCEPT ![p] = Destroyed]
  /\ UNCHANGED <<fdo, ListOfPDOs, NumPDOs, FsContext, closed, caller, stale, bus, node, missing>>

PdoDestroy(p) == PdoDestroyTest(p) \/ PdoDestroyClear(p) \/ PdoDestroyDelete(p)

\* IRP_MN_EJECT, which the PnP manager sends after the removal (Bus_EjectDevice asks
\* for it); it queries the relations afterwards.
PdoEject(p) ==
  /\ There(p) /\ node[p] = "removed"
  /\ pdo' = [pdo EXCEPT ![p].Present = FALSE]
  /\ stale' = TRUE
  /\ UNCHANGED <<fdo, ListOfPDOs, NumPDOs, FsContext, closed, caller, bus, node, missing>>

(***************************************************************************)
(* PnP IRPs of the bus: Bus_FDO_PnP.                                       *)
(***************************************************************************)

BusMoves(to) ==
  /\ bus' = to
  /\ UNCHANGED <<ListOfPDOs, NumPDOs, pdo, FsContext, closed, caller, stale, node, missing>>

\* IRP_MN_START_DEVICE and Bus_StartFdo, which may fail before or after it sets the
\* state; the PnP manager removes a bus that did not start.
FdoStart ==
  /\ bus \in {"added", "stopped"}
  /\ \/ fdo' = SetState(fdo, "Started") /\ (BusMoves("started") \/ BusMoves("failed"))
     \/ UNCHANGED fdo /\ BusMoves("failed")

\* Faulty variant: the pending state is entered without remembering the last one.
FdoQueryStopForgets == /\ bus = "started" /\ BusMoves("query_stop")
                       /\ fdo' = SetStateOnly(fdo, "StopPending")

\* The PnP manager asks and stops the devices before their bus.
FdoQueryStop == /\ bus = "started" /\ BusMoves("query_stop")
                /\ \A p \in Pdos : node[p] \notin {"started", "query_remove", "failed"}
                /\ fdo' = SetState(fdo, "StopPending")

FdoCancelStop == /\ bus \in {"started", "query_stop"} /\ BusMoves("started")
                 /\ fdo' = RestoreFrom(fdo, "StopPending")

FdoStop == /\ bus = "query_stop" /\ BusMoves("stopped")
           /\ \A p \in Pdos : node[p] # "query_stop"
           /\ fdo' = SetState(fdo, "Stopped")

FdoQueryRemove == /\ bus = "started" /\ BusMoves("query_remove")
                  /\ \A p \in Pdos : node[p] \notin {"started", "query_stop", "stopped"}
                  /\ fdo' = SetState(fdo, "RemovePending")

FdoCancelRemove == /\ bus \in {"started", "query_remove"} /\ BusMoves("started")
                   /\ fdo' = RestoreFrom(fdo, "RemovePending")

\* IRP_MN_SURPRISE_REMOVAL orphans all devices; NumPDOs stays.
FdoSurprise ==
  /\ bus \in {"started", "query_stop", "stopped", "query_remove"}
  /\ bus' = "surprise"
  /\ fdo' = SetState(fdo, "SurpriseRemovePending")
  /\ ListOfPDOs' = <<>>
  /\ pdo' = [p \in Pdos |-> IF p \in Listed
                            THEN [pdo[p] EXCEPT !.ParentFdo = FALSE, !.ReportedMissing = TRUE]
                            ELSE pdo[p]]
  /\ UNCHANGED <<NumPDOs, FsContext, closed, caller, stale, node, missing>>

\* IRP_MN_REMOVE_DEVICE: the devices were removed before, except those that were
\* surprise-removed and are still open.
FdoRemoveMark ==
  /\ bus \in {"added", "query_remove", "surprise", "failed"}
  /\ \A p \in Pdos : /\ \/ node[p] \in {"none", "surprise", "gone"}
                        \/ node[p] = "removed" /\ bus # "surprise"
                     /\ pdo[p].life \notin {"dying", "detaching", "detached"}
  /\ fdo' = SetState(fdo, "Deleted")
  /\ BusMoves("removing")

\* After the wait for RemoveEvent (IoCount) it destroys the devices that are left.
FdoRemoveFinish ==
  /\ bus = "removing"
  /\ \A c \in Callers : caller[c].pc = "idle"
  /\ LET kept == {p \in Listed : pdo[p].state = "SurpriseRemovePending"}
         dead == Listed \ kept
     IN /\ pdo' = [p \in Pdos |->
             IF p \in kept THEN [pdo[p] EXCEPT !.ParentFdo = FALSE, !.ReportedMissing = TRUE]
             ELSE IF p \in dead THEN Destroyed
             ELSE pdo[p]]
        /\ FsContext' = Detached(dead)
        /\ NumPDOs' = NumPDOs - Cardinality(dead)
        /\ node' = [p \in Pdos |-> IF p \in dead /\ node[p] # "surprise" THEN "gone" ELSE node[p]]
  /\ ListOfPDOs' = <<>>
  /\ bus' = "deleted"
  /\ UNCHANGED <<fdo, closed, caller, stale, missing>>

\* Devices the PnP manager has heard of.
Known == {p \in Pdos : node[p] \notin {"none", "gone"}}

\* IRP_MN_QUERY_DEVICE_RELATIONS reports the devices that are present, and marks
\* the others; without memory it fails and is sent again.
QueryRelations ==
  /\ bus \in {"started", "query_stop", "stopped", "query_remove"}
  /\ LET report == {p \in Listed : pdo[p].Present} IN
     /\ pdo' = [p \in Pdos |-> IF p \in Listed \ report
                               THEN [pdo[p] EXCEPT !.ReportedMissing = TRUE] ELSE pdo[p]]
     /\ node' = [p \in Pdos |-> IF p \in report /\ node[p] = "none" THEN "reported" ELSE node[p]]
     /\ missing' = Known \ report
  /\ stale' = FALSE
  /\ UNCHANGED <<fdo, ListOfPDOs, NumPDOs, FsContext, closed, caller, bus>>

(***************************************************************************)
(* The specification.                                                      *)
(***************************************************************************)

BusInit ==
  /\ fdo = [state |-> "NotStarted", previous |-> "NotStarted"]
  /\ ListOfPDOs = <<>>
  /\ NumPDOs = 0
  /\ pdo = [p \in Pdos |-> NoPdo]
  /\ FsContext = [h \in Handles |-> NULL]
  /\ closed = {}
  /\ caller = [c \in Callers |-> IdleCaller]
  /\ stale = FALSE
  /\ bus = "added"
  /\ node = [p \in Pdos |-> "none"]
  /\ missing = {}
  /\ crashed = FALSE

CallerRuns(c) == \/ PlugClaim(c) \/ PlugInsert(c) \/ UnplugDrain(c)
                 \/ CleanupForget(c) \/ CleanupClear(c) \/ CleanupUnplug(c)

Call(c) == \/ \E h \in Handles : Cleanup(c, h) \/ \E a \in Addrs : PlugCheck(c, h, a)
           \/ \E a \in Addrs \cup {0} : Unplug(c, a)

PdoRemoval(p) == PdoRemove(p) \/ PdoDisable(p) \/ PdoDestroy(p)

PdoIrp(p) == \/ PdoStart(p) \/ PdoQueryStop(p) \/ PdoCancelStop(p) \/ PdoStop(p)
             \/ PdoQueryRemove(p) \/ PdoCancelRemove(p) \/ PdoSurprise(p)
             \/ PdoRemoval(p) \/ PdoEject(p)

FdoIrp == \/ FdoStart \/ FdoQueryStop \/ FdoCancelStop \/ FdoStop \/ FdoQueryRemove
          \/ FdoCancelRemove \/ FdoSurprise \/ FdoRemoveMark \/ FdoRemoveFinish
          \/ QueryRelations

\* A close uses a device extension that was freed after it had read FsContext, or
\* Bus_DestroyPdo reads the fo it has tested again and a close has cleared it: the
\* machine may stop there.
Crash ==
  /\ ~crashed /\ crashed' = TRUE
  /\ \/ \E c \in Callers : caller[c].pc \in {"forget", "clear", "unplug"} /\ Freed(caller[c].pdo)
     \/ \E p \in Pdos : pdo[p].life = "detaching" /\ pdo[p].fo = NULL
  /\ UNCHANGED <<fdo, ListOfPDOs, NumPDOs, pdo, FsContext, closed, caller, stale, bus, node,
                 missing>>

\* The machine runs.
Up == ~crashed /\ UNCHANGED crashed

BusNext == \/ Up /\ \E c \in Callers : Call(c) \/ CallerRuns(c)
           \/ Up /\ \E p \in Pdos : PdoIrp(p)
           \/ Up /\ FdoIrp
           \/ Crash

BusSpec == BusInit /\ [][BusNext]_busVars

Doomed(p) == Leaving(p) \/ node[p] \in {"surprise", "failed"}

\* A thread inside the driver returns.  The PnP manager answers an invalidation with
\* a query, removes devices that are missing, and ends a removal it began.
BusFairness ==
  /\ \A c \in Callers : WF_busVars(Up /\ CallerRuns(c))
  /\ WF_busVars(Up /\ stale /\ QueryRelations)
  /\ \A p \in Pdos :
       WF_busVars(Up /\ (PdoDestroy(p) \/ (Doomed(p) /\ (PdoSurprise(p) \/ PdoRemoval(p)))))
  /\ WF_busVars(Up /\ bus \in {"surprise", "failed"} /\ FdoRemoveMark)
  /\ WF_busVars(Up /\ FdoRemoveFinish)

BusFairSpec == BusSpec /\ BusFairness

(***************************************************************************)
(* Properties.                                                             *)
(***************************************************************************)

States == {"NotStarted", "Started", "StopPending", "Stopped", "RemovePending",
           "SurpriseRemovePending", "Deleted", "PNP_DEVICE_REMOVED"}

BusTypeOK ==
  /\ fdo \in [state : States, previous : States]
  /\ ListOfPDOs \in Seq(Pdos)
  /\ NumPDOs \in Nat
  /\ pdo \in [Pdos -> [life : {"none", "made", "there", "dying", "detaching", "detached", "deleted"},
                       SerialNo : Addrs \cup {0}, fo : Handles \cup {NULL},
                       held : Handles \cup {NULL},
                       Present : BOOLEAN, ReportedMissing : BOOLEAN, ParentFdo : BOOLEAN,
                       state : States, previous : States]]
  /\ FsContext \in [Handles -> Pdos \cup {NULL}]
  /\ closed \subseteq Handles
  /\ caller \in [Callers -> [pc : {"idle", "plug", "insert", "forget", "clear", "unplug",
                                   "drain"},
                             handle : Handles \cup {NULL}, addr : Addrs \cup {0},
                             pdo : Pdos \cup {NULL}]]
  /\ stale \in BOOLEAN
  /\ bus \in {"added", "started", "query_stop", "stopped", "query_remove", "surprise",
              "failed", "removing", "deleted"}
  /\ node \in [Pdos -> {"none", "reported", "started", "query_stop", "stopped",
                        "query_remove", "surprise", "failed", "removed", "gone"}]
  /\ missing \subseteq Pdos
  /\ crashed \in BOOLEAN

\* ListOfPDOs holds each device of the bus once and no other, and NumPDOs counts
\* them, whichever of plug-in, removal of a device and removal of the bus put them
\* there or took them off.  (A surprise removal of the bus empties the list and
\* leaves the count.)  A device that survives its bus does not point to it any more (its
\* own removal would lock the Mutex of a bus that is deleted) and is destroyed by its
\* next IRP_MN_REMOVE_DEVICE.
ListIsExact ==
  /\ IsInjective(ListOfPDOs)
  /\ Listed = {p \in Pdos : pdo[p].life = "there" /\ pdo[p].ParentFdo}
  /\ bus # "deleted" /\ "SurpriseRemovePending" \notin {fdo.state, fdo.previous} =>
       NumPDOs = Len(ListOfPDOs)
  /\ bus = "deleted" => \A p \in Pdos : pdo[p].life \in {"made", "there"} =>
                          ~pdo[p].ParentFdo /\ pdo[p].ReportedMissing

\* A device that knows a handle is the one the handle stands for, until its destruction
\* has cleared the handle: so a handle stands for one device at most, however plug-ins on
\* it overlap, and what a close or a destruction clears is its own tie.  And a handle
\* that stands for a device that was freed is being closed, between the two pointers that
\* Bus_Cleanup clears without a lock: Bus_Read and Bus_Write, which follow the FsContext
\* of open handles, never find it.  (The close itself uses the freed device: Crash.)
HandleOwnsItsDevice ==
  /\ \A p \in Pdos : pdo[p].fo # NULL /\ pdo[p].life # "detached" => FsContext[pdo[p].fo] = p
  /\ \A h \in Handles : FsContext[h] # NULL /\ Freed(FsContext[h]) =>
       h \in closed /\ \E c \in Callers : caller[c].pc = "clear" /\ caller[c].handle = h

\* A cancelled query restores the state before it: pnp.c:394 asserts that the bus is
\* Started again, and a device is, unless it was unplugged meanwhile.
CancelRestores ==
  [][ /\ FdoCancelStop => fdo'.state = "Started"
      /\ \A p \in Pdos : PdoCancelStop(p) \/ PdoCancelRemove(p) =>
           pdo'[p].state \in {"Started", "PNP_DEVICE_REMOVED"} ]_busVars

\* A device that was unplugged or ejected, and that the PnP manager knows, is
\* destroyed in the end, whatever removal or surprise removal it is in the middle of,
\* if the bus stays and the machine does not stop.  (A bus that is removed keeps a device
\* whose IRP_MN_REMOVE_DEVICE after a surprise removal came before it was reported missing.)
UnpluggedIsDestroyed ==
  \A p \in Pdos :
    pdo[p].life = "there" /\ ~pdo[p].Present /\ p \in Known
      ~> pdo[p].life = "deleted" \/ bus = "deleted" \/ crashed

=============================================================================
