------------------------------ MODULE IoCount ------------------------------
(***************************************************************************)
(* The bus FDO's count of requests in progress (OutstandingIO, biased to   *)
(* 1) and the StopEvent and RemoveEvent by which IRP_MN_STOP_DEVICE and    *)
(* IRP_MN_REMOVE_DEVICE wait for them: Bus_IncIoCount, Bus_DecIoCount and  *)
(* every dispatch routine that calls them (Client/usbip/busenum.c, pnp.c,  *)
(* power.c, Wmi.c).  The interlocked operation on the count and the        *)
(* operation on an event that may follow it are separate steps.            *)
(***************************************************************************)
EXTENDS Integers, FiniteSets

CONSTANTS
  Requests,  \* requests other than PnP IRPs that reach the FDO, each on its thread
  Pnp        \* the thread that brings PnP IRPs, one at a time

ASSUME IoCountAssumption == Pnp \notin Requests /\ IsFiniteSet(Requests)

VARIABLES
  DevicePnPState,  \* of the FDO, as far as the count depends on it
  OutstandingIO,
  StopEvent,       \* auto-reset events: signalled or not
  RemoveEvent,
  pc,              \* where each thread is
  todo,            \* the operation on an event that a thread owes
  kind,            \* which sort of dispatch routine a request runs
  lower            \* what the driver below does with IRP_MN_START_DEVICE

countVars == <<DevicePnPState, OutstandingIO, StopEvent, RemoveEvent, pc, todo, kind, lower>>

\* "io": Bus_Read, Bus_Write, Bus_IoCtl, Bus_SystemControl.  "open": Bus_Create,
\* Bus_Cleanup, Bus_Close.  "power": Bus_Power with Bus_FDO_Power.
Kinds == {"io", "open", "power"}

Threads == Requests \cup {Pnp}

At(t, from) == pc[t] = from /\ todo[t] = "none"

Goto(t, to) == pc' = [pc EXCEPT ![t] = to]

\* Bus_IncIoCount by t: a count that becomes 2 obliges t to clear StopEvent.
Inc(t) ==
  /\ OutstandingIO' = OutstandingIO + 1
  /\ todo' = [todo EXCEPT ![t] = IF OutstandingIO + 1 = 2 THEN "clear_stop" ELSE "none"]

\* Faulty variant: StopEvent is set only when the count reaches 0.
DecNoStop(t) ==
  /\ OutstandingIO' = OutstandingIO - 1
  /\ todo' = [todo EXCEPT ![t] = IF OutstandingIO - 1 = 0 THEN "set_remove" ELSE "none"]

\* Bus_DecIoCount by t: 1 obliges it to set StopEvent, 0 to set RemoveEvent.
Dec(t) ==
  /\ OutstandingIO' = OutstandingIO - 1
  /\ todo' = [todo EXCEPT ![t] = CASE OutstandingIO - 1 = 1 -> "set_stop"
                                   [] OutstandingIO - 1 = 0 -> "set_remove"
                                   [] OTHER -> "none"]

\* The call of KeClearEvent or KeSetEvent that t owes.
EventCall(t) ==
  /\ todo[t] # "none"
  /\ StopEvent' = CASE todo[t] = "clear_stop" -> FALSE
                    [] todo[t] = "set_stop" -> TRUE
                    [] OTHER -> StopEvent
  /\ RemoveEvent' = (RemoveEvent \/ todo[t] = "set_remove")
  /\ todo' = [todo EXCEPT ![t] = "none"]
  /\ UNCHANGED <<DevicePnPState, OutstandingIO, pc, kind, lower>>

(***************************************************************************)
(* Requests.                                                               *)
(***************************************************************************)

\* Faulty variant: the state is checked before the request is counted.
CountsFirstNever(t) == FALSE

\* All routines but Bus_Power count the request before they look at the state.
CountsFirst(t) == kind[t] # "power"

\* A request reaches its dispatch routine, once, while the device object exists.
Arrive(t) ==
  /\ At(t, "idle")
  /\ pc[Pnp] # "destroyed"
  /\ Goto(t, "enter")
  /\ \E k \in Kinds : kind' = [kind EXCEPT ![t] = k]
  /\ UNCHANGED <<DevicePnPState, OutstandingIO, StopEvent, RemoveEvent, todo, lower>>

\* Bus_IncIoCount, first or after the check.
Enter(t) ==
  /\ IF CountsFirst(t)
     THEN At(t, "enter") /\ Goto(t, "check")
     ELSE At(t, "checked") /\ Goto(t, "busy")
  /\ Inc(t)
  /\ UNCHANGED <<DevicePnPState, StopEvent, RemoveEvent, kind, lower>>

\* Faulty variant: every refused request is taken off the count.
CheckLeaves(t) ==
  /\ IF CountsFirst(t) THEN At(t, "check") ELSE At(t, "enter")
  /\ Goto(t, IF DevicePnPState = "Deleted" THEN "leave"
             ELSE IF CountsFirst(t) THEN "busy" ELSE "checked")
  /\ UNCHANGED <<DevicePnPState, OutstandingIO, StopEvent, RemoveEvent, todo, kind, lower>>

\* The test of DevicePnPState.  Bus_Create, Bus_Cleanup and Bus_Close of a deleted
\* bus return without Bus_DecIoCount.
Check(t) ==
  /\ IF CountsFirst(t) THEN At(t, "check") ELSE At(t, "enter")
  /\ Goto(t, IF DevicePnPState # "Deleted"
             THEN IF CountsFirst(t) THEN "busy" ELSE "checked"
             ELSE CASE kind[t] = "open" -> "leaked"
                    [] kind[t] = "power" -> "over"
                    [] OTHER -> "leave")
  /\ UNCHANGED <<DevicePnPState, OutstandingIO, StopEvent, RemoveEvent, todo, kind, lower>>

\* The request is carried out.
Work(t) ==
  /\ At(t, "busy")
  /\ Goto(t, "leave")
  /\ UNCHANGED <<DevicePnPState, OutstandingIO, StopEvent, RemoveEvent, todo, kind, lower>>

\* Bus_DecIoCount at the end of a dispatch routine (of Bus_FDO_PnP too).
Leave(t) ==
  /\ At(t, "leave")
  /\ Goto(t, IF t = Pnp THEN "idle" ELSE "over")
  /\ Dec(t)
  /\ kind' = [r \in Requests |-> IF r = t THEN "none" ELSE kind[r]]
  /\ UNCHANGED <<DevicePnPState, StopEvent, RemoveEvent, lower>>

(***************************************************************************)
(* PnP IRPs of the FDO.                                                    *)
(***************************************************************************)

\* Bus_FDO_PnP counts the IRP on entry.
PnpEnter ==
  /\ At(Pnp, "idle")
  /\ DevicePnPState # "Deleted"
  /\ \/ DevicePnPState = "Started" /\ Goto(Pnp, "stop")
     \/ DevicePnPState = "Stopped" /\ Goto(Pnp, "start")
     \/ Goto(Pnp, "remove")
  /\ Inc(Pnp)
  /\ UNCHANGED <<DevicePnPState, StopEvent, RemoveEvent, kind, lower>>

\* IRP_MN_START_DEVICE after a stop goes to the driver below, which carries it out at once
\* or later (Bus_SendIrpSynchronously).
StartSend ==
  /\ At(Pnp, "start")
  /\ \/ Goto(Pnp, "started_below") /\ UNCHANGED lower
     \/ Goto(Pnp, "start_wait") /\ lower' = "pending"
  /\ UNCHANGED <<DevicePnPState, OutstandingIO, StopEvent, RemoveEvent, todo, kind>>

\* It completes the IRP; Bus_CompletionRoutine sets the event, since the IRP was pending.
LowerCompletes ==
  /\ lower = "pending"
  /\ lower' = "completed"
  /\ UNCHANGED <<DevicePnPState, OutstandingIO, StopEvent, RemoveEvent, pc, todo, kind>>

StartWait ==
  /\ At(Pnp, "start_wait")
  /\ lower = "completed"
  /\ lower' = "none"
  /\ Goto(Pnp, "started_below")
  /\ UNCHANGED <<DevicePnPState, OutstandingIO, StopEvent, RemoveEvent, todo, kind>>

\* Bus_StartFdo, unless the driver below failed.  It enters its state, unless the
\* interface cannot be enabled; it fails after that if WMI refuses it.
StartFdo ==
  /\ At(Pnp, "started_below")
  /\ DevicePnPState' \in {DevicePnPState, "Started"}
  /\ Goto(Pnp, "leave")
  /\ UNCHANGED <<OutstandingIO, StopEvent, RemoveEvent, todo, kind, lower>>

Inside(t) == pc[t] \in {"check", "busy", "leave"}

\* IRP_MN_STOP_DEVICE takes itself off the count,
StopDec ==
  /\ At(Pnp, "stop")
  /\ Dec(Pnp)
  /\ Goto(Pnp, "stop_wait")
  /\ UNCHANGED <<DevicePnPState, StopEvent, RemoveEvent, kind, lower>>

\* waits for StopEvent,
StopWait ==
  /\ At(Pnp, "stop_wait")
  /\ StopEvent
  /\ StopEvent' = FALSE
  /\ Goto(Pnp, "stop_waited")
  /\ UNCHANGED <<DevicePnPState, OutstandingIO, RemoveEvent, todo, kind, lower>>

\* counts itself again,
StopInc ==
  /\ At(Pnp, "stop_waited")
  /\ Inc(Pnp)
  /\ Goto(Pnp, "stop_mark")
  /\ UNCHANGED <<DevicePnPState, StopEvent, RemoveEvent, kind, lower>>

\* and gives up the device's resources.
StopMark ==
  /\ At(Pnp, "stop_mark")
  /\ DevicePnPState' = "Stopped"
  /\ Goto(Pnp, "leave")
  /\ UNCHANGED <<OutstandingIO, StopEvent, RemoveEvent, todo, kind, lower>>

\* IRP_MN_REMOVE_DEVICE marks the bus as deleted,
RemoveMark ==
  /\ At(Pnp, "remove")
  /\ DevicePnPState' = "Deleted"
  /\ Goto(Pnp, "remove_dec")
  /\ UNCHANGED <<OutstandingIO, StopEvent, RemoveEvent, todo, kind, lower>>

\* takes itself and the bias off the count,
RemoveDec ==
  /\ \/ At(Pnp, "remove_dec") /\ Goto(Pnp, "remove_bias")
     \/ At(Pnp, "remove_bias") /\ Goto(Pnp, "remove_wait")
  /\ Dec(Pnp)
  /\ UNCHANGED <<DevicePnPState, StopEvent, RemoveEvent, kind, lower>>

\* waits for RemoveEvent, and deletes the device object.
RemoveWait ==
  /\ At(Pnp, "remove_wait")
  /\ RemoveEvent
  /\ RemoveEvent' = FALSE
  /\ Goto(Pnp, "destroyed")
  /\ UNCHANGED <<DevicePnPState, OutstandingIO, StopEvent, todo, kind, lower>>

(***************************************************************************)
(* The specification.                                                      *)
(***************************************************************************)

CountInit ==
  /\ DevicePnPState = "Started"
  /\ OutstandingIO = 1
  /\ StopEvent = TRUE
  /\ RemoveEvent = FALSE
  /\ pc = [t \in Threads |-> "idle"]
  /\ todo = [t \in Threads |-> "none"]
  /\ kind = [t \in Requests |-> "none"]
  /\ lower = "none"

RequestRuns(t) == Enter(t) \/ Check(t) \/ Work(t) \/ Leave(t) \/ EventCall(t)

PnpRuns == \/ StartSend \/ StartWait \/ StartFdo \/ StopDec \/ StopWait \/ StopInc \/ StopMark
           \/ RemoveMark \/ RemoveDec \/ RemoveWait \/ Leave(Pnp) \/ EventCall(Pnp)

CountNext == \/ \E t \in Requests : Arrive(t) \/ RequestRuns(t)
             \/ PnpEnter \/ PnpRuns \/ LowerCompletes

CountSpec == CountInit /\ [][CountNext]_countVars

\* A dispatch routine that was entered returns, and the driver below completes what it
\* was sent; nothing makes a request arrive.
CountFairSpec == /\ CountSpec
                 /\ \A t \in Requests : WF_countVars(RequestRuns(t))
                 /\ WF_countVars(PnpRuns)
                 /\ WF_countVars(LowerCompletes)

(***************************************************************************)
(* Properties.                                                             *)
(***************************************************************************)

CountTypeOK ==
  /\ DevicePnPState \in {"Started", "Stopped", "Deleted"}
  /\ OutstandingIO \in Nat
  /\ StopEvent \in BOOLEAN
  /\ RemoveEvent \in BOOLEAN
  /\ pc \in [Threads -> {"idle", "enter", "check", "checked", "busy", "leave", "leaked", "over",
                         "start", "start_wait", "started_below", "stop", "stop_wait", "stop_waited", "stop_mark",
                         "remove", "remove_dec", "remove_bias", "remove_wait", "destroyed"}]
  /\ todo \in [Threads -> {"none", "clear_stop", "set_stop", "set_remove"}]
  /\ kind \in [Requests -> Kinds \cup {"none"}]
  /\ lower \in {"none", "pending", "completed"}

\* The share of the PnP thread in the count, the bias included.
PnpShare == CASE pc[Pnp] \in {"idle", "stop_wait", "stop_waited", "remove_bias"} -> 1
              [] pc[Pnp] \in {"remove_wait", "destroyed"} -> 0
              [] OTHER -> 2

\* The count is the number of requests inside the driver, and of those that
\* returned without being taken off it, above its bias: it never falls below 0
\* (ASSERT in Bus_DecIoCount), is positive after each increment (ASSERT in
\* Bus_IncIoCount), and is 0 only once the bus is deleted (ASSERT at
\* busenum.c:2027).
CountIsExact ==
  /\ OutstandingIO = PnpShare + Cardinality({t \in Requests : Inside(t) \/ pc[t] = "leaked"})
  /\ OutstandingIO = 0 => DevicePnPState = "Deleted"

\* The device object is not deleted under a request that was admitted to it, by a
\* routine that counts before it checks.
RemoveWaitsForAdmitted ==
  pc[Pnp] = "destroyed" => \A t \in Requests : kind[t] # "power" => pc[t] # "busy"

\* Whatever order the threads' set and clear calls take, once no new requests come (the
\* driver holds none back, so an endless overlap of requests would keep the count up):
\* IRP_MN_STOP_DEVICE gets its event, IRP_MN_START_DEVICE that of the driver below, and
\* IRP_MN_REMOVE_DEVICE deletes the bus unless a request was never taken off the count.
WaitsEnd ==
  /\ pc[Pnp] = "stop_wait" ~> pc[Pnp] # "stop_wait"
  /\ pc[Pnp] = "start_wait" ~> pc[Pnp] # "start_wait"
  /\ pc[Pnp] = "remove_wait" ~> pc[Pnp] = "destroyed" \/ \E t \in Requests : pc[t] = "leaked"

=============================================================================
