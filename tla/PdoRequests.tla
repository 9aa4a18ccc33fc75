----------------------------- MODULE PdoRequests -----------------------------
(***************************************************************************)
(* What a device object of the bus answers: Bus_PDO_PnP with the handlers  *)
(* of its queries (Client/usbip/buspdo.c), the power IRPs (power.c), and   *)
(* the interface it hands to drivers above it, which call it at any time   *)
(* and without the bus driver's locks.  A driver above may have set an     *)
(* IRP's status and information before it comes here.  Module BusPnp has   *)
(* the life of the device objects; here there is one.                      *)
(***************************************************************************)
EXTENDS Integers

CONSTANT MaxRefs  \* bound: references to the interface at a time

ASSUME PdoAssumption == MaxRefs \in Nat

VARIABLES
  pnp,        \* DevicePnPState and PreviousPnPState
  flags,      \* Present, ReportedMissing
  power,      \* DevicePowerState and SystemPowerState
  refs,       \* InterfaceRefCount
  users,      \* references that drivers above hold by the interface
  asked,      \* a removal was asked for and the count of references was found zero
  late,       \* history: of the users' references, the ones taken since then
  answer      \* the last query, and what it had and has for an answer

pdoVars == <<pnp, flags, power, refs, users, asked, late, answer>>

(***************************************************************************)
(* Queries, and the answers to them.                                       *)
(***************************************************************************)

\* Each with its sorts, as far as the handlers tell them apart.
Queries ==
  {"id"} \X {"device", "instance", "hardware", "compatible", "container", "other"}
  \cup {"text"} \X {"description", "location", "other"}
  \cup {"relations"} \X {"target", "other"}
  \cup {"capabilities"} \X {"version_1", "other"}
  \cup {"interface"} \X {"usbdi", "version", "size", "other"}
  \cup {"resources", "requirements", "bus", "usage", "unknown"} \X {"any"}

\* The status and the information that drivers above may have put into the IRP.
Before == [status : {"not_supported", "success"}, info : {"none", "above"}]

\* Faulty variant: success is reported when there was no memory.
AllocatedAlways(before, memory) ==
  [status |-> "success", info |-> IF memory THEN "ours" ELSE before.info]

\* ExAllocatePoolWithTag, and a buffer in place of the information.
Allocated(before, memory) ==
  IF memory THEN [status |-> "success", info |-> "ours"]
  ELSE [before EXCEPT !.status = "no_resources"]

\* Bus_PDO_QueryDeviceId
QueryDeviceId(sort, before, memory) ==
  CASE sort = "container" -> [before EXCEPT !.status = "not_supported"]
    [] sort = "other" -> before
    [] OTHER -> Allocated(before, memory)

\* Bus_PDO_QueryDeviceText: a text that is there already stays.
QueryDeviceText(sort, before, memory) ==
  IF sort = "other" \/ before.info # "none" THEN [before EXCEPT !.status = "success"]
  ELSE Allocated(before, memory)

\* Bus_PDO_QueryDeviceRelations: whatever is there already is replaced.
QueryDeviceRelations(sort, before, memory) ==
  IF sort = "target" THEN Allocated(before, memory) ELSE before

\* Bus_PDO_QueryDeviceCaps: the caller's structure is filled in, from the capabilities of
\* the driver below the bus, which may not give them.
QueryDeviceCaps(sort, before, parent) ==
  [before EXCEPT !.status = IF sort = "version_1" /\ parent THEN "success"
                            ELSE "unsuccessful"]

\* Bus_PDO_QueryInterface
QueryInterface(sort, before) ==
  CASE sort = "usbdi" -> [before EXCEPT !.status = "success"]
    [] sort = "other" -> before
    [] OTHER -> [before EXCEPT !.status = "invalid"]

\* The switch of Bus_PDO_PnP; more is whether memory, or the parent's answer, is there.
Result(q, before, more) ==
  CASE q[1] = "id" -> QueryDeviceId(q[2], before, more)
    [] q[1] = "text" -> QueryDeviceText(q[2], before, more)
    [] q[1] = "relations" -> QueryDeviceRelations(q[2], before, more)
    [] q[1] = "capabilities" -> QueryDeviceCaps(q[2], before, more)
    [] q[1] = "interface" -> QueryInterface(q[2], before)
    [] q[1] = "bus" -> Allocated(before, more)
    [] q[1] = "requirements" -> [before EXCEPT !.status = "success"]
    [] q[1] = "usage" -> [before EXCEPT !.status = "unsuccessful"]
    [] OTHER -> before

Exists == pnp[1] # "Deleted"

\* Faulty variant: the interface is handed out without a reference.
CountsInterfaceNot(handed) == refs

\* InterfaceReference at the end of Bus_PDO_QueryInterface.
CountsInterface(handed) == IF handed THEN refs + 1 ELSE refs

Taken(n) ==
  /\ users' = users + n
  /\ late' = IF asked \/ pnp[1] = "RemovePending" THEN late + n ELSE late

Query ==
  /\ Exists
  /\ users < MaxRefs
  /\ \E q \in Queries, before \in Before, more \in BOOLEAN :
       LET now    == Result(q, before, more)
           handed == q = <<"interface", "usbdi">>
       IN  /\ answer' = [query |-> q, before |-> before, now |-> now]
           /\ refs' = CountsInterface(handed)
           /\ Taken(IF handed THEN 1 ELSE 0)
  /\ UNCHANGED <<pnp, flags, power, asked>>

\* InterfaceReference, by a driver that has the interface.
InterfaceReference ==
  /\ Exists /\ users > 0 /\ users < MaxRefs
  /\ refs' = refs + 1
  /\ Taken(1)
  /\ UNCHANGED <<pnp, flags, power, asked, answer>>

\* InterfaceDereference
InterfaceDereference ==
  /\ Exists /\ users > 0
  /\ refs' = refs - 1
  /\ users' = users - 1
  /\ late' = IF late > users' THEN users' ELSE late
  /\ UNCHANGED <<pnp, flags, power, asked, answer>>

(***************************************************************************)
(* The device's life, as far as the interface and power matter to it.      *)
(***************************************************************************)

SetPnp(state) == pnp' = <<state, pnp[1]>>

\* The PnP manager sends one of these IRPs at a time; QueryRemove has two steps.
Quiet == ~asked /\ UNCHANGED <<refs, users, asked, late, answer>>

\* IRP_MN_START_DEVICE
StartDevice ==
  /\ pnp[1] \in {"NotStarted", "Stopped"} /\ flags.present
  /\ SetPnp("Started")
  /\ power' = [power EXCEPT !.device = 0]
  /\ UNCHANGED flags /\ Quiet

\* IRP_MN_QUERY_STOP_DEVICE, IRP_MN_STOP_DEVICE, IRP_MN_CANCEL_STOP_DEVICE
StopDevice ==
  /\ \/ pnp[1] = "Started" /\ SetPnp("StopPending")
     \/ pnp[1] = "StopPending" /\ SetPnp("Stopped")
     \/ pnp[1] = "StopPending" /\ pnp' = <<pnp[2], pnp[2]>>
  /\ UNCHANGED <<flags, power>> /\ Quiet

\* IRP_MN_QUERY_REMOVE_DEVICE, which fails as long as the interface is in use.
QueryRemoveAsks ==
  /\ pnp[1] = "Started" /\ ~asked
  /\ refs = 0
  /\ asked' = TRUE
  /\ late' = 0
  /\ UNCHANGED <<pnp, flags, power, refs, users, answer>>

QueryRemoveAgrees ==
  /\ asked
  /\ asked' = FALSE
  /\ SetPnp("RemovePending")
  /\ UNCHANGED <<flags, power, refs, users, late, answer>>

\* IRP_MN_CANCEL_REMOVE_DEVICE
CancelRemove ==
  /\ pnp[1] = "RemovePending"
  /\ pnp' = <<pnp[2], pnp[2]>>
  /\ UNCHANGED <<flags, power>> /\ Quiet

\* IRP_MN_EJECT, or bus_unplug_dev: the device is no longer present; and the bus reports
\* that to the PnP manager.
GoesMissing ==
  /\ Exists
  /\ \/ flags.present /\ flags' = [flags EXCEPT !.present = FALSE]
     \/ ~flags.present /\ ~flags.missing /\ flags' = [flags EXCEPT !.missing = TRUE]
  /\ UNCHANGED <<pnp, power, refs, users, asked, late, answer>>

\* IRP_MN_SURPRISE_REMOVAL
SurpriseRemoval ==
  /\ pnp[1] \in {"Started", "StopPending", "Stopped", "RemovePending"} /\ flags.missing
  /\ SetPnp("SurpriseRemovePending")
  /\ UNCHANGED <<flags, power>> /\ Quiet

\* IRP_MN_REMOVE_DEVICE, of a device that is missing, or is being disabled.  After an
\* orderly removal the drivers above have what references they took since; with the
\* others they have let go of the interface.
RemoveDevice ==
  /\ pnp[1] \in {"NotStarted", "RemovePending", "SurpriseRemovePending"}
  /\ pnp[1] # "RemovePending" => users = 0
  /\ IF flags.missing THEN SetPnp("Deleted")
     ELSE IF flags.present THEN SetPnp("NotStarted") ELSE UNCHANGED pnp
  /\ UNCHANGED <<flags, power>> /\ Quiet

(***************************************************************************)
(* Bus_PDO_Power                                                           *)
(***************************************************************************)

\* IRP_MN_SET_POWER; Bus_Power has looked for a deleted device.  Other power IRPs change
\* nothing.
SetPower ==
  /\ Exists
  /\ \E which \in {"device", "system"}, state \in {0, 3} :
       power' = [power EXCEPT ![which] = state]
  /\ UNCHANGED <<pnp, flags, refs, users, asked, late, answer>>

(***************************************************************************)
(* The capabilities' map from the system's power states, 0 for working, 1  *)
(* to 4 for sleeping and hibernating, 5 for shut down, to the device's.    *)
(***************************************************************************)

DeviceState(parent) ==
  [s \in 0..5 |-> CASE s = 0 -> 0
                    [] s = 1 /\ parent[s] # 0 -> 1
                    [] s \in {2, 3} /\ parent[s] # 0 -> 3
                    [] OTHER -> parent[s]]

PdoInit ==
  /\ pnp = <<"NotStarted", "NotStarted">>
  /\ flags = [present |-> TRUE, missing |-> FALSE]
  /\ power = [device |-> 3, system |-> 0]
  /\ refs = 0 /\ users = 0 /\ asked = FALSE /\ late = 0
  /\ answer = [query |-> <<"unknown", "any">>,
               before |-> [status |-> "success", info |-> "none"],
               now |-> [status |-> "success", info |-> "none"]]

PdoNext == \/ Query \/ InterfaceReference \/ InterfaceDereference
           \/ StartDevice \/ StopDevice \/ QueryRemoveAsks \/ QueryRemoveAgrees \/ CancelRemove \/ GoesMissing
           \/ SurpriseRemoval \/ RemoveDevice \/ SetPower

PdoSpec == PdoInit /\ [][PdoNext]_pdoVars

(***************************************************************************)
(* Properties.                                                             *)
(***************************************************************************)

\* What the handlers do not know of.
NotKnown(q) == q \in {<<"id", "other">>, <<"relations", "other">>, <<"interface", "other">>,
                      <<"resources", "any">>, <<"unknown", "any">>}

\* Queries that want data for an answer, as far as they are answered.
WantsData(q) == q[1] \in {"id", "text", "relations", "bus"} /\ q[2] # "other"

\* buspdo.c:368: a request that is not understood goes back with the status and the
\* information that drivers above may have set; a query that fails leaves the information
\* alone, and one that succeeds where data is wanted has data.
AnswersWhole ==
  LET q == answer.query  before == answer.before  now == answer.now IN
  /\ NotKnown(q) => now = before
  /\ now.status \notin {"success", before.status} => now.info = before.info
  /\ WantsData(q) /\ now.status = "success" => now.info # "none"

\* A driver that uses the interface holds off an orderly removal, however calls and IRPs
\* interleave: while one is agreed to, or has been carried out, only references taken
\* after the count was found zero are out.
UsersHoldOffRemoval ==
  pnp[1] = "RemovePending" \/ pnp = <<"Deleted", "RemovePending">> => users <= late

\* buspdo.c:454: a device's power state is never more powered than its parent's in the
\* same state of the system, except in S1, where the device says D1 whatever the parent.
CapsRestrictParent ==
  \A parent \in [0..5 -> 0..3] :
    parent[0] = 0 => \A s \in 0..5 : DeviceState(parent)[s] >= parent[s] \/ s = 1

=============================================================================
