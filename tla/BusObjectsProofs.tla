-------------------------- MODULE BusObjectsProofs --------------------------
(***************************************************************************)
(* Proofs about the device objects that the bus driver serves.  The FDO of *)
(* the bus has a count of requests: what it says at each moment, and that  *)
(* the removal of the bus waits for the requests that were admitted, for   *)
(* every finite set of requests.  The PDO of a device answers queries: they*)
(* come back whole; its users hold off an orderly removal, for every bound *)
(* on their references; and its capabilities restrict those of the driver  *)
(* below, for every map of theirs.  The device has endpoints: bus driver   *)
(* and server, each of which reads the descriptors for itself, find the    *)
(* same ones, for every configuration that is well-formed.                 *)
(***************************************************************************)
EXTENDS IoCount, PdoRequests, UsbPipes, SeqLemmas, FiniteSetTheorems, TLAPS

(***************************************************************************)
(* The count of requests of the FDO.                                       *)
(*                                                                         *)
(* RemoveWaitsForAdmitted is not inductive: the reason why nobody is at    *)
(* work when RemoveEvent is found set lies in the past, when the count     *)
(* fell to 0.  Signalled carries it from there: once a thread owes the     *)
(* call that sets RemoveEvent, the bus is deleted, so that a request that  *)
(* counts itself later is refused.                                         *)
(***************************************************************************)

RequestPlaces == {"idle", "enter", "check", "checked", "busy", "leave", "leaked", "over"}

\* Where the PnP thread is before it marks the bus as deleted, and after.
LivePlaces == {"idle", "start", "start_wait", "started_below", "stop", "stop_wait",
               "stop_waited", "stop_mark", "remove", "leave"}
DeletedPlaces == {"remove_dec", "remove_bias", "remove_wait", "destroyed"}

CountTypes ==
  /\ DevicePnPState \in {"Started", "Stopped", "Deleted"}
  /\ OutstandingIO \in Int
  /\ StopEvent \in BOOLEAN
  /\ RemoveEvent \in BOOLEAN
  /\ pc \in [Threads -> RequestPlaces \cup LivePlaces \cup DeletedPlaces]
  /\ pc[Pnp] \in LivePlaces \cup DeletedPlaces
  /\ \A t \in Requests : pc[t] \in RequestPlaces
  /\ todo \in [Threads -> {"none", "clear_stop", "set_stop", "set_remove"}]
  /\ kind \in [Requests -> Kinds \cup {"none"}]
  /\ lower \in {"none", "pending", "completed"}

\* The requests that are on the count.
IsCounted(t) == Inside(t) \/ pc[t] = "leaked"
Counted == {t \in Requests : IsCounted(t)}

Exact == OutstandingIO = PnpShare + Cardinality(Counted)

DeletedSince == DevicePnPState = "Deleted" <=> pc[Pnp] \in DeletedPlaces

\* RemoveEvent is set, is about to be set, or was waited for.
RemoveSignalled == RemoveEvent \/ pc[Pnp] = "destroyed"
                   \/ \E t \in Threads : todo[t] = "set_remove"

NobodyAtWork == /\ pc[Pnp] \in {"remove_wait", "destroyed"}
         /\ \A t \in Requests : kind[t] # "power" => pc[t] # "busy"

Signalled == RemoveSignalled => NobodyAtWork

CountInv == CountTypes /\ Exact /\ DeletedSince /\ Signalled

(***************************************************************************)
(* The set of counted requests.                                            *)
(***************************************************************************)

\* The requests are finitely many, so the count has something to be equal to.
LEMMA CountedFinite == IsFiniteSet(Counted) /\ Cardinality(Counted) \in Nat
<1>1. Counted \in SUBSET Requests
  BY DEF Counted
<1>2. IsFiniteSet(Counted)
  BY <1>1, FS_Subset, IoCountAssumption
<1> QED
  BY <1>2, FS_CardinalityType

\* A request that moves from a place off the count to one on it adds one,
LEMMA CountedGrows ==
  ASSUME NEW t \in Requests, ~IsCounted(t), IsCounted(t)',
         \A r \in Requests \ {t} : (IsCounted(r)' <=> IsCounted(r))
  PROVE  Cardinality(Counted') = Cardinality(Counted) + 1
<1>1. Counted' = Counted \cup {t} /\ t \notin Counted
  BY DEF Counted
<1> QED
  BY <1>1, CountedFinite, FS_AddElement

\* one that moves the other way takes one off,
LEMMA CountedShrinks ==
  ASSUME NEW t \in Requests, IsCounted(t), ~IsCounted(t)',
         \A r \in Requests \ {t} : (IsCounted(r)' <=> IsCounted(r))
  PROVE  Cardinality(Counted') = Cardinality(Counted) - 1
<1>1. Counted' = Counted \ {t} /\ t \in Counted
  BY DEF Counted
<1> QED
  BY <1>1, CountedFinite, FS_RemoveElement

\* and the set stays as it is when no request changes sides.
LEMMA CountedStays ==
  ASSUME \A r \in Requests : (IsCounted(r)' <=> IsCounted(r))
  PROVE  Counted' = Counted
BY DEF Counted

\* A PnP step moves no request.
LEMMA PnpMovesNoRequest ==
  ASSUME CountTypes, NEW to \in LivePlaces \cup DeletedPlaces, Goto(Pnp, to)
  PROVE  /\ Counted' = Counted /\ pc'[Pnp] = to
         /\ pc' \in [Threads -> RequestPlaces \cup LivePlaces \cup DeletedPlaces]
         /\ \A r \in Requests : pc'[r] = pc[r]
<1>1. \A r \in Requests : pc'[r] = pc[r]
  BY IoCountAssumption DEF Goto, CountTypes, Threads
<1>2. \A r \in Requests : IsCounted(r)' <=> IsCounted(r)
  BY <1>1 DEF IsCounted, Inside
<1>3. /\ pc'[Pnp] = to
      /\ pc' \in [Threads -> RequestPlaces \cup LivePlaces \cup DeletedPlaces]
  BY DEF Goto, CountTypes, Threads
<1> QED
  BY <1>1, <1>2, <1>3, CountedStays

(***************************************************************************)
(* The steps of a request.                                                 *)
(***************************************************************************)

\* A step of a request leaves the PnP thread and the other requests where they are.
LEMMA RequestMovesItself ==
  ASSUME CountTypes, NEW t \in Requests, NEW to \in RequestPlaces, Goto(t, to)
  PROVE  /\ pc'[t] = to /\ pc'[Pnp] = pc[Pnp] /\ PnpShare' = PnpShare
         /\ \A r \in Requests \ {t} : pc'[r] = pc[r] /\ (IsCounted(r)' <=> IsCounted(r))
         /\ pc' \in [Threads -> RequestPlaces \cup LivePlaces \cup DeletedPlaces]
         /\ \A r \in Requests : pc'[r] \in RequestPlaces
<1>1. /\ pc'[t] = to /\ pc'[Pnp] = pc[Pnp]
      /\ \A r \in Requests \ {t} : pc'[r] = pc[r]
      /\ pc' \in [Threads -> RequestPlaces \cup LivePlaces \cup DeletedPlaces]
      /\ \A r \in Requests : pc'[r] \in RequestPlaces
  BY IoCountAssumption DEF Goto, CountTypes, Threads
<1>2. PnpShare' = PnpShare
  BY <1>1 DEF PnpShare
<1>3. \A r \in Requests \ {t} : (IsCounted(r)' <=> IsCounted(r))
  BY <1>1 DEF IsCounted, Inside
<1> QED
  BY <1>1, <1>2, <1>3

\* What Bus_IncIoCount and Bus_DecIoCount may leave a thread to do.
LEMMA IncOwes ==
  ASSUME CountTypes, NEW t \in Threads, Inc(t)
  PROVE  /\ OutstandingIO' = OutstandingIO + 1
         /\ todo' \in [Threads -> {"none", "clear_stop", "set_stop", "set_remove"}]
         /\ \A r \in Threads : todo'[r] = "set_remove" => todo[r] = "set_remove"
BY DEF CountTypes, Inc

\* Decrementing the count: who brings it to zero owes the event of removal.
LEMMA DecOwes ==
  ASSUME CountTypes, NEW t \in Threads, Dec(t)
  PROVE  /\ OutstandingIO' = OutstandingIO - 1
         /\ todo' \in [Threads -> {"none", "clear_stop", "set_stop", "set_remove"}]
         /\ \A r \in Threads : todo'[r] = "set_remove"
                              => todo[r] = "set_remove" \/ OutstandingIO' = 0
BY DEF CountTypes, Dec

\* The share of the PnP thread is 0 only where it waits for the removal or is past it.
LEMMA ShareOfPnp ==
  ASSUME CountTypes
  PROVE  /\ PnpShare \in {0, 1, 2}
         /\ PnpShare = 0 <=> pc[Pnp] \in {"remove_wait", "destroyed"}
BY DEF PnpShare, CountTypes, LivePlaces, DeletedPlaces

\* A request arrives: it is not at work yet, nor counted.
LEMMA ArriveKeeps ==
  ASSUME CountInv, NEW t \in Requests, Arrive(t)
  PROVE  CountInv'
<1> USE DEF CountInv
<1>1. pc[t] = "idle" /\ Goto(t, "enter") /\ "enter" \in RequestPlaces
  BY DEF Arrive, At, RequestPlaces
<1>2. CountTypes'
  BY <1>1, RequestMovesItself DEF Arrive, CountTypes
<1>3. Counted' = Counted
  <2>1. ~IsCounted(t) /\ ~IsCounted(t)'
    BY <1>1, RequestMovesItself DEF IsCounted, Inside
  <2> QED
    BY <2>1, <1>1, RequestMovesItself, CountedStays
<1>4. Exact' /\ DeletedSince'
  BY <1>1, <1>3, RequestMovesItself DEF Arrive, Exact, DeletedSince
<1>5. Signalled'
  <2>1. \A r \in Requests \ {t} : kind'[r] = kind[r]
    BY DEF Arrive, CountTypes
  <2> QED
    BY <1>1, <2>1, RequestMovesItself DEF Arrive, Signalled, RemoveSignalled, NobodyAtWork
<1> QED
  BY <1>2, <1>4, <1>5

\* It counts itself: only Bus_Power does so after the test of the state.
LEMMA EnterKeeps ==
  ASSUME CountInv, NEW t \in Requests, Enter(t)
  PROVE  CountInv'
<1> USE DEF CountInv
<1>1. PICK to \in {"check", "busy"} :
        /\ Goto(t, to) /\ pc[t] \in {"enter", "checked"} /\ to \in RequestPlaces
        /\ to = "busy" => kind[t] = "power"
  BY DEF Enter, At, CountsFirst, RequestPlaces
<1>2. t \in Threads
  BY DEF Threads
<1>3. CountTypes'
  BY <1>1, <1>2, RequestMovesItself, IncOwes DEF Enter, CountTypes
<1>4. Cardinality(Counted') = Cardinality(Counted) + 1
  <2>1. ~IsCounted(t) /\ IsCounted(t)'
    BY <1>1, RequestMovesItself DEF IsCounted, Inside
  <2> QED
    BY <2>1, <1>1, RequestMovesItself, CountedGrows
<1>5. Exact'
  BY <1>1, <1>2, <1>4, RequestMovesItself, IncOwes, ShareOfPnp, CountedFinite DEF Enter, Exact
<1>6. DeletedSince'
  BY <1>1, RequestMovesItself DEF Enter, DeletedSince
<1>7. Signalled'
  BY <1>1, <1>2, RequestMovesItself, IncOwes DEF Enter, Signalled, RemoveSignalled, NobodyAtWork
<1> QED
  BY <1>3, <1>5, <1>6, <1>7

\* It tests the state: once the bus is deleted nobody who counts first gets to work.
LEMMA CheckKeeps ==
  ASSUME CountInv, NEW t \in Requests, Check(t)
  PROVE  CountInv'
<1> USE DEF CountInv
<1>1. PICK to \in RequestPlaces :
        /\ Goto(t, to)
        /\ \/ pc[t] = "check" /\ to \in {"busy", "leaked", "leave"}
           \/ pc[t] = "enter" /\ to \in {"checked", "over"}
        /\ to = "busy" => DevicePnPState # "Deleted"
  BY DEF Check, At, CountsFirst, RequestPlaces
<1>2. CountTypes'
  BY <1>1, RequestMovesItself DEF Check, CountTypes
<1>3. Counted' = Counted
  <2>1. IsCounted(t)' <=> IsCounted(t)
    BY <1>1, RequestMovesItself DEF IsCounted, Inside
  <2> QED
    BY <2>1, <1>1, RequestMovesItself, CountedStays
<1>4. Exact' /\ DeletedSince'
  BY <1>1, <1>3, RequestMovesItself DEF Check, Exact, DeletedSince
<1>5. Signalled'
  BY <1>1, RequestMovesItself
  DEF Check, Signalled, RemoveSignalled, NobodyAtWork, DeletedSince, DeletedPlaces
<1> QED
  BY <1>2, <1>4, <1>5

\* It is carried out.
LEMMA WorkKeeps ==
  ASSUME CountInv, NEW t \in Requests, Work(t)
  PROVE  CountInv'
<1> USE DEF CountInv
<1>1. pc[t] = "busy" /\ Goto(t, "leave") /\ "leave" \in RequestPlaces
  BY DEF Work, At, RequestPlaces
<1>2. CountTypes'
  BY <1>1, RequestMovesItself DEF Work, CountTypes
<1>3. Counted' = Counted
  <2>1. IsCounted(t)' /\ IsCounted(t)
    BY <1>1, RequestMovesItself DEF IsCounted, Inside
  <2> QED
    BY <2>1, <1>1, RequestMovesItself, CountedStays
<1>4. Exact' /\ DeletedSince' /\ Signalled'
  BY <1>1, <1>3, RequestMovesItself
  DEF Work, Exact, DeletedSince, Signalled, RemoveSignalled, NobodyAtWork
<1> QED
  BY <1>2, <1>4

\* It takes itself off the count: if that leaves 0, nobody is at work.
LEMMA RequestLeaveKeeps ==
  ASSUME CountInv, NEW t \in Requests, Leave(t)
  PROVE  CountInv'
<1> USE DEF CountInv
<1>1. pc[t] = "leave" /\ Goto(t, "over") /\ "over" \in RequestPlaces /\ t \in Threads
  BY IoCountAssumption DEF Leave, At, RequestPlaces, Threads
<1>2. CountTypes'
  BY <1>1, RequestMovesItself, DecOwes DEF Leave, CountTypes
<1>3. Cardinality(Counted') = Cardinality(Counted) - 1
  <2>1. IsCounted(t) /\ ~IsCounted(t)'
    BY <1>1, RequestMovesItself DEF IsCounted, Inside
  <2> QED
    BY <2>1, <1>1, RequestMovesItself, CountedShrinks
<1>4. Exact'
  BY <1>1, <1>3, RequestMovesItself, DecOwes, ShareOfPnp, CountedFinite DEF Leave, Exact
<1>5. DeletedSince'
  BY <1>1, RequestMovesItself DEF Leave, DeletedSince
<1>6. Signalled'
  <2>1. OutstandingIO' = 0 => NobodyAtWork'
    <3> SUFFICES ASSUME OutstandingIO' = 0 PROVE NobodyAtWork'
      OBVIOUS
    <3>1. IsFiniteSet(Counted') /\ Cardinality(Counted') \in Nat
      <4>1. Counted' \in SUBSET Requests
        BY DEF Counted
      <4> QED
        BY <4>1, FS_Subset, FS_CardinalityType, IoCountAssumption
    <3>2. PnpShare = 0 /\ Cardinality(Counted') = 0
      BY <1>1, <1>3, <3>1, RequestMovesItself, DecOwes, ShareOfPnp, CountedFinite DEF Leave, Exact
    <3>3. Counted' = {}
      BY <3>1, <3>2, FS_EmptySet
    <3> QED
      BY <1>1, <3>2, <3>3, ShareOfPnp, RequestMovesItself DEF NobodyAtWork, Counted, IsCounted, Inside
  <2>2. \A r \in Requests \ {t} : kind'[r] = kind[r]
    BY DEF Leave, CountTypes
  <2>3. NobodyAtWork => NobodyAtWork'
    BY <1>1, <2>2, RequestMovesItself DEF NobodyAtWork
  <2> QED
    BY <1>1, <2>1, <2>3, RequestMovesItself, DecOwes DEF Leave, Signalled, RemoveSignalled
<1> QED
  BY <1>2, <1>4, <1>5, <1>6

(***************************************************************************)
(* The calls on the events, and the steps of the PnP thread.               *)
(***************************************************************************)

\* RemoveEvent is set only by a thread that owes it.
LEMMA EventCallKeeps ==
  ASSUME CountInv, NEW t \in Threads, EventCall(t)
  PROVE  CountInv'
<1> USE DEF CountInv
<1>1. CountTypes'
  BY DEF EventCall, CountTypes
<1>2. Exact' /\ DeletedSince'
  BY DEF EventCall, Exact, DeletedSince, PnpShare, Counted, IsCounted, Inside
<1>3. NobodyAtWork' <=> NobodyAtWork
  BY DEF EventCall, NobodyAtWork
<1>4. RemoveSignalled' => RemoveSignalled
  BY DEF EventCall, RemoveSignalled, CountTypes
<1> QED
  BY <1>1, <1>2, <1>3, <1>4 DEF Signalled

\* A PnP step before the bus is marked as deleted, or the marking of it: no thread
\* owes the call that sets RemoveEvent, and it does not make one owe it.
LEMMA LiveStepKeeps ==
  ASSUME CountInv, NEW to, Goto(Pnp, to), CountTypes', Exact', DeletedSince',
         pc[Pnp] \in LivePlaces, RemoveEvent' = RemoveEvent, to # "destroyed",
         \A r \in Threads : todo'[r] = "set_remove" => todo[r] = "set_remove"
  PROVE  CountInv'
<1> USE DEF CountInv
<1>1. ~RemoveSignalled
  BY DEF Signalled, NobodyAtWork, LivePlaces
<1>2. pc'[Pnp] = to
  BY DEF Goto, CountTypes, Threads
<1>3. ~RemoveSignalled'
  BY <1>1, <1>2 DEF RemoveSignalled
<1> QED
  BY <1>3 DEF Signalled

\* Bus_FDO_PnP takes an IRP.
LEMMA PnpEnterKeeps ==
  ASSUME CountInv, PnpEnter
  PROVE  CountInv'
<1> USE DEF CountInv
<1>1. PICK to \in {"stop", "start", "remove"} :
        /\ Goto(Pnp, to) /\ pc[Pnp] = "idle" /\ Pnp \in Threads
        /\ to \in LivePlaces \cup DeletedPlaces
  BY DEF PnpEnter, At, Threads, LivePlaces
<1>2. pc'[Pnp] = to
  BY <1>1, PnpMovesNoRequest
<1>3. CountTypes'
  BY <1>1, <1>2, IncOwes, PnpMovesNoRequest
  DEF PnpEnter, CountTypes
<1>4. PnpShare = 1 /\ PnpShare' = 2
  BY <1>1, <1>2 DEF PnpShare
<1>5. Exact'
  BY <1>1, <1>4, IncOwes, PnpMovesNoRequest, CountedFinite DEF PnpEnter, Exact
<1>6. DeletedSince'
  BY <1>1, <1>2 DEF PnpEnter, DeletedSince, DeletedPlaces
<1> QED
  BY <1>1, <1>3, <1>5, <1>6, IncOwes, LiveStepKeeps DEF PnpEnter, LivePlaces

\* The steps that change neither the count nor what a thread owes.
LEMMA PlainStepKeeps ==
  ASSUME CountInv,
         StartSend \/ StartWait \/ StartFdo \/ StopWait \/ StopMark \/ RemoveMark
  PROVE  CountInv'
<1> USE DEF CountInv
<1>1. PICK to \in LivePlaces \cup DeletedPlaces :
        /\ to \in LivePlaces \cup {"remove_dec"} /\ Goto(Pnp, to) /\ pc[Pnp] \in LivePlaces /\ Pnp \in Threads
        /\ to = "remove_dec" <=> DevicePnPState' = "Deleted"
        /\ pc[Pnp] = "stop_wait" <=> to = "stop_waited"
        /\ pc[Pnp] \notin {"idle", "stop_waited"} /\ to \notin {"idle", "stop_wait"}
  <2>1. pc[Pnp] \in LivePlaces => DevicePnPState # "Deleted"
    BY DEF DeletedSince, LivePlaces, DeletedPlaces
  <2> QED
    BY <2>1 DEF StartSend, StartWait, StartFdo, StopWait, StopMark, RemoveMark, At, LivePlaces,
                DeletedPlaces, Threads, CountTypes
<1>2. pc'[Pnp] = to
  BY <1>1, PnpMovesNoRequest
<1>3. /\ OutstandingIO' = OutstandingIO /\ RemoveEvent' = RemoveEvent
      /\ todo' = todo /\ kind' = kind
  BY DEF StartSend, StartWait, StartFdo, StopWait, StopMark, RemoveMark
<1>4. /\ DevicePnPState' \in {"Started", "Stopped", "Deleted"}
      /\ StopEvent' \in BOOLEAN /\ lower' \in {"none", "pending", "completed"}
  BY DEF StartSend, StartWait, StartFdo, StopWait, StopMark, RemoveMark, CountTypes
<1>5. CountTypes'
  BY <1>1, <1>2, <1>3, <1>4, PnpMovesNoRequest DEF CountTypes
<1>6. PnpShare' = PnpShare
  BY <1>1, <1>2 DEF PnpShare, LivePlaces
<1>7. Exact'
  BY <1>1, <1>3, <1>6, PnpMovesNoRequest DEF Exact
<1>8. DeletedSince'
  BY <1>1, <1>2 DEF DeletedSince, LivePlaces, DeletedPlaces
<1>9. to # "destroyed"
  BY <1>1 DEF LivePlaces
<1> QED
  BY <1>1, <1>3, <1>5, <1>7, <1>8, <1>9, LiveStepKeeps

\* IRP_MN_STOP_DEVICE counts itself again.
LEMMA StopIncKeeps ==
  ASSUME CountInv, StopInc
  PROVE  CountInv'
<1> USE DEF CountInv
<1>1. /\ Goto(Pnp, "stop_mark") /\ pc[Pnp] = "stop_waited" /\ Pnp \in Threads
      /\ "stop_mark" \in LivePlaces \cup DeletedPlaces
  BY DEF StopInc, At, Threads, LivePlaces
<1>2. pc'[Pnp] = "stop_mark"
  BY <1>1, PnpMovesNoRequest
<1>3. CountTypes'
  BY <1>1, <1>2, IncOwes, PnpMovesNoRequest DEF StopInc, CountTypes
<1>4. PnpShare = 1 /\ PnpShare' = 2
  BY <1>1, <1>2 DEF PnpShare
<1>5. Exact'
  BY <1>1, <1>4, IncOwes, PnpMovesNoRequest, CountedFinite DEF StopInc, Exact
<1>6. DeletedSince'
  BY <1>1, <1>2 DEF StopInc, DeletedSince, DeletedPlaces
<1> QED
  BY <1>1, <1>3, <1>5, <1>6, IncOwes, LiveStepKeeps DEF StopInc, LivePlaces

\* A PnP IRP takes itself off the count before the removal: the bias is still there.
LEMMA LiveDecKeeps ==
  ASSUME CountInv, StopDec \/ Leave(Pnp)
  PROVE  CountInv'
<1> USE DEF CountInv
<1>1. PICK to \in {"stop_wait", "idle"} :
        /\ Goto(Pnp, to) /\ pc[Pnp] \in {"stop", "leave"} /\ Pnp \in Threads /\ Dec(Pnp)
        /\ to \in LivePlaces \cup DeletedPlaces
  BY DEF StopDec, Leave, At, Threads, LivePlaces
<1>2. pc'[Pnp] = to
  BY <1>1, PnpMovesNoRequest
<1>3. kind' = kind
  BY IoCountAssumption DEF StopDec, Leave, CountTypes
<1>4. CountTypes'
  BY <1>1, <1>2, <1>3, DecOwes, PnpMovesNoRequest
  DEF StopDec, Leave, CountTypes
<1>5. PnpShare = 2 /\ PnpShare' = 1
  BY <1>1, <1>2 DEF PnpShare
<1>6. Exact'
  BY <1>1, <1>5, DecOwes, PnpMovesNoRequest, CountedFinite DEF Exact
<1>7. OutstandingIO' # 0
  BY <1>1, <1>5, DecOwes, CountedFinite DEF Exact
<1>8. DeletedSince'
  BY <1>1, <1>2 DEF StopDec, Leave, DeletedSince, DeletedPlaces
<1>9. pc[Pnp] \in LivePlaces /\ RemoveEvent' = RemoveEvent
  BY <1>1 DEF StopDec, Leave, LivePlaces
<1> QED
  BY <1>1, <1>4, <1>6, <1>7, <1>8, <1>9, DecOwes, LiveStepKeeps

\* The removal takes itself and the bias off the count: 0 is reached only by the second
\* step, and only if no request is counted.
LEMMA RemoveDecKeeps ==
  ASSUME CountInv, RemoveDec
  PROVE  CountInv'
<1> USE DEF CountInv
<1>1. PICK to \in {"remove_bias", "remove_wait"} :
        /\ Goto(Pnp, to) /\ pc[Pnp] \in {"remove_dec", "remove_bias"}
        /\ to = "remove_wait" <=> pc[Pnp] = "remove_bias"
        /\ Pnp \in Threads /\ Dec(Pnp) /\ to \in LivePlaces \cup DeletedPlaces
  BY DEF RemoveDec, At, Threads, DeletedPlaces
<1>2. pc'[Pnp] = to
  BY <1>1, PnpMovesNoRequest
<1>3. CountTypes'
  BY <1>1, <1>2, DecOwes, PnpMovesNoRequest DEF RemoveDec, CountTypes
<1>4. PnpShare' = PnpShare - 1 /\ PnpShare \in Nat /\ PnpShare' \in Nat
      /\ (PnpShare' = 0 <=> to = "remove_wait")
  BY <1>1, <1>2 DEF PnpShare
<1>5. Exact'
  BY <1>1, <1>4, DecOwes, PnpMovesNoRequest, CountedFinite DEF Exact
<1>6. DeletedSince'
  BY <1>1, <1>2 DEF RemoveDec, DeletedSince, DeletedPlaces
<1>7. ~RemoveSignalled
  BY <1>1 DEF Signalled, NobodyAtWork
<1>8. OutstandingIO' = 0 => NobodyAtWork'
  <2> SUFFICES ASSUME OutstandingIO' = 0 PROVE NobodyAtWork'
    OBVIOUS
  <2>1. PnpShare' = 0 /\ Cardinality(Counted) = 0
    BY <1>1, <1>4, DecOwes, CountedFinite DEF Exact
  <2>2. Counted = {}
    BY <2>1, CountedFinite, FS_EmptySet
  <2>3. \A r \in Requests : pc'[r] # "busy"
    BY <1>1, <2>2, PnpMovesNoRequest DEF Counted, IsCounted, Inside
  <2> QED
    BY <1>2, <1>4, <2>1, <2>3 DEF NobodyAtWork
<1>9. RemoveSignalled' => OutstandingIO' = 0
  BY <1>1, <1>2, <1>7, DecOwes DEF RemoveDec, RemoveSignalled
<1> QED
  BY <1>3, <1>5, <1>6, <1>8, <1>9 DEF Signalled

\* RemoveEvent was set: the device object goes.
LEMMA RemoveWaitKeeps ==
  ASSUME CountInv, RemoveWait
  PROVE  CountInv'
<1> USE DEF CountInv
<1>1. /\ Goto(Pnp, "destroyed") /\ pc[Pnp] = "remove_wait" /\ RemoveEvent
      /\ "destroyed" \in LivePlaces \cup DeletedPlaces
  BY DEF RemoveWait, At, DeletedPlaces
<1>2. pc'[Pnp] = "destroyed"
  BY <1>1, PnpMovesNoRequest
<1>3. CountTypes'
  BY <1>1, <1>2, PnpMovesNoRequest DEF RemoveWait, CountTypes
<1>4. PnpShare' = PnpShare
  BY <1>1, <1>2 DEF PnpShare
<1>5. Exact' /\ DeletedSince'
  BY <1>1, <1>2, <1>4, PnpMovesNoRequest DEF RemoveWait, Exact, DeletedSince, DeletedPlaces
<1>6. NobodyAtWork'
  BY <1>1, <1>2, PnpMovesNoRequest DEF RemoveWait, Signalled, RemoveSignalled, NobodyAtWork
<1> QED
  BY <1>3, <1>5, <1>6 DEF Signalled

(***************************************************************************)
(* The theorems.                                                           *)
(***************************************************************************)

\* The count is one at first, for the device itself.
LEMMA CountInvInit == CountInit => CountInv
<1> SUFFICES ASSUME CountInit PROVE CountInv
  OBVIOUS
<1>1. Pnp \in Threads /\ Requests \subseteq Threads
  BY DEF Threads
<1>2. CountTypes
  <2>1. /\ "idle" \in RequestPlaces \cup LivePlaces \cup DeletedPlaces
        /\ "idle" \in RequestPlaces /\ "idle" \in LivePlaces \cup DeletedPlaces
    BY DEF RequestPlaces, LivePlaces
  <2>2. pc \in [Threads -> RequestPlaces \cup LivePlaces \cup DeletedPlaces]
    BY <2>1 DEF CountInit
  <2>3. pc[Pnp] = "idle" /\ \A t \in Requests : pc[t] = "idle"
    BY <1>1 DEF CountInit
  <2>4. /\ todo \in [Threads -> {"none", "clear_stop", "set_stop", "set_remove"}]
        /\ kind \in [Requests -> Kinds \cup {"none"}]
    <3>1. "none" \in Kinds \cup {"none"} /\ "none" \in {"none", "clear_stop", "set_stop", "set_remove"}
      OBVIOUS
    <3>2. todo \in [Threads -> {"none", "clear_stop", "set_stop", "set_remove"}]
      BY <3>1 DEF CountInit
    <3>3. kind \in [Requests -> Kinds \cup {"none"}]
      BY <3>1, Zenon DEF CountInit
    <3> QED
      BY <3>2, <3>3
  <2>5. /\ DevicePnPState \in {"Started", "Stopped", "Deleted"} /\ OutstandingIO \in Int
        /\ lower \in {"none", "pending", "completed"}
    BY DEF CountInit
  <2>6. StopEvent \in BOOLEAN /\ RemoveEvent \in BOOLEAN
    BY Zenon DEF CountInit
  <2> QED
    BY <2>1, <2>2, <2>3, <2>4, <2>5, <2>6 DEF CountTypes
<1>3. Counted = {}
  BY <1>1 DEF CountInit, Counted, IsCounted, Inside
<1>4. Exact
  BY <1>1, <1>3, FS_EmptySet DEF CountInit, Exact, PnpShare
<1>5. DeletedSince /\ Signalled
  BY <1>1 DEF CountInit, DeletedSince, DeletedPlaces, Signalled, RemoveSignalled
<1> QED
  BY <1>2, <1>4, <1>5 DEF CountInv

\* Every step keeps CountInv.
LEMMA CountInvStep == CountInv /\ [CountNext]_countVars => CountInv'
<1> SUFFICES ASSUME CountInv, [CountNext]_countVars PROVE CountInv'
  OBVIOUS
<1>1. ASSUME NEW t \in Requests, Arrive(t) \/ RequestRuns(t) PROVE CountInv'
  <2>1. t \in Threads
    BY DEF Threads
  <2> QED
    BY <1>1, <2>1, ArriveKeeps, EnterKeeps, CheckKeeps, WorkKeeps, RequestLeaveKeeps,
       EventCallKeeps DEF RequestRuns
<1>2. CASE PnpEnter
  BY <1>2, PnpEnterKeeps
<1>3. CASE PnpRuns
  <2>1. Pnp \in Threads
    BY DEF Threads
  <2> QED
    BY <1>3, <2>1, PlainStepKeeps, StopIncKeeps, LiveDecKeeps, RemoveDecKeeps, RemoveWaitKeeps,
       EventCallKeeps DEF PnpRuns
<1>4. CASE LowerCompletes \/ UNCHANGED countVars
  <2>1. /\ UNCHANGED <<DevicePnPState, OutstandingIO, StopEvent, RemoveEvent, pc, todo, kind>>
        /\ lower' \in {lower, "completed"}
    BY <1>4 DEF LowerCompletes, countVars
  <2> QED
    BY <2>1 DEF CountInv, CountTypes, Exact, DeletedSince, Signalled, RemoveSignalled, NobodyAtWork,
                PnpShare, Counted, IsCounted, Inside
<1> QED
  BY <1>1, <1>2, <1>3, <1>4 DEF CountNext

\* The inductive invariant of the count: whose share is in it, since when the bus is
\* deleted, and what a set RemoveEvent says.
THEOREM CountInvariant == CountSpec => []CountInv
BY CountInvInit, CountInvStep, PTL DEF CountSpec

\* Bus_IncIoCount and Bus_DecIoCount keep the count of the requests inside the driver: it
\* never falls below 0, and reaches 0 only for a deleted bus.
THEOREM CountIsAlwaysExact == CountSpec => []CountIsExact
<1>1. CountInv => CountIsExact
  <2> SUFFICES ASSUME CountInv PROVE CountIsExact
    OBVIOUS
  <2>1. Counted = {t \in Requests : Inside(t) \/ pc[t] = "leaked"}
    BY DEF Counted, IsCounted
  <2>2. OutstandingIO = 0 => PnpShare = 0
    BY CountedFinite, ShareOfPnp DEF CountInv, Exact
  <2> QED
    BY <2>1, <2>2, ShareOfPnp DEF CountInv, Exact, CountIsExact, DeletedSince, DeletedPlaces
<1> QED
  BY <1>1, CountInvariant, PTL

\* IRP_MN_REMOVE_DEVICE of the bus does not delete the device object under a request
\* that a routine counted and then admitted.
THEOREM RemovalWaits == CountSpec => []RemoveWaitsForAdmitted
<1>1. CountInv => RemoveWaitsForAdmitted
  BY DEF CountInv, Signalled, RemoveSignalled, NobodyAtWork, RemoveWaitsForAdmitted
<1> QED
  BY <1>1, CountInvariant, PTL

(***************************************************************************)
(* The waits of the PnP thread.                                            *)
(*                                                                         *)
(* That a wait ends is a matter of fairness.  What makes it end is not:    *)
(* while the thread waits for an event that is not set, somebody else has  *)
(* yet to set it.  The calls on StopEvent may be made in another order     *)
(* than the changes of the count they belong to; no signal is lost, since  *)
(* a thread that has yet to clear the event is itself on the count.        *)
(***************************************************************************)

ClearsInside ==
  \A t \in Threads : todo[t] = "clear_stop" => IF t = Pnp THEN PnpShare = 2 ELSE t \in Counted

NobodyLeft(call) == Counted = {} /\ \A t \in Threads : todo[t] # call

StopSignalled ==
  PnpShare = 1 /\ pc[Pnp] # "stop_waited" /\ NobodyLeft("set_stop") => StopEvent

RemovalSignalled == pc[Pnp] = "remove_wait" /\ NobodyLeft("set_remove") => RemoveEvent

LowerAnswers == pc[Pnp] = "start_wait" => lower # "none"

WaitInv == ClearsInside /\ StopSignalled /\ RemovalSignalled /\ LowerAnswers

LEMMA PnpIsAThread == Pnp \in Threads /\ Threads = Requests \cup {Pnp} /\ Pnp \notin Requests
  BY IoCountAssumption DEF Threads

LEMMA WaitInvInit == CountInit => WaitInv
<1> SUFFICES ASSUME CountInit PROVE WaitInv
  OBVIOUS
<1>1. pc[Pnp] = "idle" /\ StopEvent /\ \A t \in Threads : todo[t] = "none"
  BY PnpIsAThread DEF CountInit
<1> QED
  BY <1>1 DEF WaitInv, ClearsInside, StopSignalled, RemovalSignalled, LowerAnswers

\* A step that changes neither the count nor what a thread owes.
LEMMA PlainRequestWaits ==
  ASSUME CountInv, WaitInv, NEW t \in Requests, Arrive(t) \/ Check(t) \/ Work(t)
  PROVE  WaitInv'
<1>1. PICK to \in RequestPlaces :
        Goto(t, to) /\ (pc[t] \in {"check", "busy"} <=> to \in {"busy", "leaked", "leave"})
  BY DEF Arrive, Check, Work, At, CountsFirst, RequestPlaces
<1>2. pc[t] \in {"idle", "enter", "check", "busy"}
  BY DEF Arrive, Check, Work, At
<1>3. pc'[Pnp] = pc[Pnp] /\ PnpShare' = PnpShare /\ Counted' = Counted
  <2>1. to \notin {"check"}
    BY <1>1, <1>2 DEF Arrive, Check, Work, At, CountsFirst, Goto, CountInv, CountTypes, Threads
  <2>2. IsCounted(t)' <=> IsCounted(t)
    BY <1>1, <1>2, <2>1, RequestMovesItself DEF CountInv, IsCounted, Inside
  <2> QED
    BY <1>1, <2>2, RequestMovesItself, CountedStays DEF CountInv
<1>4. UNCHANGED <<StopEvent, RemoveEvent, todo, lower>>
  BY DEF Arrive, Check, Work
<1> QED
  BY <1>3, <1>4 DEF WaitInv, ClearsInside, StopSignalled, RemovalSignalled, LowerAnswers, NobodyLeft

\* Bus_IncIoCount of a request: it is on the count when it owes the call that clears StopEvent.
LEMMA EnterWaits ==
  ASSUME CountInv, WaitInv, NEW t \in Requests, Enter(t)
  PROVE  WaitInv'
<1>1. PICK to \in {"check", "busy"} : Goto(t, to)
  BY DEF Enter
<1>2. /\ pc'[Pnp] = pc[Pnp] /\ PnpShare' = PnpShare
      /\ t \in Counted' /\ Counted \subseteq Counted'
  <2>1. to \in RequestPlaces
    BY DEF RequestPlaces
  <2> QED
    BY <1>1, <2>1, RequestMovesItself DEF CountInv, Counted, IsCounted, Inside
<1>3. \A r \in Threads \ {t} : todo'[r] = todo[r]
  BY DEF Enter, Inc, CountInv, CountTypes
<1>4. ClearsInside'
  BY <1>2, <1>3, PnpIsAThread DEF WaitInv, ClearsInside
<1>5. LowerAnswers'
  BY <1>2 DEF Enter, WaitInv, LowerAnswers
<1> QED
  BY <1>2, <1>4, <1>5 DEF WaitInv, StopSignalled, RemovalSignalled, NobodyLeft

\* Bus_DecIoCount: who leaves nobody on the count owes the call that sets the event.
LEMMA LastOneOwes ==
  ASSUME CountInv, CountInv', NEW t \in Threads, Dec(t), Counted' = {}
  PROVE  /\ PnpShare' = 1 => todo'[t] = "set_stop"
         /\ PnpShare' = 0 => todo'[t] = "set_remove"
<1>1. OutstandingIO' = PnpShare'
  <2>1. Cardinality(Counted') = 0
    BY FS_EmptySet
  <2>2. PnpShare' \in {0, 1, 2}
    BY ShareOfPnp DEF CountInv, PnpShare
  <2> QED
    BY <2>1, <2>2 DEF CountInv, Exact
<1>2. OutstandingIO' = OutstandingIO - 1
  BY DEF Dec
<1>3. todo'[t] = CASE OutstandingIO - 1 = 1 -> "set_stop"
                   [] OutstandingIO - 1 = 0 -> "set_remove"
                   [] OTHER -> "none"
  BY DEF Dec, CountInv, CountTypes
<1> QED
  BY <1>1, <1>2, <1>3

LEMMA DecClearsNot ==
  ASSUME CountInv, NEW t \in Threads, Dec(t)
  PROVE  /\ todo'[t] # "clear_stop"
         /\ \A r \in Threads \ {t} : todo'[r] = todo[r]
  BY DEF Dec, CountInv, CountTypes

LEMMA RequestLeaveWaits ==
  ASSUME CountInv, CountInv', WaitInv, NEW t \in Requests, Leave(t)
  PROVE  WaitInv'
<1>1. Goto(t, "over") /\ Dec(t) /\ t \in Threads /\ "over" \in RequestPlaces
  BY PnpIsAThread DEF Leave, RequestPlaces
<1>2. /\ pc'[Pnp] = pc[Pnp] /\ PnpShare' = PnpShare
      /\ \A r \in Requests \ {t} : r \in Counted' <=> r \in Counted
  BY <1>1, RequestMovesItself DEF CountInv, Counted
<1>3. ClearsInside'
  BY <1>1, <1>2, DecClearsNot, PnpIsAThread DEF WaitInv, ClearsInside
<1>4. StopSignalled'
  BY <1>1, LastOneOwes DEF StopSignalled, NobodyLeft
<1>5. RemovalSignalled'
  <2>1. pc'[Pnp] = "remove_wait" => PnpShare' = 0
    BY DEF PnpShare
  <2> QED
    BY <1>1, <2>1, LastOneOwes DEF RemovalSignalled, NobodyLeft
<1>6. LowerAnswers'
  BY <1>2 DEF Leave, WaitInv, LowerAnswers
<1> QED
  BY <1>3, <1>4, <1>5, <1>6 DEF WaitInv

\* A call on an event: StopEvent is not cleared after the last one has set it.
LEMMA EventCallWaits ==
  ASSUME CountInv, WaitInv, NEW t \in Threads, EventCall(t)
  PROVE  WaitInv'
<1>1. /\ pc' = pc /\ PnpShare' = PnpShare /\ Counted' = Counted /\ lower' = lower
      /\ todo'[t] = "none" /\ \A r \in Threads \ {t} : todo'[r] = todo[r]
  BY DEF EventCall, CountInv, CountTypes, PnpShare, Counted, IsCounted, Inside
<1>2. ClearsInside' /\ LowerAnswers'
  BY <1>1 DEF WaitInv, ClearsInside, LowerAnswers
<1>3. StopSignalled'
  <2> SUFFICES ASSUME PnpShare = 1, pc[Pnp] # "stop_waited", Counted = {},
                      \A r \in Threads \ {t} : todo[r] # "set_stop"
               PROVE  StopEvent'
    BY <1>1 DEF StopSignalled, NobodyLeft
  <2>1. CASE todo[t] = "set_stop"
    BY <2>1 DEF EventCall
  <2>2. CASE todo[t] = "clear_stop"
    BY <2>2 DEF WaitInv, ClearsInside
  <2>3. CASE todo[t] \notin {"set_stop", "clear_stop"}
    <3>1. StopEvent' = StopEvent
      BY <2>3 DEF EventCall
    <3>2. StopEvent
      BY <2>3 DEF WaitInv, StopSignalled, NobodyLeft
    <3> QED
      BY <3>1, <3>2
  <2> QED
    BY <2>1, <2>2, <2>3
<1>4. RemovalSignalled'
  BY <1>1 DEF EventCall, WaitInv, RemovalSignalled, NobodyLeft
<1> QED
  BY <1>2, <1>3, <1>4 DEF WaitInv

\* The PnP thread counts its IRP, for the first time or again.
LEMMA PnpIncWaits ==
  ASSUME CountInv, WaitInv, PnpEnter \/ StopInc
  PROVE  WaitInv'
<1>1. PICK to \in {"stop", "start", "remove", "stop_mark"} : Goto(Pnp, to)
  BY DEF PnpEnter, StopInc
<1>2. /\ pc'[Pnp] = to /\ Counted' = Counted
      /\ \A r \in Requests : todo'[r] = todo[r]
  <2>1. to \in LivePlaces
    BY DEF LivePlaces
  <2>2. \A r \in Requests : todo'[r] = todo[r]
    BY PnpIsAThread DEF PnpEnter, StopInc, Inc, CountInv, CountTypes
  <2> QED
    BY <1>1, <2>1, <2>2, PnpMovesNoRequest DEF CountInv
<1>3. PnpShare' = 2
  BY <1>2 DEF PnpShare
<1> QED
  BY <1>2, <1>3, PnpIsAThread
  DEF WaitInv, ClearsInside, StopSignalled, RemovalSignalled, LowerAnswers

\* It takes its IRP, or the bias, off the count.
LEMMA PnpDecWaits ==
  ASSUME CountInv, CountInv', WaitInv, StopDec \/ Leave(Pnp) \/ RemoveDec
  PROVE  WaitInv'
<1>1. PICK to \in {"stop_wait", "idle", "remove_bias", "remove_wait"} : Goto(Pnp, to) /\ Dec(Pnp)
  BY DEF StopDec, Leave, RemoveDec
<1>2. pc'[Pnp] = to /\ Counted' = Counted
  <2>1. to \in LivePlaces \cup DeletedPlaces
    BY DEF LivePlaces, DeletedPlaces
  <2> QED
    BY <1>1, <2>1, PnpMovesNoRequest DEF CountInv
<1>3. ClearsInside'
  BY <1>1, <1>2, DecClearsNot, PnpIsAThread DEF WaitInv, ClearsInside
<1>4. StopSignalled'
  BY <1>1, LastOneOwes, PnpIsAThread DEF StopSignalled, NobodyLeft
<1>5. RemovalSignalled'
  <2>1. pc'[Pnp] = "remove_wait" => PnpShare' = 0
    BY DEF PnpShare
  <2> QED
    BY <1>1, <2>1, LastOneOwes, PnpIsAThread DEF RemovalSignalled, NobodyLeft
<1>6. LowerAnswers'
  BY <1>2 DEF LowerAnswers
<1> QED
  BY <1>3, <1>4, <1>5, <1>6 DEF WaitInv

\* Its other steps: an event that was waited for is cleared by the wait, which then is over.
LEMMA PnpPlainWaits ==
  ASSUME CountInv, WaitInv,
         StartSend \/ StartWait \/ StartFdo \/ StopWait \/ StopMark \/ RemoveMark \/ RemoveWait
  PROVE  WaitInv'
<1>1. PICK to \in LivePlaces \cup DeletedPlaces :
        /\ Goto(Pnp, to)
        /\ to \in {"start_wait", "started_below", "leave", "stop_waited", "remove_dec", "destroyed"}
        /\ to = "start_wait" => lower' = "pending"
        /\ UNCHANGED todo /\ todo[Pnp] = "none"
  BY DEF StartSend, StartWait, StartFdo, StopWait, StopMark, RemoveMark, RemoveWait, At,
         LivePlaces, DeletedPlaces
<1>2. pc'[Pnp] = to /\ Counted' = Counted
  BY <1>1, PnpMovesNoRequest DEF CountInv
<1>3. ClearsInside'
  BY <1>1, <1>2, PnpIsAThread DEF WaitInv, ClearsInside
<1>4. StopSignalled' /\ RemovalSignalled' /\ LowerAnswers'
  BY <1>1, <1>2 DEF PnpShare, StopSignalled, RemovalSignalled, LowerAnswers
<1> QED
  BY <1>3, <1>4 DEF WaitInv

LEMMA WaitInvNext == CountInv /\ CountInv' /\ WaitInv /\ [CountNext]_countVars => WaitInv'
<1> SUFFICES ASSUME CountInv, CountInv', WaitInv, [CountNext]_countVars PROVE WaitInv'
  OBVIOUS
<1>1. ASSUME NEW t \in Requests, Arrive(t) \/ RequestRuns(t) PROVE WaitInv'
  BY <1>1, PnpIsAThread, PlainRequestWaits, EnterWaits, RequestLeaveWaits, EventCallWaits
  DEF RequestRuns
<1>2. CASE PnpEnter
  BY <1>2, PnpIncWaits
<1>3. CASE PnpRuns
  BY <1>3, PnpIsAThread, PnpIncWaits, PnpDecWaits, PnpPlainWaits, EventCallWaits DEF PnpRuns
<1>4. CASE LowerCompletes \/ UNCHANGED countVars
  <2>1. /\ UNCHANGED <<StopEvent, RemoveEvent, pc, todo>> /\ lower' \in {lower, "completed"}
    BY <1>4 DEF LowerCompletes, countVars
  <2> QED
    BY <2>1 DEF WaitInv, ClearsInside, StopSignalled, RemovalSignalled, LowerAnswers, NobodyLeft,
                PnpShare, Counted, IsCounted, Inside
<1> QED
  BY <1>1, <1>2, <1>3, <1>4 DEF CountNext

\* While the PnP thread waits, the wait is over or somebody else has yet to do what ends it:
\* to set the event, to leave the driver, or, below, to complete the IRP.
EventIsToCome(event, call) ==
  event \/ (\E t \in Requests : Inside(t) \/ pc[t] = "leaked") \/ \E t \in Threads : todo[t] = call

NoWaitForNothing ==
  /\ pc[Pnp] = "stop_wait" => EventIsToCome(StopEvent, "set_stop")
  /\ pc[Pnp] = "remove_wait" => EventIsToCome(RemoveEvent, "set_remove")
  /\ pc[Pnp] = "start_wait" => lower # "none"

\* Whatever order the calls of KeSetEvent and KeClearEvent take after the changes of the count,
\* no signal is lost: what WaitsEnd leaves to the fairness of the threads is only that they run.
THEOREM NoSignalIsLost == CountSpec => []NoWaitForNothing
<1>1. WaitInv => NoWaitForNothing
  BY DEF WaitInv, StopSignalled, RemovalSignalled, LowerAnswers, NobodyLeft, NoWaitForNothing,
         EventIsToCome, PnpShare, Counted, IsCounted
<1>2. CountSpec => []WaitInv
  BY CountInvariant, WaitInvInit, WaitInvNext, PTL DEF CountSpec
<1> QED
  BY <1>1, <1>2, PTL

(***************************************************************************)
(* The users of a PDO's interface.                                         *)
(*                                                                         *)
(* UsersHoldOffRemoval is not inductive: it does not say that the count    *)
(* that QUERY_REMOVE looks at is the number of references, nor that a      *)
(* removal which is taken back leads to the state before it was asked for. *)
(***************************************************************************)

PnpStates == {"NotStarted", "Started", "StopPending", "Stopped", "RemovePending",
              "SurpriseRemovePending", "Deleted"}

PdoTypes ==
  /\ pnp \in PnpStates \X PnpStates
  /\ refs \in Nat /\ users \in Nat /\ late \in Nat
  /\ asked \in BOOLEAN

\* Pending states are entered from the started one only.
PendingFromStarted ==
  /\ asked => pnp[1] = "Started"
  /\ pnp[1] \in {"RemovePending", "StopPending"} => pnp[2] = "Started"

\* The references that are out were taken since the count was found zero.
OnlyLateOnes ==
  asked \/ pnp[1] = "RemovePending" \/ pnp = <<"Deleted", "RemovePending">> => users <= late

PdoInv == PdoTypes /\ refs = users /\ PendingFromStarted /\ OnlyLateOnes

\* Taking and giving back a reference keeps the count and the references together.
LEMMA ReferencesKeep ==
  ASSUME PdoInv, Query \/ InterfaceReference \/ InterfaceDereference
  PROVE  PdoInv'
<1> USE DEF PdoInv
<1>1. ASSUME NEW n \in {0, 1}, Exists, Taken(n), refs' = refs + n,
             UNCHANGED <<pnp, flags, power, asked>>
      PROVE  PdoInv'
  <2>1. PdoTypes' /\ refs' = users' /\ PendingFromStarted'
    BY <1>1 DEF Taken, PdoTypes, PendingFromStarted
  <2>2. OnlyLateOnes'
    BY <1>1 DEF Taken, PdoTypes, OnlyLateOnes, Exists
  <2> QED
    BY <2>1, <2>2
<1>2. CASE Query
  <2>1. PICK q \in Queries : /\ refs' = CountsInterface(q = <<"interface", "usbdi">>)
                             /\ Taken(IF q = <<"interface", "usbdi">> THEN 1 ELSE 0)
    BY <1>2 DEF Query
  <2>2. CASE q = <<"interface", "usbdi">>
    BY <1>1, <1>2, <2>1, <2>2 DEF Query, CountsInterface, PdoTypes
  <2>3. CASE q # <<"interface", "usbdi">>
    BY <1>1, <1>2, <2>1, <2>3 DEF Query, CountsInterface, PdoTypes
  <2> QED
    BY <2>2, <2>3
<1>3. CASE InterfaceReference
  BY <1>1, <1>3 DEF InterfaceReference
<1>4. CASE InterfaceDereference
  BY <1>4 DEF InterfaceDereference, PdoTypes, PendingFromStarted, OnlyLateOnes
<1> QED
  BY <1>2, <1>3, <1>4

\* The steps of a removal: it is agreed to only while asked, and taken back to the
\* started state.
LEMMA RemovalKeeps ==
  ASSUME PdoInv, QueryRemoveAsks \/ QueryRemoveAgrees \/ CancelRemove \/ RemoveDevice
  PROVE  PdoInv'
<1> USE DEF PdoInv, PdoTypes, PendingFromStarted, OnlyLateOnes, SetPnp, Quiet
<1>1. CASE QueryRemoveAsks
  <2>1. users' = 0 /\ refs' = 0 /\ late' = 0 /\ asked' /\ pnp' = pnp /\ pnp[1] = "Started"
    BY <1>1 DEF QueryRemoveAsks
  <2> QED
    BY <2>1, <1>1 DEF QueryRemoveAsks
<1>2. CASE QueryRemoveAgrees
  BY <1>2 DEF QueryRemoveAgrees, PnpStates
<1>3. CASE CancelRemove
  BY <1>3 DEF CancelRemove
<1>4. CASE RemoveDevice
  BY <1>4 DEF RemoveDevice, PnpStates
<1> QED
  BY <1>1, <1>2, <1>3, <1>4

\* The other states of a device lead to no removal that was agreed to.
LEMMA LifeKeeps ==
  ASSUME PdoInv, StartDevice \/ StopDevice \/ SurpriseRemoval \/ GoesMissing \/ SetPower
  PROVE  PdoInv'
<1> USE DEF PdoInv, PdoTypes, PendingFromStarted, OnlyLateOnes, SetPnp, Quiet
<1>1. CASE StartDevice
  BY <1>1 DEF StartDevice, PnpStates
<1>2. CASE StopDevice
  BY <1>2 DEF StopDevice, PnpStates
<1>3. CASE SurpriseRemoval
  BY <1>3 DEF SurpriseRemoval, PnpStates
<1>4. CASE GoesMissing \/ SetPower
  BY <1>4 DEF GoesMissing, SetPower
<1> QED
  BY <1>1, <1>2, <1>3, <1>4

\* However the calls of the interface interleave with the PnP manager's requests, the
\* count is the number of references out, and an orderly removal that was agreed to meets
\* only references taken after the count was found zero.
THEOREM UsersHoldOff == PdoSpec => []UsersHoldOffRemoval
<1>1. PdoInit => PdoInv
  <2> SUFFICES ASSUME PdoInit PROVE PdoInv
    OBVIOUS
  <2>1. pnp = <<"NotStarted", "NotStarted">> /\ refs = 0 /\ users = 0 /\ ~asked /\ late = 0
    BY DEF PdoInit
  <2>2. PdoTypes
    <3>1. asked \in BOOLEAN
      BY Zenon DEF PdoInit
    <3>2. pnp \in PnpStates \X PnpStates
      BY <2>1 DEF PnpStates
    <3> QED
      BY <2>1, <3>1, <3>2 DEF PdoTypes
  <2>3. PendingFromStarted /\ OnlyLateOnes
    BY <2>1 DEF PendingFromStarted, OnlyLateOnes
  <2> QED
    BY <2>1, <2>2, <2>3 DEF PdoInv
<1>2. PdoInv /\ [PdoNext]_pdoVars => PdoInv'
  <2> SUFFICES ASSUME PdoInv, [PdoNext]_pdoVars PROVE PdoInv'
    OBVIOUS
  <2>1. CASE PdoNext
    BY <2>1, ReferencesKeep, RemovalKeeps, LifeKeeps DEF PdoNext
  <2>2. CASE UNCHANGED pdoVars
    BY <2>2 DEF pdoVars, PdoInv, PdoTypes, PendingFromStarted, OnlyLateOnes
  <2> QED
    BY <2>1, <2>2
<1>3. PdoInv => UsersHoldOffRemoval
  BY DEF PdoInv, OnlyLateOnes, UsersHoldOffRemoval
<1> QED
  BY <1>1, <1>2, <1>3, PTL DEF PdoSpec

(***************************************************************************)
(* The answers of a PDO.                                                   *)
(***************************************************************************)

\* The last answer is one that Bus_PDO_PnP gives.
AnswerIsResult ==
  \E q \in Queries, before \in Before, more \in BOOLEAN :
    answer = [query |-> q, before |-> before, now |-> Result(q, before, more)]

\* What AnswersWhole asks of an answer.
Whole(q, before, now) ==
  /\ NotKnown(q) => now = before
  /\ now.status \notin {"success", before.status} => now.info = before.info
  /\ WantsData(q) /\ now.status = "success" => now.info # "none"

\* The sorts of a query.
LEMMA QuerySorts ==
  ASSUME NEW q \in Queries
  PROVE  \/ q[1] = "id" /\ q = <<"id", q[2]>>
         \/ q[1] = "text" /\ q = <<"text", q[2]>>
         \/ q[1] = "relations" /\ q = <<"relations", q[2]>>
         \/ q[1] = "capabilities" /\ q = <<"capabilities", q[2]>>
         \/ q[1] = "interface" /\ q = <<"interface", q[2]>>
         \/ q[1] \in {"resources", "requirements", "bus", "usage", "unknown"} /\ q[2] = "any"
BY DEF Queries

\* Memory that was got holds the answer; without it nothing but the status changes.
LEMMA AllocatedIsWhole ==
  ASSUME NEW q \in Queries, NEW before \in Before, NEW memory \in BOOLEAN, ~NotKnown(q)
  PROVE  Whole(q, before, Allocated(before, memory))
<1>1. CASE memory
  BY <1>1 DEF Allocated, Whole
<1>2. CASE ~memory
  BY <1>2 DEF Allocated, Whole, Before
<1> QED
  BY <1>1, <1>2

\* Each handler of Bus_PDO_PnP answers whole.
LEMMA ResultIsWhole ==
  ASSUME NEW q \in Queries, NEW before \in Before, NEW more \in BOOLEAN
  PROVE  Whole(q, before, Result(q, before, more))
<1> DEFINE now == Result(q, before, more)
<1>1. CASE q[1] = "id"
  <2>1. now = QueryDeviceId(q[2], before, more)
    BY <1>1 DEF Result
  <2>2. CASE q[2] = "container"
    BY <1>1, <2>1, <2>2, QuerySorts DEF QueryDeviceId, Whole, Before, NotKnown, WantsData
  <2>3. CASE q[2] = "other"
    BY <1>1, <2>1, <2>3 DEF QueryDeviceId, Whole, Before, WantsData
  <2>4. CASE q[2] \notin {"container", "other"}
    BY <1>1, <2>1, <2>4, AllocatedIsWhole DEF QueryDeviceId, NotKnown
  <2> QED
    BY <2>2, <2>3, <2>4
<1>2. CASE q[1] = "text"
  <2>1. now = QueryDeviceText(q[2], before, more)
    BY <1>2 DEF Result
  <2>2. CASE q[2] = "other" \/ before.info # "none"
    BY <1>2, <2>1, <2>2 DEF QueryDeviceText, Whole, Before, WantsData, NotKnown
  <2>3. CASE ~(q[2] = "other" \/ before.info # "none")
    BY <1>2, <2>1, <2>3, AllocatedIsWhole DEF QueryDeviceText, NotKnown
  <2> QED
    BY <2>2, <2>3
<1>3. CASE q[1] = "relations"
  <2>1. now = QueryDeviceRelations(q[2], before, more)
    BY <1>3 DEF Result
  <2>2. CASE q[2] = "target"
    BY <1>3, <2>1, <2>2, AllocatedIsWhole DEF QueryDeviceRelations, NotKnown
  <2>3. CASE q[2] # "target"
    <3>1. q[2] = "other"
      BY <1>3, <2>3 DEF Queries
    <3> QED
      BY <1>3, <2>1, <3>1 DEF QueryDeviceRelations, Whole, Before, WantsData
  <2> QED
    BY <2>2, <2>3
<1>4. CASE q[1] = "capabilities"
  BY <1>4 DEF Result, QueryDeviceCaps, Whole, Before, WantsData, NotKnown
<1>5. CASE q[1] = "interface"
  <2>1. now = QueryInterface(q[2], before)
    BY <1>5 DEF Result
  <2> QED
    BY <1>5, <2>1 DEF QueryInterface, Whole, Before, WantsData, NotKnown
<1>6. CASE q[1] = "bus"
  <2>1. now = Allocated(before, more)
    BY <1>6 DEF Result
  <2> QED
    BY <1>6, <2>1, AllocatedIsWhole DEF NotKnown
<1>7. CASE q[1] \in {"requirements", "usage"}
  BY <1>7 DEF Result, Whole, Before, WantsData, NotKnown
<1>8. CASE q[1] \in {"resources", "unknown"}
  BY <1>8 DEF Result, Whole, Before, WantsData
<1> QED
  BY <1>1, <1>2, <1>3, <1>4, <1>5, <1>6, <1>7, <1>8, QuerySorts

\* Whatever is asked, and whatever drivers above have put into the IRP, with memory or
\* without: the handlers of Bus_PDO_PnP leave alone what they do not know, and neither
\* fail with an answer nor succeed without one.
THEOREM AnswersAreWhole == PdoSpec => []AnswersWhole
<1>1. PdoInit => AnswerIsResult
  <2> SUFFICES ASSUME PdoInit PROVE AnswerIsResult
    OBVIOUS
  <2> DEFINE q == <<"unknown", "any">>
             before == [status |-> "success", info |-> "none"]
  <2>1. q \in Queries /\ before \in Before /\ TRUE \in BOOLEAN
    BY DEF Queries, Before
  <2>2. Result(q, before, TRUE) = before
    BY DEF Result
  <2>3. answer = [query |-> q, before |-> before, now |-> Result(q, before, TRUE)]
    BY <2>2 DEF PdoInit
  <2> HIDE DEF q, before
  <2> QED
    BY <2>1, <2>3 DEF AnswerIsResult
<1>2. AnswerIsResult /\ [PdoNext]_pdoVars => AnswerIsResult'
  <2> SUFFICES ASSUME AnswerIsResult, [PdoNext]_pdoVars PROVE AnswerIsResult'
    OBVIOUS
  <2>1. CASE Query
    BY <2>1 DEF Query, AnswerIsResult
  <2>2. CASE ~Query
    <3>1. answer' = answer
      BY <2>2 DEF PdoNext, pdoVars, InterfaceReference, InterfaceDereference, StartDevice,
                  StopDevice, QueryRemoveAsks, QueryRemoveAgrees, CancelRemove, GoesMissing,
                  SurpriseRemoval, RemoveDevice, SetPower, Quiet
    <3> QED
      BY <3>1 DEF AnswerIsResult
  <2> QED
    BY <2>1, <2>2
<1>3. AnswerIsResult => AnswersWhole
  <2> SUFFICES ASSUME NEW q \in Queries, NEW before \in Before, NEW more \in BOOLEAN,
                      answer = [query |-> q, before |-> before,
                                now |-> Result(q, before, more)]
               PROVE  AnswersWhole
    BY DEF AnswerIsResult
  <2>1. answer.query = q /\ answer.before = before /\ answer.now = Result(q, before, more)
    OBVIOUS
  <2>2. Whole(q, before, Result(q, before, more))
    BY ResultIsWhole
  <2> QED
    BY <2>1, <2>2 DEF AnswersWhole, Whole
<1> QED
  BY <1>1, <1>2, <1>3, PTL DEF PdoSpec

\* What Bus_PDO_QueryDeviceCaps makes of any map of the parent's: in each state of the
\* system the device is as unpowered as its parent, except that S1 is D1.
THEOREM CapsRestrict == CapsRestrictParent
BY DEF CapsRestrictParent, DeviceState

(***************************************************************************)
(* The endpoints of a device.                                              *)
(*                                                                         *)
(* What driver and server find in the descriptors is computed by           *)
(* recursion along the interfaces.  For a WellFormed device the value at   *)
(* each interface is known beforehand; that the recursive function has     *)
(* it is Climbs, an induction over the set of interfaces for which it      *)
(* does.                                                                   *)
(***************************************************************************)

\* A set of numbers that has 0 and, with each number below m, the next, has all up to m.
LEMMA Climbs ==
  ASSUME NEW m \in Nat, NEW S, 0 \in S, \A n \in 1..m : n - 1 \in S => n \in S
  PROVE  \A n \in 0..m : n \in S
<1> SUFFICES ASSUME ~ \A n \in 0..m : n \in S PROVE FALSE
  OBVIOUS
<1> DEFINE left == {n \in 0..m : n \notin S}
<1>1. left \in SUBSET Nat /\ left # {}
  OBVIOUS
<1>2. PICK i \in left : \A j \in left : i <= j
  BY <1>1, Smallest
<1>3. i \in 1..m /\ i - 1 \in 0..m /\ i - 1 \notin left
  BY <1>2
<1> QED
  BY <1>2, <1>3

\* Min and Max have the values that are named.
LEMMA MinValue ==
  ASSUME NEW S \in SUBSET Int, NEW x \in S, \A y \in S : x <= y
  PROVE  Min(S) = x
<1>1. Min(S) \in S /\ \A y \in S : Min(S) <= y
  BY DEF Min
<1>2. Min(S) \in Int /\ x \in Int
  BY <1>1
<1>3. x <= Min(S) /\ Min(S) <= x
  BY <1>1
<1> QED
  BY <1>2, <1>3

LEMMA MaxBounds ==
  ASSUME NEW S \in SUBSET Nat, NEW b \in Nat, \A y \in S : y <= b, S # {}
  PROVE  Max(S) \in S /\ \A y \in S : y <= Max(S)
<1> DEFINE gaps == {b - y : y \in S}
<1>1. gaps \in SUBSET Nat /\ gaps # {}
  <2>1. \A y \in S : y \in Nat /\ b - y \in Nat
    OBVIOUS
  <2> QED
    BY <2>1
<1>2. PICK g \in gaps : \A h \in gaps : g <= h
  BY <1>1, Smallest
<1>3. PICK x \in S : g = b - x
  OBVIOUS
<1>4. \A y \in S : x >= y
  <2> TAKE y \in S
  <2>1. g <= b - y
    BY <1>2
  <2> QED
    BY <1>3, <2>1
<1>5. Max(S) \in S /\ \A y \in S : Max(S) >= y
  BY <1>4 DEF Max
<1> QED
  BY <1>5

\* What the types of descriptors say.
LEMMA DescriptorTypes ==
  ASSUME NEW d \in Seq(Descriptors), NEW k \in 1..Len(d)
  PROVE  /\ d[k].kind = "config" => d[k].interfaces \in Nat
         /\ d[k].kind = "interface" =>
              d[k].num \in Nat /\ d[k].alt \in Nat /\ d[k].endpoints \in Nat
         /\ d[k].kind = "endpoint" =>
              /\ d[k].in \in BOOLEAN /\ d[k].addr \in 1..15 /\ d[k].size \in Nat
              /\ d[k].type \in {"iso", "bulk", "interrupt"}
<1>1. d[k] \in Descriptors
  OBVIOUS
<1>2. CASE d[k] \in [kind : {"config"}, interfaces : Nat]
  BY <1>2
<1>3. CASE d[k] \in [kind : {"interface"}, num : Nat, alt : Nat, endpoints : Nat]
  BY <1>3
<1>4. CASE d[k] \in [kind : {"endpoint"}, in : BOOLEAN, addr : 1..15,
                    type : {"iso", "bulk", "interrupt"}, size : Nat]
  BY <1>4
<1>5. CASE d[k] \in [kind : {"other"}]
  BY <1>5
<1> QED
  BY <1>1, <1>2, <1>3, <1>4, <1>5 DEF Descriptors

\* The descriptor k begins setting a of interface n: it is in order and announces what
\* follows it.
Begins(dev, k, n, a) ==
  LET d == dev.desc IN
  /\ k \in 1..Len(d) /\ IsSetting(d, k, n, a)
  /\ d[k].endpoints = Cardinality(Between(d, k))
  /\ Setting(dev, n, a) = {Endpoint(dev, j) : j \in Between(d, k)}
  /\ \A j \in 1 .. k - 1 :
       d[j].kind = "interface" => d[j].num < n \/ (d[j].num = n /\ d[j].alt < a)
  /\ \A j \in k + 1 .. Len(d) :
       d[j].kind = "interface" => n < d[j].num \/ (n = d[j].num /\ a < d[j].alt)

LEMMA SettingBegins ==
  ASSUME NEW dev, WellFormed(dev), NEW n \in Ifaces(dev.desc), NEW a \in Alts(dev.desc, n)
  PROVE  \E k : Begins(dev, k, n, a)
<1> DEFINE d == dev.desc
<1>1. /\ d \in Seq(Descriptors) /\ Len(d) \in Nat
      /\ \A j, k \in 1..Len(d) :
           j < k /\ d[j].kind = "interface" /\ d[k].kind = "interface"
             => d[j].num < d[k].num \/ (d[j].num = d[k].num /\ d[j].alt < d[k].alt)
  BY DEF WellFormed
<1>2. PICK k \in 1..Len(d) : /\ IsSetting(d, k, n, a)
                             /\ d[k].endpoints = Cardinality(Between(d, k))
  BY DEF WellFormed
<1>3. \A j \in 1..Len(d) : d[j].kind = "interface" => d[j].num \in Nat /\ d[j].alt \in Nat
  BY <1>1, DescriptorTypes
<1> HIDE DEF d
<1>4. d[k].kind = "interface" /\ d[k].num = n /\ d[k].alt = a
  BY <1>2 DEF IsSetting
<1>5. \A j \in 1..Len(d) : IsSetting(d, j, n, a) => j = k
  <2> SUFFICES ASSUME NEW j \in 1..Len(d), IsSetting(d, j, n, a), j # k PROVE FALSE
    OBVIOUS
  <2>1. d[j].kind = "interface" /\ d[j].num = n /\ d[j].alt = a
    BY DEF IsSetting
  <2>2. n \in Nat /\ a \in Nat
    BY <1>3, <1>4
  <2>3. j < k \/ k < j
    BY <1>1
  <2> QED
    BY <1>1, <1>4, <2>1, <2>2, <2>3
<1>6. k = CHOOSE j \in 1..Len(d) : IsSetting(d, j, n, a)
  BY <1>2, <1>5
<1>7. Setting(dev, n, a) = {Endpoint(dev, j) : j \in Between(d, k)}
  BY <1>6 DEF Setting, d
<1>8. \A j \in 1 .. k - 1 :
        d[j].kind = "interface" => d[j].num < n \/ (d[j].num = n /\ d[j].alt < a)
  BY <1>1, <1>2, <1>4
<1>9. \A j \in k + 1 .. Len(d) :
        d[j].kind = "interface" => n < d[j].num \/ (n = d[j].num /\ a < d[j].alt)
  BY <1>1, <1>2, <1>4
<1> QED
  BY <1>2, <1>7, <1>8, <1>9 DEF Begins, d

\* Both programs take the announced number of endpoint descriptors from there: these are
\* the ones before the next interface.
LEMMA EndpointsAreBetween ==
  ASSUME NEW d \in Seq(Descriptors), NEW k \in 1..Len(d),
         d[k].endpoints = Cardinality(Between(d, k))
  PROVE  EndpointsFrom(d, k, d[k].endpoints) = Between(d, k)
<1> DEFINE E == Between(d, k)
           ahead(j) == {i \in k + 1 .. j - 1 : d[i].kind = "endpoint"}
<1>1. Len(d) \in Nat /\ k \in Nat
  OBVIOUS
<1>2. IsFiniteSet(E) /\ Cardinality(E) \in Nat
  <2>1. IsFiniteSet(k + 1 .. Len(d))
    BY <1>1, FS_Interval
  <2>2. E \in SUBSET (k + 1 .. Len(d))
    BY DEF Between
  <2> QED
    BY <2>1, <2>2, FS_Subset, FS_CardinalityType
<1>3. ASSUME NEW j \in E
      PROVE  j \in k + 1 .. Len(d) /\ d[j].kind = "endpoint" /\ Cardinality(ahead(j)) < Cardinality(E)
  <2>1. j \in k + 1 .. Len(d) /\ d[j].kind = "endpoint"
        /\ \A i \in k + 1 .. j : d[i].kind # "interface"
    BY DEF Between
  <2>2. ahead(j) \in SUBSET (E \ {j})
    BY <1>1, <2>1 DEF Between
  <2>3. IsFiniteSet(E \ {j}) /\ Cardinality(E \ {j}) = Cardinality(E) - 1
    BY <1>2, FS_RemoveElement
  <2>4. IsFiniteSet(ahead(j)) /\ Cardinality(ahead(j)) <= Cardinality(E) - 1
    BY <2>2, <2>3, FS_Subset
  <2>5. Cardinality(ahead(j)) \in Nat
    BY <2>4, FS_CardinalityType
  <2> QED
    BY <1>2, <2>1, <2>4, <2>5
<1>4. ASSUME NEW j \in k + 1 .. Len(d), d[j].kind = "endpoint", j \notin E
      PROVE  ~(Cardinality(ahead(j)) < Cardinality(E))
  <2>1. PICK i \in k + 1 .. j : d[i].kind = "interface"
    BY <1>4 DEF Between
  <2>2. \A e \in E : e < i
    BY <1>1, <2>1 DEF Between
  <2>3. E \in SUBSET ahead(j)
    BY <1>1, <2>1, <2>2 DEF Between
  <2>4. IsFiniteSet(ahead(j))
    <3>1. IsFiniteSet(k + 1 .. j - 1)
      BY <1>1, FS_Interval
    <3>2. ahead(j) \in SUBSET (k + 1 .. j - 1)
      OBVIOUS
    <3> QED
      BY <3>1, <3>2, FS_Subset
  <2>5. Cardinality(E) <= Cardinality(ahead(j)) /\ Cardinality(ahead(j)) \in Nat
    BY <2>3, <2>4, FS_Subset, FS_CardinalityType
  <2> QED
    BY <1>2, <2>5
<1>5. EndpointsFrom(d, k, d[k].endpoints) =
        {j \in k + 1 .. Len(d) : d[j].kind = "endpoint" /\ Cardinality(ahead(j)) < Cardinality(E)}
  BY DEF EndpointsFrom
<1> HIDE DEF ahead
<1>6. E \in SUBSET (k + 1 .. Len(d))
  BY DEF Between
<1> HIDE DEF E
<1> QED
  BY <1>3, <1>4, <1>5, <1>6 DEF E

\* Where a setting begins, both programs find it, from any offset before.
LEMMA SeeksFind ==
  ASSUME NEW dev, WellFormed(dev), NEW k, NEW n, NEW a, Begins(dev, k, n, a),
         NEW offset \in 0 .. k - 1
  PROVE  /\ ServerSeek(dev.desc, offset, n, a) = k
         /\ ClientSeek(dev.desc, offset, n, a) = k
<1> DEFINE d == dev.desc
           server == {j \in offset + 1 .. Len(d) :
                        d[j].kind = "interface" /\ d[j].num >= n /\ d[j].alt >= a}
           client == {j \in offset + 1 .. Len(d) :
                        /\ d[j].kind = "interface"
                        /\ d[j].num > n \/ (d[j].num = n /\ d[j].alt >= a)}
<1>1. /\ d \in Seq(Descriptors) /\ Len(d) \in Nat /\ k \in 1..Len(d)
      /\ d[k].kind = "interface" /\ d[k].num = n /\ d[k].alt = a
      /\ \A j \in 1 .. k - 1 :
           d[j].kind = "interface" => d[j].num < n \/ (d[j].num = n /\ d[j].alt < a)
  BY DEF WellFormed, Begins, IsSetting
<1>2. \A j \in 1..Len(d) : d[j].kind = "interface" => d[j].num \in Nat /\ d[j].alt \in Nat
  BY <1>1, DescriptorTypes
<1> HIDE DEF d
<1>3. k \in server /\ k \in client
  BY <1>1, <1>2
<1>4. \A j \in server : k <= j
  <2> SUFFICES ASSUME NEW j \in server, ~(k <= j) PROVE FALSE
    OBVIOUS
  <2>1. j \in 1 .. k - 1 /\ d[j].kind = "interface" /\ d[j].num >= n /\ d[j].alt >= a
    BY <1>1
  <2>2. d[j].num \in Nat /\ d[j].alt \in Nat /\ n \in Nat /\ a \in Nat
    BY <1>1, <1>2, <2>1
  <2>3. d[j].num < n \/ (d[j].num = n /\ d[j].alt < a)
    BY <1>1, <2>1
  <2> QED
    BY <2>1, <2>2, <2>3
<1>5. \A j \in client : k <= j
  <2> SUFFICES ASSUME NEW j \in client, ~(k <= j) PROVE FALSE
    OBVIOUS
  <2>1. /\ j \in 1 .. k - 1 /\ d[j].kind = "interface"
        /\ d[j].num > n \/ (d[j].num = n /\ d[j].alt >= a)
    BY <1>1
  <2>2. d[j].num \in Nat /\ d[j].alt \in Nat /\ n \in Nat /\ a \in Nat
    BY <1>1, <1>2, <2>1
  <2>3. d[j].num < n \/ (d[j].num = n /\ d[j].alt < a)
    BY <1>1, <2>1
  <2> QED
    BY <2>1, <2>2, <2>3
<1>6. server \in SUBSET Int /\ client \in SUBSET Int
  BY <1>1
<1>7. Min(server) = k /\ Min(client) = k
  BY <1>3, <1>4, <1>5, <1>6, MinValue
<1>8. ServerSeek(d, offset, n, a) =
        IF server = {} \/ d[Min(server)].alt > a THEN 0 ELSE Min(server)
  BY DEF ServerSeek
<1>9. ClientSeek(d, offset, n, a) =
        IF client # {} /\ IsSetting(d, Min(client), n, a) THEN Min(client) ELSE 0
  BY DEF ClientSeek
<1>10. ~(d[k].alt > a) /\ IsSetting(d, k, n, a)
  BY <1>1, <1>2 DEF IsSetting
<1>11. server # {} /\ client # {}
  BY <1>3
<1> HIDE DEF server, client
<1> QED
  BY <1>7, <1>8, <1>9, <1>10, <1>11 DEF d

\* Its endpoints are the setting's, and end before the next interface.
LEMMA SettingEnds ==
  ASSUME NEW dev, WellFormed(dev), NEW k, NEW n, NEW a, Begins(dev, k, n, a)
  PROVE  /\ Endpoints(dev, k) = Setting(dev, n, a)
         /\ Behind(dev.desc, k) \in Nat /\ k <= Behind(dev.desc, k)
         /\ \A j \in k + 1 .. Len(dev.desc) :
              dev.desc[j].kind = "interface" => Behind(dev.desc, k) < j
<1> DEFINE d == dev.desc
           E == Between(d, k)
<1>1. /\ d \in Seq(Descriptors) /\ Len(d) \in Nat /\ k \in 1..Len(d)
      /\ d[k].endpoints = Cardinality(E)
      /\ Setting(dev, n, a) = {Endpoint(dev, j) : j \in E}
  BY DEF WellFormed, Begins
<1>2. EndpointsFrom(d, k, d[k].endpoints) = E
  BY <1>1, EndpointsAreBetween
<1>3. Endpoints(dev, k) = Setting(dev, n, a)
  BY <1>1, <1>2 DEF Endpoints
<1>4. \A e \in E : e \in k + 1 .. Len(d) /\ \A i \in k + 1 .. e : d[i].kind # "interface"
  BY DEF Between
<1> HIDE DEF d, E
<1>5. Behind(d, k) = Max({k} \cup E)
  BY <1>2 DEF Behind
<1>6. Max({k} \cup E) \in {k} \cup E /\ \A y \in {k} \cup E : y <= Max({k} \cup E)
  <2>1. {k} \cup E \in SUBSET Nat /\ {k} \cup E # {} /\ \A y \in {k} \cup E : y <= Len(d)
    BY <1>1, <1>4
  <2> QED
    BY <1>1, <2>1, MaxBounds
<1>7. Behind(d, k) \in Nat /\ k <= Behind(d, k)
  BY <1>1, <1>4, <1>5, <1>6
<1>8. \A j \in k + 1 .. Len(d) : d[j].kind = "interface" => Behind(d, k) < j
  <2> SUFFICES ASSUME NEW j \in k + 1 .. Len(d), d[j].kind = "interface"
               PROVE  Behind(d, k) < j
    OBVIOUS
  <2>1. CASE Behind(d, k) = k
    BY <1>1, <2>1
  <2>2. CASE Behind(d, k) \in E
    BY <1>1, <1>4, <2>2
  <2> QED
    BY <1>5, <1>6, <2>1, <2>2
<1> QED
  BY <1>3, <1>7, <1>8 DEF d

\* What a setting consists of.
EndpointType ==
  [in : BOOLEAN, addr : 1..15, type : {"iso", "bulk", "interrupt"}, size : Nat]

LEMMA PacketSizeType ==
  ASSUME NEW dev, NEW ep, ep.size \in Nat
  PROVE  PacketSize(dev, ep) \in Nat
  BY DEF PacketSize

LEMMA SettingTypes ==
  ASSUME NEW dev, WellFormed(dev), NEW n \in Ifaces(dev.desc), NEW a \in Alts(dev.desc, n)
  PROVE  Setting(dev, n, a) \subseteq EndpointType
<1> DEFINE d == dev.desc
<1>1. PICK k : Begins(dev, k, n, a)
  BY SettingBegins
<1>2. k \in 1..Len(d) /\ Setting(dev, n, a) = {Endpoint(dev, j) : j \in Between(d, k)}
  BY <1>1 DEF Begins
<1>3. d \in Seq(Descriptors) /\ Len(d) \in Nat
  BY DEF WellFormed
<1>4. ASSUME NEW j \in Between(d, k) PROVE Endpoint(dev, j) \in EndpointType
  <2>1. j \in 1..Len(d) /\ d[j].kind = "endpoint"
    BY <1>2, <1>3 DEF Between
  <2>2. /\ d[j].in \in BOOLEAN /\ d[j].addr \in 1..15 /\ d[j].size \in Nat
        /\ d[j].type \in {"iso", "bulk", "interrupt"}
    BY <1>3, <2>1, DescriptorTypes
  <2>3. PacketSize(dev, d[j]) \in Nat
    BY <2>2, PacketSizeType
  <2> QED
    BY <2>2, <2>3 DEF Endpoint, EndpointType
<1> QED
  BY <1>2, <1>4

\* The settings of two interfaces have no address in common.
LEMMA AddressesDiffer ==
  ASSUME NEW dev, WellFormed(dev),
         NEW m \in Ifaces(dev.desc), NEW n \in Ifaces(dev.desc), m # n,
         NEW b \in Alts(dev.desc, m), NEW a \in Alts(dev.desc, n),
         NEW t \in Setting(dev, m, b), NEW e \in Setting(dev, n, a)
  PROVE  <<t.in, t.addr>> # <<e.in, e.addr>>
<1>1. Address(dev, m, b) \cap Address(dev, n, a) = {}
  BY DEF WellFormed
<1>2. <<t.in, t.addr>> \in Address(dev, m, b) /\ <<e.in, e.addr>> \in Address(dev, n, a)
  BY DEF Address
<1> QED
  BY <1>1, <1>2

\* The entries of one setting in the server's table.
Entries(dev, n, a) == {[ep |-> e, intf |-> n, alter |-> a] : e \in Setting(dev, n, a)}

\* add_ep_info leaves none of a setting's endpoints out when the table has those of other
\* interfaces.
LEMMA AddsSetting ==
  ASSUME NEW dev, WellFormed(dev), NEW n \in Ifaces(dev.desc), NEW a \in Alts(dev.desc, n),
         NEW k, Begins(dev, k, n, a), NEW table,
         \A t \in table : \E m \in Ifaces(dev.desc) \ {n} : \E b \in Alts(dev.desc, m) :
           t.ep \in Setting(dev, m, b)
  PROVE  AddEps(dev, table, k, n, a) = table \cup Entries(dev, n, a)
<1>1. Endpoints(dev, k) = Setting(dev, n, a)
  BY SettingEnds
<1>2. ASSUME NEW e \in Setting(dev, n, a)
      PROVE  e.addr # 0 /\ \A t \in table : <<t.ep.in, t.ep.addr>> # <<e.in, e.addr>>
  <2>1. e.addr \in 1..15
    BY SettingTypes DEF EndpointType
  <2>2. \A t \in table : <<t.ep.in, t.ep.addr>> # <<e.in, e.addr>>
    BY AddressesDiffer
  <2> QED
    BY <2>1, <2>2
<1> QED
  BY <1>1, <1>2 DEF AddEps, Entries

\* Every interface has a setting 0.
LEMMA HasSetting0 ==
  ASSUME NEW dev, WellFormed(dev), NEW n \in Ifaces(dev.desc)
  PROVE  0 \in Alts(dev.desc, n)
<1> DEFINE d == dev.desc
           K == {k \in 1..Len(d) : d[k].kind = "interface" /\ d[k].num = n}
           A == Alts(d, n)
           f == [k \in K |-> d[k].alt]
<1>1. A = {d[k].alt : k \in K}
  BY DEF Alts
<1>2. K # {}
  BY DEF Ifaces
<1>3. IsFiniteSet(K)
  <2>1. Len(d) \in Nat
    BY DEF WellFormed
  <2>2. IsFiniteSet(1..Len(d))
    BY <2>1, FS_Interval
  <2> QED
    BY <2>2, FS_Subset
<1>4. f \in Surjection(K, A)
  BY <1>1 DEF Surjection
<1>5. IsFiniteSet(A) /\ Cardinality(A) \in Nat
  BY <1>3, <1>4, FS_Surjection, FS_CardinalityType
<1>6. A # {}
  BY <1>1, <1>2
<1>7. Cardinality(A) # 0
  BY <1>5, <1>6, FS_EmptySet
<1>8. A = 0 .. Cardinality(A) - 1
  BY DEF WellFormed
<1> QED
  BY <1>5, <1>7, <1>8

\* The interfaces are numbered, and their first settings stand in the order of the numbers.
First(dev, n) == CHOOSE k : Begins(dev, k, n - 1, 0)

LEMMA FirstSettings ==
  ASSUME NEW dev, WellFormed(dev)
  PROVE  /\ dev.desc[1].interfaces \in Nat
         /\ \A n \in 1 .. dev.desc[1].interfaces :
              /\ n - 1 \in Ifaces(dev.desc) /\ 0 \in Alts(dev.desc, n - 1)
              /\ Begins(dev, First(dev, n), n - 1, 0)
              /\ 1 < First(dev, n)
              /\ n > 1 => Behind(dev.desc, First(dev, n - 1)) < First(dev, n)
<1> DEFINE d == dev.desc
           N == d[1].interfaces
<1>1. /\ d \in Seq(Descriptors) /\ Len(d) \in Nat /\ Len(d) > 0 /\ d[1].kind = "config"
      /\ Ifaces(d) = 0 .. N - 1
  BY DEF WellFormed
<1>2. N \in Nat
  <2>1. 1 \in 1..Len(d)
    BY <1>1
  <2> QED
    BY <1>1, <2>1, DescriptorTypes
<1>3. ASSUME NEW n \in 1..N
      PROVE  /\ n - 1 \in Ifaces(d) /\ 0 \in Alts(d, n - 1)
             /\ Begins(dev, First(dev, n), n - 1, 0)
  <2>1. n - 1 \in Ifaces(d)
    BY <1>1, <1>2
  <2>2. 0 \in Alts(d, n - 1)
    BY <2>1, HasSetting0
  <2>3. \E k : Begins(dev, k, n - 1, 0)
    BY <2>1, <2>2, SettingBegins
  <2> QED
    BY <2>1, <2>2, <2>3 DEF First
<1>4. ASSUME NEW n \in 1..N
      PROVE  /\ First(dev, n) \in 1..Len(d)
             /\ d[First(dev, n)].kind = "interface" /\ d[First(dev, n)].num = n - 1
             /\ 1 < First(dev, n)
  <2>1. /\ First(dev, n) \in 1..Len(d)
        /\ d[First(dev, n)].kind = "interface" /\ d[First(dev, n)].num = n - 1
    BY <1>3 DEF Begins, IsSetting
  <2>2. First(dev, n) # 1
    BY <1>1, <2>1
  <2> QED
    BY <1>1, <2>1, <2>2
<1>5. ASSUME NEW n \in 1..N, n > 1
      PROVE  Behind(d, First(dev, n - 1)) < First(dev, n)
  <2> DEFINE j == First(dev, n - 1)
             k == First(dev, n)
  <2>1. n - 1 \in 1..N /\ (n - 1) - 1 = n - 2 /\ n \in Nat
    BY <1>2, <1>5
  <2>2. /\ j \in 1..Len(d) /\ d[j].kind = "interface" /\ d[j].num = n - 2
        /\ k \in 1..Len(d) /\ d[k].kind = "interface" /\ d[k].num = n - 1
    BY <1>4, <2>1
  <2>3. Begins(dev, j, n - 2, 0)
    BY <1>3, <2>1
  <2>4. \A i \in 1 .. j - 1 :
          d[i].kind = "interface" => d[i].num < n - 2 \/ (d[i].num = n - 2 /\ d[i].alt < 0)
    BY <2>3 DEF Begins
  <2>5. \A i \in j + 1 .. Len(d) : d[i].kind = "interface" => Behind(d, j) < i
    BY <2>3, SettingEnds
  <2> HIDE DEF j, k
  <2>6. k \notin 1 .. j - 1
    BY <2>1, <2>2, <2>4
  <2>7. k # j
    BY <2>1, <2>2
  <2>8. k \in j + 1 .. Len(d)
    BY <1>1, <2>2, <2>6, <2>7
  <2> QED
    BY <2>2, <2>5, <2>8 DEF j, k
<1> QED
  BY <1>2, <1>3, <1>4, <1>5

\* The entries of the server's table when the device is in the settings s.
Table(dev, s) == UNION {Entries(dev, n, s[n]) : n \in Ifaces(dev.desc)}

\* parse_config enters the first setting of every interface.
LEMMA ParseConfigEnters ==
  ASSUME NEW dev, WellFormed(dev)
  PROVE  ParseConfig(dev) = Table(dev, [n \in Ifaces(dev.desc) |-> 0])
<1> DEFINE d == dev.desc
           N == d[1].interfaces
           start == [offset |-> 1, table |-> {}]
           upto(n) == UNION {Entries(dev, i, 0) : i \in 0 .. n - 1}
           parsed[n \in 0 .. N] ==
             IF n = 0 THEN start
             ELSE LET k == ServerSeek(d, parsed[n - 1].offset, n - 1, 0)
                  IN  [offset |-> Behind(d, k),
                       table |-> AddEps(dev, parsed[n - 1].table, k, n - 1, 0)]
           known == [n \in 0 .. N |->
                       [offset |-> IF n = 0 THEN 1 ELSE Behind(d, First(dev, n)),
                        table |-> upto(n)]]
<1>1. N \in Nat /\ Ifaces(d) = 0 .. N - 1
  BY FirstSettings DEF WellFormed
<1>2. ASSUME NEW n \in 1..N
      PROVE  /\ ServerSeek(d, known[n - 1].offset, n - 1, 0) = First(dev, n)
             /\ AddEps(dev, known[n - 1].table, First(dev, n), n - 1, 0) = upto(n)
  <2>1. /\ n - 1 \in Ifaces(d) /\ 0 \in Alts(d, n - 1) /\ Begins(dev, First(dev, n), n - 1, 0)
        /\ 1 < First(dev, n)
        /\ n > 1 => Behind(d, First(dev, n - 1)) < First(dev, n)
    BY FirstSettings
  <2>2. n - 1 \in 0..N /\ First(dev, n) \in Nat
    BY <1>1, <2>1 DEF Begins
  <2>3. known[n - 1].offset \in 0 .. First(dev, n) - 1
    <3>1. CASE n = 1
      <4>1. known[n - 1].offset = 1
        BY <2>2, <3>1
      <4> QED
        BY <2>1, <2>2, <4>1
    <3>2. CASE n # 1
      <4>1. n - 1 \in 1..N /\ n > 1
        BY <1>1, <3>2
      <4>2. known[n - 1].offset = Behind(d, First(dev, n - 1))
        BY <2>2, <4>1
      <4>3. Begins(dev, First(dev, n - 1), (n - 1) - 1, 0)
        BY <4>1, FirstSettings
      <4>4. Behind(d, First(dev, n - 1)) \in Nat
        BY <4>3, SettingEnds
      <4> QED
        BY <2>1, <2>2, <4>1, <4>2, <4>4
    <3> QED
      BY <3>1, <3>2
  <2>4. ServerSeek(d, known[n - 1].offset, n - 1, 0) = First(dev, n)
    BY <2>1, <2>3, SeeksFind
  <2>5. known[n - 1].table = upto(n - 1)
    BY <2>2
  <2>6. \A t \in upto(n - 1) : \E m \in Ifaces(d) \ {n - 1} : \E b \in Alts(d, m) :
          t.ep \in Setting(dev, m, b)
    <3> TAKE t \in upto(n - 1)
    <3>1. PICK i \in 0 .. (n - 1) - 1 : t \in Entries(dev, i, 0)
      OBVIOUS
    <3>2. i \in Ifaces(d) \ {n - 1}
      BY <1>1, <2>2
    <3>3. 0 \in Alts(d, i) /\ t.ep \in Setting(dev, i, 0)
      BY <3>1, <3>2, HasSetting0 DEF Entries
    <3> QED
      BY <3>2, <3>3
  <2>7. AddEps(dev, upto(n - 1), First(dev, n), n - 1, 0) = upto(n - 1) \cup Entries(dev, n - 1, 0)
    <3> HIDE DEF upto
    <3> QED
      BY <2>1, <2>6, AddsSetting
  <2>8. upto(n - 1) \cup Entries(dev, n - 1, 0) = upto(n)
    <3>1. \A i : i \in 0 .. n - 1 <=> i \in 0 .. (n - 1) - 1 \/ i = n - 1
      BY <1>1
    <3> QED
      BY <3>1
  <2> QED
    BY <2>4, <2>5, <2>7, <2>8
<1>3. known[0] = start
  <2>1. upto(0) = {}
    <3>1. 0 .. 0 - 1 = {}
      OBVIOUS
    <3> QED
      BY <3>1
  <2>2. known[0] = [offset |-> 1, table |-> upto(0)]
    BY <1>1
  <2> QED
    BY <2>1, <2>2
<1>4. known = [n \in 0 .. N |->
                 IF n = 0 THEN start
                 ELSE LET k == ServerSeek(d, known[n - 1].offset, n - 1, 0)
                      IN  [offset |-> Behind(d, k),
                           table |-> AddEps(dev, known[n - 1].table, k, n - 1, 0)]]
  <2> SUFFICES ASSUME NEW n \in 0 .. N
               PROVE  known[n] =
                        IF n = 0 THEN start
                        ELSE LET k == ServerSeek(d, known[n - 1].offset, n - 1, 0)
                             IN  [offset |-> Behind(d, k),
                                  table |-> AddEps(dev, known[n - 1].table, k, n - 1, 0)]
    OBVIOUS
  <2>1. n # 0 => /\ n \in 1..N
                 /\ known[n] = [offset |-> Behind(d, First(dev, n)), table |-> upto(n)]
    BY <1>1
  <2> HIDE DEF known, upto
  <2> QED
    BY <1>2, <1>3, <2>1
<1>5. parsed = [n \in 0 .. N |->
                  IF n = 0 THEN start
                  ELSE LET k == ServerSeek(d, parsed[n - 1].offset, n - 1, 0)
                       IN  [offset |-> Behind(d, k),
                            table |-> AddEps(dev, parsed[n - 1].table, k, n - 1, 0)]]
  <2> HIDE DEF known
  <2> QED
    BY <1>4
<1> HIDE DEF parsed
<1>6. \A n \in 1..N : parsed[n - 1] = known[n - 1] => parsed[n] = known[n]
  <2> TAKE n \in 1..N
  <2> HAVE parsed[n - 1] = known[n - 1]
  <2>1. n \in 0..N /\ n # 0
    BY <1>1
  <2> DEFINE next(before) ==
               LET k == ServerSeek(d, before.offset, n - 1, 0)
               IN  [offset |-> Behind(d, k),
                    table |-> AddEps(dev, before.table, k, n - 1, 0)]
  <2> HIDE DEF known
  <2>2. parsed[n] = next(parsed[n - 1])
    BY <1>5, <2>1
  <2>3. known[n] = next(known[n - 1])
    BY <1>4, <2>1
  <2> HIDE DEF next
  <2> QED
    BY <2>2, <2>3
<1>7. parsed[0] = known[0]
  <2>1. 0 \in 0..N
    BY <1>1
  <2>2. parsed[0] = start
    BY <1>5, <2>1
  <2> QED
    BY <1>3, <2>2
<1>8. \A n \in 0..N : parsed[n] = known[n]
  <2> DEFINE S == {n \in 0..N : parsed[n] = known[n]}
  <2> HIDE DEF known
  <2>1. 0 \in S /\ \A n \in 1..N : n - 1 \in S => n \in S
    <3>1. \A n \in 1..N : n \in 0..N /\ n - 1 \in 0..N
      BY <1>1
    <3> QED
      BY <1>1, <1>6, <1>7, <3>1
  <2>2. \A n \in 0..N : n \in S
    BY <1>1, <2>1, Climbs
  <2> QED
    BY <2>2
<1>9. parsed[N].table = upto(N)
  <2>1. N \in 0..N
    BY <1>1
  <2>2. known[N].table = upto(N)
    BY <2>1
  <2> QED
    BY <1>8, <2>1, <2>2
<1>10. upto(N) = Table(dev, [n \in Ifaces(d) |-> 0])
  BY <1>1 DEF Table
<1>11. ParseConfig(dev) = parsed[N].table
  BY DEF ParseConfig, parsed
<1> QED
  BY <1>9, <1>10, <1>11

\* usbip_refresh_eps puts the entries of the new setting for those of the old one.
LEMMA RefreshEnters ==
  ASSUME NEW dev, WellFormed(dev), NEW s, \A m \in Ifaces(dev.desc) : s[m] \in Alts(dev.desc, m),
         s = [m \in Ifaces(dev.desc) |-> s[m]],
         NEW n \in Ifaces(dev.desc), NEW a \in Alts(dev.desc, n)
  PROVE  Refresh(dev, Table(dev, s), n, a) = Table(dev, [s EXCEPT ![n] = a])
<1> DEFINE d == dev.desc
           kept == {t \in Table(dev, s) : t.intf # n}
           others == UNION {Entries(dev, m, s[m]) : m \in Ifaces(d) \ {n}}
<1>1. PICK k : Begins(dev, k, n, a)
  BY SettingBegins
<1>2. ServerSeek(d, 0, n, a) = k
  <2>1. 0 \in 0 .. k - 1
    BY <1>1 DEF Begins
  <2> QED
    BY <1>1, <2>1, SeeksFind
<1>3. kept = others
  <2>1. \A m : \A t \in Entries(dev, m, s[m]) : t.intf = m
    BY DEF Entries
  <2> QED
    BY <2>1 DEF Table
<1>4. \A t \in others : \E m \in Ifaces(d) \ {n} : \E b \in Alts(d, m) : t.ep \in Setting(dev, m, b)
  <2>1. \A m : \A t \in Entries(dev, m, s[m]) : t.ep \in Setting(dev, m, s[m])
    BY DEF Entries
  <2> QED
    BY <2>1
<1>5. AddEps(dev, others, k, n, a) = others \cup Entries(dev, n, a)
  <2> HIDE DEF others
  <2> QED
    BY <1>1, <1>4, AddsSetting
<1>6. others \cup Entries(dev, n, a) = Table(dev, [s EXCEPT ![n] = a])
  <2> DEFINE r == [s EXCEPT ![n] = a]
  <2>1. r[n] = a /\ \A m \in Ifaces(d) \ {n} : r[m] = s[m]
    OBVIOUS
  <2> HIDE DEF r
  <2>2. Table(dev, r) = UNION {Entries(dev, m, r[m]) : m \in Ifaces(d)}
    BY DEF Table
  <2> QED
    BY <2>1, <2>2 DEF r
<1>7. Refresh(dev, Table(dev, s), n, a) = AddEps(dev, kept, k, n, a)
  BY <1>2 DEF Refresh
<1> QED
  BY <1>3, <1>5, <1>6, <1>7

\* proc_select_config finds the first settings, each behind the one before.
LEMMA SelectConfigFinds ==
  ASSUME WellFormed(device), NEW m \in 0 .. desc[1].interfaces, SelectConfig(m)
  PROVE  pipes' = [n \in Ifaces(desc) |-> IF n < m THEN Setting(device, n, 0) ELSE {}]
<1> DEFINE at[n \in 0 .. m] ==
             IF n = 0 THEN 0
             ELSE ClientSeek(desc, IF n = 1 THEN 0 ELSE Behind(desc, at[n - 1]), n - 1, 0)
           known == [n \in 0 .. m |-> IF n = 0 THEN 0 ELSE First(device, n)]
<1>1. /\ m \in Nat /\ desc[1].interfaces \in Nat /\ m <= desc[1].interfaces
      /\ Ifaces(desc) = 0 .. desc[1].interfaces - 1
  <2>1. desc[1].interfaces \in Nat
    BY FirstSettings DEF desc
  <2>2. Ifaces(desc) = 0 .. desc[1].interfaces - 1
    BY DEF WellFormed, desc
  <2> QED
    BY <2>1, <2>2
<1>2. ASSUME NEW n \in 1..m
      PROVE  First(device, n) =
               ClientSeek(desc, IF n = 1 THEN 0 ELSE Behind(desc, known[n - 1]), n - 1, 0)
  <2> DEFINE offset == IF n = 1 THEN 0 ELSE Behind(desc, First(device, n - 1))
  <2>1. n \in 1 .. desc[1].interfaces /\ n - 1 \in 0..m
    BY <1>1
  <2>2. /\ Begins(device, First(device, n), n - 1, 0) /\ 1 < First(device, n)
        /\ n > 1 => Behind(desc, First(device, n - 1)) < First(device, n)
    BY <2>1, FirstSettings DEF desc
  <2>3. First(device, n) \in Nat
    BY <2>2 DEF Begins
  <2>4. offset \in 0 .. First(device, n) - 1
    <3>1. CASE n = 1
      BY <2>2, <2>3, <3>1
    <3>2. CASE n # 1
      <4>1. n - 1 \in 1 .. desc[1].interfaces /\ n > 1
        BY <1>1, <3>2
      <4>2. Begins(device, First(device, n - 1), (n - 1) - 1, 0)
        BY <4>1, FirstSettings DEF desc
      <4>3. Behind(desc, First(device, n - 1)) \in Nat
        BY <4>2, SettingEnds DEF desc
      <4> QED
        BY <2>2, <2>3, <3>2, <4>1, <4>3
    <3> QED
      BY <3>1, <3>2
  <2>5. ClientSeek(desc, offset, n - 1, 0) = First(device, n)
    BY <2>2, <2>4, SeeksFind DEF desc
  <2>6. n # 1 => known[n - 1] = First(device, n - 1)
    BY <1>1, <2>1
  <2> QED
    BY <2>5, <2>6
<1>3. known = [n \in 0 .. m |->
                 IF n = 0 THEN 0
                 ELSE ClientSeek(desc, IF n = 1 THEN 0 ELSE Behind(desc, known[n - 1]), n - 1, 0)]
  <2> SUFFICES ASSUME NEW n \in 0 .. m
               PROVE  known[n] =
                        IF n = 0 THEN 0
                        ELSE ClientSeek(desc, IF n = 1 THEN 0 ELSE Behind(desc, known[n - 1]),
                                        n - 1, 0)
    OBVIOUS
  <2>1. known[n] = IF n = 0 THEN 0 ELSE First(device, n)
    OBVIOUS
  <2>2. n # 0 => n \in 1..m
    BY <1>1
  <2> HIDE DEF known
  <2> QED
    BY <1>2, <2>1, <2>2
<1>4. at = [n \in 0 .. m |->
              IF n = 0 THEN 0
              ELSE ClientSeek(desc, IF n = 1 THEN 0 ELSE Behind(desc, at[n - 1]), n - 1, 0)]
  <2> HIDE DEF known
  <2> QED
    BY <1>3
<1>5. /\ pipes' = [n \in Ifaces(desc) |-> IF n < m THEN Endpoints(device, at[n + 1]) ELSE {}]
  BY DEF SelectConfig
<1> HIDE DEF at
<1>6. \A n \in 0..m : at[n] = known[n]
  <2> HIDE DEF known
  <2> DEFINE S == {n \in 0..m : at[n] = known[n]}
  <2>1. 0 \in S
    BY <1>1, <1>3, <1>4
  <2>2. ASSUME NEW n \in 1..m, n - 1 \in S PROVE n \in S
    <3>1. n \in 0..m /\ n # 0 /\ at[n - 1] = known[n - 1]
      BY <1>1, <2>2
    <3> QED
      BY <1>3, <1>4, <3>1
  <2>3. \A n \in 0..m : n \in S
    BY <1>1, <2>1, <2>2, Climbs
  <2> QED
    BY <2>3
<1>7. ASSUME NEW n \in Ifaces(desc), n < m
      PROVE  Endpoints(device, at[n + 1]) = Setting(device, n, 0)
  <2>1. n + 1 \in 0..m /\ n + 1 # 0 /\ n + 1 \in 1 .. desc[1].interfaces /\ (n + 1) - 1 = n
    BY <1>1, <1>7
  <2>2. at[n + 1] = First(device, n + 1)
    BY <1>6, <2>1
  <2>3. Begins(device, First(device, n + 1), n, 0)
    BY <2>1, FirstSettings DEF desc
  <2> QED
    BY <2>2, <2>3, SettingEnds
<1> QED
  BY <1>5, <1>7

\* Requests and answers for a device with the descriptors d.
PipeRequests(d) ==
  {r \in [op : {"select"}, iface : Ifaces(d), alt : Nat, room : BOOLEAN]
           \cup [op : {"transfer"}, iface : Ifaces(d), ep : EndpointType] :
     r.op = "select" => r.alt \in Alts(d, r.iface)}

PipeAnswers(d) ==
  {r \in [iface : Ifaces(d), alt : Nat, room : BOOLEAN, accepted : BOOLEAN] :
     r.alt \in Alts(d, r.iface)}

PipesShape ==
  /\ device \in Devices
  /\ saved \in BOOLEAN /\ session \in BOOLEAN
  /\ wire \in Seq(PipeRequests(desc))
  /\ answers \in Seq(PipeAnswers(desc))
  /\ setting \in [Ifaces(desc) -> Nat]
  /\ chosen \in [Ifaces(desc) -> Nat \cup {-1}]
  /\ \A n \in Ifaces(desc) : /\ setting[n] \in Alts(desc, n)
                             /\ chosen[n] # -1 => chosen[n] \in Alts(desc, n)

\* Both tables are what the descriptors mean.
Meant ==
  /\ eps = Table(device, setting)
  /\ pipes = [n \in Ifaces(desc) |-> IF chosen[n] = -1 THEN {}
                                     ELSE Setting(device, n, chosen[n])]

\* What is under way for an interface: transfers, behind them at most one selection, or
\* the answer to one and no request.
SelectsLast ==
  /\ \A i, j \in 1..Len(wire) :
       wire[i].op = "select" /\ wire[j].iface = wire[i].iface => j <= i
  /\ \A i \in 1..Len(answers), j \in 1..Len(wire) : answers[i].iface # wire[j].iface
  /\ \A i, j \in 1..Len(answers) : answers[i].iface = answers[j].iface => i = j

\* The function driver's setting is the device's, which is 0 before it chose one.
Agrees(n) == setting[n] = IF chosen[n] = -1 THEN 0 ELSE chosen[n]

\* That of an interface which is not apart is, or will be once the answer is there, and the
\* transfers under way are for its endpoints.
AgreesSoon(n) == Agrees(n) \/ \E i \in 1..Len(answers) : answers[i].iface = n /\ answers[i].accepted

Alike ==
  session =>
    /\ \A n \in Ifaces(desc) \ apart : AgreesSoon(n)
    /\ \A i \in 1..Len(answers) :
         answers[i].accepted => setting[answers[i].iface] = answers[i].alt
    /\ \A j \in 1..Len(wire) :
         wire[j].op = "transfer" /\ wire[j].iface \notin apart =>
           wire[j].ep \in Setting(device, wire[j].iface, setting[wire[j].iface])

PipesInv == PipesShape /\ Meant /\ SelectsLast /\ Alike

\* What is known of the descriptors in each state.
LEMMA DeviceFacts ==
  ASSUME PipesShape
  PROVE  /\ WellFormed(device)
         /\ \A n \in Ifaces(desc) : 0 \in Alts(desc, n) /\ Alts(desc, n) \subseteq Nat
         /\ \A n \in Ifaces(desc) : \A a \in Alts(desc, n) :
              /\ Setting(device, n, a) \subseteq EndpointType
              /\ ClientSeek(desc, 0, n, a) # 0
              /\ Endpoints(device, ClientSeek(desc, 0, n, a)) = Setting(device, n, a)
<1>1. WellFormed(device)
  BY PipesAssumption DEF PipesShape
<1>2. ASSUME NEW n \in Ifaces(desc)
      PROVE  0 \in Alts(desc, n) /\ Alts(desc, n) \subseteq Nat
  <2>1. 0 \in Alts(desc, n)
    BY <1>1, HasSetting0 DEF desc
  <2>2. desc \in Seq(Descriptors)
    BY <1>1 DEF WellFormed, desc
  <2>3. Alts(desc, n) \subseteq Nat
    BY <2>2, DescriptorTypes DEF Alts
  <2> QED
    BY <2>1, <2>3
<1>3. ASSUME NEW n \in Ifaces(desc), NEW a \in Alts(desc, n)
      PROVE  /\ Setting(device, n, a) \subseteq EndpointType
             /\ ClientSeek(desc, 0, n, a) # 0
             /\ Endpoints(device, ClientSeek(desc, 0, n, a)) = Setting(device, n, a)
  <2>1. PICK k : Begins(device, k, n, a)
    BY <1>1, SettingBegins DEF desc
  <2>2. k # 0 /\ 0 \in 0 .. k - 1
    BY <2>1 DEF Begins
  <2>3. ClientSeek(desc, 0, n, a) = k
    BY <1>1, <2>1, <2>2, SeeksFind DEF desc
  <2>4. Endpoints(device, k) = Setting(device, n, a)
    BY <1>1, <2>1, SettingEnds
  <2>5. Setting(device, n, a) \subseteq EndpointType
    BY <1>1, SettingTypes DEF desc
  <2> QED
    BY <2>2, <2>3, <2>4, <2>5
<1> QED
  BY <1>1, <1>2, <1>3

\* A request or an answer that is under way.
LEMMA PipeMessages ==
  ASSUME PipesShape
  PROVE  /\ Len(wire) \in Nat /\ Len(answers) \in Nat
         /\ \A k \in 1..Len(wire) :
              /\ wire[k] \in PipeRequests(desc)
              /\ wire[k].iface \in Ifaces(desc)
              /\ wire[k].op \in {"select", "transfer"}
              /\ wire[k].op = "select" =>
                   wire[k].alt \in Alts(desc, wire[k].iface) /\ wire[k].room \in BOOLEAN
         /\ \A k \in 1..Len(answers) :
              /\ answers[k] \in PipeAnswers(desc)
              /\ answers[k].iface \in Ifaces(desc)
              /\ answers[k].alt \in Alts(desc, answers[k].iface)
              /\ answers[k].accepted \in BOOLEAN
<1>1. /\ Len(wire) \in Nat /\ Len(answers) \in Nat
      /\ \A k \in 1..Len(wire) : wire[k] \in PipeRequests(desc)
      /\ \A k \in 1..Len(answers) : answers[k] \in PipeAnswers(desc)
  BY DEF PipesShape
<1>2. ASSUME NEW r \in PipeRequests(desc)
      PROVE  /\ r.iface \in Ifaces(desc) /\ r.op \in {"select", "transfer"}
             /\ r.op = "select" => r.alt \in Alts(desc, r.iface) /\ r.room \in BOOLEAN
  BY DEF PipeRequests
<1>3. ASSUME NEW r \in PipeAnswers(desc)
      PROVE  /\ r.iface \in Ifaces(desc) /\ r.alt \in Alts(desc, r.iface)
             /\ r.accepted \in BOOLEAN
  BY DEF PipeAnswers
<1> QED
  BY <1>1, <1>2, <1>3

\* Taking the first of a list.
LEMMA TailFacts ==
  ASSUME NEW S, NEW q \in Seq(S), q # <<>>
  PROVE  /\ Tail(q) \in Seq(S) /\ Head(q) = q[1] /\ q[1] \in S
         /\ Len(q) \in Nat /\ 1 \in 1..Len(q) /\ Len(Tail(q)) = Len(q) - 1
         /\ \A k \in 1..Len(Tail(q)) :
              k + 1 \in 1..Len(q) /\ k + 1 # 1 /\ Tail(q)[k] = q[k + 1]
  OBVIOUS

LEMMA AppendFacts ==
  ASSUME NEW S, NEW q \in Seq(S), NEW e \in S
  PROVE  /\ Append(q, e) \in Seq(S) /\ Len(q) \in Nat /\ Len(Append(q, e)) = Len(q) + 1
         /\ \A k \in 1 .. Len(Append(q, e)) :
              Append(q, e)[k] = IF k = Len(q) + 1 THEN e ELSE q[k]
         /\ \A k \in 1 .. Len(Append(q, e)) : k # Len(q) + 1 => k \in 1..Len(q)
  OBVIOUS

LEMMA PipesInvInit == PipesInit => PipesInv
<1> SUFFICES ASSUME PipesInit PROVE PipesInv
  OBVIOUS
<1> USE DEF PipesInit
<1>1. WellFormed(device)
  BY PipesAssumption
<1>2. \A n \in Ifaces(desc) : 0 \in Alts(desc, n)
  BY <1>1, HasSetting0 DEF desc
<1>3. PipesShape
  <2>1. wire = <<>> /\ answers = <<>> /\ saved = FALSE /\ session = FALSE /\ device \in Devices
    OBVIOUS
  <2>2. /\ setting \in [Ifaces(desc) -> Nat]
        /\ chosen \in [Ifaces(desc) -> Nat \cup {-1}]
        /\ \A n \in Ifaces(desc) : setting[n] = 0 /\ chosen[n] = -1
    OBVIOUS
  <2>3. wire \in Seq(PipeRequests(desc)) /\ answers \in Seq(PipeAnswers(desc))
    BY <2>1
  <2> HIDE DEF PipesInit
  <2> QED
    BY <1>2, <2>1, <2>2, <2>3 DEF PipesShape
<1>4. Meant
  <2>1. eps = Table(device, setting)
    BY <1>1, ParseConfigEnters DEF desc
  <2> QED
    BY <2>1 DEF Meant
<1>5. SelectsLast /\ Alike
  BY DEF SelectsLast, Alike
<1> QED
  BY <1>3, <1>4, <1>5 DEF PipesInv

\* The server's steps.
LEMMA ServerSelectsKeeps ==
  ASSUME PipesInv, ServerSelects
  PROVE  PipesInv'
<1> DEFINE n == wire[1].iface
           a == wire[1].alt
<1>1. PICK accepted \in BOOLEAN :
        /\ wire # <<>> /\ wire[1].op = "select" /\ session
        /\ eps' = IF accepted THEN Refresh(device, eps, n, a) ELSE eps
        /\ setting' = IF accepted THEN [setting EXCEPT ![n] = a] ELSE setting
        /\ answers' = Append(answers, [iface |-> n, alt |-> a, room |-> wire[1].room,
                                       accepted |-> accepted])
        /\ wire' = Tail(wire)
        /\ UNCHANGED <<device, saved, pipes, chosen, session, apart, desc>>
  <2>1. wire # <<>> => Head(wire) = wire[1]
    BY DEF PipesInv, PipesShape
  <2> QED
    BY <2>1 DEF ServerSelects, desc
<1>2. PipesShape /\ SelectsLast /\ WellFormed(device)
      /\ \A i \in Ifaces(desc) : Alts(desc, i) \subseteq Nat
  BY DeviceFacts DEF PipesInv
<1>3. /\ n \in Ifaces(desc) /\ a \in Alts(desc, n) /\ a \in Nat /\ wire[1].room \in BOOLEAN
      /\ wire' \in Seq(PipeRequests(desc))
      /\ 1 \in 1..Len(wire)
      /\ \A k \in 1..Len(wire') : k + 1 \in 1..Len(wire) /\ wire'[k] = wire[k + 1] /\ k + 1 # 1
  <2>1. wire \in Seq(PipeRequests(desc))
    BY <1>2 DEF PipesShape
  <2> QED
    BY <1>1, <1>2, <2>1, TailFacts, PipeMessages
<1> DEFINE new == [iface |-> n, alt |-> a, room |-> wire[1].room, accepted |-> accepted]
           last == Len(answers) + 1
<1>4. /\ answers' \in Seq(PipeAnswers(desc))
      /\ Len(answers) \in Nat /\ Len(answers') = last
      /\ \A k \in 1..Len(answers') : answers'[k] = IF k = last THEN new ELSE answers[k]
      /\ \A k \in 1..Len(answers') : k # last => k \in 1..Len(answers)
  <2>1. new \in PipeAnswers(desc)
    BY <1>3 DEF PipeAnswers
  <2>2. answers \in Seq(PipeAnswers(desc))
    BY <1>2 DEF PipesShape
  <2> HIDE DEF new
  <2> QED
    BY <1>1, <2>1, <2>2, AppendFacts DEF new
<1>5. new.iface = n /\ new.alt = a /\ new.accepted = accepted
  OBVIOUS
<1>6. n \in Ifaces(desc)
      /\ \A i \in Ifaces(desc) : setting'[i] = IF accepted /\ i = n THEN a ELSE setting[i]
  BY <1>1, <1>2, <1>3 DEF PipesShape
<1> HIDE DEF new, n, a, last
<1>7. PipesShape'
  <2>1. setting' \in [Ifaces(desc) -> Nat]
    BY <1>1, <1>2, <1>3 DEF PipesShape
  <2>2. \A i \in Ifaces(desc) : setting'[i] \in Alts(desc, i)
    BY <1>2, <1>3, <1>6 DEF PipesShape
  <2> QED
    BY <1>1, <1>2, <1>3, <1>4, <2>1, <2>2 DEF PipesShape
<1>8. Meant'
  <2>1. CASE accepted
    <3>1. Refresh(device, Table(device, setting), n, a) = Table(device, [setting EXCEPT ![n] = a])
      <4>1. /\ \A m \in Ifaces(device.desc) : setting[m] \in Alts(device.desc, m)
            /\ setting = [m \in Ifaces(device.desc) |-> setting[m]]
            /\ n \in Ifaces(device.desc) /\ a \in Alts(device.desc, n)
        BY <1>2, <1>3 DEF PipesShape, desc
      <4> QED
        BY <1>2, <4>1, RefreshEnters
    <3> QED
      BY <1>1, <2>1, <3>1 DEF PipesInv, Meant
  <2>2. CASE ~accepted
    BY <1>1, <2>2 DEF PipesInv, Meant
  <2> QED
    BY <2>1, <2>2
<1>9. /\ \A k \in 1..Len(wire') : wire'[k].iface # n
      /\ \A k \in 1..Len(answers) : answers[k].iface # n
  <2>1. \A k \in 1..Len(wire) : k # 1 => wire[k].iface # n
    <3> SUFFICES ASSUME NEW k \in 1..Len(wire), wire[k].iface = n PROVE k = 1
      OBVIOUS
    <3>1. k <= 1
      BY <1>1, <1>2, <1>3 DEF SelectsLast, n
    <3> QED
      BY <3>1
  <2>2. \A k \in 1..Len(answers) : answers[k].iface # n
    BY <1>2, <1>3 DEF SelectsLast, n
  <2> QED
    BY <1>3, <2>1, <2>2
<1>10. SelectsLast'
  <2>1. ASSUME NEW i \in 1..Len(wire'), NEW j \in 1..Len(wire'),
               wire'[i].op = "select", wire'[j].iface = wire'[i].iface
        PROVE  j <= i
    <3>1. j + 1 <= i + 1
      BY <1>2, <1>3, <2>1 DEF SelectsLast
    <3> QED
      BY <3>1
  <2>2. ASSUME NEW i \in 1..Len(answers'), NEW j \in 1..Len(wire')
        PROVE  answers'[i].iface # wire'[j].iface
    <3>1. CASE i = last
      BY <1>4, <1>5, <1>9, <3>1
    <3>2. CASE i # last
      <4>1. i \in 1..Len(answers) /\ answers'[i] = answers[i]
        BY <1>4, <3>2
      <4>2. j + 1 \in 1..Len(wire) /\ wire'[j] = wire[j + 1]
        BY <1>3
      <4> QED
        BY <1>2, <4>1, <4>2 DEF SelectsLast
    <3> QED
      BY <3>1, <3>2
  <2>3. ASSUME NEW i \in 1..Len(answers'), NEW j \in 1..Len(answers'),
               answers'[i].iface = answers'[j].iface
        PROVE  i = j
    BY <1>2, <1>4, <1>5, <1>9, <2>3 DEF SelectsLast
  <2> QED
    BY <2>1, <2>2, <2>3 DEF SelectsLast
<1>11. Alike'
  <2>1. /\ \A i \in Ifaces(desc) \ apart : AgreesSoon(i)
        /\ \A i \in 1..Len(answers) :
             answers[i].accepted => setting[answers[i].iface] = answers[i].alt
        /\ \A j \in 1..Len(wire) :
             wire[j].op = "transfer" /\ wire[j].iface \notin apart =>
               wire[j].ep \in Setting(device, wire[j].iface, setting[wire[j].iface])
    BY <1>1 DEF PipesInv, Alike
  <2>2. last \in 1..Len(answers') /\ answers'[last].iface = n /\ answers'[last].accepted = accepted
        /\ answers'[last].alt = a
    BY <1>4, <1>5 DEF last
  <2>3. \A k \in 1..Len(answers) : k \in 1..Len(answers') /\ answers'[k] = answers[k]
    BY <1>4 DEF last
  <2>4. ASSUME NEW i \in Ifaces(desc) \ apart PROVE AgreesSoon(i)'
    <3>1. CASE i = n /\ accepted
      BY <2>2, <3>1 DEF AgreesSoon
    <3>2. CASE ~(i = n /\ accepted)
      <4>1. setting'[i] = setting[i] /\ chosen'[i] = chosen[i]
        BY <1>1, <1>6, <3>2
      <4>2. Agrees(i) => Agrees(i)'
        BY <4>1 DEF Agrees
      <4> QED
        BY <2>1, <2>3, <4>2 DEF AgreesSoon
    <3> QED
      BY <3>1, <3>2
  <2>5. ASSUME NEW i \in 1..Len(answers'), answers'[i].accepted
        PROVE  setting'[answers'[i].iface] = answers'[i].alt
    <3>1. CASE i = last
      BY <1>6, <2>2, <2>5, <3>1
    <3>2. CASE i # last
      <4>1. i \in 1..Len(answers) /\ answers'[i] = answers[i] /\ answers[i].iface # n
            /\ answers[i].iface \in Ifaces(desc)
        BY <1>2, <1>4, <1>9, <3>2, PipeMessages
      <4> QED
        BY <1>6, <2>1, <2>5, <4>1
    <3> QED
      BY <3>1, <3>2
  <2>6. ASSUME NEW j \in 1..Len(wire'), wire'[j].op = "transfer", wire'[j].iface \notin apart
        PROVE  wire'[j].ep \in Setting(device, wire'[j].iface, setting'[wire'[j].iface])
    <3>1. /\ j + 1 \in 1..Len(wire) /\ wire'[j] = wire[j + 1] /\ wire[j + 1].iface # n
          /\ wire[j + 1].iface \in Ifaces(desc)
      BY <1>2, <1>3, <1>9, PipeMessages
    <3> QED
      BY <1>6, <2>1, <2>6, <3>1
  <2> QED
    BY <1>1, <2>4, <2>5, <2>6 DEF Alike
<1> QED
  BY <1>7, <1>8, <1>10, <1>11 DEF PipesInv

\* A step that changes neither side's setting of an interface and takes what is under way
\* from its front, or forgets it.
LEMMA OthersKeep ==
  ASSUME PipesInv,
         UNCHANGED <<device, pipes, chosen, eps, setting, apart>>,
         saved' \in BOOLEAN, session' \in BOOLEAN, session' => session,
         answers' = answers,
         \/ wire' = <<>> \/ wire' = wire \/ (wire # <<>> /\ wire' = Tail(wire))
  PROVE  PipesInv'
<1>1. PipesShape /\ Meant /\ SelectsLast /\ desc' = desc
  BY DEF PipesInv, desc
<1>2. \E by \in {0, 1} : /\ wire' \in Seq(PipeRequests(desc))
                         /\ \A k \in 1..Len(wire') : k + by \in 1..Len(wire)
                                                     /\ wire'[k] = wire[k + by]
  <2>1. CASE wire' = <<>>
    BY <2>1
  <2>2. CASE wire' = wire
    BY <1>1, <2>2 DEF PipesShape
  <2>3. CASE wire # <<>> /\ wire' = Tail(wire)
    BY <1>1, <2>3, TailFacts DEF PipesShape
  <2> QED
    BY <2>1, <2>2, <2>3
<1>3. PICK by \in {0, 1} : /\ wire' \in Seq(PipeRequests(desc))
                           /\ \A k \in 1..Len(wire') : k + by \in 1..Len(wire)
                                                       /\ wire'[k] = wire[k + by]
  BY <1>2
<1>4. PipesShape'
  BY <1>1, <1>3 DEF PipesShape
<1>5. Meant'
  BY <1>1 DEF Meant
<1>6. SelectsLast'
  <2>1. ASSUME NEW i \in 1..Len(wire'), NEW j \in 1..Len(wire'),
               wire'[i].op = "select", wire'[j].iface = wire'[i].iface
        PROVE  j <= i
    <3>1. j + by <= i + by
      BY <1>1, <1>3, <2>1 DEF SelectsLast
    <3> QED
      BY <3>1
  <2>2. ASSUME NEW i \in 1..Len(answers), NEW j \in 1..Len(wire')
        PROVE  answers[i].iface # wire'[j].iface
    BY <1>1, <1>3 DEF SelectsLast
  <2> QED
    BY <1>1, <2>1, <2>2 DEF SelectsLast
<1>7. Alike'
  <2> SUFFICES ASSUME session' PROVE Alike'
    BY DEF Alike
  <2>1. Alike /\ session
    BY DEF PipesInv
  <2>2. \A n : AgreesSoon(n) => AgreesSoon(n)'
    BY DEF AgreesSoon, Agrees
  <2>3. ASSUME NEW j \in 1..Len(wire'), wire'[j].op = "transfer", wire'[j].iface \notin apart
        PROVE  wire'[j].ep \in Setting(device, wire'[j].iface, setting[wire'[j].iface])
    BY <1>3, <2>1, <2>3 DEF Alike
  <2> QED
    BY <1>1, <2>1, <2>2, <2>3 DEF Alike
<1> QED
  BY <1>4, <1>5, <1>6, <1>7 DEF PipesInv

LEMMA ServerOthersKeep ==
  ASSUME PipesInv, ServerTransfers \/ ClientLeaves \/ SaveConfig
  PROVE  PipesInv'
<1>1. PipesShape
  BY DEF PipesInv
<1>2. CASE ServerTransfers
  <2>1. session' \in BOOLEAN
    BY <1>2 DEF ServerTransfers, Serves
  <2> QED
    BY <1>1, <1>2, <2>1, OthersKeep DEF ServerTransfers, PipesShape
<1>3. CASE ClientLeaves
  BY <1>1, <1>3, OthersKeep DEF ClientLeaves, PipesShape
<1>4. CASE SaveConfig
  BY <1>1, <1>4, OthersKeep DEF SaveConfig, PipesShape
<1> QED
  BY <1>2, <1>3, <1>4

\* A new session: nothing is under way, and nothing was chosen.
LEMMA AttachKeeps ==
  ASSUME PipesInv, Attach
  PROVE  PipesInv'
<1>1. PipesShape /\ Meant /\ desc' = desc /\ device' = device
      /\ \A n \in Ifaces(desc) : 0 \in Alts(desc, n)
  BY DeviceFacts DEF PipesInv, Attach, desc
<1>2. /\ wire' = <<>> /\ answers' = <<>> /\ saved' = FALSE /\ session' = TRUE
      /\ pipes' = [n \in Ifaces(desc) |-> {}] /\ chosen' = [n \in Ifaces(desc) |-> -1]
      /\ apart' = {n \in Ifaces(desc) : setting[n] # 0}
      /\ eps' = eps /\ setting' = setting
  BY DEF Attach
<1>3. PipesShape'
  <2>1. wire' \in Seq(PipeRequests(desc)) /\ answers' \in Seq(PipeAnswers(desc))
    BY <1>2
  <2>2. /\ chosen' \in [Ifaces(desc) -> Nat \cup {-1}]
        /\ \A n \in Ifaces(desc) : chosen'[n] = -1
    BY <1>2
  <2> QED
    BY <1>1, <1>2, <2>1, <2>2 DEF PipesShape
<1>4. Meant'
  BY <1>1, <1>2 DEF Meant
<1>5. SelectsLast'
  BY <1>2 DEF SelectsLast
<1>6. Alike'
  <2>1. \A n \in Ifaces(desc) \ apart' : AgreesSoon(n)'
    BY <1>1, <1>2 DEF AgreesSoon, Agrees
  <2> QED
    BY <1>1, <1>2, <2>1 DEF Alike
<1> QED
  BY <1>3, <1>4, <1>5, <1>6 DEF PipesInv

\* The bus driver is asked to select a configuration.
LEMMA SelectConfigKeeps ==
  ASSUME PipesInv, NEW m \in 0 .. desc[1].interfaces, SelectConfig(m)
  PROVE  PipesInv'
<1>1. PipesShape /\ Meant /\ SelectsLast /\ desc' = desc /\ device' = device
      /\ WellFormed(device) /\ \A n \in Ifaces(desc) : 0 \in Alts(desc, n)
  BY DeviceFacts DEF PipesInv, SelectConfig, desc
<1>2. /\ session /\ \A n \in Ifaces(desc) : ~Selecting(n)
      /\ chosen' = [n \in Ifaces(desc) |-> IF n < m THEN 0 ELSE -1]
      /\ apart' = apart \cup {n \in Ifaces(desc) : chosen[n] > 0}
      /\ UNCHANGED <<saved, wire, answers, eps, setting, session>>
  BY DEF SelectConfig
<1>3. pipes' = [n \in Ifaces(desc) |-> IF n < m THEN Setting(device, n, 0) ELSE {}]
  BY <1>1, SelectConfigFinds
<1>4. PipesShape'
  <2>1. chosen' \in [Ifaces(desc) -> Nat \cup {-1}]
    BY <1>2
  <2>2. \A n \in Ifaces(desc) : chosen'[n] = 0 \/ chosen'[n] = -1
    BY <1>2
  <2> QED
    BY <1>1, <1>2, <2>1, <2>2 DEF PipesShape
<1>5. Meant'
  <2>1. \A n \in Ifaces(desc) : chosen'[n] = IF n < m THEN 0 ELSE -1
    BY <1>2
  <2>2. pipes' = [n \in Ifaces(desc) |-> IF chosen'[n] = -1 THEN {}
                                         ELSE Setting(device, n, chosen'[n])]
    BY <1>3, <2>1
  <2> QED
    BY <1>1, <1>2, <2>2 DEF Meant
<1>6. SelectsLast'
  BY <1>1, <1>2 DEF SelectsLast
<1>7. Alike'
  <2>1. Alike
    BY DEF PipesInv
  <2>2. ASSUME NEW n \in Ifaces(desc) \ apart' PROVE AgreesSoon(n)'
    <3>1. AgreesSoon(n) /\ ~(chosen[n] > 0)
      BY <1>2, <2>1 DEF Alike
    <3>2. Agrees(n)
      BY <1>2, <3>1 DEF AgreesSoon, Selecting
    <3>3. chosen[n] \in Nat \cup {-1} /\ (chosen'[n] = 0 \/ chosen'[n] = -1)
      BY <1>1, <1>2 DEF PipesShape
    <3>4. Agrees(n)'
      BY <1>2, <3>1, <3>2, <3>3 DEF Agrees
    <3> QED
      BY <3>4 DEF AgreesSoon
  <2> QED
    BY <1>1, <1>2, <2>1, <2>2 DEF Alike
<1> QED
  BY <1>4, <1>5, <1>6, <1>7 DEF PipesInv

\* A request is sent for an interface for which no selection is under way.
LEMMA SendsKeep ==
  ASSUME PipesInv, NEW r \in PipeRequests(desc), ~Selecting(r.iface),
         r.op = "transfer" /\ r.iface \notin apart =>
           r.ep \in Setting(device, r.iface, setting[r.iface]),
         wire' = Append(wire, r),
         UNCHANGED <<device, saved, pipes, chosen, answers, eps, setting, session, apart>>
  PROVE  PipesInv'
<1> DEFINE last == Len(wire) + 1
<1>1. PipesShape /\ Meant /\ SelectsLast /\ Alike /\ desc' = desc
  BY DEF PipesInv, desc
<1>2. /\ wire' \in Seq(PipeRequests(desc)) /\ Len(wire) \in Nat /\ Len(wire') = last
      /\ \A k \in 1..Len(wire') : wire'[k] = IF k = last THEN r ELSE wire[k]
      /\ \A k \in 1..Len(wire') : k # last => k \in 1..Len(wire)
  BY <1>1, AppendFacts DEF PipesShape
<1>3. /\ \A k \in 1..Len(wire) : wire[k].op = "select" => wire[k].iface # r.iface
      /\ \A k \in 1..Len(answers) : answers[k].iface # r.iface
  BY DEF Selecting
<1>4. PipesShape'
  BY <1>1, <1>2 DEF PipesShape
<1>5. Meant'
  BY <1>1 DEF Meant
<1>6. SelectsLast'
  <2>1. ASSUME NEW i \in 1..Len(wire'), NEW j \in 1..Len(wire'),
               wire'[i].op = "select", wire'[j].iface = wire'[i].iface
        PROVE  j <= i
    <3>1. CASE i = last
      BY <1>2, <3>1
    <3>2. CASE i # last
      <4>1. i \in 1..Len(wire) /\ wire'[i] = wire[i] /\ wire[i].iface # r.iface
        BY <1>2, <1>3, <2>1, <3>2
      <4>2. j # last /\ j \in 1..Len(wire) /\ wire'[j] = wire[j]
        BY <1>2, <2>1, <4>1
      <4> QED
        BY <1>1, <2>1, <4>1, <4>2 DEF SelectsLast
    <3> QED
      BY <3>1, <3>2
  <2>2. ASSUME NEW i \in 1..Len(answers), NEW j \in 1..Len(wire')
        PROVE  answers[i].iface # wire'[j].iface
    <3>1. CASE j = last
      BY <1>2, <1>3, <3>1
    <3>2. CASE j # last
      BY <1>1, <1>2, <3>2 DEF SelectsLast
    <3> QED
      BY <3>1, <3>2
  <2> QED
    BY <1>1, <2>1, <2>2 DEF SelectsLast
<1>7. Alike'
  <2> SUFFICES ASSUME session PROVE Alike'
    BY DEF Alike
  <2>1. \A n : AgreesSoon(n) => AgreesSoon(n)'
    BY DEF AgreesSoon, Agrees
  <2>2. ASSUME NEW j \in 1..Len(wire'), wire'[j].op = "transfer", wire'[j].iface \notin apart
        PROVE  wire'[j].ep \in Setting(device, wire'[j].iface, setting[wire'[j].iface])
    <3>1. CASE j = last
      BY <1>2, <2>2, <3>1
    <3>2. CASE j # last
      BY <1>1, <1>2, <2>2, <3>2 DEF Alike
    <3> QED
      BY <3>1, <3>2
  <2> QED
    BY <1>1, <2>1, <2>2 DEF Alike
<1> QED
  BY <1>4, <1>5, <1>6, <1>7 DEF PipesInv

LEMMA FunctionDriverKeeps ==
  ASSUME PipesInv, NEW n \in Ifaces(desc), SelectInterface(n) \/ Transfer(n)
  PROVE  PipesInv'
<1>1. PipesShape /\ Meant /\ Alike
      /\ \A a \in Alts(desc, n) : a \in Nat /\ Setting(device, n, a) \subseteq EndpointType
  BY DeviceFacts DEF PipesInv
<1>2. CASE SelectInterface(n)
  <2>1. PICK a \in Alts(desc, n), room \in BOOLEAN :
          wire' = Append(wire, [op |-> "select", iface |-> n, alt |-> a, room |-> room])
    BY <1>2 DEF SelectInterface
  <2> DEFINE r == [op |-> "select", iface |-> n, alt |-> a, room |-> room]
  <2>2. r \in PipeRequests(desc) /\ r.op = "select" /\ r.iface = n
    BY <1>1 DEF PipeRequests
  <2>3. /\ ~Selecting(n)
        /\ UNCHANGED <<device, saved, pipes, chosen, answers, eps, setting, session, apart>>
    BY <1>2 DEF SelectInterface
  <2>4. wire' = Append(wire, r)
    BY <2>1
  <2> HIDE DEF r
  <2> QED
    BY <2>2, <2>3, <2>4, SendsKeep
<1>3. CASE Transfer(n)
  <2>1. PICK e \in pipes[n] :
          wire' = Append(wire, [op |-> "transfer", iface |-> n, ep |-> e])
    BY <1>3 DEF Transfer
  <2> DEFINE r == [op |-> "transfer", iface |-> n, ep |-> e]
  <2>2. /\ ~Selecting(n) /\ session
        /\ UNCHANGED <<device, saved, pipes, chosen, answers, eps, setting, session, apart>>
    BY <1>3 DEF Transfer
  <2>3. chosen[n] # -1 /\ chosen[n] \in Alts(desc, n) /\ e \in Setting(device, n, chosen[n])
    <3>1. pipes[n] = IF chosen[n] = -1 THEN {} ELSE Setting(device, n, chosen[n])
      BY <1>1 DEF Meant
    <3> QED
      BY <1>1, <2>1, <3>1 DEF PipesShape
  <2>4. r \in PipeRequests(desc) /\ r.op = "transfer" /\ r.iface = n /\ r.ep = e
    BY <1>1, <2>3 DEF PipeRequests
  <2>5. n \notin apart => e \in Setting(device, n, setting[n])
    <3>1. n \notin apart => AgreesSoon(n)
      BY <1>1, <2>2 DEF Alike
    <3>2. n \notin apart => Agrees(n)
      BY <2>2, <3>1 DEF AgreesSoon, Selecting
    <3> QED
      BY <2>3, <3>2 DEF Agrees
  <2>6. wire' = Append(wire, r)
    BY <2>1
  <2> HIDE DEF r
  <2> QED
    BY <2>2, <2>4, <2>5, <2>6, SendsKeep
<1> QED
  BY <1>2, <1>3

\* The bus driver takes the answer to a selection.
LEMMA PostSelectKeeps ==
  ASSUME PipesInv, PostSelectInterface
  PROVE  PipesInv'
<1> DEFINE n == answers[1].iface
           a == answers[1].alt
           set == saved /\ ClientSeek(desc, 0, n, a) # 0 /\ answers[1].room
<1>1. /\ answers # <<>> /\ session
      /\ pipes' = IF set THEN [pipes EXCEPT ![n] = Endpoints(device, ClientSeek(desc, 0, n, a))]
                  ELSE pipes
      /\ chosen' = IF set THEN [chosen EXCEPT ![n] = a] ELSE chosen
      /\ apart' = CASE set /\ answers[1].accepted -> apart \ {n}
                    [] ~set /\ ~answers[1].accepted -> apart
                    [] OTHER -> apart \cup {n}
      /\ answers' = Tail(answers)
      /\ UNCHANGED <<device, saved, wire, eps, setting, session, desc>>
  <2>1. answers # <<>> => Head(answers) = answers[1]
    BY DEF PipesInv, PipesShape
  <2> QED
    BY <2>1 DEF PostSelectInterface, desc
<1>2. PipesShape /\ Meant /\ SelectsLast /\ Alike
  BY DEF PipesInv
<1>3. /\ answers' \in Seq(PipeAnswers(desc)) /\ 1 \in 1..Len(answers)
      /\ \A k \in 1..Len(answers') : /\ k + 1 \in 1..Len(answers) /\ k + 1 # 1
                                     /\ answers'[k] = answers[k + 1]
  BY <1>1, <1>2, TailFacts DEF PipesShape
<1>4. /\ n \in Ifaces(desc) /\ a \in Alts(desc, n) /\ a \in Nat /\ answers[1].accepted \in BOOLEAN
      /\ Endpoints(device, ClientSeek(desc, 0, n, a)) = Setting(device, n, a)
  BY <1>2, <1>3, PipeMessages, DeviceFacts
<1>5. set \in BOOLEAN
  BY <1>2, <1>3 DEF PipesShape, PipeAnswers
<1> HIDE DEF n, a, set
<1>6. /\ chosen' \in [Ifaces(desc) -> Nat \cup {-1}]
      /\ \A i \in Ifaces(desc) : chosen'[i] = IF set /\ i = n THEN a ELSE chosen[i]
      /\ \A i \in Ifaces(desc) : pipes'[i] = IF set /\ i = n THEN Setting(device, n, a) ELSE pipes[i]
      /\ pipes' = [i \in Ifaces(desc) |-> pipes'[i]]
  BY <1>1, <1>2, <1>4 DEF PipesShape, Meant
<1>7. PipesShape'
  BY <1>1, <1>2, <1>3, <1>4, <1>6 DEF PipesShape
<1>8. Meant'
  <2>1. \A i \in Ifaces(desc) :
          pipes'[i] = IF chosen'[i] = -1 THEN {} ELSE Setting(device, i, chosen'[i])
    <3> SUFFICES ASSUME NEW i \in Ifaces(desc)
                 PROVE  pipes'[i] = IF chosen'[i] = -1 THEN {} ELSE Setting(device, i, chosen'[i])
      OBVIOUS
    <3>1. CASE set /\ i = n
      <4>1. a # -1
        BY <1>4
      <4> QED
        BY <1>6, <3>1, <4>1
    <3>2. CASE ~(set /\ i = n)
      BY <1>2, <1>6, <3>2 DEF Meant
    <3> QED
      BY <3>1, <3>2
  <2>2. pipes' = [i \in Ifaces(desc) |-> IF chosen'[i] = -1 THEN {}
                                         ELSE Setting(device, i, chosen'[i])]
    BY <1>6, <2>1
  <2> QED
    BY <1>1, <1>2, <2>2 DEF Meant
<1>9. /\ \A k \in 1..Len(answers') : answers'[k].iface # n
      /\ \A k \in 1..Len(wire) : wire[k].iface # n
  BY <1>2, <1>3 DEF SelectsLast, n
<1>10. SelectsLast'
  <2>1. ASSUME NEW i \in 1..Len(answers'), NEW j \in 1..Len(answers'),
               answers'[i].iface = answers'[j].iface
        PROVE  i = j
    <3>1. i + 1 = j + 1
      BY <1>2, <1>3, <2>1 DEF SelectsLast
    <3> QED
      BY <3>1
  <2>2. ASSUME NEW i \in 1..Len(answers'), NEW j \in 1..Len(wire)
        PROVE  answers'[i].iface # wire[j].iface
    <3>1. i + 1 \in 1..Len(answers) /\ answers'[i] = answers[i + 1]
      BY <1>3
    <3> QED
      BY <1>2, <3>1 DEF SelectsLast
  <2> QED
    BY <1>1, <1>2, <2>1, <2>2 DEF SelectsLast
<1>11. Alike'
  <2>1. ASSUME NEW i \in Ifaces(desc) \ apart' PROVE AgreesSoon(i)'
    <3>1. CASE i = n
      <4>1. CASE answers[1].accepted
        <5>1. set
          BY <1>1, <1>4, <1>5, <2>1, <3>1, <4>1
        <5>2. setting[n] = a
          BY <1>1, <1>2, <1>3, <4>1 DEF Alike, n, a
        <5>3. setting'[i] = a /\ chosen'[i] = a
          BY <1>1, <1>6, <2>1, <3>1, <5>1, <5>2
        <5>4. Agrees(i)'
          BY <1>4, <5>3 DEF Agrees
        <5> QED
          BY <5>4 DEF AgreesSoon
      <4>2. CASE ~answers[1].accepted
        <5>1. ~set /\ apart' = apart
          BY <1>1, <1>4, <1>5, <2>1, <3>1, <4>2
        <5>2. AgreesSoon(n)
          BY <1>1, <1>2, <1>4, <2>1, <3>1, <5>1 DEF Alike
        <5>3. Agrees(n)
          BY <1>2, <1>3, <4>2, <5>2 DEF AgreesSoon, SelectsLast, n
        <5>4. Agrees(i)'
          BY <1>1, <1>6, <2>1, <3>1, <5>1, <5>3 DEF Agrees
        <5> QED
          BY <5>4 DEF AgreesSoon
      <4> QED
        BY <4>1, <4>2
    <3>2. CASE i # n
      <4>1. i \notin apart
        BY <1>1, <1>5, <2>1, <3>2
      <4>2. AgreesSoon(i)
        BY <1>1, <1>2, <2>1, <4>1 DEF Alike
      <4>3. chosen'[i] = chosen[i] /\ setting'[i] = setting[i]
        BY <1>1, <1>6, <2>1, <3>2
      <4>4. CASE Agrees(i)
        BY <4>3, <4>4 DEF AgreesSoon, Agrees
      <4>5. ASSUME NEW k \in 1..Len(answers), answers[k].iface = i, answers[k].accepted
            PROVE  AgreesSoon(i)'
        <5>1. k # 1
          BY <3>2, <4>5 DEF n
        <5>2. k - 1 \in 1..Len(answers') /\ answers'[k - 1] = answers[k]
          BY <1>1, <1>2, <5>1, TailFacts DEF PipesShape
        <5> QED
          BY <4>5, <5>2 DEF AgreesSoon
      <4> QED
        BY <4>2, <4>4, <4>5 DEF AgreesSoon
    <3> QED
      BY <3>1, <3>2
  <2>2. ASSUME NEW k \in 1..Len(answers'), answers'[k].accepted
        PROVE  setting'[answers'[k].iface] = answers'[k].alt
    BY <1>1, <1>2, <1>3, <2>2 DEF Alike
  <2>3. ASSUME NEW j \in 1..Len(wire), wire[j].op = "transfer", wire[j].iface \notin apart'
        PROVE  wire[j].ep \in Setting(device, wire[j].iface, setting[wire[j].iface])
    <3>1. wire[j].iface \notin apart
      BY <1>1, <1>5, <1>9, <2>3
    <3> QED
      BY <1>1, <1>2, <2>3, <3>1 DEF Alike
  <2> QED
    BY <1>1, <2>1, <2>2, <2>3 DEF Alike
<1> QED
  BY <1>7, <1>8, <1>10, <1>11 DEF PipesInv

LEMMA PipesInvNext == PipesInv /\ [PipesNext]_pipesVars => PipesInv'
<1> SUFFICES ASSUME PipesInv, [PipesNext]_pipesVars PROVE PipesInv'
  OBVIOUS
<1>1. CASE ServerSelects
  BY <1>1, ServerSelectsKeeps
<1>2. CASE ServerTransfers \/ ClientLeaves \/ SaveConfig
  BY <1>2, ServerOthersKeep
<1>3. CASE Attach
  BY <1>3, AttachKeeps
<1>4. CASE PostSelectInterface
  BY <1>4, PostSelectKeeps
<1>5. ASSUME NEW m \in 0 .. desc[1].interfaces, SelectConfig(m) PROVE PipesInv'
  BY <1>5, SelectConfigKeeps
<1>6. ASSUME NEW n \in Ifaces(desc), SelectInterface(n) \/ Transfer(n) PROVE PipesInv'
  BY <1>6, FunctionDriverKeeps
<1>7. CASE UNCHANGED pipesVars
  BY <1>7, OthersKeep DEF pipesVars, PipesInv, PipesShape
<1> QED
  BY <1>1, <1>2, <1>3, <1>4, <1>5, <1>6, <1>7 DEF PipesNext

\* What is under way for the pipes of a device, and whose setting is whose: the inductive
\* invariant of the two programs that read the descriptors.
THEOREM PipesInvHolds == PipesSpec => []PipesInv
  BY PipesInvInit, PipesInvNext, PTL DEF PipesSpec

\* Whatever a device's descriptors are, as long as they are well-formed, and in whatever
\* order settings are selected and refused: the server's table (add_ep_info,
\* usbip_refresh_eps) has the endpoints of the settings that the device is in, and a
\* function driver has the pipes of one setting.
THEOREM TablesAlwaysSettings == PipesSpec => []TablesAreSettings
<1>1. PipesInv => TablesAreSettings
  <2> SUFFICES ASSUME PipesInv PROVE TablesAreSettings
    OBVIOUS
  <2>1. eps = Table(device, setting)
        /\ pipes = [n \in Ifaces(desc) |-> IF chosen[n] = -1 THEN {}
                                           ELSE Setting(device, n, chosen[n])]
    BY DEF PipesInv, Meant
  <2>2. \A n : {t.ep : t \in Entries(device, n, setting[n])} = Setting(device, n, setting[n])
    <3> TAKE n
    <3>1. \A e \in Setting(device, n, setting[n]) :
            [ep |-> e, intf |-> n, alter |-> setting[n]].ep = e
      OBVIOUS
    <3> QED
      BY <3>1 DEF Entries
  <2>3. {t.ep : t \in Table(device, setting)} =
          UNION {Setting(device, n, setting[n]) : n \in Ifaces(desc)}
    <3> DEFINE Of(n) == Entries(device, n, setting[n])
               In(n) == Setting(device, n, setting[n])
    <3>1. Table(device, setting) = UNION {Of(n) : n \in Ifaces(desc)}
      BY DEF Table, desc
    <3>2. \A n : {t.ep : t \in Of(n)} = In(n)
      BY <2>2
    <3> HIDE DEF Of, In
    <3>3. {t.ep : t \in UNION {Of(n) : n \in Ifaces(desc)}} = UNION {In(n) : n \in Ifaces(desc)}
      <4>1. ASSUME NEW n \in Ifaces(desc), NEW t \in Of(n)
            PROVE  t.ep \in In(n)
        BY <3>2
      <4>2. ASSUME NEW n \in Ifaces(desc), NEW e \in In(n)
            PROVE  \E t \in Of(n) : t.ep = e
        BY <3>2
      <4> QED
        BY <4>1, <4>2
    <3> QED
      BY <3>1, <3>3 DEF In
  <2> QED
    BY <2>1, <2>3 DEF TablesAreSettings
<1> QED
  BY <1>1, PipesInvHolds, PTL

\* A function driver that uses the pipes it was given ends its session only on an interface
\* that the two sides set differently, and the model says when they can.
THEOREM EndsOnlyWhereApart == PipesSpec => EndsOnlyApart
<1>1. ASSUME PipesInv, session, wire # <<>>, Head(wire).op = "transfer",
             ~Serves(eps, Head(wire).ep), Head(wire).iface \notin apart
      PROVE  FALSE
  <2> DEFINE r == wire[1]
             n == r.iface
  <2>1. Head(wire) = r /\ 1 \in 1..Len(wire) /\ r.iface \in Ifaces(desc)
    BY <1>1, PipeMessages, TailFacts DEF PipesInv, PipesShape
  <2>2. r.ep \in Setting(device, n, setting[n])
    BY <1>1, <2>1 DEF PipesInv, Alike
  <2>3. setting[n] \in Alts(desc, n)
    BY <1>1, <2>1 DEF PipesInv, PipesShape
  <2>4. r.ep.size \in Nat
    BY <1>1, <2>1, <2>2, <2>3, DeviceFacts DEF PipesInv, EndpointType
  <2> DEFINE t == [ep |-> r.ep, intf |-> n, alter |-> setting[n]]
  <2>5. t \in eps
    BY <1>1, <2>1, <2>2 DEF PipesInv, Meant, Table, Entries, desc
  <2>6. Serves(eps, r.ep)
    BY <2>4, <2>5 DEF Serves
  <2> QED
    BY <1>1, <2>1, <2>6
<1>2. PipesInv /\ [PipesNext]_pipesVars =>
        (session /\ ~session' /\ wire # <<>> /\ Head(wire).op = "transfer"
           /\ ~Serves(eps, Head(wire).ep) => Head(wire).iface \in apart)
  BY <1>1
<1> QED
  BY <1>2, PipesInvHolds, PTL DEF PipesSpec, EndsOnlyApart

=============================================================================
