-------------------------- MODULE BusPnpProofs ----------------------------
(***************************************************************************)
(* Proofs about the bus driver's handles and devices, for any number of    *)
(* them, of threads and of addresses, and whatever the PnP manager sends:  *)
(* a device that knows a handle is the one the handle stands for until its *)
(* destruction clears the handle, and a handle outlives its device only in *)
(* the middle of its close; and the list of devices holds those of the     *)
(* bus, each once.                                                         *)
(*                                                                         *)
(* HandleOwnsItsDevice is not inductive.  A PDO that bus_plugin_dev has    *)
(* tied to a handle does not know the handle before it is filled in; until *)
(* then it is the thread that plugs it in which knows both, and no other.  *)
(* That thread is also why no PDO is half made when the bus is deleted,    *)
(* which ListIsExact needs with what the bus's own states lead to.  And as *)
(* a close and a destruction take a tie apart in steps that interleave,    *)
(* ClosingKnown and DetachKnown say what each of them still finds of it.   *)
(*                                                                         *)
(* That a cancelled query restores the state before it (CancelRestores)    *)
(* rests on RestoreInv: a state in which a query is answered keeps the one *)
(* it came from, and that is a running one wherever the PnP manager has    *)
(* the bus or the device as started.                                       *)
(***************************************************************************)
EXTENDS BusPnp, SeqLemmas

PdoFields == {"life", "SerialNo", "fo", "held", "Present", "ReportedMissing", "ParentFdo", "state",
              "previous"}
CallerFields == {"pc", "handle", "addr", "pdo"}

PdoShape == /\ pdo = [p \in Pdos |-> pdo[p]]
            /\ \A p \in Pdos : pdo[p] = [f \in PdoFields |-> pdo[p][f]]

CallerShape == /\ caller = [c \in Callers |-> caller[c]]
               /\ \A c \in Callers : caller[c] = [f \in CallerFields |-> caller[c][f]]

Inserting(c) == caller[c].pc = "insert"

\* In Bus_Cleanup, with a device that the handle stood for.
Closing(c) == caller[c].pc \in {"forget", "clear"}

\* A thread that plugs in has an open handle; from PlugClaim to PlugInsert it has a PDO
\* that nobody else has and that the handle stands for.
Plugging ==
  /\ \A c \in Callers : caller[c].pc \in {"plug", "insert"} =>
       caller[c].handle \in Handles \ closed
  /\ \A c \in Callers : Inserting(c) =>
       /\ caller[c].pdo \in Pdos
       /\ pdo[caller[c].pdo].life = "made"
       /\ FsContext[caller[c].handle] = caller[c].pdo
       /\ \A d \in Callers : Inserting(d) /\ caller[d].pdo = caller[c].pdo => d = c

\* A handle is closed by one thread.  Until that thread has made the device forget it, the
\* device knows the handle or was freed; and a destruction may have cleared the handle.
ClosingKnown ==
  \A c \in Callers : Closing(c) =>
    /\ caller[c].handle \in Handles /\ caller[c].handle \in closed
    /\ caller[c].pdo \in Pdos
    /\ pdo[caller[c].pdo].life \notin {"none", "made"}
    /\ FsContext[caller[c].handle] \in {caller[c].pdo, NULL}
    /\ caller[c].pc = "forget" => \/ pdo[caller[c].pdo].life = "deleted"
                                  \/ pdo[caller[c].pdo].fo = caller[c].handle
    /\ caller[c].pc = "clear" => pdo[caller[c].pdo].fo = NULL
    /\ \A d \in Callers : Closing(d) /\ caller[d].handle = caller[c].handle => d = c

\* A handle stands for a PDO that is about to be filled in for it, or that knows it, or
\* that a close has made forget it.
HandleKnown ==
  /\ FsContext \in [Handles -> Pdos \cup {NULL}]
  /\ \A h \in Handles : FsContext[h] # NULL =>
       \/ \E c \in Callers : Inserting(c) /\ caller[c].handle = h /\ caller[c].pdo = FsContext[h]
       \/ /\ pdo[FsContext[h]].life \in {"there", "dying", "detaching"}
          /\ pdo[FsContext[h]].fo = h
       \/ \E c \in Callers : caller[c].pc = "clear" /\ caller[c].handle = h

\* A PDO that knows a handle is the one that the handle stands for, until its destruction
\* has cleared the handle.
OwnerKnown ==
  \A p \in Pdos : pdo[p].fo # NULL =>
    /\ pdo[p].fo \in Handles
    /\ pdo[p].life \in {"there", "dying", "detaching", "detached"}
    /\ pdo[p].life # "detached" => FsContext[pdo[p].fo] = p

\* The handle that a destruction is about to clear stands for that PDO, or for none and is
\* closed.
DetachKnown ==
  \A p \in Pdos : pdo[p].life = "detaching" =>
    /\ pdo[p].held \in Handles
    /\ FsContext[pdo[p].held] \in {p, NULL}
    /\ pdo[p].fo = pdo[p].held \/ (pdo[p].fo = NULL /\ pdo[p].held \in closed)

\* A PDO that is not filled in yet is being plugged in by a thread.
MadeKnown == \A p \in Pdos : pdo[p].life = "made" =>
               \E c \in Callers : Inserting(c) /\ caller[c].pdo = p

HandleInv == PdoShape /\ CallerShape /\ Plugging /\ ClosingKnown /\ HandleKnown /\ OwnerKnown
             /\ DetachKnown /\ MadeKnown

\* The devices of the bus.
OnBus == {p \in Pdos : pdo[p].life = "there" /\ pdo[p].ParentFdo}

\* The bus was not deleted nor surprise-removed.
Counting == bus # "deleted" /\ "SurpriseRemovePending" \notin {fdo.state, fdo.previous}

ListInv ==
  /\ ListOfPDOs \in Seq(Pdos) /\ Distinct(ListOfPDOs)
  /\ Listed = OnBus
  /\ Counting => NumPDOs = Len(ListOfPDOs)
  /\ \A p \in Pdos : pdo[p].life = "there" /\ ~pdo[p].ParentFdo => pdo[p].ReportedMissing
  /\ bus = "deleted" => OnBus = {}

\* Where the PnP manager has the bus, and what the bus has in its own states.
FdoInv ==
  /\ fdo = [state |-> fdo.state, previous |-> fdo.previous]
  /\ "SurpriseRemovePending" \in {fdo.state, fdo.previous} =>
       bus \in {"surprise", "removing", "deleted"}
  /\ bus = "surprise" => fdo.state = "SurpriseRemovePending"
  /\ bus \in {"removing", "deleted"} => fdo.state = "Deleted"
  /\ bus = "deleted" => \A c \in Callers : caller[c].pc = "idle"

PnpInv == HandleInv /\ ListInv /\ FdoInv

(***************************************************************************)
(* Steps that leave handles, devices and the list tied as they are.        *)
(***************************************************************************)

\* A thread that neither plugs a PDO in nor closes a handle gets a record that does not say
\* so either.
CallerStep(c) ==
  /\ ~Inserting(c) /\ ~Closing(c)
  /\ \E r : /\ r = [f \in CallerFields |-> r[f]]
            /\ r.pc \notin {"insert", "forget", "clear"}
            /\ (r.pc = "plug" => r.handle \in Handles \ closed)
            /\ caller' = [caller EXCEPT ![c] = r]

\* Devices change, but neither the handle they know nor whether they are there or belong
\* to the bus, and one that was reported missing remains so.
SameTies ==
  /\ PdoShape'
  /\ \A p \in Pdos : /\ pdo'[p].fo = pdo[p].fo /\ pdo'[p].held = pdo[p].held
                     /\ pdo'[p].life = pdo[p].life
                     /\ pdo'[p].ParentFdo = pdo[p].ParentFdo
                     /\ pdo[p].ReportedMissing => pdo'[p].ReportedMissing

\* What a step of the bus's own states may do to the list's count.
Monotone == (Counting' => Counting) /\ (bus' = "deleted" => bus = "deleted")

LEMMA TiesKept ==
  ASSUME HandleInv, SameTies, FsContext' = FsContext, closed' = closed,
         caller' = caller \/ \E c \in Callers : CallerStep(c)
  PROVE  HandleInv'
<1> USE DEF HandleInv
<1>1. PICK C \in SUBSET Callers :
        /\ \A c \in C : /\ ~Inserting(c) /\ ~Closing(c)
                        /\ caller'[c].pc \notin {"insert", "forget", "clear"}
                        /\ (caller'[c].pc = "plug" => caller'[c].handle \in Handles \ closed)
        /\ \A c \in Callers \ C : caller'[c] = caller[c]
        /\ CallerShape'
  <2>1. CASE caller' = caller
    <3> WITNESS {} \in SUBSET Callers
    <3> QED
      BY <2>1 DEF CallerShape
  <2>2. ASSUME NEW c \in Callers, CallerStep(c)
        PROVE \E C \in SUBSET Callers :
                /\ \A b \in C : /\ ~Inserting(b) /\ ~Closing(b)
                                /\ caller'[b].pc \notin {"insert", "forget", "clear"}
                                /\ (caller'[b].pc = "plug" => caller'[b].handle \in Handles \ closed)
                /\ \A b \in Callers \ C : caller'[b] = caller[b]
                /\ CallerShape'
    <3> WITNESS {c} \in SUBSET Callers
    <3> QED
      BY <2>2 DEF CallerStep, CallerShape
  <2> QED
    BY <2>1, <2>2
<1>2. /\ \A c \in Callers : Inserting(c)' <=> Inserting(c)
      /\ \A c \in Callers : Inserting(c) => caller'[c] = caller[c]
      /\ \A c \in Callers : caller'[c].pc = "plug" => caller'[c].handle \in Handles \ closed
      /\ \A c \in Callers : Closing(c)' <=> Closing(c)
      /\ \A c \in Callers : Closing(c) => caller'[c] = caller[c]
  BY <1>1 DEF Inserting, Closing, Plugging
<1>3. Plugging'
  BY <1>2 DEF Plugging, SameTies, Inserting
<1>4. ClosingKnown'
  BY <1>2 DEF ClosingKnown, SameTies
<1>5. HandleKnown'
  <2>1. \A h \in Handles : FsContext[h] # NULL => FsContext[h] \in Pdos
    BY DEF HandleKnown
  <2>2. \A c \in Callers : caller[c].pc = "clear" => caller'[c] = caller[c]
    BY <1>2 DEF Closing
  <2> QED
    BY <1>2, <2>1, <2>2 DEF HandleKnown, SameTies
<1>6. OwnerKnown' /\ DetachKnown'
  BY DEF OwnerKnown, DetachKnown, SameTies
<1>7. MadeKnown'
  BY <1>2 DEF MadeKnown, SameTies
<1> QED
  BY <1>1, <1>3, <1>4, <1>5, <1>6, <1>7 DEF SameTies

LEMMA ListKept ==
  ASSUME ListInv, SameTies, ListOfPDOs' = ListOfPDOs, NumPDOs' = NumPDOs, Monotone
  PROVE  ListInv'
<1>1. OnBus' = OnBus
  BY DEF OnBus, SameTies
<1> QED
  BY <1>1 DEF ListInv, SameTies, Monotone, Listed

(***************************************************************************)
(* The bus's own states.                                                   *)
(***************************************************************************)

\* A thread's step, or one of a device's IRPs, finds and leaves the bus where it is; a
\* thread that is not inside the driver does not get in once the bus is deleted.
LEMMA FdoUnmoved ==
  ASSUME FdoInv, fdo' = fdo, bus' = bus,
         \/ caller' = caller
         \/ fdo.state # "Deleted"
         \/ \E c \in Callers : caller[c].pc # "idle"
  PROVE  FdoInv' /\ Monotone
BY DEF FdoInv, Monotone, Counting

LEMMA FdoMoves ==
  ASSUME FdoInv, FdoIrp
  PROVE  FdoInv' /\ (FdoRemoveFinish \/ Monotone)
<1> USE DEF FdoInv, Monotone, Counting
<1>1. CASE FdoStart
  BY <1>1 DEF FdoStart, BusMoves, SetState
<1>2. CASE FdoQueryStop \/ FdoStop \/ FdoQueryRemove
  BY <1>2 DEF FdoQueryStop, FdoStop, FdoQueryRemove, BusMoves, SetState
<1>3. CASE FdoCancelStop \/ FdoCancelRemove
  BY <1>3 DEF FdoCancelStop, FdoCancelRemove, BusMoves, RestoreFrom
<1>4. CASE FdoSurprise
  BY <1>4 DEF FdoSurprise, SetState
<1>5. CASE FdoRemoveMark
  BY <1>5 DEF FdoRemoveMark, BusMoves, SetState
<1>6. CASE FdoRemoveFinish
  BY <1>6 DEF FdoRemoveFinish
<1>7. CASE QueryRelations
  BY <1>7 DEF QueryRelations
<1> QED
  BY <1>1, <1>2, <1>3, <1>4, <1>5, <1>6, <1>7 DEF FdoIrp

(***************************************************************************)
(* What steps assign to devices.                                           *)
(***************************************************************************)

\* The records that steps assign to a device have its fields; the state's macros keep
\* what ties it to its handle.
LEMMA StateLooks ==
  ASSUME NEW d, d = [f \in PdoFields |-> d[f]], NEW s
  PROVE  /\ SetState(d, s) = [f \in PdoFields |-> SetState(d, s)[f]]
         /\ SetState(d, s).fo = d.fo /\ SetState(d, s).life = d.life
         /\ SetState(d, s).held = d.held
         /\ SetState(d, s).ParentFdo = d.ParentFdo
         /\ SetState(d, s).ReportedMissing = d.ReportedMissing
         /\ RestoreFrom(d, s) = [f \in PdoFields |-> RestoreFrom(d, s)[f]]
         /\ RestoreFrom(d, s).fo = d.fo /\ RestoreFrom(d, s).life = d.life
         /\ RestoreFrom(d, s).held = d.held
         /\ RestoreFrom(d, s).ParentFdo = d.ParentFdo
         /\ RestoreFrom(d, s).ReportedMissing = d.ReportedMissing
BY DEF PdoFields, SetState, RestoreFrom

\* The new record of a device is tied as its old one.
SameLook(r, d) == /\ r.fo = d.fo /\ r.held = d.held /\ r.life = d.life
                  /\ r.ParentFdo = d.ParentFdo
                  /\ d.ReportedMissing => r.ReportedMissing

\* One device changes,
LEMMA OneChanges ==
  ASSUME PdoShape, NEW p \in Pdos, NEW r, r = [f \in PdoFields |-> r[f]], SameLook(r, pdo[p]),
         pdo' = [pdo EXCEPT ![p] = r]
  PROVE  SameTies
<1>1. \A q \in Pdos : pdo'[q] = IF q = p THEN r ELSE pdo[q]
  BY DEF PdoShape
<1>2. pdo' = [q \in Pdos |-> pdo'[q]]
  BY DEF PdoShape
<1> QED
  BY <1>1, <1>2 DEF SameTies, PdoShape, SameLook

\* or each of a set of them.
LEMMA SomeChange ==
  ASSUME PdoShape, NEW S, NEW r, pdo' = [p \in Pdos |-> IF p \in S THEN r[p] ELSE pdo[p]],
         \A p \in Pdos : r[p] = [f \in PdoFields |-> r[p][f]] /\ SameLook(r[p], pdo[p])
  PROVE  SameTies
<1>1. \A q \in Pdos : pdo'[q] = IF q \in S THEN r[q] ELSE pdo[q]
  OBVIOUS
<1>2. pdo' = [q \in Pdos |-> pdo'[q]]
  OBVIOUS
<1> QED
  BY <1>1, <1>2 DEF SameTies, PdoShape, SameLook

\* Such a step keeps the invariant, whoever takes it.
LEMMA TiedStep ==
  ASSUME PnpInv, SameTies, FdoInv', Monotone,
         UNCHANGED <<ListOfPDOs, NumPDOs, FsContext, closed>>,
         caller' = caller \/ \E c \in Callers : CallerStep(c)
  PROVE  PnpInv'
BY TiesKept, ListKept DEF PnpInv

(***************************************************************************)
(* IRPs of a device.                                                       *)
(***************************************************************************)

\* IRPs that change a device's state, and the ejection.
LEMMA PdoStateKeeps ==
  ASSUME PnpInv, NEW p \in Pdos,
         \/ PdoStart(p) \/ PdoQueryStop(p) \/ PdoCancelStop(p) \/ PdoStop(p)
         \/ PdoQueryRemove(p) \/ PdoCancelRemove(p) \/ PdoSurprise(p) \/ PdoDisable(p)
         \/ PdoEject(p)
  PROVE  PnpInv'
<1> USE DEF PnpInv
<1>1. PdoShape
  BY DEF HandleInv
<1>2. UNCHANGED <<fdo, ListOfPDOs, NumPDOs, FsContext, closed, caller, bus>>
  BY DEF PdoStart, PdoQueryStop, PdoCancelStop, PdoStop, PdoQueryRemove, PdoCancelRemove,
         PdoSurprise, PdoDisable, PdoEject, Moves
<1>3. \/ PdoEject(p) \/ pdo' = pdo \/ \E s : SetPdo(p, s)
      \/ \E s : pdo' = [pdo EXCEPT ![p] = RestoreFrom(@, s)]
  BY DEF PdoStart, PdoQueryStop, PdoCancelStop, PdoStop, PdoQueryRemove, PdoCancelRemove,
         PdoSurprise, PdoDisable
<1>4. SameTies
  <2>1. ASSUME NEW s, SetPdo(p, s) PROVE SameTies
    BY <1>1, <2>1, OneChanges, StateLooks DEF SetPdo, PdoShape, SameLook
  <2>2. ASSUME NEW s, pdo' = [pdo EXCEPT ![p] = RestoreFrom(@, s)] PROVE SameTies
    BY <1>1, <2>2, OneChanges, StateLooks DEF PdoShape, SameLook
  <2>3. CASE PdoEject(p)
    <3> DEFINE r == [pdo[p] EXCEPT !.Present = FALSE]
    <3>1. pdo' = [pdo EXCEPT ![p] = r]
      BY <2>3 DEF PdoEject
    <3>2. r = [f \in PdoFields |-> r[f]] /\ SameLook(r, pdo[p])
      BY <1>1 DEF PdoShape, PdoFields, SameLook
    <3> HIDE DEF r
    <3> QED
      BY <1>1, <3>1, <3>2, OneChanges
  <2>4. CASE pdo' = pdo
    BY <1>1, <2>4 DEF SameTies, PdoShape
  <2> QED
    BY <1>3, <2>1, <2>2, <2>3, <2>4
<1> QED
  BY <1>2, <1>4, FdoUnmoved, TiedStep

\* A device that was reported missing leaves the list; its handle stays until it is
\* destroyed,
LEMMA PdoRemoveKeeps ==
  ASSUME PnpInv, NEW p \in Pdos, PdoRemove(p)
  PROVE  PnpInv'
<1> USE DEF PnpInv
<1> DEFINE d == SetState(pdo[p], "Deleted")
           r == [d EXCEPT !.life = "dying"]
<1>1. d = [f \in PdoFields |-> d[f]] /\ d.fo = pdo[p].fo /\ d.held = pdo[p].held
  BY StateLooks DEF HandleInv, PdoShape
<1>2. pdo' = [pdo EXCEPT ![p] = r] /\ pdo[p].life = "there"
  BY DEF PdoRemove, There
<1> HIDE DEF d
<1>3. /\ r = [f \in PdoFields |-> r[f]] /\ r.fo = pdo[p].fo /\ r.held = pdo[p].held
      /\ r.life = "dying"
  BY <1>1 DEF PdoFields
<1> HIDE DEF r
<1>4. /\ PdoShape' /\ pdo'[p].fo = pdo[p].fo /\ pdo'[p].held = pdo[p].held
      /\ pdo'[p].life = "dying"
      /\ \A q \in Pdos \ {p} : pdo'[q] = pdo[q]
  <2>1. \A q \in Pdos : pdo'[q] = IF q = p THEN r ELSE pdo[q]
    BY <1>2 DEF HandleInv, PdoShape
  <2>2. pdo' = [q \in Pdos |-> pdo'[q]]
    BY <1>2 DEF HandleInv, PdoShape
  <2> QED
    BY <1>3, <2>1, <2>2 DEF HandleInv, PdoShape
<1>5. UNCHANGED <<fdo, FsContext, closed, caller, bus>>
  BY DEF PdoRemove
<1>6. HandleInv'
  <2>1. \A c \in Callers : (Inserting(c)' <=> Inserting(c)) /\ (Closing(c)' <=> Closing(c))
    BY <1>5 DEF Inserting, Closing
  <2>2. \A c \in Callers : Inserting(c) => caller[c].pdo # p
    BY <1>2 DEF HandleInv, Plugging
  <2>3. Plugging'
    BY <1>4, <1>5, <2>1, <2>2 DEF HandleInv, Plugging
  <2>4. HandleKnown' /\ OwnerKnown'
    <3>1. \A h \in Handles : FsContext[h] # NULL => FsContext[h] \in Pdos
      BY DEF HandleInv, HandleKnown
    <3> QED
      BY <1>2, <1>4, <1>5, <2>1, <3>1 DEF HandleInv, HandleKnown, OwnerKnown
  <2>5. MadeKnown' /\ DetachKnown'
    BY <1>4, <1>5, <2>1 DEF HandleInv, MadeKnown, DetachKnown
  <2>6. ClosingKnown'
    <3>1. \A q \in Pdos : /\ pdo'[q].fo = pdo[q].fo
                          /\ pdo'[q].life \in {"none", "made", "deleted"} => pdo'[q].life = pdo[q].life
                          /\ pdo[q].life = "deleted" => pdo'[q].life = "deleted"
      BY <1>2, <1>4
    <3> QED
      BY <1>5, <2>1, <3>1 DEF HandleInv, ClosingKnown
  <2> QED
    BY <1>4, <1>5, <2>3, <2>4, <2>5, <2>6 DEF HandleInv, CallerShape
<1>7. OnBus' = OnBus \ {p}
  BY <1>4 DEF OnBus
<1>8. FdoInv' /\ Monotone
  BY <1>5, FdoUnmoved
<1>9. ListInv'
  <2>1. CASE pdo[p].ParentFdo
    <3>1. PICK i \in 1..Len(ListOfPDOs) : /\ ListOfPDOs[i] = p
                                          /\ ListOfPDOs' = RemoveAt(ListOfPDOs, i)
      BY <2>1 DEF PdoRemove, Unlinked
    <3>2. /\ ListOfPDOs' \in Seq(Pdos) /\ Distinct(ListOfPDOs')
          /\ Len(ListOfPDOs') = Len(ListOfPDOs) - 1 /\ Listed' = Listed \ {p}
      BY <3>1, RemoveAtElements, RemoveAtDistinct DEF ListInv, Listed
    <3>3. NumPDOs' = NumPDOs - 1
      BY <2>1 DEF PdoRemove
    <3> QED
      BY <1>4, <1>7, <1>8, <3>2, <3>3 DEF ListInv, Monotone
  <2>2. CASE ~pdo[p].ParentFdo
    <3>1. OnBus' = OnBus
      BY <1>7, <2>2 DEF OnBus
    <3> QED
      BY <1>4, <1>8, <2>2, <3>1 DEF PdoRemove, ListInv, Monotone, Listed
  <2> QED
    BY <2>1, <2>2
<1> QED
  BY <1>6, <1>8, <1>9

\* One device changes, and the handles, the list and the bus stay.
LEMMA OneAlone ==
  ASSUME PdoShape, NEW p \in Pdos, NEW r, r = [f \in PdoFields |-> r[f]],
         pdo' = [pdo EXCEPT ![p] = r]
  PROVE  PdoShape' /\ pdo'[p] = r /\ \A q \in Pdos \ {p} : pdo'[q] = pdo[q]
<1>1. \A q \in Pdos : pdo'[q] = IF q = p THEN r ELSE pdo[q]
  BY DEF PdoShape
<1>2. pdo' = [q \in Pdos |-> pdo'[q]]
  BY DEF PdoShape
<1> QED
  BY <1>1, <1>2 DEF PdoShape

\* A device that is off the list goes on to be destroyed: the list stays.
LEMMA DyingKeepsList ==
  ASSUME PnpInv, NEW p \in Pdos, pdo[p].life \notin {"there", "made"},
         pdo'[p].life \notin {"there", "made"}, \A q \in Pdos \ {p} : pdo'[q] = pdo[q],
         UNCHANGED <<fdo, ListOfPDOs, NumPDOs, caller, bus>>
  PROVE  ListInv' /\ FdoInv'
<1> USE DEF PnpInv
<1>1. FdoInv' /\ Monotone
  BY FdoUnmoved
<1>2. OnBus' = OnBus
  BY DEF OnBus
<1> QED
  BY <1>1, <1>2 DEF ListInv, Monotone, Listed

\* It is destroyed without the Mutex: a device that knows no handle is deleted, and one
\* that knows a handle finds it standing for it.
LEMMA PdoDestroyTestKeeps ==
  ASSUME PnpInv, NEW p \in Pdos, PdoDestroyTest(p)
  PROVE  PnpInv'
<1> USE DEF PnpInv, HandleInv
<1> DEFINE r == IF pdo[p].fo = NULL THEN Destroyed
                ELSE [pdo[p] EXCEPT !.life = "detaching", !.held = pdo[p].fo]
<1>1. /\ pdo[p].life = "dying"
      /\ UNCHANGED <<fdo, ListOfPDOs, NumPDOs, FsContext, closed, caller, bus>>
  BY DEF PdoDestroyTest
<1>2. pdo' = [pdo EXCEPT ![p] = r]
  BY DEF PdoDestroyTest
<1>3. /\ r = [f \in PdoFields |-> r[f]] /\ r.fo = pdo[p].fo
      /\ \/ r.life = "deleted" /\ r.fo = NULL
         \/ r.life = "detaching" /\ r.held = r.fo /\ r.fo # NULL
  BY DEF PdoShape, PdoFields, Destroyed, NoPdo
<1> HIDE DEF r
<1>4. PdoShape' /\ pdo'[p] = r /\ \A q \in Pdos \ {p} : pdo'[q] = pdo[q]
  BY <1>2, <1>3, OneAlone
<1>5. \A c \in Callers : (Inserting(c)' <=> Inserting(c)) /\ (Closing(c)' <=> Closing(c))
  BY <1>1 DEF Inserting, Closing
<1>6. Plugging' /\ MadeKnown'
  BY <1>1, <1>3, <1>4, <1>5 DEF Plugging, MadeKnown
<1>7. ClosingKnown'
  <2>1. \A q \in Pdos : /\ pdo'[q].fo = pdo[q].fo
                        /\ pdo'[q].life \in {"none", "made"} => pdo'[q].life = pdo[q].life
                        /\ pdo[q].life = "deleted" => pdo'[q].life = "deleted"
    BY <1>1, <1>3, <1>4
  <2> QED
    BY <1>1, <1>5, <2>1 DEF ClosingKnown
<1>8. HandleKnown'
  <2>1. \A h \in Handles : FsContext[h] # NULL => FsContext[h] \in Pdos
    BY DEF HandleKnown
  <2>2. \A q \in Pdos : pdo[q].life \in {"there", "dying", "detaching"} /\ pdo[q].fo # NULL =>
          pdo'[q].life \in {"there", "dying", "detaching"} /\ pdo'[q].fo = pdo[q].fo
    BY <1>3, <1>4
  <2>3. NULL \notin Handles
    BY BusAssumption
  <2> QED
    BY <1>1, <1>5, <2>1, <2>2, <2>3 DEF HandleKnown
<1>9. OwnerKnown' /\ DetachKnown'
  BY <1>1, <1>3, <1>4 DEF OwnerKnown, DetachKnown
<1> QED
  BY <1>1, <1>3, <1>4, <1>6, <1>7, <1>8, <1>9, DyingKeepsList DEF CallerShape

\* The handle forgets it.  Nothing else can have been plugged in through that handle: it
\* was the device's own, or it is closed.
LEMMA PdoDestroyClearKeeps ==
  ASSUME PnpInv, NEW p \in Pdos, PdoDestroyClear(p)
  PROVE  PnpInv'
<1> USE DEF PnpInv, HandleInv
<1> DEFINE r == [pdo[p] EXCEPT !.life = "detached"]
           g == pdo[p].held
<1>1. /\ pdo[p].life = "detaching" /\ FsContext' = [FsContext EXCEPT ![g] = NULL]
      /\ UNCHANGED <<fdo, ListOfPDOs, NumPDOs, closed, caller, bus>>
  BY DEF PdoDestroyClear
<1>2. pdo' = [pdo EXCEPT ![p] = r]
  BY DEF PdoDestroyClear, PdoShape
<1>3. r = [f \in PdoFields |-> r[f]] /\ r.fo = pdo[p].fo /\ r.life = "detached"
  BY DEF PdoShape, PdoFields
<1> HIDE DEF r
<1>4. PdoShape' /\ pdo'[p] = r /\ \A q \in Pdos \ {p} : pdo'[q] = pdo[q]
  BY <1>2, <1>3, OneAlone
<1>5. \A c \in Callers : (Inserting(c)' <=> Inserting(c)) /\ (Closing(c)' <=> Closing(c))
  BY <1>1 DEF Inserting, Closing
<1>6. g \in Handles /\ FsContext[g] \in {p, NULL} /\ pdo[p].fo \in {g, NULL}
  BY <1>1 DEF DetachKnown
<1>7. /\ FsContext' \in [Handles -> Pdos \cup {NULL}] /\ FsContext'[g] = NULL
      /\ \A h \in Handles \ {g} : FsContext'[h] = FsContext[h]
  BY <1>1, <1>6 DEF HandleKnown
<1> HIDE DEF g
<1>8. \A c \in Callers : Inserting(c) => /\ caller[c].pdo \in Pdos \ {p}
                                         /\ caller[c].handle \in Handles \ {g}
  <2> SUFFICES ASSUME NEW c \in Callers, Inserting(c)
               PROVE  caller[c].pdo \in Pdos \ {p} /\ caller[c].handle \in Handles \ {g}
    OBVIOUS
  <2>1. caller[c].pdo \in Pdos \ {p} /\ caller[c].handle \in Handles
    BY <1>1 DEF Plugging, Inserting
  <2>2. FsContext[caller[c].handle] = caller[c].pdo
    BY DEF Plugging
  <2> QED
    BY <1>6, <2>1, <2>2, BusAssumption
<1>9. Plugging' /\ MadeKnown'
  <2>1. \A c \in Callers : Inserting(c) => FsContext'[caller[c].handle] = FsContext[caller[c].handle]
    BY <1>7, <1>8
  <2> QED
    BY <1>1, <1>3, <1>4, <1>5, <1>8, <2>1 DEF Plugging, MadeKnown
<1>10. ClosingKnown'
  <2>1. \A q \in Pdos : /\ pdo'[q].fo = pdo[q].fo
                        /\ pdo'[q].life \in {"none", "made"} => pdo'[q].life = pdo[q].life
                        /\ pdo[q].life = "deleted" => pdo'[q].life = "deleted"
    BY <1>1, <1>3, <1>4
  <2>2. \A h \in Handles : FsContext'[h] \in {FsContext[h], NULL}
    BY <1>7
  <2> QED
    BY <1>1, <1>5, <2>1, <2>2 DEF ClosingKnown
<1>11. HandleKnown'
  <2> SUFFICES ASSUME NEW h \in Handles, FsContext'[h] # NULL
               PROVE  \/ \E c \in Callers : /\ Inserting(c)' /\ caller'[c].handle = h
                                            /\ caller'[c].pdo = FsContext'[h]
                      \/ /\ pdo'[FsContext'[h]].life \in {"there", "dying", "detaching"}
                         /\ pdo'[FsContext'[h]].fo = h
                      \/ \E c \in Callers : caller'[c].pc = "clear" /\ caller'[c].handle = h
    BY <1>7 DEF HandleKnown
  <2>1. h # g /\ FsContext'[h] = FsContext[h] /\ FsContext[h] \in Pdos
    BY <1>7
  <2>2. CASE pdo[FsContext[h]].fo = h /\ pdo[FsContext[h]].life \in {"there", "dying", "detaching"}
    <3>1. FsContext[h] # p
      BY <1>6, <2>1, <2>2, BusAssumption
    <3> QED
      BY <1>4, <2>1, <2>2, <3>1
  <2> QED
    BY <1>1, <1>5, <2>1, <2>2 DEF HandleKnown
<1>12. OwnerKnown'
  <2>1. ASSUME NEW q \in Pdos \ {p}, pdo[q].fo # NULL, pdo[q].life # "detached"
        PROVE  FsContext'[pdo[q].fo] = q
    <3>1. FsContext[pdo[q].fo] = q /\ pdo[q].fo \in Handles
      BY <2>1 DEF OwnerKnown
    <3> QED
      BY <1>6, <1>7, <3>1, BusAssumption
  <2> QED
    BY <1>1, <1>3, <1>4, <2>1 DEF OwnerKnown
<1>13. DetachKnown'
  BY <1>1, <1>3, <1>4, <1>7 DEF DetachKnown
<1> QED
  BY <1>1, <1>3, <1>4, <1>9, <1>10, <1>11, <1>12, <1>13, DyingKeepsList DEF CallerShape

\* It is deleted.  If a handle stands for it still, a close is about to clear it.
LEMMA PdoDestroyDeleteKeeps ==
  ASSUME PnpInv, NEW p \in Pdos, PdoDestroyDelete(p)
  PROVE  PnpInv'
<1> USE DEF PnpInv, HandleInv
<1>1. /\ pdo[p].life = "detached" /\ pdo' = [pdo EXCEPT ![p] = Destroyed]
      /\ UNCHANGED <<fdo, ListOfPDOs, NumPDOs, FsContext, closed, caller, bus>>
  BY DEF PdoDestroyDelete
<1>2. /\ Destroyed = [f \in PdoFields |-> Destroyed[f]] /\ Destroyed.fo = NULL
      /\ Destroyed.life = "deleted"
  BY DEF Destroyed, NoPdo, PdoFields
<1>3. PdoShape' /\ pdo'[p] = Destroyed /\ \A q \in Pdos \ {p} : pdo'[q] = pdo[q]
  BY <1>1, <1>2, OneAlone
<1>4. \A c \in Callers : (Inserting(c)' <=> Inserting(c)) /\ (Closing(c)' <=> Closing(c))
  BY <1>1 DEF Inserting, Closing
<1>5. Plugging' /\ MadeKnown'
  BY <1>1, <1>2, <1>3, <1>4 DEF Plugging, MadeKnown
<1>6. ClosingKnown'
  BY <1>1, <1>2, <1>3, <1>4 DEF ClosingKnown
<1>7. HandleKnown'
  <2>1. \A h \in Handles : FsContext[h] # NULL => FsContext[h] \in Pdos
    BY DEF HandleKnown
  <2>2. \A q \in Pdos : pdo[q].life \in {"there", "dying", "detaching"} => pdo'[q] = pdo[q]
    BY <1>1, <1>3
  <2> QED
    BY <1>1, <1>4, <2>1, <2>2 DEF HandleKnown
<1>8. OwnerKnown' /\ DetachKnown'
  BY <1>1, <1>2, <1>3 DEF OwnerKnown, DetachKnown
<1> QED
  BY <1>1, <1>2, <1>3, <1>5, <1>6, <1>7, <1>8, DyingKeepsList DEF CallerShape

(***************************************************************************)
(* IRPs of the bus.                                                        *)
(***************************************************************************)

\* The surprise removal orphans the devices on the list.
LEMMA SurpriseKeeps ==
  ASSUME PnpInv, FdoSurprise
  PROVE  PnpInv'
<1> USE DEF PnpInv
<1> DEFINE r == [p \in Pdos |-> [pdo[p] EXCEPT !.ParentFdo = FALSE, !.ReportedMissing = TRUE]]
<1>1. pdo' = [p \in Pdos |-> IF p \in Listed THEN r[p] ELSE pdo[p]]
  BY DEF FdoSurprise
<1>2. \A p \in Pdos : /\ r[p] = [f \in PdoFields |-> r[p][f]] /\ r[p].fo = pdo[p].fo
                      /\ r[p].life = pdo[p].life /\ r[p].held = pdo[p].held
                      /\ ~r[p].ParentFdo /\ r[p].ReportedMissing
  BY DEF HandleInv, PdoShape, PdoFields
<1> HIDE DEF r
<1>3. PdoShape' /\ \A p \in Pdos : pdo'[p] = IF p \in Listed THEN r[p] ELSE pdo[p]
  BY <1>1, <1>2 DEF HandleInv, PdoShape
<1>4. UNCHANGED <<FsContext, closed, caller>> /\ ListOfPDOs' = <<>> /\ bus' # "deleted"
      /\ "SurpriseRemovePending" \in {fdo'.state, fdo'.previous}
  BY DEF FdoSurprise, SetState, FdoInv
<1>5. HandleInv'
  <2>1. \A p \in Pdos : /\ pdo'[p].fo = pdo[p].fo /\ pdo'[p].life = pdo[p].life
                        /\ pdo'[p].held = pdo[p].held
    BY <1>2, <1>3
  <2>2. \A c \in Callers : (Inserting(c)' <=> Inserting(c)) /\ (Closing(c)' <=> Closing(c))
    BY <1>4 DEF Inserting, Closing
  <2>3. \A h \in Handles : FsContext[h] # NULL => FsContext[h] \in Pdos
    BY DEF HandleInv, HandleKnown
  <2>4. Plugging'
    BY <1>4, <2>1, <2>2 DEF HandleInv, Plugging
  <2>5. HandleKnown'
    BY <1>4, <2>1, <2>2, <2>3 DEF HandleInv, HandleKnown
  <2>6. OwnerKnown' /\ MadeKnown' /\ DetachKnown'
    BY <1>4, <2>1, <2>2 DEF HandleInv, OwnerKnown, MadeKnown, DetachKnown
  <2>7. ClosingKnown'
    BY <1>4, <2>1, <2>2 DEF HandleInv, ClosingKnown
  <2> QED
    BY <1>3, <1>4, <2>4, <2>5, <2>6, <2>7 DEF HandleInv, CallerShape
<1>6. OnBus' = {}
  BY <1>2, <1>3 DEF OnBus, ListInv
<1>7. \A p \in Pdos : pdo'[p].life = "there" /\ ~pdo'[p].ParentFdo => pdo'[p].ReportedMissing
  BY <1>2, <1>3 DEF ListInv
<1>8. ListInv'
  BY <1>4, <1>6, <1>7 DEF ListInv, Listed, ToSet, Distinct, Counting
<1> QED
  BY <1>5, <1>8, FdoMoves DEF FdoIrp

\* The end of the removal: no thread is inside the driver, so no device is half made.
LEMMA RemoveFinishKeeps ==
  ASSUME PnpInv, FdoRemoveFinish
  PROVE  PnpInv'
<1> USE DEF PnpInv
<1> DEFINE kept == {p \in Listed : pdo[p].state = "SurpriseRemovePending"}
           dead == Listed \ kept
           r == [p \in Pdos |-> [pdo[p] EXCEPT !.ParentFdo = FALSE, !.ReportedMissing = TRUE]]
<1>1. /\ pdo' = [p \in Pdos |-> IF p \in kept THEN r[p] ELSE IF p \in dead THEN Destroyed
                                ELSE pdo[p]]
      /\ FsContext' = Detached(dead) /\ UNCHANGED <<closed, caller>> /\ ListOfPDOs' = <<>>
      /\ bus' = "deleted" /\ \A c \in Callers : caller[c].pc = "idle"
  BY DEF FdoRemoveFinish
<1>2. \A p \in Pdos : /\ r[p] = [f \in PdoFields |-> r[p][f]] /\ r[p].fo = pdo[p].fo
                      /\ r[p].life = pdo[p].life /\ r[p].held = pdo[p].held
                      /\ ~r[p].ParentFdo /\ r[p].ReportedMissing
  BY DEF HandleInv, PdoShape, PdoFields
<1>3. kept \in SUBSET Pdos /\ dead \in SUBSET Pdos /\ Listed = kept \cup dead
      /\ kept \cap dead = {}
  BY DEF ListInv, OnBus
<1> HIDE DEF r, kept, dead
<1>4. /\ Destroyed = [f \in PdoFields |-> Destroyed[f]] /\ Destroyed.life = "deleted"
      /\ Destroyed.fo = NULL
  BY DEF Destroyed, NoPdo, PdoFields
<1>5. /\ PdoShape'
      /\ \A p \in Pdos : pdo'[p] = IF p \in kept THEN r[p] ELSE IF p \in dead THEN Destroyed
                                   ELSE pdo[p]
  BY <1>1, <1>2, <1>4 DEF HandleInv, PdoShape
<1>6. HandleInv'
  <2> USE DEF HandleInv
  <2>1. \A p \in Pdos : IF p \in dead THEN pdo'[p] = Destroyed
                        ELSE /\ pdo'[p].fo = pdo[p].fo /\ pdo'[p].life = pdo[p].life
                             /\ pdo'[p].held = pdo[p].held
    BY <1>2, <1>3, <1>5
  <2>2. \A p \in dead : pdo[p].life = "there"
    BY <1>3 DEF ListInv, OnBus
  <2>3. /\ FsContext' \in [Handles -> Pdos \cup {NULL}]
        /\ \A h \in Handles : FsContext'[h] = IF \E p \in dead : pdo[p].fo = h THEN NULL
                                              ELSE FsContext[h]
    BY <1>1 DEF Detached, HandleKnown
  <2>4. Plugging' /\ ClosingKnown'
    BY <1>1 DEF Plugging, ClosingKnown, Inserting, Closing
  <2>5. HandleKnown'
    <3> SUFFICES ASSUME NEW h \in Handles, FsContext'[h] # NULL
                 PROVE  /\ pdo'[FsContext'[h]].life \in {"there", "dying", "detaching"}
                        /\ pdo'[FsContext'[h]].fo = h
      BY <2>3 DEF HandleKnown
    <3>1. /\ FsContext'[h] = FsContext[h] /\ FsContext[h] \in Pdos
          /\ ~\E p \in dead : pdo[p].fo = h
      BY <2>3
    <3>2. /\ pdo[FsContext[h]].life \in {"there", "dying", "detaching"}
          /\ pdo[FsContext[h]].fo = h
      BY <1>1, <3>1 DEF HandleKnown, Inserting
    <3> QED
      BY <2>1, <3>1, <3>2
  <2>6. OwnerKnown'
    <3>1. ASSUME NEW q \in Pdos, pdo'[q].fo # NULL, pdo'[q].life # "detached"
          PROVE  FsContext'[pdo'[q].fo] = q
      <4>1. q \notin dead /\ pdo'[q].fo = pdo[q].fo /\ pdo'[q].life = pdo[q].life
        BY <1>4, <2>1, <3>1
      <4>2. pdo[q].fo \in Handles /\ FsContext[pdo[q].fo] = q
        BY <3>1, <4>1 DEF OwnerKnown
      <4>3. ~\E p \in dead : pdo[p].fo = pdo[q].fo
        BY <1>3, <2>2, <4>1, <4>2, BusAssumption DEF OwnerKnown
      <4> QED
        BY <2>3, <4>1, <4>2, <4>3
    <3> QED
      BY <1>4, <2>1, <3>1 DEF OwnerKnown
  <2>7. DetachKnown'
    <3>1. \A h \in Handles : FsContext'[h] \in {FsContext[h], NULL}
      BY <2>3
    <3> QED
      BY <1>1, <1>4, <2>1, <3>1 DEF DetachKnown
  <2>8. MadeKnown'
    BY <1>1, <1>4, <2>1 DEF MadeKnown, Inserting
  <2> QED
    BY <1>1, <1>5, <2>4, <2>5, <2>6, <2>7, <2>8 DEF CallerShape
<1>7. OnBus' = {}
  BY <1>2, <1>3, <1>4, <1>5 DEF OnBus, ListInv
<1>8. \A p \in Pdos : pdo'[p].life = "there" /\ ~pdo'[p].ParentFdo => pdo'[p].ReportedMissing
  BY <1>2, <1>4, <1>5 DEF ListInv
<1>9. ListInv'
  BY <1>1, <1>7, <1>8 DEF ListInv, Listed, ToSet, Distinct, Counting
<1> QED
  BY <1>6, <1>9, FdoMoves DEF FdoIrp

LEMMA FdoKeeps ==
  ASSUME PnpInv, FdoIrp
  PROVE  PnpInv'
<1>1. CASE \/ FdoStart \/ FdoQueryStop \/ FdoCancelStop \/ FdoStop \/ FdoQueryRemove
           \/ FdoCancelRemove \/ FdoRemoveMark
  <2>1. UNCHANGED <<pdo, ListOfPDOs, NumPDOs, FsContext, closed, caller>> /\ bus' # "deleted"
    BY <1>1 DEF FdoStart, FdoQueryStop, FdoCancelStop, FdoStop, FdoQueryRemove,
                FdoCancelRemove, FdoRemoveMark, BusMoves
  <2>2. SameTies
    BY <2>1 DEF SameTies, PnpInv, HandleInv, PdoShape
  <2>3. FdoInv' /\ Monotone
    BY <2>1, FdoMoves DEF PnpInv, FdoRemoveFinish
  <2> QED
    BY <2>1, <2>2, <2>3, TiedStep
<1>2. CASE QueryRelations
  <2> DEFINE r == [p \in Pdos |-> [pdo[p] EXCEPT !.ReportedMissing = TRUE]]
             S == Listed \ {p \in Listed : pdo[p].Present}
  <2>1. pdo' = [p \in Pdos |-> IF p \in S THEN r[p] ELSE pdo[p]]
    BY <1>2 DEF QueryRelations
  <2>2. \A p \in Pdos : r[p] = [f \in PdoFields |-> r[p][f]] /\ SameLook(r[p], pdo[p])
    BY DEF PnpInv, HandleInv, PdoShape, PdoFields, SameLook
  <2> HIDE DEF r, S
  <2>3. SameTies
    BY <2>1, <2>2, SomeChange DEF PnpInv, HandleInv
  <2>4. UNCHANGED <<fdo, ListOfPDOs, NumPDOs, FsContext, closed, caller, bus>>
    BY <1>2 DEF QueryRelations
  <2> QED
    BY <2>3, <2>4, FdoUnmoved, TiedStep DEF PnpInv
<1> QED
  BY <1>1, <1>2, SurpriseKeeps, RemoveFinishKeeps DEF FdoIrp

(***************************************************************************)
(* Threads.                                                                *)
(***************************************************************************)

\* A thread enters the driver, or goes on to another section.
LEMMA CallerMoves ==
  ASSUME CallerShape, NEW c \in Callers, ~Inserting(c), ~Closing(c),
         \/ Returns(c)
         \/ \E h \in Handles \ closed : \E a : caller' = [caller EXCEPT ![c] =
                                  [pc |-> "plug", handle |-> h, addr |-> a, pdo |-> NULL]]
         \/ caller' = [caller EXCEPT ![c] = [IdleCaller EXCEPT !.pc = "drain"]]
  PROVE  CallerStep(c)
<1>1. CASE Returns(c)
  <2>1. IdleCaller = [f \in CallerFields |-> IdleCaller[f]] /\ IdleCaller.pc = "idle"
    BY DEF IdleCaller, CallerFields
  <2> QED
    BY <1>1, <2>1 DEF Returns, CallerStep
<1>2. ASSUME NEW h \in Handles \ closed, NEW a, caller' = [caller EXCEPT ![c] =
                                  [pc |-> "plug", handle |-> h, addr |-> a, pdo |-> NULL]]
      PROVE  CallerStep(c)
  <2> DEFINE r == [pc |-> "plug", handle |-> h, addr |-> a, pdo |-> NULL]
  <2>1. r = [f \in CallerFields |-> r[f]] /\ r.pc = "plug" /\ r.handle = h
    BY DEF CallerFields
  <2>2. caller' = [caller EXCEPT ![c] = r]
    BY <1>2
  <2> HIDE DEF r
  <2> QED
    BY <2>1, <2>2 DEF CallerStep
<1>3. CASE caller' = [caller EXCEPT ![c] = [IdleCaller EXCEPT !.pc = "drain"]]
  <2> DEFINE r == [IdleCaller EXCEPT !.pc = "drain"]
  <2>1. r = [f \in CallerFields |-> r[f]] /\ r.pc = "drain"
    BY DEF IdleCaller, CallerFields
  <2>2. caller' = [caller EXCEPT ![c] = r]
    BY <1>3
  <2> HIDE DEF r
  <2> QED
    BY <2>1, <2>2 DEF CallerStep
<1> QED
  BY <1>1, <1>2, <1>3

\* The sections of bus_unplug_dev, and the start of bus_plugin_dev, tie nothing.
LEMMA UnplugKeeps ==
  ASSUME PnpInv, NEW c \in Callers, NEW a,
         \/ Unplug(c, a) \/ CleanupUnplug(c) \/ UnplugDrain(c)
         \/ \E h \in Handles : PlugCheck(c, h, a)
  PROVE  PnpInv'
<1> USE DEF PnpInv
<1>1. UNCHANGED <<fdo, ListOfPDOs, NumPDOs, FsContext, closed, bus>>
  BY DEF Unplug, CleanupUnplug, UnplugDrain, PlugCheck, Mark
<1>2. ~Inserting(c) /\ ~Closing(c) /\ (fdo.state # "Deleted" \/ caller[c].pc # "idle")
  BY DEF Unplug, CleanupUnplug, UnplugDrain, PlugCheck, Admitted, Inserting, Closing
<1>3. CallerStep(c)
  <2>1. \/ Returns(c)
        \/ \E h \in Handles \ closed : \E n : caller' = [caller EXCEPT ![c] =
                                 [pc |-> "plug", handle |-> h, addr |-> n, pdo |-> NULL]]
        \/ caller' = [caller EXCEPT ![c] = [IdleCaller EXCEPT !.pc = "drain"]]
    BY DEF Unplug, CleanupUnplug, UnplugDrain, PlugCheck, Mark
  <2> QED
    BY <1>2, <2>1, CallerMoves DEF HandleInv
<1>4. SameTies
  <2>1. CASE pdo' = pdo
    BY <2>1 DEF SameTies, HandleInv, PdoShape
  <2>2. ASSUME NEW S, pdo' = [p \in Pdos |-> IF p \in S THEN [pdo[p] EXCEPT !.Present = FALSE]
                                                        ELSE pdo[p]]
        PROVE  SameTies
    <3> DEFINE r == [p \in Pdos |-> [pdo[p] EXCEPT !.Present = FALSE]]
    <3>1. pdo' = [p \in Pdos |-> IF p \in S THEN r[p] ELSE pdo[p]]
      BY <2>2
    <3>2. \A p \in Pdos : r[p] = [f \in PdoFields |-> r[p][f]] /\ SameLook(r[p], pdo[p])
      BY DEF HandleInv, PdoShape, PdoFields, SameLook
    <3> HIDE DEF r
    <3> QED
      BY <3>1, <3>2, SomeChange DEF HandleInv
  <2>3. CASE UnplugDrain(c)
    <3> DEFINE r == [p \in Pdos |-> SetState(pdo[p], "PNP_DEVICE_REMOVED")]
               S == {p \in Listed : ~pdo[p].Present}
    <3>1. pdo' = [p \in Pdos |-> IF p \in S THEN r[p] ELSE pdo[p]]
      BY <2>3 DEF UnplugDrain
    <3>2. \A p \in Pdos : r[p] = [f \in PdoFields |-> r[p][f]] /\ SameLook(r[p], pdo[p])
      BY StateLooks DEF HandleInv, PdoShape, SameLook
    <3> HIDE DEF r, S
    <3> QED
      BY <3>1, <3>2, SomeChange DEF HandleInv
  <2>4. CASE Unplug(c, a) \/ CleanupUnplug(c)
    BY <2>1, <2>2, <2>4 DEF Unplug, CleanupUnplug, Mark
  <2>5. CASE \E h \in Handles : PlugCheck(c, h, a)
    BY <2>1, <2>5 DEF PlugCheck
  <2> QED
    BY <2>3, <2>4, <2>5
<1> QED
  BY <1>1, <1>2, <1>3, <1>4, FdoUnmoved, TiedStep

\* bus_plugin_dev ties a new PDO to a handle that has none.
LEMMA PlugClaimKeeps ==
  ASSUME PnpInv, NEW c \in Callers, PlugClaim(c)
  PROVE  PnpInv'
<1> USE DEF PnpInv
<1> DEFINE h == caller[c].handle
<1>1. UNCHANGED <<fdo, ListOfPDOs, NumPDOs, closed, bus>> /\ caller[c].pc = "plug"
  BY DEF PlugClaim
<1>2. FdoInv' /\ Monotone
  BY <1>1, FdoUnmoved
<1>3. CASE Returns(c) /\ UNCHANGED <<pdo, FsContext>>
  <2>1. CallerStep(c)
    BY <1>1, <1>3, CallerMoves DEF HandleInv, Inserting, Closing
  <2>2. SameTies
    BY <1>3 DEF SameTies, HandleInv, PdoShape
  <2> QED
    BY <1>1, <1>2, <1>3, <2>1, <2>2, TiedStep
<1>4. ASSUME NEW p \in Pdos, FsContext[h] = NULL, pdo[p].life = "none",
             pdo' = [pdo EXCEPT ![p].life = "made"],
             FsContext' = [FsContext EXCEPT ![h] = p],
             caller' = [caller EXCEPT ![c].pc = "insert", ![c].pdo = p]
      PROVE  PnpInv'
  <2>1. /\ PdoShape'
        /\ \A q \in Pdos : /\ pdo'[q].fo = pdo[q].fo /\ pdo'[q].held = pdo[q].held
                           /\ pdo'[q].ParentFdo = pdo[q].ParentFdo
                           /\ pdo'[q].ReportedMissing = pdo[q].ReportedMissing
                           /\ pdo'[q].life = IF q = p THEN "made" ELSE pdo[q].life
    <3> DEFINE r == [pdo[p] EXCEPT !.life = "made"]
    <3>1. pdo' = [pdo EXCEPT ![p] = r]
      BY <1>4 DEF HandleInv, PdoShape
    <3>2. /\ r = [f \in PdoFields |-> r[f]] /\ r.fo = pdo[p].fo /\ r.held = pdo[p].held
          /\ r.life = "made"
          /\ r.ParentFdo = pdo[p].ParentFdo /\ r.ReportedMissing = pdo[p].ReportedMissing
      BY DEF HandleInv, PdoShape, PdoFields
    <3> HIDE DEF r
    <3>3. \A q \in Pdos : pdo'[q] = IF q = p THEN r ELSE pdo[q]
      BY <3>1 DEF HandleInv, PdoShape
    <3>4. pdo' = [q \in Pdos |-> pdo'[q]]
      BY <3>1 DEF HandleInv, PdoShape
    <3> QED
      BY <3>2, <3>3, <3>4 DEF HandleInv, PdoShape
  <2>2. /\ CallerShape' /\ caller'[c].pc = "insert" /\ caller'[c].pdo = p /\ caller'[c].handle = h
        /\ \A d \in Callers \ {c} : caller'[d] = caller[d]
    <3> DEFINE r == [caller[c] EXCEPT !.pc = "insert", !.pdo = p]
    <3>1. caller' = [caller EXCEPT ![c] = r]
      BY <1>4 DEF HandleInv, CallerShape
    <3>2. r = [f \in CallerFields |-> r[f]] /\ r.pc = "insert" /\ r.pdo = p /\ r.handle = h
      BY DEF HandleInv, CallerShape, CallerFields
    <3> HIDE DEF r
    <3> QED
      BY <3>1, <3>2 DEF HandleInv, CallerShape
  <2>3. /\ h \in Handles /\ h \notin closed
        /\ FsContext' \in [Handles -> Pdos \cup {NULL}] /\ FsContext'[h] = p
        /\ \A g \in Handles \ {h} : FsContext'[g] = FsContext[g]
    BY <1>1, <1>4 DEF HandleInv, Plugging, HandleKnown
  <2>4. \A d \in Callers \ {c} : /\ Inserting(d)' <=> Inserting(d)
                                 /\ Inserting(d) => caller[d].pdo # p /\ caller[d].handle # h
    BY <1>4, <2>2, BusAssumption DEF Inserting, HandleInv, Plugging
  <2>11. \A d \in Callers : /\ Closing(d)' <=> Closing(d)
                            /\ Closing(d) => d # c /\ caller'[d] = caller[d]
    BY <1>1, <2>2 DEF Closing
  <2>5. Plugging'
    BY <1>1, <2>1, <2>2, <2>3, <2>4 DEF HandleInv, Plugging, Inserting
  <2>6. HandleKnown'
    <3>1. ASSUME NEW g \in Handles \ {h}, FsContext[g] # NULL
          PROVE  \/ \E d \in Callers : /\ Inserting(d)' /\ caller'[d].handle = g
                                       /\ caller'[d].pdo = FsContext'[g]
                 \/ /\ pdo'[FsContext'[g]].life \in {"there", "dying", "detaching"}
                    /\ pdo'[FsContext'[g]].fo = g
                 \/ \E d \in Callers : caller'[d].pc = "clear" /\ caller'[d].handle = g
      <4>1. FsContext[g] \in Pdos /\ FsContext'[g] = FsContext[g] /\ ~Inserting(c)
        BY <1>1, <2>3, <3>1 DEF HandleInv, HandleKnown, Inserting
      <4>2. CASE \E d \in Callers : /\ Inserting(d) /\ caller[d].handle = g
                                    /\ caller[d].pdo = FsContext[g]
        <5>1. PICK d \in Callers : /\ Inserting(d) /\ caller[d].handle = g
                                   /\ caller[d].pdo = FsContext[g]
          BY <4>2
        <5>2. Inserting(d)' /\ caller'[d] = caller[d]
          BY <2>2, <2>4, <4>1, <5>1 DEF Inserting
        <5> QED
          BY <4>1, <5>1, <5>2
      <4>3. CASE pdo[FsContext[g]].life \in {"there", "dying", "detaching"} /\ pdo[FsContext[g]].fo = g
        <5>1. FsContext[g] # p
          BY <1>4, <4>3
        <5> QED
          BY <2>1, <4>1, <4>3, <5>1
      <4>4. ASSUME NEW d \in Callers, caller[d].pc = "clear", caller[d].handle = g
            PROVE  caller'[d] = caller[d]
        BY <1>1, <2>2, <4>4
      <4> QED
        BY <3>1, <4>2, <4>3, <4>4 DEF HandleInv, HandleKnown
    <3>2. Inserting(c)' /\ caller'[c].handle = h /\ caller'[c].pdo = FsContext'[h]
      BY <2>2, <2>3 DEF Inserting
    <3> QED
      BY <2>3, <3>1, <3>2 DEF HandleKnown
  <2>7. OwnerKnown' /\ DetachKnown'
    <3>1. ASSUME NEW q \in Pdos, pdo[q].fo # NULL
          PROVE  /\ q # p /\ pdo[q].fo \in Handles
                 /\ pdo[q].life \in {"there", "dying", "detaching", "detached"}
                 /\ pdo[q].life # "detached" => FsContext'[pdo[q].fo] = q
      <4>1. /\ q # p /\ pdo[q].fo \in Handles
            /\ pdo[q].life \in {"there", "dying", "detaching", "detached"}
            /\ pdo[q].life # "detached" => FsContext[pdo[q].fo] = q
        BY <1>4, <3>1 DEF HandleInv, OwnerKnown
      <4> QED
        BY <1>4, <2>3, <4>1, BusAssumption
    <3>2. ASSUME NEW q \in Pdos, pdo[q].life = "detaching"
          PROVE  /\ q # p /\ pdo[q].held \in Handles \ {h} /\ FsContext[pdo[q].held] \in {q, NULL}
                 /\ pdo[q].fo = pdo[q].held \/ (pdo[q].fo = NULL /\ pdo[q].held \in closed)
      <4>1. /\ q # p /\ pdo[q].held \in Handles /\ FsContext[pdo[q].held] \in {q, NULL}
            /\ pdo[q].fo = pdo[q].held \/ (pdo[q].fo = NULL /\ pdo[q].held \in closed)
        BY <1>4, <3>2 DEF HandleInv, DetachKnown
      <4>2. pdo[q].fo # NULL => FsContext[pdo[q].fo] = q
        BY <3>2 DEF HandleInv, OwnerKnown
      <4> QED
        BY <1>4, <2>3, <4>1, <4>2, BusAssumption
    <3> QED
      BY <1>1, <2>1, <2>3, <3>1, <3>2 DEF OwnerKnown, DetachKnown
  <2>12. ClosingKnown'
    <3>1. \A d \in Callers : Closing(d) => /\ caller[d].handle \in Handles \ {h}
                                           /\ caller[d].pdo \in Pdos \ {p}
      BY <1>4, <2>3 DEF HandleInv, ClosingKnown
    <3>2. /\ \A q \in Pdos \ {p} : pdo'[q].life = pdo[q].life /\ pdo'[q].fo = pdo[q].fo
          /\ \A d \in Callers : Closing(d) => caller'[d] = caller[d]
      BY <2>1, <2>11
    <3> HIDE DEF h
    <3> QED
      BY <1>1, <2>3, <2>11, <3>1, <3>2 DEF HandleInv, ClosingKnown
  <2>8. MadeKnown'
    BY <1>1, <2>1, <2>2, <2>4 DEF HandleInv, MadeKnown, Inserting
  <2>9. OnBus' = OnBus
    BY <1>4, <2>1 DEF OnBus
  <2>10. ListInv'
    BY <1>1, <1>2, <2>1, <2>9 DEF ListInv, Monotone, Listed
  <2> QED
    BY <1>2, <2>1, <2>2, <2>5, <2>6, <2>7, <2>8, <2>10, <2>12 DEF HandleInv
<1> QED
  BY <1>3, <1>4 DEF PlugClaim

\* It fills the PDO in and appends it to the list, where it cannot be yet.
LEMMA PlugInsertKeeps ==
  ASSUME PnpInv, NEW c \in Callers, PlugInsert(c)
  PROVE  PnpInv'
<1> USE DEF PnpInv
<1> DEFINE h == caller[c].handle
           p == caller[c].pdo
           r == [life |-> "there", SerialNo |-> caller[c].addr, fo |-> h,
                 held |-> NULL, Present |-> TRUE, ReportedMissing |-> FALSE, ParentFdo |-> TRUE,
                 state |-> "NotStarted", previous |-> "NotStarted"]
<1>1. /\ Inserting(c) /\ pdo' = [pdo EXCEPT ![p] = r] /\ Returns(c)
      /\ ListOfPDOs' = Append(ListOfPDOs, p) /\ NumPDOs' = NumPDOs + 1
      /\ UNCHANGED <<fdo, FsContext, closed, bus>>
  BY DEF PlugInsert, Inserting
<1>2. /\ r = [f \in PdoFields |-> r[f]] /\ r.life = "there" /\ r.fo = h /\ r.ParentFdo
  BY DEF PdoFields
<1> HIDE DEF r
<1>3. h \in Handles /\ p \in Pdos /\ pdo[p].life = "made" /\ FsContext[h] = p
  BY <1>1 DEF HandleInv, Plugging, Inserting
<1>4. /\ PdoShape' /\ pdo'[p] = r /\ \A q \in Pdos \ {p} : pdo'[q] = pdo[q]
  <2>1. \A q \in Pdos : pdo'[q] = IF q = p THEN r ELSE pdo[q]
    BY <1>1, <1>3 DEF HandleInv, PdoShape
  <2>2. pdo' = [q \in Pdos |-> pdo'[q]]
    BY <1>1 DEF HandleInv, PdoShape
  <2> QED
    BY <1>2, <1>3, <2>1, <2>2 DEF HandleInv, PdoShape
<1>5. /\ CallerShape' /\ caller'[c].pc = "idle"
      /\ \A d \in Callers \ {c} : caller'[d] = caller[d]
  <2>1. IdleCaller = [f \in CallerFields |-> IdleCaller[f]] /\ IdleCaller.pc = "idle"
    BY DEF IdleCaller, CallerFields
  <2> QED
    BY <1>1, <2>1 DEF HandleInv, CallerShape, Returns
<1>6. /\ ~Inserting(c)'
      /\ \A d \in Callers \ {c} : /\ Inserting(d)' <=> Inserting(d)
                                  /\ Inserting(d) => caller[d].pdo # p
  BY <1>1, <1>5 DEF Inserting, HandleInv, Plugging
<1>10. \A d \in Callers : /\ Closing(d)' <=> Closing(d)
                          /\ Closing(d) => d # c /\ caller'[d] = caller[d]
  BY <1>1, <1>5 DEF Inserting, Closing
<1>7. HandleInv'
  <2>1. Plugging'
    BY <1>1, <1>4, <1>5, <1>6 DEF HandleInv, Plugging, Inserting
  <2>2. HandleKnown'
    <3>1. ASSUME NEW g \in Handles, FsContext[g] # NULL
          PROVE  \/ \E d \in Callers : /\ Inserting(d)' /\ caller'[d].handle = g
                                       /\ caller'[d].pdo = FsContext[g]
                 \/ /\ pdo'[FsContext[g]].life \in {"there", "dying", "detaching"}
                    /\ pdo'[FsContext[g]].fo = g
                 \/ \E d \in Callers : caller'[d].pc = "clear" /\ caller'[d].handle = g
      <4>1. FsContext[g] \in Pdos
        BY <3>1 DEF HandleInv, HandleKnown
      <4>2. CASE \E d \in Callers : /\ Inserting(d) /\ caller[d].handle = g
                                    /\ caller[d].pdo = FsContext[g]
        BY <1>2, <1>4, <1>5, <1>6, <4>2 DEF Inserting
      <4>3. CASE pdo[FsContext[g]].life \in {"there", "dying", "detaching"} /\ pdo[FsContext[g]].fo = g
        BY <1>3, <1>4, <4>1, <4>3
      <4>4. ASSUME NEW d \in Callers, caller[d].pc = "clear", caller[d].handle = g
            PROVE  caller'[d] = caller[d]
        <5>1. caller[c].pc = "insert"
          BY <1>1 DEF Inserting
        <5> QED
          BY <1>5, <4>4, <5>1
      <4> QED
        BY <3>1, <4>2, <4>3, <4>4 DEF HandleInv, HandleKnown
    <3> QED
      BY <1>1, <3>1 DEF HandleInv, HandleKnown
  <2>3. OwnerKnown' /\ DetachKnown'
    BY <1>1, <1>2, <1>3, <1>4 DEF HandleInv, OwnerKnown, DetachKnown
  <2>4. MadeKnown'
    BY <1>2, <1>4, <1>5, <1>6 DEF HandleInv, MadeKnown, Inserting
  <2>5. ClosingKnown'
    <3>1. \A d \in Callers : Closing(d) => caller[d].pdo \in Pdos \ {p}
      BY <1>3 DEF HandleInv, ClosingKnown
    <3>2. /\ \A q \in Pdos \ {p} : pdo'[q] = pdo[q]
          /\ \A d \in Callers : Closing(d) => caller'[d] = caller[d]
      BY <1>4, <1>10
    <3> HIDE DEF p, h
    <3> QED
      BY <1>1, <1>10, <3>1, <3>2 DEF HandleInv, ClosingKnown
  <2> QED
    BY <1>4, <1>5, <2>1, <2>2, <2>3, <2>4, <2>5 DEF HandleInv
<1>8. FdoInv' /\ Monotone
  BY <1>1, FdoUnmoved DEF Inserting
<1>9. ListInv'
  <2>1. OnBus' = OnBus \cup {p} /\ p \notin Listed
    BY <1>2, <1>3, <1>4 DEF OnBus, ListInv
  <2>2. /\ ListOfPDOs' \in Seq(Pdos) /\ Distinct(ListOfPDOs')
        /\ Len(ListOfPDOs') = Len(ListOfPDOs) + 1 /\ Listed' = Listed \cup {p}
    BY <1>1, <1>3, <2>1, AppendDistinct DEF ListInv, Listed
  <2>3. bus # "deleted"
    BY <1>1 DEF FdoInv, Inserting
  <2> QED
    BY <1>1, <1>2, <1>4, <1>8, <2>1, <2>2, <2>3 DEF ListInv, Monotone
<1> QED
  BY <1>7, <1>8, <1>9

\* One thread gets a record, and neither that nor its last one is that of a plug-in.
LEMMA OneCaller ==
  ASSUME HandleInv, NEW c \in Callers, caller[c].pc \notin {"plug", "insert"}, NEW r,
         r = [f \in CallerFields |-> r[f]], r.pc \notin {"plug", "insert"},
         caller' = [caller EXCEPT ![c] = r]
  PROVE  /\ CallerShape' /\ caller'[c] = r
         /\ \A d \in Callers \ {c} : caller'[d] = caller[d]
         /\ \A d \in Callers : /\ Inserting(d)' <=> Inserting(d)
                               /\ Inserting(d) => d # c /\ caller'[d] = caller[d]
                               /\ caller'[d].pc = "plug" => d # c
<1>1. CallerShape' /\ caller'[c] = r /\ \A d \in Callers \ {c} : caller'[d] = caller[d]
  BY DEF HandleInv, CallerShape
<1> QED
  BY <1>1 DEF Inserting

\* A handle that no plug-in uses is closed.
LEMMA CleanupKeeps ==
  ASSUME PnpInv, NEW c \in Callers, NEW h \in Handles, Cleanup(c, h)
  PROVE  PnpInv'
<1> USE DEF PnpInv, HandleInv
<1>1. /\ UNCHANGED <<fdo, ListOfPDOs, NumPDOs, pdo, FsContext, bus>>
      /\ caller[c].pc = "idle" /\ h \notin closed /\ closed' = closed \cup {h}
      /\ \A d \in Callers : caller[d].handle # h
  BY DEF Cleanup
<1>2. PICK r : /\ caller' = [caller EXCEPT ![c] = r] /\ r = [f \in CallerFields |-> r[f]]
               /\ \/ r = caller[c] /\ caller' = caller
                  \/ /\ fdo.state # "Deleted" /\ FsContext[h] # NULL
                     /\ r.pc = "forget" /\ r.handle = h /\ r.pdo = FsContext[h]
  <2>1. CASE caller' = caller
    <3> WITNESS caller[c]
    <3> QED
      BY <2>1 DEF CallerShape
  <2>2. CASE caller' # caller
    <3> DEFINE r == [pc |-> "forget", handle |-> h, addr |-> 0, pdo |-> FsContext[h]]
    <3>1. caller' = [caller EXCEPT ![c] = r] /\ fdo.state # "Deleted" /\ FsContext[h] # NULL
      BY <2>2 DEF Cleanup
    <3>2. /\ r = [f \in CallerFields |-> r[f]]
          /\ r.pc = "forget" /\ r.handle = h /\ r.pdo = FsContext[h]
      BY DEF CallerFields
    <3> HIDE DEF r
    <3> QED
      BY <3>1, <3>2
  <2> QED
    BY <2>1, <2>2
<1>3. /\ CallerShape' /\ caller'[c] = r
      /\ \A d \in Callers \ {c} : caller'[d] = caller[d]
      /\ \A d \in Callers : /\ Inserting(d)' <=> Inserting(d)
                            /\ Inserting(d) => d # c /\ caller'[d] = caller[d]
                            /\ caller'[d].pc = "plug" => d # c
  BY <1>1, <1>2, OneCaller
<1>4. FdoInv' /\ Monotone
  BY <1>1, <1>2, FdoUnmoved
<1>5. ListInv'
  BY <1>1, <1>4 DEF ListInv, Monotone, Listed, OnBus
<1>6. Plugging' /\ MadeKnown' /\ OwnerKnown' /\ DetachKnown'
  BY <1>1, <1>3 DEF Plugging, MadeKnown, OwnerKnown, DetachKnown, Inserting
<1>7. HandleKnown'
  <2>1. \A d \in Callers : caller[d].pc = "clear" => caller'[d] = caller[d]
    BY <1>1, <1>3
  <2> QED
    BY <1>1, <1>3, <2>1 DEF HandleKnown
<1>8. ClosingKnown'
  <2>1. \A d \in Callers \ {c} : /\ Closing(d)' <=> Closing(d)
                                 /\ caller'[d] = caller[d] /\ caller[d].handle # h
    BY <1>1, <1>3 DEF Closing
  <2>2. CASE r = caller[c]
    BY <1>1, <1>3, <2>1, <2>2 DEF ClosingKnown, Closing
  <2>3. CASE r # caller[c]
    <3>1. /\ FsContext[h] # NULL /\ FsContext[h] \in Pdos
          /\ r.pc = "forget" /\ r.handle = h /\ r.pdo = FsContext[h]
      BY <1>2, <2>3 DEF HandleKnown
    <3>2. pdo[FsContext[h]].fo = h /\ pdo[FsContext[h]].life \in {"there", "dying", "detaching"}
      BY <1>1, <3>1 DEF HandleKnown
    <3> QED
      BY <1>1, <1>3, <2>1, <3>1, <3>2 DEF ClosingKnown, Closing
  <2> QED
    BY <2>2, <2>3
<1>9. PdoShape'
  BY <1>1 DEF PdoShape
<1> QED
  BY <1>3, <1>4, <1>5, <1>6, <1>7, <1>8, <1>9

\* Its device forgets it: the closing thread is what ties them now.
LEMMA CleanupForgetKeeps ==
  ASSUME PnpInv, NEW c \in Callers, CleanupForget(c)
  PROVE  PnpInv'
<1> USE DEF PnpInv, HandleInv
<1> DEFINE h == caller[c].handle
           p == caller[c].pdo
           r == [caller[c] EXCEPT !.pc = "clear"]
<1>1. /\ UNCHANGED <<fdo, ListOfPDOs, NumPDOs, FsContext, closed, bus>>
      /\ caller[c].pc = "forget" /\ Closing(c) /\ caller' = [caller EXCEPT ![c] = r]
      /\ pdo' = IF pdo[p].life = "deleted" THEN pdo ELSE [pdo EXCEPT ![p].fo = NULL]
  BY DEF CleanupForget, CallerShape, Freed, Closing
<1>2. /\ h \in Handles /\ h \in closed /\ p \in Pdos
      /\ pdo[p].life \notin {"none", "made"} /\ FsContext[h] \in {p, NULL}
      /\ pdo[p].life = "deleted" \/ pdo[p].fo = h
      /\ \A d \in Callers : Closing(d) /\ caller[d].handle = h => d = c
  BY <1>1 DEF ClosingKnown
<1>3. /\ r = [f \in CallerFields |-> r[f]] /\ r.pc = "clear" /\ r.handle = h /\ r.pdo = p
  BY DEF CallerShape, CallerFields
<1> HIDE DEF r
<1>4. /\ CallerShape' /\ caller'[c] = r
      /\ \A d \in Callers \ {c} : caller'[d] = caller[d]
      /\ \A d \in Callers : /\ Inserting(d)' <=> Inserting(d)
                            /\ Inserting(d) => d # c /\ caller'[d] = caller[d]
                            /\ caller'[d].pc = "plug" => d # c
  BY <1>1, <1>3, OneCaller
<1>5. /\ PdoShape' /\ pdo'[p].fo = NULL /\ \A q \in Pdos \ {p} : pdo'[q] = pdo[q]
      /\ pdo'[p].life = pdo[p].life /\ pdo'[p].held = pdo[p].held
      /\ pdo'[p].ParentFdo = pdo[p].ParentFdo
      /\ pdo'[p].ReportedMissing = pdo[p].ReportedMissing
  <2>1. CASE pdo[p].life = "deleted"
    BY <1>1, <1>2, <2>1 DEF OwnerKnown, PdoShape
  <2>2. CASE pdo[p].life # "deleted"
    <3> DEFINE d == [pdo[p] EXCEPT !.fo = NULL]
    <3>1. pdo' = [pdo EXCEPT ![p] = d]
      BY <1>1, <2>2 DEF PdoShape
    <3>2. /\ d = [f \in PdoFields |-> d[f]] /\ d.fo = NULL
          /\ d.life = pdo[p].life /\ d.held = pdo[p].held /\ d.ParentFdo = pdo[p].ParentFdo
          /\ d.ReportedMissing = pdo[p].ReportedMissing
      BY <1>2 DEF PdoShape, PdoFields
    <3> HIDE DEF d, p
    <3> QED
      BY <1>2, <3>1, <3>2, OneAlone
  <2> QED
    BY <2>1, <2>2
<1> HIDE DEF h, p
<1>6. FdoInv' /\ Monotone
  BY <1>1, FdoUnmoved
<1>7. ListInv'
  <2>1. OnBus' = OnBus
    BY <1>5 DEF OnBus
  <2>2. \A q \in Pdos : /\ pdo'[q].life = pdo[q].life /\ pdo'[q].ParentFdo = pdo[q].ParentFdo
                        /\ pdo'[q].ReportedMissing = pdo[q].ReportedMissing
    BY <1>5
  <2> QED
    BY <1>1, <1>6, <2>1, <2>2 DEF ListInv, Monotone, Listed
<1>8. Plugging' /\ MadeKnown'
  <2>1. \A q \in Pdos : pdo'[q].life = pdo[q].life
    BY <1>5
  <2> QED
    BY <1>1, <1>4, <2>1 DEF Plugging, MadeKnown, Inserting
<1>9. HandleKnown'
  <2> SUFFICES ASSUME NEW g \in Handles, FsContext[g] # NULL
               PROVE  \/ \E d \in Callers : /\ Inserting(d)' /\ caller'[d].handle = g
                                            /\ caller'[d].pdo = FsContext[g]
                      \/ /\ pdo'[FsContext[g]].life \in {"there", "dying", "detaching"}
                         /\ pdo'[FsContext[g]].fo = g
                      \/ \E d \in Callers : caller'[d].pc = "clear" /\ caller'[d].handle = g
    BY <1>1 DEF HandleKnown
  <2>1. CASE g = h
    BY <1>3, <1>4, <2>1
  <2>2. CASE g # h /\ pdo[FsContext[g]].fo = g
                   /\ pdo[FsContext[g]].life \in {"there", "dying", "detaching"}
    <3>1. FsContext[g] \in Pdos \ {p}
      BY <1>2, <2>2 DEF HandleKnown
    <3> QED
      BY <1>5, <2>2, <3>1
  <2>3. ASSUME NEW d \in Callers, caller[d].pc = "clear" PROVE caller'[d] = caller[d]
    BY <1>1, <1>4, <2>3
  <2> QED
    BY <1>4, <2>1, <2>2, <2>3 DEF HandleKnown
<1>10. OwnerKnown' /\ DetachKnown'
  <2>1. \A q \in Pdos : pdo'[q].fo # NULL => q # p /\ pdo'[q] = pdo[q]
    BY <1>5
  <2>2. OwnerKnown'
    BY <1>1, <2>1 DEF OwnerKnown
  <2>3. ASSUME pdo[p].life = "detaching"
        PROVE  pdo[p].held \in Handles /\ pdo[p].held \in closed /\ FsContext[pdo[p].held] \in {p, NULL}
    BY <1>2, <2>3 DEF DetachKnown
  <2>4. DetachKnown'
    BY <1>1, <1>5, <2>3 DEF DetachKnown
  <2> QED
    BY <2>2, <2>4
<1>11. ClosingKnown'
  <2>1. \A d \in Callers : Closing(d)' <=> Closing(d)
    BY <1>1, <1>3, <1>4 DEF Closing
  <2>2. \A d \in Callers \ {c} : Closing(d) =>
          /\ caller[d].handle # h /\ caller'[d] = caller[d]
          /\ caller[d].pc = "forget" => pdo[caller[d].pdo].life = "deleted" \/ caller[d].pdo # p
    BY <1>2, <1>4 DEF ClosingKnown
  <2>3. \A q \in Pdos : pdo'[q].life = pdo[q].life /\ pdo'[q].fo \in {pdo[q].fo, NULL}
    BY <1>5
  <2>4. ASSUME NEW d \in Callers \ {c}, Closing(d)
        PROVE  /\ caller'[d].handle \in Handles /\ caller'[d].handle \in closed
               /\ caller'[d].pdo \in Pdos
               /\ pdo'[caller'[d].pdo].life \notin {"none", "made"}
               /\ FsContext[caller'[d].handle] \in {caller'[d].pdo, NULL}
               /\ caller'[d].pc = "forget" => \/ pdo'[caller'[d].pdo].life = "deleted"
                                              \/ pdo'[caller'[d].pdo].fo = caller'[d].handle
               /\ caller'[d].pc = "clear" => pdo'[caller'[d].pdo].fo = NULL
    BY <1>5, <2>2, <2>3, <2>4 DEF ClosingKnown
  <2>5. \A d, e \in Callers : Closing(d) /\ Closing(e) /\ caller'[d].handle = caller'[e].handle => d = e
    <3>1. \A d \in Callers : caller'[d].handle = caller[d].handle
      BY <1>3, <1>4 DEF h
    <3> QED
      BY <3>1 DEF ClosingKnown
  <2> QED
    BY <1>1, <1>2, <1>3, <1>4, <1>5, <2>1, <2>4, <2>5 DEF ClosingKnown
<1> QED
  BY <1>4, <1>5, <1>6, <1>7, <1>8, <1>9, <1>10, <1>11

\* It forgets its device, which has forgotten it.
LEMMA CleanupClearKeeps ==
  ASSUME PnpInv, NEW c \in Callers, CleanupClear(c)
  PROVE  PnpInv'
<1> USE DEF PnpInv, HandleInv
<1> DEFINE h == caller[c].handle
           p == caller[c].pdo
<1>1. /\ UNCHANGED <<fdo, ListOfPDOs, NumPDOs, pdo, closed, bus>>
      /\ caller[c].pc = "clear" /\ Closing(c) /\ FsContext' = [FsContext EXCEPT ![h] = NULL]
  BY DEF CleanupClear, Closing
<1>2. PICK r : /\ caller' = [caller EXCEPT ![c] = r] /\ r = [f \in CallerFields |-> r[f]]
               /\ r.pc \in {"unplug", "idle"}
  <2>1. CASE caller' = [caller EXCEPT ![c].pc = "unplug"]
    <3> DEFINE r == [caller[c] EXCEPT !.pc = "unplug"]
    <3>1. r = [f \in CallerFields |-> r[f]] /\ r.pc = "unplug"
      BY DEF CallerShape, CallerFields
    <3>2. caller' = [caller EXCEPT ![c] = r]
      BY <2>1 DEF CallerShape
    <3> QED
      BY <3>1, <3>2
  <2>2. CASE Returns(c)
    <3>1. IdleCaller = [f \in CallerFields |-> IdleCaller[f]] /\ IdleCaller.pc = "idle"
      BY DEF IdleCaller, CallerFields
    <3> QED
      BY <2>2, <3>1 DEF Returns
  <2> QED
    BY <2>1, <2>2 DEF CleanupClear
<1>3. /\ CallerShape' /\ caller'[c] = r
      /\ \A d \in Callers \ {c} : caller'[d] = caller[d]
      /\ \A d \in Callers : /\ Inserting(d)' <=> Inserting(d)
                            /\ Inserting(d) => d # c /\ caller'[d] = caller[d]
                            /\ caller'[d].pc = "plug" => d # c
  BY <1>1, <1>2, OneCaller
<1>4. /\ h \in Handles /\ h \in closed /\ p \in Pdos /\ FsContext[h] \in {p, NULL}
      /\ pdo[p].fo = NULL /\ \A d \in Callers : Closing(d) /\ caller[d].handle = h => d = c
  BY <1>1 DEF ClosingKnown
<1>5. /\ FsContext' \in [Handles -> Pdos \cup {NULL}] /\ FsContext'[h] = NULL
      /\ \A g \in Handles \ {h} : FsContext'[g] = FsContext[g]
  BY <1>1, <1>4 DEF HandleKnown
<1> HIDE DEF h, p
<1>6. FdoInv' /\ Monotone
  BY <1>1, FdoUnmoved
<1>7. ListInv'
  BY <1>1, <1>6 DEF ListInv, Monotone, Listed, OnBus
<1>8. Plugging' /\ MadeKnown'
  <2>1. \A d \in Callers : Inserting(d) => FsContext'[caller[d].handle] = FsContext[caller[d].handle]
    BY <1>4, <1>5 DEF Plugging, Inserting
  <2> QED
    BY <1>1, <1>3, <2>1 DEF Plugging, MadeKnown, Inserting
<1>9. HandleKnown'
  <2> SUFFICES ASSUME NEW g \in Handles \ {h}, FsContext[g] # NULL
               PROVE  \/ \E d \in Callers : /\ Inserting(d)' /\ caller'[d].handle = g
                                            /\ caller'[d].pdo = FsContext[g]
                      \/ /\ pdo[FsContext[g]].life \in {"there", "dying", "detaching"}
                         /\ pdo[FsContext[g]].fo = g
                      \/ \E d \in Callers : caller'[d].pc = "clear" /\ caller'[d].handle = g
    BY <1>1, <1>5 DEF HandleKnown
  <2>1. ASSUME NEW d \in Callers, caller[d].handle = g, caller[d].pc = "clear"
        PROVE  caller'[d] = caller[d]
    BY <1>3, <2>1 DEF h
  <2> QED
    BY <1>3, <2>1 DEF HandleKnown
<1>10. OwnerKnown'
  <2>1. ASSUME NEW q \in Pdos, pdo[q].fo # NULL, pdo[q].life # "detached"
        PROVE  FsContext'[pdo[q].fo] = q
    <3>1. FsContext[pdo[q].fo] = q /\ pdo[q].fo \in Handles /\ q # p
      BY <1>4, <2>1 DEF OwnerKnown
    <3> QED
      BY <1>4, <1>5, <3>1, BusAssumption
  <2> QED
    BY <1>1, <2>1 DEF OwnerKnown
<1>11. DetachKnown'
  <2>1. \A g \in Handles : FsContext'[g] \in {FsContext[g], NULL}
    BY <1>5
  <2> QED
    BY <1>1, <2>1 DEF DetachKnown
<1>12. ClosingKnown'
  <2>1. \A d \in Callers : Closing(d)' => Closing(d) /\ caller'[d] = caller[d]
    BY <1>2, <1>3 DEF Closing
  <2>2. \A g \in Handles : FsContext'[g] \in {FsContext[g], NULL}
    BY <1>5
  <2> QED
    BY <1>1, <2>1, <2>2 DEF ClosingKnown
<1> QED
  BY <1>1, <1>3, <1>6, <1>7, <1>8, <1>9, <1>10, <1>11, <1>12 DEF PdoShape

(***************************************************************************)
(* The invariant, and what it is for.                                      *)
(***************************************************************************)

\* Before the bus is started it has no device, and no thread is inside the driver.
LEMMA PnpInitially ==
  ASSUME BusInit
  PROVE  PnpInv
<1>1. /\ \A p \in Pdos : /\ pdo[p].life = "none" /\ pdo[p].fo = NULL
                         /\ pdo[p] = [f \in PdoFields |-> pdo[p][f]]
      /\ pdo = [p \in Pdos |-> pdo[p]]
  BY DEF BusInit, NoPdo, PdoFields
<1>2. /\ \A c \in Callers : /\ caller[c].pc = "idle"
                            /\ caller[c] = [f \in CallerFields |-> caller[c][f]]
      /\ caller = [c \in Callers |-> caller[c]]
  BY DEF BusInit, IdleCaller, CallerFields
<1>3. HandleInv
  BY <1>1, <1>2 DEF BusInit, HandleInv, PdoShape, CallerShape, Plugging, ClosingKnown, HandleKnown,
                    OwnerKnown, DetachKnown, MadeKnown, Inserting, Closing
<1>4. OnBus = {} /\ \A p \in Pdos : pdo[p].life # "there"
  BY <1>1 DEF OnBus
<1>5. ListOfPDOs = <<>> /\ NumPDOs = 0 /\ bus = "added"
  BY DEF BusInit
<1>6. ListOfPDOs \in Seq(Pdos) /\ Len(ListOfPDOs) = 0 /\ Distinct(ListOfPDOs) /\ Listed = {}
  BY <1>5 DEF Distinct, Listed, ToSet
<1>7. ListInv
  BY <1>4, <1>5, <1>6 DEF ListInv
<1>8. FdoInv
  BY <1>2 DEF BusInit, FdoInv
<1> QED
  BY <1>3, <1>7, <1>8 DEF PnpInv

\* Every step keeps the invariant: what the threads do,
LEMMA CallsKeep ==
  ASSUME PnpInv, NEW c \in Callers, Call(c) \/ CallerRuns(c)
  PROVE  PnpInv'
<1>1. ASSUME NEW h \in Handles, Cleanup(c, h) PROVE PnpInv'
  BY <1>1, CleanupKeeps
<1>2. ASSUME NEW h \in Handles, NEW a, PlugCheck(c, h, a) PROVE PnpInv'
  BY <1>2, UnplugKeeps
<1>3. ASSUME NEW a, Unplug(c, a) PROVE PnpInv'
  BY <1>3, UnplugKeeps
<1>4. CASE UnplugDrain(c) \/ CleanupUnplug(c)
  BY <1>4, UnplugKeeps
<1>6. CASE CleanupForget(c) \/ CleanupClear(c)
  BY <1>6, CleanupForgetKeeps, CleanupClearKeeps
<1>5. CASE PlugClaim(c) \/ PlugInsert(c)
  BY <1>5, PlugClaimKeeps, PlugInsertKeeps
<1> QED
  BY <1>1, <1>2, <1>3, <1>4, <1>5, <1>6 DEF Call, CallerRuns

\* and what the PnP manager sends.
LEMMA StepsKeep ==
  ASSUME PnpInv, [BusNext]_busVars
  PROVE  PnpInv'
<1>1. ASSUME NEW p \in Pdos, PdoIrp(p) PROVE PnpInv'
  BY <1>1, PdoStateKeeps, PdoRemoveKeeps, PdoDestroyTestKeeps, PdoDestroyClearKeeps,
     PdoDestroyDeleteKeeps DEF PdoIrp, PdoRemoval, PdoDestroy
<1>2. CASE UNCHANGED busVars \/ Crash
  <2>1. UNCHANGED <<fdo, ListOfPDOs, NumPDOs, pdo, FsContext, closed, caller, bus>>
    BY <1>2 DEF busVars, Crash
  <2>2. SameTies
    BY <2>1 DEF SameTies, PnpInv, HandleInv, PdoShape
  <2>3. FdoInv' /\ Monotone
    BY <2>1, FdoUnmoved DEF PnpInv
  <2> QED
    BY <2>1, <2>2, <2>3, TiedStep
<1> QED
  BY <1>1, <1>2, CallsKeep, FdoKeeps DEF BusNext

\* Every state satisfies the invariant.
LEMMA PnpAlways == BusSpec => []PnpInv
<1>1. BusInit => PnpInv
  BY PnpInitially
<1>2. PnpInv /\ [BusNext]_busVars => PnpInv'
  BY StepsKeep
<1> QED
  BY <1>1, <1>2, PTL DEF BusSpec

\* A device that knows a handle is the one the handle stands for, until its destruction has
\* cleared the handle, and a handle that stands for a freed device is in the middle of its
\* close, however plug-ins, closes and removals overlap (bus_plugin_dev, Bus_Cleanup,
\* Bus_DestroyPdo).
THEOREM HandlesOwn == BusSpec => []HandleOwnsItsDevice
<1>1. PnpInv => HandleOwnsItsDevice
  <2> SUFFICES ASSUME PnpInv PROVE HandleOwnsItsDevice
    OBVIOUS
  <2>1. ASSUME NEW h \in Handles, FsContext[h] # NULL, Freed(FsContext[h])
        PROVE  h \in closed /\ \E c \in Callers : caller[c].pc = "clear" /\ caller[c].handle = h
    <3>1. \E c \in Callers : caller[c].pc = "clear" /\ caller[c].handle = h
      BY <2>1 DEF PnpInv, HandleInv, HandleKnown, Plugging, Freed
    <3> QED
      BY <3>1 DEF PnpInv, HandleInv, ClosingKnown, Closing
  <2> QED
    BY <2>1 DEF HandleOwnsItsDevice, PnpInv, HandleInv, OwnerKnown
<1> QED
  BY <1>1, PnpAlways, PTL

\* The bus's list holds each of its devices once and no other, NumPDOs counts them, and
\* none that survives a deleted bus points to it (bus_plugin_dev, Bus_PDO_PnP's and
\* Bus_FDO_PnP's removals).
THEOREM ListAlwaysExact == BusSpec => []ListIsExact
<1>1. PnpInv => ListIsExact
  <2> SUFFICES ASSUME PnpInv PROVE ListIsExact
    OBVIOUS
  <2>1. IsInjective(ListOfPDOs)
    BY DEF PnpInv, ListInv, Distinct, IsInjective
  <2>2. ASSUME bus = "deleted", NEW p \in Pdos, pdo[p].life \in {"made", "there"}
        PROVE  ~pdo[p].ParentFdo /\ pdo[p].ReportedMissing
    <3>1. pdo[p].life # "made"
      BY <2>2 DEF PnpInv, FdoInv, HandleInv, MadeKnown, Inserting
    <3> QED
      BY <2>2, <3>1 DEF PnpInv, ListInv, OnBus
  <2> QED
    BY <2>1, <2>2 DEF ListIsExact, PnpInv, ListInv, OnBus, Counting
<1> QED
  BY <1>1, PnpAlways, PTL

(***************************************************************************)
(* A cancelled query restores the state before it.  What is restored is    *)
(* what the query remembered, so the state that each pending one came from *)
(* is needed; and a device is known to the PnP manager only after it was   *)
(* filled in.                                                              *)
(***************************************************************************)

\* The states of a device that was started, by then unplugged or not.
Running == {"Started", "PNP_DEVICE_REMOVED"}

\* A device is in state s because of a query, and knows where to return to.
Pending(d, s) == d.state = s /\ d.previous \in Running

\* The device d where the PnP manager has it at n.
Restorable(d, n) ==
  /\ d.life \in {"none", "made"} => n = "none"
  /\ d.life = "there" =>
       /\ n = "started" => d.state \in Running
       /\ n = "query_stop" => Pending(d, "StopPending") \/ d.state = "PNP_DEVICE_REMOVED"
       /\ n = "query_remove" => Pending(d, "RemovePending") \/ d.state = "PNP_DEVICE_REMOVED"

BusRestorable ==
  /\ bus = "started" => fdo.state = "Started"
  /\ bus = "query_stop" => fdo.state = "StopPending" /\ fdo.previous = "Started"
  /\ bus = "query_remove" => fdo.state = "RemovePending" /\ fdo.previous = "Started"

RestoreInv == /\ BusRestorable
              /\ node = [p \in Pdos |-> node[p]]
              /\ \A p \in Pdos : Restorable(pdo[p], node[p])

\* What the state's macros do to a device.
LEMMA MacrosDo ==
  ASSUME NEW d, d = [f \in PdoFields |-> d[f]], NEW s
  PROVE  /\ SetState(d, s).state = s /\ SetState(d, s).previous = d.state
         /\ SetState(d, s).life = d.life
         /\ RestoreFrom(d, s).life = d.life
         /\ d.state = s => RestoreFrom(d, s).state = d.previous
         /\ d.state # s => RestoreFrom(d, s) = d
BY DEF PdoFields, SetState, RestoreFrom

\* One device, and where the PnP manager has it, change.
LEMMA OneRestorable ==
  ASSUME PnpInv, RestoreInv, NEW p \in Pdos, NEW r, NEW n, pdo' = [pdo EXCEPT ![p] = r],
         node' = [node EXCEPT ![p] = n], Restorable(r, n), UNCHANGED <<fdo, bus>>
  PROVE  RestoreInv'
<1>1. \A q \in Pdos : pdo'[q] = (IF q = p THEN r ELSE pdo[q])
  BY DEF PnpInv, HandleInv, PdoShape
<1>2. \A q \in Pdos : node'[q] = IF q = p THEN n ELSE node[q]
  BY DEF RestoreInv
<1>3. node' = [q \in Pdos |-> node'[q]]
  BY DEF RestoreInv
<1> QED
  BY <1>1, <1>2, <1>3 DEF RestoreInv, BusRestorable

\* IRPs of a device.
LEMMA DeviceRestores ==
  ASSUME PnpInv, RestoreInv, NEW p \in Pdos, PdoIrp(p)
  PROVE  RestoreInv'
<1> DEFINE d == pdo[p]
<1>1. d = [f \in PdoFields |-> d[f]] /\ Restorable(d, node[p])
  BY DEF PnpInv, HandleInv, PdoShape, RestoreInv
<1>2. UNCHANGED <<fdo, bus>>
  BY DEF PdoIrp, PdoRemoval, PdoStart, PdoQueryStop, PdoCancelStop, PdoStop, PdoQueryRemove,
         PdoCancelRemove, PdoSurprise, PdoRemove, PdoDisable, PdoDestroy, PdoDestroyTest,
         PdoDestroyClear, PdoDestroyDelete, PdoEject, Moves
<1> HIDE DEF d
<1>3. ASSUME NEW s, NEW to, There(p), SetPdo(p, s), node' = [node EXCEPT ![p] = to],
             Restorable([d EXCEPT !.previous = d.state, !.state = s], to)
      PROVE  RestoreInv'
  <2>1. pdo' = [pdo EXCEPT ![p] = SetState(d, s)]
    BY <1>3 DEF SetPdo, d
  <2>2. Restorable(SetState(d, s), to)
    BY <1>3 DEF SetState
  <2> QED
    BY <1>2, <1>3, <2>1, <2>2, OneRestorable
<1>4. ASSUME NEW s, NEW to
      PROVE  LET r == [d EXCEPT !.previous = d.state, !.state = s]
             IN  r = SetState(d, s) /\ r.state = s /\ r.previous = d.state /\ r.life = d.life
  BY <1>1, MacrosDo DEF SetState
<1>5. CASE PdoStart(p)
  <2>1. PICK to \in {"started", "failed"} : node' = [node EXCEPT ![p] = to]
    BY <1>5 DEF PdoStart, Moves
  <2> QED
    BY <1>3, <1>4, <1>5, <2>1 DEF PdoStart, There, Restorable, Running, d
<1>6. CASE PdoQueryStop(p)
  <2>1. d.state \in Running /\ d.life = "there"
    BY <1>1, <1>6 DEF PdoQueryStop, There, Restorable, d
  <2> QED
    BY <1>3, <1>4, <1>6, <2>1 DEF PdoQueryStop, Moves, There, Restorable, Pending, d
<1>7. CASE PdoQueryRemove(p)
  <2>1. d.state \in Running /\ d.life = "there"
    BY <1>1, <1>7 DEF PdoQueryRemove, There, Restorable, d
  <2> QED
    BY <1>3, <1>4, <1>7, <2>1 DEF PdoQueryRemove, Moves, There, Restorable, Pending, d
<1>8. CASE PdoStop(p) \/ PdoSurprise(p)
  <2>1. ASSUME NEW s, NEW to \in {"stopped", "surprise"}, There(p), SetPdo(p, s),
               node' = [node EXCEPT ![p] = to]
        PROVE  RestoreInv'
    BY <1>3, <1>4, <2>1 DEF There, Restorable, d
  <2>2. CASE PdoStop(p)
    BY <2>1, <2>2 DEF PdoStop, Moves
  <2>3. CASE PdoSurprise(p)
    BY <2>1, <2>3 DEF PdoSurprise, Moves
  <2> QED
    BY <1>8, <2>2, <2>3
<1>9. CASE PdoCancelStop(p)
  <2>1. /\ pdo' = [pdo EXCEPT ![p] = RestoreFrom(d, "StopPending")] /\ d.life = "there"
        /\ node' = [node EXCEPT ![p] = "started"]
    BY <1>9 DEF PdoCancelStop, Moves, There, d
  <2>2. RestoreFrom(d, "StopPending").state \in Running
    BY <1>1, <1>9, <2>1, MacrosDo DEF PdoCancelStop, Restorable, Pending, Running, d
  <2>3. Restorable(RestoreFrom(d, "StopPending"), "started")
    BY <1>1, <2>1, <2>2, MacrosDo DEF Restorable
  <2> QED
    BY <1>2, <2>1, <2>3, OneRestorable
<1>10. CASE PdoCancelRemove(p)
  <2>1. /\ pdo' = [pdo EXCEPT ![p] = RestoreFrom(d, "RemovePending")] /\ d.life = "there"
        /\ node' = [node EXCEPT ![p] = "started"]
    BY <1>10 DEF PdoCancelRemove, Moves, There, d
  <2>2. RestoreFrom(d, "RemovePending").state \in Running
    BY <1>1, <1>10, <2>1, MacrosDo DEF PdoCancelRemove, Restorable, Pending, Running, d
  <2>3. Restorable(RestoreFrom(d, "RemovePending"), "started")
    BY <1>1, <2>1, <2>2, MacrosDo DEF Restorable
  <2> QED
    BY <1>2, <2>1, <2>3, OneRestorable
<1>11. CASE PdoRemoval(p) \/ PdoEject(p)
  <2>1. PICK r, n : /\ pdo' = [pdo EXCEPT ![p] = r] /\ node' = [node EXCEPT ![p] = n]
                    /\ \/ r.life = "there" /\ n = "removed"
                       \/ r.life \in {"dying", "detaching", "detached", "deleted"}
    <3>1. /\ pdo = [pdo EXCEPT ![p] = d] /\ node = [node EXCEPT ![p] = node[p]]
      BY DEF PnpInv, HandleInv, PdoShape, RestoreInv, d
    <3>2. CASE PdoRemove(p)
      <4> DEFINE r == [SetState(d, "Deleted") EXCEPT !.life = "dying"]
      <4>1. r.life = "dying"
        BY <1>1, StateLooks DEF PdoFields
      <4>2. pdo' = [pdo EXCEPT ![p] = r] /\ node' = [node EXCEPT ![p] = "gone"]
        BY <3>2 DEF PdoRemove, d
      <4> QED
        BY <4>1, <4>2
    <3>3. CASE PdoDisable(p)
      <4>1. d.life = "there" /\ node' = [node EXCEPT ![p] = "removed"]
        BY <3>3 DEF PdoDisable, There, Moves, d
      <4>2. SetState(d, "NotStarted").life = "there"
        BY <1>1, <4>1, MacrosDo
      <4>3. pdo' = [pdo EXCEPT ![p] = d] \/ pdo' = [pdo EXCEPT ![p] = SetState(d, "NotStarted")]
        BY <3>1, <3>3 DEF PdoDisable, SetPdo, d
      <4> QED
        BY <4>1, <4>2, <4>3
    <3>4. CASE PdoDestroy(p)
      <4> DEFINE found == [d EXCEPT !.life = "detaching", !.held = d.fo]
                 cleared == [d EXCEPT !.life = "detached"]
      <4>1. Destroyed.life = "deleted" /\ found.life = "detaching" /\ cleared.life = "detached"
        BY <1>1 DEF Destroyed, NoPdo, PdoFields
      <4>2. /\ \/ pdo' = [pdo EXCEPT ![p] = Destroyed]
               \/ pdo' = [pdo EXCEPT ![p] = found]
               \/ pdo' = [pdo EXCEPT ![p] = cleared]
            /\ node' = [node EXCEPT ![p] = node[p]]
        BY <3>1, <3>4 DEF PdoDestroy, PdoDestroyTest, PdoDestroyClear, PdoDestroyDelete, d
      <4> HIDE DEF found, cleared
      <4> QED
        BY <4>1, <4>2
    <3>5. CASE PdoEject(p)
      <4> DEFINE r == [d EXCEPT !.Present = FALSE]
      <4>1. r.life = "there" /\ pdo' = [pdo EXCEPT ![p] = r]
        BY <1>1, <3>5 DEF PdoEject, There, d, PdoFields
      <4>2. node' = [node EXCEPT ![p] = "removed"]
        BY <3>1, <3>5 DEF PdoEject
      <4> QED
        BY <4>1, <4>2
    <3> QED
      BY <1>11, <3>2, <3>3, <3>4, <3>5 DEF PdoRemoval
  <2>2. Restorable(r, n)
    BY <2>1 DEF Restorable
  <2> QED
    BY <1>2, <2>1, <2>2, OneRestorable
<1> QED
  BY <1>5, <1>6, <1>7, <1>8, <1>9, <1>10, <1>11 DEF PdoIrp

\* A step after which each device has the life and the states it had, and the PnP manager has
\* it where it had it, or one that says nothing of queries.
LEMMA DevicesRestorable ==
  ASSUME RestoreInv, NEW p \in Pdos,
         \/ /\ pdo'[p].life = pdo[p].life \/ pdo'[p].life \notin {"none", "made", "there"}
            /\ pdo'[p].state = pdo[p].state /\ pdo'[p].previous = pdo[p].previous
         \/ pdo'[p].life \notin {"none", "made", "there"}
         \/ pdo'[p].life = pdo[p].life /\ pdo'[p].state = "PNP_DEVICE_REMOVED",
         node'[p] = node[p] \/ (pdo'[p].life # "none" /\ pdo'[p].life # "made"
                                  /\ node'[p] \in {"reported", "gone"})
  PROVE  Restorable(pdo'[p], node'[p])
BY DEF RestoreInv, Restorable, Pending, Running

\* IRPs of the bus.
LEMMA BusRestores ==
  ASSUME PnpInv, RestoreInv, FdoIrp
  PROVE  RestoreInv'
<1>1. fdo = [state |-> fdo.state, previous |-> fdo.previous]
  BY DEF PnpInv, FdoInv
<1>2. BusRestorable'
  BY <1>1 DEF RestoreInv, BusRestorable, FdoIrp, FdoStart, FdoQueryStop, FdoCancelStop, FdoStop,
              FdoQueryRemove, FdoCancelRemove, FdoSurprise, FdoRemoveMark, FdoRemoveFinish,
              QueryRelations, BusMoves, SetState, RestoreFrom
<1>3. \A p \in Pdos : pdo[p] = [f \in PdoFields |-> pdo[p][f]]
  BY DEF PnpInv, HandleInv, PdoShape
<1>4. CASE pdo' = pdo /\ node' = node
  BY <1>2, <1>4 DEF RestoreInv
<1>5. CASE FdoSurprise
  <2>1. node' = node
    BY <1>5 DEF FdoSurprise
  <2>2. ASSUME NEW p \in Pdos
        PROVE  /\ pdo'[p].life = pdo[p].life
               /\ pdo'[p].state = pdo[p].state /\ pdo'[p].previous = pdo[p].previous
    <3>1. pdo'[p] = IF p \in Listed
                    THEN [pdo[p] EXCEPT !.ParentFdo = FALSE, !.ReportedMissing = TRUE]
                    ELSE pdo[p]
      BY <1>5 DEF FdoSurprise
    <3> QED
      BY <1>3, <3>1 DEF PdoFields
  <2> QED
    BY <1>2, <2>1, <2>2, DevicesRestorable DEF RestoreInv
<1>6. CASE FdoRemoveFinish
  <2> DEFINE kept == {p \in Listed : pdo[p].state = "SurpriseRemovePending"}
             dead == Listed \ kept
  <2>1. /\ pdo' = [p \in Pdos |->
             IF p \in kept THEN [pdo[p] EXCEPT !.ParentFdo = FALSE, !.ReportedMissing = TRUE]
             ELSE IF p \in dead THEN Destroyed
             ELSE pdo[p]]
        /\ node' = [p \in Pdos |-> IF p \in dead /\ node[p] # "surprise" THEN "gone" ELSE node[p]]
    BY <1>6 DEF FdoRemoveFinish
  <2> HIDE DEF kept, dead
  <2>2. Destroyed.life = "deleted"
    BY DEF Destroyed, NoPdo
  <2>3. ASSUME NEW p \in Pdos PROVE Restorable(pdo'[p], node'[p])
    <3>1. CASE p \in kept
      <4>1. /\ pdo'[p] = [pdo[p] EXCEPT !.ParentFdo = FALSE, !.ReportedMissing = TRUE]
            /\ node'[p] = node[p]
        BY <2>1, <3>1 DEF dead
      <4>2. /\ pdo'[p].life = pdo[p].life
            /\ pdo'[p].state = pdo[p].state /\ pdo'[p].previous = pdo[p].previous
        BY <1>3, <4>1 DEF PdoFields
      <4> QED
        BY <4>1, <4>2, DevicesRestorable
    <3>2. CASE p \in dead
      BY <2>1, <2>2, <3>2 DEF dead, Restorable
    <3>3. CASE p \notin kept /\ p \notin dead
      BY <2>1, <3>3 DEF RestoreInv
    <3> QED
      BY <3>1, <3>2, <3>3
  <2> QED
    BY <1>2, <2>1, <2>3 DEF RestoreInv
<1>7. CASE QueryRelations
  <2> DEFINE report == {p \in Listed : pdo[p].Present}
  <2>1. /\ pdo' = [p \in Pdos |-> IF p \in Listed \ report
                                  THEN [pdo[p] EXCEPT !.ReportedMissing = TRUE] ELSE pdo[p]]
        /\ node' = [p \in Pdos |-> IF p \in report /\ node[p] = "none" THEN "reported" ELSE node[p]]
    BY <1>7 DEF QueryRelations
  <2>2. \A p \in report : pdo[p].life = "there"
    BY DEF PnpInv, ListInv, OnBus
  <2> HIDE DEF report
  <2>3. ASSUME NEW p \in Pdos PROVE Restorable(pdo'[p], node'[p])
    <3>1. /\ pdo'[p].life = pdo[p].life
          /\ pdo'[p].state = pdo[p].state /\ pdo'[p].previous = pdo[p].previous
      BY <1>3, <2>1 DEF PdoFields
    <3>2. node'[p] = node[p] \/ (pdo[p].life = "there" /\ node'[p] = "reported")
      BY <2>1, <2>2
    <3> QED
      BY <3>1, <3>2, DevicesRestorable
  <2> QED
    BY <1>2, <2>1, <2>3 DEF RestoreInv
<1> QED
  BY <1>4, <1>5, <1>6, <1>7 DEF FdoIrp, FdoStart, FdoQueryStop, FdoCancelStop, FdoStop,
     FdoQueryRemove, FdoCancelRemove, FdoRemoveMark, BusMoves

\* What the threads do.
LEMMA CallsRestore ==
  ASSUME PnpInv, RestoreInv, NEW c \in Callers, Call(c) \/ CallerRuns(c)
  PROVE  RestoreInv'
<1>1. UNCHANGED <<fdo, bus, node>>
  BY DEF Call, CallerRuns, Cleanup, PlugCheck, Unplug, Mark, PlugClaim, PlugInsert, UnplugDrain,
         CleanupForget, CleanupClear, CleanupUnplug
<1>2. \A p \in Pdos : pdo[p] = [f \in PdoFields |-> pdo[p][f]]
  BY DEF PnpInv, HandleInv, PdoShape
<1>3. pdo = [p \in Pdos |-> pdo[p]]
  BY DEF PnpInv, HandleInv, PdoShape
<1> SUFFICES ASSUME NEW p \in Pdos PROVE Restorable(pdo'[p], node[p])
  BY <1>1 DEF RestoreInv, BusRestorable
<1>4. Restorable(pdo[p], node[p])
  BY DEF RestoreInv
<1>5. CASE pdo' = pdo
  BY <1>4, <1>5
<1>6. ASSUME \/ /\ pdo'[p].life = pdo[p].life
                /\ \/ pdo'[p].state = pdo[p].state /\ pdo'[p].previous = pdo[p].previous
                   \/ pdo'[p].state = "PNP_DEVICE_REMOVED"
      PROVE  Restorable(pdo'[p], node[p])
  BY <1>1, <1>6, DevicesRestorable
<1>7. ASSUME NEW a, Mark(c, a) PROVE Restorable(pdo'[p], node[p])
  <2>1. pdo'[p] = pdo[p] \/ pdo'[p] = [pdo[p] EXCEPT !.Present = FALSE]
    BY <1>7 DEF Mark
  <2> QED
    BY <1>2, <1>6, <2>1 DEF PdoFields
<1>8. CASE UnplugDrain(c)
  <2>1. pdo'[p] = pdo[p] \/ pdo'[p] = SetState(pdo[p], "PNP_DEVICE_REMOVED")
    BY <1>8 DEF UnplugDrain
  <2>2. CASE pdo'[p] = SetState(pdo[p], "PNP_DEVICE_REMOVED")
    <3>1. /\ SetState(pdo[p], "PNP_DEVICE_REMOVED").state = "PNP_DEVICE_REMOVED"
          /\ SetState(pdo[p], "PNP_DEVICE_REMOVED").life = pdo[p].life
      BY <1>2 DEF SetState, PdoFields
    <3> QED
      BY <1>6, <2>2, <3>1
  <2> QED
    BY <1>6, <2>1, <2>2
<1>9. CASE CleanupForget(c)
  <2>1. pdo'[p] = pdo[p] \/ pdo'[p] = [pdo[p] EXCEPT !.fo = NULL]
    BY <1>3, <1>9 DEF CleanupForget
  <2> QED
    BY <1>2, <1>6, <2>1 DEF PdoFields
<1>10. CASE PlugClaim(c)
  <2>1. \/ pdo'[p] = pdo[p]
        \/ pdo[p].life = "none" /\ pdo'[p] = [pdo[p] EXCEPT !.life = "made"]
    BY <1>3, <1>10 DEF PlugClaim
  <2>2. CASE pdo[p].life = "none" /\ pdo'[p] = [pdo[p] EXCEPT !.life = "made"]
    <3>1. pdo'[p].life = "made" /\ node[p] = "none"
      BY <1>2, <1>4, <2>2 DEF PdoFields, Restorable
    <3> QED
      BY <3>1 DEF Restorable
  <2> QED
    BY <1>4, <2>1, <2>2
<1>11. CASE PlugInsert(c)
  <2>1. \/ pdo'[p] = pdo[p]
        \/ /\ pdo[p].life = "made"
           /\ pdo'[p].life = "there" /\ pdo'[p].state = "NotStarted"
    BY <1>3, <1>11 DEF PlugInsert, PnpInv, HandleInv, Plugging, Inserting
  <2>2. CASE pdo[p].life = "made" /\ pdo'[p].life = "there" /\ pdo'[p].state = "NotStarted"
    <3>1. node[p] = "none"
      BY <1>4, <2>2 DEF Restorable
    <3> QED
      BY <2>2, <3>1 DEF Restorable
  <2> QED
    BY <1>4, <2>1, <2>2
<1> QED
  BY <1>5, <1>7, <1>8, <1>9, <1>10, <1>11 DEF Call, CallerRuns, Unplug, Cleanup, CleanupClear,
     CleanupUnplug, PlugCheck

\* Every step keeps what there is to return to.
LEMMA RestoreAlways == BusSpec => []RestoreInv
<1>1. BusInit => RestoreInv
  BY DEF BusInit, NoPdo, RestoreInv, BusRestorable, Restorable
<1>2. PnpInv /\ RestoreInv /\ [BusNext]_busVars => RestoreInv'
  <2> SUFFICES ASSUME PnpInv, RestoreInv, [BusNext]_busVars PROVE RestoreInv'
    OBVIOUS
  <2>1. CASE UNCHANGED busVars \/ Crash
    BY <2>1 DEF busVars, Crash, RestoreInv, BusRestorable
  <2> QED
    BY <2>1, DeviceRestores, BusRestores, CallsRestore DEF BusNext
<1> QED
  BY <1>1, <1>2, PnpAlways, PTL DEF BusSpec

\* A cancelled query restores the state before it (RESTORE_PREVIOUS_PNP_STATE): the bus is
\* started again, as the driver asserts, and so is a device, unless it was unplugged.
THEOREM CancelsRestore == BusSpec => CancelRestores
<1>1. PnpInv /\ RestoreInv /\ RestoreInv' =>
        [ /\ FdoCancelStop => fdo'.state = "Started"
          /\ \A p \in Pdos : PdoCancelStop(p) \/ PdoCancelRemove(p) =>
               pdo'[p].state \in {"Started", "PNP_DEVICE_REMOVED"} ]_busVars
  <2> SUFFICES ASSUME PnpInv, RestoreInv, RestoreInv'
               PROVE  /\ FdoCancelStop => fdo'.state = "Started"
                      /\ \A p \in Pdos : PdoCancelStop(p) \/ PdoCancelRemove(p) =>
                           pdo'[p].state \in {"Started", "PNP_DEVICE_REMOVED"}
    OBVIOUS
  <2>1. FdoCancelStop => fdo'.state = "Started"
    BY DEF FdoCancelStop, BusMoves, RestoreInv, BusRestorable
  <2>2. ASSUME NEW p \in Pdos, PdoCancelStop(p) \/ PdoCancelRemove(p)
        PROVE  pdo'[p].state \in {"Started", "PNP_DEVICE_REMOVED"}
    <3>1. node'[p] = "started" /\ pdo[p].life = "there"
      BY <2>2 DEF PdoCancelStop, PdoCancelRemove, Moves, There, RestoreInv
    <3>2. \E s : pdo'[p] = RestoreFrom(pdo[p], s)
      BY <2>2 DEF PdoCancelStop, PdoCancelRemove, PnpInv, HandleInv, PdoShape
    <3>3. pdo'[p].life = "there"
      BY <3>1, <3>2, MacrosDo DEF PnpInv, HandleInv, PdoShape
    <3> QED
      BY <3>1, <3>3 DEF RestoreInv, Restorable, Running
  <2> QED
    BY <2>1, <2>2
<1> QED
  BY <1>1, PnpAlways, RestoreAlways, PTL DEF CancelRestores


==============================================================================
