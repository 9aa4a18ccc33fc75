---------------------------- MODULE UrbService ----------------------------
(***************************************************************************)
(* What the virtual bus promises a USB function driver and the user-mode   *)
(* tool about a URB, without queue, locks or threads: it is handed to the  *)
(* tool at most once, finished exactly once, succeeds only if the tool was *)
(* given it, is reported cancelled only on request, and a request to       *)
(* cancel it is followed by its end.                                       *)
(***************************************************************************)
CONSTANTS Urbs, Reads

VARIABLES
  phase,      \* [Urbs -> {"idle", "pending", "finished"}]
  requested,  \* the URBs whose cancellation was requested
  handed,     \* [Urbs -> SUBSET Reads], the reads that returned the URB
  result      \* [Urbs -> status], the status of a finished URB

serviceVars == <<phase, requested, handed, result>>

ServiceInit ==
  /\ phase = [u \in Urbs |-> "idle"]
  /\ requested = {}
  /\ handed = [u \in Urbs |-> {}]
  /\ result = [u \in Urbs |-> "PENDING"]

Accept(u) ==
  /\ phase[u] = "idle"
  /\ phase' = [phase EXCEPT ![u] = "pending"]
  /\ UNCHANGED <<requested, handed, result>>

RequestCancel(u) ==
  /\ phase[u] = "pending"
  /\ requested' = requested \cup {u}
  /\ UNCHANGED <<phase, handed, result>>

\* A read may return after the URB it carries was cancelled.
Hand(u, r) ==
  /\ phase[u] # "idle"
  /\ handed[u] = {}
  /\ handed' = [handed EXCEPT ![u] = {r}]
  /\ UNCHANGED <<phase, requested, result>>

Finish(u) ==
  /\ phase[u] = "pending"
  /\ phase' = [phase EXCEPT ![u] = "finished"]
  /\ \E st \in {"SUCCESS", "CANCELLED", "IMMEDIATE", "INVALID_PARAMETER",
                "NOT_CONNECTED", "INSUFFICIENT_RESOURCES"} :
       /\ st = "SUCCESS" => handed[u] # {}
       /\ st = "CANCELLED" => u \in requested
       /\ result' = [result EXCEPT ![u] = st]
  /\ UNCHANGED <<requested, handed>>

ServiceNext ==
  \E u \in Urbs : \/ Accept(u) \/ RequestCancel(u) \/ Finish(u)
                  \/ \E r \in Reads : Hand(u, r)

ServiceSpec ==
  /\ ServiceInit /\ [][ServiceNext]_serviceVars
  /\ \A u \in Urbs : WF_serviceVars(u \in requested /\ Finish(u))

=============================================================================
