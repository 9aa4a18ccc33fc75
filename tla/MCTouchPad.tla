----------------------------- MODULE MCTouchPad -----------------------------
(***************************************************************************)
(* TouchPad from two states: nothing is exported, or an earlier connection *)
(* has had the touch pad exported, which lets the checked connections be   *)
(* one after the other, or at once, clients of the device.                 *)
(***************************************************************************)
EXTENDS TouchPad

\* The first connection sees the enumeration and events, the second one its traces.
MCMaxSeq == <<3, 1>>

MCInit ==
  \/ Init
  \/ /\ listening = TRUE
     /\ pad_sock = "open"
     /\ pc = "process_cmd"
     /\ edev = [exported |-> TRUE, status |-> "AVAILABLE", client_fd |-> NULL,
                processing_urbs |-> NULL]
     /\ fate = "running" /\ blocked = Loop
     /\ recv_seqnum = 0 /\ to_dev = <<>> /\ from_dev = <<>>
     /\ conn = [c \in Conns |-> NewConn]
     /\ seqnum = 0 /\ re_seqnum = 0 /\ events = 0
     /\ irregular = {}

MCSpec == MCInit /\ [][Next]_vars /\ Fairness
=============================================================================
