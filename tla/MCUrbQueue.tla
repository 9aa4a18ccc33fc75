---------------------------- MODULE MCUrbQueue ----------------------------
(***************************************************************************)
(* The instance of UrbQueue that TLC checks.  Two URBs, two reads that may *)
(* overlap and one writer meet in every section of the queue, and a peer   *)
(* may answer 0, the number of a URB that was not sent.  No number wraps   *)
(* (UrbUnplug has a small SeqLimit).                                       *)
(***************************************************************************)
EXTENDS UrbQueue

MCUrbs == {"u1", "u2"}
MCReads == {"r1", "r2"}
MCWriters == {"w1"}

=============================================================================
