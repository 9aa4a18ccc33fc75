---------------------------- MODULE MCVbusForward ----------------------------
(***************************************************************************)
(* The instance of VbusForward that TLC checks: an interrupt read, a class *)
(* request that writes, a request the driver cannot encode, and an         *)
(* isochronous read of 8 packets.  What the application sends fits one of  *)
(* them.  (That the server gives up for a request is left to ServerLeaves, *)
(* which may come at any time.)                                            *)
(***************************************************************************)
EXTENDS VbusForward

InterruptRead ==
  [fn |-> "bulk", type |-> "interrupt", pipe_in |-> TRUE, flag_in |-> TRUE,
   length |-> 8, packets |-> 0, known |-> TRUE, mapped |-> TRUE, offsets |-> "from_0",
   small |-> TRUE]

IsoRead == [InterruptRead EXCEPT !.fn = "iso", !.type = "iso", !.packets = 8]

MCUrbs ==
  {InterruptRead,
   [InterruptRead EXCEPT !.fn = "class_vendor", !.type = "control", !.flag_in = FALSE],
   [InterruptRead EXCEPT !.fn = "vendor_other"],
   IsoRead}

DeviceRead == [in |-> TRUE, iso |-> FALSE, packets |-> 0, actual |-> 8, unset |-> 0]

MCDeviceUrbs ==
  {DeviceRead,
   [DeviceRead EXCEPT !.in = FALSE],
   [DeviceRead EXCEPT !.iso = TRUE, !.packets = 8]}

\* The run has URBs of the kind that StreamInFrame and GoesOnInOrder are about.
ASSUME MCManageable == Encodables # {} /\ Manageable

\* TLC's integers end where the code's words do, so its SWAP is a quarter of the real
\* one.  What matters of it is kept: as an int, the length of 8 packets is the least.
ASSUME MCSwap == 8 * ISO_DESC * SWAP = HalfWord /\ ISO_DESC * SWAP > BIG_SIZE
=============================================================================
