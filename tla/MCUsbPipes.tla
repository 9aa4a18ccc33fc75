----------------------------- MODULE MCUsbPipes -----------------------------
(* A mouse as the server's build describes it, and devices with settings to choose from. *)
EXTENDS UsbPipes

Config(n) == [kind |-> "config", interfaces |-> n]
Iface(n, a, e) == [kind |-> "interface", num |-> n, alt |-> a, endpoints |-> e]
Ep(dir, addr, type, size) ==
  [kind |-> "endpoint", in |-> dir = "in", addr |-> addr, type |-> type, size |-> size]
Class == [kind |-> "other"]

mouse == [high |-> FALSE,
          desc |-> <<Config(1), Iface(0, 0, 1), Class, Ep("in", 1, "interrupt", 4)>>]

\* Two interfaces with settings of different numbers and types of endpoints.
camera ==
  [high |-> TRUE,
   desc |-> <<Config(2), Iface(0, 0, 1), Class, Ep("in", 3, "interrupt", 16),
              Iface(1, 0, 0),
              Iface(1, 1, 1), Class, Ep("in", 1, "iso", 2048 + 1024),
              Iface(1, 2, 2), Ep("in", 1, "bulk", 512), Class, Ep("out", 2, "iso", 512)>>]

\* Settings of both interfaces.
disk ==
  [high |-> FALSE,
   desc |-> <<Config(2), Iface(0, 0, 2), Ep("in", 1, "bulk", 64), Ep("out", 2, "bulk", 64),
              Iface(0, 1, 1), Ep("out", 1, "bulk", 64),
              Iface(1, 0, 1), Ep("in", 4, "interrupt", 8),
              Iface(1, 1, 1), Ep("out", 4, "iso", 128)>>]

MCDevices == {mouse, camera, disk}
=============================================================================
