------------------------------ MODULE MCPorts -------------------------------
(***************************************************************************)
(* Small instances of the ports.                                           *)
(*   threads   FreeRTOS: three threads of one address space take turns     *)
(*   images    FreeRTOS: a slot is reused, forks, and execs into a second  *)
(*             region                                                      *)
(*   domains   Zephyr: a region is leased twice                            *)
(*   devices   NuttX: two threads map a device range, again when refused   *)
(*   switches  NuttX: two address spaces on one MPU                        *)
(*   view      the coordinator's own regions                               *)
(***************************************************************************)
EXTENDS Ports

Dev(addr, attrs) == [addr |-> addr, attrs |-> attrs]

Scene(p, admit, leases, text, shares, devs, base) ==
    [port |-> p,
     bound |-> [admit |-> [s \in Slot |-> admit[s + 1]], leases |-> [r \in Region |-> leases[r + 1]],
                texts |-> {text}, shares |-> shares, devs |-> devs, maps |-> 1, base |-> base]]

threads == Scene("freertos", <<1, 1, 1>>, <<1, 0>>, FALSE, {TRUE}, {}, 2)
images == Scene("freertos", <<2, 1, 0>>, <<1, 1>>, TRUE, {FALSE}, {}, 1)
domains == Scene("zephyr", <<2, 1, 0>>, <<2, 0>>, TRUE, {TRUE}, {}, 1)
devices == Scene("nuttx", <<1, 1, 0>>, <<1, 0>>, FALSE, {TRUE}, {Dev(1, 0), Dev(1, 1)}, 1)
switches == Scene("nuttx", <<1, 1, 0>>, <<1, 1>>, FALSE, {}, {}, 2)
view == Scene("view", <<0, 0, 0>>, <<0, 0>>, FALSE, {}, {}, 1)

MCScenarios == {threads, images, domains, devices, switches, view}
=============================================================================
