-------------------------- MODULE MCLegacyMemtest --------------------------
(* The target, its twin at the same bus and device in another PCI domain, *)
(* and a CPU renderer: every view of them, each shown by either extension, *)
(* by both (two Vulkan drivers) or by none.                                *)
EXTENDS LegacyMemtest

MCDevices == {"target", "twin", "llvmpipe"}
MCCpus == {"llvmpipe"}
MCTarget == "target"
MCKeyOf == [d \in MCDevices |-> IF d = "llvmpipe" THEN "00:00" ELSE "03:00"]
=============================================================================
