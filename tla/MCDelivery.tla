----------------------------- MODULE MCDelivery -----------------------------
(* Two ISOs; for the first a bundle from before the profiles and its        *)
(* successor with the same packages; for the second a bundle with other     *)
(* packages, as many of them, and another helper.                           *)
EXTENDS Delivery

MCDates == {"d1", "d2"}
MCBuilds == {"old", "new", "next"}
MCDateOf == [old |-> "d1", new |-> "d1", next |-> "d2"]
MCPackagesOf == [old |-> "p1", new |-> "p1", next |-> "p2"]
MCHelperOf == [old |-> "h", new |-> "h", next |-> "h2"]
MCCountOf == [p1 |-> 2, p2 |-> 2]
MCLegacy == {"old"}
MCWanted == [p \in Profiles |-> IF p = "safe-runtime" THEN {"tools"} ELSE {"tools", "driver"}]

MCFaults == {"stop", "bad_copy", "lose"}
MCLose == {"lose"}
MCMaxFaults == 1
MCMaxReleases == 2
MCMaxRuns == 2
MCNoReleases == 0
MCMaxBoots == 1
=============================================================================
