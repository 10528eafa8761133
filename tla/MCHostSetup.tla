----------------------------- MODULE MCHostSetup -----------------------------
(* HostSetup for TLC: ports of one digit up to 6, three releases. *)
EXTENDS HostSetup

MCDefaultPort == [m \in Modes |-> IF m = "proxy" THEN <<3>> ELSE <<5>>]

MCReleases ==
  {[version |-> 1, pre |-> FALSE, helper |-> TRUE],
   [version |-> 2, pre |-> FALSE, helper |-> FALSE],
   [version |-> 3, pre |-> TRUE, helper |-> TRUE]}
=============================================================================
