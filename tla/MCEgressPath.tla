----------------------------- MODULE MCEgressPath -----------------------------
(***************************************************************************)
(* A small instance of EgressPath for TLC: a flow through the mux, and a   *)
(* silent one that competes for the slot of the leg or of the proxy.       *)
(***************************************************************************)
EXTENDS EgressPath

CONSTANTS g1, x1, plain, marked, clear, other

MCHost == {plain, marked, clear, other}
MCMode == [host \in MCHost |-> IF host \in {marked, clear} THEN "inspect" ELSE "passthrough"]

\* One flow that talks, through the mux or not; two that compete for a slot.
One(f, guest, n) == [flows |-> {f}, guest |-> guest, send |-> [x \in Flow |-> n]]
Two(guest)       == [flows |-> Flow, guest |-> guest, send |-> [f \in Flow |-> 0]]
MCPlans == {One(g1, {g1}, 1), One(x1, {}, 2), Two({g1}), Two({g1, x1})}

\* A public address, and one of the shared address space (CGNAT).
MCResolved == {IPv4(<<93, 184, 216, 34>>), IPv4(<<100, 64, 0, 1>>)}

=============================================================================
