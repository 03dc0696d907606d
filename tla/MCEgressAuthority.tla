-------------------------- MODULE MCEgressAuthority --------------------------
(***************************************************************************)
(* Small instances of EgressAuthority for TLC.                             *)
(***************************************************************************)
EXTENDS EgressAuthority, TLC

CONSTANTS a1, a2, pub, priv

\* a1 may start with one class; a second top-level agent starts with none.
MCLaunch == [i \in Top |-> IF i = a1 THEN {pub} ELSE {}]

\* Connections and inodes are interchangeable.  Only used with safety properties.
MCSymmetry == Permutations(Conn) \cup Permutations(Cgid)

=============================================================================
