--------------------------- MODULE MCApprovalGate ---------------------------
(***************************************************************************)
(* Small instances of ApprovalGate: three requests of two agents, caps low *)
(* enough that both flood limits are hit.                                  *)
(***************************************************************************)
EXTENDS ApprovalGate

CONSTANTS r1, r2, r3, g1, g2

MCCgOf == [r \in Req |-> IF r = r3 THEN g2 ELSE g1]

=============================================================================
