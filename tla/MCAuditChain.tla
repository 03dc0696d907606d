---------------------------- MODULE MCAuditChain ----------------------------
(***************************************************************************)
(* Small instances of AuditChain for TLC: the configurations choose after  *)
(* how many records the live file rotates and which second faults happen.  *)
(***************************************************************************)
EXTENDS AuditChain

=============================================================================
