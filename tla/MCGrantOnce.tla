---------------------------- MODULE MCGrantOnce ----------------------------
(***************************************************************************)
(* Small instances of GrantOnce for TLC: two agents that take turns on one *)
(* inode.                                                                  *)
(***************************************************************************)
EXTENDS GrantOnce, TLC

MCSymmetry == Permutations(Agent) \cup Permutations(Hook) \cup Permutations(Thread)
                \cup Permutations(Req)

=============================================================================
