----------------------------- MODULE MCPosture -----------------------------
(***************************************************************************)
(* Small instances of Posture for TLC; ptrace stands for the hooks that    *)
(* are not armed by default.                                               *)
(***************************************************************************)
EXTENDS Posture, TLC

MCHooks == <<"bpf", "ptrace", "connect">>

MCSymmetry == Permutations(Cgid) \cup Permutations(Conn)

=============================================================================
