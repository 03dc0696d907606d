--------------------------- MODULE AppendOnlyLog ---------------------------
(***************************************************************************)
(* What a signed audit chain promises: records are only ever added at its  *)
(* end, and only ever dropped from its beginning, never down to nothing.   *)
(* Records are numbered in the order they were made.                       *)
(***************************************************************************)
EXTENDS Naturals

CONSTANT Record       \* record numbers, a set of naturals

VARIABLE log          \* the records the chain consists of

Init == log = {}

Append(x) == /\ \A y \in log : y < x
             /\ log' = log \cup {x}

Prune(x) == /\ x \in log
            /\ log' = {y \in log : y >= x}

Next == \E x \in Record : Append(x) \/ Prune(x)

Spec == Init /\ [][Next]_log
=============================================================================
