------------------------------ MODULE GateSpec ------------------------------
(***************************************************************************)
(* What the approval gate promises the executors behind it: a request is   *)
(* granted or refused at most once and never changes its mind; one that a  *)
(* broker restart drops is never granted later.                            *)
(***************************************************************************)
CONSTANT Req          \* gated requests

VARIABLE status       \* of each request: idle, pending, granted, refused, dropped

Init == status = [r \in Req |-> "idle"]

Ask(r)    == status[r] = "idle" /\ status' = [status EXCEPT ![r] = "pending"]
Busy(r)   == status[r] = "idle" /\ status' = [status EXCEPT ![r] = "refused"]
Grant(r)  == status[r] = "pending" /\ status' = [status EXCEPT ![r] = "granted"]
Refuse(r) == status[r] = "pending" /\ status' = [status EXCEPT ![r] = "refused"]
Drop == status' = [r \in Req |-> IF status[r] = "pending" THEN "dropped" ELSE status[r]]

Next == (\E r \in Req : Ask(r) \/ Busy(r) \/ Grant(r) \/ Refuse(r)) \/ Drop

Spec == Init /\ [][Next]_status
=============================================================================
