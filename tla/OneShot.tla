------------------------------ MODULE OneShot ------------------------------
(***************************************************************************)
(* What a one-time login session promises: it is opened once, approved by  *)
(* one person at most, handed to the browser at most once and as that      *)
(* person, and once it is gone it stays gone.                              *)
(***************************************************************************)
CONSTANTS People, NOBODY

VARIABLES
  stage,  \* "none" | "pending" | "approved" | "delivered" | "gone"
  by      \* who approved

Init == stage = "none" /\ by = NOBODY

Open == stage = "none" /\ stage' = "pending" /\ by' = by

Approve(a) == stage = "pending" /\ stage' = "approved" /\ by' = a

Deliver == stage = "approved" /\ stage' = "delivered" /\ by' = by

Drop == stage \in {"none", "pending", "approved"} /\ stage' = "gone" /\ by' = NOBODY

Next == Open \/ (\E a \in People : Approve(a)) \/ Deliver \/ Drop

Spec == Init /\ [][Next]_<<stage, by>>
=============================================================================
