----------------------------- MODULE MCSession -----------------------------
(***************************************************************************)
(* Two users of one browser, each with one token.                          *)
(***************************************************************************)
EXTENDS Session, TLC

CONSTANTS u1, u2, k1, k2

MCOwner == k1 :> u1 @@ k2 :> u2
=============================================================================
