----------------------------- MODULE MCIdentity -----------------------------
(***************************************************************************)
(* A person known by two phones and an email, first by one of them and     *)
(* later by two at once, and a stranger who shares none of them; one value *)
(* is unusable and one phone is written in two ways.                       *)
(***************************************************************************)
EXTENDS Identity, TLC

CONSTANTS p, q, e, s, c1, c2, c3, r1, r2

Raw(phones, emails) == [phones |-> phones, emails |-> emails]

MCRaws ==
  { Raw(<<"p">>, <<>>),
    Raw(<<"bad", "q">>, <<>>),
    Raw(<<"p", "p again">>, <<"e">>),
    Raw(<<"q">>, <<"e">>),
    Raw(<<"s">>, <<"bad">>) }

MCNormal == ("p" :> p) @@ ("p again" :> p) @@ ("q" :> q) @@ ("e" :> e) @@ ("s" :> s) @@ ("bad" :> NONE)

MCSymmetry == Permutations(Contacts) \cup Permutations(Resolvers)
=============================================================================
