----------------------------- MODULE MCMatching -----------------------------
(***************************************************************************)
(* Small instances of Matching: two leads of one person, of which the      *)
(* first carries a tag; two ads of two accounts, with one name between     *)
(* them or a name each.                                                    *)
(***************************************************************************)
EXTENDS Matching, TLC

CONSTANTS l1, l2, c1, a1, a2, acc1, acc2, x1, x2, n1, n2, d1, d2

MCAccountOf  == [a \in Ads |-> IF a = a1 THEN acc1 ELSE acc2]
MCExternalId == [a \in Ads |-> IF a = a1 THEN x1 ELSE x2]
MCSharedName == [a \in Ads |-> n1]
MCOwnNames   == [a \in Ads |-> IF a = a1 THEN n1 ELSE n2]
MCLeadDay    == [l \in Leads |-> d1]

Shows(c, t, lg) == [contact |-> c, utm |-> t, leadgen |-> lg]

\* l1 carries the name of an ad in utm_content, l2 no signal but the person.
MCNameTagged == (l1 :> {Shows(c1, n1, FALSE)}) @@ (l2 :> {Shows(c1, NONE, FALSE)})

\* The CRM user corrects the tag of l1 to an ad id and the phone number of l2, and l1 turns out to come from a Meta lead form.
MCLeadForm == (l1 :> {Shows(c1, n1, FALSE), Shows(c1, x2, FALSE), Shows(c1, NONE, TRUE)})
                @@ (l2 :> {Shows(c1, NONE, FALSE), Shows(NONE, NONE, FALSE)})

MCNoSeed     == (l1 :> NONE) @@ (l2 :> NONE)
MCSeedL1     == (l1 :> x1) @@ (l2 :> NONE)
=============================================================================
