----------------------------- MODULE MCMetrics ------------------------------
(***************************************************************************)
(* Two ads in two ad sets of one campaign; two leads, the first of one     *)
(* contact, the second of the same or another; one deal of the first.      *)
(***************************************************************************)
EXTENDS Metrics, TLC

CONSTANTS l1, l2, e1, k1, k2, a1, a2, s1, s2, g1, acc1

MCAdSetOf == (a1 :> s1) @@ (a2 :> s2)
MCCampaignOf == [s \in AdSets |-> g1]
MCAccountOf == [g \in Campaigns |-> acc1]
MCLeadContacts == (l1 :> {k1}) @@ (l2 :> {k1, k2})
MCDealContacts == [d \in Deals |-> {k1}]
MCTagOf == (a1 :> "hook 1") @@ (a2 :> "(untagged)")
MCAmount == [d \in Deals |-> 2]
=============================================================================
