------------------------------- MODULE MCWeb -------------------------------
(***************************************************************************)
(* One connection, a campaign with an ad set and an ad, one stage, and two *)
(* leads with one run of the engine beside them.  The review page is       *)
(* followed up to the first of its requests that fails, after which its    *)
(* property demands nothing, and no run takes a lead back out of the queue *)
(* as new.                                                                 *)
(***************************************************************************)
EXTENDS WebPages, TLC

CONSTANTS r1, c1, s1, a1, l1, l2

MCProviderOf == r1 :> "AMOCRM"
MCParent == c1 :> NONE @@ s1 :> c1 @@ a1 :> s1

ReviewBound == ~lost /\ \A l \in Leads : lead'[l] = "new" => lead[l] = "new"

MCWebSpec ==
  /\ WebInit /\ [][WebNext /\ (scene = "review" => ReviewBound)]_webVars
  /\ scene = "connections" => PollsFire
=============================================================================
