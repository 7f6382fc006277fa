------------------------------- MODULE Ledger -------------------------------
(***************************************************************************)
(* What a ledger of deliveries promises: an entry is opened once, may be   *)
(* delivered while it is open, gets one verdict, and says "accepted" only  *)
(* of what was delivered.                                                  *)
(***************************************************************************)
CONSTANT Entries

VARIABLES
  entry,     \* [Entries -> "none" | "open" | "accepted" | "rejected"]
  delivered  \* entries the other side has

Init ==
  /\ entry = [e \in Entries |-> "none"]
  /\ delivered = {}

Open(e) ==
  /\ entry[e] = "none"
  /\ entry' = [entry EXCEPT ![e] = "open"]
  /\ delivered' = delivered

Deliver(e) ==
  /\ entry[e] = "open"
  /\ delivered' = delivered \cup {e}
  /\ entry' = entry

Settle(e) ==
  /\ entry[e] = "open"
  /\ \/ /\ e \in delivered
        /\ entry' = [entry EXCEPT ![e] = "accepted"]
     \/ entry' = [entry EXCEPT ![e] = "rejected"]
  /\ delivered' = delivered

Next == \E e \in Entries : Open(e) \/ Deliver(e) \/ Settle(e)

Spec == Init /\ [][Next]_<<entry, delivered>>
=============================================================================
