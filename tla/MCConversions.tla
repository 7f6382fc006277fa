--------------------------- MODULE MCConversions ---------------------------
(***************************************************************************)
(* Small instances of Conversions: one person with one or two leads (the   *)
(* second later than the first) and one or two deals.  Two scenes: in one  *)
(* generates overlap beside single pushes, in the other pushes overlap     *)
(* beside single generates about the first of the leads.                   *)
(***************************************************************************)
EXTENDS Conversions, TLC

CONSTANTS l1, c1

VARIABLE scene

MCContactOf == [x \in Leads \cup Deals |-> c1]
MCLeadOrder == [l \in Leads |-> IF l = l1 THEN 1 ELSE 2]

\* Requests to generate are interchangeable, and requests to push; the properties
\* are about safety.
MCSymmetry == Permutations(Generators) \cup Permutations(Pushers)

Generating == {g \in Generators : gpc[g] # "idle"}
Pushing == {p \in Pushers : ppc[p] # "idle"}

ConversionsSpec ==
  /\ scene \in {"generates", "pushes"}
  /\ Init
  /\ [][/\ Next
        /\ UNCHANGED scene
        /\ scene = "generates" => Cardinality(Pushing') <= 1
        /\ scene = "pushes" => /\ Cardinality(Generating') <= 1
                               /\ \A l \in Leads \ {l1} : attrib'[l] = NONE]_<<scene, vars>>
=============================================================================
