--------------------------- MODULE MatchDecision ---------------------------
(***************************************************************************)
(* The pure decision of the matching engine: which candidate edge from a   *)
(* lead to an ad wins, with what confidence, and whether it is counted at  *)
(* once or parked for a human (packages/core/src/matching.ts, enums.ts).   *)
(* Confidences are percentages.                                            *)
(***************************************************************************)
EXTENDS Naturals

CONSTANT NONE   \* SQL NULL / an empty field

Methods == {"LEADGEN_ID", "FBCLID", "PHONE", "EMAIL", "UTM", "FUZZY", "MANUAL"}

Statuses == {"UNMATCHED", "REVIEW", "MATCHED"}

\* PRIORITY: most to least reliable.
Rank(m) == CASE m = "LEADGEN_ID" -> 1
             [] m = "FBCLID"     -> 2
             [] m = "PHONE"      -> 3
             [] m = "EMAIL"      -> 4
             [] m = "UTM"        -> 5
             [] m = "FUZZY"      -> 6
             [] m = "MANUAL"     -> 7

\* MATCH_CONFIDENCE: what a method is worth unless a candidate says otherwise.
DefaultConfidence(m) == CASE m \in {"LEADGEN_ID", "FBCLID", "MANUAL"} -> 100
                          [] m = "PHONE" -> 95
                          [] m = "EMAIL" -> 90
                          [] m = "UTM"   -> 50
                          [] m = "FUZZY" -> 35

REVIEW_THRESHOLD == 70

StatusFor(confidence) ==
  IF confidence >= REVIEW_THRESHOLD THEN "MATCHED" ELSE "REVIEW"

Undecided == [ad |-> NONE, method |-> NONE, confidence |-> 0, status |-> "UNMATCHED"]

\* Mutant: the status of the winner from its method's default confidence.
DecideMatchByDefault(candidates) ==
  IF candidates = {}
  THEN Undecided
  ELSE LET best == CHOOSE c \in candidates :
                     \A d \in candidates : Rank(c.method) <= Rank(d.method)
       IN  [ad |-> best.ad, method |-> best.method, confidence |-> best.confidence,
            status |-> StatusFor(DefaultConfidence(best.method))]

\* decideMatch.  The engine offers at most one candidate per method, so the
\* stable sort of the code has a unique first element.
DecideMatch(candidates) ==
  IF candidates = {}
  THEN Undecided
  ELSE LET best == CHOOSE c \in candidates :
                     \A d \in candidates : Rank(c.method) <= Rank(d.method)
       IN  [ad |-> best.ad, method |-> best.method, confidence |-> best.confidence,
            status |-> StatusFor(best.confidence)]
=============================================================================
