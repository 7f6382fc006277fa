--------------------------- MODULE MatchingProofs ---------------------------
(***************************************************************************)
(* Proofs about Matching, for every set of leads, ads, contacts, runs and  *)
(* humans.                                                                 *)
(***************************************************************************)
EXTENDS Matching, TLAPS

Candidates == [method : Methods, ad : Ads, confidence : 0..100]

-----------------------------------------------------------------------------
(* decideMatch.                                                            *)

LEMMA RankIsNat == \A m \in Methods : Rank(m) \in 1..7
  BY DEF Rank, Methods

LEMMA DefaultIsPercent == \A m \in Methods : DefaultConfidence(m) \in 0..100
  BY DEF DefaultConfidence, Methods

\* Among candidates there is always one of the most reliable method.
LEMMA BestExists ==
  ASSUME NEW C \in SUBSET Candidates, C # {}
  PROVE  \E c \in C : \A d \in C : Rank(c.method) <= Rank(d.method)
<1> DEFINE Has(n) == \E c \in C : Rank(c.method) = n
<1>1. \A c \in C : Rank(c.method) \in 1..7
  BY RankIsNat DEF Candidates
<1>2. \E n \in 1..7 : Has(n) /\ \A k \in 1..7 : Has(k) => n <= k
  <2>1. PICK c \in C : TRUE
    OBVIOUS
  <2>2. Has(1) \/ Has(2) \/ Has(3) \/ Has(4) \/ Has(5) \/ Has(6) \/ Has(7)
    BY <2>1, <1>1
  <2> HIDE DEF Has
  <2> QED
    BY <2>2
<1>3. PICK n \in 1..7 : Has(n) /\ \A k \in 1..7 : Has(k) => n <= k
  BY <1>2
<1> QED
  BY <1>1, <1>3

\* A decision is one of the candidates with the status its confidence earns, and
\* it is empty only when there are no candidates.
LEMMA DecideMatchPicks ==
  ASSUME NEW C \in SUBSET Candidates, C # {}
  PROVE  \E c \in C : DecideMatch(C) = [ad |-> c.ad, method |-> c.method,
                                        confidence |-> c.confidence,
                                        status |-> StatusFor(c.confidence)]
<1> DEFINE best == CHOOSE c \in C : \A d \in C : Rank(c.method) <= Rank(d.method)
<1>1. best \in C
  BY BestExists
<1>2. DecideMatch(C) = [ad |-> best.ad, method |-> best.method,
                        confidence |-> best.confidence, status |-> StatusFor(best.confidence)]
  BY DEF DecideMatch
<1> HIDE DEF best
<1> QED
  BY <1>1, <1>2

\* What every engine decision satisfies.
Decided(e) ==
  /\ e \in Edge
  /\ EdgeCoherent(e)
  /\ (e.ad = NONE <=> e.method = NONE)

LEMMA UndecidedDecided == Decided(Undecided)
  BY MatchingAssumption DEF Decided, Undecided, Edge, EdgeCoherent, Statuses

LEMMA DecideMatchDecided ==
  ASSUME NEW C \in SUBSET Candidates
  PROVE  Decided(DecideMatch(C))
<1>1. CASE C = {}
  BY <1>1, UndecidedDecided DEF DecideMatch
<1>2. CASE C # {}
  <2>1. PICK c \in C : DecideMatch(C) = [ad |-> c.ad, method |-> c.method,
                                         confidence |-> c.confidence,
                                         status |-> StatusFor(c.confidence)]
    BY <1>2, DecideMatchPicks
  <2>2. c.ad # NONE /\ c.method # NONE
    BY MatchingAssumption DEF Candidates
  <2> QED
    BY <2>1, <2>2 DEF Decided, Edge, EdgeCoherent, StatusFor, Statuses, Candidates
<1> QED
  BY <1>1, <1>2

-----------------------------------------------------------------------------
(* The engine's reads.                                                     *)

\* The candidates of matchLead are well formed.
LEMMA CandidatesTyped ==
  ASSUME TypeOK, NEW row \in Row
  PROVE  /\ LeadgenCandidates(row) \subseteq Candidates
         /\ SiblingCandidates(row) \subseteq Candidates
         /\ UtmCandidates(row) \subseteq Candidates
<1>1. LeadgenCandidates(row) \subseteq Candidates
  BY DefaultIsPercent DEF LeadgenCandidates, Candidate, Candidates, Row, Edge, Methods
<1>2. SiblingCandidates(row) \subseteq Candidates
  BY DefaultIsPercent
     DEF SiblingCandidates, Siblings, Candidate, Candidates, TypeOK, Row, Edge, Methods
<1>3. UtmCandidates(row) \subseteq Candidates
  <2> DEFINE byId    == {a \in Live : ExternalId[a] = row.utm}
             byName  == {a \in Live : AdName[a] = row.utm}
             winners == SpendWinners(byName, LeadDay[row.id])
             Utm(ads, c) == {Candidate("UTM", a, c) : a \in ads}
  <2>1. byId \subseteq Ads /\ byName \subseteq Ads /\ winners \subseteq Ads
    BY DEF Live, SpendWinners
  <2>2. UtmCandidates(row) \in {{}, Utm(byId, 95), Utm(byName, 90), Utm(winners, 80),
                                Utm(byName, DefaultConfidence("UTM"))}
    BY DEF UtmCandidates
  <2>3. DefaultConfidence("UTM") \in 0..100 /\ "UTM" \in Methods
    BY DefaultIsPercent DEF Methods
  <2> HIDE DEF byId, byName, winners
  <2>4. \A ads \in SUBSET Ads, c \in 0..100 : Utm(ads, c) \subseteq Candidates
    BY <2>3 DEF Candidate, Candidates
  <2>5. {95, 90, 80} \subseteq 0..100
    OBVIOUS
  <2> HIDE DEF Utm
  <2> QED
    BY <2>1, <2>2, <2>3, <2>4, <2>5
<1> QED
  BY <1>1, <1>2, <1>3

LEMMA DecisionsDecided ==
  ASSUME TypeOK, NEW row \in Row, NEW e \in Decisions(row)
  PROVE  Decided(e)
<1>1. PICK p \in OneOf(LeadgenCandidates(row)), q \in OneOf(SiblingCandidates(row)),
           s \in OneOf(UtmCandidates(row)) : e = DecideMatch(p \cup q \cup s)
  BY DEF Decisions
<1>2. p \cup q \cup s \in SUBSET Candidates
  BY CandidatesTyped DEF OneOf
<1> QED
  BY <1>1, <1>2, DecideMatchDecided

-----------------------------------------------------------------------------
(* Types, together with what an engine run holds between its steps.        *)

HandsOK ==
  \A r \in Runners :
    /\ Decided(decision[r])
    /\ (pc[r] \in {"write", "audit"} => inHand[r] \in Leads)
    /\ (pc[r] = "audit" => decision[r].ad \in Ads)

TypeInv == TypeOK /\ HandsOK

LEMMA AuditOfTyped ==
  ASSUME NEW l \in Leads, NEW e \in Edge, Decided(e), e.ad \in Ads, NEW by \in {"engine"} \cup Users
  PROVE  AuditOf(l, e, by) \in Audit
BY MatchingAssumption DEF AuditOf, Audit, Edge, Decided

LEMMA ManualEdgeDecided ==
  ASSUME NEW a \in Ads
  PROVE  ManualEdge(a) \in Edge /\ Decided(ManualEdge(a))
BY MatchingAssumption
   DEF ManualEdge, Decided, Edge, EdgeCoherent, StatusFor, REVIEW_THRESHOLD, Statuses, Methods,
       DefaultConfidence

LEMMA InitTypeInv == Init => TypeInv
<1> SUFFICES ASSUME Init PROVE TypeInv
  OBVIOUS
<1>1. Undecided \in Edge
  BY UndecidedDecided DEF Decided
<1>2. TypeOK
  BY <1>1 DEF Init, TypeOK, Row
<1>3. HandsOK
  BY UndecidedDecided DEF Init, HandsOK
<1> QED
  BY <1>2, <1>3 DEF TypeInv

\* Steps that leave the engine's runs alone.
LEMMA OthersKeepTypeInv ==
  ASSUME TypeInv
  PROVE  /\ \A a \in Ads : AddAd(a) => TypeInv'
         /\ \A a \in Ads, d \in Days : AddSpend(a, d) => TypeInv'
         /\ \A acc \in Accounts : RemoveAccount(acc) => TypeInv'
         /\ \A l \in Leads : UpsertLead(l) => TypeInv'
         /\ \A u \in Users, l \in Leads, a \in Ads : Resolve(u, l, a) => TypeInv'
         /\ \A u \in Users : ResolveAudit(u) => TypeInv'
<1> USE DEF TypeInv
<1>0. UNCHANGED runVars => HandsOK'
  BY DEF HandsOK, runVars
<1>1. ASSUME NEW a \in Ads, AddAd(a) PROVE TypeOK'
  BY <1>1 DEF AddAd, TypeOK, runVars
<1>2. ASSUME NEW a \in Ads, NEW d \in Days, AddSpend(a, d) PROVE TypeOK'
  BY <1>2 DEF AddSpend, TypeOK, runVars
<1>3. ASSUME NEW acc \in Accounts, RemoveAccount(acc) PROVE TypeOK'
  <2>1. \A e \in Edge : [e EXCEPT !.ad = NONE] \in Edge
    BY DEF Edge
  <2>2. \A x \in Row : [x EXCEPT !.edge.ad = NONE] \in Row
    BY <2>1 DEF Row
  <2>3. lead' \in [Leads -> Row]
    BY <1>3, <2>2 DEF RemoveAccount, TypeOK
  <2> QED
    BY <1>3, <2>3 DEF RemoveAccount, TypeOK, runVars
<1>4. ASSUME NEW l \in Leads, UpsertLead(l) PROVE TypeOK'
  <2>1. PICK s \in CrmShows[l] :
          \/ /\ stored' = stored \cup {l}
             /\ \E ad \in IF SeedAds(l) = {} THEN {NONE} ELSE SeedAds(l) :
                  lead' = [lead EXCEPT ![l] =
                             [id |-> l, contact |-> s.contact, utm |-> s.utm,
                              leadgen |-> s.leadgen, edge |-> [Undecided EXCEPT !.ad = ad]]]
          \/ /\ stored' = stored
             /\ lead' = [lead EXCEPT ![l].contact = s.contact, ![l].utm = s.utm,
                                     ![l].leadgen = s.leadgen]
    BY <1>4 DEF UpsertLead
  <2>2. s \in Signals
    BY MatchingAssumption
  <2>3. \A ad \in Ads \cup {NONE} : [Undecided EXCEPT !.ad = ad] \in Edge
    BY UndecidedDecided DEF Decided, Edge, Undecided
  <2>4. SeedAds(l) \subseteq Ads
    BY DEF SeedAds, Live
  <2>5. lead' \in [Leads -> Row] /\ stored' \subseteq Leads
    <3>1. CASE stored' = stored
      BY <2>1, <2>2, <2>3, <2>4 DEF TypeOK, Row, Signals
    <3>2. CASE stored' = stored \cup {l}
      BY <2>1, <2>2, <2>3, <2>4, <3>2 DEF TypeOK, Row, Signals
    <3> QED
      BY <2>1, <3>1, <3>2
  <2> QED
    BY <1>4, <2>5 DEF UpsertLead, TypeOK, runVars
<1>5. ASSUME NEW u \in Users, NEW l \in Leads, NEW a \in Ads, Resolve(u, l, a) PROVE TypeOK'
  <2>1. AuditOf(l, ManualEdge(a), u) \in Audit
    BY ManualEdgeDecided, AuditOfTyped DEF ManualEdge
  <2>2. lead' \in [Leads -> Row]
    BY <1>5, ManualEdgeDecided DEF Resolve, TypeOK, Row
  <2> QED
    BY <1>5, <2>1, <2>2 DEF Resolve, TypeOK, runVars
<1>6. ASSUME NEW u \in Users, ResolveAudit(u) PROVE TypeOK'
  BY <1>6 DEF ResolveAudit, TypeOK, runVars
<1> QED
  BY <1>0, <1>1, <1>2, <1>3, <1>4, <1>5, <1>6
     DEF AddAd, AddSpend, RemoveAccount, UpsertLead, Resolve, ResolveAudit

\* Steps of an engine run.
LEMMA EngineKeepsTypeInv ==
  ASSUME TypeInv, NEW r \in Runners
  PROVE  StartRun(r) \/ EngineStep(r) => TypeInv'
<1> USE DEF TypeInv
<1>1. CASE StartRun(r)
  <2>1. {lead[l] : l \in OpenLeads} \subseteq Row
    BY DEF TypeOK, OpenLeads
  <2> QED
    BY <1>1, <2>1 DEF StartRun, TypeOK, HandsOK, dbVars
<1>2. CASE Decide(r)
  <2>1. PICK row \in todo[r] :
          /\ todo' = [todo EXCEPT ![r] = @ \ {row}]
          /\ inHand' = [inHand EXCEPT ![r] = row.id]
          /\ \E e \in Decisions(row) : decision' = [decision EXCEPT ![r] = e]
    BY <1>2 DEF Decide
  <2>2. PICK e \in Decisions(row) : decision' = [decision EXCEPT ![r] = e]
    BY <2>1
  <2>3. row \in Row
    BY DEF TypeOK
  <2>4. row.id \in Leads
    BY <2>3 DEF Row
  <2>5. Decided(e)
    BY <2>3, DecisionsDecided
  <2>6. TypeOK'
    BY <1>2, <2>1, <2>2, <2>4, <2>5 DEF Decide, TypeOK, Decided, dbVars
  <2>7. HandsOK'
    BY <1>2, <2>1, <2>2, <2>4, <2>5 DEF Decide, TypeOK, HandsOK
  <2> QED
    BY <2>6, <2>7
<1>3. CASE WriteEdge(r)
  <2>1. inHand[r] \in Leads /\ decision[r] \in Edge
    BY <1>3 DEF WriteEdge, HandsOK, TypeOK
  <2>2. lead' \in [Leads -> Row]
    BY <1>3, <2>1 DEF WriteEdge, TypeOK, Row
  <2>3. Undecided \in Edge
    BY UndecidedDecided DEF Decided
  <2>4. TypeOK'
    BY <1>3, <2>2, <2>3 DEF WriteEdge, DropLocals, TypeOK
  <2>5. HandsOK'
    BY <1>3, <2>1, UndecidedDecided DEF WriteEdge, DropLocals, HandsOK, TypeOK, Edge
  <2> QED
    BY <2>4, <2>5
<1>4. CASE WriteFails(r)
  <2>1. TypeOK'
    BY <1>4, UndecidedDecided DEF WriteFails, DropLocals, TypeOK, Decided, dbVars
  <2>2. HandsOK'
    BY <1>4, UndecidedDecided DEF WriteFails, DropLocals, HandsOK, TypeOK
  <2> QED
    BY <2>1, <2>2
<1>5. CASE WriteAudit(r)
  <2>1. AuditOf(inHand[r], decision[r], "engine") \in Audit
    BY <1>5, AuditOfTyped DEF WriteAudit, HandsOK, TypeOK
  <2>2. TypeOK'
    BY <1>5, <2>1, UndecidedDecided DEF WriteAudit, DropLocals, TypeOK, Decided
  <2>3. HandsOK'
    BY <1>5, UndecidedDecided DEF WriteAudit, DropLocals, HandsOK, TypeOK
  <2> QED
    BY <2>2, <2>3
<1>6. CASE EndRun(r)
  BY <1>6 DEF EndRun, TypeOK, HandsOK, dbVars
<1> QED
  BY <1>1, <1>2, <1>3, <1>4, <1>5, <1>6 DEF EngineStep

LEMMA NextTypeInv == TypeInv /\ [Next]_vars => TypeInv'
<1> SUFFICES ASSUME TypeInv, [Next]_vars PROVE TypeInv'
  OBVIOUS
<1>1. CASE Crash
  <2>1. TypeOK'
    BY <1>1, UndecidedDecided DEF Crash, TypeInv, TypeOK, Decided, dbVars
  <2>2. HandsOK'
    BY <1>1, UndecidedDecided DEF Crash, HandsOK
  <2> QED
    BY <2>1, <2>2 DEF TypeInv
<1>2. CASE UNCHANGED vars
  BY <1>2 DEF vars, TypeInv, TypeOK, HandsOK
<1> QED
  BY <1>1, <1>2, OthersKeepTypeInv, EngineKeepsTypeInv DEF Next

\* Every row, snapshot, decision and audit record keeps its type.
THEOREM MatchingTypeOK == Spec => []TypeOK
<1>1. Spec => []TypeInv
  BY InitTypeInv, NextTypeInv, PTL DEF Spec
<1>2. TypeInv => TypeOK
  BY DEF TypeInv
<1> QED
  BY <1>1, <1>2, PTL

-----------------------------------------------------------------------------
(* The columns of a lead agree with one another.                           *)

CoherentInv == TypeInv /\ LeadsCoherent

\* A step that rewrites rows keeps LeadsCoherent if every new edge is coherent
\* and points at an ad that is still there.
LEMMA CoherentRows ==
  ASSUME \A l \in Leads : /\ EdgeCoherent(lead'[l].edge)
                          /\ lead'[l].edge.ad \in Live' \cup {NONE}
  PROVE  LeadsCoherent'
BY DEF LeadsCoherent, EdgeCoherent

LEMMA InitCoherent == Init => LeadsCoherent
  BY UndecidedDecided DEF Init, LeadsCoherent, Decided, Undecided

LEMMA NextCoherent == CoherentInv /\ [Next]_vars => LeadsCoherent'
<1> SUFFICES ASSUME CoherentInv, [Next]_vars PROVE LeadsCoherent'
  OBVIOUS
<1> USE DEF CoherentInv, TypeInv
<1>0. ASSUME UNCHANGED lead, Live \subseteq Live' PROVE LeadsCoherent'
  BY <1>0 DEF LeadsCoherent, EdgeCoherent
<1>1. ASSUME NEW a \in Ads, AddAd(a) PROVE LeadsCoherent'
  BY <1>0, <1>1 DEF AddAd, Live, TypeOK
<1>2. ASSUME NEW acc \in Accounts, RemoveAccount(acc) PROVE LeadsCoherent'
  <2> DEFINE dead == {a \in Live : AccountOf[a] = acc}
  <2>1. Live' = Live \ dead
    BY <1>2 DEF RemoveAccount, Live, TypeOK
  <2>2. \A l \in Leads : lead'[l].edge = IF lead[l].edge.ad \in dead
                                        THEN [lead[l].edge EXCEPT !.ad = NONE]
                                        ELSE lead[l].edge
    <3>1. \A x \in Row : [x EXCEPT !.edge.ad = NONE].edge = [x.edge EXCEPT !.ad = NONE]
      BY DEF Row
    <3>2. lead' = [l \in Leads |-> IF lead[l].edge.ad \in dead
                                   THEN [lead[l] EXCEPT !.edge.ad = NONE]
                                   ELSE lead[l]]
      BY <1>2 DEF RemoveAccount
    <3>3. \A l \in Leads : lead[l] \in Row
      BY DEF TypeOK
    <3> HIDE DEF dead
    <3> QED
      BY <3>1, <3>2, <3>3
  <2>3. \A l \in Leads : lead[l].edge \in Edge
    BY DEF TypeOK, Row
  <2> HIDE DEF dead
  <2>4. \A l \in Leads : EdgeCoherent(lead'[l].edge) /\ lead'[l].edge.ad \in Live' \cup {NONE}
    BY <2>1, <2>2, <2>3 DEF LeadsCoherent, EdgeCoherent, Edge
  <2> QED
    BY <2>4, CoherentRows
<1>3. ASSUME NEW l \in Leads, UpsertLead(l) PROVE LeadsCoherent'
  <2>1. Live' = Live
    BY <1>3 DEF UpsertLead, Live
  <2>2. SeedAds(l) \subseteq Live
    BY DEF SeedAds
  <2>3. \A ad \in Live \cup {NONE} : /\ EdgeCoherent([Undecided EXCEPT !.ad = ad])
                                     /\ [Undecided EXCEPT !.ad = ad].ad = ad
    BY UndecidedDecided DEF EdgeCoherent, Decided, Undecided
  <2>4. \/ lead'[l].edge = lead[l].edge
        \/ \E ad \in Live \cup {NONE} : lead'[l].edge = [Undecided EXCEPT !.ad = ad]
    <3>1. lead \in [Leads -> Row] /\ lead[l] \in Row
      BY DEF TypeOK
    <3>2. PICK s \in CrmShows[l] :
            \/ \E ad \in IF SeedAds(l) = {} THEN {NONE} ELSE SeedAds(l) :
                 lead' = [lead EXCEPT ![l] =
                            [id |-> l, contact |-> s.contact, utm |-> s.utm,
                             leadgen |-> s.leadgen, edge |-> [Undecided EXCEPT !.ad = ad]]]
            \/ lead' = [lead EXCEPT ![l].contact = s.contact, ![l].utm = s.utm,
                                    ![l].leadgen = s.leadgen]
      BY <1>3 DEF UpsertLead
    <3>3. CASE lead' = [lead EXCEPT ![l].contact = s.contact, ![l].utm = s.utm,
                                    ![l].leadgen = s.leadgen]
      BY <3>1, <3>3 DEF Row
    <3>4. ASSUME NEW ad \in IF SeedAds(l) = {} THEN {NONE} ELSE SeedAds(l),
                 lead' = [lead EXCEPT ![l] =
                            [id |-> l, contact |-> s.contact, utm |-> s.utm,
                             leadgen |-> s.leadgen, edge |-> [Undecided EXCEPT !.ad = ad]]]
          PROVE  \E x \in Live \cup {NONE} : lead'[l].edge = [Undecided EXCEPT !.ad = x]
      BY <2>2, <3>1, <3>4
    <3> QED
      BY <3>2, <3>3, <3>4
  <2>5. \A k \in Leads \ {l} : lead'[k] = lead[k]
    BY <1>3 DEF UpsertLead, TypeOK
  <2>6. \A k \in Leads : EdgeCoherent(lead'[k].edge) /\ lead'[k].edge.ad \in Live' \cup {NONE}
    <3>1. ASSUME NEW k \in Leads, k # l
          PROVE  EdgeCoherent(lead'[k].edge) /\ lead'[k].edge.ad \in Live' \cup {NONE}
      BY <2>1, <2>5, <3>1 DEF LeadsCoherent
    <3>2. EdgeCoherent(lead'[l].edge) /\ lead'[l].edge.ad \in Live' \cup {NONE}
      <4>1. CASE lead'[l].edge = lead[l].edge
        BY <2>1, <4>1 DEF LeadsCoherent
      <4>2. CASE \E ad \in Live \cup {NONE} : lead'[l].edge = [Undecided EXCEPT !.ad = ad]
        BY <2>1, <2>3, <4>2
      <4> QED
        BY <2>4, <4>1, <4>2
    <3> QED
      BY <3>1, <3>2
  <2> QED
    BY <2>6, CoherentRows
<1>4. ASSUME NEW r \in Runners, WriteEdge(r) PROVE LeadsCoherent'
  <2>1. Live' = Live
    BY <1>4 DEF WriteEdge, Live
  <2>2. EdgeCoherent(decision[r]) /\ decision[r].ad \in Live \cup {NONE}
    BY <1>4 DEF WriteEdge, HandsOK, Decided
  <2>3. \A l \in Leads : lead'[l].edge \in {lead[l].edge, decision[r]}
    BY <1>4 DEF WriteEdge, TypeOK, Row
  <2>4. \A l \in Leads : EdgeCoherent(lead'[l].edge) /\ lead'[l].edge.ad \in Live' \cup {NONE}
    BY <2>1, <2>2, <2>3 DEF LeadsCoherent
  <2> QED
    BY <2>4, CoherentRows
<1>5. ASSUME NEW u \in Users, NEW l \in Leads, NEW a \in Ads, Resolve(u, l, a)
      PROVE LeadsCoherent'
  <2>1. Live' = Live
    BY <1>5 DEF Resolve, Live
  <2>2. EdgeCoherent(ManualEdge(a)) /\ ManualEdge(a).ad \in Live
    BY <1>5, ManualEdgeDecided DEF Resolve, Decided, ManualEdge
  <2>3. \A k \in Leads : lead'[k].edge \in {lead[k].edge, ManualEdge(a)}
    BY <1>5 DEF Resolve, TypeOK, Row
  <2>4. \A k \in Leads : EdgeCoherent(lead'[k].edge) /\ lead'[k].edge.ad \in Live' \cup {NONE}
    BY <2>1, <2>2, <2>3 DEF LeadsCoherent
  <2> QED
    BY <2>4, CoherentRows
<1>6. ASSUME NEW r \in Runners,
             StartRun(r) \/ Decide(r) \/ WriteFails(r) \/ WriteAudit(r) \/ EndRun(r)
      PROVE  LeadsCoherent'
  BY <1>0, <1>6 DEF StartRun, Decide, WriteFails, WriteAudit, EndRun, dbVars, Live
<1>7. ASSUME \/ \E a \in Ads, d \in Days : AddSpend(a, d)
             \/ \E u \in Users : ResolveAudit(u)
             \/ Crash
             \/ UNCHANGED vars
      PROVE  LeadsCoherent'
  BY <1>0, <1>7 DEF AddSpend, ResolveAudit, Crash, dbVars, vars, Live
<1> QED
  BY <1>1, <1>2, <1>3, <1>4, <1>5, <1>6, <1>7 DEF Next, EngineStep

\* Whatever the interleaving, matchStatus, matchMethod, confidence and adId of a
\* lead are one writer's, and adId is NULL or an ad that exists.
THEOREM MatchingLeadsCoherent == Spec => []LeadsCoherent
<1>1. Init => CoherentInv
  BY InitTypeInv, InitCoherent DEF CoherentInv
<1>2. CoherentInv /\ [Next]_vars => CoherentInv'
  BY NextTypeInv, NextCoherent DEF CoherentInv
<1>3. CoherentInv => LeadsCoherent
  BY DEF CoherentInv
<1> QED
  BY <1>1, <1>2, <1>3, PTL DEF Spec

-----------------------------------------------------------------------------
(* The audit trail, while the process does not die between two writes.     *)

\* No step but a crash loses an audit row that is written or owed.
LEMMA AuditOrOwedGrows ==
  ASSUME TypeInv, [Next]_vars, ~Crashes
  PROVE  AuditOrOwed \subseteq AuditOrOwed'
<1> USE DEF TypeInv
<1> DEFINE Engine(r) == AuditOf(inHand[r], decision[r], "engine")
<1>1. ASSUME UNCHANGED <<audit, owed, pc, inHand, decision>> PROVE AuditOrOwed \subseteq AuditOrOwed'
  BY <1>1 DEF AuditOrOwed, AuditOf
<1>2. ASSUME NEW r \in Runners, pc[r] # "audit", UNCHANGED <<audit, owed>>,
             \A x \in Runners \ {r} : /\ pc'[x] = pc[x]
                                      /\ inHand'[x] = inHand[x]
                                      /\ decision'[x] = decision[x]
      PROVE  AuditOrOwed \subseteq AuditOrOwed'
  BY <1>2 DEF AuditOrOwed, AuditOf
<1>3. ASSUME NEW r \in Runners, WriteAudit(r) PROVE AuditOrOwed \subseteq AuditOrOwed'
  <2>1. audit' = audit \cup {Engine(r)} /\ UNCHANGED owed
    BY <1>3 DEF WriteAudit
  <2>2. \A x \in Runners \ {r} : pc'[x] = pc[x] /\ Engine(x)' = Engine(x)
    BY <1>3 DEF WriteAudit, DropLocals, TypeOK, AuditOf
  <2> HIDE DEF Engine
  <2>3. AuditOrOwed = audit \cup {Engine(x) : x \in {y \in Runners : pc[y] = "audit"}}
                            \cup UNION {owed[u] : u \in Users}
    BY DEF AuditOrOwed, Engine
  <2>4. AuditOrOwed' = audit' \cup {Engine(x)' : x \in {y \in Runners : pc'[y] = "audit"}}
                              \cup UNION {owed'[u] : u \in Users}
    BY DEF AuditOrOwed, Engine
  <2> QED
    BY <2>1, <2>2, <2>3, <2>4
<1>4. ASSUME NEW u \in Users, NEW l \in Leads, NEW a \in Ads, Resolve(u, l, a)
      PROVE  AuditOrOwed \subseteq AuditOrOwed'
  BY <1>4 DEF Resolve, AuditOrOwed, AuditOf, TypeOK, runVars
<1>5. ASSUME NEW u \in Users, ResolveAudit(u) PROVE AuditOrOwed \subseteq AuditOrOwed'
  BY <1>5 DEF ResolveAudit, AuditOrOwed, AuditOf, TypeOK, runVars
<1>6. ASSUME NEW r \in Runners, StartRun(r) \/ Decide(r) \/ WriteEdge(r) \/ WriteFails(r) \/ EndRun(r)
      PROVE  AuditOrOwed \subseteq AuditOrOwed'
  <2>1. pc[r] # "audit" /\ UNCHANGED <<audit, owed>>
    BY <1>6 DEF StartRun, Decide, WriteEdge, WriteFails, EndRun, dbVars
  <2>2. \A x \in Runners \ {r} : /\ pc'[x] = pc[x]
                                 /\ inHand'[x] = inHand[x]
                                 /\ decision'[x] = decision[x]
    BY <1>6 DEF StartRun, Decide, WriteEdge, WriteFails, EndRun, DropLocals, TypeOK
  <2> QED
    BY <1>2, <2>1, <2>2
<1>7. ASSUME \/ \E a \in Ads : AddAd(a)
             \/ \E a \in Ads, d \in Days : AddSpend(a, d)
             \/ \E acc \in Accounts : RemoveAccount(acc)
             \/ \E l \in Leads : UpsertLead(l)
             \/ UNCHANGED vars
      PROVE  AuditOrOwed \subseteq AuditOrOwed'
  BY <1>1, <1>7 DEF AddAd, AddSpend, RemoveAccount, UpsertLead, runVars, vars
<1> QED
  BY <1>3, <1>4, <1>5, <1>6, <1>7 DEF Next, EngineStep, Crash

\* What a step may do to the row of a lead: nothing to its edge, forget the ad,
\* seed a new row, or write an edge whose audit row is owed from then on.
LEMMA EdgeChanges ==
  ASSUME TypeInv, [Next]_vars, NEW l \in Leads, l \in stored'
  PROVE  \/ l \in stored /\ lead'[l].edge = lead[l].edge
         \/ lead'[l].edge.ad = NONE
         \/ /\ lead'[l].edge.method = NONE
            /\ lead'[l].edge.ad \in SeedAds(l)
         \/ /\ \E by \in {"engine"} \cup Users : AuditOf(l, lead'[l].edge, by) \in AuditOrOwed'
            /\ \/ \E r \in Runners : pc[r] = "write" /\ lead'[l].edge = decision[r]
               \/ lead'[l].edge.method = "MANUAL"
<1> USE DEF TypeInv
<1> DEFINE Claim == \/ l \in stored /\ lead'[l].edge = lead[l].edge
                    \/ lead'[l].edge.ad = NONE
                    \/ /\ lead'[l].edge.method = NONE
                       /\ lead'[l].edge.ad \in SeedAds(l)
                    \/ /\ \E by \in {"engine"} \cup Users :
                            AuditOf(l, lead'[l].edge, by) \in AuditOrOwed'
                       /\ \/ \E r \in Runners : pc[r] = "write" /\ lead'[l].edge = decision[r]
                          \/ lead'[l].edge.method = "MANUAL"
<1>1. ASSUME UNCHANGED <<stored, lead>> PROVE Claim
  BY <1>1
<1>2. ASSUME NEW acc \in Accounts, RemoveAccount(acc) PROVE Claim
  <2> DEFINE dead == {a \in Live : AccountOf[a] = acc}
  <2>1. lead' = [k \in Leads |-> IF lead[k].edge.ad \in dead
                                 THEN [lead[k] EXCEPT !.edge.ad = NONE]
                                 ELSE lead[k]]
    BY <1>2 DEF RemoveAccount
  <2>2. \A x \in Row : [x EXCEPT !.edge.ad = NONE].edge.ad = NONE
    BY DEF Row, Edge
  <2>3. lead[l] \in Row /\ stored' = stored
    BY <1>2 DEF TypeOK, RemoveAccount
  <2> HIDE DEF dead
  <2> QED
    BY <2>1, <2>2, <2>3
<1>3. ASSUME NEW k \in Leads, UpsertLead(k) PROVE Claim
  <2>1. lead \in [Leads -> Row] /\ lead[l] \in Row
    BY DEF TypeOK
  <2>2. PICK s \in CrmShows[k] :
          \/ /\ stored' = stored \cup {k}
             /\ \E ad \in IF SeedAds(k) = {} THEN {NONE} ELSE SeedAds(k) :
                  lead' = [lead EXCEPT ![k] =
                             [id |-> k, contact |-> s.contact, utm |-> s.utm,
                              leadgen |-> s.leadgen, edge |-> [Undecided EXCEPT !.ad = ad]]]
          \/ /\ stored' = stored
             /\ lead' = [lead EXCEPT ![k].contact = s.contact, ![k].utm = s.utm,
                                     ![k].leadgen = s.leadgen]
    BY <1>3 DEF UpsertLead
  <2>3. CASE /\ stored' = stored
             /\ lead' = [lead EXCEPT ![k].contact = s.contact, ![k].utm = s.utm,
                                     ![k].leadgen = s.leadgen]
    BY <2>1, <2>3 DEF Row
  <2>4. ASSUME stored' = stored \cup {k},
               NEW ad \in IF SeedAds(k) = {} THEN {NONE} ELSE SeedAds(k),
               lead' = [lead EXCEPT ![k] =
                          [id |-> k, contact |-> s.contact, utm |-> s.utm,
                           leadgen |-> s.leadgen, edge |-> [Undecided EXCEPT !.ad = ad]]]
        PROVE  Claim
    <3>1. CASE l # k
      BY <2>1, <2>4, <3>1
    <3>2. CASE l = k
      <4>1. lead'[l].edge.ad = ad /\ lead'[l].edge.method = NONE
        BY <2>1, <2>4, <3>2 DEF Undecided
      <4> QED
        BY <3>2, <4>1
    <3> QED
      BY <3>1, <3>2
  <2> QED
    BY <2>2, <2>3, <2>4
<1>4. ASSUME NEW r \in Runners, WriteEdge(r) PROVE Claim
  <2>1. stored' = stored /\ pc[r] = "write" /\ lead' = [lead EXCEPT ![inHand[r]].edge = decision[r]]
    BY <1>4 DEF WriteEdge
  <2>2. lead \in [Leads -> Row] /\ lead[l] \in Row
    BY DEF TypeOK
  <2>3. CASE l # inHand[r]
    BY <2>1, <2>2, <2>3
  <2>4. CASE l = inHand[r]
    <3>1. lead'[l].edge = decision[r]
      BY <2>1, <2>2, <2>4 DEF Row
    <3>2. CASE decision[r].ad # NONE
      <4>1. pc'[r] = "audit" /\ inHand'[r] = inHand[r] /\ decision'[r] = decision[r]
        BY <1>4, <3>2 DEF WriteEdge, TypeOK
      <4>2. AuditOf(inHand[r], decision[r], "engine") \in AuditOrOwed'
        BY <4>1 DEF AuditOrOwed
      <4> QED
        BY <2>1, <2>4, <3>1, <4>2
    <3>3. CASE decision[r].ad = NONE
      BY <3>1, <3>3
    <3> QED
      BY <3>2, <3>3
  <2> QED
    BY <2>3, <2>4
<1>5. ASSUME NEW u \in Users, NEW k \in Leads, NEW a \in Ads, Resolve(u, k, a) PROVE Claim
  <2>1. lead \in [Leads -> Row] /\ lead[l] \in Row /\ owed \in [Users -> SUBSET Audit]
    BY DEF TypeOK
  <2>2. stored' = stored /\ lead' = [lead EXCEPT ![k].edge = ManualEdge(a)]
    BY <1>5 DEF Resolve
  <2>3. CASE l # k
    BY <2>1, <2>2, <2>3
  <2>4. CASE l = k
    <3>1. lead'[l].edge = ManualEdge(a) /\ ManualEdge(a).method = "MANUAL"
      BY <2>1, <2>2, <2>4 DEF Row, ManualEdge
    <3>2. AuditOf(k, ManualEdge(a), u) \in owed'[u]
      BY <1>5, <2>1 DEF Resolve
    <3>3. AuditOf(k, ManualEdge(a), u) \in AuditOrOwed'
      BY <3>2 DEF AuditOrOwed
    <3> QED
      BY <2>4, <3>1, <3>3
  <2> QED
    BY <2>3, <2>4
<1>6. ASSUME NEW r \in Runners,
             StartRun(r) \/ Decide(r) \/ WriteFails(r) \/ WriteAudit(r) \/ EndRun(r)
      PROVE  Claim
  BY <1>1, <1>6 DEF StartRun, Decide, WriteFails, WriteAudit, EndRun, dbVars
<1>7. ASSUME \/ \E a \in Ads : AddAd(a)
             \/ \E a \in Ads, d \in Days : AddSpend(a, d)
             \/ \E u \in Users : ResolveAudit(u)
             \/ Crash
             \/ UNCHANGED vars
      PROVE  Claim
  BY <1>1, <1>7 DEF AddAd, AddSpend, ResolveAudit, Crash, dbVars, vars
<1> HIDE DEF Claim
<1>8. Claim
  BY <1>2, <1>3, <1>4, <1>5, <1>6, <1>7 DEF Next, EngineStep
<1> QED
  BY <1>8 DEF Claim

AuditInv == CoherentInv /\ EdgesAudited

LEMMA NextEdgesAudited == ~Crashes /\ AuditInv /\ [Next]_vars => EdgesAudited'
<1> SUFFICES ASSUME ~Crashes, AuditInv, [Next]_vars,
                    NEW l \in stored', lead'[l].edge.ad # NONE, lead'[l].edge.method # NONE
             PROVE  \E au \in AuditOrOwed' : /\ au.lead = l
                                             /\ au.ad = lead'[l].edge.ad
                                             /\ au.method = lead'[l].edge.method
                                             /\ au.confidence = lead'[l].edge.confidence
  BY DEF EdgesAudited, ToldBy
<1> USE DEF AuditInv, CoherentInv
<1>1. l \in Leads
  BY NextTypeInv DEF TypeInv, TypeOK
<1>2. AuditOrOwed \subseteq AuditOrOwed'
  BY AuditOrOwedGrows
<1>3. \/ l \in stored /\ lead'[l].edge = lead[l].edge
      \/ \E by \in {"engine"} \cup Users : AuditOf(l, lead'[l].edge, by) \in AuditOrOwed'
  BY <1>1, EdgeChanges
<1>4. CASE l \in stored /\ lead'[l].edge = lead[l].edge
  BY <1>2, <1>4 DEF EdgesAudited, ToldBy
<1>5. CASE \E by \in {"engine"} \cup Users : AuditOf(l, lead'[l].edge, by) \in AuditOrOwed'
  BY <1>5 DEF AuditOf
<1> QED
  BY <1>3, <1>4, <1>5

\* While nothing dies between the update of a lead and its audit row, every
\* attributed edge is told by its own audit row, or its writer is about to add it.
THEOREM MatchingEdgesAudited ==
  ASSUME ~Crashes
  PROVE  Spec => []EdgesAudited
<1>1. Init => AuditInv
  BY InitTypeInv, InitCoherent DEF AuditInv, CoherentInv, EdgesAudited, Init
<1>2. AuditInv /\ [Next]_vars => AuditInv'
  BY NextTypeInv, NextCoherent, NextEdgesAudited DEF AuditInv, CoherentInv
<1>3. AuditInv => EdgesAudited
  BY DEF AuditInv
<1> QED
  BY <1>1, <1>2, <1>3, PTL DEF Spec

-----------------------------------------------------------------------------
(* Every edge goes back to a signal of some lead for that ad.              *)

\* What the engine is about to write is a signal of its own or has a source.
BorrowedHaveASource ==
  \A r \in Runners :
    pc[r] = "write" /\ decision[r].ad # NONE /\ decision[r].method \notin Direct
      => HasSource(decision[r].ad)

SourceInv == TypeInv /\ EdgesHaveASource /\ BorrowedHaveASource

LEMMA SourcesGrow ==
  ASSUME ~Crashes, TypeInv, [Next]_vars, NEW a, HasSource(a)
  PROVE  HasSource(a)'
<1>1. AuditOrOwed \subseteq AuditOrOwed'
  BY AuditOrOwedGrows
<1>2. stored \subseteq stored'
  BY DEF Next, EngineStep, AddAd, AddSpend, RemoveAccount, UpsertLead, StartRun, Decide, WriteEdge,
         WriteFails, WriteAudit, EndRun, Resolve, ResolveAudit, Crash, dbVars, vars
<1> QED
  BY <1>1, <1>2 DEF HasSource

\* A candidate that is not the lead's own signal is a sibling's ad.
LEMMA BorrowedFromSibling ==
  ASSUME SourceInv, NEW row \in Row, NEW e \in Decisions(row),
         e.ad # NONE, e.method \notin Direct
  PROVE  HasSource(e.ad)
<1>1. TypeOK
  BY DEF SourceInv, TypeInv
<1>2. PICK p \in OneOf(LeadgenCandidates(row)), q \in OneOf(SiblingCandidates(row)),
           s \in OneOf(UtmCandidates(row)) : e = DecideMatch(p \cup q \cup s)
  BY DEF Decisions
<1> DEFINE C == p \cup q \cup s
<1>3. C \in SUBSET Candidates
  BY <1>1, CandidatesTyped DEF OneOf
<1>4. C # {}
  BY <1>2 DEF DecideMatch, Undecided
<1>5. PICK c \in C : e = [ad |-> c.ad, method |-> c.method, confidence |-> c.confidence,
                          status |-> StatusFor(c.confidence)]
  BY <1>2, <1>3, <1>4, DecideMatchPicks
<1>6. c.method \notin Direct /\ c.ad = e.ad
  BY <1>5
<1>7. c \notin LeadgenCandidates(row)
  BY <1>6 DEF LeadgenCandidates, Candidate, Direct, Methods
<1>8. c \notin UtmCandidates(row)
  BY <1>6 DEF UtmCandidates, Candidate, Direct, Methods
<1>9. c \in SiblingCandidates(row)
  BY <1>7, <1>8 DEF OneOf
<1>10. PICK x \in Siblings(row) : c.ad = lead[x].edge.ad
  BY <1>9 DEF SiblingCandidates, Candidate
<1> QED
  BY <1>6, <1>10 DEF Siblings, SourceInv, EdgesHaveASource

LEMMA NextSource == ~Crashes /\ SourceInv /\ [Next]_vars => SourceInv'
<1> SUFFICES ASSUME ~Crashes, SourceInv, [Next]_vars PROVE SourceInv'
  OBVIOUS
<1>1. TypeInv /\ TypeInv'
  BY NextTypeInv DEF SourceInv
<1>2. \A a : HasSource(a) => HasSource(a)'
  BY <1>1, SourcesGrow
<1>3. ASSUME NEW l \in stored', lead'[l].edge.ad # NONE
      PROVE  HasSource(lead[l].edge.ad)'
  <2>1. l \in Leads
    BY <1>1 DEF TypeInv, TypeOK
  <2>2. CASE l \in stored /\ lead'[l].edge = lead[l].edge
    BY <1>2, <1>3, <2>2 DEF SourceInv, EdgesHaveASource
  <2>3. CASE lead'[l].edge.method = NONE /\ lead'[l].edge.ad \in SeedAds(l)
    BY <2>3 DEF HasSource, SeedAds
  <2>4. CASE /\ \E by \in {"engine"} \cup Users : AuditOf(l, lead'[l].edge, by) \in AuditOrOwed'
             /\ \/ \E r \in Runners : pc[r] = "write" /\ lead'[l].edge = decision[r]
                \/ lead'[l].edge.method = "MANUAL"
    <3>1. CASE lead'[l].edge.method \in Direct
      BY <2>4, <3>1 DEF HasSource, AuditOf
    <3>2. CASE lead'[l].edge.method \notin Direct
      <4>1. PICK r \in Runners : pc[r] = "write" /\ lead'[l].edge = decision[r]
        BY <2>4, <3>2 DEF Direct, Methods
      <4> QED
        BY <1>2, <1>3, <3>2, <4>1 DEF SourceInv, BorrowedHaveASource
    <3> QED
      BY <3>1, <3>2
  <2> QED
    BY <1>1, <1>3, <2>1, <2>2, <2>3, <2>4, EdgeChanges
<1>4. ASSUME NEW r \in Runners, pc'[r] = "write", decision'[r].ad # NONE,
             decision'[r].method \notin Direct
      PROVE  HasSource(decision[r].ad)'
  <2>1. CASE pc[r] = "write" /\ decision'[r] = decision[r]
    BY <1>2, <1>4, <2>1 DEF SourceInv, BorrowedHaveASource
  <2>2. CASE Decide(r)
    <3>1. PICK row \in todo[r] : \E e \in Decisions(row) : decision' = [decision EXCEPT ![r] = e]
      BY <2>2 DEF Decide
    <3>2. row \in Row
      BY <1>1 DEF TypeInv, TypeOK
    <3>3. decision'[r] \in Decisions(row)
      BY <1>1, <3>1 DEF TypeInv, TypeOK
    <3>4. HasSource(decision'[r].ad)
      BY <1>4, <3>2, <3>3, BorrowedFromSibling
    <3> QED
      BY <1>2, <3>4
  <2>3. (pc[r] = "write" /\ decision'[r] = decision[r]) \/ Decide(r)
    <3>1. ASSUME NEW x \in Runners,
                 StartRun(x) \/ WriteEdge(x) \/ WriteFails(x) \/ WriteAudit(x) \/ EndRun(x)
          PROVE  pc[r] = "write" /\ decision'[r] = decision[r]
      BY <1>1, <1>4, <3>1
         DEF StartRun, WriteEdge, WriteFails, WriteAudit, EndRun, DropLocals, TypeInv, TypeOK
    <3>2. ASSUME NEW x \in Runners, x # r, Decide(x)
          PROVE  pc[r] = "write" /\ decision'[r] = decision[r]
      BY <1>1, <1>4, <3>2 DEF Decide, TypeInv, TypeOK
    <3>3. ~Crash
      BY DEF Crash, SourceInv
    <3>4. ASSUME UNCHANGED runVars PROVE pc[r] = "write" /\ decision'[r] = decision[r]
      BY <1>4, <3>4 DEF runVars
    <3> QED
      BY <3>1, <3>2, <3>3, <3>4
         DEF SourceInv, Next, EngineStep, AddAd, AddSpend, RemoveAccount, UpsertLead, Resolve,
             ResolveAudit, vars, runVars
  <2> QED
    BY <2>1, <2>2, <2>3
<1> QED
  BY <1>1, <1>3, <1>4 DEF SourceInv, EdgesHaveASource, BorrowedHaveASource

\* Borrowing an ad from a sibling never invents one: along every chain of PHONE
\* edges there was a lead with a signal of its own (or a human) for that ad.
THEOREM MatchingEdgesHaveASource ==
  ASSUME ~Crashes
  PROVE  Spec => []EdgesHaveASource
<1>1. Init => SourceInv
  BY InitTypeInv DEF SourceInv, EdgesHaveASource, BorrowedHaveASource, Init
<1>2. SourceInv /\ [Next]_vars => SourceInv'
  BY NextSource
<1>3. SourceInv => EdgesHaveASource
  BY DEF SourceInv
<1> QED
  BY <1>1, <1>2, <1>3, PTL DEF Spec

-----------------------------------------------------------------------------
(* An engine run that is alone leaves MATCHED leads alone.                 *)

\* The rows of the snapshot still to be processed, and the lead in hand before its
\* update, are different leads, and none of them has become MATCHED meanwhile.
SnapshotOpen ==
  /\ \A l \in Leads : lead[l].id = l
  /\ \A row \in todo[Worker] : lead[row.id].edge.status # "MATCHED"
  /\ \A row1, row2 \in todo[Worker] : row1.id = row2.id => row1 = row2
  /\ (pc[Worker] = "write" => /\ lead[inHand[Worker]].edge.status # "MATCHED"
                              /\ \A row \in todo[Worker] : row.id # inHand[Worker])

AloneInv == TypeInv /\ SnapshotOpen

KeptAndOpen == SnapshotOpen' /\ MatchedKept

LEMMA NextSnapshotOpen ==
  ASSUME HttpRuns = {}, Users = {}, AloneInv, [Next]_vars
  PROVE  SnapshotOpen' /\ [MatchedKept]_vars
<1> USE DEF AloneInv, TypeInv, KeptAndOpen
<1>0. Worker \in Runners /\ \A r \in Runners : r = Worker
  BY DEF Runners
<1>1. lead \in [Leads -> Row] /\ \A l \in Leads : lead[l] \in Row
  BY DEF TypeOK
<1>2. stored \subseteq Leads /\ todo[Worker] \subseteq Row /\ \A row \in todo[Worker] : row.id \in Leads
  BY <1>0 DEF TypeOK, Row
<1>3. ASSUME UNCHANGED runVars,
             \A l \in Leads : /\ lead'[l].id = l
                              /\ (lead'[l].edge.status = "MATCHED" => lead[l].edge.status = "MATCHED")
      PROVE  SnapshotOpen'
  <2>1. UNCHANGED <<pc, todo, inHand>>
    BY <1>3 DEF runVars
  <2>2. pc[Worker] = "write" => inHand[Worker] \in Leads
    BY <1>0 DEF HandsOK
  <2>3. \A row \in todo'[Worker] : lead'[row.id].edge.status # "MATCHED"
    BY <1>2, <1>3, <2>1 DEF SnapshotOpen
  <2>4. pc'[Worker] = "write" => /\ lead'[inHand'[Worker]].edge.status # "MATCHED"
                                 /\ \A row \in todo'[Worker] : row.id # inHand'[Worker]
    BY <1>3, <2>1, <2>2 DEF SnapshotOpen
  <2>5. \A row1, row2 \in todo'[Worker] : row1.id = row2.id => row1 = row2
    BY <2>1 DEF SnapshotOpen
  <2> QED
    BY <1>3, <2>3, <2>4, <2>5 DEF SnapshotOpen
<1>4. ASSUME NEW acc \in Accounts, RemoveAccount(acc) PROVE KeptAndOpen
  <2> DEFINE dead == {a \in Live : AccountOf[a] = acc}
  <2>1. lead' = [l \in Leads |-> IF lead[l].edge.ad \in dead
                                 THEN [lead[l] EXCEPT !.edge.ad = NONE]
                                 ELSE lead[l]]
    BY <1>4 DEF RemoveAccount
  <2>2. \A x \in Row : /\ [x EXCEPT !.edge.ad = NONE].id = x.id
                       /\ [x EXCEPT !.edge.ad = NONE].edge.status = x.edge.status
    BY DEF Row, Edge
  <2>3. \A a \in dead : adRow'[a] = "gone"
    BY <1>4 DEF RemoveAccount, Live
  <2>4. UNCHANGED runVars
    BY <1>4 DEF RemoveAccount
  <2> HIDE DEF dead
  <2>5. \A l \in Leads : lead'[l].id = l /\ lead'[l].edge.status = lead[l].edge.status
    BY <1>1, <2>1, <2>2 DEF SnapshotOpen
  <2>6. MatchedKept
    BY <1>1, <1>2, <2>1, <2>3 DEF MatchedKept
  <2> QED
    BY <1>3, <2>4, <2>5, <2>6
<1>5. ASSUME NEW l \in Leads, UpsertLead(l) PROVE KeptAndOpen
  <2>1. PICK s \in CrmShows[l] :
          \/ /\ l \notin stored
             /\ \E ad \in IF SeedAds(l) = {} THEN {NONE} ELSE SeedAds(l) :
                  lead' = [lead EXCEPT ![l] =
                             [id |-> l, contact |-> s.contact, utm |-> s.utm,
                              leadgen |-> s.leadgen, edge |-> [Undecided EXCEPT !.ad = ad]]]
          \/ lead' = [lead EXCEPT ![l].contact = s.contact, ![l].utm = s.utm,
                                  ![l].leadgen = s.leadgen]
    BY <1>5 DEF UpsertLead
  <2>2. UNCHANGED runVars
    BY <1>5 DEF UpsertLead
  <2>3. CASE lead' = [lead EXCEPT ![l].contact = s.contact, ![l].utm = s.utm,
                                  ![l].leadgen = s.leadgen]
    <3>1. \A k \in Leads : lead'[k].id = lead[k].id /\ lead'[k].edge = lead[k].edge
      BY <1>1, <2>3 DEF Row
    <3> QED
      BY <1>2, <1>3, <2>2, <3>1 DEF SnapshotOpen, MatchedKept
  <2>4. ASSUME l \notin stored, NEW ad \in IF SeedAds(l) = {} THEN {NONE} ELSE SeedAds(l),
               lead' = [lead EXCEPT ![l] =
                          [id |-> l, contact |-> s.contact, utm |-> s.utm,
                           leadgen |-> s.leadgen, edge |-> [Undecided EXCEPT !.ad = ad]]]
        PROVE  KeptAndOpen
    <3>1. lead'[l].id = l /\ lead'[l].edge.status # "MATCHED"
      BY <1>1, <2>4 DEF Undecided
    <3>2. \A k \in Leads \ {l} : lead'[k] = lead[k]
      BY <1>1, <2>4
    <3> QED
      BY <1>2, <1>3, <2>2, <2>4, <3>1, <3>2 DEF SnapshotOpen, MatchedKept
  <2> QED
    BY <2>1, <2>3, <2>4
<1>6. CASE StartRun(Worker)
  <2>1. UNCHANGED lead /\ pc'[Worker] = "loop" /\ todo'[Worker] = {lead[l] : l \in OpenLeads}
    BY <1>0, <1>6 DEF StartRun, dbVars, TypeOK
  <2> QED
    BY <1>2, <2>1 DEF SnapshotOpen, MatchedKept, OpenLeads
<1>7. CASE Decide(Worker)
  <2>1. PICK row \in todo[Worker] : /\ todo' = [todo EXCEPT ![Worker] = @ \ {row}]
                                    /\ inHand' = [inHand EXCEPT ![Worker] = row.id]
    BY <1>7 DEF Decide
  <2>2. UNCHANGED lead /\ todo'[Worker] = todo[Worker] \ {row} /\ inHand'[Worker] = row.id
    BY <1>0, <1>7, <2>1 DEF Decide, dbVars, TypeOK
  <2> QED
    BY <2>2 DEF SnapshotOpen, MatchedKept
<1>8. CASE WriteEdge(Worker)
  <2>1. /\ pc[Worker] = "write" /\ pc'[Worker] # "write" /\ UNCHANGED todo
        /\ lead' = [lead EXCEPT ![inHand[Worker]].edge = decision[Worker]]
        /\ inHand[Worker] \in Leads
    BY <1>0, <1>8 DEF WriteEdge, TypeOK, HandsOK
  <2>2. \A k \in Leads \ {inHand[Worker]} : lead'[k] = lead[k]
    BY <1>1, <2>1
  <2>3. lead'[inHand[Worker]].id = lead[inHand[Worker]].id
    BY <1>1, <2>1 DEF Row
  <2>4. SnapshotOpen'
    BY <1>2, <2>1, <2>2, <2>3 DEF SnapshotOpen
  <2>5. MatchedKept
    BY <1>2, <2>1, <2>2 DEF SnapshotOpen, MatchedKept
  <2> QED
    BY <2>4, <2>5
<1>9. CASE WriteFails(Worker) \/ WriteAudit(Worker) \/ EndRun(Worker)
  <2>1. UNCHANGED lead /\ pc'[Worker] # "write" /\ todo'[Worker] \subseteq todo[Worker]
    BY <1>0, <1>9 DEF WriteFails, WriteAudit, EndRun, dbVars, TypeOK
  <2> QED
    BY <2>1 DEF SnapshotOpen, MatchedKept
<1>10. CASE Crash
  <2>1. UNCHANGED lead /\ pc'[Worker] # "write" /\ todo'[Worker] = {}
    BY <1>0, <1>10 DEF Crash, dbVars
  <2> QED
    BY <2>1 DEF SnapshotOpen, MatchedKept
<1>11. ASSUME UNCHANGED <<lead, runVars>> PROVE KeptAndOpen
  BY <1>11 DEF SnapshotOpen, MatchedKept, runVars
<1>12. CASE UNCHANGED vars
  BY <1>11, <1>12 DEF vars, runVars
<1>13. CASE (\E a \in Ads : AddAd(a)) \/ (\E a \in Ads, d \in Days : AddSpend(a, d))
  BY <1>11, <1>13 DEF AddAd, AddSpend
<1>14. KeptAndOpen => SnapshotOpen' /\ [MatchedKept]_vars
  OBVIOUS
<1>15. ASSUME NEW r \in Runners, StartRun(r) \/ EngineStep(r)
       PROVE  SnapshotOpen' /\ [MatchedKept]_vars
  <2>1. StartRun(Worker) \/ EngineStep(Worker)
    BY <1>0, <1>15
  <2> QED
    BY <2>1, <1>6, <1>7, <1>8, <1>9 DEF EngineStep
<1>16. ~(\E u \in Users, l \in Leads, a \in Ads : Resolve(u, l, a)) /\ ~(\E u \in Users : ResolveAudit(u))
  OBVIOUS
<1> HIDE DEF KeptAndOpen, AloneInv, TypeInv
<1> QED
  BY <1>4, <1>5, <1>10, <1>12, <1>13, <1>14, <1>15, <1>16 DEF Next

\* With no second run and nobody resolving by hand, an engine run never changes
\* the edge of a lead that is MATCHED to an existing ad.
THEOREM MatchingMatchedIsStable ==
  ASSUME HttpRuns = {}, Users = {}
  PROVE  Spec => MatchedIsStable
<1>1. Init => AloneInv
  <2>1. Worker \in Runners
    BY DEF Runners
  <2>2. Init => todo[Worker] = {} /\ pc[Worker] = "idle"
    BY <2>1 DEF Init
  <2>3. Init => \A l \in Leads : lead[l].id = l
    BY DEF Init
  <2> QED
    BY <2>2, <2>3, InitTypeInv DEF AloneInv, SnapshotOpen
<1>2. AloneInv /\ [Next]_vars => AloneInv' /\ [MatchedKept]_vars
  BY NextTypeInv, NextSnapshotOpen DEF AloneInv
<1> QED
  BY <1>1, <1>2, PTL DEF Spec, MatchedIsStable
=============================================================================
