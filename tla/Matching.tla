------------------------------ MODULE Matching ------------------------------
(***************************************************************************)
(* Attribution of leads to ads: MatchingService                            *)
(* (apps/api/src/matching/matching.service.ts) with everything that moves  *)
(* under it: leads ingested by the CRM worker, ads and spend ingested by   *)
(* the Meta worker, an ad account deleted by its owner, humans resolving   *)
(* the review queue, and the process dying.                                *)
(*                                                                         *)
(* The engine (matchUnmatched) runs in the CRM worker at the end of a sync *)
(* and, at any time, in POST /matching/run.  It takes ONE snapshot of the  *)
(* open leads and then, lead by lead, reads, decides, writes the lead and  *)
(* writes the audit row, each in a database call of its own: other actors  *)
(* come in between any two.  The reads of one matchLead are one step here: *)
(* a change that falls between two of them shows the same as a change just *)
(* after the last.                                                         *)
(***************************************************************************)
EXTENDS MatchDecision, FiniteSets

CONSTANTS
  Leads,       \* leads of one tenant's CRM
  Contacts,    \* canonical contacts
  Ads,         \* ad rows; a re-imported account gets new rows
  Accounts,    \* ad accounts
  Tags,        \* values of utm_content: ad external ids and ad names
  Days,        \* days on which ads spend and leads come in
  Worker,      \* the CRM worker (one job at a time)
  HttpRuns,    \* requests to POST /matching/run
  Users,       \* humans at the review queue
  AccountOf,   \* [Ads -> Accounts]
  ExternalId,  \* [Ads -> Tags]
  AdName,      \* [Ads -> Tags]
  LeadDay,     \* [Leads -> Days], the day of Lead.createdAt
  CrmShows,    \* [Leads -> SUBSET Signals], what the CRM may say of a lead
  SeedTag,     \* [Leads -> Tags \cup {NONE}], RawLead.adExternalId
  Crashes      \* whether the process may die

Runners == {Worker} \cup HttpRuns

Signals == [contact : Contacts \cup {NONE}, utm : Tags \cup {NONE}, leadgen : BOOLEAN]

ASSUME MatchingAssumption ==
  /\ NONE \notin Ads \cup Contacts \cup Tags \cup Methods
  /\ Worker \notin HttpRuns
  /\ "engine" \notin Users
  /\ AccountOf \in [Ads -> Accounts]
  /\ ExternalId \in [Ads -> Tags]
  /\ AdName \in [Ads -> Tags]
  /\ LeadDay \in [Leads -> Days]
  /\ CrmShows \in [Leads -> SUBSET Signals]
  /\ SeedTag \in [Leads -> Tags \cup {NONE}]
  /\ Crashes \in BOOLEAN

VARIABLES
  adRow,     \* [Ads -> "absent" | "live" | "gone"]
  spentOn,   \* pairs <<ad, day>> with an insight row whose spend is positive
  stored,    \* leads that have a row
  lead,      \* [Leads -> Row], meaningful for the stored ones
  audit,     \* MatchAudit rows
  pc,        \* [Runners -> "idle" | "loop" | "write" | "audit"]
  todo,      \* [Runners -> SUBSET Row], the snapshot still to be processed
  inHand,    \* [Runners -> Leads \cup {NONE}], lead.id of the matchLead call
  decision,  \* [Runners -> Edge], its decision
  owed       \* [Users -> SUBSET Audit], the audit row a human's request still owes

dbVars == <<adRow, spentOn, stored, lead, audit>>
runVars == <<pc, todo, inHand, decision>>
vars == <<adRow, spentOn, stored, lead, audit, pc, todo, inHand, decision, owed>>

Edge == [ad : Ads \cup {NONE}, method : Methods \cup {NONE},
         confidence : 0..100, status : Statuses]

\* The columns of Lead that matching reads or writes.
Row == [id : Leads, contact : Contacts \cup {NONE}, utm : Tags \cup {NONE},
        leadgen : BOOLEAN, edge : Edge]

Audit == [lead : Leads, ad : Ads, method : Methods, confidence : 0..100,
          by : {"engine"} \cup Users]

Live == {a \in Ads : adRow[a] = "live"}

\* Mutant: matchUnmatched without its status filter.
AllLeadsOpen == stored

OpenLeads == {l \in stored : lead[l].edge.status \in {"UNMATCHED", "REVIEW"}}

AuditOf(l, e, by) ==
  [lead |-> l, ad |-> e.ad, method |-> e.method, confidence |-> e.confidence, by |-> by]

-----------------------------------------------------------------------------
Init ==
  /\ adRow = [a \in Ads |-> "absent"]
  /\ spentOn = {}
  /\ stored = {}
  /\ lead = [l \in Leads |-> [id |-> l, contact |-> NONE, utm |-> NONE,
                              leadgen |-> FALSE, edge |-> Undecided]]
  /\ audit = {}
  /\ pc = [r \in Runners |-> "idle"]
  /\ todo = [r \in Runners |-> {}]
  /\ inHand = [r \in Runners |-> NONE]
  /\ decision = [r \in Runners |-> Undecided]
  /\ owed = [u \in Users |-> {}]

-----------------------------------------------------------------------------
(* The Meta worker and the account owner.                                  *)

\* upsertHierarchy meets an ad it has no row for.
AddAd(a) ==
  /\ adRow[a] = "absent"
  /\ adRow' = [adRow EXCEPT ![a] = "live"]
  /\ UNCHANGED <<spentOn, stored, lead, audit, owed>> /\ UNCHANGED runVars

\* upsertInsights stores a day with positive spend.
AddSpend(a, d) ==
  /\ a \in Live
  /\ spentOn' = spentOn \cup {<<a, d>>}
  /\ UNCHANGED <<adRow, stored, lead, audit, owed>> /\ UNCHANGED runVars

\* AdAccountsService.remove: ads and insights cascade, Lead.adId becomes NULL.
RemoveAccount(acc) ==
  LET dead == {a \in Live : AccountOf[a] = acc}
  IN  /\ dead # {}
      /\ adRow' = [a \in Ads |-> IF a \in dead THEN "gone" ELSE adRow[a]]
      /\ spentOn' = {s \in spentOn : s[1] \notin dead}
      /\ lead' = [l \in Leads |-> IF lead[l].edge.ad \in dead
                                  THEN [lead[l] EXCEPT !.edge.ad = NONE]
                                  ELSE lead[l]]
      /\ UNCHANGED <<stored, audit, owed>> /\ UNCHANGED runVars

-----------------------------------------------------------------------------
(* CrmSyncService.upsertLead, in the CRM worker before its engine run: a   *)
(* new row is seeded with the ad whose external id the CRM carries, an     *)
(* existing row only has its contact and signals refreshed.                *)

\* Mutant: the ad looked up without asking whether the lead carries an id at all.
SeedAdsUnguarded(l) == {a \in Live : SeedTag[l] \in {NONE, ExternalId[a]}}

SeedAds(l) == {a \in Live : ExternalId[a] = SeedTag[l]}

UpsertLead(l) ==
  /\ pc[Worker] = "idle"
  /\ \E s \in CrmShows[l] :
       \/ /\ l \notin stored
          /\ stored' = stored \cup {l}
          /\ \E ad \in IF SeedAds(l) = {} THEN {NONE} ELSE SeedAds(l) :
               lead' = [lead EXCEPT ![l] =
                          [id |-> l, contact |-> s.contact, utm |-> s.utm, leadgen |-> s.leadgen,
                           edge |-> [Undecided EXCEPT !.ad = ad]]]
       \/ /\ l \in stored
          /\ stored' = stored
          /\ lead' = [lead EXCEPT ![l].contact = s.contact, ![l].utm = s.utm,
                                  ![l].leadgen = s.leadgen]
  /\ UNCHANGED <<adRow, spentOn, audit, owed>> /\ UNCHANGED runVars

-----------------------------------------------------------------------------
(* The candidates of matchLead for a row of the snapshot.  Each operator   *)
(* is the set of candidates a query may come up with: findFirst and the    *)
(* order of findMany leave the choice to the database.                     *)

Candidate(m, a, c) == [method |-> m, ad |-> a, confidence |-> c]

LeadgenCandidates(row) ==
  IF row.leadgen /\ row.edge.ad # NONE
  THEN {Candidate("LEADGEN_ID", row.edge.ad, DefaultConfidence("LEADGEN_ID"))}
  ELSE {}

\* Another lead of the same contact that has an ad, whatever its status.
Siblings(row) ==
  {s \in stored \ {row.id} : /\ row.contact # NONE
                             /\ lead[s].contact = row.contact
                             /\ lead[s].edge.ad # NONE}

SiblingCandidates(row) ==
  {Candidate("PHONE", lead[s].edge.ad, DefaultConfidence("PHONE")) : s \in Siblings(row)}

\* disambiguateBySpend: an ad that spent on the lead's day, else the only one
\* that ever spent, else nobody.
SpendWinners(ads, day) ==
  LET sameDay == {a \in ads : <<a, day>> \in spentOn}
      ever    == {a \in ads : \E d \in Days : <<a, d>> \in spentOn}
  IN  IF sameDay # {} THEN sameDay
      ELSE IF Cardinality(ever) = 1 THEN ever ELSE {}

UtmCandidates(row) ==
  LET byId    == {a \in Live : ExternalId[a] = row.utm}
      byName  == {a \in Live : AdName[a] = row.utm}
      winners == SpendWinners(byName, LeadDay[row.id])
      Utm(ads, c) == {Candidate("UTM", a, c) : a \in ads}
  IN  IF row.utm = NONE THEN {}
      ELSE IF byId # {} THEN Utm(byId, 95)
      ELSE IF Cardinality(byName) = 1 THEN Utm(byName, 90)
      ELSE IF winners # {} THEN Utm(winners, 80)
      ELSE Utm(byName, DefaultConfidence("UTM"))

\* The query returns one of its candidates, or nothing when there is none.
OneOf(candidates) == IF candidates = {} THEN {{}} ELSE {{c} : c \in candidates}

Decisions(row) ==
  {DecideMatch(p \cup q \cup s) : p \in OneOf(LeadgenCandidates(row)),
                                  q \in OneOf(SiblingCandidates(row)),
                                  s \in OneOf(UtmCandidates(row))}

-----------------------------------------------------------------------------
(* The engine.                                                             *)

\* matchUnmatched: one query, then a loop over its result.
StartRun(r) ==
  /\ pc[r] = "idle"
  /\ pc' = [pc EXCEPT ![r] = "loop"]
  /\ todo' = [todo EXCEPT ![r] = {lead[l] : l \in OpenLeads}]
  /\ UNCHANGED <<inHand, decision, owed>> /\ UNCHANGED dbVars

\* Mutant: the loop queries the open leads again instead of walking its snapshot.
DecideRequeries(r) ==
  /\ pc[r] = "loop"
  /\ \E row \in todo[r] :
       /\ todo' = [todo EXCEPT ![r] = {lead[l] : l \in OpenLeads}]
       /\ inHand' = [inHand EXCEPT ![r] = row.id]
       /\ \E e \in Decisions(row) : decision' = [decision EXCEPT ![r] = e]
  /\ pc' = [pc EXCEPT ![r] = "write"]
  /\ UNCHANGED owed /\ UNCHANGED dbVars

\* matchLead up to decideMatch, on the row as the snapshot has it.
Decide(r) ==
  /\ pc[r] = "loop"
  /\ \E row \in todo[r] :
       /\ todo' = [todo EXCEPT ![r] = @ \ {row}]
       /\ inHand' = [inHand EXCEPT ![r] = row.id]
       /\ \E e \in Decisions(row) : decision' = [decision EXCEPT ![r] = e]
  /\ pc' = [pc EXCEPT ![r] = "write"]
  /\ UNCHANGED owed /\ UNCHANGED dbVars

\* matchLead returns or throws: its variables are gone.
DropLocals(r) ==
  /\ inHand' = [inHand EXCEPT ![r] = NONE]
  /\ decision' = [decision EXCEPT ![r] = Undecided]

\* lead.update; an audit row is due when the decision names an ad.
WriteEdge(r) ==
  /\ pc[r] = "write"
  /\ decision[r].ad \in Live \cup {NONE}
  /\ lead' = [lead EXCEPT ![inHand[r]].edge = decision[r]]
  /\ \/ /\ decision[r].ad # NONE
        /\ pc' = [pc EXCEPT ![r] = "audit"]
        /\ UNCHANGED <<inHand, decision>>
     \/ /\ decision[r].ad = NONE
        /\ pc' = [pc EXCEPT ![r] = "loop"]
        /\ DropLocals(r)
  /\ UNCHANGED <<adRow, spentOn, stored, audit, todo, owed>>

\* The ad was deleted since it was read: the foreign key rejects the update
\* and the exception ends the whole run.
WriteFails(r) ==
  /\ pc[r] = "write"
  /\ decision[r].ad \notin Live \cup {NONE}
  /\ pc' = [pc EXCEPT ![r] = "idle"]
  /\ todo' = [todo EXCEPT ![r] = {}]
  /\ DropLocals(r)
  /\ UNCHANGED owed /\ UNCHANGED dbVars

\* matchAudit.create, then the next lead.
WriteAudit(r) ==
  /\ pc[r] = "audit"
  /\ audit' = audit \cup {AuditOf(inHand[r], decision[r], "engine")}
  /\ pc' = [pc EXCEPT ![r] = "loop"]
  /\ DropLocals(r)
  /\ UNCHANGED <<adRow, spentOn, stored, lead, todo, owed>>

EndRun(r) ==
  /\ pc[r] = "loop"
  /\ todo[r] = {}
  /\ pc' = [pc EXCEPT ![r] = "idle"]
  /\ UNCHANGED <<todo, inHand, decision, owed>> /\ UNCHANGED dbVars

-----------------------------------------------------------------------------
(* resolveManual: any lead of the tenant to any of its ads.  Had the ad    *)
(* been deleted between its check and the update, the request would fail   *)
(* without effect, so check and update are one step.                       *)

ManualEdge(a) ==
  [ad |-> a, method |-> "MANUAL", confidence |-> DefaultConfidence("MANUAL"), status |-> "MATCHED"]

\* Mutant: a manual assignment that writes no audit row.
ResolveUnaudited(u, l, a) ==
  /\ owed[u] = {}
  /\ l \in stored
  /\ a \in Live
  /\ lead' = [lead EXCEPT ![l].edge = ManualEdge(a)]
  /\ UNCHANGED <<adRow, spentOn, stored, audit, owed>> /\ UNCHANGED runVars

Resolve(u, l, a) ==
  /\ owed[u] = {}
  /\ l \in stored
  /\ a \in Live
  /\ lead' = [lead EXCEPT ![l].edge = ManualEdge(a)]
  /\ owed' = [owed EXCEPT ![u] = {AuditOf(l, ManualEdge(a), u)}]
  /\ UNCHANGED <<adRow, spentOn, stored, audit>> /\ UNCHANGED runVars

ResolveAudit(u) ==
  /\ owed[u] # {}
  /\ audit' = audit \cup owed[u]
  /\ owed' = [owed EXCEPT ![u] = {}]
  /\ UNCHANGED <<adRow, spentOn, stored, lead>> /\ UNCHANGED runVars

-----------------------------------------------------------------------------
\* The process dies and is restarted: requests and jobs in flight are gone.
Crash ==
  /\ Crashes
  /\ pc' = [r \in Runners |-> "idle"]
  /\ todo' = [r \in Runners |-> {}]
  /\ inHand' = [r \in Runners |-> NONE]
  /\ decision' = [r \in Runners |-> Undecided]
  /\ owed' = [u \in Users |-> {}]
  /\ UNCHANGED dbVars

EngineStep(r) ==
  Decide(r) \/ WriteEdge(r) \/ WriteFails(r) \/ WriteAudit(r) \/ EndRun(r)

Next ==
  \/ \E a \in Ads : AddAd(a)
  \/ \E a \in Ads, d \in Days : AddSpend(a, d)
  \/ \E acc \in Accounts : RemoveAccount(acc)
  \/ \E l \in Leads : UpsertLead(l)
  \/ \E r \in Runners : StartRun(r) \/ EngineStep(r)
  \/ \E u \in Users, l \in Leads, a \in Ads : Resolve(u, l, a)
  \/ \E u \in Users : ResolveAudit(u)
  \/ Crash

Spec == Init /\ [][Next]_vars

\* A loop over a query result goes on unless the process dies.
FairSpec == Spec /\ \A r \in Runners : WF_vars(EngineStep(r))

-----------------------------------------------------------------------------
TypeOK ==
  /\ adRow \in [Ads -> {"absent", "live", "gone"}]
  /\ spentOn \subseteq Ads \X Days
  /\ stored \subseteq Leads
  /\ lead \in [Leads -> Row]
  /\ audit \subseteq Audit
  /\ pc \in [Runners -> {"idle", "loop", "write", "audit"}]
  /\ todo \in [Runners -> SUBSET Row]
  /\ inHand \in [Runners -> Leads \cup {NONE}]
  /\ decision \in [Runners -> Edge]
  /\ owed \in [Users -> SUBSET Audit]

\* What the columns adId, matchMethod, confidence and matchStatus say together:
\* a lead is MATCHED exactly when its method reached the review threshold, parked
\* exactly when a method stayed below it, and open when there is no method.
EdgeCoherent(e) ==
  /\ (e.status = "UNMATCHED" <=> e.method = NONE)
  /\ (e.method = NONE => e.confidence = 0)
  /\ (e.method # NONE => e.status = StatusFor(e.confidence))

\* Whatever the interleaving of engine runs, humans, re-syncs and account
\* deletions, no lead row mixes the columns of two writers, and no lead points
\* at an ad row that is not there.
LeadsCoherent ==
  \A l \in Leads : /\ EdgeCoherent(lead[l].edge)
                   /\ lead[l].edge.ad \in Live \cup {NONE}

\* The audit rows there are or that a running actor is about to write.
AuditOrOwed ==
  audit \cup {AuditOf(inHand[r], decision[r], "engine") : r \in {x \in Runners : pc[x] = "audit"}}
        \cup UNION {owed[u] : u \in Users}

\* The edge of a lead is told by an audit row of A, word for word.
ToldBy(A, l) ==
  \E au \in A : /\ au.lead = l
                /\ au.ad = lead[l].edge.ad
                /\ au.method = lead[l].edge.method
                /\ au.confidence = lead[l].edge.confidence

\* "Every attributed edge is auditable": while nothing fails between the update
\* of a lead and its audit row, every edge in the database has its row, or the
\* actor that wrote the edge still owes it.
EdgesAudited ==
  \A l \in stored :
    lead[l].edge.ad # NONE /\ lead[l].edge.method # NONE => ToldBy(AuditOrOwed, l)

\* Signals that speak of one lead; a PHONE edge only borrows another lead's ad.
Direct == Methods \ {"PHONE", "EMAIL"}

HasSource(a) ==
  \/ \E au \in AuditOrOwed : au.ad = a /\ au.method \in Direct
  \/ \E s \in stored : SeedTag[s] = ExternalId[a]

\* However long the chain of siblings an edge was borrowed along, and however the
\* rows of the chain changed since, some lead had a signal of its own for that ad.
EdgesHaveASource ==
  \A l \in stored : lead[l].edge.ad # NONE => HasSource(lead[l].edge.ad)

\* A run that is alone (no second run, nobody resolving) never touches a lead
\* that is MATCHED to an existing ad, not even when the lead became MATCHED
\* after another row of the snapshot was decided.
MatchedKept ==
  \A l \in stored :
    lead[l].edge.status = "MATCHED" /\ lead[l].edge.ad \in Live /\ adRow'[lead[l].edge.ad] = "live"
      => lead'[l].edge = lead[l].edge

MatchedIsStable == [][MatchedKept]_vars

\* Every run ends: its loop is over a snapshot, however many leads the CRM
\* worker and the humans open and close meanwhile.
RunsEnd == \A r \in Runners : pc[r] # "idle" ~> pc[r] = "idle"

-----------------------------------------------------------------------------
(* What comments of the repository say and the code does not keep.         *)

\* "never overwrite a resolved match on re-sync" (crm-sync.service.ts:137): the
\* engine run of a re-sync leaves alone what a human decided.
ManualSticks ==
  [][\A l \in stored : lead[l].edge.method = "MANUAL" => lead'[l].edge.method = "MANUAL"]_vars

\* "Below this, a match is parked in the review queue, never counted as revenue"
\* (enums.ts:85): an ad is credited with a MATCHED lead only if some signal for
\* it was worth the threshold.
GuessesNeverCounted ==
  \A l \in stored :
    lead[l].edge.status = "MATCHED" /\ lead[l].edge.ad # NONE =>
      \E au \in AuditOrOwed : /\ au.ad = lead[l].edge.ad
                              /\ au.method \in Direct
                              /\ au.confidence >= REVIEW_THRESHOLD

\* matchRate, "% of leads attributed to an ad" (matching.service.ts:139): the
\* leads it counts have an ad.
RateCountsAttributed ==
  \A l \in stored : lead[l].edge.status = "MATCHED" => lead[l].edge.ad # NONE
=============================================================================
