------------------------------ MODULE Metrics -------------------------------
(***************************************************************************)
(* The reports of MetricsService (apps/api/src/metrics/metrics.service.ts) *)
(* over the rows the rest of the system produces: performance per ad, ad   *)
(* set and campaign, and cohorts per week.                                 *)
(*                                                                         *)
(* A report is a function of the tables and a range of days; the actions   *)
(* produce the tables it may meet, by ingestion behind the connect dates,  *)
(* matching, and connections that are removed and made again.  A report is *)
(* taken of a database at rest.  Money is a whole number in one currency.  *)
(* Rows of one instant are read in any order, so the ad a contact is       *)
(* credited to may be any of several.                                      *)
(***************************************************************************)
EXTENDS Naturals, FiniteSets, FiniteSetsExt, Functions

CONSTANTS
  Leads, Deals, Contacts, Ads, AdSets, Campaigns, Accounts,
  AdSetOf,      \* [Ads -> AdSets]
  CampaignOf,   \* [AdSets -> Campaigns]
  AccountOf,    \* [Campaigns -> Accounts]
  LeadContacts, \* [Leads -> SUBSET (Contacts \cup {MISSING})], who a lead may be of
  DealContacts, \* [Deals -> SUBSET (Contacts \cup {MISSING})]
  Amount,       \* [Deals -> Nat]
  TagOf,        \* [Ads -> a value of the creative dimension asked for, or "(untagged)"]
  MaxDay,       \* bound: days of the run
  MaxInsights,  \* bound: insight rows with spend
  WeekLength,   \* days from Monday to Monday
  MISSING

Days == 1..MaxDay
NULL == 0  \* no connection, no floor

AccountOfAd(ad) == AccountOf[CampaignOf[AdSetOf[ad]]]

ASSUME MetricsAssumption ==
  /\ MISSING \notin Contacts \cup Ads
  /\ IsFiniteSet(Ads) /\ IsFiniteSet(Campaigns)
  \* ids of three tables
  /\ Ads \cap (AdSets \cup Campaigns) = {} /\ AdSets \cap Campaigns = {}
  /\ AdSetOf \in [Ads -> AdSets] /\ CampaignOf \in [AdSets -> Campaigns]
  /\ AccountOf \in [Campaigns -> Accounts]
  /\ LeadContacts \in [Leads -> SUBSET (Contacts \cup {MISSING})]
  /\ DealContacts \in [Deals -> SUBSET (Contacts \cup {MISSING})]
  /\ Amount \in [Deals -> Nat] /\ DOMAIN TagOf = Ads
  /\ MaxDay \in Nat \ {0} /\ WeekLength \in Nat \ {0}

VARIABLES
  today,
  crm,       \* NULL, or the connect day of the CRM
  account,   \* [Accounts -> Days \cup {NULL}], connect day of the ad account
  leads,     \* Lead rows
  deals,     \* Deal rows
  insights   \* AdInsightDaily rows with spend

metricsVars == <<today, crm, account, leads, deals, insights>>

LeadRow == [id : Leads, contact : Contacts \cup {MISSING}, day : Days, ad : Ads \cup {MISSING},
            status : {"UNMATCHED", "REVIEW", "MATCHED"}]
\* LOST and IGNORE count as little as LEAD.
DealRow == [id : Deals, contact : Contacts \cup {MISSING}, day : Days,
            canonical : {"LEAD", "QUALIFIED", "WON"}]
InsightRow == [ad : Ads, day : Days, spend : Nat]

-----------------------------------------------------------------------------
(* The tables.                                                             *)

MetricsInit ==
  /\ today = 1 /\ crm = NULL
  /\ account = [a \in Accounts |-> NULL]
  /\ leads = {} /\ deals = {} /\ insights = {}

NextDay == today < MaxDay /\ today' = today + 1 /\ UNCHANGED <<crm, account, leads, deals, insights>>

ConnectCrm == crm = NULL /\ crm' = today /\ UNCHANGED <<today, account, leads, deals, insights>>

\* The rows stay when the connection goes.
RemoveCrm == crm # NULL /\ crm' = NULL /\ UNCHANGED <<today, account, leads, deals, insights>>

ConnectAccount(acc) ==
  /\ account[acc] = NULL
  /\ account' = [account EXCEPT ![acc] = today]
  /\ UNCHANGED <<today, crm, leads, deals, insights>>

\* Ads and insights go with the account, leads lose their ad.
RemoveAccount(acc) ==
  /\ account[acc] # NULL
  /\ account' = [account EXCEPT ![acc] = NULL]
  /\ insights' = {i \in insights : AccountOfAd(i.ad) # acc}
  /\ leads' = {[l EXCEPT !.ad = IF @ # MISSING /\ AccountOfAd(@) = acc THEN MISSING ELSE @] : l \in leads}
  /\ UNCHANGED <<today, crm, deals>>

\* upsertInsights skips days before the account was connected.
StoreInsight(ad, day) ==
  /\ account[AccountOfAd(ad)] # NULL
  /\ day \in account[AccountOfAd(ad)]..today
  /\ Cardinality(insights) < MaxInsights
  /\ \A i \in insights : <<i.ad, i.day>> # <<ad, day>>
  /\ insights' = insights \cup {[ad |-> ad, day |-> day, spend |-> 1]}
  /\ UNCHANGED <<today, crm, account, leads, deals>>

\* upsertLead, for a lead the CRM created on a day since it was connected.
StoreLead(id, contact, day) ==
  /\ crm # NULL /\ day \in crm..today
  /\ \A l \in leads : l.id # id
  /\ leads' = leads \cup {[id |-> id, contact |-> contact, day |-> day, ad |-> MISSING, status |-> "UNMATCHED"]}
  /\ UNCHANGED <<today, crm, account, deals, insights>>

\* The matching engine or a human gives an open lead an ad; which, and when, is the subject of Matching.
MatchLead(l, ad, status) ==
  /\ l.status \in {"UNMATCHED", "REVIEW"}
  /\ account[AccountOfAd(ad)] # NULL
  /\ leads' = (leads \ {l}) \cup {[l EXCEPT !.ad = ad, !.status = status]}
  /\ UNCHANGED <<today, crm, account, deals, insights>>

\* upsertDeal creates the row or gives it the contact and the status of the latest fetch.
StoreDeal(id, contact, day, canonical) ==
  /\ crm # NULL /\ day \in crm..today
  /\ \A d \in deals : d.id = id => d.day = day
  /\ deals' = {d \in deals : d.id # id}
                \cup {[id |-> id, contact |-> contact, day |-> day, canonical |-> canonical]}
  /\ UNCHANGED <<today, crm, account, leads, insights>>

MetricsNext ==
  \/ NextDay \/ ConnectCrm \/ RemoveCrm
  \/ \E acc \in Accounts : ConnectAccount(acc) \/ RemoveAccount(acc)
  \/ \E ad \in Ads, day \in Days : StoreInsight(ad, day)
  \/ \E id \in Leads : \E contact \in LeadContacts[id], day \in Days : StoreLead(id, contact, day)
  \/ \E l \in leads, ad \in Ads, status \in {"REVIEW", "MATCHED"} : MatchLead(l, ad, status)
  \/ \E id \in Deals : \E contact \in DealContacts[id], day \in Days,
          canonical \in {"LEAD", "QUALIFIED", "WON"} : StoreDeal(id, contact, day, canonical)

MetricsSpec == MetricsInit /\ [][MetricsNext]_metricsVars

-----------------------------------------------------------------------------
(* The reports.  A database is [leads, deals, insights]; a range is        *)
(* [from, to].                                                             *)

Database == [leads |-> leads, deals |-> deals, insights |-> insights]
Ranges == {r \in [from : Days, to : Days] : r.from <= r.to}

\* connectionFloors: the earliest connect day of each platform.
MetaFloor ==
  LET connected == {account[a] : a \in Accounts} \ {NULL}
  IN IF connected = {} THEN NULL ELSE Min(connected)
CrmFloor == crm

LaterOf(start, floor) == IF floor > start THEN floor ELSE start

Within(rows, from, to) == {row \in rows : row.day >= from /\ row.day <= to}
Since(rows, floor) == {row \in rows : row.day >= floor}

\* addUp: an ad counts for itself, its ad set and its campaign.
Above(ad) == {ad, AdSetOf[ad], CampaignOf[AdSetOf[ad]]}

\* The leads that can be a touch of their contact.
Touches(db) ==
  {l \in Since(db.leads, CrmFloor) : l.ad # MISSING /\ l.status = "MATCHED" /\ l.contact # MISSING}

\* contactAd: the ad of the first or the last touch; of one instant, any.
Credits(db, model) ==
  LET touched == {l.contact : l \in Touches(db)}
      IsEnd(l) == \A other \in Touches(db) : other.contact = l.contact =>
                    IF model = "FIRST_TOUCH" THEN l.day <= other.day ELSE l.day >= other.day
  IN {credit \in [touched -> Ads] :
        \A k \in touched : \E l \in Touches(db) : l.contact = k /\ l.ad = credit[k] /\ IsEnd(l)}

LeadsInRange(db, range) ==
  {l \in Within(db.leads, LaterOf(range.from, CrmFloor), range.to) : l.ad # MISSING /\ l.status = "MATCHED"}

ContactsOf(rows) == {l.contact : l \in rows} \ {MISSING}

\* Mutant: the deals without the floor.
DealsOfAnyAge(db, contacts) == {d \in db.deals : d.contact \in contacts}

DealsOf(db, contacts) == {d \in Since(db.deals, CrmFloor) : d.contact \in contacts}

\* Mutant: a won deal no longer counts as qualified.
QualifiedNotWon(rows) == {d.contact : d \in {x \in rows : x.canonical = "QUALIFIED"}}

Qualified(rows) == {d.contact : d \in {x \in rows : x.canonical \in {"QUALIFIED", "WON"}}}
Won(rows) == {d \in rows : d.canonical = "WON"}

AmountSum(rows) == SumFunction([d \in rows |-> Amount[d.id]])
SpendSum(rows) == SumFunction([i \in rows |-> i.spend])

\* Mutant: deals are credited to the touches in range only, as if the join were on the leads counted.
SalesOfTouchesInRange(db, range, credit) ==
  {d \in Won(DealsOf(db, ContactsOf(LeadsInRange(db, range)))) :
     \E l \in LeadsInRange(db, range) : l.contact = d.contact /\ l.ad = credit[d.contact]}

\* The deals of the contacts in range that count as sales.
Sales(db, range, credit) ==
  {d \in Won(DealsOf(db, ContactsOf(LeadsInRange(db, range)))) : d.contact \in DOMAIN credit}

\* The row of an ad, ad set or campaign.
PerformanceRow(db, range, credit, node) ==
  LET mine == {l \in LeadsInRange(db, range) : node \in Above(l.ad)}
      qualified == Qualified(DealsOf(db, ContactsOf(LeadsInRange(db, range))))
      sales == {d \in Sales(db, range, credit) : node \in Above(credit[d.contact])}
  IN [id |-> node,
      spend |-> SpendSum({i \in Within(db.insights, LaterOf(range.from, MetaFloor), range.to) :
                            node \in Above(i.ad)}),
      leads |-> Cardinality(mine),
      qualifiedLeads |-> Cardinality({l \in mine : l.contact \in qualified}),
      sales |-> Cardinality(sales),
      revenue |-> AmountSum(sales)]

Nodes == Ads \cup AdSets \cup Campaigns
Performance(db, range, credit) == {PerformanceRow(db, range, credit, node) : node \in Nodes}

WeekOf(day) == (day - 1) \div WeekLength

\* The leads cohorts looks at: also those whose ad is gone.
CohortLeads(db, range) ==
  {l \in Within(db.leads, LaterOf(range.from, CrmFloor), range.to) : l.status = "MATCHED"}

\* Mutant: every lead puts its contact in a cohort.
VintageOfAnyLead(db, range, week) ==
  {l.contact : l \in {x \in CohortLeads(db, range) : WeekOf(x.day) = week}} \ {MISSING}

\* The contacts whose earliest lead in range is of the week.
Vintage(db, range, week) ==
  LET rows == CohortLeads(db, range)
  IN {l.contact : l \in {x \in rows : /\ WeekOf(x.day) = week
                                      /\ \A y \in rows : y.contact = x.contact => x.day <= y.day}} \ {MISSING}

CohortRow(db, range, week) ==
  LET contacts == Vintage(db, range, week)
      rows == DealsOf(db, contacts)
  IN [week |-> week,
      spend |-> SpendSum({i \in Within(db.insights, LaterOf(range.from, MetaFloor), range.to) :
                            WeekOf(i.day) = week}),
      leads |-> Cardinality({l \in CohortLeads(db, range) : WeekOf(l.day) = week}),
      qualifiedLeads |-> Cardinality(contacts \cap Qualified(rows)),
      sales |-> Cardinality(Won(rows)),
      revenue |-> AmountSum(Won(rows))]

Cohorts(db, range) == {CohortRow(db, range, WeekOf(day)) : day \in Days}

Columns == {"spend", "leads", "qualifiedLeads", "sales", "revenue"}
Total(rows, column) == SumFunction([row \in rows |-> row[column]])
Top(rows) == {row \in rows : row.id \in Campaigns}

\* creativeInsights: the rows of the ads, summed by what their creatives are tagged with.
CreativeInsights(rows) ==
  {[tag |-> t, sum |-> [c \in Columns |-> Total({row \in rows : row.id \in Ads /\ TagOf[row.id] = t}, c)]] :
     t \in {TagOf[ad] : ad \in Ads}}

-----------------------------------------------------------------------------
MetricsTypeOK ==
  /\ today \in Days
  /\ crm \in {NULL} \cup 1..today
  /\ account \in [Accounts -> {NULL} \cup 1..today]
  /\ leads \subseteq LeadRow /\ deals \subseteq DealRow /\ insights \subseteq InsightRow
  /\ \A l, m \in leads : l.id = m.id => l = m
  /\ \A d, e \in deals : d.id = e.id => d = e
  /\ \A l \in leads : l.ad # MISSING => account[AccountOfAd(l.ad)] # NULL
  /\ \A i \in insights : account[AccountOfAd(i.ad)] # NULL

\* Whether credit goes to the first or to the last touch moves sales between ads and never changes the
\* sums over the campaigns: no deal is lost or counted twice, also when the touch it is credited to lies
\* outside the range.
ModelsAgree ==
  \A range \in Ranges :
    \A first \in Credits(Database, "FIRST_TOUCH"), last \in Credits(Database, "LAST_TOUCH") :
      LET one == Top(Performance(Database, range, first))
          other == Top(Performance(Database, range, last))
      IN \A c \in Columns : Total(one, c) = Total(other, c)

\* The reports tell one story: the same spend, and the same leads, sales and revenue unless a matched lead
\* has lost its ad, which cohorts still counts and performance does not.  The creatives of all tags make up
\* the campaigns.
ReportsAgree ==
  \A range \in Ranges : \A credit \in Credits(Database, "LAST_TOUCH") :
    LET rows == Performance(Database, range, credit)
        campaigns == Top(rows)
        weeks == Cohorts(Database, range)
    IN /\ \A c \in Columns :
            SumFunction([creative \in CreativeInsights(rows) |-> creative.sum[c]]) = Total(campaigns, c)
       /\ Total(campaigns, "spend") = Total(weeks, "spend")
       /\ \A c \in {"leads", "sales", "revenue"} : Total(campaigns, c) <= Total(weeks, c)
       /\ (CohortLeads(Database, range) = LeadsInRange(Database, range)) =>
            \A c \in {"leads", "sales", "revenue"} : Total(campaigns, c) = Total(weeks, c)

\* No row counts an outcome without what must come before it: in every row qualified leads are leads, and a
\* report with a sale has a qualified lead, also when the sale is credited to an ad without a lead in range.
FunnelHolds ==
  \A range \in Ranges : \A credit \in Credits(Database, "FIRST_TOUCH") :
    LET rows == Performance(Database, range, credit)
        weeks == Cohorts(Database, range)
    IN /\ \A row \in rows \cup weeks : row.qualifiedLeads <= row.leads
       /\ Total(Top(rows), "sales") > 0 => Total(Top(rows), "qualifiedLeads") > 0
       /\ \A row \in weeks : row.sales > 0 => row.qualifiedLeads > 0

\* Nothing from before a platform was connected counts, and nothing that is still a guess: the reports are
\* those of a database without these rows, although a connection that was removed and made again, or a
\* touch outside the range, leaves them there.
Counted == [leads |-> {l \in Since(leads, CrmFloor) : l.status = "MATCHED"},
            deals |-> Since(deals, CrmFloor),
            insights |-> Since(insights, MetaFloor)]
OnlyConnectedDataCounts ==
  /\ \A range \in Ranges : Cohorts(Database, range) = Cohorts(Counted, range)
  /\ \A model \in {"FIRST_TOUCH", "LAST_TOUCH"} :
       /\ Credits(Database, model) = Credits(Counted, model)
       /\ \A range \in Ranges : \A credit \in Credits(Counted, model) :
            Performance(Database, range, credit) = Performance(Counted, range, credit)
=============================================================================
