------------------------------- MODULE Ingest -------------------------------
(***************************************************************************)
(* What one Meta sync fetches and stores (MetaSyncService.sync between its *)
(* bookkeeping, which is SyncJobs): the hierarchy page by page, the ads    *)
(* one by one, then the daily spend of a trailing window, page by page and *)
(* row by row.  Meanwhile days pass, ads are created and retired, Meta     *)
(* restates what a day has cost, the account is removed and connected      *)
(* again, and the sync fails.                                              *)
(*                                                                         *)
(* Syncs of an account do not overlap: one worker takes one job at a time. *)
(* An amount is the number of times Meta has stated it, so that an older   *)
(* amount can be told from a newer one; 0 is no row.  Campaign, ad set and *)
(* creative rows go with their ads.  Meta is external: it serves a page as *)
(* of the request, each ad set and each day once, keeps the insights of an *)
(* ad it no longer lists, and cuts the ads of an ad set at the limit that  *)
(* the request names.                                                      *)
(***************************************************************************)
EXTENDS Naturals, FiniteSets, FiniteSetsExt

CONSTANTS
  NOWHERE,
  MetaAds,
  MetaAdSets,
  NestedLimit,   \* ads.limit(500)
  TrailingDays,  \* 28
  MaxToday,      \* bound on the days
  MaxStated,     \* bound: how often Meta states the amount of one day of an ad
  MaxStatements, \* bound: how often it states any
  MaxSyncs       \* bound on the syncs

Calendar == 1..MaxToday

NEVER == 0

Nothing == [a \in MetaAds |-> [d \in Calendar |-> 0]]

ASSUME IngestAssumption ==
  /\ NOWHERE \notin MetaAdSets /\ IsFiniteSet(MetaAds)
  /\ NestedLimit \in Nat \ {0} /\ TrailingDays \in Nat /\ MaxToday \in Nat \ {0}
  /\ MaxStated \in Nat /\ MaxStatements \in Nat /\ MaxSyncs \in Nat

VARIABLES
  day,        \* today
  home,       \* [MetaAds -> MetaAdSets \cup {NOWHERE}], Meta: the ad set of an ad
  retired,    \* Meta: ads it no longer lists
  spend,      \* [MetaAds -> [Calendar -> 0..MaxStated]], Meta: the insights
  connected,  \* AdAccount.createdAt, or NEVER
  adRows,     \* Ad rows of the account
  stored,     \* [MetaAds -> [Calendar -> 0..MaxStated]], AdInsightDaily rows
  at,         \* the sync: "idle" | "hierarchy" | "insights" | "orphan"
  pages,      \* what it has still to fetch: ad sets, or days
  found,      \* what it has still to store: ads, or insights <<ad, day, amount>>
  syncs,      \* (history) syncs so far
  crowded,    \* (history) ad sets that have had more ads than the limit
  began,      \* (history) the day the sync began, or NEVER
  asked,      \* (history) [MetaAds -> [Calendar -> 0..MaxStated]], what Meta said when it began
  owed        \* (history) the same, of all syncs that ended well and what they had to find

metaVars == <<day, home, retired, spend, crowded>>
accountVars == <<connected, adRows, stored, owed>>
metaSyncVars == <<at, pages, found, syncs, began, asked>>
ingestVars == <<day, home, retired, spend, crowded, connected, adRows, stored, owed,
                at, pages, found, syncs, began, asked>>

Listed(s) == {a \in MetaAds : home[a] = s /\ a \notin retired}

-----------------------------------------------------------------------------
IngestInit ==
  /\ day = 1
  /\ home = [a \in MetaAds |-> NOWHERE] /\ retired = {} /\ spend = Nothing /\ crowded = {}
  /\ connected = NEVER /\ adRows = {} /\ stored = Nothing /\ owed = Nothing
  /\ at = "idle" /\ pages = {} /\ found = {} /\ syncs = 0 /\ began = NEVER /\ asked = Nothing

-----------------------------------------------------------------------------
(* Meta and the clock.                                                     *)

DayPasses ==
  /\ day < MaxToday
  /\ day' = day + 1
  /\ UNCHANGED <<home, retired, spend, crowded>> /\ UNCHANGED <<accountVars, metaSyncVars>>

CreateAd(a, s) ==
  /\ home[a] = NOWHERE
  /\ home' = [home EXCEPT ![a] = s]
  /\ crowded' = IF Cardinality(Listed(s)) < NestedLimit THEN crowded ELSE crowded \cup {s}
  /\ UNCHANGED <<day, retired, spend>> /\ UNCHANGED <<accountVars, metaSyncVars>>

RetireAd(a) ==
  /\ home[a] # NOWHERE /\ a \notin retired
  /\ retired' = retired \cup {a}
  /\ UNCHANGED <<day, home, spend, crowded>> /\ UNCHANGED <<accountVars, metaSyncVars>>

Statements == MapThenSumSet(LAMBDA c : spend[c[1]][c[2]], MetaAds \X Calendar)

\* Meta states, or restates, what an ad has cost on a day.
StateSpend(a, d) ==
  /\ home[a] # NOWHERE /\ d <= day
  /\ spend[a][d] < MaxStated /\ Statements < MaxStatements
  /\ spend' = [spend EXCEPT ![a][d] = @ + 1]
  /\ UNCHANGED <<day, home, retired, crowded>> /\ UNCHANGED <<accountVars, metaSyncVars>>

-----------------------------------------------------------------------------
(* The account.                                                            *)

ConnectMeta ==
  /\ connected = NEVER
  /\ connected' = day
  /\ UNCHANGED <<adRows, stored, owed>> /\ UNCHANGED <<metaVars, metaSyncVars>>

\* Ads and insights go with the account.  A sync under way has lost its row.
RemoveMeta ==
  /\ connected # NEVER
  /\ connected' = NEVER /\ adRows' = {} /\ stored' = Nothing /\ owed' = Nothing
  /\ at' = IF at = "idle" THEN at ELSE "orphan"
  /\ pages' = {} /\ found' = {} /\ began' = NEVER /\ asked' = Nothing
  /\ UNCHANGED syncs /\ UNCHANGED metaVars

-----------------------------------------------------------------------------
(* The sync.                                                               *)

BeginSync ==
  /\ at = "idle" /\ connected # NEVER /\ syncs < MaxSyncs
  /\ at' = "hierarchy" /\ pages' = MetaAdSets /\ found' = {}
  /\ syncs' = syncs + 1 /\ began' = day
  /\ asked' = spend
  /\ UNCHANGED <<metaVars, accountVars>>

\* fetchAdHierarchy, a page: of the ads of an ad set at most NestedLimit.
FetchAdSet(s) ==
  /\ at = "hierarchy" /\ s \in pages
  /\ \E some \in SUBSET Listed(s) :
       /\ Cardinality(some) = Min({NestedLimit, Cardinality(Listed(s))})
       /\ found' = found \cup some
  /\ pages' = pages \ {s}
  /\ UNCHANGED <<at, syncs, began, asked>> /\ UNCHANGED <<metaVars, accountVars>>

\* upsertHierarchy, which waits for the last page: one ad with what it hangs on.
StoreAd(a) ==
  /\ at = "hierarchy" /\ pages = {} /\ a \in found
  /\ adRows' = adRows \cup {a} /\ found' = found \ {a}
  /\ UNCHANGED <<connected, stored, owed, at, pages, syncs, began, asked>> /\ UNCHANGED metaVars

\* Mutant: the window starts at the connection, or else today.
InsightRangeOfToday == Max({connected, day})..day

\* trailingRange, and never before the account was connected.
InsightRange == {d \in Calendar : d >= connected /\ d + TrailingDays >= day /\ d <= day}

AskInsights ==
  /\ at = "hierarchy" /\ pages = {} /\ found = {}
  /\ at' = "insights" /\ pages' = InsightRange
  /\ UNCHANGED <<found, syncs, began, asked>> /\ UNCHANGED <<metaVars, accountVars>>

\* fetchInsights, a page.
FetchDay(d) ==
  /\ at = "insights" /\ d \in pages
  /\ found' = found \cup {<<a, d, spend[a][d]>> : a \in {b \in MetaAds : spend[b][d] > 0}}
  /\ pages' = pages \ {d}
  /\ UNCHANGED <<at, syncs, began, asked>> /\ UNCHANGED <<metaVars, accountVars>>

\* upsertInsights, which waits for the last page: one row, skipped when its ad has none.
StoreInsight(i) ==
  /\ at = "insights" /\ pages = {} /\ i \in found
  /\ found' = found \ {i}
  /\ stored' = IF i[1] \in adRows /\ i[2] >= connected
               THEN [stored EXCEPT ![i[1]][i[2]] = i[3]] ELSE stored
  /\ UNCHANGED <<connected, adRows, owed, at, pages, syncs, began, asked>> /\ UNCHANGED metaVars

\* What the sync had to find: ads with a row, and those listed all the time unless the limit may have cut
\* them off; the days in the window from its first to its last moment.
DueAds == adRows \cup {a \in MetaAds : home[a] # NOWHERE /\ a \notin retired /\ home[a] \notin crowded}
DueDays == {d \in Calendar : d >= connected /\ d + TrailingDays >= day /\ d <= began}

SyncEnds ==
  /\ at = "insights" /\ pages = {} /\ found = {}
  /\ at' = "idle"
  /\ owed' = [a \in MetaAds |-> [d \in Calendar |->
                IF a \in DueAds /\ d \in DueDays THEN Max({owed[a][d], asked[a][d]}) ELSE owed[a][d]]]
  /\ began' = NEVER /\ asked' = Nothing
  /\ UNCHANGED <<connected, adRows, stored, pages, found, syncs>> /\ UNCHANGED metaVars

\* A request or a write fails, or the process dies: what is stored so far stays.
IngestFails ==
  /\ at # "idle"
  /\ at' = "idle" /\ pages' = {} /\ found' = {} /\ began' = NEVER /\ asked' = Nothing
  /\ UNCHANGED syncs /\ UNCHANGED <<metaVars, accountVars>>

-----------------------------------------------------------------------------
IngestNext ==
  \/ DayPasses \/ ConnectMeta \/ RemoveMeta
  \/ \E a \in MetaAds : RetireAd(a) \/ StoreAd(a) \/ \E s \in MetaAdSets : CreateAd(a, s)
  \/ \E a \in MetaAds, d \in Calendar : StateSpend(a, d)
  \/ BeginSync \/ AskInsights \/ SyncEnds \/ IngestFails
  \/ \E s \in MetaAdSets : FetchAdSet(s)
  \/ \E d \in Calendar : FetchDay(d)
  \/ \E i \in MetaAds \X Calendar \X (1..MaxStated) : StoreInsight(i)

IngestSpec == IngestInit /\ [][IngestNext]_ingestVars

-----------------------------------------------------------------------------
(* Properties.                                                             *)

\* What is stored of an ad and a day is something Meta has stated, on a day since the connection, and
\* not from before a sync that went through: whatever ads come and go between its pages, however often
\* others failed half way, and whatever Meta restates meanwhile.
SpendIsMirrored ==
  \A a \in MetaAds, d \in Calendar :
    /\ owed[a][d] <= stored[a][d] /\ stored[a][d] <= spend[a][d]
    /\ stored[a][d] > 0 => a \in adRows /\ connected # NEVER /\ connected <= d

=============================================================================
