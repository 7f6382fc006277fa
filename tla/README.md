# AdLink verification

TLA+ specifications of AdLink (the repository under `../src/`), checked with TLC and proved with TLAPS.
AdLink attributes the revenue of a company's CRM to its Meta ads: it copies ads and spend from Meta,
copies leads, contacts and deals from Bitrix24 or amoCRM, decides which ad each lead came from, reports
what every ad earned, and tells Meta which leads were good.

Paths below are relative to `../src/`; `api/` abbreviates `apps/api/src/`.

## 1. The system

One NestJS process serves the HTTP API and runs two BullMQ workers (queues in Redis, one job at a time
each); a Next.js web application calls the API; everything durable is in Postgres through Prisma.
Nothing is written in a transaction that spans more than one statement of the code below, so every
database call is a point where the other actors come in.

```
 Meta Graph API          Bitrix24 / amoCRM             browser        phone
   |  ^                      |                            |             |
   v  | conversion events    v                            v             v
 MetaSyncService --.   CrmSyncService --> ContactResolver QrLogin <-- Telegram bot, Google
   |               |     |       |             |
   | ads, spend    |     | deals | leads       | contacts
   v               v     v       v             v
 ------------------------- Postgres -------------------------------
   ^                     ^                 ^                 ^
 MatchingService   CrmService.setMappings  ConversionsService  MetricsService
```

| Component (source) | State it keeps | Operations | Hard behaviour | What makes it correct |
|---|---|---|---|---|
| Matching engine (`api/matching`, `packages/core/src/matching.ts`, `enums.ts`) | the edge of a lead (adId, matchMethod, confidence, matchStatus), MatchAudit rows | matchUnmatched (at the end of every CRM sync and on POST), resolveManual, reviewQueue, matchRate | works through a snapshot of the open leads while leads, ads and accounts change; lead and audit row are two calls | the four columns agree; every edge is audited; no counted ad without a signal; a counted match does not move |
| CRM sync (`api/ingest/crm-sync.service.ts`, `api/connectors/crm`) | deals with stage history and canonical status, contacts, raw leads, lastSyncAt | sync: load mappings, four fetches, writes, match, advance the window | users edit the CRM between two fetches; any step may fail; windows and gates of different granularity | no edit is lost for good; copies never go back; nothing from before the connection |
| Stage mappings (`api/crm`) | stage to canonical status, per CRM | setMappings, recanonicalize, connect, remove | recomputes deals that a sync, or another remap with the mapping it read earlier, is writing | after a remap that ran alone every deal has the status of the current mapping |
| Contact resolution (`api/identity`) | Contact, ContactIdentifier | resolve, attach | look-up and creation are separate calls | the same person is found again; strangers are never merged |
| Conversions (`api/conversions`) | ConversionEvent (PENDING, ACCEPTED, REJECTED) | generate, push, list | reads that age, two requests at once, answers that are lost, a crash between sending and recording | events are justified; a verdict is true and final |
| Metrics (`api/metrics`) | nothing of its own | performance, cohorts, recommendations, creative insights, journey | five queries with floors, ranges and touch models of their own | the reports agree with one another |
| Sync jobs (`api/jobs`, `meta.processor.ts`, `meta-sync.service.ts`, `crm-sync.processor.ts`) | the queue, SyncRun rows, AdAccount.syncState | add, hourly fan-out, run, retry, stalled recovery | failures at every call, also at recording a failure; a crash mid-run; an account removed mid-run | every job ends; rows and badge tell the truth |
| Meta ingestion (`meta-sync.service.ts`, `meta.connector.ts`) | campaigns, ad sets, ads, creatives, insights | sync of one account: the hierarchy, then the insights of the last 28 days | pages of a list that changes, spend that is restated for days, a window that moves with the clock, syncs that stop half way | what is stored is what Meta said, and no older than the last sync that went through |
| CRM connectors (`api/connectors/crm`) | none | list by offset (Bitrix24) or by page number (amoCRM), up to 1000 pages | the list changes between two pages | nothing is skipped but for what is deleted |
| QR login (`api/auth/qr`, `apps/web/.../qr-login.tsx`, `apps/web/.../qr/[qrId]/page.tsx`) | one Redis key per session; the page on the desktop and the one on the phone | create, poll, approve (bot or Google), reply, expiry | overlapping polls and approvals, expiry between two Redis commands, a bot that dies between update and offset | one login, of somebody whose approve returned true; what the bot says is what became of it |
| Ad accounts, clients, registration (`api/ad-accounts`, `api/clients`, `api/auth`) | AdAccount, Client, Tenant, User, OAuth picker sessions | connect, import, setFeedback, remove; find-or-create of a default client; register | find-or-create without a unique key; tenant and user in two calls; a token that comes with a public call | one workspace per address, shared only on the strength of a token of it; connections hang on a client that is there, of their own tenant unless the caller named another; the first sync follows |
| Web session (`apps/web/src/lib/auth.ts`, `api.ts`, `components/auth`, `user-menu.tsx`) | token in localStorage, copies of it in mounted components, the query cache | sign in by form, Telegram, QR or Google, sign out, several tabs | the cache outlives the user, polls outlive the page, tabs change what is shared | whose data a page can show |
| Web pages (`connections`, `performance`, `creatives`, `data-trust`, the dialogs) | cached answers, choices, copies being edited | poll, mutate and invalidate, import, map stages, pick a range, resolve | answers late, lost and out of order; others write the same rows | a user's writes are read back; a report is that of the choice shown; a saved copy undoes nothing it was told of |
| Roles, secrets, health, configuration, lead capture, creative names | none, or encryption of columns | | | not modelled, see section 7 |

Components meet in the database rather than by calls: the sync calls the resolver and the engine, the
Meta processor and the CRM processor call their services, and everything else reads rows that others
write. `PROJECT.json` lists the components with their modules and, under `hazards`, what in each is hard
to test, at the line where it bites.

## 2. Modules

| Module | Models | Abstract promise | Proofs |
|---|---|---|---|
| `MatchDecision` | decideMatch, statusFor and the tables of confidence | | in `MatchingProofs` |
| `Matching` | the engine with everything that moves under it | | `MatchingProofs` |
| `CrmSync` | the incremental sync and remapping over a CRM that is edited | `Mirror` | `IngestionProofs` |
| `Conversions` | generate and push over changing leads, deals and opt-ins | `Ledger` | `ConversionsProofs` |
| `Identity` | resolve and attach, call by call | | `IdentityProofs` |
| `Paging` | one CRM list read page by page while it changes | | `IngestionProofs` |
| `Ingest` | a Meta sync page by page and row by row | | `IngestionProofs` |
| `QrLogin` | the Redis key, desktop and phone, polls, approvals and replies | `OneShot` | in `WorkspaceProofs` |
| `SyncJobs` | queue, worker, runs, badge | | `SyncJobsProofs` |
| `Metrics` | performance, cohorts and creative insights as functions of the tables | | `MetricsProofs` |
| `QueryCache` | one entry of the web client's query cache: operators, no state | | in `WebProofs` |
| `Session` | token, tabs, widgets and cache of a browser | | `WebProofs` |
| `Connections`, `Reports`, `StageDialog`, `ReviewPage` | the pages, each over entries of `QueryCache` | | in `WebProofs` |
| `WebPages` | the four pages, one scene each | | `WebProofs` |
| `Workspace` | sign-up, sign-in, clients, connections and the Meta picker, with two tenants | | `WorkspaceProofs` |

`MCMatching`, `MCCrmSync`, `MCConversions`, `MCIdentity`, `MCMetrics`, `MCWorkspace`, `MCQrLogin`,
`MCSession` and `MCWeb` give the small instances. SyncJobs has only sets and numbers as constants and is
run directly. `MCIngestion` and `WebPages` put components side by side that touch no variable of one
another: a behaviour picks its scene in the initial state and plays that one, so their state spaces add
up and do not multiply. Where components do interact, they are in one module (the engine beside
ingestion and removal, a remap beside a sync, the feedback loop beside attribution).

A variable is a column, a table, or the local variables of a running call: `pc` says at which database
call a request stands, and `inHand`, `decision`, `rows`, `due`, `batch` and the like are what it has
read and still holds. An action is everything from one await to the next. A failure or a crash drops the
locals and leaves the database as it is. Variables marked (history) record what the properties need and
nothing reads them. Ids, phones, emails, names and tags are model values; money and time are small
numbers; deletion of an account follows the schema's `onDelete` rules.

**Matching.** `StartRun` is the findMany of matchUnmatched (the leads that are UNMATCHED or in REVIEW),
`Decide` the reads of one matchLead and its decision, `WriteEdge` its lead.update (`WriteFails` when the
ad is gone), `WriteAudit` its matchAudit.create. The candidates are those of the code: lead form,
sibling of the same contact, ad id or name in utm_content, and the fuzzy guess by spend on the day when
a name fits several ads. `UpsertLead` is the ingestion by the CRM worker, between two of its runs,
`AddAd` and `AddSpend` the Meta worker, `RemoveAccount` the cascade with its SET NULL on leads and
edges, `Resolve` and `ResolveAudit` the two calls of resolveManual, `Crash` the process. The several
reads of one matchLead are one step: what changes between two of them shows the same as a change just
after the last.

**CrmSync.** The CRM is external: `SaveDeal` and `SaveContact` are its users, with a version and a
modification time per object and the stage moves of a deal. The sync is `StartSync` (window),
`LoadMappings`, `FetchContacts`, `FetchHistory`, `FetchDeals`, `StoreDeal` per deal, `FinishSync`;
`SyncFails` anywhere. A remap is `StartRemap`, `RemapRow` per row of the request, `ReadBack`,
`Recanonicalize` per deal, `EndRemap`, or `RemapFails` anywhere; each request of `Remaps` has its own
locals, for nothing keeps two of them apart, nor a remap from a sync. What the repository calls the day
gate compares days, the window compares instants; both are kept.

**Conversions.** `World` changes opt-ins, attributions and outcomes. `Generate` is accounts, leads,
deals, and then per event a look-up and a create, with the unique key; `Push` takes a batch and, event
by event, sends it and records the verdict, whatever the row says by then. `shared` remembers the events
that two pushes had in hand at once. Meta is the set of event ids it has: the id is the "dedup key on
Meta's side" (`api/connectors/meta/meta.connector.ts:89`).

**Identity.** `NormalizeIdentifiers` is the list the class builds (phones before emails, first
appearance, unusable values dropped) given what a value normalizes to; `LookupHits`, `LookupMisses`,
`Create`, `Attach` are the database calls, `Fails` any call that throws or is cut off.

**Paging.** `ReadPage` is one request of `paged`, by offset or by number; the users of the CRM add
records to the listing and delete some between two of them. The CRM lists in the order of ids, its own
order, for the connectors ask for none here; the guard of 1000 pages is `MaxPages`. CrmSync takes a
fetch as one step, and this is what that hides.

**Ingest.** `BeginSync` finds the account, `AskInsights` fixes the window (28 days back, not before the
connection), the pages of the hierarchy and of the insights are fetched one at a time while Meta
restates amounts and ads come and go, rows are stored one at a time, `SyncEnds` and `IngestFails` are
the two ways out. An amount is the number of times Meta has stated it, so an old one can be told from a
new one.

**QrLogin.** Each Redis command is a step. The desktop polls every two seconds without waiting for the
previous answer, so polls overlap; approvals are get, ttl, set. `Via` tells the bot, which handles one
update after the other and answers in the chat (`told`), from Google, which comes back to the page on
the phone with `done=1`. The phone looks up the session, offers the two ways and counts down beside it.
`Tick` is time: the key's TTL and both countdowns. The module follows one session, from the page that
opens it; section 7 says what a second one adds.

**SyncJobs.** The worker's program counter follows processor and service: find the account, fan out
(`FanFails` when the queue refuses an add midway), open the run, badge RUNNING, work, badge OK, close
the run, and on a failure the row, the badge and the rethrow. BullMQ is external: attempts with a pause,
and a stalled job goes back once and then fails.

**Metrics.** The actions only produce the tables a report may meet; the reports are operators on the
tables and a range, and a report is taken of a database at rest; creative insights group the ads of the
performance report by a tag of their creative. `crm` stands for the earliest connect day of the tenant's
CRMs, which is all the service looks at.

**Workspace.** `call` holds what a request has read and where it stands. A sign-up of whatever kind is
`StartSignUp` (nobody has the address), `CreateTenant`, `CreateUser`, which the unique key on the
address refuses when another was faster and whose answer may be lost. The routes are public, but the
middleware reads a token that comes with the call (`caller`), and the query extension then gives the
user row the tenant of that token (`Stored`) instead of the one just created; `guests` remembers who
signed up like that. A connection is `FindClient` and `CreateDefaultClient` (default-client.ts), then
`ConnectOne` or, for each account picked in `pickers`, `ImportOne`, and `Enqueue`, the call that adds
the first sync. A connect may name its client, which is stored without a look-up (`named`): any id that
was ever given out, of any tenant, as long as the foreign key holds. `Own` is what the query extension
lets a request see; the upsert of an import is not scoped by it. Removing a client takes its connections
along by the schema's cascade. Which credentials prove an address, names, tokens and roles are data.

**QueryCache.** What the pages rely on of the query library under the options of `query-provider.tsx`:
data younger than `staleTime` is taken as it is, a request under way for a key is shared, an
invalidation while data is there sends a new one, data stays when the page goes. It is external; the
calls that fill and invalidate it are the code's.

**Session.** `stored` is localStorage, which all tabs share, `menuTok` and `pageTok` what the mounted
components copied of it. Sign-in is by form, by one of two widgets that open a QR session and poll, or
by Google with a state cookie; `OtherTab` is every other tab. `lent` remembers what a page found in the
cache when it was mounted.

**Connections, Reports, StageDialog, ReviewPage.** Requests are sent, answered by the API and taken by
the page in three steps, and may fail. Connections has the table, the workers and other users beside the
list it polls; Reports the key that model and days make, the calendar with its presets and the
drill-down; StageDialog the copy an effect makes of the stored mappings; ReviewPage the queue and the
rate, two queries one resolve refreshes, beside other reviewers and engine runs that each read the open
leads (`EngineReads`) and write over them one by one, whatever became of them since (`EngineDecides`).

## 3. Runs

Eleven runs pass and one refutes a statement of the repository. Deadlock checking is off but for
`session`, because the components may legitimately come to rest: nobody connects, no request comes.

| Run | Instance | Question and answer |
|---|---|---|
| `matching_queue` | worker and one human; 2 leads of one contact, 2 ads with one name in 2 accounts, 1 day; no crash | Does the edge stay coherent, audited and grounded in an ad that really was there while accounts are removed and re-imported and a human resolves? Yes. |
| `matching_alone` | worker only, 2 days, lead-form data, seeded ad id, crashes; `FairSpec` | Does running the engine again, with crashes, ever change a counted match? No. Does every run end? Yes. |
| `ingestion` | four scenes. CRM: 1 deal, 1 contact, 2 stages, time to 3, 2 edits, connect at instant 1. Remaps: the same without the contact, beside two remap requests with bodies that disagree. Pages: 7 ids, pages of 2, guard 3. Meta: 2 ads, 2 ad sets, nested limit 1, window 1 day back, 3 days, 2 statements, 2 syncs | Which edits can be lost? Only those between the fetch of deals and the end of the sync. Do rows go back or appear from before the connection? No. Does a remap settle? Yes, when no other remap and no sync of its CRM ran beside it. What does a fetch by pages skip? One record at most for each that is deleted. Is stored spend what Meta said? Yes, and no older than the last sync that went through. |
| `crm_sticky` | 3 stages, 3 edits | "stays won": refuted. |
| `conversions` | 1 account, 1 deal, batch 2, answers lost, crashes; two scenes: 2 leads of one contact with 2 generates at once and 1 push, 1 lead with 1 generate and 2 pushes at once | Are events justified by facts that once held? Yes. Are they settled once, and accepted only when Meta has them? Yes, but for those that two pushes share. Is a verdict final? Yes, once the pushes that had read the event as pending are over. |
| `identity` | 5 payloads with 4 identifiers, 3 contacts, 2 overlapping resolves, failures anywhere | Is a person resolved once found again for good, and are strangers kept apart? Yes. |
| `metrics` | 2 leads, 1 deal, 2 ads in 2 ad sets, 2 days, weeks of 1 day, 1 insight; every range | Do touch models and reports agree on totals, does the funnel hold, do rows from before the connection stay out? Yes. |
| `qr` | one approval by bot, one by Google, 2 polls, the phone, TTL 2, crashes; `TimedSpec` | Whose login is carried, and what do the bot and the phone say of it? Only that of somebody whose approve returned true; the bot congratulates only then; the phone says "approved" when somebody has, or when Google brought it back. Does a key remain for ever? No. Without overlap, is the session a one-shot mailbox? Yes. |
| `jobs` | 1 account, 2 jobs, 2 attempts, faults of provider, database, vault and queue, crashes; `FairSpec` | Does every job end, and do rows and badge tell the truth until a process dies or a failure cannot be recorded? Yes. |
| `workspace` | 2 addresses, 2 tenants, 1 Meta account, 1 CRM, 1 picker session, 2 requests at once, 2 clients and 2 connections ever made; three scenes: sign-ups that overlap, with and without a token; imports and connects to default clients; connects to named clients | Does an address always lead to its one workspace? Yes, and two share one only if one of them signed up with a token of it. Does every connection hang on a client that is there, of its tenant unless the caller named another? Yes. Is the first sync added unless its request was cut off? Yes. |
| `session` | 2 users of one browser with a token each, data stale after 1 tick, widgets of 1 tick; deadlock checked | How long can a page show the data of whoever was signed in before? Only what it found, until its own request is answered. Do header and page part? Only by another tab, or by an answer for a form or widget that is gone. Does the poll of the Telegram button end? Yes. |
| `web` | scenes connections (1 row, grace 1), reports (campaign, ad set, ad; days 98 and 99 of 100, 2 changes), stages (1 stage, 2 statuses), review (2 leads, 1 ad, one engine run after the other) | Is what a user changed read back, a running sync followed to its end, a report that of the choice shown, a resolved lead out of the queue, a mapping of others left alone? Yes, but for failed requests, leads an engine run puts back, and what the dialog was never told. |

Why these bounds are enough to be interesting:

- Matching: two leads of one contact is the least that lets one borrow from the other, and two ads of
  one name the least that makes a fuzzy guess; an ad of a removed account leaves while the other stays.
  A second engine run beside the worker (`HttpRuns = {h1}`, no human) also passes in about two minutes;
  it is not a run of its own because the theorems below cover any number of runs and humans.
- CrmSync: two edits of a deal and time to 3 give an edit before, in and after a window with one failed
  sync in between; the run also creates deals before the connect instant, so the gate is exercised. The
  refutation takes three stages, to tell a lost deal from one that is only not won. Two remaps are the
  least that overlap; they are symmetric, and the scene has no contacts, which no status depends on.
- Paging: seven ids in pages of two are more than the guard admits, so that the cut is reached as well
  as the shift.
- Ingest: three days with a window of one let a day leave it for good; one ad too many for its ad set is
  cut. Ads and ad sets are symmetric, which is sound as the run checks safety only.
- Conversions: two leads of one contact compete for the credit; two generates collide on the unique key;
  two pushes with a batch of two take the same events, one of them while the other has an answer in
  hand. Each scene lets one kind of request overlap; the theorems of section 6 let both.
- Identity: the payloads include the bridge (`q` and `e` after `p`), a value that drops out, one phone
  written in two ways, and a stranger. Contacts and resolvers are symmetric.
- Metrics: a week of one day puts two leads of one contact into two weeks; two connects of a CRM move
  the floor over stored rows.
- SyncJobs: two jobs of one account mix their records; two attempts and one stall are the least with a
  retry and a retry after a crash. With one account a fan-out has one add, which may fail; the theorems
  cover any number.
- QrLogin: TTL 2 lets a session expire between any two commands of an approval and between two polls.
- Session and pages: `staleTime` and `grace` of one tick still have a before, a within and an after. One
  row is enough for the list, whose properties are about one row; two leads let the queue lose one and
  keep one. The review scene is followed up to its first failed request, after which its property
  demands nothing, and no engine run takes a lead out of the queue as new again, which no query tells
  from attributed.
- Workspace: two requests are the least that race, two tenants the least that can be mixed up; two
  clients and two connections let one be removed and made again under a request that holds the first. In
  the two connecting scenes people sign up one after the other and without foreign tokens, because a
  sign-up touches no client and no connection.

Bounds that are constants: `MaxTime`, `MaxVersion` (edits), `MaxPages` (the code's 1000), `PageSize` (50
or 250), `NestedLimit` (500), `TrailingDays` (28), `MaxToday`, `MaxStated`, `MaxStatements`, `MaxSyncs`,
`MaxDay`, `MaxInsights`, `MaxAttempts` (the code's 3), `BatchSize` (500), `TTL` (300 seconds), `STALE`
(30 seconds), `GRACE` (the window after a sync was asked for), `WidgetTTL`, `ChoiceBound` (changes of a
report), `MaxClients` and `MaxRows` (ids ever given); the sets `Jobs`, `HttpRuns`, `Runners`, `Remaps`,
`Generators`, `Pushers`, `Polls`, `Approvals`, `DaysOffered`, `PresetsUsed`, `Contacts`, `Requests`,
`Tenants`, `Pickers` bound how much runs or exists at once. Of the calendar, the months it can leaf
through and the presets but one are left out.

## 4. Properties

Each module's property section states its properties in words. The ones that took thought:

- `EdgesHaveASource`: ads are borrowed from siblings, by leads whose own source may change or go away
  afterwards. Along any chain some lead had a signal of its own, or a human chose the ad.
- `MatchedIsStable`: what a report has shown as a counted match is not changed by a later run, even when
  the lead became MATCHED after the snapshot of the run was taken.
- `NothingElseSlips`: names the one interval in which an edit is lost (`late`), and claims there is no
  other.
- `MappingsSettle`: deals are recomputed with mappings that were loaded earlier, by remaps that overlap
  and by syncs beside them. A remap that had no other remap and no sync of its CRM beside it (`quiet`)
  settles its deals, and failed or late syncs keep them settled until the next remap of any CRM, which
  recomputes the deals of all.
- `OnlyDeletionsSkip`: an offset moves over a list that moves under it; only what leaves in front of it
  lets a record slip by.
- `SpendIsMirrored`: per ad and day, between what Meta had said by the last sync that went through
  (`owed`) and what it says now, over a window that moves, restated days, failed syncs, retired ads,
  removal and re-import.
- `LedgerFollowed`: refinement; a rejected or accepted event is never reopened, an open one may be sent
  more than once, accepted only after it was delivered. An event that two pushes had in hand at once may
  be delivered and settled again, each time by a verdict; overlapping pushes break the ledger of those
  and of no other.
- `VerdictsAreFinal`: how long a verdict may still change. Once the pushes that had read the event as
  pending are over, by their end or by a crash, no later push takes it up, sends it or writes it.
  `AcceptedIsTrue`, that ACCEPTED is what Meta has, is a part of the invariant of these two and is
  proved beside them.
- `FirstIdentifierDecides`: because look-ups go in the order of the payload and `attach` never moves an
  identifier, the first identifier of a resolved payload decides for good.
- `NoStrangers`: for every set of identifiers no payload crosses, no contact straddles it.
- `RunsTell`, `BadgeTells`: RUNNING means the run under way and no other, FAILED that the last run
  failed, over retries, removal and re-import.
- `AnswersAgree`: desktop, chat and phone are told about one session by different steps, and this is how
  far what they are told agrees: the login carried is of somebody whose approve returned true and who
  was not told otherwise, by the bot or by a phone sent to the login page; the bot congratulates only
  who has approved or found it approved; the phone says "approved" only when somebody has, or on the
  word of Google's redirect, which nothing confirms. A phone that says "expired" may contradict the
  desktop (section 8).
- `OneShotSession`: refinement, as long as nothing has overlapped; what overlaps do is in section 8.
- `ForeignDataIsRecent`: signing out clears no cache, so a page can show the data of the user before;
  this bounds it.
- `HeaderAgrees`: header and page each hold a copy of the token, read at different times.
- `OwnWritesReadBack`: an answer that was on its way before the write may come after it; an
  invalidation, the poll or the grace window has to make up for it.
- `RunningIsFollowed`: polling goes on because of an answer that says "running", so the last answer must
  not be an old one.
- `ShownAsChosen`: also that no order of clicks in the calendar turns a range around.
- `UneditedStagesKeep`: a save sends the whole copy; what the dialog was told of is not undone by it.
- `AttributedLeavesReview`: two queries and a mutation, whose answers overtake each other, beside engine
  runs that may put a lead back into review which the page has attributed: those are exempt from the
  moment a run writes them back, as ManualSticks is refuted (section 8); every other lead the page
  attributed is gone from queue and rate.
- `SignInsAgree`: overlapping first logins, and sign-ups with a token, leave tenants without users, yet
  no token is ever of one of them; and however such sign-ups follow on each other, a workspace anybody
  comes into has the user it was made for.
- `ConnectionsAtHome`: the client a request found, made or was given may be removed before it stores the
  connection. Only a client the caller named can be of another tenant.
- `FirstSyncFollows`: imports that meet on one row, removal and re-import included.
- `ReportsAgree`, `ModelsAgree`: totals over all ads equal totals over all weeks, and do not depend on
  the touch model, unless a matched lead has lost its ad, and then cohorts can only be the larger;
  creative groups add up to campaigns.

## 5. Fairness

- `RunsEnd`: weak fairness of each run's `EngineStep`. The loop is over an array in memory; unless the
  process dies it goes on. `Crash` ends a run as well.
- `SessionEnds`: weak fairness of `Tick` only. Time passes; no person and no page is assumed to act.
- `JobsEnd`: weak fairness of the worker (its process is restarted by its supervisor), of the end of a
  retry pause and of BullMQ's stall detection. Nothing is assumed of providers: calls may always fail.

- `TelegramPollEnds`: weak fairness of the clock and of the interval that looks at it (`TimersFire`).
  The answers of the API are not assumed to come.
- `RunningIsFollowed`: weak fairness of the poll timer, and strong fairness of answers that arrive
  (`PollsFire`): a list that is asked for again and again is answered now and then, though any single
  request may fail.

No other specification has fairness and no other property needs it.

## 6. What is proved

Forty-three theorems hold for every value of the constants under the assumptions the modules name
(`MatchingAssumption`, ...): sets disjoint from NULL or NONE, ids of different tables distinct,
functions with their domains, bounds that are naturals, and finite sets where the code counts or adds up
(`Ids`, `MetaAds`, the `Leads` of the review page, the `Ads` and `Campaigns` of Metrics; that the tables
of Metrics are finite is an invariant, `FiniteTables`). `SnapshotsAssumption` and `MappingsAssumption`
say that NONE is no answer of the API, `PresetsAssumption` that the presets in use are among those of
the calendar.

| Theorem | For | Inductive invariant |
|---|---|---|
| `MatchingTypeOK`, `MatchingLeadsCoherent` | any runs, humans, crashes | `HandsOK`: what a run has in hand fits its program counter, and its decision is coherent |
| `MatchingEdgesAudited` | no crashes | `AuditInv`: a running actor counts as owing its row. With a crash between the two calls the property is false. |
| `MatchingEdgesHaveASource` | no crashes | `SourceInv`: also of decisions in hand that borrow an ad (`BorrowedHaveASource`) |
| `MatchingMatchedIsStable` | one engine, no humans | `SnapshotOpen`: what is left of the snapshot is still open. It fails with a second run. |
| `CrmSyncTypeOK`, `CrmSyncNothingElseSlips` | any CRMs | `RowsOK`, `CopiesOK`: what was fetched is a version the CRM had and no older than the copy; `WindowOK`: what is due is stored, in hand, in the window still to fetch, or late |
| `CrmSyncMirrors` | any CRMs | the same; `Mirror` is refined step by step |
| `CrmSyncMappingsSettle` | any CRMs, any remaps at once | `SettleOK`: a quiet remap is the only one under way, the mapping it holds is the current one and deals outside `todo` agree with it; of a settled connection a sync holds the current mapping |
| `PagingOnlyDeletionsSkip` | any list, page size, guard | `WalkOK`: the records the loop has walked past without reading them are no more than those deleted. A deletion moves at most one record over the offset, because two records have two positions (`PositionOrders`); one that enters moves none. |
| `IngestSpendIsMirrored` | any ads, limit, window, restatements | `HierarchyFollows`, `InsightsFollow`: what the sync owes is on a page to come, in hand, or stored, and what is in hand is no older than the sync. `LimitOK` counts: an ad set that never outgrew the limit is fetched whole. |
| `ConversionsTypeOK`, `ConversionsAcceptedIsTrue` | any pushes | `AnswersTrue`: an answer of acceptance in hand is of an event Meta has |
| `ConversionsEventsJustified` | any generates | `FactsRecorded`, `ReadsRecorded`: what a generate holds was once a fact |
| `ConversionsVerdictsAreFinal` | any pushes | the types: a push takes up pending events only, and a crash empties its hands (`HandsChange`, `SettledStays`) |
| `ConversionsLedger` | any generates and pushes | `InHandOpen`: what a push has in hand is still open, or is shared with another, which can overwrite a verdict |
| `ConversionsOnePusher` | at most one push | nothing is ever shared, so the events implement `Ledger` without exception |
| `IdentityTypeOK`, `IdentityFirstIdentifierDecides` | any calls and failures | `FirstFree`, `FirstMine`: before its first attach a call that was not overtaken still finds its first identifier free, or its own |
| `IdentityNoStrangers` | any payloads | `StrangersInv`: for every closed set also the identifiers a call has in hand are on one side |
| `WorkspaceTypeOK` | any people, requests, crashes | `Held`: at each database call a request has the ids and the tenant it needs, and they were given out before |
| `WorkspaceSignInsAgree` | the same, with any tokens | `Fresh`: a tenant between tenant.create and user.create is nobody's yet and no other request's; `Callers`: the tenant of a token that came with a sign-up has the user it was made for. Without the unique email two users of one address would both be stored. |
| `WorkspaceConnectionsAtHome` | the same, any client named | `Home`: whoever connects has signed in, and the client it found, not one it named, is its tenant's if it is still there |
| `WorkspaceFirstSyncFollows` | the same | none but the types: no step drops a debt, only queue.add pays it and only a failure or a crash writes it off |
| `MetricsTypes`, `MetricsOnlyConnectedDataCounts` | any tables | the types: a floor is NULL or a day, and the earliest of the connect days exists (`LeastNumber`). Each query then filters by the floor it would filter by anyway, query by query. |
| `MetricsModelsAgree` | any tables, ranges, credits | none but the types. Which deals count depends on who was touched and not on which touch has the credit, and the ads of a level divide the same rows (`TotalOfLevel`); so both sums are the sum over the same deals (`SumByKey`). |
| `MetricsReportsAgree` | the same | the same. Tags, campaigns and weeks each divide the same insights, leads and deals (`WholeOfWeeks`); a contact is of one week (`OneVintage`), so a deal counts once; where a lead has lost its ad only the cohorts still have it (`SumSubset`). |
| `MetricsFunnelHolds` | the same | the same. A subset counts no more than its set, and a deal that counts is of a contact with a qualified lead, whose campaign is in the report (`SaleIsOfQualified`). |
| `QrLoginTypeOK`, `QrLoginAnswersAgree` | any polls, approvals, losses, crashes | `LoginsApproved`: whose login is in the key, in a poll's hands or in the page was told ok; `Begins`: before the page has a session nobody has done anything; `PhoneTold`: an answer "approved" on its way to the phone, or on it, is of a session somebody approved, or Google's |
| `QrLoginOneShot` | until requests overlap | `Carries`: a poll holds a login from its look at the key until its answer; `Serial`: without overlap one approval and one poll is at work, and there is one login in all. `OneShot` is refined step by step; a second poll would deliver the login again. |
| `SyncJobsTypeOK` | any accounts, jobs, retries, crashes | `JobsBounded`: a job has started no more often than it was attempted and stalled; without it the numbers of the run rows run out |
| `SyncJobsRunsTell`, `SyncJobsBadgeTells` | the same | `WorkerKnows`: at each step what the worker holds, and that its job is active; `RunsFollow`, `BadgeFollows`: at which step row and badge are RUNNING, also after the account was removed or imported again |
| `WebReadsOwnWrites` | any rows, stale time, late answers | `OldAnswerPolls`: an answer that is too old to show the write is followed by an invalidation or a poll |
| `WebShowsAsChosen` | any choices and days | `ReportsTell`: what is cached or answered under a key is the report of every choice with that key |
| `WebKeepsUnedited` | any stages and other users | `DataFollows`, `AnswerFollows`, `CopyFollows`, `SaveFollows`: data, answer, copy and body each differ from the table only where it was written since |
| `WebAttributedLeave` | any leads, any runs of the engine at once | `Attributed`: a lead attributed and not put back is out of review; `QueueFollows`, `RateFollows`: unless something was lost, an answer about to be taken, and data that is not asked for again, leave out every such lead |
| `WebTypes` | all pages | the invariants of the four pages, which contain their types |
| `SessionTypes`, `SessionHeaderAgrees`, `SessionForeignIsRecent` | any users, tokens, tabs | `AskedWithTokens`, `ForeignRequestsAreLent`: a request is sent with some token, and one sent with the token of somebody else found the page like that |

The type invariants of QrLogin, SyncJobs, Session and the web pages are checked in their runs and
proved; those of Matching, CrmSync, Conversions, Identity, Workspace and Metrics are proved only, and
those of Paging and Ingest are part of their inductive invariants. The pages are proved as one
specification, `WebSpec`, which is the one TLC checks; the invariant of each page is kept by its own
steps and untouched by those of the others (`WebStepOfPages`).

Two folds over data are proved about without an induction over data, whose theorem would take an
operator: a statement that fails for some finite set fails for a smallest one (`SmallestSubset`), and
taking one element away from that gives a smaller one. In `MetricsProofs` this gives that sums exist and
do not depend on the order in which rows are added (`SumsExist`, `SumAny`), that parts add up to the
whole (`SumUnion`, `SumByKey`) and that a sum of ones counts (`SumOfOnes`); in `IdentityProofs`, that
`NormalizeIdentifiers` returns a list of identifiers (`NormalizeReturnsIdentifiers`), on which the types
of Identity rest.

Every invariant and every action property that the passing runs check is stated by a theorem. Only
model-checked is liveness: `RunsEnd`, `SessionEnds`, `JobsEnd`, `TelegramPollEnds` and
`RunningIsFollowed`, because the provers here do not treat fairness or ENABLED.

## 7. What is not modelled

- A second QR session on one desktop: the refresh button
  (`apps/web/src/components/auth/qr-login.tsx:99`) opens another one, and an answer "expired" that is
  late for the first stops the timers of the second.
- A fan-out over several accounts that breaks off between two adds is in `SyncJobs` and its theorems,
  but not in the run, whose one account has one add.
- Two CRMs that use the same deal id: `HomeOf` keeps them apart. What a field of a CRM or of Meta
  translates to is data, a creative's name as well.
- Creatives go with their ads. Their find-then-create relies on the one worker; a second process could
  store a creative twice. Insights beyond spend, and the time zone of Meta's days, which `Ingest` takes
  for the range's.
- The exchange of OAuth codes: HTTP I/O around one upsert.
- Exchange rates. No code writes one, so every amount counts as it is, which is how `Metrics` adds up;
  there is no state for a property of rates. Ratios (CPL, ROAS) and recommendations are arithmetic of
  one row, the journey page only reads.
- The pages that only show what the API returns: lead, overview, landing, languages and themes.
- Website lead capture: one append per call, of a row only the journey reads.
- Encryption, roles, throttling, health, logging: data or I/O without state of their own. That
  decryption can throw is the fault "vault" of SyncJobs.

## 8. Where code and comments disagree

One has a run of its own (`findings` in `PROJECT.json`). `crm_sticky`: the stage history of one window
replaces the stored one, so a deal won in an earlier window and lost in this one is LOST
(`api/ingest/crm-sync.service.ts:163`, `api/crm/canonical.ts:4`).

TLC refutes these as well; each stands in its module's last section with the sentence it translates.
Each is reproduced by putting it in place of the properties of the run given here:

| Definition | Instance | What happens |
|---|---|---|
| `Matching!GuessesNeverCounted` | `matching_queue` | the sibling look-up (`api/matching/matching.service.ts:26`) does not ask for the status, so a guess in REVIEW comes back as a 0.95 PHONE match of another lead of the contact |
| `Matching!ManualSticks` | `matching_queue` | a run that has the lead in its snapshot overwrites the human's choice |
| `Matching!RateCountsAttributed` | `matching_queue` | matched leads of a removed account still count in matchRate |
| `Matching!EdgesAudited` | `matching_alone` | a crash between lead and audit row leaves an edge without one |
| `CrmSync!DealKeepsContact` | `crm_sticky`, `Contacts = {k1}`, `MaxVersion = 2` | contacts are looked up among those of the window (`api/ingest/crm-sync.service.ts:77`), so a deal of an older contact is stored without it |
| `CrmSync!UpdatesCaught` | `ingestion` | an edit between fetch and end of a sync is never fetched |
| `CrmSync!ConnectDayCounts` | `ingestion`, `ConnectedAt = 1`, `DayLength = 2` | a deal of the connect day before the connect instant is outside the first window |
| `CrmSync!RemapShows` | `ingestion` | a sync beside a remap stores deals by the old mapping, or another remap beside it recomputes them with the mapping it had read back before |
| `CrmSync!RemapKeepsOtherCrms` | `crm_sticky`, `Deals = {e1, e2}`, `Conns = {bx, amo}`, `Dtos <- MCOneStage`, `Remaps = {r1}`, `MaxTime = 2`, `MaxVersion = 2` | recanonicalize applies one CRM's mapping to the deals of all |
| `Conversions!OnlyOptedIn` | `conversions` | a pending event is sent after the opt-out |
| `Conversions!VerdictsAgree` | `conversions` | a lost answer is recorded as a rejection |
| `Conversions!OneQualifiedLead` | `conversions` | when the credit moves to another lead of the contact, a second QL event appears |
| `SyncJobs!RunsSettle`, `BadgeSettles` | `jobs` | a crash leaves row and badge RUNNING |
| `SyncJobs!FailuresRecorded` | `jobs` | what fails before the run is opened leaves no row |
| `Identity!OneContactPerPerson` | `identity` | a payload that links two known contacts joins neither |
| `Workspace!OneUserEach` | `workspace` | a sign-up that comes with a token puts the new user into the workspace of the token (`api/prisma/prisma.client.ts:60`, `api/auth/auth.service.ts:25`) and leaves the one just made empty |
| `Workspace!NamedClientsAtHome` | `workspace` | dto.clientId is stored as it comes (`api/ad-accounts/ad-accounts.service.ts:44`, `api/crm/crm.service.ts:27`), so a connection hangs on the client of another tenant |
| `QrLogin!SuccessMeansApproved` | `qr` | the redirect says `done=1` whatever approve returned (`api/auth/auth.controller.ts:91`) |
| `Workspace!OneDefaultClient` | `workspace`, `ByHand = FALSE` | two first connections both find no client and both create one |
| `Workspace!ImportedShows` | `workspace` | an account that another tenant connected is refreshed there, counted as imported and not shown here |

What the models allow and no sentence of the repository speaks of, so that the properties above exempt
it:

- QrLogin, once requests overlap: two polls read the token before one deletes it; an approval that read
  the TTL before a tick writes the session back after it; the second of two approvals replaces the
  first; an approval in the last tick is told ok and expires unread, and so does one whose answer to the
  desktop is lost. On the phone the page may say "expired" after the desktop has signed in
  (`apps/web/src/app/qr/[qrId]/page.tsx:55`), and Google comes back with `done=1` whatever approve
  returned (`api/auth/auth.controller.ts:91`).
- Session: signing out keeps the query client, and no answer of 401 signs out. "Never leave the poll
  running after the page unmounts" (`social-auth.tsx:29`) holds but for a poll that starts after an
  await in which the page went.
- Pages: a sync that starts after the grace window is not shown until something else asks; a connect
  whose answer is lost and that is tried again makes a second CRM connection; an import with a picker
  session that is gone reports success with nothing imported; the first match rate, when on its way at a
  resolve, stays as it came.
- StageDialog: a saved mapping is shown as before the save when the dialog is mounted again within
  `staleTime`, because nothing invalidates its query; saving before the mappings came writes IGNORE for
  every stage.
- Reports: "Last 30 days" is 31 days of UTC when nothing was picked
  (`api/metrics/metrics.controller.ts:50`) and 30 local days as a preset (`date-range-picker.tsx:34`).
- Ingest: days that leave the window of 28 while no sync goes through are never fetched again. The
  nested limit of 500 cuts silently: the comment "(logged below)"
  (`api/connectors/meta/meta.connector.ts:18`) is true of the guard on pages only.
- Paging: a list beyond the guard is cut silently, and `lastSyncAt` moves on.

Found by reading only: `api/metrics/metrics.service.ts:44` speaks of dated exchange rates and `loadFx`
(418) takes the latest one, while no code writes a rate, so that conversion falls back to 1; the floor
of conversions is the connect instant, that of metrics the connect day.

## 9. Plan

1. Done: Matching, CrmSync with Mirror, Conversions with Ledger, Identity, QrLogin with OneShot and the
   phone, SyncJobs, Metrics with creative insights, Workspace, Paging, Ingest, Session and the web
   pages; the proofs of all of these.
2. The safety part of the liveness properties: that a key in Redis never outlives TTL ticks after its
   last write (`SessionEnds`), that the attempts of a job only go down (`JobsEnd`).
3. Two CRMs with one deal id in CrmSync, with the proofs that rest on `HomeOf`.
4. Journey and recommendations as functions of the tables.
