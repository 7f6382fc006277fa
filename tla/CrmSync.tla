------------------------------ MODULE CrmSync ------------------------------
(***************************************************************************)
(* The incremental CRM sync (CrmSyncService.sync, run by CrmSyncProcessor) *)
(* and the remapping of stages (CrmService.setMappings), over a CRM that   *)
(* its users keep editing.                                                 *)
(*                                                                         *)
(* The CRM is external: deals and contacts with a modification time, and   *)
(* the history of the stages of a deal.  A sync asks it only for what      *)
(* changed since the last successful one, in four requests one after the   *)
(* other, and then writes deal by deal; remaps are requests of their own,  *)
(* any number of them at once.  Everything else comes in between any two   *)
(* of these steps.  Leads and the engine run at the end of a sync are in   *)
(* module Matching, the bookkeeping of runs and retries in SyncJobs.       *)
(***************************************************************************)
EXTENDS Naturals, FiniteSets

CONSTANTS
  NONE,            \* SQL NULL / undefined
  Deals, Contacts, \* what CRM users create
  Stages,          \* stages of the pipelines
  Conns,           \* CRM connections of one tenant
  HomeOf,          \* [Deals \cup Contacts -> Conns], the CRM that keeps it
  KeepsHistory,    \* connections whose connector has fetchDealStageHistory
  ConnectedAt,     \* CrmConnection.createdAt
  DayLength,       \* instants in a day
  InitialMapping,  \* [Conns -> [Stages -> Canonical \cup {NONE}]]
  Remaps,          \* PUT mappings requests that may be under way at once
  Dtos,            \* bodies of PUT mappings: sets of pairs <<stage, canonical>>
  MaxTime,         \* bound on the clock
  MaxVersion       \* bound on the edits of a deal

Canonical == {"LEAD", "QUALIFIED", "WON", "LOST", "IGNORE"}

Mapping == [Stages -> Canonical \cup {NONE}]

Time == 0..MaxTime

ASSUME CrmSyncAssumption ==
  /\ NONE \notin Canonical \cup Stages \cup Contacts \cup Conns
  /\ \A t \in Time : t # NONE
  /\ HomeOf \in [Deals \cup Contacts -> Conns]
  /\ KeepsHistory \subseteq Conns
  /\ MaxTime \in Nat
  /\ MaxVersion \in Nat
  /\ ConnectedAt \in Time
  /\ DayLength \in Nat \ {0}
  /\ InitialMapping \in [Conns -> Mapping]
  /\ Dtos \subseteq SUBSET (Stages \X Canonical)

VARIABLES
  now,         \* the clock
  crmDeal,     \* [Deals -> CrmRow], the deals of the CRMs
  crmContact,  \* [Contacts -> Time \cup {NONE}], modification times
  moves,       \* the stage history: triples <<deal, stage, time>>
  mapping,     \* [Conns -> Mapping], StageMapping
  dbDeal,      \* [Deals -> DealRow]
  lastSync,    \* [Conns -> Time \cup {NONE}], CrmConnection.lastSyncAt
  pc,          \* the worker: "idle" | "mappings" | "contacts" | "history" | "deals" | "store"
  conn,        \* the connection being synced
  since,       \* its window
  maps,        \* the mappings loaded
  known,       \* contactByExternal
  hist,        \* histByDeal, as pairs <<deal, stage>>
  rows,        \* fetched deals still to be stored
  rpc,         \* a remap request: "idle" | "rows" | "recanon"
  rconn,       \* its connection
  edits,       \* rows of the dto still to be upserted
  rmaps,       \* the mappings it read back
  todo,        \* deals it still has to recanonicalize
  late,        \* (history) deals last edited after the running sync had fetched deals,
               \* or at the very instant of lastSync
  quiet,       \* (history) remaps under way with no other remap beside them so far and
               \* no sync of their connection
  settled      \* (history) connections whose last word was such a remap, with no other since

crmVars == <<now, crmDeal, crmContact, moves>>
syncVars == <<pc, conn, since, maps, known, hist, rows>>
remapVars == <<rpc, rconn, edits, rmaps, todo>>
vars == <<now, crmDeal, crmContact, moves, mapping, dbDeal, lastSync,
          pc, conn, since, maps, known, hist, rows,
          rpc, rconn, edits, rmaps, todo, late, quiet, settled>>

\* ver counts the edits of a deal, 0 before it exists; the code has no such column,
\* it names the version a stored row was copied from.
CrmRow == [ver : 0..MaxVersion, born : Time, mod : Time,
           stage : Stages \cup {NONE}, contact : Contacts \cup {NONE}]

DealRow == [ver : 0..MaxVersion, stage : Stages \cup {NONE}, stages : SUBSET Stages,
            canonical : Canonical \cup {NONE}, contact : Contacts \cup {NONE}]

RawDeal == [id : Deals, ver : 0..MaxVersion, stage : Stages \cup {NONE},
            contact : Contacts \cup {NONE}]

NoDeal == [ver |-> 0, stage |-> NONE, stages |-> {}, canonical |-> NONE, contact |-> NONE]

Unmapped == [s \in Stages |-> NONE]

DayOf(t) == t \div DayLength

\* before: the day-granular gate at the connection date.
Before(d) == DayOf(crmDeal[d].born) < DayOf(ConnectedAt)

Stored == {d \in Deals : dbDeal[d].ver > 0}

-----------------------------------------------------------------------------
\* rollupCanonical.
Rollup(stages, m, current) ==
  LET reached == {m[s] : s \in stages}
  IN  IF "WON" \in reached THEN "WON"
      ELSE IF "QUALIFIED" \in reached THEN "QUALIFIED"
      ELSE IF m[current] = NONE THEN "LEAD" ELSE m[current]

-----------------------------------------------------------------------------
Init ==
  /\ now = 0
  /\ crmDeal = [d \in Deals |-> [ver |-> 0, born |-> 0, mod |-> 0,
                                 stage |-> NONE, contact |-> NONE]]
  /\ crmContact = [k \in Contacts |-> NONE]
  /\ moves = {}
  /\ mapping = InitialMapping
  /\ dbDeal = [d \in Deals |-> NoDeal]
  /\ lastSync = [c \in Conns |-> NONE]
  /\ pc = "idle" /\ conn = NONE /\ since = 0 /\ maps = Unmapped
  /\ known = {} /\ hist = {} /\ rows = {}
  /\ rpc = [r \in Remaps |-> "idle"] /\ rconn = [r \in Remaps |-> NONE]
  /\ edits = [r \in Remaps |-> {}] /\ rmaps = [r \in Remaps |-> Unmapped]
  /\ todo = [r \in Remaps |-> {}]
  /\ late = {} /\ quiet = {} /\ settled = Conns

-----------------------------------------------------------------------------
(* The CRM and its users.                                                  *)

Tick ==
  /\ now < MaxTime
  /\ now' = now + 1
  /\ UNCHANGED <<crmDeal, crmContact, moves, mapping, dbDeal, lastSync, late, quiet, settled>>
  /\ UNCHANGED syncVars /\ UNCHANGED remapVars

\* A contact is created, or edited.
SaveContact(k) ==
  /\ crmContact' = [crmContact EXCEPT ![k] = now]
  /\ UNCHANGED <<now, crmDeal, moves, mapping, dbDeal, lastSync, late, quiet, settled>>
  /\ UNCHANGED syncVars /\ UNCHANGED remapVars

ContactsFor(d) == {k \in Contacts : crmContact[k] # NONE /\ HomeOf[k] = HomeOf[d]} \cup {NONE}

\* A deal is created, or edited: its stage, its contact or something else.
SaveDeal(d, s, k) ==
  /\ crmDeal[d].ver < MaxVersion
  /\ k \in ContactsFor(d)
  /\ crmDeal' = [crmDeal EXCEPT ![d] =
       [ver     |-> crmDeal[d].ver + 1,
        born    |-> IF crmDeal[d].ver = 0 THEN now ELSE crmDeal[d].born,
        mod     |-> now, stage |-> s, contact |-> k]]
  /\ moves' = IF s = crmDeal[d].stage THEN moves ELSE moves \cup {<<d, s, now>>}
  /\ late' = IF (pc = "store" /\ conn = HomeOf[d]) \/ lastSync[HomeOf[d]] = now
             THEN late \cup {d} ELSE late \ {d}
  /\ UNCHANGED <<now, crmContact, mapping, dbDeal, lastSync, quiet, settled>>
  /\ UNCHANGED syncVars /\ UNCHANGED remapVars

-----------------------------------------------------------------------------
(* The sync.                                                               *)

\* CrmSyncProcessor.process: the window starts at the last successful sync.
StartSync(c) ==
  /\ pc = "idle"
  /\ now >= ConnectedAt
  /\ pc' = "mappings"
  /\ conn' = c
  /\ since' = IF lastSync[c] = NONE THEN ConnectedAt ELSE lastSync[c]
  /\ quiet' = {r \in quiet : rconn[r] # c}
  /\ UNCHANGED <<mapping, dbDeal, lastSync, maps, known, hist, rows, late, settled>>
  /\ UNCHANGED crmVars /\ UNCHANGED remapVars

LoadMappings ==
  /\ pc = "mappings"
  /\ maps' = mapping[conn]
  /\ pc' = "contacts"
  /\ UNCHANGED <<mapping, dbDeal, lastSync, conn, since, known, hist, rows, late, quiet, settled>>
  /\ UNCHANGED crmVars /\ UNCHANGED remapVars

\* crm.contact.list, DATE_MODIFY > since, and ContactResolver for each.
FetchContacts ==
  /\ pc = "contacts"
  /\ known' = {k \in Contacts : HomeOf[k] = conn /\ crmContact[k] # NONE /\ crmContact[k] > since}
  /\ pc' = "history"
  /\ UNCHANGED <<mapping, dbDeal, lastSync, conn, since, maps, hist, rows, late, quiet, settled>>
  /\ UNCHANGED crmVars /\ UNCHANGED remapVars

\* crm.stagehistory.list, CREATED_TIME >= since.
FetchHistory ==
  /\ pc = "history"
  /\ hist' = IF conn \in KeepsHistory
             THEN {<<m[1], m[2]>> : m \in {x \in moves : HomeOf[x[1]] = conn /\ x[3] >= since}}
             ELSE {}
  /\ pc' = "deals"
  /\ UNCHANGED <<mapping, dbDeal, lastSync, conn, since, maps, known, rows, late, quiet, settled>>
  /\ UNCHANGED crmVars /\ UNCHANGED remapVars

Raw(d) == [id |-> d, ver |-> crmDeal[d].ver, stage |-> crmDeal[d].stage,
           contact |-> crmDeal[d].contact]

Changed(d) == HomeOf[d] = conn /\ crmDeal[d].ver > 0 /\ crmDeal[d].mod > since

\* Mutant: no gate at the connection date.
FetchDealsUngated ==
  /\ pc = "deals"
  /\ rows' = {Raw(d) : d \in {x \in Deals : Changed(x)}}
  /\ pc' = "store"
  /\ UNCHANGED <<mapping, dbDeal, lastSync, conn, since, maps, known, hist, late, quiet, settled>>
  /\ UNCHANGED crmVars /\ UNCHANGED remapVars

\* crm.deal.list, DATE_MODIFY > since, less what the gate leaves out.
FetchDeals ==
  /\ pc = "deals"
  /\ rows' = {Raw(d) : d \in {x \in Deals : Changed(x) /\ ~Before(x)}}
  /\ pc' = "store"
  /\ UNCHANGED <<mapping, dbDeal, lastSync, conn, since, maps, known, hist, late, quiet, settled>>
  /\ UNCHANGED crmVars /\ UNCHANGED remapVars

StagesOf(row) == {row.stage} \cup {h[2] : h \in {x \in hist : x[1] = row.id}}

\* One turn of the loop: rollup, contact lookup, upsertDeal.
StoreDeal ==
  /\ pc = "store"
  /\ \E row \in rows :
       /\ dbDeal' = [dbDeal EXCEPT ![row.id] =
            [ver       |-> row.ver, stage |-> row.stage, stages |-> StagesOf(row),
             canonical |-> Rollup(StagesOf(row), maps, row.stage),
             contact   |-> IF row.contact \in known THEN row.contact ELSE NONE]]
       /\ rows' = rows \ {row}
       /\ late' = IF row.ver = crmDeal[row.id].ver THEN late \ {row.id} ELSE late
  /\ UNCHANGED <<mapping, lastSync, pc, conn, since, maps, known, hist, quiet, settled>>
  /\ UNCHANGED crmVars /\ UNCHANGED remapVars

DropSync ==
  /\ pc' = "idle" /\ conn' = NONE /\ since' = 0 /\ maps' = Unmapped
  /\ known' = {} /\ hist' = {} /\ rows' = {}

FinishSync ==
  /\ pc = "store"
  /\ rows = {}
  /\ lastSync' = [lastSync EXCEPT ![conn] = now]
  /\ DropSync
  /\ UNCHANGED <<mapping, dbDeal, late, quiet, settled>>
  /\ UNCHANGED crmVars /\ UNCHANGED remapVars

\* Mutant: the window advances in a "finally".
SyncFailsAdvancing ==
  /\ pc # "idle"
  /\ lastSync' = [lastSync EXCEPT ![conn] = now]
  /\ DropSync
  /\ UNCHANGED <<mapping, dbDeal, late, quiet, settled>>
  /\ UNCHANGED crmVars /\ UNCHANGED remapVars

\* A request or a query fails, or the process dies: what is stored stays, the
\* window does not move.
SyncFails ==
  /\ pc # "idle"
  /\ DropSync
  /\ UNCHANGED <<mapping, dbDeal, lastSync, late, quiet, settled>>
  /\ UNCHANGED crmVars /\ UNCHANGED remapVars

-----------------------------------------------------------------------------
(* setMappings.  Nothing keeps two requests apart: each goes its own way.   *)

Running == {r \in Remaps : rpc[r] # "idle"}

\* Any remap recomputes the deals of every connection, so it unsettles them all.
StartRemap(r, c, dto) ==
  /\ rpc[r] = "idle"
  /\ now >= ConnectedAt
  /\ rpc' = [rpc EXCEPT ![r] = "rows"]
  /\ rconn' = [rconn EXCEPT ![r] = c]
  /\ edits' = [edits EXCEPT ![r] = dto]
  /\ quiet' = IF Running = {} /\ conn # c THEN {r} ELSE {}
  /\ settled' = {}
  /\ UNCHANGED <<mapping, dbDeal, lastSync, rmaps, todo, late>>
  /\ UNCHANGED crmVars /\ UNCHANGED syncVars

RemapRow(r) ==
  /\ rpc[r] = "rows"
  /\ \E e \in edits[r] : /\ mapping' = [mapping EXCEPT ![rconn[r]][e[1]] = e[2]]
                         /\ edits' = [edits EXCEPT ![r] = @ \ {e}]
  /\ UNCHANGED <<dbDeal, lastSync, rpc, rconn, rmaps, todo, late, quiet, settled>>
  /\ UNCHANGED crmVars /\ UNCHANGED syncVars

\* recanonicalize reads the mappings back, and the deals of the whole tenant.
ReadBack(r) ==
  /\ rpc[r] = "rows"
  /\ edits[r] = {}
  /\ rmaps' = [rmaps EXCEPT ![r] = mapping[rconn[r]]]
  /\ todo' = [todo EXCEPT ![r] =
       {[id |-> d, stage |-> dbDeal[d].stage, stages |-> dbDeal[d].stages] : d \in Stored}]
  /\ rpc' = [rpc EXCEPT ![r] = "recanon"]
  /\ UNCHANGED <<mapping, dbDeal, lastSync, rconn, edits, late, quiet, settled>>
  /\ UNCHANGED crmVars /\ UNCHANGED syncVars

\* Mutant: only the current stage counts.
RecanonicalizeCurrent(r) ==
  /\ rpc[r] = "recanon"
  /\ \E t \in todo[r] :
       /\ dbDeal' = [dbDeal EXCEPT ![t.id].canonical = Rollup({t.stage}, rmaps[r], t.stage)]
       /\ todo' = [todo EXCEPT ![r] = @ \ {t}]
  /\ UNCHANGED <<mapping, lastSync, rpc, rconn, edits, rmaps, late, quiet, settled>>
  /\ UNCHANGED crmVars /\ UNCHANGED syncVars

\* One turn of its loop.  A stored history is never empty, StoreDeal saw to that.
Recanonicalize(r) ==
  /\ rpc[r] = "recanon"
  /\ \E t \in todo[r] :
       /\ dbDeal' = [dbDeal EXCEPT ![t.id].canonical = Rollup(t.stages, rmaps[r], t.stage)]
       /\ todo' = [todo EXCEPT ![r] = @ \ {t}]
  /\ UNCHANGED <<mapping, lastSync, rpc, rconn, edits, rmaps, late, quiet, settled>>
  /\ UNCHANGED crmVars /\ UNCHANGED syncVars

DropRemap(r) ==
  /\ rpc' = [rpc EXCEPT ![r] = "idle"]
  /\ rconn' = [rconn EXCEPT ![r] = NONE]
  /\ edits' = [edits EXCEPT ![r] = {}]
  /\ rmaps' = [rmaps EXCEPT ![r] = Unmapped]
  /\ todo' = [todo EXCEPT ![r] = {}]
  /\ quiet' = quiet \ {r}

EndRemap(r) ==
  /\ rpc[r] = "recanon"
  /\ todo[r] = {}
  /\ settled' = IF r \in quiet THEN settled \cup {rconn[r]} ELSE settled
  /\ DropRemap(r)
  /\ UNCHANGED <<mapping, dbDeal, lastSync, late>>
  /\ UNCHANGED crmVars /\ UNCHANGED syncVars

\* The request fails half way, or the process dies: rows upserted stay.
RemapFails(r) ==
  /\ rpc[r] # "idle"
  /\ DropRemap(r)
  /\ UNCHANGED <<mapping, dbDeal, lastSync, late, settled>>
  /\ UNCHANGED crmVars /\ UNCHANGED syncVars

-----------------------------------------------------------------------------
Next ==
  \/ Tick
  \/ \E k \in Contacts : SaveContact(k)
  \/ \E d \in Deals, s \in Stages, k \in Contacts \cup {NONE} : SaveDeal(d, s, k)
  \/ \E c \in Conns : StartSync(c)
  \/ LoadMappings \/ FetchContacts \/ FetchHistory \/ FetchDeals
  \/ StoreDeal \/ FinishSync \/ SyncFails
  \/ \E r \in Remaps, c \in Conns, dto \in Dtos : StartRemap(r, c, dto)
  \/ \E r \in Remaps : RemapRow(r) \/ ReadBack(r) \/ Recanonicalize(r) \/ EndRemap(r) \/ RemapFails(r)

Spec == Init /\ [][Next]_vars

-----------------------------------------------------------------------------
TypeOK ==
  /\ now \in Time
  /\ crmDeal \in [Deals -> CrmRow]
  /\ crmContact \in [Contacts -> Time \cup {NONE}]
  /\ moves \subseteq Deals \X Stages \X Time
  /\ mapping \in [Conns -> Mapping]
  /\ dbDeal \in [Deals -> DealRow]
  /\ lastSync \in [Conns -> Time \cup {NONE}]
  /\ pc \in {"idle", "mappings", "contacts", "history", "deals", "store"}
  /\ conn \in Conns \cup {NONE}
  /\ since \in Time
  /\ maps \in Mapping
  /\ known \subseteq Contacts
  /\ hist \subseteq Deals \X Stages
  /\ rows \subseteq RawDeal
  /\ rpc \in [Remaps -> {"idle", "rows", "recanon"}]
  /\ rconn \in [Remaps -> Conns \cup {NONE}]
  /\ edits \in [Remaps -> SUBSET (Stages \X Canonical)]
  /\ rmaps \in [Remaps -> Mapping]
  /\ todo \in [Remaps -> SUBSET [id : Deals, stage : Stages, stages : SUBSET Stages]]
  /\ late \subseteq Deals
  /\ quiet \subseteq Remaps
  /\ settled \subseteq Conns
  /\ \A d \in Stored : dbDeal[d].canonical \in Canonical /\ dbDeal[d].stage \in Stages

\* A deal a sync is responsible for: the gate lets it through, and it was edited
\* after the connection and not after the last successful sync.
Due(d) ==
  /\ crmDeal[d].ver > 0 /\ ~Before(d)
  /\ lastSync[HomeOf[d]] # NONE
  /\ ConnectedAt < crmDeal[d].mod /\ crmDeal[d].mod <= lastSync[HomeOf[d]]

\* Failed syncs, retries and partly stored fetches lose nothing: a deal edited
\* before the last successful sync is stored as the CRM has it, unless the edit
\* came after that sync had fetched the deals.  That interval is the only leak.
NothingElseSlips ==
  \A d \in Deals : Due(d) /\ d \notin late => dbDeal[d].ver = crmDeal[d].ver

\* Once a remap of a connection ran with no other remap beside it and no sync of that
\* connection, and until the next remap of any connection, through all the syncs that
\* follow, every deal of the connection has the status its stored history earns under
\* the current mapping.
MappingsSettle ==
  \A d \in Stored : HomeOf[d] \in settled =>
    dbDeal[d].canonical = Rollup(dbDeal[d].stages, mapping[HomeOf[d]], dbDeal[d].stage)

\* The sync as a mirror: rows are versions the CRM had, they never go back, and
\* deals from before the connection are never stored.
M == INSTANCE Mirror WITH
       Objects <- Deals,
       source  <- [d \in Deals |-> crmDeal[d].ver],
       gated   <- {d \in Deals : crmDeal[d].ver > 0 /\ Before(d)},
       copy    <- [d \in Deals |-> dbDeal[d].ver]

DealsMirrored == M!Spec

-----------------------------------------------------------------------------
(* What comments of the repository say and the code does not keep.         *)

\* "if the deal was *ever* in a won/qualifying stage it stays won/qualified even
\* after it moves on (e.g. to Lost)" (canonical.ts:4).
WonIsSticky ==
  [][\A d \in Deals : dbDeal[d].canonical = "WON" => dbDeal'[d].canonical = "WON"]_vars

\* "Contacts are NOT gated - a post-connection deal may reference an
\* earlier-created contact" (crm-sync.service.ts:36): a stored deal has the
\* contact the CRM gives it, when the contact is older than the deal.
DealKeepsContact ==
  \A d \in Stored :
    /\ dbDeal[d].ver = crmDeal[d].ver
    /\ crmDeal[d].contact # NONE
    /\ crmContact[crmDeal[d].contact] < crmDeal[d].born
    => dbDeal[d].contact = crmDeal[d].contact

\* "Incremental window (catch updates)" (crm-sync.processor.ts:45).
UpdatesCaught == \A d \in Deals : Due(d) => dbDeal[d].ver = crmDeal[d].ver

\* "Day-granular so the connect day counts" (crm-sync.service.ts:35).
ConnectDayCounts ==
  \A d \in Deals :
    /\ crmDeal[d].ver = 1 /\ DayOf(crmDeal[d].born) = DayOf(ConnectedAt)
    /\ crmDeal[d].born < ConnectedAt
    /\ lastSync[HomeOf[d]] # NONE
    => d \in Stored

\* "Re-canonicalizes existing deals immediately so the change shows up in metrics
\* without waiting for a re-sync" (crm.service.ts:83).  A sync beside it, or another
\* remap beside it, leaves deals on the older mapping when it ends.
RemapShows ==
  [][\A r \in Remaps : EndRemap(r) => \A d \in Stored : HomeOf[d] = rconn[r] =>
       dbDeal[d].canonical = Rollup(dbDeal[d].stages, mapping[rconn[r]], dbDeal[d].stage)]_vars

\* "remap any stage without losing data" (crm.service.ts:83): remapping one CRM
\* leaves the deals of another alone.
RemapKeepsOtherCrms ==
  [][\A r \in Remaps : Recanonicalize(r) => \A d \in Stored : HomeOf[d] # rconn[r] =>
       dbDeal'[d].canonical = dbDeal[d].canonical]_vars
=============================================================================
