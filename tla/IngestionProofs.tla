-------------------------- MODULE IngestionProofs --------------------------
(***************************************************************************)
(* Proofs about ingestion.  CrmSync, for every set of deals, contacts,     *)
(* stages and CRMs and every bound of the clock and of the edits; Paging,  *)
(* for every set of records and every page size and guard; Ingest, for     *)
(* every finite set of ads and every limit, window and number of syncs.    *)
(***************************************************************************)
EXTENDS CrmSync, Paging, Ingest, FiniteSetTheorems, TLAPS

-----------------------------------------------------------------------------
(* Types, with what the worker and the remap requests hold.                *)

\* One step of a remap request.
RemapStep ==
  \/ \E r \in Remaps, c \in Conns, dto \in Dtos : StartRemap(r, c, dto)
  \/ \E r \in Remaps : RemapRow(r) \/ ReadBack(r) \/ Recanonicalize(r) \/ EndRemap(r) \/ RemapFails(r)

\* A sync under way has a connection and only rows of deals that exist.
HandsOK ==
  /\ (pc # "idle" => conn \in Conns)
  /\ \A r \in Remaps : rpc[r] # "idle" => rconn[r] \in Conns
  /\ \A d \in Deals : crmDeal[d].ver > 0 => crmDeal[d].stage \in Stages
  /\ \A row \in rows : row.ver > 0 /\ row.stage \in Stages

TypeInv == TypeOK /\ HandsOK

\* rollupCanonical always finds a status.
LEMMA RollupIsCanonical ==
  ASSUME NEW S \in SUBSET Stages, NEW m \in Mapping, NEW s \in Stages
  PROVE  Rollup(S, m, s) \in Canonical
  BY DEF Rollup, Mapping, Canonical

LEMMA UnmappedIsMapping == Unmapped \in Mapping
  BY DEF Unmapped, Mapping

LEMMA InitTypeInv == Init => TypeInv
<1> SUFFICES ASSUME Init PROVE TypeInv
  OBVIOUS
<1>1. TypeOK
  <2>1. 0 \in Time /\ 0 \in 0..MaxVersion
    BY CrmSyncAssumption DEF Time
  <2>2. crmDeal \in [Deals -> CrmRow]
    BY <2>1 DEF Init, CrmRow
  <2>3. dbDeal \in [Deals -> DealRow] /\ Stored = {}
    BY <2>1 DEF Init, DealRow, NoDeal, Stored
  <2>4. mapping \in [Conns -> Mapping]
    BY CrmSyncAssumption DEF Init
  <2> QED
    BY <2>1, <2>2, <2>3, <2>4, UnmappedIsMapping DEF Init, TypeOK
<1>2. HandsOK
  BY <1>1 DEF Init, HandsOK
<1> QED
  BY <1>1, <1>2 DEF TypeInv

\* What the users of the CRM do.
LEMMA CrmKeepsTypeInv ==
  ASSUME TypeInv
  PROVE  /\ (Tick => TypeInv')
         /\ \A k \in Contacts : SaveContact(k) => TypeInv'
         /\ \A d \in Deals, s \in Stages, k \in Contacts \cup {NONE} : SaveDeal(d, s, k) => TypeInv'
<1> USE DEF TypeInv, syncVars, remapVars
<1>1. ASSUME Tick PROVE TypeInv'
  <2>1. now' \in Time
    BY <1>1, CrmSyncAssumption DEF Tick, TypeOK, Time
  <2> QED
    BY <1>1, <2>1 DEF Tick, TypeOK, HandsOK, Stored
<1>2. ASSUME NEW k \in Contacts, SaveContact(k) PROVE TypeInv'
  BY <1>2 DEF SaveContact, TypeOK, HandsOK, Stored
<1>3. ASSUME NEW d \in Deals, NEW s \in Stages, NEW k \in Contacts \cup {NONE}, SaveDeal(d, s, k)
      PROVE  TypeInv'
  <2>1. crmDeal[d].ver + 1 \in 0..MaxVersion /\ crmDeal[d].born \in Time /\ now \in Time
    BY <1>3, CrmSyncAssumption DEF SaveDeal, TypeOK, CrmRow
  <2>2. crmDeal' \in [Deals -> CrmRow]
    BY <1>3, <2>1 DEF SaveDeal, TypeOK, CrmRow
  <2>3. TypeOK'
    BY <1>3, <2>1, <2>2 DEF SaveDeal, TypeOK, Stored
  <2>4. \A x \in Deals : crmDeal'[x].ver > 0 => crmDeal'[x].stage \in Stages
    BY <1>3 DEF SaveDeal, HandsOK, TypeOK
  <2> QED
    BY <1>3, <2>3, <2>4 DEF SaveDeal, HandsOK
<1> QED
  BY <1>1, <1>2, <1>3

LEMMA SyncKeepsTypeInv ==
  ASSUME TypeInv
  PROVE  /\ \A c \in Conns : StartSync(c) => TypeInv'
         /\ (LoadMappings \/ FetchContacts \/ FetchHistory \/ FetchDeals => TypeInv')
         /\ (StoreDeal \/ FinishSync \/ SyncFails => TypeInv')
<1> USE DEF TypeInv, crmVars, remapVars
<1>1. ASSUME NEW c \in Conns, StartSync(c) PROVE TypeInv'
  <2>1. since' \in Time
    BY <1>1, CrmSyncAssumption DEF StartSync, TypeOK
  <2> QED
    BY <1>1, <2>1 DEF StartSync, TypeOK, HandsOK, Stored
<1>2. CASE LoadMappings
  BY <1>2 DEF LoadMappings, TypeOK, HandsOK, Stored
<1>3. CASE FetchContacts
  BY <1>3 DEF FetchContacts, TypeOK, HandsOK, Stored
<1>4. CASE FetchHistory
  <2>1. hist' \subseteq Deals \X Stages
    BY <1>4 DEF FetchHistory, TypeOK
  <2> QED
    BY <1>4, <2>1 DEF FetchHistory, TypeOK, HandsOK, Stored
<1>5. CASE FetchDeals
  <2>1. \A d \in Deals : Raw(d) \in RawDeal
    BY DEF Raw, RawDeal, TypeOK, CrmRow
  <2>2. \A d \in Deals : Changed(d) => Raw(d).ver > 0 /\ Raw(d).stage \in Stages
    BY DEF Raw, Changed, HandsOK
  <2>3. rows' \subseteq RawDeal /\ \A row \in rows' : row.ver > 0 /\ row.stage \in Stages
    BY <1>5, <2>1, <2>2 DEF FetchDeals
  <2> QED
    BY <1>5, <2>3 DEF FetchDeals, TypeOK, HandsOK, Stored
<1>6. CASE StoreDeal
  <2>1. PICK row \in rows :
          /\ dbDeal' = [dbDeal EXCEPT ![row.id] =
               [ver       |-> row.ver, stage |-> row.stage, stages |-> StagesOf(row),
                canonical |-> Rollup(StagesOf(row), maps, row.stage),
                contact   |-> IF row.contact \in known THEN row.contact ELSE NONE]]
          /\ rows' = rows \ {row}
          /\ late' = IF row.ver = crmDeal[row.id].ver THEN late \ {row.id} ELSE late
    BY <1>6 DEF StoreDeal
  <2>2. row \in RawDeal /\ row.id \in Deals /\ row.ver \in 0..MaxVersion /\ row.ver > 0
        /\ row.stage \in Stages
    BY <2>1 DEF TypeOK, HandsOK, RawDeal
  <2>3. StagesOf(row) \subseteq Stages
    BY <2>2 DEF StagesOf, TypeOK
  <2>4. Rollup(StagesOf(row), maps, row.stage) \in Canonical
    BY <2>2, <2>3, RollupIsCanonical DEF TypeOK
  <2>5. dbDeal' \in [Deals -> DealRow]
    BY <2>1, <2>2, <2>3, <2>4 DEF TypeOK, DealRow
  <2>6. \A d \in Deals : dbDeal'[d].ver > 0 =>
          dbDeal'[d].canonical \in Canonical /\ dbDeal'[d].stage \in Stages
    BY <2>1, <2>2, <2>4 DEF TypeOK, Stored
  <2> QED
    BY <1>6, <2>1, <2>5, <2>6 DEF StoreDeal, TypeOK, HandsOK, Stored
<1>7. CASE FinishSync
  <2>1. lastSync' \in [Conns -> Time \cup {NONE}]
    BY <1>7 DEF FinishSync, TypeOK
  <2> QED
    BY <1>7, <2>1, UnmappedIsMapping, CrmSyncAssumption
       DEF FinishSync, DropSync, TypeOK, HandsOK, Stored, Time
<1>8. CASE SyncFails
  BY <1>8, UnmappedIsMapping, CrmSyncAssumption
     DEF SyncFails, DropSync, TypeOK, HandsOK, Stored, Time
<1> QED
  BY <1>1, <1>2, <1>3, <1>4, <1>5, <1>6, <1>7, <1>8

LEMMA RemapKeepsTypeInv == ASSUME TypeInv, RemapStep PROVE TypeInv'
<1> USE DEF TypeInv, crmVars, syncVars
<1>1. ASSUME NEW r \in Remaps, NEW c \in Conns, NEW dto \in Dtos, StartRemap(r, c, dto) PROVE TypeInv'
  <2>1. dto \in SUBSET (Stages \X Canonical)
    BY CrmSyncAssumption
  <2>2. quiet' \subseteq Remaps
    BY <1>1 DEF StartRemap
  <2> QED
    BY <1>1, <2>1, <2>2 DEF StartRemap, TypeOK, HandsOK, Stored
<1>2. ASSUME NEW r \in Remaps, RemapRow(r) PROVE TypeInv'
  <2>1. PICK e \in edits[r] : /\ mapping' = [mapping EXCEPT ![rconn[r]][e[1]] = e[2]]
                              /\ edits' = [edits EXCEPT ![r] = @ \ {e}]
    BY <1>2 DEF RemapRow
  <2>2. e[2] \in Canonical
    BY DEF TypeOK
  <2>3. mapping' \in [Conns -> Mapping]
    BY <2>1, <2>2 DEF TypeOK, Mapping
  <2>4. edits' \in [Remaps -> SUBSET (Stages \X Canonical)]
    BY <2>1 DEF TypeOK
  <2> QED
    BY <1>2, <2>3, <2>4 DEF RemapRow, TypeOK, HandsOK, Stored
<1>3. ASSUME NEW r \in Remaps, ReadBack(r) PROVE TypeInv'
  <2>1. rmaps' \in [Remaps -> Mapping]
    BY <1>3 DEF ReadBack, TypeOK, HandsOK
  <2>2. {[id |-> d, stage |-> dbDeal[d].stage, stages |-> dbDeal[d].stages] : d \in Stored}
          \in SUBSET [id : Deals, stage : Stages, stages : SUBSET Stages]
    BY DEF TypeOK, Stored, DealRow
  <2>3. todo' \in [Remaps -> SUBSET [id : Deals, stage : Stages, stages : SUBSET Stages]]
    BY <1>3, <2>2 DEF ReadBack, TypeOK
  <2>4. \A q \in Remaps : rpc'[q] # "idle" => rpc[q] # "idle"
    BY <1>3 DEF ReadBack, TypeOK
  <2>5. rpc' \in [Remaps -> {"idle", "rows", "recanon"}]
    BY <1>3 DEF ReadBack, TypeOK
  <2> QED
    BY <1>3, <2>1, <2>3, <2>4, <2>5 DEF ReadBack, TypeOK, HandsOK, Stored
<1>4. ASSUME NEW r \in Remaps, Recanonicalize(r) PROVE TypeInv'
  <2>1. PICK t \in todo[r] :
          /\ dbDeal' = [dbDeal EXCEPT ![t.id].canonical = Rollup(t.stages, rmaps[r], t.stage)]
          /\ todo' = [todo EXCEPT ![r] = @ \ {t}]
    BY <1>4 DEF Recanonicalize
  <2>2. t \in [id : Deals, stage : Stages, stages : SUBSET Stages] /\ rmaps[r] \in Mapping
    BY DEF TypeOK
  <2>3. t.id \in Deals /\ Rollup(t.stages, rmaps[r], t.stage) \in Canonical
    BY <2>2, RollupIsCanonical
  <2>4. \A x \in DealRow, v \in Canonical :
          /\ [x EXCEPT !.canonical = v] \in DealRow
          /\ [x EXCEPT !.canonical = v].canonical = v
          /\ [x EXCEPT !.canonical = v].ver = x.ver
          /\ [x EXCEPT !.canonical = v].stage = x.stage
    BY DEF DealRow
  <2>5. dbDeal' \in [Deals -> DealRow]
    BY <2>1, <2>3, <2>4 DEF TypeOK
  <2>6. \A d \in Deals : dbDeal'[d].ver > 0 =>
          dbDeal'[d].canonical \in Canonical /\ dbDeal'[d].stage \in Stages
    BY <2>1, <2>3, <2>4 DEF TypeOK, Stored
  <2>7. todo' \in [Remaps -> SUBSET [id : Deals, stage : Stages, stages : SUBSET Stages]]
    BY <2>1 DEF TypeOK
  <2> QED
    BY <1>4, <2>5, <2>6, <2>7 DEF Recanonicalize, TypeOK, HandsOK, Stored
<1>5. ASSUME NEW r \in Remaps, DropRemap(r), UNCHANGED <<mapping, dbDeal, lastSync, late>>,
             settled' \subseteq Conns, UNCHANGED crmVars, UNCHANGED syncVars
      PROVE  TypeInv'
  <2>1. /\ rpc' \in [Remaps -> {"idle", "rows", "recanon"}]
        /\ rconn' \in [Remaps -> Conns \cup {NONE}]
        /\ edits' \in [Remaps -> SUBSET (Stages \X Canonical)]
        /\ rmaps' \in [Remaps -> Mapping]
        /\ quiet' \subseteq Remaps
    BY <1>5, UnmappedIsMapping DEF DropRemap, TypeOK
  <2>2. todo' \in [Remaps -> SUBSET [id : Deals, stage : Stages, stages : SUBSET Stages]]
    BY <1>5 DEF DropRemap, TypeOK
  <2>3. \A q \in Remaps : rpc'[q] # "idle" => q # r /\ rpc[q] # "idle" /\ rconn'[q] = rconn[q]
    BY <1>5 DEF DropRemap, TypeOK
  <2> QED
    BY <1>5, <2>1, <2>2, <2>3 DEF TypeOK, HandsOK, Stored
<1>6. ASSUME NEW r \in Remaps, EndRemap(r) PROVE TypeInv'
  <2>1. settled' \subseteq Conns
    BY <1>6 DEF EndRemap, TypeOK, HandsOK
  <2> QED
    BY <1>5, <1>6, <2>1 DEF EndRemap
<1>7. ASSUME NEW r \in Remaps, RemapFails(r) PROVE TypeInv'
  BY <1>5, <1>7 DEF RemapFails, TypeOK
<1> QED
  BY <1>1, <1>2, <1>3, <1>4, <1>6, <1>7 DEF RemapStep

LEMMA NextTypeInv == TypeInv /\ [Next]_vars => TypeInv'
<1>1. TypeInv /\ UNCHANGED vars => TypeInv'
  BY DEF vars, TypeInv, TypeOK, HandsOK, Stored
<1> QED
  BY <1>1, CrmKeepsTypeInv, SyncKeepsTypeInv, RemapKeepsTypeInv DEF Next, RemapStep

\* Every table, snapshot and local of a sync and of a remap keeps its type; no
\* stored deal lacks a canonical status, mapped stage or not.
THEOREM CrmSyncTypeOK == Spec => []TypeOK
<1>1. Spec => []TypeInv
  BY InitTypeInv, NextTypeInv, PTL DEF Spec
<1>2. TypeInv => TypeOK
  BY DEF TypeInv
<1> QED
  BY <1>1, <1>2, PTL

-----------------------------------------------------------------------------
(* Rows in the hands of a sync.                                            *)

\* What a running sync has fetched and not yet stored: one row per deal of its
\* CRM, no older than the stored copy, and the deal as it is unless it was edited
\* since, in which case the deal is late.
RowsOK ==
  /\ (pc # "store" => rows = {})
  /\ \A row \in rows : /\ HomeOf[row.id] = conn
                       /\ dbDeal[row.id].ver <= row.ver
                       /\ row.ver <= crmDeal[row.id].ver
                       /\ ~Before(row.id)
                       /\ (row.id \notin late => row.ver = crmDeal[row.id].ver)
  /\ \A row1, row2 \in rows : row1.id = row2.id => row1 = row2

\* No stored deal is ahead of the CRM or from before the connection.
CopiesOK ==
  \A d \in Deals : /\ dbDeal[d].ver <= crmDeal[d].ver
                   /\ (dbDeal[d].ver > 0 => ~Before(d))

RowsInv == TypeInv /\ RowsOK /\ CopiesOK

\* The gate looks at the day a deal was created, which never changes.
LEMMA BeforeIsFixed ==
  ASSUME NEW d \in Deals, crmDeal'[d].born = crmDeal[d].born
  PROVE  Before(d)' <=> Before(d)
  BY DEF Before, DayOf

LEMMA SaveDealChanges ==
  ASSUME TypeInv, NEW d \in Deals, NEW s \in Stages, NEW k \in Contacts \cup {NONE}, SaveDeal(d, s, k)
  PROVE  /\ \A x \in Deals \ {d} : crmDeal'[x] = crmDeal[x]
         /\ crmDeal'[d].ver = crmDeal[d].ver + 1
         /\ crmDeal'[d].mod = now
         /\ (crmDeal[d].ver > 0 => crmDeal'[d].born = crmDeal[d].born)
         /\ crmDeal[d].ver \in Nat
         /\ late' = IF (pc = "store" /\ conn = HomeOf[d]) \/ lastSync[HomeOf[d]] = now
                    THEN late \cup {d} ELSE late \ {d}
         /\ UNCHANGED <<dbDeal, lastSync, rows, pc, conn, since, now>>
  BY CrmSyncAssumption DEF SaveDeal, TypeInv, TypeOK, CrmRow, syncVars

\* What StoreDeal writes.
LEMMA StoreDealChanges ==
  ASSUME TypeInv, StoreDeal
  PROVE  \E row \in rows : /\ \A d \in Deals \ {row.id} : dbDeal'[d] = dbDeal[d]
                           /\ dbDeal'[row.id].ver = row.ver
                           /\ row.id \in Deals
                           /\ row.ver > 0
                           /\ rows' = rows \ {row}
                           /\ late' = IF row.ver = crmDeal[row.id].ver THEN late \ {row.id} ELSE late
                           /\ pc = "store"
                           /\ UNCHANGED <<crmDeal, lastSync, pc, conn, since, now>>
<1>1. PICK row \in rows :
        /\ dbDeal' = [dbDeal EXCEPT ![row.id] =
             [ver       |-> row.ver, stage |-> row.stage, stages |-> StagesOf(row),
              canonical |-> Rollup(StagesOf(row), maps, row.stage),
              contact   |-> IF row.contact \in known THEN row.contact ELSE NONE]]
        /\ rows' = rows \ {row}
        /\ late' = IF row.ver = crmDeal[row.id].ver THEN late \ {row.id} ELSE late
  BY DEF StoreDeal
<1>2. row.id \in Deals /\ row.ver > 0 /\ dbDeal \in [Deals -> DealRow]
  BY DEF TypeInv, TypeOK, HandsOK, RawDeal
<1>3. (\A d \in Deals \ {row.id} : dbDeal'[d] = dbDeal[d]) /\ dbDeal'[row.id].ver = row.ver
  BY <1>1, <1>2
<1>4. pc = "store" /\ UNCHANGED <<crmDeal, lastSync, pc, conn, since, now>>
  BY DEF StoreDeal, crmVars
<1> QED
  BY <1>1, <1>2, <1>3, <1>4

\* Remaps write canonical statuses only.
LEMMA RemapChanges ==
  ASSUME TypeInv, RemapStep
  PROVE  /\ \A d \in Deals : dbDeal'[d].ver = dbDeal[d].ver
         /\ UNCHANGED <<crmDeal, lastSync, rows, late, pc, conn, since, now>>
<1>1. ASSUME NEW r \in Remaps, Recanonicalize(r) PROVE \A d \in Deals : dbDeal'[d].ver = dbDeal[d].ver
  <2>1. \A v : \A x \in DealRow : [x EXCEPT !.canonical = v].ver = x.ver
    BY DEF DealRow
  <2> QED
    BY <1>1, <2>1 DEF Recanonicalize, TypeInv, TypeOK
<1>2. CASE \E r \in Remaps : Recanonicalize(r)
  BY <1>1, <1>2 DEF Recanonicalize, crmVars, syncVars
<1>3. CASE \/ \E r \in Remaps, c \in Conns, dto \in Dtos : StartRemap(r, c, dto)
           \/ \E r \in Remaps : RemapRow(r) \/ ReadBack(r) \/ EndRemap(r) \/ RemapFails(r)
  BY <1>3 DEF StartRemap, RemapRow, ReadBack, EndRemap, RemapFails, DropRemap, crmVars, syncVars
<1> QED
  BY <1>2, <1>3 DEF RemapStep

LEMMA NextRows == RowsInv /\ [Next]_vars => RowsOK' /\ CopiesOK'
<1> SUFFICES ASSUME RowsInv, [Next]_vars PROVE RowsOK' /\ CopiesOK'
  OBVIOUS
<1> USE DEF RowsInv
<1>0. \A row \in rows : row.id \in Deals
  BY DEF TypeInv, TypeOK, RawDeal
<1>1. ASSUME UNCHANGED <<crmDeal, rows, late, pc, conn>>,
             \A d \in Deals : dbDeal'[d].ver = dbDeal[d].ver
      PROVE  RowsOK' /\ CopiesOK'
  <2>1. \A d \in Deals : Before(d)' <=> Before(d)
    BY <1>1, BeforeIsFixed
  <2> QED
    BY <1>0, <1>1, <2>1 DEF RowsOK, CopiesOK
<1>2. ASSUME UNCHANGED <<crmDeal, dbDeal>>, rows' = {}
      PROVE  RowsOK' /\ CopiesOK'
  <2>1. \A d \in Deals : Before(d)' <=> Before(d)
    BY <1>2, BeforeIsFixed
  <2> QED
    BY <1>2, <2>1 DEF RowsOK, CopiesOK
<1>3. ASSUME NEW d \in Deals, NEW s \in Stages, NEW k \in Contacts \cup {NONE}, SaveDeal(d, s, k)
      PROVE  RowsOK' /\ CopiesOK'
  <2>1. /\ \A x \in Deals \ {d} : crmDeal'[x] = crmDeal[x]
        /\ crmDeal'[d].ver = crmDeal[d].ver + 1
        /\ (crmDeal[d].ver > 0 => crmDeal'[d].born = crmDeal[d].born)
        /\ crmDeal[d].ver \in Nat
        /\ late' = IF (pc = "store" /\ conn = HomeOf[d]) \/ lastSync[HomeOf[d]] = now
                   THEN late \cup {d} ELSE late \ {d}
        /\ UNCHANGED <<dbDeal, rows, pc, conn>>
    BY <1>3, SaveDealChanges
  <2>2. \A x \in Deals : crmDeal[x].ver > 0 => (Before(x)' <=> Before(x))
    BY <2>1, BeforeIsFixed
  <2>3. \A x \in Deals : dbDeal[x].ver \in Nat /\ crmDeal[x].ver \in Nat
    BY CrmSyncAssumption DEF TypeInv, TypeOK, DealRow, CrmRow
  <2>4. \A row \in rows : row.ver \in Nat /\ row.ver > 0
    BY CrmSyncAssumption DEF TypeInv, TypeOK, HandsOK, RawDeal
  <2>5. CopiesOK'
    BY <2>1, <2>2, <2>3 DEF CopiesOK
  <2>6. RowsOK'
    BY <1>0, <2>1, <2>2, <2>3, <2>4 DEF RowsOK
  <2> QED
    BY <2>5, <2>6
<1>4. CASE FetchDeals
  <2>1. /\ rows' = {Raw(d) : d \in {x \in Deals : Changed(x) /\ ~Before(x)}}
        /\ pc' = "store"
        /\ UNCHANGED <<crmDeal, dbDeal, conn>>
    BY <1>4 DEF FetchDeals, crmVars
  <2>2. \A d \in Deals : Before(d)' <=> Before(d)
    BY <2>1, BeforeIsFixed
  <2>3. \A d \in Deals : crmDeal[d].ver \in Nat
    BY CrmSyncAssumption DEF TypeInv, TypeOK, CrmRow
  <2>4. RowsOK'
    BY <2>1, <2>2, <2>3 DEF RowsOK, CopiesOK, Raw, Changed
  <2> QED
    BY <2>1, <2>2, <2>4 DEF CopiesOK
<1>5. CASE StoreDeal
  <2>1. PICK row \in rows : /\ \A d \in Deals \ {row.id} : dbDeal'[d] = dbDeal[d]
                            /\ dbDeal'[row.id].ver = row.ver
                            /\ rows' = rows \ {row}
                            /\ late' = IF row.ver = crmDeal[row.id].ver THEN late \ {row.id} ELSE late
                            /\ pc = "store"
                            /\ UNCHANGED <<crmDeal, pc, conn>>
    BY <1>5, StoreDealChanges
  <2>2. \A d \in Deals : Before(d)' <=> Before(d)
    BY <2>1, BeforeIsFixed
  <2>3. \A x \in rows' : x \in rows /\ x.id # row.id
    BY <2>1 DEF RowsOK
  <2>4. RowsOK'
    BY <1>0, <2>1, <2>2, <2>3 DEF RowsOK
  <2>5. CopiesOK'
    BY <1>0, <2>1, <2>2 DEF RowsOK, CopiesOK
  <2> QED
    BY <2>4, <2>5
<1>6. CASE FinishSync \/ SyncFails
  BY <1>2, <1>6 DEF FinishSync, SyncFails, DropSync, crmVars
<1>7. CASE (\E c \in Conns : StartSync(c)) \/ LoadMappings \/ FetchContacts \/ FetchHistory
  <2>1. rows' = {} /\ UNCHANGED <<crmDeal, dbDeal>>
    BY <1>7 DEF StartSync, LoadMappings, FetchContacts, FetchHistory, RowsOK, crmVars
  <2> QED
    BY <1>2, <2>1
<1>8. CASE Tick \/ (\E k \in Contacts : SaveContact(k)) \/ UNCHANGED vars
  BY <1>1, <1>8 DEF Tick, SaveContact, vars, syncVars
<1>9. CASE RemapStep
  BY <1>1, <1>9, RemapChanges
<1> QED
  BY <1>3, <1>4, <1>5, <1>6, <1>7, <1>8, <1>9 DEF Next, RemapStep

LEMMA RowsInvInduction == (Init => RowsInv) /\ (RowsInv /\ [Next]_vars => RowsInv')
<1>1. Init => RowsOK /\ CopiesOK
  BY DEF Init, RowsOK, CopiesOK, NoDeal
<1> QED
  BY <1>1, InitTypeInv, NextTypeInv, NextRows DEF RowsInv

-----------------------------------------------------------------------------
(* The only leak of the window.                                            *)

\* Where the next window of a connection starts.
Base(c) == IF lastSync[c] = NONE THEN ConnectedAt ELSE lastSync[c]

\* A deal that must not be lost: edited after the connection, not late, not gated.
Owed(d) == crmDeal[d].ver > 0 /\ ~Before(d) /\ ConnectedAt < crmDeal[d].mod /\ d \notin late

Fresh(d) == dbDeal[d].ver = crmDeal[d].ver

\* Such a deal is stored as it is, or lies in the window of the next sync, or, once
\* a sync of its CRM has fetched deals, is one of the fetched rows.
WindowOK ==
  /\ (pc # "idle" => since = Base(conn))
  /\ \A c \in Conns : lastSync[c] # NONE => lastSync[c] <= now
  /\ \A d \in Deals : Owed(d) =>
       /\ Fresh(d) \/ crmDeal[d].mod > Base(HomeOf[d])
       /\ (pc = "store" /\ conn = HomeOf[d] => Fresh(d) \/ \E row \in rows : row.id = d)

WindowInv == RowsInv /\ WindowOK

LEMMA NextWindow == WindowInv /\ [Next]_vars => WindowOK'
<1> SUFFICES ASSUME WindowInv, [Next]_vars PROVE WindowOK'
  OBVIOUS
<1> USE DEF WindowInv, RowsInv
<1>0. /\ \A d \in Deals : HomeOf[d] \in Conns
      /\ lastSync \in [Conns -> Time \cup {NONE}]
      /\ now \in Nat /\ ConnectedAt \in Nat /\ \A t \in Time : t \in Nat /\ t # NONE
      /\ \A d \in Deals : crmDeal[d].ver \in Nat /\ crmDeal[d].mod \in Nat /\ dbDeal[d].ver \in Nat
  BY CrmSyncAssumption DEF TypeInv, TypeOK, Time, CrmRow, DealRow
<1>1. ASSUME UNCHANGED <<crmDeal, rows, late, pc, conn, since, lastSync>>, now' >= now, now' \in Nat,
             \A d \in Deals : dbDeal'[d].ver = dbDeal[d].ver
      PROVE  WindowOK'
  <2>1. \A d \in Deals : Owed(d)' <=> Owed(d)
    BY <1>1, BeforeIsFixed DEF Owed
  <2>2. \A d \in Deals : Fresh(d)' <=> Fresh(d)
    BY <1>1 DEF Fresh
  <2>3. \A c \in Conns : lastSync[c] # NONE => lastSync'[c] <= now'
    BY <1>0, <1>1 DEF WindowOK
  <2>4. \A c : Base(c)' = Base(c)
    BY <1>1 DEF Base
  <2> QED
    BY <1>1, <2>1, <2>2, <2>3, <2>4 DEF WindowOK
<1>2. ASSUME UNCHANGED <<crmDeal, dbDeal, late, lastSync, now>>,
             pc' # "store", pc' # "idle" => since' = Base(conn')
      PROVE  WindowOK'
  <2>1. \A d \in Deals : (Owed(d)' <=> Owed(d)) /\ (Fresh(d)' <=> Fresh(d))
    BY <1>2, BeforeIsFixed DEF Owed, Fresh
  <2>2. \A c : Base(c)' = Base(c)
    BY <1>2 DEF Base
  <2> QED
    BY <1>2, <2>1, <2>2 DEF WindowOK
<1>3. ASSUME NEW d \in Deals, NEW s \in Stages, NEW k \in Contacts \cup {NONE}, SaveDeal(d, s, k)
      PROVE  WindowOK'
  <2>1. /\ \A x \in Deals \ {d} : crmDeal'[x] = crmDeal[x]
        /\ crmDeal'[d].mod = now
        /\ late' = IF (pc = "store" /\ conn = HomeOf[d]) \/ lastSync[HomeOf[d]] = now
                   THEN late \cup {d} ELSE late \ {d}
        /\ UNCHANGED <<dbDeal, lastSync, rows, pc, conn, since, now>>
    BY <1>3, SaveDealChanges
  <2>2. \A x \in Deals \ {d} : (Owed(x)' <=> Owed(x)) /\ (Fresh(x)' <=> Fresh(x))
    BY <2>1, BeforeIsFixed DEF Owed, Fresh
  <2>3. \A c : Base(c)' = Base(c)
    BY <2>1 DEF Base
  <2>4. ASSUME Owed(d)' PROVE crmDeal'[d].mod > Base(HomeOf[d]) /\ ~(pc = "store" /\ conn = HomeOf[d])
    <3>1. ConnectedAt < now /\ lastSync[HomeOf[d]] # now /\ ~(pc = "store" /\ conn = HomeOf[d])
      BY <2>1, <2>4 DEF Owed
    <3> QED
      BY <1>0, <2>1, <3>1 DEF Base, WindowOK
  <2>5. ASSUME NEW x \in Deals, Owed(x)'
        PROVE  /\ Fresh(x)' \/ crmDeal'[x].mod > Base(HomeOf[x])'
               /\ (pc' = "store" /\ conn' = HomeOf[x] =>
                    Fresh(x)' \/ \E row \in rows' : row.id = x)
    <3>1. CASE x = d
      BY <2>1, <2>3, <2>4, <2>5, <3>1
    <3>2. CASE x # d
      BY <2>1, <2>2, <2>3, <2>5, <3>2 DEF WindowOK
    <3> QED
      BY <3>1, <3>2
  <2>6. /\ (pc' # "idle" => since' = Base(conn)')
        /\ \A c \in Conns : lastSync'[c] # NONE => lastSync'[c] <= now'
    BY <2>1, <2>3 DEF WindowOK
  <2> QED
    BY <2>1, <2>5, <2>6 DEF WindowOK
<1>4. CASE FetchDeals
  <2>1. /\ rows' = {Raw(d) : d \in {x \in Deals : Changed(x) /\ ~Before(x)}}
        /\ pc = "deals" /\ pc' = "store"
        /\ UNCHANGED <<crmDeal, dbDeal, late, lastSync, now, conn, since>>
    BY <1>4 DEF FetchDeals, crmVars
  <2>2. \A d \in Deals : (Owed(d)' <=> Owed(d)) /\ (Fresh(d)' <=> Fresh(d))
    BY <2>1, BeforeIsFixed DEF Owed, Fresh
  <2>3. \A c : Base(c)' = Base(c)
    BY <2>1 DEF Base
  <2>4. \A d \in Deals : Owed(d) /\ conn = HomeOf[d] => Fresh(d) \/ Changed(d)
    BY <2>1 DEF WindowOK, Changed, Owed
  <2>5. \A d \in Deals : Owed(d) /\ conn = HomeOf[d] => Fresh(d) \/ \E row \in rows' : row.id = d
    <3>1. \A d \in Deals : Changed(d) /\ ~Before(d) => Raw(d) \in rows'
      BY <2>1
    <3>2. \A d \in Deals : Raw(d).id = d
      BY DEF Raw
    <3> QED
      BY <2>4, <3>1, <3>2 DEF Owed
  <2> QED
    BY <2>1, <2>2, <2>3, <2>5 DEF WindowOK
<1>5. CASE StoreDeal
  <2>1. PICK row \in rows : /\ \A d \in Deals \ {row.id} : dbDeal'[d] = dbDeal[d]
                            /\ dbDeal'[row.id].ver = row.ver
                            /\ rows' = rows \ {row}
                            /\ late' = IF row.ver = crmDeal[row.id].ver THEN late \ {row.id} ELSE late
                            /\ UNCHANGED <<crmDeal, lastSync, pc, conn, since, now>>
    BY <1>5, StoreDealChanges
  <2>2. \A c : Base(c)' = Base(c)
    BY <2>1 DEF Base
  <2>3. \A d \in Deals \ {row.id} : (Owed(d)' <=> Owed(d)) /\ (Fresh(d)' <=> Fresh(d))
    BY <2>1, BeforeIsFixed DEF Owed, Fresh
  <2>4. row.id \in Deals => (Owed(row.id)' => Fresh(row.id)')
    BY <2>1 DEF Owed, Fresh, RowsOK
  <2> QED
    BY <2>1, <2>2, <2>3, <2>4 DEF WindowOK
<1>6. CASE FinishSync
  <2>1. /\ pc = "store" /\ rows = {} /\ pc' = "idle" /\ conn \in Conns
        /\ lastSync' = [lastSync EXCEPT ![conn] = now]
        /\ UNCHANGED <<crmDeal, dbDeal, late, now>>
    BY <1>6 DEF FinishSync, DropSync, crmVars, TypeInv, HandsOK
  <2>2. \A d \in Deals : (Owed(d)' <=> Owed(d)) /\ (Fresh(d)' <=> Fresh(d))
    BY <2>1, BeforeIsFixed DEF Owed, Fresh
  <2>3. \A d \in Deals : Owed(d) /\ conn = HomeOf[d] => Fresh(d)
    BY <2>1 DEF WindowOK
  <2>4. \A c \in Conns \ {conn} : Base(c)' = Base(c)
    BY <1>0, <2>1 DEF Base
  <2>5. \A c \in Conns : lastSync'[c] # NONE => lastSync'[c] <= now'
    BY <1>0, <2>1 DEF WindowOK
  <2> QED
    BY <1>0, <2>1, <2>2, <2>3, <2>4, <2>5 DEF WindowOK
<1>7. CASE SyncFails
  BY <1>2, <1>7 DEF SyncFails, DropSync, crmVars
<1>8. CASE (\E c \in Conns : StartSync(c)) \/ LoadMappings \/ FetchContacts \/ FetchHistory
  <2>1. /\ UNCHANGED <<crmDeal, dbDeal, late, lastSync, now>>
        /\ pc' # "store"
    BY <1>8 DEF StartSync, LoadMappings, FetchContacts, FetchHistory, crmVars
  <2>2. since' = Base(conn')
    BY <1>8 DEF StartSync, LoadMappings, FetchContacts, FetchHistory, WindowOK, Base
  <2> QED
    BY <1>2, <2>1, <2>2
<1>9. CASE Tick \/ (\E k \in Contacts : SaveContact(k)) \/ UNCHANGED vars
  BY <1>0, <1>1, <1>9 DEF Tick, SaveContact, vars, syncVars
<1>10. CASE RemapStep
  BY <1>0, <1>1, <1>10, RemapChanges
<1> QED
  BY <1>3, <1>4, <1>5, <1>6, <1>7, <1>8, <1>9, <1>10 DEF Next, RemapStep

\* Failed syncs, retries and half-stored fetches lose no edit of a deal: the only
\* edits the window skips come between the fetch and the end of a successful sync.
THEOREM CrmSyncNothingElseSlips == Spec => []NothingElseSlips
<1>1. Init => WindowInv
  <2>1. Init => WindowOK
    BY DEF Init, WindowOK, Owed
  <2> QED
    BY <2>1, RowsInvInduction DEF WindowInv
<1>2. WindowInv /\ [Next]_vars => WindowInv'
  BY RowsInvInduction, NextWindow DEF WindowInv
<1>3. WindowInv => NothingElseSlips
  <2> SUFFICES ASSUME WindowInv, NEW d \in Deals, Due(d), d \notin late
               PROVE  dbDeal[d].ver = crmDeal[d].ver
    BY DEF NothingElseSlips
  <2>1. Owed(d) /\ Base(HomeOf[d]) = lastSync[HomeOf[d]]
    BY DEF Due, Owed, Base
  <2>2. Fresh(d) \/ crmDeal[d].mod > lastSync[HomeOf[d]]
    BY <2>1 DEF WindowInv, WindowOK
  <2>3. crmDeal[d].mod \in Nat /\ lastSync[HomeOf[d]] \in Nat
    BY CrmSyncAssumption DEF Due, WindowInv, RowsInv, TypeInv, TypeOK, Time, CrmRow
  <2> QED
    BY <2>2, <2>3 DEF Due, Fresh
<1> QED
  BY <1>1, <1>2, <1>3, PTL DEF Spec

-----------------------------------------------------------------------------
(* The sync implements a mirror.                                           *)

Source == [d \in Deals |-> crmDeal[d].ver]
Gated == {d \in Deals : crmDeal[d].ver > 0 /\ Before(d)}
Copies == [d \in Deals |-> dbDeal[d].ver]

LEMMA InitMirrors == Init => M!Init
  BY DEF Init, M!Init, NoDeal

LEMMA NextMirrors == RowsInv /\ [Next]_vars => [M!Next]_<<Source, Gated, Copies>>
<1> SUFFICES ASSUME RowsInv, [Next]_vars PROVE M!Next \/ UNCHANGED <<Source, Gated, Copies>>
  OBVIOUS
<1> USE DEF RowsInv
<1>1. ASSUME UNCHANGED crmDeal, \A d \in Deals : dbDeal'[d].ver = dbDeal[d].ver
      PROVE  UNCHANGED <<Source, Gated, Copies>>
  <2>1. \A d \in Deals : Before(d)' <=> Before(d)
    BY <1>1, BeforeIsFixed
  <2>2. Gated' = Gated
    BY <1>1, <2>1 DEF Gated
  <2> QED
    BY <1>1, <2>2 DEF Source, Copies
<1>2. ASSUME NEW d \in Deals, NEW s \in Stages, NEW k \in Contacts \cup {NONE}, SaveDeal(d, s, k)
      PROVE  M!Change(d)
  <2>1. /\ \A x \in Deals \ {d} : crmDeal'[x] = crmDeal[x]
        /\ crmDeal'[d].ver = crmDeal[d].ver + 1
        /\ (crmDeal[d].ver > 0 => crmDeal'[d].born = crmDeal[d].born)
        /\ crmDeal[d].ver \in Nat
        /\ UNCHANGED dbDeal
    BY <1>2, SaveDealChanges
  <2>2. \A x \in Deals : crmDeal[x].ver > 0 => (Before(x)' <=> Before(x))
    BY <2>1, BeforeIsFixed
  <2>3. \A x \in Deals \ {d} : x \in Gated' <=> x \in Gated
    BY <2>1, <2>2 DEF Gated
  <2>4. Gated' \in IF Source[d] = 0 THEN {Gated, Gated \cup {d}} ELSE {Gated}
    <3>1. CASE crmDeal[d].ver = 0
      BY <2>3, <3>1 DEF Gated, Source
    <3>2. CASE crmDeal[d].ver # 0
      <4>1. d \in Gated' <=> d \in Gated
        BY <2>1, <2>2, <3>2 DEF Gated
      <4>2. Gated' \subseteq Deals /\ Gated \subseteq Deals
        BY DEF Gated
      <4>3. Gated' = Gated
        BY <2>3, <4>1, <4>2
      <4> QED
        BY <3>2, <4>3 DEF Source
    <3> QED
      BY <3>1, <3>2
  <2>5. Source' = [Source EXCEPT ![d] = Source[d] + 1]
    BY <2>1 DEF Source
  <2>6. Copies' = Copies
    BY <2>1 DEF Copies
  <2> QED
    BY <2>4, <2>5, <2>6 DEF M!Change, Source, Gated, Copies
<1>3. CASE StoreDeal
  <2>1. PICK row \in rows : /\ \A d \in Deals \ {row.id} : dbDeal'[d] = dbDeal[d]
                            /\ dbDeal'[row.id].ver = row.ver
                            /\ row.id \in Deals
                            /\ row.ver > 0
                            /\ UNCHANGED crmDeal
    BY <1>3, StoreDealChanges
  <2>2. row.ver \in Nat /\ \A d \in Deals : crmDeal[d].ver \in Nat /\ dbDeal[d].ver \in Nat
    BY CrmSyncAssumption DEF TypeInv, TypeOK, RawDeal, CrmRow, DealRow
  <2>3. row.ver \in Copies[row.id]..Source[row.id]
    BY <2>1, <2>2 DEF RowsOK, Copies, Source
  <2>4. Copies' = [Copies EXCEPT ![row.id] = row.ver]
    BY <2>1 DEF Copies
  <2>5. \A d \in Deals : Before(d)' <=> Before(d)
    BY <2>1, BeforeIsFixed
  <2>6. Source' = Source /\ Gated' = Gated
    BY <2>1, <2>5 DEF Source, Gated
  <2>7. row.id \notin Gated
    BY <2>1 DEF RowsOK, Gated
  <2>8. M!Copy(row.id)
    BY <2>3, <2>4, <2>6, <2>7 DEF M!Copy, Source, Gated, Copies
  <2> QED
    BY <2>1, <2>8 DEF M!Next
<1>4. CASE \/ Tick \/ (\E k \in Contacts : SaveContact(k)) \/ UNCHANGED vars
           \/ (\E c \in Conns : StartSync(c)) \/ LoadMappings \/ FetchContacts \/ FetchHistory
           \/ FetchDeals \/ FinishSync \/ SyncFails
  <2>1. UNCHANGED <<crmDeal, dbDeal>>
    BY <1>4 DEF Tick, SaveContact, vars, StartSync, LoadMappings, FetchContacts, FetchHistory,
                FetchDeals, FinishSync, SyncFails, crmVars
  <2> QED
    BY <1>1, <2>1
<1>5. CASE RemapStep
  BY <1>1, <1>5, RemapChanges
<1>6. CASE \E d \in Deals, s \in Stages, k \in Contacts \cup {NONE} : SaveDeal(d, s, k)
  BY <1>2, <1>6 DEF M!Next
<1> QED
  BY <1>3, <1>4, <1>5, <1>6 DEF Next, RemapStep

\* Every behaviour of the sync, with its failures and remaps, is one of a mirror:
\* rows are versions the CRM had, they never go back, gated deals are never stored.
THEOREM CrmSyncMirrors == Spec => DealsMirrored
<1>1. Spec => []RowsInv
  BY RowsInvInduction, PTL DEF Spec
<1>2. RowsInv /\ [Next]_vars => [M!Next]_<<Source, Gated, Copies>>
  BY NextMirrors
<1> QED
  BY <1>1, <1>2, InitMirrors, PTL DEF Spec, DealsMirrored, M!Spec, Source, Gated, Copies

-----------------------------------------------------------------------------
(* Remaps settle.                                                          *)

Right(d) ==
  dbDeal[d].canonical = Rollup(dbDeal[d].stages, mapping[HomeOf[d]], dbDeal[d].stage)

\* What a quiet remap holds: the mapping as it is, the deals of its connection as they
\* are, and it has put right those it no longer holds.
HoldsAll(r) ==
  /\ rmaps[r] = mapping[rconn[r]]
  /\ \A t \in todo[r] : HomeOf[t.id] = rconn[r] =>
       t.stage = dbDeal[t.id].stage /\ t.stages = dbDeal[t.id].stages
  /\ \A d \in Stored : HomeOf[d] = rconn[r] => Right(d) \/ \E t \in todo[r] : t.id = d

\* A sync of a settled connection works with its mappings; while a remap is under way
\* nothing is settled; a quiet remap is alone and no sync of its connection runs.
SettleOK ==
  /\ (pc \notin {"idle", "mappings"} /\ conn \in settled => maps = mapping[conn])
  /\ (Running # {} => settled = {})
  /\ (pc = "idle" => conn = NONE)
  /\ \A r \in quiet : Running = {r} /\ conn # rconn[r]
  /\ \A r \in quiet : rpc[r] = "recanon" => HoldsAll(r)

SettleInv == RowsInv /\ SettleOK /\ MappingsSettle

LEMMA NextSettle ==
  ASSUME SettleInv, [Next]_vars
  PROVE  SettleOK' /\ MappingsSettle'
<1> USE DEF SettleInv, RowsInv, TypeInv
<1>0. /\ \A d \in Deals : HomeOf[d] \in Conns
      /\ NONE \notin Conns
      /\ settled \subseteq Conns /\ quiet \subseteq Remaps
      /\ \A r \in Running : rconn[r] \in Conns
  BY CrmSyncAssumption DEF TypeOK, HandsOK, Running
<1>1. ASSUME UNCHANGED <<mapping, dbDeal, pc, conn, maps, rpc, rconn, rmaps, todo, quiet, settled>>
      PROVE  SettleOK' /\ MappingsSettle'
  BY <1>1 DEF SettleOK, HoldsAll, MappingsSettle, Right, Stored, Running
<1>2. ASSUME NEW c \in Conns, StartSync(c) PROVE SettleOK' /\ MappingsSettle'
  <2>1. /\ pc' = "mappings" /\ conn' = c /\ quiet' = {r \in quiet : rconn[r] # c}
        /\ UNCHANGED <<mapping, dbDeal, rpc, rconn, rmaps, todo, settled>>
    BY <1>2 DEF StartSync, remapVars
  <2>2. \A r : HoldsAll(r)' <=> HoldsAll(r)
    BY <2>1 DEF HoldsAll, Stored, Right
  <2> QED
    BY <2>1, <2>2 DEF SettleOK, MappingsSettle, Stored, Running
<1>3. CASE LoadMappings
  <2>1. /\ maps' = mapping[conn] /\ pc = "mappings" /\ pc' = "contacts"
        /\ UNCHANGED <<mapping, dbDeal, conn, rpc, rconn, rmaps, todo, quiet, settled>>
    BY <1>3 DEF LoadMappings, remapVars
  <2> QED
    BY <2>1 DEF SettleOK, HoldsAll, MappingsSettle, Right, Stored, Running
<1>4. CASE FetchContacts \/ FetchHistory \/ FetchDeals
  <2>1. /\ pc \notin {"idle", "mappings"} /\ pc' \notin {"idle", "mappings"}
        /\ UNCHANGED <<mapping, dbDeal, conn, maps, rpc, rconn, rmaps, todo, quiet, settled>>
    BY <1>4 DEF FetchContacts, FetchHistory, FetchDeals, remapVars
  <2> QED
    BY <2>1 DEF SettleOK, HoldsAll, MappingsSettle, Right, Stored, Running
<1>5. CASE StoreDeal
  <2>1. PICK row \in rows :
          dbDeal' = [dbDeal EXCEPT ![row.id] =
               [ver       |-> row.ver, stage |-> row.stage, stages |-> StagesOf(row),
                canonical |-> Rollup(StagesOf(row), maps, row.stage),
                contact   |-> IF row.contact \in known THEN row.contact ELSE NONE]]
    BY <1>5 DEF StoreDeal
  <2>2. /\ pc = "store"
        /\ UNCHANGED <<mapping, pc, conn, maps, rpc, rconn, rmaps, todo, quiet, settled>>
    BY <1>5 DEF StoreDeal, remapVars
  <2>3. row.id \in Deals /\ HomeOf[row.id] = conn /\ dbDeal \in [Deals -> DealRow]
    BY DEF TypeOK, RowsOK, RawDeal
  <2>4. /\ dbDeal'[row.id].canonical = Rollup(StagesOf(row), maps, row.stage)
        /\ dbDeal'[row.id].stages = StagesOf(row)
        /\ dbDeal'[row.id].stage = row.stage
        /\ \A d \in Deals \ {row.id} : dbDeal'[d] = dbDeal[d]
    BY <2>1, <2>3
  <2>5. MappingsSettle'
    BY <2>2, <2>3, <2>4 DEF SettleOK, MappingsSettle, Stored
  <2>6. ASSUME NEW r \in quiet, rpc[r] = "recanon" PROVE HoldsAll(r)'
    <3>1. HoldsAll(r) /\ rconn[r] # conn
      BY <2>6 DEF SettleOK
    <3>2. \A t \in todo[r] : t.id \in Deals
      BY DEF TypeOK, SettleOK
    <3>3. \A t \in todo[r] : HomeOf[t.id] = rconn[r] =>
            t.stage = dbDeal'[t.id].stage /\ t.stages = dbDeal'[t.id].stages
      BY <2>3, <2>4, <3>1, <3>2 DEF HoldsAll
    <3> QED
      BY <2>2, <2>3, <2>4, <3>1, <3>3 DEF HoldsAll, Right, Stored
  <2> QED
    BY <2>2, <2>5, <2>6 DEF SettleOK, Running
<1>6. CASE FinishSync \/ SyncFails
  <2>1. /\ pc' = "idle" /\ conn' = NONE
        /\ UNCHANGED <<mapping, dbDeal, rpc, rconn, rmaps, todo, quiet, settled>>
    BY <1>6 DEF FinishSync, SyncFails, DropSync, remapVars
  <2>2. \A r \in quiet : rconn[r] # NONE
    BY <1>0 DEF SettleOK
  <2> QED
    BY <2>1, <2>2 DEF SettleOK, HoldsAll, MappingsSettle, Right, Stored, Running
<1>7. ASSUME NEW r \in Remaps, NEW c \in Conns, NEW dto \in Dtos, StartRemap(r, c, dto)
      PROVE  SettleOK' /\ MappingsSettle'
  <2>1. /\ rpc' = [rpc EXCEPT ![r] = "rows"] /\ rconn' = [rconn EXCEPT ![r] = c]
        /\ quiet' = IF Running = {} /\ conn # c THEN {r} ELSE {}
        /\ settled' = {}
        /\ UNCHANGED <<mapping, dbDeal, pc, conn, maps>>
    BY <1>7 DEF StartRemap, syncVars
  <2>2. rpc'[r] = "rows" /\ rconn'[r] = c
    BY <2>1 DEF TypeOK
  <2>3. Running = {} => Running' = {r}
    BY <2>1, <2>2 DEF Running, TypeOK
  <2> QED
    BY <2>1, <2>2, <2>3 DEF SettleOK, MappingsSettle
<1>8. ASSUME NEW r \in Remaps, RemapRow(r) PROVE SettleOK' /\ MappingsSettle'
  <2>1. /\ rpc[r] = "rows"
        /\ UNCHANGED <<dbDeal, pc, conn, maps, rpc, rconn, rmaps, todo, quiet, settled>>
    BY <1>8 DEF RemapRow, syncVars
  <2>2. settled = {}
    BY <2>1 DEF SettleOK, Running
  <2>3. \A q \in quiet : q = r
    BY <2>1 DEF SettleOK, Running
  <2> QED
    BY <2>1, <2>2, <2>3 DEF SettleOK, MappingsSettle, Running
<1>9. ASSUME NEW r \in Remaps, ReadBack(r) PROVE SettleOK' /\ MappingsSettle'
  <2>1. /\ rpc[r] = "rows"
        /\ rpc' = [rpc EXCEPT ![r] = "recanon"]
        /\ rmaps' = [rmaps EXCEPT ![r] = mapping[rconn[r]]]
        /\ todo' = [todo EXCEPT ![r] =
             {[id |-> d, stage |-> dbDeal[d].stage, stages |-> dbDeal[d].stages] : d \in Stored}]
        /\ UNCHANGED <<mapping, dbDeal, pc, conn, maps, rconn, quiet, settled>>
    BY <1>9 DEF ReadBack, syncVars
  <2>2. /\ rmaps'[r] = mapping[rconn[r]]
        /\ todo'[r] = {[id |-> d, stage |-> dbDeal[d].stage, stages |-> dbDeal[d].stages] : d \in Stored}
    BY <2>1 DEF TypeOK
  <2>3. \A t \in todo'[r] : t.stage = dbDeal[t.id].stage /\ t.stages = dbDeal[t.id].stages
    BY <2>2
  <2>4. ASSUME NEW d \in Stored PROVE \E t \in todo'[r] : t.id = d
    <3> DEFINE t == [id |-> d, stage |-> dbDeal[d].stage, stages |-> dbDeal[d].stages]
    <3>1. t \in todo'[r] /\ t.id = d
      BY <2>2
    <3> QED
      BY <3>1
  <2>5. Stored' = Stored /\ MappingsSettle'
    BY <2>1 DEF Stored, MappingsSettle
  <2>6. HoldsAll(r)'
    BY <2>1, <2>2, <2>3, <2>4, <2>5 DEF HoldsAll
  <2>7. Running' = Running
    BY <2>1 DEF Running, TypeOK
  <2>8. \A q \in quiet : q = r
    BY <2>1 DEF SettleOK, Running
  <2> QED
    BY <2>1, <2>5, <2>6, <2>7, <2>8 DEF SettleOK
<1>10. ASSUME NEW r \in Remaps, Recanonicalize(r) PROVE SettleOK' /\ MappingsSettle'
  <2>1. PICK t \in todo[r] :
          /\ dbDeal' = [dbDeal EXCEPT ![t.id].canonical = Rollup(t.stages, rmaps[r], t.stage)]
          /\ todo' = [todo EXCEPT ![r] = @ \ {t}]
    BY <1>10 DEF Recanonicalize
  <2>2. /\ rpc[r] = "recanon"
        /\ UNCHANGED <<mapping, pc, conn, maps, rpc, rconn, rmaps, quiet, settled>>
    BY <1>10 DEF Recanonicalize, syncVars
  <2>3. settled = {} /\ (\A q \in quiet : q = r) /\ Running' = Running
    BY <2>2 DEF SettleOK, Running
  <2>4. \A v : \A x \in DealRow : /\ [x EXCEPT !.canonical = v].ver = x.ver
                                  /\ [x EXCEPT !.canonical = v].stage = x.stage
                                  /\ [x EXCEPT !.canonical = v].stages = x.stages
                                  /\ [x EXCEPT !.canonical = v].canonical = v
    BY DEF DealRow
  <2>5. /\ t.id \in Deals /\ dbDeal \in [Deals -> DealRow]
        /\ todo'[r] = todo[r] \ {t}
        /\ \A x \in todo[r] : x.id \in Deals
    BY <2>1 DEF TypeOK
  <2>6. /\ \A d \in Deals \ {t.id} : dbDeal'[d] = dbDeal[d]
        /\ \A d \in Deals : /\ dbDeal'[d].ver = dbDeal[d].ver
                            /\ dbDeal'[d].stage = dbDeal[d].stage
                            /\ dbDeal'[d].stages = dbDeal[d].stages
        /\ dbDeal'[t.id].canonical = Rollup(t.stages, rmaps[r], t.stage)
    BY <2>1, <2>4, <2>5
  <2>7. ASSUME r \in quiet PROVE HoldsAll(r)'
    <3>1. /\ rmaps[r] = mapping[rconn[r]]
          /\ \A x \in todo[r] : HomeOf[x.id] = rconn[r] =>
               x.stage = dbDeal[x.id].stage /\ x.stages = dbDeal[x.id].stages
          /\ \A d \in Stored : HomeOf[d] = rconn[r] => Right(d) \/ \E x \in todo[r] : x.id = d
      BY <2>2, <2>7 DEF SettleOK, HoldsAll
    <3>2. HomeOf[t.id] = rconn[r] => Right(t.id)'
      BY <2>2, <2>5, <2>6, <3>1 DEF Right
    <3>3. \A d \in Deals \ {t.id} : Right(d)' <=> Right(d)
      BY <2>2, <2>6 DEF Right
    <3>4. Stored' = Stored /\ Stored \subseteq Deals
      BY <2>6 DEF Stored
    <3>5. \A d \in Stored' : HomeOf[d] = rconn[r] => Right(d)' \/ \E x \in todo'[r] : x.id = d
      BY <2>5, <3>1, <3>2, <3>3, <3>4
    <3>6. \A x \in todo'[r] : HomeOf[x.id] = rconn[r] =>
            x.stage = dbDeal'[x.id].stage /\ x.stages = dbDeal'[x.id].stages
      BY <2>5, <2>6, <3>1
    <3>7. rmaps'[r] = mapping'[rconn'[r]] /\ rconn'[r] = rconn[r]
      BY <2>2, <3>1
    <3> QED
      BY <2>2, <3>5, <3>6, <3>7 DEF HoldsAll
  <2> QED
    BY <2>2, <2>3, <2>7 DEF SettleOK, MappingsSettle
<1>11. ASSUME NEW r \in Remaps, DropRemap(r), UNCHANGED <<mapping, dbDeal, pc, conn, maps>>,
              settled' = {} \/ settled' = settled
                \/ (Running' = {} /\ settled' = {rconn[r]} /\ conn # rconn[r]
                      /\ \A d \in Stored : HomeOf[d] = rconn[r] => Right(d))
       PROVE  SettleOK' /\ MappingsSettle'
  <2>1. /\ rpc' = [rpc EXCEPT ![r] = "idle"] /\ rconn' = [rconn EXCEPT ![r] = NONE]
        /\ quiet' = quiet \ {r}
        /\ rmaps' = [rmaps EXCEPT ![r] = Unmapped] /\ todo' = [todo EXCEPT ![r] = {}]
    BY <1>11 DEF DropRemap
  <2>2. Running' = Running \ {r}
    BY <2>1 DEF Running, TypeOK
  <2>3. \A q \in Remaps \ {r} : /\ rpc'[q] = rpc[q] /\ rconn'[q] = rconn[q]
                                /\ rmaps'[q] = rmaps[q] /\ todo'[q] = todo[q]
    BY <2>1 DEF TypeOK
  <2>4. rpc[r] # "idle" => quiet' = {}
    BY <2>1 DEF SettleOK, Running
  <2>5. rpc[r] = "idle" => r \notin quiet
    BY DEF SettleOK, Running
  <2>6. \A q \in quiet' : q \in Remaps \ {r} /\ q \in quiet
    BY <1>0, <2>1
  <2>7. \A q \in quiet' : HoldsAll(q)' <=> HoldsAll(q)
    BY <1>11, <2>3, <2>6 DEF HoldsAll, Stored, Right
  <2>8. MappingsSettle'
    BY <1>11 DEF MappingsSettle, Right, Stored
  <2>9. pc' \notin {"idle", "mappings"} /\ conn' \in settled' => maps' = mapping'[conn']
    BY <1>11 DEF SettleOK
  <2>10. Running' # {} => settled' = {}
    BY <1>11, <2>2 DEF SettleOK
  <2>11. \A q \in quiet' : Running' = {q} /\ conn' # rconn'[q]
    BY <1>11, <2>2, <2>3, <2>6 DEF SettleOK
  <2>12. \A q \in quiet' : rpc'[q] = "recanon" => HoldsAll(q)'
    BY <2>3, <2>6, <2>7 DEF SettleOK
  <2> QED
    BY <1>11, <2>8, <2>9, <2>10, <2>11, <2>12 DEF SettleOK
<1>12. ASSUME NEW r \in Remaps, EndRemap(r) PROVE SettleOK' /\ MappingsSettle'
  <2>1. /\ rpc[r] = "recanon" /\ todo[r] = {}
        /\ settled' = IF r \in quiet THEN settled \cup {rconn[r]} ELSE settled
        /\ DropRemap(r)
        /\ UNCHANGED <<mapping, dbDeal, pc, conn, maps>>
    BY <1>12 DEF EndRemap, syncVars
  <2>2. settled = {}
    BY <2>1 DEF SettleOK, Running
  <2>3. r \in quiet => /\ Running = {r} /\ conn # rconn[r]
                       /\ \A d \in Stored : HomeOf[d] = rconn[r] => Right(d)
    BY <2>1 DEF SettleOK, HoldsAll
  <2>4. r \in quiet => Running' = {}
    BY <2>1, <2>3 DEF DropRemap, Running, TypeOK
  <2> QED
    BY <1>11, <2>1, <2>2, <2>3, <2>4
<1>13. ASSUME NEW r \in Remaps, RemapFails(r) PROVE SettleOK' /\ MappingsSettle'
  BY <1>11, <1>13 DEF RemapFails, syncVars
<1>14. CASE \/ Tick \/ (\E k \in Contacts : SaveContact(k)) \/ UNCHANGED vars
            \/ \E d \in Deals, s \in Stages, k \in Contacts \cup {NONE} : SaveDeal(d, s, k)
  BY <1>1, <1>14 DEF Tick, SaveContact, SaveDeal, vars, syncVars, remapVars
<1> QED
  BY <1>2, <1>3, <1>4, <1>5, <1>6, <1>7, <1>8, <1>9, <1>10, <1>12, <1>13, <1>14 DEF Next

\* Any number of overlapping remaps and any number of CRMs in the tenant: after a
\* remap that ran with no other beside it and no sync of its connection, every deal
\* of the connection keeps the status its stored history earns, through all later
\* syncs, until the next remap.
THEOREM CrmSyncMappingsSettle == Spec => []MappingsSettle
<1>1. Init => SettleInv
  <2>1. Init => SettleOK /\ MappingsSettle
    BY DEF Init, SettleOK, MappingsSettle, Stored, NoDeal, Running
  <2> QED
    BY <2>1, RowsInvInduction DEF SettleInv
<1>2. SettleInv /\ [Next]_vars => SettleInv'
  BY RowsInvInduction, NextSettle DEF SettleInv
<1>3. SettleInv => MappingsSettle
  BY DEF SettleInv
<1> QED
  BY <1>1, <1>2, <1>3, PTL DEF Spec

-----------------------------------------------------------------------------
(* Paging: a fetch page by page.                                           *)

PagingTypeOK ==
  /\ listing \subseteq Ids /\ stayed \subseteq listing /\ gone \subseteq Ids /\ out \subseteq Ids
  /\ reading \in {"before", "pages", "done", "failed"}
  /\ start \in Nat /\ requests \in Nat

\* The records the loop has walked past without having read them.
Passed == {id \in stayed \ out : Position(id) < start}

\* The offset is whole pages, as many as were asked for, and the guard has not been reached.  The loop has
\* walked past at most as many records as were deleted, none of which comes back.
WalkOK ==
  reading \in {"before", "pages"} =>
    /\ requests < MaxPages /\ start = requests * PageSize
    /\ Cardinality(Passed) <= Cardinality(gone)
    /\ gone \cap listing = {}

PagingInv == PagingTypeOK /\ WalkOK /\ OnlyDeletionsSkip

\* What is listed is finite, and so is all that is taken from it.
LEMMA ListingFinite ==
  ASSUME PagingTypeOK
  PROVE  /\ IsFiniteSet(listing) /\ IsFiniteSet(gone)
         /\ \A S \in SUBSET listing : IsFiniteSet(S) /\ Cardinality(S) \in Nat
         /\ \A S \in SUBSET listing : \A T \in SUBSET S : Cardinality(T) <= Cardinality(S)
<1>1. IsFiniteSet(listing) /\ IsFiniteSet(gone)
  BY FS_Subset, PagingAssumption DEF PagingTypeOK
<1>2. \A S \in SUBSET listing : IsFiniteSet(S) /\ Cardinality(S) \in Nat
  BY <1>1, FS_Subset, FS_CardinalityType
<1>3. \A S \in SUBSET listing : \A T \in SUBSET S : Cardinality(T) <= Cardinality(S)
  BY <1>2, FS_Subset
<1> QED
  BY <1>1, <1>2, <1>3

\* An offset is a number below the length of the list, and two records have two offsets.
LEMMA PositionOrders ==
  ASSUME PagingTypeOK
  PROVE  /\ \A id \in listing : Position(id) \in Nat /\ Position(id) < Cardinality(listing)
         /\ \A x, y \in listing : x < y => Position(x) < Position(y)
<1> DEFINE Below(id) == {other \in listing : other < id}
<1>1. listing \subseteq Nat
  BY PagingAssumption DEF PagingTypeOK
<1>2. ASSUME NEW x \in listing, NEW S \in SUBSET listing, Below(x) \cup {x} \subseteq S
      PROVE  Position(x) \in Nat /\ Position(x) < Cardinality(S)
  <2>1. Below(x) \in SUBSET listing /\ Position(x) = Cardinality(Below(x))
    BY DEF Position
  <2>2. IsFiniteSet(Below(x)) /\ Cardinality(Below(x)) \in Nat
    BY <2>1, ListingFinite
  <2>3. x \notin Below(x)
    BY <1>1
  <2>4. Cardinality(Below(x) \cup {x}) = Cardinality(Below(x)) + 1
    BY <2>2, <2>3, FS_AddElement
  <2>5. Cardinality(Below(x) \cup {x}) <= Cardinality(S) /\ Cardinality(S) \in Nat
    BY <1>2, ListingFinite
  <2> HIDE DEF Below
  <2> QED
    BY <2>1, <2>2, <2>4, <2>5
<1>3. \A id \in listing : Position(id) \in Nat /\ Position(id) < Cardinality(listing)
  BY <1>2
<1>4. ASSUME NEW x \in listing, NEW y \in listing, x < y
      PROVE  Position(x) < Position(y)
  <2>1. ASSUME NEW other \in listing, other < x \/ other = x
        PROVE  other < y
    BY <1>1, <1>4, <2>1
  <2>2. Position(y) = Cardinality(Below(y))
    BY DEF Position
  <2>3. Below(x) \cup {x} \subseteq Below(y) /\ Below(y) \in SUBSET listing
    BY <2>1
  <2> QED
    BY <1>2, <2>2, <2>3
<1> QED
  BY <1>3, <1>4

LEMMA InitPaging == PagingInit => PagingInv
<1> SUFFICES ASSUME PagingInit PROVE PagingInv
  OBVIOUS
<1>1. PagingTypeOK
  BY DEF PagingInit, PagingTypeOK
<1>2. requests < MaxPages /\ start = requests * PageSize /\ gone \cap listing = {}
  BY PagingAssumption DEF PagingInit
<1>3. Passed = {}
  BY <1>1, PositionOrders DEF Passed, PagingInit, PagingTypeOK
<1>4. Cardinality(Passed) <= Cardinality(gone)
  BY <1>3, FS_EmptySet DEF PagingInit
<1> QED
  BY <1>1, <1>2, <1>4 DEF PagingInv, WalkOK, OnlyDeletionsSkip, PagingInit

\* A record that enters pushes others back, past no offset.
LEMMA EnterKeepsPaging ==
  ASSUME PagingInv, NEW id \in Ids, Enter(id)
  PROVE  PagingInv'
<1>1. PagingTypeOK'
  BY DEF PagingInv, PagingTypeOK, Enter
<1>2. ASSUME NEW x \in listing
      PROVE  Position(x) <= Position(x)' /\ Position(x) \in Nat /\ Position(x)' \in Nat
  <2>1. Position(x) \in Nat
    BY PositionOrders DEF PagingInv
  <2>2. IsFiniteSet(listing')
    BY <1>1, FS_Subset, PagingAssumption DEF PagingTypeOK
  <2>3. {other \in listing : other < x} \in SUBSET {other \in listing' : other < x}
    BY DEF Enter
  <2>4. IsFiniteSet({other \in listing' : other < x})
    BY <2>2, FS_Subset
  <2> QED
    BY <2>1, <2>3, <2>4, FS_Subset, FS_CardinalityType DEF Position
<1>3. Passed' \subseteq Passed
  BY <1>2 DEF Passed, Enter, PagingInv, PagingTypeOK
<1>4. Cardinality(Passed') <= Cardinality(Passed) /\ Cardinality(Passed) \in Nat /\ Cardinality(Passed') \in Nat
  <2>1. Passed \in SUBSET listing
    BY DEF Passed, PagingInv, PagingTypeOK
  <2> QED
    BY <1>3, <2>1, ListingFinite DEF PagingInv
<1>5. Cardinality(gone) \in Nat
  BY ListingFinite, FS_CardinalityType DEF PagingInv
<1>6. Cardinality(Passed)' <= Cardinality(gone)'
  BY <1>4, <1>5 DEF PagingInv, WalkOK, Enter
<1>7. WalkOK'
  BY <1>6 DEF PagingInv, WalkOK, Enter
<1>8. OnlyDeletionsSkip'
  BY DEF Enter, OnlyDeletionsSkip
<1> QED
  BY <1>1, <1>7, <1>8 DEF PagingInv

\* A record that is deleted lets those behind it move up by one, and one of them past the offset.
LEMMA DeleteKeepsPaging ==
  ASSUME PagingInv, NEW id \in Ids, Delete(id)
  PROVE  PagingInv'
<1> DEFINE Slipped == {x \in stayed \ out : Position(x) = start}
<1>1. PagingTypeOK'
  BY DEF PagingInv, PagingTypeOK, Delete
<1>2. ASSUME NEW x \in listing
      PROVE  Position(x)' \in Nat /\ Position(x) <= Position(x)' + 1
  <2> DEFINE Below == {other \in listing : other < x}
             BelowAfter == {other \in listing' : other < x}
  <2>1. Below \in SUBSET listing /\ Position(x) = Cardinality(Below) /\ Position(x)' = Cardinality(BelowAfter)
    BY DEF Position
  <2>2. BelowAfter = Below \ {id}
    BY DEF Delete
  <2>3. IsFiniteSet(Below) /\ Cardinality(Below) \in Nat /\ IsFiniteSet(BelowAfter)
    BY <2>1, <2>2, ListingFinite, FS_Subset DEF PagingInv
  <2> HIDE DEF Below, BelowAfter
  <2>4. Cardinality(BelowAfter) \in Nat
    BY <2>3, FS_CardinalityType
  <2>5. Cardinality(BelowAfter) = IF id \in Below THEN Cardinality(Below) - 1 ELSE Cardinality(Below)
    BY <2>2, <2>3, FS_RemoveElement
  <2> QED
    BY <2>1, <2>3, <2>4, <2>5
<1>3. Passed' \subseteq Passed \cup Slipped
  BY <1>2, PositionOrders DEF Passed, Delete, PagingInv, PagingTypeOK
<1>4. \A x, y \in Slipped : x = y
  <2>1. listing \subseteq Nat
    BY PagingAssumption DEF PagingInv, PagingTypeOK
  <2>2. ASSUME NEW x \in listing, NEW y \in listing, Position(x) = Position(y)
        PROVE  x = y
    BY <2>1, <2>2, PositionOrders DEF PagingInv
  <2> QED
    BY <2>2 DEF PagingInv, PagingTypeOK
<1>5. Passed \in SUBSET listing /\ Slipped \in SUBSET listing
  BY DEF Passed, PagingInv, PagingTypeOK
<1>6. IsFiniteSet(Passed) /\ Cardinality(Passed) \in Nat
  BY <1>5, ListingFinite DEF PagingInv
<1>7. \E x : Passed' \subseteq Passed \cup {x}
  BY <1>3, <1>4
<1>8. Cardinality(Passed') \in Nat /\ Cardinality(Passed') <= Cardinality(Passed) + 1
  <2>1. PICK x : Passed' \subseteq Passed \cup {x}
    BY <1>7
  <2>2. IsFiniteSet(Passed \cup {x}) /\ Cardinality(Passed \cup {x}) <= Cardinality(Passed) + 1
    <3>1. Cardinality(Passed \cup {x}) = IF x \in Passed THEN Cardinality(Passed) ELSE Cardinality(Passed) + 1
      BY <1>6, FS_AddElement
    <3>2. IsFiniteSet(Passed \cup {x})
      BY <1>6, FS_AddElement
    <3> QED
      BY <1>6, <3>1, <3>2
  <2>3. IsFiniteSet(Passed') /\ Cardinality(Passed') <= Cardinality(Passed \cup {x})
    BY <2>1, <2>2, FS_Subset
  <2>4. Cardinality(Passed') \in Nat /\ Cardinality(Passed \cup {x}) \in Nat
    BY <2>2, <2>3, FS_CardinalityType
  <2> QED
    BY <1>6, <2>2, <2>3, <2>4
<1>9. reading = "pages" /\ Cardinality(gone') = Cardinality(gone) + 1 /\ Cardinality(gone) \in Nat
  <2>1. IsFiniteSet(gone) /\ Cardinality(gone) \in Nat
    BY ListingFinite, FS_CardinalityType DEF PagingInv
  <2>2. reading = "pages" /\ id \notin gone /\ gone' = gone \cup {id}
    BY DEF Delete, PagingInv, WalkOK
  <2> QED
    BY <2>1, <2>2, FS_AddElement
<1>10. Cardinality(Passed)' <= Cardinality(gone)'
  BY <1>6, <1>8, <1>9 DEF PagingInv, WalkOK
<1>11. WalkOK'
  BY <1>9, <1>10 DEF PagingInv, WalkOK, Delete
<1>12. OnlyDeletionsSkip'
  BY DEF Delete, OnlyDeletionsSkip
<1> QED
  BY <1>1, <1>11, <1>12 DEF PagingInv

\* A page takes everything between its offset and the next, and the last one everything to the end.
LEMMA ReadPageKeepsPaging ==
  ASSUME PagingInv, ReadPage
  PROVE  PagingInv'
<1> USE DEF PagingInv
<1>1. PagingTypeOK'
  <2>1. start + PageSize \in Nat /\ requests + 1 \in Nat /\ Page \subseteq listing
    BY PagingAssumption DEF PagingTypeOK, Page
  <2> QED
    BY <2>1 DEF PagingTypeOK, ReadPage
<1>2. \A id \in listing : Position(id)' = Position(id)
  BY DEF ReadPage, Position
<1>3. Passed \in SUBSET listing /\ IsFiniteSet(Passed) /\ Cardinality(Passed) \in Nat
  BY ListingFinite DEF Passed, PagingTypeOK
<1>4. Cardinality(Passed) <= Cardinality(gone) /\ gone' = gone /\ Cardinality(gone) \in Nat
  BY ListingFinite, FS_CardinalityType DEF WalkOK, ReadPage
<1>5. ASSUME NEW S, S \subseteq Passed
      PROVE  Cardinality(S) <= Cardinality(gone')
  <2>1. Cardinality(S) \in Nat /\ Cardinality(S) <= Cardinality(Passed)
    BY <1>3, <1>5, FS_Subset, FS_CardinalityType
  <2> QED
    BY <1>3, <1>4, <2>1
<1>6. CASE More /\ requests' < MaxPages
  <2>1. Passed' \subseteq Passed
    BY <1>2, <1>6, PositionOrders DEF Passed, ReadPage, Page, PagingTypeOK
  <2>2. start' = requests' * PageSize
    BY <1>6, PagingAssumption DEF ReadPage, WalkOK, PagingTypeOK
  <2> QED
    BY <1>1, <1>5, <1>6, <2>1, <2>2 DEF WalkOK, OnlyDeletionsSkip, ReadPage
<1>7. CASE ~(More /\ requests' < MaxPages)
  <2>1. reading' = "done" /\ requests' = requests + 1 /\ listing' = listing
    BY <1>7 DEF ReadPage
  <2>2. (stayed \ out)' \subseteq Passed \/ Cardinality(listing) > MaxPages * PageSize
    <3>1. CASE More
      <4>1. requests + 1 = MaxPages /\ start + PageSize = (requests + 1) * PageSize
        BY <1>7, <3>1, PagingAssumption DEF ReadPage, WalkOK, PagingTypeOK
      <4> QED
        BY <3>1, <4>1 DEF More
    <3>2. CASE ~More
      <4>1. Cardinality(listing) \in Nat /\ Cardinality(listing) <= start + PageSize
        BY <3>2, ListingFinite, PagingAssumption DEF More, PagingTypeOK
      <4>2. \A id \in listing : Position(id) < start + PageSize /\ Position(id) \in Nat
        BY <4>1, PositionOrders, PagingAssumption DEF PagingTypeOK
      <4> QED
        BY <4>2 DEF Passed, ReadPage, Page, PagingTypeOK
    <3> QED
      BY <3>1, <3>2
  <2>3. OnlyDeletionsSkip'
    <3>1. Cardinality(listing) \in Nat /\ MaxPages * PageSize \in Nat
      BY ListingFinite, PagingAssumption
    <3> QED
      BY <1>5, <2>1, <2>2, <3>1 DEF OnlyDeletionsSkip
  <2> QED
    BY <1>1, <2>1, <2>3 DEF WalkOK
<1> QED
  BY <1>6, <1>7

LEMMA NextPaging == PagingInv /\ [PagingNext]_pagingVars => PagingInv'
<1> SUFFICES ASSUME PagingInv, [PagingNext]_pagingVars PROVE PagingInv'
  OBVIOUS
<1>1. CASE \E id \in Ids : Enter(id) \/ Delete(id)
  BY <1>1, EnterKeepsPaging, DeleteKeepsPaging
<1>2. CASE ReadPage
  BY <1>2, ReadPageKeepsPaging
<1>3. CASE ReadFails
  BY <1>3 DEF PagingInv, PagingTypeOK, WalkOK, OnlyDeletionsSkip, ReadFails
<1>4. CASE UNCHANGED pagingVars
  <2>1. UNCHANGED <<listing, reading, start, requests, out, stayed, gone>>
    BY <1>4 DEF pagingVars
  <2>2. Passed' = Passed
    BY <2>1 DEF Passed, Position
  <2> QED
    BY <2>1, <2>2 DEF PagingInv, PagingTypeOK, WalkOK, OnlyDeletionsSkip
<1> QED
  BY <1>1, <1>2, <1>3, <1>4 DEF PagingNext

\* However records enter, are edited and are deleted while a CRM list is read page after page, and
\* whatever the size of a page: a record listed from the first page to the last is skipped only at the
\* cost of a deletion, or when the list has outgrown the guard.
THEOREM PagingOnlyDeletionsSkip == PagingSpec => []OnlyDeletionsSkip
<1>1. PagingInv => OnlyDeletionsSkip
  BY DEF PagingInv
<1> QED
  BY InitPaging, NextPaging, <1>1, PTL DEF PagingSpec

-----------------------------------------------------------------------------
(* Ingest: a Meta sync, page by page and row by row.                       *)

Amounts == [MetaAds -> [Calendar -> 0..MaxStated]]

Insights == MetaAds \X Calendar \X (1..MaxStated)

\* What a sync holds depends on how far it is.
IngestTypeOK ==
  /\ day \in Calendar
  /\ home \in [MetaAds -> MetaAdSets \cup {NOWHERE}] /\ retired \subseteq MetaAds /\ crowded \subseteq MetaAdSets
  /\ spend \in Amounts /\ stored \in Amounts /\ owed \in Amounts /\ asked \in Amounts
  /\ connected \in Nat /\ connected <= day /\ adRows \subseteq MetaAds
  /\ began \in Nat /\ began <= day /\ syncs \in Nat
  /\ at \in {"idle", "hierarchy", "insights", "orphan"}
  /\ at = "hierarchy" => pages \subseteq MetaAdSets /\ found \subseteq MetaAds
  /\ at = "insights" => pages \subseteq Calendar /\ found \subseteq Insights

\* Meta states amounts of ads it has had, and never takes one back.
StatedOK ==
  \A a \in MetaAds, d \in Calendar :
    /\ asked[a][d] <= spend[a][d]
    /\ spend[a][d] > 0 => home[a] # NOWHERE

\* The limit cuts no ad set short but those that have outgrown it.
LimitOK == \A s \in MetaAdSets : s \notin crowded => Cardinality(Listed(s)) <= NestedLimit

\* A sync that has not lost its account is of a connected one, and no older amount is owed than Meta states.
SyncOK ==
  at \in {"hierarchy", "insights"} =>
    /\ connected # NEVER
    /\ \A a \in MetaAds, d \in Calendar : owed[a][d] <= asked[a][d]

\* An ad that has to get a row is on a page to come, or read, or has it.
HierarchyFollows ==
  at = "hierarchy" =>
    \A a \in DueAds, d \in Calendar : asked[a][d] > 0 => home[a] \in pages \/ a \in found \/ a \in adRows

\* Once the insights are asked for it has it, and what is due of a day is on a page to come, or read and not
\* yet stored, or stored.  What is read is not from before the sync began.
InsightsFollow ==
  at = "insights" =>
    /\ \A a \in DueAds, d \in Calendar : asked[a][d] > 0 => a \in adRows
    /\ \A a \in adRows : \A d \in DueDays :
         asked[a][d] > 0 =>
           d \in pages \/ asked[a][d] <= stored[a][d] \/ \E n \in 1..MaxStated : <<a, d, n>> \in found
    /\ \A a \in MetaAds, d \in Calendar, n \in 1..MaxStated :
         <<a, d, n>> \in found => asked[a][d] <= n /\ n <= spend[a][d]

IngestInv ==
  /\ IngestTypeOK /\ StatedOK /\ LimitOK /\ SyncOK
  /\ HierarchyFollows /\ InsightsFollow /\ SpendIsMirrored

\* The larger and the smaller of two numbers.
LEMMA MaxOfTwo ==
  ASSUME NEW x \in Nat, NEW y \in Nat
  PROVE  Max({x, y}) \in {x, y} /\ x <= Max({x, y}) /\ y <= Max({x, y})
<1>1. \E m \in {x, y} : \A n \in {x, y} : m >= n
  OBVIOUS
<1> QED
  BY <1>1 DEF Max

LEMMA MinOfTwo ==
  ASSUME NEW x \in Nat, NEW y \in Nat, y <= x
  PROVE  Min({x, y}) = y
<1>1. \E m \in {x, y} : \A n \in {x, y} : m =< n
  OBVIOUS
<1>2. Min({x, y}) \in {x, y} /\ \A n \in {x, y} : Min({x, y}) =< n
  BY <1>1 DEF Min
<1> QED
  BY <1>2

LEMMA AmountsAreNumbers ==
  ASSUME NEW f \in Amounts, NEW a \in MetaAds, NEW d \in Calendar
  PROVE  f[a][d] \in Nat /\ f[a][d] <= MaxStated
  BY IngestAssumption DEF Amounts

LEMMA NothingIsAmounts ==
  Nothing \in Amounts /\ \A a \in MetaAds, d \in Calendar : Nothing[a][d] = 0
  BY IngestAssumption DEF Nothing, Amounts

\* As many as the limit names of an ad set that has no more are all.
LEMMA WholeAdSet ==
  ASSUME IngestTypeOK, LimitOK, NEW s \in MetaAdSets, s \notin crowded, NEW some \in SUBSET Listed(s),
         Cardinality(some) = Min({NestedLimit, Cardinality(Listed(s))})
  PROVE  some = Listed(s)
<1>1. IsFiniteSet(Listed(s)) /\ Cardinality(Listed(s)) \in Nat
  <2>1. Listed(s) \in SUBSET MetaAds
    BY DEF Listed
  <2> QED
    BY <2>1, FS_Subset, FS_CardinalityType, IngestAssumption
<1>2. Cardinality(Listed(s)) <= NestedLimit
  BY DEF LimitOK
<1>3. Min({NestedLimit, Cardinality(Listed(s))}) = Cardinality(Listed(s))
  BY <1>1, <1>2, MinOfTwo, IngestAssumption
<1> QED
  BY <1>1, <1>3, FS_Subset

LEMMA InitIngest == IngestInit => IngestInv
<1> SUFFICES ASSUME IngestInit PROVE IngestInv
  OBVIOUS
<1> USE DEF IngestInit
<1>1. IngestTypeOK
  <2>1. 1 \in Calendar
    BY IngestAssumption DEF Calendar
  <2> QED
    BY <2>1, NothingIsAmounts DEF IngestTypeOK, NEVER
<1>2. StatedOK
  BY NothingIsAmounts DEF StatedOK
<1>3. LimitOK
  <2>1. ASSUME NEW s \in MetaAdSets PROVE Cardinality(Listed(s)) <= NestedLimit
    <3>1. Listed(s) = {}
      BY IngestAssumption DEF Listed
    <3> QED
      BY <3>1, FS_EmptySet, IngestAssumption
  <2> QED
    BY <2>1 DEF LimitOK
<1>4. SyncOK /\ HierarchyFollows /\ InsightsFollow
  BY DEF SyncOK, HierarchyFollows, InsightsFollow
<1>5. SpendIsMirrored
  BY NothingIsAmounts DEF SpendIsMirrored
<1> QED
  BY <1>1, <1>2, <1>3, <1>4, <1>5 DEF IngestInv

-----------------------------------------------------------------------------
(* Meta and the clock: what is due only shrinks.                           *)

LEMMA DayPassesKeepsIngest ==
  ASSUME IngestInv, DayPasses
  PROVE  IngestInv'
<1> USE DEF IngestInv, DayPasses, accountVars, metaSyncVars
<1>1. IngestTypeOK'
  <2>1. day + 1 \in Calendar /\ day \in Nat
    BY IngestAssumption DEF IngestTypeOK, Calendar
  <2>2. connected <= day + 1 /\ began <= day + 1
    BY <2>1 DEF IngestTypeOK
  <2> QED
    BY <2>1, <2>2 DEF IngestTypeOK
<1>2. StatedOK' /\ SyncOK' /\ SpendIsMirrored'
  BY DEF StatedOK, SyncOK, SpendIsMirrored
<1>3. LimitOK'
  BY DEF LimitOK, Listed
<1>4. DueAds' = DueAds
  BY DEF DueAds
<1>5. DueDays' \subseteq DueDays
  BY IngestAssumption DEF DueDays, IngestTypeOK, Calendar
<1>6. HierarchyFollows'
  BY <1>4 DEF HierarchyFollows
<1>7. InsightsFollow'
  BY <1>4, <1>5 DEF InsightsFollow
<1> QED
  BY <1>1, <1>2, <1>3, <1>6, <1>7

LEMMA CreateAdKeepsIngest ==
  ASSUME IngestInv, NEW a \in MetaAds, NEW s \in MetaAdSets, CreateAd(a, s)
  PROVE  IngestInv'
<1> USE DEF IngestInv
<1>0. /\ home[a] = NOWHERE /\ home' = [home EXCEPT ![a] = s]
      /\ crowded' = IF Cardinality(Listed(s)) < NestedLimit THEN crowded ELSE crowded \cup {s}
      /\ UNCHANGED <<day, retired, spend, connected, adRows, stored, owed, at, pages, found, syncs, began, asked>>
  BY DEF CreateAd, accountVars, metaSyncVars
<1>1. IngestTypeOK'
  <2>1. home' \in [MetaAds -> MetaAdSets \cup {NOWHERE}] /\ crowded' \subseteq MetaAdSets
    BY <1>0 DEF IngestTypeOK
  <2> QED
    BY <1>0, <2>1 DEF IngestTypeOK
<1>2. home'[a] = s /\ \A b \in MetaAds : b # a => home'[b] = home[b]
  BY <1>0 DEF IngestTypeOK
<1>3. StatedOK'
  BY <1>0, <1>2, IngestAssumption DEF StatedOK
<1>4. SyncOK' /\ SpendIsMirrored'
  BY <1>0 DEF SyncOK, SpendIsMirrored
<1>5. LimitOK'
  <2>1. ASSUME NEW t \in MetaAdSets, t # s
        PROVE  Listed(t)' = Listed(t)
    BY <1>0, <1>2, <2>1, IngestAssumption DEF Listed
  <2>2. Listed(s)' \subseteq Listed(s) \cup {a}
    BY <1>0, <1>2 DEF Listed
  <2>3. ASSUME Cardinality(Listed(s)) < NestedLimit
        PROVE  Cardinality(Listed(s)') <= NestedLimit
    <3>1. Listed(s) \in SUBSET MetaAds
      BY DEF Listed
    <3>2. IsFiniteSet(Listed(s)) /\ Cardinality(Listed(s)) \in Nat
      BY <3>1, FS_Subset, FS_CardinalityType, IngestAssumption
    <3>3. IsFiniteSet(Listed(s) \cup {a})
      BY <3>2, FS_AddElement
    <3>4. Cardinality(Listed(s) \cup {a}) = IF a \in Listed(s) THEN Cardinality(Listed(s)) ELSE Cardinality(Listed(s)) + 1
      BY <3>2, FS_AddElement
    <3>5. IsFiniteSet(Listed(s)') /\ Cardinality(Listed(s)') <= Cardinality(Listed(s) \cup {a})
      BY <2>2, <3>3, FS_Subset
    <3>6. Cardinality(Listed(s)') \in Nat /\ Cardinality(Listed(s) \cup {a}) \in Nat
      BY <3>3, <3>5, FS_CardinalityType
    <3> QED
      BY <2>3, <3>2, <3>4, <3>5, <3>6, IngestAssumption
  <2>4. ASSUME NEW t \in MetaAdSets, t \notin crowded'
        PROVE  Cardinality(Listed(t)') <= NestedLimit
    <3>1. CASE t = s
      BY <1>0, <2>3, <2>4, <3>1
    <3>2. CASE t # s
      BY <1>0, <2>1, <2>4, <3>2 DEF LimitOK
    <3> QED
      BY <3>1, <3>2
  <2> QED
    BY <2>4 DEF LimitOK
<1>6. \A b \in MetaAds, d \in Calendar : asked[b][d] > 0 => b # a
  BY <1>0, AmountsAreNumbers DEF StatedOK, IngestTypeOK
<1>7. \A b \in MetaAds : b # a /\ b \in DueAds' => b \in DueAds
  BY <1>0, <1>2 DEF DueAds
<1>8. DueAds' \subseteq MetaAds
  BY <1>1 DEF DueAds, IngestTypeOK
<1>9. HierarchyFollows'
  BY <1>0, <1>2, <1>6, <1>7, <1>8 DEF HierarchyFollows
<1>10. InsightsFollow'
  <2>1. DueDays' = DueDays
    BY <1>0 DEF DueDays
  <2> QED
    BY <1>0, <1>6, <1>7, <1>8, <2>1 DEF InsightsFollow
<1> QED
  BY <1>1, <1>3, <1>4, <1>5, <1>9, <1>10

LEMMA RetireAdKeepsIngest ==
  ASSUME IngestInv, NEW a \in MetaAds, RetireAd(a)
  PROVE  IngestInv'
<1> USE DEF IngestInv
<1>0. /\ retired' = retired \cup {a}
      /\ UNCHANGED <<day, home, spend, crowded, connected, adRows, stored, owed, at, pages, found, syncs, began, asked>>
  BY DEF RetireAd, accountVars, metaSyncVars
<1>1. IngestTypeOK'
  BY <1>0 DEF IngestTypeOK
<1>2. StatedOK' /\ SyncOK' /\ SpendIsMirrored'
  BY <1>0 DEF StatedOK, SyncOK, SpendIsMirrored
<1>3. LimitOK'
  <2>1. ASSUME NEW s \in MetaAdSets
        PROVE  /\ Cardinality(Listed(s)') <= Cardinality(Listed(s))
               /\ Cardinality(Listed(s)') \in Nat /\ Cardinality(Listed(s)) \in Nat
    <3>1. Listed(s) \in SUBSET MetaAds /\ Listed(s)' \in SUBSET Listed(s)
      BY <1>0 DEF Listed
    <3>2. IsFiniteSet(Listed(s))
      BY <3>1, FS_Subset, IngestAssumption
    <3> QED
      BY <3>1, <3>2, FS_Subset, FS_CardinalityType
  <2>2. ASSUME NEW s \in MetaAdSets, s \notin crowded'
        PROVE  Cardinality(Listed(s)') <= NestedLimit
    <3>1. Cardinality(Listed(s)) <= NestedLimit
      BY <1>0, <2>2 DEF LimitOK
    <3> QED
      BY <2>1, <3>1, IngestAssumption
  <2> QED
    BY <2>2 DEF LimitOK
<1>4. DueAds' \subseteq DueAds /\ DueDays' = DueDays
  BY <1>0 DEF DueAds, DueDays
<1>5. HierarchyFollows'
  BY <1>0, <1>4 DEF HierarchyFollows
<1>6. InsightsFollow'
  BY <1>0, <1>4 DEF InsightsFollow
<1> QED
  BY <1>1, <1>2, <1>3, <1>5, <1>6

LEMMA StateSpendKeepsIngest ==
  ASSUME IngestInv, NEW a \in MetaAds, NEW d \in Calendar, StateSpend(a, d)
  PROVE  IngestInv'
<1> USE DEF IngestInv
<1>0. /\ home[a] # NOWHERE /\ spend[a][d] < MaxStated
      /\ spend' = [spend EXCEPT ![a][d] = spend[a][d] + 1]
      /\ UNCHANGED <<day, home, retired, crowded, connected, adRows, stored, owed, at, pages, found, syncs, began, asked>>
  BY DEF StateSpend, accountVars, metaSyncVars
<1>1. spend[a][d] + 1 \in 0..MaxStated
  BY <1>0, AmountsAreNumbers, IngestAssumption DEF IngestTypeOK
<1>2. /\ spend' \in Amounts
      /\ \A b \in MetaAds, e \in Calendar :
           spend'[b][e] = IF b = a /\ e = d THEN spend[a][d] + 1 ELSE spend[b][e]
  <2>1. spend \in [MetaAds -> [Calendar -> 0..MaxStated]]
    BY DEF IngestTypeOK, Amounts
  <2>2. \A b \in MetaAds : spend'[b] = IF b = a THEN [spend[a] EXCEPT ![d] = spend[a][d] + 1] ELSE spend[b]
    BY <1>0, <2>1
  <2>3. \A b \in MetaAds : spend'[b] \in [Calendar -> 0..MaxStated]
    BY <1>1, <2>1, <2>2
  <2>4. spend' = [b \in MetaAds |-> spend'[b]]
    BY <1>0, <2>1
  <2>5. spend' \in Amounts
    BY <2>3, <2>4 DEF Amounts
  <2>6. \A b \in MetaAds, e \in Calendar :
         spend'[b][e] = IF b = a /\ e = d THEN spend[a][d] + 1 ELSE spend[b][e]
    BY <2>1, <2>2
  <2> QED
    BY <2>5, <2>6
<1>3. IngestTypeOK'
  BY <1>0, <1>2 DEF IngestTypeOK
<1>4. ASSUME NEW b \in MetaAds, NEW e \in Calendar
      PROVE  /\ spend[b][e] <= spend'[b][e] /\ spend[b][e] \in Nat /\ spend'[b][e] \in Nat
             /\ spend'[b][e] > 0 => spend[b][e] > 0 \/ b = a
             /\ asked[b][e] \in Nat /\ stored[b][e] \in Nat
  BY <1>2, AmountsAreNumbers DEF IngestTypeOK
<1>5. StatedOK'
  BY <1>0, <1>4 DEF StatedOK
<1>6. SyncOK'
  BY <1>0 DEF SyncOK
<1>7. SpendIsMirrored'
  BY <1>0, <1>4 DEF SpendIsMirrored
<1>8. LimitOK'
  BY <1>0 DEF LimitOK, Listed
<1>9. DueAds' = DueAds /\ DueDays' = DueDays
  BY <1>0 DEF DueAds, DueDays
<1>10. HierarchyFollows'
  BY <1>0, <1>9 DEF HierarchyFollows
<1>11. InsightsFollow'
  <2>1. ASSUME NEW b \in MetaAds, NEW e \in Calendar, NEW n \in 1..MaxStated, at' = "insights", <<b, e, n>> \in found'
        PROVE  asked'[b][e] <= n /\ n <= spend'[b][e]
    <3>1. asked[b][e] <= n /\ n <= spend[b][e]
      BY <1>0, <2>1 DEF InsightsFollow
    <3> QED
      BY <1>0, <1>4, <3>1
  <2> QED
    BY <1>0, <1>9, <2>1 DEF InsightsFollow
<1> QED
  BY <1>3, <1>5, <1>6, <1>7, <1>8, <1>10, <1>11

-----------------------------------------------------------------------------
(* The account.                                                            *)

LEMMA ConnectMetaKeepsIngest ==
  ASSUME IngestInv, ConnectMeta
  PROVE  IngestInv'
<1> USE DEF IngestInv
<1>0. /\ connected = NEVER /\ connected' = day
      /\ UNCHANGED <<day, home, retired, spend, crowded, adRows, stored, owed, at, pages, found, syncs, began, asked>>
  BY DEF ConnectMeta, metaVars, metaSyncVars
<1>1. IngestTypeOK'
  <2>1. day \in Nat
    BY DEF IngestTypeOK, Calendar
  <2> QED
    BY <1>0, <2>1 DEF IngestTypeOK
<1>2. StatedOK' /\ LimitOK'
  BY <1>0 DEF StatedOK, LimitOK, Listed
<1>3. at' \notin {"hierarchy", "insights"}
  BY <1>0 DEF SyncOK
<1>4. SyncOK' /\ HierarchyFollows' /\ InsightsFollow'
  BY <1>3 DEF SyncOK, HierarchyFollows, InsightsFollow
<1>5. SpendIsMirrored'
  BY <1>0 DEF SpendIsMirrored
<1> QED
  BY <1>1, <1>2, <1>4, <1>5

LEMMA RemoveMetaKeepsIngest ==
  ASSUME IngestInv, RemoveMeta
  PROVE  IngestInv'
<1> USE DEF IngestInv
<1>0. /\ connected' = NEVER /\ adRows' = {} /\ stored' = Nothing /\ owed' = Nothing
      /\ at' = IF at = "idle" THEN at ELSE "orphan"
      /\ began' = NEVER /\ asked' = Nothing
      /\ UNCHANGED <<day, home, retired, spend, crowded, syncs>>
  BY DEF RemoveMeta, metaVars
<1>1. IngestTypeOK'
  <2>1. day \in Nat
    BY DEF IngestTypeOK, Calendar
  <2>2. at' \in {"idle", "orphan"}
    BY <1>0
  <2> QED
    BY <1>0, <2>1, <2>2, NothingIsAmounts DEF IngestTypeOK, NEVER
<1>2. LimitOK'
  BY <1>0 DEF LimitOK, Listed
<1>3. StatedOK' /\ SpendIsMirrored'
  <2>1. \A a \in MetaAds, d \in Calendar : spend[a][d] \in Nat
    BY AmountsAreNumbers DEF IngestTypeOK
  <2> QED
    BY <1>0, <2>1, NothingIsAmounts DEF StatedOK, SpendIsMirrored
<1>4. at' \notin {"hierarchy", "insights"}
  BY <1>0
<1>5. SyncOK' /\ HierarchyFollows' /\ InsightsFollow'
  BY <1>4 DEF SyncOK, HierarchyFollows, InsightsFollow
<1> QED
  BY <1>1, <1>2, <1>3, <1>5

-----------------------------------------------------------------------------
(* The sync.                                                               *)

LEMMA BeginSyncKeepsIngest ==
  ASSUME IngestInv, BeginSync
  PROVE  IngestInv'
<1> USE DEF IngestInv
<1>0. /\ at = "idle" /\ connected # NEVER
      /\ at' = "hierarchy" /\ pages' = MetaAdSets /\ found' = {} /\ syncs' = syncs + 1 /\ began' = day /\ asked' = spend
      /\ UNCHANGED <<day, home, retired, spend, crowded, connected, adRows, stored, owed>>
  BY DEF BeginSync, metaVars, accountVars
<1>1. IngestTypeOK'
  <2>1. day \in Nat
    BY DEF IngestTypeOK, Calendar
  <2> QED
    BY <1>0, <2>1 DEF IngestTypeOK
<1>2. \A a \in MetaAds, d \in Calendar : spend[a][d] \in Nat /\ stored[a][d] \in Nat /\ owed[a][d] \in Nat
  BY AmountsAreNumbers DEF IngestTypeOK
<1>3. StatedOK'
  BY <1>0, <1>2 DEF StatedOK
<1>4. LimitOK' /\ SpendIsMirrored'
  BY <1>0 DEF LimitOK, Listed, SpendIsMirrored
<1>5. SyncOK'
  BY <1>0, <1>2 DEF SyncOK, SpendIsMirrored
<1>6. HierarchyFollows'
  <2>1. ASSUME NEW a \in MetaAds, NEW d \in Calendar, asked'[a][d] > 0
        PROVE  home'[a] \in pages'
    BY <1>0, <2>1 DEF StatedOK, IngestTypeOK
  <2>2. DueAds' \subseteq MetaAds
    BY <1>1 DEF DueAds, IngestTypeOK
  <2> QED
    BY <2>1, <2>2 DEF HierarchyFollows
<1>7. InsightsFollow'
  BY <1>0 DEF InsightsFollow
<1> QED
  BY <1>1, <1>3, <1>4, <1>5, <1>6, <1>7

LEMMA FetchAdSetKeepsIngest ==
  ASSUME IngestInv, NEW s \in MetaAdSets, FetchAdSet(s)
  PROVE  IngestInv'
<1> USE DEF IngestInv
<1>0. /\ at = "hierarchy" /\ pages' = pages \ {s}
      /\ UNCHANGED <<day, home, retired, spend, crowded, connected, adRows, stored, owed, at, syncs, began, asked>>
  BY DEF FetchAdSet, metaVars, accountVars
<1>1. PICK some \in SUBSET Listed(s) :
        /\ Cardinality(some) = Min({NestedLimit, Cardinality(Listed(s))})
        /\ found' = found \cup some
  BY DEF FetchAdSet
<1>2. IngestTypeOK'
  <2>1. some \subseteq MetaAds
    BY DEF Listed
  <2> QED
    BY <1>0, <1>1, <2>1 DEF IngestTypeOK
<1>3. StatedOK' /\ LimitOK' /\ SyncOK' /\ SpendIsMirrored'
  BY <1>0 DEF StatedOK, LimitOK, Listed, SyncOK, SpendIsMirrored
<1>4. DueAds' = DueAds
  BY <1>0 DEF DueAds
<1>5. HierarchyFollows'
  <2>1. ASSUME NEW a \in DueAds, a \notin adRows, home[a] = s
        PROVE  a \in found'
    <3>1. a \in Listed(s) /\ s \notin crowded
      BY <2>1 DEF DueAds, Listed
    <3> QED
      BY <1>1, <3>1, WholeAdSet
  <2> QED
    BY <1>0, <1>1, <1>4, <2>1 DEF HierarchyFollows
<1>6. InsightsFollow'
  BY <1>0 DEF InsightsFollow
<1> QED
  BY <1>2, <1>3, <1>5, <1>6

LEMMA StoreAdKeepsIngest ==
  ASSUME IngestInv, NEW a \in MetaAds, StoreAd(a)
  PROVE  IngestInv'
<1> USE DEF IngestInv
<1>0. /\ at = "hierarchy" /\ pages = {} /\ a \in found /\ adRows' = adRows \cup {a} /\ found' = found \ {a}
      /\ UNCHANGED <<day, home, retired, spend, crowded, connected, stored, owed, at, pages, syncs, began, asked>>
  BY DEF StoreAd, metaVars
<1>1. IngestTypeOK'
  BY <1>0 DEF IngestTypeOK
<1>2. StatedOK' /\ LimitOK' /\ SyncOK' /\ SpendIsMirrored'
  BY <1>0 DEF StatedOK, LimitOK, Listed, SyncOK, SpendIsMirrored
<1>3. DueAds' \subseteq DueAds \cup {a}
  BY <1>0 DEF DueAds
<1>4. HierarchyFollows'
  BY <1>0, <1>3 DEF HierarchyFollows
<1>5. InsightsFollow'
  BY <1>0 DEF InsightsFollow
<1> QED
  BY <1>1, <1>2, <1>4, <1>5

LEMMA AskInsightsKeepsIngest ==
  ASSUME IngestInv, AskInsights
  PROVE  IngestInv'
<1> USE DEF IngestInv
<1>0. /\ at = "hierarchy" /\ pages = {} /\ found = {} /\ at' = "insights" /\ pages' = InsightRange
      /\ UNCHANGED <<day, home, retired, spend, crowded, connected, adRows, stored, owed, found, syncs, began, asked>>
  BY DEF AskInsights, metaVars, accountVars
<1>1. IngestTypeOK'
  <2>1. InsightRange \subseteq Calendar
    BY DEF InsightRange
  <2> QED
    BY <1>0, <2>1 DEF IngestTypeOK
<1>2. StatedOK' /\ LimitOK' /\ SyncOK' /\ SpendIsMirrored'
  BY <1>0 DEF StatedOK, LimitOK, Listed, SyncOK, SpendIsMirrored
<1>3. DueAds' = DueAds
  BY <1>0 DEF DueAds
<1>4. DueDays' \subseteq InsightRange
  BY <1>0 DEF DueDays, InsightRange, IngestTypeOK, Calendar
<1>5. HierarchyFollows'
  BY <1>0 DEF HierarchyFollows
<1>6. InsightsFollow'
  BY <1>0, <1>3, <1>4 DEF InsightsFollow, HierarchyFollows
<1> QED
  BY <1>1, <1>2, <1>5, <1>6

LEMMA FetchDayKeepsIngest ==
  ASSUME IngestInv, NEW d \in Calendar, FetchDay(d)
  PROVE  IngestInv'
<1> USE DEF IngestInv
<1>0. /\ at = "insights" /\ pages' = pages \ {d}
      /\ found' = found \cup {<<a, d, spend[a][d]>> : a \in {b \in MetaAds : spend[b][d] > 0}}
      /\ UNCHANGED <<day, home, retired, spend, crowded, connected, adRows, stored, owed, at, syncs, began, asked>>
  BY DEF FetchDay, metaVars, accountVars
<1>1. \A a \in MetaAds : \A e \in Calendar :
        /\ spend[a][e] \in Nat /\ asked[a][e] \in Nat /\ spend[a][e] <= MaxStated
        /\ spend[a][e] > 0 => spend[a][e] \in 1..MaxStated
  BY AmountsAreNumbers, IngestAssumption DEF IngestTypeOK
<1>2. IngestTypeOK'
  <2>1. {<<a, d, spend[a][d]>> : a \in {b \in MetaAds : spend[b][d] > 0}} \subseteq Insights
    BY <1>1 DEF Insights
  <2> QED
    BY <1>0, <2>1 DEF IngestTypeOK
<1>3. StatedOK' /\ LimitOK' /\ SyncOK' /\ SpendIsMirrored'
  BY <1>0 DEF StatedOK, LimitOK, Listed, SyncOK, SpendIsMirrored
<1>4. DueAds' = DueAds /\ DueDays' = DueDays
  BY <1>0 DEF DueAds, DueDays
<1>5. HierarchyFollows'
  BY <1>0 DEF HierarchyFollows
<1>6. ASSUME NEW a \in MetaAds, NEW e \in Calendar, NEW n \in 1..MaxStated, <<a, e, n>> \in found'
      PROVE  asked[a][e] <= n /\ n <= spend[a][e]
  <2>1. CASE <<a, e, n>> \in found
    BY <1>0, <2>1 DEF InsightsFollow
  <2>2. CASE e = d /\ n = spend[a][d]
    BY <1>1, <2>2 DEF StatedOK
  <2> QED
    BY <1>0, <1>6, <2>1, <2>2
<1>7. ASSUME NEW a \in MetaAds, asked[a][d] > 0
      PROVE  \E n \in 1..MaxStated : <<a, d, n>> \in found'
  <2>1. spend[a][d] > 0
    BY <1>1, <1>7 DEF StatedOK
  <2> QED
    BY <1>0, <1>1, <2>1
<1>8. InsightsFollow'
  <2>1. \A a \in DueAds', e \in Calendar : asked'[a][e] > 0 => a \in adRows'
    BY <1>0, <1>4 DEF InsightsFollow
  <2>2. ASSUME NEW a \in adRows', NEW e \in DueDays', asked'[a][e] > 0
        PROVE  e \in pages' \/ asked'[a][e] <= stored'[a][e] \/ \E n \in 1..MaxStated : <<a, e, n>> \in found'
    <3>1. CASE e = d
      BY <1>0, <1>7, <2>2, <3>1 DEF IngestTypeOK
    <3>2. CASE e # d
      BY <1>0, <1>4, <2>2, <3>2 DEF InsightsFollow
    <3> QED
      BY <3>1, <3>2
  <2>3. \A a \in MetaAds, e \in Calendar, n \in 1..MaxStated :
          <<a, e, n>> \in found' => asked'[a][e] <= n /\ n <= spend'[a][e]
    BY <1>0, <1>6
  <2> QED
    BY <2>1, <2>2, <2>3 DEF InsightsFollow
<1> QED
  BY <1>2, <1>3, <1>5, <1>8

\* An insight never overwrites what is owed: it is from this sync, and nothing owed is newer.
LEMMA StoreInsightKeepsIngest ==
  ASSUME IngestInv, NEW i \in Insights, StoreInsight(i)
  PROVE  IngestInv'
<1> USE DEF IngestInv
<1>0. /\ at = "insights" /\ pages = {} /\ i \in found /\ found' = found \ {i}
      /\ stored' = IF i[1] \in adRows /\ i[2] >= connected THEN [stored EXCEPT ![i[1]][i[2]] = i[3]] ELSE stored
      /\ UNCHANGED <<day, home, retired, spend, crowded, connected, adRows, owed, at, pages, syncs, began, asked>>
  BY DEF StoreInsight, metaVars
<1>1. PICK a \in MetaAds, d \in Calendar, n \in 1..MaxStated : i = <<a, d, n>>
  BY DEF Insights
<1>2. /\ stored' \in Amounts
      /\ \A b \in MetaAds, e \in Calendar :
           stored'[b][e] = IF b = a /\ e = d /\ a \in adRows /\ d >= connected THEN n ELSE stored[b][e]
  <2>1. stored \in Amounts /\ n \in 0..MaxStated
    BY DEF IngestTypeOK
  <2>2. CASE a \in adRows /\ d >= connected
    <3>1. stored' = [stored EXCEPT ![a][d] = n]
      BY <1>0, <1>1, <2>2
    <3>2. stored \in [MetaAds -> [Calendar -> 0..MaxStated]]
      BY DEF IngestTypeOK, Amounts
    <3>3. \A b \in MetaAds : stored'[b] = IF b = a THEN [stored[a] EXCEPT ![d] = n] ELSE stored[b]
      BY <3>1, <3>2
    <3>4. \A b \in MetaAds : stored'[b] \in [Calendar -> 0..MaxStated]
      BY <2>1, <3>2, <3>3
    <3>5. stored' = [b \in MetaAds |-> stored'[b]]
      BY <3>1, <3>2
    <3>6. stored' \in Amounts
      BY <3>4, <3>5 DEF Amounts
    <3>7. \A b \in MetaAds, e \in Calendar :
           stored'[b][e] = IF b = a /\ e = d THEN n ELSE stored[b][e]
      BY <3>2, <3>3
    <3> QED
      BY <2>2, <3>6, <3>7
  <2>3. CASE ~(a \in adRows /\ d >= connected)
    BY <1>0, <1>1, <2>1, <2>3
  <2> QED
    BY <2>2, <2>3
<1>3. asked[a][d] <= n /\ n <= spend[a][d]
  BY <1>0, <1>1 DEF InsightsFollow
<1>4. IngestTypeOK'
  BY <1>0, <1>2 DEF IngestTypeOK
<1>5. StatedOK' /\ LimitOK' /\ SyncOK'
  BY <1>0 DEF StatedOK, LimitOK, Listed, SyncOK
<1>6. \A b \in MetaAds, e \in Calendar :
        /\ owed[b][e] \in Nat /\ asked[b][e] \in Nat /\ stored[b][e] \in Nat /\ spend[b][e] \in Nat
        /\ owed[b][e] <= asked[b][e]
  BY <1>0, AmountsAreNumbers DEF IngestTypeOK, SyncOK
<1>7. SpendIsMirrored'
  <2>1. ASSUME NEW b \in MetaAds, NEW e \in Calendar
        PROVE  /\ owed'[b][e] <= stored'[b][e] /\ stored'[b][e] <= spend'[b][e]
               /\ stored'[b][e] > 0 => b \in adRows' /\ connected' # NEVER /\ connected' <= e
    <3>1. CASE b = a /\ e = d /\ a \in adRows /\ d >= connected
      <4>1. connected # NEVER /\ connected <= d
        BY <1>0, <3>1 DEF SyncOK, IngestTypeOK, Calendar
      <4> QED
        BY <1>0, <1>2, <1>3, <1>6, <3>1, <4>1
    <3>2. CASE ~(b = a /\ e = d /\ a \in adRows /\ d >= connected)
      BY <1>0, <1>2, <3>2 DEF SpendIsMirrored
    <3> QED
      BY <3>1, <3>2
  <2> QED
    BY <2>1 DEF SpendIsMirrored
<1>8. HierarchyFollows'
  BY <1>0 DEF HierarchyFollows
<1>9. DueAds' = DueAds /\ DueDays' = DueDays
  BY <1>0 DEF DueAds, DueDays
<1>10. InsightsFollow'
  <2>1. \A b \in DueAds', e \in Calendar : asked'[b][e] > 0 => b \in adRows'
    BY <1>0, <1>9 DEF InsightsFollow
  <2>2. ASSUME NEW b \in adRows', NEW e \in DueDays', asked'[b][e] > 0
        PROVE  asked'[b][e] <= stored'[b][e] \/ \E m \in 1..MaxStated : <<b, e, m>> \in found'
    <3>1. b \in MetaAds /\ b \in adRows /\ e \in Calendar /\ e >= connected
      BY <1>0, <2>2 DEF IngestTypeOK, DueDays
    <3>2. CASE b = a /\ e = d
      BY <1>0, <1>2, <1>3, <3>1, <3>2
    <3>3. CASE ~(b = a /\ e = d)
      <4>1. asked[b][e] <= stored[b][e] \/ \E m \in 1..MaxStated : <<b, e, m>> \in found
        BY <1>0, <1>9, <2>2 DEF InsightsFollow
      <4>2. stored'[b][e] = stored[b][e]
        BY <1>2, <3>1, <3>3
      <4>3. \A m \in 1..MaxStated : <<b, e, m>> # i
        BY <1>1, <3>3
      <4> QED
        BY <1>0, <4>1, <4>2, <4>3
    <3> QED
      BY <3>2, <3>3
  <2>3. \A b \in MetaAds, e \in Calendar, m \in 1..MaxStated :
          <<b, e, m>> \in found' => asked'[b][e] <= m /\ m <= spend'[b][e]
    BY <1>0 DEF InsightsFollow
  <2> QED
    BY <2>1, <2>2, <2>3 DEF InsightsFollow
<1> QED
  BY <1>4, <1>5, <1>7, <1>8, <1>10

\* A sync that went through stored all that was due.
LEMMA SyncEndsKeepsIngest ==
  ASSUME IngestInv, SyncEnds
  PROVE  IngestInv'
<1> USE DEF IngestInv
<1>0. /\ at = "insights" /\ pages = {} /\ found = {} /\ at' = "idle" /\ began' = NEVER /\ asked' = Nothing
      /\ owed' = [a \in MetaAds |-> [d \in Calendar |->
                    IF a \in DueAds /\ d \in DueDays THEN Max({owed[a][d], asked[a][d]}) ELSE owed[a][d]]]
      /\ UNCHANGED <<day, home, retired, spend, crowded, connected, adRows, stored, pages, found, syncs>>
  BY DEF SyncEnds, metaVars
<1>1. ASSUME NEW a \in MetaAds, NEW d \in Calendar
      PROVE  owed'[a][d] \in 0..MaxStated /\ owed'[a][d] <= stored[a][d]
  <2>1. /\ owed[a][d] \in Nat /\ asked[a][d] \in Nat /\ stored[a][d] \in Nat
        /\ owed[a][d] <= MaxStated /\ asked[a][d] <= MaxStated /\ owed[a][d] <= stored[a][d]
    BY AmountsAreNumbers DEF IngestTypeOK, SpendIsMirrored
  <2>2. CASE a \in DueAds /\ d \in DueDays
    <3>1. owed'[a][d] = Max({owed[a][d], asked[a][d]})
      BY <1>0, <2>2
    <3>2. Max({owed[a][d], asked[a][d]}) \in {owed[a][d], asked[a][d]}
      BY <2>1, MaxOfTwo
    <3>3. asked[a][d] <= stored[a][d]
      BY <1>0, <2>1, <2>2 DEF InsightsFollow
    <3> QED
      BY <2>1, <3>1, <3>2, <3>3, IngestAssumption
  <2>3. CASE ~(a \in DueAds /\ d \in DueDays)
    <3>1. owed'[a][d] = owed[a][d]
      BY <1>0, <2>3
    <3> QED
      BY <2>1, <3>1, IngestAssumption
  <2> QED
    BY <2>2, <2>3
<1>2. owed' \in Amounts
  <2>1. \A a \in MetaAds : owed'[a] = [d \in Calendar |-> owed'[a][d]]
    BY <1>0
  <2>2. \A a \in MetaAds : owed'[a] \in [Calendar -> 0..MaxStated]
    BY <1>1, <2>1
  <2>3. owed' = [a \in MetaAds |-> owed'[a]]
    BY <1>0
  <2> QED
    BY <2>2, <2>3 DEF Amounts
<1>3. IngestTypeOK'
  <2>1. day \in Nat
    BY DEF IngestTypeOK, Calendar
  <2> QED
    BY <1>0, <1>2, <2>1, NothingIsAmounts DEF IngestTypeOK, NEVER
<1>4. LimitOK'
  BY <1>0 DEF LimitOK, Listed
<1>5. StatedOK'
  <2>1. \A a \in MetaAds, d \in Calendar : spend[a][d] \in Nat
    BY AmountsAreNumbers DEF IngestTypeOK
  <2> QED
    BY <1>0, <2>1, NothingIsAmounts DEF StatedOK
<1>6. SpendIsMirrored'
  BY <1>0, <1>1 DEF SpendIsMirrored
<1>7. SyncOK' /\ HierarchyFollows' /\ InsightsFollow'
  BY <1>0 DEF SyncOK, HierarchyFollows, InsightsFollow
<1> QED
  BY <1>3, <1>4, <1>5, <1>6, <1>7

LEMMA IngestFailsKeepsIngest ==
  ASSUME IngestInv, IngestFails
  PROVE  IngestInv'
<1> USE DEF IngestInv
<1>0. /\ at' = "idle" /\ began' = NEVER /\ asked' = Nothing
      /\ UNCHANGED <<day, home, retired, spend, crowded, connected, adRows, stored, owed, syncs>>
  BY DEF IngestFails, metaVars, accountVars
<1>1. IngestTypeOK'
  <2>1. day \in Nat
    BY DEF IngestTypeOK, Calendar
  <2> QED
    BY <1>0, <2>1, NothingIsAmounts DEF IngestTypeOK, NEVER
<1>2. LimitOK' /\ SpendIsMirrored'
  BY <1>0 DEF LimitOK, Listed, SpendIsMirrored
<1>3. StatedOK'
  <2>1. \A a \in MetaAds, d \in Calendar : spend[a][d] \in Nat
    BY AmountsAreNumbers DEF IngestTypeOK
  <2> QED
    BY <1>0, <2>1, NothingIsAmounts DEF StatedOK
<1>4. SyncOK' /\ HierarchyFollows' /\ InsightsFollow'
  BY <1>0 DEF SyncOK, HierarchyFollows, InsightsFollow
<1> QED
  BY <1>1, <1>2, <1>3, <1>4

LEMMA NextIngest == IngestInv /\ [IngestNext]_ingestVars => IngestInv'
<1> SUFFICES ASSUME IngestInv, [IngestNext]_ingestVars PROVE IngestInv'
  OBVIOUS
<1>1. CASE DayPasses \/ \E a \in MetaAds : RetireAd(a) \/ \E s \in MetaAdSets : CreateAd(a, s)
  BY <1>1, DayPassesKeepsIngest, RetireAdKeepsIngest, CreateAdKeepsIngest
<1>2. CASE \E a \in MetaAds, d \in Calendar : StateSpend(a, d)
  BY <1>2, StateSpendKeepsIngest
<1>3. CASE ConnectMeta \/ RemoveMeta
  BY <1>3, ConnectMetaKeepsIngest, RemoveMetaKeepsIngest
<1>4. CASE BeginSync \/ AskInsights \/ SyncEnds \/ IngestFails
  BY <1>4, BeginSyncKeepsIngest, AskInsightsKeepsIngest, SyncEndsKeepsIngest, IngestFailsKeepsIngest
<1>5. CASE \E s \in MetaAdSets : FetchAdSet(s)
  BY <1>5, FetchAdSetKeepsIngest
<1>6. CASE \E a \in MetaAds : StoreAd(a)
  BY <1>6, StoreAdKeepsIngest
<1>7. CASE \E d \in Calendar : FetchDay(d)
  BY <1>7, FetchDayKeepsIngest
<1>8. CASE \E i \in Insights : StoreInsight(i)
  BY <1>8, StoreInsightKeepsIngest
<1>9. CASE UNCHANGED ingestVars
  <2>1. UNCHANGED <<day, home, retired, spend, crowded, connected, adRows, stored, owed,
                    at, pages, found, syncs, began, asked>>
    BY <1>9 DEF ingestVars
  <2>2. DueAds' = DueAds /\ DueDays' = DueDays
    BY <2>1 DEF DueAds, DueDays
  <2>3. IngestTypeOK' /\ StatedOK' /\ LimitOK' /\ SyncOK' /\ SpendIsMirrored'
    BY <2>1 DEF IngestInv, IngestTypeOK, StatedOK, LimitOK, Listed, SyncOK, SpendIsMirrored
  <2>4. HierarchyFollows' /\ InsightsFollow'
    BY <2>1, <2>2 DEF IngestInv, HierarchyFollows, InsightsFollow
  <2> QED
    BY <2>3, <2>4 DEF IngestInv
<1> QED
  BY <1>1, <1>2, <1>3, <1>4, <1>5, <1>6, <1>7, <1>8, <1>9 DEF IngestNext, Insights

\* Whatever ads come, go and are cut off between the pages of a Meta sync, whatever Meta restates under
\* it, however often syncs fail half way and accounts are removed under them: what is stored of an ad and
\* a day is an amount Meta has stated, of a day since the connection, and never older than a sync that
\* went through.
THEOREM IngestSpendIsMirrored == IngestSpec => []SpendIsMirrored
<1>1. IngestInv => SpendIsMirrored
  BY DEF IngestInv
<1> QED
  BY InitIngest, NextIngest, <1>1, PTL DEF IngestSpec
=============================================================================
