---------------------------- MODULE MCIngestion -----------------------------
(***************************************************************************)
(* Ingestion, in four scenes: CRM syncs beside edits and new records, and *)
(* CRM syncs beside overlapping remaps of records without contacts         *)
(* (CrmSync), one CRM fetch page by page (Paging), and Meta syncs page by  *)
(* page and row by row (Ingest).                                           *)
(***************************************************************************)
EXTENDS MCCrmSync, Paging, Ingest

VARIABLE scene

MCIds == 1..7

\* Ads are interchangeable, and ad sets, and remap requests; the properties are
\* about safety.
MCMetaSymmetry ==
  Permutations(MetaAds) \cup Permutations(MetaAdSets) \cup Permutations(Remaps)

ingestionVars == <<scene, vars, pagingVars, ingestVars>>

IngestionInit ==
  /\ scene \in {"crm", "remaps", "pages", "meta"}
  /\ Init /\ PagingInit /\ IngestInit
  /\ scene # "pages" => listing = {}

IngestionNext ==
  /\ UNCHANGED scene
  /\ \/ scene = "crm" /\ Next /\ Running' = {} /\ UNCHANGED <<pagingVars, ingestVars>>
     \/ scene = "remaps" /\ Next /\ UNCHANGED <<crmContact, pagingVars, ingestVars>>
     \/ scene = "pages" /\ PagingNext /\ UNCHANGED <<vars, ingestVars>>
     \/ scene = "meta" /\ IngestNext /\ UNCHANGED <<vars, pagingVars>>

IngestionSpec == IngestionInit /\ [][IngestionNext]_ingestionVars
=============================================================================
