------------------------------- MODULE Paging -------------------------------
(***************************************************************************)
(* How the CRM connectors read a list: page after page, by offset (paged   *)
(* of Bitrix24Connector, start) or by number (paged of AmoConnector,       *)
(* page), while users change the records.  CrmSync takes such a fetch as   *)
(* one step; this module is about what that leaves out.                    *)
(*                                                                         *)
(* The CRM is external: it lists the records modified since the window     *)
(* began in the order of their ids, so a record enters wherever its id     *)
(* belongs when it is created or edited, and leaves only when it is        *)
(* deleted.  An answer says whether more records follow.                   *)
(***************************************************************************)
EXTENDS Naturals, FiniteSets, FiniteSetsExt

CONSTANTS
  Ids,       \* ids of records, numbers
  PageSize,  \* 50 or 250
  MaxPages   \* guard, 1000

ASSUME PagingAssumption ==
  Ids \subseteq Nat /\ IsFiniteSet(Ids) /\ PageSize \in Nat \ {0} /\ MaxPages \in Nat \ {0}

VARIABLES
  listing,   \* the records the filter lets through
  reading,   \* "before" | "pages" | "done" | "failed"
  start,     \* offset of the next page
  requests,  \* guard
  out,       \* ids read so far
  stayed,    \* (history) records listed since before the first page
  gone       \* ids deleted since, which do not return

pagingVars == <<listing, reading, start, requests, out, stayed, gone>>

PagingInit ==
  /\ listing \in SUBSET Ids
  /\ reading = "before" /\ start = 0 /\ requests = 0 /\ out = {}
  /\ stayed = listing /\ gone = {}

-----------------------------------------------------------------------------
(* The users of the CRM.                                                   *)

\* Created, or edited for the first time in the window.
Enter(id) ==
  /\ reading = "pages" /\ id \notin listing \cup gone
  /\ listing' = listing \cup {id}
  /\ UNCHANGED <<reading, start, requests, out, stayed, gone>>

Delete(id) ==
  /\ reading = "pages" /\ id \in listing
  /\ listing' = listing \ {id} /\ stayed' = stayed \ {id} /\ gone' = gone \cup {id}
  /\ UNCHANGED <<reading, start, requests, out>>

-----------------------------------------------------------------------------
(* The connector.                                                          *)

Position(id) == Cardinality({other \in listing : other < id})

\* Mutant: the first page is taken for the second.
PageOneBased == {id \in listing : Position(id) >= start + PageSize /\ Position(id) < start + 2 * PageSize}

Page == {id \in listing : Position(id) >= start /\ Position(id) < start + PageSize}

More == Cardinality(listing) > start + PageSize

\* The loop goes on while an answer names a next page and the guard allows it.
ReadPage ==
  /\ reading \in {"before", "pages"}
  /\ out' = out \cup Page
  /\ requests' = requests + 1
  /\ IF More /\ requests' < MaxPages
     THEN reading' = "pages" /\ start' = start + PageSize
     ELSE reading' = "done" /\ start' = start
  /\ UNCHANGED <<listing, stayed, gone>>

\* A request that fails fails the whole fetch, and with it the sync.
ReadFails ==
  /\ reading \in {"before", "pages"}
  /\ reading' = "failed" /\ out' = {}
  /\ UNCHANGED <<listing, start, requests, stayed, gone>>

PagingNext ==
  \/ \E id \in Ids : Enter(id) \/ Delete(id)
  \/ ReadPage \/ ReadFails

PagingSpec == PagingInit /\ [][PagingNext]_pagingVars

-----------------------------------------------------------------------------
(* Properties.                                                             *)

\* A record that was listed all the time is skipped only because others were deleted under the loop, at
\* most one for each, or because the list has more pages than the guard allows: records that enter in
\* front of the offset, however many, skip nothing.
OnlyDeletionsSkip ==
  reading = "done" /\ Cardinality(listing) <= MaxPages * PageSize => Cardinality(stayed \ out) <= Cardinality(gone)
=============================================================================
