---------------------------- MODULE Connections ----------------------------
(***************************************************************************)
(* The connections page: a list that is polled while a sync is running or  *)
(* was just asked for, the mutations that change what is listed, the       *)
(* dialog that adds a CRM and the picker for Meta accounts; beside them    *)
(* the API's rows, the workers that sync them, and whoever else asks.      *)
(*                                                                         *)
(* The page has two such lists, which share nothing but the grace window:  *)
(* a behaviour is about one of them.                                       *)
(*                                                                         *)
(* Bounds: one mutation is under way at a time, and a request takes less   *)
(* than a tick of 15 seconds.  OK and FAILED are both "idle".              *)
(***************************************************************************)
EXTENDS QueryCache, FiniteSets

CONSTANTS
  Rows,         \* ids of connections
  ProviderOf,   \* [Rows -> {"BITRIX24", "AMOCRM"}], where they are CRMs
  GRACE         \* how long the page polls after a sync was asked for, in ticks

ASSUME ConnectionsAssumption ==
  ProviderOf \in [Rows -> {"BITRIX24", "AMOCRM"}] /\ GRACE \in Nat \ {0}

RowStates == {"gone", "idle", "running"}

VARIABLES
  key,       \* the list the behaviour is about: "ad-accounts" or "crm"
  row,       \* [Rows -> RowStates], the table
  optIn,     \* accounts that are opted in to feedback
  jobs,      \* rows with a sync in the queue
  list,      \* what the page has of the table
  timer,     \* the list is being polled
  grace,     \* what is left of the grace window, in ticks
  selected,  \* the platform whose rows are shown, or NONE
  dialog,    \* the add dialog: "closed", "pick", or a provider
  picker,    \* the Meta picker
  call,      \* the mutation under way
  unread,    \* (history) "yes" while a write of this page is in no answer
  failed     \* (history) a request that would have shown it failed

dbVars == <<key, row, optIn, jobs>>
queryVars == <<list, timer, grace>>
screenVars == <<selected, dialog, picker>>
noteVars == <<unread, failed>>
connectionsVars == <<dbVars, queryVars, screenVars, call, noteVars>>

Platforms == IF key = "crm" THEN {"BITRIX24", "AMOCRM"} ELSE {"META"}
PlatformOf(r) == IF key = "crm" THEN ProviderOf[r] ELSE "META"

Snapshots == [state : [Rows -> RowStates], on : SUBSET Rows]

ASSUME SnapshotsAssumption == NONE \notin Snapshots \cup {"AMOCRM", "BITRIX24", "META"}

Closed == [open |-> FALSE, found |-> {}, ticked |-> {}, shown |-> {}]

NoCall == [op |-> "none", rows |-> {}, phase |-> "failed"]

ConnectionsInit ==
  /\ key \in {"ad-accounts", "crm"}
  /\ row \in [Rows -> {"gone", "idle"}] /\ optIn = {} /\ jobs = {}
  /\ list = Fetch(Empty, "page") /\ timer = FALSE /\ grace = 0
  /\ selected = NONE /\ dialog = "closed" /\ call = NoCall
  /\ picker = IF key = "crm" THEN Closed ELSE [Closed EXCEPT !.open = TRUE]   \* ?meta_session=
  /\ unread = "no" /\ failed = FALSE

-----------------------------------------------------------------------------
(* The list.                                                               *)

\* Mutant: polls in the grace window only.
PollInGrace(e, left) == left > 0

\* pollInterval: some row of the list is running, or the window is open.
PollInterval(e, left) ==
  left > 0 \/ (e.data # NONE /\ \E r \in Rows : e.data.state[r] = "running")

\* The query becomes e with so much of the window left: the interval is computed again.
Update(e, left) == list' = e /\ grace' = left /\ timer' = PollInterval(e, left)

Poll ==
  /\ timer /\ Update(Fetch(list, "page"), grace)
  /\ UNCHANGED <<dbVars, screenVars, call, noteVars>>

ListServed ==
  /\ list.fetch = "sent"
  /\ list' = Serve(list, [state |-> row, on |-> optIn])
  /\ unread' = IF unread = "yes" THEN "answered" ELSE unread
  /\ UNCHANGED <<dbVars, timer, grace, screenVars, call, failed>>

ListSettles ==
  /\ list.fetch = "answered"
  /\ Update(Settle(list), grace)
  /\ unread' = IF unread = "answered" THEN "no" ELSE unread
  /\ failed' = (failed /\ unread = "yes")
  /\ UNCHANGED <<dbVars, screenVars, call>>

ListFails ==
  /\ list.fetch # "idle"
  /\ Update(Idle(list), grace)
  /\ unread' = IF unread = "answered" THEN "yes" ELSE unread
  /\ failed' = (unread # "no")
  /\ UNCHANGED <<dbVars, screenVars, call>>

-----------------------------------------------------------------------------
(* The screen.                                                             *)

\* The rows of a platform in the list; a platform that has none is not current.
PlatformRows(p) ==
  IF list.data = NONE THEN {}
  ELSE {r \in Rows : list.data.state[r] # "gone" /\ PlatformOf(r) = p}

Current == IF selected # NONE /\ PlatformRows(selected) # {} THEN selected ELSE NONE

OnScreen == UNCHANGED <<dbVars, queryVars, call, noteVars>>

Select ==
  /\ \/ Current # NONE /\ selected' = NONE
     \/ \E p \in Platforms : Current = NONE /\ PlatformRows(p) # {} /\ selected' = p
  /\ UNCHANGED <<dialog, picker>> /\ OnScreen

\* AddConnectionDialog: open or closed, which resets it, a provider, back.
SetDialog(d) ==
  /\ d # dialog /\ (dialog = "closed" => d = "pick")
  /\ dialog' = d
  /\ UNCHANGED <<selected, picker>> /\ OnScreen

SetPicker(p) == picker' = p /\ UNCHANGED <<selected, dialog>> /\ OnScreen

\* MetaImportDialog: the accounts of the session arrive, all of them ticked ...
Candidates ==
  /\ picker.open /\ picker.found = {}
  /\ \E s \in SUBSET Rows \ {{}} : SetPicker([open |-> TRUE, found |-> s, ticked |-> s, shown |-> s])

\* ... toggle, toggleAllFiltered, and the search field.
Pick ==
  \/ \E a \in picker.shown :
       SetPicker([picker EXCEPT !.ticked = IF a \in @ THEN @ \ {a} ELSE @ \cup {a}])
  \/ /\ picker.shown # {}
     /\ SetPicker([picker EXCEPT !.ticked =
          IF picker.shown \subseteq @ THEN @ \ picker.shown ELSE @ \cup picker.shown])
  \/ \E s \in SUBSET picker.found : SetPicker([picker EXCEPT !.shown = s])

\* Mutant: the picker is hidden and keeps what was ticked.
HidePicker == picker.open /\ SetPicker([picker EXCEPT !.open = FALSE])

ClosePicker == picker.open /\ SetPicker(Closed)

-----------------------------------------------------------------------------
(* Mutations.                                                              *)

Start(op, rows) ==
  /\ call = NoCall /\ call' = [op |-> op, rows |-> rows, phase |-> "sent"]
  /\ UNCHANGED <<dbVars, screenVars, noteVars>>

\* The buttons of a row; bumpSyncing opens the window, and the page renders with it.
SyncNow(r) == Start("sync", {r}) /\ Update(list, GRACE)

\* The switch sends the opposite of what it shows.
Feedback(r) ==
  /\ key = "ad-accounts"
  /\ Start(IF r \in list.data.on THEN "off" ELSE "on", {r}) /\ UNCHANGED queryVars

RemoveRow(r) == Start("remove", {r}) /\ UNCHANGED queryVars

RowAction == Current # NONE /\ \E r \in PlatformRows(Current) : SyncNow(r) \/ Feedback(r) \/ RemoveRow(r)

\* submit of the add dialog, and the button of the picker.
SubmitConnection ==
  /\ \E r \in Rows : dialog = PlatformOf(r) /\ key = "crm" /\ row[r] = "gone" /\ Start("connect", {r})
  /\ UNCHANGED queryVars

ImportTicked == picker.ticked # {} /\ Start("import", picker.ticked) /\ UNCHANGED queryVars

Adds == {"connect", "import"}

\* The API does what was asked for; a sync, an import or a connect adds a job.
Works ==
  LET done == IF call.op \in Adds THEN call.rows ELSE {r \in call.rows : row[r] # "gone"}
  IN /\ call.phase = "sent"
     /\ row' = [r \in Rows |-> CASE r \in done /\ call.op = "remove" -> "gone"
                                 [] r \in done /\ row[r] = "gone" -> "idle"
                                 [] OTHER -> row[r]]
     /\ optIn' = CASE call.op = "on" -> optIn \cup done
                   [] call.op \in {"off", "remove"} -> optIn \ done
                   [] OTHER -> optIn
     /\ jobs' = IF call.op \in Adds \cup {"sync"} THEN jobs \cup done ELSE jobs
     /\ unread' = IF call.op # "sync" /\ done # {} THEN "yes" ELSE unread
     /\ call' = [call EXCEPT !.phase = IF done = {} THEN "failed" ELSE "done"]
     /\ UNCHANGED <<key, queryVars, screenVars, failed>>

\* The request does not arrive, or its answer does not.
CallLost ==
  /\ call.phase \in {"sent", "done"}
  /\ call' = [call EXCEPT !.phase = "failed"]
  /\ failed' = (failed \/ unread # "no")
  /\ UNCHANGED <<dbVars, queryVars, screenVars, unread>>

\* Mutant: nobody polls after a connect or an import.
WindowStays(op) == grace

\* onConnected and onImported open the window.
WindowAfter(op) == IF op \in Adds THEN GRACE ELSE grace

\* onSuccess: the key is invalidated, and the dialog in question closes, whatever
\* it shows by now.
Succeeded ==
  /\ call.phase = "done"
  /\ Update(Invalidate(list, TRUE, "page"), WindowAfter(call.op))
  /\ unread' = IF unread = "answered" /\ list.data # NONE THEN "yes" ELSE unread
  /\ dialog' = IF call.op = "connect" THEN "closed" ELSE dialog
  /\ picker' = IF call.op = "import" THEN Closed ELSE picker
  /\ call' = NoCall
  /\ UNCHANGED <<dbVars, selected, failed>>

\* onError: a message, or nothing.
Failed ==
  /\ call # NoCall /\ call.phase = "failed" /\ call' = NoCall
  /\ UNCHANGED <<dbVars, queryVars, screenVars, noteVars>>

-----------------------------------------------------------------------------
(* The workers, other users, time.                                         *)

PageUnchanged == UNCHANGED <<key, optIn, queryVars, screenVars, call, noteVars>>

WorkerStarts(r) ==
  /\ r \in jobs /\ jobs' = jobs \ {r}
  /\ row' = [row EXCEPT ![r] = IF @ = "gone" THEN @ ELSE "running"]
  /\ PageUnchanged

WorkerEnds(r) ==
  /\ row[r] = "running" /\ row' = [row EXCEPT ![r] = "idle"]
  /\ UNCHANGED jobs /\ PageUnchanged

\* The hourly fan-out, or somebody else who asks for a sync.
OthersSync(r) ==
  /\ row[r] = "idle" /\ jobs' = jobs \cup {r}
  /\ UNCHANGED row /\ PageUnchanged

ConnectionsTick ==
  /\ list.fetch = "idle" /\ grace > 0 /\ grace' = grace - 1
  /\ UNCHANGED <<dbVars, list, timer, screenVars, call, noteVars>>

ConnectionsNext ==
  \/ Poll \/ ListServed \/ ListSettles \/ ListFails \/ ConnectionsTick
  \/ Select \/ Candidates \/ Pick \/ ClosePicker
  \/ key = "crm" /\ \E d \in Platforms \cup {"META", "pick", "closed"} : SetDialog(d)
  \/ RowAction \/ SubmitConnection \/ ImportTicked
  \/ Works \/ CallLost \/ Succeeded \/ Failed
  \/ \E r \in Rows : WorkerStarts(r) \/ WorkerEnds(r) \/ OthersSync(r)

\* Timers fire, and requests of a list succeed every now and then.
PollsFire ==
  /\ WF_connectionsVars(Poll /\ list.fetch = "idle")
  /\ SF_connectionsVars(ListServed) /\ SF_connectionsVars(ListSettles)

-----------------------------------------------------------------------------
(* Properties.                                                             *)

\* The variables have their types.
ConnectionsTypeOK ==
  /\ key \in {"ad-accounts", "crm"} /\ row \in [Rows -> RowStates]
  /\ optIn \subseteq Rows /\ jobs \subseteq Rows
  /\ list \in Entries(Snapshots, {"page"}) /\ timer \in BOOLEAN /\ grace \in 0..GRACE
  /\ selected \in Platforms \cup {NONE}
  /\ dialog \in Platforms \cup {"META", "pick", "closed"}
  /\ picker.ticked \cup picker.shown \subseteq picker.found /\ (picker.found # {} => picker.open)
  /\ call \in [op : {"none", "sync", "on", "off", "remove"} \cup Adds,
               rows : SUBSET Rows, phase : {"sent", "done", "failed"}]
  /\ unread \in {"no", "yes", "answered"} /\ failed \in BOOLEAN

\* A user always gets to see what they changed: once the page knows that a write
\* succeeded, the list that does not show it is being asked for, or polled, whatever
\* answers were on their way at the time; only a request that fails can leave it.
OwnWritesReadBack ==
  unread = "yes" /\ ~failed => call.phase = "done" \/ list.fetch = "sent" \/ timer

\* A page that shows a sync as running finds out when it is over: when all syncs
\* have come to an end, "running" does not stay on the screen.
RunningIsFollowed ==
  <>[](\A r \in Rows : row[r] # "running")
    => []<>(list.data # NONE => \A r \in Rows : list.data.state[r] # "running")
=============================================================================
