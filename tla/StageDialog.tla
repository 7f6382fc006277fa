---------------------------- MODULE StageDialog ----------------------------
(***************************************************************************)
(* The dialog that maps the stages of one CRM to canonical statuses: the   *)
(* stages as the CRM lists them, the mappings as they are stored, a copy   *)
(* of these that is edited and saved as a whole, and beside the dialog     *)
(* somebody else who maps the same stages.                                 *)
(*                                                                         *)
(* The effect that copies the stored mappings runs when the data of the    *)
(* query changes; the library keeps the object when an answer is equal.    *)
(*                                                                         *)
(* Bound: one save is under way at a time, also one that outlives its      *)
(* dialog.                                                                 *)
(***************************************************************************)
EXTENDS QueryCache, FiniteSets

CONSTANTS
  Stages,     \* external stage ids
  Canonicals  \* canonical statuses, with IGNORE

ASSUME StageDialogAssumption == "IGNORE" \in Canonicals /\ NONE \notin Canonicals

VARIABLES
  mapping,   \* [Stages -> Canonicals \cup {NONE}], the table
  mounted,   \* the row of the CRM is on the page, and with it the dialog
  open,
  stages,    \* the query for the stages of the CRM
  existing,  \* the query for the stored mappings
  copy,      \* the state "map"
  save,      \* the mutation under way, with the body it was started with
  since,     \* (history) stages mapped since the data was read, and since the answer was
  edited     \* (history) stages changed in the copy since it was taken over

queryPair == <<stages, existing>>
stageVars == <<mapping, mounted, open, stages, existing, copy, save, since, edited>>

Mappings == [Stages -> Canonicals \cup {NONE}]

ASSUME MappingsAssumption == NONE \notin Mappings

NoCopy == [s \in Stages |-> NONE]

NoSave == [phase |-> "none", body |-> NoCopy, edited |-> {}, blind |-> FALSE, since |-> {},
           here |-> FALSE]   \* started by the dialog that is mounted

StageDialogInit ==
  /\ mapping \in Mappings
  /\ mounted = TRUE /\ open = FALSE
  /\ stages = Empty /\ existing = Empty
  /\ copy = NoCopy /\ save = NoSave
  /\ since = [data |-> {}, answer |-> {}] /\ edited = {}

-----------------------------------------------------------------------------
(* The queries of the dialog, and the copy.                                *)

\* Mutant: what is in the copy is not overwritten.
CopyOnce(old, data) == IF data # NONE /\ old = NoCopy THEN data ELSE old

\* The effect on existing.data.
TakeOver(old, data) == IF data # NONE THEN data ELSE old

\* The trigger: both queries are enabled, which asks for what is not fresh.
OpenDialog ==
  /\ mounted /\ ~open /\ open' = TRUE
  /\ stages' = Observe(stages, "dialog") /\ existing' = Observe(existing, "dialog")
  /\ UNCHANGED <<mapping, mounted, copy, save, since, edited>>

CloseDialog ==
  /\ open /\ open' = FALSE
  /\ UNCHANGED <<mapping, mounted, queryPair, copy, save, since, edited>>

\* The row leaves the page (another platform, another page), the cache stays ...
Unmount ==
  /\ mounted /\ mounted' = FALSE /\ open' = FALSE
  /\ copy' = NoCopy /\ edited' = {}
  /\ save' = [save EXCEPT !.here = FALSE]
  /\ UNCHANGED <<mapping, queryPair, since>>

\* ... and comes back: the first effect takes over what is in the cache.
Mount ==
  /\ ~mounted /\ mounted' = TRUE
  /\ copy' = TakeOver(NoCopy, existing.data)
  /\ UNCHANGED <<mapping, open, queryPair, save, since, edited>>

\* The connector asks the CRM, whose stages may be any.
StagesCome ==
  /\ stages.fetch = "sent"
  /\ \/ \E s \in SUBSET Stages : stages' = Settle(Serve(stages, s))
     \/ stages' = Idle(stages)   \* "check the CRM credentials"
  /\ UNCHANGED <<mapping, mounted, open, existing, copy, save, since, edited>>

MappingsServed ==
  /\ existing.fetch = "sent"
  /\ existing' = Serve(existing, mapping)
  /\ since' = [since EXCEPT !.answer = {}]
  /\ UNCHANGED <<mapping, mounted, open, stages, copy, save, edited>>

MappingsSettle ==
  /\ existing.fetch = "answered"
  /\ existing' = Settle(existing)
  /\ since' = [since EXCEPT !.data = since.answer]
  /\ IF mounted /\ existing.answer # existing.data
     THEN copy' = TakeOver(copy, existing.answer) /\ edited' = {}
     ELSE UNCHANGED <<copy, edited>>
  /\ UNCHANGED <<mapping, mounted, open, stages, save>>

MappingsFail ==
  /\ existing.fetch # "idle"
  /\ existing' = Idle(existing)
  /\ UNCHANGED <<mapping, mounted, open, stages, copy, save, since, edited>>

-----------------------------------------------------------------------------
(* Editing and saving.                                                     *)

Listed == IF stages.data = NONE THEN {} ELSE stages.data

EditStage(s, c) ==
  /\ open /\ s \in Listed
  /\ copy' = [copy EXCEPT ![s] = c] /\ edited' = edited \cup {s}
  /\ UNCHANGED <<mapping, mounted, open, queryPair, save, since>>

\* What is sent: every stage of the CRM, IGNORE where the copy has nothing.
Body == [s \in Stages |-> IF s \notin Listed THEN NONE
                          ELSE IF copy[s] = NONE THEN "IGNORE" ELSE copy[s]]

\* The button waits for the stages, not for the mappings.
SaveMapping ==
  /\ open /\ Listed # {} /\ save = NoSave
  /\ save' = [phase |-> "sent", body |-> Body, edited |-> edited,
              blind |-> existing.data = NONE, since |-> since.data, here |-> TRUE]
  /\ UNCHANGED <<mapping, mounted, open, queryPair, copy, since, edited>>

\* Stages whose mapping changes are noted wherever something older was read.
Note(changed) ==
  since' = [data |-> since.data \cup changed, answer |-> since.answer \cup changed]

\* setMappings upserts what is sent.
Stored(body) == [s \in Stages |-> IF body[s] = NONE THEN mapping[s] ELSE body[s]]

SaveWorks ==
  /\ save.phase = "sent"
  /\ mapping' = Stored(save.body)
  /\ LET changed == {s \in Stages : mapping'[s] # mapping[s]}
     IN Note(changed)
  /\ save' = [save EXCEPT !.phase = "done"]
  /\ UNCHANGED <<mounted, open, queryPair, copy, edited>>

\* The answer: the dialog that asked closes, and the query is not invalidated.  Or an error,
\* which a toast shows; the mappings may be stored all the same.
SaveAnswered ==
  /\ save.phase # "none" /\ save' = NoSave
  /\ \/ save.phase = "done" /\ open' = (open /\ ~save.here)
     \/ UNCHANGED open
  /\ UNCHANGED <<mapping, mounted, queryPair, copy, since, edited>>

\* Somebody else, in another browser.
OthersMap(s, c) ==
  /\ c # mapping[s] /\ mapping' = [mapping EXCEPT ![s] = c]
  /\ Note({s})
  /\ save' = IF save.phase = "sent" THEN [save EXCEPT !.since = @ \cup {s}] ELSE save
  /\ UNCHANGED <<mounted, open, queryPair, copy, edited>>

StageTick ==
  /\ Older(stages) # stages \/ Older(existing) # existing
  /\ stages' = Older(stages) /\ existing' = Older(existing)
  /\ UNCHANGED <<mapping, mounted, open, copy, save, since, edited>>

StageDialogNext ==
  \/ OpenDialog \/ CloseDialog \/ Unmount \/ Mount
  \/ StagesCome \/ MappingsServed \/ MappingsSettle \/ MappingsFail
  \/ \E s \in Stages, c \in Canonicals : EditStage(s, c) \/ OthersMap(s, c)
  \/ SaveMapping \/ SaveWorks \/ SaveAnswered \/ StageTick

-----------------------------------------------------------------------------
(* Properties.                                                             *)

\* The variables have their types.
StageDialogTypeOK ==
  /\ mapping \in Mappings /\ copy \in Mappings
  /\ mounted \in BOOLEAN /\ open \in BOOLEAN /\ (open => mounted)
  /\ stages \in Entries(SUBSET Stages, {"dialog"})
  /\ existing \in Entries(Mappings, {"dialog"})
  /\ save.phase \in {"none", "sent", "done"} /\ (save.here => mounted) /\ edited \subseteq Stages

\* Saving a whole copy does not undo, for a stage nobody touched in it, a mapping the
\* dialog had been told of: what it overwrites there was mapped after the mappings it
\* shows were read, or was never read, or had no mapping.
UneditedStagesKeep ==
  [][\A s \in Stages :
       save.phase = "sent" /\ save'.phase = "done" /\ mapping'[s] # mapping[s] =>
         s \in save.edited \/ s \in save.since \/ save.blind \/ mapping[s] = NONE]_stageVars

=============================================================================
