----------------------------- MODULE ReviewPage -----------------------------
(***************************************************************************)
(* The data-trust page: the match rate, the leads to review, an ad picked  *)
(* for each, and the button that attributes a lead to its pick; beside it  *)
(* the API's leads, somebody else who reviews, and runs of the matching    *)
(* engine, which write over a snapshot of the open leads and so may put a  *)
(* lead back into the queue that was attributed meanwhile.                 *)
(*                                                                         *)
(* Bound: the ads and the set of leads do not change.                      *)
(***************************************************************************)
EXTENDS QueryCache, FiniteSets

CONSTANTS
  Leads, Ads,
  Runners  \* runs of the matching engine that may overlap

ASSUME ReviewAssumption ==
  /\ Ads \cap {NONE, "new", "review"} = {}
  /\ IsFiniteSet(Leads) /\ \A s \in SUBSET Leads : s # NONE

VARIABLES
  lead,     \* [Leads -> {"new", "review"} \cup Ads], an ad once attributed
  snapshot, \* [Runners -> SUBSET Leads], what a run has read and not yet decided
  rate,     \* the query for the match rate: how many are in review
  queue,    \* the query for the leads in review
  picks,    \* [Leads -> Ads \cup {NONE}]
  resolve,  \* the mutation under way
  mine,     \* (history) leads this page attributed, as far as it knows, and no run put
            \* back into review
  lost      \* (history) a request failed, or the first rate was on its way at a resolve

apiVars == <<lead, snapshot>>
reviewVars == <<apiVars, rate, queue, picks, resolve, mine, lost>>

NoResolve == [phase |-> "none", lead |-> NONE, ad |-> NONE]

InReview == {l \in Leads : lead[l] = "review"}

ReviewInit ==
  /\ lead \in [Leads -> {"new", "review"}] /\ snapshot = [r \in Runners |-> {}]
  /\ rate = Fetch(Empty, "page") /\ queue = Fetch(Empty, "page")
  /\ picks = [l \in Leads |-> NONE] /\ resolve = NoResolve
  /\ mine = {} /\ lost = FALSE

RateServed ==
  /\ rate.fetch = "sent" /\ rate' = Serve(rate, Cardinality(InReview))
  /\ UNCHANGED <<apiVars, queue, picks, resolve, mine, lost>>

QueueServed ==
  /\ queue.fetch = "sent" /\ queue' = Serve(queue, InReview)
  /\ UNCHANGED <<apiVars, rate, picks, resolve, mine, lost>>

\* An answer arrives, or a request fails.
RateSettles ==
  /\ \/ rate.fetch = "answered" /\ rate' = Settle(rate) /\ UNCHANGED lost
     \/ rate.fetch # "idle" /\ rate' = Idle(rate) /\ lost' = TRUE
  /\ UNCHANGED <<apiVars, queue, picks, resolve, mine>>

QueueSettles ==
  /\ \/ queue.fetch = "answered" /\ queue' = Settle(queue) /\ UNCHANGED lost
     \/ queue.fetch # "idle" /\ queue' = Idle(queue) /\ lost' = TRUE
  /\ UNCHANGED <<apiVars, rate, picks, resolve, mine>>

Queued == IF queue.data = NONE THEN {} ELSE queue.data

PickAd(l, a) ==
  /\ l \in Queued /\ a # picks[l]
  /\ picks' = [picks EXCEPT ![l] = a]
  /\ UNCHANGED <<apiVars, rate, queue, resolve, mine, lost>>

\* The button of a row: enabled with a pick, and while no mutation is under way.
Resolve(l) ==
  /\ l \in Queued /\ picks[l] # NONE /\ resolve = NoResolve
  /\ resolve' = [phase |-> "sent", lead |-> l, ad |-> picks[l]]
  /\ UNCHANGED <<apiVars, rate, queue, picks, mine, lost>>

\* resolveManual attributes the lead whatever became of it meanwhile.
ResolveWorks ==
  /\ resolve.phase = "sent"
  /\ lead' = [lead EXCEPT ![resolve.lead] = resolve.ad]
  /\ resolve' = [resolve EXCEPT !.phase = "done"]
  /\ UNCHANGED <<snapshot, rate, queue, picks, mine, lost>>

\* Mutant: only the queue is asked for again.
RefreshQueue == queue' = Invalidate(queue, TRUE, "page") /\ UNCHANGED rate

\* invalidateQueries, twice.
RefreshBoth == queue' = Invalidate(queue, TRUE, "page") /\ rate' = Invalidate(rate, TRUE, "page")

\* onSuccess; or onError, when there was no answer.
ResolveAnswered ==
  /\ resolve.phase # "none" /\ resolve' = NoResolve
  /\ \/ /\ resolve.phase = "done" /\ RefreshBoth
        /\ mine' = mine \cup ({resolve.lead} \ InReview)
        /\ lost' = (lost \/ (rate.data = NONE /\ rate.fetch = "answered"))
     \/ UNCHANGED <<rate, queue, mine, lost>>
  /\ UNCHANGED <<apiVars, picks>>

\* Somebody else attributes a lead.
OthersReview(l) ==
  /\ \E a \in Ads : lead' = [lead EXCEPT ![l] = a]
  /\ UNCHANGED <<snapshot, rate, queue, picks, resolve, mine, lost>>

\* matchUnmatched reads the leads that are open, at first or after a run that failed.
EngineReads(r) ==
  /\ snapshot' = [snapshot EXCEPT ![r] = {l \in Leads : lead[l] \in {"new", "review"}}]
  /\ UNCHANGED <<lead, rate, queue, picks, resolve, mine, lost>>

\* matchLead writes what was decided on the row as the run had read it, unconditionally.
EngineDecides(r, l) ==
  /\ l \in snapshot[r] /\ snapshot' = [snapshot EXCEPT ![r] = @ \ {l}]
  /\ \E d \in {"new", "review"} \cup Ads : lead' = [lead EXCEPT ![l] = d]
  /\ mine' = IF lead'[l] = "review" THEN mine \ {l} ELSE mine
  /\ UNCHANGED <<rate, queue, picks, resolve, lost>>

ReviewNext ==
  \/ RateServed \/ QueueServed \/ RateSettles \/ QueueSettles
  \/ \E l \in Leads, a \in Ads : PickAd(l, a)
  \/ \E l \in Leads : Resolve(l) \/ OthersReview(l)
  \/ \E r \in Runners : EngineReads(r) \/ \E l \in Leads : EngineDecides(r, l)
  \/ ResolveWorks \/ ResolveAnswered

-----------------------------------------------------------------------------
(* Properties.                                                             *)

\* The variables have their types.
ReviewTypeOK ==
  /\ lead \in [Leads -> {"new", "review"} \cup Ads] /\ snapshot \in [Runners -> SUBSET Leads]
  /\ rate \in Entries(0..Cardinality(Leads), {"page"}) /\ queue \in Entries(SUBSET Leads, {"page"})
  /\ picks \in [Leads -> Ads \cup {NONE}]
  /\ resolve.phase # "none" => resolve.lead \in Leads /\ resolve.ad \in Ads
  /\ mine \subseteq Leads /\ lost \in BOOLEAN

\* When nothing is under way and nothing failed, the page shows no lead it has
\* attributed, and a number of leads to review that leaves them out as well: but for
\* those a run of the engine wrote back into review since, over a snapshot older than
\* the attribution, and but for the first rate, which an invalidation waits for,
\* however old its answer is.
AttributedLeavesReview ==
  rate.fetch = "idle" /\ queue.fetch = "idle" /\ ~lost =>
    Queued \cap mine = {} /\ rate.data <= Cardinality(Leads \ mine)
=============================================================================
