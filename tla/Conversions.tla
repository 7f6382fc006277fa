---------------------------- MODULE Conversions ----------------------------
(***************************************************************************)
(* The feedback loop to Meta: ConversionsService.generate turns outcomes   *)
(* of the CRM into conversion events, ConversionsService.push reports the  *)
(* pending ones.  Both are requests (POST /conversions/generate and /push) *)
(* that may overlap with one another and with themselves, with the syncs   *)
(* that change leads and deals, and with the owner of an ad account        *)
(* opting in and out or removing it.                                       *)
(*                                                                         *)
(* A lead is attributed to an account rather than to one of its ads: the   *)
(* service only goes through the ad to reach its account.  Leads and deals *)
(* are those past crmFloor.                                                *)
(***************************************************************************)
EXTENDS Naturals, FiniteSets

CONSTANTS
  NONE,
  Accounts,    \* ad accounts
  Leads,       \* leads with a contact
  Contacts,
  Deals,
  ContactOf,   \* [Leads \cup Deals -> Contacts]
  LeadOrder,   \* [Leads -> Nat], the order of Lead.createdAt
  Generators,  \* requests to POST /conversions/generate
  Pushers,     \* requests to POST /conversions/push
  BatchSize,   \* take: 500
  AnswersLost, \* whether an answer of Meta may be lost on its way
  Crashes      \* whether the process may die

\* eventId: QL:<lead> or PUR:<deal>.
Ids == ({"QL"} \X Leads) \cup ({"PUR"} \X Deals)

Outcomes == {"NONE", "QUALIFIED", "WON"}

ASSUME ConversionsAssumption ==
  /\ NONE \notin Accounts \cup Ids
  /\ ContactOf \in [Leads \cup Deals -> Contacts]
  /\ LeadOrder \in [Leads -> Nat]
  /\ \A l1, l2 \in Leads : LeadOrder[l1] = LeadOrder[l2] => l1 = l2
  /\ Generators \cap Pushers = {}
  /\ BatchSize \in Nat \ {0}
  /\ AnswersLost \in BOOLEAN
  /\ Crashes \in BOOLEAN

VARIABLES
  live,      \* accounts that exist
  optIn,     \* accounts with feedbackOptIn
  attrib,    \* [Leads -> Accounts \cup {NONE}], the account of a MATCHED lead
  outcome,   \* [Deals -> Outcomes], Deal.canonical as far as it matters here
  event,     \* [Ids -> EventRow]
  metaHas,   \* ids of the events Meta took in
  gpc,       \* [Generators -> "idle" | "leads" | "deals" | "events" | "create"]
  accs,      \* [Generators -> SUBSET Accounts], opt-in accounts
  touch,     \* [Generators -> SUBSET Touch], last-touch lead per contact
  due,       \* [Generators -> SUBSET Due], events still to be created
  missed,    \* [Generators -> SUBSET Due], the one createEvent did not find
  ppc,       \* [Pushers -> "idle" | "send" | "record"]
  batch,     \* [Pushers -> SUBSET Ids], pending events still to be sent
  answer,    \* [Pushers -> SUBSET Answer], what Meta said of the one in hand
  past,      \* (history) facts that once held: opt-ins, attributions, outcomes
  shared     \* (history) events that two pushes had in hand at once

worldVars == <<live, optIn, attrib, outcome>>
genVars == <<gpc, accs, touch, due, missed>>
pushVars == <<ppc, batch, answer>>
vars == <<live, optIn, attrib, outcome, event, metaHas, gpc, accs, touch, due,
          missed, ppc, batch, answer, past, shared>>

EventRow == [state : {"absent", "PENDING", "ACCEPTED", "REJECTED"}, account : Accounts \cup {NONE}]

Touch == [lead : Leads, account : Accounts]

Due == [id : Ids, account : Accounts]

Answer == [id : Ids, state : {"ACCEPTED", "REJECTED"}]

Facts == [kind : {"optIn"}, account : Accounts]
           \cup [kind : {"attributed"}, lead : Leads, account : Accounts]
           \cup [kind : {"qualified", "won"}, deal : Deals]

OptedIn(a) == [kind |-> "optIn", account |-> a]
Attributed(l, a) == [kind |-> "attributed", lead |-> l, account |-> a]
Qualified(d) == [kind |-> "qualified", deal |-> d]
Won(d) == [kind |-> "won", deal |-> d]

-----------------------------------------------------------------------------
Init ==
  /\ live = Accounts
  /\ optIn = {}
  /\ attrib = [l \in Leads |-> NONE]
  /\ outcome = [d \in Deals |-> "NONE"]
  /\ event = [i \in Ids |-> [state |-> "absent", account |-> NONE]]
  /\ metaHas = {}
  /\ gpc = [g \in Generators |-> "idle"]
  /\ accs = [g \in Generators |-> {}]
  /\ touch = [g \in Generators |-> {}]
  /\ due = [g \in Generators |-> {}]
  /\ missed = [g \in Generators |-> {}]
  /\ ppc = [p \in Pushers |-> "idle"]
  /\ batch = [p \in Pushers |-> {}]
  /\ answer = [p \in Pushers |-> {}]
  /\ past = {}
  /\ shared = {}

-----------------------------------------------------------------------------
(* Around the service; writes that change nothing are left out.            *)

\* AdAccountsService.setFeedback.
SetFeedback(a, on) ==
  /\ a \in live
  /\ on # (a \in optIn)
  /\ optIn' = IF on THEN optIn \cup {a} ELSE optIn \ {a}
  /\ past' = IF on THEN past \cup {OptedIn(a)} ELSE past
  /\ UNCHANGED <<live, attrib, outcome, event, metaHas, shared>>
  /\ UNCHANGED genVars /\ UNCHANGED pushVars

\* AdAccountsService.remove: Lead.adId becomes NULL; events have no foreign key.
RemoveAccount(a) ==
  /\ a \in live
  /\ live' = live \ {a}
  /\ optIn' = optIn \ {a}
  /\ attrib' = [l \in Leads |-> IF attrib[l] = a THEN NONE ELSE attrib[l]]
  /\ UNCHANGED <<outcome, event, metaHas, past, shared>>
  /\ UNCHANGED genVars /\ UNCHANGED pushVars

\* The matching engine or a human attributes a lead (module Matching).
Attribute(l, a) ==
  /\ a \in live
  /\ attrib[l] # a
  /\ attrib' = [attrib EXCEPT ![l] = a]
  /\ past' = past \cup {Attributed(l, a)}
  /\ UNCHANGED <<live, optIn, outcome, event, metaHas, shared>>
  /\ UNCHANGED genVars /\ UNCHANGED pushVars

\* A sync or a remap changes the status of a deal (module CrmSync).
SetOutcome(d, o) ==
  /\ outcome[d] # o
  /\ outcome' = [outcome EXCEPT ![d] = o]
  /\ past' = past \cup (IF o = "WON" THEN {Won(d), Qualified(d)}
                        ELSE IF o = "QUALIFIED" THEN {Qualified(d)} ELSE {})
  /\ UNCHANGED <<live, optIn, attrib, event, metaHas, shared>>
  /\ UNCHANGED genVars /\ UNCHANGED pushVars

-----------------------------------------------------------------------------
(* generate.                                                               *)

\* A request of g ends, having done all or having thrown.
DropGenerate(g) ==
  /\ gpc' = [gpc EXCEPT ![g] = "idle"]
  /\ accs' = [accs EXCEPT ![g] = {}]
  /\ touch' = [touch EXCEPT ![g] = {}]
  /\ due' = [due EXCEPT ![g] = {}]
  /\ missed' = [missed EXCEPT ![g] = {}]

\* Opt-in accounts and their ads; without any the request returns.
ReadAccounts(g) ==
  /\ gpc[g] = "idle"
  /\ optIn # {}
  /\ accs' = [accs EXCEPT ![g] = optIn]
  /\ gpc' = [gpc EXCEPT ![g] = "leads"]
  /\ UNCHANGED <<event, metaHas, touch, due, missed, past, shared>>
  /\ UNCHANGED worldVars /\ UNCHANGED pushVars

\* MATCHED leads on ads of those accounts.
Touching(g) == {l \in Leads : attrib[l] \in accs[g]}

\* Per contact the latest of them.
LastTouch(S) ==
  {l \in S : \A k \in S : ContactOf[k] = ContactOf[l] => LeadOrder[k] <= LeadOrder[l]}

ReadLeads(g) ==
  /\ gpc[g] = "leads"
  /\ touch' = [touch EXCEPT ![g] =
       {[lead |-> l, account |-> attrib[l]] : l \in LastTouch(Touching(g))}]
  /\ gpc' = [gpc EXCEPT ![g] = "deals"]
  /\ UNCHANGED <<event, metaHas, accs, due, missed, past, shared>>
  /\ UNCHANGED worldVars /\ UNCHANGED pushVars

\* Mutant: purchases are drawn from the qualified deals as well.
CallsEarly(t, i) ==
  \E d \in Deals : /\ i \in {<<"QL", t.lead>>, <<"PUR", d>>}
                   /\ ContactOf[d] = ContactOf[t.lead] /\ outcome[d] # "NONE"

\* The events the deals of those contacts call for.
Calls(t, i) ==
  \/ /\ i = <<"QL", t.lead>>
     /\ \E d \in Deals : ContactOf[d] = ContactOf[t.lead] /\ outcome[d] # "NONE"
  \/ \E d \in Deals : /\ i = <<"PUR", d>>
                      /\ ContactOf[d] = ContactOf[t.lead]
                      /\ outcome[d] = "WON"

ReadDeals(g) ==
  /\ gpc[g] = "deals"
  /\ due' = [due EXCEPT ![g] =
       {e \in Due : \E t \in touch[g] : e.account = t.account /\ Calls(t, e.id)}]
  /\ gpc' = [gpc EXCEPT ![g] = "events"]
  /\ UNCHANGED <<event, metaHas, accs, touch, missed, past, shared>>
  /\ UNCHANGED worldVars /\ UNCHANGED pushVars

\* Qualified leads come first, then purchases.
Turn(g, e) ==
  /\ e \in due[g]
  /\ e.id[1] = "PUR" => \A x \in due[g] : x.id[1] = "PUR"

\* createEvent looks the event up: one that exists is left as it is.
FindEvent(g) ==
  /\ gpc[g] = "events"
  /\ \E e \in due[g] :
       /\ Turn(g, e)
       /\ due' = [due EXCEPT ![g] = @ \ {e}]
       /\ IF event[e.id].state = "absent"
          THEN /\ missed' = [missed EXCEPT ![g] = {e}]
               /\ gpc' = [gpc EXCEPT ![g] = "create"]
          ELSE UNCHANGED <<missed, gpc>>
  /\ UNCHANGED <<event, metaHas, accs, touch, past, shared>>
  /\ UNCHANGED worldVars /\ UNCHANGED pushVars

\* createEvent inserts it ...
CreateEvent(g) ==
  /\ gpc[g] = "create"
  /\ \E e \in missed[g] :
       /\ event[e.id].state = "absent"
       /\ event' = [event EXCEPT ![e.id] = [state |-> "PENDING", account |-> e.account]]
  /\ missed' = [missed EXCEPT ![g] = {}]
  /\ gpc' = [gpc EXCEPT ![g] = "events"]
  /\ UNCHANGED <<metaHas, accs, touch, due, past, shared>>
  /\ UNCHANGED worldVars /\ UNCHANGED pushVars

\* ... and throws if another request has meanwhile: eventId is unique.
CreateFails(g) ==
  /\ gpc[g] = "create"
  /\ \E e \in missed[g] : event[e.id].state # "absent"
  /\ DropGenerate(g)
  /\ UNCHANGED <<event, metaHas, past, shared>>
  /\ UNCHANGED worldVars /\ UNCHANGED pushVars

EndGenerate(g) ==
  /\ gpc[g] = "events"
  /\ due[g] = {}
  /\ DropGenerate(g)
  /\ UNCHANGED <<event, metaHas, past, shared>>
  /\ UNCHANGED worldVars /\ UNCHANGED pushVars

-----------------------------------------------------------------------------
(* push.                                                                   *)

\* Mutant: everything Meta has not accepted yet, the rejected ones again.
UnacceptedIds == {i \in Ids : event[i].state \in {"PENDING", "REJECTED"}}

PendingIds == {i \in Ids : event[i].state = "PENDING"}

\* Events some push is about to send, or to record the answer about.
InHand == UNION {batch[p] \cup {r.id : r \in answer[p]} : p \in Pushers}

\* The first BatchSize pending events in no particular order.
PushStart(p) ==
  /\ ppc[p] = "idle"
  /\ PendingIds # {}
  /\ \E b \in SUBSET PendingIds :
       /\ Cardinality(b) = BatchSize \/ (Cardinality(b) < BatchSize /\ b = PendingIds)
       /\ batch' = [batch EXCEPT ![p] = b]
       /\ shared' = shared \cup (b \cap InHand)
  /\ ppc' = [ppc EXCEPT ![p] = "send"]
  /\ UNCHANGED <<event, metaHas, answer, past>>
  /\ UNCHANGED worldVars /\ UNCHANGED genVars

\* The account is gone: continue, the event stays PENDING.
SkipOrphan(p) ==
  /\ ppc[p] = "send"
  /\ \E i \in batch[p] : /\ event[i].account \notin live
                         /\ batch' = [batch EXCEPT ![p] = @ \ {i}]
  /\ UNCHANGED <<event, metaHas, ppc, answer, past, shared>>
  /\ UNCHANGED worldVars /\ UNCHANGED genVars

Said(taken, verdict) == [taken |-> taken, verdict |-> verdict]

\* Mutant: any answer counts as acceptance.
AnyAnswerAccepts == {Said(TRUE, "ACCEPTED"), Said(FALSE, "ACCEPTED")}

\* What may come of a call to Meta.  A call that throws counts as a rejection,
\* although Meta may have taken the event in.
Verdicts ==
  {Said(TRUE, "ACCEPTED"), Said(FALSE, "REJECTED")}
    \cup {v \in {Said(TRUE, "REJECTED")} : AnswersLost}

\* connector.pushConversion for an event whose account exists.
Send(p) ==
  /\ ppc[p] = "send"
  /\ \E i \in batch[p], v \in Verdicts :
       /\ event[i].account \in live
       /\ batch' = [batch EXCEPT ![p] = @ \ {i}]
       /\ metaHas' = IF v.taken THEN metaHas \cup {i} ELSE metaHas
       /\ answer' = [answer EXCEPT ![p] = {[id |-> i, state |-> v.verdict]}]
  /\ ppc' = [ppc EXCEPT ![p] = "record"]
  /\ UNCHANGED <<event, past, shared>>
  /\ UNCHANGED worldVars /\ UNCHANGED genVars

\* The verdict is written whatever the row says by now.
Record(p) ==
  /\ ppc[p] = "record"
  /\ \E r \in answer[p] : event' = [event EXCEPT ![r.id].state = r.state]
  /\ answer' = [answer EXCEPT ![p] = {}]
  /\ ppc' = [ppc EXCEPT ![p] = "send"]
  /\ UNCHANGED <<metaHas, batch, past, shared>>
  /\ UNCHANGED worldVars /\ UNCHANGED genVars

EndPush(p) ==
  /\ ppc[p] = "send"
  /\ batch[p] = {}
  /\ ppc' = [ppc EXCEPT ![p] = "idle"]
  /\ UNCHANGED <<event, metaHas, batch, answer, past, shared>>
  /\ UNCHANGED worldVars /\ UNCHANGED genVars

\* The process dies: requests under way are gone, nobody resumes them.
Crash ==
  /\ Crashes
  /\ \/ \E g \in Generators : gpc[g] # "idle"
     \/ \E p \in Pushers : ppc[p] # "idle"
  /\ gpc' = [g \in Generators |-> "idle"]
  /\ accs' = [g \in Generators |-> {}]
  /\ touch' = [g \in Generators |-> {}]
  /\ due' = [g \in Generators |-> {}]
  /\ missed' = [g \in Generators |-> {}]
  /\ ppc' = [p \in Pushers |-> "idle"]
  /\ batch' = [p \in Pushers |-> {}]
  /\ answer' = [p \in Pushers |-> {}]
  /\ UNCHANGED <<event, metaHas, past, shared>>
  /\ UNCHANGED worldVars

-----------------------------------------------------------------------------
World ==
  \/ \E a \in Accounts : \E on \in BOOLEAN : SetFeedback(a, on)
  \/ \E a \in Accounts : RemoveAccount(a)
  \/ \E l \in Leads, a \in Accounts : Attribute(l, a)
  \/ \E d \in Deals, o \in Outcomes : SetOutcome(d, o)

Generate(g) ==
  \/ ReadAccounts(g)
  \/ ReadLeads(g)
  \/ ReadDeals(g)
  \/ FindEvent(g)
  \/ CreateEvent(g)
  \/ CreateFails(g)
  \/ EndGenerate(g)

Push(p) ==
  \/ PushStart(p)
  \/ SkipOrphan(p)
  \/ Send(p)
  \/ Record(p)
  \/ EndPush(p)

Next ==
  \/ World
  \/ \E g \in Generators : Generate(g)
  \/ \E p \in Pushers : Push(p)
  \/ Crash

Spec == Init /\ [][Next]_vars

-----------------------------------------------------------------------------
(* Properties.                                                             *)

\* The variables have their types; opt-ins and attributions are of accounts
\* that exist.
TypeOK ==
  /\ live \subseteq Accounts
  /\ optIn \subseteq live
  /\ attrib \in [Leads -> live \cup {NONE}]
  /\ outcome \in [Deals -> Outcomes]
  /\ event \in [Ids -> EventRow]
  /\ metaHas \subseteq Ids
  /\ gpc \in [Generators -> {"idle", "leads", "deals", "events", "create"}]
  /\ accs \in [Generators -> SUBSET Accounts]
  /\ touch \in [Generators -> SUBSET Touch]
  /\ due \in [Generators -> SUBSET Due]
  /\ missed \in [Generators -> SUBSET Due]
  /\ ppc \in [Pushers -> {"idle", "send", "record"}]
  /\ batch \in [Pushers -> SUBSET Ids]
  /\ answer \in [Pushers -> SUBSET Answer]
  /\ past \subseteq Facts
  /\ shared \subseteq Ids

\* Why event i may be there for account a: the account was opted in, a lead was
\* attributed to it, and a deal of that lead's contact reached the outcome.
Justified(i, a) ==
  /\ OptedIn(a) \in past
  /\ \E l \in Leads, d \in Deals :
       /\ Attributed(l, a) \in past
       /\ ContactOf[l] = ContactOf[d]
       /\ \/ i = <<"QL", l>> /\ Qualified(d) \in past
          \/ i = <<"PUR", d>> /\ Won(d) \in past

\* No event is made up of a mixture of facts that never were: whatever changes
\* between the reads of generate, an event stands on an opt-in, an attribution
\* and an outcome that each held at some time (ConversionsService.generate).
EventsJustified ==
  \A i \in Ids : event[i].state # "absent" => Justified(i, event[i].account)

\* An event recorded as ACCEPTED is one Meta took in, with any number of pushes
\* at once, answers lost and the process dying in between (push).
AcceptedIsTrue ==
  \A i \in Ids : event[i].state = "ACCEPTED" => i \in metaHas

Settled == {i \in Ids : event[i].state \in {"ACCEPTED", "REJECTED"}}

Final ==
  \A i \in Settled \ InHand : /\ i \notin InHand'
                              /\ event'[i] = event[i]
                              /\ i \in metaHas' => i \in metaHas

\* A verdict is final once the pushes that had read the event as pending are over,
\* however many of them there were and whichever of them died: no later push takes
\* the event up, sends it or writes it (push takes what is PENDING, nothing else).
VerdictsAreFinal == [][Final]_vars

Entry(s) == CASE s = "absent" -> "none"
              [] s = "PENDING" -> "open"
              [] s = "ACCEPTED" -> "accepted"
              [] s = "REJECTED" -> "rejected"

Entries == Ids
entry == [i \in Ids |-> Entry(event[i].state)]
delivered == metaHas

L == INSTANCE Ledger

\* What may befall an event that two pushes have in hand: it may be delivered after
\* it was settled, and settled again, each time by a verdict; nothing else moves.
Again(i) ==
  /\ entry[i] # "none"
  /\ delivered' \in {delivered, delivered \cup {i}}
  /\ \E v \in {entry[i], "accepted", "rejected"} :
       /\ v = "accepted" => i \in delivered'
       /\ entry' = [entry EXCEPT ![i] = v]

\* The table is a ledger: an event is opened once, sent only while open, settled
\* once.  Overlapping pushes break that of the events they share and of no other
\* (generate, push and the state column).
LedgerFollowed ==
  L!Init /\ [][L!Next \/ \E i \in shared' : Again(i)]_<<entry, delivered>>

\* "report them back to Meta for opt-in ad accounts": nothing goes out for an
\* account that is not opted in when it is sent.
OnlyOptedIn == [][\A i \in metaHas' \ metaHas : event[i].account \in optIn]_vars

\* "pushes are fully audited (sent / accepted / rejected)": an event recorded as
\* REJECTED is not one Meta took in.
VerdictsAgree == \A i \in Ids : event[i].state = "REJECTED" => i \notin metaHas

\* "Generation is idempotent (stable eventId per outcome)": the qualification of
\* a contact is reported by one event.
OneQualifiedLead ==
  \A k, l \in Leads :
    /\ event[<<"QL", k>>].state # "absent"
    /\ event[<<"QL", l>>].state # "absent"
    /\ ContactOf[k] = ContactOf[l]
    => k = l
=============================================================================
