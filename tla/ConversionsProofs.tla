-------------------------- MODULE ConversionsProofs --------------------------
(***************************************************************************)
(* What holds of Conversions for any accounts, leads, deals and requests:  *)
(* its types, that events stand on facts, that ACCEPTED is true, that      *)
(* verdicts are final and that the table of events is a ledger.            *)
(***************************************************************************)
EXTENDS Conversions, TLAPS

-----------------------------------------------------------------------------
(* Types.                                                                  *)

LEMMA WorldKeepsTypeOK ==
  ASSUME TypeOK, World
  PROVE  TypeOK'
<1> USE DEF TypeOK, genVars, pushVars
<1>1. ASSUME NEW a \in Accounts, NEW on \in BOOLEAN, SetFeedback(a, on) PROVE TypeOK'
  BY <1>1 DEF SetFeedback, OptedIn, Facts
<1>2. ASSUME NEW a \in Accounts, RemoveAccount(a) PROVE TypeOK'
  BY <1>2 DEF RemoveAccount
<1>3. ASSUME NEW l \in Leads, NEW a \in Accounts, Attribute(l, a) PROVE TypeOK'
  <2>1. attrib' \in [Leads -> live \cup {NONE}] /\ past' \subseteq Facts
    BY <1>3 DEF Attribute, Attributed, Facts
  <2> QED
    BY <1>3, <2>1 DEF Attribute
<1>4. ASSUME NEW d \in Deals, NEW o \in Outcomes, SetOutcome(d, o) PROVE TypeOK'
  <2>1. past' \subseteq Facts
    BY <1>4 DEF SetOutcome, Qualified, Won, Facts
  <2>2. outcome' \in [Deals -> Outcomes]
    BY <1>4 DEF SetOutcome
  <2> QED
    BY <1>4, <2>1, <2>2 DEF SetOutcome
<1> QED
  BY <1>1, <1>2, <1>3, <1>4 DEF World

LEMMA GenerateKeepsTypeOK ==
  ASSUME TypeOK, NEW g \in Generators, Generate(g)
  PROVE  TypeOK'
<1> USE DEF TypeOK, worldVars, pushVars
<1>1. CASE ReadAccounts(g)
  BY <1>1 DEF ReadAccounts
<1>2. CASE ReadLeads(g)
  <2>1. {[lead |-> l, account |-> attrib[l]] : l \in LastTouch(Touching(g))} \subseteq Touch
    BY DEF LastTouch, Touching, Touch
  <2> QED
    BY <1>2, <2>1 DEF ReadLeads
<1>3. CASE ReadDeals(g)
  BY <1>3 DEF ReadDeals
<1>4. CASE FindEvent(g)
  BY <1>4 DEF FindEvent, Turn
<1>5. CASE CreateEvent(g)
  <2>1. event' \in [Ids -> EventRow]
    BY <1>5 DEF CreateEvent, EventRow, Due
  <2> QED
    BY <1>5, <2>1 DEF CreateEvent
<1>6. CASE CreateFails(g) \/ EndGenerate(g)
  BY <1>6 DEF CreateFails, EndGenerate, DropGenerate
<1> QED
  BY <1>1, <1>2, <1>3, <1>4, <1>5, <1>6 DEF Generate

LEMMA PushKeepsTypeOK ==
  ASSUME TypeOK, NEW p \in Pushers, Push(p)
  PROVE  TypeOK'
<1> USE DEF TypeOK, worldVars, genVars
<1>1. CASE PushStart(p)
  BY <1>1 DEF PushStart, PendingIds
<1>2. CASE SkipOrphan(p)
  BY <1>2 DEF SkipOrphan
<1>3. CASE Send(p)
  <2>1. PICK i \in batch[p], v \in Verdicts :
           /\ batch' = [batch EXCEPT ![p] = @ \ {i}]
           /\ metaHas' = IF v.taken THEN metaHas \cup {i} ELSE metaHas
           /\ answer' = [answer EXCEPT ![p] = {[id |-> i, state |-> v.verdict]}]
    BY <1>3 DEF Send
  <2>2. i \in Ids /\ v.verdict \in {"ACCEPTED", "REJECTED"}
    BY DEF Verdicts, Said
  <2>3. {[id |-> i, state |-> v.verdict]} \subseteq Answer
    BY <2>2 DEF Answer
  <2> QED
    BY <1>3, <2>1, <2>2, <2>3 DEF Send
<1>4. CASE Record(p)
  <2>1. event' \in [Ids -> EventRow]
    BY <1>4 DEF Record, EventRow, Answer
  <2> QED
    BY <1>4, <2>1 DEF Record
<1>5. CASE EndPush(p)
  BY <1>5 DEF EndPush
<1> QED
  BY <1>1, <1>2, <1>3, <1>4, <1>5 DEF Push

LEMMA InitTypeOK == Init => TypeOK
  BY DEF Init, TypeOK, Outcomes, EventRow

LEMMA NextTypeOK == TypeOK /\ [Next]_vars => TypeOK'
<1> SUFFICES ASSUME TypeOK, [Next]_vars PROVE TypeOK'
  OBVIOUS
<1>1. CASE Crash
  BY <1>1 DEF Crash, TypeOK, worldVars
<1>2. CASE UNCHANGED vars
  BY <1>2 DEF vars, TypeOK
<1> QED
  BY <1>1, <1>2, WorldKeepsTypeOK, GenerateKeepsTypeOK, PushKeepsTypeOK DEF Next

\* The types hold in every state (module Conversions).
THEOREM ConversionsTypeOK == Spec => []TypeOK
  BY InitTypeOK, NextTypeOK, PTL DEF Spec

-----------------------------------------------------------------------------
(* ACCEPTED is true.                                                       *)

\* Only what Meta took in is answered with ACCEPTED.
AnswersTrue ==
  \A p \in Pushers : \A r \in answer[p] : r.state = "ACCEPTED" => r.id \in metaHas

AcceptedInv == TypeOK /\ AnswersTrue /\ AcceptedIsTrue

LEMMA NextAccepted == AcceptedInv /\ [Next]_vars => AcceptedInv'
<1> SUFFICES ASSUME AcceptedInv, [Next]_vars PROVE AnswersTrue' /\ AcceptedIsTrue'
  BY NextTypeOK DEF AcceptedInv
<1> USE DEF AcceptedInv, TypeOK
<1>1. CASE UNCHANGED <<event, metaHas, answer>>
  BY <1>1 DEF AnswersTrue, AcceptedIsTrue
<1>2. CASE Crash
  BY <1>2 DEF Crash, AnswersTrue, AcceptedIsTrue
<1>3. ASSUME NEW g \in Generators, CreateEvent(g) PROVE AnswersTrue' /\ AcceptedIsTrue'
  <2>1. PICK e \in missed[g] :
          event' = [event EXCEPT ![e.id] = [state |-> "PENDING", account |-> e.account]]
    BY <1>3 DEF CreateEvent
  <2>2. UNCHANGED <<metaHas, answer>>
    BY <1>3 DEF CreateEvent, pushVars
  <2>3. \A i \in Ids : event'[i].state = "ACCEPTED" => event[i].state = "ACCEPTED"
    BY <2>1
  <2> QED
    BY <2>2, <2>3 DEF AnswersTrue, AcceptedIsTrue
<1>4. ASSUME NEW p \in Pushers, Send(p) PROVE AnswersTrue' /\ AcceptedIsTrue'
  <2>1. PICK i \in batch[p], v \in Verdicts :
           /\ metaHas' = IF v.taken THEN metaHas \cup {i} ELSE metaHas
           /\ answer' = [answer EXCEPT ![p] = {[id |-> i, state |-> v.verdict]}]
    BY <1>4 DEF Send
  <2>2. v.verdict = "ACCEPTED" => v.taken
    BY DEF Verdicts, Said
  <2>3. event' = event
    BY <1>4 DEF Send
  <2>4. \A r \in answer'[p] : r.state = "ACCEPTED" => r.id \in metaHas'
    BY <2>1, <2>2
  <2>5. \A q \in Pushers \ {p} : answer'[q] = answer[q]
    BY <2>1
  <2>6. metaHas \subseteq metaHas'
    BY <2>1
  <2> QED
    BY <2>3, <2>4, <2>5, <2>6 DEF AnswersTrue, AcceptedIsTrue
<1>5. ASSUME NEW p \in Pushers, Record(p) PROVE AnswersTrue' /\ AcceptedIsTrue'
  <2>1. PICK r \in answer[p] : event' = [event EXCEPT ![r.id].state = r.state]
    BY <1>5 DEF Record
  <2>2. /\ answer' = [answer EXCEPT ![p] = {}]
        /\ metaHas' = metaHas
    BY <1>5 DEF Record
  <2>3. \A i \in Ids : event'[i].state = "ACCEPTED" =>
                        event[i].state = "ACCEPTED" \/ (r.state = "ACCEPTED" /\ i = r.id)
    <3>1. ASSUME NEW i \in Ids, i = r.id PROVE event'[i].state = r.state
      BY <2>1, <3>1 DEF EventRow
    <3>2. ASSUME NEW i \in Ids, i # r.id PROVE event'[i] = event[i]
      BY <2>1, <3>2
    <3> QED
      BY <3>1, <3>2
  <2>4. r \in Answer /\ (r.state = "ACCEPTED" => r.id \in metaHas)
    BY DEF AnswersTrue
  <2>5. AcceptedIsTrue'
    BY <2>2, <2>3, <2>4 DEF AcceptedIsTrue
  <2>6. AnswersTrue'
    BY <2>2 DEF AnswersTrue
  <2> QED
    BY <2>5, <2>6
<1>6. ASSUME NEW g \in Generators, Generate(g), ~CreateEvent(g)
      PROVE  UNCHANGED <<event, metaHas, answer>>
  BY <1>6 DEF Generate, ReadAccounts, ReadLeads, ReadDeals, FindEvent, CreateFails,
              EndGenerate, pushVars
<1>7. ASSUME NEW p \in Pushers, Push(p), ~Send(p), ~Record(p)
      PROVE  UNCHANGED <<event, metaHas, answer>>
  BY <1>7 DEF Push, PushStart, SkipOrphan, EndPush
<1>8. ASSUME World PROVE UNCHANGED <<event, metaHas, answer>>
  BY <1>8 DEF World, SetFeedback, RemoveAccount, Attribute, SetOutcome, pushVars
<1> QED
  BY <1>1, <1>2, <1>3, <1>4, <1>5, <1>6, <1>7, <1>8 DEF Next, vars

\* What the table calls ACCEPTED is what Meta took in, however many pushes
\* overlap, whatever is lost and whenever the process dies.
THEOREM ConversionsAcceptedIsTrue == Spec => []AcceptedIsTrue
<1>1. Init => AcceptedInv
  BY InitTypeOK DEF Init, AcceptedInv, AnswersTrue, AcceptedIsTrue
<1> QED
  BY <1>1, NextAccepted, PTL DEF Spec, AcceptedInv
-----------------------------------------------------------------------------
(* Events stand on facts.                                                  *)

\* The facts of today are on record.
FactsRecorded ==
  /\ \A a \in optIn : OptedIn(a) \in past
  /\ \A l \in Leads : attrib[l] # NONE => Attributed(l, attrib[l]) \in past
  /\ \A d \in Deals : (outcome[d] # "NONE" => Qualified(d) \in past)
                      /\ (outcome[d] = "WON" => Won(d) \in past)

\* So is everything a request has read, however old.
ReadsRecorded ==
  \A g \in Generators :
    /\ \A a \in accs[g] : OptedIn(a) \in past
    /\ \A t \in touch[g] : OptedIn(t.account) \in past /\ Attributed(t.lead, t.account) \in past
    /\ \A e \in due[g] \cup missed[g] : Justified(e.id, e.account)

\* A push handles events that exist; none is ever deleted.
PushesExist ==
  \A p \in Pushers : /\ \A i \in batch[p] : event[i].state # "absent"
                     /\ \A r \in answer[p] : event[r.id].state # "absent"

JustifiedInv == TypeOK /\ FactsRecorded /\ ReadsRecorded /\ PushesExist /\ EventsJustified

LEMMA PastGrows == [Next]_vars => past \subseteq past'
  BY DEF Next, vars, World, Generate, Push, Crash, SetFeedback, RemoveAccount, Attribute,
         SetOutcome, ReadAccounts, ReadLeads, ReadDeals, FindEvent, CreateEvent, CreateFails,
         EndGenerate, PushStart, SkipOrphan, Send, Record, EndPush

LEMMA JustifiedLasts ==
  ASSUME past \subseteq past'
  PROVE  \A i, a : Justified(i, a) => Justified(i, a)'
  BY DEF Justified, OptedIn, Attributed, Qualified, Won

\* What the world does is recorded at once.
LEMMA WorldJustified ==
  ASSUME JustifiedInv, World
  PROVE  FactsRecorded'
<1> USE DEF JustifiedInv, TypeOK, FactsRecorded
<1>0. past \subseteq past'
  BY PastGrows DEF Next
<1>1. ASSUME NEW a \in Accounts, NEW on \in BOOLEAN, SetFeedback(a, on) PROVE FactsRecorded'
  BY <1>1, <1>0 DEF SetFeedback, OptedIn, Attributed, Qualified, Won
<1>2. ASSUME NEW a \in Accounts, RemoveAccount(a) PROVE FactsRecorded'
  BY <1>2 DEF RemoveAccount, OptedIn, Attributed, Qualified, Won
<1>3. ASSUME NEW l \in Leads, NEW a \in Accounts, Attribute(l, a) PROVE FactsRecorded'
  BY <1>3, <1>0 DEF Attribute, OptedIn, Attributed, Qualified, Won
<1>4. ASSUME NEW d \in Deals, NEW o \in Outcomes, SetOutcome(d, o) PROVE FactsRecorded'
  <2>1. UNCHANGED <<optIn, attrib>> /\ \A x \in Deals \ {d} : outcome'[x] = outcome[x]
    BY <1>4 DEF SetOutcome
  <2>2. outcome'[d] = o
    BY <1>4 DEF SetOutcome
  <2>3. (o # "NONE" => Qualified(d) \in past') /\ (o = "WON" => Won(d) \in past')
    BY <1>4 DEF SetOutcome, Outcomes
  <2> QED
    BY <1>0, <2>1, <2>2, <2>3 DEF OptedIn, Attributed, Qualified, Won
<1> QED
  BY <1>1, <1>2, <1>3, <1>4 DEF World

\* An event a list calls for is justified by what the request has read.
LEMMA DueJustified ==
  ASSUME JustifiedInv, NEW g \in Generators, NEW t \in touch[g], NEW i, Calls(t, i)
  PROVE  Justified(i, t.account)
<1> USE DEF JustifiedInv, TypeOK, FactsRecorded, ReadsRecorded
<1>1. t.lead \in Leads /\ OptedIn(t.account) \in past /\ Attributed(t.lead, t.account) \in past
  BY DEF Touch
<1>2. PICK d \in Deals : /\ ContactOf[t.lead] = ContactOf[d]
                         /\ \/ i = <<"QL", t.lead>> /\ outcome[d] # "NONE"
                            \/ i = <<"PUR", d>> /\ outcome[d] = "WON"
  BY DEF Calls
<1>3. (outcome[d] # "NONE" => Qualified(d) \in past) /\ (outcome[d] = "WON" => Won(d) \in past)
  OBVIOUS
<1> QED
  BY <1>1, <1>2, <1>3 DEF Justified

\* No step takes an event away.
LEMMA EventsStay ==
  ASSUME TypeOK, [Next]_vars, NEW i \in Ids, event[i].state # "absent"
  PROVE  event'[i].state # "absent"
<1> USE DEF TypeOK
<1>1. ASSUME NEW g \in Generators, CreateEvent(g) PROVE event'[i].state # "absent"
  BY <1>1 DEF CreateEvent, Due, EventRow
<1>2. ASSUME NEW p \in Pushers, Record(p) PROVE event'[i].state # "absent"
  <2>1. PICK r \in answer[p] : event' = [event EXCEPT ![r.id].state = r.state]
    BY <1>2 DEF Record
  <2>2. r.id = i => event'[i].state = r.state
    BY <2>1 DEF EventRow
  <2>3. r.id # i => event'[i] = event[i]
    BY <2>1
  <2>4. r.state # "absent"
    BY DEF Answer
  <2> QED
    BY <2>2, <2>3, <2>4
<1>3. ASSUME NEW g \in Generators, Generate(g), ~CreateEvent(g) PROVE event' = event
  BY <1>3 DEF Generate, ReadAccounts, ReadLeads, ReadDeals, FindEvent, CreateFails, EndGenerate
<1>4. ASSUME NEW p \in Pushers, Push(p), ~Record(p) PROVE event' = event
  BY <1>4 DEF Push, PushStart, SkipOrphan, Send, EndPush
<1>5. ASSUME World \/ Crash \/ UNCHANGED vars PROVE event' = event
  BY <1>5 DEF World, SetFeedback, RemoveAccount, Attribute, SetOutcome, Crash, vars
<1> QED
  BY <1>1, <1>2, <1>3, <1>4, <1>5 DEF Next

LEMMA NextPushesExist == TypeOK /\ PushesExist /\ [Next]_vars => PushesExist'
<1> SUFFICES ASSUME TypeOK, PushesExist, [Next]_vars PROVE PushesExist'
  OBVIOUS
<1> USE DEF TypeOK
<1>1. \A i \in Ids : event[i].state # "absent" => event'[i].state # "absent"
  BY EventsStay
<1>2. ASSUME NEW h \in Pushers,
             \A p \in Pushers \ {h} : batch'[p] = batch[p] /\ answer'[p] = answer[p],
             \A i \in batch'[h] : i \in Ids /\ event[i].state # "absent",
             \A r \in answer'[h] : r.id \in Ids /\ event[r.id].state # "absent"
      PROVE  PushesExist'
  BY <1>1, <1>2 DEF PushesExist, Answer
<1>3. ASSUME UNCHANGED <<batch, answer>> PROVE PushesExist'
  BY <1>1, <1>3 DEF PushesExist, Answer
<1>4. ASSUME NEW p \in Pushers, Push(p) PROVE PushesExist'
  <2>1. CASE PushStart(p)
    BY <1>2, <2>1 DEF PushStart, PendingIds, PushesExist, Answer
  <2>2. CASE SkipOrphan(p) \/ EndPush(p)
    BY <1>2, <2>2 DEF SkipOrphan, EndPush, PushesExist, Answer
  <2>3. CASE Send(p)
    BY <1>2, <2>3 DEF Send, PushesExist
  <2>4. CASE Record(p)
    BY <1>2, <2>4 DEF Record, PushesExist, Answer
  <2> QED
    BY <1>4, <2>1, <2>2, <2>3, <2>4 DEF Push
<1>5. ASSUME NEW g \in Generators, Generate(g) PROVE UNCHANGED <<batch, answer>>
  BY <1>5 DEF Generate, ReadAccounts, ReadLeads, ReadDeals, FindEvent, CreateEvent,
              CreateFails, EndGenerate, pushVars
<1>6. CASE Crash
  BY <1>6 DEF Crash, PushesExist
<1>7. ASSUME World \/ UNCHANGED vars PROVE UNCHANGED <<batch, answer>>
  BY <1>7 DEF World, SetFeedback, RemoveAccount, Attribute, SetOutcome, vars, pushVars
<1> QED
  BY <1>3, <1>4, <1>5, <1>6, <1>7 DEF Next

LEMMA NextJustified == JustifiedInv /\ [Next]_vars => JustifiedInv'
<1> SUFFICES ASSUME JustifiedInv, [Next]_vars
             PROVE  FactsRecorded' /\ ReadsRecorded' /\ EventsJustified'
  BY NextTypeOK, NextPushesExist DEF JustifiedInv
<1> USE DEF JustifiedInv
<1>0. past \subseteq past' /\ \A i, a : Justified(i, a) => Justified(i, a)'
  BY PastGrows, JustifiedLasts
<1>1. ASSUME UNCHANGED <<optIn, attrib, outcome, past>> PROVE FactsRecorded'
  BY <1>1 DEF FactsRecorded, OptedIn, Attributed, Qualified, Won
<1>2. ASSUME UNCHANGED genVars PROVE ReadsRecorded'
  BY <1>0, <1>2 DEF ReadsRecorded, genVars, OptedIn, Attributed
<1>3. ASSUME NEW h \in Generators, past' = past,
             \A g \in Generators \ {h} : /\ accs'[g] = accs[g] /\ touch'[g] = touch[g]
                                         /\ due'[g] = due[g] /\ missed'[g] = missed[g],
             \A a \in accs'[h] : OptedIn(a) \in past,
             \A t \in touch'[h] : OptedIn(t.account) \in past /\ Attributed(t.lead, t.account) \in past,
             \A e \in due'[h] \cup missed'[h] : Justified(e.id, e.account)
      PROVE  ReadsRecorded'
  BY <1>0, <1>3 DEF ReadsRecorded, OptedIn, Attributed
<1>4. ASSUME \A i \in Ids : event'[i].state # "absent" =>
                              /\ event[i].state # "absent"
                              /\ event'[i].account = event[i].account
      PROVE  EventsJustified'
  BY <1>0, <1>4 DEF EventsJustified
<1>5. CASE World
  <2>1. UNCHANGED genVars /\ event' = event
    BY <1>5 DEF World, SetFeedback, RemoveAccount, Attribute, SetOutcome
  <2> QED
    BY <1>2, <1>4, <1>5, <2>1, WorldJustified
<1>6. ASSUME NEW g \in Generators, Generate(g)
      PROVE  FactsRecorded' /\ ReadsRecorded' /\ EventsJustified'
  <2> USE DEF TypeOK
  <2>1. UNCHANGED <<optIn, attrib, outcome, past>>
    BY <1>6 DEF Generate, ReadAccounts, ReadLeads, ReadDeals, FindEvent, CreateEvent,
                CreateFails, EndGenerate, worldVars
  <2>2. FactsRecorded'
    BY <1>1, <2>1
  <2>3. CASE ReadAccounts(g)
    <3>1. ReadsRecorded'
      BY <1>3, <2>3 DEF ReadAccounts, FactsRecorded, ReadsRecorded
    <3> QED
      BY <1>4, <2>2, <2>3, <3>1 DEF ReadAccounts
  <2>4. CASE ReadLeads(g)
    <3>1. \A t \in touch'[g] : OptedIn(t.account) \in past /\ Attributed(t.lead, t.account) \in past
      <4>1. TAKE t \in touch'[g]
      <4>2. PICK l \in LastTouch(Touching(g)) : t = [lead |-> l, account |-> attrib[l]]
        BY <2>4 DEF ReadLeads
      <4>3. l \in Leads /\ attrib[l] \in accs[g]
        BY DEF LastTouch, Touching
      <4>4. attrib[l] # NONE
        BY <4>3, ConversionsAssumption
      <4> QED
        BY <4>2, <4>3, <4>4 DEF FactsRecorded, ReadsRecorded
    <3>2. ReadsRecorded'
      BY <1>3, <2>4, <3>1 DEF ReadLeads, ReadsRecorded
    <3> QED
      BY <1>4, <2>2, <2>4, <3>2 DEF ReadLeads
  <2>5. CASE ReadDeals(g)
    <3>1. \A e \in due'[g] : Justified(e.id, e.account)
      BY <2>5, DueJustified DEF ReadDeals
    <3>2. ReadsRecorded'
      BY <1>3, <2>5, <3>1 DEF ReadDeals, ReadsRecorded
    <3> QED
      BY <1>4, <2>2, <2>5, <3>2 DEF ReadDeals
  <2>6. CASE FindEvent(g)
    <3>1. ReadsRecorded'
      BY <1>3, <2>6 DEF FindEvent, Turn, ReadsRecorded
    <3> QED
      BY <1>4, <2>2, <2>6, <3>1 DEF FindEvent
  <2>7. CASE CreateEvent(g)
    <3>1. ReadsRecorded'
      BY <1>3, <2>7 DEF CreateEvent, ReadsRecorded
    <3>2. PICK e \in missed[g] :
            event' = [event EXCEPT ![e.id] = [state |-> "PENDING", account |-> e.account]]
      BY <2>7 DEF CreateEvent
    <3>3. Justified(e.id, e.account)'
      BY <1>0 DEF ReadsRecorded
    <3>4. e.id \in Ids
      BY DEF Due
    <3>5. \A i \in Ids \ {e.id} : event'[i] = event[i]
      BY <3>2
    <3>6. event'[e.id].account = e.account
      BY <3>2, <3>4
    <3>7. EventsJustified'
      BY <1>0, <3>3, <3>5, <3>6 DEF EventsJustified
    <3> QED
      BY <2>2, <3>1, <3>7
  <2>8. CASE CreateFails(g) \/ EndGenerate(g)
    <3>1. ReadsRecorded'
      BY <1>3, <2>1, <2>8 DEF CreateFails, EndGenerate, DropGenerate
    <3> QED
      BY <1>4, <2>2, <2>8, <3>1 DEF CreateFails, EndGenerate
  <2> QED
    BY <1>6, <2>3, <2>4, <2>5, <2>6, <2>7, <2>8 DEF Generate
<1>7. ASSUME NEW p \in Pushers, Push(p)
      PROVE  FactsRecorded' /\ ReadsRecorded' /\ EventsJustified'
  <2>1. UNCHANGED <<optIn, attrib, outcome, past>> /\ UNCHANGED genVars
    BY <1>7 DEF Push, PushStart, SkipOrphan, Send, Record, EndPush, worldVars
  <2>2. CASE Record(p)
    <3>1. PICK r \in answer[p] : event' = [event EXCEPT ![r.id].state = r.state]
      BY <2>2 DEF Record
    <3>2. \A i \in Ids : i # r.id => event'[i] = event[i]
      BY <3>1 DEF TypeOK
    <3>3. r.id \in Ids /\ event'[r.id].account = event[r.id].account
      BY <3>1 DEF TypeOK, Answer, EventRow
    <3>4. event[r.id].state # "absent"
      BY DEF PushesExist
    <3>5. EventsJustified'
      BY <1>4, <3>2, <3>3, <3>4
    <3> QED
      BY <1>1, <1>2, <2>1, <3>5
  <2>3. CASE ~Record(p)
    <3>1. event' = event
      BY <1>7, <2>3 DEF Push, PushStart, SkipOrphan, Send, EndPush
    <3> QED
      BY <1>1, <1>2, <1>4, <2>1, <3>1
  <2> QED
    BY <2>2, <2>3
<1>8. CASE Crash
  <2>1. ReadsRecorded'
    BY <1>8 DEF Crash, ReadsRecorded
  <2> QED
    BY <1>1, <1>4, <1>8, <2>1 DEF Crash, worldVars
<1>9. CASE UNCHANGED vars
  BY <1>1, <1>2, <1>4, <1>9 DEF vars, genVars
<1> QED
  BY <1>5, <1>6, <1>7, <1>8, <1>9 DEF Next

\* Every event stands on an opt-in, an attribution and an outcome that once held.
THEOREM ConversionsEventsJustified == Spec => []EventsJustified
<1>1. Init => JustifiedInv
  BY InitTypeOK DEF Init, JustifiedInv, FactsRecorded, ReadsRecorded,
                     PushesExist, EventsJustified
<1> QED
  BY <1>1, NextJustified, PTL DEF Spec, JustifiedInv

-----------------------------------------------------------------------------
(* Verdicts are final.                                                     *)

LEMMA HandsChange ==
  ASSUME TypeOK, [Next]_vars
  PROVE  \A i \in Ids : i \in InHand' => i \in InHand \/ event[i].state = "PENDING"
<1> USE DEF TypeOK
<1>1. ASSUME NEW p \in Pushers, PushStart(p)
      PROVE  \A i \in Ids : i \in InHand' => i \in InHand \/ event[i].state = "PENDING"
  <2>1. PICK b \in SUBSET PendingIds : batch' = [batch EXCEPT ![p] = b]
    BY <1>1 DEF PushStart
  <2>2. answer' = answer
    BY <1>1 DEF PushStart
  <2>3. \A q \in Pushers : batch'[q] \subseteq batch[q] \cup PendingIds
    BY <2>1
  <2> QED
    BY <2>2, <2>3 DEF InHand, PendingIds
<1>2. ASSUME NEW p \in Pushers, Send(p) PROVE InHand' \subseteq InHand
  <2>1. PICK i \in batch[p], v \in Verdicts :
           /\ batch' = [batch EXCEPT ![p] = @ \ {i}]
           /\ answer' = [answer EXCEPT ![p] = {[id |-> i, state |-> v.verdict]}]
    BY <1>2 DEF Send
  <2>2. \A q \in Pushers : batch'[q] \subseteq batch[q]
    BY <2>1
  <2>3. \A q \in Pushers : \A r \in answer'[q] : r \in answer[q] \/ (q = p /\ r.id = i)
    BY <2>1
  <2> QED
    BY <2>2, <2>3 DEF InHand
<1>3. ASSUME \A q \in Pushers : batch'[q] \subseteq batch[q] /\ answer'[q] \subseteq answer[q]
      PROVE  InHand' \subseteq InHand
  BY <1>3 DEF InHand
<1>4. ASSUME NEW p \in Pushers, Push(p), ~PushStart(p), ~Send(p)
      PROVE  \A q \in Pushers : batch'[q] \subseteq batch[q] /\ answer'[q] \subseteq answer[q]
  BY <1>4 DEF Push, SkipOrphan, Record, EndPush
<1>5. ASSUME NEW g \in Generators, Generate(g) PROVE UNCHANGED <<batch, answer>>
  BY <1>5 DEF Generate, ReadAccounts, ReadLeads, ReadDeals, FindEvent, CreateEvent,
              CreateFails, EndGenerate, pushVars
<1>6. ASSUME Crash
      PROVE  \A q \in Pushers : batch'[q] \subseteq batch[q] /\ answer'[q] \subseteq answer[q]
  BY <1>6 DEF Crash
<1>7. ASSUME World \/ UNCHANGED vars PROVE UNCHANGED <<batch, answer>>
  BY <1>7 DEF World, SetFeedback, RemoveAccount, Attribute, SetOutcome, vars, pushVars
<1> QED
  BY <1>1, <1>2, <1>3, <1>4, <1>5, <1>6, <1>7 DEF Next

LEMMA SettledStays ==
  ASSUME TypeOK, [Next]_vars, NEW i \in Settled \ InHand
  PROVE  event'[i] = event[i] /\ (i \in metaHas' => i \in metaHas)
<1> USE DEF TypeOK, Settled
<1>1. ASSUME NEW g \in Generators, CreateEvent(g) PROVE event'[i] = event[i] /\ metaHas' = metaHas
  BY <1>1 DEF CreateEvent
<1>2. ASSUME NEW p \in Pushers, Record(p) PROVE event'[i] = event[i] /\ metaHas' = metaHas
  <2>1. PICK r \in answer[p] : event' = [event EXCEPT ![r.id].state = r.state]
    BY <1>2 DEF Record
  <2>2. r.id \in InHand
    BY DEF InHand
  <2> QED
    BY <1>2, <2>1, <2>2 DEF Record
<1>3. ASSUME NEW p \in Pushers, Send(p) PROVE event' = event /\ (i \in metaHas' => i \in metaHas)
  <2>1. PICK j \in batch[p], v \in Verdicts :
           metaHas' = IF v.taken THEN metaHas \cup {j} ELSE metaHas
    BY <1>3 DEF Send
  <2>2. j \in InHand
    BY DEF InHand
  <2> QED
    BY <1>3, <2>1, <2>2 DEF Send
<1>4. ASSUME NEW g \in Generators, Generate(g), ~CreateEvent(g) PROVE UNCHANGED <<event, metaHas>>
  BY <1>4 DEF Generate, ReadAccounts, ReadLeads, ReadDeals, FindEvent, CreateFails, EndGenerate
<1>5. ASSUME NEW p \in Pushers, Push(p), ~Send(p), ~Record(p) PROVE UNCHANGED <<event, metaHas>>
  BY <1>5 DEF Push, PushStart, SkipOrphan, EndPush
<1>6. ASSUME World \/ Crash \/ UNCHANGED vars PROVE UNCHANGED <<event, metaHas>>
  BY <1>6 DEF World, SetFeedback, RemoveAccount, Attribute, SetOutcome, Crash, vars
<1> QED
  BY <1>1, <1>2, <1>3, <1>4, <1>5, <1>6 DEF Next

\* For any number of overlapping pushes, lost answers and crashes: once the pushes
\* that had read an event as pending are over its verdict is final, it is not taken
\* up again and Meta is not sent it again.
THEOREM ConversionsVerdictsAreFinal == Spec => VerdictsAreFinal
<1>1. TypeOK /\ [Next]_vars => [Final]_vars
  BY HandsChange, SettledStays DEF Settled, Final
<1> QED
  BY <1>1, ConversionsTypeOK, PTL DEF Spec, VerdictsAreFinal

-----------------------------------------------------------------------------
(* A ledger.                                                               *)

Holds(p, i) == i \in batch[p] \/ \E r \in answer[p] : r.id = i

\* What a push has in hand, and no other push ever had at the same time, is pending,
\* and the event it waits for an answer about is no longer in its batch.
InHandOpen ==
  /\ \A p \in Pushers :
       /\ ppc[p] # "record" => answer[p] = {}
       /\ \A i \in batch[p] : i \notin shared => event[i].state = "PENDING"
       /\ \A r \in answer[p] : r.id \notin shared =>
            event[r.id].state = "PENDING" /\ r.id \notin batch[p]
  /\ \A p, q \in Pushers, i \in Ids : p # q /\ Holds(p, i) /\ Holds(q, i) => i \in shared

LedgerInv == AcceptedInv /\ PushesExist /\ InHandOpen

LEMMA NextInHandOpen ==
  ASSUME LedgerInv, [Next]_vars
  PROVE  InHandOpen'
<1> USE DEF LedgerInv, AcceptedInv, TypeOK
<1>1. ASSUME UNCHANGED <<ppc, batch, answer, shared>>,
             \A i \in Ids : event[i].state = "PENDING" => event'[i].state = "PENDING"
      PROVE  InHandOpen'
  BY <1>1 DEF InHandOpen, Holds, Answer
<1>2. ASSUME NEW g \in Generators, Generate(g) PROVE InHandOpen'
  <2>1. UNCHANGED <<ppc, batch, answer, shared>>
    BY <1>2 DEF Generate, ReadAccounts, ReadLeads, ReadDeals, FindEvent, CreateEvent,
                CreateFails, EndGenerate, pushVars
  <2>2. CASE CreateEvent(g)
    BY <1>1, <2>1, <2>2 DEF CreateEvent, Due
  <2>3. CASE ~CreateEvent(g)
    <3>1. event' = event
      BY <1>2, <2>3 DEF Generate, ReadAccounts, ReadLeads, ReadDeals, FindEvent,
                        CreateFails, EndGenerate
    <3> QED
      BY <1>1, <2>1, <3>1
  <2> QED
    BY <2>2, <2>3
<1>3. ASSUME NEW p \in Pushers, PushStart(p) PROVE InHandOpen'
  <2>1. PICK b \in SUBSET PendingIds : /\ batch' = [batch EXCEPT ![p] = b]
                                       /\ shared' = shared \cup (b \cap InHand)
    BY <1>3 DEF PushStart
  <2>2. /\ ppc[p] = "idle" /\ ppc' = [ppc EXCEPT ![p] = "send"]
        /\ UNCHANGED <<event, answer>>
    BY <1>3 DEF PushStart
  <2>3. answer[p] = {}
    BY <2>2 DEF InHandOpen
  <2>4. \A q \in Pushers \ {p} : batch'[q] = batch[q] /\ ppc'[q] = ppc[q]
    BY <2>1, <2>2
  <2>5. batch'[p] = b /\ ppc'[p] = "send"
    BY <2>1, <2>2
  <2>6. ASSUME NEW q \in Pushers
        PROVE  /\ ppc'[q] # "record" => answer'[q] = {}
               /\ \A i \in batch'[q] : i \notin shared' => event'[i].state = "PENDING"
               /\ \A r \in answer'[q] : r.id \notin shared' =>
                    event'[r.id].state = "PENDING" /\ r.id \notin batch'[q]
    <3>1. CASE q = p
      BY <2>1, <2>2, <2>3, <2>5, <3>1 DEF PendingIds
    <3>2. CASE q # p
      BY <2>1, <2>2, <2>4, <3>2 DEF InHandOpen
    <3> QED
      BY <3>1, <3>2
  <2>7. ASSUME NEW q \in Pushers \ {p}, NEW i \in Ids, Holds(p, i)', Holds(q, i)'
        PROVE  i \in shared'
    <3>1. i \in b
      BY <2>2, <2>3, <2>5, <2>7 DEF Holds
    <3>2. i \in InHand
      BY <2>2, <2>4, <2>7 DEF Holds, InHand
    <3> QED
      BY <2>1, <3>1, <3>2
  <2>8. ASSUME NEW q \in Pushers \ {p}, NEW h \in Pushers \ {p}, q # h,
               NEW i \in Ids, Holds(q, i)', Holds(h, i)'
        PROVE  i \in shared'
    <3>1. Holds(q, i) /\ Holds(h, i)
      BY <2>2, <2>4, <2>8 DEF Holds
    <3> QED
      BY <2>1, <2>8, <3>1 DEF InHandOpen
  <2> QED
    BY <2>6, <2>7, <2>8 DEF InHandOpen
<1>4. ASSUME NEW p \in Pushers, UNCHANGED shared,
             \A q \in Pushers : ppc'[q] # "record" => answer'[q] = {},
             \A q \in Pushers \ {p} : batch'[q] = batch[q] /\ answer'[q] = answer[q],
             \A i \in Ids : Holds(p, i)' => Holds(p, i),
             \A i \in batch'[p] : i \in batch[p],
             \A i \in Ids : i \notin shared /\ (\E q \in Pushers : Holds(q, i)')
                              => event'[i].state = event[i].state,
             \A r \in answer'[p] : r.id \notin shared =>
               event[r.id].state = "PENDING" /\ r.id \notin batch'[p]
      PROVE  InHandOpen'
  <2>0. TypeOK'
    BY NextTypeOK
  <2>1. \A q \in Pushers, i \in Ids : Holds(q, i)' => Holds(q, i)
    BY <1>4 DEF Holds
  <2>2. ASSUME NEW q \in Pushers, NEW i \in batch'[q], i \notin shared
        PROVE  event'[i].state = "PENDING"
    <3>1. i \in batch[q] /\ i \in Ids
      BY <1>4, <2>2
    <3>2. Holds(q, i)'
      BY <2>2 DEF Holds
    <3> QED
      BY <1>4, <2>2, <3>1, <3>2 DEF InHandOpen
  <2>3. ASSUME NEW q \in Pushers, NEW r \in answer'[q], r.id \notin shared
        PROVE  event'[r.id].state = "PENDING" /\ r.id \notin batch'[q]
    <3>1. Holds(q, r.id)'
      BY <2>3 DEF Holds
    <3>2. event[r.id].state = "PENDING" /\ r.id \notin batch'[q]
      BY <1>4, <2>3 DEF InHandOpen
    <3>3. r.id \in Ids
      BY <2>0, <2>3 DEF Answer
    <3> QED
      BY <1>4, <2>3, <3>1, <3>2, <3>3
  <2> QED
    BY <1>4, <2>1, <2>2, <2>3 DEF InHandOpen
<1>5. ASSUME NEW p \in Pushers, SkipOrphan(p) \/ EndPush(p) PROVE InHandOpen'
  <2>1. /\ \A q \in Pushers : batch'[q] \subseteq batch[q]
        /\ \A q \in Pushers \ {p} : batch'[q] = batch[q]
        /\ UNCHANGED <<event, answer, shared>>
        /\ \A q \in Pushers : ppc'[q] = "record" <=> ppc[q] = "record"
    BY <1>5 DEF SkipOrphan, EndPush
  <2> QED
    BY <1>4, <2>1 DEF InHandOpen, Holds
<1>6. ASSUME NEW p \in Pushers, Send(p) PROVE InHandOpen'
  <2>1. PICK i \in batch[p], v \in Verdicts :
           /\ batch' = [batch EXCEPT ![p] = @ \ {i}]
           /\ answer' = [answer EXCEPT ![p] = {[id |-> i, state |-> v.verdict]}]
    BY <1>6 DEF Send
  <2>2. batch'[p] = batch[p] \ {i} /\ answer'[p] = {[id |-> i, state |-> v.verdict]}
    BY <2>1
  <2>3. UNCHANGED <<event, shared>> /\ ppc' = [ppc EXCEPT ![p] = "record"]
    BY <1>6 DEF Send
  <2>4. \A q \in Pushers \ {p} : batch'[q] = batch[q] /\ answer'[q] = answer[q] /\ ppc'[q] = ppc[q]
    BY <2>1, <2>3
  <2>5. \A r \in answer'[p] : r.id = i
    BY <2>2
  <2>6. \A j \in Ids : Holds(p, j)' => Holds(p, j)
    BY <2>2, <2>5 DEF Holds
  <2>7. \A r \in answer'[p] : r.id \notin shared =>
          event[r.id].state = "PENDING" /\ r.id \notin batch'[p]
    BY <2>2, <2>5 DEF InHandOpen
  <2>8. \A q \in Pushers : ppc'[q] # "record" => answer'[q] = {}
    BY <2>3, <2>4 DEF InHandOpen
  <2> QED
    BY <1>4, <2>2, <2>3, <2>4, <2>6, <2>7, <2>8
<1>7. ASSUME NEW p \in Pushers, Record(p) PROVE InHandOpen'
  <2>1. PICK r \in answer[p] : event' = [event EXCEPT ![r.id].state = r.state]
    BY <1>7 DEF Record
  <2>2. /\ batch' = batch /\ answer' = [answer EXCEPT ![p] = {}]
        /\ ppc' = [ppc EXCEPT ![p] = "send"] /\ shared' = shared
    BY <1>7 DEF Record
  <2>3. answer'[p] = {} /\ \A q \in Pushers \ {p} : answer'[q] = answer[q] /\ ppc'[q] = ppc[q]
    BY <2>2
  <2>4. \A i \in Ids : i # r.id => event'[i] = event[i]
    BY <2>1
  <2>5. Holds(p, r.id) /\ r.id \in Ids
    BY DEF Holds, Answer
  <2>6. ASSUME NEW i \in Ids, i \notin shared, NEW q \in Pushers, Holds(q, i)' PROVE i # r.id
    <3>1. CASE q = p
      <4>1. i \in batch[p]
        BY <2>2, <2>3, <2>6, <3>1 DEF Holds
      <4> QED
        BY <2>6, <4>1 DEF InHandOpen
    <3>2. CASE q # p
      <4>1. Holds(q, i)
        BY <2>2, <2>3, <2>6, <3>2 DEF Holds
      <4> QED
        BY <2>5, <2>6, <3>2, <4>1 DEF InHandOpen
    <3> QED
      BY <3>1, <3>2
  <2>7. \A i \in Ids : Holds(p, i)' => Holds(p, i)
    BY <2>2, <2>3 DEF Holds
  <2>8. \A q \in Pushers : ppc'[q] # "record" => answer'[q] = {}
    BY <2>2, <2>3 DEF InHandOpen
  <2> QED
    BY <1>4, <2>2, <2>3, <2>4, <2>6, <2>7, <2>8
<1>8. CASE Crash
  BY <1>8 DEF Crash, InHandOpen, Holds
<1>9. ASSUME World \/ UNCHANGED vars PROVE InHandOpen'
  <2>1. UNCHANGED <<ppc, batch, answer, event, shared>>
    BY <1>9 DEF World, SetFeedback, RemoveAccount, Attribute, SetOutcome, vars, pushVars
  <2> QED
    BY <1>1, <2>1
<1> QED
  BY <1>2, <1>3, <1>5, <1>6, <1>7, <1>8, <1>9 DEF Next, Push

LEMMA InitLedger == Init => L!Init
  BY DEF Init, L!Init, Entries, entry, delivered, Entry

LEMMA EntryStep ==
  ASSUME NEW i \in Ids, \A j \in Ids : j # i => event'[j] = event[j]
  PROVE  entry' = [entry EXCEPT ![i] = Entry(event'[i].state)]
<1>1. \A j \in Ids : j # i => Entry(event'[j].state) = Entry(event[j].state)
  OBVIOUS
<1> HIDE DEF Entry
<1> QED
  BY <1>1 DEF entry

\* A step of the ledger, or one that several pushes of an event make possible.
LedgerStep == L!Next \/ \E i \in shared' : Again(i)

LEMMA NextLedger == LedgerInv /\ [Next]_vars => [LedgerStep]_<<entry, delivered>>
<1> SUFFICES ASSUME LedgerInv, [Next]_vars
             PROVE  LedgerStep \/ UNCHANGED <<entry, delivered>>
  OBVIOUS
<1> USE DEF LedgerInv, AcceptedInv, TypeOK
<1>1. ASSUME UNCHANGED <<event, metaHas>> PROVE UNCHANGED <<entry, delivered>>
  BY <1>1 DEF entry, delivered
<1>2. ASSUME NEW g \in Generators, CreateEvent(g) PROVE L!Next
  <2>1. PICK e \in missed[g] :
          /\ event[e.id].state = "absent"
          /\ event' = [event EXCEPT ![e.id] = [state |-> "PENDING", account |-> e.account]]
    BY <1>2 DEF CreateEvent
  <2>2. e.id \in Ids
    BY DEF Due
  <2>10. event'[e.id].state = "PENDING" /\ \A i \in Ids : i # e.id => event'[i] = event[i]
    BY <2>1, <2>2
  <2>11. entry' = [entry EXCEPT ![e.id] = Entry("PENDING")]
    BY <2>2, <2>10, EntryStep
  <2>3. entry[e.id] = "none" /\ entry' = [entry EXCEPT ![e.id] = "open"]
    BY <2>1, <2>2, <2>11 DEF entry, Entry
  <2>4. delivered' = delivered
    BY <1>2 DEF CreateEvent, delivered
  <2>5. L!Open(e.id)
    BY <2>3, <2>4 DEF L!Open
  <2> QED
    BY <2>2, <2>5 DEF L!Next, Entries
<1>3. ASSUME NEW p \in Pushers, Send(p) PROVE LedgerStep \/ UNCHANGED <<entry, delivered>>
  <2>1. PICK i \in batch[p], v \in Verdicts :
           metaHas' = IF v.taken THEN metaHas \cup {i} ELSE metaHas
    BY <1>3 DEF Send
  <2>2. i \in Ids /\ entry[i] # "none" /\ (i \notin shared => entry[i] = "open")
    BY DEF InHandOpen, PushesExist, EventRow, entry, Entry
  <2>3. entry' = entry /\ shared' = shared
    BY <1>3 DEF Send, entry
  <2>4. CASE v.taken /\ i \notin shared
    <3>1. L!Deliver(i)
      BY <2>1, <2>2, <2>3, <2>4 DEF L!Deliver, delivered
    <3> QED
      BY <2>2, <3>1 DEF LedgerStep, L!Next, Entries
  <2>5. CASE v.taken /\ i \in shared
    <3>1. /\ delivered' = delivered \cup {i}
          /\ entry' = [entry EXCEPT ![i] = entry[i]]
      BY <2>1, <2>2, <2>3, <2>5 DEF delivered, entry
    <3>2. Again(i)
      BY <2>2, <3>1 DEF Again
    <3> QED
      BY <2>3, <2>5, <3>2 DEF LedgerStep
  <2>6. CASE ~v.taken
    BY <2>1, <2>3, <2>6 DEF delivered
  <2> QED
    BY <2>4, <2>5, <2>6
<1>4. ASSUME NEW p \in Pushers, Record(p) PROVE LedgerStep
  <2>1. PICK r \in answer[p] : event' = [event EXCEPT ![r.id].state = r.state]
    BY <1>4 DEF Record
  <2>2. /\ r \in Answer
        /\ r.id \notin shared => event[r.id].state = "PENDING"
        /\ event[r.id].state # "absent"
        /\ r.state = "ACCEPTED" => r.id \in metaHas
    BY DEF InHandOpen, AnswersTrue, PushesExist
  <2>3. r.id \in Ids /\ r.state \in {"ACCEPTED", "REJECTED"}
    BY <2>2 DEF Answer
  <2>4. event'[r.id].state = r.state /\ \A i \in Ids : i # r.id => event'[i] = event[i]
    BY <2>1, <2>3 DEF EventRow
  <2>5. entry' = [entry EXCEPT ![r.id] = Entry(r.state)]
    BY <2>3, <2>4, EntryStep
  <2>6. /\ delivered' = delivered
        /\ shared' = shared
    BY <1>4 DEF Record, delivered
  <2>7. /\ r.state = "ACCEPTED" => Entry(r.state) = "accepted" /\ r.id \in delivered
        /\ r.state = "REJECTED" => Entry(r.state) = "rejected"
    BY <2>2 DEF Entry, delivered
  <2>8. CASE r.id \notin shared
    <3>1. entry[r.id] = "open"
      BY <2>2, <2>3, <2>8 DEF entry, Entry
    <3>2. L!Settle(r.id)
      BY <2>3, <2>5, <2>6, <2>7, <3>1 DEF L!Settle
    <3> QED
      BY <2>3, <3>2 DEF LedgerStep, L!Next, Entries
  <2>9. CASE r.id \in shared
    <3>1. entry[r.id] # "none"
      BY <2>2, <2>3 DEF entry, Entry, EventRow
    <3>2. Again(r.id)
      BY <2>3, <2>5, <2>6, <2>7, <3>1 DEF Again
    <3> QED
      BY <2>6, <2>9, <3>2 DEF LedgerStep
  <2> QED
    BY <2>8, <2>9
<1>5. ASSUME NEW g \in Generators, Generate(g), ~CreateEvent(g)
      PROVE  UNCHANGED <<event, metaHas>>
  BY <1>5 DEF Generate, ReadAccounts, ReadLeads, ReadDeals, FindEvent, CreateFails, EndGenerate
<1>6. ASSUME NEW p \in Pushers, Push(p), ~Send(p), ~Record(p)
      PROVE  UNCHANGED <<event, metaHas>>
  BY <1>6 DEF Push, PushStart, SkipOrphan, EndPush
<1>7. ASSUME World \/ Crash \/ UNCHANGED vars PROVE UNCHANGED <<event, metaHas>>
  BY <1>7 DEF World, SetFeedback, RemoveAccount, Attribute, SetOutcome, Crash, vars
<1> QED
  BY <1>1, <1>2, <1>3, <1>4, <1>5, <1>6, <1>7 DEF Next, LedgerStep

\* Every behaviour of generate and push, with any number of both at once, lost answers
\* and crashes, is one of a ledger, save for the events that two pushes had in hand
\* at once, and those are only ever sent and settled again.
THEOREM ConversionsLedger == Spec => LedgerFollowed
<1>1. Init => LedgerInv
  BY InitTypeOK DEF Init, LedgerInv, AcceptedInv, AnswersTrue, AcceptedIsTrue, InHandOpen,
                     PushesExist, Holds
<1>2. LedgerInv /\ [Next]_vars => LedgerInv'
  BY NextAccepted, NextPushesExist, NextInHandOpen DEF LedgerInv, AcceptedInv
<1>3. Spec => []LedgerInv
  BY <1>1, <1>2, PTL DEF Spec
<1> QED
  BY <1>3, InitLedger, NextLedger, PTL DEF Spec, LedgerFollowed, LedgerStep

\* With at most one pusher no event is ever shared: the table is a ledger outright.
THEOREM ConversionsOnePusher ==
  ASSUME \A p, q \in Pushers : p = q
  PROVE  Spec => L!Spec
<1> DEFINE Alone == /\ TypeOK
                    /\ shared = {}
                    /\ \A p \in Pushers : ppc[p] = "idle" => batch[p] = {} /\ answer[p] = {}
                    /\ \A p \in Pushers : ppc[p] = "send" => answer[p] = {}
<1>1. Init => Alone
  BY InitTypeOK DEF Init
<1>2. Alone /\ [Next]_vars => Alone'
  <2> SUFFICES ASSUME Alone, [Next]_vars PROVE Alone'
    OBVIOUS
  <2> USE DEF TypeOK
  <2>0. TypeOK'
    BY NextTypeOK
  <2>1. ASSUME NEW p \in Pushers, Push(p) PROVE Alone'
    <3>0. \A q \in Pushers : q = p
      OBVIOUS
    <3>1. CASE PushStart(p)
      <4>1. InHand = {}
        BY <3>0, <3>1 DEF PushStart, InHand
      <4>2. shared' = {} /\ ppc'[p] = "send" /\ answer'[p] = {}
        BY <3>1, <4>1 DEF PushStart
      <4> QED
        BY <2>0, <3>0, <4>2
    <3>2. CASE SkipOrphan(p) \/ EndPush(p)
      BY <2>0, <3>0, <3>2 DEF SkipOrphan, EndPush
    <3>3. CASE Send(p)
      BY <2>0, <3>0, <3>3 DEF Send
    <3>4. CASE Record(p)
      BY <2>0, <3>0, <3>4 DEF Record
    <3> QED
      BY <2>1, <3>1, <3>2, <3>3, <3>4 DEF Push
  <2>2. CASE Crash
    BY <2>0, <2>2 DEF Crash
  <2>3. ASSUME NEW g \in Generators, Generate(g) PROVE UNCHANGED <<ppc, batch, answer, shared>>
    BY <2>3 DEF Generate, ReadAccounts, ReadLeads, ReadDeals, FindEvent, CreateEvent,
                CreateFails, EndGenerate, pushVars
  <2>4. ASSUME World \/ UNCHANGED vars PROVE UNCHANGED <<ppc, batch, answer, shared>>
    BY <2>4 DEF World, SetFeedback, RemoveAccount, Attribute, SetOutcome, vars, pushVars
  <2> QED
    BY <2>0, <2>1, <2>2, <2>3, <2>4 DEF Next
<1>3. Alone => shared = {}
  OBVIOUS
<1> HIDE DEF Alone
<1>4. (shared = {})' /\ [LedgerStep]_<<entry, delivered>> => [L!Next]_<<entry, delivered>>
  BY DEF LedgerStep
<1> QED
  BY <1>1, <1>2, <1>3, <1>4, ConversionsLedger, PTL DEF Spec, LedgerFollowed, LedgerStep, L!Spec
=============================================================================
