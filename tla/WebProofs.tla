----------------------------- MODULE WebProofs -----------------------------
(***************************************************************************)
(* Proofs about the web application, for any users, connections, reports,  *)
(* stages and leads: types, and for each page what it shows or writes back *)
(* whatever is asked for meanwhile and answered late.                      *)
(***************************************************************************)
EXTENDS WebPages, Session, FiniteSetTheorems, TLAPS

-----------------------------------------------------------------------------
(* An entry of the query cache.                                            *)

LEMMA EntryFields ==
  ASSUME NEW D, NEW B, NEW e \in Entries(D, B)
  PROVE  /\ e.data \in D \cup {NONE} /\ e.age \in 0..STALE /\ e.invalid \in BOOLEAN
         /\ e.fetch \in {"idle", "sent", "answered"}
         /\ e.by \in B \cup {NONE} /\ e.answer \in D \cup {NONE}
BY DEF Entries, Answers

LEMMA EmptyEntry ==
  ASSUME NEW D, NEW B
  PROVE  Empty \in Entries(D, B) /\ Empty.data = NONE /\ Empty.fetch = "idle"
<1>1. 0 \in 0..STALE
  BY QueryCacheAssumption
<1>. QED  BY <1>1 DEF Empty, Entries, Answers

LEMMA FetchEntry ==
  ASSUME NEW D, NEW B, NEW e \in Entries(D, B), NEW b \in B
  PROVE  /\ Fetch(e, b) \in Entries(D, B) /\ Fetch(e, b).data = e.data
         /\ Fetch(e, b).invalid = e.invalid /\ Fetch(e, b).age = e.age
         /\ Fetch(e, b).answer = e.answer
         /\ e.fetch = "idle" => Fetch(e, b).fetch = "sent" /\ Fetch(e, b).by = b
         /\ e.fetch # "idle" => Fetch(e, b) = e
BY DEF Fetch, Entries, Answers

LEMMA ServeEntry ==
  ASSUME NEW D, NEW B, NEW e \in Entries(D, B), NEW d \in D
  PROVE  /\ Serve(e, d) \in Entries(D, B) /\ Serve(e, d).fetch = "answered"
         /\ Serve(e, d).answer = d /\ Serve(e, d).data = e.data /\ Serve(e, d).by = e.by
BY DEF Serve, Entries, Answers

LEMMA IdleEntry ==
  ASSUME NEW D, NEW B, NEW e \in Entries(D, B)
  PROVE  /\ Idle(e) \in Entries(D, B) /\ Idle(e).fetch = "idle" /\ Idle(e).data = e.data
         /\ Idle(e).age = e.age /\ Idle(e).invalid = e.invalid
BY DEF Idle, Entries, Answers

LEMMA SettleEntry ==
  ASSUME NEW D, NEW B, NEW e \in Entries(D, B)
  PROVE  /\ Settle(e) \in Entries(D, B) /\ Settle(e).fetch = "idle" /\ Settle(e).data = e.answer
<1>1. 0 \in 0..STALE
  BY QueryCacheAssumption
<1>. QED  BY <1>1 DEF Settle, Idle, Entries, Answers

LEMMA OlderEntry ==
  ASSUME NEW D, NEW B, NEW e \in Entries(D, B)
  PROVE  /\ Older(e) \in Entries(D, B) /\ Older(e).fetch = e.fetch /\ Older(e).data = e.data
         /\ Older(e).by = e.by /\ Older(e).answer = e.answer
<1>1. (IF e.data # NONE /\ e.age < STALE THEN e.age + 1 ELSE e.age) \in 0..STALE
  BY QueryCacheAssumption, EntryFields
<1>. QED  BY <1>1 DEF Older, Entries, Answers

LEMMA ObserveEntry ==
  ASSUME NEW D, NEW B, NEW e \in Entries(D, B), NEW b \in B
  PROVE  /\ Observe(e, b) \in Entries(D, B) /\ Observe(e, b).data = e.data
         /\ Observe(e, b) = IF IsStale(e) THEN Fetch(e, b) ELSE e
         /\ Observe(e, b).answer = e.answer
BY FetchEntry DEF Observe

\* The key of a component that is mounted is invalidated.
Refetched(e, b) == Invalidate(e, TRUE, b)

LEMMA InvalidEntry ==
  ASSUME NEW D, NEW B, NEW e \in Entries(D, B), NEW b \in B
  PROVE  /\ Refetched(e, b) \in Entries(D, B) /\ Refetched(e, b).data = e.data
         /\ e.data # NONE => Refetched(e, b).fetch = "sent"
         /\ e.data = NONE =>
              /\ Refetched(e, b).answer = e.answer
              /\ Refetched(e, b).fetch = IF e.fetch = "idle" THEN "sent" ELSE e.fetch
<1>. DEFINE m == [e EXCEPT !.invalid = TRUE]
<1>1. /\ m \in Entries(D, B) /\ m.data = e.data /\ m.fetch = e.fetch /\ m.answer = e.answer
  BY DEF Entries, Answers
<1>2. Refetched(e, b) = Fetch(IF e.data = NONE THEN m ELSE Idle(m), b)
  BY DEF Refetched, Invalidate
<1>. HIDE DEF m
<1>3. CASE e.data = NONE
  <2>1. /\ Fetch(m, b) \in Entries(D, B) /\ Fetch(m, b).data = m.data /\ Fetch(m, b).answer = m.answer
        /\ Fetch(m, b).fetch = IF m.fetch = "idle" THEN "sent" ELSE m.fetch
    BY <1>1, FetchEntry
  <2>. QED  BY <1>1, <1>2, <1>3, <2>1
<1>4. CASE e.data # NONE
  <2>. DEFINE i == Idle(m)
  <2>1. i \in Entries(D, B) /\ i.data = m.data /\ i.fetch = "idle"
    BY <1>1, IdleEntry
  <2>. HIDE DEF i
  <2>2. /\ Fetch(i, b) \in Entries(D, B) /\ Fetch(i, b).data = i.data /\ Fetch(i, b).fetch = "sent"
    BY <2>1, FetchEntry
  <2>3. Refetched(e, b) = Fetch(i, b)
    BY <1>2, <1>4 DEF i
  <2>. QED  BY <1>1, <1>4, <2>1, <2>2, <2>3
<1>. QED  BY <1>3, <1>4

-----------------------------------------------------------------------------
(* The review page.                                                        *)

Counts == 0..Cardinality(Leads)
Rest == Cardinality(Leads \ mine)

\* The parts of the type invariant, and that of the mutation.
QueriesOK == rate \in Entries(Counts, {"page"}) /\ queue \in Entries(SUBSET Leads, {"page"})
ChoicesOK ==
  /\ lead \in [Leads -> {"new", "review"} \cup Ads] /\ snapshot \in [Runners -> SUBSET Leads]
  /\ picks \in [Leads -> Ads \cup {NONE}]
  /\ resolve \in [phase : {"none", "sent", "done"}, lead : Leads \cup {NONE}, ad : Ads \cup {NONE}]
  /\ resolve.phase # "none" => resolve.lead \in Leads /\ resolve.ad \in Ads
  /\ mine \subseteq Leads /\ lost \in BOOLEAN

\* A lead this page attributed is out of review until a run puts it back.
Attributed == \A l \in mine : lead[l] # "review"

\* The page has a queue before it can attribute one; as long as nothing is lost, what
\* it has and is told of is newer than what it attributed, or it asks again.
QueueFollows ==
  /\ resolve.phase # "none" => queue.data # NONE
  /\ queue.fetch = "answered" => queue.answer # NONE
  /\ ~lost => /\ queue.fetch = "answered" => queue.answer \cap mine = {}
              /\ queue.fetch = "idle" => Queued \cap mine = {}
RateFollows ==
  ~lost => /\ rate.fetch = "answered" => rate.answer \in Counts /\ rate.answer <= Rest
           /\ rate.fetch = "idle" => rate.data \in Counts /\ rate.data <= Rest

ReviewInv == QueriesOK /\ ChoicesOK /\ Attributed /\ QueueFollows /\ RateFollows

LEMMA ReviewStarts == ASSUME ReviewInit PROVE ReviewInv
<1>0. rate = Fetch(Empty, "page") /\ queue = Fetch(Empty, "page")
  BY DEF ReviewInit
<1>1. rate \in Entries(Counts, {"page"}) /\ rate.fetch = "sent"
  BY <1>0, EmptyEntry, FetchEntry
<1>2. queue \in Entries(SUBSET Leads, {"page"}) /\ queue.fetch = "sent"
  BY <1>0, EmptyEntry, FetchEntry
<1>. QED
  BY <1>1, <1>2
  DEF ReviewInit, ReviewInv, QueriesOK, ChoicesOK, Attributed, QueueFollows, RateFollows, NoResolve

\* Leads in review are none of those attributed, and no more than the others.
LEMMA InReviewCount ==
  ASSUME ChoicesOK, Attributed
  PROVE  /\ InReview \in SUBSET Leads /\ InReview \cap mine = {}
         /\ Cardinality(InReview) \in Counts
         /\ Cardinality(InReview) <= Rest
<1>1. InReview \subseteq Leads \ mine /\ InReview \subseteq Leads
  BY DEF InReview, Attributed
<1>2. IsFiniteSet(Leads \ mine) /\ IsFiniteSet(Leads)
  BY ReviewAssumption, FS_Subset
<1>3. /\ Cardinality(InReview) <= Cardinality(Leads \ mine)
      /\ Cardinality(InReview) <= Cardinality(Leads)
      /\ IsFiniteSet(InReview)
  BY <1>1, <1>2, FS_Subset
<1>4. Cardinality(InReview) \in Nat /\ Cardinality(Leads) \in Nat
  BY <1>2, <1>3, FS_CardinalityType
<1>. QED  BY <1>1, <1>3, <1>4 DEF Counts, Rest

\* What is left alone keeps its part.
LEMMA ChoicesKept ==
  ASSUME ChoicesOK, Attributed, UNCHANGED apiVars, picks' = picks, resolve' = resolve,
         mine' = mine, lost' \in BOOLEAN
  PROVE  ChoicesOK' /\ Attributed'
BY DEF ChoicesOK, Attributed, apiVars

\* When fewer leads are attributed, more are left.
LEMMA RestGrows ==
  ASSUME mine' \subseteq mine
  PROVE  Rest \in Nat /\ Rest' \in Nat /\ Rest <= Rest'
<1>1. Leads \ mine \subseteq Leads \ mine' /\ IsFiniteSet(Leads \ mine) /\ IsFiniteSet(Leads \ mine')
  BY ReviewAssumption, FS_Subset
<1>. QED  BY <1>1, FS_Subset, FS_CardinalityType DEF Rest

LEMMA RateKept ==
  ASSUME RateFollows, rate' = rate, mine' \subseteq mine, ~lost' => ~lost
  PROVE  RateFollows'
<1>1. Rest \in Nat /\ Rest' \in Nat /\ Rest <= Rest'
  BY RestGrows
<1>2. Counts \subseteq Nat
  BY DEF Counts
<1>. QED  BY <1>1, <1>2 DEF RateFollows, Counts

LEMMA QueueKept ==
  ASSUME QueueFollows, queue' = queue, mine' \subseteq mine, ~lost' => ~lost,
         resolve'.phase # "none" => resolve.phase # "none" \/ queue.data # NONE
  PROVE  QueueFollows'
BY DEF QueueFollows, Queued

LEMMA EntriesKept ==
  ASSUME QueriesOK, rate' = rate, queue' = queue
  PROVE  QueriesOK'
BY DEF QueriesOK

LEMMA ReviewStep == ASSUME ReviewInv, [ReviewNext]_reviewVars PROVE ReviewInv'
<1>0. QueriesOK /\ ChoicesOK /\ Attributed /\ QueueFollows /\ RateFollows
  BY DEF ReviewInv
<1>1. lost \in BOOLEAN
  BY <1>0 DEF ChoicesOK
\* A step that leaves the queries and what is lost alone, and adds nothing to what is
\* attributed.
<1>2. ASSUME rate' = rate, queue' = queue, mine' \subseteq mine, lost' = lost, ChoicesOK', Attributed',
             resolve'.phase # "none" => resolve.phase # "none" \/ queue.data # NONE
      PROVE  ReviewInv'
  <2>1. RateFollows'
    BY <1>0, <1>2, RateKept
  <2>2. QueueFollows'
    BY <1>0, <1>2, QueueKept
  <2>3. QueriesOK'
    BY <1>0, <1>2, EntriesKept
  <2>. QED  BY <1>2, <2>1, <2>2, <2>3 DEF ReviewInv
<1>3. CASE RateServed
  <2>1. /\ rate' \in Entries(Counts, {"page"}) /\ rate'.fetch = "answered"
        /\ rate'.answer = Cardinality(InReview)
    BY <1>0, <1>3, InReviewCount, ServeEntry DEF QueriesOK, RateServed
  <2>2. /\ UNCHANGED apiVars /\ queue' = queue /\ picks' = picks /\ resolve' = resolve
        /\ mine' = mine /\ lost' = lost
    BY <1>3 DEF RateServed
  <2>3. RateFollows'
    BY <1>0, <2>1, <2>2, InReviewCount DEF RateFollows, Rest
  <2>4. ChoicesOK' /\ Attributed'
    BY <1>0, <1>1, <2>2, ChoicesKept
  <2>5. QueueFollows'
    BY <1>0, <2>2, QueueKept
  <2>6. QueriesOK'
    BY <1>0, <2>1, <2>2 DEF QueriesOK
  <2>. QED  BY <2>3, <2>4, <2>5, <2>6 DEF ReviewInv
<1>4. CASE QueueServed
  <2>1. /\ queue' \in Entries(SUBSET Leads, {"page"}) /\ queue'.fetch = "answered"
        /\ queue'.answer = InReview /\ queue'.data = queue.data
    BY <1>0, <1>4, InReviewCount, ServeEntry DEF QueriesOK, QueueServed
  <2>2. /\ UNCHANGED apiVars /\ rate' = rate /\ picks' = picks /\ resolve' = resolve
        /\ mine' = mine /\ lost' = lost
    BY <1>4 DEF QueueServed
  <2>3. InReview # NONE /\ InReview \cap mine = {}
    BY <1>0, InReviewCount, ReviewAssumption
  <2>4. QueueFollows'
    BY <1>0, <2>1, <2>2, <2>3 DEF QueueFollows
  <2>5. ChoicesOK' /\ Attributed'
    BY <1>0, <1>1, <2>2, ChoicesKept
  <2>6. RateFollows'
    BY <1>0, <2>2, RateKept
  <2>7. QueriesOK'
    BY <1>0, <2>1, <2>2 DEF QueriesOK
  <2>. QED  BY <2>4, <2>5, <2>6, <2>7 DEF ReviewInv
<1>5. CASE RateSettles
  <2>1. /\ rate' \in Entries(Counts, {"page"}) /\ lost' \in BOOLEAN /\ (~lost' => ~lost)
        /\ ~lost' => rate.fetch = "answered" /\ rate'.fetch = "idle" /\ rate'.data = rate.answer
    <3>1. rate \in Entries(Counts, {"page"})
      BY <1>0 DEF QueriesOK
    <3>2. CASE rate.fetch = "answered" /\ rate' = Settle(rate) /\ UNCHANGED lost
      BY <1>1, <3>1, <3>2, SettleEntry
    <3>3. CASE rate.fetch # "idle" /\ rate' = Idle(rate) /\ lost' = TRUE
      BY <3>1, <3>3, IdleEntry
    <3>. QED  BY <1>5, <3>2, <3>3 DEF RateSettles
  <2>2. /\ UNCHANGED apiVars /\ queue' = queue /\ picks' = picks /\ resolve' = resolve /\ mine' = mine
    BY <1>5 DEF RateSettles
  <2>3. RateFollows'
    BY <1>0, <2>1, <2>2 DEF RateFollows, Rest
  <2>4. ChoicesOK' /\ Attributed'
    BY <1>0, <2>1, <2>2, ChoicesKept
  <2>5. QueueFollows'
    BY <1>0, <2>1, <2>2, QueueKept
  <2>6. QueriesOK'
    BY <1>0, <2>1, <2>2 DEF QueriesOK
  <2>. QED  BY <2>3, <2>4, <2>5, <2>6 DEF ReviewInv
<1>6. CASE QueueSettles
  <2>1. /\ queue' \in Entries(SUBSET Leads, {"page"}) /\ queue'.fetch = "idle"
        /\ queue'.data = queue.data \/ (queue.fetch = "answered" /\ queue'.data = queue.answer)
        /\ lost' \in BOOLEAN /\ (~lost' => ~lost)
        /\ ~lost' => queue.fetch = "answered" /\ queue'.data = queue.answer
    <3>1. queue \in Entries(SUBSET Leads, {"page"})
      BY <1>0 DEF QueriesOK
    <3>2. CASE queue.fetch = "answered" /\ queue' = Settle(queue) /\ UNCHANGED lost
      BY <1>1, <3>1, <3>2, SettleEntry
    <3>3. CASE queue.fetch # "idle" /\ queue' = Idle(queue) /\ lost' = TRUE
      BY <3>1, <3>3, IdleEntry
    <3>. QED  BY <1>6, <3>2, <3>3 DEF QueueSettles
  <2>2. /\ UNCHANGED apiVars /\ rate' = rate /\ picks' = picks /\ resolve' = resolve /\ mine' = mine
    BY <1>6 DEF QueueSettles
  <2>3. QueueFollows'
    BY <1>0, <2>1, <2>2 DEF QueueFollows, Queued
  <2>4. ChoicesOK' /\ Attributed'
    BY <1>0, <2>1, <2>2, ChoicesKept
  <2>5. RateFollows'
    BY <1>0, <2>1, <2>2, RateKept
  <2>6. QueriesOK'
    BY <1>0, <2>1, <2>2 DEF QueriesOK
  <2>. QED  BY <2>3, <2>4, <2>5, <2>6 DEF ReviewInv
<1>7. ASSUME NEW l \in Leads, NEW a \in Ads, PickAd(l, a) PROVE ReviewInv'
  <2>1. ChoicesOK' /\ Attributed'
    BY <1>0, <1>7 DEF PickAd, ChoicesOK, Attributed, apiVars
  <2>2. rate' = rate /\ queue' = queue /\ mine' = mine /\ lost' = lost /\ resolve' = resolve
    BY <1>7 DEF PickAd
  <2>. QED  BY <1>2, <2>1, <2>2
<1>8. ASSUME NEW l \in Leads, Resolve(l) PROVE ReviewInv'
  <2>1. queue.data # NONE
    BY <1>8 DEF Resolve, Queued
  <2>2. ChoicesOK' /\ Attributed'
    BY <1>0, <1>8 DEF Resolve, ChoicesOK, Attributed, apiVars
  <2>3. rate' = rate /\ queue' = queue /\ mine' = mine /\ lost' = lost
    BY <1>8 DEF Resolve
  <2>. QED  BY <1>2, <2>1, <2>2, <2>3
<1>9. ASSUME NEW l \in Leads, OthersReview(l) PROVE ReviewInv'
  <2>1. ChoicesOK' /\ Attributed'
    BY <1>0, <1>9, ReviewAssumption DEF OthersReview, ChoicesOK, Attributed
  <2>2. rate' = rate /\ queue' = queue /\ mine' = mine /\ lost' = lost /\ resolve' = resolve
    BY <1>9 DEF OthersReview
  <2>. QED  BY <1>2, <2>1, <2>2
<1>10. ASSUME NEW r \in Runners, EngineReads(r) PROVE ReviewInv'
  <2>1. ChoicesOK' /\ Attributed'
    BY <1>0, <1>10 DEF EngineReads, ChoicesOK, Attributed
  <2>2. rate' = rate /\ queue' = queue /\ mine' = mine /\ lost' = lost /\ resolve' = resolve
    BY <1>10 DEF EngineReads
  <2>. QED  BY <1>2, <2>1, <2>2
<1>11. ASSUME NEW r \in Runners, NEW l \in Leads, EngineDecides(r, l) PROVE ReviewInv'
  <2>1. PICK d \in {"new", "review"} \cup Ads : lead' = [lead EXCEPT ![l] = d]
    BY <1>11 DEF EngineDecides
  <2>2. /\ rate' = rate /\ queue' = queue /\ lost' = lost /\ resolve' = resolve /\ picks' = picks
        /\ snapshot' = [snapshot EXCEPT ![r] = @ \ {l}]
        /\ mine' = IF lead'[l] = "review" THEN mine \ {l} ELSE mine
    BY <1>11 DEF EngineDecides
  <2>3. mine' \subseteq mine /\ mine \subseteq Leads
    BY <1>0, <2>2 DEF ChoicesOK
  <2>4. lead' \in [Leads -> {"new", "review"} \cup Ads] /\ snapshot' \in [Runners -> SUBSET Leads]
    BY <1>0, <2>1, <2>2 DEF ChoicesOK
  <2>5. ChoicesOK'
    BY <1>0, <2>2, <2>3, <2>4 DEF ChoicesOK
  <2>6. Attributed'
    BY <1>0, <2>1, <2>2, <2>3 DEF ChoicesOK, Attributed
  <2>. QED  BY <1>2, <2>2, <2>3, <2>5, <2>6
<1>12. CASE ResolveWorks
  <2>1. /\ resolve.phase = "sent" /\ resolve.lead \in Leads /\ resolve.ad \in Ads
        /\ lead' = [lead EXCEPT ![resolve.lead] = resolve.ad]
        /\ resolve'.lead = resolve.lead /\ resolve'.ad = resolve.ad /\ resolve'.phase = "done"
    BY <1>0, <1>12 DEF ResolveWorks, ChoicesOK
  <2>2. resolve' \in [phase : {"none", "sent", "done"}, lead : Leads \cup {NONE}, ad : Ads \cup {NONE}]
    BY <1>0, <1>12 DEF ResolveWorks, ChoicesOK
  <2>3. ChoicesOK' /\ Attributed'
    BY <1>0, <1>12, <2>1, <2>2, ReviewAssumption DEF ResolveWorks, ChoicesOK, Attributed
  <2>4. rate' = rate /\ queue' = queue /\ mine' = mine /\ lost' = lost
    BY <1>12 DEF ResolveWorks
  <2>. QED  BY <1>2, <2>1, <2>3, <2>4
<1>13. CASE ResolveAnswered
  <2>1. resolve.phase # "none" /\ resolve' = NoResolve /\ UNCHANGED apiVars /\ picks' = picks
    BY <1>13 DEF ResolveAnswered
  <2>2. /\ resolve'.phase = "none"
        /\ resolve' \in [phase : {"none", "sent", "done"}, lead : Leads \cup {NONE}, ad : Ads \cup {NONE}]
    BY <2>1 DEF NoResolve
  <2>3. CASE rate' = rate /\ queue' = queue /\ mine' = mine /\ lost' = lost
    <3>1. ChoicesOK' /\ Attributed'
      BY <1>0, <2>1, <2>2, <2>3 DEF ChoicesOK, Attributed, apiVars
    <3>. QED  BY <1>2, <2>2, <2>3, <3>1
  <2>4. CASE /\ resolve.phase = "done" /\ RefreshBoth
             /\ mine' = mine \cup ({resolve.lead} \ InReview)
             /\ lost' = (lost \/ (rate.data = NONE /\ rate.fetch = "answered"))
    <3>1. queue' \in Entries(SUBSET Leads, {"page"}) /\ queue'.fetch = "sent"
      <4>1. queue' = Refetched(queue, "page") /\ queue \in Entries(SUBSET Leads, {"page"})
        BY <1>0, <2>4 DEF QueriesOK, RefreshBoth, Refetched
      <4>2. queue.data # NONE
        BY <1>0, <2>1 DEF QueueFollows
      <4>. QED  BY <4>1, <4>2, InvalidEntry
    <3>2. rate.fetch \in {"idle", "sent", "answered"}
      BY <1>0, EntryFields DEF QueriesOK
    <3>3. rate' = Refetched(rate, "page") /\ rate \in Entries(Counts, {"page"})
      BY <1>0, <2>4 DEF QueriesOK, RefreshBoth, Refetched
    <3>4. /\ rate' \in Entries(Counts, {"page"})
          /\ rate.data # NONE => rate'.fetch = "sent"
          /\ rate.data = NONE => rate'.fetch = IF rate.fetch = "idle" THEN "sent" ELSE rate.fetch
      BY <3>3, InvalidEntry
    <3>5. lost' \in BOOLEAN /\ (~lost' => ~(rate.data = NONE /\ rate.fetch = "answered"))
      BY <1>1, <2>4
    <3>6. ~lost' => rate'.fetch = "sent"
      BY <3>2, <3>4, <3>5
    <3>7. ChoicesOK' /\ Attributed'
      BY <1>0, <2>1, <2>2, <2>4, <3>5 DEF ChoicesOK, Attributed, apiVars, InReview
    <3>8. QueueFollows'
      BY <2>2, <3>1 DEF QueueFollows
    <3>9. RateFollows'
      BY <3>6 DEF RateFollows
    <3>10. QueriesOK'
      BY <3>1, <3>4 DEF QueriesOK
    <3>. QED  BY <3>7, <3>8, <3>9, <3>10 DEF ReviewInv
  <2>. QED  BY <1>13, <2>3, <2>4 DEF ResolveAnswered
<1>14. CASE UNCHANGED reviewVars
  <2>1. /\ UNCHANGED apiVars /\ picks' = picks /\ resolve' = resolve /\ mine' = mine /\ lost' = lost
        /\ rate' = rate /\ queue' = queue
    BY <1>14 DEF reviewVars, apiVars
  <2>2. ChoicesOK' /\ Attributed'
    BY <1>0, <1>1, <2>1, ChoicesKept
  <2>. QED  BY <1>2, <2>1, <2>2
<1>. QED
  BY <1>3, <1>4, <1>5, <1>6, <1>7, <1>8, <1>9, <1>10, <1>11, <1>12, <1>13, <1>14 DEF ReviewNext

LEMMA ReviewHolds == ASSUME ReviewInv PROVE ReviewTypeOK /\ AttributedLeavesReview
BY DEF ReviewInv, QueriesOK, ChoicesOK, ReviewTypeOK, Counts, QueueFollows, RateFollows, Rest,
       AttributedLeavesReview


-----------------------------------------------------------------------------
(* The connections page.                                                   *)

\* The parts of the type invariant: an answer is one, and before the first list has
\* come there is nothing on the page but what adds a connection.
ListOK ==
  /\ list \in Entries(Snapshots, {"page"}) /\ timer \in BOOLEAN /\ grace \in 0..GRACE
  /\ list.fetch = "answered" => list.answer # NONE
TableOK ==
  /\ key \in {"ad-accounts", "crm"} /\ row \in [Rows -> RowStates]
  /\ optIn \subseteq Rows /\ jobs \subseteq Rows
ScreenOK ==
  /\ selected \in Platforms \cup {NONE} /\ dialog \in Platforms \cup {"META", "pick", "closed"}
  /\ picker \in [open : BOOLEAN, found : SUBSET Rows, ticked : SUBSET Rows, shown : SUBSET Rows]
  /\ picker.ticked \cup picker.shown \subseteq picker.found /\ (picker.found # {} => picker.open)
CallOK ==
  /\ call \in [op : {"none", "sync", "on", "off", "remove"} \cup Adds,
               rows : SUBSET Rows, phase : {"sent", "done", "failed"}]
  /\ unread \in {"no", "yes", "answered"} /\ failed \in BOOLEAN
  /\ list.data = NONE => call.op \in Adds \cup {"none"}
  /\ call.op = "none" => call.phase = "failed"

\* An answer that is on its way and is too old is followed by a poll.
OldAnswerPolls ==
  unread = "yes" /\ ~failed /\ list.fetch = "answered" => call.phase = "done" \/ grace > 0

ConnectionsInv ==
  ListOK /\ TableOK /\ ScreenOK /\ CallOK /\ OwnWritesReadBack /\ OldAnswerPolls

LEMMA ConnectionsStart == ASSUME ConnectionsInit PROVE ConnectionsInv
<1>1. list \in Entries(Snapshots, {"page"}) /\ list.fetch = "sent"
  BY EmptyEntry, FetchEntry DEF ConnectionsInit
<1>2. ListOK
  <2>1. 0 \in 0..GRACE
    BY ConnectionsAssumption
  <2>2. timer = FALSE /\ grace = 0
    BY DEF ConnectionsInit
  <2>. QED  BY <1>1, <2>1, <2>2 DEF ListOK
<1>3. TableOK /\ CallOK
  BY DEF ConnectionsInit, TableOK, CallOK, RowStates, NoCall
<1>4. ScreenOK
  BY DEF ConnectionsInit, ScreenOK, Closed, Platforms
<1>. QED
  BY <1>1, <1>2, <1>3, <1>4
  DEF ConnectionsInit, ConnectionsInv, OwnWritesReadBack, OldAnswerPolls

LEMMA SnapshotIsOne ==
  ASSUME TableOK
  PROVE  [state |-> row, on |-> optIn] \in Snapshots /\ [state |-> row, on |-> optIn] # NONE
<1>1. [state |-> row, on |-> optIn] \in Snapshots
  BY DEF TableOK, Snapshots
<1>. QED  BY <1>1, SnapshotsAssumption

\* The query changes: an open window polls.
LEMMA Updated ==
  ASSUME NEW e \in Entries(Snapshots, {"page"}), NEW left \in 0..GRACE, Update(e, left),
         e.fetch = "answered" => e.answer # NONE
  PROVE  ListOK' /\ list' = e /\ grace' = left /\ (left > 0 => timer')
<1>1. list' = e /\ grace' = left /\ timer' = PollInterval(e, left)
  BY DEF Update
<1>2. PollInterval(e, left) \in BOOLEAN
  BY DEF PollInterval
<1>3. left > 0 => PollInterval(e, left)
  BY DEF PollInterval
<1>4. ListOK'
  BY <1>1, <1>2 DEF ListOK
<1>. QED  BY <1>1, <1>3, <1>4

\* What a step leaves alone keeps its part.
LEMMA TableKept ==
  ASSUME TableOK, key' = key, row' = row, optIn' = optIn, jobs' = jobs
  PROVE  TableOK'
BY DEF TableOK

LEMMA ScreenKept ==
  ASSUME ScreenOK, key' = key, selected' = selected, dialog' = dialog, picker' = picker
  PROVE  ScreenOK'
BY DEF ScreenOK, Platforms

LEMMA ListKept ==
  ASSUME ListOK, list' = list, timer' = timer, grace' = grace
  PROVE  ListOK'
BY DEF ListOK

LEMMA NotesKept ==
  ASSUME OwnWritesReadBack, OldAnswerPolls, list' = list, timer' = timer, grace' = grace,
         unread' = unread, failed' = failed, call.phase = "done" => call'.phase = "done"
  PROVE  OwnWritesReadBack' /\ OldAnswerPolls'
BY DEF OwnWritesReadBack, OldAnswerPolls

LEMMA CallKept ==
  ASSUME CallOK, list'.data = NONE => list.data = NONE, call' = call,
         unread' \in {"no", "yes", "answered"}, failed' \in BOOLEAN
  PROVE  CallOK'
BY DEF CallOK

\* A step of the screen, or of who works on the table.
LEMMA PageKept ==
  ASSUME ConnectionsInv, queryVars' = queryVars, call' = call, noteVars' = noteVars,
         TableOK', ScreenOK'
  PROVE  ConnectionsInv'
<1>1. /\ list' = list /\ timer' = timer /\ grace' = grace
      /\ unread' = unread /\ failed' = failed
  BY DEF queryVars, noteVars
<1>2. ListOK'
  BY <1>1, ListKept DEF ConnectionsInv
<1>3. unread \in {"no", "yes", "answered"} /\ failed \in BOOLEAN
  BY DEF ConnectionsInv, CallOK
<1>4. CallOK'
  BY <1>1, <1>3, CallKept DEF ConnectionsInv
<1>5. OwnWritesReadBack' /\ OldAnswerPolls'
  BY <1>1, NotesKept DEF ConnectionsInv
<1>. QED  BY <1>2, <1>4, <1>5 DEF ConnectionsInv

\* A mutation starts.
LEMMA StartKept ==
  ASSUME ConnectionsInv, NEW op, NEW rows \in SUBSET Rows, Start(op, rows),
         op \in {"sync", "on", "off", "remove"} \cup Adds,
         list.data = NONE => op \in Adds,
         queryVars' = queryVars \/ Update(list, GRACE)
  PROVE  ConnectionsInv'
<1>1. ListOK /\ TableOK /\ ScreenOK /\ CallOK /\ OwnWritesReadBack /\ OldAnswerPolls
  BY DEF ConnectionsInv
<1>2. /\ call = NoCall /\ call' = [op |-> op, rows |-> rows, phase |-> "sent"]
      /\ unread' = unread /\ failed' = failed
      /\ key' = key /\ row' = row /\ optIn' = optIn /\ jobs' = jobs
      /\ selected' = selected /\ dialog' = dialog /\ picker' = picker
  BY DEF Start, dbVars, screenVars, noteVars
<1>3. TableOK' /\ ScreenOK'
  BY <1>1, <1>2, TableKept, ScreenKept
<1>4. call.phase # "done"
  BY <1>2 DEF NoCall
<1>5. CASE queryVars' = queryVars
  <2>1. list' = list /\ timer' = timer /\ grace' = grace
    BY <1>5 DEF queryVars
  <2>2. ListOK'
    BY <1>1, <2>1, ListKept
  <2>3. CallOK'
    BY <1>1, <1>2, <2>1 DEF CallOK, Adds
  <2>4. OwnWritesReadBack' /\ OldAnswerPolls'
    BY <1>1, <1>2, <1>4, <2>1, NotesKept
  <2>. QED  BY <1>3, <2>2, <2>3, <2>4 DEF ConnectionsInv
<1>6. CASE Update(list, GRACE)
  <2>1. GRACE \in 0..GRACE /\ GRACE > 0
    BY ConnectionsAssumption
  <2>2. list \in Entries(Snapshots, {"page"}) /\ (list.fetch = "answered" => list.answer # NONE)
    BY <1>1 DEF ListOK
  <2>3. ListOK' /\ list' = list /\ grace' = GRACE /\ timer'
    BY <1>6, <2>1, <2>2, Updated
  <2>4. CallOK'
    BY <1>1, <1>2, <2>3 DEF CallOK, Adds
  <2>5. OwnWritesReadBack' /\ OldAnswerPolls'
    BY <2>1, <2>3 DEF OwnWritesReadBack, OldAnswerPolls
  <2>. QED  BY <1>3, <2>3, <2>4, <2>5 DEF ConnectionsInv
<1>. QED  BY <1>5, <1>6

LEMMA ConnectionsStep == ASSUME ConnectionsInv, [ConnectionsNext]_connectionsVars PROVE ConnectionsInv'
<1>0. ListOK /\ TableOK /\ ScreenOK /\ CallOK /\ OwnWritesReadBack /\ OldAnswerPolls
  BY DEF ConnectionsInv
<1>1. /\ list \in Entries(Snapshots, {"page"}) /\ (list.fetch = "answered" => list.answer # NONE)
      /\ grace \in 0..GRACE /\ timer \in BOOLEAN
  BY <1>0 DEF ListOK
<1>2. /\ unread \in {"no", "yes", "answered"} /\ failed \in BOOLEAN
      /\ list.fetch \in {"idle", "sent", "answered"}
  BY <1>0, <1>1, EntryFields DEF CallOK
<1>3. CASE Poll
  <2>1. /\ Fetch(list, "page") \in Entries(Snapshots, {"page"})
        /\ Fetch(list, "page").data = list.data /\ Fetch(list, "page").answer = list.answer
        /\ list.fetch = "idle" => Fetch(list, "page").fetch = "sent"
        /\ list.fetch # "idle" => Fetch(list, "page") = list
    BY <1>1, FetchEntry
  <2>2. ListOK' /\ list' = Fetch(list, "page") /\ grace' = grace /\ (grace > 0 => timer')
    BY <1>1, <1>3, <2>1, Updated DEF Poll
  <2>3. /\ call' = call /\ unread' = unread /\ failed' = failed
        /\ key' = key /\ row' = row /\ optIn' = optIn /\ jobs' = jobs
        /\ selected' = selected /\ dialog' = dialog /\ picker' = picker
    BY <1>3 DEF Poll, dbVars, screenVars, noteVars
  <2>4. TableOK' /\ ScreenOK'
    BY <1>0, <2>3, TableKept, ScreenKept
  <2>5. CallOK'
    BY <1>0, <1>2, <2>1, <2>2, <2>3, CallKept
  <2>6. OwnWritesReadBack' /\ OldAnswerPolls'
    BY <1>0, <1>2, <2>1, <2>2, <2>3 DEF OwnWritesReadBack, OldAnswerPolls
  <2>. QED  BY <2>2, <2>4, <2>5, <2>6 DEF ConnectionsInv
<1>4. CASE ListServed
  <2>1. /\ list' \in Entries(Snapshots, {"page"}) /\ list'.fetch = "answered"
        /\ list'.answer # NONE /\ list'.data = list.data
    BY <1>0, <1>1, <1>4, ServeEntry, SnapshotIsOne DEF ListServed
  <2>2. /\ timer' = timer /\ grace' = grace /\ call' = call /\ failed' = failed
        /\ unread' \in {"no", "answered"}
        /\ key' = key /\ row' = row /\ optIn' = optIn /\ jobs' = jobs
        /\ selected' = selected /\ dialog' = dialog /\ picker' = picker
    BY <1>2, <1>4 DEF ListServed, dbVars, screenVars
  <2>3. TableOK' /\ ScreenOK'
    BY <1>0, <2>2, TableKept, ScreenKept
  <2>4. ListOK'
    BY <1>1, <2>1, <2>2 DEF ListOK
  <2>5. CallOK'
    BY <1>0, <1>2, <2>1, <2>2, CallKept
  <2>6. OwnWritesReadBack' /\ OldAnswerPolls'
    BY <2>2 DEF OwnWritesReadBack, OldAnswerPolls
  <2>. QED  BY <2>3, <2>4, <2>5, <2>6 DEF ConnectionsInv
<1>5. CASE ListSettles
  <2>1. /\ Settle(list) \in Entries(Snapshots, {"page"}) /\ Settle(list).fetch = "idle"
        /\ Settle(list).data = list.answer
    BY <1>1, SettleEntry
  <2>2. ListOK' /\ list' = Settle(list) /\ grace' = grace /\ (grace > 0 => timer')
    BY <1>1, <1>5, <2>1, Updated DEF ListSettles
  <2>3. /\ call' = call /\ list.fetch = "answered"
        /\ key' = key /\ row' = row /\ optIn' = optIn /\ jobs' = jobs
        /\ selected' = selected /\ dialog' = dialog /\ picker' = picker
    BY <1>5 DEF ListSettles, dbVars, screenVars
  <2>4. /\ unread' = IF unread = "answered" THEN "no" ELSE unread
        /\ failed' = (failed /\ unread = "yes")
    BY <1>5 DEF ListSettles
  <2>5. TableOK' /\ ScreenOK'
    BY <1>0, <2>3, TableKept, ScreenKept
  <2>6. CallOK'
    BY <1>0, <1>1, <1>2, <2>1, <2>2, <2>3, <2>4 DEF CallOK
  <2>7. unread' = "yes" /\ ~failed' => unread = "yes" /\ ~failed
    BY <1>2, <2>4
  <2>8. OwnWritesReadBack' /\ OldAnswerPolls'
    BY <1>0, <2>1, <2>2, <2>3, <2>7 DEF OwnWritesReadBack, OldAnswerPolls
  <2>. QED  BY <2>2, <2>5, <2>6, <2>8 DEF ConnectionsInv
<1>6. CASE ListFails
  <2>1. /\ Idle(list) \in Entries(Snapshots, {"page"}) /\ Idle(list).fetch = "idle"
        /\ Idle(list).data = list.data
    BY <1>1, IdleEntry
  <2>2. ListOK' /\ list' = Idle(list)
    BY <1>1, <1>6, <2>1, Updated DEF ListFails
  <2>3. /\ call' = call
        /\ key' = key /\ row' = row /\ optIn' = optIn /\ jobs' = jobs
        /\ selected' = selected /\ dialog' = dialog /\ picker' = picker
    BY <1>6 DEF ListFails, dbVars, screenVars
  <2>4. /\ unread' = IF unread = "answered" THEN "yes" ELSE unread
        /\ failed' = (unread # "no")
    BY <1>6 DEF ListFails
  <2>5. TableOK' /\ ScreenOK'
    BY <1>0, <2>3, TableKept, ScreenKept
  <2>6. CallOK'
    BY <1>0, <1>2, <2>1, <2>2, <2>3, <2>4 DEF CallOK
  <2>7. ~(unread' = "yes" /\ ~failed')
    BY <1>2, <2>4
  <2>8. OwnWritesReadBack' /\ OldAnswerPolls'
    BY <2>7 DEF OwnWritesReadBack, OldAnswerPolls
  <2>. QED  BY <2>2, <2>5, <2>6, <2>8 DEF ConnectionsInv
<1>7. CASE ConnectionsTick
  <2>1. /\ list' = list /\ timer' = timer /\ list.fetch = "idle"
        /\ call' = call /\ unread' = unread /\ failed' = failed
        /\ key' = key /\ row' = row /\ optIn' = optIn /\ jobs' = jobs
        /\ selected' = selected /\ dialog' = dialog /\ picker' = picker
    BY <1>7 DEF ConnectionsTick, dbVars, screenVars, noteVars
  <2>2. grace' \in 0..GRACE
    BY <1>1, <1>7, ConnectionsAssumption DEF ConnectionsTick
  <2>3. TableOK' /\ ScreenOK'
    BY <1>0, <2>1, TableKept, ScreenKept
  <2>4. ListOK'
    BY <1>1, <2>1, <2>2 DEF ListOK
  <2>5. CallOK'
    BY <1>0, <1>2, <2>1, CallKept
  <2>6. OwnWritesReadBack' /\ OldAnswerPolls'
    BY <1>0, <2>1 DEF OwnWritesReadBack, OldAnswerPolls
  <2>. QED  BY <2>3, <2>4, <2>5, <2>6 DEF ConnectionsInv
\* The screen.
<1>8. ASSUME OnScreen, ScreenOK' PROVE ConnectionsInv'
  <2>1. TableOK'
    BY <1>0, <1>8, TableKept DEF OnScreen, dbVars
  <2>. QED  BY <1>8, <2>1, PageKept DEF OnScreen
<1>9. CASE Select
  <2>1. ScreenOK'
    BY <1>0, <1>9 DEF Select, ScreenOK, OnScreen, dbVars, Platforms
  <2>. QED  BY <1>8, <1>9, <2>1 DEF Select
<1>10. ASSUME NEW p, SetPicker(p),
              p \in [open : BOOLEAN, found : SUBSET Rows, ticked : SUBSET Rows, shown : SUBSET Rows],
              p.ticked \cup p.shown \subseteq p.found, p.found # {} => p.open
       PROVE  ConnectionsInv'
  <2>1. ScreenOK'
    BY <1>0, <1>10 DEF SetPicker, ScreenOK, OnScreen, dbVars, Platforms
  <2>. QED  BY <1>8, <1>10, <2>1 DEF SetPicker
<1>11. CASE Candidates
  <2>1. PICK s \in SUBSET Rows : SetPicker([open |-> TRUE, found |-> s, ticked |-> s, shown |-> s])
    BY <1>11 DEF Candidates
  <2>. QED  BY <1>10, <2>1
<1>12. CASE Pick
  <2>0. /\ picker \in [open : BOOLEAN, found : SUBSET Rows, ticked : SUBSET Rows, shown : SUBSET Rows]
        /\ picker.ticked \cup picker.shown \subseteq picker.found /\ (picker.found # {} => picker.open)
    BY <1>0 DEF ScreenOK
  <2>1. ASSUME NEW t \in SUBSET picker.found, SetPicker([picker EXCEPT !.ticked = t])
        PROVE  ConnectionsInv'
    BY <1>10, <2>0, <2>1
  <2>2. ASSUME NEW a \in picker.shown,
               SetPicker([picker EXCEPT !.ticked = IF a \in @ THEN @ \ {a} ELSE @ \cup {a}])
        PROVE  ConnectionsInv'
    <3>1. (IF a \in picker.ticked THEN picker.ticked \ {a} ELSE picker.ticked \cup {a})
            \in SUBSET picker.found
      BY <2>0
    <3>. QED  BY <2>1, <2>2, <3>1
  <2>3. ASSUME SetPicker([picker EXCEPT !.ticked =
                 IF picker.shown \subseteq @ THEN @ \ picker.shown ELSE @ \cup picker.shown])
        PROVE  ConnectionsInv'
    <3>1. (IF picker.shown \subseteq picker.ticked THEN picker.ticked \ picker.shown
             ELSE picker.ticked \cup picker.shown) \in SUBSET picker.found
      BY <2>0
    <3>. QED  BY <2>1, <2>3, <3>1
  <2>4. ASSUME NEW s \in SUBSET picker.found, SetPicker([picker EXCEPT !.shown = s])
        PROVE  ConnectionsInv'
    BY <1>10, <2>0, <2>4
  <2>. QED  BY <1>12, <2>2, <2>3, <2>4 DEF Pick
<1>13. CASE ClosePicker
  <2>1. SetPicker(Closed)
    BY <1>13 DEF ClosePicker
  <2>2. /\ Closed \in [open : BOOLEAN, found : SUBSET Rows, ticked : SUBSET Rows, shown : SUBSET Rows]
        /\ Closed.ticked \cup Closed.shown \subseteq Closed.found /\ (Closed.found # {} => Closed.open)
    BY DEF Closed
  <2>. QED  BY <1>10, <2>1, <2>2
<1>14. ASSUME NEW d \in Platforms \cup {"META", "pick", "closed"}, SetDialog(d) PROVE ConnectionsInv'
  <2>1. ScreenOK'
    BY <1>0, <1>14 DEF SetDialog, ScreenOK, OnScreen, dbVars, Platforms
  <2>. QED  BY <1>8, <1>14, <2>1 DEF SetDialog
\* The mutations.
<1>15. CASE RowAction
  <2>1. PICK r \in Rows : list.data # NONE /\ (SyncNow(r) \/ Feedback(r) \/ RemoveRow(r))
    BY <1>15 DEF RowAction, PlatformRows
  <2>2. CASE SyncNow(r)
    BY <2>1, <2>2, StartKept DEF SyncNow
  <2>3. CASE Feedback(r)
    BY <2>1, <2>3, StartKept DEF Feedback
  <2>4. CASE RemoveRow(r)
    BY <2>1, <2>4, StartKept DEF RemoveRow
  <2>. QED  BY <2>1, <2>2, <2>3, <2>4
<1>16. CASE SubmitConnection
  <2>1. PICK r \in Rows : Start("connect", {r})
    BY <1>16 DEF SubmitConnection
  <2>2. queryVars' = queryVars
    BY <1>16 DEF SubmitConnection
  <2>. QED  BY <2>1, <2>2, StartKept DEF Adds
<1>17. CASE ImportTicked
  <2>1. picker.ticked \in SUBSET Rows
    BY <1>0 DEF ScreenOK
  <2>. QED  BY <1>17, <2>1, StartKept DEF ImportTicked, Adds
<1>18. CASE Works
  <2>. DEFINE done == IF call.op \in Adds THEN call.rows ELSE {r \in call.rows : row[r] # "gone"}
  <2>1. done \subseteq Rows
    BY <1>0 DEF CallOK
  <2>2. /\ call.phase = "sent" /\ key' = key /\ list' = list /\ timer' = timer /\ grace' = grace
        /\ selected' = selected /\ dialog' = dialog /\ picker' = picker /\ failed' = failed
    BY <1>18 DEF Works, queryVars, screenVars
  <2>3. row' \in [Rows -> RowStates]
    BY <1>0, <1>18 DEF Works, TableOK, RowStates
  <2>4. optIn' \subseteq Rows
    BY <1>0, <1>18, <2>1 DEF Works, TableOK
  <2>5. jobs' \subseteq Rows
    BY <1>0, <1>18, <2>1 DEF Works, TableOK
  <2>6. /\ unread' = IF call.op # "sync" /\ done # {} THEN "yes" ELSE unread
        /\ call' = [call EXCEPT !.phase = IF done = {} THEN "failed" ELSE "done"]
    BY <1>18 DEF Works
  <2>. HIDE DEF done
  <2>7. TableOK' /\ ScreenOK' /\ ListOK'
    BY <1>0, <2>2, <2>3, <2>4, <2>5, ScreenKept, ListKept DEF TableOK
  <2>8. CallOK'
    BY <1>0, <2>2, <2>6 DEF CallOK
  <2>9. call'.phase = IF done = {} THEN "failed" ELSE "done"
    BY <1>0, <2>6 DEF CallOK
  <2>10. OwnWritesReadBack' /\ OldAnswerPolls'
    BY <1>0, <2>2, <2>6, <2>9 DEF OwnWritesReadBack, OldAnswerPolls
  <2>. QED  BY <2>7, <2>8, <2>10 DEF ConnectionsInv
<1>19. CASE CallLost
  <2>1. /\ key' = key /\ row' = row /\ optIn' = optIn /\ jobs' = jobs
        /\ list' = list /\ timer' = timer /\ grace' = grace
        /\ selected' = selected /\ dialog' = dialog /\ picker' = picker /\ unread' = unread
        /\ call' = [call EXCEPT !.phase = "failed"] /\ failed' = (failed \/ unread # "no")
    BY <1>19 DEF CallLost, dbVars, queryVars, screenVars
  <2>2. TableOK' /\ ScreenOK' /\ ListOK'
    BY <1>0, <2>1, TableKept, ScreenKept, ListKept
  <2>3. failed' \in BOOLEAN /\ ~(unread' = "yes" /\ ~failed')
    BY <1>2, <2>1
  <2>4. CallOK'
    BY <1>0, <2>1, <2>3 DEF CallOK
  <2>5. OwnWritesReadBack' /\ OldAnswerPolls'
    BY <2>3 DEF OwnWritesReadBack, OldAnswerPolls
  <2>. QED  BY <2>2, <2>4, <2>5 DEF ConnectionsInv
<1>20. CASE Succeeded
  <2>. DEFINE left == WindowAfter(call.op)
  <2>1. list' = Invalidate(list, TRUE, "page") /\ Update(list', left)
    BY <1>20 DEF Succeeded, Update
  <2>2. /\ list' \in Entries(Snapshots, {"page"}) /\ list'.data = list.data
        /\ list.data # NONE => list'.fetch = "sent"
        /\ list.data = NONE =>
             list'.answer = list.answer /\ list'.fetch = IF list.fetch = "idle" THEN "sent" ELSE list.fetch
    <3>1. list \in Entries(Snapshots, {"page"}) /\ list' = Refetched(list, "page")
      BY <1>1, <2>1 DEF Refetched
    <3>. QED  BY <3>1, InvalidEntry
  <2>3. left \in 0..GRACE /\ (call.op \in Adds => left > 0)
    BY <1>1, ConnectionsAssumption DEF WindowAfter
  <2>. HIDE DEF left
  <2>4. list'.fetch = "answered" => list'.answer # NONE
    BY <1>1, <1>2, <2>2
  <2>5. ListOK' /\ grace' = left /\ (left > 0 => timer')
    BY <2>1, <2>2, <2>3, <2>4, Updated
  <2>6. /\ key' = key /\ row' = row /\ optIn' = optIn /\ jobs' = jobs
        /\ selected' = selected /\ failed' = failed /\ call.phase = "done" /\ call' = NoCall
        /\ unread' = IF unread = "answered" /\ list.data # NONE THEN "yes" ELSE unread
        /\ dialog' = IF call.op = "connect" THEN "closed" ELSE dialog
        /\ picker' = IF call.op = "import" THEN Closed ELSE picker
    BY <1>20 DEF Succeeded, dbVars
  <2>7. TableOK'
    BY <1>0, <2>6, TableKept
  <2>8. ScreenOK'
    BY <1>0, <2>6 DEF ScreenOK, Closed, Platforms
  <2>9. CallOK'
    BY <1>0, <1>2, <2>6 DEF CallOK, NoCall
  <2>10. list.data = NONE => left > 0
    <3>1. list.data = NONE => call.op \in Adds
      BY <1>0, <2>6 DEF CallOK
    <3>. QED  BY <2>3, <3>1
  <2>11. OwnWritesReadBack' /\ OldAnswerPolls'
    BY <1>0, <1>2, <2>2, <2>5, <2>6, <2>10 DEF OwnWritesReadBack, OldAnswerPolls
  <2>. QED  BY <2>5, <2>7, <2>8, <2>9, <2>11 DEF ConnectionsInv
<1>21. CASE Failed
  <2>1. /\ key' = key /\ row' = row /\ optIn' = optIn /\ jobs' = jobs
        /\ list' = list /\ timer' = timer /\ grace' = grace
        /\ selected' = selected /\ dialog' = dialog /\ picker' = picker
        /\ unread' = unread /\ failed' = failed /\ call.phase = "failed" /\ call' = NoCall
    BY <1>21 DEF Failed, dbVars, queryVars, screenVars, noteVars
  <2>2. TableOK' /\ ScreenOK' /\ ListOK'
    BY <1>0, <2>1, TableKept, ScreenKept, ListKept
  <2>3. CallOK'
    BY <1>0, <1>2, <2>1 DEF CallOK, NoCall
  <2>4. OwnWritesReadBack' /\ OldAnswerPolls'
    BY <1>0, <2>1, NotesKept
  <2>. QED  BY <2>2, <2>3, <2>4 DEF ConnectionsInv
\* The workers, and others.
<1>22. ASSUME PageUnchanged, row' \in [Rows -> RowStates], jobs' \subseteq Rows PROVE ConnectionsInv'
  <2>1. TableOK'
    BY <1>0, <1>22 DEF TableOK, PageUnchanged
  <2>2. ScreenOK'
    BY <1>0, <1>22, ScreenKept DEF PageUnchanged, screenVars
  <2>. QED  BY <1>22, <2>1, <2>2, PageKept DEF PageUnchanged
<1>23. ASSUME NEW r \in Rows, WorkerStarts(r) \/ WorkerEnds(r) \/ OthersSync(r) PROVE ConnectionsInv'
  <2>1. row' \in [Rows -> RowStates] /\ jobs' \subseteq Rows
    BY <1>0, <1>23 DEF TableOK, RowStates, WorkerStarts, WorkerEnds, OthersSync
  <2>. QED  BY <1>22, <1>23, <2>1 DEF WorkerStarts, WorkerEnds, OthersSync
<1>24. CASE UNCHANGED connectionsVars
  <2>1. TableOK' /\ ScreenOK'
    BY <1>0, <1>24, TableKept, ScreenKept DEF connectionsVars, dbVars, screenVars
  <2>. QED  BY <1>24, <2>1, PageKept DEF connectionsVars
<1>. QED
  BY <1>3, <1>4, <1>5, <1>6, <1>7, <1>9, <1>11, <1>12, <1>13, <1>14, <1>15, <1>16, <1>17, <1>18,
     <1>19, <1>20, <1>21, <1>23, <1>24
  DEF ConnectionsNext

LEMMA ConnectionsHold == ASSUME ConnectionsInv PROVE ConnectionsTypeOK /\ OwnWritesReadBack
BY DEF ConnectionsInv, ListOK, TableOK, ScreenOK, CallOK, ConnectionsTypeOK

-----------------------------------------------------------------------------
(* The report pages.                                                       *)

Days == Int \cup {NONE}
Ranges == [model : Models, from : Days, to : Days, dimension : Dimensions]

\* Days are chosen from one to another, which is not before the first.
Ordered(r) == (r.from = NONE <=> r.to = NONE) /\ (r.from # NONE => r.from <= r.to)
Choices == {c \in Ranges : Ordered(c)}

ChosenOK ==
  /\ today \in {FirstToday, FirstToday + 1} /\ screen \in {"performance", "creatives"}
  /\ choice \in Choices /\ changes \in 0..ChoiceBound
PanelOK ==
  /\ panel \in [open : BOOLEAN, from : Days, to : Days]
  /\ panel.to # NONE => panel.from # NONE /\ panel.from <= panel.to
PathOK ==
  /\ status \in {"ALL", "ACTIVE", "PAUSED"} /\ path \in Seq(Nodes)
  /\ path # <<>> => Parent[path[1]] = NONE
  /\ \A i \in 2..Len(path) : Parent[path[i]] = path[i - 1]

\* What is said of a choice in a report.
Tells(d, c) ==
  IF screen = "creatives" THEN d.dimension = c.dimension
  ELSE d.model = c.model /\ (c.from # NONE => d.from = c.from /\ d.to = c.to)

\* The entry of a key: what is asked for is a choice with that key, and what has
\* come is a report of every choice with that key.
EntryTells(k, e) ==
  /\ e \in Entries(Ranges, Choices)
  /\ e.fetch # "idle" => e.by \in Choices /\ QueryKey(e.by) = k
  /\ e.data # NONE => \A c \in Choices : QueryKey(c) = k => Tells(e.data, c)
ReportsTell == \A k \in DOMAIN reports : EntryTells(k, reports[k])

ReportsInv == ChosenOK /\ PanelOK /\ PathOK /\ ReportsTell

LEMMA RangeFields ==
  ASSUME NEW c \in Choices
  PROVE  c \in Ranges /\ c.model \in Models /\ c.from \in Days /\ c.to \in Days
         /\ c.dimension \in Dimensions /\ Ordered(c)
BY DEF Choices, Ranges

\* The empty entry tells nothing, and asking makes it no less true.
LEMMA EmptyTells == ASSUME NEW k PROVE EntryTells(k, Empty)
BY EmptyEntry DEF EntryTells

LEMMA EntryIsOne == ASSUME ReportsTell, NEW k PROVE EntryTells(k, Entry(k))
<1>1. CASE k \in DOMAIN reports
  BY <1>1 DEF ReportsTell, Entry
<1>2. CASE k \notin DOMAIN reports
  BY <1>2, EmptyTells DEF Entry
<1>. QED  BY <1>1, <1>2

LEMMA AskedTells ==
  ASSUME NEW c \in Choices, NEW e, EntryTells(QueryKey(c), e)
  PROVE  EntryTells(QueryKey(c), Fetch(e, c)) /\ EntryTells(QueryKey(c), Observe(e, c))
<1>1. e \in Entries(Ranges, Choices)
  BY DEF EntryTells
<1>2. /\ Fetch(e, c) \in Entries(Ranges, Choices) /\ Fetch(e, c).data = e.data
      /\ e.fetch = "idle" => Fetch(e, c).by = c
      /\ e.fetch # "idle" => Fetch(e, c) = e
  BY <1>1, FetchEntry
<1>3. EntryTells(QueryKey(c), Fetch(e, c))
  <2>1. CASE e.fetch = "idle"
    BY <1>2, <2>1 DEF EntryTells
  <2>2. CASE e.fetch # "idle"
    BY <1>2, <2>2
  <2>. QED  BY <2>1, <2>2
<1>. QED  BY <1>3 DEF Observe

\* The keys of a screen tell apart what it says of a choice.
LEMMA SameKey ==
  ASSUME NEW c \in Choices, NEW d \in Choices, QueryKey(c) = QueryKey(d)
  PROVE  Tells(d, c)
<1>1. CASE screen = "creatives"
  BY <1>1 DEF QueryKey, Tells
<1>2. CASE screen # "creatives"
  <2>1. c.model = d.model /\ c.from = d.from /\ c.to = d.to
    BY <1>2 DEF QueryKey
  <2>. QED  BY <1>2, <2>1 DEF Tells
<1>. QED  BY <1>1, <1>2

\* What the API answers tells of the choice it was asked with.
LEMMA AnswerTells ==
  ASSUME ChosenOK, NEW c \in Choices, NEW d \in Choices, QueryKey(c) = QueryKey(d)
  PROVE  ApiRange(d) \in Ranges /\ Tells(ApiRange(d), c)
<1>1. today \in Int
  BY ReportsAssumption DEF ChosenOK
<1>2. /\ d \in Ranges /\ d.model \in Models /\ d.from \in Days /\ d.to \in Days
      /\ d.dimension \in Dimensions /\ Ordered(d)
  BY RangeFields
<1>3. /\ (IF d.from = NONE THEN today - 30 ELSE d.from) \in Days
      /\ (IF d.to = NONE THEN today ELSE d.to) \in Days
  BY <1>1, <1>2 DEF Days
<1>4. ApiRange(d) \in Ranges
  BY <1>2, <1>3 DEF ApiRange, Ranges
<1>5. /\ ApiRange(d).model = d.model /\ ApiRange(d).dimension = d.dimension
      /\ d.from # NONE => ApiRange(d).from = d.from /\ ApiRange(d).to = d.to
  BY <1>2 DEF ApiRange, Ranges, Ordered
<1>6. Tells(d, c)
  BY SameKey
<1>7. screen # "creatives" => c.from = d.from
  BY DEF QueryKey
<1>. QED  BY <1>4, <1>5, <1>6, <1>7 DEF Tells

LEMMA SettledTells ==
  ASSUME ChosenOK, NEW k, NEW e, EntryTells(k, e), e.fetch # "idle"
  PROVE  EntryTells(k, Settle(Serve(e, ApiRange(e.by)))) /\ EntryTells(k, Idle(e))
<1>1. e \in Entries(Ranges, Choices) /\ e.by \in Choices /\ QueryKey(e.by) = k
  BY DEF EntryTells
<1>2. PICK d \in Choices : e.by = d
  BY <1>1
<1>3. ApiRange(d) \in Ranges
  BY AnswerTells
<1>4. PICK f : f = Serve(e, ApiRange(d))
  OBVIOUS
<1>5. f \in Entries(Ranges, Choices) /\ f.answer = ApiRange(d)
  BY <1>1, <1>3, <1>4, ServeEntry
<1>6. Settle(f) \in Entries(Ranges, Choices) /\ Settle(f).fetch = "idle" /\ Settle(f).data = ApiRange(d)
  BY <1>5, SettleEntry
<1>7. \A c \in Choices : QueryKey(c) = k => Tells(ApiRange(d), c)
  BY <1>1, <1>2, AnswerTells
<1>8. EntryTells(k, Settle(f))
  BY <1>6, <1>7 DEF EntryTells
<1>9. Idle(e) \in Entries(Ranges, Choices) /\ Idle(e).fetch = "idle" /\ Idle(e).data = e.data
  BY <1>1, IdleEntry
<1>10. EntryTells(k, Idle(e))
  BY <1>9 DEF EntryTells
<1>. QED  BY <1>2, <1>4, <1>8, <1>10

LEMMA OlderTells == ASSUME NEW k, NEW e, EntryTells(k, e) PROVE EntryTells(k, Older(e))
<1>1. e \in Entries(Ranges, Choices)
  BY DEF EntryTells
<1>2. /\ Older(e) \in Entries(Ranges, Choices) /\ Older(e).fetch = e.fetch /\ Older(e).data = e.data
      /\ Older(e).by = e.by
  BY <1>1, OlderEntry
<1>. QED  BY <1>2 DEF EntryTells

\* An entry is put into the cache.
LEMMA WithTells ==
  ASSUME ReportsTell, NEW k, NEW e, EntryTells(k, e), reports' = With(k, e), screen' = screen
  PROVE  ReportsTell'
<1>1. /\ DOMAIN reports' = DOMAIN reports \cup {k}
      /\ \A x \in DOMAIN reports' : reports'[x] = IF x = k THEN e ELSE reports[x]
  BY DEF With
<1>2. \A x \in DOMAIN reports' : EntryTells(x, reports'[x])
  BY <1>1 DEF ReportsTell
<1>3. \A x, y : EntryTells(x, y) => EntryTells(x, y)'
  BY DEF EntryTells, Tells, QueryKey
<1>. QED  BY <1>2, <1>3 DEF ReportsTell

LEMMA ReportsKept ==
  ASSUME ReportsTell, reports' = reports, screen' = screen
  PROVE  ReportsTell'
BY DEF ReportsTell, EntryTells, Tells, QueryKey

LEMMA ReportsStart == ASSUME ReportsInit PROVE ReportsInv
<1>1. ChosenOK /\ PanelOK
  BY ReportsAssumption
  DEF ReportsInit, ChosenOK, PanelOK, FirstChoice, Choices, Ranges, Ordered, Days, Models,
      Dimensions, NoPanel
<1>2. PathOK
  BY DEF ReportsInit, PathOK
<1>3. choice \in Choices
  BY <1>1 DEF ChosenOK
<1>4. EntryTells(QueryKey(choice), Fetch(Empty, choice))
  BY <1>3, EmptyTells, AskedTells
<1>5. ReportsTell
  BY <1>4 DEF ReportsInit, ReportsTell
<1>. QED  BY <1>1, <1>2, <1>5 DEF ReportsInv

\* Another choice, and the query it is the key of.
LEMMA ChosenKept ==
  ASSUME ReportsInv, NEW c \in Choices, Choose(c), PanelOK'
  PROVE  ReportsInv'
<1>1. /\ changes' \in 0..ChoiceBound /\ choice' = c /\ today' = today /\ screen' = screen
      /\ status' = status /\ path' = path
      /\ reports' = With(QueryKey(c), Observe(Entry(QueryKey(c)), c))
  BY ReportsAssumption DEF Choose, ReportsInv, ChosenOK
<1>2. ChosenOK'
  BY <1>1 DEF ReportsInv, ChosenOK, Choices, Ordered, Ranges
<1>3. PathOK'
  BY <1>1 DEF ReportsInv, PathOK
<1>4. EntryTells(QueryKey(c), Observe(Entry(QueryKey(c)), c))
  BY EntryIsOne, AskedTells DEF ReportsInv
<1>5. ReportsTell'
  BY <1>1, <1>4, WithTells DEF ReportsInv
<1>. QED  BY <1>2, <1>3, <1>5 DEF ReportsInv

LEMMA ReportsStep == ASSUME ReportsInv, [ReportsNext]_reportsVars PROVE ReportsInv'
<1>0. ChosenOK /\ PanelOK /\ PathOK /\ ReportsTell
  BY DEF ReportsInv
<1>1. choice \in Choices /\ today \in Int
  BY <1>0, ReportsAssumption DEF ChosenOK
<1>2. /\ choice \in Ranges /\ choice.model \in Models /\ choice.from \in Days /\ choice.to \in Days
      /\ choice.dimension \in Dimensions /\ Ordered(choice)
  BY <1>1, RangeFields
\* What is chosen, clicked and drilled into.
<1>3. ASSUME screen' = screen, today' = today, choice' = choice, changes' = changes PROVE ChosenOK'
  BY <1>0, <1>3 DEF ChosenOK, Choices, Ordered, Ranges
<1>4. ASSUME panel' = panel PROVE PanelOK'
  BY <1>0, <1>4 DEF PanelOK
<1>5. ASSUME status' = status, path' = path PROVE PathOK'
  BY <1>0, <1>5 DEF PathOK
<1>6. ASSUME NEW m \in Models, SetModel(m) PROVE ReportsInv'
  <2>1. [choice EXCEPT !.model = m] \in Choices
    BY <1>2 DEF Choices, Ranges, Ordered
  <2>. QED  BY <1>4, <1>6, <2>1, ChosenKept DEF SetModel
<1>7. ASSUME NEW d \in Dimensions, SetDimension(d) PROVE ReportsInv'
  <2>1. [choice EXCEPT !.dimension = d] \in Choices
    BY <1>2 DEF Choices, Ranges, Ordered
  <2>. QED  BY <1>4, <1>7, <2>1, ChosenKept DEF SetDimension
<1>8. ASSUME NEW k \in DOMAIN reports, ReportServed(k) \/ ReportFails(k) PROVE ReportsInv'
  <2>1. EntryTells(k, reports[k]) /\ reports[k].fetch # "idle"
    BY <1>0, <1>8 DEF ReportsTell, ReportServed, ReportFails
  <2>2. EntryTells(k, Settle(Serve(reports[k], ApiRange(reports[k].by))))
        /\ EntryTells(k, Idle(reports[k]))
    BY <1>0, <2>1, SettledTells
  <2>3. ReportsTell'
    BY <1>0, <1>8, <2>2, WithTells DEF ReportServed, ReportFails
  <2>4. ChosenOK' /\ PanelOK' /\ PathOK'
    BY <1>3, <1>4, <1>5, <1>8 DEF ReportServed, ReportFails
  <2>. QED  BY <2>3, <2>4 DEF ReportsInv
\* The date picker.
<1>9. ASSUME NEW p, SetPanel(p), p \in [open : BOOLEAN, from : Days, to : Days],
             p.to # NONE => p.from # NONE /\ p.from <= p.to
      PROVE  ReportsInv'
  <2>1. PanelOK'
    BY <1>9 DEF SetPanel, PanelOK
  <2>2. ChosenOK' /\ PathOK' /\ ReportsTell'
    BY <1>0, <1>3, <1>5, <1>9, ReportsKept DEF SetPanel
  <2>. QED  BY <2>1, <2>2 DEF ReportsInv
<1>10. CASE OpenPanel
  <2>. DEFINE p == [open |-> TRUE, from |-> choice.from, to |-> choice.to]
  <2>1. p \in [open : BOOLEAN, from : Days, to : Days] /\ (p.to # NONE => p.from # NONE /\ p.from <= p.to)
    BY <1>2 DEF Ordered
  <2>. QED  BY <1>9, <1>10, <2>1 DEF OpenPanel
<1>11. ASSUME SetPanel(NoPanel) PROVE ReportsInv'
  <2>1. /\ NoPanel \in [open : BOOLEAN, from : Days, to : Days]
        /\ NoPanel.to # NONE => NoPanel.from # NONE /\ NoPanel.from <= NoPanel.to
    BY DEF NoPanel, Days
  <2>. QED  BY <1>9, <1>11, <2>1
<1>12. CASE ClosePanel
  BY <1>11, <1>12 DEF ClosePanel
<1>13. ASSUME NEW d \in DaysOffered, ClickDay(d) PROVE ReportsInv'
  <2>1. /\ panel \in [open : BOOLEAN, from : Days, to : Days]
        /\ panel.to # NONE => panel.from # NONE /\ panel.from <= panel.to
        /\ d \in Int /\ d # NONE
    BY <1>0, ReportsAssumption DEF PanelOK
  <2>2. PickDay(panel, d) \in [open : BOOLEAN, from : Days, to : Days]
    BY <2>1 DEF PickDay, Days
  <2>3. PickDay(panel, d).to # NONE =>
          PickDay(panel, d).from # NONE /\ PickDay(panel, d).from <= PickDay(panel, d).to
    BY <2>1 DEF PickDay, Days
  <2>. QED  BY <1>9, <1>13, <2>2, <2>3 DEF ClickDay
\* A range is chosen.
<1>14. ASSUME NEW f \in Int, NEW t \in Int, f <= t, ChooseRange(f, t) PROVE ReportsInv'
  <2>1. [choice EXCEPT !.from = f, !.to = t] \in Choices
    BY <1>2, <1>14, ReportsAssumption DEF Choices, Ranges, Ordered, Days
  <2>2. PanelOK'
    BY <1>14 DEF ChooseRange, PanelOK, NoPanel, Days
  <2>. QED  BY <1>14, <2>1, <2>2, ChosenKept DEF ChooseRange
<1>15. CASE ApplyCustom
  <2>. DEFINE t == IF panel.to = NONE THEN panel.from ELSE panel.to
  <2>1. panel.from \in Int /\ t \in Int /\ panel.from <= t
    BY <1>0, <1>15 DEF ApplyCustom, PanelOK, Days
  <2>2. ChooseRange(panel.from, t)
    BY <1>15 DEF ApplyCustom
  <2>. HIDE DEF t
  <2>. QED  BY <1>14, <2>1, <2>2
<1>16. ASSUME NEW p \in PresetsUsed, ApplyPreset(p) PROVE ReportsInv'
  <2>1. /\ PresetsBack[p][1] \in Int /\ PresetsBack[p][2] \in Int
        /\ PresetsBack[p][2] <= PresetsBack[p][1]
    BY PresetsAssumption DEF PresetsBack
  <2>2. /\ today - PresetsBack[p][1] \in Int /\ today - PresetsBack[p][2] \in Int
        /\ today - PresetsBack[p][1] <= today - PresetsBack[p][2]
    BY <1>1, <2>1
  <2>. QED  BY <1>14, <1>16, <2>2 DEF ApplyPreset
\* The table.
<1>17. ASSUME OnTable, PathOK' PROVE ReportsInv'
  <2>1. ChosenOK' /\ PanelOK' /\ ReportsTell'
    BY <1>0, <1>3, <1>4, <1>17, ReportsKept DEF OnTable
  <2>. QED  BY <1>17, <2>1 DEF ReportsInv
<1>18. ASSUME NEW s \in {"ALL", "ACTIVE", "PAUSED"}, SetStatus(s) PROVE ReportsInv'
  <2>1. PathOK'
    BY <1>0, <1>18 DEF SetStatus, PathOK
  <2>. QED  BY <1>17, <1>18, <2>1 DEF SetStatus
<1>19. ASSUME NEW r \in Nodes, DrillInto(r) PROVE ReportsInv'
  <2>1. Parent[r] = CurrentCrumb
    BY <1>19 DEF DrillInto, VisibleRows, ChildrenOf
  <2>2. path \in Seq(Nodes) /\ path' = Append(path, r) /\ status' = status
    BY <1>0, <1>19 DEF PathOK, DrillInto
  <2>3. PathOK'
    BY <1>0, <2>1, <2>2 DEF PathOK, CurrentCrumb
  <2>. QED  BY <1>17, <1>19, <2>3 DEF DrillInto
<1>20. ASSUME NEW n \in 0..2, BackTo(n) PROVE ReportsInv'
  <2>1. path \in Seq(Nodes) /\ n < Len(path) /\ path' = SubSeq(path, 1, n) /\ status' = status
    BY <1>0, <1>20 DEF PathOK, BackTo
  <2>2. path' \in Seq(Nodes) /\ Len(path') = n /\ \A i \in 1..n : path'[i] = path[i]
    BY <2>1
  <2>3. PathOK'
    BY <1>0, <2>1, <2>2 DEF PathOK
  <2>. QED  BY <1>17, <1>20, <2>3 DEF BackTo
\* Time.
<1>21. CASE ReportsTick
  <2>1. /\ DOMAIN reports' = DOMAIN reports
        /\ \A k \in DOMAIN reports : reports'[k] = Older(reports[k])
        /\ screen' = screen /\ today' = today /\ choice' = choice /\ changes' = changes
        /\ panel' = panel /\ status' = status /\ path' = path
    BY <1>21 DEF ReportsTick
  <2>2. \A k \in DOMAIN reports' : EntryTells(k, reports'[k])
    BY <1>0, <2>1, OlderTells DEF ReportsTell
  <2>3. \A x, y : EntryTells(x, y) => EntryTells(x, y)'
    BY <2>1 DEF EntryTells, Tells, QueryKey
  <2>4. ReportsTell'
    BY <2>2, <2>3 DEF ReportsTell
  <2>. QED  BY <1>3, <1>4, <1>5, <2>1, <2>4 DEF ReportsInv
<1>22. CASE Midnight
  <2>1. ChosenOK'
    BY <1>0, <1>22 DEF Midnight, ChosenOK, Choices, Ordered, Ranges
  <2>2. PanelOK' /\ PathOK' /\ ReportsTell'
    BY <1>0, <1>4, <1>5, <1>22, ReportsKept DEF Midnight
  <2>. QED  BY <2>1, <2>2 DEF ReportsInv
<1>23. CASE UNCHANGED reportsVars
  BY <1>0, <1>3, <1>4, <1>5, <1>23, ReportsKept DEF reportsVars, ReportsInv
<1>. QED
  BY <1>6, <1>7, <1>8, <1>10, <1>12, <1>13, <1>15, <1>16, <1>18, <1>19, <1>20, <1>21, <1>22, <1>23
  DEF ReportsNext

LEMMA ReportsHold == ASSUME ReportsInv PROVE ReportsTypeOK /\ ShownAsChosen
<1>1. choice \in Choices /\ Ordered(choice)
  BY RangeFields DEF ReportsInv, ChosenOK
<1>2. ReportsTypeOK
  BY RangeFields DEF ReportsInv, ChosenOK, PanelOK, PathOK, ReportsTypeOK
<1>3. EntryTells(QueryKey(choice), Entry(QueryKey(choice)))
  BY EntryIsOne DEF ReportsInv
<1>4. Entry(QueryKey(choice)).data # NONE => Tells(Entry(QueryKey(choice)).data, choice)
  BY <1>1, <1>3 DEF EntryTells
<1>. QED  BY <1>1, <1>2, <1>4 DEF ShownAsChosen, Ordered, Tells

-----------------------------------------------------------------------------
(* The dialog that maps stages.                                            *)

\* The parts of the type invariant.
StageQueriesOK ==
  /\ stages \in Entries(SUBSET Stages, {"dialog"})
  /\ existing \in Entries(Mappings, {"dialog"})
DialogOK ==
  /\ mapping \in Mappings /\ copy \in Mappings
  /\ mounted \in BOOLEAN /\ open \in BOOLEAN /\ (open => mounted)
  /\ save \in [phase : {"none", "sent", "done"}, body : Mappings, edited : SUBSET Stages,
               blind : BOOLEAN, since : SUBSET Stages, here : BOOLEAN]
  /\ (save.here => mounted) /\ edited \subseteq Stages
  /\ since \in [data : SUBSET Stages, answer : SUBSET Stages]

\* The copy is what the page was told, but for what was edited in it.
CopyFollows ==
  /\ ~mounted => edited = {}
  /\ mounted /\ existing.data # NONE =>
       \A s \in Stages \ edited : copy[s] = existing.data[s]

\* What it was told is what is stored, but for what was mapped since.
DataFollows ==
  existing.data # NONE => \A s \in Stages \ since.data : existing.data[s] = mapping[s]
AnswerFollows ==
  existing.fetch = "answered" =>
    existing.answer \in Mappings /\ \A s \in Stages \ since.answer : existing.answer[s] = mapping[s]

\* What a save under way would undo.
SaveFollows ==
  save.phase = "sent" => \A s \in Stages :
    save.body[s] # NONE /\ save.body[s] # mapping[s] =>
      s \in save.edited \/ s \in save.since \/ save.blind \/ mapping[s] = NONE

StageInv ==
  StageQueriesOK /\ DialogOK /\ CopyFollows /\ DataFollows /\ AnswerFollows /\ SaveFollows

LEMMA StageStarts == ASSUME StageDialogInit PROVE StageInv
<1>1. StageQueriesOK
  BY EmptyEntry DEF StageDialogInit, StageQueriesOK
<1>2. NoCopy \in Mappings
  BY DEF NoCopy, Mappings
<1>3. DialogOK
  BY <1>2 DEF StageDialogInit, DialogOK, NoSave
<1>4. existing.data = NONE /\ existing.fetch = "idle" /\ save.phase = "none" /\ mounted = TRUE
  BY EmptyEntry DEF StageDialogInit, NoSave
<1>. QED
  BY <1>1, <1>3, <1>4 DEF StageInv, CopyFollows, DataFollows, AnswerFollows, SaveFollows

\* The parts whose variables a step leaves alone.
LEMMA CopyKept ==
  ASSUME CopyFollows, mounted' = mounted, edited' = edited, copy' = copy,
         existing'.data = existing.data
  PROVE  CopyFollows'
BY DEF CopyFollows

LEMMA ToldKept ==
  ASSUME DataFollows, AnswerFollows, mapping' = mapping, since' = since,
         existing'.data = existing.data,
         existing'.fetch = "answered" => existing.fetch = "answered" /\ existing'.answer = existing.answer
  PROVE  DataFollows' /\ AnswerFollows'
BY DEF DataFollows, AnswerFollows

LEMMA SaveKept ==
  ASSUME SaveFollows, mapping' = mapping, save' = save
  PROVE  SaveFollows'
BY DEF SaveFollows

\* Stages whose mapping changes are noted, and the rest stays as it was told.
LEMMA ToldNoted ==
  ASSUME DialogOK, DataFollows, AnswerFollows, NEW changed \in SUBSET Stages, Note(changed),
         existing' = existing, \A s \in Stages \ changed : mapping'[s] = mapping[s]
  PROVE  /\ since' \in [data : SUBSET Stages, answer : SUBSET Stages]
         /\ DataFollows' /\ AnswerFollows'
<1>1. since \in [data : SUBSET Stages, answer : SUBSET Stages]
  BY DEF DialogOK
<1>2. /\ since' \in [data : SUBSET Stages, answer : SUBSET Stages]
      /\ since'.data = since.data \cup changed /\ since'.answer = since.answer \cup changed
  BY <1>1 DEF Note
<1>. QED  BY <1>2 DEF DataFollows, AnswerFollows

LEMMA StageStep == ASSUME StageInv, [StageDialogNext]_stageVars PROVE StageInv'
<1>0. StageQueriesOK /\ DialogOK /\ CopyFollows /\ DataFollows /\ AnswerFollows /\ SaveFollows
  BY DEF StageInv
<1>1. /\ stages \in Entries(SUBSET Stages, {"dialog"}) /\ existing \in Entries(Mappings, {"dialog"})
      /\ existing.data \in Mappings \cup {NONE} /\ stages.data \in (SUBSET Stages) \cup {NONE}
      /\ existing.fetch \in {"idle", "sent", "answered"}
  BY <1>0, EntryFields DEF StageQueriesOK
<1>2. NoCopy \in Mappings
  BY DEF NoCopy, Mappings
\* A step that leaves the mappings, the copy and what was noted alone.
<1>3. ASSUME mapping' = mapping, since' = since, mounted' = mounted, edited' = edited, copy' = copy,
             save' = save, StageQueriesOK', open' \in BOOLEAN, open' => mounted,
             existing'.data = existing.data,
             existing'.fetch = "answered" => existing.fetch = "answered" /\ existing'.answer = existing.answer
      PROVE  StageInv'
  <2>1. DialogOK'
    BY <1>0, <1>3 DEF DialogOK
  <2>2. CopyFollows' /\ DataFollows' /\ AnswerFollows' /\ SaveFollows'
    BY <1>0, <1>3, CopyKept, ToldKept, SaveKept
  <2>. QED  BY <1>3, <2>1, <2>2 DEF StageInv
<1>4. CASE OpenDialog
  <2>1. stages' \in Entries(SUBSET Stages, {"dialog"})
    BY <1>1, <1>4, ObserveEntry DEF OpenDialog
  <2>2. /\ existing' \in Entries(Mappings, {"dialog"}) /\ existing'.data = existing.data
        /\ existing'.answer = existing.answer
    BY <1>1, <1>4, ObserveEntry DEF OpenDialog
  <2>3. existing' = Fetch(existing, "dialog") \/ existing' = existing
    BY <1>4 DEF OpenDialog, Observe
  <2>4. existing'.fetch = "answered" => existing.fetch = "answered"
    BY <1>1, <2>3, FetchEntry
  <2>. QED  BY <1>3, <1>4, <2>1, <2>2, <2>4 DEF OpenDialog, StageQueriesOK
<1>5. CASE CloseDialog
  BY <1>0, <1>3, <1>5 DEF CloseDialog, queryPair, StageQueriesOK
<1>6. CASE Unmount
  <2>1. /\ mapping' = mapping /\ since' = since /\ stages' = stages /\ existing' = existing
        /\ mounted' = FALSE /\ open' = FALSE /\ copy' = NoCopy /\ edited' = {}
        /\ save' = [save EXCEPT !.here = FALSE]
    BY <1>6 DEF Unmount, queryPair
  <2>2. StageQueriesOK' /\ DialogOK'
    BY <1>0, <1>2, <2>1 DEF StageQueriesOK, DialogOK
  <2>3. DataFollows' /\ AnswerFollows'
    BY <1>0, <2>1, ToldKept
  <2>4. CopyFollows'
    BY <2>1 DEF CopyFollows
  <2>5. SaveFollows'
    BY <1>0, <2>1 DEF SaveFollows, DialogOK
  <2>. QED  BY <2>2, <2>3, <2>4, <2>5 DEF StageInv
<1>7. CASE Mount
  <2>1. /\ mapping' = mapping /\ since' = since /\ stages' = stages /\ existing' = existing
        /\ ~mounted /\ mounted' = TRUE /\ open' = open /\ edited' = edited /\ save' = save
        /\ copy' = TakeOver(NoCopy, existing.data)
    BY <1>7 DEF Mount, queryPair
  <2>2. copy' \in Mappings /\ (existing.data # NONE => copy' = existing.data)
    BY <1>1, <1>2, <2>1 DEF TakeOver
  <2>3. StageQueriesOK' /\ DialogOK'
    BY <1>0, <2>1, <2>2 DEF StageQueriesOK, DialogOK
  <2>4. DataFollows' /\ AnswerFollows' /\ SaveFollows'
    BY <1>0, <2>1, ToldKept, SaveKept
  <2>5. CopyFollows'
    BY <2>1, <2>2 DEF CopyFollows
  <2>. QED  BY <2>3, <2>4, <2>5 DEF StageInv
<1>8. CASE StagesCome
  <2>1. stages' \in Entries(SUBSET Stages, {"dialog"})
    BY <1>1, <1>8, ServeEntry, SettleEntry, IdleEntry DEF StagesCome
  <2>. QED  BY <1>0, <1>1, <1>3, <1>8, <2>1 DEF StagesCome, StageQueriesOK, DialogOK
<1>9. CASE MappingsServed
  <2>1. mapping \in Mappings
    BY <1>0 DEF DialogOK
  <2>2. /\ existing' \in Entries(Mappings, {"dialog"}) /\ existing'.data = existing.data
        /\ existing'.answer = mapping
    BY <1>1, <1>9, <2>1, ServeEntry DEF MappingsServed
  <2>3. /\ mapping' = mapping /\ mounted' = mounted /\ open' = open /\ stages' = stages
        /\ copy' = copy /\ save' = save /\ edited' = edited
        /\ since' = [since EXCEPT !.answer = {}]
    BY <1>9 DEF MappingsServed
  <2>4. since' \in [data : SUBSET Stages, answer : SUBSET Stages] /\ since'.data = since.data
    BY <1>0, <2>3 DEF DialogOK
  <2>5. StageQueriesOK' /\ DialogOK'
    BY <1>0, <2>2, <2>3, <2>4 DEF StageQueriesOK, DialogOK
  <2>6. CopyFollows' /\ SaveFollows'
    BY <1>0, <2>2, <2>3, CopyKept, SaveKept
  <2>7. DataFollows' /\ AnswerFollows'
    BY <1>0, <2>1, <2>2, <2>3, <2>4 DEF DataFollows, AnswerFollows
  <2>. QED  BY <2>5, <2>6, <2>7 DEF StageInv
<1>10. CASE MappingsSettle
  <2>1. /\ existing' \in Entries(Mappings, {"dialog"}) /\ existing'.data = existing.answer
        /\ existing'.fetch = "idle"
    BY <1>1, <1>10, SettleEntry DEF MappingsSettle
  <2>2. /\ mapping' = mapping /\ mounted' = mounted /\ open' = open /\ stages' = stages /\ save' = save
        /\ since' = [since EXCEPT !.data = since.answer] /\ existing.fetch = "answered"
        /\ IF mounted /\ existing.answer # existing.data
             THEN copy' = TakeOver(copy, existing.answer) /\ edited' = {}
             ELSE copy' = copy /\ edited' = edited
    BY <1>10 DEF MappingsSettle
  <2>3. existing.answer \in Mappings /\ existing.answer # NONE
    BY <1>0, <2>2, MappingsAssumption DEF AnswerFollows
  <2>4. /\ since' \in [data : SUBSET Stages, answer : SUBSET Stages] /\ since'.data = since.answer
    BY <1>0, <2>2 DEF DialogOK
  <2>5. IF mounted /\ existing.answer # existing.data
          THEN copy' = existing.answer /\ edited' = {} ELSE copy' = copy /\ edited' = edited
    BY <2>2, <2>3 DEF TakeOver
  <2>6. StageQueriesOK' /\ DialogOK'
    BY <1>0, <2>1, <2>2, <2>3, <2>4, <2>5 DEF StageQueriesOK, DialogOK
  <2>7. SaveFollows'
    BY <1>0, <2>2, SaveKept
  <2>8. DataFollows' /\ AnswerFollows'
    BY <1>0, <2>1, <2>2, <2>4 DEF DataFollows, AnswerFollows
  <2>9. CopyFollows'
    BY <1>0, <2>1, <2>2, <2>3, <2>5 DEF CopyFollows
  <2>. QED  BY <2>6, <2>7, <2>8, <2>9 DEF StageInv
<1>11. CASE MappingsFail
  <2>1. /\ existing' \in Entries(Mappings, {"dialog"}) /\ existing'.data = existing.data
        /\ existing'.fetch = "idle"
    BY <1>1, <1>11, IdleEntry DEF MappingsFail
  <2>. QED  BY <1>0, <1>1, <1>3, <1>11, <2>1 DEF MappingsFail, StageQueriesOK, DialogOK
<1>12. ASSUME NEW s \in Stages, NEW c \in Canonicals, EditStage(s, c) PROVE StageInv'
  <2>1. /\ mapping' = mapping /\ mounted' = mounted /\ open' = open /\ stages' = stages
        /\ existing' = existing /\ save' = save /\ since' = since
        /\ copy' = [copy EXCEPT ![s] = c] /\ edited' = edited \cup {s} /\ mounted
    BY <1>0, <1>12 DEF EditStage, queryPair, DialogOK
  <2>2. copy \in Mappings /\ copy' \in Mappings
    BY <1>0, <2>1 DEF DialogOK, Mappings
  <2>3. StageQueriesOK' /\ DialogOK'
    BY <1>0, <2>1, <2>2 DEF StageQueriesOK, DialogOK
  <2>4. DataFollows' /\ AnswerFollows' /\ SaveFollows'
    BY <1>0, <2>1, ToldKept, SaveKept
  <2>5. CopyFollows'
    BY <1>0, <2>1, <2>2 DEF CopyFollows, Mappings
  <2>. QED  BY <2>3, <2>4, <2>5 DEF StageInv
\* The button sends the copy: what it says of a stage nobody edited is what is stored,
\* or was mapped since, or the dialog was told nothing.
<1>13. CASE SaveMapping
  <2>1. /\ mapping' = mapping /\ mounted' = mounted /\ open' = open /\ stages' = stages
        /\ existing' = existing /\ copy' = copy /\ since' = since /\ edited' = edited /\ mounted
        /\ save' = [phase |-> "sent", body |-> Body, edited |-> edited,
                    blind |-> existing.data = NONE, since |-> since.data, here |-> TRUE]
    BY <1>0, <1>13 DEF SaveMapping, queryPair, DialogOK
  <2>2. Body \in Mappings
    BY <1>0, StageDialogAssumption DEF DialogOK, Mappings, Body
  <2>3. StageQueriesOK' /\ DialogOK'
    BY <1>0, <2>1, <2>2 DEF StageQueriesOK, DialogOK
  <2>4. CopyFollows' /\ DataFollows' /\ AnswerFollows'
    BY <1>0, <2>1, CopyKept, ToldKept
  <2>5. ASSUME NEW s \in Stages, Body[s] # NONE, Body[s] # mapping[s], existing.data # NONE,
               s \notin edited, s \notin since.data
        PROVE  mapping[s] = NONE
    <3>1. copy[s] = existing.data[s] /\ existing.data[s] = mapping[s]
      BY <1>0, <2>1, <2>5 DEF CopyFollows, DataFollows
    <3>2. Body[s] = IF copy[s] = NONE THEN "IGNORE" ELSE copy[s]
      BY <2>5 DEF Body
    <3>. QED  BY <2>5, <3>1, <3>2
  <2>6. /\ save'.body = Body /\ save'.edited = edited /\ save'.since = since.data
        /\ save'.blind = (existing.data = NONE)
    BY <2>1
  <2>7. SaveFollows'
    BY <2>1, <2>5, <2>6 DEF SaveFollows
  <2>. QED  BY <2>3, <2>4, <2>7 DEF StageInv
<1>14. CASE SaveWorks
  <2>. DEFINE changed == {s \in Stages : mapping'[s] # mapping[s]}
  <2>1. /\ mapping' = Stored(save.body) /\ Note(changed) /\ save' = [save EXCEPT !.phase = "done"]
        /\ mounted' = mounted /\ open' = open /\ stages' = stages /\ existing' = existing
        /\ copy' = copy /\ edited' = edited
    BY <1>14 DEF SaveWorks, queryPair
  <2>2. mapping' \in Mappings
    BY <1>0, <2>1 DEF DialogOK, Mappings, Stored
  <2>3. /\ since' \in [data : SUBSET Stages, answer : SUBSET Stages]
        /\ DataFollows' /\ AnswerFollows'
    BY <1>0, <2>1, ToldNoted
  <2>4. /\ save'.phase = "done" /\ save'.here = save.here
        /\ save' \in [phase : {"none", "sent", "done"}, body : Mappings, edited : SUBSET Stages,
                      blind : BOOLEAN, since : SUBSET Stages, here : BOOLEAN]
    BY <1>0, <2>1 DEF DialogOK
  <2>5. StageQueriesOK' /\ DialogOK'
    BY <1>0, <2>1, <2>2, <2>3, <2>4 DEF StageQueriesOK, DialogOK
  <2>6. CopyFollows'
    BY <1>0, <2>1, CopyKept
  <2>7. SaveFollows'
    BY <2>4 DEF SaveFollows
  <2>. QED  BY <2>3, <2>5, <2>6, <2>7 DEF StageInv
<1>15. CASE SaveAnswered
  <2>1. /\ mapping' = mapping /\ mounted' = mounted /\ stages' = stages /\ existing' = existing
        /\ copy' = copy /\ since' = since /\ edited' = edited /\ save' = NoSave
    BY <1>15 DEF SaveAnswered, queryPair
  <2>2. open' = (open /\ ~save.here) \/ open' = open
    BY <1>15 DEF SaveAnswered
  <2>3. open' \in BOOLEAN /\ (open' => mounted)
    <3>1. open \in BOOLEAN /\ (open => mounted)
      BY <1>0 DEF DialogOK
    <3>2. CASE open' = (open /\ ~save.here)
      BY <3>1, <3>2
    <3>3. CASE open' = open
      BY <3>1, <3>3
    <3>. QED  BY <2>2, <3>2, <3>3
  <2>4. StageQueriesOK' /\ DialogOK'
    BY <1>0, <1>2, <2>1, <2>3 DEF StageQueriesOK, DialogOK, NoSave
  <2>5. CopyFollows' /\ DataFollows' /\ AnswerFollows'
    BY <1>0, <2>1, CopyKept, ToldKept
  <2>6. SaveFollows'
    BY <2>1 DEF SaveFollows, NoSave
  <2>. QED  BY <2>4, <2>5, <2>6 DEF StageInv
<1>16. ASSUME NEW s \in Stages, NEW c \in Canonicals, OthersMap(s, c) PROVE StageInv'
  <2>1. /\ mapping' = [mapping EXCEPT ![s] = c] /\ Note({s})
        /\ save' = IF save.phase = "sent" THEN [save EXCEPT !.since = @ \cup {s}] ELSE save
        /\ mounted' = mounted /\ open' = open /\ stages' = stages /\ existing' = existing
        /\ copy' = copy /\ edited' = edited
    BY <1>16 DEF OthersMap, queryPair
  <2>2. mapping' \in Mappings /\ \A x \in Stages \ {s} : mapping'[x] = mapping[x]
    BY <1>0, <2>1 DEF DialogOK, Mappings
  <2>3. /\ since' \in [data : SUBSET Stages, answer : SUBSET Stages]
        /\ DataFollows' /\ AnswerFollows'
    BY <1>0, <2>1, <2>2, ToldNoted
  <2>4. /\ save' \in [phase : {"none", "sent", "done"}, body : Mappings, edited : SUBSET Stages,
                      blind : BOOLEAN, since : SUBSET Stages, here : BOOLEAN]
        /\ save'.phase = save.phase /\ save'.body = save.body /\ save'.edited = save.edited
        /\ save'.blind = save.blind /\ save'.here = save.here
        /\ save.phase = "sent" => save'.since = save.since \cup {s}
    BY <1>0, <2>1 DEF DialogOK
  <2>5. StageQueriesOK' /\ DialogOK'
    BY <1>0, <2>1, <2>2, <2>3, <2>4 DEF StageQueriesOK, DialogOK
  <2>6. CopyFollows'
    BY <1>0, <2>1, CopyKept
  <2>7. SaveFollows'
    BY <1>0, <2>2, <2>4 DEF SaveFollows
  <2>. QED  BY <2>3, <2>5, <2>6, <2>7 DEF StageInv
<1>17. CASE StageTick
  <2>1. /\ stages' \in Entries(SUBSET Stages, {"dialog"})
        /\ existing' \in Entries(Mappings, {"dialog"}) /\ existing'.data = existing.data
        /\ existing'.fetch = existing.fetch /\ existing'.answer = existing.answer
    BY <1>1, <1>17, OlderEntry DEF StageTick
  <2>. QED  BY <1>0, <1>3, <1>17, <2>1 DEF StageTick, StageQueriesOK, DialogOK
<1>18. CASE UNCHANGED stageVars
  BY <1>0, <1>3, <1>18 DEF stageVars, queryPair, StageQueriesOK, DialogOK
<1>. QED
  BY <1>4, <1>5, <1>6, <1>7, <1>8, <1>9, <1>10, <1>11, <1>12, <1>13, <1>14, <1>15, <1>16, <1>17, <1>18
  DEF StageDialogNext

\* What a save overwrites is what its body has and the table has not.
LEMMA SaveOverwrites ==
  ASSUME StageInv, [StageDialogNext]_stageVars, NEW s \in Stages,
         save.phase = "sent", save'.phase = "done", mapping'[s] # mapping[s]
  PROVE  s \in save.edited \/ s \in save.since \/ save.blind \/ mapping[s] = NONE
<1>1. CASE SaveWorks
  <2>1. save.body[s] # NONE /\ save.body[s] # mapping[s]
    BY <1>1 DEF SaveWorks, Stored
  <2>. QED  BY <2>1 DEF StageInv, SaveFollows
<1>2. CASE \E x \in Stages, c \in Canonicals : OthersMap(x, c)
  BY <1>2 DEF OthersMap, StageInv, DialogOK
<1>3. CASE mapping' = mapping
  BY <1>3
<1>. QED
  BY <1>1, <1>2, <1>3
  DEF StageDialogNext, stageVars, OpenDialog, CloseDialog, Unmount, Mount, StagesCome,
      MappingsServed, MappingsSettle, MappingsFail, EditStage, SaveMapping, SaveAnswered, StageTick

LEMMA StageHolds == ASSUME StageInv PROVE StageDialogTypeOK
BY DEF StageInv, StageQueriesOK, DialogOK, StageDialogTypeOK

-----------------------------------------------------------------------------
(* The pages together.                                                     *)

WebInv == ConnectionsInv /\ ReportsInv /\ StageInv /\ ReviewInv

LEMMA WebStarts == WebInit => WebInv
BY ConnectionsStart, ReportsStart, StageStarts, ReviewStarts DEF WebInit, WebInv

\* A step of one page, or of none, is a step or a stutter of each.
LEMMA WebStepOfPages ==
  ASSUME [WebNext]_webVars
  PROVE  /\ [ConnectionsNext]_connectionsVars /\ [ReportsNext]_reportsVars
         /\ [StageDialogNext]_stageVars /\ [ReviewNext]_reviewVars
BY DEF WebNext, webVars

LEMMA WebStep == WebInv /\ [WebNext]_webVars => WebInv'
BY WebStepOfPages, ConnectionsStep, ReportsStep, StageStep, ReviewStep DEF WebInv

LEMMA WebAlways == WebSpec => []WebInv
BY WebStarts, WebStep, PTL DEF WebSpec

\* The variables of all pages have their types: a dialog is open only on a page, an account
\* ticked in the Meta picker only when it was found, a crumb a child of the last one.
THEOREM WebTypes == WebSpec => []WebTypeOK
<1>1. WebInv => WebTypeOK
  BY ConnectionsHold, ReportsHold, StageHolds, ReviewHolds DEF WebInv, WebTypeOK
<1>. QED  BY <1>1, WebAlways, PTL

\* The connections page asks again, or polls, until it has read back every write of its
\* own that the API has answered, unless a request failed (connections page, pollInterval).
THEOREM WebReadsOwnWrites == WebSpec => []OwnWritesReadBack
<1>1. WebInv => OwnWritesReadBack
  BY ConnectionsHold DEF WebInv
<1>. QED  BY <1>1, WebAlways, PTL

\* A report page shows the report of what it says is chosen, however late the answers of
\* earlier choices come, and no range of days that ends before it starts (date picker).
THEOREM WebShowsAsChosen == WebSpec => []ShownAsChosen
<1>1. WebInv => ShownAsChosen
  BY ReportsHold DEF WebInv
<1>. QED  BY <1>1, WebAlways, PTL

\* Saving the whole copy of the stage mappings overwrites, for a stage nobody edited in
\* it, nothing the dialog had been told of (CrmStageMappingDialog).
THEOREM WebKeepsUnedited == WebSpec => UneditedStagesKeep
<1>1. WebInv /\ [WebNext]_webVars =>
        [\A s \in Stages :
           save.phase = "sent" /\ save'.phase = "done" /\ mapping'[s] # mapping[s] =>
             s \in save.edited \/ s \in save.since \/ save.blind \/ mapping[s] = NONE]_stageVars
  BY WebStepOfPages, SaveOverwrites DEF WebInv
<1>. QED  BY <1>1, WebAlways, PTL DEF WebSpec, UneditedStagesKeep

\* When nothing is under way and nothing was lost, the review page lists no lead it has
\* attributed and counts none of them (data-trust page, resolve and its invalidations),
\* whatever others attribute and overlapping engine runs write, but for the leads a run
\* wrote back into review after the page had attributed them (matchLead).
THEOREM WebAttributedLeave == WebSpec => []AttributedLeavesReview
<1>1. WebInv => AttributedLeavesReview
  BY ReviewHolds DEF WebInv
<1>. QED  BY <1>1, WebAlways, PTL

-----------------------------------------------------------------------------
(* The session of a tab.                                                   *)

\* Every request under way was sent with a token.
AskedWithTokens ==
  \A k \in UserKeys : cache[k].fetch # "idle" => cache[k].by \in Tokens

\* What is on its way for somebody else is something the page found so.
ForeignRequestsAreLent ==
  InApp => \A k \in Shows(page) :
    cache[k].fetch # "idle" /\ Foreign({pageTok, menuTok}, Owner[cache[k].by]) => lent[k]

SessionInv ==
  /\ SessionTypeOK /\ AskedWithTokens
  /\ HeaderAgrees /\ ForeignRequestsAreLent /\ ForeignDataIsRecent


\* The parts of the type invariant: what is shared, the widget, what the components hold.
SharedOK ==
  /\ stored \in Tokens \cup {NONE} /\ cookie \in {"mine", "other"} /\ expired \subseteq Tokens
  /\ form \in BOOLEAN /\ widget \in Widgets /\ moved \in BOOLEAN
HeldOK ==
  /\ page \in AuthPages \cup AppPages \cup {"google"}
  /\ (InApp <=> menuTok \in Tokens) /\ (InApp <=> pageTok \in Tokens)
  /\ lent \in [UserKeys -> BOOLEAN]

\* A cache of entries whose requests were sent with tokens.
CacheOK(entries) ==
  /\ entries \in [UserKeys -> Entries(Users, Tokens)]
  /\ \A k \in UserKeys : entries[k].fetch # "idle" => entries[k].by \in Tokens

\* What the tab shows, apart from what it shares.
DocInv == HeldOK /\ CacheOK(cache) /\ ForeignRequestsAreLent /\ ForeignDataIsRecent

LEMMA SessionParts == SessionInv <=> SharedOK /\ DocInv /\ HeaderAgrees
BY DEF SessionInv, SharedOK, HeldOK, CacheOK, DocInv, SessionTypeOK, AskedWithTokens

LEMMA TokensAreNot == NONE \notin Tokens /\ NONE \notin Users /\ Owner \in [Tokens -> Users]
BY SessionAssumption

LEMMA NoCacheOK == CacheOK(NoCache)
<1>1. Empty \in Entries(Users, Tokens) /\ Empty.fetch = "idle"
  BY EmptyEntry
<1>. QED  BY <1>1 DEF CacheOK, NoCache

LEMMA CacheFields ==
  ASSUME NEW entries, CacheOK(entries), NEW k \in UserKeys
  PROVE  /\ entries[k] \in Entries(Users, Tokens) /\ entries[k].fetch \in {"idle", "sent", "answered"}
         /\ entries[k].data \in Users \cup {NONE}
         /\ entries[k].fetch # "idle" => entries[k].by \in Tokens
<1>1. entries[k] \in Entries(Users, Tokens) /\ (entries[k].fetch # "idle" => entries[k].by \in Tokens)
  BY DEF CacheOK
<1>. QED  BY <1>1, EntryFields

\* What is foreign to two is foreign to one.
LEMMA ForeignToLess ==
  ASSUME NEW t, NEW m, NEW u, Foreign({t, m}, u)
  PROVE  u # NONE /\ u # Owner[t] /\ u # Owner[m] /\ Foreign({t}, u)
BY DEF Foreign

LEMMA DocKept == ASSUME DocInv, UNCHANGED docVars PROVE DocInv'
<1>1. page' = page /\ menuTok' = menuTok /\ pageTok' = pageTok /\ cache' = cache /\ lent' = lent
  BY DEF docVars
<1>. QED
  BY <1>1
  DEF DocInv, HeldOK, InApp, CacheOK, ForeignRequestsAreLent, ForeignDataIsRecent

\* A page outside the application shows nobody's data.
LEMMA LeaveKeeps ==
  ASSUME DocInv, NEW p \in AuthPages \cup {"google"}, NEW entries, CacheOK(entries), Leave(p, entries)
  PROVE  DocInv' /\ ~InApp'
<1>1. page' = p /\ menuTok' = NONE /\ pageTok' = NONE /\ cache' = entries /\ lent' = lent
  BY DEF Leave
<1>2. ~InApp'
  BY <1>1 DEF InApp, AppPages, AuthPages
<1>3. HeldOK'
  BY <1>1, <1>2, TokensAreNot DEF DocInv, HeldOK
<1>4. CacheOK(cache)'
  BY <1>1 DEF CacheOK
<1>. QED  BY <1>2, <1>3, <1>4 DEF DocInv, ForeignRequestsAreLent, ForeignDataIsRecent

\* A page of the application that mounts: what it finds of somebody else is lent to it,
\* and what it asks for is its own.
LEMMA EnterKeeps ==
  ASSUME DocInv, NEW p \in AppPages, NEW t \in Tokens, NEW entries, CacheOK(entries),
         Enter(p, t, entries)
  PROVE  DocInv' /\ InApp' /\ pageTok' = t /\ menuTok' = IF InApp THEN menuTok ELSE t
<1>1. /\ page' = p /\ pageTok' = t /\ menuTok' = IF InApp THEN menuTok ELSE t
      /\ cache' = [k \in UserKeys |->
           IF k \in Shows(p) THEN Observe(entries[k], t) ELSE entries[k]]
      /\ lent' = [k \in UserKeys |->
           \/ ~IsStale(entries[k]) /\ Foreign({t}, entries[k].data)
           \/ entries[k].fetch # "idle" /\ Foreign({t}, Owner[entries[k].by])]
  BY DEF Enter, ObserveOnMount
<1>2. InApp' /\ menuTok' \in Tokens
  BY <1>1 DEF InApp, DocInv, HeldOK
<1>3. lent' \in [UserKeys -> BOOLEAN]
  BY <1>1
<1>4. HeldOK'
  BY <1>1, <1>2, <1>3 DEF HeldOK, AppPages
<1>5. Shows(p) \subseteq UserKeys
  BY DEF Shows, UserKeys
<1>6. ASSUME NEW k \in UserKeys
      PROVE  /\ Observe(entries[k], t) \in Entries(Users, Tokens)
             /\ Observe(entries[k], t).fetch # "idle" => Observe(entries[k], t).by \in Tokens
             /\ Observe(entries[k], t).data = entries[k].data
             /\ IsStale(entries[k]) => Observe(entries[k], t).fetch # "idle"
             /\ \/ Observe(entries[k], t) = entries[k]
                \/ entries[k].fetch = "idle" /\ Observe(entries[k], t).by = t
  <2>1. /\ entries[k] \in Entries(Users, Tokens)
        /\ entries[k].fetch # "idle" => entries[k].by \in Tokens
    BY CacheFields
  <2>2. /\ Observe(entries[k], t) \in Entries(Users, Tokens)
        /\ Observe(entries[k], t).data = entries[k].data
        /\ Observe(entries[k], t) = IF IsStale(entries[k]) THEN Fetch(entries[k], t) ELSE entries[k]
    BY <2>1, ObserveEntry
  <2>3. /\ entries[k].fetch = "idle" => Fetch(entries[k], t).fetch = "sent" /\ Fetch(entries[k], t).by = t
        /\ entries[k].fetch # "idle" => Fetch(entries[k], t) = entries[k]
    BY <2>1, FetchEntry
  <2>. QED  BY <2>1, <2>2, <2>3
<1>7. CacheOK(cache)'
  <2>1. \A k \in UserKeys : cache'[k] = Observe(entries[k], t) \/ cache'[k] = entries[k]
    BY <1>1
  <2>2. cache' = [k \in UserKeys |-> cache'[k]]
    BY <1>1
  <2>. QED  BY <1>6, <2>1, <2>2 DEF CacheOK
<1>8. ASSUME NEW k \in Shows(p)
      PROVE  /\ k \in UserKeys /\ cache'[k] = Observe(entries[k], t)
             /\ ~IsStale(entries[k]) /\ Foreign({t}, entries[k].data) => lent'[k]
             /\ entries[k].fetch # "idle" /\ Foreign({t}, Owner[entries[k].by]) => lent'[k]
  BY <1>1, <1>5
<1>9. ForeignRequestsAreLent'
  <2>1. SUFFICES ASSUME NEW k \in Shows(p), cache'[k].fetch # "idle",
                        Foreign({pageTok', menuTok'}, Owner[cache'[k].by])
                 PROVE  lent'[k]
    BY <1>1 DEF ForeignRequestsAreLent, Shows, Foreign
  <2>2. Foreign({t}, Owner[cache'[k].by]) /\ Owner[cache'[k].by] # Owner[t]
    BY <1>1, <2>1, ForeignToLess
  <2>3. cache'[k] = entries[k]
    BY <1>6, <1>8, <2>2
  <2>. QED  BY <1>8, <2>1, <2>2, <2>3
<1>10. ForeignDataIsRecent'
  <2>1. SUFFICES ASSUME NEW k \in Shows(p), Foreign({pageTok', menuTok'}, cache'[k].data)
                 PROVE  lent'[k] \/ cache'[k].fetch # "idle"
    BY <1>1 DEF ForeignDataIsRecent, Shows, Foreign
  <2>2. Foreign({t}, entries[k].data)
    BY <1>1, <1>6, <1>8, <2>1, ForeignToLess
  <2>. QED  BY <1>6, <1>8, <2>2
<1>. QED  BY <1>1, <1>2, <1>4, <1>7, <1>9, <1>10 DEF DocInv

LEMMA SessionStarts == SessionInit => SessionInv
<1>1. ASSUME SessionInit PROVE SessionInv
  <2>1. ~InApp /\ CacheOK(cache)
    BY <1>1, NoCacheOK DEF SessionInit, InApp, AppPages
  <2>2. Off \in Widgets
    BY SessionAssumption DEF Off, Widgets
  <2>3. SharedOK
    BY <1>1, <2>2 DEF SessionInit, SharedOK
  <2>4. HeldOK
    BY <1>1, <2>1, TokensAreNot DEF SessionInit, HeldOK, AuthPages
  <2>. QED
    BY <2>1, <2>3, <2>4, SessionParts
    DEF DocInv, ForeignRequestsAreLent, ForeignDataIsRecent, HeaderAgrees
<1>. QED  BY <1>1

\* A widget that is stopped, or left by its page, is one.
LEMMA WidgetsStop ==
  ASSUME NEW w \in Widgets
  PROVE  Off \in Widgets /\ Stopped(w) \in Widgets /\ Unmounted(w) \in Widgets
<1>1. Off \in Widgets
  BY SessionAssumption DEF Off, Widgets
<1>2. [w EXCEPT !.phase = "off", !.mounted = FALSE] \in Widgets /\ [w EXCEPT !.mounted = FALSE] \in Widgets
  BY DEF Widgets
<1>. QED  BY <1>1, <1>2 DEF Stopped, Unmounted

LEMMA MovesIsOne == ASSUME NEW own, Moves(own) PROVE moved' \in BOOLEAN
BY DEF Moves

\* A layout whose tab does not move it keeps a header that agrees.
LEMMA AgreesOutside == ASSUME ~InApp' PROVE HeaderAgrees'
BY DEF HeaderAgrees

LEMMA AgreesKept ==
  ASSUME HeaderAgrees, page' = page, menuTok' = menuTok, pageTok' = pageTok, stored' = stored,
         ~moved' => ~moved \/ ~InApp
  PROVE  HeaderAgrees'
BY DEF HeaderAgrees, InApp

\* The answer of a form or a widget.
LEMMA SignedIn ==
  ASSUME DocInv, HeaderAgrees, NEW k \in Tokens, SignIn(k)
  PROVE  DocInv' /\ HeaderAgrees' /\ stored' \in Tokens /\ moved' \in BOOLEAN
<1>1. stored' = k /\ Moves(FALSE) /\ moved' \in BOOLEAN
  BY MovesIsOne DEF SignIn
<1>2. InApp /\ InApp' /\ ~moved' => ~moved /\ stored' = stored
  BY <1>1 DEF Moves, InApp
<1>3. CASE page = "overview"
  <2>1. UNCHANGED docVars
    BY <1>3 DEF SignIn
  <2>2. DocInv'
    BY <2>1, DocKept
  <2>3. HeaderAgrees'
    BY <1>2, <2>1 DEF docVars, HeaderAgrees, InApp
  <2>. QED  BY <1>1, <2>2, <2>3
<1>4. CASE page # "overview"
  <2>1. Enter("overview", k, cache) /\ CacheOK(cache) /\ "overview" \in AppPages
    BY <1>4 DEF SignIn, DocInv, AppPages
  <2>2. DocInv' /\ InApp' /\ pageTok' = k /\ menuTok' = IF InApp THEN menuTok ELSE k
    BY <2>1, EnterKeeps
  <2>3. HeaderAgrees'
    BY <1>1, <1>2, <2>2 DEF HeaderAgrees
  <2>. QED  BY <1>1, <2>2, <2>3
<1>. QED  BY <1>3, <1>4

LEMMA SessionStep == SessionInv /\ [SessionNext]_sessionVars => SessionInv'
<1>. SUFFICES ASSUME SessionInv, [SessionNext]_sessionVars PROVE SharedOK' /\ DocInv' /\ HeaderAgrees'
  <2>1. SharedOK' /\ DocInv' /\ HeaderAgrees' => SessionInv'
    BY DEF SessionInv, SharedOK, HeldOK, CacheOK, DocInv, SessionTypeOK, AskedWithTokens
  <2>. QED  BY <2>1
<1>0. SharedOK /\ DocInv /\ HeaderAgrees /\ CacheOK(cache)
  BY SessionParts DEF DocInv
<1>. DEFINE Kept == SharedOK' /\ DocInv' /\ HeaderAgrees'
<1>1. /\ stored \in Tokens \cup {NONE} /\ cookie \in {"mine", "other"} /\ expired \subseteq Tokens
      /\ form \in BOOLEAN /\ widget \in Widgets /\ moved \in BOOLEAN
  BY <1>0 DEF SharedOK
<1>2. Off \in Widgets /\ Stopped(widget) \in Widgets /\ Unmounted(widget) \in Widgets
  BY <1>1, WidgetsStop
\* Only the widget, the form or what is expired changes.
<1>3. ASSUME stored' = stored, cookie' = cookie, moved' = moved, UNCHANGED docVars,
             expired' \subseteq Tokens, form' \in BOOLEAN, widget' \in Widgets
      PROVE  Kept
  <2>1. SharedOK'
    BY <1>1, <1>3 DEF SharedOK
  <2>2. page' = page /\ menuTok' = menuTok /\ pageTok' = pageTok
    BY <1>3 DEF docVars
  <2>3. HeaderAgrees'
    BY <1>0, <1>3, <2>2 DEF HeaderAgrees, InApp
  <2>. QED  BY <1>0, <1>3, <2>1, <2>3, DocKept
<1>4. ASSUME NEW w \in Widgets, SetWidget(w) PROVE Kept
  BY <1>1, <1>3, <1>4 DEF SetWidget
\* The tab leaves the application or stays out of it.
<1>5. ASSUME NEW p \in AuthPages \cup {"google"}, NEW entries, CacheOK(entries), Leave(p, entries),
             stored' \in Tokens \cup {NONE}, cookie' \in {"mine", "other"}, expired' = expired,
             form' \in BOOLEAN, widget' \in Widgets, Moves(TRUE)
      PROVE  Kept
  <2>1. DocInv' /\ ~InApp'
    BY <1>0, <1>5, LeaveKeeps
  <2>2. SharedOK'
    BY <1>1, <1>5, MovesIsOne DEF SharedOK
  <2>. QED  BY <2>1, <2>2, AgreesOutside
<1>6. CASE SessionTick
  <2>1. /\ stored' = stored /\ cookie' = cookie /\ expired' = expired /\ page' = page
        /\ menuTok' = menuTok /\ pageTok' = pageTok /\ form' = form /\ lent' = lent /\ moved' = moved
        /\ cache' = [k \in UserKeys |-> Older(cache[k])]
    BY <1>6 DEF SessionTick
  <2>2. widget' \in Widgets
    <3>. DEFINE left == IF widget.left > 0 /\ widget.phase # "opening" THEN widget.left - 1 ELSE widget.left
    <3>1. widget.left \in 0..WidgetTTL
      BY <1>1 DEF Widgets
    <3>2. left \in 0..WidgetTTL
      BY <3>1, SessionAssumption
    <3>3. widget' = [widget EXCEPT !.left = left]
      BY <1>6 DEF SessionTick
    <3>. HIDE DEF left
    <3>. QED  BY <1>1, <3>2, <3>3 DEF Widgets
  <2>3. ASSUME NEW k \in UserKeys
        PROVE  /\ Older(cache[k]) \in Entries(Users, Tokens) /\ cache'[k].fetch = cache[k].fetch
               /\ cache'[k].data = cache[k].data /\ cache'[k].by = cache[k].by
    <3>1. cache[k] \in Entries(Users, Tokens)
      BY <1>0, CacheFields
    <3>2. cache'[k] = Older(cache[k])
      BY <2>1
    <3>. QED  BY <3>1, <3>2, OlderEntry
  <2>4. CacheOK(cache)'
    BY <1>0, <2>1, <2>3 DEF CacheOK
  <2>5. SharedOK' /\ HeldOK' /\ HeaderAgrees'
    BY <1>0, <2>1, <2>2 DEF SharedOK, DocInv, HeldOK, HeaderAgrees, InApp
  <2>6. Shows(page) \subseteq UserKeys
    BY DEF Shows, UserKeys
  <2>7. ForeignRequestsAreLent'
    BY <1>0, <2>1, <2>3, <2>6 DEF DocInv, ForeignRequestsAreLent, InApp
  <2>8. ForeignDataIsRecent'
    BY <1>0, <2>1, <2>3, <2>6 DEF DocInv, ForeignDataIsRecent, InApp
  <2>. QED  BY <2>4, <2>5, <2>7, <2>8 DEF DocInv
<1>7. CASE OtherTab
  <2>1. /\ stored' \in Tokens \cup {NONE} /\ cookie' \in {"mine", "other"}
        /\ expired' = expired /\ form' = form /\ widget' = widget /\ UNCHANGED docVars /\ Moves(FALSE)
    BY <1>1, <1>7 DEF OtherTab
  <2>2. SharedOK' /\ DocInv'
    BY <1>0, <1>1, <2>1, MovesIsOne, DocKept DEF SharedOK
  <2>3. HeaderAgrees'
    BY <1>0, <2>1 DEF Moves, docVars, HeaderAgrees, InApp
  <2>. QED  BY <2>2, <2>3
<1>8. CASE Load
  <2>1. /\ stored' = stored /\ cookie' = cookie /\ expired' = expired /\ form' = FALSE /\ widget' = Off
        /\ moved' = FALSE /\ pageTok' = stored /\ menuTok' = stored
        /\ page' = IF stored = NONE THEN "login" ELSE "overview"
        /\ cache' = IF stored = NONE THEN NoCache ELSE [k \in UserKeys |-> Fetch(Empty, stored)]
        /\ lent' = [k \in UserKeys |-> FALSE]
    BY <1>8 DEF Load
  <2>2. SharedOK'
    BY <1>1, <1>2, <2>1 DEF SharedOK
  <2>3. HeldOK' /\ HeaderAgrees'
    BY <1>1, <2>1, TokensAreNot DEF HeldOK, HeaderAgrees, InApp, AuthPages, AppPages
  <2>4. CASE stored = NONE
    <3>1. CacheOK(cache)' /\ ~InApp'
      BY <2>1, <2>4, NoCacheOK DEF CacheOK, InApp, AppPages
    <3>. QED
      BY <2>2, <2>3, <3>1 DEF DocInv, ForeignRequestsAreLent, ForeignDataIsRecent
  <2>5. CASE stored # NONE
    <3>1. stored \in Tokens
      BY <1>1, <2>5
    <3>2. /\ Fetch(Empty, stored) \in Entries(Users, Tokens) /\ Fetch(Empty, stored).data = NONE
          /\ Fetch(Empty, stored).by = stored /\ Fetch(Empty, stored).fetch = "sent"
      BY <3>1, EmptyEntry, FetchEntry
    <3>3. cache' = [k \in UserKeys |-> Fetch(Empty, stored)] /\ Shows(page') \subseteq UserKeys
      BY <2>1, <2>5 DEF Shows, UserKeys
    <3>4. CacheOK(cache)'
      BY <3>1, <3>2, <3>3 DEF CacheOK
    <3>5. ForeignDataIsRecent' /\ ForeignRequestsAreLent'
      BY <2>1, <3>2, <3>3 DEF ForeignDataIsRecent, ForeignRequestsAreLent, Foreign
    <3>. QED  BY <2>2, <2>3, <3>4, <3>5 DEF DocInv
  <2>. QED  BY <2>4, <2>5
<1>9. CASE Logout
  BY <1>0, <1>1, <1>5, <1>9 DEF Logout, AuthPages
<1>10. ASSUME NEW p \in AppPages, Navigate(p) PROVE Kept
  <2>1. /\ stored' = stored /\ cookie' = cookie /\ expired' = expired /\ form' = form
        /\ widget' = widget /\ Moves(TRUE) /\ InApp
    BY <1>10 DEF Navigate
  <2>2. CASE stored = NONE
    BY <1>0, <1>1, <1>5, <1>10, <2>1, <2>2 DEF Navigate, AuthPages
  <2>3. CASE stored # NONE
    <3>1. stored \in Tokens /\ Enter(p, stored, cache)
      BY <1>1, <1>10, <2>3 DEF Navigate
    <3>2. DocInv' /\ InApp' /\ pageTok' = stored /\ menuTok' = menuTok
      BY <1>0, <2>1, <3>1, EnterKeeps
    <3>3. SharedOK'
      BY <1>1, <2>1, MovesIsOne DEF SharedOK
    <3>4. ~moved' => ~moved
      BY <2>1, <3>2 DEF Moves, InApp
    <3>5. HeaderAgrees'
      BY <1>0, <2>1, <3>2, <3>4 DEF HeaderAgrees
    <3>. QED  BY <3>2, <3>3, <3>5
  <2>. QED  BY <2>2, <2>3
<1>11. ASSUME NEW p \in AuthPages, Switch(p) PROVE Kept
  BY <1>0, <1>1, <1>2, <1>5, <1>11 DEF Switch
\* The API answers or refuses.
<1>12. ASSUME NEW k \in UserKeys, Served(k) PROVE Kept
  <2>. DEFINE t == cache[k].by  e == Settle(Serve(cache[k], Owner[t]))
  <2>1. /\ stored' = stored /\ cookie' = cookie /\ expired' = expired /\ page' = page
        /\ menuTok' = menuTok /\ pageTok' = pageTok /\ form' = form /\ widget' = widget /\ moved' = moved
        /\ cache' = [cache EXCEPT ![k] = e]
        /\ lent' = [lent EXCEPT ![k] = @ /\ Foreign({pageTok, menuTok} \ {NONE}, Owner[t])]
        /\ cache[k].fetch = "sent"
    BY <1>12 DEF Served
  <2>2. t \in Tokens /\ Owner[t] \in Users /\ cache[k] \in Entries(Users, Tokens)
    BY <1>0, <2>1, CacheFields, TokensAreNot
  <2>3. e \in Entries(Users, Tokens) /\ e.fetch = "idle" /\ e.data = Owner[t]
    <3>1. PICK f : f = Serve(cache[k], Owner[t])
      OBVIOUS
    <3>2. f \in Entries(Users, Tokens) /\ f.answer = Owner[t]
      BY <2>2, <3>1, ServeEntry
    <3>. QED  BY <3>1, <3>2, SettleEntry
  <2>. HIDE DEF t, e
  <2>4. /\ CacheOK(cache)' /\ cache'[k] = e
        /\ \A x \in UserKeys \ {k} : cache'[x] = cache[x]
    BY <1>0, <2>1, <2>3 DEF CacheOK
  <2>5. /\ lent' \in [UserKeys -> BOOLEAN]
        /\ \A x \in UserKeys \ {k} : lent'[x] = lent[x]
        /\ lent[k] /\ Foreign({pageTok, menuTok} \ {NONE}, Owner[t]) => lent'[k]
    BY <1>0, <2>1 DEF DocInv, HeldOK
  <2>6. SharedOK' /\ HeldOK' /\ HeaderAgrees'
    BY <1>0, <2>1, <2>5 DEF SharedOK, DocInv, HeldOK, HeaderAgrees, InApp
  <2>7. Shows(page) \subseteq UserKeys
    BY DEF Shows, UserKeys
  <2>8. ForeignRequestsAreLent'
    BY <1>0, <2>1, <2>3, <2>4, <2>5, <2>7 DEF DocInv, ForeignRequestsAreLent, InApp
  <2>9. InApp /\ k \in Shows(page) /\ Foreign({pageTok, menuTok}, Owner[t]) => lent'[k]
    <3>1. InApp => {pageTok, menuTok} \ {NONE} = {pageTok, menuTok}
      BY <1>0, TokensAreNot DEF DocInv, HeldOK
    <3>2. InApp /\ k \in Shows(page) /\ Foreign({pageTok, menuTok}, Owner[t]) => lent[k]
      BY <1>0, <2>1 DEF DocInv, ForeignRequestsAreLent, t
    <3>. QED  BY <2>5, <3>1, <3>2
  <2>10. ForeignDataIsRecent'
    BY <1>0, <2>1, <2>3, <2>4, <2>5, <2>7, <2>9 DEF DocInv, ForeignDataIsRecent, InApp
  <2>. QED  BY <2>4, <2>6, <2>8, <2>10 DEF DocInv
<1>13. ASSUME NEW k \in UserKeys, Refused(k) PROVE Kept
  <2>1. /\ stored' = stored /\ cookie' = cookie /\ expired' = expired /\ page' = page
        /\ menuTok' = menuTok /\ pageTok' = pageTok /\ form' = form /\ widget' = widget /\ moved' = moved
        /\ cache' = [cache EXCEPT ![k] = Idle(cache[k])] /\ lent' = [lent EXCEPT ![k] = TRUE]
    BY <1>13 DEF Refused
  <2>2. Idle(cache[k]) \in Entries(Users, Tokens) /\ Idle(cache[k]).fetch = "idle"
    BY <1>0, CacheFields, IdleEntry
  <2>3. /\ CacheOK(cache)' /\ cache'[k].fetch = "idle"
        /\ \A x \in UserKeys \ {k} : cache'[x] = cache[x]
    BY <1>0, <2>1, <2>2 DEF CacheOK
  <2>4. lent' \in [UserKeys -> BOOLEAN] /\ lent'[k] /\ \A x \in UserKeys \ {k} : lent'[x] = lent[x]
    BY <1>0, <2>1 DEF DocInv, HeldOK
  <2>5. SharedOK' /\ HeldOK' /\ HeaderAgrees'
    BY <1>0, <2>1, <2>4 DEF SharedOK, DocInv, HeldOK, HeaderAgrees, InApp
  <2>6. Shows(page) \subseteq UserKeys
    BY DEF Shows, UserKeys
  <2>7. ForeignRequestsAreLent' /\ ForeignDataIsRecent'
    BY <1>0, <2>1, <2>3, <2>4, <2>6
    DEF DocInv, ForeignRequestsAreLent, ForeignDataIsRecent, InApp
  <2>. QED  BY <2>3, <2>5, <2>7 DEF DocInv
<1>14. ASSUME NEW k \in Tokens, TokenExpires(k) PROVE Kept
  BY <1>1, <1>3, <1>14 DEF TokenExpires
\* Signing in.
<1>15. CASE Submit
  BY <1>1, <1>3, <1>15 DEF Submit
<1>16. ASSUME NEW k \in Tokens, SignIn(k), cookie' = cookie, expired' = expired,
              form' \in BOOLEAN, widget' \in Widgets
       PROVE  Kept
  <2>1. DocInv' /\ HeaderAgrees' /\ stored' \in Tokens /\ moved' \in BOOLEAN
    BY <1>0, <1>16, SignedIn
  <2>. QED  BY <1>1, <1>16, <2>1 DEF SharedOK
<1>17. CASE FormAnswers
  <2>1. form' = FALSE /\ cookie' = cookie /\ expired' = expired
    BY <1>17 DEF FormAnswers
  <2>2. ASSUME NEW k \in Tokens, SignIn(k), widget' = Unmounted(widget) PROVE Kept
    BY <1>2, <1>16, <2>1, <2>2
  <2>3. CASE UNCHANGED <<stored, widget, moved>> /\ UNCHANGED docVars
    BY <1>1, <1>3, <2>1, <2>3
  <2>. QED  BY <1>17, <2>2, <2>3 DEF FormAnswers
<1>18. CASE GoogleStart
  BY <1>1, <1>2, <1>5, <1>18, NoCacheOK DEF GoogleStart
<1>19. CASE GoogleReturns
  <2>1. /\ page = "google" /\ expired' = expired /\ form' = form /\ widget' = widget /\ Moves(TRUE)
        /\ cookie' \in {"mine", "other"} /\ ~InApp
    BY <1>1, <1>19 DEF GoogleReturns, InApp, AppPages
  <2>2. ASSUME NEW entries, CacheOK(entries), stored' = stored, Leave("login", entries) PROVE Kept
    BY <1>1, <1>5, <2>1, <2>2 DEF AuthPages
  <2>3. ASSUME NEW k \in Tokens, Callback(k) PROVE Kept
    <3>1. stored' = k /\ Enter("overview", k, NoCache) /\ "overview" \in AppPages
      BY <2>3 DEF Callback, AppPages
    <3>2. DocInv' /\ pageTok' = k /\ menuTok' = k
      BY <1>0, <2>1, <3>1, EnterKeeps, NoCacheOK
    <3>3. SharedOK'
      BY <1>1, <2>1, <3>1, MovesIsOne DEF SharedOK
    <3>. QED  BY <3>1, <3>2, <3>3 DEF HeaderAgrees
  <2>. QED  BY <1>0, <1>19, <2>2, <2>3, NoCacheOK DEF GoogleReturns, LoginWithGoogle
<1>20. ASSUME NEW kind \in {"qr", "telegram"}, OpenSession(kind) PROVE Kept
  <2>. DEFINE w == [kind |-> kind, phase |-> "opening", mounted |-> TRUE,
                    left |-> WidgetTTL, ask |-> "no"]
  <2>1. w \in Widgets
    BY SessionAssumption DEF Widgets
  <2>2. SetWidget(w)
    BY <1>20 DEF OpenSession
  <2>. QED  BY <1>4, <2>1, <2>2
<1>21. CASE SessionOpens
  <2>1. [widget EXCEPT !.phase = "polling"] \in Widgets
    BY <1>1 DEF Widgets
  <2>. QED  BY <1>2, <1>4, <1>21, <2>1 DEF SessionOpens
<1>22. CASE AskStatus
  <2>1. [widget EXCEPT !.ask = "sent"] \in Widgets
    BY <1>1 DEF Widgets
  <2>. QED  BY <1>4, <1>22, <2>1 DEF AskStatus
<1>23. CASE Approved
  <2>1. PICK k \in Tokens : SetWidget([widget EXCEPT !.ask = k])
    BY <1>23 DEF Approved
  <2>2. [widget EXCEPT !.ask = k] \in Widgets
    BY <1>1 DEF Widgets
  <2>. QED  BY <1>4, <2>1, <2>2
<1>24. CASE StatusComes
  <2>1. cookie' = cookie /\ expired' = expired /\ form' = form
    BY <1>24 DEF StatusComes
  <2>2. CASE widget.ask \in Tokens /\ SignIn(widget.ask) /\ widget' = Off
    BY <1>1, <1>2, <1>16, <2>1, <2>2
  <2>3. CASE /\ widget' = (IF widget.phase = "off" THEN Off ELSE [widget EXCEPT !.ask = "no"])
               \/ widget' = Off
             /\ UNCHANGED <<stored, moved>> /\ UNCHANGED docVars
    <3>1. [widget EXCEPT !.ask = "no"] \in Widgets
      BY <1>1 DEF Widgets
    <3>2. widget' \in Widgets
      BY <1>2, <2>3, <3>1
    <3>. QED  BY <1>1, <1>3, <2>1, <2>3, <3>2
  <2>. QED  BY <1>24, <2>2, <2>3 DEF StatusComes
<1>25. CASE TimeIsUp
  BY <1>2, <1>4, <1>25 DEF TimeIsUp
<1>26. CASE UNCHANGED sessionVars
  <2>1. UNCHANGED docVars
    BY <1>26 DEF sessionVars, docVars
  <2>. QED  BY <1>1, <1>3, <1>26, <2>1 DEF sessionVars
<1>. QED
  BY <1>6, <1>7, <1>8, <1>9, <1>10, <1>11, <1>12, <1>13, <1>14, <1>15, <1>17, <1>18, <1>19, <1>20,
     <1>21, <1>22, <1>23, <1>24, <1>25, <1>26
  DEF SessionNext

LEMMA SessionAlways == SessionSpec => []SessionInv
BY SessionStarts, SessionStep, PTL DEF SessionSpec

\* The variables have their types: a component holds a token inside the application and
\* nowhere else (useAuthToken, the layout, logout).
THEOREM SessionTypes == SessionSpec => []SessionTypeOK
<1>1. SessionInv => SessionTypeOK
  BY DEF SessionInv
<1>. QED  BY <1>1, SessionAlways, PTL

\* The header and the page of a tab speak for the user who is signed in, unless another
\* tab or a late answer changed the token under them.
THEOREM SessionHeaderAgrees == SessionSpec => []HeaderAgrees
<1>1. SessionInv => HeaderAgrees
  BY DEF SessionInv
<1>. QED  BY <1>1, SessionAlways, PTL

\* The data of somebody else is on the screen only as it was found when the page was
\* mounted, or while the request of this user is under way (QueryProvider, UserMenu's logout).
THEOREM SessionForeignIsRecent == SessionSpec => []ForeignDataIsRecent
<1>1. SessionInv => ForeignDataIsRecent
  BY DEF SessionInv
<1>. QED  BY <1>1, SessionAlways, PTL
=============================================================================
