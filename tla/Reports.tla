------------------------------ MODULE Reports ------------------------------
(***************************************************************************)
(* The report pages: a choice (model and days on the performance page, a   *)
(* dimension on the creatives page) that is the key of a query, the date   *)
(* picker that makes a range out of presets and clicked days, and the      *)
(* drill-down from campaigns to ad sets to ads over the rows that came.    *)
(*                                                                         *)
(* Bounds: ChoiceBound changes of the choice; the days and presets that    *)
(* are offered; the rows of a report are those of Nodes, whatever its key  *)
(* (the API lists every campaign), and midnight passes at most once.       *)
(***************************************************************************)
EXTENDS QueryCache, Integers, Sequences

CONSTANTS
  FirstToday,   \* the day the behaviour starts on
  DaysOffered,  \* days somebody clicks in the calendar
  PresetsUsed,  \* presets somebody presses
  Nodes,        \* campaigns, ad sets, ads
  Parent,       \* [Nodes -> Nodes \cup {NONE}]
  Active,       \* nodes whose status is ACTIVE
  ChoiceBound

ASSUME ReportsAssumption ==
  /\ FirstToday \in Nat /\ DaysOffered \subseteq Int /\ NONE \notin Int
  /\ Parent \in [Nodes -> Nodes \cup {NONE}] /\ Active \subseteq Nodes
  /\ ChoiceBound \in Nat

VARIABLES
  today,     \* the browser's day
  screen,    \* "performance" or "creatives"
  choice,    \* what is selected: model, range with its label, dimension
  changes,   \* how often the choice was changed
  panel,     \* the date picker: open, and the days clicked
  reports,   \* [keys ever asked for -> Entries]
  status,    \* the status filter
  path       \* the rows drilled into

reportsVars == <<today, screen, choice, changes, panel, reports, status, path>>

Models == {"FIRST_TOUCH", "LAST_TOUCH"}
Dimensions == {"hook", "concept", "angle", "format", "video"}
PresetsBack == [Today |-> <<0, 0>>, Yesterday |-> <<1, 1>>, Last7 |-> <<6, 0>>,
                Last14 |-> <<13, 0>>, Last28 |-> <<27, 0>>, Last30 |-> <<29, 0>>]

ASSUME PresetsAssumption == PresetsUsed \subseteq DOMAIN PresetsBack

\* The page starts with a label and no days: the API's default.
FirstChoice == [model |-> "LAST_TOUCH", from |-> NONE, to |-> NONE, dimension |-> "hook"]

\* Mutant: the model is not part of the key.
KeyOfDays(c) == IF screen = "creatives" THEN <<"creatives", c.dimension>>
                                        ELSE <<"performance", c.from, c.to>>

\* queryKey of the two pages.
QueryKey(c) == IF screen = "creatives" THEN <<"creatives", c.dimension>>
                                       ELSE <<"performance", c.model, c.from, c.to>>

Entry(k) == IF k \in DOMAIN reports THEN reports[k] ELSE Empty

With(k, e) == [x \in DOMAIN reports \cup {k} |-> IF x = k THEN e ELSE reports[x]]

NoPanel == [open |-> FALSE, from |-> NONE, to |-> NONE]

ReportsInit ==
  /\ today = FirstToday /\ screen \in {"performance", "creatives"}
  /\ choice = FirstChoice /\ changes = 0 /\ panel = NoPanel
  /\ reports = [k \in {QueryKey(choice)} |-> Fetch(Empty, choice)]
  /\ status = "ALL" /\ path = <<>>

-----------------------------------------------------------------------------
(* The choice and its report.                                              *)

\* range(q): what the API reads where the query says nothing, by its own clock.
ApiRange(c) ==
  [c EXCEPT !.from = IF c.from = NONE THEN today - 30 ELSE c.from,
            !.to = IF c.to = NONE THEN today ELSE c.to]

\* Another choice is another query: it is asked for unless the cache has it fresh.
Choose(c) ==
  /\ changes < ChoiceBound /\ changes' = changes + 1
  /\ choice' = c
  /\ reports' = With(QueryKey(c), Observe(Entry(QueryKey(c)), c))
  /\ UNCHANGED <<today, screen, status, path>>

SetModel(m) ==
  /\ screen = "performance" /\ m # choice.model
  /\ Choose([choice EXCEPT !.model = m]) /\ UNCHANGED panel

SetDimension(d) ==
  /\ screen = "creatives" /\ d # choice.dimension
  /\ Choose([choice EXCEPT !.dimension = d]) /\ UNCHANGED panel

\* Answers come in any order, each for the key it was asked for.
ReportServed(k) ==
  /\ reports[k].fetch = "sent"
  /\ reports' = With(k, Settle(Serve(reports[k], ApiRange(reports[k].by))))
  /\ UNCHANGED <<today, screen, choice, changes, panel, status, path>>

ReportFails(k) ==
  /\ reports[k].fetch = "sent"
  /\ reports' = With(k, Idle(reports[k]))
  /\ UNCHANGED <<today, screen, choice, changes, panel, status, path>>

-----------------------------------------------------------------------------
(* The date picker.                                                        *)

SetPanel(p) == panel' = p /\ UNCHANGED <<today, screen, choice, changes, reports, status, path>>

\* Panel is mounted with the range that is shown, Cancel and a click outside close it.
OpenPanel ==
  /\ screen = "performance" /\ ~panel.open
  /\ SetPanel([open |-> TRUE, from |-> choice.from, to |-> choice.to])

ClosePanel == panel.open /\ SetPanel(NoPanel)

\* pickDay: the first click starts a range, the second ends it or moves its start.
PickDay(p, d) ==
  CASE p.from = NONE \/ p.to # NONE -> [p EXCEPT !.from = d, !.to = NONE]
    [] p.from # NONE /\ p.to = NONE /\ d < p.from -> [p EXCEPT !.from = d]
    [] OTHER -> [p EXCEPT !.to = d]

ClickDay(d) == panel.open /\ SetPanel(PickDay(panel, d))

ChooseRange(f, t) == Choose([choice EXCEPT !.from = f, !.to = t]) /\ panel' = NoPanel

ApplyPreset(p) ==
  /\ panel.open
  /\ ChooseRange(today - PresetsBack[p][1], today - PresetsBack[p][2])

ApplyCustom ==
  /\ panel.open /\ panel.from # NONE
  /\ ChooseRange(panel.from, IF panel.to = NONE THEN panel.from ELSE panel.to)

-----------------------------------------------------------------------------
(* The rows.                                                               *)

OnTable == UNCHANGED <<today, screen, choice, changes, panel, reports>>

CurrentCrumb == IF path = <<>> THEN NONE ELSE path[Len(path)]

ChildrenOf(n) == {r \in Nodes : Parent[r] = n}

\* What the table lists, once there is a report: the level drilled into, filtered.
VisibleRows ==
  IF screen = "creatives" \/ Entry(QueryKey(choice)).data = NONE THEN {}
  ELSE {r \in ChildrenOf(CurrentCrumb) : status = "ALL" \/ (r \in Active) = (status = "ACTIVE")}

SetStatus(s) == screen = "performance" /\ s # status /\ status' = s /\ UNCHANGED path /\ OnTable

DrillInto(r) ==
  /\ r \in VisibleRows /\ ChildrenOf(r) # {}
  /\ path' = Append(path, r) /\ UNCHANGED status /\ OnTable

\* A crumb, or "All campaigns".
BackTo(n) == n < Len(path) /\ path' = SubSeq(path, 1, n) /\ UNCHANGED status /\ OnTable

-----------------------------------------------------------------------------
\* The data of all keys grows old; midnight.
ReportsTick ==
  /\ \E k \in DOMAIN reports : Older(reports[k]) # reports[k]
  /\ reports' = [k \in DOMAIN reports |-> Older(reports[k])]
  /\ UNCHANGED <<today, screen, choice, changes, panel, status, path>>

Midnight ==
  /\ today = FirstToday /\ today' = today + 1
  /\ UNCHANGED <<screen, choice, changes, panel, reports, status, path>>

ReportsNext ==
  \/ \E m \in Models : SetModel(m)
  \/ \E d \in Dimensions : SetDimension(d)
  \/ \E k \in DOMAIN reports : ReportServed(k) \/ ReportFails(k)
  \/ OpenPanel \/ ClosePanel \/ ApplyCustom
  \/ \E d \in DaysOffered : ClickDay(d)
  \/ \E p \in PresetsUsed : ApplyPreset(p)
  \/ \E s \in {"ALL", "ACTIVE", "PAUSED"} : SetStatus(s)
  \/ \E r \in Nodes : DrillInto(r)
  \/ \E n \in 0..2 : BackTo(n)
  \/ ReportsTick \/ Midnight

-----------------------------------------------------------------------------
(* Properties.                                                             *)

\* The variables have their types, and the crumbs are a way down the tree: below the
\* first, each is a child of the one before it.
ReportsTypeOK ==
  /\ today \in {FirstToday, FirstToday + 1} /\ screen \in {"performance", "creatives"}
  /\ choice.model \in Models /\ choice.dimension \in Dimensions /\ changes \in 0..ChoiceBound
  /\ panel.open \in BOOLEAN /\ status \in {"ALL", "ACTIVE", "PAUSED"}
  /\ path # <<>> => Parent[path[1]] = NONE
  /\ \A i \in 2..Len(path) : Parent[path[i]] = path[i - 1]

\* The table is the report of the model and the days, or the dimension, the page says
\* it shows, whatever was asked for before and is answered late; and no sequence of
\* clicks makes these days end before they start, which the API answers with zeros.
ShownAsChosen ==
  /\ choice.from # NONE => choice.to # NONE /\ choice.from <= choice.to
  /\ LET shown == Entry(QueryKey(choice)).data
     IN shown # NONE =>
          IF screen = "creatives" THEN shown.dimension = choice.dimension
          ELSE /\ shown.model = choice.model
               /\ choice.from # NONE => shown.from = choice.from /\ shown.to = choice.to
=============================================================================
