----------------------------- MODULE QueryCache -----------------------------
(***************************************************************************)
(* One entry of the QueryClient every page of the web application shares,  *)
(* as the library keeps it under the options of query-provider.tsx: data   *)
(* younger than staleTime is taken as it is, one request at a time is      *)
(* under way for a key and whoever asks meanwhile waits for its answer,    *)
(* and the data of a key outlives the pages that asked for it.             *)
(***************************************************************************)
EXTENDS Naturals

CONSTANTS
  NONE,
  STALE  \* staleTime, in ticks

ASSUME QueryCacheAssumption == STALE \in Nat

Answers(D) == D \cup {NONE}

\* age is the time since the data came, STALE for "too old"; by is what the
\* request under way was sent with, answer what the API has answered so far.
Entries(D, B) == [data : Answers(D), age : 0..STALE, invalid : BOOLEAN,
                  fetch : {"idle", "sent", "answered"}, by : Answers(B), answer : Answers(D)]

Empty == [data |-> NONE, age |-> 0, invalid |-> FALSE,
          fetch |-> "idle", by |-> NONE, answer |-> NONE]

IsStale(e) == e.data = NONE \/ e.invalid \/ e.age = STALE

\* A request is sent, or the one under way is waited for.
Fetch(e, b) == IF e.fetch # "idle" THEN e ELSE [e EXCEPT !.fetch = "sent", !.by = b]

\* A component that shows the key is mounted, or enabled.
Observe(e, b) == IF IsStale(e) THEN Fetch(e, b) ELSE e

\* The API reads what it answers, and the answer arrives.
Serve(e, d) == [e EXCEPT !.fetch = "answered", !.answer = d]

Idle(e) == [e EXCEPT !.fetch = "idle", !.by = NONE, !.answer = NONE]

Settle(e) == [Idle(e) EXCEPT !.data = e.answer, !.age = 0, !.invalid = FALSE]

\* invalidateQueries: an observed key is asked for again, and a request under way
\* is dropped for it, but for the first one of a key, which is waited for.
Invalidate(e, observed, b) ==
  LET marked == [e EXCEPT !.invalid = TRUE]
  IN IF ~observed THEN marked
     ELSE Fetch(IF e.data = NONE THEN marked ELSE Idle(marked), b)

Older(e) == [e EXCEPT !.age = IF e.data # NONE /\ e.age < STALE THEN e.age + 1 ELSE e.age]
=============================================================================
