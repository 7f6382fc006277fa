------------------------------ MODULE Session ------------------------------
(***************************************************************************)
(* Who is signed in, in one tab of the web application: the token in       *)
(* localStorage, which all tabs share, the copies the mounted components   *)
(* hold, the query cache of the tab, and the ways to a token: the forms,   *)
(* the two widgets that open a QR session and poll (QR code and Telegram   *)
(* button), and the round trip to Google.  The other tabs are one          *)
(* environment that changes what is shared.                                *)
(*                                                                         *)
(* Bounds: one widget polls and one form is under way at a time; a user    *)
(* has the tokens of Tokens, of which a sign-in signs one that is good.    *)
(***************************************************************************)
EXTENDS QueryCache, FiniteSets

CONSTANTS
  Users,
  Tokens,
  Owner,       \* [Tokens -> Users], the user a token was signed for
  WidgetTTL    \* expiresIn of a QR session, in ticks

ASSUME SessionAssumption ==
  /\ NONE \notin Users \cup Tokens
  /\ Owner \in [Tokens -> Users]
  /\ WidgetTTL \in Nat \ {0}

AuthPages == {"login", "register"}
AppPages == {"overview", "profile"}
UserKeys == {"me", "recommendations"}

VARIABLES
  stored,   \* localStorage: the token of this browser, or NONE
  cookie,   \* g_state: "mine" when it carries the state of this tab's start
  expired,  \* tokens that are over
  page,     \* what the tab shows
  menuTok,  \* the token UserMenu holds, NONE outside the application's layout
  pageTok,  \* the token the page holds
  cache,    \* [UserKeys -> Entries]
  form,     \* a request of a sign-in form is under way
  widget,   \* the widget that opens sessions and polls
  lent,     \* (history) [UserKeys -> BOOLEAN]: what a page found in the cache
  moved     \* (history) the stored token changed under the layout

docVars == <<page, menuTok, pageTok, cache, lent>>
sessionVars == <<stored, cookie, expired, page, menuTok, pageTok, cache, form, widget, lent, moved>>

\* A widget: which one, how far, whether it is mounted, the time its session has
\* left, and its poll: none, under way, or answered with a token.
Widgets == [kind : {"qr", "telegram"}, phase : {"off", "opening", "polling"}, mounted : BOOLEAN,
            left : 0..WidgetTTL, ask : {"no", "sent"} \cup Tokens]

Off == [kind |-> "qr", phase |-> "off", mounted |-> FALSE, left |-> 0, ask |-> "no"]

NoCache == [k \in UserKeys |-> Empty]

SessionInit ==
  /\ stored = NONE /\ cookie = "other" /\ expired = {}
  /\ page = "login" /\ menuTok = NONE /\ pageTok = NONE
  /\ cache = NoCache
  /\ form = FALSE /\ widget = Off
  /\ lent = [k \in UserKeys |-> FALSE] /\ moved = FALSE

-----------------------------------------------------------------------------
(* Pages.                                                                  *)

InApp == page \in AppPages

\* overview shows the profile and the recommendations, profile and menu the profile.
Shows(p) == IF p = "overview" THEN UserKeys ELSE {"me"}

\* What a tab shows is foreign when nobody it holds a token of owns it.
Foreign(held, user) == user # NONE /\ user \notin {Owner[k] : k \in held}

\* Mutant: staleTime Infinity: what is in the cache is never asked for again.
ObserveForever(e, b) == IF e.data = NONE THEN Fetch(e, b) ELSE e

\* What a page that mounts with a token takes from the cache, and asks for.
ObserveOnMount(e, b) == Observe(e, b)

\* The tab shows page p with the token its components read as they mount.  The
\* layout stays between two pages of the application, and with it the menu.
Enter(p, token, entries) ==
  /\ page' = p
  /\ pageTok' = token
  /\ menuTok' = IF InApp THEN menuTok ELSE token
  /\ cache' = [k \in UserKeys |->
       IF k \in Shows(p) THEN ObserveOnMount(entries[k], token) ELSE entries[k]]
  /\ lent' = [k \in UserKeys |->
       \/ ~IsStale(entries[k]) /\ Foreign({token}, entries[k].data)
       \/ entries[k].fetch # "idle" /\ Foreign({token}, Owner[entries[k].by])]

\* A page outside the application: no components that hold a token.
Leave(p, entries) ==
  /\ page' = p
  /\ pageTok' = NONE /\ menuTok' = NONE
  /\ cache' = entries
  /\ UNCHANGED lent

\* stop clears the timers; a poll under way is not called back.
Stopped(w) == IF w.ask = "no" THEN Off ELSE [w EXCEPT !.phase = "off", !.mounted = FALSE]

\* A widget that goes with its page is stopped, but not before it is open.
Unmounted(w) == IF w.phase = "opening" THEN [w EXCEPT !.mounted = FALSE] ELSE Stopped(w)

\* A layout that sees the stored token change under it, and is not replaced with it.
Moves(mine) == moved' = (page' \in AppPages /\ InApp /\ (moved \/ (stored' # stored /\ ~mine)))

\* Mutant: the page opens without a token as well.
NavigateUnguarded(p) ==
  /\ InApp /\ p # page
  /\ IF stored = NONE THEN page' = p /\ pageTok' = NONE /\ UNCHANGED <<menuTok, cache, lent>>
                      ELSE Enter(p, stored, cache)
  /\ UNCHANGED <<stored, cookie, expired, form, widget>> /\ Moves(TRUE)

\* A link of the navigation or of the menu; useAuthToken sends who has no token away.
Navigate(p) ==
  /\ InApp /\ p # page
  /\ IF stored = NONE THEN Leave("login", cache) ELSE Enter(p, stored, cache)
  /\ UNCHANGED <<stored, cookie, expired, form, widget>> /\ Moves(TRUE)

\* Mutant: the token is cleared, the page stays.
LogoutStays ==
  /\ InApp
  /\ stored' = NONE
  /\ UNCHANGED <<cookie, expired, form, widget>> /\ UNCHANGED docVars /\ Moves(TRUE)

\* logout of UserMenu: the query cache is left as it is.
Logout ==
  /\ InApp
  /\ stored' = NONE
  /\ Leave("login", cache)
  /\ UNCHANGED <<cookie, expired, form, widget>> /\ Moves(TRUE)

\* The site is opened or loaded again: a new document, which starts at Home.
Load ==
  /\ page # "google"
  /\ form' = FALSE /\ widget' = Off
  /\ page' = IF stored = NONE THEN "login" ELSE "overview"
  /\ pageTok' = stored /\ menuTok' = stored
  /\ cache' = IF stored = NONE THEN NoCache ELSE [k \in UserKeys |-> Fetch(Empty, stored)]
  /\ lent' = [k \in UserKeys |-> FALSE]
  /\ moved' = FALSE
  /\ UNCHANGED <<stored, cookie, expired>>

\* Between the two forms.
Switch(p) ==
  /\ page \in AuthPages /\ p \in AuthPages \ {page}
  /\ Leave(p, cache)
  /\ widget' = Unmounted(widget)
  /\ UNCHANGED <<stored, cookie, expired, form>> /\ Moves(TRUE)

\* Another tab of the browser signs in or out, or starts with Google.
OtherTab ==
  /\ \/ stored' \in (Tokens \ expired) \cup {NONE} /\ UNCHANGED cookie
     \/ cookie' = "other" /\ UNCHANGED stored
  /\ UNCHANGED <<expired, form, widget>> /\ UNCHANGED docVars /\ Moves(FALSE)

-----------------------------------------------------------------------------
(* The API: JWTs, and the profile and recommendations they are good for.   *)

\* issue signs a token that names its user.
Issue(k) == k \notin expired

\* The middleware verifies the token of a request, the guard wants a user, and the
\* answer is taken into the cache, whoever looks at it by now.
Served(k) ==
  /\ cache[k].fetch = "sent" /\ cache[k].by \notin expired
  /\ cache' = [cache EXCEPT ![k] = Settle(Serve(@, Owner[@.by]))]
  /\ lent' = [lent EXCEPT ![k] =
       @ /\ Foreign({pageTok, menuTok} \ {NONE}, Owner[cache[k].by])]
  /\ UNCHANGED <<stored, cookie, expired, page, menuTok, pageTok, form, widget, moved>>

\* The network, or a token that is over (401): no component looks at the error.
Refused(k) ==
  /\ cache[k].fetch = "sent"
  /\ cache' = [cache EXCEPT ![k] = Idle(@)]
  /\ lent' = [lent EXCEPT ![k] = TRUE]
  /\ UNCHANGED <<stored, cookie, expired, page, menuTok, pageTok, form, widget, moved>>

\* Seven days after a token was signed.
TokenExpires(k) ==
  /\ k \notin expired \cup {widget.ask}
  /\ expired' = expired \cup {k}
  /\ UNCHANGED <<stored, cookie, form, widget, moved>> /\ UNCHANGED docVars

-----------------------------------------------------------------------------
(* Signing in.                                                             *)

\* setToken and router.push: the answer of a form or a widget counts wherever the
\* tab is by now; a page that is already there is not mounted again.
SignIn(k) ==
  /\ stored' = k
  /\ IF page = "overview" THEN UNCHANGED docVars ELSE Enter("overview", k, cache)
  /\ Moves(FALSE)

\* onSubmit of the login and the registration page.
Submit ==
  /\ page \in AuthPages /\ ~form
  /\ form' = TRUE
  /\ UNCHANGED <<stored, cookie, expired, widget, moved>> /\ UNCHANGED docVars

FormAnswers ==
  /\ form
  /\ form' = FALSE
  /\ \/ \E k \in Tokens : Issue(k) /\ SignIn(k) /\ widget' = Unmounted(widget)
     \/ UNCHANGED <<stored, widget, moved>> /\ UNCHANGED docVars
  /\ UNCHANGED <<cookie, expired>>

SetWidget(w) ==
  /\ widget' = w
  /\ UNCHANGED <<stored, cookie, expired, form, moved>> /\ UNCHANGED docVars

\* The QR code opens a session as the login page shows, the button when it is pressed.
OpenSession(kind) ==
  /\ page = "login" \/ (kind = "telegram" /\ page = "register")
  /\ widget.phase = "off" /\ widget.ask = "no"
  /\ SetWidget([kind |-> kind, phase |-> "opening", mounted |-> TRUE,
                left |-> WidgetTTL, ask |-> "no"])

\* The session is there: timers start, on a page that may be gone.  Or it failed.
SessionOpens ==
  /\ widget.phase = "opening"
  /\ SetWidget([widget EXCEPT !.phase = "polling"]) \/ SetWidget(Off)

AskStatus ==
  /\ widget.phase = "polling" /\ widget.ask = "no"
  /\ widget.kind = "qr" \/ widget.left > 0
  /\ SetWidget([widget EXCEPT !.ask = "sent"])

\* Somebody has confirmed on a phone before the session was over.
Approved ==
  /\ widget.ask = "sent" /\ widget.left > 0
  /\ \E k \in Tokens : Issue(k) /\ SetWidget([widget EXCEPT !.ask = k])

\* The answer of a poll: a token, pending (or lost), or expired.
StatusComes ==
  /\ \/ /\ widget.ask \in Tokens
        /\ SignIn(widget.ask)
        /\ widget' = Off
     \/ /\ widget.ask = "sent"
        /\ \/ widget' = IF widget.phase = "off" THEN Off ELSE [widget EXCEPT !.ask = "no"]
           \/ widget.left = 0 /\ widget' = Off
        /\ UNCHANGED <<stored, moved>> /\ UNCHANGED docVars
  /\ UNCHANGED <<cookie, expired, form>>

\* Mutant: no deadline, "keep polling until approved".
TimeIsUpNever ==
  /\ widget.phase = "polling" /\ widget.left = 0
  /\ widget.kind = "qr" /\ widget.mounted
  /\ SetWidget(Stopped(widget))

\* The button's poll looks at its deadline first; the countdown of the QR code ends
\* its timers as long as the page is there to count.
TimeIsUp ==
  /\ widget.phase = "polling" /\ widget.left = 0
  /\ widget.kind = "telegram" \/ widget.mounted
  /\ SetWidget(Stopped(widget))

\* googleStart: a fresh state in the one cookie of the browser, and the document is left.
GoogleStart ==
  /\ page \in AuthPages
  /\ cookie' = "mine"
  /\ Leave("google", NoCache)
  /\ form' = FALSE /\ widget' = Off
  /\ UNCHANGED <<stored, expired>> /\ Moves(TRUE)

\* The callback page stores the token of its URL.
Callback(k) == stored' = k /\ Enter("overview", k, NoCache)

\* loginWithGoogle, whose exchange may fail.
LoginWithGoogle ==
  \/ \E k \in Tokens : Issue(k) /\ Callback(k)
  \/ UNCHANGED stored /\ Leave("login", NoCache)

\* googleCallback: only with the state of this start in the cookie, which is cleared.
GoogleReturns ==
  /\ page = "google"
  /\ \/ cookie = "mine" /\ cookie' = "other" /\ LoginWithGoogle
     \/ cookie # "mine" /\ UNCHANGED <<stored, cookie>> /\ Leave("login", NoCache)
  /\ UNCHANGED <<expired, form, widget>> /\ Moves(TRUE)

-----------------------------------------------------------------------------
SessionTick ==
  /\ widget.left > 0 \/ \E k \in UserKeys : Older(cache[k]) # cache[k]
  /\ cache' = [k \in UserKeys |-> Older(cache[k])]
  /\ widget' = [widget EXCEPT !.left = IF @ > 0 /\ widget.phase # "opening" THEN @ - 1 ELSE @]
  /\ UNCHANGED <<stored, cookie, expired, page, menuTok, pageTok, form, lent, moved>>

SessionNext ==
  \/ SessionTick \/ OtherTab \/ Load \/ Logout
  \/ \E p \in AppPages : Navigate(p)
  \/ \E p \in AuthPages : Switch(p)
  \/ \E k \in UserKeys : Served(k) \/ Refused(k)
  \/ \E k \in Tokens : TokenExpires(k)
  \/ Submit \/ FormAnswers \/ GoogleStart \/ GoogleReturns
  \/ \E kind \in {"qr", "telegram"} : OpenSession(kind)
  \/ SessionOpens \/ AskStatus \/ Approved \/ StatusComes \/ TimeIsUp

\* Time passes and timers fire; answers need not come.
TimersFire == WF_sessionVars(SessionTick) /\ WF_sessionVars(TimeIsUp)

SessionSpec == SessionInit /\ [][SessionNext]_sessionVars /\ TimersFire

-----------------------------------------------------------------------------
(* Properties.                                                             *)

\* The variables have their types, and components hold tokens inside the application
\* only: Home, useAuthToken and logout let no page of it show without one.
SessionTypeOK ==
  /\ stored \in Tokens \cup {NONE} /\ cookie \in {"mine", "other"}
  /\ expired \subseteq Tokens
  /\ page \in AuthPages \cup AppPages \cup {"google"}
  /\ InApp <=> menuTok \in Tokens
  /\ InApp <=> pageTok \in Tokens
  /\ cache \in [UserKeys -> Entries(Users, Tokens)]
  /\ form \in BOOLEAN /\ widget \in Widgets
  /\ lent \in [UserKeys -> BOOLEAN] /\ moved \in BOOLEAN

\* A tab shows the data of somebody else only as what it found when the page was
\* mounted: younger than staleTime, or on its way for the token held before, or
\* left standing by a request that failed, and otherwise only until the request it
\* sent is answered.  Logging out clears no cache; this is the bound on the harm.
ForeignDataIsRecent ==
  InApp => \A k \in Shows(page) :
    Foreign({pageTok, menuTok}, cache[k].data) => lent[k] \/ cache[k].fetch # "idle"

\* Header and page of a tab speak for the user who is signed in, through any
\* sequence of sign-ins, sign-outs and failures of the tab itself: only another
\* tab, or an answer that comes when the form or widget is gone, can part them.
HeaderAgrees == InApp /\ ~moved => menuTok = pageTok /\ pageTok = stored

\* The poll of the Telegram button ends with its session, also one that started
\* when the page had gone, and also when the API never answers again.
TelegramPollEnds ==
  (widget.kind = "telegram" /\ widget.phase = "polling") ~> (widget.phase # "polling")
=============================================================================
