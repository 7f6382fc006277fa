------------------------------ MODULE QrLogin ------------------------------
(***************************************************************************)
(* One QR-login session: QrLoginService over its Redis key, the desktop    *)
(* page that shows the code and polls (qr-login.tsx), the people who       *)
(* confirm through the Telegram bot or through Google, and the page one of *)
(* them has open on the phone (qr/[qrId]/page.tsx).                        *)
(*                                                                         *)
(* Each Redis command is one step.  The desktop polls every two seconds    *)
(* without waiting for the previous answer, so polls overlap; approvals    *)
(* of two people overlap as well, but for two updates of the bot, which    *)
(* handles one after the other.                                            *)
(*                                                                         *)
(* Bounds: the phone has one poll under way at a time, and its clock is    *)
(* that of the desktop.                                                    *)
(***************************************************************************)
EXTENDS Naturals

CONSTANTS
  NOBODY,
  Approvals, \* login requests carrying this qrId, each with a login of its own
  Via,       \* [Approvals -> {"bot", "google"}]
  Polls,     \* polls of the desktop that may be under way at once
  TTL,       \* TTL_SECONDS, in ticks
  Crashes    \* whether the API process may die

ASSUME QrLoginAssumption ==
  /\ NOBODY \notin Approvals
  /\ Via \in [Approvals -> {"bot", "google"}]
  /\ TTL \in Nat \ {0}
  /\ Crashes \in BOOLEAN

VARIABLES
  status,    \* the key in Redis: "absent" | "pending" | "approved"
  user,      \* the approval whose login it carries
  left,      \* its time to live, 0 for none
  desk,      \* the page: "loading" | "opening" | "ready" | "signedIn" | "expired" | "error"
  count,     \* secondsLeft
  signedAs,  \* whose token it stored
  poll,      \* [Polls -> "idle" | "get" | "del" | "approved" | "pending" | "expired"]
  got,       \* [Polls -> Approvals \cup {NOBODY}], the token on its way
  req,       \* [Approvals -> "idle" | "queued" | "get" | "ttl" | "set" | "ok" | "expired" | "dead"]
  seen,      \* [Approvals -> 0..TTL], the time to live it read
  told,      \* [Approvals -> "nothing" | "success" | "expired"], by the bot or the redirect
  watched,   \* the approval whose phone is looked at
  phone,     \* its page: "off" | "choose" | "away" | "approved" | "expired" | "login"
  phoneLeft, \* its secondsLeft
  info,      \* its poll: "idle" | "sent" | "pending" | "approved" | "expired"
  overlapped \* (history) two approvals, or two polls, were under way at once

keyVars == <<status, user, left>>
deskVars == <<desk, count, signedAs>>
pollVars == <<poll, got>>
approvalVars == <<req, seen, told>>
phoneVars == <<watched, phone, phoneLeft, info>>
loginVars == <<keyVars, deskVars, pollVars, approvalVars, phoneVars, overlapped>>

LoginInit ==
  /\ status = "absent" /\ user = NOBODY /\ left = 0
  /\ desk = "loading" /\ count = 0 /\ signedAs = NOBODY
  /\ poll = [p \in Polls |-> "idle"]
  /\ got = [p \in Polls |-> NOBODY]
  /\ req = [a \in Approvals |-> "idle"]
  /\ seen = [a \in Approvals |-> 0]
  /\ told = [a \in Approvals |-> "nothing"]
  /\ watched \in Approvals /\ phone = "off" /\ phoneLeft = 0 /\ info = "idle"
  /\ overlapped = FALSE

-----------------------------------------------------------------------------
(* Time: Redis lets keys expire, the pages count down.                     *)

Gone == status' = "absent" /\ user' = NOBODY /\ left' = 0

\* The phone's countdown, from "exp" alone.
PhoneTicks ==
  /\ phoneLeft' = IF phone = "choose" /\ phoneLeft > 0 THEN phoneLeft - 1 ELSE phoneLeft
  /\ phone' = IF phone = "choose" /\ phoneLeft <= 1 THEN "expired" ELSE phone

Tick ==
  /\ left > 0 \/ count > 0 \/ phone = "choose"
  /\ \/ left = 1 /\ Gone
     \/ left > 1 /\ left' = left - 1 /\ UNCHANGED <<status, user>>
     \/ left = 0 /\ UNCHANGED keyVars
  /\ count' = IF count > 0 THEN count - 1 ELSE 0
  /\ desk' = IF count = 1 THEN "expired" ELSE desk
  /\ PhoneTicks
  /\ UNCHANGED <<signedAs, pollVars, approvalVars, watched, info>>

-----------------------------------------------------------------------------
(* The desktop.                                                            *)

\* POST /auth/qr/start ...
Start ==
  /\ desk = "loading"
  /\ status' = "pending" /\ user' = NOBODY /\ left' = TTL
  /\ desk' = "opening"
  /\ UNCHANGED <<count, signedAs, pollVars, approvalVars, phoneVars>>

\* ... and its answer: the code is shown, the countdown and the polls start.
Show ==
  /\ desk = "opening"
  /\ desk' = "ready" /\ count' = TTL
  /\ UNCHANGED <<keyVars, signedAs, pollVars, approvalVars, phoneVars>>

StartFails ==
  /\ desk \in {"loading", "opening"}
  /\ desk' = "error"
  /\ UNCHANGED <<keyVars, count, signedAs, pollVars, approvalVars, phoneVars>>

SendPoll(p) ==
  /\ desk = "ready"
  /\ poll[p] = "idle"
  /\ poll' = [poll EXCEPT ![p] = "get"]
  /\ UNCHANGED <<keyVars, deskVars, got, approvalVars, phoneVars>>

\* The page stops its timers; a poll under way still has its say.
StopTimers(phase) == desk' = phase /\ count' = 0

\* The answer arrives, "approved" with the token.
PollAnswer(p) ==
  /\ poll[p] \in {"approved", "pending", "expired"}
  /\ \/ poll[p] = "approved" /\ signedAs' = got[p] /\ StopTimers("signedIn")
     \/ poll[p] = "expired" /\ signedAs' = signedAs
        /\ StopTimers(IF desk = "signedIn" THEN desk ELSE "expired")
     \/ poll[p] = "pending" /\ UNCHANGED deskVars
  /\ poll' = [poll EXCEPT ![p] = "idle"]
  /\ got' = [got EXCEPT ![p] = NOBODY]
  /\ UNCHANGED <<keyVars, approvalVars, phoneVars>>

\* Request or answer are lost: "transient - keep polling".
LosePoll(p) ==
  /\ poll[p] # "idle"
  /\ poll' = [poll EXCEPT ![p] = "idle"]
  /\ got' = [got EXCEPT ![p] = NOBODY]
  /\ UNCHANGED <<keyVars, deskVars, approvalVars, phoneVars>>

-----------------------------------------------------------------------------
(* QrLoginService.status and info.                                         *)

PollGet(p) ==
  /\ poll[p] = "get"
  /\ poll' = [poll EXCEPT ![p] = IF status = "absent" THEN "expired"
                                  ELSE IF status = "pending" THEN "pending" ELSE "del"]
  /\ got' = [got EXCEPT ![p] = user]
  /\ UNCHANGED <<keyVars, deskVars, approvalVars, phoneVars>>

\* The key is dropped by name, whatever it holds by now.
PollDel(p) ==
  /\ poll[p] = "del"
  /\ Gone
  /\ poll' = [poll EXCEPT ![p] = "approved"]
  /\ UNCHANGED <<deskVars, got, approvalVars, phoneVars>>

\* What the phone is told; the time left, which it does not use, is left out.
InfoGet ==
  /\ info = "sent"
  /\ info' = IF status = "absent" THEN "expired" ELSE status
  /\ UNCHANGED <<keyVars, deskVars, pollVars, approvalVars, watched, phone, phoneLeft>>

-----------------------------------------------------------------------------
(* QrLoginService.approve, for a login that has been issued.               *)

\* Mutant: no look at what became of the session.
ApproveGetAny(a) ==
  /\ req[a] = "get"
  /\ req' = [req EXCEPT ![a] = "ttl"]
  /\ UNCHANGED <<keyVars, deskVars, pollVars, seen, told, phoneVars>>

ApproveGet(a) ==
  /\ req[a] = "get"
  /\ req' = [req EXCEPT ![a] = IF status = "absent" THEN "expired"
                                ELSE IF status = "approved" THEN "ok" ELSE "ttl"]
  /\ UNCHANGED <<keyVars, deskVars, pollVars, seen, told, phoneVars>>

\* Redis answers a negative time to live when the key has gone: 0 here.
ApproveTtl(a) ==
  /\ req[a] = "ttl"
  /\ seen' = [seen EXCEPT ![a] = left]
  /\ req' = [req EXCEPT ![a] = "set"]
  /\ UNCHANGED <<keyVars, deskVars, pollVars, told, phoneVars>>

\* Mutant: SET without EX, which makes the key permanent.
ApproveSetForever(a) ==
  /\ req[a] = "set"
  /\ status' = "approved" /\ user' = a /\ left' = 0
  /\ req' = [req EXCEPT ![a] = "ok"]
  /\ UNCHANGED <<deskVars, pollVars, seen, told, phoneVars>>

\* Mutant: "expired" to the phone when the time to live was over, the key set all the same.
ApproveSetTellsTtl(a) ==
  /\ req[a] = "set"
  /\ status' = "approved" /\ user' = a
  /\ left' = IF seen[a] > 0 THEN seen[a] ELSE TTL
  /\ req' = [req EXCEPT ![a] = IF seen[a] > 0 THEN "ok" ELSE "expired"]
  /\ UNCHANGED <<deskVars, pollVars, seen, told, phoneVars>>

ApproveSet(a) ==
  /\ req[a] = "set"
  /\ status' = "approved" /\ user' = a
  /\ left' = IF seen[a] > 0 THEN seen[a] ELSE TTL
  /\ req' = [req EXCEPT ![a] = "ok"]
  /\ UNCHANGED <<deskVars, pollVars, seen, told, phoneVars>>

-----------------------------------------------------------------------------
(* The phone, the bot and the round trip to Google.                        *)

OnPhone == UNCHANGED <<keyVars, deskVars, pollVars, approvalVars, watched>>

\* The code is scanned while it is shown; "exp" is the end of the countdown there.
Scan ==
  /\ phone = "off" /\ desk = "ready"
  /\ phone' = "choose" /\ phoneLeft' = count
  /\ UNCHANGED info /\ OnPhone

PhoneAsks ==
  /\ phone = "choose" /\ info = "idle" /\ info' = "sent"
  /\ UNCHANGED <<phone, phoneLeft>> /\ OnPhone

\* The answer is looked at whatever the page shows by now; without one nothing happens.
PhoneHears ==
  /\ info # "idle"
  /\ phone' = IF info \in {"approved", "expired"} /\ phone \in {"choose", "expired", "approved"}
              THEN info ELSE phone
  /\ info' = "idle"
  /\ UNCHANGED phoneLeft /\ OnPhone

\* Somebody who scanned the code presses Start in the chat with the bot, or leaves
\* the page for Google, and the timers with it.
Confirm(a) ==
  /\ req[a] = "idle"
  /\ desk \in {"ready", "signedIn", "expired"}
  /\ a = watched => phone = "choose"
  /\ req' = [req EXCEPT ![a] = "queued"]
  /\ IF a = watched /\ Via[a] = "google" THEN phone' = "away" /\ info' = "idle"
                                         ELSE UNCHANGED <<phone, info>>
  /\ UNCHANGED <<keyVars, deskVars, pollVars, seen, told, watched, phoneLeft>>

\* approve is called for one approval of these at a time.
Handling == {"get", "ttl", "set"}

BotIsBusy == \E a \in Approvals : Via[a] = "bot" /\ req[a] \in Handling

\* The loop takes an update and moves the offset, the callback of Google comes: a
\* login is issued, or that fails, and what the person did counts for nothing.
LogIn(a) ==
  /\ req[a] = "queued" /\ (Via[a] = "bot" => ~BotIsBusy)
  /\ \/ req' = [req EXCEPT ![a] = "get"] /\ UNCHANGED phone
     \/ req' = [req EXCEPT ![a] = "dead"]
        /\ phone' = IF a = watched /\ Via[a] = "google" THEN "login" ELSE phone
  /\ UNCHANGED <<keyVars, deskVars, pollVars, seen, told, watched, phoneLeft, info>>

\* The bot goes by what approve returned, the redirect of Google says "done=1".
Reply(a) == [told EXCEPT ![a] = IF Via[a] = "google" \/ req[a] = "ok" THEN "success" ELSE "expired"]

Tell(a) ==
  /\ req[a] \in {"ok", "expired"} /\ told[a] = "nothing"
  /\ told' = Reply(a)
  /\ phone' = IF a = watched /\ Via[a] = "google" THEN "approved" ELSE phone
  /\ UNCHANGED <<keyVars, deskVars, pollVars, req, seen, watched, phoneLeft, info>>

\* The API process dies: polls fail, an approval under way is never taken up again, and
\* what waits for the bot is dropped as it starts (drop_pending_updates).
ApiDies ==
  /\ Crashes
  /\ poll' = [p \in Polls |-> "idle"]
  /\ got' = [p \in Polls |-> NOBODY]
  /\ req' = [a \in Approvals |->
               IF req[a] \in Handling \/ (req[a] = "queued" /\ Via[a] = "bot") THEN "dead"
               ELSE req[a]]
  /\ UNCHANGED <<keyVars, deskVars, seen, told, phoneVars>>

-----------------------------------------------------------------------------
Page == Start \/ Show \/ StartFails

Poll(p) == SendPoll(p) \/ PollGet(p) \/ PollDel(p) \/ PollAnswer(p) \/ LosePoll(p)

Phone == Scan \/ PhoneAsks \/ InfoGet \/ PhoneHears

Approval(a) ==
  Confirm(a) \/ LogIn(a) \/ ApproveGet(a) \/ ApproveTtl(a) \/ ApproveSet(a) \/ Tell(a)

NoteOverlap ==
  overlapped' = \/ overlapped
                \/ \E a, b \in Approvals : a # b /\ {req'[a], req'[b]} \subseteq Handling
                \/ \E p, q \in Polls : p # q /\ "idle" \notin {poll'[p], poll'[q]}

LoginNext ==
  /\ \/ Tick
     \/ Page
     \/ Phone
     \/ \E p \in Polls : Poll(p)
     \/ \E a \in Approvals : Approval(a)
     \/ ApiDies
  /\ NoteOverlap

LoginSpec == LoginInit /\ [][LoginNext]_loginVars

\* Time passes.
TimedSpec == LoginSpec /\ WF_loginVars(Tick /\ NoteOverlap)

-----------------------------------------------------------------------------
(* Properties.                                                             *)

\* The variables have their types; a key in Redis always has a time to live, and
\* carries a login exactly when it is approved.
LoginTypeOK ==
  /\ status \in {"absent", "pending", "approved"}
  /\ user \in Approvals \cup {NOBODY}
  /\ left \in 0..TTL
  /\ (status = "absent" <=> left = 0)
  /\ (status = "approved" <=> user # NOBODY)
  /\ desk \in {"loading", "opening", "ready", "signedIn", "expired", "error"}
  /\ count \in 0..TTL
  /\ signedAs \in Approvals \cup {NOBODY}
  /\ poll \in [Polls -> {"idle", "get", "del", "approved", "pending", "expired"}]
  /\ got \in [Polls -> Approvals \cup {NOBODY}]
  /\ req \in [Approvals -> {"idle", "queued", "get", "ttl", "set", "ok", "expired", "dead"}]
  /\ seen \in [Approvals -> 0..TTL]
  /\ told \in [Approvals -> {"nothing", "success", "expired"}]
  /\ watched \in Approvals /\ phoneLeft \in 0..TTL /\ overlapped \in BOOLEAN
  /\ phone \in {"off", "choose", "away", "approved", "expired", "login"}
  /\ info \in {"idle", "sent", "pending", "approved", "expired"}

\* Whose logins the session carries: in the key, in an answer on its way, on the desktop.
Carried == ({user, signedAs} \cup {got[p] : p \in Polls}) \ {NOBODY}

\* What people are told and whose login is carried agree this far.  A login is carried
\* only of somebody whose approve has returned true, so never of one the bot answered
\* that the code had expired, nor of the one whose phone Google sent to the login page.
\* Who the bot congratulates has approved the session or found it approved: it does
\* not wait for anybody any more.  The page on the phone, and an answer on its way to it,
\* say "approved" only once somebody's approve has returned true, or because Google
\* brought that phone back, which says so whatever approve returned.  A phone that says
\* "expired", or a person who was told nothing, may still be that of who is signed in.
AnswersAgree ==
  /\ \A a \in Carried :
       req[a] = "ok" /\ told[a] # "expired" /\ (phone = "login" => a # watched)
  /\ \A a \in Approvals : told[a] = "success" /\ Via[a] = "bot" =>
       status # "pending" /\ req[a] = "ok"
  /\ phone = "approved" \/ info = "approved" =>
       \/ \E a \in Approvals : req[a] = "ok"
       \/ phone = "approved" /\ Via[watched] = "google" /\ told[watched] = "success"

\* However often approvals write the session back after it expired or was
\* delivered, in the end the key is gone and stays so: nothing is left in Redis.
SessionEnds == <>[](status = "absent")

\* The session as seen from outside.  It is approved as long as a login is in the
\* key or on its way to the page, pending as long as somebody may yet approve.
InHands == {got[p] : p \in Polls} \ {NOBODY}

Stage ==
  IF desk = "loading" THEN "none"
  ELSE IF signedAs # NOBODY THEN "delivered"
  ELSE IF status = "approved" \/ InHands # {} THEN "approved"
  ELSE IF status = "pending" \/ \E a \in Approvals : req[a] \in {"ttl", "set"} THEN "pending"
  ELSE "gone"

By == IF signedAs # NOBODY THEN signedAs
      ELSE IF status = "approved" THEN user
      ELSE IF InHands # {} THEN CHOOSE a \in InHands : TRUE ELSE NOBODY

O == INSTANCE OneShot WITH People <- Approvals, NOBODY <- NOBODY, stage <- Stage, by <- By

\* As long as no two approvals and no two polls have overlapped, the session is opened,
\* approved, delivered and dropped at most once and in that order: every step of the
\* detailed model is a step of the one-shot mailbox, or none.
OneShotSession == O!Init /\ [][~overlapped' => O!Next]_<<Stage, By>>

-----------------------------------------------------------------------------
(* What comments of the repository say and the code does not keep.         *)

\* "approve the desktop session, then show the phone a success page"
\* (auth.controller.ts:87): who is shown one has approved it.
SuccessMeansApproved == \A a \in Approvals : told[a] = "success" => req[a] = "ok"
=============================================================================
