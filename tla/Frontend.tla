------------------------------ MODULE Frontend ------------------------------
(***************************************************************************)
(* app/static/app.js: what the page does between a click and the answer to *)
(* it.  JavaScript runs one callback at a time; each await lets others in, *)
(* and nothing cancels a request, so an answer is applied to whatever the  *)
(* page shows when it comes.  The render-epoch guard (app.js:2271) covers  *)
(* dashboards only.                                                        *)
(*                                                                         *)
(* Of the service only what the page can tell is here: a session is its    *)
(* mode, the channels with an override and how often the planner's answers *)
(* changed it, and each request takes effect at once when it is served     *)
(* (SessionService has its statements).  Cards stay on the page when the   *)
(* next one is drawn, and their buttons keep working.                      *)
(***************************************************************************)
EXTENDS Integers

CONSTANTS
  Calls,         \* places for requests in flight
  Sids,          \* ids the service has for new sessions
  Channels,      \* the channels of a brief
  MaxWrites,     \* bound on the writes it serves
  None

Modes == {"manual", "automatic"}
Other(mode) == IF mode = "manual" THEN "automatic" ELSE "manual"

ASSUME FrontendAssumption == MaxWrites \in Nat /\ None \notin Sids \cup Modes

VARIABLES
  page,        \* state.mode, state.sessionId, state.session
  saved,       \* localStorage: mode -> the id under "ccs_session_" + mode
  calls,       \* the requests in flight
  server,      \* session id -> session at the service
  writes,      \* how many writes the service has served
  disturbed,   \* history variable: two requests were in flight at once, or one
               \* failed, since the page last changed session on its own
  stained      \* history variable: the modes whose key in localStorage was last
               \* written while disturbed

vars == <<page, saved, calls, server, writes, disturbed, stained>>

Versions == 0..MaxWrites
Session == [mode : Modes, version : Versions, overrides : SUBSET Channels, stored : BOOLEAN]
Unmade  == [mode |-> "manual", version |-> 0, overrides |-> {}, stored |-> FALSE]

\* What the page holds of a session
Copy == [sid : Sids, mode : Modes, version : Versions, overrides : SUBSET Channels]
Page == [mode : Modes, sid : Sids \cup {None}, session : Copy \cup {None}]

\* resume is the GET of a mode button, open the one of a project's list; start
\* is the POST of a mode button or of reset, new the one of a project.
Ops == {"advance", "overrides", "start", "new", "resume", "open", "fork"}

\* A request carries the session and mode its callback closed over, and the
\* overrides of the dialog.  alone: no other was in flight with it.
Call == [op : Ops, stage : {"sent", "ok", "refused", "lost"}, sid : Sids \cup {None},
         mode : Modes \cup {None}, overrides : SUBSET Channels, answer : Copy \cup {None},
         alone : BOOLEAN]

ASSUME CallAssumption == None \notin Copy \cup Call

Init ==
  /\ page = [mode |-> "manual", sid |-> None, session |-> None]
  /\ saved = [m \in Modes |-> None]
  /\ calls = [c \in Calls |-> None]
  /\ server = [s \in Sids |-> Unmade]
  /\ writes = 0 /\ disturbed = FALSE /\ stained = {}

TypeOK ==
  /\ page \in Page
  /\ saved \in [Modes -> Sids \cup {None}]
  /\ calls \in [Calls -> Call \cup {None}]
  /\ server \in [Sids -> Session]
  /\ writes \in Versions
  /\ disturbed \in BOOLEAN /\ stained \subseteq Modes

(***************************************************************************)
(* Clicks                                                                  *)
(***************************************************************************)

InFlight == {c \in Calls : calls[c] # None}

SendWith(c, op, sid, mode, overrides) ==
  /\ calls[c] = None
  /\ calls' = [d \in Calls |->
       IF d = c THEN [op |-> op, stage |-> "sent", sid |-> sid, mode |-> mode,
                      overrides |-> overrides, answer |-> None, alone |-> InFlight = {}]
       ELSE IF calls[d] = None THEN None ELSE [calls[d] EXCEPT !.alone = FALSE]]

Send(c, op, sid, mode) == SendWith(c, op, sid, mode, {})

\* A card's button, /skip or /back: a card says what to send, and the page
\* which session to send it to.
Submit(c) ==
  /\ page.session # None
  /\ Send(c, "advance", page.sid, None)
  /\ UNCHANGED <<page, saved>>

\* The dialog opens with the overrides of the page's copy, and the planner may
\* fill or clear the row of any channel; a cleared row is left out.
SaveOverrides(c) ==
  /\ page.session # None
  /\ \E rows \in SUBSET Channels : SendWith(c, "overrides", page.sid, None, rows)
  /\ UNCHANGED <<page, saved>>

\* The mode changes at the click, the session when the answer is there.
ClickMode(c, m) ==
  /\ page' = [page EXCEPT !.mode = m]
  /\ IF saved[m] # None THEN Send(c, "resume", saved[m], None) ELSE Send(c, "start", None, m)
  /\ UNCHANGED saved

\* The reset button drops the saved id first, a new session from review does not.
ClickReset(c) ==
  /\ \/ saved' = [saved EXCEPT ![page.mode] = None]
     \/ page.session # None /\ UNCHANGED saved
  /\ Send(c, "start", None, page.mode)
  /\ UNCHANGED page

\* From review, or for the owner of the only plan there is to compare
ClickFork(c) ==
  /\ \/ page.session # None /\ Send(c, "fork", page.sid, Other(page.mode))
     \/ \E s \in Sids : server[s].stored /\ Send(c, "fork", s, Other(server[s].mode))
  /\ UNCHANGED <<page, saved>>

\* From a project's page
ClickNew(c, m) == Send(c, "new", None, m) /\ UNCHANGED <<page, saved>>
ClickOpen(c, s) ==
  /\ server[s].stored
  /\ Send(c, "open", s, server[s].mode)
  /\ UNCHANGED <<page, saved>>

Click(c) ==
  /\ \/ Submit(c) \/ SaveOverrides(c) \/ ClickReset(c) \/ ClickFork(c)
     \/ \E m \in Modes : ClickMode(c, m) \/ ClickNew(c, m)
     \/ \E s \in Sids : ClickOpen(c, s)
  /\ UNCHANGED <<server, writes, disturbed, stained>>

(***************************************************************************)
(* The service and the network                                             *)
(***************************************************************************)

Answered(c, stage, answer) ==
  calls' = [calls EXCEPT ![c].stage = stage, ![c].sid = None, ![c].answer = answer]

CopyOf(s, session) ==
  [sid |-> s, mode |-> session.mode, version |-> session.version, overrides |-> session.overrides]

Stores(c, s, session) ==
  /\ writes < MaxWrites /\ writes' = writes + 1
  /\ server' = [server EXCEPT ![s] = session]
  /\ Answered(c, "ok", CopyOf(s, session))

ServeAdvance(c) ==
  LET s == calls[c].sid
  IN  /\ calls[c].op = "advance"
      /\ server[s].stored
      /\ Stores(c, s, [server[s] EXCEPT !.version = @ + 1])

\* _apply_overrides: {} clears, other rows are added to the ones there.
Merged(old, new) == IF new = {} THEN {} ELSE old \cup new

ServeOverrides(c) ==
  LET s == calls[c].sid
  IN  /\ calls[c].op = "overrides"
      /\ server[s].stored
      /\ Stores(c, s, [server[s] EXCEPT !.overrides = Merged(@, calls[c].overrides)])

ServeNew(c) ==
  /\ calls[c].op \in {"start", "new"}
  /\ \E s \in Sids :
       /\ server[s] = Unmade
       /\ Stores(c, s, [Unmade EXCEPT !.mode = calls[c].mode, !.version = 1, !.stored = TRUE])

\* The new session has the brief of the old one.
ServeFork(c) ==
  LET source == server[calls[c].sid]
  IN  /\ calls[c].op = "fork"
      /\ source.stored /\ source.mode # calls[c].mode
      /\ \E s \in Sids :
           /\ server[s] = Unmade
           /\ Stores(c, s, [source EXCEPT !.mode = calls[c].mode, !.version = 1])

ServeGet(c) ==
  LET s == calls[c].sid
  IN  /\ calls[c].op \in {"resume", "open"}
      /\ server[s].stored
      /\ Answered(c, "ok", CopyOf(s, server[s]))
      /\ UNCHANGED <<server, writes>>

\* 404, 422, 429 or 5xx, the limiter alone refuses any write now and then; or
\* the connection breaks before the request is served.
Refuse(c) ==
  /\ Answered(c, "refused", None)
  /\ UNCHANGED <<server, writes>>

Serve(c) ==
  /\ calls[c] # None /\ calls[c].stage = "sent"
  /\ \/ ServeAdvance(c) \/ ServeOverrides(c) \/ ServeNew(c) \/ ServeFork(c)
     \/ ServeGet(c) \/ Refuse(c)
  /\ UNCHANGED <<page, saved, disturbed, stained>>

\* The connection breaks after a write was served; after a GET it is as if that
\* had been refused.
Lose(c) ==
  /\ calls[c] # None /\ calls[c].stage = "ok" /\ calls[c].op \notin {"resume", "open"}
  /\ Answered(c, "lost", None)
  /\ UNCHANGED <<page, saved, server, writes, disturbed, stained>>

\* The sweep, or a planner in another window; while a request for it is in flight
\* this shows as a refusal.
Expire(s) ==
  /\ InFlight = {}
  /\ server[s].stored
  /\ server' = [server EXCEPT ![s].stored = FALSE]
  /\ UNCHANGED <<page, saved, calls, writes, disturbed, stained>>

(***************************************************************************)
(* The answer                                                              *)
(***************************************************************************)

\* applyResponse, once the callback has set mode and sessionId
Applied(copy, mode, sid) ==
  [page |-> [mode |-> mode, sid |-> sid, session |-> copy],
   saved |-> [saved EXCEPT ![mode] = sid]]

\* MUTANT: cleared rows stay
PatchedOver(rows) ==
  [page |-> [page EXCEPT !.session.overrides = @ \cup rows], saved |-> saved]

\* openOverridesModal does not look at the answer: it puts the rows of the dialog
\* into the copy the page has by then.
Patched(rows) == [page |-> [page EXCEPT !.session.overrides = rows], saved |-> saved]

\* MUTANT: fork leaves the mode it was called in
EffectOfKeepingMode(call) ==
  CASE call.op = "overrides" -> Patched(call.overrides)
    [] call.op = "advance"   -> Applied(call.answer, page.mode, page.sid)
    [] call.op \in {"start", "resume", "fork"} -> Applied(call.answer, page.mode, call.answer.sid)
    [] call.op \in {"new", "open"} -> Applied(call.answer, call.mode, call.answer.sid)

\* submit, startSession and resumeOrStart go by the mode of the moment, the
\* others by the one of their click.
EffectOf(call) ==
  CASE call.op = "overrides" -> Patched(call.overrides)
    [] call.op = "advance"   -> Applied(call.answer, page.mode, page.sid)
    [] call.op \in {"start", "resume"} -> Applied(call.answer, page.mode, call.answer.sid)
    [] call.op \in {"new", "open", "fork"} -> Applied(call.answer, call.mode, call.answer.sid)

\* startNewSessionInProject does not look at r.ok: when the body is JSON it sets
\* the mode and then fails on the session that is not there.
NewRefused == {c \in InFlight : calls[c].op = "new" /\ calls[c].stage = "refused"}

Closed(c) == calls' = [calls EXCEPT ![c] = None]

ApplyAnswer(c) ==
  /\ calls[c].stage = "ok"
  /\ page' = EffectOf(calls[c]).page /\ saved' = EffectOf(calls[c]).saved
  /\ Closed(c)

\* resumeOrStart drops the saved id on any error, and starts a new session.
ResumeFailed(c) ==
  /\ calls[c].op = "resume"
  /\ saved' = [saved EXCEPT ![page.mode] = None]
  /\ calls' = [calls EXCEPT ![c] =
       [@ EXCEPT !.op = "start", !.stage = "sent", !.sid = None, !.mode = page.mode]]
  /\ UNCHANGED page

AnswerFailed(c) ==
  /\ calls[c].stage \in {"refused", "lost"}
  /\ \/ ResumeFailed(c)
     \/ /\ calls[c].op # "resume"
        /\ \/ UNCHANGED page
           \/ c \in NewRefused /\ page' = [page EXCEPT !.mode = calls[c].mode]
        /\ Closed(c)
        /\ UNCHANGED saved

\* A request that may have been served and was not heard of, two at once, or a
\* mode that changed for nothing
Disturbs(c) ==
  \/ ~calls[c].alone \/ calls[c].stage = "lost"
  \/ calls[c].stage = "refused" /\ calls[c].op \in {"start", "new"}
  \/ calls[c].stage = "ok" /\ calls[c].op = "resume" /\ page.mode \in stained

Settles(c) == calls[c].stage = "ok" /\ calls[c].op \notin {"advance", "overrides"}

Deliver(c) ==
  /\ calls[c] # None /\ calls[c].stage # "sent"
  /\ ApplyAnswer(c) \/ AnswerFailed(c)
  /\ disturbed' = (Disturbs(c) \/ (disturbed /\ ~Settles(c)))
  /\ stained' = IF ~\E m \in Modes : saved'[m] \notin {None, saved[m]} THEN stained
                ELSE IF disturbed' THEN stained \cup {page'.mode} ELSE stained \ {page'.mode}
  /\ UNCHANGED <<server, writes>>

\* The browser loads the page again: localStorage is all that stays.  What was
\* sent and not served is taken for lost.
Refresh ==
  /\ page' = [mode |-> "manual", sid |-> None, session |-> None]
  /\ calls' = [c \in Calls |-> None]
  /\ disturbed' = FALSE
  /\ UNCHANGED <<saved, server, writes, stained>>

Next ==
  \/ \E c \in Calls : Click(c) \/ Serve(c) \/ Lose(c) \/ Deliver(c)
  \/ \E s \in Sids : Expire(s)
  \/ Refresh

Spec == Init /\ [][Next]_vars

(***************************************************************************)
(* Properties                                                              *)
(***************************************************************************)

\* With nothing in flight and one thing done at a time since the page last
\* changed session, the card, the session the next click goes to, the mode
\* buttons and localStorage are about one session, as the service has it, by
\* whichever way the page got there (app.js:854-912, 1004-1024, 1403-1427,
\* 2454), and the page shows no override the service does not have.  Whatever
\* was wrong before, one change of session on its own repairs it, other than to
\* what was saved meanwhile.
InStep ==
  LET s == page.sid IN
  InFlight = {} /\ ~disturbed /\ page.session # None /\ server[s].stored =>
    /\ page.session.overrides \subseteq server[s].overrides
    /\ [page.session EXCEPT !.overrides = server[s].overrides] = CopyOf(s, server[s])
    /\ page.mode = server[s].mode
    /\ saved[page.mode] = s

\* A mode button resumes a session of its mode, unless what is saved for it was
\* written while two requests were in flight or after one had failed
\* (app.js:890, 911): fork, resume and a switch back and forth never mix them.
SavedKeepsMode ==
  \A m \in Modes \ stained : saved[m] # None => server[saved[m]].mode = m
=============================================================================
