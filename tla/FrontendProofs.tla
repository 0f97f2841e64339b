--------------------------- MODULE FrontendProofs ---------------------------
(***************************************************************************)
(* The proofs of Frontend.                                                 *)
(***************************************************************************)
EXTENDS Frontend, TLAPS

(***************************************************************************)
(* The inductive invariant                                                 *)
(***************************************************************************)

IsMade(s) == s \in Sids /\ server[s].version >= 1

ServerKnown ==
  \A s \in Sids : server[s].version <= writes /\ (server[s].stored => server[s].version >= 1)

PageKnown ==
  /\ page.sid # None => IsMade(page.sid)
  /\ page.session # None => page.sid # None

SavedKnown == \A m \in Modes : saved[m] # None => IsMade(saved[m])

Targeted == {"advance", "overrides", "resume", "open", "fork"}
Moded    == {"start", "new", "open", "fork"}

CallKnown(call) ==
  /\ call.op \in {"advance", "overrides"} => page.session # None
  /\ call.op \in Moded => call.mode \in Modes
  /\ call.stage = "sent" /\ call.op \in Targeted => IsMade(call.sid)
  /\ call.stage = "sent" /\ call.op = "open" => server[call.sid].mode = call.mode
  /\ call.stage = "ok" =>
       /\ call.answer # None
       /\ IsMade(call.answer.sid)
       /\ call.answer.mode = server[call.answer.sid].mode
       /\ call.op \in Moded => call.answer.mode = call.mode

CallsKnown == \A c \in InFlight : CallKnown(calls[c])

AloneKnown(call) ==
  /\ call.op = "start" => call.mode = page.mode
  /\ call.stage = "sent" =>
       /\ call.op = "resume" => call.sid = saved[page.mode]
       /\ call.op \in {"advance", "overrides"} => call.sid = page.sid
  /\ call.stage = "ok" =>
       /\ server[call.answer.sid].stored
       /\ call.answer = CopyOf(call.answer.sid, server[call.answer.sid])
       /\ call.op = "resume" => call.answer.sid = saved[page.mode]
       /\ call.op \in {"advance", "overrides"} => call.answer.sid = page.sid
       /\ call.op = "overrides" => call.overrides \subseteq call.answer.overrides

AlonesKnown ==
  \A c \in InFlight : calls[c].alone => InFlight = {c} /\ AloneKnown(calls[c])

Quiet == ~disturbed /\ \A c \in InFlight : calls[c].alone /\ calls[c].op \notin {"start", "resume"}
Held  == page.session # None /\ server[page.sid].stored
Served(op) == \E c \in InFlight : calls[c].op = op /\ calls[c].stage \in {"ok", "lost"}

InStepMeanwhile ==
  Quiet /\ Held =>
    /\ page.session.sid = page.sid
    /\ page.session.mode = server[page.sid].mode
    /\ page.mode = server[page.sid].mode
    /\ saved[page.mode] = page.sid
    /\ page.session.version = server[page.sid].version \/ Served("advance")
    /\ page.session.overrides \subseteq server[page.sid].overrides \/ Served("overrides")

IInv ==
  /\ TypeOK
  /\ ServerKnown
  /\ PageKnown
  /\ SavedKnown
  /\ CallsKnown
  /\ AlonesKnown
  /\ SavedKeepsMode
  /\ InStepMeanwhile

(***************************************************************************)
(* Types                                                                   *)
(***************************************************************************)

LEMMA CallFields ==
  ASSUME NEW call \in Call
  PROVE  /\ call.op \in Ops /\ call.stage \in {"sent", "ok", "refused", "lost"}
         /\ call.sid \in Sids \cup {None} /\ call.mode \in Modes \cup {None}
         /\ call.overrides \in SUBSET Channels /\ call.answer \in Copy \cup {None}
         /\ call.alone \in BOOLEAN
BY DEF Call

AnsweredWith(call, stage, answer) ==
  [call EXCEPT !.stage = stage, !.sid = None, !.answer = answer]

LEMMA AnsweredCall ==
  ASSUME NEW call \in Call, NEW stage \in {"ok", "refused", "lost"},
         NEW answer \in Copy \cup {None}
  PROVE  /\ AnsweredWith(call, stage, answer) \in Call
         /\ AnsweredWith(call, stage, answer).op = call.op
         /\ AnsweredWith(call, stage, answer).stage = stage
         /\ AnsweredWith(call, stage, answer).sid = None
         /\ AnsweredWith(call, stage, answer).mode = call.mode
         /\ AnsweredWith(call, stage, answer).overrides = call.overrides
         /\ AnsweredWith(call, stage, answer).answer = answer
         /\ AnsweredWith(call, stage, answer).alone = call.alone
BY DEF Call, AnsweredWith

LEMMA CopyFields ==
  ASSUME NEW copy \in Copy
  PROVE  /\ copy.sid \in Sids /\ copy.mode \in Modes /\ copy.version \in Versions
         /\ copy.overrides \in SUBSET Channels
BY DEF Copy

LEMMA SessionFields ==
  ASSUME NEW s \in Session
  PROVE  /\ s.mode \in Modes /\ s.version \in Versions /\ s.version \in Int
         /\ s.overrides \in SUBSET Channels /\ s.stored \in BOOLEAN
BY FrontendAssumption DEF Session, Versions

LEMMA PageFields ==
  ASSUME NEW p \in Page
  PROVE  p.mode \in Modes /\ p.sid \in Sids \cup {None} /\ p.session \in Copy \cup {None}
BY DEF Page

LEMMA CopyOfType ==
  ASSUME NEW s \in Sids, NEW session \in Session
  PROVE  /\ CopyOf(s, session) \in Copy
         /\ CopyOf(s, session).sid = s /\ CopyOf(s, session).mode = session.mode
         /\ CopyOf(s, session).version = session.version
         /\ CopyOf(s, session).overrides = session.overrides
BY SessionFields DEF CopyOf, Copy

LEMMA InFlightCall ==
  ASSUME TypeOK, NEW c \in InFlight
  PROVE  c \in Calls /\ calls[c] \in Call
BY DEF TypeOK, InFlight

\* A request is sent: it is a new one, and the others are no longer alone.
LEMMA SendFacts ==
  ASSUME TypeOK, NEW c \in Calls, NEW op \in Ops, NEW sid \in Sids \cup {None},
         NEW mode \in Modes \cup {None}, NEW rows \in SUBSET Channels,
         SendWith(c, op, sid, mode, rows)
  PROVE  /\ calls' \in [Calls -> Call \cup {None}]
         /\ c \notin InFlight /\ InFlight' = InFlight \cup {c}
         /\ calls'[c].op = op /\ calls'[c].stage = "sent" /\ calls'[c].sid = sid
         /\ calls'[c].mode = mode /\ calls'[c].overrides = rows
         /\ calls'[c].alone = (InFlight = {})
         /\ \A d \in InFlight :
              /\ calls'[d].op = calls[d].op /\ calls'[d].stage = calls[d].stage
              /\ calls'[d].sid = calls[d].sid /\ calls'[d].mode = calls[d].mode
              /\ calls'[d].overrides = calls[d].overrides
              /\ calls'[d].answer = calls[d].answer
              /\ calls'[d].alone = FALSE
<1> DEFINE new == [op |-> op, stage |-> "sent", sid |-> sid, mode |-> mode,
                   overrides |-> rows, answer |-> None, alone |-> InFlight = {}]
           old(d) == [calls[d] EXCEPT !.alone = FALSE]
<1>1. new \in Call
  BY DEF Call
<1>2. ASSUME NEW d \in InFlight
      PROVE  /\ old(d) \in Call
             /\ old(d).op = calls[d].op /\ old(d).stage = calls[d].stage
             /\ old(d).sid = calls[d].sid /\ old(d).mode = calls[d].mode
             /\ old(d).overrides = calls[d].overrides /\ old(d).answer = calls[d].answer
             /\ old(d).alone = FALSE
  <2>1. calls[d] \in Call
    BY InFlightCall
  <2>2. QED
    BY <2>1 DEF Call
<1>3. /\ calls[c] = None
      /\ calls' = [d \in Calls |-> IF d = c THEN new ELSE IF calls[d] = None THEN None ELSE old(d)]
  BY DEF SendWith
<1>4. calls'[c] = new /\ c \notin InFlight
  BY <1>3 DEF InFlight
<1>5. \A d \in InFlight : calls'[d] = old(d)
  BY <1>3 DEF InFlight
<1>6. \A d \in Calls \ {c} : d \notin InFlight => calls'[d] = None
  BY <1>3 DEF InFlight
<1>7. calls' \in [Calls -> Call \cup {None}]
  <2>1. \A d \in Calls : calls'[d] \in Call \cup {None}
    BY <1>1, <1>2, <1>4, <1>5, <1>6 DEF InFlight
  <2>2. QED
    BY <1>3, <2>1
<1> HIDE DEF old
<1>8. InFlight' = InFlight \cup {c}
  <2>1. new # None /\ \A d \in InFlight : old(d) # None
    BY <1>1, <1>2, CallAssumption
  <2>2. \A d \in Calls : calls'[d] # None <=> d \in InFlight \cup {c}
    BY <1>4, <1>5, <1>6, <2>1
  <2>3. InFlight' = {d \in Calls : calls'[d] # None}
    BY DEF InFlight
  <2>4. InFlight \subseteq Calls
    BY DEF InFlight
  <2>5. QED
    BY <2>2, <2>3, <2>4
<1>9. /\ new.op = op /\ new.stage = "sent" /\ new.sid = sid /\ new.mode = mode
      /\ new.overrides = rows /\ new.alone = (InFlight = {})
  OBVIOUS
<1> HIDE DEF new
<1>10. QED
  BY <1>2, <1>4, <1>5, <1>7, <1>8, <1>9

\* A request is answered: no other one changes.
LEMMA AnsweredFacts ==
  ASSUME TypeOK, NEW c \in InFlight, NEW stage \in {"ok", "refused", "lost"},
         NEW answer \in Copy \cup {None}, Answered(c, stage, answer)
  PROVE  /\ calls' \in [Calls -> Call \cup {None}]
         /\ InFlight' = InFlight
         /\ calls'[c].op = calls[c].op /\ calls'[c].stage = stage /\ calls'[c].sid = None
         /\ calls'[c].mode = calls[c].mode /\ calls'[c].overrides = calls[c].overrides
         /\ calls'[c].answer = answer /\ calls'[c].alone = calls[c].alone
         /\ \A d \in InFlight \ {c} : calls'[d] = calls[d]
<1> DEFINE new == AnsweredWith(calls[c], stage, answer)
<1>1. c \in Calls /\ calls[c] \in Call /\ calls \in [Calls -> Call \cup {None}]
  BY InFlightCall DEF TypeOK
<1>2. /\ new \in Call
      /\ new.op = calls[c].op /\ new.stage = stage /\ new.sid = None
      /\ new.mode = calls[c].mode /\ new.overrides = calls[c].overrides
      /\ new.answer = answer /\ new.alone = calls[c].alone
  BY <1>1, AnsweredCall
<1>3. calls' = [calls EXCEPT ![c] = new]
  BY <1>1 DEF Answered, AnsweredWith
<1> HIDE DEF new
<1>4. calls'[c] = new /\ \A d \in Calls \ {c} : calls'[d] = calls[d]
  BY <1>1, <1>3
<1>5. calls' \in [Calls -> Call \cup {None}]
  BY <1>1, <1>2, <1>3
<1>6. InFlight' = InFlight
  <2>1. new # None
    BY <1>2, CallAssumption
  <2>2. \A d \in Calls : calls'[d] # None <=> calls[d] # None
    BY <1>4, <2>1 DEF InFlight
  <2>3. QED
    BY <2>2 DEF InFlight
<1>7. QED
  BY <1>2, <1>4, <1>5, <1>6 DEF InFlight

(***************************************************************************)
(* Clicks                                                                  *)
(***************************************************************************)

\* What a click sends is about a session there is, and what it changes on the
\* page at once is for an answer of its own to repair.
LEMMA SentStep ==
  ASSUME IInv, NEW c \in Calls, NEW op \in Ops, NEW sid \in Sids \cup {None},
         NEW mode \in Modes \cup {None}, NEW rows \in SUBSET Channels,
         SendWith(c, op, sid, mode, rows),
         UNCHANGED <<server, writes, disturbed, stained>>,
         page' \in Page, page'.sid = page.sid, page'.session = page.session,
         saved' \in [Modes -> Sids \cup {None}],
         \A m \in Modes : saved'[m] \in {None, saved[m]},
         op \in {"start", "resume"} \/ (page' = page /\ saved' = saved),
         op \in {"advance", "overrides"} => page.session # None /\ sid = page.sid,
         op \in Moded => mode \in Modes,
         op \in Targeted => IsMade(sid),
         op = "open" => server[sid].mode = mode,
         op = "start" => mode = page'.mode,
         op = "resume" => sid = saved'[page'.mode]
  PROVE  IInv'
<1>1. /\ calls' \in [Calls -> Call \cup {None}]
      /\ c \notin InFlight /\ InFlight' = InFlight \cup {c}
      /\ calls'[c].op = op /\ calls'[c].stage = "sent" /\ calls'[c].sid = sid
      /\ calls'[c].mode = mode /\ calls'[c].overrides = rows
      /\ calls'[c].alone = (InFlight = {})
      /\ \A d \in InFlight :
           /\ calls'[d].op = calls[d].op /\ calls'[d].stage = calls[d].stage
           /\ calls'[d].sid = calls[d].sid /\ calls'[d].mode = calls[d].mode
           /\ calls'[d].overrides = calls[d].overrides
           /\ calls'[d].answer = calls[d].answer
           /\ calls'[d].alone = FALSE
  BY SendFacts DEF IInv
<1>2. TypeOK'
  BY <1>1 DEF IInv, TypeOK
<1>3. ServerKnown'
  BY DEF IInv, ServerKnown
<1>4. PageKnown'
  BY DEF IInv, PageKnown, IsMade
<1>5. SavedKnown'
  BY DEF IInv, SavedKnown, IsMade
<1>6. CallsKnown'
  <2>1. CallKnown(calls[c])'
    BY <1>1 DEF CallKnown, IsMade
  <2>2. ASSUME NEW d \in InFlight
        PROVE  CallKnown(calls[d])'
    <3>1. CallKnown(calls[d])
      BY DEF IInv, CallsKnown
    <3>2. QED
      BY <1>1, <3>1 DEF CallKnown, IsMade
  <2>3. QED
    BY <1>1, <2>1, <2>2 DEF CallsKnown
<1>7. AlonesKnown'
  <2>1. \A d \in InFlight : ~calls'[d].alone
    BY <1>1
  <2>2. calls'[c].alone => InFlight' = {c}
    BY <1>1
  <2>3. AloneKnown(calls[c])'
    BY <1>1 DEF AloneKnown
  <2>4. QED
    BY <1>1, <2>1, <2>2, <2>3 DEF AlonesKnown
<1>8. SavedKeepsMode'
  BY DEF IInv, SavedKeepsMode
<1>9. InStepMeanwhile'
  <2>1. CASE op \in {"start", "resume"}
    BY <1>1, <2>1 DEF InStepMeanwhile, Quiet
  <2>2. CASE InFlight # {}
    BY <1>1, <2>2 DEF InStepMeanwhile, Quiet
  <2>3. CASE InFlight = {} /\ page' = page /\ saved' = saved
    <3>1. Quiet' => Quiet
      BY <2>3 DEF Quiet
    <3>2. ~Served("advance") /\ ~Served("overrides")
      BY <2>3 DEF Served
    <3>3. Held' = Held
      BY <2>3 DEF Held
    <3>4. QED
      BY <2>3, <3>1, <3>2, <3>3 DEF InStepMeanwhile, IInv
  <2>4. QED
    BY <2>1, <2>2, <2>3
<1>10. QED
  BY <1>2, <1>3, <1>4, <1>5, <1>6, <1>7, <1>8, <1>9 DEF IInv

LEMMA StoredIsMade ==
  ASSUME IInv, NEW s \in Sids, server[s].stored
  PROVE  IsMade(s) /\ server[s].mode \in Modes
BY SessionFields DEF IInv, ServerKnown, IsMade, TypeOK

LEMMA PageIsMade ==
  ASSUME IInv, page.session # None
  PROVE  page.sid \in Sids /\ IsMade(page.sid)
BY DEF IInv, PageKnown, IsMade

LEMMA OtherMode ==
  ASSUME NEW m \in Modes
  PROVE  Other(m) \in Modes
BY DEF Other, Modes

LEMMA ClickStep ==
  ASSUME IInv, NEW c \in Calls, Click(c)
  PROVE  IInv'
<1> USE DEF Ops, Moded, Targeted, Send
<1>1. /\ page \in Page /\ saved \in [Modes -> Sids \cup {None}]
      /\ page.mode \in Modes /\ page.sid \in Sids \cup {None}
      /\ \A m \in Modes : saved[m] \in Sids \cup {None}
  BY PageFields DEF IInv, TypeOK
<1>2. UNCHANGED <<server, writes, disturbed, stained>>
  BY DEF Click
<1>3. CASE Submit(c)
  <2>1. /\ SendWith(c, "advance", page.sid, None, {})
        /\ page.session # None /\ UNCHANGED <<page, saved>>
    BY <1>3 DEF Submit
  <2>2. QED
    BY <1>1, <1>2, <2>1, PageIsMade, SentStep
<1>4. CASE SaveOverrides(c)
  <2>1. PICK rows \in SUBSET Channels : SendWith(c, "overrides", page.sid, None, rows)
    BY <1>4 DEF SaveOverrides
  <2>2. page.session # None /\ UNCHANGED <<page, saved>>
    BY <1>4 DEF SaveOverrides
  <2>3. QED
    BY <1>1, <1>2, <2>1, <2>2, PageIsMade, SentStep
<1>5. CASE ClickReset(c)
  <2>1. SendWith(c, "start", None, page.mode, {}) /\ page' = page
    BY <1>5 DEF ClickReset
  <2>2. /\ saved' \in [Modes -> Sids \cup {None}]
        /\ \A m \in Modes : saved'[m] \in {None, saved[m]}
    BY <1>1, <1>5 DEF ClickReset
  <2>3. QED
    BY <1>1, <1>2, <2>1, <2>2, SentStep
<1>6. CASE ClickFork(c)
  <2>1. UNCHANGED <<page, saved>>
    BY <1>6 DEF ClickFork
  <2>2. PICK s \in Sids, m \in Modes : IsMade(s) /\ SendWith(c, "fork", s, m, {})
    <3>1. CASE page.session # None /\ Send(c, "fork", page.sid, Other(page.mode))
      BY <1>1, <3>1, PageIsMade, OtherMode
    <3>2. CASE \E s \in Sids : server[s].stored /\ Send(c, "fork", s, Other(server[s].mode))
      BY <3>2, StoredIsMade, OtherMode
    <3>3. QED
      BY <1>6, <3>1, <3>2 DEF ClickFork
  <2>3. QED
    BY <1>1, <1>2, <2>1, <2>2, SentStep
<1>7. ASSUME NEW m \in Modes, ClickMode(c, m)
      PROVE  IInv'
  <2>1. /\ page' = [page EXCEPT !.mode = m] /\ saved' = saved
        /\ saved[m] # None => SendWith(c, "resume", saved[m], None, {})
        /\ saved[m] = None => SendWith(c, "start", None, m, {})
    BY <1>7 DEF ClickMode
  <2>2. /\ page' \in Page /\ page'.sid = page.sid /\ page'.session = page.session
        /\ page'.mode = m
    BY <1>1, <2>1 DEF Page
  <2>3. CASE saved[m] # None
    <3>1. IsMade(saved[m])
      BY <2>3 DEF IInv, SavedKnown
    <3>2. QED
      BY <1>1, <1>2, <2>1, <2>2, <2>3, <3>1, SentStep
  <2>4. CASE saved[m] = None
    BY <1>1, <1>2, <2>1, <2>2, <2>4, SentStep
  <2>5. QED
    BY <2>3, <2>4
<1>8. ASSUME NEW m \in Modes, ClickNew(c, m)
      PROVE  IInv'
  <2>1. SendWith(c, "new", None, m, {}) /\ UNCHANGED <<page, saved>>
    BY <1>8 DEF ClickNew
  <2>2. QED
    BY <1>1, <1>2, <2>1, SentStep
<1>9. ASSUME NEW s \in Sids, ClickOpen(c, s)
      PROVE  IInv'
  <2>1. /\ server[s].stored /\ UNCHANGED <<page, saved>>
        /\ SendWith(c, "open", s, server[s].mode, {})
    BY <1>9 DEF ClickOpen
  <2>2. IsMade(s) /\ server[s].mode \in Modes
    BY <2>1, StoredIsMade
  <2>3. QED
    BY <1>1, <1>2, <2>1, <2>2, SentStep
<1>10. QED
  BY <1>3, <1>4, <1>5, <1>6, <1>7, <1>8, <1>9 DEF Click

(***************************************************************************)
(* The service and the network                                             *)
(***************************************************************************)

\* Of the page and the sessions nothing changes that was agreed before: what an
\* answer is still to bring is for the page to wait for.
KeptServer ==
  \A s \in Sids : IsMade(s) => /\ IsMade(s)'
                               /\ server'[s].mode = server[s].mode

LEMMA AnswerKeepsPage ==
  ASSUME IInv, KeptServer, UNCHANGED <<page, saved, stained>>
  PROVE  PageKnown' /\ SavedKnown' /\ SavedKeepsMode'
<1>1. PageKnown'
  BY DEF IInv, PageKnown, KeptServer, IsMade
<1>2. SavedKnown'
  BY DEF IInv, SavedKnown, KeptServer, IsMade
<1>3. SavedKeepsMode'
  <2>1. \A m \in Modes : saved[m] # None => server'[saved[m]].mode = server[saved[m]].mode
    BY DEF IInv, SavedKnown, KeptServer, IsMade
  <2>2. QED
    BY <2>1 DEF IInv, SavedKeepsMode
<1>4. QED
  BY <1>1, <1>2, <1>3

\* The other requests in flight are as they were.
LEMMA AnswerKeepsOthers ==
  ASSUME IInv, KeptServer, UNCHANGED page,
         NEW c \in InFlight, InFlight' = InFlight, calls'[c].alone = calls[c].alone,
         \A d \in InFlight \ {c} : calls'[d] = calls[d],
         CallKnown(calls[c])', calls[c].alone => AloneKnown(calls[c])'
  PROVE  CallsKnown' /\ AlonesKnown'
<1>1. ASSUME NEW d \in InFlight \ {c}
      PROVE  CallKnown(calls[d])'
  <2>1. CallKnown(calls[d])
    BY DEF IInv, CallsKnown
  <2>2. calls'[d] = calls[d]
    OBVIOUS
  <2>3. IsMade(calls[d].sid) => /\ IsMade(calls[d].sid)'
                                /\ server'[calls[d].sid].mode = server[calls[d].sid].mode
    BY <2>2 DEF KeptServer, IsMade
  <2>4. IsMade(calls[d].answer.sid) =>
          /\ IsMade(calls[d].answer.sid)'
          /\ server'[calls[d].answer.sid].mode = server[calls[d].answer.sid].mode
    BY <2>2 DEF KeptServer, IsMade
  <2>5. QED
    BY <2>1, <2>2, <2>3, <2>4 DEF CallKnown, Targeted
<1>2. ASSUME NEW d \in InFlight \ {c}
      PROVE  ~calls'[d].alone
  BY DEF IInv, AlonesKnown
<1>3. calls[c].alone => InFlight = {c}
  BY DEF IInv, AlonesKnown
<1>4. QED
  BY <1>1, <1>2, <1>3 DEF CallsKnown, AlonesKnown

\* A GET is answered, any request is refused, or an answer is lost.
LEMMA AnsweredStep ==
  ASSUME IInv, NEW c \in InFlight, NEW stage \in {"ok", "refused", "lost"},
         NEW answer \in Copy \cup {None}, Answered(c, stage, answer),
         UNCHANGED <<page, saved, server, writes, disturbed, stained>>,
         stage = "ok" =>
           /\ calls[c].op \in {"resume", "open"} /\ calls[c].stage = "sent"
           /\ server[calls[c].sid].stored
           /\ answer = CopyOf(calls[c].sid, server[calls[c].sid]),
         stage # "sent",
         Served("advance") => Served("advance")', Served("overrides") => Served("overrides")'
  PROVE  IInv'
<1>1. /\ calls' \in [Calls -> Call \cup {None}]
      /\ InFlight' = InFlight
      /\ calls'[c].op = calls[c].op /\ calls'[c].stage = stage /\ calls'[c].sid = None
      /\ calls'[c].mode = calls[c].mode /\ calls'[c].overrides = calls[c].overrides
      /\ calls'[c].answer = answer /\ calls'[c].alone = calls[c].alone
      /\ \A d \in InFlight \ {c} : calls'[d] = calls[d]
  BY AnsweredFacts DEF IInv
<1>2. KeptServer
  BY DEF KeptServer, IsMade
<1>3. TypeOK' /\ ServerKnown'
  BY <1>1 DEF IInv, TypeOK, ServerKnown
<1>4. PageKnown' /\ SavedKnown' /\ SavedKeepsMode'
  BY <1>2, AnswerKeepsPage
<1>5. CallKnown(calls[c])
  BY DEF IInv, CallsKnown
<1>6. stage = "ok" =>
        /\ IsMade(calls[c].sid)
        /\ answer # None
        /\ answer.sid = calls[c].sid /\ answer.mode = server[calls[c].sid].mode
  <2>1. SUFFICES ASSUME stage = "ok"
                 PROVE  /\ IsMade(calls[c].sid)
                        /\ answer # None
                        /\ answer.sid = calls[c].sid
                        /\ answer.mode = server[calls[c].sid].mode
    OBVIOUS
  <2>2. IsMade(calls[c].sid) /\ server[calls[c].sid] \in Session
    BY <1>5, <2>1 DEF CallKnown, Targeted, IsMade, IInv, TypeOK
  <2>3. QED
    BY <2>1, <2>2, CopyOfType, CallAssumption DEF IsMade
<1>7. CallKnown(calls[c])'
  BY <1>1, <1>5, <1>6 DEF CallKnown, IsMade, Moded
<1>8. calls[c].alone => AloneKnown(calls[c])'
  <2>1. SUFFICES ASSUME calls[c].alone
                 PROVE  AloneKnown(calls[c])'
    OBVIOUS
  <2>2. AloneKnown(calls[c])
    BY <2>1 DEF IInv, AlonesKnown
  <2>3. QED
    BY <1>1, <1>6, <2>2 DEF AloneKnown
<1>9. CallsKnown' /\ AlonesKnown'
  BY <1>1, <1>2, <1>7, <1>8, AnswerKeepsOthers
<1>10. InStepMeanwhile'
  <2>1. Quiet' => Quiet
    BY <1>1 DEF Quiet
  <2>2. QED
    BY <2>1 DEF IInv, InStepMeanwhile, Held
<1>11. QED
  BY <1>3, <1>4, <1>9, <1>10 DEF IInv

\* A write is served: one session is made or changed, and the answer is a copy
\* of it.
LEMMA StoresStep ==
  ASSUME IInv, NEW c \in InFlight, calls[c].stage = "sent", calls[c].op \notin {"resume", "open"},
         NEW s \in Sids, NEW session \in Session, Stores(c, s, session),
         UNCHANGED <<page, saved, disturbed, stained>>,
         session.stored, session.version \in 1..(writes + 1),
         IsMade(s) => calls[c].op \in {"advance", "overrides"} /\ session.mode = server[s].mode,
         calls[c].op \in {"advance", "overrides"} => s = calls[c].sid /\ server[s].stored,
         calls[c].op \in Moded => session.mode = calls[c].mode,
         calls[c].op # "advance" /\ IsMade(s) => session.version = server[s].version,
         calls[c].op # "overrides" /\ IsMade(s) => session.overrides = server[s].overrides,
         calls[c].op = "overrides" => calls[c].overrides \subseteq session.overrides
  PROVE  IInv'
<1>1. /\ writes < MaxWrites /\ writes' = writes + 1
      /\ server' = [server EXCEPT ![s] = session]
      /\ Answered(c, "ok", CopyOf(s, session))
  BY DEF Stores
<1>2. /\ CopyOf(s, session) \in Copy /\ CopyOf(s, session) # None
      /\ CopyOf(s, session).sid = s /\ CopyOf(s, session).mode = session.mode
      /\ CopyOf(s, session).overrides = session.overrides
  BY CopyOfType, CallAssumption
<1>3. /\ calls' \in [Calls -> Call \cup {None}]
      /\ InFlight' = InFlight
      /\ calls'[c].op = calls[c].op /\ calls'[c].stage = "ok" /\ calls'[c].sid = None
      /\ calls'[c].mode = calls[c].mode /\ calls'[c].overrides = calls[c].overrides
      /\ calls'[c].answer = CopyOf(s, session) /\ calls'[c].alone = calls[c].alone
      /\ \A d \in InFlight \ {c} : calls'[d] = calls[d]
  BY <1>1, <1>2, AnsweredFacts DEF IInv
<1>4. /\ server \in [Sids -> Session] /\ server' \in [Sids -> Session]
      /\ server'[s] = session /\ \A o \in Sids \ {s} : server'[o] = server[o]
  BY <1>1 DEF IInv, TypeOK
<1>5. writes \in Nat /\ writes' \in Versions
  BY <1>1, FrontendAssumption DEF IInv, TypeOK, Versions
<1>6. TypeOK'
  BY <1>3, <1>4, <1>5 DEF IInv, TypeOK
<1>7. ServerKnown'
  <2>1. ASSUME NEW o \in Sids
        PROVE  server'[o].version <= writes' /\ (server'[o].stored => server'[o].version >= 1)
    <3>1. CASE o = s
      BY <1>1, <1>4, <1>5, <3>1
    <3>2. CASE o # s
      <4>1. server'[o] = server[o] /\ server[o].version \in Int
        BY <1>4, <3>2, SessionFields
      <4>2. server[o].version <= writes /\ (server[o].stored => server[o].version >= 1)
        BY DEF IInv, ServerKnown
      <4>3. QED
        BY <1>1, <1>5, <4>1, <4>2
    <3>3. QED
      BY <3>1, <3>2
  <2>2. QED
    BY <2>1 DEF ServerKnown
<1>8. IsMade(s)' /\ server'[s].mode = session.mode
  BY <1>4, <1>5 DEF IsMade
<1>9. KeptServer
  <2>1. ASSUME NEW o \in Sids, IsMade(o)
        PROVE  IsMade(o)' /\ server'[o].mode = server[o].mode
    <3>1. CASE o = s
      BY <1>8, <2>1, <3>1
    <3>2. CASE o # s
      BY <1>4, <2>1, <3>2 DEF IsMade
    <3>3. QED
      BY <3>1, <3>2
  <2>2. QED
    BY <2>1 DEF KeptServer
<1>10. PageKnown' /\ SavedKnown' /\ SavedKeepsMode'
  BY <1>9, AnswerKeepsPage
<1>11. CallKnown(calls[c])
  BY DEF IInv, CallsKnown
<1>12. CallKnown(calls[c])'
  BY <1>2, <1>3, <1>8, <1>11 DEF CallKnown
<1>13. calls[c].alone => AloneKnown(calls[c])'
  <2>1. SUFFICES ASSUME calls[c].alone
                 PROVE  AloneKnown(calls[c])'
    OBVIOUS
  <2>2. AloneKnown(calls[c])
    BY <2>1 DEF IInv, AlonesKnown
  <2>3. calls[c].op \in {"advance", "overrides"} => s = page.sid
    BY <2>2 DEF AloneKnown
  <2>4. QED
    BY <1>2, <1>3, <1>4, <2>2, <2>3 DEF AloneKnown
<1>14. CallsKnown' /\ AlonesKnown'
  BY <1>3, <1>9, <1>12, <1>13, AnswerKeepsOthers
<1>15. InStepMeanwhile'
  <2>1. SUFFICES ASSUME Quiet', Held'
                 PROVE  /\ page.session.sid = page.sid
                        /\ page.session.mode = server'[page.sid].mode
                        /\ page.mode = server'[page.sid].mode
                        /\ saved[page.mode] = page.sid
                        /\ page.session.version = server'[page.sid].version \/ Served("advance")'
                        /\ page.session.overrides \subseteq server'[page.sid].overrides
                             \/ Served("overrides")'
    BY DEF InStepMeanwhile
  <2>2. page.session # None /\ page.sid \in Sids /\ IsMade(page.sid)
    BY <2>1, PageIsMade DEF Held
  <2>3. Quiet /\ calls[c].alone /\ InFlight = {c}
    BY <1>3, <2>1 DEF Quiet, IInv, AlonesKnown
  <2>4. page.sid = s => server[s].stored
    BY <2>2
  <2>5. Held
    <3>1. CASE page.sid = s
      BY <2>2, <2>4, <3>1 DEF Held
    <3>2. CASE page.sid # s
      BY <1>4, <2>1, <2>2, <3>2 DEF Held
    <3>3. QED
      BY <3>1, <3>2
  <2>6. /\ page.session.sid = page.sid
        /\ page.session.mode = server[page.sid].mode
        /\ page.mode = server[page.sid].mode
        /\ saved[page.mode] = page.sid
        /\ page.session.version = server[page.sid].version \/ Served("advance")
        /\ page.session.overrides \subseteq server[page.sid].overrides \/ Served("overrides")
    BY <2>3, <2>5 DEF IInv, InStepMeanwhile
  <2>7. ~Served("advance") /\ ~Served("overrides")
    BY <2>3 DEF Served
  <2>8. server'[page.sid].mode = server[page.sid].mode
    BY <1>9, <2>2 DEF KeptServer
  <2>9. server'[page.sid].version = server[page.sid].version \/ Served("advance")'
    BY <1>3, <1>4, <2>2 DEF Served
  <2>10. server'[page.sid].overrides = server[page.sid].overrides \/ Served("overrides")'
    BY <1>3, <1>4, <2>2 DEF Served
  <2>11. QED
    BY <2>6, <2>7, <2>8, <2>9, <2>10
<1>16. QED
  BY <1>6, <1>7, <1>10, <1>14, <1>15 DEF IInv

LEMMA UnmadeSession == Unmade \in Session /\ Unmade.version = 0
BY FrontendAssumption DEF Unmade, Session, Versions, Modes

LEMMA VersionChanged ==
  ASSUME NEW x \in Session, NEW v \in Versions
  PROVE  /\ [x EXCEPT !.version = v] \in Session
         /\ [x EXCEPT !.version = v].version = v
         /\ [x EXCEPT !.version = v].mode = x.mode
         /\ [x EXCEPT !.version = v].overrides = x.overrides
         /\ [x EXCEPT !.version = v].stored = x.stored
BY DEF Session

LEMMA OverridesChanged ==
  ASSUME NEW x \in Session, NEW rows \in SUBSET Channels
  PROVE  /\ [x EXCEPT !.overrides = rows] \in Session
         /\ [x EXCEPT !.overrides = rows].overrides = rows
         /\ [x EXCEPT !.overrides = rows].version = x.version
         /\ [x EXCEPT !.overrides = rows].mode = x.mode
         /\ [x EXCEPT !.overrides = rows].stored = x.stored
BY DEF Session

LEMMA SessionForked ==
  ASSUME NEW x \in Session, NEW m \in Modes, 1 \in Versions
  PROVE  /\ [x EXCEPT !.mode = m, !.version = 1] \in Session
         /\ [x EXCEPT !.mode = m, !.version = 1].mode = m
         /\ [x EXCEPT !.mode = m, !.version = 1].version = 1
         /\ [x EXCEPT !.mode = m, !.version = 1].stored = x.stored
BY DEF Session

LEMMA SessionMade ==
  ASSUME NEW m \in Modes, 1 \in Versions
  PROVE  /\ [Unmade EXCEPT !.mode = m, !.version = 1, !.stored = TRUE] \in Session
         /\ [Unmade EXCEPT !.mode = m, !.version = 1, !.stored = TRUE].mode = m
         /\ [Unmade EXCEPT !.mode = m, !.version = 1, !.stored = TRUE].version = 1
         /\ [Unmade EXCEPT !.mode = m, !.version = 1, !.stored = TRUE].stored
BY UnmadeSession DEF Session

LEMMA ServeStep ==
  ASSUME IInv, NEW c \in Calls, Serve(c)
  PROVE  IInv'
<1>1. /\ c \in InFlight /\ calls[c] \in Call /\ calls[c].stage = "sent"
      /\ CallKnown(calls[c])
      /\ UNCHANGED <<page, saved, disturbed, stained>>
  BY InFlightCall DEF Serve, InFlight, IInv, CallsKnown
<1>2. /\ writes \in Nat /\ MaxWrites \in Nat /\ Versions = 0..MaxWrites
      /\ server \in [Sids -> Session]
      /\ \A s \in Sids : server[s] \in Session /\ server[s].version \in Int
  BY FrontendAssumption, SessionFields DEF IInv, TypeOK, Versions
<1>3. calls[c].op \in Targeted => calls[c].sid \in Sids /\ IsMade(calls[c].sid)
  BY <1>1 DEF CallKnown, IsMade
<1>4. \A s \in Sids : server[s].version <= writes
  BY DEF IInv, ServerKnown
<1>5. CASE ServeAdvance(c)
  <2> DEFINE s == calls[c].sid
             session == [server[s] EXCEPT !.version = server[s].version + 1]
  <2>1. /\ calls[c].op = "advance" /\ server[s].stored
        /\ Stores(c, s, session)
    BY <1>5 DEF ServeAdvance
  <2>2. s \in Sids /\ IsMade(s)
    BY <1>3, <2>1 DEF Targeted
  <2>3. writes < MaxWrites /\ server[s].version + 1 \in Versions
    BY <1>2, <1>4, <2>1, <2>2 DEF Stores, IsMade
  <2>4. /\ session \in Session /\ session.version = server[s].version + 1
        /\ session.mode = server[s].mode /\ session.overrides = server[s].overrides
        /\ session.stored = server[s].stored
    BY <1>2, <2>2, <2>3, VersionChanged
  <2>5. session.version \in 1..(writes + 1)
    BY <1>2, <1>4, <2>2, <2>4 DEF IsMade
  <2> HIDE DEF session
  <2>6. QED
    BY <1>1, <2>1, <2>2, <2>4, <2>5, StoresStep DEF Moded
<1>6. CASE ServeOverrides(c)
  <2> DEFINE s == calls[c].sid
             rows == Merged(server[s].overrides, calls[c].overrides)
             session == [server[s] EXCEPT !.overrides = rows]
  <2>1. /\ calls[c].op = "overrides" /\ server[s].stored
        /\ Stores(c, s, session)
    BY <1>6 DEF ServeOverrides
  <2>2. s \in Sids /\ IsMade(s)
    BY <1>3, <2>1 DEF Targeted
  <2>3. rows \in SUBSET Channels /\ calls[c].overrides \subseteq rows
    BY <1>1, <1>2, <2>2, CallFields, SessionFields DEF Merged
  <2>4. /\ session \in Session /\ session.version = server[s].version
        /\ session.mode = server[s].mode /\ session.overrides = rows
        /\ session.stored = server[s].stored
    <3> HIDE DEF rows
    <3>1. QED
      BY <1>2, <2>2, <2>3, OverridesChanged
  <2>5. session.version \in 1..(writes + 1)
    BY <1>2, <1>4, <2>2, <2>4 DEF IsMade
  <2> HIDE DEF session
  <2>6. QED
    BY <1>1, <2>1, <2>2, <2>3, <2>4, <2>5, StoresStep DEF Moded
<1>7. CASE ServeNew(c)
  <2>1. PICK s \in Sids :
          /\ server[s] = Unmade
          /\ Stores(c, s, [Unmade EXCEPT !.mode = calls[c].mode, !.version = 1, !.stored = TRUE])
    BY <1>7 DEF ServeNew
  <2> DEFINE session == [Unmade EXCEPT !.mode = calls[c].mode, !.version = 1, !.stored = TRUE]
  <2>2. calls[c].op \in {"start", "new"} /\ calls[c].mode \in Modes
    BY <1>1, <1>7 DEF ServeNew, CallKnown, Moded
  <2>3. 1 \in Versions /\ ~IsMade(s)
    BY <1>2, <2>1, UnmadeSession DEF Stores, IsMade
  <2>4. /\ session \in Session /\ session.mode = calls[c].mode /\ session.version = 1
        /\ session.stored
    BY <2>2, <2>3, SessionMade
  <2>5. session.version \in 1..(writes + 1) /\ Stores(c, s, session)
    BY <1>2, <2>1, <2>4
  <2> HIDE DEF session
  <2>6. QED
    BY <1>1, <2>2, <2>3, <2>4, <2>5, StoresStep
<1>8. CASE ServeFork(c)
  <2> DEFINE source == server[calls[c].sid]
             session == [source EXCEPT !.mode = calls[c].mode, !.version = 1]
  <2>1. calls[c].op = "fork" /\ source.stored
    BY <1>8 DEF ServeFork
  <2>2. PICK s \in Sids : server[s] = Unmade /\ Stores(c, s, session)
    BY <1>8 DEF ServeFork
  <2>3. calls[c].mode \in Modes /\ source \in Session
    BY <1>1, <1>2, <1>3, <2>1 DEF CallKnown, Moded, Targeted
  <2>4. 1 \in Versions /\ ~IsMade(s)
    BY <1>2, <2>2, UnmadeSession DEF Stores, IsMade
  <2>5. /\ session \in Session /\ session.mode = calls[c].mode /\ session.version = 1
        /\ session.stored
    BY <2>1, <2>3, <2>4, SessionForked
  <2>6. session.version \in 1..(writes + 1)
    BY <1>2, <2>5
  <2> HIDE DEF session
  <2>7. QED
    BY <1>1, <2>1, <2>2, <2>4, <2>5, <2>6, StoresStep
<1>9. \A op \in {"advance", "overrides"} : Served(op) => \E d \in InFlight \ {c} :
        calls[d].op = op /\ calls[d].stage \in {"ok", "lost"}
  BY <1>1 DEF Served
<1>10. ASSUME NEW stage \in {"ok", "refused", "lost"}, NEW answer \in Copy \cup {None},
              Answered(c, stage, answer)
       PROVE  /\ Served("advance") => Served("advance")'
              /\ Served("overrides") => Served("overrides")'
  <2>1. InFlight' = InFlight /\ \A d \in InFlight \ {c} : calls'[d] = calls[d]
    BY <1>1, <1>10, AnsweredFacts DEF IInv
  <2>2. QED
    BY <1>9, <2>1 DEF Served
<1>11. CASE ServeGet(c)
  <2> DEFINE answer == CopyOf(calls[c].sid, server[calls[c].sid])
  <2>1. /\ calls[c].op \in {"resume", "open"} /\ server[calls[c].sid].stored
        /\ Answered(c, "ok", answer) /\ UNCHANGED <<server, writes>>
    BY <1>11 DEF ServeGet
  <2>2. answer \in Copy
    BY <1>2, <1>3, <2>1, CopyOfType DEF Targeted
  <2> HIDE DEF answer
  <2>3. Served("advance") => Served("advance")'
    BY <1>10, <2>1, <2>2
  <2>4. Served("overrides") => Served("overrides")'
    BY <1>10, <2>1, <2>2
  <2>5. QED
    BY <1>1, <2>1, <2>2, <2>3, <2>4, AnsweredStep DEF answer
<1>12. CASE Refuse(c)
  <2>1. Answered(c, "refused", None) /\ UNCHANGED <<server, writes>>
    BY <1>12 DEF Refuse
  <2>2. Served("advance") => Served("advance")'
    BY <1>10, <2>1
  <2>3. Served("overrides") => Served("overrides")'
    BY <1>10, <2>1
  <2>4. QED
    BY <1>1, <2>1, <2>2, <2>3, AnsweredStep
<1>13. QED
  BY <1>5, <1>6, <1>7, <1>8, <1>11, <1>12 DEF Serve

LEMMA LoseStep ==
  ASSUME IInv, NEW c \in Calls, Lose(c)
  PROVE  IInv'
<1>1. /\ c \in InFlight /\ Answered(c, "lost", None)
      /\ UNCHANGED <<page, saved, server, writes, disturbed, stained>>
  BY DEF Lose, InFlight
<1>2. /\ InFlight' = InFlight /\ \A d \in InFlight \ {c} : calls'[d] = calls[d]
      /\ calls'[c].op = calls[c].op /\ calls'[c].stage = "lost"
  BY <1>1, AnsweredFacts DEF IInv
<1>3. \A op \in Ops : Served(op) => Served(op)'
  BY <1>1, <1>2 DEF Served
<1>4. Served("advance") => Served("advance")'
  BY <1>3 DEF Ops
<1>5. Served("overrides") => Served("overrides")'
  BY <1>3 DEF Ops
<1>6. QED
  BY <1>1, <1>4, <1>5, AnsweredStep

LEMMA ExpireStep ==
  ASSUME IInv, NEW s \in Sids, Expire(s)
  PROVE  IInv'
<1> DEFINE gone == [server[s] EXCEPT !.stored = FALSE]
<1>1. /\ InFlight = {} /\ server' = [server EXCEPT ![s] = gone]
      /\ UNCHANGED <<page, saved, calls, writes, disturbed, stained>>
      /\ server \in [Sids -> Session]
  BY DEF Expire, IInv, TypeOK
<1>2. /\ gone \in Session /\ gone.mode = server[s].mode /\ gone.version = server[s].version
      /\ gone.stored = FALSE
  BY <1>1 DEF Session
<1> HIDE DEF gone
<1>3. /\ server' \in [Sids -> Session] /\ server'[s] = gone
      /\ \A o \in Sids \ {s} : server'[o] = server[o]
  BY <1>1, <1>2
<1>4. TypeOK' /\ InFlight' = {}
  BY <1>1, <1>3 DEF IInv, TypeOK, InFlight
<1>5. ServerKnown'
  BY <1>1, <1>2, <1>3 DEF IInv, ServerKnown
<1>6. KeptServer
  BY <1>2, <1>3 DEF KeptServer, IsMade
<1>7. PageKnown' /\ SavedKnown' /\ SavedKeepsMode'
  BY <1>1, <1>6, AnswerKeepsPage
<1>8. CallsKnown' /\ AlonesKnown'
  BY <1>4 DEF CallsKnown, AlonesKnown
<1>9. InStepMeanwhile'
  <2>1. SUFFICES ASSUME Quiet', Held'
                 PROVE  /\ page.session.sid = page.sid
                        /\ page.session.mode = server'[page.sid].mode
                        /\ page.mode = server'[page.sid].mode
                        /\ saved[page.mode] = page.sid
                        /\ page.session.version = server'[page.sid].version
                        /\ page.session.overrides \subseteq server'[page.sid].overrides
    BY <1>1 DEF InStepMeanwhile
  <2>2. page.sid \in Sids \ {s}
    BY <1>1, <1>2, <1>3, <2>1, PageIsMade DEF Held
  <2>3. Quiet /\ Held /\ server'[page.sid] = server[page.sid]
    BY <1>1, <1>3, <2>1, <2>2 DEF Quiet, Held
  <2>4. ~Served("advance") /\ ~Served("overrides")
    BY <1>1 DEF Served
  <2>5. QED
    BY <2>3, <2>4 DEF IInv, InStepMeanwhile
<1>10. QED
  BY <1>4, <1>5, <1>7, <1>8, <1>9 DEF IInv

LEMMA RefreshStep ==
  ASSUME IInv, Refresh
  PROVE  IInv'
<1>1. /\ page' = [mode |-> "manual", sid |-> None, session |-> None]
      /\ calls' = [c \in Calls |-> None]
      /\ disturbed' = FALSE
      /\ UNCHANGED <<saved, server, writes, stained>>
  BY DEF Refresh
<1>2. TypeOK' /\ InFlight' = {}
  BY <1>1 DEF IInv, TypeOK, InFlight, Page, Modes
<1>3. ServerKnown' /\ PageKnown' /\ SavedKnown'
  BY <1>1 DEF IInv, ServerKnown, PageKnown, SavedKnown, IsMade
<1>4. CallsKnown' /\ AlonesKnown'
  BY <1>2 DEF CallsKnown, AlonesKnown
<1>5. SavedKeepsMode' /\ InStepMeanwhile'
  BY <1>1 DEF IInv, SavedKeepsMode, InStepMeanwhile, Held
<1>6. QED
  BY <1>2, <1>3, <1>4, <1>5 DEF IInv

(***************************************************************************)
(* The answer                                                              *)
(***************************************************************************)

LEMMA CopyPatched ==
  ASSUME NEW p \in Page, p.session \in Copy, NEW rows \in SUBSET Channels
  PROVE  LET q == [p EXCEPT !.session.overrides = rows]
         IN  /\ q \in Page /\ q.mode = p.mode /\ q.sid = p.sid
             /\ q.session \in Copy /\ q.session.overrides = rows
             /\ q.session.sid = p.session.sid /\ q.session.mode = p.session.mode
             /\ q.session.version = p.session.version
BY DEF Page, Copy

\* What an answer does: the overrides go into the copy there is, anything else
\* makes the page and the saved id those of the answer.
Shows(mode, sid, copy) ==
  /\ page' = [mode |-> mode, sid |-> sid, session |-> copy]
  /\ saved' = [saved EXCEPT ![mode] = sid]

LEMMA ApplyFacts ==
  ASSUME IInv, NEW c \in InFlight, calls[c].stage = "ok", ApplyAnswer(c)
  PROVE  /\ calls[c] \in Call /\ calls[c].answer \in Copy /\ IsMade(calls[c].answer.sid)
         /\ page \in Page /\ page.mode \in Modes
         /\ calls[c].op = "overrides" =>
              /\ page.session \in Copy
              /\ page' = [page EXCEPT !.session.overrides = calls[c].overrides]
              /\ saved' = saved
         /\ calls[c].op = "advance" =>
              IsMade(page.sid) /\ Shows(page.mode, page.sid, calls[c].answer)
         /\ calls[c].op \in {"start", "resume"} =>
              Shows(page.mode, calls[c].answer.sid, calls[c].answer)
         /\ calls[c].op \in {"new", "open", "fork"} =>
              calls[c].mode \in Modes /\ Shows(calls[c].mode, calls[c].answer.sid, calls[c].answer)
<1>1. calls[c] \in Call /\ CallKnown(calls[c]) /\ page \in Page /\ page.mode \in Modes
  BY InFlightCall, PageFields DEF IInv, CallsKnown, TypeOK
<1>2. calls[c].answer \in Copy /\ IsMade(calls[c].answer.sid)
  BY <1>1, CallFields DEF CallKnown
<1>3. page' = EffectOf(calls[c]).page /\ saved' = EffectOf(calls[c]).saved
  BY DEF ApplyAnswer
<1>4. CASE calls[c].op = "overrides"
  <2>1. page.session \in Copy
    BY <1>1, <1>4, PageFields DEF CallKnown
  <2>2. EffectOf(calls[c]) = Patched(calls[c].overrides)
    BY <1>4 DEF EffectOf
  <2>3. QED
    BY <1>1, <1>2, <1>3, <1>4, <2>1, <2>2 DEF Patched
<1>5. CASE calls[c].op = "advance"
  <2>1. IsMade(page.sid)
    BY <1>1, <1>5, PageIsMade DEF CallKnown
  <2>2. EffectOf(calls[c]) = Applied(calls[c].answer, page.mode, page.sid)
    BY <1>5 DEF EffectOf
  <2>3. QED
    BY <1>1, <1>2, <1>3, <1>5, <2>1, <2>2 DEF Applied, Shows
<1>6. CASE calls[c].op \in {"start", "resume"}
  <2>1. EffectOf(calls[c]) = Applied(calls[c].answer, page.mode, calls[c].answer.sid)
    BY <1>6 DEF EffectOf
  <2>2. QED
    BY <1>1, <1>2, <1>3, <1>6, <2>1 DEF Applied, Shows
<1>7. CASE calls[c].op \in {"new", "open", "fork"}
  <2>1. EffectOf(calls[c]) = Applied(calls[c].answer, calls[c].mode, calls[c].answer.sid)
    BY <1>7 DEF EffectOf
  <2>2. calls[c].mode \in Modes
    BY <1>1, <1>7 DEF CallKnown, Moded
  <2>3. QED
    BY <1>1, <1>2, <1>3, <1>7, <2>1, <2>2 DEF Applied, Shows
<1>8. QED
  BY <1>1, <1>4, <1>5, <1>6, <1>7, CallFields DEF Ops

\* What was in flight beside a request that is done was not alone.
LEMMA ClosedFacts ==
  ASSUME IInv, NEW c \in InFlight, Closed(c), UNCHANGED <<server, writes>>,
         page'.session = None => page.session = None
  PROVE  /\ calls' \in [Calls -> Call \cup {None}]
         /\ ServerKnown' /\ CallsKnown' /\ AlonesKnown'
         /\ Quiet' => ~disturbed' /\ InFlight = {c} /\ InFlight' = {}
<1>1. /\ calls' = [calls EXCEPT ![c] = None] /\ calls \in [Calls -> Call \cup {None}]
      /\ c \in Calls
  BY DEF Closed, IInv, TypeOK, InFlight
<1>2. InFlight' = InFlight \ {c} /\ \A d \in InFlight \ {c} : calls'[d] = calls[d]
  BY <1>1 DEF InFlight
<1>3. \A d \in InFlight \ {c} : ~calls[d].alone
  BY DEF IInv, AlonesKnown
<1>4. CallsKnown'
  <2>1. ASSUME NEW d \in InFlight \ {c}
        PROVE  CallKnown(calls[d])'
    <3>1. CallKnown(calls[d])
      BY DEF IInv, CallsKnown
    <3>2. QED
      BY <1>2, <3>1 DEF CallKnown, IsMade
  <2>2. QED
    BY <1>2, <2>1 DEF CallsKnown
<1>5. AlonesKnown'
  BY <1>2, <1>3 DEF AlonesKnown
<1>6. Quiet' => ~disturbed' /\ InFlight = {c} /\ InFlight' = {}
  BY <1>2, <1>3 DEF Quiet
<1>7. QED
  BY <1>1, <1>4, <1>5, <1>6 DEF IInv, ServerKnown

\* The history variables, by what became of the saved ids
LEMMA DeliverGhosts ==
  ASSUME IInv, NEW c \in Calls, Deliver(c), page'.mode \in Modes
  PROVE  /\ disturbed' \in BOOLEAN /\ stained' \in SUBSET Modes
         /\ ~disturbed' => ~Disturbs(c) /\ (~disturbed \/ Settles(c))
         /\ UNCHANGED <<server, writes>>
         /\ (\A m \in Modes : saved'[m] \in {None, saved[m]}) => stained' = stained
         /\ \A m \in Modes \ stained' : m # page'.mode => m \notin stained
         /\ page'.mode \in Modes \ stained' =>
              ~disturbed' \/ \A m \in Modes : saved'[m] \in {None, saved[m]}
<1>1. /\ disturbed' = (Disturbs(c) \/ (disturbed /\ ~Settles(c)))
      /\ stained' = IF ~\E m \in Modes : saved'[m] \notin {None, saved[m]} THEN stained
                    ELSE IF disturbed' THEN stained \cup {page'.mode} ELSE stained \ {page'.mode}
      /\ UNCHANGED <<server, writes>>
  BY DEF Deliver
<1>2. stained \in SUBSET Modes
  BY DEF IInv, TypeOK
<1>3. disturbed' \in BOOLEAN
  BY <1>1, Zenon
<1>4. ~disturbed' => ~Disturbs(c) /\ (~disturbed \/ Settles(c))
  BY <1>1, Zenon
<1>5. stained' \in SUBSET Modes
  BY <1>1, <1>2
<1>6. /\ (\A m \in Modes : saved'[m] \in {None, saved[m]}) => stained' = stained
      /\ \A m \in Modes \ stained' : m # page'.mode => m \notin stained
      /\ page'.mode \in Modes \ stained' =>
           ~disturbed' \/ \A m \in Modes : saved'[m] \in {None, saved[m]}
  BY <1>1
<1>7. QED
  BY <1>1, <1>3, <1>4, <1>5, <1>6

\* An answer that leaves nothing disturbed brings a session of the mode it is
\* shown under, as the service has it.
LEMMA AnswerAgrees ==
  ASSUME IInv, NEW c \in Calls, Deliver(c), ApplyAnswer(c), ~disturbed',
         page'.mode \in Modes
  PROVE  /\ AloneKnown(calls[c])
         /\ server[calls[c].answer.sid].stored
         /\ calls[c].answer = CopyOf(calls[c].answer.sid, server[calls[c].answer.sid])
         /\ calls[c].op \in {"advance", "overrides"} =>
              ~disturbed /\ calls[c].answer.sid = page.sid
         /\ calls[c].op = "advance" => server[page.sid].mode = page.mode
         /\ calls[c].op \in {"start", "resume"} => server[calls[c].answer.sid].mode = page.mode
         /\ calls[c].op \in {"new", "open", "fork"} =>
              server[calls[c].answer.sid].mode = calls[c].mode
<1>1. /\ c \in InFlight /\ calls[c].stage = "ok" /\ CallKnown(calls[c])
  BY DEF Deliver, ApplyAnswer, InFlight, IInv, CallsKnown
<1>2. /\ calls[c] \in Call /\ calls[c].answer \in Copy /\ page.mode \in Modes
      /\ calls[c].answer.sid \in Sids
  BY <1>1, ApplyFacts DEF IsMade
<1>3. ~Disturbs(c) /\ (~disturbed \/ Settles(c))
  BY DeliverGhosts
<1>4. calls[c].alone
  BY <1>2, <1>3, CallFields DEF Disturbs
<1>5. AloneKnown(calls[c]) /\ InFlight = {c}
  BY <1>1, <1>4 DEF IInv, AlonesKnown
<1>6. /\ server[calls[c].answer.sid].stored
      /\ calls[c].answer = CopyOf(calls[c].answer.sid, server[calls[c].answer.sid])
  BY <1>1, <1>5 DEF AloneKnown
<1>7. calls[c].op \in {"advance", "overrides"} => ~disturbed /\ calls[c].answer.sid = page.sid
  BY <1>1, <1>3, <1>5 DEF Settles, AloneKnown
<1>8. calls[c].op = "advance" => server[page.sid].mode = page.mode
  <2>1. SUFFICES ASSUME calls[c].op = "advance"
                 PROVE  server[page.sid].mode = page.mode
    OBVIOUS
  <2>2. Quiet
    BY <1>4, <1>5, <1>7, <2>1 DEF Quiet
  <2>3. Held
    BY <1>1, <1>6, <1>7, <2>1 DEF Held, CallKnown
  <2>4. QED
    BY <2>2, <2>3 DEF IInv, InStepMeanwhile
<1>9. calls[c].op = "start" => server[calls[c].answer.sid].mode = page.mode
  BY <1>1, <1>5 DEF AloneKnown, CallKnown, Moded
<1>10. calls[c].op = "resume" => server[calls[c].answer.sid].mode = page.mode
  <2>1. SUFFICES ASSUME calls[c].op = "resume"
                 PROVE  server[calls[c].answer.sid].mode = page.mode
    OBVIOUS
  <2>2. page.mode \notin stained
    BY <1>1, <1>3, <2>1 DEF Disturbs
  <2>3. calls[c].answer.sid = saved[page.mode] /\ saved[page.mode] # None
    BY <1>1, <1>2, <1>5, <2>1, FrontendAssumption DEF AloneKnown
  <2>4. QED
    BY <1>2, <2>2, <2>3 DEF IInv, SavedKeepsMode
<1>11. calls[c].op \in {"new", "open", "fork"} =>
         server[calls[c].answer.sid].mode = calls[c].mode
  BY <1>1 DEF CallKnown, Moded
<1>12. QED
  BY <1>5, <1>6, <1>7, <1>8, <1>9, <1>10, <1>11

LEMMA OverridesApplied ==
  ASSUME IInv, NEW c \in Calls, Deliver(c), ApplyAnswer(c), calls[c].op = "overrides"
  PROVE  IInv'
<1>1. /\ c \in InFlight /\ calls[c].stage = "ok" /\ Closed(c) /\ UNCHANGED <<server, writes>>
      /\ CallKnown(calls[c])
  BY DEF Deliver, ApplyAnswer, InFlight, IInv, CallsKnown
<1>2. /\ calls[c] \in Call /\ page \in Page /\ page.mode \in Modes /\ page.session \in Copy
      /\ page' = [page EXCEPT !.session.overrides = calls[c].overrides]
      /\ saved' = saved /\ calls[c].overrides \in SUBSET Channels
  BY <1>1, ApplyFacts, CallFields
<1>3. /\ page' \in Page /\ page'.mode = page.mode /\ page'.sid = page.sid
      /\ page'.session \in Copy /\ page'.session # None
      /\ page'.session.overrides = calls[c].overrides
      /\ page'.session.sid = page.session.sid /\ page'.session.mode = page.session.mode
      /\ page'.session.version = page.session.version
  BY <1>2, CopyPatched, CallAssumption
<1>4. /\ calls' \in [Calls -> Call \cup {None}]
      /\ ServerKnown' /\ CallsKnown' /\ AlonesKnown'
      /\ Quiet' => ~disturbed' /\ InFlight = {c} /\ InFlight' = {}
  BY <1>1, <1>2, <1>3, CallAssumption, ClosedFacts
<1>5. /\ disturbed' \in BOOLEAN /\ stained' \in SUBSET Modes /\ stained' = stained
  BY <1>2, <1>3, DeliverGhosts
<1>6. TypeOK'
  BY <1>1, <1>2, <1>3, <1>4, <1>5 DEF IInv, TypeOK
<1>7. PageKnown' /\ SavedKnown' /\ SavedKeepsMode'
  <2>1. page.sid # None
    BY <1>1 DEF IInv, PageKnown, CallKnown
  <2>2. QED
    BY <1>1, <1>2, <1>3, <1>5, <2>1
      DEF IInv, PageKnown, SavedKnown, SavedKeepsMode, IsMade
<1>8. InStepMeanwhile'
  <2>1. SUFFICES ASSUME Quiet', Held'
                 PROVE  /\ page'.session.sid = page.sid
                        /\ page'.session.mode = server[page.sid].mode
                        /\ page.mode = server[page.sid].mode
                        /\ saved[page.mode] = page.sid
                        /\ page'.session.version = server[page.sid].version
                        /\ page'.session.overrides \subseteq server[page.sid].overrides
    BY <1>1, <1>2, <1>3 DEF InStepMeanwhile
  <2>2. ~disturbed' /\ InFlight = {c}
    BY <1>4, <2>1
  <2>3. /\ ~disturbed /\ calls[c].answer.sid = page.sid /\ AloneKnown(calls[c])
        /\ calls[c].answer = CopyOf(page.sid, server[page.sid])
    BY <1>2, <1>3, <2>2, AnswerAgrees
  <2>4. calls[c].alone
    BY <1>2, <2>2, CallFields, DeliverGhosts, <1>3 DEF Disturbs
  <2>5. Quiet /\ Held /\ ~Served("advance")
    <3>1. Quiet
      BY <2>2, <2>3, <2>4 DEF Quiet
    <3>2. Held
      BY <1>1, <1>3, <2>1 DEF Held, CallKnown
    <3>3. ~Served("advance")
      BY <2>2 DEF Served
    <3>4. QED
      BY <3>1, <3>2, <3>3
  <2>6. /\ page.session.sid = page.sid
        /\ page.session.mode = server[page.sid].mode
        /\ page.mode = server[page.sid].mode
        /\ saved[page.mode] = page.sid
        /\ page.session.version = server[page.sid].version
    BY <2>5 DEF IInv, InStepMeanwhile
  <2>7. calls[c].overrides \subseteq server[page.sid].overrides
    <3>1. calls[c].answer.overrides = server[page.sid].overrides
      BY <2>3 DEF CopyOf
    <3>2. calls[c].overrides \subseteq calls[c].answer.overrides
      BY <1>1, <2>3 DEF AloneKnown
    <3>3. QED
      BY <3>1, <3>2
  <2>8. QED
    BY <1>3, <2>6, <2>7
<1>9. QED
  BY <1>4, <1>6, <1>7, <1>8 DEF IInv

LEMMA AnswerShown ==
  ASSUME IInv, NEW c \in Calls, Deliver(c), ApplyAnswer(c), calls[c].op # "overrides"
  PROVE  IInv'
<1>1. /\ c \in InFlight /\ calls[c].stage = "ok" /\ Closed(c) /\ UNCHANGED <<server, writes>>
      /\ calls[c] \in Call
  BY InFlightCall DEF Deliver, ApplyAnswer, InFlight, IInv
<1>2. PICK mode \in Modes, sid \in Sids :
        /\ IsMade(sid) /\ Shows(mode, sid, calls[c].answer)
        /\ calls[c].op = "advance" => mode = page.mode /\ sid = page.sid
        /\ calls[c].op # "advance" => sid = calls[c].answer.sid
        /\ calls[c].op \in {"start", "resume"} => mode = page.mode
        /\ calls[c].op \in {"new", "open", "fork"} => mode = calls[c].mode
  <2>1. CASE calls[c].op = "advance"
    BY <1>1, <2>1, ApplyFacts DEF IsMade
  <2>2. CASE calls[c].op \in {"start", "resume"}
    BY <1>1, <2>2, ApplyFacts DEF IsMade
  <2>3. CASE calls[c].op \in {"new", "open", "fork"}
    BY <1>1, <2>3, ApplyFacts DEF IsMade
  <2>4. QED
    BY <1>1, <2>1, <2>2, <2>3, CallFields DEF Ops
<1>3. /\ page' = [mode |-> mode, sid |-> sid, session |-> calls[c].answer]
      /\ saved' = [saved EXCEPT ![mode] = sid]
      /\ saved \in [Modes -> Sids \cup {None}]
      /\ calls[c].answer \in Copy /\ sid # None /\ calls[c].answer # None
  BY <1>1, <1>2, ApplyFacts, FrontendAssumption, CallAssumption DEF Shows, IInv, TypeOK
<1>4. /\ page' \in Page /\ page'.mode = mode /\ page'.sid = sid
      /\ page'.session = calls[c].answer
  BY <1>3 DEF Page
<1>5. /\ saved' \in [Modes -> Sids \cup {None}] /\ saved'[mode] = sid
      /\ \A m \in Modes \ {mode} : saved'[m] = saved[m]
  BY <1>3
<1>6. /\ calls' \in [Calls -> Call \cup {None}]
      /\ ServerKnown' /\ CallsKnown' /\ AlonesKnown'
      /\ Quiet' => ~disturbed' /\ InFlight = {c} /\ InFlight' = {}
  BY <1>1, <1>3, <1>4, ClosedFacts
<1>7. /\ disturbed' \in BOOLEAN /\ stained' \in SUBSET Modes
      /\ (\A m \in Modes : saved'[m] \in {None, saved[m]}) => stained' = stained
      /\ \A m \in Modes \ stained' : m # mode => m \notin stained
      /\ mode \in Modes \ stained' =>
           ~disturbed' \/ \A m \in Modes : saved'[m] \in {None, saved[m]}
  BY <1>4, DeliverGhosts
<1>8. TypeOK'
  BY <1>1, <1>4, <1>5, <1>6, <1>7 DEF IInv, TypeOK
<1>9. PageKnown' /\ SavedKnown'
  <2>1. PageKnown'
    BY <1>1, <1>2, <1>3, <1>4 DEF PageKnown, IsMade
  <2>2. SavedKnown'
    BY <1>1, <1>2, <1>5 DEF IInv, SavedKnown, IsMade
  <2>3. QED
    BY <2>1, <2>2
<1>10. ~disturbed' => /\ server[sid].mode = mode
                      /\ calls[c].answer = CopyOf(sid, server[sid])
  <2>1. SUFFICES ASSUME ~disturbed'
                 PROVE  /\ server[sid].mode = mode
                        /\ calls[c].answer = CopyOf(sid, server[sid])
    OBVIOUS
  <2>2. sid = calls[c].answer.sid
    BY <1>2, <1>4, <2>1, AnswerAgrees
  <2>3. server[sid].mode = mode
    BY <1>1, <1>2, <1>4, <2>1, <2>2, AnswerAgrees, CallFields DEF Ops
  <2>4. calls[c].answer = CopyOf(sid, server[sid])
    BY <1>4, <2>1, <2>2, AnswerAgrees
  <2>5. QED
    BY <2>3, <2>4
<1>11. SavedKeepsMode'
  <2>1. SUFFICES ASSUME NEW m \in Modes \ stained', saved'[m] # None
                 PROVE  server[saved'[m]].mode = m
    BY <1>1 DEF SavedKeepsMode
  <2>2. CASE m # mode
    BY <1>5, <1>7, <2>1, <2>2 DEF IInv, SavedKeepsMode
  <2>3. CASE m = mode /\ ~disturbed'
    BY <1>5, <1>10, <2>3
  <2>4. CASE m = mode /\ disturbed'
    <3>1. \A o \in Modes : saved'[o] \in {None, saved[o]}
      BY <1>7, <2>1, <2>4
    <3>2. stained' = stained /\ saved'[m] = saved[m]
      BY <1>7, <2>1, <3>1
    <3>3. QED
      BY <2>1, <3>2 DEF IInv, SavedKeepsMode
  <2>5. disturbed' \/ ~disturbed'
    BY Zenon
  <2>6. QED
    BY <2>2, <2>3, <2>4, <2>5
<1>12. InStepMeanwhile'
  <2>1. SUFFICES ASSUME Quiet'
                 PROVE  /\ page'.session.sid = sid
                        /\ page'.session.mode = server[sid].mode
                        /\ mode = server[sid].mode
                        /\ saved'[mode] = sid
                        /\ page'.session.version = server[sid].version
                        /\ page'.session.overrides \subseteq server[sid].overrides
    BY <1>1, <1>4 DEF InStepMeanwhile
  <2>2. server[sid].mode = mode /\ calls[c].answer = CopyOf(sid, server[sid])
    BY <1>6, <1>10, <2>1
  <2>3. server[sid] \in Session
    BY DEF IInv, TypeOK
  <2>4. QED
    BY <1>4, <1>5, <2>2, <2>3, CopyOfType
<1>13. QED
  BY <1>6, <1>8, <1>9, <1>11, <1>12 DEF IInv

LEMMA FailureClosed ==
  ASSUME IInv, NEW c \in Calls, Deliver(c), calls[c].stage \in {"refused", "lost"},
         calls[c].op # "resume", Closed(c), UNCHANGED saved,
         page' = page \/ (c \in NewRefused /\ page' = [page EXCEPT !.mode = calls[c].mode])
  PROVE  IInv'
<1>1. /\ c \in InFlight /\ calls[c] \in Call /\ CallKnown(calls[c])
      /\ page \in Page /\ page.mode \in Modes
  BY InFlightCall, PageFields DEF Deliver, InFlight, IInv, TypeOK, CallsKnown
<1>2. page' \in Page /\ page'.mode \in Modes /\ page'.sid = page.sid /\ page'.session = page.session
  BY <1>1 DEF Page, NewRefused, CallKnown, Moded
<1>3. /\ disturbed' \in BOOLEAN /\ stained' = stained
      /\ ~disturbed' => ~Disturbs(c) /\ (~disturbed \/ Settles(c))
      /\ UNCHANGED <<server, writes>>
  BY <1>2, DeliverGhosts
<1>4. /\ calls' \in [Calls -> Call \cup {None}]
      /\ ServerKnown' /\ CallsKnown' /\ AlonesKnown'
      /\ Quiet' => ~disturbed' /\ InFlight = {c} /\ InFlight' = {}
  BY <1>1, <1>2, <1>3, ClosedFacts
<1>5. TypeOK'
  BY <1>2, <1>3, <1>4 DEF IInv, TypeOK
<1>6. PageKnown' /\ SavedKnown' /\ SavedKeepsMode'
  BY <1>2, <1>3 DEF IInv, PageKnown, SavedKnown, SavedKeepsMode, IsMade
<1>7. InStepMeanwhile'
  <2>1. SUFFICES ASSUME Quiet', Held'
                 PROVE  /\ Quiet /\ Held /\ page' = page
                        /\ ~Served("advance") /\ ~Served("overrides")
    BY <1>3 DEF IInv, InStepMeanwhile
  <2>2. ~disturbed' /\ InFlight = {c}
    BY <1>4, <2>1
  <2>3. ~Disturbs(c) /\ ~disturbed
    BY <1>3, <2>2 DEF Settles
  <2>4. calls[c].alone /\ calls[c].op \notin {"start", "new"} /\ calls[c].stage = "refused"
    BY <1>1, <2>3, CallFields DEF Disturbs
  <2>5. page' = page
    BY <2>4 DEF NewRefused
  <2>6. Quiet /\ Held
    BY <1>3, <2>1, <2>2, <2>3, <2>4, <2>5 DEF Quiet, Held
  <2>7. ~Served("advance") /\ ~Served("overrides")
    BY <2>2, <2>4 DEF Served
  <2>8. QED
    BY <2>5, <2>6, <2>7
<1>8. QED
  BY <1>4, <1>5, <1>6, <1>7 DEF IInv

LEMMA ResumeRetried ==
  ASSUME IInv, NEW c \in Calls, Deliver(c), ResumeFailed(c)
  PROVE  IInv'
<1> DEFINE new == [calls[c] EXCEPT !.op = "start", !.stage = "sent", !.sid = None,
                                   !.mode = page.mode]
<1>1. /\ c \in InFlight /\ calls[c] \in Call /\ calls[c].op = "resume"
      /\ page \in Page /\ page.mode \in Modes /\ page' = page
      /\ saved' = [saved EXCEPT ![page.mode] = None]
      /\ calls' = [calls EXCEPT ![c] = new]
      /\ saved \in [Modes -> Sids \cup {None}] /\ calls \in [Calls -> Call \cup {None}]
  BY InFlightCall, PageFields DEF Deliver, ResumeFailed, InFlight, IInv, TypeOK
<1>2. /\ new \in Call /\ new.op = "start" /\ new.stage = "sent" /\ new.mode = page.mode
      /\ new.alone = calls[c].alone
  BY <1>1 DEF Call, Ops
<1> HIDE DEF new
<1>3. new # None
  BY <1>2, CallAssumption
<1>4. /\ calls' \in [Calls -> Call \cup {None}] /\ InFlight' = InFlight /\ calls'[c] = new
      /\ \A d \in InFlight \ {c} : calls'[d] = calls[d]
  BY <1>1, <1>2, <1>3 DEF InFlight
<1>5. /\ saved' \in [Modes -> Sids \cup {None}]
      /\ \A m \in Modes : saved'[m] \in {None, saved[m]}
  BY <1>1
<1>6. /\ disturbed' \in BOOLEAN /\ stained' = stained /\ UNCHANGED <<server, writes>>
  BY <1>1, <1>5, DeliverGhosts
<1>7. TypeOK' /\ ServerKnown'
  BY <1>1, <1>4, <1>5, <1>6 DEF IInv, TypeOK, ServerKnown
<1>8. PageKnown' /\ SavedKnown' /\ SavedKeepsMode'
  BY <1>1, <1>5, <1>6 DEF IInv, PageKnown, SavedKnown, SavedKeepsMode, IsMade
<1>9. CallsKnown' /\ AlonesKnown'
  <2>1. KeptServer
    BY <1>6 DEF KeptServer, IsMade
  <2>2. CallKnown(calls[c])'
    BY <1>1, <1>2, <1>4 DEF CallKnown, Targeted
  <2>3. AloneKnown(calls[c])'
    BY <1>1, <1>2, <1>4 DEF AloneKnown
  <2>4. QED
    BY <1>1, <1>2, <1>4, <2>1, <2>2, <2>3, AnswerKeepsOthers
<1>10. InStepMeanwhile'
  BY <1>1, <1>2, <1>4 DEF InStepMeanwhile, Quiet
<1>11. QED
  BY <1>7, <1>8, <1>9, <1>10 DEF IInv

LEMMA DeliverStep ==
  ASSUME IInv, NEW c \in Calls, Deliver(c)
  PROVE  IInv'
<1>1. CASE ApplyAnswer(c)
  BY <1>1, OverridesApplied, AnswerShown
<1>2. CASE ResumeFailed(c)
  BY <1>2, ResumeRetried
<1>3. CASE AnswerFailed(c) /\ ~ResumeFailed(c)
  BY <1>3, FailureClosed DEF AnswerFailed
<1>4. QED
  BY <1>1, <1>2, <1>3 DEF Deliver, AnswerFailed

(***************************************************************************)
(* The theorems                                                            *)
(***************************************************************************)

LEMMA IInvInit == Init => IInv
<1> SUFFICES ASSUME Init
             PROVE  IInv
  OBVIOUS
<1>1. InFlight = {}
  BY DEF Init, InFlight
<1>2. TypeOK
  <2>1. page \in Page /\ saved \in [Modes -> Sids \cup {None}]
    BY DEF Init, Page, Modes
  <2>2. calls \in [Calls -> Call \cup {None}] /\ server \in [Sids -> Session]
    BY UnmadeSession DEF Init
  <2>3. writes \in Versions
    BY FrontendAssumption DEF Init, Versions
  <2>4. disturbed \in BOOLEAN /\ stained \subseteq Modes
    BY Zenon DEF Init
  <2>5. QED
    BY <2>1, <2>2, <2>3, <2>4 DEF TypeOK
<1>3. ServerKnown
  BY UnmadeSession DEF Init, ServerKnown, Unmade
<1>4. PageKnown /\ SavedKnown /\ SavedKeepsMode
  BY DEF Init, PageKnown, SavedKnown, SavedKeepsMode
<1>5. CallsKnown /\ AlonesKnown
  BY <1>1 DEF CallsKnown, AlonesKnown
<1>6. InStepMeanwhile
  BY DEF Init, InStepMeanwhile, Held
<1>7. QED
  BY <1>2, <1>3, <1>4, <1>5, <1>6 DEF IInv

LEMMA IInvStep == IInv /\ [Next]_vars => IInv'
<1> SUFFICES ASSUME IInv, [Next]_vars
             PROVE  IInv'
  OBVIOUS
<1>1. ASSUME NEW c \in Calls, Click(c) \/ Serve(c) \/ Lose(c) \/ Deliver(c)
      PROVE  IInv'
  BY <1>1, ClickStep, ServeStep, LoseStep, DeliverStep
<1>2. ASSUME NEW s \in Sids, Expire(s)
      PROVE  IInv'
  BY <1>2, ExpireStep
<1>3. CASE Refresh
  BY <1>3, RefreshStep
<1>4. CASE UNCHANGED vars
  BY <1>4 DEF vars, IInv, TypeOK, ServerKnown, PageKnown, SavedKnown, CallsKnown,
              AlonesKnown, SavedKeepsMode, InStepMeanwhile, IsMade, CallKnown, AloneKnown,
              InFlight, Quiet, Held, Served
<1>5. QED
  BY <1>1, <1>2, <1>3, <1>4 DEF Next

LEMMA Invariance == Spec => []IInv
BY IInvInit, IInvStep, PTL DEF Spec

LEMMA IInvInStep ==
  ASSUME IInv
  PROVE  InStep
<1>1. SUFFICES ASSUME InFlight = {}, ~disturbed, page.session # None, server[page.sid].stored
               PROVE  /\ page.session.overrides \subseteq server[page.sid].overrides
                      /\ [page.session EXCEPT !.overrides = server[page.sid].overrides]
                           = CopyOf(page.sid, server[page.sid])
                      /\ page.mode = server[page.sid].mode
                      /\ saved[page.mode] = page.sid
  BY DEF InStep
<1>2. Quiet /\ Held /\ ~Served("advance") /\ ~Served("overrides")
  BY <1>1 DEF Quiet, Held, Served
<1>3. /\ page.session.sid = page.sid
      /\ page.session.mode = server[page.sid].mode
      /\ page.mode = server[page.sid].mode
      /\ saved[page.mode] = page.sid
      /\ page.session.version = server[page.sid].version
      /\ page.session.overrides \subseteq server[page.sid].overrides
  BY <1>2 DEF IInv, InStepMeanwhile
<1>4. page.session \in Copy
  BY <1>1, PageFields DEF IInv, TypeOK
<1>5. [page.session EXCEPT !.overrides = server[page.sid].overrides]
        = CopyOf(page.sid, server[page.sid])
  BY <1>3, <1>4 DEF CopyOf, Copy
<1>6. QED
  BY <1>3, <1>5

\* State of the page, the browser's storage and the service keep their types.
THEOREM TypeCorrect == Spec => []TypeOK
BY Invariance, PTL DEF IInv

\* With nothing on its way, and nothing having overlapped or failed since the page
\* last changed session, it is about one session and shows what the service has
\* of it, for any number of requests and sessions.
THEOREM PageInStep == Spec => []InStep
BY Invariance, IInvInStep, PTL

\* What a mode button resumes is of its mode, unless it was saved while disturbed.
THEOREM SavedOfItsMode == Spec => []SavedKeepsMode
BY Invariance, PTL DEF IInv
=============================================================================
