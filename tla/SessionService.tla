--------------------------- MODULE SessionService ---------------------------
(***************************************************************************)
(* The session endpoints of app/main.py over app/services/storage.py.      *)
(* FastAPI runs each request in a thread of its pool; a request reads its  *)
(* session without the lock, advances it in memory, and then makes up to   *)
(* three separate writes: the plan, the session (with the TTL sweep) and   *)
(* the conversation turn.  storage._lock covers each write on its own, the *)
(* connection commits each statement, and the process may die between any  *)
(* two of them.                                                            *)
(***************************************************************************)
EXTENDS WizardSteps, FiniteSets

CONSTANTS
  Threads,      \* threads that serve requests
  Payloads,     \* the payloads clients send
  Seeds,        \* the sessions imported at boot (import_legacy_json): no turns
  TTL,          \* SESSION_TTL_SECONDS, in ticks of the clock
  MaxSessions,  \* bound on session ids
  MaxRequests,  \* bound on advance requests
  MaxClock,     \* bound on the clock
  MaxCrashes    \* bound on the restarts of the process

Sids  == 1..MaxSessions
Reqs  == 1..MaxRequests
Pids  == Reqs    \* a request makes at most one plan, and numbers it
Times == 0..MaxClock

Session == SessionOver(Pids)
Plan    == PlanOver(Sids)

ASSUME ServiceAssumption ==
  /\ Payloads \subseteq Payload
  /\ Seeds \in Seq(Session) /\ \A i \in 1..Len(Seeds) : Seeds[i].plan_id = None
  /\ TTL \in Nat /\ MaxSessions \in Nat /\ MaxRequests \in Nat
  /\ MaxClock \in Nat /\ MaxCrashes \in Nat
  /\ Len(Seeds) <= MaxSessions
ASSUME ThreadsAssumption == None \notin Threads

VARIABLES
  sessions,   \* table sessions: id -> row or None
  plans,      \* table plans: id -> row or None
  turns,      \* table conversations
  lock,       \* the thread inside storage._lock, or None
  threads,    \* thread -> the request it serves and how far it got
  clock,      \* time.time()
  used,       \* how many session ids and requests there have been
  crashes,    \* how often the process has died
  (* history variables *)
  versions,   \* session id -> every history ever stored under it
  acked,      \* session id -> the advances answered with 200, in that order
  disturbed   \* the sessions with two advances in flight at once, or
              \* deleted, swept or cut short by a crash with one in flight

tables == <<sessions, plans, turns>>
ghosts == <<versions, acked, disturbed>>
vars   == <<tables, lock, threads, clock, used, crashes, ghosts>>

(***************************************************************************)
(* Rows and threads                                                        *)
(***************************************************************************)

\* A session row.  history stands for the payloads appended to
\* session.history: the numbers of the requests that advanced it.
Row == [session : Session, history : Seq(Reqs), created_at : Times,
        updated_at : Times, project : {"chosen", "Default"}]

ASSUME RowAssumption == None \notin Row \cup Plan

Turn == [session_id : Sids, turn_index : Nat, request : Reqs, snapshot : Seq(Reqs)]

Steps == {"idle", "save_plan", "save_session", "sweep_plans", "sweep_sessions", "log_turn"}
Thread == [pc : Steps, sid : {None} \cup Sids, request : {None} \cup Reqs,
           session : {None} \cup Session, history : Seq(Reqs),
           project : {None, "chosen"}, cutoff : Int]
Idle == [pc |-> "idle", sid |-> None, request |-> None, session |-> None,
         history |-> <<>>, project |-> None, cutoff |-> 0]

TypeOK ==
  /\ sessions \in [Sids -> {None} \cup Row]
  /\ plans \in [Pids -> {None} \cup Plan]
  /\ turns \subseteq Turn
  /\ lock \in {None} \cup Threads
  /\ threads \in [Threads -> Thread]
  /\ clock \in Times
  /\ used \in [sids : 0..MaxSessions, reqs : 0..MaxRequests]
  /\ crashes \in 0..MaxCrashes
  /\ versions \in [Sids -> SUBSET Seq(Reqs)]
  /\ acked \in [Sids -> Seq(Reqs)]
  /\ disturbed \subseteq Sids

Stored     == {s \in Sids : sessions[s] # None}
Advancing  == {t \in Threads : threads[t].request # None}
InFlight(s) == \E t \in Advancing : threads[t].sid = s
TurnsOf(s) == {turn \in turns : turn.session_id = s}

Init ==
  /\ sessions = [s \in Sids |->
       IF s <= Len(Seeds)
         THEN [session |-> Seeds[s], history |-> <<>>, created_at |-> 0,
               updated_at |-> 0, project |-> "chosen"]
         ELSE None]
  /\ plans = [p \in Pids |-> None]
  /\ turns = {}
  /\ lock = None
  /\ threads = [t \in Threads |-> Idle]
  /\ clock = 0
  /\ used = [sids |-> Len(Seeds), reqs |-> 0]
  /\ crashes = 0
  /\ versions = [s \in Sids |-> IF s <= Len(Seeds) THEN {<<>>} ELSE {}]
  /\ acked = [s \in Sids |-> <<>>]
  /\ disturbed = {}

(***************************************************************************)
(* A request arrives: storage.get_session, without the lock, and what is   *)
(* computed in memory from the row.  A 404 or 400 changes nothing.         *)
(***************************************************************************)

BeginAdvance(t, s, p) ==
  /\ threads[t].pc = "idle"
  /\ used.reqs < MaxRequests
  /\ sessions[s] # None
  /\ Accepted(sessions[s].session, p)
  /\ LET read == sessions[s].session
     IN  threads' = [threads EXCEPT ![t] =
           [Idle EXCEPT !.pc = IF MakesPlan(read, p) THEN "save_plan" ELSE "save_session",
                        !.sid = s,
                        !.request = used.reqs + 1,
                        !.session = Landed(read, p),
                        !.history = Append(sessions[s].history, used.reqs + 1)]]
  /\ used' = [used EXCEPT !.reqs = @ + 1]
  /\ disturbed' = IF InFlight(s) THEN disturbed \cup {s} ELSE disturbed
  /\ UNCHANGED <<tables, lock, clock, crashes, versions, acked>>

\* MUTANT: a new session is saved under the id handed out before
BeginSaveUnderLastId(t, session) ==
  /\ threads[t].pc = "idle"
  /\ used.sids < MaxSessions
  /\ threads' = [threads EXCEPT ![t] =
       [Idle EXCEPT !.pc = "save_session", !.sid = used.sids,
                    !.session = session, !.project = "chosen"]]
  /\ used' = [used EXCEPT !.sids = @ + 1]
  /\ UNCHANGED <<tables, lock, clock, crashes, ghosts>>

\* create_session() and fork() make a session of their own and save it once.
BeginSaveOfNew(t, session) ==
  /\ threads[t].pc = "idle"
  /\ used.sids < MaxSessions
  /\ threads' = [threads EXCEPT ![t] =
       [Idle EXCEPT !.pc = "save_session", !.sid = used.sids + 1,
                    !.session = session, !.project = "chosen"]]
  /\ used' = [used EXCEPT !.sids = @ + 1]
  /\ UNCHANGED <<tables, lock, clock, crashes, ghosts>>

BeginCreate(t, mode) == BeginSaveOfNew(t, NewSession(mode, FirstWeeks))

BeginFork(t, s) ==
  /\ sessions[s] # None
  /\ CanFork(sessions[s].session)
  /\ BeginSaveOfNew(t, Forked(sessions[s].session))

(***************************************************************************)
(* The writes                                                              *)
(***************************************************************************)

SavePlan(t) ==
  LET th == threads[t]
  IN  /\ th.pc = "save_plan"
      /\ lock = None
      /\ plans' = [plans EXCEPT ![th.request] = PlanFor(th.session, th.sid)]
      /\ threads' = [threads EXCEPT ![t] =
           [@ EXCEPT !.pc = "save_session", !.session.plan_id = th.request]]
      /\ UNCHANGED <<sessions, turns, lock, clock, used, crashes, ghosts>>

\* save_session up to its INSERT .. ON CONFLICT; the lock stays held.
SaveSession(t) ==
  LET th == threads[t]
      old == sessions[th.sid]
  IN  /\ th.pc = "save_session"
      /\ lock = None
      /\ lock' = t
      /\ sessions' = [sessions EXCEPT ![th.sid] =
           [session    |-> th.session,
            history    |-> th.history,
            created_at |-> IF old # None THEN old.created_at ELSE clock,
            updated_at |-> clock,
            project    |-> IF th.project # None THEN th.project
                           ELSE IF old # None THEN old.project ELSE "Default"]]
      /\ threads' = [threads EXCEPT ![t].pc = "sweep_plans"]
      /\ versions' = [versions EXCEPT ![th.sid] = @ \cup {th.history}]
      /\ UNCHANGED <<plans, turns, clock, used, crashes, acked, disturbed>>

\* MUTANT: the session being saved is not spared
StaleWithSaved(cutoff, keep) == {s \in Stored : sessions[s].updated_at < cutoff}

\* The rows _sweep_stale(keep_session_id=keep) takes for a given cutoff
Stale(cutoff, keep) ==
  {s \in Stored : sessions[s].updated_at < cutoff /\ s # keep}

\* MUTANT: the plans of the session being saved go with the others
SweepPlansOfSaved(t) ==
  /\ threads[t].pc = "sweep_plans"
  /\ LET stale == Stale(clock - TTL, None)
     IN  plans' = [p \in Pids |->
           IF plans[p] # None /\ plans[p].brief_id \in stale THEN None ELSE plans[p]]
  /\ threads' = [threads EXCEPT ![t].pc = "sweep_sessions", ![t].cutoff = clock - TTL]
  /\ UNCHANGED <<sessions, turns, lock, clock, used, crashes, ghosts>>

SweepPlans(t) ==
  /\ threads[t].pc = "sweep_plans"
  /\ LET stale == Stale(clock - TTL, threads[t].sid)
     IN  plans' = [p \in Pids |->
           IF plans[p] # None /\ plans[p].brief_id \in stale THEN None ELSE plans[p]]
  /\ threads' = [threads EXCEPT ![t].pc = "sweep_sessions", ![t].cutoff = clock - TTL]
  /\ UNCHANGED <<sessions, turns, lock, clock, used, crashes, ghosts>>

\* Deleting a session cascades to its conversation.
Drop(gone) ==
  /\ sessions' = [s \in Sids |-> IF s \in gone THEN None ELSE sessions[s]]
  /\ turns' = {turn \in turns : turn.session_id \notin gone}
  /\ disturbed' = disturbed \cup {s \in gone : InFlight(s)}

\* MUTANT: the second statement of the sweep asks for the time again
SweepSessionsAfresh(t) ==
  /\ threads[t].pc = "sweep_sessions"
  /\ Drop(Stale(clock - TTL, threads[t].sid))
  /\ lock' = None
  /\ threads' = [threads EXCEPT ![t] =
       IF threads[t].request = None THEN Idle ELSE [@ EXCEPT !.pc = "log_turn"]]
  /\ UNCHANGED <<plans, clock, used, crashes, versions, acked>>

\* The end of save_session; create_session and fork are done with it.
SweepSessions(t) ==
  /\ threads[t].pc = "sweep_sessions"
  /\ Drop(Stale(threads[t].cutoff, threads[t].sid))
  /\ lock' = None
  /\ threads' = [threads EXCEPT ![t] =
       IF threads[t].request = None THEN Idle ELSE [@ EXCEPT !.pc = "log_turn"]]
  /\ UNCHANGED <<plans, clock, used, crashes, versions, acked>>

\* MUTANT: the turns of all sessions are numbered together
NextIndexOfAll(s) == Cardinality(turns)

NextIndex(s) ==
  IF TurnsOf(s) = {} THEN 0
  ELSE 1 + CHOOSE i \in {turn.turn_index : turn \in TurnsOf(s)} :
             \A turn \in TurnsOf(s) : turn.turn_index <= i

\* MUTANT: a request whose turn is refused saves its session again
RefusedAndRetried(t) ==
  /\ threads' = [threads EXCEPT ![t].pc = "save_session"]
  /\ UNCHANGED <<turns, acked, lock>>

\* MUTANT: the exception leaves the lock held
RefusedUnderLock(t) ==
  /\ threads' = [threads EXCEPT ![t] = Idle]
  /\ lock' = t
  /\ UNCHANGED <<turns, acked>>

\* The foreign key refuses the turn of a session that is gone: the request
\* fails and the "with _lock" is left.
Refused(t) ==
  /\ threads' = [threads EXCEPT ![t] = Idle]
  /\ UNCHANGED <<turns, acked, lock>>

Logged(t) ==
  LET th == threads[t]
  IN  /\ turns' = turns \cup
           {[session_id |-> th.sid, turn_index |-> NextIndex(th.sid),
             request |-> th.request, snapshot |-> th.history]}
      /\ acked' = [acked EXCEPT ![th.sid] = Append(@, th.request)]
      /\ threads' = [threads EXCEPT ![t] = Idle]
      /\ UNCHANGED lock

\* log_turn, in one lock section
LogTurn(t) ==
  /\ threads[t].pc = "log_turn"
  /\ lock = None
  /\ \/ sessions[threads[t].sid] # None /\ Logged(t)
     \/ sessions[threads[t].sid] = None /\ Refused(t)
  /\ UNCHANGED <<sessions, plans, clock, used, crashes, versions, disturbed>>

\* DELETE /api/sessions/{id}: one statement under the lock
DeleteSession(s) ==
  /\ lock = None
  /\ sessions[s] # None
  /\ Drop({s})
  /\ UNCHANGED <<plans, lock, threads, clock, used, crashes, versions, acked>>

(***************************************************************************)
(* The environment                                                         *)
(***************************************************************************)

Tick ==
  /\ clock < MaxClock
  /\ clock' = clock + 1
  /\ UNCHANGED <<tables, lock, threads, used, crashes, ghosts>>

\* The process dies and restarts: committed statements stay, threads do not.
\* A sweep cut in half leaves sessions without their plans.
Crash ==
  /\ crashes < MaxCrashes
  /\ crashes' = crashes + 1
  /\ threads' = [t \in Threads |-> Idle]
  /\ lock' = None
  /\ disturbed' = disturbed
       \cup {s \in Sids : InFlight(s)}
       \cup UNION {Stale(threads[t].cutoff, threads[t].sid) :
                     t \in {u \in Threads : threads[u].pc = "sweep_sessions"}}
  /\ UNCHANGED <<tables, clock, used, versions, acked>>

Write(t) == SavePlan(t) \/ SaveSession(t) \/ SweepPlans(t) \/ SweepSessions(t) \/ LogTurn(t)

Next ==
  \/ \E t \in Threads, s \in Sids, p \in Payloads : BeginAdvance(t, s, p)
  \/ \E t \in Threads, mode \in Modes : BeginCreate(t, mode)
  \/ \E t \in Threads, s \in Sids : BeginFork(t, s)
  \/ \E t \in Threads : Write(t)
  \/ \E s \in Sids : DeleteSession(s)
  \/ Tick
  \/ Crash

Spec == Init /\ [][Next]_vars

\* A thread that has started a request runs on: the operating system schedules
\* it, SQLite answers, and the lock it waits for is free again and again.
FairSpec == Spec /\ \A t \in Threads : WF_vars(Write(t))

(***************************************************************************)
(* Properties                                                              *)
(***************************************************************************)

\* The sessions a thread holding the lock has taken the plans of, and not yet
\* the rows
BeingSwept ==
  UNION {Stale(threads[t].cutoff, threads[t].sid) :
           t \in {u \in Threads : threads[u].pc = "sweep_sessions"}}

\* A session never points at another session's plan, nor at a plan that was
\* not stored before the session was, whatever overlaps or dies: agent.advance
\* saves the plan first and fork() leaves plan_id behind.
LinkedPlanIsOwn ==
  \A s \in Stored :
    LET id == sessions[s].session.plan_id
    IN  id # None =>
          /\ \A t \in Threads : threads[t].pc = "save_plan" => threads[t].request # id
          /\ plans[id] # None =>
               plans[id].brief_id = s /\ plans[id].kind = sessions[s].session.mode

\* storage.log_turn numbers the turns of a session 0, 1, 2, .. without gaps or
\* repeats, through deletions and sessions that come back.
TurnsGapless ==
  /\ \A a, b \in turns :
       a.session_id = b.session_id /\ a.turn_index = b.turn_index => a = b
  /\ \A a \in turns : \A i \in 0..(a.turn_index - 1) :
       \E b \in turns : b.session_id = a.session_id /\ b.turn_index = i

\* The conversation goes when its session does (storage.py: ON DELETE CASCADE).
TurnsHaveSession == \A turn \in turns : turn.session_id \in Stored

\* A session that never had two advances in flight, and was not removed or
\* crashed under one, holds exactly the requests that were answered with 200,
\* in that order, and its conversation replays them with a snapshot each:
\* requests on other sessions, their sweeps and their crashes do not show.
QuietSessionsExact ==
  \A s \in Stored \ disturbed :
    ~InFlight(s) =>
      /\ sessions[s].history = acked[s]
      /\ TurnsOf(s) =
           {[session_id |-> s, turn_index |-> i - 1, request |-> acked[s][i],
             snapshot |-> SubSeq(acked[s], 1, i)] : i \in 1..Len(acked[s])}

\* Such a session also keeps the plan it points at: no sweep takes the plans
\* of a session and leaves the session.
QuietSessionsKeepPlan ==
  \A s \in Stored \ (disturbed \cup BeingSwept) :
    LET id == sessions[s].session.plan_id IN id # None => plans[id] # None

\* Such a session, when manual, has one plan at most, however often its
\* planner goes back to manual_plan and submits again (agent.py:383).
QuietManualOnePlan ==
  \A s \in Stored \ disturbed :
    sessions[s].session.mode = "manual" =>
      \A p, q \in Pids :
        plans[p] # None /\ plans[q] # None /\ plans[p].brief_id = s /\ plans[q].brief_id = s
          => p = q

\* The session being saved outlives its own sweep even when the sweep starts
\* long after the save (storage.py:711, keep_session_id; TC-13.6).
OwnSessionSurvivesSweep ==
  [][\A t \in Threads :
       SweepSessions(t) => sessions'[threads[t].sid] # None]_vars

\* A sweep leaves no plan behind of a session it takes, whatever has been saved
\* and however late its second statement is (storage.py:707, "plans +
\* conversations cascade": two statements, one cutoff).
SweptWholly ==
  [][\A t \in Threads, s \in Sids :
       SweepSessions(t) /\ sessions[s] # None /\ sessions'[s] = None =>
         \A p \in Pids : plans[p] # None => plans[p].brief_id # s]_vars

\* The version of each session in the database
Current == [s \in Sids |-> IF sessions[s] = None THEN None ELSE sessions[s].history]

\* The service implements SessionPromise: what is stored is always one request
\* on from a version stored before, whichever requests overlap (storage.py:515).
Promise == INSTANCE SessionPromise WITH
  SessionIds <- Sids, Requests <- Reqs, Seeded <- 1..Len(Seeds), NoSession <- None,
  current <- Current, versions <- versions
KeepsPromise == Promise!Spec

\* Every request is answered: no path leaves storage._lock held, not even the
\* one where the turn's session is gone.
RequestsFinish ==
  \A t \in Threads : threads[t].pc # "idle" ~> threads[t].pc = "idle"

(***************************************************************************)
(* A statement of the documentation the code does not keep                 *)
(***************************************************************************)

\* PRD NFR-2: concurrent advances of a session do not drop updates.
NoLostUpdate ==
  \A s \in Stored : \A i \in 1..Len(acked[s]) :
    \E j \in 1..Len(sessions[s].history) : sessions[s].history[j] = acked[s][i]
=============================================================================
