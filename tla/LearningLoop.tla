---------------------------- MODULE LearningLoop ----------------------------
(***************************************************************************)
(* What a PUT of actuals teaches the planner: put_plan_actuals in          *)
(* app/main.py composed with the sessions, the actuals and the             *)
(* observations it works on.  The handler stores its batch, then reads the *)
(* session of the plan, and then appends one observation after the other   *)
(* (record_from_actuals), each committed by itself; no lock spans the      *)
(* three, and whatever is raised while learning is swallowed.              *)
(*                                                                         *)
(* The batch is stored in one step, as Actuals shows it to be, and of a    *)
(* session only its brief's client and target are here.  A cell is a       *)
(* channel and a metric; a record has the cells it gives a figure other    *)
(* than 0 for.  What an observation does to its profile is in Calibration. *)
(***************************************************************************)
EXTENDS Naturals, Sequences, FiniteSets, Bags

CONSTANTS
  Threads,      \* threads that serve requests
  Sessions,     \* the sessions there are at first
  Plans,        \* the plans there are at first
  SessionOf,    \* plan -> the session it was made for
  Scopes,       \* client and target pairs a brief may have
  NoScope,      \* a brief without a client or without a target
  Slots,        \* the weeks of a plan, and its final settlement
  Cells,        \* channel and metric pairs
  Inputs,       \* the records clients send
  MaxPuts,      \* bound on PUT requests
  MaxEdits,     \* bound on what planners change in sessions
  MaxFailures,  \* bound on the exceptions while learning
  MaxCrashes,   \* bound on the restarts of the process
  None

Puts == 1..MaxPuts
Ids  == Puts \X Slots

\* seen: the PUT whose record a client sends back with its id
Input == [slot : Slots, cells : SUBSET Cells, seen : {None} \cup Puts]

ASSUME LearningLoopAssumption ==
  /\ SessionOf \in [Plans -> Sessions]
  /\ Inputs \subseteq Input
  /\ MaxPuts \in Nat /\ MaxEdits \in Nat /\ MaxFailures \in Nat /\ MaxCrashes \in Nat
  /\ NoScope \notin Scopes /\ None \notin Scopes \cup {NoScope} \cup Nat

VARIABLES
  briefs,        \* the scope of each session's brief, None when the row is gone
  plans,         \* table plans
  rows,          \* table plan_actuals
  history,       \* table plan_actuals_history
  observations,  \* table calibration_observations
  threads,       \* thread -> the PUT it serves and how far it got
  used,          \* how many PUTs, edits, failures and crashes there have been
  (* history variables *)
  partial,       \* the PUTs whose learning was cut short
  moved          \* the PUTs whose session was changed since they began

tables == <<briefs, plans, rows, history, observations>>
vars   == <<tables, threads, used, partial, moved>>

Row == [id : Ids, plan : Plans, slot : Slots, cells : SUBSET Cells, put : Puts]
Observation == [scope : Scopes, cell : Cells, plan : Plans, source : Ids,
                put : Puts]    \* history: the PUT that appended it

Thread == [pc : {"idle", "store", "read", "learn"}, plan : Plans \cup {None},
           put : Puts \cup {None}, batch : SUBSET Input, todo : SUBSET (Row \X Cells),
           scope : Scopes \cup {None}]
Idle == [pc |-> "idle", plan |-> None, put |-> None, batch |-> {}, todo |-> {}, scope |-> None]

TypeOK ==
  /\ briefs \in [Sessions -> Scopes \cup {NoScope, None}]
  /\ plans \subseteq Plans
  /\ rows \subseteq Row /\ history \subseteq Row
  /\ IsABag(observations) /\ BagToSet(observations) \subseteq Observation
  /\ threads \in [Threads -> Thread]
  /\ used \in [puts : 0..MaxPuts, edits : 0..MaxEdits, failures : 0..MaxFailures,
               crashes : 0..MaxCrashes]
  /\ partial \subseteq Puts /\ moved \subseteq Puts

Init ==
  /\ briefs \in [Sessions -> Scopes \cup {NoScope}]
  /\ plans = Plans
  /\ rows = {} /\ history = {}
  /\ observations = EmptyBag
  /\ threads = [t \in Threads |-> Idle]
  /\ used = [puts |-> 0, edits |-> 0, failures |-> 0, crashes |-> 0]
  /\ partial = {} /\ moved = {}

IdsOf(rs) == {r.id : r \in rs}

(***************************************************************************)
(* PUT /api/plans/{id}/actuals                                             *)
(***************************************************************************)

\* The plan is found and the records are valid.
Begin(t, p, batch) ==
  /\ threads[t].pc = "idle"
  /\ used.puts < MaxPuts
  /\ p \in plans
  /\ \A in \in batch : in.seen # None => in.seen <= used.puts
  /\ threads' = [threads EXCEPT ![t] =
       [Idle EXCEPT !.pc = "store", !.plan = p, !.put = used.puts + 1, !.batch = batch]]
  /\ used' = [used EXCEPT !.puts = @ + 1]
  /\ UNCHANGED <<tables, partial, moved>>

IdOf(th, in) == <<IF in.seen = None THEN th.put ELSE in.seen, in.slot>>

Stored(th) == {[id |-> IdOf(th, in), plan |-> th.plan, slot |-> in.slot, cells |-> in.cells,
                put |-> th.put] : in \in th.batch}

Replaced(th) == {r \in rows : r.plan = th.plan /\ \E in \in th.batch : in.slot = r.slot}

KeysFree(th) ==
  /\ IdsOf(Replaced(th)) \cap IdsOf(history) = {}
  /\ IdsOf(Stored(th)) \cap IdsOf(rows \ Replaced(th)) = {}
  /\ th.plan \in plans

\* MUTANT: what a batch replaces is not archived
Overwrite(t) == UNCHANGED history

Archive(t) == history' = history \cup Replaced(threads[t])

\* upsert_actuals_records
Store(t) ==
  LET th == threads[t]
  IN  /\ th.pc = "store"
      /\ KeysFree(th)
      /\ rows' = (rows \ Replaced(th)) \cup Stored(th)
      /\ Archive(t)
      /\ threads' = [threads EXCEPT ![t].pc = "read", ![t].todo =
           {w \in Stored(th) \X Cells : w[2] \in w[1].cells}]
      /\ UNCHANGED <<briefs, plans, observations, used, partial, moved>>

\* A refused key: the batch is rolled back and the request fails.
Refuse(t) ==
  /\ threads[t].pc = "store"
  /\ ~KeysFree(threads[t])
  /\ threads' = [threads EXCEPT ![t] = Idle]
  /\ UNCHANGED <<tables, used, partial, moved>>

BriefNow(th) == briefs[SessionOf[th.plan]]

\* The brief the session has now, and not the one the plan was made for.
ReadBrief(t) ==
  LET now == BriefNow(threads[t])
  IN  /\ threads[t].pc = "read"
      /\ threads' = [threads EXCEPT ![t] =
           IF now \in Scopes THEN [@ EXCEPT !.pc = "learn", !.scope = now] ELSE Idle]
      /\ UNCHANGED <<tables, used, partial, moved>>

\* MUTANT: the brief is read again for each record
ScopeReadAgain(th) == IF BriefNow(th) \in Scopes THEN BriefNow(th) ELSE th.scope

ScopeOf(th) == th.scope

\* MUTANT: the metrics of a week are learned with the final settlement only
LearnedWithFinal(w) == w[1].slot = "final"

IsLearned(w) == TRUE

\* record_observation
Learn(t) ==
  /\ threads[t].pc = "learn"
  /\ \E w \in threads[t].todo :
       /\ threads' = [threads EXCEPT ![t].todo = @ \ {w}]
       /\ observations' =
            IF IsLearned(w)
            THEN observations (+) SetToBag({[scope |-> ScopeOf(threads[t]), cell |-> w[2],
                   plan |-> w[1].plan, source |-> w[1].id, put |-> threads[t].put]})
            ELSE observations
  /\ UNCHANGED <<briefs, plans, rows, history, used, partial, moved>>

Answer(t) ==
  /\ threads[t].pc = "learn"
  /\ threads[t].todo = {}
  /\ threads' = [threads EXCEPT ![t] = Idle]
  /\ UNCHANGED <<tables, used, partial, moved>>

\* except Exception: pass
Swallow(t) ==
  /\ threads[t].pc \in {"read", "learn"}
  /\ used.failures < MaxFailures
  /\ used' = [used EXCEPT !.failures = @ + 1]
  /\ partial' = partial \cup {threads[t].put}
  /\ threads' = [threads EXCEPT ![t] = Idle]
  /\ UNCHANGED <<tables, moved>>

(***************************************************************************)
(* What else happens to the tables                                         *)
(***************************************************************************)

\* DELETE of a record: archived and removed under the lock
DeleteRecord(r) ==
  /\ r \in rows
  /\ used.edits < MaxEdits
  /\ r.id \notin IdsOf(history)
  /\ rows' = rows \ {r}
  /\ history' = history \cup {r}
  /\ used' = [used EXCEPT !.edits = @ + 1]
  /\ UNCHANGED <<briefs, plans, observations, threads, partial, moved>>

EditSession(s) ==
  /\ briefs[s] # None
  /\ used.edits < MaxEdits
  /\ used' = [used EXCEPT !.edits = @ + 1]
  /\ moved' = moved \cup 1..used.puts
  /\ UNCHANGED <<history, observations, threads, partial>>

\* A planner goes back to the brief and submits another client or target.
Rescope(s, scope) ==
  /\ EditSession(s)
  /\ briefs' = [briefs EXCEPT ![s] = scope]
  /\ UNCHANGED <<plans, rows>>

\* delete_session leaves the plans.
DeleteSession(s) ==
  /\ EditSession(s)
  /\ briefs' = [briefs EXCEPT ![s] = None]
  /\ UNCHANGED <<plans, rows>>

\* The sweep takes the plans too, and the foreign key takes their actuals.
Sweep(s) ==
  /\ EditSession(s)
  /\ briefs' = [briefs EXCEPT ![s] = None]
  /\ plans' = {p \in plans : SessionOf[p] # s}
  /\ rows' = {r \in rows : SessionOf[r.plan] # s}

\* Everything a thread has committed stays.
Crash ==
  /\ used.crashes < MaxCrashes
  /\ used' = [used EXCEPT !.crashes = @ + 1]
  /\ partial' = partial \cup {threads[t].put : t \in {o \in Threads : threads[o].pc \in {"read", "learn"}}}
  /\ threads' = [t \in Threads |-> Idle]
  /\ UNCHANGED <<tables, moved>>

(***************************************************************************)
(* Steps                                                                   *)
(***************************************************************************)

\* Batches with one record for a slot; Actuals has those with several.
Batches == {b \in SUBSET Inputs : \A in, jn \in b : in.slot = jn.slot => in = jn}

Put(t) == Store(t) \/ Refuse(t) \/ ReadBrief(t) \/ Learn(t) \/ Answer(t) \/ Swallow(t)

Next ==
  \/ \E t \in Threads, p \in Plans, b \in Batches : Begin(t, p, b)
  \/ \E t \in Threads : Put(t)
  \/ \E r \in rows : DeleteRecord(r)
  \/ \E s \in Sessions : DeleteSession(s) \/ Sweep(s)
                           \/ \E scope \in Scopes \cup {NoScope} : Rescope(s, scope)
  \/ Crash

Spec == Init /\ [][Next]_vars

(***************************************************************************)
(* Properties                                                              *)
(***************************************************************************)

Recorded  == rows \cup history
Learning  == {threads[t].put : t \in Threads}
Finished  == Puts \ (Learning \cup partial)
Learned(q) == {o \in BagToSet(observations) : o.put = q}
Due(q)    == {<<r.id, c>> : r \in {x \in Recorded : x.put = q}, c \in Cells}

\* Whatever is replaced, deleted or sent back with its id meanwhile, there is
\* for every observation the record it came from, in force or in the history,
\* with the cell it is about; unless the plan was swept (FR-30, append-only).
SourceKnown ==
  \A o \in BagToSet(observations) : o.plan \in plans =>
    \E r \in Recorded : r.id = o.source /\ r.put = o.put /\ o.cell \in r.cells

\* Nothing is learned twice from one PUT, and all of it under one client and
\* target, though the brief may change while it learns (main.py:387); a PUT
\* whose learning nothing cut short is learned from in full or not at all.
LearnedAsOne ==
  \A q \in Puts :
    /\ \A o, n \in Learned(q) : o.scope = n.scope
    /\ \A o \in Learned(q) : observations[o] = 1
    /\ q \in Finished /\ Learned(q) # {} =>
         \A r \in Recorded : r.put = q =>
           {o.cell : o \in {x \in Learned(q) : x.source = r.id}} = r.cells

\* The banner promises history for a client and target only where there is
\* some: each row that count_actuals_for_client_target counts has its
\* observations under that client and target (main.py:442), unless its
\* session was changed after the PUT began or the learning was cut short.
Counted(scope) == {r \in rows : r.plan \in plans /\ briefs[SessionOf[r.plan]] = scope}
BannerBacked ==
  \A scope \in Scopes : \A r \in Counted(scope) :
    r.put \in Finished \ moved =>
      \A c \in r.cells : \E o \in Learned(r.put) :
        o.source = r.id /\ o.cell = c /\ o.scope = scope
=============================================================================
