------------------------------ MODULE Actuals ------------------------------
(***************************************************************************)
(* The actuals of a plan: PUT and DELETE /api/plans/{id}/actuals in        *)
(* app/main.py over plan_actuals and plan_actuals_history in storage.py.   *)
(* A PUT upserts its batch in one transaction under storage._lock; a       *)
(* DELETE holds the lock for two statements that are committed one by one. *)
(* The plan is looked up before the lock is taken.                         *)
(*                                                                         *)
(* Of a record only its place and id matter here.  A record may come with  *)
(* the id of an earlier one: the schema accepts it and GET returns it.     *)
(***************************************************************************)
EXTENDS Naturals, Sequences, FiniteSets

CONSTANTS
  Threads,      \* threads that serve requests
  Plans,        \* the plans in the database at first
  PlanWeeks,    \* the length of a plan's campaign
  Batches,      \* the batches clients send
  MaxPuts,      \* bound on PUT requests
  MaxBatch,     \* bound on the records of a PUT
  MaxCrashes,   \* bound on the restarts of the process
  None

Scopes == {"WEEKLY", "FINAL"}
Slots  == 0..PlanWeeks    \* the weeks, and 0 for the final settlement
Puts   == 1..MaxPuts
Ids    == 1..(MaxPuts * MaxBatch)

\* A record as it arrives; seen: an id a client sends is one the server has
\* made, counted from the oldest.
Input == [scope : Scopes, period_week : {None} \cup Nat, seen : {None} \cup Ids]

ASSUME ActualsAssumption ==
  /\ \A b \in Batches : b \in Seq(Input) /\ Len(b) <= MaxBatch
  /\ PlanWeeks \in Nat /\ MaxPuts \in Nat /\ MaxBatch \in Nat /\ MaxCrashes \in Nat
ASSUME NoneAssumption == None \notin Threads /\ None \notin Nat

VARIABLES
  plans,      \* table plans
  rows,       \* table plan_actuals
  history,    \* table plan_actuals_history
  lock,       \* the thread inside storage._lock, or None
  threads,    \* thread -> the request it serves and how far it got
  used,       \* how many PUTs and record ids there have been
  crashes,    \* how often the process has died
  acked       \* history variable: the rows of the PUTs answered with 200

tables == <<plans, rows, history>>
vars   == <<tables, lock, threads, used, crashes, acked>>

\* A row; put and part tell apart the contents two records have
Row == [id : Ids, plan : Plans, slot : Slots, put : Puts, part : 1..MaxBatch]

\* The transaction of a thread: the tables as it sees them
Work == [rows : SUBSET Row, history : SUBSET Row]

Thread == [pc : {"idle", "begin", "upsert", "archive", "remove"},
           plan : {None} \cup Plans, put : {None} \cup Puts,
           batch : Seq(Input), next : Nat, work : Work, id : {None} \cup Ids]
Idle == [pc |-> "idle", plan |-> None, put |-> None, batch |-> <<>>, next |-> 1,
         work |-> [rows |-> {}, history |-> {}], id |-> None]

TypeOK ==
  /\ plans \subseteq Plans
  /\ rows \subseteq Row /\ history \subseteq Row /\ acked \subseteq Row
  /\ lock \in {None} \cup Threads
  /\ threads \in [Threads -> Thread]
  /\ used \in [puts : 0..MaxPuts, ids : {0} \cup Ids]
  /\ crashes \in 0..MaxCrashes

Init ==
  /\ plans = Plans
  /\ rows = {} /\ history = {} /\ acked = {}
  /\ lock = None
  /\ threads = [t \in Threads |-> Idle]
  /\ used = [puts |-> 0, ids |-> 0]
  /\ crashes = 0

IdsOf(rs) == {r.id : r \in rs}

(***************************************************************************)
(* PUT /api/plans/{id}/actuals                                             *)
(***************************************************************************)

\* MUTANT: the week after the last is accepted
ValidOneMore(in) ==
  CASE in.scope = "WEEKLY" -> in.period_week # None /\ in.period_week \in 1..(PlanWeeks + 1)
    [] in.scope = "FINAL"  -> in.period_week = None

\* actuals.validate_record
Valid(in) ==
  CASE in.scope = "WEEKLY" -> in.period_week # None /\ in.period_week \in 1..PlanWeeks
    [] in.scope = "FINAL"  -> in.period_week = None

SlotOf(in) == IF in.scope = "FINAL" THEN 0 ELSE in.period_week

\* The plan is found and every record is valid; otherwise 404 or 422.
BeginPut(t, p, batch) ==
  /\ threads[t].pc = "idle"
  /\ used.puts < MaxPuts
  /\ p \in plans
  /\ \A i \in 1..Len(batch) :
       Valid(batch[i]) /\ (batch[i].seen # None => batch[i].seen <= used.ids)
  /\ threads' = [threads EXCEPT ![t] =
       [Idle EXCEPT !.pc = "begin", !.plan = p, !.put = used.puts + 1, !.batch = batch]]
  /\ used' = [used EXCEPT !.puts = @ + 1]
  /\ UNCHANGED <<tables, lock, crashes, acked>>

\* with _lock, BEGIN IMMEDIATE
BeginTransaction(t) ==
  /\ threads[t].pc = "begin"
  /\ lock = None
  /\ lock' = t
  /\ threads' = [threads EXCEPT ![t].pc = "upsert",
                                ![t].work = [rows |-> rows, history |-> history]]
  /\ UNCHANGED <<tables, used, crashes, acked>>

\* MUTANT: the final settlement is looked up among the weekly records
ReplacedWeekly(th) ==
  {r \in th.work.rows : r.plan = th.plan /\ r.slot # 0 /\ r.slot = SlotOf(th.batch[th.next])}

\* The row the next record of a batch supersedes
Replaced(th) ==
  {r \in th.work.rows : r.plan = th.plan /\ r.slot = SlotOf(th.batch[th.next])}

NewId(th) ==
  IF th.batch[th.next].seen = None THEN used.ids + 1 ELSE th.batch[th.next].seen

\* The keys the next record needs: its predecessor's id free in the history,
\* its own in the table, and its plan still there.
KeysFree(th) ==
  /\ IdsOf(Replaced(th)) \cap IdsOf(th.work.history) = {}
  /\ NewId(th) \notin IdsOf(th.work.rows \ Replaced(th))
  /\ th.plan \in plans

\* MUTANT: the superseded row is deleted and not archived
ReplaceSilently(t) ==
  LET th  == threads[t]
      new == [id |-> NewId(th), plan |-> th.plan, slot |-> SlotOf(th.batch[th.next]),
              put |-> th.put, part |-> th.next]
  IN  threads' = [threads EXCEPT ![t].next = @ + 1,
                                 ![t].work.rows = (@ \ Replaced(th)) \cup {new}]

\* Archive and delete the old row, insert the new one
Replace(t) ==
  LET th  == threads[t]
      new == [id |-> NewId(th), plan |-> th.plan, slot |-> SlotOf(th.batch[th.next]),
              put |-> th.put, part |-> th.next]
  IN  threads' = [threads EXCEPT
        ![t].next = @ + 1,
        ![t].work = [rows    |-> (@.rows \ Replaced(th)) \cup {new},
                     history |-> @.history \cup Replaced(th)]]

UpsertNext(t) ==
  /\ threads[t].pc = "upsert"
  /\ threads[t].next <= Len(threads[t].batch)
  /\ KeysFree(threads[t])
  /\ Replace(t)
  /\ used' = [used EXCEPT !.ids = IF NewId(threads[t]) > @ THEN @ + 1 ELSE @]
  /\ UNCHANGED <<tables, lock, crashes, acked>>

\* MUTANT: what was upserted before the failure stays
KeepPart(t) == rows' = threads[t].work.rows /\ history' = threads[t].work.history

\* ROLLBACK
Undo(t) == UNCHANGED <<rows, history>>

\* An IntegrityError: nothing of the batch is kept, and the request fails.
Rollback(t) ==
  /\ threads[t].pc = "upsert"
  /\ threads[t].next <= Len(threads[t].batch)
  /\ ~KeysFree(threads[t])
  /\ Undo(t)
  /\ lock' = None
  /\ threads' = [threads EXCEPT ![t] = Idle]
  /\ UNCHANGED <<plans, used, crashes, acked>>

Commit(t) ==
  LET work == threads[t].work
  IN  /\ threads[t].pc = "upsert"
      /\ threads[t].next > Len(threads[t].batch)
      /\ rows' = work.rows /\ history' = work.history
      /\ acked' = acked \cup {r \in work.rows \cup work.history : r.put = threads[t].put}
      /\ lock' = None
      /\ threads' = [threads EXCEPT ![t] = Idle]
      /\ UNCHANGED <<plans, used, crashes>>

(***************************************************************************)
(* DELETE /api/plans/{id}/actuals/{record_id}                              *)
(***************************************************************************)

BeginDelete(t, p, id) ==
  /\ threads[t].pc = "idle"
  /\ p \in plans
  /\ id <= used.ids
  /\ threads' = [threads EXCEPT ![t] = [Idle EXCEPT !.pc = "archive", !.plan = p, !.id = id]]
  /\ UNCHANGED <<tables, lock, used, crashes, acked>>

Named(th) == {r \in rows : r.id = th.id /\ r.plan = th.plan}

\* MUTANT: the lock is given up between the two statements
ArchiveUnlocked(t) ==
  /\ threads[t].pc = "archive"
  /\ lock = None
  /\ Named(threads[t]) # {} /\ threads[t].id \notin IdsOf(history)
  /\ history' = history \cup Named(threads[t])
  /\ threads' = [threads EXCEPT ![t].pc = "remove"]
  /\ UNCHANGED <<plans, rows, lock, used, crashes, acked>>

Archive(t) ==
  /\ threads[t].pc = "archive"
  /\ lock = None
  /\ Named(threads[t]) # {} /\ threads[t].id \notin IdsOf(history)
  /\ history' = history \cup Named(threads[t])
  /\ lock' = t
  /\ threads' = [threads EXCEPT ![t].pc = "remove"]
  /\ UNCHANGED <<plans, rows, used, crashes, acked>>

\* 404 when the row is gone, an IntegrityError when its id is in the history
NotArchived(t) ==
  /\ threads[t].pc = "archive"
  /\ lock = None
  /\ Named(threads[t]) = {} \/ threads[t].id \in IdsOf(history)
  /\ threads' = [threads EXCEPT ![t] = Idle]
  /\ UNCHANGED <<tables, lock, used, crashes, acked>>

Remove(t) ==
  /\ threads[t].pc = "remove"
  /\ rows' = {r \in rows : r.id # threads[t].id}
  /\ lock' = None
  /\ threads' = [threads EXCEPT ![t] = Idle]
  /\ UNCHANGED <<plans, history, used, crashes, acked>>

(***************************************************************************)
(* The environment                                                         *)
(***************************************************************************)

\* The TTL sweep of a session takes its plans; the foreign key of
\* plan_actuals cascades, the history has none.
DropPlans(gone) ==
  /\ lock = None
  /\ gone \subseteq plans /\ gone # {}
  /\ plans' = plans \ gone
  /\ rows' = {r \in rows : r.plan \notin gone}
  /\ UNCHANGED <<history, lock, threads, used, crashes, acked>>

\* The process dies: an open transaction is rolled back, committed statements
\* stay.
Crash ==
  /\ crashes < MaxCrashes
  /\ crashes' = crashes + 1
  /\ lock' = None
  /\ threads' = [t \in Threads |-> Idle]
  /\ UNCHANGED <<tables, used, acked>>

Put(t)    == BeginTransaction(t) \/ UpsertNext(t) \/ Rollback(t) \/ Commit(t)
Delete(t) == Archive(t) \/ NotArchived(t) \/ Remove(t)

Next ==
  \/ \E t \in Threads, p \in Plans, batch \in Batches : BeginPut(t, p, batch)
  \/ \E t \in Threads, p \in Plans, id \in Ids : BeginDelete(t, p, id)
  \/ \E t \in Threads : Put(t) \/ Delete(t)
  \/ \E gone \in SUBSET Plans : DropPlans(gone)
  \/ Crash

Spec == Init /\ [][Next]_vars

(***************************************************************************)
(* Properties                                                              *)
(***************************************************************************)

\* Select, delete and insert keep the keys of both tables by themselves: the
\* unique indexes of storage.py:174-177 never have to refuse a row.
KeysUnique ==
  /\ \A r, n \in rows : r.id = n.id \/ (r.plan = n.plan /\ r.slot = n.slot) => r = n
  /\ \A r, n \in history : r.id = n.id => r = n

\* The audit is complete and holds nothing else: each record of a PUT that was
\* answered with 200 is in force or in the history, unless its plan is gone,
\* and no record of any other PUT is (storage.py:807, "Atomic").
AuditComplete ==
  /\ \A r \in acked : r \in rows \cup history \/ r.plan \notin plans
  /\ rows \cup history \subseteq acked

\* A record is in force or in the history, and in both only between the two
\* statements of its DELETE (storage.py:863); a restart there leaves it in both.
SupersededOnce ==
  crashes = 0 =>
    \A r \in rows \cap history :
      \E t \in Threads : lock = t /\ threads[t].pc = "remove" /\ threads[t].id = r.id

\* PUT and DELETE implement the audit trail of PRD v6, crashes included.
Trail == INSTANCE AuditTrail WITH Records <- Row, current <- rows, log <- history
KeepsTrail == Trail!Spec
=============================================================================
