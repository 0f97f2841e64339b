----------------------------- MODULE PlanProofs -----------------------------
(***************************************************************************)
(* The plan that the optimizer computes, the actuals entered for a plan,   *)
(* and the report of the two.                                              *)
(*                                                                         *)
(* Actuals: the keys are unique, the audit is complete, and PUT and DELETE *)
(* implement AuditTrail, for any number of threads, plans, batches and     *)
(* crashes.  The tables change when a transaction is committed, so the     *)
(* invariant says in how far the transaction of a thread, half way through *)
(* its batch, differs from the tables (WorkSound); and that the tables     *)
(* stay as they are meanwhile, because there is one lock (Mutual).         *)
(*                                                                         *)
(* Reports: the report is that of the records in force, for any figures.   *)
(* A sum of naturals is the number of pairs of an index and a unit of its  *)
(* value (Dots), so that sums follow from facts about finite sets; a sum   *)
(* of integers is the difference of two of them (Balance).                 *)
(*                                                                         *)
(* Optimizer: every plan and every point of the curve is PlanFor some      *)
(* budget, so that its properties are those of Allocation: it grows with   *)
(* the budget, through all limits but a maximum below zero and with or     *)
(* without scaling, because the clamped shares grow with it but no faster  *)
(* than it does (ClampedGrows).                                            *)
(***************************************************************************)
EXTENDS Reports, Optimizer, FiniteSetTheorems, FunctionTheorems, TLAPS

Putting(th) == th.pc \in {"begin", "upsert"}

Keyed(rs)  == \A r, n \in rs : r.id = n.id \/ (r.plan = n.plan /\ r.slot = n.slot) => r = n
IdsOnce(rs) == \A r, n \in rs : r.id = n.id => r = n

\* What the transaction of a thread has brought so far
Own(th) == {r \in Row : r.put = th.put /\ r.plan = th.plan /\ r.part < th.next}

WorkSound(th) ==
  /\ Keyed(th.work.rows) /\ IdsOnce(th.work.history)
  /\ history \subseteq th.work.history
  /\ rows \cup history \subseteq th.work.rows \cup th.work.history
  /\ th.work.rows \subseteq rows \cup Own(th)
  /\ th.work.history \subseteq rows \cup history \cup Own(th)
  /\ (th.work.history \ history) \cap th.work.rows = {}
  /\ crashes = 0 => th.work.rows \cap th.work.history = {}
  /\ \A r \in (rows \ th.work.rows) \cup (th.work.history \ history) :
       r.plan = th.plan /\ \E n \in th.work.rows : n \in Own(th) /\ n.slot = r.slot
  /\ th.next > 1 => th.plan \in plans

Sound(th) ==
  /\ Putting(th) =>
       /\ th.plan \in Plans /\ th.put \in 1..used.puts /\ th.batch \in Batches
       /\ \A i \in 1..Len(th.batch) : Valid(th.batch[i])
       /\ \A r \in acked : r.put # th.put
  /\ th.pc = "begin" => th.next = 1
  /\ th.pc = "upsert" => th.next \in 1..(Len(th.batch) + 1) /\ WorkSound(th)
  /\ th.pc \in {"archive", "remove"} => th.plan \in Plans
  /\ th.pc = "remove" => \E r \in rows \cap history : r.id = th.id

Mutual == \A t \in Threads : threads[t].pc \in {"upsert", "remove"} <=> lock = t

Distinct ==
  \A t, o \in Threads :
    t # o /\ Putting(threads[t]) /\ Putting(threads[o]) => threads[t].put # threads[o].put

AckedKnown == \A r \in acked : r.put <= used.puts

\* The PUTs that make no more ids, and how many ids there can be
Past == (1..used.puts) \ {threads[t].put : t \in {o \in Threads : Putting(threads[o])}}
IdsBounded ==
  /\ (\A t \in Threads : threads[t].pc # "upsert") => used.ids <= MaxBatch * Cardinality(Past)
  /\ \A t \in Threads : threads[t].pc = "upsert" =>
       used.ids <= MaxBatch * Cardinality(Past) + (threads[t].next - 1)

IInv ==
  /\ TypeOK /\ Mutual /\ Distinct /\ AckedKnown /\ IdsBounded
  /\ \A t \in Threads : Sound(threads[t])
  /\ KeysUnique /\ AuditComplete /\ SupersededOnce

(***************************************************************************)
(* Types of what a request works on                                        *)
(***************************************************************************)

LEMMA Bounds ==
  /\ PlanWeeks \in Nat /\ MaxPuts \in Nat /\ MaxBatch \in Nat /\ MaxCrashes \in Nat
  /\ None \notin Threads /\ None \notin Nat
BY ActualsAssumption, NoneAssumption

LEMMA BatchTyped ==
  ASSUME NEW b \in Batches
  PROVE  /\ b \in Seq(Input) /\ Len(b) \in Nat /\ Len(b) <= MaxBatch
         /\ \A i \in 1..Len(b) : b[i] \in Input
BY ActualsAssumption

LEMMA SlotTyped ==
  ASSUME NEW in \in Input, Valid(in)
  PROVE  SlotOf(in) \in Slots
<1>1. in.scope \in {"WEEKLY", "FINAL"}
  BY DEF Input, Scopes
<1>2. CASE in.scope = "WEEKLY"
  <2>1. in.period_week \in 1..PlanWeeks
    BY <1>2 DEF Valid
  <2> QED BY <1>2, <2>1, Bounds DEF SlotOf, Slots
<1>3. CASE in.scope = "FINAL"
  BY <1>3, Bounds DEF SlotOf, Slots
<1> QED BY <1>1, <1>2, <1>3

LEMMA IdleThread == Idle \in Thread /\ Idle.pc = "idle"
<1>1. [rows |-> {}, history |-> {}] \in Work
  BY DEF Work
<1>2. <<>> \in Seq(Input)
  OBVIOUS
<1> QED BY <1>1, <1>2 DEF Idle, Thread

LEMMA IdleSound == ASSUME NEW th, th.pc = "idle" PROVE Sound(th) /\ ~Putting(th)
BY DEF Sound, Putting

LEMMA UsedTyped == IInv => used.puts \in Nat /\ used.ids \in Nat /\ used.puts <= MaxPuts
<1> SUFFICES ASSUME IInv PROVE used.puts \in Nat /\ used.ids \in Nat /\ used.puts <= MaxPuts
  OBVIOUS
<1>1. used.puts \in 0..MaxPuts /\ used.ids \in {0} \cup Ids
  BY DEF IInv, TypeOK
<1>2. MaxPuts * MaxBatch \in Nat
  BY Bounds
<1> QED BY <1>1, <1>2, Bounds DEF Ids

(***************************************************************************)
(* One thread moves                                                        *)
(***************************************************************************)

LEMMA Moved ==
  ASSUME IInv, NEW t \in Threads, NEW new \in Thread, threads' = [threads EXCEPT ![t] = new],
         UNCHANGED <<plans, rows, history, acked, crashes>> \/ lock \in {None, t},
         \A r \in acked' : r \in acked \/ (Putting(threads[t]) /\ r.put = threads[t].put),
         used'.puts \in Nat, used.puts <= used'.puts,
         Sound(new)',
         Putting(new) => (Putting(threads[t]) /\ new.put = threads[t].put)
                           \/ new.put = used.puts + 1,
         new.pc \in {"upsert", "remove"} <=> lock' = t,
         lock' = lock \/ (lock \in {None, t} /\ lock' \in {None, t})
  PROVE  /\ threads' \in [Threads -> Thread]
         /\ (\A o \in Threads : Sound(threads[o]))'
         /\ Distinct' /\ Mutual'
<1>1. threads \in [Threads -> Thread] /\ used.puts \in Nat
  BY UsedTyped DEF IInv, TypeOK
<1>2. /\ threads' \in [Threads -> Thread] /\ threads'[t] = new
      /\ \A o \in Threads : o # t => threads'[o] = threads[o]
  BY <1>1
<1>3. ASSUME NEW o \in Threads, o # t, lock \in {None, t}
      PROVE  threads[o].pc \notin {"upsert", "remove"}
  BY <1>3, Bounds DEF IInv, Mutual
<1>4. ASSUME NEW o \in Threads PROVE Sound(threads[o])'
  <2>1. CASE o = t
    <3>1. threads'[o] = new
      BY <2>1, <1>2
    <3> QED BY <3>1 DEF Sound, Putting, WorkSound, Own
  <2>2. CASE o # t
    <3>1. PICK th : th = threads[o]
      OBVIOUS
    <3>2. threads'[o] = th /\ Sound(th)
      BY <2>2, <3>1, <1>2 DEF IInv
    <3>3. Putting(th) => \A r \in acked' : r.put # th.put
      <4>1. Putting(th) => \A r \in acked : r.put # th.put
        BY <3>2 DEF Sound
      <4>2. Putting(th) /\ Putting(threads[t]) => threads[t].put # th.put
        BY <2>2, <3>1 DEF IInv, Distinct
      <4> QED BY <4>1, <4>2
    <3>4. Putting(th) => th.put \in 1..used'.puts
      BY <3>2, <1>1 DEF Sound
    <3>5. CASE UNCHANGED <<plans, rows, history, acked, crashes>>
      BY <3>2, <3>3, <3>4, <3>5 DEF Sound, Putting, WorkSound, Own
    <3>6. CASE lock \in {None, t}
      <4>1. th.pc \notin {"upsert", "remove"}
        BY <2>2, <3>1, <3>6, <1>3
      <4> QED BY <4>1, <3>2, <3>3, <3>4 DEF Sound, Putting
    <3> QED BY <3>5, <3>6
  <2> QED BY <2>1, <2>2
<1>5. Distinct'
  <2>1. ASSUME NEW o \in Threads, o # t, Putting(new), Putting(threads[o])
        PROVE  new.put # threads[o].put
    <3>1. threads[o].put \in 1..used.puts
      BY <2>1 DEF IInv, Sound
    <3>2. CASE Putting(threads[t]) /\ new.put = threads[t].put
      BY <2>1, <3>2 DEF IInv, Distinct
    <3>3. CASE new.put = used.puts + 1
      BY <3>1, <3>3, <1>1
    <3> QED BY <2>1, <3>2, <3>3
  <2>2. ASSUME NEW x \in Threads, NEW y \in Threads, x # y, Putting(threads'[x]), Putting(threads'[y])
        PROVE  threads'[x].put # threads'[y].put
    <3>1. CASE x # t /\ y # t
      BY <2>2, <3>1, <1>2 DEF IInv, Distinct
    <3>2. CASE x = t
      BY <2>2, <3>2, <2>1, <1>2
    <3>3. CASE y = t
      BY <2>2, <3>3, <2>1, <1>2
    <3> QED BY <3>1, <3>2, <3>3
  <2> QED BY <2>2 DEF Distinct, Putting
<1>6. Mutual'
  BY <1>2, Bounds DEF IInv, Mutual
<1> QED BY <1>2, <1>4, <1>5, <1>6

(***************************************************************************)
(* How many ids there are                                                  *)
(***************************************************************************)

LEMMA OneBatchMore ==
  ASSUME NEW m \in Nat, NEW b \in Nat, NEW c \in Nat, b + 1 <= c
  PROVE  m * b + m <= m * c
<1>1. PICK d \in Nat : c = b + 1 + d
  BY c - b - 1 \in Nat
<1>2. m * c = m * b + m + m * d
  BY <1>1
<1>3. m * d \in Nat /\ m * b \in Nat
  OBVIOUS
<1> QED BY <1>2, <1>3

LEMMA PutsFinite ==
  ASSUME IInv
  PROVE  IsFiniteSet(1..used.puts) /\ Cardinality(1..used.puts) = used.puts
<1>1. used.puts \in Nat
  BY UsedTyped
<1> QED BY <1>1, FS_Interval

LEMMA PastFinite ==
  IInv => IsFiniteSet(Past) /\ Cardinality(Past) \in Nat /\ Cardinality(Past) <= used.puts
<1> SUFFICES ASSUME IInv
             PROVE  IsFiniteSet(Past) /\ Cardinality(Past) \in Nat /\ Cardinality(Past) <= used.puts
  OBVIOUS
<1>1. used.puts \in Nat
  BY UsedTyped
<1>2. IsFiniteSet(1..used.puts) /\ Cardinality(1..used.puts) = used.puts
  BY PutsFinite
<1>3. Past \in SUBSET (1..used.puts)
  BY DEF Past
<1> QED BY <1>2, <1>3, FS_Subset, FS_CardinalityType

\* The PUT of a thread is not past, and when it is there is room for a batch more.
LEMMA PastGrows ==
  ASSUME IInv, NEW t \in Threads, Putting(threads[t]), NEW S, IsFiniteSet(S),
         Past \cup {threads[t].put} \subseteq S
  PROVE  /\ MaxBatch * Cardinality(Past) + MaxBatch <= MaxBatch * Cardinality(S)
         /\ Cardinality(S) \in Nat
<1>1. IsFiniteSet(Past) /\ Cardinality(Past) \in Nat
  BY PastFinite
<1>2. PICK q : q = threads[t].put
  OBVIOUS
<1>3. q \notin Past
  BY <1>2 DEF Past
<1>4. /\ IsFiniteSet(Past \cup {q})
      /\ Cardinality(Past \cup {q}) = Cardinality(Past) + 1
  BY <1>1, <1>3, FS_AddElement
<1>5. Past \cup {q} \in SUBSET S
  BY <1>2
<1>6. Cardinality(Past \cup {q}) <= Cardinality(S) /\ Cardinality(S) \in Nat
  BY <1>5, FS_Subset, FS_CardinalityType
<1> QED BY <1>1, <1>4, <1>6, OneBatchMore, Bounds

\* A thread that makes no ids moves.
LEMMA IdsKept ==
  ASSUME IInv, NEW t \in Threads, NEW new \in Thread, threads' = [threads EXCEPT ![t] = new],
         threads[t].pc # "upsert", new.pc # "upsert", used'.ids = used.ids,
         \/ used'.puts = used.puts /\ ~Putting(threads[t]) /\ ~Putting(new)
         \/ /\ used'.puts = used.puts + 1 /\ ~Putting(threads[t])
            /\ Putting(new) /\ new.put = used.puts + 1
  PROVE  IdsBounded'
<1>1. threads \in [Threads -> Thread] /\ used.puts \in Nat
  BY UsedTyped DEF IInv, TypeOK
<1>2. /\ threads'[t] = new
      /\ \A o \in Threads : o # t => threads'[o] = threads[o]
  BY <1>1
<1>3. \A o \in Threads : Putting(threads[o]) => threads[o].put \in 1..used.puts
  BY DEF IInv, Sound
<1>4. Past' = Past
  BY <1>1, <1>2, <1>3 DEF Past, Putting
<1> QED BY <1>2, <1>4 DEF IInv, IdsBounded

(***************************************************************************)
(* Steps that leave the tables alone                                       *)
(***************************************************************************)

TablesPart == AckedKnown /\ KeysUnique /\ AuditComplete /\ SupersededOnce

LEMMA TablesKept ==
  ASSUME IInv, NEW t \in Threads, NEW new \in Thread, threads' = [threads EXCEPT ![t] = new],
         UNCHANGED <<plans, rows, history, acked, crashes>>,
         threads[t].pc # "remove", \A o \in Threads : o # t /\ lock = o => lock' = o,
         used'.puts \in Nat, used.puts <= used'.puts
  PROVE  TablesPart'
<1>1. threads \in [Threads -> Thread] /\ used.puts \in Nat /\ acked \subseteq Row
  BY UsedTyped DEF IInv, TypeOK
<1>2. \A o \in Threads : o # t => threads'[o] = threads[o]
  BY <1>1
<1>3. SupersededOnce'
  <2>1. ASSUME crashes = 0, NEW r \in rows \cap history
        PROVE  \E o \in Threads : lock' = o /\ threads'[o].pc = "remove" /\ threads'[o].id = r.id
    <3>1. PICK o \in Threads : lock = o /\ threads[o].pc = "remove" /\ threads[o].id = r.id
      BY <2>1 DEF IInv, SupersededOnce
    <3> QED BY <3>1, <1>2
  <2> QED BY <2>1 DEF SupersededOnce
<1>4. AckedKnown'
  <2>1. \A r \in acked : r.put \in Nat
    BY <1>1, Bounds DEF Row, Puts
  <2> QED BY <1>1, <2>1 DEF IInv, AckedKnown
<1>5. KeysUnique' /\ AuditComplete'
  BY DEF IInv, KeysUnique, AuditComplete
<1> QED BY <1>3, <1>4, <1>5 DEF TablesPart

LEMMA BeginPutKeeps ==
  ASSUME IInv, NEW t \in Threads, NEW p \in Plans, NEW batch \in Batches, BeginPut(t, p, batch)
  PROVE  IInv'
<1>1. /\ threads \in [Threads -> Thread] /\ used.puts \in Nat /\ used.puts + 1 \in Puts
      /\ acked \subseteq Row /\ batch \in Seq(Input)
  BY UsedTyped, BatchTyped, Bounds DEF IInv, TypeOK, BeginPut, Puts
<1>2. PICK k \in Puts : k = used.puts + 1
  BY <1>1
<1>3. PICK new \in Thread :
        new = [Idle EXCEPT !.pc = "begin", !.plan = p, !.put = k, !.batch = batch]
  BY <1>1, IdleThread DEF Thread
<1>4. /\ new.pc = "begin" /\ new.plan = p /\ new.put = k /\ new.batch = batch /\ new.next = 1
  BY <1>3 DEF Idle
<1>5. threads' = [threads EXCEPT ![t] = new] /\ threads[t].pc = "idle"
  BY <1>2, <1>3 DEF BeginPut
<1>6. /\ UNCHANGED <<plans, rows, history, acked, crashes, lock>>
      /\ used' = [used EXCEPT !.puts = used.puts + 1]
  BY DEF BeginPut, tables
<1>7. used'.puts = k /\ used'.ids = used.ids
      /\ used' \in [puts : 0..MaxPuts, ids : {0} \cup Ids]
  BY <1>1, <1>2, <1>6 DEF IInv, TypeOK, Puts
<1>8. Sound(new)'
  <2>1. \A r \in acked : r.put # k
    <3>1. \A r \in acked : r.put <= used.puts /\ r.put \in Nat
      BY <1>1, Bounds DEF IInv, AckedKnown, Row, Puts
    <3> QED BY <1>1, <1>2, <3>1
  <2>2. \A i \in 1..Len(batch) : Valid(batch[i])
    BY DEF BeginPut
  <2>3. k \in 1..used'.puts
    BY <1>1, <1>2, <1>7
  <2> QED BY <1>4, <1>6, <2>1, <2>2, <2>3 DEF Sound, Putting
<1>9. /\ threads' \in [Threads -> Thread] /\ (\A o \in Threads : Sound(threads[o]))'
      /\ Distinct' /\ Mutual'
  <2>1. lock' = lock /\ (new.pc \in {"upsert", "remove"} <=> lock' = t)
    BY <1>4, <1>5, <1>6 DEF IInv, Mutual
  <2>2. UNCHANGED <<plans, rows, history, acked, crashes>> /\ \A r \in acked' : r \in acked
    BY <1>6
  <2>3. used'.puts \in Nat /\ used.puts <= used'.puts /\ new.put = used.puts + 1
    BY <1>1, <1>2, <1>4, <1>7
  <2> QED BY <1>5, <1>8, <2>1, <2>2, <2>3, Moved
<1>10. TablesPart'
  <2>1. UNCHANGED <<plans, rows, history, acked, crashes>> /\ lock' = lock
    BY <1>6
  <2>2. used'.puts \in Nat /\ used.puts <= used'.puts /\ threads[t].pc # "remove"
    BY <1>1, <1>2, <1>5, <1>7
  <2> QED BY <1>5, <2>1, <2>2, TablesKept
<1>11. IdsBounded'
  BY <1>1, <1>2, <1>4, <1>5, <1>7, IdsKept DEF Putting
<1>12. TypeOK'
  BY <1>6, <1>7, <1>9 DEF IInv, TypeOK
<1> QED BY <1>9, <1>10, <1>11, <1>12 DEF IInv, TablesPart

LEMMA BeginTransactionKeeps ==
  ASSUME IInv, NEW t \in Threads, BeginTransaction(t)
  PROVE  IInv'
<1>1. /\ threads \in [Threads -> Thread] /\ threads[t] \in Thread /\ Sound(threads[t])
      /\ rows \subseteq Row /\ history \subseteq Row /\ used.puts \in Nat /\ used.ids \in Nat
  BY UsedTyped DEF IInv, TypeOK
<1>2. /\ threads[t].pc = "begin" /\ lock = None /\ lock' = t
      /\ UNCHANGED <<plans, rows, history, acked, crashes, used>>
  BY DEF BeginTransaction, tables
<1>3. PICK w \in Work : w = [rows |-> rows, history |-> history]
  BY <1>1 DEF Work
<1>4. PICK new \in Thread : new = [threads[t] EXCEPT !.pc = "upsert", !.work = w]
  BY <1>1 DEF Thread
<1>5. /\ new.pc = "upsert" /\ new.work = w /\ new.plan = threads[t].plan /\ new.put = threads[t].put
      /\ new.batch = threads[t].batch /\ new.next = 1
  BY <1>1, <1>2, <1>4 DEF Thread, Sound
<1>6. threads' = [threads EXCEPT ![t] = new]
  BY <1>1, <1>3, <1>4 DEF BeginTransaction
<1>7. \A o \in Threads : threads[o].pc \notin {"upsert", "remove"}
  BY <1>2, Bounds DEF IInv, Mutual
<1>8. Sound(new)'
  <2>1. w.rows = rows /\ w.history = history
    BY <1>3
  <2>2. Keyed(rows) /\ IdsOnce(history)
    BY DEF IInv, KeysUnique, Keyed, IdsOnce
  <2>3. crashes = 0 => rows \cap history = {}
    BY <1>7 DEF IInv, SupersededOnce
  <2>4. WorkSound(new)'
    BY <1>2, <1>5, <2>1, <2>2, <2>3 DEF WorkSound, Keyed, IdsOnce
  <2>5. Len(new.batch) \in Nat /\ new.batch \in Batches
    BY <1>1, <1>2, <1>5, BatchTyped DEF Sound, Putting
  <2> QED BY <1>1, <1>2, <1>5, <2>4, <2>5 DEF Sound, Putting
<1>9. /\ threads' \in [Threads -> Thread] /\ (\A o \in Threads : Sound(threads[o]))'
      /\ Distinct' /\ Mutual'
  <2>1. UNCHANGED <<plans, rows, history, acked, crashes>> /\ \A r \in acked' : r \in acked
    BY <1>2
  <2>2. used'.puts \in Nat /\ used.puts <= used'.puts
    BY <1>1, <1>2
  <2>3. Putting(threads[t]) /\ new.put = threads[t].put /\ lock' = t /\ lock \in {None, t}
    BY <1>2, <1>5 DEF Putting
  <2> QED BY <1>5, <1>6, <1>8, <2>1, <2>2, <2>3, Moved
<1>10. TablesPart'
  <2>1. UNCHANGED <<plans, rows, history, acked, crashes>> /\ threads[t].pc # "remove"
    BY <1>2
  <2>2. used'.puts \in Nat /\ used.puts <= used'.puts
    BY <1>1, <1>2
  <2>3. \A o \in Threads : o # t /\ lock = o => lock' = o
    BY <1>2, Bounds
  <2> QED BY <1>6, <2>1, <2>2, <2>3, TablesKept
<1>11. IdsBounded'
  <2>1. threads'[t] = new /\ \A o \in Threads : o # t => threads'[o] = threads[o]
    BY <1>1, <1>6
  <2>2. Past' = Past
    BY <1>2, <1>5, <2>1 DEF Past, Putting
  <2>3. used.ids <= MaxBatch * Cardinality(Past) /\ MaxBatch * Cardinality(Past) \in Nat
    BY <1>7, PastFinite, Bounds DEF IInv, IdsBounded
  <2> QED BY <1>1, <1>2, <1>5, <1>7, <2>1, <2>2, <2>3 DEF IdsBounded
<1>12. TypeOK'
  BY <1>2, <1>9 DEF IInv, TypeOK
<1> QED BY <1>9, <1>10, <1>11, <1>12 DEF IInv, TablesPart

LEMMA BeginDeleteKeeps ==
  ASSUME IInv, NEW t \in Threads, NEW p \in Plans, NEW id \in Ids, BeginDelete(t, p, id)
  PROVE  IInv'
<1>1. threads \in [Threads -> Thread] /\ used.puts \in Nat
  BY UsedTyped DEF IInv, TypeOK
<1>2. PICK new \in Thread : new = [Idle EXCEPT !.pc = "archive", !.plan = p, !.id = id]
  BY IdleThread DEF Thread
<1>3. new.pc = "archive" /\ new.plan = p
  BY <1>2 DEF Idle
<1>4. /\ threads' = [threads EXCEPT ![t] = new] /\ threads[t].pc = "idle" /\ used' = used
      /\ UNCHANGED <<plans, rows, history, acked, crashes>> /\ lock' = lock
  BY <1>2 DEF BeginDelete, tables
<1>5. Sound(new)'
  BY <1>3 DEF Sound, Putting
<1>6. used'.puts \in Nat /\ used.puts <= used'.puts /\ used'.puts = used.puts /\ used'.ids = used.ids
  BY <1>1, <1>4
<1>7. ~Putting(threads[t]) /\ ~Putting(new)
  BY <1>3, <1>4 DEF Putting
<1>8. /\ threads' \in [Threads -> Thread] /\ (\A o \in Threads : Sound(threads[o]))'
      /\ Distinct' /\ Mutual'
  <2>1. new.pc \in {"upsert", "remove"} <=> lock' = t
    BY <1>3, <1>4 DEF IInv, Mutual
  <2>2. \A r \in acked' : r \in acked
    BY <1>4
  <2> QED BY <1>4, <1>5, <1>6, <1>7, <2>1, <2>2, Moved
<1>9. TablesPart'
  BY <1>4, <1>6, TablesKept
<1>10. IdsBounded'
  BY <1>3, <1>4, <1>6, <1>7, IdsKept
<1>11. TypeOK'
  BY <1>4, <1>8 DEF IInv, TypeOK
<1> QED BY <1>8, <1>9, <1>10, <1>11 DEF IInv, TablesPart

LEMMA NotArchivedKeeps ==
  ASSUME IInv, NEW t \in Threads, NotArchived(t)
  PROVE  IInv'
<1>1. threads \in [Threads -> Thread] /\ used.puts \in Nat
  BY UsedTyped DEF IInv, TypeOK
<1>2. PICK new \in Thread : new = Idle /\ new.pc = "idle"
  BY IdleThread
<1>3. /\ threads' = [threads EXCEPT ![t] = new] /\ threads[t].pc = "archive" /\ used' = used
      /\ UNCHANGED <<plans, rows, history, acked, crashes>> /\ lock' = lock /\ lock = None
  BY <1>2 DEF NotArchived, tables
<1>4. Sound(new)'
  BY <1>2 DEF Sound, Putting
<1>5. used'.puts \in Nat /\ used.puts <= used'.puts /\ used'.puts = used.puts /\ used'.ids = used.ids
  BY <1>1, <1>3
<1>6. ~Putting(threads[t]) /\ ~Putting(new)
  BY <1>2, <1>3 DEF Putting
<1>7. /\ threads' \in [Threads -> Thread] /\ (\A o \in Threads : Sound(threads[o]))'
      /\ Distinct' /\ Mutual'
  <2>1. new.pc \in {"upsert", "remove"} <=> lock' = t
    BY <1>2, <1>3, Bounds
  <2>2. \A r \in acked' : r \in acked
    BY <1>3
  <2> QED BY <1>3, <1>4, <1>5, <1>6, <2>1, <2>2, Moved
<1>8. TablesPart'
  BY <1>3, <1>5, TablesKept
<1>9. IdsBounded'
  BY <1>2, <1>3, <1>5, <1>6, IdsKept
<1>10. TypeOK'
  BY <1>3, <1>7 DEF IInv, TypeOK
<1> QED BY <1>7, <1>8, <1>9, <1>10 DEF IInv, TablesPart

(***************************************************************************)
(* The two statements of a DELETE, a plan that goes, and a restart         *)
(***************************************************************************)

LEMMA ArchiveKeeps ==
  ASSUME IInv, NEW t \in Threads, Archive(t)
  PROVE  IInv'
<1>1. /\ threads \in [Threads -> Thread] /\ threads[t] \in Thread /\ used.puts \in Nat
      /\ rows \subseteq Row /\ history \subseteq Row /\ Sound(threads[t])
  BY UsedTyped DEF IInv, TypeOK
<1>2. PICK new \in Thread : new = [threads[t] EXCEPT !.pc = "remove"]
  BY <1>1 DEF Thread
<1>3. PICK th : th = threads[t]
  OBVIOUS
<1>4. new.pc = "remove" /\ new.plan = th.plan /\ new.id = th.id /\ th.pc = "archive"
  BY <1>1, <1>2, <1>3 DEF Thread, Archive
<1>5. /\ threads' = [threads EXCEPT ![t] = new] /\ used' = used
      /\ UNCHANGED <<plans, rows, acked, crashes>> /\ lock' = t /\ lock = None
      /\ Named(th) # {} /\ th.id \notin IdsOf(history) /\ history' = history \cup Named(th)
  BY <1>1, <1>2, <1>3 DEF Archive
<1>6. PICK n \in rows : Named(th) = {n} /\ n.id = th.id
  BY <1>5 DEF Named, IInv, KeysUnique
<1>7. history' = history \cup {n} /\ \A r \in history : r.id # n.id
  BY <1>5, <1>6 DEF IdsOf
<1>8. Sound(new)'
  <2>1. n \in rows' \cap history'
    BY <1>5, <1>6, <1>7
  <2>2. th.plan \in Plans
    BY <1>1, <1>3, <1>4 DEF Sound
  <2> QED BY <1>4, <1>6, <2>1, <2>2 DEF Sound, Putting
<1>9. used'.puts \in Nat /\ used.puts <= used'.puts /\ used'.puts = used.puts /\ used'.ids = used.ids
  BY <1>1, <1>5
<1>10. ~Putting(threads[t]) /\ ~Putting(new)
  BY <1>3, <1>4 DEF Putting
<1>11. /\ threads' \in [Threads -> Thread] /\ (\A o \in Threads : Sound(threads[o]))'
       /\ Distinct' /\ Mutual'
  <2>1. new.pc \in {"upsert", "remove"} <=> lock' = t
    BY <1>4, <1>5
  <2>2. \A r \in acked' : r \in acked
    BY <1>5
  <2> QED BY <1>5, <1>8, <1>9, <1>10, <2>1, <2>2, Moved
<1>12. AckedKnown' /\ KeysUnique' /\ AuditComplete'
  <2>1. AckedKnown'
    BY <1>5 DEF IInv, AckedKnown
  <2>2. KeysUnique'
    BY <1>5, <1>7 DEF IInv, KeysUnique
  <2>3. AuditComplete'
    BY <1>5, <1>6, <1>7 DEF IInv, AuditComplete
  <2> QED BY <2>1, <2>2, <2>3
<1>13. SupersededOnce'
  <2>1. ASSUME crashes = 0, NEW r \in rows' \cap history'
        PROVE  lock' = t /\ threads'[t].pc = "remove" /\ threads'[t].id = r.id
    <3>1. r \notin history
      BY <2>1, <1>5, Bounds DEF IInv, SupersededOnce
    <3>2. r = n
      BY <2>1, <3>1, <1>7
    <3> QED BY <3>2, <1>1, <1>3, <1>4, <1>5, <1>6
  <2> QED BY <2>1, <1>5 DEF SupersededOnce
<1>14. IdsBounded'
  BY <1>3, <1>4, <1>5, <1>9, <1>10, IdsKept
<1>15. TypeOK'
  BY <1>1, <1>5, <1>7, <1>11 DEF IInv, TypeOK
<1> QED BY <1>11, <1>12, <1>13, <1>14, <1>15 DEF IInv

LEMMA RemoveKeeps ==
  ASSUME IInv, NEW t \in Threads, Remove(t)
  PROVE  IInv'
<1>1. /\ threads \in [Threads -> Thread] /\ used.puts \in Nat
      /\ rows \subseteq Row /\ Sound(threads[t])
  BY UsedTyped DEF IInv, TypeOK
<1>2. PICK new \in Thread : new = Idle /\ new.pc = "idle"
  BY IdleThread
<1>3. PICK id : id = threads[t].id
  OBVIOUS
<1>4. /\ threads' = [threads EXCEPT ![t] = new] /\ threads[t].pc = "remove" /\ used' = used
      /\ UNCHANGED <<plans, history, acked, crashes>> /\ lock' = None
      /\ rows' = {r \in rows : r.id # id}
  BY <1>2, <1>3 DEF Remove
<1>5. lock = t
  BY <1>4 DEF IInv, Mutual
<1>6. PICK n \in rows \cap history : n.id = id
  BY <1>1, <1>3, <1>4 DEF Sound
<1>7. \A r \in rows : r \notin rows' => r = n
  BY <1>4, <1>6 DEF IInv, KeysUnique
<1>8. Sound(new)'
  BY <1>2 DEF Sound, Putting
<1>9. used'.puts \in Nat /\ used.puts <= used'.puts /\ used'.puts = used.puts /\ used'.ids = used.ids
  BY <1>1, <1>4
<1>10. ~Putting(threads[t]) /\ ~Putting(new)
  BY <1>2, <1>4 DEF Putting
<1>11. /\ threads' \in [Threads -> Thread] /\ (\A o \in Threads : Sound(threads[o]))'
       /\ Distinct' /\ Mutual'
  <2>1. new.pc \in {"upsert", "remove"} <=> lock' = t
    BY <1>2, <1>4, Bounds
  <2>2. (\A r \in acked' : r \in acked) /\ lock \in {None, t} /\ lock' \in {None, t}
    BY <1>4, <1>5
  <2> QED BY <1>4, <1>8, <1>9, <1>10, <2>1, <2>2, Moved
<1>12. AckedKnown' /\ KeysUnique' /\ AuditComplete'
  <2>1. AckedKnown'
    BY <1>4 DEF IInv, AckedKnown
  <2>2. KeysUnique'
    BY <1>4 DEF IInv, KeysUnique
  <2>3. AuditComplete'
    BY <1>4, <1>6, <1>7 DEF IInv, AuditComplete
  <2> QED BY <2>1, <2>2, <2>3
<1>13. SupersededOnce'
  <2>1. ASSUME crashes = 0, NEW r \in rows' \cap history' PROVE FALSE
    <3>1. r.id = id
      BY <2>1, <1>3, <1>4, <1>5 DEF IInv, SupersededOnce
    <3> QED BY <2>1, <3>1, <1>4
  <2> QED BY <2>1, <1>4 DEF SupersededOnce
<1>14. IdsBounded'
  BY <1>2, <1>4, <1>9, <1>10, IdsKept
<1>15. TypeOK'
  BY <1>1, <1>4, <1>11 DEF IInv, TypeOK
<1> QED BY <1>11, <1>12, <1>13, <1>14, <1>15 DEF IInv

LEMMA DropPlansKeeps ==
  ASSUME IInv, NEW gone \in SUBSET Plans, DropPlans(gone)
  PROVE  IInv'
<1>1. /\ lock = None /\ plans' = plans \ gone /\ rows' = {r \in rows : r.plan \notin gone}
      /\ UNCHANGED <<history, lock, threads, used, crashes, acked>>
  BY DEF DropPlans
<1>2. \A t \in Threads : threads[t].pc \notin {"upsert", "remove"}
  BY <1>1, Bounds DEF IInv, Mutual
<1>3. (\A t \in Threads : Sound(threads[t]))'
  <2>1. ASSUME NEW t \in Threads PROVE Sound(threads[t])'
    <3>1. PICK th : th = threads[t]
      OBVIOUS
    <3>2. Sound(th) /\ th.pc \notin {"upsert", "remove"} /\ threads'[t] = th
      BY <3>1, <1>1, <1>2 DEF IInv
    <3> QED BY <3>2, <1>1 DEF Sound, Putting
  <2> QED BY <2>1
<1>4. Mutual' /\ Distinct' /\ AckedKnown'
  BY <1>1 DEF IInv, Mutual, Distinct, Putting, AckedKnown
<1>5. IdsBounded'
  BY <1>1 DEF IInv, IdsBounded, Past, Putting
<1>6. KeysUnique'
  BY <1>1 DEF IInv, KeysUnique
<1>7. AuditComplete'
  BY <1>1 DEF IInv, AuditComplete
<1>8. SupersededOnce'
  BY <1>1 DEF IInv, SupersededOnce
<1>9. TypeOK'
  BY <1>1 DEF IInv, TypeOK
<1> QED BY <1>3, <1>4, <1>5, <1>6, <1>7, <1>8, <1>9 DEF IInv

\* When the PUT under way is past as well, its whole batch counts.
LEMMA IdsCovered ==
  ASSUME IInv, NEW S, IsFiniteSet(S), Past \subseteq S,
         \A t \in Threads : threads[t].pc = "upsert" => threads[t].put \in S
  PROVE  used.ids <= MaxBatch * Cardinality(S) /\ Cardinality(S) \in Nat
<1>1. /\ used.ids \in Nat /\ MaxBatch \in Nat /\ Cardinality(Past) \in Nat
      /\ Cardinality(S) \in Nat /\ Cardinality(Past) <= Cardinality(S)
  BY UsedTyped, Bounds, PastFinite, FS_CardinalityType, FS_Subset
<1>2. CASE \A t \in Threads : threads[t].pc # "upsert"
  <2>1. used.ids <= MaxBatch * Cardinality(Past)
    BY <1>2 DEF IInv, IdsBounded
  <2>2. CASE Cardinality(Past) = Cardinality(S)
    BY <1>1, <2>1, <2>2
  <2>3. CASE Cardinality(Past) + 1 <= Cardinality(S)
    <3>1. MaxBatch * Cardinality(Past) + MaxBatch <= MaxBatch * Cardinality(S)
      BY <1>1, <2>3, OneBatchMore
    <3>2. MaxBatch * Cardinality(Past) \in Nat /\ MaxBatch * Cardinality(S) \in Nat
      BY <1>1
    <3> QED BY <1>1, <2>1, <3>1, <3>2
  <2> QED BY <1>1, <2>2, <2>3
<1>3. ASSUME NEW t \in Threads, threads[t].pc = "upsert"
      PROVE  used.ids <= MaxBatch * Cardinality(S)
  <2>1. PICK th : th = threads[t]
    OBVIOUS
  <2>2. Sound(th) /\ th.pc = "upsert" /\ used.ids <= MaxBatch * Cardinality(Past) + (th.next - 1)
    BY <1>3, <2>1 DEF IInv, IdsBounded
  <2>3. th.batch \in Batches /\ th.next \in 1..(Len(th.batch) + 1)
    BY <2>2 DEF Sound, Putting
  <2>4. th.next \in Nat /\ th.next - 1 <= MaxBatch
    BY <2>3, <1>1, BatchTyped
  <2>5. MaxBatch * Cardinality(Past) + MaxBatch <= MaxBatch * Cardinality(S)
    BY <1>3, PastGrows DEF Putting
  <2>6. MaxBatch * Cardinality(Past) \in Nat /\ MaxBatch * Cardinality(S) \in Nat
    BY <1>1
  <2> QED BY <1>1, <2>2, <2>4, <2>5, <2>6
<1> QED BY <1>1, <1>2, <1>3

LEMMA CrashKeeps ==
  ASSUME IInv, Crash
  PROVE  IInv'
<1>1. PICK idle \in Thread : idle = Idle /\ idle.pc = "idle"
  BY IdleThread
<1>2. /\ crashes' = crashes + 1 /\ lock' = None /\ threads' = [t \in Threads |-> idle]
      /\ UNCHANGED <<plans, rows, history, used, acked>> /\ crashes < MaxCrashes
  BY <1>1 DEF Crash, tables
<1>3. \A t \in Threads : threads'[t] = idle
  BY <1>2
<1>4. crashes \in Nat /\ crashes' \in 0..MaxCrashes /\ crashes' # 0 /\ used.puts \in Nat
  BY <1>2, Bounds, UsedTyped DEF IInv, TypeOK
<1>5. (\A t \in Threads : Sound(threads[t]))'
  BY <1>1, <1>3 DEF Sound, Putting
<1>6. Mutual' /\ Distinct'
  BY <1>1, <1>2, <1>3, Bounds DEF Mutual, Distinct, Putting
<1>7. TablesPart'
  BY <1>2, <1>4 DEF TablesPart, IInv, AckedKnown, KeysUnique, AuditComplete, SupersededOnce
<1>8. IdsBounded'
  <2>1. Past' = 1..used.puts
    BY <1>1, <1>2, <1>3 DEF Past, Putting
  <2>2. IsFiniteSet(1..used.puts)
    BY PutsFinite
  <2>3. \A t \in Threads : threads[t].pc = "upsert" => threads[t].put \in 1..used.puts
    BY DEF IInv, Sound, Putting
  <2>4. used.ids <= MaxBatch * Cardinality(1..used.puts)
    BY <2>2, <2>3, IdsCovered DEF Past
  <2> QED BY <1>1, <1>2, <1>3, <2>1, <2>4 DEF IdsBounded
<1>9. TypeOK'
  BY <1>2, <1>4 DEF IInv, TypeOK
<1> QED BY <1>5, <1>6, <1>7, <1>8, <1>9 DEF IInv, TablesPart

(***************************************************************************)
(* The end of a transaction                                                *)
(***************************************************************************)

\* A PUT that is over, its rows kept or not
LEMMA PutOver ==
  ASSUME IInv, NEW t \in Threads, threads[t].pc = "upsert",
         threads' = [threads EXCEPT ![t] = Idle], lock' = None, used' = used,
         \A r \in acked' : r \in acked \/ r.put = threads[t].put
  PROVE  /\ threads' \in [Threads -> Thread] /\ (\A o \in Threads : Sound(threads[o]))'
         /\ Distinct' /\ Mutual' /\ IdsBounded'
<1>1. threads \in [Threads -> Thread] /\ used.puts \in Nat
  BY UsedTyped DEF IInv, TypeOK
<1>2. PICK new \in Thread : new = Idle /\ new.pc = "idle"
  BY IdleThread
<1>3. threads' = [threads EXCEPT ![t] = new] /\ Putting(threads[t]) /\ ~Putting(new) /\ lock = t
  BY <1>2 DEF Putting, IInv, Mutual
<1>4. /\ threads' \in [Threads -> Thread] /\ (\A o \in Threads : Sound(threads[o]))'
      /\ Distinct' /\ Mutual'
  <2>1. Sound(new)'
    BY <1>2 DEF Sound, Putting
  <2>2. new.pc \in {"upsert", "remove"} <=> lock' = t
    BY <1>2, Bounds
  <2>3. used'.puts \in Nat /\ used.puts <= used'.puts
    BY <1>1
  <2>4. \A r \in acked' : r \in acked \/ (Putting(threads[t]) /\ r.put = threads[t].put)
    BY <1>3
  <2>5. lock \in {None, t} /\ lock' \in {None, t}
    BY <1>3
  <2> QED BY <1>3, <2>1, <2>2, <2>3, <2>4, <2>5, Moved
<1>5. IdsBounded'
  <2>1. PICK q : q = threads[t].put
    OBVIOUS
  <2>2. threads'[t] = new /\ \A o \in Threads : o # t => threads'[o] = threads[o]
    BY <1>1, <1>3
  <2>3. \A o \in Threads : o # t => threads[o].pc # "upsert" /\ threads'[o].pc # "upsert"
    BY <1>3, <2>2 DEF IInv, Mutual
  <2>4. q \in 1..used.puts
    BY <1>3, <2>1 DEF IInv, Sound
  <2>5. \A o \in Threads : o # t /\ Putting(threads[o]) => threads[o].put # q
    BY <1>3, <2>1 DEF IInv, Distinct
  <2>6. Past' = Past \cup {q}
    BY <1>2, <1>3, <2>1, <2>2, <2>4, <2>5 DEF Past, Putting
  <2>7. IsFiniteSet(Past \cup {q})
    BY PastFinite, FS_AddElement
  <2>8. used.ids <= MaxBatch * Cardinality(Past \cup {q})
    BY <2>1, <2>3, <2>7, IdsCovered
  <2> QED BY <1>2, <2>2, <2>3, <2>6, <2>8 DEF IdsBounded
<1> QED BY <1>4, <1>5

LEMMA RollbackKeeps ==
  ASSUME IInv, NEW t \in Threads, Rollback(t)
  PROVE  IInv'
<1>1. /\ threads[t].pc = "upsert" /\ threads' = [threads EXCEPT ![t] = Idle] /\ lock' = None
      /\ UNCHANGED <<plans, rows, history, acked, crashes>> /\ used' = used
      /\ \A r \in acked' : r \in acked \/ r.put = threads[t].put
  BY DEF Rollback, Undo
<1>2. /\ threads' \in [Threads -> Thread] /\ (\A o \in Threads : Sound(threads[o]))'
      /\ Distinct' /\ Mutual' /\ IdsBounded'
  BY <1>1, PutOver
<1>3. TablesPart'
  <2>1. PICK new \in Thread : new = Idle
    BY IdleThread
  <2>2. threads' = [threads EXCEPT ![t] = new] /\ threads[t].pc # "remove"
    BY <1>1, <2>1
  <2>3. used'.puts \in Nat /\ used.puts <= used'.puts
    BY <1>1, UsedTyped
  <2>4. \A o \in Threads : o # t /\ lock = o => lock' = o
    BY <1>1 DEF IInv, Mutual
  <2> QED BY <1>1, <2>2, <2>3, <2>4, TablesKept
<1>4. TypeOK'
  BY <1>1, <1>2 DEF IInv, TypeOK
<1> QED BY <1>2, <1>3, <1>4 DEF IInv, TablesPart

LEMMA CommitKeeps ==
  ASSUME IInv, NEW t \in Threads, Commit(t)
  PROVE  IInv'
<1>1. /\ threads \in [Threads -> Thread] /\ threads[t] \in Thread /\ used.puts \in Nat
      /\ rows \subseteq Row /\ history \subseteq Row /\ acked \subseteq Row
  BY UsedTyped DEF IInv, TypeOK
<1>2. PICK th \in Thread : th = threads[t]
  BY <1>1
<1>3. PICK W \in Work : W = th.work
  BY DEF Thread
<1>4. /\ th.pc = "upsert" /\ th.next > Len(th.batch) /\ lock' = None
      /\ threads' = [threads EXCEPT ![t] = Idle]
      /\ rows' = W.rows /\ history' = W.history
      /\ acked' = acked \cup {r \in W.rows \cup W.history : r.put = th.put}
      /\ UNCHANGED <<plans, used, crashes>>
  BY <1>2, <1>3 DEF Commit
<1>5. Sound(th) /\ WorkSound(th) /\ th.put \in 1..used.puts /\ lock = t
  BY <1>2, <1>4 DEF IInv, Sound, Putting, Mutual
<1>6. W.rows \subseteq Row /\ W.history \subseteq Row
  BY DEF Work
<1>7. /\ threads' \in [Threads -> Thread] /\ (\A o \in Threads : Sound(threads[o]))'
      /\ Distinct' /\ Mutual' /\ IdsBounded'
  <2>1. threads[t].pc = "upsert" /\ used' = used /\ \A r \in acked' : r \in acked \/ r.put = threads[t].put
    BY <1>2, <1>4
  <2> QED BY <1>4, <2>1, PutOver
<1>8. AckedKnown'
  BY <1>1, <1>4, <1>5 DEF IInv, AckedKnown
<1>9. KeysUnique'
  BY <1>3, <1>4, <1>5 DEF WorkSound, Keyed, IdsOnce, KeysUnique
<1>10. AuditComplete'
  <2>1. \A r \in acked' : r \in rows' \cup history' \/ r.plan \notin plans'
    BY <1>3, <1>4, <1>5 DEF IInv, AuditComplete, WorkSound
  <2>2. rows' \cup history' \subseteq acked'
    BY <1>3, <1>4, <1>5 DEF IInv, AuditComplete, WorkSound, Own
  <2> QED BY <2>1, <2>2 DEF AuditComplete
<1>11. SupersededOnce'
  BY <1>3, <1>4, <1>5 DEF WorkSound, SupersededOnce
<1>12. TypeOK'
  BY <1>1, <1>4, <1>6, <1>7 DEF IInv, TypeOK
<1> QED BY <1>7, <1>8, <1>9, <1>10, <1>11, <1>12 DEF IInv

(***************************************************************************)
(* A record is upserted                                                    *)
(***************************************************************************)

\* There is an id left for the next record.
LEMMA IdLeft ==
  ASSUME IInv, NEW th \in Thread, NEW t \in Threads, th = threads[t], th.pc = "upsert",
         th.next <= Len(th.batch)
  PROVE  used.ids + 1 \in Ids
<1>1. Sound(th) /\ used.ids <= MaxBatch * Cardinality(Past) + (th.next - 1)
  BY DEF IInv, IdsBounded
<1>2. th.batch \in Batches /\ th.next \in Nat /\ th.put \in 1..used.puts
  BY <1>1, BatchTyped DEF Sound, Putting
<1>3. th.next <= MaxBatch
  BY <1>2, BatchTyped, Bounds
<1>4. used.puts \in Nat /\ used.ids \in Nat /\ used.puts <= MaxPuts /\ MaxPuts \in Nat /\ MaxBatch \in Nat
  BY UsedTyped, Bounds
<1>5. IsFiniteSet(1..used.puts) /\ Cardinality(1..used.puts) = used.puts
  BY PutsFinite
<1>6. Past \cup {threads[t].put} \subseteq 1..used.puts
  BY <1>2 DEF Past
<1>7. MaxBatch * Cardinality(Past) + MaxBatch <= MaxBatch * used.puts
  BY <1>5, <1>6, PastGrows DEF Putting
<1>8. MaxBatch * used.puts <= MaxPuts * MaxBatch
  <2>1. CASE used.puts = MaxPuts
    BY <1>4, <2>1
  <2>2. CASE used.puts + 1 <= MaxPuts
    <3>1. MaxBatch * used.puts + MaxBatch <= MaxBatch * MaxPuts
      BY <1>4, <2>2, OneBatchMore
    <3>2. /\ MaxBatch * used.puts \in Nat /\ MaxBatch * MaxPuts \in Nat
          /\ MaxBatch * MaxPuts = MaxPuts * MaxBatch
      BY <1>4
    <3> QED BY <1>4, <3>1, <3>2
  <2> QED BY <1>4, <2>1, <2>2
<1>9. /\ MaxBatch * Cardinality(Past) \in Nat /\ MaxBatch * used.puts \in Nat
      /\ MaxPuts * MaxBatch \in Nat
  BY <1>4, PastFinite
<1>10. PICK a \in Nat, b \in Nat, c \in Nat :
         a = MaxBatch * Cardinality(Past) /\ b = MaxBatch * used.puts /\ c = MaxPuts * MaxBatch
  BY <1>9
<1>11. used.ids <= a + (th.next - 1) /\ a + MaxBatch <= b /\ b <= c
  BY <1>1, <1>7, <1>8, <1>10
<1>12. used.ids + 1 <= c
  BY <1>2, <1>3, <1>4, <1>11
<1> QED BY <1>4, <1>10, <1>12 DEF Ids

\* The transaction after the record e of its PUT has taken the place of R
LEMMA WorkStaysSound ==
  ASSUME IInv, NEW th \in Thread, NEW new \in Thread, NEW e \in Row, NEW W, NEW R,
         Sound(th), th.pc = "upsert", WorkSound(th), KeysFree(th),
         W = th.work, R = Replaced(th),
         e.id = NewId(th), e.plan = th.plan, e.slot = SlotOf(th.batch[th.next]),
         e.put = th.put, e.part = th.next, th.next \in Nat,
         new.plan = th.plan, new.put = th.put, new.next = th.next + 1,
         new.work.rows = (W.rows \ R) \cup {e}, new.work.history = W.history \cup R
  PROVE  WorkSound(new)
<1>1. /\ R = {r \in W.rows : r.plan = e.plan /\ r.slot = e.slot}
      /\ \A r \in R, n \in W.history : r.id # n.id
      /\ \A r \in W.rows \ R : r.id # e.id
      /\ th.plan \in plans
  BY DEF KeysFree, Replaced, IdsOf
<1>2. /\ Keyed(W.rows) /\ IdsOnce(W.history)
      /\ history \subseteq W.history
      /\ rows \cup history \subseteq W.rows \cup W.history
      /\ W.rows \subseteq rows \cup Own(th)
      /\ W.history \subseteq rows \cup history \cup Own(th)
      /\ (W.history \ history) \cap W.rows = {}
      /\ crashes = 0 => W.rows \cap W.history = {}
  BY DEF WorkSound
<1>3. ASSUME NEW r \in (rows \ W.rows) \cup (W.history \ history)
      PROVE  r.plan = th.plan /\ \E n \in W.rows : n \in Own(th) /\ n.slot = r.slot
  BY <1>3 DEF WorkSound
<1>4. e \notin W.rows \cup W.history
  <2>1. e \notin Own(th)
    BY DEF Own
  <2>2. e \notin rows \cup history
    BY DEF IInv, AuditComplete, Sound, Putting
  <2> QED BY <2>1, <2>2, <1>2
<1>5. e \in Own(new) /\ Own(th) \subseteq Own(new)
  <2>1. \A r \in Row : r.part \in Nat
    BY Bounds DEF Row
  <2> QED BY <2>1 DEF Own
<1>6. Keyed((W.rows \ R) \cup {e})
  BY <1>1, <1>2 DEF Keyed
<1>7. IdsOnce(W.history \cup R)
  BY <1>1, <1>2 DEF Keyed, IdsOnce
<1>8. /\ (W.rows \ R) \cup {e} \subseteq rows \cup Own(new)
      /\ W.history \cup R \subseteq rows \cup history \cup Own(new)
  BY <1>1, <1>2, <1>5
<1>9. /\ ((W.history \cup R) \ history) \cap ((W.rows \ R) \cup {e}) = {}
      /\ crashes = 0 => ((W.rows \ R) \cup {e}) \cap (W.history \cup R) = {}
  BY <1>1, <1>2, <1>4
<1>10. ASSUME NEW r \in (rows \ ((W.rows \ R) \cup {e})) \cup ((W.history \cup R) \ history)
       PROVE  r.plan = th.plan /\ \E n \in (W.rows \ R) \cup {e} : n \in Own(new) /\ n.slot = r.slot
  <2>1. CASE r \in R
    BY <2>1, <1>1, <1>5
  <2>2. CASE r \notin R
    <3>1. r \in (rows \ W.rows) \cup (W.history \ history)
      BY <2>2, <1>10
    <3>2. PICK n \in W.rows : n \in Own(th) /\ n.slot = r.slot
      BY <3>1, <1>3
    <3>3. r.plan = th.plan
      BY <3>1, <1>3
    <3>4. CASE n \in R
      BY <3>2, <3>3, <3>4, <1>1, <1>5
    <3>5. CASE n \notin R
      BY <3>2, <3>3, <3>5, <1>5
    <3> QED BY <3>4, <3>5
  <2> QED BY <2>1, <2>2
<1> QED BY <1>1, <1>2, <1>6, <1>7, <1>8, <1>9, <1>10 DEF WorkSound

LEMMA UpsertNextKeeps ==
  ASSUME IInv, NEW t \in Threads, UpsertNext(t)
  PROVE  IInv'
<1>1. threads \in [Threads -> Thread] /\ threads[t] \in Thread
  BY DEF IInv, TypeOK
<1>2. PICK th \in Thread : th = threads[t]
  BY <1>1
<1>3. PICK W \in Work : W = th.work
  BY DEF Thread
<1>4. PICK R : R = Replaced(th)
  OBVIOUS
<1>5. /\ th.pc = "upsert" /\ th.next <= Len(th.batch) /\ KeysFree(th) /\ Sound(th) /\ WorkSound(th)
      /\ UNCHANGED <<plans, rows, history, acked, crashes>> /\ lock' = lock /\ lock = t
      /\ used' = [used EXCEPT !.ids = IF NewId(th) > used.ids THEN used.ids + 1 ELSE used.ids]
  BY <1>2 DEF UpsertNext, tables, IInv, Sound, Mutual
<1>6. /\ th.batch \in Batches /\ th.plan \in Plans /\ th.put \in Puts
      /\ th.next \in 1..MaxBatch /\ th.next \in 1..Len(th.batch) /\ th.next + 1 \in 1..(Len(th.batch) + 1)
      /\ Len(th.batch) \in Nat
  <2>1. th.batch \in Batches /\ th.plan \in Plans /\ th.put \in 1..used.puts
    BY <1>5 DEF Sound, Putting
  <2>2. Len(th.batch) \in Nat /\ Len(th.batch) <= MaxBatch /\ th.next \in Nat /\ th.next >= 1
    BY <1>5, <2>1, BatchTyped DEF Sound
  <2> QED BY <1>5, <2>1, <2>2, Bounds, UsedTyped DEF Puts
<1>7. used.ids + 1 \in Ids /\ used.ids \in Nat /\ used.puts \in Nat
  BY <1>2, <1>5, IdLeft, UsedTyped
<1>8. NewId(th) \in Ids /\ SlotOf(th.batch[th.next]) \in Slots
  <2>1. th.batch[th.next] \in Input /\ Valid(th.batch[th.next])
    BY <1>5, <1>6, BatchTyped DEF Sound, Putting
  <2> QED BY <1>7, <2>1, SlotTyped DEF NewId, Input
<1>9. PICK e \in Row : e = [id |-> NewId(th), plan |-> th.plan, slot |-> SlotOf(th.batch[th.next]),
                            put |-> th.put, part |-> th.next]
  BY <1>6, <1>8 DEF Row
<1>10. PICK w \in Work : w = [rows |-> (W.rows \ R) \cup {e}, history |-> W.history \cup R]
  <2>1. R \subseteq W.rows
    BY <1>3, <1>4 DEF Replaced
  <2> QED BY <2>1 DEF Work
<1>11. PICK k \in Nat : k = th.next + 1
  BY <1>6
<1>12. PICK new \in Thread : new = [th EXCEPT !.next = k, !.work = w]
  BY DEF Thread
<1>13. /\ new.pc = "upsert" /\ new.next = k /\ new.work = w /\ new.batch = th.batch
       /\ new.plan = th.plan /\ new.put = th.put
  BY <1>5, <1>12 DEF Thread
<1>14. threads' = [threads EXCEPT ![t] = new]
  <2>1. threads' = [threads EXCEPT
          ![t].next = @ + 1,
          ![t].work = [rows |-> (@.rows \ R) \cup {e}, history |-> @.history \cup R]]
    BY <1>2, <1>4, <1>9 DEF UpsertNext, Replace
  <2> QED BY <1>1, <1>2, <1>3, <1>10, <1>11, <1>12, <2>1 DEF Thread
<1>15. used'.puts = used.puts /\ used'.ids \in Ids \cup {0} /\ used'.ids <= used.ids + 1
       /\ used'.ids \in Nat /\ used' \in [puts : 0..MaxPuts, ids : {0} \cup Ids]
  <2>1. used \in [puts : 0..MaxPuts, ids : {0} \cup Ids]
    BY DEF IInv, TypeOK
  <2>2. CASE NewId(th) > used.ids
    BY <1>5, <1>7, <2>1, <2>2
  <2>3. CASE ~(NewId(th) > used.ids)
    BY <1>5, <1>7, <2>1, <2>3
  <2> QED BY <2>2, <2>3
<1>16. Sound(new)'
  <2>1. WorkSound(new)
    <3>1. w.rows = (W.rows \ R) \cup {e} /\ w.history = W.history \cup R
      BY <1>10
    <3>2. /\ e.id = NewId(th) /\ e.plan = th.plan /\ e.slot = SlotOf(th.batch[th.next])
          /\ e.put = th.put /\ e.part = th.next
      BY <1>9
    <3>3. new.next = th.next + 1 /\ th.next \in Nat
      BY <1>6, <1>11, <1>13
    <3> QED BY <1>3, <1>4, <1>5, <1>13, <3>1, <3>2, <3>3, WorkStaysSound
  <2>2. WorkSound(new)'
    BY <2>1, <1>5 DEF WorkSound, Own
  <2> QED BY <1>5, <1>6, <1>11, <1>13, <1>15, <2>2 DEF Sound, Putting
<1>17. /\ threads' \in [Threads -> Thread] /\ (\A o \in Threads : Sound(threads[o]))'
       /\ Distinct' /\ Mutual'
  <2>1. UNCHANGED <<plans, rows, history, acked, crashes>> /\ \A r \in acked' : r \in acked
    BY <1>5
  <2>2. used'.puts \in Nat /\ used.puts <= used'.puts
    BY <1>7, <1>15
  <2>3. Putting(threads[t]) /\ new.put = threads[t].put /\ lock' = t /\ lock' = lock
    BY <1>2, <1>5, <1>13 DEF Putting
  <2> QED BY <1>13, <1>14, <1>16, <2>1, <2>2, <2>3, Moved
<1>18. TablesPart'
  <2>1. UNCHANGED <<plans, rows, history, acked, crashes>> /\ lock' = lock /\ threads[t].pc # "remove"
    BY <1>2, <1>5
  <2>2. used'.puts \in Nat /\ used.puts <= used'.puts
    BY <1>7, <1>15
  <2> QED BY <1>14, <2>1, <2>2, TablesKept
<1>19. IdsBounded'
  <2>1. threads'[t] = new /\ \A o \in Threads : o # t => threads'[o] = threads[o]
    BY <1>1, <1>14
  <2>2. \A o \in Threads : o # t => threads'[o].pc # "upsert"
    BY <1>5, <2>1 DEF IInv, Mutual
  <2>3. Past' = Past
    BY <1>2, <1>5, <1>13, <1>15, <2>1 DEF Past, Putting
  <2>4. used.ids <= MaxBatch * Cardinality(Past) + (th.next - 1) /\ MaxBatch * Cardinality(Past) \in Nat
    BY <1>2, <1>5, PastFinite, Bounds DEF IInv, IdsBounded
  <2>5. used'.ids <= MaxBatch * Cardinality(Past) + (new.next - 1)
    <3>1. PICK a \in Nat : a = MaxBatch * Cardinality(Past)
      BY <2>4
    <3>2. used.ids <= a + (th.next - 1) /\ new.next = th.next + 1
      BY <1>11, <1>13, <2>4, <3>1
    <3>3. th.next \in Nat /\ used.ids \in Nat
      BY <1>6, <1>7
    <3>4. used'.ids <= a + th.next
      BY <1>15, <3>2, <3>3
    <3> QED BY <3>1, <3>2, <3>3, <3>4
  <2> QED BY <1>13, <2>1, <2>2, <2>3, <2>5 DEF IdsBounded
<1>20. TypeOK'
  BY <1>5, <1>15, <1>17 DEF IInv, TypeOK
<1> QED BY <1>17, <1>18, <1>19, <1>20 DEF IInv, TablesPart

(***************************************************************************)
(* The invariant                                                           *)
(***************************************************************************)

LEMMA StutterKeeps == ASSUME IInv, UNCHANGED vars PROVE IInv'
<1>1. /\ UNCHANGED <<plans, rows, history, lock, threads, used, crashes, acked>>
  BY DEF vars, tables
<1>2. (\A t \in Threads : Sound(threads[t]))'
  <2>1. ASSUME NEW t \in Threads PROVE Sound(threads[t])'
    <3>1. PICK th : th = threads[t]
      OBVIOUS
    <3>2. Sound(th) /\ threads'[t] = th
      BY <3>1, <1>1 DEF IInv
    <3> QED BY <3>2, <1>1 DEF Sound, Putting, WorkSound, Own
  <2> QED BY <2>1
<1>3. Mutual' /\ Distinct' /\ AckedKnown' /\ TypeOK'
  BY <1>1 DEF IInv, Mutual, Distinct, Putting, AckedKnown, TypeOK
<1>4. IdsBounded'
  BY <1>1 DEF IInv, IdsBounded, Past, Putting
<1>5. KeysUnique' /\ AuditComplete' /\ SupersededOnce'
  BY <1>1 DEF IInv, KeysUnique, AuditComplete, SupersededOnce
<1> QED BY <1>2, <1>3, <1>4, <1>5 DEF IInv

LEMMA InitHolds == Init => IInv
<1> SUFFICES ASSUME Init PROVE IInv
  OBVIOUS
<1>1. \A t \in Threads : threads[t] = Idle
  BY DEF Init
<1>2. TypeOK
  <2>1. threads \in [Threads -> Thread]
    BY IdleThread DEF Init
  <2>2. used \in [puts : 0..MaxPuts, ids : {0} \cup Ids] /\ crashes \in 0..MaxCrashes
    BY Bounds DEF Init
  <2> QED BY <2>1, <2>2 DEF Init, TypeOK
<1>3. Mutual /\ Distinct /\ \A t \in Threads : Sound(threads[t])
  BY <1>1, IdleThread, Bounds DEF Init, Mutual, Distinct, Putting, Sound
<1>4. IdsBounded
  <2>1. used.ids = 0 /\ \A t \in Threads : threads[t].pc # "upsert"
    BY <1>1, IdleThread DEF Init
  <2>2. used.puts = 0
    BY DEF Init
  <2>3. Past = {}
    BY <2>2 DEF Past
  <2>4. MaxBatch * Cardinality(Past) = 0
    BY <2>3, FS_EmptySet, Bounds
  <2> QED BY <2>1, <2>4 DEF IdsBounded
<1>5. AckedKnown /\ KeysUnique /\ AuditComplete /\ SupersededOnce
  BY DEF Init, AckedKnown, KeysUnique, AuditComplete, SupersededOnce
<1> QED BY <1>2, <1>3, <1>4, <1>5 DEF IInv

LEMMA StepKeeps == IInv /\ [Next]_vars => IInv'
<1> SUFFICES ASSUME IInv, [Next]_vars PROVE IInv'
  OBVIOUS
<1>1. ASSUME NEW t \in Threads, Put(t) \/ Delete(t) PROVE IInv'
  BY <1>1, BeginTransactionKeeps, UpsertNextKeeps, RollbackKeeps, CommitKeeps,
     ArchiveKeeps, NotArchivedKeeps, RemoveKeeps DEF Put, Delete
<1> QED BY <1>1, BeginPutKeeps, BeginDeleteKeeps, DropPlansKeeps, CrashKeeps, StutterKeeps DEF Next

LEMMA Inductive == Spec => []IInv
<1> QED BY InitHolds, StepKeeps, PTL DEF Spec

(***************************************************************************)
(* The steps that change the tables are steps of AuditTrail                *)
(***************************************************************************)

LEMMA CommitIsPut ==
  ASSUME IInv, NEW t \in Threads, Commit(t)
  PROVE  Trail!Put \/ UNCHANGED <<plans, rows, history>>
<1>1. PICK th : th = threads[t]
  OBVIOUS
<1>2. PICK W : W = th.work
  OBVIOUS
<1>3. /\ th.pc = "upsert" /\ rows' = W.rows /\ history' = W.history /\ UNCHANGED plans
  BY <1>1, <1>2 DEF Commit
<1>4. /\ Sound(th) /\ WorkSound(th)
      /\ th.plan \in Plans /\ th.next \in 1..(Len(th.batch) + 1) /\ th.batch \in Batches
      /\ \A r \in acked : r.put # th.put
  BY <1>1, <1>3 DEF IInv, Sound, Putting
<1>5. /\ Keyed(W.rows) /\ history \subseteq W.history
      /\ rows \subseteq W.rows \cup W.history
      /\ W.rows \subseteq rows \cup Own(th)
      /\ W.history \subseteq rows \cup history \cup Own(th)
      /\ (W.history \ history) \cap W.rows = {}
      /\ th.next > 1 => th.plan \in plans
  BY <1>2, <1>4 DEF WorkSound
<1>6. ASSUME NEW r \in (rows \ W.rows) \cup (W.history \ history)
      PROVE  r.plan = th.plan /\ \E n \in W.rows : n \in Own(th) /\ n.slot = r.slot
  BY <1>2, <1>4, <1>6 DEF WorkSound
<1>7. rows \cup history \subseteq acked
  BY DEF IInv, AuditComplete
<1>8. Own(th) \cap (rows \cup history) = {}
  BY <1>4, <1>7 DEF Own
<1>9. CASE th.next > 1
  <2>1. W.rows \ rows \subseteq Row \ history
    BY <1>5, <1>8 DEF Own
  <2>2. th.plan \in plans
       /\ \A r \in (W.rows \ rows) \cup (rows \ W.rows) \cup (W.history \ history) : r.plan = th.plan
    BY <1>5, <1>6, <1>9 DEF Own
  <2>3. Trail!OnePerPlace(W.rows)
    BY <1>5 DEF Keyed, Trail!OnePerPlace, Trail!SamePlace
  <2>4. rows \ W.rows \subseteq W.history
    BY <1>5
  <2>5. ASSUME NEW r \in (rows \ W.rows) \cup (W.history \ history)
        PROVE  \E n \in W.rows \ rows : Trail!SamePlace(r, n)
    <3>1. r.plan = th.plan /\ \E n \in W.rows : n \in Own(th) /\ n.slot = r.slot
      BY <1>6
    <3>2. PICK n \in W.rows : n \in Own(th) /\ n.slot = r.slot
      BY <3>1
    <3>3. n \notin rows /\ n.plan = r.plan
      BY <3>1, <3>2, <1>8 DEF Own
    <3> QED BY <3>2, <3>3 DEF Trail!SamePlace
  <2>6. \A r \in (W.rows \ rows) \cup ((W.history \ history) \ rows) :
          r.put = th.put /\ \A o \in rows \cup history : o.put # th.put
    BY <1>4, <1>5, <1>7 DEF Own
  <2> QED BY <1>3, <1>5, <2>1, <2>2, <2>3, <2>4, <2>5, <2>6 DEF Trail!Put
<1>10. CASE ~(th.next > 1)
  <2>1. th.next = 1
    BY <1>4, <1>10, BatchTyped
  <2>2. Own(th) = {}
    BY <2>1, Bounds DEF Own, Row
  <2>3. W.rows = rows /\ W.history = history
    BY <1>5, <1>6, <2>2
  <2> QED BY <1>3, <2>3
<1> QED BY <1>9, <1>10

LEMMA ArchiveIsLogFirst ==
  ASSUME IInv, NEW t \in Threads, Archive(t)
  PROVE  Trail!LogFirst
<1>1. PICK th : th = threads[t]
  OBVIOUS
<1>2. UNCHANGED <<plans, rows>> /\ Named(th) # {} /\ history' = history \cup Named(th)
  BY <1>1 DEF Archive
<1>3. PICK n \in rows : Named(th) = {n}
  BY <1>2 DEF Named, IInv, KeysUnique
<1> QED BY <1>2, <1>3 DEF Trail!LogFirst

LEMMA RemoveIsRetire ==
  ASSUME IInv, NEW t \in Threads, Remove(t)
  PROVE  Trail!Retire
<1>1. PICK th : th = threads[t]
  OBVIOUS
<1>2. th.pc = "remove" /\ rows' = {r \in rows : r.id # th.id} /\ UNCHANGED <<plans, history>>
  BY <1>1 DEF Remove
<1>3. PICK n \in rows \cap history : n.id = th.id
  BY <1>1, <1>2 DEF IInv, Sound
<1>4. rows' = rows \ {n}
  BY <1>2, <1>3 DEF IInv, KeysUnique
<1> QED BY <1>2, <1>3, <1>4 DEF Trail!Retire

LEMMA StepRefines == IInv /\ [Next]_vars => [Trail!Next]_<<plans, rows, history>>
<1> SUFFICES ASSUME IInv, [Next]_vars
             PROVE  Trail!Next \/ UNCHANGED <<plans, rows, history>>
  OBVIOUS
<1>1. ASSUME NEW t \in Threads, Put(t) PROVE Trail!Next \/ UNCHANGED <<plans, rows, history>>
  <2>1. CASE Commit(t)
    BY <2>1, CommitIsPut DEF Trail!Next
  <2>2. CASE ~Commit(t)
    BY <1>1, <2>2 DEF Put, BeginTransaction, UpsertNext, Rollback, Undo, tables
  <2> QED BY <2>1, <2>2
<1>2. ASSUME NEW t \in Threads, Delete(t) PROVE Trail!Next \/ UNCHANGED <<plans, rows, history>>
  <2>1. CASE NotArchived(t)
    BY <2>1 DEF NotArchived, tables
  <2>2. CASE Archive(t) \/ Remove(t)
    BY <2>2, ArchiveIsLogFirst, RemoveIsRetire DEF Trail!Next
  <2> QED BY <1>2, <2>1, <2>2 DEF Delete
<1>3. ASSUME NEW gone \in SUBSET Plans, DropPlans(gone) PROVE Trail!Next
  BY <1>3 DEF DropPlans, Trail!Next, Trail!DropPlans
<1>4. CASE Crash
  BY <1>4 DEF Crash, tables
<1>5. ASSUME NEW t \in Threads, NEW p \in Plans, NEW batch \in Batches, BeginPut(t, p, batch)
      PROVE  UNCHANGED <<plans, rows, history>>
  BY <1>5 DEF BeginPut, tables
<1>6. ASSUME NEW t \in Threads, NEW p \in Plans, NEW id \in Ids, BeginDelete(t, p, id)
      PROVE  UNCHANGED <<plans, rows, history>>
  BY <1>6 DEF BeginDelete, tables
<1>7. CASE UNCHANGED vars
  BY <1>7 DEF vars, tables
<1> QED BY <1>1, <1>2, <1>3, <1>4, <1>5, <1>6, <1>7 DEF Next

(***************************************************************************)
(* Sums over finite sets                                                   *)
(***************************************************************************)

\* One dot for each unit of each value: a sum of naturals is how many there are.
Dots(f, s) == {d \in s \X Nat : d[2] \in 1..f[d[1]]}

LEMMA LeastNat ==
  ASSUME NEW B \in SUBSET Nat, B # {}
  PROVE  \E n \in B : \A m \in B : n <= m
<1>1. PICK n \in B : \A m \in B : <<m, n>> \notin OpToRel(<, Nat)
  BY NatLessThanWellFounded, WFMin
<1>2. \A m \in B : ~(m < n)
  BY <1>1 DEF OpToRel
<1> QED BY <1>2

LEMMA DotsOfOne ==
  ASSUME NEW x, NEW k \in Nat
  PROVE  IsFiniteSet({x} \X (1..k)) /\ Cardinality({x} \X (1..k)) = k
<1>1. IsFiniteSet({x}) /\ Cardinality({x}) = 1
  BY FS_Singleton
<1>2. IsFiniteSet(1..k) /\ Cardinality(1..k) = k
  BY FS_Interval
<1>3. IsFiniteSet({x} \X (1..k)) /\ Cardinality({x} \X (1..k)) = Cardinality({x}) * Cardinality(1..k)
  BY <1>1, <1>2, FS_Product
<1>4. 1 * k = k
  OBVIOUS
<1> QED BY <1>1, <1>2, <1>3, <1>4

LEMMA DotsFinite ==
  ASSUME NEW S, IsFiniteSet(S), NEW f \in [S -> Nat], NEW s \in SUBSET S
  PROVE  IsFiniteSet(Dots(f, s)) /\ Cardinality(Dots(f, s)) \in Nat
<1> DEFINE part == [x \in s |-> {x} \X (1..f[x])]
<1>1. IsFiniteSet(s)
  BY FS_Subset
<1>2. part \in [s -> Range(part)] /\ part \in Surjection(s, Range(part))
  BY DEF Surjection, Range
<1>3. IsFiniteSet(Range(part))
  BY <1>1, <1>2, FS_Surjection
<1>4. \A T \in Range(part) : IsFiniteSet(T)
  <2>1. ASSUME NEW x \in s PROVE IsFiniteSet(part[x])
    BY f[x] \in Nat, DotsOfOne
  <2>2. \A T \in Range(part) : \E x \in s : T = part[x]
    BY DEF Range
  <2> QED BY <2>1, <2>2
<1>5. IsFiniteSet(UNION Range(part))
  BY <1>3, <1>4, FS_UNION
<1>6. Dots(f, s) \in SUBSET UNION Range(part)
  BY DEF Dots, Range
<1> QED BY <1>5, <1>6, FS_Subset, FS_CardinalityType

LEMMA DotsWithout ==
  ASSUME NEW S, IsFiniteSet(S), NEW f \in [S -> Nat], NEW s \in SUBSET S, NEW x \in s
  PROVE  Cardinality(Dots(f, s)) = f[x] + Cardinality(Dots(f, s \ {x}))
<1>1. Dots(f, s) = ({x} \X (1..f[x])) \cup Dots(f, s \ {x})
  BY DEF Dots
<1>2. ({x} \X (1..f[x])) \cap Dots(f, s \ {x}) = {}
  BY DEF Dots
<1>3. f[x] \in Nat
  OBVIOUS
<1>4. IsFiniteSet({x} \X (1..f[x])) /\ Cardinality({x} \X (1..f[x])) = f[x]
  BY <1>3, DotsOfOne
<1>5. IsFiniteSet(Dots(f, s \ {x})) /\ Cardinality(Dots(f, s \ {x})) \in Nat
  BY DotsFinite, s \ {x} \in SUBSET S
<1>6. Cardinality(Dots(f, s)) = Cardinality({x} \X (1..f[x]))
        + Cardinality(Dots(f, s \ {x})) - Cardinality(({x} \X (1..f[x])) \cap Dots(f, s \ {x}))
  BY <1>1, <1>4, <1>5, FS_Union
<1>7. Cardinality(({x} \X (1..f[x])) \cap Dots(f, s \ {x})) = 0
  BY <1>2, FS_EmptySet
<1> QED BY <1>3, <1>4, <1>5, <1>6, <1>7

Counts(f, S, g) ==
  g = [s \in SUBSET S |->
        IF s = {} THEN 0 ELSE f[CHOOSE x \in s : TRUE] + g[s \ {CHOOSE x \in s : TRUE}]]

\* A sum of integers is the dots above zero less those below.
Gains(f) == [x \in DOMAIN f |-> IF f[x] >= 0 THEN f[x] ELSE 0]
Losses(f) == [x \in DOMAIN f |-> IF f[x] < 0 THEN -f[x] ELSE 0]

Balance(f, s) == Cardinality(Dots(Gains(f), s)) - Cardinality(Dots(Losses(f), s))

LEMMA BalanceWithout ==
  ASSUME NEW S, IsFiniteSet(S), NEW f \in [S -> Int], NEW s \in SUBSET S
  PROVE  /\ Balance(f, s) \in Int
         /\ \A x \in s : Balance(f, s) = f[x] + Balance(f, s \ {x})
<1>1. Gains(f) \in [S -> Nat] /\ Losses(f) \in [S -> Nat]
  BY DEF Gains, Losses
<1>2. \A x \in S : Gains(f)[x] - Losses(f)[x] = f[x]
  BY DEF Gains, Losses
<1>3. \A r \in SUBSET S : Cardinality(Dots(Gains(f), r)) \in Nat /\ Cardinality(Dots(Losses(f), r)) \in Nat
  BY <1>1, DotsFinite
<1>4. ASSUME NEW x \in s
      PROVE  Balance(f, s) = f[x] + Balance(f, s \ {x})
  <2>1. PICK u \in Nat, d \in Nat, e \in Nat, a \in Nat, c \in Nat, g \in Nat :
          /\ u = Gains(f)[x] /\ d = Cardinality(Dots(Gains(f), s))
          /\ e = Cardinality(Dots(Gains(f), s \ {x}))
          /\ a = Losses(f)[x] /\ c = Cardinality(Dots(Losses(f), s))
          /\ g = Cardinality(Dots(Losses(f), s \ {x}))
    BY <1>1, <1>3, s \ {x} \in SUBSET S
  <2>2. d = u + e /\ c = a + g
    BY <1>1, <2>1, DotsWithout
  <2>3. f[x] = u - a
    BY <1>2, <2>1
  <2> QED BY <2>1, <2>2, <2>3 DEF Balance
<1> QED BY <1>3, <1>4 DEF Balance

LEMMA NoBalance == ASSUME NEW f PROVE Balance(f, {}) = 0
<1>1. Dots(Gains(f), {}) = {} /\ Dots(Losses(f), {}) = {}
  BY DEF Dots
<1> QED BY <1>1, FS_EmptySet DEF Balance

LEMMA OnlyBalanceCounts ==
  ASSUME NEW S, IsFiniteSet(S), NEW f \in [S -> Int], NEW g, Counts(f, S, g)
  PROVE  \A s \in SUBSET S : g[s] = Balance(f, s)
<1> DEFINE Size == {n \in Nat : \E s \in SUBSET S : Cardinality(s) = n /\ g[s] # Balance(f, s)}
<1>1. \A s \in SUBSET S : IsFiniteSet(s) /\ Cardinality(s) \in Nat
  BY FS_Subset, FS_CardinalityType
<1>2. CASE Size = {}
  BY <1>1, <1>2
<1>3. CASE Size # {}
  <2>1. PICK n \in Size : \A m \in Size : n <= m
    BY <1>3, LeastNat
  <2>2. PICK s \in SUBSET S : Cardinality(s) = n /\ g[s] # Balance(f, s)
    BY <2>1
  <2>3. s # {}
    <3> SUFFICES ASSUME s = {} PROVE FALSE
      OBVIOUS
    <3>1. g[s] = 0
      BY DEF Counts
    <3> QED BY <2>2, <3>1, NoBalance
  <2>4. PICK x \in s : x = CHOOSE y \in s : TRUE
    BY <2>3
  <2>5. g[s] = f[x] + g[s \ {x}]
    BY <2>3, <2>4 DEF Counts
  <2>6. Cardinality(s \ {x}) = n - 1
    BY <2>2, <1>1, FS_RemoveElement
  <2>7. n - 1 \in Nat /\ n - 1 \notin Size
    BY <2>6, <2>1, <1>1, s \ {x} \in SUBSET S
  <2>8. g[s \ {x}] = Balance(f, s \ {x})
    BY <2>6, <2>7, s \ {x} \in SUBSET S
  <2> QED BY <2>2, <2>5, <2>8, BalanceWithout
<1> QED BY <1>2, <1>3

LEMMA BalanceCounts ==
  ASSUME NEW S, IsFiniteSet(S), NEW f \in [S -> Int]
  PROVE  Counts(f, S, [s \in SUBSET S |-> Balance(f, s)])
<1> DEFINE g == [s \in SUBSET S |-> Balance(f, s)]
<1>1. ASSUME NEW s \in SUBSET S
      PROVE  g[s] = IF s = {} THEN 0
                    ELSE f[CHOOSE x \in s : TRUE] + g[s \ {CHOOSE x \in s : TRUE}]
  <2>1. CASE s = {}
    BY <2>1, NoBalance
  <2>2. CASE s # {}
    <3>1. PICK x \in s : x = CHOOSE y \in s : TRUE
      BY <2>2
    <3>2. Balance(f, s) = f[x] + Balance(f, s \ {x})
      BY BalanceWithout
    <3> QED BY <2>2, <3>1, <3>2
  <2> QED BY <2>1, <2>2
<1> QED BY <1>1 DEF Counts

LEMMA SumIsBalance ==
  ASSUME NEW S, IsFiniteSet(S), NEW f \in [S -> Int]
  PROVE  SumFunction(f) = Balance(f, S) /\ SumFunction(f) \in Int
<1> DEFINE g == CHOOSE h : h = [s \in SUBSET S |->
        IF s = {} THEN 0 ELSE f[CHOOSE x \in s : TRUE] + h[s \ {CHOOSE x \in s : TRUE}]]
<1>1. Counts(f, S, g)
  <2>1. PICK h : Counts(f, S, h)
    BY BalanceCounts
  <2> QED BY <2>1 DEF Counts
<1>2. SumFunction(f) = g[S]
  BY DEF SumFunction, SumFunctionOnSet, FoldFunctionOnSet, MapThenFoldSet
<1>3. g[S] = Balance(f, S)
  BY <1>1, OnlyBalanceCounts
<1> QED BY <1>2, <1>3, BalanceWithout, S \in SUBSET S

\* Whatever gains f[x] with x, whichever x it is, and is zero for none, is the sum.
LEMMA SumIs ==
  ASSUME NEW S, IsFiniteSet(S), NEW f \in [S -> Int],
         NEW g \in [SUBSET S -> Int], g[{}] = 0,
         \A s \in SUBSET S : \A x \in s : g[s] = f[x] + g[s \ {x}]
  PROVE  SumFunction(f) = g[S]
<1>1. Counts(f, S, g)
  <2>1. ASSUME NEW s \in SUBSET S
        PROVE  g[s] = IF s = {} THEN 0
                      ELSE f[CHOOSE x \in s : TRUE] + g[s \ {CHOOSE x \in s : TRUE}]
    <3>1. CASE s = {}
      BY <3>1
    <3>2. CASE s # {}
      <4>1. PICK x \in s : x = CHOOSE y \in s : TRUE
        BY <3>2
      <4> QED BY <3>2, <4>1
    <3> QED BY <3>1, <3>2
  <2> QED BY <2>1 DEF Counts
<1>2. SumFunction(f) = Balance(f, S) /\ g[S] = Balance(f, S)
  BY <1>1, SumIsBalance, OnlyBalanceCounts, S \in SUBSET S
<1> QED BY <1>2

LEMMA SumIsDots ==
  ASSUME NEW S, IsFiniteSet(S), NEW f \in [S -> Nat]
  PROVE  SumFunction(f) = Cardinality(Dots(f, S))
<1>1. Gains(f) = f
  BY DEF Gains
<1>2. Dots(Losses(f), S) = {}
  BY DEF Dots, Losses
<1>3. Cardinality(Dots(f, S)) \in Nat
  BY DotsFinite, S \in SUBSET S
<1>4. f \in [S -> Int]
  OBVIOUS
<1>5. SumFunction(f) = Cardinality(Dots(f, S)) - Cardinality({})
  BY <1>1, <1>2, <1>4, SumIsBalance DEF Balance
<1> QED BY <1>3, <1>5, FS_EmptySet

LEMMA SumType ==
  ASSUME NEW S, IsFiniteSet(S), NEW f \in [S -> Nat]
  PROVE  SumFunction(f) \in Nat
BY SumIsDots, DotsFinite, S \in SUBSET S

LEMMA SumAtLeast ==
  ASSUME NEW S, IsFiniteSet(S), NEW f \in [S -> Nat], NEW x \in S
  PROVE  f[x] <= SumFunction(f)
<1>1. Cardinality(Dots(f, S)) = f[x] + Cardinality(Dots(f, S \ {x}))
  BY DotsWithout, S \in SUBSET S
<1>2. Cardinality(Dots(f, S \ {x})) \in Nat
  BY DotsFinite, S \ {x} \in SUBSET S
<1>3. f[x] \in Nat
  OBVIOUS
<1> QED BY <1>1, <1>2, <1>3, SumIsDots

LEMMA DotsOfAll ==
  ASSUME NEW S, IsFiniteSet(S), NEW k \in Nat
  PROVE  IsFiniteSet(S \X (1..k)) /\ Cardinality(S \X (1..k)) = k * Cardinality(S)
<1>1. IsFiniteSet(1..k) /\ Cardinality(1..k) = k
  BY FS_Interval
<1>2. IsFiniteSet(S \X (1..k)) /\ Cardinality(S \X (1..k)) = Cardinality(S) * Cardinality(1..k)
  BY <1>1, FS_Product
<1>3. Cardinality(S) \in Nat
  BY FS_CardinalityType
<1>4. \A c \in Nat : c * k = k * c
  OBVIOUS
<1> QED BY <1>1, <1>2, <1>3, <1>4

LEMMA SumWithin ==
  ASSUME NEW S, IsFiniteSet(S), NEW f \in [S -> Nat], NEW lo \in Nat, NEW hi \in Nat,
         \A x \in S : lo <= f[x] /\ f[x] <= hi
  PROVE  SumFunction(f) \in (lo * Cardinality(S))..(hi * Cardinality(S))
<1>1. /\ IsFiniteSet(Dots(f, S)) /\ Cardinality(Dots(f, S)) \in Nat
      /\ SumFunction(f) = Cardinality(Dots(f, S))
  BY DotsFinite, SumIsDots, S \in SUBSET S
<1>2. Cardinality(Dots(f, S)) <= Cardinality(S \X (1..hi))
  <2>1. Dots(f, S) \in SUBSET (S \X (1..hi))
    BY DEF Dots
  <2> QED BY <2>1, DotsOfAll, FS_Subset
<1>3. Cardinality(S \X (1..lo)) <= Cardinality(Dots(f, S))
  <2>1. S \X (1..lo) \in SUBSET Dots(f, S)
    BY DEF Dots
  <2> QED BY <2>1, <1>1, FS_Subset
<1>4. Cardinality(S) \in Nat
  BY FS_CardinalityType
<1>5. lo * Cardinality(S) \in Int /\ hi * Cardinality(S) \in Int
  BY <1>4
<1>6. /\ Cardinality(S \X (1..hi)) = hi * Cardinality(S)
      /\ Cardinality(S \X (1..lo)) = lo * Cardinality(S)
  BY DotsOfAll
<1> QED BY <1>1, <1>2, <1>3, <1>5, <1>6

LEMMA SumReindexed ==
  ASSUME NEW S, NEW T, IsFiniteSet(T), NEW f \in [T -> Nat], NEW b \in Bijection(S, T)
  PROVE  SumFunction([x \in S |-> f[b[x]]]) = SumFunction(f)
<1> DEFINE g == [x \in S |-> f[b[x]]]
           d == [e \in Dots(g, S) |-> <<b[e[1]], e[2]>>]
<1>1. /\ b \in [S -> T] /\ \A x, y \in S : b[x] = b[y] => x = y
      /\ \A y \in T : \E x \in S : b[x] = y
  BY Fun_BijectionProperties
<1>2. IsFiniteSet(S)
  BY <1>1, Fun_BijectionProperties, FS_Injection
<1>3. g \in [S -> Nat]
  BY <1>1
<1>4. d \in [Dots(g, S) -> Dots(f, T)]
  BY <1>1, <1>3 DEF Dots
<1>5. \A e, h \in Dots(g, S) : d[e] = d[h] => e = h
  BY <1>1 DEF Dots
<1>6. ASSUME NEW h \in Dots(f, T) PROVE \E e \in Dots(g, S) : d[e] = h
  <2>1. PICK x \in S : b[x] = h[1]
    BY <1>1, <1>6 DEF Dots
  <2>2. <<x, h[2]>> \in Dots(g, S)
    BY <2>1, <1>3 DEF Dots
  <2>3. h = <<h[1], h[2]>>
    BY DEF Dots
  <2>4. d[<<x, h[2]>>] = <<b[x], h[2]>>
    BY <2>2
  <2> QED BY <2>1, <2>2, <2>3, <2>4
<1>7. ExistsBijection(Dots(g, S), Dots(f, T))
  BY <1>4, <1>5, <1>6, Fun_IsBij, Fun_ExistsBij
<1>8. IsFiniteSet(Dots(g, S))
  BY <1>2, <1>3, DotsFinite, S \in SUBSET S
<1>9. Cardinality(Dots(f, T)) = Cardinality(Dots(g, S))
  BY <1>7, <1>8, FS_Bijection
<1> QED BY <1>2, <1>3, <1>9, SumIsDots

LEMMA SumByParts ==
  ASSUME NEW S, IsFiniteSet(S), NEW C, IsFiniteSet(C), NEW v \in [C -> Nat], NEW key \in [C -> S]
  PROVE  SumFunction([x \in S |-> SumFunction([c \in {c \in C : key[c] = x} |-> v[c]])])
           = SumFunction(v)
<1> DEFINE part(x)  == {c \in C : key[c] = x}
           parts(s) == {c \in C : key[c] \in s}
           h == [x \in S |-> SumFunction([c \in part(x) |-> v[c]])]
           g == [s \in SUBSET S |-> Cardinality(Dots(v, parts(s)))]
<1>1. ASSUME NEW x \in S PROVE h[x] = Cardinality(Dots(v, part(x))) /\ h[x] \in Nat
  <2>1. part(x) \in SUBSET C /\ IsFiniteSet(part(x))
    BY FS_Subset
  <2>2. [c \in part(x) |-> v[c]] \in [part(x) -> Nat]
    OBVIOUS
  <2>3. Dots([c \in part(x) |-> v[c]], part(x)) = Dots(v, part(x))
    BY DEF Dots
  <2>4. SumFunction([c \in part(x) |-> v[c]]) = Cardinality(Dots([c \in part(x) |-> v[c]], part(x)))
    BY <2>1, <2>2, SumIsDots
  <2> HIDE DEF part
  <2> QED BY <2>1, <2>3, <2>4, DotsFinite
<1>2. h \in [S -> Nat]
  <2> HIDE DEF part
  <2> QED BY <1>1
<1>3. ASSUME NEW s \in SUBSET S, NEW x \in s
      PROVE  Cardinality(Dots(v, parts(s))) = h[x] + Cardinality(Dots(v, parts(s \ {x})))
  <2>1. /\ Dots(v, parts(s)) = Dots(v, part(x)) \cup Dots(v, parts(s \ {x}))
        /\ Dots(v, part(x)) \cap Dots(v, parts(s \ {x})) = {}
    BY DEF Dots
  <2>2. part(x) \in SUBSET C /\ parts(s \ {x}) \in SUBSET C
    OBVIOUS
  <2> HIDE DEF part, parts, h
  <2>3. /\ IsFiniteSet(Dots(v, part(x))) /\ IsFiniteSet(Dots(v, parts(s \ {x})))
        /\ Cardinality(Dots(v, part(x))) \in Nat /\ Cardinality(Dots(v, parts(s \ {x}))) \in Nat
    BY <2>2, DotsFinite
  <2>4. Cardinality(Dots(v, parts(s))) = Cardinality(Dots(v, part(x)))
          + Cardinality(Dots(v, parts(s \ {x}))) - Cardinality({})
    BY <2>1, <2>3, FS_Union
  <2> QED BY <2>3, <2>4, <1>1, FS_EmptySet
<1>4. Cardinality(Dots(v, parts({}))) = 0
  <2>1. Dots(v, parts({})) = {}
    BY DEF Dots
  <2> QED BY <2>1, FS_EmptySet
<1>5. \A s \in SUBSET S : \A x \in s : g[s] = h[x] + g[s \ {x}]
  <2> HIDE DEF parts, h
  <2> QED BY <1>3, \A s \in SUBSET S : \A x \in s : s \ {x} \in SUBSET S
<1>6. SumFunction(h) = g[S]
  <2>1. \A s \in SUBSET S : Cardinality(Dots(v, parts(s))) \in Nat
    <3>1. \A s \in SUBSET S : parts(s) \in SUBSET C
      OBVIOUS
    <3> HIDE DEF parts
    <3> QED BY <3>1, DotsFinite
  <2>2. h \in [S -> Int] /\ g \in [SUBSET S -> Int] /\ g[{}] = 0
    <3> HIDE DEF h, parts
    <3> QED BY <1>2, <1>4, <2>1
  <2> HIDE DEF g, h
  <2> QED BY <2>2, <1>5, SumIs
<1>7. parts(S) = C
  OBVIOUS
<1>8. SumFunction(h) = SumFunction(v)
  <2> HIDE DEF h, parts
  <2> QED BY <1>6, <1>7, SumIsDots, S \in SUBSET S
<1> QED BY <1>8

LEMMA LeastIsMin ==
  ASSUME NEW B \in SUBSET Nat, B # {}
  PROVE  Min(B) \in B /\ \A n \in B : Min(B) <= n
BY LeastNat DEF Min

LEMMA GreatestIsMax ==
  ASSUME NEW B \in SUBSET Nat, B # {}, NEW k \in Nat, \A n \in B : n <= k
  PROVE  Max(B) \in B /\ \A n \in B : n <= Max(B)
<1> DEFINE Above == {n \in Nat : \A m \in B : m <= n}
<1>1. PICK n \in Above : \A m \in Above : n <= m
  <2>1. k \in Above
    OBVIOUS
  <2> QED BY <2>1, LeastNat
<1>2. n \in B
  <2> SUFFICES ASSUME n \notin B PROVE FALSE
    OBVIOUS
  <2>1. n \in Nat /\ \A m \in B : m \in Nat /\ m <= n /\ m # n
    BY <1>1
  <2>2. PICK m \in B : TRUE
    OBVIOUS
  <2>9. n # 0
    BY <2>1, <2>2
  <2>3. n - 1 \in Above
    BY <2>1, <2>9
  <2> QED BY <1>1, <2>1, <2>3
<1>3. \E m \in B : \A l \in B : m >= l
  BY <1>1, <1>2
<1> QED BY <1>3 DEF Max

LEMMA SumLinear ==
  ASSUME NEW S, IsFiniteSet(S), NEW f \in [S -> Int], NEW k \in Int, NEW l \in Int
  PROVE  SumFunction([x \in S |-> k * f[x] + l]) = k * SumFunction(f) + l * Cardinality(S)
<1> DEFINE h == [x \in S |-> k * f[x] + l]
           g == [s \in SUBSET S |-> k * Balance(f, s) + l * Cardinality(s)]
<1>1. h \in [S -> Int]
  OBVIOUS
<1>2. ASSUME NEW s \in SUBSET S, NEW x \in s PROVE g[s] = h[x] + g[s \ {x}]
  <2>1. PICK d \in Int, e \in Int, a \in Int, c \in Int, v \in Int :
          /\ d = Balance(f, s) /\ e = Balance(f, s \ {x})
          /\ a = Cardinality(s) /\ c = Cardinality(s \ {x}) /\ v = f[x]
    BY BalanceWithout, FS_Subset, FS_CardinalityType, s \ {x} \in SUBSET S
  <2>2. d = v + e
    BY <2>1, BalanceWithout
  <2>3. a = c + 1
    BY <2>1, FS_Subset, FS_RemoveElement
  <2>4. k * d + l * a = (k * v + l) + (k * e + l * c)
    BY <2>2, <2>3
  <2> QED BY <2>1, <2>4, s \ {x} \in SUBSET S
<1>3. g[{}] = 0 /\ g \in [SUBSET S -> Int]
  <2>1. ASSUME NEW s \in SUBSET S PROVE g[s] \in Int
    <3>1. PICK d \in Int, a \in Int : d = Balance(f, s) /\ a = Cardinality(s)
      BY BalanceWithout, FS_Subset, FS_CardinalityType
    <3> QED BY <3>1
  <2>2. k * 0 + l * 0 = 0
    OBVIOUS
  <2>3. g[{}] = k * Balance(f, {}) + l * Cardinality({})
    OBVIOUS
  <2> QED BY <2>1, <2>2, <2>3, NoBalance, FS_EmptySet
<1>4. SumFunction(h) = g[S]
  <2> HIDE DEF g, h
  <2> QED BY <1>1, <1>2, <1>3, SumIs
<1>5. SumFunction(f) = Balance(f, S)
  BY SumIsBalance
<1> QED BY <1>4, <1>5, S \in SUBSET S

LEMMA SumDifference ==
  ASSUME NEW S, IsFiniteSet(S), NEW f \in [S -> Int], NEW h \in [S -> Int]
  PROVE  SumFunction([x \in S |-> h[x] - f[x]]) = SumFunction(h) - SumFunction(f)
<1> DEFINE rest == [x \in S |-> h[x] - f[x]]
           gap  == [s \in SUBSET S |-> Balance(h, s) - Balance(f, s)]
<1>1. rest \in [S -> Int]
  OBVIOUS
<1>2. ASSUME NEW s \in SUBSET S, NEW x \in s PROVE gap[s] = rest[x] + gap[s \ {x}]
  <2>1. PICK c \in Int, d \in Int, k \in Int, l \in Int :
          /\ c = Balance(h, s) /\ d = Balance(h, s \ {x})
          /\ k = Balance(f, s) /\ l = Balance(f, s \ {x})
    BY BalanceWithout, s \ {x} \in SUBSET S
  <2>2. PICK a \in Int, b \in Int : a = h[x] /\ b = f[x]
    OBVIOUS
  <2>3. c = a + d /\ k = b + l
    BY <2>1, <2>2, BalanceWithout
  <2>4. gap[s] = c - k /\ gap[s \ {x}] = d - l /\ rest[x] = a - b
    BY <2>1, <2>2, s \ {x} \in SUBSET S
  <2> QED BY <2>3, <2>4
<1>3. gap[{}] = 0 /\ gap \in [SUBSET S -> Int]
  <2>1. ASSUME NEW s \in SUBSET S PROVE Balance(h, s) - Balance(f, s) \in Int
    <3>1. Balance(h, s) \in Int /\ Balance(f, s) \in Int
      BY BalanceWithout
    <3> QED BY <3>1
  <2> QED BY <2>1, NoBalance
<1>4. SumFunction(rest) = gap[S]
  <2>1. \A e \in [S -> Int], d \in [SUBSET S -> Int] :
          d[{}] = 0 /\ (\A s \in SUBSET S : \A x \in s : d[s] = e[x] + d[s \ {x}])
          => SumFunction(e) = d[S]
    BY SumIs
  <2> HIDE DEF rest, gap
  <2>2. \A s \in SUBSET S : \A x \in s : gap[s] = rest[x] + gap[s \ {x}]
    BY <1>2
  <2> QED BY <1>1, <1>3, <2>1, <2>2, Zenon
<1>5. SumFunction(f) = Balance(f, S) /\ SumFunction(h) = Balance(h, S)
  BY SumIsBalance
<1> QED BY <1>4, <1>5, S \in SUBSET S

LEMMA SumMonotone ==
  ASSUME NEW S, IsFiniteSet(S), NEW f \in [S -> Int], NEW h \in [S -> Int],
         \A x \in S : f[x] <= h[x]
  PROVE  SumFunction(f) <= SumFunction(h)
<1> DEFINE rest == [x \in S |-> h[x] - f[x]]
<1>1. rest \in [S -> Nat]
  OBVIOUS
<1>2. SumFunction(rest) = SumFunction(h) - SumFunction(f)
  BY SumDifference
<1>3. SumFunction(rest) \in Nat
  <2> HIDE DEF rest
  <2> QED BY <1>1, SumType
<1>4. SumFunction(f) \in Int /\ SumFunction(h) \in Int
  BY SumIsBalance
<1> HIDE DEF rest
<1> QED BY <1>2, <1>3, <1>4

(***************************************************************************)
(* The report                                                              *)
(***************************************************************************)

LEMMA FiguresTyped ==
  ASSUME NEW r \in Row
  PROVE  /\ Entered(r) \subseteq Channels
         /\ \A ch \in Entered(r) :
              PerChannel(r)[ch].spend \in Nat /\ PerChannel(r)[ch].reach \in Nat
<1>1. r.put \in Puts /\ r.part \in 1..MaxBatch
  BY DEF Row
<1>2. PICK chs \in SUBSET Channels : Content[<<r.put, r.part>>] \in [chs -> Figures]
  BY <1>1, ReportsAssumption
<1> QED BY <1>2 DEF Entered, PerChannel, Figures

\* A plan has no more records in force than weeks, and one.
LEMMA RecordsFinite ==
  ASSUME IInv, NEW p
  PROVE  IsFiniteSet({r \in rows : r.plan = p})
<1> DEFINE rs   == {r \in rows : r.plan = p}
           slot == [r \in rs |-> r.slot]
<1>1. slot \in [rs -> Slots]
  BY DEF IInv, TypeOK, Row
<1>2. \A r, n \in rs : slot[r] = slot[n] => r = n
  BY DEF IInv, KeysUnique
<1>3. slot \in Injection(rs, Slots)
  BY <1>1, <1>2, Fun_IsInj
<1>4. IsFiniteSet(Slots)
  BY ActualsAssumption, FS_Interval DEF Slots
<1> QED BY <1>3, <1>4, FS_Injection

LEMMA SourceIsLive ==
  ASSUME IInv, NEW p \in plans, rows \cap history = {}
  PROVE  LET final == {r \in Live(p) : r.slot = 0}
         IN  /\ ActualsSource(p) = IF final # {} THEN final ELSE Live(p)
             /\ (ActualsSource(p) = {}) = (Live(p) = {})
             /\ ActualsSource(p) \subseteq Row /\ IsFiniteSet(ActualsSource(p))
<1>1. Live(p) = {r \in rows : r.plan = p}
  BY DEF Live, IInv, AuditComplete
<1>2. /\ Finals(p) = {r \in Live(p) : r.slot = 0}
      /\ Finals(p) = {} => Weeklies(p) = Live(p)
  BY <1>1 DEF Finals, Weeklies
<1>3. ActualsSource(p) \in SUBSET {r \in rows : r.plan = p}
  BY DEF ActualsSource, Finals, Weeklies
<1>4. IsFiniteSet(ActualsSource(p)) /\ ActualsSource(p) \subseteq Row
  <2>1. IsFiniteSet(ActualsSource(p))
    BY <1>3, RecordsFinite, FS_Subset
  <2>2. rows \subseteq Row
    BY DEF IInv, TypeOK
  <2> QED BY <1>3, <2>1, <2>2
<1> QED BY <1>2, <1>4 DEF ActualsSource, Finals

LEMMA WithTyped ==
  ASSUME NEW rs \in SUBSET Row, IsFiniteSet(rs), NEW ch
  PROVE  /\ With(rs, ch) \in SUBSET rs /\ IsFiniteSet(With(rs, ch))
         /\ Cardinality(With(rs, ch)) \in Nat
         /\ [r \in With(rs, ch) |-> PerChannel(r)[ch].spend] \in [With(rs, ch) -> Nat]
         /\ [r \in With(rs, ch) |-> PerChannel(r)[ch].reach] \in [With(rs, ch) -> Nat]
<1>1. With(rs, ch) \in SUBSET rs
  BY DEF With
<1>2. \A r \in With(rs, ch) : PerChannel(r)[ch].spend \in Nat /\ PerChannel(r)[ch].reach \in Nat
  BY FiguresTyped DEF With
<1> QED BY <1>1, <1>2, FS_Subset, FS_CardinalityType

\* What is blended lies between what it is blended from.
LEMMA RowBlended ==
  ASSUME NEW rs \in SUBSET Row, IsFiniteSet(rs), NEW ch, With(rs, ch) # {}
  PROVE  BlendedFrom(SumWeeklies(rs, ch), rs, ch)
<1> DEFINE with  == With(rs, ch)
           spend == [r \in with |-> PerChannel(r)[ch].spend]
           reach == [r \in with |-> PerChannel(r)[ch].reach]
           seen  == {PerChannel(r)[ch].reach : r \in with}
<1>1. /\ IsFiniteSet(with) /\ spend \in [with -> Nat] /\ reach \in [with -> Nat]
      /\ Cardinality(with) \in Nat
  BY WithTyped
<1>2. seen \in SUBSET Nat /\ seen # {} /\ \A r \in with : reach[r] \in seen
  BY <1>1
<1>3. \A n \in seen : \E r \in with : n = reach[r]
  OBVIOUS
<1>4. SumFunction(reach) \in Nat /\ \A n \in seen : n <= SumFunction(reach)
  <2> HIDE DEF seen, reach, with
  <2> QED BY <1>1, <1>3, SumType, SumAtLeast
<1>5. /\ Min(seen) \in Nat /\ Max(seen) \in Nat
      /\ \A r \in with : Min(seen) <= reach[r] /\ reach[r] <= Max(seen)
  <2> HIDE DEF seen, reach, with
  <2> QED BY <1>2, <1>4, LeastIsMin, GreatestIsMax
<1>6. SumFunction(reach) \in (Min(seen) * Cardinality(with))..(Max(seen) * Cardinality(with))
  <2> HIDE DEF seen, reach, with
  <2> QED BY <1>1, <1>5, SumWithin
<1>7. \A r \in with : spend[r] <= SumFunction(spend) /\ spend[r] \in Nat /\ SumFunction(spend) \in Nat
  <2> HIDE DEF spend, with
  <2> QED BY <1>1, SumType, SumAtLeast
<1>8. /\ SumWeeklies(rs, ch).reach.sum = SumFunction(reach)
      /\ SumWeeklies(rs, ch).reach.weeks = Cardinality(with)
      /\ SumWeeklies(rs, ch).spend = SumFunction(spend)
  BY DEF SumWeeklies, Weeks
<1>9. \A r \in with : SumWeeklies(rs, ch).spend >= PerChannel(r)[ch].spend
  BY <1>7, <1>8
<1> QED BY <1>6, <1>8, <1>9 DEF BlendedFrom

\* Added up by channels or by records, the total is that of all cells.
LEMMA TotalOfCells ==
  ASSUME NEW rs \in SUBSET Row, IsFiniteSet(rs)
  PROVE  SumFunction([ch \in Allocated |->
           SumFunction([r \in With(rs, ch) |-> PerChannel(r)[ch].spend])])
         = SumFunction([r \in rs |-> SpentOnPlan(r)])
<1> DEFINE Cells  == {c \in Allocated \X rs : c[1] \in Entered(c[2])}
           v      == [c \in Cells |-> PerChannel(c[2])[c[1]].spend]
           column == [c \in Cells |-> c[1]]
           line   == [c \in Cells |-> c[2]]
           Column(ch) == {c \in Cells : column[c] = ch}
           Line(r)    == {c \in Cells : line[c] = r}
<1>1. IsFiniteSet(Allocated)
  BY ReportsAssumption, FS_Subset
<1>2. IsFiniteSet(Cells)
  <2>1. Cells \in SUBSET (Allocated \X rs)
    OBVIOUS
  <2> HIDE DEF Cells
  <2> QED BY <2>1, <1>1, FS_Product, FS_Subset
<1>3. v \in [Cells -> Nat] /\ column \in [Cells -> Allocated] /\ line \in [Cells -> rs]
  BY FiguresTyped
<1>4. ASSUME NEW ch \in Allocated
      PROVE  SumFunction([r \in With(rs, ch) |-> PerChannel(r)[ch].spend])
               = SumFunction([c \in Column(ch) |-> v[c]])
  <2> DEFINE b == [r \in With(rs, ch) |-> <<ch, r>>]
             f == [c \in Column(ch) |-> v[c]]
  <2>1. b \in [With(rs, ch) -> Column(ch)]
    BY DEF With
  <2>2. (\A r, n \in With(rs, ch) : b[r] = b[n] => r = n)
          /\ \A c \in Column(ch) : \E r \in With(rs, ch) : b[r] = c
    BY DEF With
  <2>3. b \in Bijection(With(rs, ch), Column(ch))
    BY <2>1, <2>2, Fun_IsBij
  <2>4. IsFiniteSet(Column(ch))
    BY <1>2, Column(ch) \in SUBSET Cells, FS_Subset
  <2>5. f \in [Column(ch) -> Nat]
    BY <1>3
  <2>6. SumFunction([r \in With(rs, ch) |-> f[b[r]]]) = SumFunction(f)
    <3> HIDE DEF f, b, Column
    <3> QED BY <2>3, <2>4, <2>5, SumReindexed
  <2>7. [r \in With(rs, ch) |-> f[b[r]]] = [r \in With(rs, ch) |-> PerChannel(r)[ch].spend]
    BY <2>1
  <2> QED BY <2>6, <2>7
<1>5. ASSUME NEW r \in rs
      PROVE  SpentOnPlan(r) = SumFunction([c \in Line(r) |-> v[c]])
  <2> DEFINE chs == Entered(r) \cap Allocated
             b == [ch \in chs |-> <<ch, r>>]
             f == [c \in Line(r) |-> v[c]]
  <2>1. b \in [chs -> Line(r)]
    OBVIOUS
  <2>2. (\A ch, o \in chs : b[ch] = b[o] => ch = o) /\ \A c \in Line(r) : \E ch \in chs : b[ch] = c
    OBVIOUS
  <2>3. b \in Bijection(chs, Line(r))
    BY <2>1, <2>2, Fun_IsBij
  <2>4. IsFiniteSet(Line(r))
    BY <1>2, Line(r) \in SUBSET Cells, FS_Subset
  <2>5. f \in [Line(r) -> Nat]
    BY <1>3
  <2>6. SumFunction([ch \in chs |-> f[b[ch]]]) = SumFunction(f)
    <3> HIDE DEF f, b, Line, chs
    <3> QED BY <2>3, <2>4, <2>5, SumReindexed
  <2>7. [ch \in chs |-> f[b[ch]]] = [ch \in chs |-> PerChannel(r)[ch].spend]
    BY <2>1
  <2> QED BY <2>6, <2>7 DEF SpentOnPlan
<1>6. SumFunction([ch \in Allocated |-> SumFunction([c \in Column(ch) |-> v[c]])]) = SumFunction(v)
  <2> HIDE DEF Cells, v, column
  <2> QED BY <1>1, <1>2, <1>3, SumByParts
<1>7. SumFunction([r \in rs |-> SumFunction([c \in Line(r) |-> v[c]])]) = SumFunction(v)
  <2> HIDE DEF Cells, v, line
  <2> QED BY <1>2, <1>3, SumByParts
<1> HIDE DEF Cells, v, column, line, Column, Line
<1>8. [ch \in Allocated |-> SumFunction([r \in With(rs, ch) |-> PerChannel(r)[ch].spend])]
        = [ch \in Allocated |-> SumFunction([c \in Column(ch) |-> v[c]])]
  BY <1>4
<1>9. [r \in rs |-> SpentOnPlan(r)] = [r \in rs |-> SumFunction([c \in Line(r) |-> v[c]])]
  BY <1>5
<1> QED BY <1>6, <1>7, <1>8, <1>9

LEMMA SumOfNone == ASSUME NEW f \in [{} -> Nat] PROVE SumFunction(f) = 0
<1>1. Dots(f, {}) = {}
  BY DEF Dots
<1> QED BY <1>1, FS_EmptySet, SumIsDots

LEMMA ReportHolds == IInv => ReportOfLiveRecords
<1> SUFFICES ASSUME IInv, NEW p \in plans, rows \cap history = {}
             PROVE  LET final == {r \in Live(p) : r.slot = 0}
                        from  == IF final # {} THEN final ELSE Live(p)
                    IN  /\ (ActualsSource(p) = {}) = (Live(p) = {})
                        /\ \A ch \in Allocated : BlendedFrom(ReportRow(p, ch), from, ch)
                        /\ TotalSpend(p) = SumFunction([r \in from |-> SpentOnPlan(r)])
  BY DEF ReportOfLiveRecords
<1>1. PICK rs \in SUBSET Row : rs = ActualsSource(p) /\ IsFiniteSet(rs)
  BY SourceIsLive
<1>2. ASSUME NEW ch \in Allocated PROVE BlendedFrom(ReportRow(p, ch), rs, ch)
  <2>1. CASE With(rs, ch) = {}
    BY <2>1, <1>1 DEF ReportRow, BlendedFrom
  <2>2. CASE With(rs, ch) # {}
    <3>1. ReportRow(p, ch) = SumWeeklies(rs, ch)
      BY <2>2, <1>1 DEF ReportRow
    <3> QED BY <1>1, <2>2, <3>1, RowBlended
  <2> QED BY <2>1, <2>2
<1>3. ASSUME NEW ch \in Allocated
      PROVE  ReportRow(p, ch).spend = SumFunction([r \in With(rs, ch) |-> PerChannel(r)[ch].spend])
  <2>1. CASE With(rs, ch) = {}
    <3>1. SumFunction([r \in With(rs, ch) |-> PerChannel(r)[ch].spend]) = 0
      BY <2>1, SumOfNone
    <3> QED BY <2>1, <3>1, <1>1 DEF ReportRow, Nothing
  <2>2. CASE With(rs, ch) # {}
    BY <2>2, <1>1 DEF ReportRow, SumWeeklies
  <2> QED BY <2>1, <2>2
<1>4. TotalSpend(p) = SumFunction([r \in rs |-> SpentOnPlan(r)])
  <2>1. [ch \in Allocated |-> ReportRow(p, ch).spend]
          = [ch \in Allocated |-> SumFunction([r \in With(rs, ch) |-> PerChannel(r)[ch].spend])]
    BY <1>3
  <2> QED BY <1>1, <2>1, TotalOfCells DEF TotalSpend
<1> QED BY <1>1, <1>2, <1>4, SourceIsLive

(***************************************************************************)
(* Fractions and their rounding                                            *)
(***************************************************************************)

LEMMA ProductType == \A x, y \in Nat : x * y \in Nat
OBVIOUS

LEMMA ProductInt == \A x, y \in Int : x * y \in Int
OBVIOUS

LEMMA ProductGrows == ASSUME NEW x \in Int, NEW y \in Int, NEW k \in Nat, x <= y PROVE x * k <= y * k
<1>1. PICK d \in Nat : y = x + d
  BY y - x \in Nat
<1>2. (x + d) * k = x * k + d * k
  OBVIOUS
<1>3. x * k \in Int /\ d * k \in Nat
  BY ProductInt, ProductType
<1> QED BY <1>1, <1>2, <1>3

LEMMA ProductGrowsStrictly ==
  ASSUME NEW x \in Int, NEW y \in Int, NEW k \in Nat \ {0}, x < y PROVE x * k < y * k
<1>1. PICK d \in Nat : y = x + 1 + d
  BY y - x - 1 \in Nat
<1>2. (x + 1 + d) * k = x * k + k + d * k
  OBVIOUS
<1>3. x * k \in Int /\ d * k \in Nat
  BY ProductInt, ProductType
<1> QED BY <1>1, <1>2, <1>3

LEMMA Cancel == ASSUME NEW x \in Int, NEW y \in Int, NEW k \in Nat \ {0}, x * k <= y * k PROVE x <= y
<1> SUFFICES ASSUME y < x PROVE FALSE
  OBVIOUS
<1>1. y * k < x * k
  BY ProductGrowsStrictly
<1> QED BY <1>1, ProductInt

LEMMA Commutes == \A x, y \in Int : x * y = y * x
OBVIOUS

LEMMA Associates == \A x, y, z \in Int : (x * y) * z = x * (y * z) /\ (x * y) * z = (x * z) * y
OBVIOUS

\* The quotient and the remainder, and the three cases of ties to even
LEMMA RoundedParts ==
  ASSUME NEW p \in Int, NEW q \in Nat \ {0}
  PROVE  \E a \in Int, r \in Nat :
           /\ p = q * a + r /\ r < q
           /\ \/ Rounded(p, q) = a /\ (2 * r < q \/ (2 * r = q /\ a % 2 = 0))
              \/ Rounded(p, q) = a + 1 /\ (2 * r > q \/ (2 * r = q /\ a % 2 # 0))
<1>1. p \div q \in Int /\ p % q \in Nat /\ p % q < q /\ p = q * (p \div q) + (p % q)
  OBVIOUS
<1>2. PICK a \in Int, r \in Nat : a = p \div q /\ r = p % q
  BY <1>1
<1>3. Rounded(p, q) = IF 2 * r < q \/ (2 * r = q /\ a % 2 = 0) THEN a ELSE a + 1
  BY <1>2 DEF Rounded
<1> QED BY <1>1, <1>2, <1>3

LEMMA RoundedType == ASSUME NEW p \in Int, NEW q \in Nat \ {0} PROVE Rounded(p, q) \in Int
BY RoundedParts

\* Rounding moves a fraction by half at most.
LEMMA RoundedNear ==
  ASSUME NEW p \in Int, NEW q \in Nat \ {0}
  PROVE  /\ (2 * q) * Rounded(p, q) <= 2 * p + q
         /\ 2 * p <= (2 * q) * Rounded(p, q) + q
<1>1. PICK a \in Int, r \in Nat :
        /\ p = q * a + r /\ r < q
        /\ \/ Rounded(p, q) = a /\ (2 * r < q \/ (2 * r = q /\ a % 2 = 0))
           \/ Rounded(p, q) = a + 1 /\ (2 * r > q \/ (2 * r = q /\ a % 2 # 0))
  BY RoundedParts
<1>2. (2 * q) * a = 2 * (q * a) /\ (2 * q) * (a + 1) = 2 * (q * a) + 2 * q /\ q * a \in Int
  BY ProductInt
<1>3. CASE Rounded(p, q) = a /\ (2 * r < q \/ (2 * r = q /\ a % 2 = 0))
  <2>1. 2 * r <= q
    BY <1>3
  <2> QED BY <1>1, <1>2, <1>3, <2>1
<1>4. CASE Rounded(p, q) = a + 1 /\ (2 * r > q \/ (2 * r = q /\ a % 2 # 0))
  <2>1. 2 * r >= q
    BY <1>4
  <2> QED BY <1>1, <1>2, <1>4, <2>1
<1> QED BY <1>1, <1>3, <1>4

\* A larger fraction is never rounded to less.
LEMMA RoundedMonotone ==
  ASSUME NEW p \in Int, NEW q \in Nat \ {0}, NEW n \in Int, NEW m \in Nat \ {0}, p * m <= n * q
  PROVE  Rounded(p, q) <= Rounded(n, m)
<1>1. PICK a \in Int, r \in Nat :
        /\ p = q * a + r /\ r < q
        /\ \/ Rounded(p, q) = a /\ (2 * r < q \/ (2 * r = q /\ a % 2 = 0))
           \/ Rounded(p, q) = a + 1 /\ (2 * r > q \/ (2 * r = q /\ a % 2 # 0))
  BY RoundedParts
<1>2. PICK b \in Int, t \in Nat :
        /\ n = m * b + t /\ t < m
        /\ \/ Rounded(n, m) = b /\ (2 * t < m \/ (2 * t = m /\ b % 2 = 0))
           \/ Rounded(n, m) = b + 1 /\ (2 * t > m \/ (2 * t = m /\ b % 2 # 0))
  BY RoundedParts
<1>3. PICK k \in Nat \ {0} : k = q * m
  <2>1. q * m \in Nat /\ 0 * m < q * m
    BY ProductType, ProductGrowsStrictly
  <2> QED BY <2>1
<1>4. p * m = a * k + r * m
  BY <1>1, <1>3
<1>5. n * q = b * k + t * q
  BY <1>2, <1>3
<1>6. r * m < k /\ t * q < k /\ r * m \in Nat /\ t * q \in Nat
  BY <1>1, <1>2, <1>3, ProductGrowsStrictly, ProductType, Commutes
<1>7. a <= b
  <2> SUFFICES ASSUME b + 1 <= a PROVE FALSE
    OBVIOUS
  <2>1. (b + 1) * k <= a * k
    BY ProductGrows
  <2>2. (b + 1) * k = b * k + k /\ b * k \in Int /\ a * k \in Int
    BY ProductInt
  <2> QED BY <1>4, <1>5, <1>6, <2>1, <2>2
<1>8. CASE a < b
  BY <1>1, <1>2, <1>8
<1>9. CASE a = b
  <2>1. r * m <= t * q
    BY <1>4, <1>5, <1>6, <1>9, ProductType
  <2>2. CASE Rounded(p, q) = a
    BY <1>2, <1>9, <2>2
  <2>3. CASE Rounded(p, q) = a + 1 /\ 2 * r > q
    <3>1. q * m < (2 * r) * m
      BY <2>3, ProductGrowsStrictly
    <3>2. (2 * r) * m = 2 * (r * m) /\ (2 * t) * q = 2 * (t * q) /\ q * m = m * q
      OBVIOUS
    <3>3. m * q < (2 * t) * q
      BY <2>1, <3>1, <3>2, <1>6, ProductType
    <3>4. m < 2 * t
      <4> SUFFICES ASSUME 2 * t <= m PROVE FALSE
        OBVIOUS
      <4>1. (2 * t) * q <= m * q
        BY ProductGrows
      <4> QED BY <3>3, <4>1, ProductType
    <3> QED BY <1>2, <1>9, <2>3, <3>4
  <2>4. CASE Rounded(p, q) = a + 1 /\ 2 * r = q /\ a % 2 # 0
    <3>1. (2 * r) * m = 2 * (r * m) /\ (2 * t) * q = 2 * (t * q) /\ q * m = m * q
      OBVIOUS
    <3>2. m * q <= (2 * t) * q
      BY <2>1, <2>4, <3>1, <1>6, ProductType
    <3>3. m <= 2 * t
      BY <3>2, Cancel
    <3> QED BY <1>2, <1>9, <2>4, <3>3
  <2> QED BY <1>1, <2>2, <2>3, <2>4
<1> QED BY <1>7, <1>8, <1>9

LEMMA RoundedWhole == ASSUME NEW n \in Int, NEW q \in Nat \ {0} PROVE Rounded(n * q, q) = n
<1>1. PICK a \in Int, r \in Nat :
        /\ n * q = q * a + r /\ r < q
        /\ \/ Rounded(n * q, q) = a /\ (2 * r < q \/ (2 * r = q /\ a % 2 = 0))
           \/ Rounded(n * q, q) = a + 1 /\ (2 * r > q \/ (2 * r = q /\ a % 2 # 0))
  BY RoundedParts, ProductType
<1>2. a <= n
  <2>1. a * q <= n * q
    BY <1>1, ProductType
  <2> QED BY <2>1, Cancel
<1>3. n <= a
  <2> SUFFICES ASSUME a + 1 <= n PROVE FALSE
    OBVIOUS
  <2>1. (a + 1) * q <= n * q /\ (a + 1) * q = q * a + q
    BY ProductGrows
  <2> QED BY <1>1, <2>1, ProductType
<1>4. r = 0
  BY <1>1, <1>2, <1>3, ProductType
<1> QED BY <1>1, <1>2, <1>3, <1>4

LEMMA RoundedAtMost ==
  ASSUME NEW p \in Int, NEW q \in Nat \ {0}, NEW n \in Int, p <= n * q
  PROVE  Rounded(p, q) <= n
<1>1. n * q \in Int
  BY ProductInt
<1>2. p * q <= (n * q) * q
  BY <1>1, ProductGrows
<1> QED BY <1>1, <1>2, RoundedMonotone, RoundedWhole

LEMMA RoundedAtLeast ==
  ASSUME NEW p \in Int, NEW q \in Nat \ {0}, NEW n \in Int, n * q <= p
  PROVE  n <= Rounded(p, q)
<1>1. n * q \in Int
  BY ProductInt
<1>2. (n * q) * q <= p * q
  BY <1>1, ProductGrows
<1> QED BY <1>1, <1>2, RoundedMonotone, RoundedWhole

LEMMA RoundedNat == ASSUME NEW p \in Nat, NEW q \in Nat \ {0} PROVE Rounded(p, q) \in Nat
<1>1. 0 * q <= p
  OBVIOUS
<1>2. 0 <= Rounded(p, q)
  BY <1>1, RoundedAtLeast
<1> QED BY <1>2, RoundedType

(***************************************************************************)
(* The automatic plan                                                      *)
(***************************************************************************)

LEMMA InputTyped ==
  ASSUME NEW in \in AutomaticInput
  PROVE  /\ in.budget \in Nat \ {0} /\ in.weeks \in Nat \ {0}
         /\ in.weight \in [Pool -> Nat]
         /\ \A ch \in Pool :
              /\ in.weight[ch] \in Nat
              /\ in.minimum[ch] \in Int \cup {Unset} /\ in.maximum[ch] \in Int \cup {Unset}
              /\ in.override[ch] \in Int \cup {Unset}
              /\ in.learned[ch] \in Int \cup {Unset}
              /\ in.default[ch] \in Int
BY DEF AutomaticInput

LEMMA UnsetIsNone == Unset \notin Int /\ Unset \notin Plan /\ IsFiniteSet(Pool) /\ StepCount \in Nat \ {0}
BY OptimizerAssumption

LEMMA WeightPositive == ASSUME NEW in \in AutomaticInput PROVE TotalWeight(in) \in Nat \ {0}
<1>1. SumFunction(in.weight) \in Nat
  BY InputTyped, UnsetIsNone, SumType
<1> QED BY <1>1 DEF TotalWeight

LEMMA TimesType ==
  ASSUME NEW w \in Nat, NEW limit \in Int \cup {Unset}
  PROVE  /\ Times(limit, w) \in Int \cup {Unset}
         /\ Times(limit, w) = Unset <=> limit = Unset
         /\ limit # Unset => Times(limit, w) = limit * w
         /\ limit \in Nat => Times(limit, w) \in Nat
<1>1. CASE limit = Unset
  BY <1>1, UnsetIsNone DEF Times
<1>2. CASE limit # Unset
  <2>1. PICK l \in Int : l = limit
    BY <1>2
  <2>2. w * l \in Int /\ w * l = l * w /\ (l \in Nat => w * l \in Nat)
    BY ProductInt, ProductType, Commutes
  <2>3. Times(limit, w) = w * l
    BY <1>2, <2>1 DEF Times
  <2> QED BY <1>2, <2>1, <2>2, <2>3, UnsetIsNone
<1> QED BY <1>1, <1>2

\* What a limit does to a share: it keeps the order of two shares, and takes
\* nothing from the smaller one in proportion.
LEMMA LimitsKeepOrder ==
  ASSUME NEW low \in Int \cup {Unset}, NEW high \in Int \cup {Unset}, NEW x \in Int, NEW y \in Int,
         x <= y
  PROVE  AtMost(AtLeast(x, low), high) <= AtMost(AtLeast(y, low), high)
BY UnsetIsNone DEF AtMost, AtLeast

LEMMA LimitsType ==
  ASSUME NEW low \in Int \cup {Unset}, NEW high \in Int \cup {Unset}, NEW x \in Nat
  PROVE  /\ AtLeast(x, low) \in Nat /\ AtMost(AtLeast(x, low), high) \in Int
         /\ high \in Nat \cup {Unset} => AtMost(AtLeast(x, low), high) \in Nat
BY UnsetIsNone DEF AtMost, AtLeast

LEMMA MinimumDilutes ==
  ASSUME NEW low \in Int \cup {Unset}, NEW x \in Nat, NEW y \in Nat, x <= y,
         NEW b \in Nat, NEW d \in Nat, b <= d, y * b <= x * d
  PROVE  AtLeast(y, low) * b <= AtLeast(x, low) * d
<1>1. CASE low = Unset
  BY <1>1 DEF AtLeast
<1>2. CASE low # Unset
  <2>1. low \in Int
    BY <1>2
  <2>2. CASE low <= x
    BY <1>2, <2>1, <2>2 DEF AtLeast
  <2>3. CASE x < low
    <3>1. AtLeast(x, low) = low /\ low \in Nat
      BY <1>2, <2>1, <2>3 DEF AtLeast
    <3>2. CASE y < low
      <4>1. AtLeast(y, low) = low
        BY <1>2, <3>2 DEF AtLeast
      <4>2. low * b <= low * d
        BY <3>1, ProductGrows, Commutes
      <4> QED BY <3>1, <4>1, <4>2
    <3>3. CASE low <= y
      <4>1. AtLeast(y, low) = y
        BY <1>2, <2>1, <3>3 DEF AtLeast
      <4>2. x * d <= low * d
        BY <2>1, <2>3, ProductGrows
      <4> QED BY <3>1, <4>1, <4>2, ProductType
    <3> QED BY <2>1, <3>2, <3>3
  <2> QED BY <2>1, <2>2, <2>3
<1> QED BY <1>1, <1>2

LEMMA MaximumDilutes ==
  ASSUME NEW high \in Nat \cup {Unset}, NEW x \in Nat, NEW y \in Nat,
         NEW b \in Nat, NEW d \in Nat, b <= d, y * b <= x * d
  PROVE  AtMost(y, high) * b <= AtMost(x, high) * d
<1>1. AtMost(y, high) \in Nat /\ AtMost(y, high) <= y
  BY UnsetIsNone DEF AtMost
<1>2. CASE AtMost(x, high) = x
  <2>1. AtMost(y, high) * b <= y * b
    BY <1>1, ProductGrows
  <2> QED BY <1>1, <1>2, <2>1, ProductType
<1>3. CASE AtMost(x, high) # x
  <2>1. high \in Nat /\ AtMost(x, high) = high /\ AtMost(y, high) <= high
    BY <1>3 DEF AtMost
  <2>2. AtMost(y, high) * b <= high * b /\ high * b <= high * d
    BY <1>1, <2>1, ProductGrows, Commutes
  <2> QED BY <1>1, <2>1, <2>2, ProductType
<1> QED BY <1>2, <1>3

LEMMA ClampedType ==
  ASSUME NEW in \in AutomaticInput, NEW b \in Nat
  PROVE  /\ Clamped(in, b) \in [Pool -> Int]
         /\ ClampedTotal(in, b) \in Int
<1>1. ASSUME NEW ch \in Pool PROVE Clamped(in, b)[ch] \in Int
  <2>1. PICK w \in Nat : w = TotalWeight(in)
    BY WeightPositive
  <2>2. b * in.weight[ch] \in Nat
    BY InputTyped, ProductType
  <2>3. Times(in.minimum[ch], w) \in Int \cup {Unset} /\ Times(in.maximum[ch], w) \in Int \cup {Unset}
    BY InputTyped, TimesType
  <2>4. AtMost(AtLeast(b * in.weight[ch], Times(in.minimum[ch], w)), Times(in.maximum[ch], w)) \in Int
    BY <2>2, <2>3, LimitsType
  <2> QED BY <2>1, <2>4 DEF Clamped
<1>2. Clamped(in, b) \in [Pool -> Int]
  BY <1>1 DEF Clamped
<1> QED BY <1>2, UnsetIsNone, SumIsBalance DEF ClampedTotal

LEMMA MaximumTimes ==
  ASSUME NEW in \in AutomaticInput, NoMaximumBelowZero(in), NEW ch \in Pool, NEW w \in Nat
  PROVE  Times(in.maximum[ch], w) \in Nat \cup {Unset}
<1>1. in.maximum[ch] \in Nat \cup {Unset}
  BY InputTyped DEF NoMaximumBelowZero
<1>2. CASE in.maximum[ch] = Unset
  BY <1>2, TimesType
<1>3. CASE in.maximum[ch] \in Nat
  <2>1. PICK high \in Int \cup {Unset} : high = in.maximum[ch]
    BY <1>3
  <2>2. Times(high, w) \in Nat
    BY <1>3, <2>1, TimesType
  <2> QED BY <2>1, <2>2
<1> QED BY <1>1, <1>2, <1>3

\* Only a maximum below zero makes a share negative.
LEMMA ClampedNat ==
  ASSUME NEW in \in AutomaticInput, NoMaximumBelowZero(in), NEW b \in Nat
  PROVE  /\ Clamped(in, b) \in [Pool -> Nat]
         /\ ClampedTotal(in, b) \in Nat
         /\ \A ch \in Pool : Clamped(in, b)[ch] <= ClampedTotal(in, b)
<1>1. ASSUME NEW ch \in Pool PROVE Clamped(in, b)[ch] \in Nat
  <2>1. PICK w \in Nat : w = TotalWeight(in)
    BY WeightPositive
  <2>2. b * in.weight[ch] \in Nat
    BY InputTyped, ProductType
  <2>3. Times(in.minimum[ch], w) \in Int \cup {Unset} /\ Times(in.maximum[ch], w) \in Nat \cup {Unset}
    BY InputTyped, TimesType, MaximumTimes
  <2>4. PICK low \in Int \cup {Unset}, high \in Nat \cup {Unset} :
          low = Times(in.minimum[ch], w) /\ high = Times(in.maximum[ch], w)
    BY <2>3
  <2>5. high \in Int \cup {Unset}
    OBVIOUS
  <2>6. AtMost(AtLeast(b * in.weight[ch], low), high) \in Nat
    BY <2>2, <2>5, LimitsType
  <2> QED BY <2>1, <2>4, <2>6 DEF Clamped
<1>2. Clamped(in, b) \in [Pool -> Nat]
  BY <1>1 DEF Clamped
<1> QED BY <1>2, UnsetIsNone, SumType, SumAtLeast DEF ClampedTotal

\* More budget gives no channel a smaller share, and none a larger part.
LEMMA ClampedGrows ==
  ASSUME NEW in \in AutomaticInput, NoMaximumBelowZero(in), NEW b \in Nat, NEW d \in Nat, b <= d, NEW ch \in Pool
  PROVE  /\ Clamped(in, b)[ch] <= Clamped(in, d)[ch]
         /\ Clamped(in, d)[ch] * b <= Clamped(in, b)[ch] * d
<1>1. PICK w \in Nat : w = TotalWeight(in)
  BY WeightPositive
<1>2. PICK v \in Nat : v = in.weight[ch]
  BY InputTyped
<1>3. PICK low \in Int \cup {Unset}, high \in Nat \cup {Unset} :
        low = Times(in.minimum[ch], w) /\ high = Times(in.maximum[ch], w)
  BY InputTyped, TimesType, MaximumTimes
<1>4. /\ Clamped(in, b)[ch] = AtMost(AtLeast(b * v, low), high)
      /\ Clamped(in, d)[ch] = AtMost(AtLeast(d * v, low), high)
  BY <1>1, <1>2, <1>3 DEF Clamped
<1>5. b * v \in Nat /\ d * v \in Nat /\ b * v <= d * v /\ (d * v) * b <= (b * v) * d
  <2>1. (d * v) * b = (b * v) * d
    BY Commutes, Associates
  <2> QED BY <2>1, ProductType, ProductGrows
<1>6. AtLeast(b * v, low) \in Nat /\ AtLeast(d * v, low) \in Nat
  BY <1>5, LimitsType
<1>7. AtLeast(d * v, low) * b <= AtLeast(b * v, low) * d
  BY <1>5, MinimumDilutes
<1>8. AtMost(AtLeast(d * v, low), high) * b <= AtMost(AtLeast(b * v, low), high) * d
  BY <1>6, <1>7, MaximumDilutes
<1>9. AtMost(AtLeast(b * v, low), high) <= AtMost(AtLeast(d * v, low), high)
  BY <1>5, LimitsKeepOrder
<1> QED BY <1>4, <1>8, <1>9

LEMMA TotalGrows ==
  ASSUME NEW in \in AutomaticInput, NoMaximumBelowZero(in), NEW b \in Nat, NEW d \in Nat, b <= d
  PROVE  /\ ClampedTotal(in, b) <= ClampedTotal(in, d)
         /\ ClampedTotal(in, d) * b <= ClampedTotal(in, b) * d
<1>1. PICK c \in [Pool -> Nat], e \in [Pool -> Nat] : c = Clamped(in, b) /\ e = Clamped(in, d)
  BY ClampedNat
<1>2. \A ch \in Pool : c[ch] <= e[ch] /\ e[ch] * b <= c[ch] * d
  BY <1>1, ClampedGrows
<1>3. SumFunction(c) <= SumFunction(e)
  BY <1>2, UnsetIsNone, SumMonotone
<1>4. SumFunction([ch \in Pool |-> b * e[ch] + 0]) <= SumFunction([ch \in Pool |-> d * c[ch] + 0])
  <2> DEFINE f == [ch \in Pool |-> b * e[ch] + 0]
             g == [ch \in Pool |-> d * c[ch] + 0]
  <2>1. ASSUME NEW ch \in Pool PROVE b * e[ch] + 0 \in Nat /\ d * c[ch] + 0 \in Nat
                                     /\ b * e[ch] + 0 <= d * c[ch] + 0
    <3>1. e[ch] \in Nat /\ c[ch] \in Nat
      OBVIOUS
    <3> QED BY <3>1, <1>2, ProductType, Commutes
  <2>2. f \in [Pool -> Nat] /\ g \in [Pool -> Nat] /\ \A ch \in Pool : f[ch] <= g[ch]
    BY <2>1
  <2>3. SumFunction(f) <= SumFunction(g)
    <3> HIDE DEF f, g
    <3> QED BY <2>2, UnsetIsNone, SumMonotone
  <2> QED BY <2>3
<1>5. /\ SumFunction([ch \in Pool |-> b * e[ch] + 0]) = b * SumFunction(e) + 0 * Cardinality(Pool)
      /\ SumFunction([ch \in Pool |-> d * c[ch] + 0]) = d * SumFunction(c) + 0 * Cardinality(Pool)
  BY UnsetIsNone, SumLinear
<1>6. Cardinality(Pool) \in Nat /\ SumFunction(e) \in Nat /\ SumFunction(c) \in Nat
  BY UnsetIsNone, FS_CardinalityType, SumType
<1>7. b * SumFunction(e) <= d * SumFunction(c)
  <2>1. PICK n \in Nat : n = Cardinality(Pool)
    BY <1>6
  <2>2. 0 * n = 0
    OBVIOUS
  <2>3. b * SumFunction(e) \in Nat /\ d * SumFunction(c) \in Nat
    BY <1>6, ProductType
  <2> QED BY <1>4, <1>5, <2>1, <2>2, <2>3
<1> QED BY <1>1, <1>3, <1>6, <1>7, Commutes DEF ClampedTotal

\* A channel's money is a share over a whole, rounded; with or without scaling.
LEMMA AllocationFraction ==
  ASSUME NEW in \in AutomaticInput, NEW b \in Nat, NEW ch \in Pool
  PROVE  /\ b = 0 => Allocation(in, b)[ch] = 0
         /\ b # 0 /\ Off(in, b) => /\ ClampedTotal(in, b) \in Nat \ {0}
                                   /\ Clamped(in, b)[ch] * b \in Int
                                   /\ Allocation(in, b)[ch]
                                        = Rounded(Clamped(in, b)[ch] * b, ClampedTotal(in, b))
         /\ b # 0 /\ ~Off(in, b) =>
              Allocation(in, b)[ch] = Rounded(Clamped(in, b)[ch], TotalWeight(in))
         /\ Allocation(in, b)[ch] \in Int
<1>1. Clamped(in, b)[ch] \in Int /\ ClampedTotal(in, b) \in Int
  BY ClampedType
<1>2. Off(in, b) => ClampedTotal(in, b) > 0
  BY DEF Off
<1>3. /\ b = 0 => Allocation(in, b)[ch] = 0
      /\ b # 0 /\ Off(in, b) => Allocation(in, b)[ch]
                                  = Rounded(Clamped(in, b)[ch] * b, ClampedTotal(in, b))
      /\ b # 0 /\ ~Off(in, b) => Allocation(in, b)[ch] = Rounded(Clamped(in, b)[ch], TotalWeight(in))
  BY DEF Allocation, Scaled
<1>4. Clamped(in, b)[ch] * b \in Int
  BY <1>1, ProductInt
<1> QED BY <1>1, <1>2, <1>3, <1>4, WeightPositive, RoundedType

LEMMA AllocationNat ==
  ASSUME NEW in \in AutomaticInput, NoMaximumBelowZero(in), NEW b \in Nat, NEW ch \in Pool
  PROVE  Allocation(in, b)[ch] \in Nat
<1>1. Clamped(in, b)[ch] \in Nat
  BY ClampedNat
<1>2. Clamped(in, b)[ch] * b \in Nat
  BY <1>1, ProductType
<1> QED BY <1>1, <1>2, AllocationFraction, WeightPositive, RoundedNat

\* The four ways two budgets can be off or not, in terms of whole numbers: c and
\* e are a channel's shares, t and u the totals, w the whole weight.
LEMMA OffKeepsOrder ==
  ASSUME NEW b \in Nat, NEW d \in Nat, b <= d, NEW c \in Nat, NEW e \in Nat, c <= e,
         NEW t \in Nat, NEW u \in Nat, t <= u, c <= t, u * b <= t * d, NEW w \in Nat \ {0},
         NEW offB \in BOOLEAN, NEW offD \in BOOLEAN,
         offB <=> t > 0 /\ (100 * (t - b * w) > b * w \/ 100 * (b * w - t) > b * w),
         offD <=> u > 0 /\ (100 * (u - d * w) > d * w \/ 100 * (d * w - u) > d * w)
  PROVE  /\ offB /\ offD => (c * b) * u <= (e * d) * t
         /\ offB /\ ~offD => (c * b) * w <= e * t
         /\ ~offB /\ offD => c * u <= (e * d) * w
<1>1. PICK x \in Nat, y \in Nat : x = b * w /\ y = d * w
  BY ProductType
<1>2. x <= y
  BY <1>1, ProductGrows
<1>3. u * x <= t * y /\ u * x \in Nat /\ t * y \in Nat
  <2>1. u * x = (u * b) * w /\ t * y = (t * d) * w
    BY <1>1, Associates
  <2>2. (u * b) * w <= (t * d) * w
    BY ProductType, ProductGrows
  <2> QED BY <2>1, <2>2, ProductType
<1>4. ASSUME offB, offD PROVE (c * b) * u <= (e * d) * t
  <2>1. (c * b) * u = c * (u * b) /\ c * (t * d) = (c * d) * t
    BY Associates, Commutes
  <2>2. c * (u * b) <= c * (t * d)
    BY ProductType, ProductGrows, Commutes
  <2>3. c * d <= e * d
    BY ProductGrows
  <2>4. (c * d) * t <= (e * d) * t
    BY <2>3, ProductType, ProductGrows
  <2>5. c * (u * b) \in Nat /\ c * (t * d) \in Nat /\ (c * d) * t \in Nat /\ (e * d) * t \in Nat
    BY ProductType
  <2> QED BY <2>1, <2>2, <2>4, <2>5
<1>5. ASSUME offB, ~offD PROVE (c * b) * w <= e * t
  <2>1. u > 0 /\ 100 * u <= 101 * y /\ 99 * y <= 100 * u
    BY <1>1, <1>5
  <2>2. x <= t
    <3> SUFFICES ASSUME t < x PROVE FALSE
      OBVIOUS
    <3>1. 100 * t < 99 * x
      BY <1>1, <1>5
    <3>2. x \in Nat \ {0}
      BY <3>1
    <3>3. y \in Nat \ {0}
      BY <1>2, <3>2
    <3>4. (100 * t) * y < (99 * x) * y
      BY <3>1, <3>3, ProductGrowsStrictly
    <3>5. (99 * y) * x <= (100 * u) * x
      BY <2>1, ProductGrows
    <3>6. PICK k \in Nat, l \in Nat, n \in Nat : k = t * y /\ l = x * y /\ n = u * x
      BY ProductType
    <3>7. (100 * t) * y = 100 * k /\ (99 * x) * y = 99 * l /\ (99 * y) * x = 99 * l
          /\ (100 * u) * x = 100 * n /\ n <= k
      BY <3>6, <1>3
    <3> QED BY <3>4, <3>5, <3>7
  <2>3. (c * b) * w = c * x
    BY <1>1, Associates
  <2>4. c * x <= c * t /\ c * t <= e * t
    BY <2>2, ProductGrows, Commutes
  <2>5. c * x \in Nat /\ c * t \in Nat /\ e * t \in Nat
    BY ProductType
  <2> QED BY <2>3, <2>4, <2>5
<1>6. ASSUME ~offB, offD PROVE c * u <= (e * d) * w
  <2>1. CASE t = 0
    <3>1. c = 0
      BY <2>1
    <3>2. c * u = 0 /\ (e * d) * w \in Nat
      BY <3>1, ProductType
    <3> QED BY <3>2
  <2>2. CASE t # 0
    <3>1. 100 * t <= 101 * x /\ x \in Nat \ {0}
      BY <1>1, <1>6, <2>2
    <3>2. u <= y
      <4> SUFFICES ASSUME y < u PROVE FALSE
        OBVIOUS
      <4>1. 101 * y < 100 * u
        BY <1>1, <1>6
      <4>2. (101 * y) * x < (100 * u) * x
        BY <3>1, <4>1, ProductGrowsStrictly
      <4>3. (100 * t) * y <= (101 * x) * y
        BY <3>1, ProductGrows
      <4>4. PICK k \in Nat, l \in Nat, n \in Nat : k = t * y /\ l = x * y /\ n = u * x
        BY ProductType
      <4>5. (100 * t) * y = 100 * k /\ (101 * x) * y = 101 * l /\ (101 * y) * x = 101 * l
            /\ (100 * u) * x = 100 * n /\ n <= k
        BY <4>4, <1>3
      <4> QED BY <4>2, <4>3, <4>5
    <3>3. c * u <= c * y /\ c * y <= e * y
      BY <3>2, ProductGrows, Commutes
    <3>4. (e * d) * w = e * y
      BY <1>1, Associates
    <3>5. c * u \in Nat /\ c * y \in Nat /\ e * y \in Nat
      BY ProductType
    <3> QED BY <3>3, <3>4, <3>5
  <2> QED BY <2>1, <2>2
<1> QED BY <1>4, <1>5, <1>6

LEMMA AllocationGrows ==
  ASSUME NEW in \in AutomaticInput, NoMaximumBelowZero(in), NEW b \in Nat, NEW d \in Nat, b <= d,
         NEW ch \in Pool
  PROVE  Allocation(in, b)[ch] <= Allocation(in, d)[ch]
<1>1. PICK c \in Nat, e \in Nat, t \in Nat, u \in Nat, w \in Nat \ {0},
           offB \in BOOLEAN, offD \in BOOLEAN :
        /\ c = Clamped(in, b)[ch] /\ e = Clamped(in, d)[ch]
        /\ t = ClampedTotal(in, b) /\ u = ClampedTotal(in, d) /\ w = TotalWeight(in)
        /\ offB = Off(in, b) /\ offD = Off(in, d)
  <2>1. Off(in, b) \in BOOLEAN /\ Off(in, d) \in BOOLEAN
    BY DEF Off
  <2> QED BY <2>1, ClampedNat, WeightPositive
<1>2. c <= e /\ c <= t /\ e <= u /\ t <= u /\ u * b <= t * d
  BY <1>1, ClampedNat, ClampedGrows, TotalGrows
<1>3. /\ offB <=> t > 0 /\ (100 * (t - b * w) > b * w \/ 100 * (b * w - t) > b * w)
      /\ offD <=> u > 0 /\ (100 * (u - d * w) > d * w \/ 100 * (d * w - u) > d * w)
  BY <1>1 DEF Off
<1>4. /\ offB /\ offD => (c * b) * u <= (e * d) * t
      /\ offB /\ ~offD => (c * b) * w <= e * t
      /\ ~offB /\ offD => c * u <= (e * d) * w
  BY <1>2, <1>3, OffKeepsOrder
<1>5. CASE b = 0
  <2>1. Allocation(in, b)[ch] = 0 /\ Allocation(in, d)[ch] \in Nat
    BY <1>5, AllocationFraction, AllocationNat
  <2> QED BY <2>1
<1>6. CASE b # 0
  <2>1. d # 0
    BY <1>6
  <2>2. /\ offB => t # 0 /\ Allocation(in, b)[ch] = Rounded(c * b, t)
        /\ ~offB => Allocation(in, b)[ch] = Rounded(c, w)
    BY <1>1, <1>6, AllocationFraction
  <2>3. /\ offD => u # 0 /\ Allocation(in, d)[ch] = Rounded(e * d, u)
        /\ ~offD => Allocation(in, d)[ch] = Rounded(e, w)
    BY <1>1, <2>1, AllocationFraction
  <2>4. c * b \in Nat /\ e * d \in Nat
    BY ProductType
  <2>5. CASE offB /\ offD
    BY <1>4, <2>2, <2>3, <2>4, <2>5, RoundedMonotone
  <2>6. CASE offB /\ ~offD
    BY <1>4, <2>2, <2>3, <2>4, <2>6, RoundedMonotone
  <2>7. CASE ~offB /\ offD
    BY <1>4, <2>2, <2>3, <2>4, <2>7, RoundedMonotone
  <2>8. CASE ~offB /\ ~offD
    <3>1. c * w <= e * w
      BY <1>2, ProductGrows
    <3> QED BY <2>2, <2>3, <2>8, <3>1, RoundedMonotone
  <2> QED BY <2>5, <2>6, <2>7, <2>8
<1> QED BY <1>5, <1>6

LEMMA CpmType ==
  ASSUME NEW in \in AutomaticInput, NEW ch \in Pool, NEW learned \in BOOLEAN
  PROVE  Cpm(in, ch, learned) \in Int
BY InputTyped DEF Cpm

LEMMA ImpressionsGrow ==
  ASSUME NEW in \in AutomaticInput, NEW ch \in Pool, NEW learned \in BOOLEAN,
         NEW b \in Int, NEW d \in Int, b <= d
  PROVE  /\ Impressions(in, ch, b, learned) \in Nat
         /\ Impressions(in, ch, b, learned) <= Impressions(in, ch, d, learned)
<1>1. PICK n \in Nat \ {0}, m \in Int : n = in.weeks /\ m = Cpm(in, ch, learned)
  BY InputTyped, CpmType
<1> DEFINE Bought(cents) == IF m <= 0 \/ cents <= 0 THEN 0 ELSE n * Rounded(cents * 10, n * m)
<1>2. Impressions(in, ch, b, learned) = Bought(b) /\ Impressions(in, ch, d, learned) = Bought(d)
  BY <1>1 DEF Impressions
<1>3. ASSUME NEW c \in Int PROVE Bought(c) \in Nat
  <2>1. CASE m <= 0 \/ c <= 0
    BY <2>1
  <2>2. CASE m > 0 /\ c > 0
    <3>1. PICK q \in Nat \ {0}, k \in Nat : q = n * m /\ k = c * 10
      <4>1. 0 * m < n * m /\ n * m \in Nat /\ c * 10 \in Nat
        BY <2>2, ProductGrowsStrictly, ProductType
      <4> QED BY <2>2, <4>1
    <3>2. Rounded(k, q) \in Nat
      BY RoundedNat
    <3>3. n * Rounded(k, q) \in Nat
      BY <3>2, ProductType
    <3> QED BY <2>2, <3>1, <3>3
  <2> QED BY <2>1, <2>2
<1>4. CASE m <= 0 \/ b <= 0
  <2>1. Bought(b) = 0
    BY <1>4
  <2> HIDE DEF Bought
  <2> QED BY <1>2, <1>3, <2>1
<1>5. CASE m > 0 /\ b > 0
  <2>1. PICK q \in Nat \ {0}, k \in Nat, l \in Nat : q = n * m /\ k = b * 10 /\ l = d * 10
    <3>1. 0 * m < n * m /\ n * m \in Nat /\ b * 10 \in Nat /\ d * 10 \in Nat
      BY <1>5, ProductGrowsStrictly, ProductType
    <3> QED BY <1>5, <3>1
  <2>2. k <= l
    BY <2>1
  <2>3. k * q <= l * q
    BY <2>2, ProductGrows
  <2>4. Rounded(k, q) \in Nat /\ Rounded(l, q) \in Nat
    BY RoundedNat
  <2>5. Rounded(k, q) <= Rounded(l, q)
    BY <2>3, RoundedMonotone
  <2>6. n * Rounded(k, q) <= n * Rounded(l, q) /\ n * Rounded(k, q) \in Nat
    BY <2>4, <2>5, ProductGrows, ProductType, Commutes
  <2>7. Bought(b) = n * Rounded(k, q) /\ Bought(d) = n * Rounded(l, q)
    BY <1>5, <2>1
  <2> QED BY <1>2, <2>6, <2>7
<1> QED BY <1>4, <1>5

LEMMA PlanTyped ==
  ASSUME NEW in \in AutomaticInput, NEW b \in Nat, NEW learned \in BOOLEAN
  PROVE  PlanFor(in, b, learned) \in Plan
<1>1. Allocation(in, b) = [ch \in Pool |-> Allocation(in, b)[ch]]
  BY DEF Allocation
<1>2. \A ch \in Pool : Allocation(in, b)[ch] \in Int
  BY AllocationFraction
<1>3. Allocation(in, b) \in [Pool -> Int]
  BY <1>1, <1>2
<1>4. \A ch \in Pool : Impressions(in, ch, Allocation(in, b)[ch], learned) \in Nat
  BY <1>2, ImpressionsGrow
<1> QED BY <1>3, <1>4 DEF PlanFor, Plan

\* The fractions of all channels add up to the budget (if off) or to the total;
\* each is rounded by half a cent at most.
LEMMA RoundedTogether ==
  ASSUME NEW f \in [Pool -> Int], NEW q \in Nat \ {0}, NEW g \in [Pool -> Int],
         \A ch \in Pool : g[ch] = Rounded(f[ch], q)
  PROVE  /\ (2 * q) * SumFunction(g) <= 2 * SumFunction(f) + q * Cardinality(Pool)
         /\ 2 * SumFunction(f) <= (2 * q) * SumFunction(g) + q * Cardinality(Pool)
<1>1. Cardinality(Pool) \in Nat /\ SumFunction(f) \in Int /\ SumFunction(g) \in Int
  BY UnsetIsNone, FS_CardinalityType, SumIsBalance
<1> DEFINE money  == [ch \in Pool |-> (2 * q) * g[ch] + 0]
           moneyUp == [ch \in Pool |-> (2 * q) * g[ch] + q]
           share  == [ch \in Pool |-> 2 * f[ch] + 0]
           shareUp == [ch \in Pool |-> 2 * f[ch] + q]
<1>2. ASSUME NEW ch \in Pool
      PROVE  /\ (2 * q) * g[ch] + 0 <= 2 * f[ch] + q /\ 2 * f[ch] + 0 <= (2 * q) * g[ch] + q
             /\ (2 * q) * g[ch] \in Int /\ 2 * f[ch] \in Int
  <2>1. PICK n \in Int, m \in Int : n = f[ch] /\ m = g[ch]
    OBVIOUS
  <2>2. (2 * q) * m <= 2 * n + q /\ 2 * n <= (2 * q) * m + q
    BY <2>1, RoundedNear
  <2>3. (2 * q) * m \in Int /\ 2 * n \in Int
    BY ProductInt
  <2> QED BY <2>1, <2>2, <2>3
<1>3. /\ money \in [Pool -> Int] /\ moneyUp \in [Pool -> Int]
      /\ share \in [Pool -> Int] /\ shareUp \in [Pool -> Int]
      /\ \A ch \in Pool : money[ch] <= shareUp[ch] /\ share[ch] <= moneyUp[ch]
  BY <1>2
<1>4. SumFunction(money) <= SumFunction(shareUp) /\ SumFunction(share) <= SumFunction(moneyUp)
  <2> HIDE DEF money, moneyUp, share, shareUp
  <2> QED BY <1>3, UnsetIsNone, SumMonotone
<1>5. 2 * q \in Int
  OBVIOUS
<1>6. /\ SumFunction(money) = (2 * q) * SumFunction(g) + 0 * Cardinality(Pool)
      /\ SumFunction(moneyUp) = (2 * q) * SumFunction(g) + q * Cardinality(Pool)
      /\ SumFunction(share) = 2 * SumFunction(f) + 0 * Cardinality(Pool)
      /\ SumFunction(shareUp) = 2 * SumFunction(f) + q * Cardinality(Pool)
  BY <1>5, UnsetIsNone, SumLinear
<1> HIDE DEF money, moneyUp, share, shareUp
<1>7. PICK n \in Nat, s \in Int, t \in Int :
        n = Cardinality(Pool) /\ s = SumFunction(g) /\ t = SumFunction(f)
  BY <1>1
<1>8. 0 * n = 0 /\ (2 * q) * s \in Int /\ 2 * t \in Int /\ q * n \in Int
  BY <1>5, ProductInt
<1> QED BY <1>4, <1>6, <1>7, <1>8

Spends(in, b) ==
  LET spent == SumFunction(Allocation(in, b))
      slack == b + 50 * Cardinality(Pool)
  IN  ClampedTotal(in, b) > 0 => 100 * (spent - b) <= slack /\ 100 * (b - spent) <= slack

LEMMA PlanSpends == ASSUME NEW in \in AutomaticInput, NEW b \in Nat PROVE Spends(in, b)
<1>1. PICK f \in [Pool -> Int], g \in [Pool -> Int] :
        f = Clamped(in, b) /\ g = Allocation(in, b)
  <2>1. Allocation(in, b) = [ch \in Pool |-> Allocation(in, b)[ch]]
    BY DEF Allocation
  <2> QED BY <2>1, ClampedType, AllocationFraction
<1>2. PICK t \in Int, w \in Nat \ {0}, n \in Nat, s \in Int :
        /\ t = ClampedTotal(in, b) /\ w = TotalWeight(in)
        /\ n = Cardinality(Pool) /\ s = SumFunction(g)
  BY ClampedType, WeightPositive, UnsetIsNone, FS_CardinalityType, SumIsBalance
<1>3. t = SumFunction(f)
  BY <1>1, <1>2 DEF ClampedTotal
<1>4. SUFFICES ASSUME t > 0
               PROVE  100 * (s - b) <= b + 50 * n /\ 100 * (b - s) <= b + 50 * n
  BY <1>1, <1>2 DEF Spends
<1>5. CASE b = 0
  <2>1. \A ch \in Pool : g[ch] = 0
    BY <1>1, <1>5, AllocationFraction
  <2>2. g \in [Pool -> Nat] /\ \A ch \in Pool : 0 <= g[ch] /\ g[ch] <= 0
    BY <2>1
  <2>3. SumFunction(g) \in (0 * Cardinality(Pool))..(0 * Cardinality(Pool))
    BY <2>2, UnsetIsNone, SumWithin
  <2>4. 0 * n = 0
    OBVIOUS
  <2>5. s = 0
    BY <1>2, <2>3, <2>4
  <2> QED BY <1>5, <2>5
<1>6. CASE b # 0 /\ Off(in, b)
  <2> DEFINE h == [ch \in Pool |-> b * f[ch] + 0]
  <2>1. h \in [Pool -> Int] /\ \A ch \in Pool : h[ch] = f[ch] * b
    <3>1. \A ch \in Pool : f[ch] \in Int
      OBVIOUS
    <3>2. \A ch \in Pool : b * f[ch] + 0 \in Int /\ b * f[ch] + 0 = f[ch] * b
      BY <3>1, ProductInt, Commutes
    <3> QED BY <3>2
  <2>2. SumFunction(h) = b * t
    <3>1. SumFunction(h) = b * SumFunction(f) + 0 * Cardinality(Pool)
      BY UnsetIsNone, SumLinear
    <3>2. b * t + 0 * n = b * t
      BY ProductInt
    <3> HIDE DEF h
    <3> QED BY <3>1, <3>2, <1>2, <1>3
  <2>3. t \in Nat \ {0} /\ \A ch \in Pool : g[ch] = Rounded(h[ch], t)
    <3>1. ASSUME NEW ch \in Pool PROVE g[ch] = Rounded(f[ch] * b, t)
      BY <1>1, <1>2, <1>6, AllocationFraction
    <3> QED BY <1>4, <2>1, <3>1
  <2>4. (2 * t) * s <= 2 * (b * t) + t * n /\ 2 * (b * t) <= (2 * t) * s + t * n
    <3> HIDE DEF h
    <3> QED BY <2>1, <2>2, <2>3, <1>2, RoundedTogether
  <2>5. (2 * s) * t <= (2 * b + n) * t /\ (2 * b) * t <= (2 * s + n) * t
    <3>1. /\ (2 * t) * s = (2 * s) * t /\ 2 * (b * t) + t * n = (2 * b + n) * t
          /\ 2 * (b * t) = (2 * b) * t /\ (2 * t) * s + t * n = (2 * s + n) * t
      OBVIOUS
    <3> QED BY <2>4, <3>1
  <2>6. 2 * s <= 2 * b + n /\ 2 * b <= 2 * s + n
    BY <1>4, <2>5, Cancel
  <2> QED BY <2>6
<1>7. CASE b # 0 /\ ~Off(in, b)
  <2>1. \A ch \in Pool : g[ch] = Rounded(f[ch], w)
    BY <1>1, <1>2, <1>7, AllocationFraction
  <2>2. (2 * w) * s <= 2 * t + w * n /\ 2 * t <= (2 * w) * s + w * n
    BY <2>1, <1>2, <1>3, RoundedTogether
  <2>3. PICK x \in Nat : x = b * w
    BY ProductType
  <2>4. 100 * t <= 101 * x /\ 99 * x <= 100 * t
    BY <1>2, <1>4, <1>7, <2>3 DEF Off
  <2>5. PICK k \in Int, l \in Int : k = w * s /\ l = w * n
    BY ProductInt
  <2>6. (2 * w) * s = 2 * k
    BY <2>5
  <2>7. 200 * k <= 202 * x + 100 * l /\ 198 * x <= 200 * k + 100 * l
    BY <2>2, <2>4, <2>5, <2>6
  <2>8. /\ 200 * k = (200 * s) * w /\ 202 * x + 100 * l = (202 * b + 100 * n) * w
        /\ 198 * x = (198 * b) * w /\ 200 * k + 100 * l = (200 * s + 100 * n) * w
    BY <2>3, <2>5
  <2>9. (200 * s) * w <= (202 * b + 100 * n) * w /\ (198 * b) * w <= (200 * s + 100 * n) * w
    BY <2>7, <2>8
  <2>10. 200 * s <= 202 * b + 100 * n /\ 198 * b <= 200 * s + 100 * n
    BY <2>9, Cancel
  <2> QED BY <2>10
<1> QED BY <1>5, <1>6, <1>7

Limited(in, b) ==
  \A ch \in Pool :
    LET share == Clamped(in, b)[ch]
        alloc == Allocation(in, b)[ch]
        least == in.minimum[ch]
        most  == in.maximum[ch]
    IN  b # 0 =>
          /\ most # Unset /\ alloc > most => Raises(in, b, share)
          /\ least # Unset /\ AtMost(least, most) = least /\ alloc < least => Lowers(in, b, share)

\* A share within a limit of its own is beyond it after the scaling only if
\* the scaling moves it up: c is the share, l the limit, t the total.
LEMMA BeyondWhenRaised ==
  ASSUME NEW c \in Int, NEW l \in Int, NEW b \in Nat \ {0}, NEW w \in Nat \ {0}, NEW t \in Nat \ {0},
         c <= l * w, ~(c * b <= l * t)
  PROVE  (c > 0 /\ b * w - t > 0) \/ (c < 0 /\ b * w - t < 0)
<1>1. PICK x \in Nat : x = b * w
  BY ProductType
<1>2. ~(c * x <= c * t)
  <2> SUFFICES ASSUME c * x <= c * t PROVE FALSE
    OBVIOUS
  <2>1. l * w \in Int /\ l * t \in Int /\ c * b \in Int /\ c * x \in Int /\ c * t \in Int
    BY ProductInt
  <2>2. c * t <= (l * w) * t /\ (l * w) * t \in Int
    BY <2>1, ProductGrows, ProductInt
  <2>3. c * x = (c * b) * w /\ (l * w) * t = (l * t) * w
    BY <1>1, Associates
  <2>4. (c * b) * w <= (l * t) * w
    BY <2>1, <2>2, <2>3
  <2> QED BY <2>1, <2>4, Cancel
<1>3. CASE c = 0
  BY <1>2, <1>3
<1>4. CASE c > 0
  <2>1. c \in Nat
    BY <1>4
  <2>2. ~(x <= t)
    <3> SUFFICES ASSUME x <= t PROVE FALSE
      OBVIOUS
    <3>1. x * c <= t * c
      BY <2>1, ProductGrows
    <3> QED BY <1>2, <3>1, Commutes
  <2> QED BY <1>1, <1>4, <2>2
<1>5. CASE c < 0
  <2>1. -c \in Nat
    BY <1>5
  <2>2. ~(t <= x)
    <3> SUFFICES ASSUME t <= x PROVE FALSE
      OBVIOUS
    <3>1. t * (-c) <= x * (-c)
      BY <2>1, ProductGrows
    <3>2. t * (-c) = -(c * t) /\ x * (-c) = -(c * x)
      OBVIOUS
    <3>3. c * t \in Int /\ c * x \in Int
      BY ProductInt
    <3> QED BY <1>2, <3>1, <3>2, <3>3
  <2> QED BY <1>1, <1>5, <2>2
<1> QED BY <1>3, <1>4, <1>5

LEMMA PlanLimited == ASSUME NEW in \in AutomaticInput, NEW b \in Nat PROVE Limited(in, b)
<1> SUFFICES ASSUME NEW ch \in Pool, b # 0
             PROVE  LET share == Clamped(in, b)[ch]
                        alloc == Allocation(in, b)[ch]
                        least == in.minimum[ch]
                        most  == in.maximum[ch]
                    IN  /\ most # Unset /\ alloc > most => Raises(in, b, share)
                        /\ least # Unset /\ AtMost(least, most) = least /\ alloc < least
                           => Lowers(in, b, share)
  BY DEF Limited
<1>1. PICK t \in Int, w \in Nat \ {0} : t = ClampedTotal(in, b) /\ w = TotalWeight(in)
  BY ClampedType, WeightPositive
<1>2. PICK c \in Int, a \in Int, v \in Nat :
        c = Clamped(in, b)[ch] /\ a = Allocation(in, b)[ch] /\ v = b * in.weight[ch]
  <2>1. b * in.weight[ch] \in Nat
    BY InputTyped, ProductType
  <2>2. Clamped(in, b)[ch] \in Int
    BY ClampedType
  <2>3. Allocation(in, b)[ch] \in Int
    BY AllocationFraction
  <2> QED BY <2>1, <2>2, <2>3
<1>3. PICK low \in Int \cup {Unset}, high \in Int \cup {Unset} :
        low = in.minimum[ch] /\ high = in.maximum[ch]
  BY InputTyped
<1>4. c = AtMost(AtLeast(v, Times(low, w)), Times(high, w))
  BY <1>1, <1>2, <1>3 DEF Clamped
<1>5. /\ Off(in, b) => t \in Nat \ {0} /\ c * b \in Int /\ a = Rounded(c * b, t)
      /\ ~Off(in, b) => a = Rounded(c, w)
  BY <1>1, <1>2, AllocationFraction
<1>6. ASSUME high # Unset, a > high PROVE Raises(in, b, c)
  <2>1. high \in Int /\ Times(high, w) = high * w /\ high * w \in Int
    BY <1>6, TimesType, ProductInt
  <2>2. c <= high * w
    <3>1. AtLeast(v, Times(low, w)) \in Nat
      BY TimesType, LimitsType
    <3>2. high * w # Unset
      BY <2>1, UnsetIsNone
    <3> QED BY <1>4, <2>1, <3>1, <3>2 DEF AtMost
  <2>3. Off(in, b)
    <3> SUFFICES ASSUME ~Off(in, b) PROVE FALSE
      OBVIOUS
    <3>1. a <= high
      BY <1>5, <2>1, <2>2, RoundedAtMost
    <3> QED BY <1>6, <2>1, <3>1
  <2>4. ~(c * b <= high * t)
    <3> SUFFICES ASSUME c * b <= high * t PROVE FALSE
      OBVIOUS
    <3>1. a <= high
      BY <1>5, <2>1, <2>3, RoundedAtMost
    <3> QED BY <1>6, <2>1, <3>1
  <2>5. (c > 0 /\ b * w - t > 0) \/ (c < 0 /\ b * w - t < 0)
    BY <1>5, <2>1, <2>2, <2>3, <2>4, BeyondWhenRaised
  <2> QED BY <1>1, <2>5 DEF Raises
<1>7. ASSUME low # Unset, AtMost(low, high) = low, a < low PROVE Lowers(in, b, c)
  <2>1. low \in Int /\ Times(low, w) = low * w /\ low * w \in Int
    BY <1>7, TimesType, ProductInt
  <2>2. low * w <= c
    <3>1. PICK y \in Nat : y = AtLeast(v, Times(low, w)) /\ low * w <= y
      <4>1. low * w # Unset
        BY <2>1, UnsetIsNone
      <4>2. AtLeast(v, low * w) \in Nat /\ low * w <= AtLeast(v, low * w)
        BY <2>1, <4>1 DEF AtLeast
      <4> QED BY <2>1, <4>2
    <3>2. CASE high = Unset
      BY <1>4, <3>1, <3>2 DEF AtMost, Times
    <3>3. CASE high # Unset
      <4>1. high \in Int /\ low <= high
        BY <1>7, <2>1, <3>3 DEF AtMost
      <4>2. Times(high, w) = high * w /\ high * w \in Int /\ low * w <= high * w
        BY <2>1, <3>3, <4>1, TimesType, ProductGrows, ProductInt
      <4> QED BY <1>4, <2>1, <3>1, <4>2 DEF AtMost
    <3> QED BY <3>2, <3>3
  <2>3. Off(in, b)
    <3> SUFFICES ASSUME ~Off(in, b) PROVE FALSE
      OBVIOUS
    <3>1. low <= a
      BY <1>5, <2>1, <2>2, RoundedAtLeast
    <3> QED BY <1>7, <2>1, <3>1
  <2>4. ~(low * t <= c * b)
    <3> SUFFICES ASSUME low * t <= c * b PROVE FALSE
      OBVIOUS
    <3>1. low <= a
      BY <1>5, <2>1, <2>3, RoundedAtLeast
    <3> QED BY <1>7, <2>1, <3>1
  <2>5. PICK e \in Int, l \in Int : e = -c /\ l = -low
    BY <2>1
  <2>6. e <= l * w /\ ~(e * b <= l * t)
    <3>1. l * w = -(low * w) /\ e * b = -(c * b) /\ l * t = -(low * t)
      BY <2>1, <2>5
    <3>2. low * t \in Int /\ c * b \in Int
      BY <2>1, ProductInt
    <3> QED BY <2>1, <2>2, <2>4, <2>5, <3>1, <3>2
  <2>7. (e > 0 /\ b * w - t > 0) \/ (e < 0 /\ b * w - t < 0)
    BY <1>5, <2>3, <2>6, BeyondWhenRaised
  <2> QED BY <1>1, <2>5, <2>7 DEF Lowers, Raises
<1> QED BY <1>2, <1>3, <1>6, <1>7

(***************************************************************************)
(* The optimize step                                                       *)
(***************************************************************************)

\* The last point and the plan are what one budget and one source of costs give.
OptimizerIInv ==
  /\ input \in AutomaticInput
  /\ step \in 0..StepCount
  /\ step = 0 => point = Unset
  /\ step # 0 => point = PlanFor(input, Part(step), FALSE)
  /\ plan # Unset => step = StepCount /\ plan = PlanFor(input, input.budget, TRUE)

LEMMA PartType ==
  ASSUME NEW b \in Nat, NEW i \in Nat, input \in AutomaticInput, input.budget = b
  PROVE  Part(i) \in Nat /\ Part(i) <= Part(i + 1)
<1>1. StepCount \in Nat \ {0}
  BY UnsetIsNone
<1>2. b * i \in Nat /\ b * (i + 1) \in Nat /\ b * i <= b * (i + 1)
  BY ProductType, ProductGrows, Commutes
<1>3. (b * i) * StepCount <= (b * (i + 1)) * StepCount
  BY <1>1, <1>2, ProductGrows
<1> QED BY <1>1, <1>2, <1>3, RoundedNat, RoundedMonotone DEF Part

LEMMA OptimizerIInvInit == OptimizerInit => OptimizerIInv
BY OptimizerAssumption DEF OptimizerInit, OptimizerIInv

LEMMA OptimizerIInvStep == OptimizerIInv /\ [OptimizerNext]_optimizerVars => OptimizerIInv'
<1> SUFFICES ASSUME OptimizerIInv, [OptimizerNext]_optimizerVars PROVE OptimizerIInv'
  OBVIOUS
<1>1. CASE NextPoint
  <2>1. step \in Nat /\ StepCount \in Nat /\ step < StepCount /\ step' = step + 1
    BY <1>1, UnsetIsNone DEF NextPoint, OptimizerIInv
  <2>2. input' = input /\ plan' = plan /\ plan = Unset
    <3>1. step # StepCount
      BY <2>1
    <3>2. plan = Unset
      BY <3>1, Zenon DEF OptimizerIInv
    <3>3. input' = input /\ plan' = plan
      BY <1>1 DEF NextPoint
    <3> QED BY <3>2, <3>3
  <2>3. point' = PlanFor(input, Part(step'), FALSE)
    BY <1>1 DEF NextPoint
  <2>4. point' = PlanFor(input, Part(step), FALSE)'
    BY <2>2, <2>3 DEF Part, PlanFor, Allocation, Off, Scaled, Clamped, ClampedTotal,
      TotalWeight, Impressions, Cpm
  <2>5. input' \in AutomaticInput
    BY <2>2 DEF OptimizerIInv
  <2>6. step' \in 0..StepCount /\ step' # 0
    BY <2>1
  <2> QED BY <2>2, <2>4, <2>5, <2>6 DEF OptimizerIInv
<1>2. CASE Optimize
  BY <1>2 DEF Optimize, OptimizerIInv, Part
<1>3. CASE UNCHANGED optimizerVars
  BY <1>3 DEF optimizerVars, OptimizerIInv, Part
<1> QED BY <1>1, <1>2, <1>3 DEF OptimizerNext

LEMMA OptimizerInvariance == OptimizerSpec => []OptimizerIInv
BY OptimizerIInvInit, OptimizerIInvStep, PTL DEF OptimizerSpec

\* Each plan there is is that of some budget.
LEMMA PlanOfBudget ==
  ASSUME OptimizerIInv, NEW p \in {point, plan} \ {Unset}
  PROVE  \E b \in Nat, learned \in BOOLEAN : p = PlanFor(input, b, learned)
<1>1. input.budget \in Nat
  BY InputTyped DEF OptimizerIInv
<1>2. CASE p = plan
  BY <1>1, <1>2 DEF OptimizerIInv
<1>3. CASE p = point
  <2>1. step # 0 /\ step \in Nat
    BY <1>3, UnsetIsNone DEF OptimizerIInv
  <2>2. Part(step) \in Nat
    BY <1>1, <2>1, PartType DEF OptimizerIInv
  <2> QED BY <1>3, <2>1, <2>2 DEF OptimizerIInv
<1> QED BY <1>2, <1>3

LEMMA CurveStepNeverFalls ==
  ASSUME OptimizerIInv, NextPoint, point # Unset, NoMaximumBelowZero(input), NEW ch \in Pool
  PROVE  point.alloc[ch] <= point'.alloc[ch] /\ point.impressions[ch] <= point'.impressions[ch]
<1>1. PICK b \in Nat, d \in Nat :
        /\ b <= d
        /\ point = PlanFor(input, b, FALSE) /\ point' = PlanFor(input, d, FALSE)
  <2>1. step # 0 /\ step \in Nat /\ step' = step + 1 /\ input.budget \in Nat
    BY InputTyped, UnsetIsNone DEF OptimizerIInv, NextPoint
  <2>2. Part(step) \in Nat /\ Part(step + 1) \in Nat /\ Part(step) <= Part(step + 1)
    BY <2>1, PartType DEF OptimizerIInv
  <2>3. point' = PlanFor(input, Part(step + 1), FALSE)
    BY <2>1 DEF NextPoint
  <2> QED BY <2>1, <2>2, <2>3 DEF OptimizerIInv
<1>2. input \in AutomaticInput
  BY DEF OptimizerIInv
<1>3. PICK m \in Int, n \in Int :
        m = Allocation(input, b)[ch] /\ n = Allocation(input, d)[ch] /\ m <= n
  BY <1>1, <1>2, AllocationGrows, AllocationFraction
<1>4. Impressions(input, ch, m, FALSE) <= Impressions(input, ch, n, FALSE)
  BY <1>2, <1>3, ImpressionsGrow
<1> QED BY <1>1, <1>3, <1>4 DEF PlanFor

LEMMA CurveEnds == OptimizerIInv => CurveEndsAtPlan
<1> SUFFICES ASSUME OptimizerIInv, plan # Unset
             PROVE  /\ plan.alloc = point.alloc
                    /\ \A ch \in Pool :
                         input.learned[ch] = Unset \/ input.override[ch] # Unset =>
                           plan.impressions[ch] = point.impressions[ch]
  BY DEF CurveEndsAtPlan
<1>1. input \in AutomaticInput /\ input.budget \in Nat /\ StepCount \in Nat \ {0}
  BY InputTyped, UnsetIsNone DEF OptimizerIInv
<1>2. Part(StepCount) = input.budget
  <2>1. PICK b \in Int, n \in Nat \ {0} : b = input.budget /\ n = StepCount
    BY <1>1
  <2>2. Rounded(b * n, n) = b
    BY RoundedWhole
  <2> QED BY <2>1, <2>2 DEF Part
<1>3. /\ point = PlanFor(input, input.budget, FALSE)
      /\ plan = PlanFor(input, input.budget, TRUE)
  BY <1>1, <1>2 DEF OptimizerIInv
<1>4. ASSUME NEW ch \in Pool, input.learned[ch] = Unset \/ input.override[ch] # Unset
      PROVE  Cpm(input, ch, TRUE) = Cpm(input, ch, FALSE)
  BY <1>4, <1>1, InputTyped DEF Cpm
<1> QED BY <1>3, <1>4 DEF PlanFor, Impressions

(***************************************************************************)
(* Theorems                                                                *)
(***************************************************************************)

\* Every transaction works on rows of the tables' kind, and there are as many
\* record ids as the PUTs may need, however requests and restarts interleave.
THEOREM TypeCorrect == Spec => []TypeOK
<1>1. IInv => TypeOK
  BY DEF IInv
<1> QED BY <1>1, Inductive, PTL

\* One record per week of a plan and per final settlement, one row per id in
\* each table: the unique indexes never refuse what the code writes.
THEOREM KeysStayUnique == Spec => []KeysUnique
<1>1. IInv => KeysUnique
  BY DEF IInv
<1> QED BY <1>1, Inductive, PTL

\* What was acknowledged is in force or in the history, and nothing else is.
THEOREM AuditStaysComplete == Spec => []AuditComplete
<1>1. IInv => AuditComplete
  BY DEF IInv
<1> QED BY <1>1, Inductive, PTL

\* Without a restart only a DELETE under way has its record in both tables.
THEOREM InBothOnlyMeanwhile == Spec => []SupersededOnce
<1>1. IInv => SupersededOnce
  BY DEF IInv
<1> QED BY <1>1, Inductive, PTL

\* A report is that of the acknowledged records still in force, for any plan,
\* channels and figures, however its rows and its total are added up.
THEOREM ReportsAreLive == Spec => []ReportOfLiveRecords
BY Inductive, ReportHolds, PTL

\* PUT and DELETE implement the audit trail, crashes included.
THEOREM ImplementsTrail == Spec => KeepsTrail
<1>1. Init => Trail!Init
  BY DEF Init, Trail!Init
<1> QED BY <1>1, Inductive, StepRefines, PTL DEF Spec, KeepsTrail, Trail!Spec

\* Every plan and every point of the curve has as much money and as many
\* impressions for each channel as a plan can have.
THEOREM OptimizerTypeCorrect == OptimizerSpec => []OptimizerTypeOK
<1>1. OptimizerIInv => OptimizerTypeOK
  <2> SUFFICES ASSUME OptimizerIInv PROVE OptimizerTypeOK
    OBVIOUS
  <2>1. input \in AutomaticInput
    BY DEF OptimizerIInv
  <2>2. \A p \in {point, plan} \ {Unset} : p \in Plan
    BY <2>1, PlanOfBudget, PlanTyped
  <2>3. step # 0 => point # Unset
    <3> SUFFICES ASSUME step # 0 PROVE point # Unset
      OBVIOUS
    <3>1. Part(step) \in Nat
      BY <2>1, InputTyped, PartType DEF OptimizerIInv
    <3> QED BY <2>1, <3>1, PlanTyped, UnsetIsNone DEF OptimizerIInv
  <2> QED BY <2>1, <2>2, <2>3 DEF OptimizerIInv, OptimizerTypeOK
<1> QED BY <1>1, OptimizerInvariance, PTL

\* However limits and weights are set, the plan and each point of the curve spend
\* the budget but for 1 % and half a cent a channel.
THEOREM BudgetIsSpent == OptimizerSpec => []SpendsTheBudget
<1>1. OptimizerIInv => SpendsTheBudget
  <2> SUFFICES ASSUME OptimizerIInv, NEW p \in {point, plan} \ {Unset}
               PROVE  LET spent == SumFunction(p.alloc)
                          slack == p.budget + 50 * Cardinality(Pool)
                      IN  ClampedTotal(input, p.budget) > 0 =>
                            100 * (spent - p.budget) <= slack /\ 100 * (p.budget - spent) <= slack
    BY DEF SpendsTheBudget
  <2>1. PICK b \in Nat, learned \in BOOLEAN : p = PlanFor(input, b, learned)
    BY PlanOfBudget
  <2>2. Spends(input, b)
    BY PlanSpends DEF OptimizerIInv
  <2>3. p.budget = b /\ p.alloc = Allocation(input, b)
    BY <2>1 DEF PlanFor
  <2> QED BY <2>2, <2>3 DEF Spends
<1> QED BY <1>1, OptimizerInvariance, PTL

\* For any limits, below zero too, a channel over its maximum is one the scaling
\* raised and one under its minimum is one it lowered.
THEOREM LimitsBreakOneWay == OptimizerSpec => []LimitsBrokenOneWay
<1>1. OptimizerIInv => LimitsBrokenOneWay
  <2> SUFFICES ASSUME OptimizerIInv, NEW p \in {point, plan} \ {Unset}, NEW ch \in Pool
               PROVE  LET share == Clamped(input, p.budget)[ch]
                          least == input.minimum[ch]
                          most  == input.maximum[ch]
                      IN  p.budget # 0 =>
                            /\ most # Unset /\ p.alloc[ch] > most => Raises(input, p.budget, share)
                            /\ least # Unset /\ AtMost(least, most) = least /\ p.alloc[ch] < least
                               => Lowers(input, p.budget, share)
    BY DEF LimitsBrokenOneWay
  <2>1. PICK b \in Nat, learned \in BOOLEAN : p = PlanFor(input, b, learned)
    BY PlanOfBudget
  <2>2. Limited(input, b)
    BY PlanLimited DEF OptimizerIInv
  <2>3. p.budget = b /\ p.alloc = Allocation(input, b)
    BY <2>1 DEF PlanFor
  <2> QED BY <2>2, <2>3 DEF Limited
<1> QED BY <1>1, OptimizerInvariance, PTL

\* The curve of any brief ends at its plan, but for what was learned of costs.
THEOREM CurveEndsAtThePlan == OptimizerSpec => []CurveEndsAtPlan
BY CurveEnds, OptimizerInvariance, PTL

\* The curve of any brief with no maximum below zero rises in every channel,
\* whatever its minima, weights and costs.
THEOREM CurveRises == OptimizerSpec => CurveNeverFalls
<1>1. OptimizerIInv /\ [OptimizerNext]_optimizerVars =>
        [NextPoint /\ point # Unset /\ NoMaximumBelowZero(input) =>
           \A ch \in Pool : /\ point.alloc[ch] <= point'.alloc[ch]
                            /\ point.impressions[ch] <= point'.impressions[ch]]_optimizerVars
  BY CurveStepNeverFalls
<1> QED BY <1>1, OptimizerInvariance, PTL DEF OptimizerSpec, CurveNeverFalls
=============================================================================
