------------------------- MODULE LearningLoopProofs -------------------------
(***************************************************************************)
(* Proofs about LearningLoop, for any number of threads, sessions, plans,  *)
(* records and failures.  No property of it is inductive: what a PUT has   *)
(* taught when it is done rests on what it had in hand at each moment of   *)
(* its way (Held), which other PUTs, edits and sweeps leave alone because  *)
(* no two PUTs write under the same number (Distinct, Consistent).         *)
(***************************************************************************)
EXTENDS LearningLoop, TLAPS

Busy(th) == th.pc # "idle"

\* What a thread keeps of its request; n PUTs have begun.
Formed(th, n) ==
  /\ Busy(th) => th.put \in 1..n /\ th.plan \in Plans
  /\ ~Busy(th) => th.put = None
  /\ th.pc = "store" => \A in, jn \in th.batch : in.slot = jn.slot => in = jn
  /\ th.pc = "learn" => th.scope \in Scopes

Distinct ==
  \A t, o \in Threads :
    t # o /\ Busy(threads[t]) /\ Busy(threads[o]) => threads[t].put # threads[o].put

Typed ==
  /\ TypeOK
  /\ \A t \in Threads : Formed(threads[t], used.puts)
  /\ Distinct

\* Below R are the records there are or were, O the observations and ps the
\* plans there are.
From(o, r, c) == o.put = r.put /\ o.source = r.id /\ o.cell = c
Same(r, x)    == r.put = x.put /\ r.id = x.id

Consistent(R, O, n) ==
  /\ \A r \in R : r.put <= n
  /\ \A o \in O : o.put <= n
  /\ \A r, x \in R : Same(r, x) => r = x
  /\ \A o \in O, r \in R : From(o, r, o.cell) => o.cell \in r.cells
  /\ \A o, x \in O : o.put = x.put => o.scope = x.scope

Sourced(R, O, ps) ==
  \A o \in O : o.plan \in ps =>
    \E r \in R : From(o, r, o.cell) /\ o.cell \in r.cells /\ r.plan = o.plan

\* A record and a cell still to be learned
InHand(w, th, R, O, ps) ==
  /\ w[1].put = th.put /\ w[1].plan = th.plan /\ w[2] \in w[1].cells
  /\ th.plan \in ps => w[1] \in R
  /\ \A r \in R : Same(r, w[1]) => r = w[1]
  /\ \A v \in th.todo : v[1].id = w[1].id => v[1] = w[1]
  /\ \A o \in O : ~From(o, w[1], w[2])

\* What a PUT stored is in its hands or learned.
Kept(th, R, O) ==
  \A r \in R : r.put = th.put =>
    /\ r.plan = th.plan
    /\ \A c \in r.cells : <<r, c>> \in th.todo \/ \E o \in O : From(o, r, c)

Held(th, R, O, ps) ==
  /\ th.pc = "store" => \A r \in R : r.put # th.put
  /\ th.pc \in {"store", "read"} => \A o \in O : o.put # th.put
  /\ th.pc \in {"read", "learn"} => Kept(th, R, O)
  /\ th.pc \in {"read", "learn"} => \A w \in th.todo : InHand(w, th, R, O, ps)
  /\ th.pc = "learn" => \A o \in O : o.put = th.put => o.scope = th.scope

Seen      == BagToSet(observations)
Following == \A t \in Threads : Held(threads[t], Recorded, Seen, plans)

\* What the PUT q taught, when it is done: all of what it stored or nothing,
\* and under the client and target of the brief, if that stayed.
Whole(q, R, O) ==
  (\E o \in O : o.put = q) =>
    \A r \in R : r.put = q => \A c \in r.cells : \E o \in O : From(o, r, c)
Backed(r, scope, O) == \A c \in r.cells : \E o \in O : From(o, r, c) /\ o.scope = scope
Taught(q) ==
  /\ Whole(q, Recorded, Seen)
  /\ q \notin moved =>
       \A scope \in Scopes : \A r \in Counted(scope) : r.put = q => Backed(r, scope, Seen)
DoneTaught == \A q \in Finished : Taught(q)

OnceEach(B) == \A o \in DOMAIN B : B[o] = 1

Current ==
  \A t \in Threads :
    threads[t].pc = "learn" /\ threads[t].put \notin moved => threads[t].scope = BriefNow(threads[t])

IInv ==
  /\ Typed
  /\ Consistent(Recorded, Seen, used.puts)
  /\ Sourced(Recorded, Seen, plans)
  /\ OnceEach(observations)
  /\ Following
  /\ DoneTaught
  /\ Current

(***************************************************************************)
(* What the steps do to the tables                                         *)
(***************************************************************************)

LEMMA IdleForm ==
  /\ Idle \in Thread /\ ~Busy(Idle)
  /\ \A n : Formed(Idle, n)
  /\ \A R, O, ps : Held(Idle, R, O, ps)
BY LearningLoopAssumption DEF Idle, Thread, Busy, Formed, Held

\* upsert_actuals_records writes one record for each slot of its batch.
LEMMA StoredRows ==
  ASSUME Typed, NEW t \in Threads, threads[t].pc = "store"
  PROVE  /\ Stored(threads[t]) \subseteq Row
         /\ \A r \in Stored(threads[t]) : r.put = threads[t].put /\ r.plan = threads[t].plan
         /\ \A r, x \in Stored(threads[t]) : r.id = x.id => r = x
<1> DEFINE th == threads[t]
<1>1. th \in Thread /\ th.put \in Puts /\ th.plan \in Plans /\ th.batch \subseteq Input
  BY LearningLoopAssumption DEF Typed, TypeOK, Thread, Formed, Busy, Puts
<1>2. \A in, jn \in th.batch : in.slot = jn.slot => in = jn
  BY DEF Typed, Formed
<1>3. \A in \in th.batch : IdOf(th, in) \in Ids /\ IdOf(th, in)[2] = in.slot
  BY <1>1 DEF IdOf, Ids, Input
<1>4. Stored(th) \subseteq Row
  BY <1>1, <1>3 DEF Stored, Row, Input
<1>5. \A r, x \in Stored(th) : r.id = x.id => r = x
  BY <1>2, <1>3 DEF Stored
<1>6. \A r \in Stored(th) : r.put = th.put /\ r.plan = th.plan
  BY DEF Stored
<1> QED BY <1>4, <1>5, <1>6

LEMMA StoreRecords ==
  ASSUME Typed, NEW t \in Threads, Store(t)
  PROVE  /\ rows' = (rows \ Replaced(threads[t])) \cup Stored(threads[t])
         /\ rows' \subseteq Row /\ history' \subseteq Row
         /\ Recorded' = Recorded \cup Stored(threads[t])
<1>1. Replaced(threads[t]) \subseteq rows
  BY DEF Replaced
<1>2. Stored(threads[t]) \subseteq Row
  BY StoredRows DEF Store
<1> QED BY <1>1, <1>2 DEF Store, Archive, Recorded, Typed, TypeOK

\* Bags as functions to the numbers from 1 on
LEMMA OneMore ==
  ASSUME NEW B, IsABag(B), OnceEach(B), NEW o, o \notin DOMAIN B
  PROVE  /\ IsABag(B (+) SetToBag({o})) /\ OnceEach(B (+) SetToBag({o}))
         /\ BagToSet(B (+) SetToBag({o})) = BagToSet(B) \cup {o}
<1> DEFINE C == B (+) SetToBag({o})
<1>1. C = [e \in DOMAIN B \cup {o} |->
            (IF e \in DOMAIN B THEN B[e] ELSE 0) + (IF e \in {o} THEN 1 ELSE 0)]
  BY DEF (+), SetToBag
<1>2. DOMAIN C = DOMAIN B \cup {o}
  BY <1>1
<1>3. \A e \in DOMAIN C : C[e] = 1
  <2>1. ASSUME NEW e \in DOMAIN B PROVE C[e] = 1
    BY <1>1, <2>1 DEF OnceEach
  <2>2. C[o] = 1
    BY <1>1
  <2> QED BY <1>2, <2>1, <2>2
<1>4. C \in [DOMAIN C -> {n \in Nat : n > 0}]
  <2>1. C = [e \in DOMAIN C |-> C[e]]
    BY <1>1, <1>2
  <2> HIDE DEF C
  <2> QED BY <1>3, <2>1
<1> HIDE DEF C
<1>5. IsABag(C) /\ OnceEach(C) /\ BagToSet(C) = BagToSet(B) \cup {o}
  BY <1>2, <1>3, <1>4 DEF IsABag, OnceEach, BagToSet
<1> QED BY <1>5 DEF C

\* The observation record_from_actuals appends
Noted(th, w) == [scope |-> ScopeOf(th), cell |-> w[2], plan |-> w[1].plan,
                 source |-> w[1].id, put |-> th.put]

\* A cell is learned once, from the record in hand.
LEMMA LearnNotes ==
  ASSUME IInv, NEW t \in Threads, Learn(t)
  PROVE  \E w \in threads[t].todo :
           /\ threads' = [threads EXCEPT ![t] = [threads[t] EXCEPT !.todo = threads[t].todo \ {w}]]
           /\ w \in Row \X Cells /\ InHand(w, threads[t], Recorded, Seen, plans)
           /\ Noted(threads[t], w) \in Observation /\ Noted(threads[t], w) \notin Seen
           /\ Seen' = Seen \cup {Noted(threads[t], w)}
           /\ IsABag(observations') /\ OnceEach(observations')
<1> DEFINE th == threads[t]
<1>1. PICK w \in th.todo :
        /\ threads' = [threads EXCEPT ![t].todo = @ \ {w}]
        /\ observations' = observations (+) SetToBag({Noted(th, w)})
  BY DEF Learn, IsLearned, Noted
<1>2. /\ th \in Thread /\ th.pc = "learn" /\ th.scope \in Scopes /\ th.put \in Puts
      /\ threads \in [Threads -> Thread]
  <2>1. threads \in [Threads -> Thread] /\ th \in Thread /\ th.pc = "learn"
    BY DEF Learn, IInv, Typed, TypeOK
  <2>2. Formed(th, used.puts) /\ used.puts \in 0..MaxPuts
    BY DEF IInv, Typed, TypeOK
  <2>3. th.scope \in Scopes /\ th.put \in Puts
    BY <2>1, <2>2, LearningLoopAssumption DEF Formed, Busy, Puts
  <2> QED BY <2>1, <2>3
<1>3. w \in Row \X Cells /\ InHand(w, th, Recorded, Seen, plans)
  BY <1>2 DEF Thread, IInv, Following, Held
<1>4. Noted(th, w) \in Observation
  BY <1>2, <1>3 DEF Noted, Observation, ScopeOf, Row
<1>5. Noted(th, w) \notin Seen
  <2>1. From(Noted(th, w), w[1], w[2])
    BY <1>3 DEF From, Noted, InHand
  <2> QED BY <1>3, <2>1 DEF InHand
<1>6. Seen' = Seen \cup {Noted(th, w)} /\ IsABag(observations') /\ OnceEach(observations')
  <2>1. IsABag(observations) /\ OnceEach(observations) /\ Noted(th, w) \notin DOMAIN observations
    BY <1>5 DEF IInv, Typed, TypeOK, Seen, BagToSet
  <2> HIDE DEF th
  <2> QED BY <1>1, <2>1, OneMore DEF Seen
<1>7. threads' = [threads EXCEPT ![t] = [th EXCEPT !.todo = th.todo \ {w}]]
  BY <1>1, <1>2
<1> QED BY <1>3, <1>4, <1>5, <1>6, <1>7

\* What planners do to records and sessions takes rows, of swept plans only,
\* and archives those it deletes.
TakesRows ==
  /\ UNCHANGED <<observations, threads, partial>> /\ used'.puts = used.puts
  /\ plans' \subseteq plans /\ rows' \subseteq rows
  /\ Recorded' \subseteq Recorded
  /\ \A r \in Recorded : r.plan \in plans' => r \in Recorded'

EditsSession(s) ==
  DeleteSession(s) \/ Sweep(s) \/ \E scope \in Scopes \cup {NoScope} : Rescope(s, scope)

LEMMA DeleteTakesRows ==
  ASSUME Typed, NEW r \in rows, DeleteRecord(r)
  PROVE  TakesRows
<1>1. Recorded' = Recorded
  BY DEF DeleteRecord, Recorded
<1>2. used'.puts = used.puts
  BY DEF DeleteRecord, Typed, TypeOK
<1> QED BY <1>1, <1>2 DEF DeleteRecord, TakesRows

LEMMA EditTakesRows ==
  ASSUME Typed, NEW s \in Sessions, EditsSession(s)
  PROVE  /\ TakesRows /\ moved' = moved \cup 1..used.puts
         /\ UNCHANGED history /\ briefs' \in [Sessions -> Scopes \cup {NoScope, None}]
         /\ used' \in [puts : 0..MaxPuts, edits : 0..MaxEdits, failures : 0..MaxFailures,
                       crashes : 0..MaxCrashes]
<1>1. EditSession(s) /\ UNCHANGED history
  BY DEF EditsSession, DeleteSession, Sweep, Rescope, EditSession
<1>2. /\ used'.puts = used.puts
      /\ used' \in [puts : 0..MaxPuts, edits : 0..MaxEdits, failures : 0..MaxFailures,
                    crashes : 0..MaxCrashes]
  BY <1>1, LearningLoopAssumption DEF EditSession, Typed, TypeOK
<1>3. \/ UNCHANGED <<plans, rows>>
      \/ plans' = {p \in plans : SessionOf[p] # s} /\ rows' = {r \in rows : SessionOf[r.plan] # s}
  BY DEF EditsSession, DeleteSession, Sweep, Rescope
<1>4. plans' \subseteq plans /\ rows' \subseteq rows
  BY <1>3
<1>5. Recorded' \subseteq Recorded
  BY <1>1, <1>4 DEF Recorded
<1>6. \A r \in Recorded : r.plan \in plans' => r \in Recorded'
  BY <1>1, <1>3 DEF Recorded
<1>7. briefs' \in [Sessions -> Scopes \cup {NoScope, None}]
  BY DEF EditsSession, DeleteSession, Sweep, Rescope, Typed, TypeOK
<1> QED BY <1>1, <1>2, <1>4, <1>5, <1>6, <1>7 DEF EditSession, TakesRows

\* A thread that is done with its PUT, or that found no client and target
Leaves(t) ==
  /\ threads' = [threads EXCEPT ![t] = Idle]
  /\ UNCHANGED <<tables, moved>>
  /\ used'.puts = used.puts

Fails(t) == Refuse(t) \/ Swallow(t)

LEMMA FailsLeaves ==
  ASSUME Typed, NEW t \in Threads, Fails(t)
  PROVE  /\ Leaves(t)
         /\ \/ threads[t].pc = "store" /\ UNCHANGED partial
            \/ threads[t].pc \in {"read", "learn"} /\ partial' = partial \cup {threads[t].put}
         /\ used' \in [puts : 0..MaxPuts, edits : 0..MaxEdits, failures : 0..MaxFailures,
                       crashes : 0..MaxCrashes]
<1>1. CASE Refuse(t)
  BY <1>1 DEF Refuse, Leaves, Typed, TypeOK
<1>2. CASE Swallow(t)
  <2>1. /\ used'.puts = used.puts
        /\ used' \in [puts : 0..MaxPuts, edits : 0..MaxEdits, failures : 0..MaxFailures,
                      crashes : 0..MaxCrashes]
    BY <1>2, LearningLoopAssumption DEF Swallow, Typed, TypeOK
  <2> QED BY <1>2, <2>1 DEF Swallow, Leaves
<1> QED BY <1>1, <1>2 DEF Fails

\* The cases of Next, as the proofs go through them
LEMMA Cases ==
  ASSUME Next
  PROVE  \/ \E t \in Threads, p \in Plans, b \in Batches : Begin(t, p, b)
         \/ \E t \in Threads : Store(t) \/ ReadBrief(t) \/ Learn(t) \/ Answer(t) \/ Fails(t)
         \/ \E r \in rows : DeleteRecord(r)
         \/ \E s \in Sessions : EditsSession(s)
         \/ Crash
BY DEF Next, Put, Fails, EditsSession

(***************************************************************************)
(* Types, and PUTs that do not share a number                              *)
(***************************************************************************)

LEMMA TypedMove ==
  ASSUME Typed, TypeOK', NEW t \in Threads, NEW th \in Thread,
         threads' = [threads EXCEPT ![t] = th],
         used'.puts >= used.puts,
         Formed(th, used'.puts),
         Busy(th) => \/ Busy(threads[t]) /\ th.put = threads[t].put
                     \/ th.put = used.puts + 1
  PROVE  Typed'
<1>1. threads \in [Threads -> Thread] /\ used.puts \in Nat /\ used'.puts \in Nat
  BY DEF Typed, TypeOK
<1>2. threads'[t] = th /\ \A o \in Threads \ {t} : threads'[o] = threads[o]
  BY <1>1
<1>3. \A o \in Threads : Formed(threads'[o], used'.puts)
  BY <1>1, <1>2 DEF Typed, Formed
<1>4. ASSUME NEW o \in Threads, o # t, Busy(th), Busy(threads[o])
      PROVE  th.put # threads[o].put
  <2>1. threads[o].put \in 1..used.puts
    BY <1>4 DEF Typed, Formed
  <2> QED BY <1>1, <1>4, <2>1 DEF Typed, Distinct
<1>5. Distinct'
  BY <1>2, <1>4 DEF Typed, Distinct
<1> QED BY <1>3, <1>5 DEF Typed

LEMMA TypedMoveOn ==
  ASSUME Typed, TypeOK', NEW t \in Threads, NEW th \in Thread,
         threads' = [threads EXCEPT ![t] = th],
         used'.puts = used.puts,
         Formed(th, used.puts),
         Busy(th) => Busy(threads[t]) /\ th.put = threads[t].put
  PROVE  Typed'
<1>1. used'.puts >= used.puts
  BY DEF Typed, TypeOK
<1>2. Formed(th, used'.puts)
  OBVIOUS
<1> QED BY <1>1, <1>2, TypedMove

LEMMA TypedInit ==
  ASSUME Init
  PROVE  Typed
<1>1. IsABag(EmptyBag) /\ BagToSet(EmptyBag) = {}
  BY DEF IsABag, EmptyBag, SetToBag, BagToSet
<1>2. TypeOK
  BY <1>1, IdleForm, LearningLoopAssumption DEF Init, TypeOK
<1> QED BY <1>2, IdleForm DEF Init, Typed, Distinct

LEMMA TypedStep ==
  ASSUME IInv, [Next]_vars
  PROVE  Typed'
<1> USE DEF IInv
<1>0. threads \in [Threads -> Thread] /\ used.puts \in Nat
  BY DEF Typed, TypeOK
<1>1. ASSUME NEW t \in Threads, NEW p \in Plans, NEW b \in Batches, Begin(t, p, b) PROVE Typed'
  <2> DEFINE th == [Idle EXCEPT !.pc = "store", !.plan = p, !.put = used.puts + 1, !.batch = b]
  <2>1. b \subseteq Input /\ \A in, jn \in b : in.slot = jn.slot => in = jn
    BY LearningLoopAssumption DEF Batches
  <2>2. /\ used' \in [puts : 0..MaxPuts, edits : 0..MaxEdits, failures : 0..MaxFailures,
                      crashes : 0..MaxCrashes]
        /\ used'.puts = used.puts + 1 /\ used.puts + 1 \in Puts
    BY <1>1, LearningLoopAssumption DEF Begin, Typed, TypeOK, Puts
  <2>3. /\ th \in Thread /\ th.pc = "store" /\ th.plan = p /\ th.batch = b
        /\ th.put = used.puts + 1
    BY <2>1, <2>2 DEF Idle, Thread
  <2> HIDE DEF th
  <2>4. threads' = [threads EXCEPT ![t] = th]
    BY <1>1 DEF Begin, th
  <2>5. TypeOK'
    BY <1>1, <2>2, <2>3, <2>4 DEF Begin, Typed, TypeOK, tables
  <2>6. Formed(th, used'.puts)
    <3>1. th.put \in 1..used'.puts
      BY <1>0, <2>2, <2>3
    <3> QED BY <2>1, <2>3, <3>1 DEF Formed, Busy
  <2>7. used'.puts >= used.puts
    BY <1>0, <2>2
  <2> QED BY <2>3, <2>4, <2>5, <2>6, <2>7, TypedMove
<1>2. ASSUME NEW t \in Threads, Store(t) PROVE Typed'
  <2> DEFINE th == [threads[t] EXCEPT !.pc = "read", !.todo =
                      {w \in Stored(threads[t]) \X Cells : w[2] \in w[1].cells}]
  <2>1. Stored(threads[t]) \subseteq Row /\ threads[t].pc = "store"
    BY <1>2, StoredRows DEF Store
  <2>2. th \in Thread /\ Busy(th) /\ th.put = threads[t].put /\ Formed(th, used.puts)
    BY <1>0, <2>1 DEF Thread, Formed, Busy, Typed
  <2> HIDE DEF th
  <2>3. threads' = [threads EXCEPT ![t] = th]
    BY <1>0, <1>2 DEF Store, th
  <2>4. /\ rows' \subseteq Row /\ history' \subseteq Row
        /\ UNCHANGED <<briefs, plans, observations, used, partial, moved>>
    BY <1>2, StoreRecords DEF Store
  <2>5. TypeOK'
    BY <2>2, <2>3, <2>4 DEF Typed, TypeOK
  <2>6. Busy(threads[t]) /\ used'.puts = used.puts
    BY <1>2 DEF Busy, Store
  <2> QED BY <2>2, <2>3, <2>5, <2>6, TypedMoveOn
<1>3. ASSUME NEW t \in Threads, ReadBrief(t) PROVE Typed'
  <2> DEFINE now == BriefNow(threads[t])
             th == IF now \in Scopes THEN [threads[t] EXCEPT !.pc = "learn", !.scope = now] ELSE Idle
  <2>1. /\ th \in Thread /\ Formed(th, used.puts)
        /\ Busy(th) => Busy(threads[t]) /\ th.put = threads[t].put
    <3>1. CASE now \in Scopes
      BY <1>0, <1>3, <3>1 DEF Thread, Formed, Busy, Typed, ReadBrief
    <3>2. CASE now \notin Scopes
      BY <3>2, IdleForm
    <3> QED BY <3>1, <3>2
  <2> HIDE DEF th
  <2>2. threads' = [threads EXCEPT ![t] = th]
    BY <1>0, <1>3 DEF ReadBrief, th
  <2>3. TypeOK'
    BY <1>3, <2>1, <2>2 DEF ReadBrief, Typed, TypeOK, tables
  <2>4. used'.puts = used.puts
    BY <1>3 DEF ReadBrief
  <2> QED BY <2>1, <2>2, <2>3, <2>4, TypedMoveOn
<1>4. ASSUME NEW t \in Threads, Learn(t) PROVE Typed'
  <2>1. PICK w \in threads[t].todo :
          /\ threads' = [threads EXCEPT ![t] = [threads[t] EXCEPT !.todo = threads[t].todo \ {w}]]
          /\ Noted(threads[t], w) \in Observation
          /\ Seen' = Seen \cup {Noted(threads[t], w)} /\ IsABag(observations')
    BY <1>4, LearnNotes
  <2> DEFINE th == [threads[t] EXCEPT !.todo = threads[t].todo \ {w}]
  <2>2. th \in Thread /\ Formed(th, used.puts) /\ th.put = threads[t].put /\ Busy(threads[t])
    BY <1>0, <1>4 DEF Thread, Formed, Busy, Typed, Learn
  <2> HIDE DEF th
  <2>3. threads' = [threads EXCEPT ![t] = th]
    BY <2>1 DEF th
  <2>4. UNCHANGED <<briefs, plans, rows, history, used, partial, moved>>
    BY <1>4 DEF Learn
  <2>5. BagToSet(observations') \subseteq Observation
    BY <2>1 DEF Typed, TypeOK, Seen
  <2>6. TypeOK'
    BY <2>1, <2>2, <2>3, <2>4, <2>5 DEF Typed, TypeOK
  <2> QED BY <2>2, <2>3, <2>4, <2>6, TypedMoveOn
<1>5. ASSUME NEW t \in Threads, Answer(t) PROVE Typed'
  <2>1. TypeOK'
    BY <1>5, IdleForm DEF Answer, Typed, TypeOK, tables
  <2>2. used'.puts = used.puts /\ threads' = [threads EXCEPT ![t] = Idle]
    BY <1>5 DEF Answer
  <2> QED BY <2>1, <2>2, IdleForm, TypedMoveOn
<1>6. ASSUME NEW t \in Threads, Fails(t) PROVE Typed'
  <2>1. threads[t].put \in Puts \/ threads[t].pc = "idle"
    BY LearningLoopAssumption DEF Typed, TypeOK, Formed, Busy, Puts
  <2>2. TypeOK'
    BY <1>6, <2>1, FailsLeaves, IdleForm DEF Leaves, Typed, TypeOK, tables
  <2>3. used'.puts = used.puts /\ threads' = [threads EXCEPT ![t] = Idle]
    BY <1>6, FailsLeaves DEF Leaves
  <2> QED BY <2>2, <2>3, IdleForm, TypedMoveOn
<1>7. ASSUME NEW r \in rows, DeleteRecord(r) PROVE Typed'
  <2>1. /\ used'.puts = used.puts
        /\ used' \in [puts : 0..MaxPuts, edits : 0..MaxEdits, failures : 0..MaxFailures,
                      crashes : 0..MaxCrashes]
    BY <1>7, LearningLoopAssumption DEF DeleteRecord, Typed, TypeOK
  <2>2. TypeOK'
    BY <1>7, <2>1 DEF DeleteRecord, Typed, TypeOK
  <2> QED BY <1>7, <2>1, <2>2 DEF DeleteRecord, Typed, Distinct
<1>8. ASSUME NEW s \in Sessions, EditsSession(s) PROVE Typed'
  <2>1. 1..used.puts \subseteq Puts
    BY LearningLoopAssumption DEF Typed, TypeOK, Puts
  <2>2. TypeOK'
    BY <1>8, <2>1, EditTakesRows DEF TakesRows, Typed, TypeOK
  <2> QED BY <1>8, <2>2, EditTakesRows DEF TakesRows, Typed, Distinct
<1>9. CASE Crash
  <2>1. /\ used'.puts = used.puts
        /\ used' \in [puts : 0..MaxPuts, edits : 0..MaxEdits, failures : 0..MaxFailures,
                      crashes : 0..MaxCrashes]
    BY <1>9, LearningLoopAssumption DEF Crash, Typed, TypeOK
  <2>2. \A t \in Threads : threads[t].pc \in {"read", "learn"} => threads[t].put \in Puts
    BY LearningLoopAssumption DEF Typed, TypeOK, Formed, Busy, Puts
  <2>3. TypeOK'
    BY <1>9, <2>1, <2>2, IdleForm DEF Crash, Typed, TypeOK, tables
  <2> QED BY <1>9, <2>3, IdleForm DEF Crash, Typed, Distinct
<1>10. CASE UNCHANGED vars
  BY <1>10 DEF vars, tables, Typed, TypeOK, Distinct
<1> QED BY <1>1, <1>2, <1>3, <1>4, <1>5, <1>6, <1>7, <1>8, <1>9, <1>10, Cases

(***************************************************************************)
(* Records and observations                                                *)
(***************************************************************************)

\* Records with a number of their own
LEMMA ConsistentRows ==
  ASSUME NEW R, NEW O, NEW n \in Nat, Consistent(R, O, n), NEW S, NEW q \in 1..n,
         \A r \in S : r.put = q,
         \A r, x \in S : r.id = x.id => r = x,
         \A r \in R : r.put # q,
         \A o \in O : o.put # q
  PROVE  Consistent(R \cup S, O, n)
<1>1. \A r \in R \cup S : r.put <= n
  BY DEF Consistent
<1>2. \A r, x \in R \cup S : Same(r, x) => r = x
  BY DEF Consistent, Same
<1>3. \A o \in O, r \in R \cup S : From(o, r, o.cell) => o.cell \in r.cells
  BY DEF Consistent, From
<1> QED BY <1>1, <1>2, <1>3 DEF Consistent

\* An observation from a record in hand
LEMMA ConsistentObservation ==
  ASSUME NEW R, NEW O, NEW n \in Nat, Consistent(R, O, n), NEW o,
         o.put <= n,
         \A r \in R : From(o, r, o.cell) => o.cell \in r.cells,
         \A x \in O : x.put = o.put => x.scope = o.scope
  PROVE  Consistent(R, O \cup {o}, n)
BY DEF Consistent

\* The types the lemmas need of tables
LEMMA Numbers ==
  ASSUME Typed
  PROVE  /\ \A r \in Recorded : r \in Row /\ r.put \in Nat
         /\ \A o \in Seen : o \in Observation /\ o.put \in Nat
         /\ used.puts \in Nat
BY DEF Typed, TypeOK, Recorded, Seen, Row, Observation, Puts

LEMMA RecordsStep ==
  ASSUME IInv, [Next]_vars
  PROVE  /\ Consistent(Recorded', Seen', used'.puts)
         /\ Sourced(Recorded', Seen', plans')
         /\ OnceEach(observations')
<1> DEFINE Goal == /\ Consistent(Recorded', Seen', used'.puts)
                   /\ Sourced(Recorded', Seen', plans')
                   /\ OnceEach(observations')
<1>0. Typed /\ Typed'
  BY TypedStep DEF IInv
<1> HIDE DEF Goal
\* Steps that leave records and observations alone
<1>1. ASSUME Recorded' = Recorded, UNCHANGED <<observations, plans>>, used.puts <= used'.puts
      PROVE  Goal
  <2>1. Consistent(Recorded, Seen, used'.puts)
    <3>1. used'.puts \in Nat
      BY <1>0, Numbers DEF Typed, TypeOK
    <3> QED BY <1>0, <1>1, <3>1, Numbers DEF IInv, Consistent
  <2>2. Seen' = Seen
    BY <1>1 DEF Seen
  <2> QED BY <1>1, <2>1, <2>2 DEF IInv, Goal
<1>2. ASSUME NEW t \in Threads, Store(t) PROVE Goal
  <2> DEFINE th == threads[t]
  <2>1. th.pc = "store" /\ th.put \in 1..used.puts
    BY <1>0, <1>2 DEF Store, Typed, Formed, Busy
  <2>2. (\A r \in Recorded : r.put # th.put) /\ (\A o \in Seen : o.put # th.put)
    BY <2>1 DEF IInv, Following, Held
  <2>3. Recorded' = Recorded \cup Stored(th) /\ UNCHANGED <<observations, plans, used>>
    BY <1>0, <1>2, StoreRecords DEF Store
  <2>4. /\ \A r \in Stored(th) : r.put = th.put
        /\ \A r, x \in Stored(th) : r.id = x.id => r = x
    BY <1>0, <2>1, StoredRows
  <2> HIDE DEF th
  <2>5. Consistent(Recorded \cup Stored(th), Seen, used.puts)
    BY <1>0, <2>1, <2>2, <2>4, Numbers, ConsistentRows DEF IInv
  <2>6. Sourced(Recorded \cup Stored(th), Seen, plans)
    BY DEF IInv, Sourced
  <2>7. Seen' = Seen /\ used'.puts = used.puts
    BY <2>3 DEF Seen
  <2> QED BY <2>3, <2>5, <2>6, <2>7 DEF IInv, Goal
<1>3. ASSUME NEW t \in Threads, Learn(t) PROVE Goal
  <2>1. PICK w \in threads[t].todo :
          /\ w \in Row \X Cells /\ InHand(w, threads[t], Recorded, Seen, plans)
          /\ Seen' = Seen \cup {Noted(threads[t], w)} /\ OnceEach(observations')
    BY <1>3, LearnNotes
  <2> DEFINE o == Noted(threads[t], w)
  <2>2. /\ o.put = threads[t].put /\ o.scope = threads[t].scope /\ o.cell = w[2]
        /\ o.source = w[1].id /\ o.plan = threads[t].plan
    BY <2>1 DEF Noted, ScopeOf, InHand
  <2>3. threads[t].pc = "learn" /\ threads[t].put \in 1..used.puts
    BY <1>0, <1>3 DEF Learn, Typed, Formed, Busy
  <2>4. Recorded' = Recorded /\ UNCHANGED <<plans, used>>
    BY <1>3 DEF Learn, Recorded
  <2>5. Consistent(Recorded, Seen \cup {o}, used.puts)
    <3>1. \A r \in Recorded : From(o, r, o.cell) => o.cell \in r.cells
      BY <2>1, <2>2 DEF From, InHand, Same
    <3>2. \A x \in Seen : x.put = o.put => x.scope = o.scope
      BY <2>2, <2>3 DEF IInv, Following, Held
    <3>3. o.put <= used.puts
      BY <2>2, <2>3
    <3> HIDE DEF o
    <3> QED BY <1>0, <3>1, <3>2, <3>3, Numbers, ConsistentObservation DEF IInv
  <2>6. Sourced(Recorded, Seen \cup {o}, plans)
    <3>1. o.plan \in plans => From(o, w[1], o.cell) /\ o.cell \in w[1].cells /\ w[1].plan = o.plan
                                /\ w[1] \in Recorded
      BY <2>1, <2>2 DEF From, InHand
    <3> HIDE DEF o
    <3> QED BY <3>1 DEF IInv, Sourced
  <2> QED BY <2>1, <2>4, <2>5, <2>6 DEF Goal
<1>4. ASSUME TakesRows PROVE Goal
  <2>1. Seen' = Seen /\ OnceEach(observations')
    BY <1>4 DEF TakesRows, Seen, IInv
  <2>2. Consistent(Recorded', Seen', used'.puts)
    BY <1>4, <2>1 DEF TakesRows, IInv, Consistent
  <2>3. Sourced(Recorded', Seen', plans')
    BY <1>4, <2>1 DEF TakesRows, IInv, Sourced
  <2> QED BY <2>1, <2>2, <2>3 DEF Goal
<1>5. ASSUME NEW t \in Threads, ReadBrief(t) \/ Answer(t) \/ Fails(t) PROVE Goal
  <2>1. UNCHANGED <<rows, history, observations, plans>> /\ used'.puts = used.puts
    BY <1>0, <1>5, FailsLeaves DEF ReadBrief, Answer, Leaves, tables
  <2>2. Recorded' = Recorded /\ used.puts <= used'.puts
    BY <1>0, <2>1, Numbers DEF Recorded
  <2> QED BY <1>1, <2>1, <2>2
<1>6. ASSUME NEW t \in Threads, NEW p \in Plans, NEW b \in Batches, Begin(t, p, b) PROVE Goal
  <2>1. Recorded' = Recorded /\ UNCHANGED <<observations, plans>>
    BY <1>6 DEF Begin, tables, Recorded
  <2>2. used.puts <= used'.puts
    BY <1>0, <1>6, Numbers DEF Begin, Typed, TypeOK
  <2> QED BY <1>1, <2>1, <2>2
<1>7. ASSUME Crash PROVE Goal
  <2>1. Recorded' = Recorded /\ UNCHANGED <<observations, plans>>
    BY <1>7 DEF Crash, tables, Recorded
  <2>2. used.puts <= used'.puts
    BY <1>0, <1>7, Numbers DEF Crash, Typed, TypeOK
  <2> QED BY <1>1, <2>1, <2>2
<1>8. ASSUME UNCHANGED vars PROVE Goal
  <2>1. Recorded' = Recorded /\ UNCHANGED <<observations, plans>> /\ used.puts <= used'.puts
    BY <1>0, <1>8, Numbers DEF vars, tables, Recorded
  <2> QED BY <1>1, <2>1
<1>9. Goal
  BY <1>0, <1>2, <1>3, <1>4, <1>5, <1>6, <1>7, <1>8, Cases, DeleteTakesRows, EditTakesRows
<1> QED BY <1>9 DEF Goal

(***************************************************************************)
(* What a PUT has in hand                                                  *)
(***************************************************************************)

\* Other PUTs write under other numbers, and sweeps take the rows with their
\* plans.
LEMMA HeldStays ==
  ASSUME NEW th, NEW R, NEW O, NEW ps, Held(th, R, O, ps),
         NEW R2, NEW O2, NEW ps2,
         \A r \in R2 \ R : r.put # th.put,
         \A r \in R : r.plan \in ps2 => r \in R2,
         O \subseteq O2, \A o \in O2 \ O : o.put # th.put,
         ps2 \subseteq ps
  PROVE  Held(th, R2, O2, ps2)
<1>1. Kept(th, R, O) => Kept(th, R2, O2)
  BY DEF Kept
<1>2. ASSUME NEW w \in th.todo, InHand(w, th, R, O, ps) PROVE InHand(w, th, R2, O2, ps2)
  <2>1. th.plan \in ps2 => w[1] \in R2
    BY <1>2 DEF InHand
  <2>2. \A r \in R2 : Same(r, w[1]) => r = w[1]
    BY <1>2 DEF InHand, Same
  <2>3. \A o \in O2 : ~From(o, w[1], w[2])
    BY <1>2 DEF InHand, From
  <2> QED BY <1>2, <2>1, <2>2, <2>3 DEF InHand
<1> QED BY <1>1, <1>2 DEF Held

\* A step of one thread, or of none
LEMMA FollowingMove ==
  ASSUME IInv, NEW t \in Threads, NEW th,
         threads' = [threads EXCEPT ![t] = th],
         Held(th, Recorded', Seen', plans'),
         \A r \in Recorded' \ Recorded : r.put = threads[t].put,
         \A r \in Recorded : r.plan \in plans' => r \in Recorded',
         Seen \subseteq Seen', \A o \in Seen' \ Seen : o.put = threads[t].put,
         Busy(threads[t]) \/ (Recorded' \subseteq Recorded /\ Seen' = Seen),
         plans' \subseteq plans
  PROVE  Following'
<1>1. threads \in [Threads -> Thread] /\ threads'[t] = th
  BY DEF IInv, Typed, TypeOK
<1>2. ASSUME NEW o \in Threads, o # t PROVE Held(threads[o], Recorded', Seen', plans')
  <2>1. CASE ~Busy(threads[o])
    BY <2>1 DEF Busy, Held
  <2>2. CASE Busy(threads[o])
    <3>1. Busy(threads[t]) => threads[t].put # threads[o].put
      BY <1>2, <2>2 DEF IInv, Typed, Distinct
    <3>2. Held(threads[o], Recorded, Seen, plans)
      BY DEF IInv, Following
    <3>3. /\ \A r \in Recorded' \ Recorded : r.put # threads[o].put
          /\ \A x \in Seen' \ Seen : x.put # threads[o].put
      BY <3>1
    <3> QED BY <3>2, <3>3, HeldStays
  <2> QED BY <2>1, <2>2
<1>3. \A o \in Threads : Held(threads'[o], Recorded', Seen', plans')
  BY <1>1, <1>2
<1> QED BY <1>3 DEF Following

LEMMA FollowingStep ==
  ASSUME IInv, [Next]_vars
  PROVE  Following'
<1>0. Typed /\ threads \in [Threads -> Thread]
  BY DEF IInv, Typed, TypeOK
<1>1. ASSUME NEW t \in Threads, NEW p \in Plans, NEW b \in Batches, Begin(t, p, b)
      PROVE  Following'
  <2> DEFINE th == [Idle EXCEPT !.pc = "store", !.plan = p, !.put = used.puts + 1, !.batch = b]
  <2>1. Recorded' = Recorded /\ Seen' = Seen /\ plans' = plans
    BY <1>1 DEF Begin, tables, Recorded, Seen
  <2>2. (\A r \in Recorded : r.put # used.puts + 1) /\ (\A o \in Seen : o.put # used.puts + 1)
    BY <1>0, Numbers DEF IInv, Consistent
  <2>3. th.pc = "store" /\ th.put = used.puts + 1
    BY DEF Idle
  <2> HIDE DEF th
  <2>4. Held(th, Recorded', Seen', plans')
    BY <2>1, <2>2, <2>3 DEF Held
  <2>5. threads' = [threads EXCEPT ![t] = th]
    BY <1>1 DEF Begin, th
  <2> QED BY <2>1, <2>4, <2>5, FollowingMove
<1>2. ASSUME NEW t \in Threads, Store(t) PROVE Following'
  <2> DEFINE S  == Stored(threads[t])
             th == [threads[t] EXCEPT !.pc = "read", !.todo = {w \in S \X Cells : w[2] \in w[1].cells}]
  <2>1. /\ \A r \in S : r \in Row /\ r.put = threads[t].put /\ r.plan = threads[t].plan
        /\ \A r, x \in S : r.id = x.id => r = x
    BY <1>0, <1>2, StoredRows DEF Store
  <2>2. /\ Recorded' = Recorded \cup S /\ Seen' = Seen /\ plans' = plans
        /\ Busy(threads[t])
    BY <1>0, <1>2, StoreRecords DEF Store, Seen, Busy
  <2>3. (\A r \in Recorded : r.put # threads[t].put) /\ (\A o \in Seen : o.put # threads[t].put)
    BY <1>2 DEF Store, IInv, Following, Held
  <2> HIDE DEF S
  <2>4. /\ th.pc = "read" /\ th.put = threads[t].put /\ th.plan = threads[t].plan
        /\ th.todo = {w \in S \X Cells : w[2] \in w[1].cells}
    BY <1>0 DEF Thread
  <2>5. threads' = [threads EXCEPT ![t] = th]
    BY <1>0, <1>2 DEF Store, S
  <2> HIDE DEF th
  <2>6. Kept(th, Recorded', Seen')
    <3>1. ASSUME NEW r \in Recorded', r.put = th.put PROVE r \in S
      BY <2>2, <2>3, <2>4, <3>1
    <3>2. ASSUME NEW r \in S, NEW c \in r.cells PROVE <<r, c>> \in th.todo
      BY <2>1, <2>4 DEF Row
    <3> QED BY <2>1, <2>4, <3>1, <3>2 DEF Kept
  <2>7. ASSUME NEW w \in th.todo PROVE InHand(w, th, Recorded', Seen', plans')
    <3>1. w[1] \in S /\ w[2] \in w[1].cells
      BY <2>4
    <3>2. \A r \in Recorded' : Same(r, w[1]) => r = w[1]
      BY <2>1, <2>2, <2>3, <3>1 DEF Same
    <3>3. \A v \in th.todo : v[1].id = w[1].id => v[1] = w[1]
      BY <2>1, <2>4, <3>1
    <3>4. \A o \in Seen' : ~From(o, w[1], w[2])
      BY <2>1, <2>2, <2>3, <3>1 DEF From
    <3> QED BY <2>1, <2>2, <2>4, <3>1, <3>2, <3>3, <3>4 DEF InHand
  <2>8. Held(th, Recorded', Seen', plans')
    BY <2>2, <2>3, <2>4, <2>6, <2>7 DEF Held
  <2> QED BY <2>1, <2>2, <2>5, <2>8, FollowingMove
<1>3. ASSUME NEW t \in Threads, ReadBrief(t) PROVE Following'
  <2> DEFINE now == BriefNow(threads[t])
             th == IF now \in Scopes THEN [threads[t] EXCEPT !.pc = "learn", !.scope = now] ELSE Idle
  <2>1. Recorded' = Recorded /\ Seen' = Seen /\ plans' = plans
    BY <1>3 DEF ReadBrief, tables, Recorded, Seen
  <2>2. Held(threads[t], Recorded, Seen, plans) /\ threads[t].pc = "read"
    BY <1>3 DEF IInv, Following, ReadBrief
  <2>3. Held(th, Recorded, Seen, plans)
    <3>1. CASE now \in Scopes
      <4>1. /\ th.pc = "learn" /\ th.put = threads[t].put /\ th.plan = threads[t].plan
            /\ th.todo = threads[t].todo
        BY <1>0, <3>1 DEF Thread
      <4> HIDE DEF th
      <4> QED BY <2>2, <4>1 DEF Held, Kept, InHand
    <3>2. CASE now \notin Scopes
      BY <3>2, IdleForm
    <3> QED BY <3>1, <3>2
  <2>4. threads' = [threads EXCEPT ![t] = th]
    BY <1>0, <1>3 DEF ReadBrief
  <2> HIDE DEF th
  <2> QED BY <2>1, <2>3, <2>4, FollowingMove
<1>4. ASSUME NEW t \in Threads, Learn(t) PROVE Following'
  <2>1. PICK w \in threads[t].todo :
          /\ threads' = [threads EXCEPT ![t] = [threads[t] EXCEPT !.todo = threads[t].todo \ {w}]]
          /\ w \in Row \X Cells /\ InHand(w, threads[t], Recorded, Seen, plans)
          /\ Seen' = Seen \cup {Noted(threads[t], w)}
    BY <1>4, LearnNotes
  <2> DEFINE o  == Noted(threads[t], w)
             th == [threads[t] EXCEPT !.todo = threads[t].todo \ {w}]
  <2>2. /\ o.put = threads[t].put /\ o.scope = threads[t].scope /\ o.cell = w[2]
        /\ o.source = w[1].id
    BY DEF Noted, ScopeOf
  <2>3. /\ th.pc = "learn" /\ th.put = threads[t].put /\ th.plan = threads[t].plan
        /\ th.scope = threads[t].scope /\ th.todo = threads[t].todo \ {w}
    BY <1>0, <1>4 DEF Learn, Thread
  <2>4. /\ Recorded' = Recorded /\ plans' = plans /\ threads[t].pc = "learn"
        /\ threads[t].todo \subseteq Row \X Cells
    BY <1>0, <1>4 DEF Learn, Recorded, Thread
  <2>5. Held(threads[t], Recorded, Seen, plans)
    BY DEF IInv, Following
  <2>6. Seen' = Seen \cup {o}
    BY <2>1
  <2> HIDE DEF o, th
  <2>7. Kept(th, Recorded, Seen')
    <3>1. ASSUME NEW r \in Recorded, r.put = th.put, NEW c \in r.cells
          PROVE  <<r, c>> \in th.todo \/ \E x \in Seen' : From(x, r, c)
      <4>1. CASE <<r, c>> = w
        BY <2>1, <2>2, <2>3, <2>6, <3>1, <4>1 DEF From
      <4>2. CASE <<r, c>> # w
        BY <2>3, <2>4, <2>5, <2>6, <3>1, <4>2 DEF Held, Kept
      <4> QED BY <4>1, <4>2
    <3> QED BY <2>3, <2>4, <2>5, <3>1 DEF Held, Kept
  <2>8. ASSUME NEW v \in th.todo PROVE InHand(v, th, Recorded, Seen', plans)
    <3>1. v \in threads[t].todo /\ v # w /\ InHand(v, threads[t], Recorded, Seen, plans)
      BY <2>3, <2>4, <2>5 DEF Held
    <3>2. ~From(o, v[1], v[2])
      <4>1. SUFFICES ASSUME From(o, v[1], v[2]) PROVE FALSE
        OBVIOUS
      <4>2. v[2] = w[2] /\ v[1].id = w[1].id
        BY <2>2, <4>1 DEF From
      <4>3. v[1] = w[1]
        BY <2>1, <3>1, <4>2 DEF InHand
      <4>4. v \in Row \X Cells
        BY <2>4, <3>1
      <4> QED BY <2>1, <3>1, <4>2, <4>3, <4>4
    <3> QED BY <2>3, <2>6, <3>1, <3>2 DEF InHand
  <2>9. Held(th, Recorded', Seen', plans')
    BY <2>2, <2>3, <2>4, <2>5, <2>6, <2>7, <2>8 DEF Held
  <2>10. threads' = [threads EXCEPT ![t] = th]
    BY <2>1 DEF th
  <2> QED BY <2>2, <2>4, <2>6, <2>9, <2>10, FollowingMove DEF Busy
<1>5. ASSUME NEW t \in Threads, Answer(t) \/ Fails(t) PROVE Following'
  <2>1. threads' = [threads EXCEPT ![t] = Idle] /\ UNCHANGED tables
    BY <1>0, <1>5, FailsLeaves DEF Answer, Leaves
  <2>2. Recorded' = Recorded /\ Seen' = Seen /\ plans' = plans
    BY <2>1 DEF tables, Recorded, Seen
  <2> QED BY <2>1, <2>2, IdleForm, FollowingMove
<1>6. ASSUME TakesRows PROVE Following'
  <2>1. Seen' = Seen /\ threads' = threads
    BY <1>6 DEF TakesRows, Seen
  <2>2. \A t \in Threads : Held(threads[t], Recorded', Seen', plans')
    BY <1>6, <2>1, HeldStays DEF TakesRows, IInv, Following
  <2> QED BY <2>1, <2>2 DEF Following
<1>7. CASE Crash
  BY <1>7, IdleForm DEF Crash, Following
<1>8. CASE UNCHANGED vars
  BY <1>8 DEF vars, tables, IInv, Following, Recorded, Seen
<1> QED BY <1>0, <1>1, <1>2, <1>3, <1>4, <1>5, <1>6, <1>7, <1>8, Cases, DeleteTakesRows,
           EditTakesRows

(***************************************************************************)
(* What a PUT that is done has taught                                      *)
(***************************************************************************)

LEMMA TaughtStays ==
  ASSUME NEW q, Taught(q), UNCHANGED <<briefs, plans, moved>>,
         Seen \subseteq Seen', \A o \in Seen' \ Seen : o.put # q,
         \A r \in Recorded' \ Recorded : r.put # q, \A r \in rows' \ rows : r.put # q
  PROVE  Taught(q)'
<1>1. Whole(q, Recorded', Seen')
  BY DEF Taught, Whole
<1>2. ASSUME q \notin moved, NEW scope \in Scopes, NEW r \in Counted(scope)', r.put = q
      PROVE  Backed(r, scope, Seen')
  <2>1. r \in rows' /\ r.plan \in plans /\ briefs[SessionOf[r.plan]] = scope
    BY <1>2 DEF Counted
  <2>2. r \in rows
    BY <1>2, <2>1
  <2> QED BY <1>2, <2>1, <2>2 DEF Taught, Counted, Backed
<1> QED BY <1>1, <1>2 DEF Taught

\* A thread that moves on with its PUT, or that is done with it and taught it
LEMMA TaughtMove ==
  ASSUME IInv, NEW t \in Threads, NEW th,
         threads' = [threads EXCEPT ![t] = th],
         partial \subseteq partial', UNCHANGED <<briefs, plans, moved>>,
         Seen \subseteq Seen', \A o \in Seen' \ Seen : o.put = threads[t].put,
         \A r \in Recorded' \ Recorded : r.put = threads[t].put,
         \A r \in rows' \ rows : r.put = threads[t].put,
         \/ th.put = threads[t].put
         \/ UNCHANGED <<rows, history, observations>>
              /\ (Busy(threads[t]) /\ threads[t].put \notin partial' => Taught(threads[t].put))
  PROVE  DoneTaught'
<1>1. threads'[t] = th /\ \A o \in Threads \ {t} : threads'[o] = threads[o]
  BY DEF IInv, Typed, TypeOK
<1>2. \A o \in Threads : ~Busy(threads[o]) => threads[o].put \notin Puts
  BY LearningLoopAssumption DEF IInv, Typed, Formed, Puts
<1>3. ASSUME NEW q \in Finished' PROVE Taught(q)'
  <2>1. q \in Puts /\ q \notin partial /\ q \notin partial' /\ \A o \in Threads : q # threads'[o].put
    BY <1>3 DEF Finished, Learning
  <2>2. CASE q = threads[t].put
    <3>1. Busy(threads[t]) /\ th.put # threads[t].put
      BY <1>1, <1>2, <2>1, <2>2
    <3>2. Taught(q) /\ UNCHANGED <<rows, history, observations>>
      BY <2>1, <2>2, <3>1
    <3>3. Recorded' = Recorded /\ Seen' = Seen
      BY <3>2 DEF Recorded, Seen
    <3> QED BY <3>2, <3>3, TaughtStays
  <2>3. CASE q # threads[t].put
    <3>1. q \in Finished
      BY <1>1, <2>1, <2>3 DEF Finished, Learning
    <3>2. Taught(q)
      BY <3>1 DEF IInv, DoneTaught
    <3> QED BY <2>3, <3>2, TaughtStays
  <2> QED BY <2>2, <2>3
<1> QED BY <1>3 DEF DoneTaught

\* A PUT that has not stored its batch, or that found no client and target, has
\* taught nothing; one that went through the batch has taught all of it.
LEMMA TaughtUnstored ==
  ASSUME IInv, NEW t \in Threads, threads[t].pc = "store"
  PROVE  Taught(threads[t].put)
<1>1. (\A r \in Recorded : r.put # threads[t].put) /\ (\A o \in Seen : o.put # threads[t].put)
  BY DEF IInv, Following, Held
<1> QED BY <1>1 DEF Taught, Whole, Counted, Recorded

LEMMA TaughtNothing ==
  ASSUME IInv, NEW t \in Threads, threads[t].pc = "read", BriefNow(threads[t]) \notin Scopes
  PROVE  Taught(threads[t].put)
<1>1. Kept(threads[t], Recorded, Seen) /\ (\A o \in Seen : o.put # threads[t].put)
  BY DEF IInv, Following, Held
<1>2. ASSUME NEW r \in rows, r.put = threads[t].put PROVE briefs[SessionOf[r.plan]] \notin Scopes
  <2>1. r.plan = threads[t].plan
    BY <1>1, <1>2 DEF Kept, Recorded
  <2> QED BY <2>1 DEF BriefNow
<1> QED BY <1>1, <1>2 DEF Taught, Whole, Counted

LEMMA TaughtAll ==
  ASSUME IInv, NEW t \in Threads, threads[t].pc = "learn", threads[t].todo = {}
  PROVE  Taught(threads[t].put)
<1>1. /\ Kept(threads[t], Recorded, Seen)
      /\ \A o \in Seen : o.put = threads[t].put => o.scope = threads[t].scope
  BY DEF IInv, Following, Held
<1>2. \A r \in Recorded : r.put = threads[t].put =>
        r.plan = threads[t].plan /\ \A c \in r.cells : \E o \in Seen : From(o, r, c)
  BY <1>1 DEF Kept
<1>3. ASSUME threads[t].put \notin moved, NEW scope \in Scopes, NEW r \in Counted(scope),
             r.put = threads[t].put
      PROVE  Backed(r, scope, Seen)
  <2>1. r \in Recorded /\ briefs[SessionOf[r.plan]] = scope
    BY <1>3 DEF Counted, Recorded
  <2>2. threads[t].scope = scope
    BY <1>2, <1>3, <2>1 DEF IInv, Current, BriefNow
  <2> QED BY <1>1, <1>2, <1>3, <2>1, <2>2 DEF Backed, From
<1> QED BY <1>2, <1>3 DEF Taught, Whole

LEMMA DoneTaughtStep ==
  ASSUME IInv, [Next]_vars
  PROVE  DoneTaught'
<1>0. Typed /\ threads \in [Threads -> Thread]
  BY DEF IInv, Typed, TypeOK
<1>1. ASSUME NEW t \in Threads, NEW p \in Plans, NEW b \in Batches, Begin(t, p, b)
      PROVE  DoneTaught'
  <2>1. /\ UNCHANGED <<rows, history, observations, briefs, plans, moved, partial>>
        /\ ~Busy(threads[t])
    BY <1>1 DEF Begin, tables, Busy
  <2>2. Recorded' = Recorded /\ Seen' = Seen
    BY <2>1 DEF Recorded, Seen
  <2>3. PICK th : threads' = [threads EXCEPT ![t] = th]
    BY <1>1 DEF Begin
  <2> QED BY <2>1, <2>2, <2>3, TaughtMove
<1>2. ASSUME NEW t \in Threads, Store(t) PROVE DoneTaught'
  <2> DEFINE th == [threads[t] EXCEPT !.pc = "read", !.todo =
                      {w \in Stored(threads[t]) \X Cells : w[2] \in w[1].cells}]
  <2>1. \A r \in Stored(threads[t]) : r.put = threads[t].put
    BY <1>0, <1>2, StoredRows DEF Store
  <2>2. /\ \A r \in Recorded' \ Recorded : r.put = threads[t].put
        /\ \A r \in rows' \ rows : r.put = threads[t].put
    BY <1>0, <1>2, <2>1, StoreRecords
  <2>3. UNCHANGED <<briefs, plans, moved, partial>> /\ Seen' = Seen
    BY <1>2 DEF Store, Seen
  <2>4. th.put = threads[t].put
    BY <1>0 DEF Thread
  <2>5. threads' = [threads EXCEPT ![t] = th]
    BY <1>0, <1>2 DEF Store
  <2> HIDE DEF th
  <2> QED BY <2>2, <2>3, <2>4, <2>5, TaughtMove
<1>3. ASSUME NEW t \in Threads, ReadBrief(t) PROVE DoneTaught'
  <2> DEFINE now == BriefNow(threads[t])
             th == IF now \in Scopes THEN [threads[t] EXCEPT !.pc = "learn", !.scope = now] ELSE Idle
  <2>1. UNCHANGED <<rows, history, observations, briefs, plans, moved, partial>>
    BY <1>3 DEF ReadBrief, tables
  <2>2. Recorded' = Recorded /\ Seen' = Seen
    BY <2>1 DEF Recorded, Seen
  <2>3. th.put = threads[t].put \/ Taught(threads[t].put)
    <3>1. CASE now \in Scopes
      BY <1>0, <3>1 DEF Thread
    <3>2. CASE now \notin Scopes
      BY <1>3, <3>2, TaughtNothing DEF ReadBrief
    <3> QED BY <3>1, <3>2
  <2>4. threads' = [threads EXCEPT ![t] = th]
    BY <1>3 DEF ReadBrief
  <2> HIDE DEF th
  <2> QED BY <2>1, <2>2, <2>3, <2>4, TaughtMove
<1>4. ASSUME NEW t \in Threads, Learn(t) PROVE DoneTaught'
  <2>1. PICK w \in threads[t].todo :
          /\ threads' = [threads EXCEPT ![t] = [threads[t] EXCEPT !.todo = threads[t].todo \ {w}]]
          /\ Seen' = Seen \cup {Noted(threads[t], w)}
    BY <1>4, LearnNotes
  <2>2. Noted(threads[t], w).put = threads[t].put
    BY DEF Noted
  <2>3. UNCHANGED <<rows, briefs, plans, moved, partial>> /\ Recorded' = Recorded
    BY <1>4 DEF Learn, Recorded
  <2> DEFINE th == [threads[t] EXCEPT !.todo = threads[t].todo \ {w}]
  <2>4. th.put = threads[t].put
    BY <1>0 DEF Thread
  <2>5. threads' = [threads EXCEPT ![t] = th]
    BY <2>1
  <2> HIDE DEF th
  <2> QED BY <2>1, <2>2, <2>3, <2>4, <2>5, TaughtMove
<1>5. ASSUME NEW t \in Threads, Answer(t) \/ Fails(t) PROVE DoneTaught'
  <2>1. threads' = [threads EXCEPT ![t] = Idle] /\ UNCHANGED <<tables, moved>>
    BY <1>0, <1>5, FailsLeaves DEF Answer, Leaves
  <2>2. Recorded' = Recorded /\ Seen' = Seen
    BY <2>1 DEF tables, Recorded, Seen
  <2>3. partial \subseteq partial'
    BY <1>0, <1>5, FailsLeaves DEF Answer
  <2>4. Taught(threads[t].put) \/ threads[t].put \in partial'
    BY <1>0, <1>5, FailsLeaves, TaughtAll, TaughtUnstored DEF Answer
  <2>5. UNCHANGED <<rows, history, observations, briefs, plans, moved>>
    BY <2>1 DEF tables
  <2> QED BY <2>1, <2>2, <2>3, <2>4, <2>5, TaughtMove
<1>6. ASSUME NEW r \in rows, DeleteRecord(r) PROVE DoneTaught'
  <2>1. /\ UNCHANGED <<briefs, plans, moved, partial, threads>>
        /\ Recorded' = Recorded /\ Seen' = Seen /\ rows' \subseteq rows
    BY <1>6 DEF DeleteRecord, Recorded, Seen
  <2>2. Finished' = Finished
    BY <2>1 DEF Finished, Learning
  <2>3. \A q \in Finished : Taught(q)'
    BY <2>1, TaughtStays DEF IInv, DoneTaught
  <2> QED BY <2>2, <2>3 DEF DoneTaught
<1>7. ASSUME NEW s \in Sessions, EditsSession(s) PROVE DoneTaught'
  <2>1. TakesRows /\ moved' = moved \cup 1..used.puts
    BY <1>0, <1>7, EditTakesRows
  <2>2. Finished' = Finished /\ Seen' = Seen
    BY <2>1 DEF TakesRows, Finished, Learning, Seen
  <2>3. ASSUME NEW q \in Finished PROVE Taught(q)'
    <3>1. Whole(q, Recorded', Seen')
      BY <2>1, <2>2 DEF IInv, DoneTaught, Taught, Whole, TakesRows
    <3>2. ASSUME q \notin moved', NEW r \in rows' PROVE r.put # q
      <4>1. r \in Recorded /\ r.put \in Puts
        BY <1>0, <2>1, <3>2 DEF TakesRows, Recorded, Typed, TypeOK, Row
      <4>2. r.put \in 1..used.puts
        BY <1>0, <4>1, Numbers DEF IInv, Consistent, Puts
      <4> QED BY <2>1, <3>2, <4>2
    <3> QED BY <3>1, <3>2 DEF Taught, Counted
  <2> QED BY <2>2, <2>3 DEF DoneTaught
<1>8. CASE Crash
  <2>1. UNCHANGED <<rows, history, observations, briefs, plans, moved>>
    BY <1>8 DEF Crash, tables
  <2>2. Recorded' = Recorded /\ Seen' = Seen
    BY <2>1 DEF Recorded, Seen
  <2>3. ASSUME NEW q \in Finished' PROVE Taught(q)
    <3>1. /\ q \in Puts /\ q \notin partial
          /\ \A o \in Threads : threads[o].pc \in {"read", "learn"} => q # threads[o].put
      BY <1>8, <2>3 DEF Crash, Finished
    <3>2. CASE q \in Finished
      BY <3>2 DEF IInv, DoneTaught
    <3>3. CASE q \notin Finished
      <4>1. PICK o \in Threads : q = threads[o].put
        BY <3>1, <3>3 DEF Finished, Learning
      <4>2. threads[o].pc = "store"
        <5>1. threads[o].pc # "idle"
          BY <3>1, <4>1, LearningLoopAssumption DEF IInv, Typed, Formed, Busy, Puts
        <5> QED BY <1>0, <3>1, <4>1, <5>1 DEF Thread
      <4> QED BY <4>1, <4>2, TaughtUnstored
    <3> QED BY <3>2, <3>3
  <2>4. \A q \in Finished' : Taught(q)'
    BY <2>1, <2>2, <2>3, TaughtStays
  <2> QED BY <2>4 DEF DoneTaught
<1>9. CASE UNCHANGED vars
  BY <1>9 DEF vars, tables, IInv, DoneTaught, Finished, Learning, Taught, Counted, Recorded, Seen
<1> QED BY <1>1, <1>2, <1>3, <1>4, <1>5, <1>6, <1>7, <1>8, <1>9, Cases

(***************************************************************************)
(* The brief a PUT learns under                                            *)
(***************************************************************************)

LEMMA CurrentMove ==
  ASSUME IInv, NEW t \in Threads, NEW th,
         threads' = [threads EXCEPT ![t] = th], UNCHANGED <<briefs, moved>>,
         th.pc = "learn" => \/ th.scope = BriefNow(th)
                            \/ /\ threads[t].pc = "learn" /\ th.put = threads[t].put
                               /\ th.scope = threads[t].scope /\ th.plan = threads[t].plan
  PROVE  Current'
<1>1. threads'[t] = th /\ \A o \in Threads \ {t} : threads'[o] = threads[o]
  BY DEF IInv, Typed, TypeOK
<1> QED BY <1>1 DEF IInv, Current, BriefNow

LEMMA CurrentStep ==
  ASSUME IInv, [Next]_vars
  PROVE  Current'
<1>0. Typed /\ threads \in [Threads -> Thread]
  BY DEF IInv, Typed, TypeOK
<1>1. ASSUME NEW t \in Threads, NEW p \in Plans, NEW b \in Batches, Begin(t, p, b)
      PROVE  Current'
  <2> DEFINE th == [Idle EXCEPT !.pc = "store", !.plan = p, !.put = used.puts + 1, !.batch = b]
  <2>1. UNCHANGED <<briefs, moved>> /\ threads' = [threads EXCEPT ![t] = th] /\ th.pc # "learn"
    BY <1>1 DEF Begin, tables, Idle
  <2> HIDE DEF th
  <2> QED BY <2>1, CurrentMove
<1>2. ASSUME NEW t \in Threads, Store(t) PROVE Current'
  <2> DEFINE th == [threads[t] EXCEPT !.pc = "read", !.todo =
                      {w \in Stored(threads[t]) \X Cells : w[2] \in w[1].cells}]
  <2>1. UNCHANGED <<briefs, moved>> /\ threads' = [threads EXCEPT ![t] = th] /\ th.pc # "learn"
    BY <1>0, <1>2 DEF Store, Thread
  <2> HIDE DEF th
  <2> QED BY <2>1, CurrentMove
<1>3. ASSUME NEW t \in Threads, ReadBrief(t) PROVE Current'
  <2> DEFINE now == BriefNow(threads[t])
             th == IF now \in Scopes THEN [threads[t] EXCEPT !.pc = "learn", !.scope = now] ELSE Idle
  <2>1. UNCHANGED <<briefs, moved>> /\ threads' = [threads EXCEPT ![t] = th]
    BY <1>3 DEF ReadBrief, tables
  <2>2. th.pc = "learn" => th.scope = BriefNow(th)
    BY <1>0, IdleForm DEF Thread, Idle, BriefNow
  <2> HIDE DEF th
  <2> QED BY <2>1, <2>2, CurrentMove
<1>4. ASSUME NEW t \in Threads, Learn(t) PROVE Current'
  <2>1. PICK w \in threads[t].todo :
          threads' = [threads EXCEPT ![t] = [threads[t] EXCEPT !.todo = threads[t].todo \ {w}]]
    BY <1>4, LearnNotes
  <2> DEFINE th == [threads[t] EXCEPT !.todo = threads[t].todo \ {w}]
  <2>2. /\ threads[t].pc = "learn" /\ th.put = threads[t].put
        /\ th.scope = threads[t].scope /\ th.plan = threads[t].plan
    BY <1>0, <1>4 DEF Learn, Thread
  <2>3. UNCHANGED <<briefs, moved>>
    BY <1>4 DEF Learn
  <2> HIDE DEF th
  <2> QED BY <2>1, <2>2, <2>3, CurrentMove DEF th
<1>5. ASSUME NEW t \in Threads, Answer(t) \/ Fails(t) PROVE Current'
  <2>1. threads' = [threads EXCEPT ![t] = Idle] /\ UNCHANGED <<briefs, moved>>
    BY <1>0, <1>5, FailsLeaves DEF Answer, Leaves, tables
  <2>2. Idle.pc # "learn"
    BY DEF Idle
  <2> QED BY <2>1, <2>2, CurrentMove
<1>6. ASSUME NEW r \in rows, DeleteRecord(r) PROVE Current'
  BY <1>6 DEF DeleteRecord, IInv, Current, BriefNow
<1>7. ASSUME NEW s \in Sessions, EditsSession(s) PROVE Current'
  <2>1. threads' = threads /\ moved' = moved \cup 1..used.puts
    BY <1>0, <1>7, EditTakesRows DEF TakesRows
  <2>2. \A t \in Threads : threads[t].pc = "learn" => threads[t].put \in 1..used.puts
    BY <1>0 DEF Typed, Formed, Busy
  <2> QED BY <2>1, <2>2 DEF Current
<1>8. CASE Crash
  BY <1>8 DEF Crash, Idle, Current
<1>9. CASE UNCHANGED vars
  BY <1>9 DEF vars, tables, IInv, Current, BriefNow
<1> QED BY <1>1, <1>2, <1>3, <1>4, <1>5, <1>6, <1>7, <1>8, <1>9, Cases

(***************************************************************************)
(* Theorems                                                                *)
(***************************************************************************)

LEMMA IInvInit ==
  ASSUME Init
  PROVE  IInv
<1>1. Recorded = {} /\ Seen = {} /\ OnceEach(observations)
  BY DEF Init, Recorded, Seen, BagToSet, EmptyBag, SetToBag, OnceEach
<1>2. \A t \in Threads : threads[t] = Idle
  BY DEF Init
<1>3. Following /\ Current
  BY <1>2, IdleForm DEF Following, Current, Idle
<1>4. DoneTaught
  BY <1>1 DEF Init, DoneTaught, Taught, Whole, Counted
<1> QED BY <1>1, <1>3, <1>4, TypedInit DEF IInv, Consistent, Sourced

THEOREM Invariance == Spec => []IInv
<1>1. IInv /\ [Next]_vars => IInv'
  BY TypedStep, RecordsStep, FollowingStep, DoneTaughtStep, CurrentStep DEF IInv
<1> QED BY <1>1, IInvInit, PTL DEF Spec

\* Every table, thread and counter keeps its type.
THEOREM TypeCorrect == Spec => []TypeOK
<1>1. IInv => TypeOK
  BY DEF IInv, Typed
<1> QED BY <1>1, Invariance, PTL

\* Whatever upsert_actuals_records replaces, planners delete or clients send
\* back with its id, the record of an observation is in force or archived, as
\* long as its plan is.
THEOREM SourcesKnown == Spec => []SourceKnown
<1>1. IInv => SourceKnown
  BY DEF IInv, Sourced, From, Seen, SourceKnown
<1> QED BY <1>1, Invariance, PTL

\* put_plan_actuals learns nothing twice and all under one client and target,
\* and all of its batch when nothing cuts it short.
THEOREM PutsAreLearnedAsOne == Spec => []LearnedAsOne
<1>1. ASSUME IInv, NEW q \in Puts
      PROVE  /\ \A o, n \in Learned(q) : o.scope = n.scope
             /\ \A o \in Learned(q) : observations[o] = 1
  BY <1>1 DEF IInv, Consistent, OnceEach, Learned, Seen, BagToSet
<1>2. ASSUME IInv, NEW q \in Finished, Learned(q) # {}, NEW r \in Recorded, r.put = q
      PROVE  {o.cell : o \in {x \in Learned(q) : x.source = r.id}} = r.cells
  <2>1. \A c \in r.cells : \E o \in Seen : From(o, r, c)
    BY <1>2 DEF IInv, DoneTaught, Taught, Whole, Learned, Seen
  <2>2. \A o \in Seen : From(o, r, o.cell) => o.cell \in r.cells
    BY <1>2 DEF IInv, Consistent
  <2> QED BY <1>2, <2>1, <2>2 DEF From, Learned, Seen
<1>3. IInv => LearnedAsOne
  BY <1>1, <1>2 DEF LearnedAsOne
<1> QED BY <1>3, Invariance, PTL

\* Each row the banner counts for a client and target was learned from under
\* them, unless its session changed meanwhile or the learning was cut short.
THEOREM BannersAreBacked == Spec => []BannerBacked
<1>1. ASSUME IInv, NEW scope \in Scopes, NEW r \in Counted(scope), r.put \in Finished \ moved
      PROVE  Backed(r, scope, Seen)
  BY <1>1 DEF IInv, DoneTaught, Taught
<1>2. IInv => BannerBacked
  BY <1>1 DEF BannerBacked, Backed, From, Learned, Seen
<1> QED BY <1>2, Invariance, PTL
=============================================================================
