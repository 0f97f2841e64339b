----------------------------- MODULE AuditTrail -----------------------------
(***************************************************************************)
(* What PRD v6 FR-27 and FR-28 promise of a plan's actuals: every place (a *)
(* week of a plan, or its final settlement) holds one record at most, the  *)
(* records of a batch all arrive in one step, and a record leaves its      *)
(* place only when it is in the log, or when its plan goes.  That no       *)
(* record of a batch is missing is not said here (AuditComplete says it of *)
(* Actuals): this specification does not know what a batch was to bring.   *)
(***************************************************************************)
CONSTANTS Plans, Records    \* a record names its plan, its slot and its put, the batch it is of

VARIABLES
  plans,      \* the plans there are
  current,    \* the records in force
  log         \* the records that were superseded or removed

SamePlace(r, n) == r.plan = n.plan /\ r.slot = n.slot
OnePerPlace(rs) == \A r, n \in rs : SamePlace(r, n) => r = n

Init == plans = Plans /\ current = {} /\ log = {}

\* A batch for one plan, of which nothing arrived before: what it brings, what
\* that replaces, and what it brings and replaces again itself.
Put ==
  LET new    == current' \ current
      gone   == current \ current'
      logged == log' \ log
  IN  /\ new \subseteq Records \ log
      /\ \E p \in plans : \A r \in new \cup gone \cup logged : r.plan = p
      /\ \A r, n \in new \cup (logged \ current) : r.put = n.put
      /\ \A r \in new \cup (logged \ current), o \in current \cup log : o.put # r.put
      /\ OnePerPlace(current')
      /\ log \subseteq log' /\ gone \subseteq log' /\ logged \cap current' = {}
      /\ \A r \in gone \cup logged : \E n \in new : SamePlace(r, n)
      /\ UNCHANGED plans

\* A removal, in two steps of which the second may never come
LogFirst ==
  /\ \E r \in current : log' = log \cup {r}
  /\ UNCHANGED <<plans, current>>

Retire ==
  /\ \E r \in current \cap log : current' = current \ {r}
  /\ UNCHANGED <<plans, log>>

DropPlans ==
  /\ \E gone \in SUBSET plans :
       /\ plans' = plans \ gone
       /\ current' = {r \in current : r.plan \notin gone}
  /\ UNCHANGED log

Next == Put \/ LogFirst \/ Retire \/ DropPlans

Spec == Init /\ [][Next]_<<plans, current, log>>
=============================================================================
