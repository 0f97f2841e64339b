--------------------------- MODULE StartupProofs ---------------------------
(***************************************************************************)
(* Proofs about Startup, for any storage.json, any rows of an older        *)
(* version and any number of crashes.  What a startup relies on is spread  *)
(* over its steps: that nothing but the import adds rows of the file, that *)
(* it begins on empty tables, and that a row is either backfilled, still   *)
(* to be, or imported since.                                               *)
(***************************************************************************)
EXTENDS Startup, TLAPS

Typed ==
  /\ TypeOK
  /\ next >= 1
  /\ todo \subseteq Stored /\ (todo # {} => boot = "backfill")

\* The ids among the first n - 1 rows of a part of the file
IdsBefore(part, n) == {part[i].id : i \in {j \in 1..Len(part) : j < n}}

AllOrNothing == imported \in {{}, FileIds}

\* An import has every row it came past, and until it is cut short the others
\* only if it had them before.
ImportFollowed ==
  /\ imported \subseteq FileIds
  /\ boot \in {"user", "project"} => next = 1
  /\ boot = "sessions" => IdsBefore(file.sessions, next) \subseteq imported
  /\ boot = "plans" => /\ IdsBefore(file.sessions, Len(file.sessions) + 1) \subseteq imported
                       /\ IdsBefore(file.plans, next) \subseteq imported
  /\ ~cut => AllOrNothing \/ (Importing /\ ~TablesEmpty)

\* The columns of a row are NULL or what its payload says.
Repeats(s) == sessions[s].columns = sessions[s].scope

ColumnsFollowed ==
  /\ \A s \in Stored : sessions[s].columns = Empty \/ Repeats(s)
  /\ boot = "backfill" => \A s \in Stored \ todo : Repeats(s)
  /\ boot \notin {"down", "backfill"} => \A s \in Stored \ recent : Repeats(s)

ImportAfterDeletion == Importing /\ deleted # {} => emptied

IInv ==
  /\ Typed
  /\ ImportFollowed
  /\ ColumnsFollowed
  /\ ImportAfterDeletion
  /\ DeletedStayDeleted

(***************************************************************************)
(* What the steps do                                                       *)
(***************************************************************************)

LEMMA EmptyScope == Empty \in Scope
BY DEF Empty, Scope

LEMMA FileRows ==
  ASSUME TypeOK
  PROVE  /\ file.sessions \in Seq(FileSession) /\ file.plans \in Seq(FilePlan)
         /\ FileIds = IdsBefore(file.sessions, Len(file.sessions) + 1)
                        \cup IdsBefore(file.plans, Len(file.plans) + 1)
<1>1. file.sessions \in Seq(FileSession) /\ file.plans \in Seq(FilePlan)
  BY StartupAssumption DEF TypeOK, File
<1>2. Len(file.sessions) \in Nat /\ Len(file.plans) \in Nat
  BY <1>1
<1> QED BY <1>1, <1>2 DEF FileIds, IdsBefore

\* The next row of a part of the file
LEMMA OneRowOn ==
  ASSUME NEW part, Len(part) \in Nat, NEW n \in 1..Len(part)
  PROVE  IdsBefore(part, n + 1) = IdsBefore(part, n) \cup {part[n].id}
BY DEF IdsBefore

LEMMA AllRows ==
  ASSUME NEW part, Len(part) \in Nat, NEW n \in Nat, n > Len(part)
  PROVE  IdsBefore(part, n) = IdsBefore(part, Len(part) + 1)
BY DEF IdsBefore

LEMMA ImportsSession ==
  ASSUME Typed, ImportSession
  PROVE  /\ file.sessions[next] \in FileSession /\ next \in 1..Len(file.sessions)
         /\ Imported(file.sessions[next]) \in Row
         /\ sessions'[file.sessions[next].id] \in Row
         /\ \A s \in Sids \ {file.sessions[next].id} : sessions'[s] = sessions[s]
         /\ sessions' \in [Sids -> Row \cup {None}]
<1> DEFINE fs == file.sessions[next]
<1>1. next \in 1..Len(file.sessions) /\ fs \in FileSession
  <2>1. next \in 1..Len(file.sessions)
    BY FileRows DEF Typed, TypeOK, ImportSession
  <2> QED BY <2>1, FileRows DEF Typed
<1>2. Imported(fs) \in Row
  BY <1>1, EmptyScope DEF Imported, Row, FileSession
<1>3. sessions' = [sessions EXCEPT ![fs.id] = IF @ = None THEN Imported(fs) ELSE @]
  BY DEF ImportSession
<1>4. fs.id \in Sids /\ sessions \in [Sids -> Row \cup {None}]
  BY <1>1 DEF FileSession, Typed, TypeOK
<1> HIDE DEF fs
<1>5. /\ sessions'[fs.id] \in Row /\ \A s \in Sids \ {fs.id} : sessions'[s] = sessions[s]
      /\ sessions' \in [Sids -> Row \cup {None}]
  BY <1>2, <1>3, <1>4
<1> QED BY <1>1, <1>2, <1>5 DEF fs

LEMMA ImportsPlan ==
  ASSUME Typed, ImportPlan
  PROVE  /\ file.plans[next] \in FilePlan /\ next \in 1..Len(file.plans)
         /\ plans'[file.plans[next].id] \in Sids
         /\ plans' \in [Pids -> Sids \cup {None}]
<1> DEFINE fp == file.plans[next]
<1>1. next \in 1..Len(file.plans) /\ fp \in FilePlan
  <2>1. next \in 1..Len(file.plans)
    BY FileRows DEF Typed, TypeOK, ImportPlan
  <2> QED BY <2>1, FileRows DEF Typed
<1>2. plans' = [plans EXCEPT ![fp.id] = IF @ = None THEN fp.brief_id ELSE @]
  BY DEF ImportPlan
<1>3. fp.id \in Pids /\ fp.brief_id \in Sids /\ plans \in [Pids -> Sids \cup {None}]
  BY <1>1 DEF FilePlan, Typed, TypeOK
<1> HIDE DEF fp
<1>4. plans'[fp.id] \in Sids /\ plans' \in [Pids -> Sids \cup {None}]
  BY <1>2, <1>3
<1> QED BY <1>1, <1>4 DEF fp

\* A session that is saved, and those its sweep leaves
LEMMA Saves ==
  ASSUME Typed, NEW s \in Sids, NEW scope \in Scope, Save(s, scope)
  PROVE  /\ sessions' \in [Sids -> Row \cup {None}] /\ plans' \in [Pids -> Sids \cup {None}]
         /\ sessions'[s] \in Row /\ sessions'[s].scope = scope /\ sessions'[s].columns = scope
         /\ \A r \in Sids \ {s} : \/ r \in Expired /\ sessions'[r] = None
                                  \/ r \notin Expired /\ sessions'[r] = sessions[r]
<1>1. [scope |-> scope, columns |-> ColumnsOf(s, scope), expired |-> FALSE] \in Row
  BY DEF Row, ColumnsOf
<1>2. sessions' = [r \in Sids |->
        IF r = s THEN [scope |-> scope, columns |-> ColumnsOf(s, scope), expired |-> FALSE]
        ELSE IF r \in Expired \ {s} THEN None ELSE sessions[r]]
  BY DEF Save
<1>3. sessions' \in [Sids -> Row \cup {None}]
  BY <1>1, <1>2 DEF Typed, TypeOK
<1>4. plans' \in [Pids -> Sids \cup {None}]
  BY DEF Save, Typed, TypeOK
<1> QED BY <1>1, <1>2, <1>3, <1>4 DEF ColumnsOf

(***************************************************************************)
(* Types                                                                   *)
(***************************************************************************)

LEMMA TypedInit ==
  ASSUME Init
  PROVE  Typed
<1>1. sessions \in [Sids -> Row \cup {None}] /\ file \in Files
  BY StartupAssumption DEF Init
<1>2. plans \in [Pids -> Sids \cup {None}]
  BY DEF Init
<1>3. ages \in 0..MaxAges /\ crashes \in 0..MaxCrashes
  BY StartupAssumption DEF Init
<1>4. cut \in BOOLEAN /\ emptied \in BOOLEAN
  BY DEF Init
<1>5. /\ legacy = "none" /\ boot = "down" /\ todo = {} /\ next = 1
      /\ imported = {} /\ recent = {} /\ deleted = {} /\ inHand = {}
  BY DEF Init
<1> QED BY <1>1, <1>2, <1>3, <1>4, <1>5 DEF Typed, TypeOK, BootSteps

LEMMA TypedStep ==
  ASSUME Typed, [Next]_vars
  PROVE  Typed'
<1> USE DEF Typed, BootSteps
<1>1. CASE InitSchema
  BY <1>1 DEF InitSchema, TypeOK, tables, ghosts, Incomplete, Stored
<1>2. ASSUME NEW s \in Sids, Backfill(s) PROVE Typed'
  <2>1. sessions[s] \in Row /\ [sessions[s] EXCEPT !.columns = sessions[s].scope] \in Row
    BY <1>2 DEF Backfill, TypeOK, Stored, Row
  <2>2. sessions' = [sessions EXCEPT ![s] = [sessions[s] EXCEPT !.columns = sessions[s].scope]]
    BY <1>2 DEF Backfill
  <2>3. sessions' \in [Sids -> Row \cup {None}] /\ \A r \in Sids : sessions[r] # None => sessions'[r] # None
    BY <2>1, <2>2, StartupAssumption DEF TypeOK
  <2>4. TypeOK' /\ next' >= 1
    BY <1>2, <2>3 DEF Backfill, TypeOK
  <2>5. todo' \subseteq Stored' /\ boot' = "backfill"
    BY <1>2, <2>3 DEF Backfill, TypeOK, Stored
  <2> QED BY <2>4, <2>5
<1>3. CASE EndBackfill \/ LegacyUser \/ LegacyProject
  BY <1>3 DEF EndBackfill, LegacyUser, LegacyProject, TypeOK, tables, ghosts
<1>4. CASE CountRows
  <2>1. emptied' \in BOOLEAN /\ boot' \in BootSteps /\ next' = 1
    BY <1>4 DEF CountRows
  <2> QED BY <1>4, <2>1 DEF CountRows, TypeOK, tables
<1>5. CASE ImportSession
  <2>1. /\ sessions' \in [Sids -> Row \cup {None}] /\ file.sessions[next].id \in Sids
        /\ todo = {}
    BY <1>5, ImportsSession DEF FileSession, ImportSession
  <2> QED BY <1>5, <2>1 DEF ImportSession, TypeOK
<1>6. CASE ImportPlan
  <2>1. plans' \in [Pids -> Sids \cup {None}] /\ file.plans[next].id \in Pids /\ todo = {}
    BY <1>6, ImportsPlan DEF FilePlan, ImportPlan
  <2> QED BY <1>6, <2>1 DEF ImportPlan, TypeOK
<1>7. CASE EndSessions \/ EndPlans
  BY <1>7 DEF EndSessions, TurnToPlans, EndPlans, TypeOK, tables, ghosts
<1>8. CASE ImportFails \/ Crash
  <2>1. Down /\ crashes' \in 0..MaxCrashes
    BY <1>8, StartupAssumption DEF ImportFails, Crash, TypeOK
  <2> QED BY <2>1 DEF Down, TypeOK, tables
<1>9. ASSUME NEW s \in Sids, NEW scope \in Scope, Save(s, scope) PROVE Typed'
  <2>1. sessions' \in [Sids -> Row \cup {None}] /\ plans' \in [Pids -> Sids \cup {None}] /\ todo = {}
    BY <1>9, Saves DEF Save, Serve
  <2>2. inHand' \subseteq Sids /\ recent' \subseteq Sids /\ deleted' \subseteq Sids
    BY <1>9 DEF Save, TypeOK, Expired, Stored
  <2> QED BY <1>9, <2>1, <2>2 DEF Save, Serve, TypeOK
<1>10. ASSUME NEW s \in Sids, Delete(s) PROVE Typed'
  BY <1>10 DEF Delete, Serve, TypeOK
<1>11. ASSUME NEW s \in Sids, NEW p \in Pids, SavePlan(p, s) PROVE Typed'
  BY <1>11 DEF SavePlan, Serve, TypeOK
<1>12. CASE Age
  <2>1. \A s \in Stored : [sessions[s] EXCEPT !.expired = TRUE] \in Row
    BY DEF TypeOK, Stored, Row
  <2>2. sessions' \in [Sids -> Row \cup {None}]
    BY <1>12, <2>1 DEF Age, Stored
  <2>3. ages' \in 0..MaxAges /\ todo = {}
    BY <1>12, StartupAssumption DEF Age, Serve, TypeOK
  <2> QED BY <1>12, <2>2, <2>3 DEF Age, Serve, TypeOK
<1>13. CASE UNCHANGED vars
  BY <1>13 DEF vars, tables, ghosts, TypeOK, Stored
<1> QED BY <1>1, <1>2, <1>3, <1>4, <1>5, <1>6, <1>7, <1>8, <1>9, <1>10, <1>11, <1>12, <1>13
    DEF Next, Boot

(***************************************************************************)
(* The columns that repeat the payload                                     *)
(***************************************************************************)

\* Rows that are kept, and rows gone or of the import
LEMMA ColumnsStay ==
  ASSUME ColumnsFollowed, boot = "serving", boot' = boot,
         NEW gone, recent' = recent \ gone,
         \A s \in Stored' \ gone : /\ s \in Stored
                                   /\ sessions'[s].columns = sessions[s].columns
                                   /\ sessions'[s].scope = sessions[s].scope,
         \A s \in Stored' \cap gone : sessions'[s].columns = sessions'[s].scope
  PROVE  ColumnsFollowed'
BY DEF ColumnsFollowed, Repeats

LEMMA ColumnsStep ==
  ASSUME Typed, ColumnsFollowed, [Next]_vars
  PROVE  ColumnsFollowed'
<1> USE DEF ColumnsFollowed, Repeats
<1>1. CASE InitSchema
  <2>1. Stored' = Stored /\ sessions' = sessions /\ boot' = "backfill" /\ todo' = Incomplete
    BY <1>1 DEF InitSchema, tables, Stored
  <2>2. \A s \in Stored \ Incomplete : Repeats(s)
    BY DEF Incomplete, Full, Empty
  <2> QED BY <2>1, <2>2
<1>2. ASSUME NEW s \in Sids, Backfill(s) PROVE ColumnsFollowed'
  <2>1. sessions[s] \in Row /\ boot = "backfill" /\ boot' = "backfill"
    BY <1>2 DEF Backfill, Typed, TypeOK, Stored
  <2>2. sessions' = [sessions EXCEPT ![s] = [sessions[s] EXCEPT !.columns = sessions[s].scope]]
    BY <1>2 DEF Backfill
  <2>3. /\ sessions'[s].columns = sessions'[s].scope
        /\ \A r \in Sids \ {s} : sessions'[r] = sessions[r]
    BY <2>1, <2>2 DEF Typed, TypeOK, Row
  <2>4. \A r \in Stored' : r = s \/ r \in Stored
    BY <2>3 DEF Stored
  <2>5. todo' = todo \ {s} /\ Stored' \subseteq Sids
    BY <1>2 DEF Backfill, Stored
  <2> QED BY <2>1, <2>3, <2>4, <2>5
<1>3. CASE EndBackfill \/ CountRows \/ LegacyUser \/ LegacyProject \/ EndSessions \/ EndPlans
  <2>1. UNCHANGED <<sessions, recent>> /\ Stored' = Stored
    BY <1>3 DEF EndBackfill, CountRows, LegacyUser, LegacyProject, EndSessions, EndPlans,
                tables, ghosts, Stored
  <2>2. /\ boot' \notin {"down", "backfill"}
        /\ boot \notin {"down", "backfill"} \/ (boot = "backfill" /\ todo = {})
    BY <1>3 DEF EndBackfill, CountRows, LegacyUser, LegacyProject, EndSessions, TurnToPlans, EndPlans
  <2> QED BY <2>1, <2>2
<1>4. CASE ImportSession
  <2> DEFINE fs == file.sessions[next]
  <2>1. /\ boot = "sessions" /\ boot' = boot /\ fs.id \in Sids
        /\ \A s \in Sids \ {fs.id} : sessions'[s] = sessions[s]
    BY <1>4, ImportsSession DEF ImportSession, FileSession
  <2>2. CASE sessions[fs.id] = None
    <3>1. sessions'[fs.id].columns = Empty /\ recent' = recent \cup {fs.id}
      BY <1>4, <2>1, <2>2 DEF ImportSession, Imported, Typed, TypeOK
    <3> HIDE DEF fs
    <3> QED BY <2>1, <3>1 DEF Stored
  <2>3. CASE sessions[fs.id] # None
    <3>1. sessions' = sessions /\ recent' = recent
      BY <1>4, <2>3 DEF ImportSession, Typed, TypeOK
    <3> QED BY <2>1, <3>1 DEF Stored
  <2> QED BY <2>2, <2>3
<1>5. CASE ImportPlan
  BY <1>5 DEF ImportPlan, Stored
<1>6. CASE ImportFails \/ Crash
  BY <1>6 DEF ImportFails, Crash, Down, tables, Stored
<1>7. ASSUME NEW s \in Sids, NEW scope \in Scope, Save(s, scope) PROVE ColumnsFollowed'
  <2>1. /\ sessions'[s].scope = scope /\ sessions'[s].columns = scope
        /\ \A r \in Sids \ {s} :
             \/ r \in Expired /\ sessions'[r] = None
             \/ r \notin Expired /\ sessions'[r] = sessions[r]
    BY <1>7, Saves
  <2>2. boot = "serving" /\ boot' = boot /\ recent' = recent \ ({s} \cup Expired)
    BY <1>7 DEF Save, Serve
  <2>3. \A r \in Stored' \ ({s} \cup Expired) : r \in Stored /\ sessions'[r] = sessions[r]
    BY <2>1 DEF Stored
  <2>4. \A r \in Stored' \cap ({s} \cup Expired) : r = s
    BY <2>1 DEF Stored
  <2> QED BY <2>1, <2>2, <2>3, <2>4, ColumnsStay
<1>8. ASSUME NEW s \in Sids, Delete(s) PROVE ColumnsFollowed'
  <2>1. boot = "serving" /\ boot' = boot /\ recent' = recent \ {s}
    BY <1>8 DEF Delete, Serve
  <2>2. sessions'[s] = None /\ \A r \in Sids \ {s} : sessions'[r] = sessions[r]
    BY <1>8 DEF Delete, Typed, TypeOK
  <2> QED BY <2>1, <2>2, ColumnsStay DEF Stored
<1>9. ASSUME NEW s \in Sids, NEW p \in Pids, SavePlan(p, s) PROVE ColumnsFollowed'
  BY <1>9 DEF SavePlan, Serve, Stored
<1>10. CASE Age
  <2>1. boot = "serving" /\ boot' = boot /\ recent' = recent \ {}
    BY <1>10 DEF Age, Serve
  <2>2. ASSUME NEW s \in Stored'
        PROVE  /\ s \in Stored /\ sessions'[s].columns = sessions[s].columns
               /\ sessions'[s].scope = sessions[s].scope
    <3>1. s \in Sids /\ sessions[s] # None
      BY <1>10, <2>2 DEF Age, Stored
    <3>2. sessions[s] \in Row /\ sessions'[s] = [sessions[s] EXCEPT !.expired = TRUE]
      BY <1>10, <3>1 DEF Age, Typed, TypeOK
    <3> QED BY <3>1, <3>2 DEF Row, Stored
  <2> QED BY <2>1, <2>2, ColumnsStay
<1>11. CASE UNCHANGED vars
  BY <1>11 DEF vars, tables, ghosts, Stored
<1> QED BY <1>1, <1>2, <1>3, <1>4, <1>5, <1>6, <1>7, <1>8, <1>9, <1>10, <1>11 DEF Next, Boot

(***************************************************************************)
(* Deleted sessions                                                        *)
(***************************************************************************)

LEMMA DeletedStep ==
  ASSUME Typed, ImportAfterDeletion, DeletedStayDeleted, [Next]_vars
  PROVE  ImportAfterDeletion' /\ DeletedStayDeleted'
<1> USE DEF ImportAfterDeletion, DeletedStayDeleted
<1>1. CASE \/ InitSchema \/ EndBackfill \/ LegacyUser \/ LegacyProject \/ EndSessions \/ EndPlans
           \/ ImportPlan \/ ImportFails \/ Crash
  <2>1. UNCHANGED <<sessions, deleted, emptied>> /\ Stored' = Stored
    BY <1>1 DEF InitSchema, EndBackfill, LegacyUser, LegacyProject, EndSessions, EndPlans, ImportPlan,
                ImportFails, Crash, Down, tables, ghosts, Stored
  <2>2. Importing' => Importing
    BY <1>1 DEF InitSchema, EndBackfill, LegacyUser, LegacyProject, EndSessions, EndPlans, ImportPlan,
                ImportFails, Crash, Down, Importing
  <2> QED BY <2>1, <2>2
<1>2. ASSUME NEW s \in Sids, Backfill(s) PROVE ImportAfterDeletion' /\ DeletedStayDeleted'
  <2>1. UNCHANGED <<boot, deleted, emptied>> /\ s \in Stored
    BY <1>2 DEF Backfill, Typed
  <2>2. Stored' \subseteq Stored
    BY <1>2, <2>1 DEF Backfill, Stored, Typed, TypeOK
  <2> QED BY <2>1, <2>2 DEF Importing
<1>3. CASE CountRows
  <2>1. UNCHANGED <<sessions, deleted>> /\ Stored' = Stored
    BY <1>3 DEF CountRows, tables, Stored
  <2>2. Importing' => TablesEmpty
    BY <1>3 DEF CountRows, MayImport, Importing
  <2>3. (emptied \/ (TablesEmpty /\ deleted # {})) => emptied'
    BY <1>3 DEF CountRows
  <2> QED BY <2>1, <2>2, <2>3
<1>4. CASE ImportSession
  <2>1. UNCHANGED <<boot, deleted, emptied>> /\ Importing
    BY <1>4 DEF ImportSession, Importing
  <2> QED BY <2>1 DEF Importing
<1>5. ASSUME NEW s \in Sids, NEW scope \in Scope, Save(s, scope)
      PROVE  ImportAfterDeletion' /\ DeletedStayDeleted'
  <2>1. UNCHANGED <<boot, emptied>> /\ deleted' = deleted \ {s}
    BY <1>5 DEF Save, Serve
  <2>2. Stored' \subseteq Stored \cup {s}
    BY <1>5, Saves DEF Stored
  <2> QED BY <2>1, <2>2 DEF Importing
<1>6. ASSUME NEW s \in Sids, Delete(s) PROVE ImportAfterDeletion' /\ DeletedStayDeleted'
  <2>1. /\ boot' = "serving" /\ emptied' = emptied /\ deleted' = deleted \cup {s}
        /\ Stored' = Stored \ {s}
    BY <1>6 DEF Delete, Serve, Stored, Typed, TypeOK
  <2> QED BY <2>1 DEF Importing
<1>7. ASSUME NEW s \in Sids, NEW p \in Pids, SavePlan(p, s)
      PROVE  ImportAfterDeletion' /\ DeletedStayDeleted'
  BY <1>7 DEF SavePlan, Serve, Stored, Importing
<1>8. CASE Age
  <2>1. UNCHANGED <<boot, deleted, emptied>> /\ Stored' \subseteq Stored
    BY <1>8 DEF Age, Serve, Stored
  <2> QED BY <2>1 DEF Importing
<1>9. CASE UNCHANGED vars
  BY <1>9 DEF vars, tables, ghosts, Stored, Importing
<1> QED BY <1>1, <1>2, <1>3, <1>4, <1>5, <1>6, <1>7, <1>8, <1>9 DEF Next, Boot

(***************************************************************************)
(* The import, from its first row to its last                              *)
(***************************************************************************)

LEMMA FromTheFirst ==
  ASSUME NEW part
  PROVE  IdsBefore(part, 1) = {}
BY DEF IdsBefore

\* Steps that import nothing, and that begin, go on with or end no import
LEMMA ImportRests ==
  ASSUME ImportFollowed, UNCHANGED <<file, imported, cut>>,
         ~Importing, ~Importing'
  PROVE  ImportFollowed'
<1>1. FileIds' = FileIds
  BY DEF FileIds
<1> QED BY <1>1 DEF ImportFollowed, AllOrNothing, Importing

LEMMA ImportStep ==
  ASSUME Typed, ImportFollowed, [Next]_vars
  PROVE  ImportFollowed'
<1>0. Len(file.sessions) \in Nat /\ Len(file.plans) \in Nat
  BY FileRows DEF Typed
<1>1. CASE InitSchema \/ EndBackfill \/ \E s \in Sids : Backfill(s)
  <2>1. UNCHANGED <<file, imported, cut>> /\ ~Importing /\ ~Importing'
    BY <1>1 DEF InitSchema, EndBackfill, Backfill, ghosts, Importing
  <2> QED BY <2>1, ImportRests
<1>2. CASE CountRows
  <2>1. UNCHANGED <<file, imported, cut>> /\ ~Importing /\ next' = 1 /\ boot' \in {"user", "serving"}
    BY <1>2 DEF CountRows, Importing
  <2>2. FileIds' = FileIds
    BY <2>1 DEF FileIds
  <2> QED BY <2>1, <2>2 DEF ImportFollowed, AllOrNothing
<1>3. CASE LegacyUser \/ LegacyProject
  <2>1. /\ UNCHANGED <<file, imported, cut, next>> /\ TablesEmpty' = TablesEmpty
        /\ Importing /\ Importing' /\ next = 1 /\ boot' \in {"project", "sessions"}
    BY <1>3 DEF LegacyUser, LegacyProject, ImportFollowed, tables, ghosts, TablesEmpty, Stored, Planned,
                Importing
  <2>2. FileIds' = FileIds
    BY <2>1 DEF FileIds
  <2> QED BY <2>1, <2>2, FromTheFirst DEF ImportFollowed, AllOrNothing
<1>4. CASE ImportSession
  <2> DEFINE fs == file.sessions[next]
  <2>1. /\ UNCHANGED <<file, cut, boot>> /\ boot = "sessions" /\ next' = next + 1
        /\ imported' = imported \cup {fs.id} /\ next \in 1..Len(file.sessions)
        /\ fs \in FileSession /\ sessions'[fs.id] \in Row
    BY <1>4, ImportsSession DEF ImportSession
  <2>2. ~TablesEmpty' /\ Importing'
    <3>1. fs.id \in Stored'
      BY <2>1, StartupAssumption DEF Stored, FileSession
    <3> QED BY <2>1, <3>1 DEF TablesEmpty, Importing
  <2>3. fs.id \in FileIds /\ FileIds' = FileIds
    BY <2>1 DEF FileIds
  <2>4. IdsBefore(file.sessions, next + 1) = IdsBefore(file.sessions, next) \cup {fs.id}
    BY <1>0, <2>1, OneRowOn
  <2> HIDE DEF fs
  <2> QED BY <2>1, <2>2, <2>3, <2>4 DEF ImportFollowed
<1>5. CASE EndSessions
  <2>1. /\ UNCHANGED <<file, imported, cut>> /\ boot = "sessions" /\ boot' = "plans"
        /\ next' = 1 /\ TablesEmpty' = TablesEmpty /\ next > Len(file.sessions)
    BY <1>5 DEF EndSessions, TurnToPlans, tables, ghosts, TablesEmpty, Stored, Planned
  <2>2. IdsBefore(file.sessions, Len(file.sessions) + 1) \subseteq imported
    <3>1. next \in Nat
      BY DEF Typed, TypeOK
    <3> QED BY <1>0, <2>1, <3>1, AllRows DEF ImportFollowed
  <2>3. FileIds' = FileIds /\ Importing /\ Importing'
    BY <2>1 DEF FileIds, Importing
  <2> QED BY <2>1, <2>2, <2>3, FromTheFirst DEF ImportFollowed, AllOrNothing
<1>6. CASE ImportPlan
  <2> DEFINE fp == file.plans[next]
  <2>1. /\ UNCHANGED <<file, cut, boot>> /\ boot = "plans" /\ next' = next + 1
        /\ imported' = imported \cup {fp.id} /\ next \in 1..Len(file.plans)
        /\ fp \in FilePlan /\ plans'[fp.id] \in Sids
    BY <1>6, ImportsPlan DEF ImportPlan
  <2>2. ~TablesEmpty' /\ Importing'
    <3>1. fp.id \in Planned'
      BY <2>1, StartupAssumption DEF Planned, FilePlan
    <3> QED BY <2>1, <3>1 DEF TablesEmpty, Importing
  <2>3. fp.id \in FileIds /\ FileIds' = FileIds
    BY <2>1 DEF FileIds
  <2>4. IdsBefore(file.plans, next + 1) = IdsBefore(file.plans, next) \cup {fp.id}
    BY <1>0, <2>1, OneRowOn
  <2> HIDE DEF fp
  <2> QED BY <2>1, <2>2, <2>3, <2>4 DEF ImportFollowed
<1>7. CASE EndPlans
  <2>1. /\ UNCHANGED <<file, imported, cut>> /\ boot = "plans" /\ boot' = "serving"
        /\ next > Len(file.plans)
    BY <1>7 DEF EndPlans, ghosts
  <2>2. IdsBefore(file.plans, Len(file.plans) + 1) \subseteq imported
    <3>1. next \in Nat
      BY DEF Typed, TypeOK
    <3> QED BY <1>0, <2>1, <3>1, AllRows DEF ImportFollowed
  <2>3. imported = FileIds /\ FileIds' = FileIds
    <3>1. FileIds \subseteq imported
      BY <2>1, <2>2, FileRows DEF Typed, ImportFollowed
    <3> QED BY <2>1, <3>1 DEF ImportFollowed, FileIds
  <2> QED BY <2>1, <2>3 DEF ImportFollowed, AllOrNothing
<1>8. CASE ImportFails \/ Crash
  <2>1. /\ UNCHANGED <<file, imported>> /\ boot' = "down"
        /\ cut' = (cut \/ (Importing /\ ~TablesEmpty))
    BY <1>8 DEF ImportFails, Crash, Down
  <2>2. FileIds' = FileIds
    BY <2>1 DEF FileIds
  <2>3. ~cut' => AllOrNothing
    BY <2>1 DEF ImportFollowed
  <2> QED BY <2>1, <2>2, <2>3 DEF ImportFollowed, AllOrNothing
<1>9. CASE \/ \E s \in Sids : Delete(s) \/ \E scope \in Scope : Save(s, scope)
           \/ \E s \in Sids, p \in Pids : SavePlan(p, s)
           \/ Age
  <2>1. UNCHANGED <<file, imported, cut>> /\ ~Importing /\ ~Importing'
    BY <1>9 DEF Delete, Save, SavePlan, Age, Serve, Importing
  <2> QED BY <2>1, ImportRests
<1>10. CASE UNCHANGED vars
  BY <1>10 DEF vars, tables, ghosts, ImportFollowed, AllOrNothing, FileIds, Importing, TablesEmpty, Stored,
               Planned
<1> QED BY <1>1, <1>2, <1>3, <1>4, <1>5, <1>6, <1>7, <1>8, <1>9, <1>10 DEF Next, Boot

(***************************************************************************)
(* Theorems                                                                *)
(***************************************************************************)

LEMMA IInvInit ==
  ASSUME Init
  PROVE  IInv
<1>1. ColumnsFollowed
  BY StartupAssumption DEF Init, ColumnsFollowed, Repeats, Stored
<1>2. ImportFollowed
  BY DEF Init, ImportFollowed, AllOrNothing
<1>3. ImportAfterDeletion /\ DeletedStayDeleted
  BY DEF Init, ImportAfterDeletion, DeletedStayDeleted
<1> QED BY <1>1, <1>2, <1>3, TypedInit DEF IInv

THEOREM Invariance == Spec => []IInv
<1>1. IInv /\ [Next]_vars => IInv'
  BY TypedStep, ImportStep, ColumnsStep, DeletedStep DEF IInv
<1> QED BY <1>1, IInvInit, PTL DEF Spec

\* The tables, the file and the place a startup has come to keep their types.
THEOREM TypeCorrect == Spec => []TypeOK
<1>1. IInv => TypeOK
  BY DEF IInv, Typed
<1> QED BY <1>1, Invariance, PTL

\* auto_migrate_legacy_if_empty imports all of storage.json or nothing, unless
\* the process died or a row did not parse between its first row and its last.
THEOREM ImportsWhole == Spec => []ImportWhole
<1>1. IInv => ImportWhole
  BY DEF IInv, ImportFollowed, AllOrNothing, Importing, ImportWhole
<1> QED BY <1>1, Invariance, PTL

\* The backfill of init_schema and every save leave the columns of a session as
\* its payload has them, whatever older version wrote the row.
THEOREM ColumnsAreCurrent == Spec => []ColumnsRepeatPayload
<1>1. IInv => ColumnsRepeatPayload
  BY DEF IInv, ColumnsFollowed, Repeats, ColumnsRepeatPayload
<1> QED BY <1>1, Invariance, PTL

\* Only a request that had read a deleted session brings it back, and no startup,
\* unless one found no session and no plan at all after a deletion.
THEOREM DeletedStay == Spec => []DeletedStayDeleted
<1>1. IInv => DeletedStayDeleted
  BY DEF IInv
<1> QED BY <1>1, Invariance, PTL
=============================================================================
