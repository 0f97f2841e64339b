------------------------------ MODULE Startup ------------------------------
(***************************************************************************)
(* What _lifespan in app/main.py does to the database before the first     *)
(* request (ensure_admin apart, see Accounts): init_schema brings the      *)
(* tables up to date, and auto_migrate_legacy_if_empty imports the         *)
(* storage.json of v1..v3, one committed statement at a time.  The file is *)
(* never removed, the process may die between any two statements, and a    *)
(* row that does not parse ends the startup.  Docker starts the container  *)
(* again (docker-compose.yml, restart: unless-stopped).                    *)
(*                                                                         *)
(* Of requests only what they do to the same rows is here: SessionService  *)
(* has them in full.  A row's age is whether it is past the TTL.           *)
(***************************************************************************)
EXTENDS Naturals, Sequences

CONSTANTS
  Sids,        \* session ids
  Pids,        \* plan ids
  Clients,     \* client ids
  Targets,     \* target ids
  Files,       \* the storage.json there may be
  PriorRows,   \* the sessions a database of an older version may hold
  MaxAges,     \* bound on the times everything gets older than the TTL
  MaxCrashes,  \* bound on the deaths of the process
  None

Scope == [client : Clients \cup {None}, target : Targets \cup {None}]
Empty == [client |-> None, target |-> None]

\* The rows of the file, in its order; readable: AgentSession(**raw), or
\* Plan(**raw), accepts it.
FileSession == [id : Sids, scope : Scope, expired : BOOLEAN, readable : BOOLEAN]
FilePlan    == [id : Pids, brief_id : Sids, readable : BOOLEAN]
File        == [sessions : Seq(FileSession), plans : Seq(FilePlan)]
NoFile      == [sessions |-> <<>>, plans |-> <<>>]

\* A row of the table sessions: the scope in its payload, and the columns
\* client_id and first_target_id, which repeat it
Row  == [scope : Scope, columns : Scope, expired : BOOLEAN]

\* A row from before v6 has no columns; later versions write what it holds.
ASSUME StartupAssumption ==
  /\ \A f \in Files : f \in File
  /\ \A r \in PriorRows : r \in [Sids -> Row \cup {None}]
  /\ \A r \in PriorRows, s \in Sids : r[s] # None => r[s].columns \in {Empty, r[s].scope}
  /\ MaxAges \in Nat /\ MaxCrashes \in Nat
  /\ None \notin Clients \cup Targets \cup Sids \cup Row

VARIABLES
  file,       \* storage.json
  sessions,   \* table sessions: id -> row or None
  plans,      \* table plans: id -> the session it is for, or None
  legacy,     \* what there is of the owner of imported rows
  boot,       \* how far the startup got
  todo,       \* the rows it still has to backfill
  next,       \* the place in the file it has come to
  inHand,     \* the sessions deleted or swept since the process began: a request
              \* that had read one may still save it
  ages, crashes,
  (* history variables *)
  imported,   \* the ids ever imported
  recent,     \* the sessions imported since the last backfill, not saved since
  cut,        \* whether an import ended after its first row and before its last
  deleted,    \* the sessions planners deleted and no request saved again
  emptied     \* whether a startup found the tables empty after a deletion

tables == <<sessions, plans>>
ghosts == <<imported, recent, cut, deleted, emptied>>
vars   == <<file, tables, legacy, boot, todo, next, inHand, ages, crashes, ghosts>>

\* Ids are random: a new session or plan never gets one of the file.
FileIds == {file.sessions[i].id : i \in 1..Len(file.sessions)}
             \cup {file.plans[i].id : i \in 1..Len(file.plans)}

BootSteps == {"down", "backfill", "count", "user", "project", "sessions", "plans", "serving"}

TypeOK ==
  /\ file \in Files
  /\ sessions \in [Sids -> Row \cup {None}]
  /\ plans \in [Pids -> Sids \cup {None}]
  /\ legacy \in {"none", "user", "project"}
  /\ boot \in BootSteps
  /\ todo \subseteq Sids /\ next \in Nat
  /\ inHand \subseteq Sids
  /\ ages \in 0..MaxAges /\ crashes \in 0..MaxCrashes
  /\ imported \subseteq Sids \cup Pids /\ recent \subseteq Sids /\ deleted \subseteq Sids
  /\ cut \in BOOLEAN /\ emptied \in BOOLEAN

Stored  == {s \in Sids : sessions[s] # None}
Planned == {p \in Pids : plans[p] # None}
Expired == {s \in Stored : sessions[s].expired}
TablesEmpty == Stored = {} /\ Planned = {}
Importing == boot \in {"user", "project", "sessions", "plans"}

Init ==
  /\ file \in Files
  /\ sessions \in PriorRows
  /\ plans = [p \in Pids |-> None]
  /\ legacy = "none" /\ boot = "down" /\ todo = {} /\ next = 1
  /\ inHand = {} /\ ages = 0 /\ crashes = 0
  /\ imported = {} /\ recent = {} /\ deleted = {}
  /\ cut = FALSE /\ emptied = FALSE

(***************************************************************************)
(* init_schema                                                             *)
(***************************************************************************)

Full(scope) == scope.client # None /\ scope.target # None

\* WHERE client_id IS NULL OR first_target_id IS NULL
Incomplete == {s \in Stored : ~Full(sessions[s].columns)}

\* Tables, columns and indexes that are not there yet are made; this is
\* idempotent, and a column just added is NULL in every row.
InitSchema ==
  /\ boot = "down"
  /\ boot' = "backfill"
  /\ todo' = Incomplete
  /\ UNCHANGED <<file, tables, legacy, next, inHand, ages, crashes, ghosts>>

\* MUTANT: a row is done when its columns are full, and not when it was read
BackfillUntilFull(s) ==
  /\ boot = "backfill"
  /\ s \in todo
  /\ sessions' = [sessions EXCEPT ![s].columns = sessions[s].scope]
  /\ todo' = IF Full(sessions[s].scope) THEN todo \ {s} ELSE todo
  /\ recent' = recent \ {s}
  /\ UNCHANGED <<file, plans, legacy, boot, next, inHand, ages, crashes, imported, cut, deleted, emptied>>

Backfill(s) ==
  /\ boot = "backfill"
  /\ s \in todo
  /\ sessions' = [sessions EXCEPT ![s].columns = sessions[s].scope]
  /\ todo' = todo \ {s}
  /\ recent' = recent \ {s}
  /\ UNCHANGED <<file, plans, legacy, boot, next, inHand, ages, crashes, imported, cut, deleted, emptied>>

EndBackfill ==
  /\ boot = "backfill"
  /\ todo = {}
  /\ boot' = "count"
  /\ UNCHANGED <<file, tables, legacy, todo, next, inHand, ages, crashes, ghosts>>

(***************************************************************************)
(* auto_migrate_legacy_if_empty and import_legacy_json                     *)
(***************************************************************************)

\* MUTANT: only the sessions are counted
MayImportIfNoSessions == file # NoFile /\ Stored = {}

MayImport == file # NoFile /\ TablesEmpty

CountRows ==
  /\ boot = "count"
  /\ boot' = IF MayImport THEN "user" ELSE "serving"
  /\ next' = 1
  /\ emptied' = (emptied \/ (TablesEmpty /\ deleted # {}))
  /\ UNCHANGED <<file, tables, legacy, todo, inHand, ages, crashes, imported, recent, cut, deleted>>

\* get_user_by_name("legacy") or create_user
LegacyUser ==
  /\ boot = "user"
  /\ boot' = "project"
  /\ legacy' = IF legacy = "none" THEN "user" ELSE legacy
  /\ UNCHANGED <<file, tables, todo, next, inHand, ages, crashes, ghosts>>

\* ensure_default_project
LegacyProject ==
  /\ boot = "project"
  /\ boot' = "sessions"
  /\ legacy' = "project"
  /\ UNCHANGED <<file, tables, todo, next, inHand, ages, crashes, ghosts>>

\* The columns client_id and first_target_id are not among those inserted.
Imported(fs) == [scope |-> fs.scope, columns |-> Empty, expired |-> fs.expired]

ImportSession ==
  LET fs == file.sessions[next]
  IN  /\ boot = "sessions"
      /\ next <= Len(file.sessions)
      /\ sessions[fs.id] # None \/ fs.readable
      /\ sessions' = [sessions EXCEPT ![fs.id] = IF @ = None THEN Imported(fs) ELSE @]
      /\ imported' = imported \cup {fs.id}
      /\ recent' = IF sessions[fs.id] = None THEN recent \cup {fs.id} ELSE recent
      /\ next' = next + 1
      /\ UNCHANGED <<file, plans, legacy, boot, todo, inHand, ages, crashes, cut, deleted, emptied>>

\* MUTANT: the plans are left behind
SkipPlans == boot' = "serving"

TurnToPlans == boot' = "plans"

EndSessions ==
  /\ boot = "sessions"
  /\ next > Len(file.sessions)
  /\ TurnToPlans
  /\ next' = 1
  /\ UNCHANGED <<file, tables, legacy, todo, inHand, ages, crashes, ghosts>>

ImportPlan ==
  LET fp == file.plans[next]
  IN  /\ boot = "plans"
      /\ next <= Len(file.plans)
      /\ plans[fp.id] # None \/ fp.readable
      /\ plans' = [plans EXCEPT ![fp.id] = IF @ = None THEN fp.brief_id ELSE @]
      /\ imported' = imported \cup {fp.id}
      /\ next' = next + 1
      /\ UNCHANGED <<file, sessions, legacy, boot, todo, inHand, ages, crashes, recent, cut, deleted, emptied>>

EndPlans ==
  /\ boot = "plans"
  /\ next > Len(file.plans)
  /\ boot' = "serving"
  /\ UNCHANGED <<file, tables, legacy, todo, next, inHand, ages, crashes, ghosts>>

\* Whatever is not committed is lost with the process, and nothing else is.
Down ==
  /\ boot' = "down"
  /\ todo' = {} /\ next' = 1 /\ inHand' = {}
  /\ cut' = (cut \/ (Importing /\ ~TablesEmpty))
  /\ UNCHANGED <<file, tables, legacy, ages, imported, recent, deleted, emptied>>

\* A row that does not parse raises, and the process exits.
ImportFails ==
  /\ \/ /\ boot = "sessions" /\ next <= Len(file.sessions)
        /\ sessions[file.sessions[next].id] = None /\ ~file.sessions[next].readable
     \/ /\ boot = "plans" /\ next <= Len(file.plans)
        /\ plans[file.plans[next].id] = None /\ ~file.plans[next].readable
  /\ Down
  /\ UNCHANGED crashes

Crash ==
  /\ boot # "down"
  /\ crashes < MaxCrashes
  /\ crashes' = crashes + 1
  /\ Down

(***************************************************************************)
(* Requests                                                                *)
(***************************************************************************)

Serve ==
  /\ boot = "serving"
  /\ UNCHANGED <<file, legacy, boot, todo, next, crashes, imported, cut, emptied>>

\* MUTANT: the columns are written with a new row and not with an update
ColumnsKept(s, scope) == IF sessions[s] = None THEN scope ELSE sessions[s].columns

ColumnsOf(s, scope) == scope

\* save_session, of a session that is new (a fork has a brief), that is stored
\* or that was when the request read it, and the sweep it ends with
Save(s, scope) ==
  LET swept == Expired \ {s}
  IN  /\ Serve
      /\ s \in Stored \cup inHand \/ s \notin FileIds \cup deleted
      /\ sessions' = [r \in Sids |->
           IF r = s THEN [scope |-> scope, columns |-> ColumnsOf(s, scope), expired |-> FALSE]
           ELSE IF r \in swept THEN None ELSE sessions[r]]
      /\ plans' = [p \in Pids |-> IF plans[p] \in swept THEN None ELSE plans[p]]
      /\ recent' = recent \ ({s} \cup swept)
      /\ inHand' = (inHand \cup swept) \ {s}
      /\ deleted' = deleted \ {s}
      /\ UNCHANGED ages

\* save_plan, of a plan that is new, for a session the request had read
SavePlan(p, s) ==
  /\ Serve
  /\ s \in Stored \cup inHand /\ p \notin Planned \cup FileIds
  /\ plans' = [plans EXCEPT ![p] = s]
  /\ UNCHANGED <<sessions, inHand, ages, recent, deleted>>

\* delete_session leaves the plans of the session.
Delete(s) ==
  /\ Serve
  /\ s \in Stored
  /\ sessions' = [sessions EXCEPT ![s] = None]
  /\ inHand' = inHand \cup {s}
  /\ deleted' = deleted \cup {s}
  /\ recent' = recent \ {s}
  /\ UNCHANGED <<plans, ages>>

Age ==
  /\ Serve
  /\ ages < MaxAges
  /\ ages' = ages + 1
  /\ sessions' = [s \in Sids |-> IF sessions[s] = None THEN None
                                 ELSE [sessions[s] EXCEPT !.expired = TRUE]]
  /\ UNCHANGED <<plans, inHand, recent, deleted>>

(***************************************************************************)
(* Steps                                                                   *)
(***************************************************************************)

Boot ==
  \/ InitSchema \/ EndBackfill \/ CountRows \/ LegacyUser \/ LegacyProject
  \/ ImportSession \/ EndSessions \/ ImportPlan \/ EndPlans \/ ImportFails
  \/ \E s \in Sids : Backfill(s)

Next ==
  \/ Boot
  \/ Crash
  \/ \E s \in Sids : Delete(s) \/ \E scope \in Scope : Save(s, scope)
  \/ \E s \in Sids, p \in Pids : SavePlan(p, s)
  \/ Age

Spec == Init /\ [][Next]_vars

\* The startup goes on, and the container is started again.
FairSpec == Spec /\ WF_vars(Boot)

(***************************************************************************)
(* Properties                                                              *)
(***************************************************************************)

\* The import is all or nothing however often it is begun again, unless it ended
\* after its first row and before its last: the next startup then finds rows,
\* and leaves the others behind for good (storage.py:323).
ImportWhole == boot = "serving" /\ ~cut => imported \in {{}, FileIds}

\* While it serves, the columns that count_actuals_for_client_target joins on
\* repeat the payload (storage.py:264), for rows of an older version too; only
\* what this very startup imported has to wait for its next save or the next
\* startup (storage.py:934).
ColumnsRepeatPayload ==
  boot = "serving" => \A s \in Stored \ recent : sessions[s].columns = sessions[s].scope

\* A deleted session comes back only through a request that had read it before
\* (storage.py:533).  It does not come back with a restart, though the file still
\* has it, unless the last session and the last plan were gone by then.
DeletedStayDeleted == emptied \/ deleted \cap Stored = {}

\* However often the process dies, the service comes up and stays up: unless the
\* first row of the file does not parse and a startup finds the tables empty,
\* then no start ever gets further.
FirstRowParses ==
  LET all == file.sessions \o file.plans IN all = <<>> \/ all[1].readable
ComesUp == FirstRowParses \/ []~TablesEmpty => <>[](boot = "serving")
=============================================================================
