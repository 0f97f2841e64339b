------------------------------ MODULE Accounts ------------------------------
(***************************************************************************)
(* Users and projects: services/auth.py, the user and project endpoints of *)
(* app/main.py, and the tables users and projects in storage.py.  The      *)
(* middleware looks the key up in one statement; the handler then runs on  *)
(* what it found, one committed statement at a time, and none of them      *)
(* takes storage._lock.  At boot, before any request is served,            *)
(* ensure_admin gives the bootstrap admin the key of the environment, if   *)
(* the environment has one.                                                *)
(*                                                                         *)
(* Keys are random: EnvKey, and one for each request that makes one.       *)
(***************************************************************************)
EXTENDS Naturals, Sequences

CONSTANTS
  Threads,       \* threads that serve requests
  UserNames,     \* the names users may be given
  Admin,         \* "admin", the name of the bootstrap admin
  ProjectNames,  \* the names projects may be given
  Default,       \* "Default", the name of the project made for a user
  MaxRequests,   \* bound on the requests
  MaxCrashes,    \* bound on the restarts of the process
  None

Requests == 1..MaxRequests
EnvKey   == 0
Keys     == {EnvKey} \cup Requests

ASSUME AccountsAssumption ==
  /\ Admin \in UserNames /\ Default \in ProjectNames
  /\ MaxRequests \in Nat /\ MaxCrashes \in Nat
  /\ None \notin UserNames \cup ProjectNames /\ None \notin Nat

VARIABLES
  users,      \* table users, in the order of insertion
  projects,   \* table projects, likewise
  sessions,   \* the owner and project of each session, likewise
  serving,    \* whether the process is past its startup
  keyed,      \* whether its environment has a key (CCS_ADMIN_KEY)
  threads,    \* thread -> the request it serves and how far it got
  requests,   \* how many requests there have been
  crashes,    \* how often the process has died
  (* history variables *)
  raced,      \* what two requests worked on at once: user names, the default
              \* projects of users, the disabling of users
  lost        \* the keys stored by requests that died before their answer

tables == <<users, projects, sessions>>
ghosts == <<raced, lost>>
vars   == <<tables, serving, keyed, threads, requests, crashes, ghosts>>

User    == [name : UserNames, key : Keys, is_admin : BOOLEAN, is_active : BOOLEAN]
Project == [owner : Nat, name : ProjectNames, archived : BOOLEAN,
            ensured : BOOLEAN]    \* history: made by ensure_default_project

Uids == 1..Len(users)
Pids == 1..Len(projects)

\* user is what the middleware attached to the request.
Thread == [pc : {"idle", "check_name", "insert_user", "disable", "enable", "rotate",
                 "answer", "create_project", "archive", "find_project",
                 "find_default", "insert_default", "save_session"},
           request : {0} \cup Requests, user : Nat, target : Nat,
           name : UserNames \cup ProjectNames \cup {None}, is_admin : BOOLEAN]
Idle == [pc |-> "idle", request |-> 0, user |-> 0, target |-> 0, name |-> None,
         is_admin |-> FALSE]

TypeOK ==
  /\ users \in Seq(User) /\ projects \in Seq(Project)
  /\ sessions \in Seq([owner : Nat, project : Nat])
  /\ serving \in BOOLEAN /\ keyed \in BOOLEAN
  /\ threads \in [Threads -> Thread]
  /\ requests \in {0} \cup Requests /\ crashes \in 0..MaxCrashes
  /\ raced \in [names : SUBSET UserNames, defaults : SUBSET Nat, disabling : BOOLEAN]
  /\ lost \subseteq Requests

Init ==
  /\ users = <<>> /\ projects = <<>> /\ sessions = <<>>
  /\ serving = FALSE /\ keyed = FALSE
  /\ threads = [t \in Threads |-> Idle]
  /\ requests = 0 /\ crashes = 0
  /\ raced = [names |-> {}, defaults |-> {}, disabling |-> FALSE]
  /\ lost = {}

(***************************************************************************)
(* Startup: what _lifespan does to the users, and the death of the process *)
(***************************************************************************)

\* MUTANT: the key of an existing admin is left as it is
KeepAdmin == users' = [i \in Uids |->
  IF users[i].name = Admin THEN [users[i] EXCEPT !.is_admin = TRUE] ELSE users[i]]

\* ensure_admin of a user that exists.  It is not activated again.
RekeyAdmin == \E u \in Uids :
  /\ users[u].name = Admin
  /\ users' = [users EXCEPT ![u].key = EnvKey, ![u].is_admin = TRUE]

Named(n) == \E u \in Uids : users[u].name = n

InsertAdmin ==
  /\ ~Named(Admin)
  /\ users' = Append(users, [name |-> Admin, key |-> EnvKey, is_admin |-> TRUE,
                             is_active |-> TRUE])

\* _lifespan.  Without a key it leaves the users alone, and serves all the same.
Lifespan ==
  /\ ~serving
  /\ keyed' \in BOOLEAN
  /\ IF keyed' THEN InsertAdmin \/ RekeyAdmin ELSE UNCHANGED users
  /\ serving' = TRUE
  /\ UNCHANGED <<projects, sessions, threads, requests, crashes, ghosts>>

Answering == {t \in Threads : threads[t].pc = "answer"}

Crash ==
  /\ crashes < MaxCrashes
  /\ crashes' = crashes + 1
  /\ serving' = FALSE
  /\ threads' = [t \in Threads |-> Idle]
  /\ lost' = lost \cup {threads[t].request : t \in Answering}
  /\ UNCHANGED <<tables, requests, keyed, raced>>

(***************************************************************************)
(* A request arrives with the key of an active user                        *)
(***************************************************************************)

\* A new key reaches somebody only with the answer that carries it.
Known(key) == key \notin lost /\ \A o \in Answering : threads[o].request # key

Begin(t, th) ==
  /\ serving
  /\ threads[t].pc = "idle"
  /\ requests < MaxRequests
  /\ users[th.user].is_active /\ Known(users[th.user].key)
  /\ requests' = requests + 1
  /\ threads' = [threads EXCEPT ![t] = [th EXCEPT !.request = requests + 1]]
  /\ UNCHANGED <<tables, serving, keyed, crashes, lost>>

At(u, pc) == [Idle EXCEPT !.pc = pc, !.user = u]

BeginCreateUser(t, u, n, admin) ==
  /\ users[u].is_admin
  /\ Begin(t, [At(u, "check_name") EXCEPT !.name = n, !.is_admin = admin])
  /\ raced' = IF \E o \in Threads : threads[o].pc \in {"check_name", "insert_user"}
                                      /\ threads[o].name = n
              THEN [raced EXCEPT !.names = @ \cup {n}] ELSE raced

\* disable_user: "Cannot disable self"
MayDisable(u, v) == users[u].is_admin /\ u # v

BeginDisable(t, u, v) ==
  /\ MayDisable(u, v)
  /\ Begin(t, [At(u, "disable") EXCEPT !.target = v])
  /\ raced' = [raced EXCEPT !.disabling = @ \/ \E o \in Threads : threads[o].pc = "disable"]

BeginEnable(t, u, v) ==
  /\ users[u].is_admin
  /\ Begin(t, [At(u, "enable") EXCEPT !.target = v])
  /\ UNCHANGED raced

BeginRotate(t, u, v) ==
  /\ users[u].is_admin
  /\ Begin(t, [At(u, "rotate") EXCEPT !.target = v])
  /\ UNCHANGED raced

BeginCreateProject(t, u, n) ==
  /\ Begin(t, [At(u, "create_project") EXCEPT !.name = n])
  /\ UNCHANGED raced

BeginArchive(t, u, p) ==
  /\ Begin(t, [At(u, "archive") EXCEPT !.target = p])
  /\ UNCHANGED raced

\* create_session in a project the client names, ...
BeginSessionIn(t, u, p) ==
  /\ Begin(t, [At(u, "find_project") EXCEPT !.target = p])
  /\ UNCHANGED raced

\* ... or without one: in the default project
BeginSession(t, u) ==
  /\ Begin(t, At(u, "find_default"))
  /\ raced' = IF \E o \in Threads : threads[o].pc \in {"find_default", "insert_default"}
                                      /\ threads[o].user = u
              THEN [raced EXCEPT !.defaults = @ \cup {u}] ELSE raced

(***************************************************************************)
(* The handlers, statement by statement                                    *)
(***************************************************************************)

Goto(t, pc) == threads' = [threads EXCEPT ![t].pc = pc]
Done(t)     == threads' = [threads EXCEPT ![t] = Idle]

Handle(t, pc) ==
  /\ threads[t].pc = pc
  /\ UNCHANGED <<serving, keyed, requests, crashes, ghosts>>

\* MUTANT: the name is not looked up
NeverNamed(n) == FALSE

Taken(n) == Named(n)

CheckName(t) ==
  /\ Handle(t, "check_name")
  /\ IF Taken(threads[t].name) THEN Done(t) ELSE Goto(t, "insert_user")
  /\ UNCHANGED tables

InsertUser(t) ==
  /\ Handle(t, "insert_user")
  /\ users' = Append(users, [name |-> threads[t].name, key |-> threads[t].request,
                             is_admin |-> threads[t].is_admin, is_active |-> TRUE])
  /\ Goto(t, "answer")
  /\ UNCHANGED <<projects, sessions>>

Disable(t) ==
  /\ Handle(t, "disable")
  /\ users' = [users EXCEPT ![threads[t].target].is_active = FALSE]
  /\ Done(t)
  /\ UNCHANGED <<projects, sessions>>

Enable(t) ==
  /\ Handle(t, "enable")
  /\ users' = [users EXCEPT ![threads[t].target].is_active = TRUE]
  /\ Done(t)
  /\ UNCHANGED <<projects, sessions>>

Rotate(t) ==
  /\ Handle(t, "rotate")
  /\ users' = [users EXCEPT ![threads[t].target].key = threads[t].request]
  /\ Goto(t, "answer")
  /\ UNCHANGED <<projects, sessions>>

\* Only now somebody knows the key.
Answer(t) ==
  /\ Handle(t, "answer")
  /\ Done(t)
  /\ UNCHANGED tables

NewProject(t, n, ensured) ==
  projects' = Append(projects, [owner |-> threads[t].user, name |-> n,
                                archived |-> FALSE, ensured |-> ensured])

CreateProject(t) ==
  /\ Handle(t, "create_project")
  /\ NewProject(t, threads[t].name, FALSE)
  /\ Done(t)
  /\ UNCHANGED <<users, sessions>>

\* archive_project: UPDATE ... WHERE id = ? AND owner_id = ?
Archive(t) ==
  /\ Handle(t, "archive")
  /\ projects' = [projects EXCEPT ![threads[t].target].archived =
       @ \/ projects[threads[t].target].owner = threads[t].user]
  /\ Done(t)
  /\ UNCHANGED <<users, sessions>>

\* MUTANT: the owner is not asked for
LiveOfAnyone(u, p) == ~projects[p].archived

Live(u, p) == projects[p].owner = u /\ ~projects[p].archived

FindProject(t) ==
  /\ Handle(t, "find_project")
  /\ IF Live(threads[t].user, threads[t].target) THEN Goto(t, "save_session") ELSE Done(t)
  /\ UNCHANGED tables

Defaults(u) == {p \in Pids : Live(u, p) /\ projects[p].name = Default}

\* The SELECT of ensure_default_project has a LIMIT and no order.
FindDefault(t) ==
  /\ Handle(t, "find_default")
  /\ \/ \E p \in Defaults(threads[t].user) :
          threads' = [threads EXCEPT ![t].pc = "save_session", ![t].target = p]
     \/ Defaults(threads[t].user) = {} /\ Goto(t, "insert_default")
  /\ UNCHANGED tables

InsertDefault(t) ==
  /\ Handle(t, "insert_default")
  /\ NewProject(t, Default, TRUE)
  /\ threads' = [threads EXCEPT ![t].pc = "save_session", ![t].target = Len(projects) + 1]
  /\ UNCHANGED <<users, sessions>>

SaveSession(t) ==
  /\ Handle(t, "save_session")
  /\ sessions' = Append(sessions, [owner |-> threads[t].user, project |-> threads[t].target])
  /\ Done(t)
  /\ UNCHANGED <<users, projects>>

(***************************************************************************)
(* Steps                                                                   *)
(***************************************************************************)

Request(t, u) ==
  \/ \E n \in UserNames, admin \in BOOLEAN : BeginCreateUser(t, u, n, admin)
  \/ \E v \in Uids : BeginDisable(t, u, v) \/ BeginEnable(t, u, v) \/ BeginRotate(t, u, v)
  \/ \E n \in ProjectNames : BeginCreateProject(t, u, n)
  \/ \E p \in Pids : BeginArchive(t, u, p) \/ BeginSessionIn(t, u, p)
  \/ BeginSession(t, u)

Statement(t) ==
  \/ CheckName(t) \/ InsertUser(t)
  \/ Disable(t) \/ Enable(t) \/ Rotate(t) \/ Answer(t)
  \/ CreateProject(t) \/ Archive(t)
  \/ FindProject(t) \/ FindDefault(t) \/ InsertDefault(t) \/ SaveSession(t)

Next ==
  \/ Lifespan
  \/ \E t \in Threads : Statement(t) \/ \E u \in Uids : Request(t, u)
  \/ Crash

Spec == Init /\ [][Next]_vars

(***************************************************************************)
(* Properties                                                              *)
(***************************************************************************)

\* Two users of one name, or two default projects of one user, come only from
\* two requests for it at once: neither table has a unique index for them, so
\* that the looks before main.py:121 and storage.py:505 are all there is.
NamesUnique ==
  \A u, v \in Uids : users[u].name = users[v].name /\ users[u].name \notin raced.names => u = v
OneDefault ==
  \A p, q \in Pids :
    /\ projects[p].ensured /\ ~projects[p].archived
    /\ projects[q].ensured /\ ~projects[q].archived
    /\ projects[p].owner = projects[q].owner /\ projects[p].owner \notin raced.defaults
    => p = q
UniqueUnlessRaced == NamesUnique /\ OneDefault

\* The system that has users is never without an active admin, unless users were
\* disabled by two requests at once (main.py:137, "you'd lock out admin").  And
\* while it serves, one of them holds a key: only a crash between the storing of a
\* new key and its answer can take that away (storage.py:429), and then only
\* from a process that was started without a key, or whose bootstrap admin
\* somebody had disabled.
Reachable == \E u \in Uids : users[u].is_admin /\ users[u].is_active /\ users[u].key \notin lost
AdminRemains ==
  users # <<>> /\ ~raced.disabling => \E u \in Uids : users[u].is_admin /\ users[u].is_active
KeyHeld ==
  serving /\ users # <<>> /\ ~raced.disabling =>
    \/ Reachable
    \/ lost # {} /\ (keyed => \E u \in Uids : users[u].name = Admin /\ ~users[u].is_active)
AdminReachable == AdminRemains /\ KeyHeld

\* Whatever is archived, created or disabled meanwhile, a session is saved in a
\* project of its owner (main.py:266).
SessionsInOwnProject ==
  \A i \in 1..Len(sessions) :
    sessions[i].project \in Pids /\ projects[sessions[i].project].owner = sessions[i].owner
=============================================================================
