--------------------------- MODULE AccountsProofs ---------------------------
(***************************************************************************)
(* Names, default projects, the admin and the owners of sessions are safe  *)
(* for any number of threads, requests and crashes.  None of it is         *)
(* inductive: a statement relies on what its request looked up before, and *)
(* that stays true only as long as no other request did the same between.  *)
(* So the invariant follows each request (Sound, NamesFree, DefaultsFree,  *)
(* DisablersActive) and says which two may be at it (Pairs).               *)
(***************************************************************************)
EXTENDS Accounts, SequenceTheorems, TLAPS

Naming(th)     == th.pc \in {"check_name", "insert_user"}
Defaulting(th) == th.pc \in {"find_default", "insert_default"}

\* What a request found is still there.
Sound(th) ==
  /\ th.pc # "idle" => th.request \in 1..requests /\ th.request \notin lost /\ th.user \in Uids
  /\ Naming(th) => th.name \in UserNames
  /\ th.pc \in {"disable", "enable", "rotate"} => th.target \in Uids
  /\ th.pc = "create_project" => th.name \in ProjectNames
  /\ th.pc \in {"archive", "find_project"} => th.target \in Pids
  /\ th.pc = "save_session" => th.target \in Pids /\ projects[th.target].owner = th.user

Pairs ==
  \A t, o \in Threads : t # o =>
    /\ Naming(threads[t]) /\ Naming(threads[o]) /\ threads[t].name = threads[o].name
         => threads[t].name \in raced.names
    /\ Defaulting(threads[t]) /\ Defaulting(threads[o]) /\ threads[t].user = threads[o].user
         => threads[t].user \in raced.defaults
    /\ threads[t].pc = "disable" /\ threads[o].pc = "disable" => raced.disabling

NamesFree ==
  \A t \in Threads :
    threads[t].pc = "insert_user" /\ threads[t].name \notin raced.names => ~Named(threads[t].name)

HasDefault(u) == \E p \in Pids : projects[p].owner = u /\ projects[p].ensured /\ ~projects[p].archived

DefaultsFree ==
  \A t \in Threads :
    threads[t].pc = "insert_default" /\ threads[t].user \notin raced.defaults
      => ~HasDefault(threads[t].user)

EnsuredDefault == \A p \in Pids : projects[p].ensured => projects[p].name = Default

DisablersActive ==
  ~raced.disabling => \A t \in Threads : threads[t].pc = "disable" =>
    /\ users[threads[t].user].is_admin /\ users[threads[t].user].is_active
    /\ threads[t].user # threads[t].target

\* The bootstrap admin of the process's own key is the one no crash takes away.
BootstrapKeyHeld ==
  serving /\ keyed =>
    \E u \in Uids : users[u].name = Admin /\ users[u].is_admin /\ users[u].key \notin lost
AdminKept == AdminRemains /\ BootstrapKeyHeld

LostKnown == lost \subseteq 1..requests

IInv ==
  /\ TypeOK /\ LostKnown
  /\ \A t \in Threads : Sound(threads[t])
  /\ Pairs /\ NamesFree /\ DefaultsFree /\ EnsuredDefault /\ DisablersActive
  /\ UniqueUnlessRaced /\ AdminKept /\ SessionsInOwnProject

(***************************************************************************)
(* The tables only grow                                                    *)
(***************************************************************************)

UsersGrow ==
  /\ users' \in Seq(User) /\ Len(users) <= Len(users')
  /\ \A i \in Uids : users'[i].name = users[i].name /\ (users[i].is_admin => users'[i].is_admin)

ProjectsGrow ==
  /\ projects' \in Seq(Project) /\ Len(projects) <= Len(projects')
  /\ \A p \in Pids :
       /\ projects'[p].owner = projects[p].owner /\ projects'[p].name = projects[p].name
       /\ projects'[p].ensured = projects[p].ensured
       /\ projects[p].archived => projects'[p].archived

LEMMA Elements ==
  ASSUME NEW S, NEW s \in Seq(S)
  PROVE  Len(s) \in Nat /\ \A i \in 1..Len(s) : s[i] \in S
OBVIOUS

\* What one row more does, and what a changed one does.
LEMMA OneMore ==
  ASSUME NEW S, NEW s \in Seq(S), NEW e \in S
  PROVE  /\ Append(s, e) \in Seq(S)
         /\ Len(Append(s, e)) = Len(s) + 1
         /\ \A i \in 1..Len(s) : Append(s, e)[i] = s[i]
         /\ Append(s, e)[Len(s) + 1] = e
BY AppendProperties

LEMMA OneChanged ==
  ASSUME NEW S, NEW s \in Seq(S), NEW i \in 1..Len(s), NEW e \in S
  PROVE  /\ [s EXCEPT ![i] = e] \in Seq(S)
         /\ Len([s EXCEPT ![i] = e]) = Len(s)
         /\ [s EXCEPT ![i] = e][i] = e
         /\ \A j \in 1..Len(s) : j # i => [s EXCEPT ![i] = e][j] = s[j]
BY ExceptSeq

LEMMA UsersSame == users \in Seq(User) /\ users' = users => UsersGrow
<1> SUFFICES ASSUME users \in Seq(User), users' = users PROVE UsersGrow
  OBVIOUS
<1>1. Len(users) \in Nat
  OBVIOUS
<1> QED BY <1>1 DEF UsersGrow, Uids

LEMMA ProjectsSame == projects \in Seq(Project) /\ projects' = projects => ProjectsGrow
<1> SUFFICES ASSUME projects \in Seq(Project), projects' = projects PROVE ProjectsGrow
  OBVIOUS
<1>1. Len(projects) \in Nat
  OBVIOUS
<1> QED BY <1>1 DEF ProjectsGrow, Pids

LEMMA NewUser ==
  ASSUME users \in Seq(User), NEW e \in User, users' = Append(users, e)
  PROVE  /\ UsersGrow
         /\ Len(users') = Len(users) + 1 /\ users'[Len(users) + 1] = e
         /\ \A i \in Uids : users'[i] = users[i]
<1>1. Len(users) \in Nat
  OBVIOUS
<1>2. /\ users' \in Seq(User) /\ Len(users') = Len(users) + 1
      /\ users'[Len(users) + 1] = e /\ \A i \in 1..Len(users) : users'[i] = users[i]
  BY OneMore
<1> QED BY <1>1, <1>2 DEF UsersGrow, Uids

LEMMA ChangedUser ==
  ASSUME users \in Seq(User), NEW u \in Uids, NEW e \in User, users' = [users EXCEPT ![u] = e],
         e.name = users[u].name, users[u].is_admin => e.is_admin
  PROVE  /\ UsersGrow
         /\ Len(users') = Len(users) /\ users'[u] = e
         /\ \A i \in Uids : i # u => users'[i] = users[i]
<1>1. Len(users) \in Nat
  OBVIOUS
<1>2. /\ users' \in Seq(User) /\ Len(users') = Len(users)
      /\ users'[u] = e /\ \A i \in 1..Len(users) : i # u => users'[i] = users[i]
  BY OneChanged DEF Uids
<1> QED BY <1>1, <1>2 DEF UsersGrow, Uids

LEMMA AddedProject ==
  ASSUME projects \in Seq(Project), NEW e \in Project, projects' = Append(projects, e)
  PROVE  /\ ProjectsGrow
         /\ Len(projects') = Len(projects) + 1 /\ projects'[Len(projects) + 1] = e
         /\ \A p \in Pids : projects'[p] = projects[p]
<1>1. Len(projects) \in Nat
  OBVIOUS
<1>2. /\ projects' \in Seq(Project) /\ Len(projects') = Len(projects) + 1
      /\ projects'[Len(projects) + 1] = e /\ \A i \in 1..Len(projects) : projects'[i] = projects[i]
  BY OneMore
<1> QED BY <1>1, <1>2 DEF ProjectsGrow, Pids

(***************************************************************************)
(* What every step of a request keeps                                      *)
(***************************************************************************)

LEMMA SoundKept ==
  ASSUME NEW th, Sound(th), users \in Seq(User), projects \in Seq(Project),
         UsersGrow, ProjectsGrow,
         requests \in Nat, requests' \in Nat, requests <= requests', lost' = lost
  PROVE  Sound(th)'
<1>1. Len(users) \in Nat /\ Len(users') \in Nat /\ Len(projects) \in Nat /\ Len(projects') \in Nat
  BY DEF UsersGrow, ProjectsGrow
<1>2. Uids \subseteq Uids' /\ Pids \subseteq Pids'
  BY <1>1 DEF Uids, Pids, UsersGrow, ProjectsGrow
<1>3. 1..requests \subseteq 1..requests'
  OBVIOUS
<1>4. th.target \in Pids => projects'[th.target].owner = projects[th.target].owner
  BY DEF ProjectsGrow
<1> QED BY <1>2, <1>3, <1>4 DEF Sound, Naming

\* A statement: no request comes, and none goes back to what it is past.
Calm(th, new) ==
  /\ Naming(new) => Naming(th) /\ new.name = th.name
  /\ Defaulting(new) => Defaulting(th) /\ new.user = th.user
  /\ new.pc # "disable"

ThreadsPart ==
  /\ threads \in [Threads -> Thread]
  /\ \A t \in Threads : Sound(threads[t])
  /\ Pairs

RestTyped ==
  /\ serving \in BOOLEAN /\ keyed \in BOOLEAN
  /\ requests \in {0} \cup Requests /\ crashes \in 0..MaxCrashes
  /\ raced \in [names : SUBSET UserNames, defaults : SUBSET Nat, disabling : BOOLEAN]
  /\ lost \subseteq Requests /\ LostKnown

LEMMA Counted == IInv => requests \in Nat
BY AccountsAssumption DEF IInv, TypeOK, Requests

LEMMA Stated ==
  ASSUME IInv, NEW t \in Threads, NEW new \in Thread,
         threads' = [threads EXCEPT ![t] = new],
         UNCHANGED <<serving, keyed, requests, crashes, ghosts>>,
         UsersGrow, ProjectsGrow, Sound(new)', Calm(threads[t], new)
  PROVE  ThreadsPart' /\ RestTyped'
<1>1. threads \in [Threads -> Thread] /\ users \in Seq(User) /\ projects \in Seq(Project)
  BY DEF IInv, TypeOK
<1>2. threads' \in [Threads -> Thread] /\ threads'[t] = new
      /\ \A o \in Threads : o # t => threads'[o] = threads[o]
  BY <1>1
<1>3. RestTyped'
  BY DEF IInv, TypeOK, RestTyped, LostKnown, ghosts
<1>4. ASSUME NEW o \in Threads PROVE Sound(threads[o])'
  <2>1. CASE o = t
    BY <2>1, <1>2
  <2>2. CASE o # t
    <3>1. PICK th : th = threads[o]
      OBVIOUS
    <3>2. Sound(th)
      BY <3>1 DEF IInv
    <3>3. requests' = requests /\ lost' = lost
      BY DEF ghosts
    <3>4. Sound(th)'
      BY <1>1, <3>2, <3>3, Counted, SoundKept
    <3>5. threads'[o] = th
      BY <2>2, <3>1, <1>2
    <3> QED BY <3>4, <3>5 DEF Sound, Naming
  <2> QED BY <2>1, <2>2
<1>5. Pairs'
  <2>1. ASSUME NEW o \in Threads
        PROVE  /\ Naming(threads'[o]) => Naming(threads[o]) /\ threads'[o].name = threads[o].name
               /\ Defaulting(threads'[o]) => Defaulting(threads[o]) /\ threads'[o].user = threads[o].user
               /\ threads'[o].pc = "disable" => threads[o].pc = "disable"
    BY <1>2 DEF Calm
  <2>2. raced' = raced
    BY DEF ghosts
  <2> QED BY <2>1, <2>2 DEF Pairs, IInv, Naming, Defaulting
<1> QED BY <1>2, <1>3, <1>4, <1>5 DEF ThreadsPart

\* What is said of the users, and of the projects
UsersPart    == NamesFree /\ DisablersActive /\ NamesUnique /\ AdminKept
ProjectsPart == DefaultsFree /\ EnsuredDefault /\ OneDefault /\ SessionsInOwnProject

RacedGrows ==
  /\ raced.names \subseteq raced'.names /\ raced.defaults \subseteq raced'.defaults
  /\ raced.disabling => raced'.disabling

LEMMA UsersPartKept ==
  ASSUME IInv, NEW t \in Threads, NEW new \in Thread,
         threads' = [threads EXCEPT ![t] = new],
         UNCHANGED <<users, serving, keyed, lost>>, RacedGrows,
         new.pc = "insert_user" => ~Named(new.name),
         new.pc = "disable" /\ ~raced'.disabling =>
           /\ users[new.user].is_admin /\ users[new.user].is_active
           /\ new.user # new.target
  PROVE  UsersPart'
<1>1. threads' \in [Threads -> Thread] /\ threads'[t] = new
      /\ \A o \in Threads : o # t => threads'[o] = threads[o]
  BY DEF IInv, TypeOK
<1>2. NamesFree'
  BY <1>1 DEF IInv, NamesFree, Named, Uids, RacedGrows
<1>3. DisablersActive'
  BY <1>1 DEF IInv, DisablersActive, RacedGrows
<1>4. NamesUnique'
  BY DEF IInv, UniqueUnlessRaced, NamesUnique, Uids, RacedGrows
<1>5. AdminKept'
  BY DEF IInv, AdminKept, AdminRemains, BootstrapKeyHeld, Uids, RacedGrows
<1> QED BY <1>2, <1>3, <1>4, <1>5 DEF UsersPart

LEMMA ProjectsPartKept ==
  ASSUME IInv, NEW t \in Threads, NEW new \in Thread,
         threads' = [threads EXCEPT ![t] = new],
         UNCHANGED <<projects, sessions>>, RacedGrows,
         new.pc = "insert_default" => ~HasDefault(new.user)
  PROVE  ProjectsPart'
<1>1. threads' \in [Threads -> Thread] /\ threads'[t] = new
      /\ \A o \in Threads : o # t => threads'[o] = threads[o]
  BY DEF IInv, TypeOK
<1>2. DefaultsFree'
  BY <1>1 DEF IInv, DefaultsFree, HasDefault, Pids, RacedGrows
<1>3. EnsuredDefault' /\ SessionsInOwnProject'
  BY DEF IInv, EnsuredDefault, SessionsInOwnProject, Pids
<1>4. OneDefault'
  BY DEF IInv, UniqueUnlessRaced, OneDefault, Pids, RacedGrows
<1> QED BY <1>2, <1>3, <1>4 DEF ProjectsPart

(***************************************************************************)
(* Requests that begin                                                     *)
(***************************************************************************)

\* What a request is about
Fits(th) ==
  /\ Naming(th) => th.name \in UserNames
  /\ th.pc \in {"disable", "enable", "rotate"} => th.target \in Uids
  /\ th.pc = "create_project" => th.name \in ProjectNames
  /\ th.pc \in {"archive", "find_project"} => th.target \in Pids

LEMMA Begun ==
  ASSUME IInv, NEW t \in Threads, NEW th \in Thread, Begin(t, th), th.pc # "idle",
         th.pc \notin {"insert_user", "insert_default", "save_session"},
         th.user \in Uids, Fits(th), RacedGrows,
         raced' \in [names : SUBSET UserNames, defaults : SUBSET Nat, disabling : BOOLEAN],
         \A o \in Threads :
           /\ Naming(th) /\ Naming(threads[o]) /\ threads[o].name = th.name => th.name \in raced'.names
           /\ Defaulting(th) /\ Defaulting(threads[o]) /\ threads[o].user = th.user
                => th.user \in raced'.defaults
           /\ th.pc = "disable" /\ threads[o].pc = "disable" => raced'.disabling,
         th.pc = "disable" /\ ~raced'.disabling =>
           /\ users[th.user].is_admin /\ users[th.user].is_active
           /\ th.user # th.target
  PROVE  IInv'
<1>1. PICK new : new = [th EXCEPT !.request = requests + 1]
  OBVIOUS
<1>2. requests + 1 \in Requests /\ requests \in Nat
  BY Counted, AccountsAssumption DEF Begin, IInv, TypeOK, Requests
<1>3. new \in Thread /\ new.pc = th.pc /\ new.user = th.user /\ new.name = th.name
      /\ new.target = th.target
  BY <1>1, <1>2 DEF Thread
<1>4. threads' = [threads EXCEPT ![t] = new]
  BY <1>1 DEF Begin
<1>5. threads \in [Threads -> Thread] /\ users \in Seq(User) /\ projects \in Seq(Project)
  BY DEF IInv, TypeOK
<1>6. threads' \in [Threads -> Thread] /\ threads'[t] = new
      /\ \A o \in Threads : o # t => threads'[o] = threads[o]
  BY <1>3, <1>4, <1>5
<1>7. UNCHANGED <<users, projects, sessions, serving, keyed, crashes, lost>> /\ requests' = requests + 1
  BY DEF Begin, tables
<1>8. UsersGrow /\ ProjectsGrow
  BY <1>5, <1>7, UsersSame, ProjectsSame
<1>9. ASSUME NEW o \in Threads PROVE Sound(threads[o])'
  <2>1. CASE o = t
    <3>1. new.request = requests + 1 /\ new.request \notin lost
      BY <1>1, <1>2 DEF Thread, IInv, LostKnown
    <3>2. new.request \in 1..requests'
      BY <3>1, <1>2, <1>7
    <3> QED BY <2>1, <3>1, <3>2, <1>3, <1>6, <1>7 DEF Sound, Naming, Fits, Uids, Pids
  <2>2. CASE o # t
    <3>1. PICK x : x = threads[o]
      OBVIOUS
    <3>2. Sound(x)
      BY <3>1 DEF IInv
    <3>3. Sound(x)'
      BY <1>2, <1>5, <1>7, <1>8, <3>2, SoundKept
    <3> QED BY <2>2, <3>1, <3>3, <1>6 DEF Sound, Naming
  <2> QED BY <2>1, <2>2
<1>10. Pairs'
  BY <1>3, <1>6 DEF Pairs, IInv, Naming, Defaulting, RacedGrows
<1>11. UsersPart'
  BY <1>3, <1>4, <1>7, UsersPartKept
<1>12. ProjectsPart'
  BY <1>3, <1>4, <1>7, ProjectsPartKept
<1>13. RestTyped'
  BY <1>2, <1>7 DEF IInv, TypeOK, RestTyped, LostKnown
<1>14. /\ users' \in Seq(User) /\ projects' \in Seq(Project)
       /\ sessions' \in Seq([owner : Nat, project : Nat])
  BY <1>7 DEF IInv, TypeOK
<1>15. ThreadsPart'
  BY <1>6, <1>9, <1>10 DEF ThreadsPart
<1> QED BY <1>11, <1>12, <1>13, <1>14, <1>15
        DEF ThreadsPart, RestTyped, UsersPart, ProjectsPart, IInv, TypeOK, UniqueUnlessRaced

LEMMA RequestKeeps ==
  ASSUME IInv, NEW t \in Threads, NEW u \in Uids, Request(t, u)
  PROVE  IInv'
<1> USE AccountsAssumption
<1>1. /\ Len(users) \in Nat /\ Len(projects) \in Nat /\ Uids \subseteq Nat /\ Pids \subseteq Nat
      /\ raced \in [names : SUBSET UserNames, defaults : SUBSET Nat, disabling : BOOLEAN]
  BY DEF IInv, TypeOK, Uids, Pids
<1>2. raced' = raced => RacedGrows
  BY DEF RacedGrows
<1>3. ASSUME NEW n \in UserNames, NEW admin \in BOOLEAN, BeginCreateUser(t, u, n, admin)
      PROVE  IInv'
  <2>1. PICK th \in Thread : th = [At(u, "check_name") EXCEPT !.name = n, !.is_admin = admin]
    BY <1>1 DEF At, Idle, Thread
  <2>2. th.pc = "check_name" /\ th.user = u /\ th.name = n
    BY <2>1 DEF At, Idle
  <2>3. Begin(t, th) /\ Fits(th)
    BY <1>3, <2>1, <2>2 DEF BeginCreateUser, Fits, Naming
  <2>4. raced' = IF \E o \in Threads : Naming(threads[o]) /\ threads[o].name = n
                 THEN [raced EXCEPT !.names = @ \cup {n}] ELSE raced
    BY <1>3 DEF BeginCreateUser, Naming
  <2>5. raced' \in [names : SUBSET UserNames, defaults : SUBSET Nat, disabling : BOOLEAN]
        /\ RacedGrows
    BY <1>1, <2>4 DEF RacedGrows
  <2>6. ASSUME NEW o \in Threads, Naming(threads[o]), threads[o].name = n PROVE n \in raced'.names
    BY <1>1, <2>4, <2>6
  <2> QED BY <2>2, <2>3, <2>5, <2>6, Begun DEF Defaulting
<1>4. ASSUME NEW v \in Uids, BeginDisable(t, u, v)
      PROVE  IInv'
  <2>1. PICK th \in Thread : th = [At(u, "disable") EXCEPT !.target = v]
    BY <1>1 DEF At, Idle, Thread
  <2>2. th.pc = "disable" /\ th.user = u /\ th.target = v
    BY <2>1 DEF At, Idle
  <2>3. Begin(t, th) /\ Fits(th)
    BY <1>4, <2>1, <2>2 DEF BeginDisable, Fits, Naming
  <2>4. raced' = [raced EXCEPT !.disabling = @ \/ \E o \in Threads : threads[o].pc = "disable"]
    BY <1>4 DEF BeginDisable
  <2>5. raced' \in [names : SUBSET UserNames, defaults : SUBSET Nat, disabling : BOOLEAN]
        /\ RacedGrows
    BY <1>1, <2>4 DEF RacedGrows
  <2>6. ASSUME NEW o \in Threads, threads[o].pc = "disable" PROVE raced'.disabling
    BY <1>1, <2>4, <2>6
  <2>7. users[u].is_admin /\ users[u].is_active /\ u # v
    BY <1>4, <2>2, <2>3 DEF BeginDisable, MayDisable, Begin
  <2> QED BY <2>2, <2>3, <2>5, <2>6, <2>7, Begun DEF Defaulting, Naming
<1>5. ASSUME NEW v \in Uids, BeginEnable(t, u, v) \/ BeginRotate(t, u, v)
      PROVE  IInv'
  <2>1. PICK pc \in {"enable", "rotate"} : Begin(t, [At(u, pc) EXCEPT !.target = v])
    BY <1>5 DEF BeginEnable, BeginRotate
  <2>2. PICK th \in Thread : th = [At(u, pc) EXCEPT !.target = v]
    BY <1>1 DEF At, Idle, Thread
  <2>3. Begin(t, th) /\ th.pc \in {"enable", "rotate"} /\ th.user = u /\ th.target = v
    BY <2>1, <2>2 DEF At, Idle
  <2>4. Fits(th) /\ raced' = raced
    BY <1>5, <2>3 DEF BeginEnable, BeginRotate, Fits, Naming
  <2> QED BY <1>1, <1>2, <2>3, <2>4, Begun DEF Defaulting, Naming
<1>6. ASSUME NEW n \in ProjectNames, BeginCreateProject(t, u, n)
      PROVE  IInv'
  <2>1. PICK th \in Thread : th = [At(u, "create_project") EXCEPT !.name = n]
    BY <1>1 DEF At, Idle, Thread
  <2>2. Begin(t, th) /\ th.pc = "create_project" /\ th.user = u /\ th.name = n
    BY <1>6, <2>1 DEF BeginCreateProject, At, Idle
  <2>3. Fits(th) /\ raced' = raced
    BY <1>6, <2>2 DEF BeginCreateProject, Fits, Naming
  <2> QED BY <1>1, <1>2, <2>2, <2>3, Begun DEF Defaulting, Naming
<1>7. ASSUME NEW p \in Pids, BeginArchive(t, u, p) \/ BeginSessionIn(t, u, p)
      PROVE  IInv'
  <2>1. PICK pc \in {"archive", "find_project"} : Begin(t, [At(u, pc) EXCEPT !.target = p])
    BY <1>7 DEF BeginArchive, BeginSessionIn
  <2>2. PICK th \in Thread : th = [At(u, pc) EXCEPT !.target = p]
    BY <1>1 DEF At, Idle, Thread
  <2>3. Begin(t, th) /\ th.pc \in {"archive", "find_project"} /\ th.user = u /\ th.target = p
    BY <2>1, <2>2 DEF At, Idle
  <2>4. Fits(th) /\ raced' = raced
    BY <1>7, <2>3 DEF BeginArchive, BeginSessionIn, Fits, Naming
  <2> QED BY <1>1, <1>2, <2>3, <2>4, Begun DEF Defaulting, Naming
<1>8. ASSUME BeginSession(t, u)
      PROVE  IInv'
  <2>1. PICK th \in Thread : th = At(u, "find_default")
    BY <1>1 DEF At, Idle, Thread
  <2>2. Begin(t, th) /\ th.pc = "find_default" /\ th.user = u
    BY <1>8, <2>1 DEF BeginSession, At, Idle
  <2>3. Fits(th)
    BY <2>2 DEF Fits, Naming
  <2>4. raced' = IF \E o \in Threads : Defaulting(threads[o]) /\ threads[o].user = u
                 THEN [raced EXCEPT !.defaults = @ \cup {u}] ELSE raced
    BY <1>8 DEF BeginSession, Defaulting
  <2>5. raced' \in [names : SUBSET UserNames, defaults : SUBSET Nat, disabling : BOOLEAN]
        /\ RacedGrows
    BY <1>1, <2>4 DEF RacedGrows
  <2>6. ASSUME NEW o \in Threads, Defaulting(threads[o]), threads[o].user = u
        PROVE  u \in raced'.defaults
    BY <1>1, <2>4, <2>6
  <2> QED BY <2>2, <2>3, <2>5, <2>6, Begun DEF Naming
<1> QED BY <1>3, <1>4, <1>5, <1>6, <1>7, <1>8 DEF Request

(***************************************************************************)
(* Statements                                                              *)
(***************************************************************************)

LEMMA Concluded ==
  ASSUME IInv, NEW t \in Threads, NEW new \in Thread,
         threads' = [threads EXCEPT ![t] = new],
         UNCHANGED <<serving, keyed, requests, crashes, ghosts>>,
         UsersGrow, ProjectsGrow, Sound(new)', Calm(threads[t], new),
         UsersPart', ProjectsPart', sessions' \in Seq([owner : Nat, project : Nat])
  PROVE  IInv'
<1>1. ThreadsPart' /\ RestTyped'
  BY Stated
<1>2. users' \in Seq(User) /\ projects' \in Seq(Project)
  BY DEF UsersGrow, ProjectsGrow
<1> QED BY <1>1, <1>2
        DEF ThreadsPart, RestTyped, UsersPart, ProjectsPart, IInv, TypeOK, UniqueUnlessRaced

LEMMA IdleThread ==
  Idle \in Thread /\ Idle.pc = "idle"
BY DEF Idle, Thread

\* A statement that only looks
LEMMA LookKeeps ==
  ASSUME IInv, NEW t \in Threads, NEW new \in Thread,
         threads' = [threads EXCEPT ![t] = new],
         UNCHANGED <<tables, serving, keyed, requests, crashes, ghosts>>,
         Sound(new), Calm(threads[t], new),
         new.pc = "insert_user" => ~Named(new.name),
         new.pc = "insert_default" => ~HasDefault(new.user)
  PROVE  IInv'
<1>1. users \in Seq(User) /\ projects \in Seq(Project)
      /\ sessions \in Seq([owner : Nat, project : Nat])
  BY DEF IInv, TypeOK
<1>2. UNCHANGED <<users, projects, sessions, raced, lost>>
  BY DEF tables, ghosts
<1>3. UsersGrow /\ ProjectsGrow /\ RacedGrows
  BY <1>1, <1>2, UsersSame, ProjectsSame DEF RacedGrows
<1>4. Sound(new)'
  BY <1>1, <1>2, <1>3, Counted, SoundKept
<1>5. UsersPart'
  BY <1>2, <1>3, UsersPartKept DEF Calm
<1>6. ProjectsPart'
  BY <1>2, <1>3, ProjectsPartKept
<1> QED BY <1>1, <1>2, <1>3, <1>4, <1>5, <1>6, Concluded

LEMMA DoneKeeps ==
  ASSUME IInv, NEW t \in Threads, Done(t),
         UNCHANGED <<tables, serving, keyed, requests, crashes, ghosts>>
  PROVE  IInv'
<1>1. Sound(Idle) /\ Calm(threads[t], Idle)
  BY IdleThread DEF Sound, Calm, Naming, Defaulting
<1>2. PICK new \in Thread : new = Idle
  BY IdleThread
<1> QED BY <1>1, <1>2, IdleThread, LookKeeps DEF Done

LEMMA LooksKeep ==
  ASSUME IInv, NEW t \in Threads, CheckName(t) \/ Answer(t) \/ FindProject(t) \/ FindDefault(t)
  PROVE  IInv'
<1>1. UNCHANGED <<tables, serving, keyed, requests, crashes, ghosts>>
  BY DEF CheckName, Answer, FindProject, FindDefault, Handle
<1>2. threads \in [Threads -> Thread] /\ threads[t] \in Thread /\ Sound(threads[t])
  BY DEF IInv, TypeOK
<1>3. CASE Done(t)
  BY <1>1, <1>3, DoneKeeps
<1>4. CASE CheckName(t) /\ ~Done(t)
  <2>1. PICK new \in Thread : new = [threads[t] EXCEPT !.pc = "insert_user"]
    BY <1>2 DEF Thread
  <2>2. threads[t].pc = "check_name" /\ threads' = [threads EXCEPT ![t] = new]
    BY <1>2, <1>4, <2>1 DEF CheckName, Handle, Goto
  <2>3. new.pc = "insert_user" /\ new.name = threads[t].name /\ new.user = threads[t].user
        /\ new.request = threads[t].request /\ ~Named(new.name)
    BY <1>2, <1>4, <2>1 DEF Thread, CheckName, Taken
  <2> QED BY <1>1, <1>2, <2>2, <2>3, LookKeeps DEF Sound, Calm, Naming, Defaulting
<1>5. CASE FindProject(t) /\ ~Done(t)
  <2>1. PICK new \in Thread : new = [threads[t] EXCEPT !.pc = "save_session"]
    BY <1>2 DEF Thread
  <2>2. threads[t].pc = "find_project" /\ threads' = [threads EXCEPT ![t] = new]
    BY <1>2, <1>5, <2>1 DEF FindProject, Handle, Goto
  <2>3. /\ new.pc = "save_session" /\ new.user = threads[t].user
        /\ new.target = threads[t].target /\ new.request = threads[t].request
        /\ projects[new.target].owner = new.user
    BY <1>2, <1>5, <2>1 DEF Thread, FindProject, Live
  <2> QED BY <1>1, <1>2, <2>2, <2>3, LookKeeps DEF Sound, Calm, Naming, Defaulting
<1>6. CASE FindDefault(t) /\ Defaults(threads[t].user) = {} /\ Goto(t, "insert_default")
  <2>1. PICK new \in Thread : new = [threads[t] EXCEPT !.pc = "insert_default"]
    BY <1>2 DEF Thread
  <2>2. threads[t].pc = "find_default" /\ threads' = [threads EXCEPT ![t] = new]
    BY <1>2, <1>6, <2>1 DEF FindDefault, Handle, Goto
  <2>3. new.pc = "insert_default" /\ new.user = threads[t].user /\ new.request = threads[t].request
    BY <1>2, <2>1 DEF Thread
  <2>4. ~HasDefault(new.user)
    BY <1>6, <2>3 DEF HasDefault, Defaults, Live, IInv, EnsuredDefault
  <2> QED BY <1>1, <1>2, <2>2, <2>3, <2>4, LookKeeps DEF Sound, Calm, Naming, Defaulting
<1>7. CASE FindDefault(t) /\ ~(Defaults(threads[t].user) = {} /\ Goto(t, "insert_default"))
  <2>1. PICK p \in Defaults(threads[t].user) :
          threads' = [threads EXCEPT ![t].pc = "save_session", ![t].target = p]
    BY <1>7 DEF FindDefault
  <2>2. p \in Pids /\ p \in Nat /\ projects[p].owner = threads[t].user
    BY <2>1 DEF Defaults, Live, Pids
  <2>3. PICK new \in Thread : new = [threads[t] EXCEPT !.pc = "save_session", !.target = p]
    BY <1>2, <2>2 DEF Thread
  <2>4. threads[t].pc = "find_default" /\ threads' = [threads EXCEPT ![t] = new]
    BY <1>2, <1>7, <2>1, <2>3 DEF FindDefault, Handle
  <2>5. new.pc = "save_session" /\ new.user = threads[t].user /\ new.target = p
        /\ new.request = threads[t].request
    BY <1>2, <2>3 DEF Thread
  <2> QED BY <1>1, <1>2, <2>2, <2>4, <2>5, LookKeeps DEF Sound, Calm, Naming, Defaulting
<1> QED BY <1>3, <1>4, <1>5, <1>6, <1>7 DEF Answer

\* A statement on a user: what the new row must have
LEMMA UserStatement ==
  ASSUME IInv, NEW t \in Threads, NEW new \in Thread,
         threads' = [threads EXCEPT ![t] = new], new.pc \in {"idle", "answer"},
         new.pc = "answer" => new.request = threads[t].request /\ new.user = threads[t].user,
         threads[t].pc # "idle",
         UNCHANGED <<projects, sessions, serving, keyed, requests, crashes, ghosts>>,
         UsersGrow, NamesUnique', AdminKept',
         \A n \in UserNames : Named(n)' => Named(n) \/ (threads[t].pc = "insert_user" /\ n = threads[t].name),
         \A i \in Uids : (i # threads[t].target \/ threads[t].pc # "disable")
                           /\ users[i].is_active => users'[i].is_active
  PROVE  IInv'
<1>1. /\ users \in Seq(User) /\ projects \in Seq(Project) /\ threads \in [Threads -> Thread]
      /\ sessions' \in Seq([owner : Nat, project : Nat]) /\ Sound(threads[t])
  BY DEF IInv, TypeOK
<1>2. raced' = raced /\ lost' = lost
  BY DEF ghosts
<1>3. ProjectsGrow /\ RacedGrows
  BY <1>1, <1>2, ProjectsSame DEF RacedGrows
<1>4. Sound(new) /\ Calm(threads[t], new)
  BY <1>1 DEF Sound, Calm, Naming, Defaulting
<1>5. Sound(new)'
  BY <1>1, <1>2, <1>3, <1>4, Counted, SoundKept
<1>6. ProjectsPart'
  BY <1>3, ProjectsPartKept
<1>7. threads'[t] = new /\ \A o \in Threads : o # t => threads'[o] = threads[o]
  BY <1>1
<1>8. NamesFree'
  <2>1. ASSUME NEW o \in Threads, threads'[o].pc = "insert_user", threads'[o].name \notin raced.names
        PROVE  ~Named(threads[o].name)' /\ threads'[o].name = threads[o].name
    <3>1. o # t /\ threads'[o] = threads[o]
      BY <1>7, <2>1
    <3>2. PICK n \in UserNames : n = threads[o].name
      BY <3>1, <2>1 DEF IInv, Sound, Naming
    <3>3. ~Named(n)
      BY <2>1, <3>1, <3>2 DEF IInv, NamesFree
    <3>4. ~(threads[t].pc = "insert_user" /\ n = threads[t].name)
      BY <2>1, <3>1, <3>2 DEF IInv, Pairs, Naming
    <3>5. ~Named(n)'
      BY <3>3, <3>4
    <3> QED BY <3>1, <3>2, <3>5 DEF Named, Uids
  <2> QED BY <1>2, <2>1 DEF NamesFree, Named, Uids
<1>9. DisablersActive'
  <2>1. ASSUME ~raced.disabling, NEW o \in Threads, threads'[o].pc = "disable"
        PROVE  /\ users'[threads'[o].user].is_admin /\ users'[threads'[o].user].is_active
               /\ threads'[o].user # threads'[o].target
    <3>1. o # t /\ threads'[o] = threads[o]
      BY <1>7, <2>1
    <3>2. threads[t].pc # "disable" /\ threads[o].user \in Uids
      BY <2>1, <3>1 DEF IInv, Pairs, Sound
    <3>3. /\ users[threads[o].user].is_admin /\ users[threads[o].user].is_active
          /\ threads[o].user # threads[o].target
      BY <2>1, <3>1 DEF IInv, DisablersActive
    <3> QED BY <3>1, <3>2, <3>3 DEF UsersGrow
  <2> QED BY <1>2, <2>1 DEF DisablersActive
<1>10. UsersPart'
  BY <1>8, <1>9 DEF UsersPart
<1> QED BY <1>1, <1>3, <1>4, <1>5, <1>6, <1>10, Concluded

LEMMA InsertUserKeeps ==
  ASSUME IInv, NEW t \in Threads, InsertUser(t)
  PROVE  IInv'
<1>1. threads \in [Threads -> Thread] /\ threads[t] \in Thread /\ Sound(threads[t])
      /\ users \in Seq(User) /\ Len(users) \in Nat
  BY DEF IInv, TypeOK
<1>2. threads[t].pc = "insert_user" /\ threads[t].request \in Requests
      /\ threads[t].name \in UserNames /\ threads[t].user \in Uids
  BY <1>1 DEF InsertUser, Handle, Sound, Naming, Thread, IInv, TypeOK, Requests
<1>3. PICK e \in User : e = [name |-> threads[t].name, key |-> threads[t].request,
                             is_admin |-> threads[t].is_admin, is_active |-> TRUE]
  BY <1>1, <1>2 DEF Thread, User, Keys
<1>4. users' = Append(users, e)
  BY <1>3 DEF InsertUser
<1>5. UsersGrow /\ Len(users') = Len(users) + 1 /\ users'[Len(users) + 1] = e
      /\ \A i \in Uids : users'[i] = users[i]
  BY <1>1, <1>4, NewUser
<1>6. Uids' = Uids \cup {Len(users) + 1} /\ e.name = threads[t].name
  BY <1>1, <1>3, <1>5 DEF Uids
<1>7. raced' = raced /\ lost' = lost /\ serving' = serving /\ keyed' = keyed
  BY DEF InsertUser, Handle, ghosts
<1>8. PICK new \in Thread : new = [threads[t] EXCEPT !.pc = "answer"]
  BY <1>1 DEF Thread
<1>9. /\ new.pc = "answer" /\ new.request = threads[t].request /\ new.user = threads[t].user
      /\ threads' = [threads EXCEPT ![t] = new]
  BY <1>1, <1>8 DEF Thread, InsertUser, Goto
<1>10. ASSUME NEW n \in UserNames, Named(n)' PROVE Named(n) \/ n = threads[t].name
  BY <1>5, <1>6, <1>10 DEF Named
<1>11. NamesUnique'
  <2>1. e.name \notin raced.names => \A i \in Uids : users[i].name # e.name
    BY <1>2, <1>6 DEF IInv, NamesFree, Named
  <2> QED BY <1>5, <1>6, <1>7, <2>1 DEF NamesUnique, IInv, UniqueUnlessRaced
<1>12. AdminKept'
  <2>1. users # <<>>
    BY <1>1, <1>2 DEF Uids
  <2> QED BY <1>5, <1>6, <1>7, <2>1 DEF AdminKept, AdminRemains, BootstrapKeyHeld, IInv
<1> QED BY <1>2, <1>5, <1>9, <1>10, <1>11, <1>12, UserStatement DEF InsertUser, Handle

\* Disable, Enable and Rotate
LEMMA ChangeKeeps ==
  ASSUME IInv, NEW t \in Threads, threads[t].pc \in {"disable", "enable", "rotate"},
         NEW e \in User, users' = [users EXCEPT ![threads[t].target] = e],
         e.name = users[threads[t].target].name, e.is_admin = users[threads[t].target].is_admin,
         e.key = users[threads[t].target].key \/ e.key = threads[t].request,
         threads[t].pc # "disable" => (users[threads[t].target].is_active => e.is_active),
         NEW new \in Thread, threads' = [threads EXCEPT ![t] = new],
         new.pc \in {"idle", "answer"},
         new.pc = "answer" => new.request = threads[t].request /\ new.user = threads[t].user,
         UNCHANGED <<projects, sessions, serving, keyed, requests, crashes, ghosts>>
  PROVE  IInv'
<1>1. users \in Seq(User) /\ Sound(threads[t]) /\ threads[t].target \in Uids
      /\ threads[t].user \in Uids /\ threads[t].request \notin lost
  BY DEF IInv, TypeOK, Sound
<1>2. PICK v \in Uids : v = threads[t].target
  BY <1>1
<1>3. UsersGrow /\ Len(users') = Len(users) /\ users'[v] = e
      /\ \A i \in Uids : i # v => users'[i] = users[i]
  BY <1>1, <1>2, ChangedUser
<1>4. Uids' = Uids /\ raced' = raced /\ lost' = lost /\ serving' = serving /\ keyed' = keyed
  BY <1>3 DEF Uids, ghosts
<1>5. \A i \in Uids : users'[i].name = users[i].name /\ users'[i].is_admin = users[i].is_admin
                      /\ (users'[i].key = users[i].key \/ users'[i].key = threads[t].request)
  BY <1>2, <1>3
<1>6. NamesUnique'
  BY <1>4, <1>5 DEF NamesUnique, IInv, UniqueUnlessRaced
<1>7. AdminRemains'
  <2>1. CASE threads[t].pc = "disable" /\ ~raced.disabling
    <3>1. /\ users[threads[t].user].is_admin /\ users[threads[t].user].is_active
          /\ threads[t].user # v
      BY <1>2, <2>1 DEF IInv, DisablersActive
    <3>2. users'[threads[t].user] = users[threads[t].user]
      BY <1>1, <1>3, <3>1
    <3> QED BY <1>1, <1>4, <3>1, <3>2 DEF AdminRemains
  <2>2. CASE threads[t].pc # "disable"
    <3>1. \A i \in Uids : users[i].is_active => users'[i].is_active
      BY <1>2, <1>3, <2>2
    <3>2. users # <<>>
      BY <1>1 DEF Uids
    <3> QED BY <1>4, <1>5, <3>1, <3>2 DEF AdminRemains, IInv, AdminKept
  <2>3. CASE raced.disabling
    BY <1>4, <2>3 DEF AdminRemains
  <2> QED BY <2>1, <2>2, <2>3
<1>8. BootstrapKeyHeld'
  BY <1>1, <1>4, <1>5 DEF BootstrapKeyHeld, IInv, AdminKept
<1>9. \A n \in UserNames : Named(n)' => Named(n)
  BY <1>4, <1>5 DEF Named
<1>10. \A i \in Uids : (i # threads[t].target \/ threads[t].pc # "disable")
                         /\ users[i].is_active => users'[i].is_active
  BY <1>2, <1>3
<1>11. AdminKept'
  BY <1>7, <1>8 DEF AdminKept
<1> QED BY <1>3, <1>6, <1>9, <1>10, <1>11, UserStatement

LEMMA ChangesKeep ==
  ASSUME IInv, NEW t \in Threads, Disable(t) \/ Enable(t) \/ Rotate(t)
  PROVE  IInv'
<1>1. threads \in [Threads -> Thread] /\ threads[t] \in Thread /\ Sound(threads[t])
      /\ users \in Seq(User) /\ threads[t].pc \in {"disable", "enable", "rotate"}
  BY DEF IInv, TypeOK, Disable, Enable, Rotate, Handle
<1>2. PICK v \in Uids : v = threads[t].target
  BY <1>1 DEF Sound
<1>3. PICK w \in User : w = users[v]
  BY <1>1 DEF Uids
<1>4. threads[t].request \in Keys
  BY <1>1 DEF Thread, Keys, EnvKey
<1>5. PICK idle \in Thread : idle = Idle /\ idle.pc = "idle"
  BY IdleThread
<1>6. CASE Disable(t)
  <2>1. PICK e \in User : e = [w EXCEPT !.is_active = FALSE]
    BY DEF User
  <2>2. e.name = w.name /\ e.is_admin = w.is_admin /\ e.key = w.key
    BY <2>1 DEF User
  <2>3. users' = [users EXCEPT ![threads[t].target] = e] /\ threads[t].pc = "disable"
    BY <1>1, <1>2, <1>3, <1>6, <2>1 DEF Disable, Handle
  <2>4. threads' = [threads EXCEPT ![t] = idle]
        /\ UNCHANGED <<projects, sessions, serving, keyed, requests, crashes, ghosts>>
    BY <1>5, <1>6 DEF Disable, Handle, Done
  <2> QED BY <1>1, <1>2, <1>3, <1>5, <2>2, <2>3, <2>4, ChangeKeeps
<1>7. CASE Enable(t)
  <2>1. PICK e \in User : e = [w EXCEPT !.is_active = TRUE]
    BY DEF User
  <2>2. e.name = w.name /\ e.is_admin = w.is_admin /\ e.key = w.key /\ e.is_active
    BY <2>1 DEF User
  <2>3. users' = [users EXCEPT ![threads[t].target] = e]
    BY <1>1, <1>2, <1>3, <1>7, <2>1 DEF Enable
  <2>4. threads' = [threads EXCEPT ![t] = idle]
        /\ UNCHANGED <<projects, sessions, serving, keyed, requests, crashes, ghosts>>
    BY <1>5, <1>7 DEF Enable, Handle, Done
  <2> QED BY <1>1, <1>2, <1>3, <1>5, <2>2, <2>3, <2>4, ChangeKeeps
<1>8. CASE Rotate(t)
  <2>1. PICK e \in User : e = [w EXCEPT !.key = threads[t].request]
    BY <1>4 DEF User
  <2>2. e.name = w.name /\ e.is_admin = w.is_admin /\ e.is_active = w.is_active
        /\ e.key = threads[t].request
    BY <2>1 DEF User
  <2>3. users' = [users EXCEPT ![threads[t].target] = e]
    BY <1>1, <1>2, <1>3, <1>8, <2>1 DEF Rotate
  <2>4. PICK new \in Thread : new = [threads[t] EXCEPT !.pc = "answer"]
    BY <1>1 DEF Thread
  <2>5. /\ new.pc = "answer" /\ new.request = threads[t].request /\ new.user = threads[t].user
        /\ threads' = [threads EXCEPT ![t] = new]
        /\ UNCHANGED <<projects, sessions, serving, keyed, requests, crashes, ghosts>>
    BY <1>1, <1>8, <2>4 DEF Thread, Rotate, Goto, Handle
  <2> QED BY <1>1, <1>2, <1>3, <2>2, <2>3, <2>5, ChangeKeeps
<1> QED BY <1>6, <1>7, <1>8

LEMMA NewProjectKeeps ==
  ASSUME IInv, NEW t \in Threads, NEW n \in ProjectNames, NEW ensured \in BOOLEAN,
         threads[t].pc # "idle", NewProject(t, n, ensured),
         ensured => n = Default /\ threads[t].pc = "insert_default",
         NEW new \in Thread, threads' = [threads EXCEPT ![t] = new],
         \/ new.pc = "idle"
         \/ /\ new.pc = "save_session" /\ new.target = Len(projects) + 1
            /\ new.user = threads[t].user /\ new.request = threads[t].request,
         UNCHANGED <<users, sessions, serving, keyed, requests, crashes, ghosts>>
  PROVE  IInv'
<1>1. /\ users \in Seq(User) /\ projects \in Seq(Project) /\ threads \in [Threads -> Thread]
      /\ sessions' \in Seq([owner : Nat, project : Nat]) /\ Sound(threads[t])
      /\ threads[t] \in Thread /\ Len(projects) \in Nat
  BY DEF IInv, TypeOK
<1>2. PICK e \in Project : e = [owner |-> threads[t].user, name |-> n,
                                archived |-> FALSE, ensured |-> ensured]
  BY <1>1 DEF Project, Thread
<1>3. projects' = Append(projects, e)
  BY <1>2 DEF NewProject
<1>4. ProjectsGrow /\ Len(projects') = Len(projects) + 1 /\ projects'[Len(projects) + 1] = e
      /\ \A p \in Pids : projects'[p] = projects[p]
  BY <1>1, <1>3, AddedProject
<1>5. Pids' = Pids \cup {Len(projects) + 1} /\ Pids \subseteq Pids'
  BY <1>1, <1>4 DEF Pids
<1>6. raced' = raced /\ lost' = lost /\ serving' = serving /\ keyed' = keyed /\ requests' = requests
      /\ users' = users /\ Uids' = Uids
  BY DEF ghosts, Uids
<1>7. UsersGrow /\ RacedGrows
  BY <1>1, <1>6, UsersSame DEF RacedGrows
<1>8. e.owner = threads[t].user /\ e.ensured = ensured /\ e.name = n /\ ~e.archived
  BY <1>2
<1>9. Sound(new)'
  BY <1>1, <1>4, <1>5, <1>6, <1>8 DEF Sound, Naming
<1>10. Calm(threads[t], new)
  BY DEF Calm, Naming, Defaulting
<1>11. UsersPart'
  BY <1>6, <1>7, UsersPartKept
<1>12. threads'[t] = new /\ \A o \in Threads : o # t => threads'[o] = threads[o]
  BY <1>1
<1>13. DefaultsFree'
  <2>1. ASSUME NEW o \in Threads, threads'[o].pc = "insert_default",
               threads'[o].user \notin raced.defaults
        PROVE  ~HasDefault(threads[o].user)' /\ threads'[o].user = threads[o].user
    <3>1. o # t /\ threads'[o] = threads[o]
      BY <1>12, <2>1
    <3>2. PICK u : u = threads[o].user
      OBVIOUS
    <3>3. ~HasDefault(u)
      BY <2>1, <3>1, <3>2 DEF IInv, DefaultsFree
    <3>4. ensured => threads[t].user # u
      BY <2>1, <3>1, <3>2 DEF IInv, Pairs, Defaulting
    <3>5. ~HasDefault(u)'
      BY <1>4, <1>5, <1>8, <3>3, <3>4 DEF HasDefault
    <3> QED BY <3>1, <3>2, <3>5, <1>6 DEF HasDefault, Pids
  <2> QED BY <1>6, <2>1 DEF DefaultsFree, HasDefault, Pids
<1>14. EnsuredDefault'
  BY <1>4, <1>5, <1>8 DEF IInv, EnsuredDefault
<1>15. OneDefault'
  <2>1. ensured /\ threads[t].user \notin raced.defaults => ~HasDefault(threads[t].user)
    BY DEF IInv, DefaultsFree
  <2> QED BY <1>4, <1>5, <1>6, <1>8, <2>1 DEF OneDefault, HasDefault, IInv, UniqueUnlessRaced
<1>16. SessionsInOwnProject'
  BY <1>4, <1>5 DEF IInv, SessionsInOwnProject
<1>17. ProjectsPart'
  BY <1>13, <1>14, <1>15, <1>16 DEF ProjectsPart
<1> QED BY <1>1, <1>4, <1>7, <1>9, <1>10, <1>11, <1>17, Concluded

LEMMA ProjectStatementsKeep ==
  ASSUME IInv, NEW t \in Threads, CreateProject(t) \/ InsertDefault(t)
  PROVE  IInv'
<1>1. threads \in [Threads -> Thread] /\ threads[t] \in Thread /\ Sound(threads[t])
      /\ projects \in Seq(Project) /\ Len(projects) \in Nat
  BY DEF IInv, TypeOK
<1>2. UNCHANGED <<users, sessions, serving, keyed, requests, crashes, ghosts>>
  BY DEF CreateProject, InsertDefault, Handle
<1>3. CASE CreateProject(t)
  <2>1. threads[t].pc = "create_project" /\ NewProject(t, threads[t].name, FALSE)
        /\ threads[t].name \in ProjectNames
    BY <1>1, <1>3 DEF CreateProject, Handle, Sound
  <2>2. PICK idle \in Thread : idle = Idle /\ idle.pc = "idle"
    BY IdleThread
  <2>3. threads' = [threads EXCEPT ![t] = idle]
    BY <1>3, <2>2 DEF CreateProject, Done
  <2>4. PICK n \in ProjectNames : n = threads[t].name
    BY <2>1
  <2> QED BY <1>2, <2>1, <2>2, <2>3, <2>4, NewProjectKeeps
<1>4. CASE InsertDefault(t)
  <2>1. threads[t].pc = "insert_default" /\ NewProject(t, Default, TRUE) /\ Default \in ProjectNames
    BY <1>4, AccountsAssumption DEF InsertDefault, Handle
  <2>0. PICK k \in Nat : k = Len(projects) + 1
    BY <1>1
  <2>2. PICK new \in Thread : new = [threads[t] EXCEPT !.pc = "save_session", !.target = k]
    BY <1>1 DEF Thread
  <2>3. /\ new.pc = "save_session" /\ new.target = Len(projects) + 1
        /\ new.user = threads[t].user /\ new.request = threads[t].request
        /\ threads' = [threads EXCEPT ![t] = new]
    BY <1>1, <1>4, <2>0, <2>2 DEF Thread, InsertDefault
  <2> QED BY <1>2, <2>1, <2>3, NewProjectKeeps
<1> QED BY <1>3, <1>4

LEMMA ArchiveKeeps ==
  ASSUME IInv, NEW t \in Threads, Archive(t)
  PROVE  IInv'
<1>1. /\ users \in Seq(User) /\ projects \in Seq(Project) /\ threads \in [Threads -> Thread]
      /\ sessions' \in Seq([owner : Nat, project : Nat]) /\ Sound(threads[t])
      /\ threads[t].pc = "archive" /\ Len(projects) \in Nat
  BY DEF IInv, TypeOK, Archive, Handle
<1>2. PICK p \in Pids : p = threads[t].target
  BY <1>1 DEF Sound
<1>3. PICK w \in Project : w = projects[p]
  BY <1>1 DEF Pids
<1>4. PICK e \in Project : e = [w EXCEPT !.archived = @ \/ w.owner = threads[t].user]
  BY DEF Project
<1>5. e.owner = w.owner /\ e.name = w.name /\ e.ensured = w.ensured /\ (w.archived => e.archived)
  BY <1>4 DEF Project
<1>6. projects' = [projects EXCEPT ![p] = e]
  BY <1>2, <1>3, <1>4 DEF Archive
<1>7. /\ projects' \in Seq(Project) /\ Len(projects') = Len(projects)
      /\ projects'[p] = e /\ \A q \in Pids : q # p => projects'[q] = projects[q]
  BY <1>1, <1>6, OneChanged DEF Pids
<1>8. Pids' = Pids
  BY <1>7 DEF Pids
<1>9. ProjectsGrow
  BY <1>1, <1>3, <1>5, <1>7 DEF ProjectsGrow
<1>10. UNCHANGED <<users, sessions, serving, keyed, requests, crashes, ghosts>>
  BY DEF Archive, Handle
<1>11. UsersGrow /\ RacedGrows
  BY <1>1, <1>10, UsersSame DEF RacedGrows, ghosts
<1>12. PICK idle \in Thread : idle = Idle /\ idle.pc = "idle"
  BY IdleThread
<1>13. threads' = [threads EXCEPT ![t] = idle]
  BY <1>12 DEF Archive, Done
<1>14. Sound(idle)' /\ Calm(threads[t], idle)
  BY <1>12 DEF Sound, Calm, Naming, Defaulting
<1>15. UsersPart'
  BY <1>10, <1>11, <1>12, <1>13, UsersPartKept DEF ghosts
<1>16. ProjectsPart'
  <2>1. \A q \in Pids : /\ projects'[q].owner = projects[q].owner
                        /\ projects'[q].name = projects[q].name
                        /\ projects'[q].ensured = projects[q].ensured
                        /\ projects[q].archived => projects'[q].archived
    BY <1>9 DEF ProjectsGrow
  <2>2. raced' = raced /\ sessions' = sessions
    BY <1>10 DEF ghosts
  <2>3. \A u : HasDefault(u)' => HasDefault(u)
    BY <1>8, <2>1 DEF HasDefault
  <2>4. DefaultsFree'
    <3>1. \A o \in Threads : threads'[o].pc = "insert_default" => threads'[o] = threads[o]
      BY <1>1, <1>12, <1>13
    <3>2. ASSUME NEW o \in Threads, threads'[o].pc = "insert_default",
                 threads'[o].user \notin raced.defaults
          PROVE  ~\E q \in Pids' : projects'[q].owner = threads'[o].user
                                     /\ projects'[q].ensured /\ ~projects'[q].archived
      BY <1>8, <2>1, <3>1, <3>2 DEF IInv, DefaultsFree, HasDefault
    <3> QED BY <2>2, <3>2 DEF DefaultsFree, HasDefault
  <2>5. EnsuredDefault' /\ SessionsInOwnProject'
    BY <1>8, <2>1, <2>2 DEF IInv, EnsuredDefault, SessionsInOwnProject
  <2>6. OneDefault'
    BY <1>8, <2>1, <2>2 DEF IInv, UniqueUnlessRaced, OneDefault
  <2> QED BY <2>4, <2>5, <2>6 DEF ProjectsPart
<1> QED BY <1>1, <1>9, <1>10, <1>11, <1>13, <1>14, <1>15, <1>16, Concluded

LEMMA SaveSessionKeeps ==
  ASSUME IInv, NEW t \in Threads, SaveSession(t)
  PROVE  IInv'
<1>1. /\ users \in Seq(User) /\ projects \in Seq(Project) /\ threads \in [Threads -> Thread]
      /\ sessions \in Seq([owner : Nat, project : Nat]) /\ Sound(threads[t])
      /\ threads[t].pc = "save_session" /\ threads[t] \in Thread /\ Len(sessions) \in Nat
  BY DEF IInv, TypeOK, SaveSession, Handle
<1>2. PICK e \in [owner : Nat, project : Nat] :
        e = [owner |-> threads[t].user, project |-> threads[t].target]
  BY <1>1 DEF Thread
<1>3. /\ sessions' \in Seq([owner : Nat, project : Nat])
      /\ Len(sessions') = Len(sessions) + 1 /\ sessions'[Len(sessions) + 1] = e
      /\ \A i \in 1..Len(sessions) : sessions'[i] = sessions[i]
  BY <1>1, <1>2, OneMore DEF SaveSession
<1>4. UNCHANGED <<users, projects, serving, keyed, requests, crashes, ghosts>>
  BY DEF SaveSession, Handle
<1>5. UsersGrow /\ ProjectsGrow /\ RacedGrows
  BY <1>1, <1>4, UsersSame, ProjectsSame DEF RacedGrows, ghosts
<1>6. PICK idle \in Thread : idle = Idle /\ idle.pc = "idle"
  BY IdleThread
<1>7. threads' = [threads EXCEPT ![t] = idle]
  BY <1>6 DEF SaveSession, Done
<1>8. Sound(idle)' /\ Calm(threads[t], idle)
  BY <1>6 DEF Sound, Calm, Naming, Defaulting
<1>9. UsersPart'
  BY <1>4, <1>5, <1>6, <1>7, UsersPartKept DEF ghosts
<1>10. \A o \in Threads : threads'[o].pc = "insert_default" => threads'[o] = threads[o]
  BY <1>1, <1>6, <1>7
<1>11. DefaultsFree' /\ EnsuredDefault' /\ OneDefault'
  BY <1>4, <1>10
     DEF ghosts, IInv, DefaultsFree, HasDefault, EnsuredDefault, UniqueUnlessRaced, OneDefault, Pids
<1>12. SessionsInOwnProject'
  <2>1. e.project \in Pids /\ projects[e.project].owner = e.owner
    BY <1>1, <1>2 DEF Sound
  <2>2. ASSUME NEW i \in 1..Len(sessions')
        PROVE  sessions'[i].project \in Pids
               /\ projects[sessions'[i].project].owner = sessions'[i].owner
    <3>1. CASE i = Len(sessions) + 1
      BY <3>1, <1>3, <2>1
    <3>2. CASE i \in 1..Len(sessions)
      BY <3>2, <1>3 DEF IInv, SessionsInOwnProject
    <3> QED BY <1>1, <1>3, <3>1, <3>2
  <2> QED BY <1>4, <2>2 DEF SessionsInOwnProject, Pids
<1>13. ProjectsPart'
  BY <1>11, <1>12 DEF ProjectsPart
<1> QED BY <1>3, <1>4, <1>5, <1>7, <1>8, <1>9, <1>13, Concluded

(***************************************************************************)
(* Startup and the death of the process                                    *)
(***************************************************************************)

AllIdle == \A t \in Threads : threads[t].pc = "idle"

\* Nothing is served before startup is done.
Quiet == ~serving => AllIdle

LEMMA QuietKept ==
  ASSUME TypeOK, Quiet, [Next]_vars
  PROVE  Quiet'
<1>1. threads \in [Threads -> Thread]
  BY DEF TypeOK
<1>2. CASE Lifespan \/ Crash
  BY <1>2, <1>1 DEF Quiet, AllIdle, Lifespan, Crash, Idle
<1>3. ASSUME NEW t \in Threads, NEW pc \in {"check_name", "insert_user", "disable", "enable",
        "rotate", "answer", "create_project", "archive", "find_project", "find_default",
        "insert_default", "save_session"}, Handle(t, pc)
      PROVE  Quiet'
  BY <1>3 DEF Quiet, AllIdle, Handle
<1>4. ASSUME NEW t \in Threads, Statement(t) PROVE Quiet'
  BY <1>3, <1>4 DEF Statement, CheckName, InsertUser, Disable, Enable, Rotate, Answer,
     CreateProject, Archive, FindProject, FindDefault, InsertDefault, SaveSession
<1>5. ASSUME NEW t \in Threads, NEW th, Begin(t, th) PROVE Quiet'
  BY <1>5 DEF Quiet, Begin
<1>6. ASSUME NEW t \in Threads, NEW u \in Uids, Request(t, u) PROVE Quiet'
  BY <1>5, <1>6 DEF Request, BeginCreateUser, BeginDisable, BeginEnable, BeginRotate,
     BeginCreateProject, BeginArchive, BeginSessionIn, BeginSession
<1>7. CASE UNCHANGED vars
  BY <1>7 DEF Quiet, AllIdle, vars
<1> QED BY <1>2, <1>4, <1>6, <1>7 DEF Next

\* What is said of requests holds while there is none.
LEMMA NobodyAsks ==
  ASSUME AllIdle
  PROVE  /\ \A t \in Threads : Sound(threads[t])
         /\ Pairs /\ NamesFree /\ DefaultsFree /\ DisablersActive
BY DEF AllIdle, Sound, Naming, Defaulting, Pairs, NamesFree, DefaultsFree, DisablersActive

\* The key of the environment is nobody's answer: it is never lost.
LEMMA EnvKeyKept == IInv => EnvKey \notin lost
BY DEF IInv, TypeOK, EnvKey, Requests

LEMMA LifespanKeeps ==
  ASSUME IInv, Quiet, Lifespan
  PROVE  IInv'
<1>1. /\ users \in Seq(User) /\ Len(users) \in Nat /\ Uids = 1..Len(users)
      /\ Admin \in UserNames /\ EnvKey \in Keys /\ EnvKey \notin lost
  BY EnvKeyKept, AccountsAssumption DEF IInv, TypeOK, Keys, Uids
<1>2. /\ UNCHANGED <<projects, sessions, threads, requests, crashes>>
      /\ serving' = TRUE /\ raced' = raced /\ lost' = lost
  BY DEF Lifespan, ghosts
<1>3. AllIdle' /\ AllIdle
  BY <1>2 DEF Lifespan, Quiet, AllIdle
<1>4. (\A t \in Threads : Sound(threads[t]))' /\ Pairs' /\ NamesFree' /\ DefaultsFree'
      /\ DisablersActive'
  BY <1>3 DEF AllIdle, Sound, Naming, Defaulting, Pairs, NamesFree, DefaultsFree, DisablersActive
<1>5. EnsuredDefault' /\ OneDefault' /\ SessionsInOwnProject' /\ LostKnown'
  BY <1>2 DEF IInv, EnsuredDefault, OneDefault, UniqueUnlessRaced, SessionsInOwnProject, LostKnown, Pids
<1>6. users' \in Seq(User) /\ NamesUnique' /\ AdminKept'
  <2>1. CASE InsertAdmin
    <3>1. PICK e \in User :
            e = [name |-> Admin, key |-> EnvKey, is_admin |-> TRUE, is_active |-> TRUE]
      BY <1>1 DEF User
    <3>2. e.name = Admin /\ e.key = EnvKey /\ e.is_admin /\ e.is_active
      BY <3>1
    <3>3. /\ UsersGrow
          /\ Len(users') = Len(users) + 1 /\ users'[Len(users) + 1] = e
          /\ \A i \in Uids : users'[i] = users[i]
      BY <1>1, <2>1, <3>1, NewUser DEF InsertAdmin
    <3>4. Uids' = Uids \cup {Len(users) + 1}
      BY <1>1, <3>3 DEF Uids
    <3>5. \A i \in Uids : users[i].name # Admin
      BY <2>1 DEF InsertAdmin, Named
    <3>6. NamesUnique'
      BY <1>2, <3>2, <3>3, <3>4, <3>5 DEF NamesUnique, IInv, UniqueUnlessRaced
    <3>7. AdminKept'
      BY <1>1, <1>2, <3>2, <3>3, <3>4 DEF AdminKept, AdminRemains, BootstrapKeyHeld
    <3> QED BY <3>3, <3>6, <3>7 DEF UsersGrow
  <2>2. CASE RekeyAdmin
    <3>1. PICK u \in Uids : /\ users[u].name = Admin
                            /\ users' = [users EXCEPT ![u].key = EnvKey, ![u].is_admin = TRUE]
      BY <2>2 DEF RekeyAdmin
    <3>2. PICK w \in User : w = users[u]
      BY <1>1
    <3>3. PICK e \in User : e = [w EXCEPT !.key = EnvKey, !.is_admin = TRUE]
      BY <1>1 DEF User
    <3>4. e.name = w.name /\ e.key = EnvKey /\ e.is_admin /\ e.is_active = w.is_active
      BY <3>3 DEF User
    <3>5. users' = [users EXCEPT ![u] = e]
      BY <1>1, <3>1, <3>2, <3>3
    <3>6. UsersGrow /\ Len(users') = Len(users) /\ users'[u] = e
          /\ \A i \in Uids : i # u => users'[i] = users[i]
      BY <1>1, <3>2, <3>4, <3>5, ChangedUser
    <3>7. Uids' = Uids /\ users # <<>>
      BY <1>1, <3>6 DEF Uids
    <3>8. \A i \in Uids : /\ users'[i].name = users[i].name
                          /\ users'[i].is_active = users[i].is_active
                          /\ users[i].is_admin => users'[i].is_admin
      BY <3>2, <3>4, <3>6
    <3>9. NamesUnique'
      BY <1>2, <3>7, <3>8 DEF NamesUnique, IInv, UniqueUnlessRaced
    <3>10. AdminRemains'
      BY <1>2, <3>7, <3>8 DEF AdminRemains, IInv, AdminKept
    <3>11. BootstrapKeyHeld'
      BY <1>1, <1>2, <3>1, <3>2, <3>4, <3>6, <3>7 DEF BootstrapKeyHeld
    <3> QED BY <3>6, <3>9, <3>10, <3>11 DEF UsersGrow, AdminKept
  <2>3. CASE users' = users /\ ~keyed'
    <3>1. Uids' = Uids
      BY <2>3 DEF Uids
    <3>2. NamesUnique' /\ AdminRemains'
      BY <1>2, <2>3, <3>1 DEF NamesUnique, AdminRemains, IInv, UniqueUnlessRaced, AdminKept
    <3> QED BY <1>1, <2>3, <3>2 DEF AdminKept, BootstrapKeyHeld
  <2> QED BY <2>1, <2>2, <2>3 DEF Lifespan
<1>7. TypeOK'
  <2>1. keyed' \in BOOLEAN
    BY DEF Lifespan
  <2> QED BY <1>2, <1>6, <2>1 DEF IInv, TypeOK
<1> QED BY <1>4, <1>5, <1>6, <1>7 DEF IInv, UniqueUnlessRaced

LEMMA CrashKeeps ==
  ASSUME IInv, Crash
  PROVE  IInv'
<1>1. UNCHANGED <<users, projects, sessions, requests, keyed, raced>>
  BY DEF Crash, tables
<1>2. PICK idle \in Thread : idle = Idle /\ idle.pc = "idle"
  BY IdleThread
<1>3. threads' = [t \in Threads |-> idle] /\ ~serving' /\ crashes' \in 0..MaxCrashes
  BY <1>2, AccountsAssumption DEF Crash, IInv, TypeOK
<1>4. threads' \in [Threads -> Thread] /\ AllIdle'
  BY <1>2, <1>3 DEF AllIdle
<1>5. (\A t \in Threads : Sound(threads[t]))' /\ Pairs' /\ NamesFree' /\ DefaultsFree'
      /\ DisablersActive'
  BY <1>4 DEF AllIdle, Sound, Naming, Defaulting, Pairs, NamesFree, DefaultsFree, DisablersActive
<1>6. lost' \subseteq 1..requests
  <2>1. \A t \in Answering : threads[t].request \in 1..requests
    BY DEF Answering, IInv, Sound
  <2> QED BY <2>1 DEF Crash, IInv, LostKnown
<1>7. lost' \subseteq Requests
  BY <1>6, Counted, AccountsAssumption DEF IInv, TypeOK, Requests
<1>8. TypeOK' /\ LostKnown'
  <2>1. serving' \in BOOLEAN
    BY DEF Crash
  <2> QED BY <1>1, <1>3, <1>4, <1>6, <1>7, <2>1 DEF IInv, TypeOK, LostKnown, Requests
<1>9. EnsuredDefault' /\ UniqueUnlessRaced' /\ SessionsInOwnProject'
  BY <1>1 DEF IInv, EnsuredDefault, UniqueUnlessRaced, NamesUnique, OneDefault, SessionsInOwnProject,
     Uids, Pids
<1>10. AdminKept'
  BY <1>1, <1>3 DEF IInv, AdminKept, AdminRemains, BootstrapKeyHeld, Uids
<1> QED BY <1>5, <1>8, <1>9, <1>10 DEF IInv

LEMMA StutterKeeps ==
  ASSUME IInv, UNCHANGED vars
  PROVE  IInv'
<1>1. UNCHANGED <<users, projects, sessions, serving, keyed, threads, requests, crashes, raced, lost>>
  BY DEF vars, tables, ghosts
<1>2. TypeOK' /\ LostKnown'
  BY <1>1 DEF IInv, TypeOK, LostKnown
<1>3. (\A t \in Threads : Sound(threads[t]))'
  BY <1>1 DEF IInv, Sound, Naming, Uids, Pids
<1>4. Pairs' /\ NamesFree' /\ DefaultsFree' /\ EnsuredDefault' /\ DisablersActive'
  BY <1>1 DEF IInv, Pairs, Naming, Defaulting, NamesFree, Named, DefaultsFree, HasDefault,
     EnsuredDefault, DisablersActive, Uids, Pids
<1>5. UniqueUnlessRaced' /\ AdminKept' /\ SessionsInOwnProject'
  BY <1>1 DEF IInv, UniqueUnlessRaced, NamesUnique, OneDefault, AdminKept, AdminRemains,
     BootstrapKeyHeld, SessionsInOwnProject, Uids, Pids
<1> QED BY <1>2, <1>3, <1>4, <1>5 DEF IInv

LEMMA InitHolds == Init => IInv /\ Quiet
<1> SUFFICES ASSUME Init PROVE IInv /\ Quiet
  OBVIOUS
<1>1. PICK idle \in Thread : idle = Idle /\ idle.pc = "idle"
  BY IdleThread
<1>2. threads = [t \in Threads |-> idle]
  BY <1>1 DEF Init
<1>3. AllIdle /\ threads \in [Threads -> Thread]
  BY <1>1, <1>2 DEF AllIdle
<1>4. TypeOK /\ LostKnown
  <2>1. users \in Seq(User) /\ projects \in Seq(Project)
        /\ sessions \in Seq([owner : Nat, project : Nat])
    BY EmptySeq DEF Init
  <2>2. requests \in {0} \cup Requests /\ crashes \in 0..MaxCrashes
    BY AccountsAssumption DEF Init
  <2>3. lost \subseteq Requests /\ LostKnown
    BY DEF Init, LostKnown
  <2>4. serving \in BOOLEAN /\ keyed \in BOOLEAN
    BY DEF Init
  <2>5. raced \in [names : SUBSET UserNames, defaults : SUBSET Nat, disabling : BOOLEAN]
    BY DEF Init
  <2> QED BY <1>3, <2>1, <2>2, <2>3, <2>4, <2>5 DEF TypeOK
<1>5. Uids = {} /\ Pids = {} /\ Len(sessions) = 0
  BY DEF Init, Uids, Pids
<1>6. EnsuredDefault /\ UniqueUnlessRaced /\ AdminKept /\ SessionsInOwnProject
  BY <1>5 DEF Init, EnsuredDefault, UniqueUnlessRaced, NamesUnique, OneDefault, AdminKept,
     AdminRemains, BootstrapKeyHeld, SessionsInOwnProject
<1> QED BY <1>3, <1>4, <1>6, NobodyAsks DEF IInv, Quiet

LEMMA StepKeeps == IInv /\ Quiet /\ [Next]_vars => IInv' /\ Quiet'
<1> SUFFICES ASSUME IInv, Quiet, [Next]_vars PROVE IInv' /\ Quiet'
  OBVIOUS
<1>1. Quiet'
  BY QuietKept DEF IInv
<1>2. ASSUME NEW t \in Threads, Statement(t) PROVE IInv'
  BY <1>2, LooksKeep, InsertUserKeeps, ChangesKeep, DoneKeeps, ProjectStatementsKeep, ArchiveKeeps,
     SaveSessionKeeps DEF Statement
<1>3. ASSUME NEW t \in Threads, NEW u \in Uids, Request(t, u) PROVE IInv'
  BY <1>3, RequestKeeps
<1> QED BY <1>1, <1>2, <1>3, LifespanKeeps, CrashKeeps, StutterKeeps DEF Next

LEMMA Inductive == Spec => []IInv
<1> QED BY InitHolds, StepKeeps, PTL DEF Spec

(***************************************************************************)
(* Theorems                                                                *)
(***************************************************************************)

\* Every request works on rows that exist, at every point of it.
THEOREM TypeCorrect == Spec => []TypeOK
<1>1. IInv => TypeOK
  BY DEF IInv
<1> QED BY <1>1, Inductive, PTL

\* Two users share a name, or one user has two default projects made for it,
\* only if two requests for that name, or of that user, were under way at once.
THEOREM NamesAndDefaultsUnique == Spec => []UniqueUnlessRaced
<1>1. IInv => UniqueUnlessRaced
  BY DEF IInv
<1> QED BY <1>1, Inductive, PTL

\* As long as no two requests disable users at once, a system that has users has
\* an active admin; and while it serves, one whose key somebody holds, except
\* after a crash that lost a key, in a process without a key of its own or with a
\* disabled bootstrap admin.
THEOREM AdminStaysReachable == Spec => []AdminReachable
<1>1. IInv => AdminReachable
  <2> SUFFICES ASSUME IInv PROVE AdminReachable
    OBVIOUS
  <2>1. AdminRemains /\ BootstrapKeyHeld
    BY DEF IInv, AdminKept
  <2>2. ASSUME serving, users # <<>>, ~raced.disabling, ~Reachable
        PROVE  lost # {}
    BY <2>1, <2>2 DEF AdminRemains, Reachable
  <2>3. ASSUME serving, keyed, ~Reachable
        PROVE  \E u \in Uids : users[u].name = Admin /\ ~users[u].is_active
    BY <2>1, <2>3 DEF BootstrapKeyHeld, Reachable
  <2> QED BY <2>1, <2>2, <2>3 DEF AdminReachable, KeyHeld
<1> QED BY <1>1, Inductive, PTL

\* Every session lies in a project of its owner.
THEOREM SessionsOwned == Spec => []SessionsInOwnProject
<1>1. IInv => SessionsInOwnProject
  BY DEF IInv
<1> QED BY <1>1, Inductive, PTL
=============================================================================
