--------------------------- MODULE SessionPromise ---------------------------
(***************************************************************************)
(* What the session store promises to overlapping requests, and no more:   *)
(* a session is always one request away from a version that was stored     *)
(* before.  It may be an old version (the last writer wins), but a version *)
(* is never torn, merged, replayed twice or made from a session that was   *)
(* not stored.  SessionService implements this.                            *)
(***************************************************************************)
EXTENDS Naturals, Sequences

CONSTANTS
  SessionIds,    \* the ids sessions get
  Requests,      \* the requests that advance a session
  Seeded,        \* the ids of the sessions the database starts with
  NoSession      \* no row with that id

VARIABLES
  current,       \* the version of each session in the database, or NoSession
  versions       \* every version of it that was ever stored

Version == Seq(Requests)    \* the requests applied to it, in order

AppliedIn(s) == UNION {{v[i] : i \in 1..Len(v)} : v \in versions[s]}

Init ==
  /\ current  = [s \in SessionIds |-> IF s \in Seeded THEN <<>> ELSE NoSession]
  /\ versions = [s \in SessionIds |-> IF s \in Seeded THEN {<<>>} ELSE {}]

Store(s, v) ==
  /\ current'  = [current EXCEPT ![s] = v]
  /\ versions' = [versions EXCEPT ![s] = @ \cup {v}]

Create(s) == versions[s] = {} /\ Store(s, <<>>)

Extend(s, r) ==
  /\ r \notin AppliedIn(s)
  /\ \E v \in versions[s] : Store(s, Append(v, r))

Remove(gone) ==
  /\ current' = [s \in SessionIds |-> IF s \in gone THEN NoSession ELSE current[s]]
  /\ UNCHANGED versions

Next ==
  \/ \E s \in SessionIds : Create(s)
  \/ \E s \in SessionIds, r \in Requests : Extend(s, r)
  \/ \E gone \in SUBSET SessionIds : Remove(gone)

Spec == Init /\ [][Next]_<<current, versions>>
=============================================================================
