---------------------------- MODULE Calibration ----------------------------
(***************************************************************************)
(* app/services/calibration.py for one owner (every query filters by       *)
(* owner_id): observations, the profiles made from them, and the settings  *)
(* they are made with.  None of it takes storage._lock: each SQL statement *)
(* is an action, and requests interleave between any two of them.          *)
(*                                                                         *)
(* A profile's numbers are a function of the observations and the half-    *)
(* life it was made from, so it is modelled as those.  Age is left out: a  *)
(* profile that only grew older is not stale here.                         *)
(***************************************************************************)
EXTENDS Naturals, Sequences, FiniteSets, Functions

CONSTANTS
  Threads,       \* threads that serve requests
  Keys,          \* (client, target, channel, metric) of the profiles
  Scopes,        \* (client, target, channel) of the settings
  HalfLives,     \* the half-lives planners choose
  Default,       \* 180 days
  Thresholds,    \* the (high, mid) pairs they choose
  Weights,       \* the pinned weights in [0, 1] they choose
  Feeds,         \* the keys actuals bring observations for, request by request
  MaxFeed,       \* bound on the observations of a request
  MaxRequests,   \* bound on the requests
  MaxCrashes,    \* bound on the restarts of the process
  None

Key   == [client : STRING, target : STRING, channel : STRING, metric : STRING]
Scope == [client : STRING \cup {None}, target : STRING \cup {None},
          channel : STRING \cup {None}]

ASSUME CalibrationAssumption ==
  /\ \A k \in Keys : k \in Key
  /\ \A s \in Scopes : s \in Scope
  /\ \A feed \in Feeds : feed \in Seq(Keys) /\ Len(feed) <= MaxFeed
  /\ Default \in HalfLives /\ None \notin HalfLives \cup Thresholds \cup Weights
  /\ None \notin Keys /\ None \notin Scopes
  /\ Weights \subseteq 0..100    \* in hundredths
  /\ MaxFeed \in Nat /\ MaxRequests \in Nat /\ MaxCrashes \in Nat

VARIABLES
  observations,   \* table calibration_observations
  profiles,       \* table calibration_profiles: key -> what it was made from
  settings,       \* table calibration_settings: scope -> row
  threads,        \* thread -> the request it serves and how far it got
  requests,       \* how many requests there have been
  crashes,        \* how often the process has died
  overlapped,     \* history variable: thread -> the keys another request worked
                  \* on during its own
  stained         \* history variable: the keys no request has worked on alone, and
                  \* to its end, since two did at once or the process died

tables == <<observations, profiles, settings>>
vars   == <<tables, threads, requests, crashes, overlapped, stained>>

Requests == 1..MaxRequests

\* The id of an observation is its request and its place there.
Observation == [request : Requests, place : 1..MaxFeed, key : Keys,
                weight_override : Weights \cup {None}]
Profile == [made_from : SUBSET Observation, half_life : HalfLives]
Setting == [id : {0} \cup Requests, half_life_days : HalfLives \cup {None},
            thresholds : Thresholds \cup {None}]
Absent  == [made_from |-> {}, half_life |-> None]      \* no profile
NoRow   == [id |-> 0, half_life_days |-> None, thresholds |-> None]

\* A thread inserts the observations of feed, or stores row in scope, and
\* rematerialises the keys todo one after the other.
Thread == [pc : {"idle", "insert", "find", "store", "list", "next", "half_life", "write"},
           request : {0} \cup Requests, feed : Seq(Keys), place : Nat,
           scope : Scopes \cup {None}, half_life_days : HalfLives \cup {None},
           thresholds : Thresholds \cup {None}, existing : {0} \cup Requests,
           todo : SUBSET Keys, key : Keys \cup {None},
           seen : SUBSET Observation, half_life : HalfLives]
Idle == [pc |-> "idle", request |-> 0, feed |-> <<>>, place |-> 1, scope |-> None,
         half_life_days |-> None, thresholds |-> None, existing |-> 0,
         todo |-> {}, key |-> None, seen |-> {}, half_life |-> Default]

TypeOK ==
  /\ observations \subseteq Observation
  /\ profiles \in [Keys -> Profile \cup {Absent}]
  /\ settings \in [Scopes -> Setting]
  /\ threads \in [Threads -> Thread]
  /\ requests \in {0} \cup Requests /\ crashes \in 0..MaxCrashes
  /\ overlapped \in [Threads -> SUBSET Keys] /\ stained \subseteq Keys

Init ==
  /\ observations = {}
  /\ profiles = [k \in Keys |-> Absent]
  /\ settings = [s \in Scopes |-> NoRow]
  /\ threads = [t \in Threads |-> Idle]
  /\ requests = 0 /\ crashes = 0
  /\ overlapped = [t \in Threads |-> {}] /\ stained = {}

(***************************************************************************)
(* What the settings and the observations amount to                        *)
(***************************************************************************)

Stored(scopes) == {settings[s].half_life_days : s \in scopes} \ {None}

ChannelScopes(k) ==
  {s \in Scopes : s.channel # None /\ s.client = k.client /\ s.target = k.target
                                   /\ s.channel = k.channel}
ClientScopes(k) == {s \in Scopes : s.channel = None /\ s.client = k.client}
GlobalScopes    == {s \in Scopes : s.channel = None /\ s.client = None}

\* effective_half_life.  A client row applies whatever its target; of several,
\* the first that SELECT returns, in no stated order.
EffectiveHalfLives(k) ==
  CASE Stored(ChannelScopes(k)) # {} -> Stored(ChannelScopes(k))
    [] Stored(ChannelScopes(k)) = {} /\ Stored(ClientScopes(k)) # {} -> Stored(ClientScopes(k))
    [] Stored(ChannelScopes(k) \cup ClientScopes(k)) = {} ->
         IF Stored(GlobalScopes) # {} THEN Stored(GlobalScopes) ELSE {Default}

ObservationsOf(k) == {o \in observations : o.key = k}

\* No row where the weights add up to 0; decay alone never reaches it here.
Materialised(obs, half_life) ==
  IF \A o \in obs : o.weight_override = 0
  THEN Absent
  ELSE [made_from |-> obs, half_life |-> half_life]

(***************************************************************************)
(* The requests                                                            *)
(***************************************************************************)

Begin(t, th) ==
  /\ threads[t].pc = "idle"
  /\ requests < MaxRequests
  /\ requests' = requests + 1
  /\ threads' = [threads EXCEPT ![t] = [th EXCEPT !.request = requests + 1]]

\* record_from_actuals: a key for each channel and metric of the records
BeginFeed(t, feed) ==
  /\ Begin(t, [Idle EXCEPT !.pc = "insert", !.feed = feed])
  /\ UNCHANGED tables

\* record_observation
Insert(t) ==
  LET th == threads[t]
  IN  /\ th.pc = "insert"
      /\ th.feed # <<>>
      /\ observations' = observations \cup
           {[request |-> th.request, place |-> th.place, key |-> Head(th.feed),
             weight_override |-> None]}
      /\ threads' = [threads EXCEPT ![t] =
           [th EXCEPT !.pc = "next", !.feed = Tail(@), !.place = @ + 1,
                      !.todo = {Head(th.feed)}]]
      /\ UNCHANGED <<profiles, settings, requests>>

\* set_observation_weight; a weight of None clears the pin
SetWeight(t, o, w) ==
  /\ o \in observations
  /\ Begin(t, [Idle EXCEPT !.pc = "next", !.todo = {o.key}])
  /\ observations' = (observations \ {o}) \cup {[o EXCEPT !.weight_override = w]}
  /\ UNCHANGED <<profiles, settings>>

\* The no-op guard of set_half_life: the same value again is not stored.
HalfLifeChanges(s, h) == settings[s].half_life_days # h

BeginSetHalfLife(t, s, h) ==
  /\ HalfLifeChanges(s, h)
  /\ Begin(t, [Idle EXCEPT !.pc = "find", !.scope = s, !.half_life_days = h])
  /\ UNCHANGED tables

\* set_confidence_thresholds stores in the global row, with the same guard.
BeginSetThresholds(t, s, th) ==
  /\ s \in GlobalScopes
  /\ settings[s].thresholds # th
  /\ Begin(t, [Idle EXCEPT !.pc = "find", !.scope = s, !.thresholds = th])
  /\ UNCHANGED tables

\* _upsert_setting looks for the row ...
FindSetting(t) ==
  /\ threads[t].pc = "find"
  /\ threads' = [threads EXCEPT ![t].pc = "store",
                                ![t].existing = settings[threads[t].scope].id]
  /\ UNCHANGED <<tables, requests>>

\* ... and updates it, if it is still there, where it found one
UpdateSetting(t) ==
  LET th == threads[t]
      row == settings[th.scope]
      updated == [id |-> th.existing,
        half_life_days |-> IF th.half_life_days = None THEN row.half_life_days ELSE th.half_life_days,
        thresholds     |-> IF th.thresholds = None THEN row.thresholds ELSE th.thresholds]
  IN  /\ th.pc = "store" /\ th.existing # 0
      /\ settings' = [settings EXCEPT ![th.scope] = IF row.id = th.existing THEN updated ELSE @]
      /\ threads' = [threads EXCEPT ![t].pc = "list"]
      /\ UNCHANGED <<observations, profiles, requests>>

\* ... or inserts one where it found none.
InsertSetting(t) ==
  LET th == threads[t]
  IN  /\ th.pc = "store" /\ th.existing = 0
      /\ settings[th.scope] = NoRow
      /\ settings' = [settings EXCEPT ![th.scope] =
           [id |-> th.request, half_life_days |-> th.half_life_days,
            thresholds |-> th.thresholds]]
      /\ threads' = [threads EXCEPT ![t].pc = "list"]
      /\ UNCHANGED <<observations, profiles, requests>>

\* Another request inserted it meanwhile: the unique index refuses this one.
InsertRefused(t) ==
  /\ threads[t].pc = "store" /\ threads[t].existing = 0
  /\ settings[threads[t].scope] # NoRow
  /\ threads' = [threads EXCEPT ![t] = Idle]
  /\ UNCHANGED <<tables, requests>>

\* reset_scope
Reset(t, s) ==
  /\ Begin(t, [Idle EXCEPT !.pc = "list", !.scope = s])
  /\ settings' = [settings EXCEPT ![s] = NoRow]
  /\ UNCHANGED <<observations, profiles>>

\* MUTANT: only the profiles there are are recomputed
ListedProfiles == {k \in Keys : profiles[k] # Absent}

\* SELECT DISTINCT of _rematerialise_all_for_owner
Listed == {o.key : o \in observations}

ListKeys(t) ==
  /\ threads[t].pc = "list"
  /\ threads' = [threads EXCEPT ![t].pc = "next", ![t].todo = Listed]
  /\ UNCHANGED <<tables, requests>>

\* _rematerialise_profile reads the observations of a key ...
ReadObservations(t, k) ==
  /\ threads[t].pc = "next"
  /\ k \in threads[t].todo
  /\ threads' = [threads EXCEPT ![t].pc = "half_life", ![t].todo = @ \ {k}, ![t].key = k,
                                ![t].seen = ObservationsOf(k)]
  /\ UNCHANGED <<tables, requests>>

\* ... and then the settings, ...
ReadHalfLife(t) ==
  /\ threads[t].pc = "half_life"
  /\ \E h \in EffectiveHalfLives(threads[t].key) :
       threads' = [threads EXCEPT ![t].pc = "write", ![t].half_life = h]
  /\ UNCHANGED <<tables, requests>>

\* ... and writes what it made of both.
Write(t) ==
  LET th == threads[t]
  IN  /\ th.pc = "write"
      /\ profiles' = [profiles EXCEPT ![th.key] = Materialised(th.seen, th.half_life)]
      /\ threads' = [threads EXCEPT ![t] =
           [@ EXCEPT !.pc = "next", !.key = None, !.seen = {}, !.half_life = Default]]
      /\ UNCHANGED <<observations, settings, requests>>

\* The next observation of the feed, or the answer
Proceed(t) ==
  /\ threads[t].pc = "next" /\ threads[t].todo = {}
  /\ threads' = [threads EXCEPT ![t] =
       IF threads[t].feed = <<>> THEN Idle ELSE [@ EXCEPT !.pc = "insert"]]
  /\ UNCHANGED <<tables, requests>>

(***************************************************************************)
(* Steps                                                                   *)
(***************************************************************************)

\* The keys a request may still change or rematerialise
WorkingOn(th) ==
  IF th.pc \in {"find", "store", "list"} THEN Keys
  ELSE th.todo \cup Range(th.feed) \cup ({th.key} \cap Keys)

Overlap(t) ==
  UNION {WorkingOn(threads'[t]) \cap WorkingOn(threads'[u]) : u \in Threads \ {t}}

Track ==
  LET ended(t) == (WorkingOn(threads[t]) \ WorkingOn(threads'[t])) \ overlapped[t]
  IN  /\ overlapped' = [t \in Threads |->
           IF threads'[t].pc = "idle" THEN {} ELSE overlapped[t] \cup Overlap(t)]
      /\ stained' = (stained \ UNION {ended(t) : t \in Threads})
                       \cup UNION {Overlap(t) : t \in Threads}

Crash ==
  /\ crashes < MaxCrashes
  /\ crashes' = crashes + 1
  /\ threads' = [t \in Threads |-> Idle]
  /\ overlapped' = [t \in Threads |-> {}]
  /\ stained' = stained \cup UNION {WorkingOn(threads[t]) : t \in Threads}
  /\ UNCHANGED <<tables, requests>>

Request(t) ==
  \/ \E feed \in Feeds : BeginFeed(t, feed)
  \/ \E o \in observations, w \in Weights \cup {None} : SetWeight(t, o, w)
  \/ \E s \in Scopes, h \in HalfLives : BeginSetHalfLife(t, s, h)
  \/ \E s \in Scopes, th \in Thresholds : BeginSetThresholds(t, s, th)
  \/ \E s \in Scopes : Reset(t, s)

Statement(t) ==
  \/ Insert(t)
  \/ FindSetting(t) \/ UpdateSetting(t) \/ InsertSetting(t) \/ InsertRefused(t)
  \/ ListKeys(t)
  \/ \E k \in Keys : ReadObservations(t, k)
  \/ ReadHalfLife(t) \/ Write(t) \/ Proceed(t)

Next ==
  \/ \E t \in Threads : /\ Request(t) \/ Statement(t)
                        /\ Track
                        /\ UNCHANGED crashes
  \/ Crash

Spec == Init /\ [][Next]_vars

(***************************************************************************)
(* Properties                                                              *)
(***************************************************************************)

Fresh(k) ==
  profiles[k] \in {Materialised(ObservationsOf(k), h) : h \in EffectiveHalfLives(k)}

\* Once nobody works on a key, its profile is what its observations and the
\* settings amount to, unless requests worked on it at once or one was cut short
\* by a restart, and then one request that works on it alone repairs it.
\* Requests about other keys do not matter (calibration.py:8-10).
UnstainedFresh ==
  \A k \in Keys \ stained :
    (\A t \in Threads : k \notin WorkingOn(threads[t])) => Fresh(k)
=============================================================================
