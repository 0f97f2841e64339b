------------------------- MODULE CalibrationProofs -------------------------
(***************************************************************************)
(* Proofs about Calibration, for any number of threads, keys, settings,    *)
(* requests and crashes.  A request that works on a key alone has in hand  *)
(* what the tables amount to (Followed), since whoever changes them works  *)
(* on the key too; and whoever does is noted with both (Noticed, Marked).  *)
(***************************************************************************)
EXTENDS Calibration, SequenceTheorems, TLAPS

\* What a thread keeps of its request
Formed(th) ==
  /\ th.pc = "idle" => th = Idle
  /\ th.pc # "idle" => th.request # 0
  /\ th.pc \in {"find", "store"} => th.scope # None
  /\ th.pc = "insert" => th.todo = {}
  /\ th.key # None <=> th.pc \in {"half_life", "write"}
  /\ th.place >= 1 /\ th.place + Len(th.feed) <= MaxFeed + 1

Typed ==
  /\ TypeOK
  /\ \A t \in Threads : Formed(threads[t])
  /\ \A s \in Scopes : settings[s].id = 0 => settings[s] = NoRow

Works(t, k) == k \in WorkingOn(threads[t])

\* A profile is made of observations that are still there, if pinned otherwise.
Grounded ==
  /\ \A k \in Keys : profiles[k] # Absent => k \in Listed
  /\ \A t \in Threads : threads[t].seen # {} => threads[t].key \in Listed

\* Who works on a key along with another has noticed, and what it noticed and
\* still works on is stained.
Noticed ==
  \A t, u \in Threads, k \in Keys : t # u /\ Works(t, k) /\ Works(u, k) => k \in overlapped[t]
Marked ==
  /\ \A t \in Threads, k \in Keys : Works(t, k) /\ k \in overlapped[t] => k \in stained
  /\ \A t \in Threads : threads[t].pc = "idle" => overlapped[t] = {}

\* What a thread that works alone on a key has read of it is what there is.
Holds(th, k) ==
  /\ th.seen = ObservationsOf(k)
  /\ th.pc = "write" => th.half_life \in EffectiveHalfLives(k)
Followed ==
  \A t \in Threads : \A k \in Keys \ overlapped[t] :
    threads[t].pc \in {"half_life", "write"} /\ threads[t].key = k => Holds(threads[t], k)

\* Whoever finds a row where it saw none overlaps with who inserted it.
Unopposed ==
  \A t \in Threads :
    threads[t].pc = "store" /\ threads[t].existing = 0 =>
      settings[threads[t].scope] = NoRow \/ Keys \subseteq overlapped[t]

IInv ==
  /\ Typed
  /\ Grounded
  /\ Noticed
  /\ Marked
  /\ Followed
  /\ Unopposed
  /\ UnstainedFresh
(***************************************************************************)
(* Types                                                                   *)
(***************************************************************************)

LEMMA IdleForm ==
  /\ Idle \in Thread /\ Formed(Idle) /\ Idle.pc = "idle" /\ Idle.seen = {} /\ Idle.key = None
  /\ Idle.place = 1 /\ Len(Idle.feed) <= MaxFeed
  /\ WorkingOn(Idle) = {}
<1>1. <<>> \in Seq(Keys) /\ Len(<<>>) = 0 /\ Range(<<>>) = {}
  BY DEF Range
<1>2. Idle \in Thread
  BY <1>1, CalibrationAssumption DEF Idle, Thread
<1>3. Formed(Idle)
  BY <1>1, CalibrationAssumption DEF Idle, Formed
<1>4. WorkingOn(Idle) = {}
  BY <1>1, CalibrationAssumption DEF Idle, WorkingOn
<1>5. Len(Idle.feed) <= MaxFeed
  BY <1>1, CalibrationAssumption DEF Idle
<1> QED BY <1>2, <1>3, <1>4, <1>5 DEF Idle

\* The keys of a feed, and of what is left of it
LEMMA FeedKeys ==
  ASSUME NEW feed \in Seq(Keys)
  PROVE  /\ Range(feed) \subseteq Keys
         /\ feed # <<>> => /\ Head(feed) \in Keys /\ Tail(feed) \in Seq(Keys)
                           /\ Len(Tail(feed)) = Len(feed) - 1
                           /\ Range(feed) = {Head(feed)} \cup Range(Tail(feed))
<1>1. Range(feed) \subseteq Keys
  BY DEF Range
<1>2. ASSUME feed # <<>>
      PROVE  /\ Head(feed) \in Keys /\ Tail(feed) \in Seq(Keys) /\ Len(feed) >= 1
             /\ Len(Tail(feed)) = Len(feed) - 1 /\ Head(feed) = feed[1]
             /\ \A i \in 1..Len(Tail(feed)) : Tail(feed)[i] = feed[i + 1]
  BY <1>2, HeadTailProperties, EmptySeq
<1>3. ASSUME feed # <<>> PROVE Range(feed) = {Head(feed)} \cup Range(Tail(feed))
  <2>1. Range(feed) = {feed[i] : i \in 1..Len(feed)}
    BY DEF Range
  <2>2. Range(Tail(feed)) = {Tail(feed)[i] : i \in 1..Len(Tail(feed))}
    <3>1. Tail(feed) \in Seq(Keys)
      BY <1>2, <1>3
    <3>2. DOMAIN Tail(feed) = 1..Len(Tail(feed))
      BY <3>1
    <3> QED BY <3>2 DEF Range
  <2>3. \A i \in 1..Len(feed) : i = 1 \/ i - 1 \in 1..Len(Tail(feed))
    BY <1>2, <1>3
  <2>4. \A i \in 1..Len(Tail(feed)) : i + 1 \in 1..Len(feed)
    BY <1>2, <1>3
  <2>5. Range(feed) \subseteq {Head(feed)} \cup Range(Tail(feed))
    <3> SUFFICES ASSUME NEW i \in 1..Len(feed), i # 1 PROVE feed[i] \in Range(Tail(feed))
      BY <1>2, <1>3, <2>1
    <3>1. i - 1 \in 1..Len(Tail(feed)) /\ (i - 1) + 1 = i
      BY <2>3
    <3>2. Tail(feed)[i - 1] = feed[i]
      BY <1>2, <1>3, <3>1
    <3> QED BY <2>2, <3>1, <3>2
  <2>6. {Head(feed)} \cup Range(Tail(feed)) \subseteq Range(feed)
    <3>1. Head(feed) \in Range(feed)
      BY <1>2, <1>3, <2>1
    <3> QED BY <1>2, <1>3, <2>1, <2>2, <2>4, <3>1
  <2> QED BY <2>5, <2>6
<1> QED BY <1>1, <1>2, <1>3

LEMMA WorkType ==
  ASSUME NEW th \in Thread
  PROVE  WorkingOn(th) \subseteq Keys
BY FeedKeys DEF WorkingOn, Thread

\* There is always a half-life to go by.
LEMMA SomeHalfLife ==
  ASSUME NEW k
  PROVE  EffectiveHalfLives(k) # {}
<1>1. Stored(ChannelScopes(k) \cup ClientScopes(k)) =
        Stored(ChannelScopes(k)) \cup Stored(ClientScopes(k))
  BY DEF Stored
<1> QED BY <1>1 DEF EffectiveHalfLives

LEMMA HalfLifeType ==
  ASSUME TypeOK, NEW k
  PROVE  EffectiveHalfLives(k) \subseteq HalfLives
<1>1. \A scopes \in SUBSET Scopes : Stored(scopes) \subseteq HalfLives
  BY DEF Stored, TypeOK, Setting
<1>2. /\ ChannelScopes(k) \subseteq Scopes /\ ClientScopes(k) \subseteq Scopes
      /\ GlobalScopes \subseteq Scopes
  BY DEF ChannelScopes, ClientScopes, GlobalScopes
<1>3. Stored(ChannelScopes(k) \cup ClientScopes(k)) =
        Stored(ChannelScopes(k)) \cup Stored(ClientScopes(k))
  BY DEF Stored
<1> QED BY <1>1, <1>2, <1>3, CalibrationAssumption DEF EffectiveHalfLives

LEMMA MaterialisedType ==
  ASSUME NEW obs \in SUBSET Observation, NEW h \in HalfLives
  PROVE  Materialised(obs, h) \in Profile \cup {Absent}
BY DEF Materialised, Profile, Absent

LEMMA OfNothing == \A h : Materialised({}, h) = Absent
BY DEF Materialised

\* A key without observations has no profile, and that is right.
LEMMA NothingIsFresh ==
  ASSUME Grounded, NEW k \in Keys, k \notin Listed
  PROVE  Fresh(k)
<1>1. profiles[k] = Absent
  BY DEF Grounded
<1>2. ObservationsOf(k) = {}
  BY DEF ObservationsOf, Listed
<1> QED BY <1>1, <1>2, SomeHalfLife, OfNothing DEF Fresh

LEMMA TypedInit == Init => Typed
<1> SUFFICES ASSUME Init PROVE Typed
  OBVIOUS
<1>1. Absent \in Profile \cup {Absent} /\ NoRow \in Setting /\ NoRow.id = 0
  BY DEF NoRow, Setting
<1> QED BY <1>1, IdleForm, CalibrationAssumption DEF Init, Typed, TypeOK, Requests

\* A thread goes on to x, and the others stay where they are.
GoesTo(t, x) == x \in Thread /\ Formed(x) /\ threads' = [threads EXCEPT ![t] = x]

LEMMA Started ==
  ASSUME Typed, NEW t \in Threads, NEW th \in Thread, Begin(t, th),
         th.pc \notin {"idle", "store", "half_life", "write"}, th.pc = "insert" => th.todo = {},
         th.pc = "find" => th.scope # None, th.key = None,
         th.place = 1, Len(th.feed) <= MaxFeed
  PROVE  /\ GoesTo(t, [th EXCEPT !.request = requests + 1])
         /\ requests' \in {0} \cup Requests /\ threads[t] = Idle
<1> DEFINE x == [th EXCEPT !.request = requests + 1]
<1>1. requests + 1 \in Requests
  BY CalibrationAssumption DEF Typed, TypeOK, Begin, Requests
<1>2. x \in Thread
  BY <1>1 DEF Thread
<1>3. /\ x.request # 0 /\ x.pc = th.pc /\ x.todo = th.todo /\ x.scope = th.scope
      /\ x.key = th.key /\ x.place = th.place /\ x.feed = th.feed
  BY <1>1 DEF Thread, Requests
<1>4. Len(th.feed) \in Nat
  BY DEF Thread
<1> HIDE DEF x
<1>5. Formed(x)
  BY <1>3, <1>4, CalibrationAssumption DEF Formed
<1>6. threads[t] = Idle
  BY DEF Begin, Typed, Formed
<1> QED BY <1>1, <1>2, <1>5, <1>6 DEF x, Begin, GoesTo

LEMMA BeginFeedTyped ==
  ASSUME Typed, NEW t \in Threads, NEW feed \in Feeds, BeginFeed(t, feed)
  PROVE  /\ GoesTo(t, [Idle EXCEPT !.pc = "insert", !.feed = feed, !.request = requests + 1])
         /\ requests' \in {0} \cup Requests /\ threads[t] = Idle
<1> DEFINE th == [Idle EXCEPT !.pc = "insert", !.feed = feed]
<1>1. feed \in Seq(Keys) /\ Len(feed) <= MaxFeed
  BY CalibrationAssumption
<1>2. th \in Thread /\ th.pc = "insert" /\ th.todo = {} /\ th.key = None /\ th.place = 1 /\ th.feed = feed
  BY <1>1, CalibrationAssumption DEF Idle, Thread
<1>3. [th EXCEPT !.request = requests + 1] = [Idle EXCEPT !.pc = "insert", !.feed = feed, !.request = requests + 1]
  BY DEF Idle
<1> HIDE DEF th
<1>4. Begin(t, th)
  BY DEF th, BeginFeed
<1> QED BY <1>1, <1>2, <1>3, <1>4, Started

LEMMA SetWeightTyped ==
  ASSUME Typed, NEW t \in Threads, NEW o, NEW w, SetWeight(t, o, w)
  PROVE  /\ GoesTo(t, [Idle EXCEPT !.pc = "next", !.todo = {o.key}, !.request = requests + 1])
         /\ requests' \in {0} \cup Requests /\ threads[t] = Idle
<1> DEFINE th == [Idle EXCEPT !.pc = "next", !.todo = {o.key}]
<1>1. o.key \in Keys
  BY DEF SetWeight, Typed, TypeOK, Observation
<1>2. /\ th \in Thread /\ th.key = None /\ th.place = 1 /\ Len(th.feed) <= MaxFeed
      /\ th.pc = "next"
  BY <1>1, IdleForm DEF Thread
<1>3. [th EXCEPT !.request = requests + 1] = [Idle EXCEPT !.pc = "next", !.todo = {o.key}, !.request = requests + 1]
  BY DEF Idle
<1> HIDE DEF th
<1>4. Begin(t, th)
  BY DEF th, SetWeight
<1> QED BY <1>1, <1>2, <1>3, <1>4, Started

LEMMA SetHalfLifeTyped ==
  ASSUME Typed, NEW t \in Threads, NEW s \in Scopes, NEW h \in HalfLives, BeginSetHalfLife(t, s, h)
  PROVE  /\ GoesTo(t, [Idle EXCEPT !.pc = "find", !.scope = s, !.half_life_days = h, !.request = requests + 1])
         /\ requests' \in {0} \cup Requests /\ threads[t] = Idle
<1> DEFINE th == [Idle EXCEPT !.pc = "find", !.scope = s, !.half_life_days = h]
<1>1. s # None
  BY CalibrationAssumption
<1>2. /\ th \in Thread /\ th.key = None /\ th.place = 1 /\ Len(th.feed) <= MaxFeed
      /\ th.pc = "find" /\ th.scope # None
  BY <1>1, IdleForm DEF Thread
<1>3. [th EXCEPT !.request = requests + 1] = [Idle EXCEPT !.pc = "find", !.scope = s, !.half_life_days = h, !.request = requests + 1]
  BY DEF Idle
<1> HIDE DEF th
<1>4. Begin(t, th)
  BY DEF th, BeginSetHalfLife
<1> QED BY <1>1, <1>2, <1>3, <1>4, Started

LEMMA SetThresholdsTyped ==
  ASSUME Typed, NEW t \in Threads, NEW s \in Scopes, NEW pair \in Thresholds, BeginSetThresholds(t, s, pair)
  PROVE  /\ GoesTo(t, [Idle EXCEPT !.pc = "find", !.scope = s, !.thresholds = pair, !.request = requests + 1])
         /\ requests' \in {0} \cup Requests /\ threads[t] = Idle
<1> DEFINE th == [Idle EXCEPT !.pc = "find", !.scope = s, !.thresholds = pair]
<1>1. s # None
  BY CalibrationAssumption
<1>2. /\ th \in Thread /\ th.key = None /\ th.place = 1 /\ Len(th.feed) <= MaxFeed
      /\ th.pc = "find" /\ th.scope # None
  BY <1>1, IdleForm DEF Thread
<1>3. [th EXCEPT !.request = requests + 1] = [Idle EXCEPT !.pc = "find", !.scope = s, !.thresholds = pair, !.request = requests + 1]
  BY DEF Idle
<1> HIDE DEF th
<1>4. Begin(t, th)
  BY DEF th, BeginSetThresholds
<1> QED BY <1>1, <1>2, <1>3, <1>4, Started

LEMMA ResetTyped ==
  ASSUME Typed, NEW t \in Threads, NEW s \in Scopes, Reset(t, s)
  PROVE  /\ GoesTo(t, [Idle EXCEPT !.pc = "list", !.scope = s, !.request = requests + 1])
         /\ requests' \in {0} \cup Requests /\ threads[t] = Idle
<1> DEFINE th == [Idle EXCEPT !.pc = "list", !.scope = s]
<1>1. s # None
  BY CalibrationAssumption
<1>2. /\ th \in Thread /\ th.key = None /\ th.place = 1 /\ Len(th.feed) <= MaxFeed
      /\ th.pc = "list"
  BY <1>1, IdleForm DEF Thread
<1>3. [th EXCEPT !.request = requests + 1] = [Idle EXCEPT !.pc = "list", !.scope = s, !.request = requests + 1]
  BY DEF Idle
<1> HIDE DEF th
<1>4. Begin(t, th)
  BY DEF th, Reset
<1> QED BY <1>1, <1>2, <1>3, <1>4, Started

LEMMA InsertTyped ==
  ASSUME Typed, NEW t \in Threads, Insert(t)
  PROVE  LET th == threads[t]
         IN  /\ GoesTo(t, [th EXCEPT !.pc = "next", !.feed = Tail(th.feed), !.place = th.place + 1,
                                     !.todo = {Head(th.feed)}])
             /\ observations' \subseteq Observation
<1> DEFINE th == threads[t]
           x == [th EXCEPT !.pc = "next", !.feed = Tail(th.feed), !.place = th.place + 1,
                           !.todo = {Head(th.feed)}]
<1>1. th \in Thread /\ Formed(th) /\ th.pc = "insert" /\ th.feed # <<>>
  BY DEF Typed, TypeOK, Insert
<1>2. /\ Head(th.feed) \in Keys /\ Tail(th.feed) \in Seq(Keys) /\ Len(Tail(th.feed)) = Len(th.feed) - 1
      /\ Len(th.feed) \in Nat /\ Len(th.feed) >= 1
  BY <1>1, FeedKeys, EmptySeq, LenProperties DEF Thread
<1>3. th.request \in Requests /\ th.place \in 1..MaxFeed /\ th.place \in Nat
  BY <1>1, <1>2, CalibrationAssumption DEF Thread, Formed
<1>4. x \in Thread
  <2>1. {Head(th.feed)} \in SUBSET Keys /\ th.place + 1 \in Nat
    BY <1>2, <1>3
  <2> QED BY <1>1, <1>2, <2>1 DEF Thread
<1>5. /\ x.pc = "next" /\ x.request = th.request /\ x.key = th.key /\ x.place = th.place + 1
      /\ x.feed = Tail(th.feed)
  BY <1>1 DEF Thread
<1>6. Formed(x)
  <2> HIDE DEF x
  <2> QED BY <1>1, <1>2, <1>3, <1>5, CalibrationAssumption DEF Formed
<1>7. observations' \subseteq Observation
  BY <1>2, <1>3 DEF Insert, Observation, Typed, TypeOK
<1> QED BY <1>4, <1>6, <1>7 DEF Insert, GoesTo

LEMMA FindSettingTyped ==
  ASSUME Typed, NEW t \in Threads, FindSetting(t)
  PROVE  GoesTo(t, [threads[t] EXCEPT !.pc = "store", !.existing = settings[threads[t].scope].id])
<1> DEFINE th == threads[t]
           x == [th EXCEPT !.pc = "store", !.existing = settings[th.scope].id]
<1>1. th \in Thread /\ Formed(th) /\ th.pc = "find" /\ th.scope \in Scopes
  BY DEF Typed, TypeOK, FindSetting, Thread, Formed
<1>2. settings[th.scope].id \in {0} \cup Requests
  BY <1>1 DEF Typed, TypeOK, Setting
<1>3. x \in Thread
  BY <1>1, <1>2 DEF Thread
<1>4. Formed(x)
  BY <1>1 DEF Formed, Thread
<1> QED BY <1>3, <1>4 DEF FindSetting, GoesTo

LEMMA StoreTyped ==
  ASSUME Typed, NEW t \in Threads, UpdateSetting(t) \/ InsertSetting(t)
  PROVE  /\ GoesTo(t, [threads[t] EXCEPT !.pc = "list"])
         /\ settings' \in [Scopes -> Setting]
         /\ \A s \in Scopes : settings'[s].id = 0 => settings'[s] = NoRow
<1> DEFINE th == threads[t]
<1>1. th \in Thread /\ Formed(th) /\ th.pc = "store" /\ th.scope \in Scopes /\ th.request \in Requests
  BY DEF Typed, TypeOK, UpdateSetting, InsertSetting, Thread, Formed
<1>2. GoesTo(t, [th EXCEPT !.pc = "list"])
  <2>1. [th EXCEPT !.pc = "list"] \in Thread
    BY <1>1 DEF Thread
  <2>2. Formed([th EXCEPT !.pc = "list"])
    BY <1>1 DEF Formed, Thread
  <2> QED BY <2>1, <2>2 DEF UpdateSetting, InsertSetting, GoesTo
<1>3. 0 \notin Requests
  BY DEF Requests
<1>4. PICK row \in Setting : row.id # 0 /\ settings' \in {settings, [settings EXCEPT ![th.scope] = row]}
  <2>1. CASE UpdateSetting(t)
    <3> DEFINE old == settings[th.scope]
               updated == [id |-> th.existing,
                 half_life_days |-> IF th.half_life_days = None THEN old.half_life_days ELSE th.half_life_days,
                 thresholds     |-> IF th.thresholds = None THEN old.thresholds ELSE th.thresholds]
    <3>1. old \in Setting
      BY <1>1 DEF Typed, TypeOK
    <3>2. updated \in Setting /\ updated.id # 0
      BY <1>1, <2>1, <3>1 DEF UpdateSetting, Setting, Thread
    <3>3. settings' = [settings EXCEPT ![th.scope] = IF old.id = th.existing THEN updated ELSE old]
      BY <2>1 DEF UpdateSetting
    <3>4. settings' \in {settings, [settings EXCEPT ![th.scope] = updated]}
      <4> HIDE DEF updated
      <4> QED BY <1>1, <3>3 DEF Typed, TypeOK
    <3> QED BY <3>2, <3>4
  <2>2. CASE InsertSetting(t)
    <3> DEFINE row == [id |-> th.request, half_life_days |-> th.half_life_days,
                       thresholds |-> th.thresholds]
    <3>1. row \in Setting /\ row.id # 0
      BY <1>1, <1>3 DEF Setting, Thread
    <3> QED BY <2>2, <3>1 DEF InsertSetting
  <2> QED BY <2>1, <2>2
<1> QED BY <1>1, <1>2, <1>4 DEF Typed, TypeOK

LEMMA ListKeysTyped ==
  ASSUME Typed, NEW t \in Threads, ListKeys(t)
  PROVE  GoesTo(t, [threads[t] EXCEPT !.pc = "next", !.todo = Listed])
<1> DEFINE th == threads[t]
           x == [th EXCEPT !.pc = "next", !.todo = Listed]
<1>1. th \in Thread /\ Formed(th) /\ th.pc = "list"
  BY DEF Typed, TypeOK, ListKeys
<1>2. Listed \subseteq Keys
  BY DEF Listed, Typed, TypeOK, Observation
<1>3. x \in Thread
  BY <1>1, <1>2 DEF Thread
<1>4. Formed(x)
  BY <1>1 DEF Formed, Thread
<1> QED BY <1>3, <1>4 DEF ListKeys, GoesTo

LEMMA ReadObservationsTyped ==
  ASSUME Typed, NEW t \in Threads, NEW k \in Keys, ReadObservations(t, k)
  PROVE  GoesTo(t, [threads[t] EXCEPT !.pc = "half_life", !.todo = threads[t].todo \ {k},
                                      !.key = k, !.seen = ObservationsOf(k)])
<1> DEFINE th == threads[t]
           x == [th EXCEPT !.pc = "half_life", !.todo = th.todo \ {k}, !.key = k,
                           !.seen = ObservationsOf(k)]
<1>1. th \in Thread /\ Formed(th) /\ th.pc = "next"
  BY DEF Typed, TypeOK, ReadObservations
<1>2. ObservationsOf(k) \subseteq Observation
  BY DEF ObservationsOf, Typed, TypeOK
<1>3. x \in Thread
  BY <1>1, <1>2 DEF Thread
<1>4. Formed(x)
  BY <1>1, CalibrationAssumption DEF Formed, Thread
<1> QED BY <1>3, <1>4 DEF ReadObservations, GoesTo

LEMMA ReadHalfLifeTyped ==
  ASSUME Typed, NEW t \in Threads, ReadHalfLife(t)
  PROVE  \E h \in EffectiveHalfLives(threads[t].key) :
           GoesTo(t, [threads[t] EXCEPT !.pc = "write", !.half_life = h])
<1> PICK h \in EffectiveHalfLives(threads[t].key) :
      threads' = [threads EXCEPT ![t].pc = "write", ![t].half_life = h]
  BY DEF ReadHalfLife
<1> DEFINE th == threads[t]
           x == [th EXCEPT !.pc = "write", !.half_life = h]
<1>1. th \in Thread /\ Formed(th) /\ th.pc = "half_life" /\ h \in HalfLives
  BY HalfLifeType DEF Typed, TypeOK, ReadHalfLife
<1>2. x \in Thread
  BY <1>1 DEF Thread
<1>3. Formed(x)
  BY <1>1 DEF Formed, Thread
<1> QED BY <1>2, <1>3 DEF GoesTo

LEMMA WriteTyped ==
  ASSUME Typed, NEW t \in Threads, Write(t)
  PROVE  /\ GoesTo(t, [threads[t] EXCEPT !.pc = "next", !.key = None, !.seen = {},
                                         !.half_life = Default])
         /\ profiles' \in [Keys -> Profile \cup {Absent}]
<1> DEFINE th == threads[t]
           x == [th EXCEPT !.pc = "next", !.key = None, !.seen = {}, !.half_life = Default]
<1>1. th \in Thread /\ Formed(th) /\ th.pc = "write"
  BY DEF Typed, TypeOK, Write
<1>2. x \in Thread
  BY <1>1, CalibrationAssumption DEF Thread
<1>3. Formed(x)
  BY <1>1 DEF Formed, Thread
<1>4. Materialised(th.seen, th.half_life) \in Profile \cup {Absent}
  BY <1>1, MaterialisedType DEF Thread
<1> QED BY <1>2, <1>3, <1>4 DEF Write, GoesTo, Typed, TypeOK

LEMMA ProceedTyped ==
  ASSUME Typed, NEW t \in Threads, Proceed(t)
  PROVE  GoesTo(t, IF threads[t].feed = <<>> THEN Idle ELSE [threads[t] EXCEPT !.pc = "insert"])
<1> DEFINE th == threads[t]
           x == [th EXCEPT !.pc = "insert"]
<1>1. th \in Thread /\ Formed(th) /\ th.pc = "next" /\ th.todo = {}
  BY DEF Typed, TypeOK, Proceed
<1>2. x \in Thread /\ Formed(x)
  BY <1>1 DEF Thread, Formed
<1> QED BY <1>2, IdleForm DEF Proceed, GoesTo

LEMMA InsertRefusedTyped ==
  ASSUME NEW t \in Threads, InsertRefused(t)
  PROVE  GoesTo(t, Idle)
BY IdleForm DEF InsertRefused, GoesTo

\* Every step leaves well-typed tables, and a thread where it belongs.
LEMMA TypedStep ==
  ASSUME Typed, NEW t \in Threads, Request(t) \/ Statement(t)
  PROVE  /\ observations' \subseteq Observation
         /\ profiles' \in [Keys -> Profile \cup {Absent}]
         /\ settings' \in [Scopes -> Setting]
         /\ \A s \in Scopes : settings'[s].id = 0 => settings'[s] = NoRow
         /\ requests' \in {0} \cup Requests
         /\ \E x : GoesTo(t, x)
<1>1. /\ observations \subseteq Observation /\ profiles \in [Keys -> Profile \cup {Absent}]
      /\ settings \in [Scopes -> Setting]
      /\ \A s \in Scopes : settings[s].id = 0 => settings[s] = NoRow
      /\ requests \in {0} \cup Requests
  BY DEF Typed, TypeOK
<1>2. CASE \E feed \in Feeds : BeginFeed(t, feed)
  BY <1>1, <1>2, BeginFeedTyped DEF BeginFeed, tables
<1>3. CASE \E o \in observations, w \in Weights \cup {None} : SetWeight(t, o, w)
  <2> PICK o \in observations, w \in Weights \cup {None} : SetWeight(t, o, w)
    BY <1>3
  <2>1. [o EXCEPT !.weight_override = w] \in Observation
    BY <1>1 DEF Observation
  <2> QED BY <1>1, <2>1, SetWeightTyped DEF SetWeight
<1>4. CASE \E s \in Scopes, h \in HalfLives : BeginSetHalfLife(t, s, h)
  BY <1>1, <1>4, SetHalfLifeTyped DEF BeginSetHalfLife, tables
<1>5. CASE \E s \in Scopes, th \in Thresholds : BeginSetThresholds(t, s, th)
  BY <1>1, <1>5, SetThresholdsTyped DEF BeginSetThresholds, tables
<1>6. CASE \E s \in Scopes : Reset(t, s)
  <2>1. NoRow \in Setting
    BY DEF NoRow, Setting
  <2> QED BY <1>1, <1>6, <2>1, ResetTyped DEF Reset
<1>7. CASE Insert(t)
  BY <1>1, <1>7, InsertTyped DEF Insert
<1>8. CASE FindSetting(t)
  BY <1>1, <1>8, FindSettingTyped DEF FindSetting, tables
<1>9. CASE UpdateSetting(t) \/ InsertSetting(t)
  BY <1>1, <1>9, StoreTyped DEF UpdateSetting, InsertSetting
<1>10. CASE InsertRefused(t)
  BY <1>1, <1>10, InsertRefusedTyped DEF InsertRefused, tables
<1>11. CASE ListKeys(t)
  BY <1>1, <1>11, ListKeysTyped DEF ListKeys, tables
<1>12. CASE \E k \in Keys : ReadObservations(t, k)
  BY <1>1, <1>12, ReadObservationsTyped DEF ReadObservations, tables
<1>13. CASE ReadHalfLife(t)
  BY <1>1, <1>13, ReadHalfLifeTyped DEF ReadHalfLife, tables
<1>14. CASE Write(t)
  BY <1>1, <1>14, WriteTyped DEF Write
<1>15. CASE Proceed(t)
  BY <1>1, <1>15, ProceedTyped DEF Proceed, tables
<1> QED BY <1>2, <1>3, <1>4, <1>5, <1>6, <1>7, <1>8, <1>9, <1>10, <1>11, <1>12, <1>13,
           <1>14, <1>15 DEF Request, Statement

LEMMA TrackType ==
  ASSUME Typed, threads' \in [Threads -> Thread], Track
  PROVE  overlapped' \in [Threads -> SUBSET Keys] /\ stained' \subseteq Keys
<1>1. \A t \in Threads : WorkingOn(threads'[t]) \subseteq Keys
  BY WorkType
<1>2. \A t \in Threads : Overlap(t) \subseteq Keys
  BY <1>1 DEF Overlap
<1> QED BY <1>2 DEF Track, Typed, TypeOK

LEMMA TypedNext == Typed /\ [Next]_vars => Typed'
<1> SUFFICES ASSUME Typed, [Next]_vars PROVE Typed'
  OBVIOUS
<1>1. ASSUME NEW t \in Threads, Request(t) \/ Statement(t), Track, UNCHANGED crashes
      PROVE  Typed'
  <2> PICK x : GoesTo(t, x)
    BY <1>1, TypedStep
  <2>1. /\ threads' \in [Threads -> Thread]
        /\ \A u \in Threads : Formed(threads'[u])
    BY DEF GoesTo, Typed, TypeOK
  <2>2. overlapped' \in [Threads -> SUBSET Keys] /\ stained' \subseteq Keys
    BY <1>1, <2>1, TrackType
  <2> QED BY <1>1, <2>1, <2>2, TypedStep DEF Typed, TypeOK
<1>2. CASE Crash
  <2>1. \A t \in Threads : WorkingOn(threads[t]) \subseteq Keys
    BY WorkType DEF Typed, TypeOK
  <2>2. /\ threads' \in [Threads -> Thread]
        /\ \A u \in Threads : Formed(threads'[u])
    BY <1>2, IdleForm DEF Crash
  <2>3. crashes' \in 0..MaxCrashes
    BY <1>2, CalibrationAssumption DEF Crash, Typed, TypeOK
  <2> QED BY <1>2, <2>1, <2>2, <2>3 DEF Crash, Typed, TypeOK, tables
<1>3. CASE UNCHANGED vars
  <2>1. \A t \in Threads : threads'[t] = threads[t]
    BY <1>3 DEF vars
  <2> QED BY <1>3, <2>1 DEF vars, tables, Typed, TypeOK
<1> QED BY <1>1, <1>2, <1>3 DEF Next

(***************************************************************************)
(* What a step does to the keys it works on, and to the others             *)
(***************************************************************************)

LEMMA Lands ==
  ASSUME Typed, NEW t \in Threads, NEW x, GoesTo(t, x)
  PROVE  /\ threads'[t] = x
         /\ \A u \in Threads \ {t} : threads'[u] = threads[u]
BY DEF GoesTo, Typed, TypeOK

\* The keys of a request become fewer by three statements, and never more.
Drops(t) == ListKeys(t) \/ InsertRefused(t) \/ Write(t)

LEMMA Narrows ==
  ASSUME Typed, NEW t \in Threads, Statement(t)
  PROVE  /\ WorkingOn(threads'[t]) \subseteq WorkingOn(threads[t])
         /\ ~Drops(t) => WorkingOn(threads'[t]) = WorkingOn(threads[t])
<1> DEFINE th == threads[t]
<1>1. th \in Thread /\ Formed(th)
  BY DEF Typed, TypeOK
<1>2. th.pc \in {"find", "store", "list"} => WorkingOn(th) = Keys
  BY DEF WorkingOn
<1>3. threads'[t] \in Thread
  BY TypedStep, Lands DEF GoesTo
<1>4. CASE ListKeys(t) \/ InsertRefused(t)
  BY <1>2, <1>3, <1>4, WorkType DEF ListKeys, InsertRefused, Drops
<1>10. CASE FindSetting(t) \/ UpdateSetting(t) \/ InsertSetting(t)
  <2>1. threads'[t].pc \in {"store", "list"}
    <3>1. CASE FindSetting(t)
      <4> DEFINE x == [th EXCEPT !.pc = "store", !.existing = settings[th.scope].id]
      <4>1. threads'[t] = x
        BY <3>1, FindSettingTyped, Lands
      <4> QED BY <1>1, <4>1 DEF Thread
    <3>2. CASE UpdateSetting(t) \/ InsertSetting(t)
      <4>1. threads'[t] = [th EXCEPT !.pc = "list"]
        BY <3>2, StoreTyped, Lands
      <4> QED BY <1>1, <4>1 DEF Thread
    <3> QED BY <1>10, <3>1, <3>2
  <2> QED BY <1>2, <1>10, <2>1 DEF WorkingOn, FindSetting, UpdateSetting, InsertSetting
<1>5. CASE Insert(t)
  <2> DEFINE x == [th EXCEPT !.pc = "next", !.feed = Tail(th.feed), !.place = th.place + 1,
                             !.todo = {Head(th.feed)}]
  <2>1. threads'[t] = x
    BY <1>5, InsertTyped, Lands
  <2>2. x.pc = "next" /\ x.feed = Tail(th.feed) /\ x.todo = {Head(th.feed)} /\ x.key = th.key
    BY <1>1 DEF Thread
  <2>3. Range(th.feed) = {Head(th.feed)} \cup Range(Tail(th.feed))
    BY <1>1, <1>5, FeedKeys DEF Thread, Insert
  <2> HIDE DEF x
  <2>4. WorkingOn(x) = Range(th.feed) \cup ({th.key} \cap Keys)
    BY <2>2, <2>3 DEF WorkingOn
  <2>5. Range(th.feed) \cup ({th.key} \cap Keys) = WorkingOn(th)
    BY <1>1, <1>5 DEF WorkingOn, Insert, Formed
  <2> QED BY <2>1, <2>4, <2>5
<1>6. CASE \E k \in Keys : ReadObservations(t, k)
  <2> PICK k \in Keys : ReadObservations(t, k)
    BY <1>6
  <2> DEFINE x == [th EXCEPT !.pc = "half_life", !.todo = th.todo \ {k}, !.key = k,
                             !.seen = ObservationsOf(k)]
  <2>1. threads'[t] = x
    BY ReadObservationsTyped, Lands
  <2>2. x.pc = "half_life" /\ x.feed = th.feed /\ x.todo = th.todo \ {k} /\ x.key = k
    BY <1>1 DEF Thread
  <2> HIDE DEF x
  <2>3. WorkingOn(x) = (th.todo \ {k}) \cup Range(th.feed) \cup ({k} \cap Keys)
    BY <2>2 DEF WorkingOn
  <2>4. k \in th.todo /\ th.key = None
    BY <1>1 DEF ReadObservations, Formed
  <2>5. WorkingOn(th) = th.todo \cup Range(th.feed)
    BY <2>4, CalibrationAssumption DEF WorkingOn, ReadObservations
  <2> QED BY <2>1, <2>3, <2>4, <2>5
<1>7. CASE ReadHalfLife(t)
  <2> PICK h \in EffectiveHalfLives(th.key) : GoesTo(t, [th EXCEPT !.pc = "write", !.half_life = h])
    BY <1>7, ReadHalfLifeTyped
  <2> DEFINE x == [th EXCEPT !.pc = "write", !.half_life = h]
  <2>1. threads'[t] = x
    BY Lands
  <2>2. x.pc = "write" /\ x.feed = th.feed /\ x.todo = th.todo /\ x.key = th.key
    BY <1>1 DEF Thread
  <2> HIDE DEF x
  <2> QED BY <1>7, <2>1, <2>2 DEF WorkingOn, ReadHalfLife
<1>8. CASE Write(t)
  <2> DEFINE x == [th EXCEPT !.pc = "next", !.key = None, !.seen = {}, !.half_life = Default]
  <2>1. threads'[t] = x
    BY <1>8, WriteTyped, Lands
  <2>2. x.pc = "next" /\ x.feed = th.feed /\ x.todo = th.todo /\ x.key = None
    BY <1>1 DEF Thread
  <2> HIDE DEF x
  <2> QED BY <1>8, <2>1, <2>2, CalibrationAssumption DEF WorkingOn, Write, Drops
<1>9. CASE Proceed(t)
  <2> DEFINE x == [th EXCEPT !.pc = "insert"]
  <2>1. threads'[t] = IF th.feed = <<>> THEN Idle ELSE x
    BY <1>9, ProceedTyped, Lands
  <2>2. x.pc = "insert" /\ x.feed = th.feed /\ x.todo = th.todo /\ x.key = th.key
    BY <1>1 DEF Thread
  <2> HIDE DEF x
  <2>3. CASE th.feed # <<>>
    BY <1>9, <2>1, <2>2, <2>3 DEF WorkingOn, Proceed
  <2>4. CASE th.feed = <<>>
    <3>1. th.todo = {} /\ th.key = None /\ th.pc = "next" /\ Range(<<>>) = {}
      BY <1>1, <1>9 DEF Proceed, Formed, Range
    <3>2. WorkingOn(th) = {}
      BY <2>4, <3>1, CalibrationAssumption DEF WorkingOn
    <3> QED BY <2>1, <2>4, <3>2, IdleForm
  <2> QED BY <2>3, <2>4
<1> QED BY <1>4, <1>5, <1>6, <1>7, <1>8, <1>9, <1>10 DEF Statement

\* A request begins on no key.
LEMMA StartsIdle ==
  ASSUME Typed, NEW t \in Threads, Request(t)
  PROVE  threads[t] = Idle /\ WorkingOn(threads[t]) = {} /\ profiles' = profiles
<1>1. threads[t] = Idle
  BY BeginFeedTyped, SetWeightTyped, SetHalfLifeTyped, SetThresholdsTyped, ResetTyped DEF Request
<1>2. profiles' = profiles
  BY DEF Request, BeginFeed, SetWeight, BeginSetHalfLife, BeginSetThresholds, Reset, tables
<1> QED BY <1>1, <1>2, IdleForm

\* Whoever changes what a profile is made from works on its key from then on,
\* ...
LEMMA InputsOfOthers ==
  ASSUME Typed, NEW t \in Threads, Request(t) \/ Statement(t),
         NEW k \in Keys, k \notin WorkingOn(threads'[t])
  PROVE  ObservationsOf(k)' = ObservationsOf(k) /\ settings' = settings
<1> DEFINE th == threads[t]
<1>1. th \in Thread
  BY DEF Typed, TypeOK
<1>2. CASE observations' = observations /\ settings' = settings
  BY <1>2 DEF ObservationsOf
<1>3. ASSUME NEW x \in Thread, threads'[t] = x, x.pc \in {"find", "store", "list"} PROVE FALSE
  BY <1>3 DEF WorkingOn
<1>4. CASE \E o \in observations, w \in Weights \cup {None} : SetWeight(t, o, w)
  <2> PICK o \in observations, w \in Weights \cup {None} : SetWeight(t, o, w)
    BY <1>4
  <2> DEFINE x == [Idle EXCEPT !.pc = "next", !.todo = {o.key}, !.request = requests + 1]
  <2>1. threads'[t] = x
    BY SetWeightTyped, Lands
  <2>2. x.pc = "next" /\ x.todo = {o.key}
    BY DEF Idle
  <2> HIDE DEF x
  <2>3. o.key # k
    BY <2>1, <2>2 DEF WorkingOn
  <2>4. [o EXCEPT !.weight_override = w].key = o.key
    BY DEF Typed, TypeOK, Observation
  <2>5. /\ observations' = (observations \ {o}) \cup {[o EXCEPT !.weight_override = w]}
        /\ settings' = settings
    BY DEF SetWeight
  <2> QED BY <2>3, <2>4, <2>5 DEF ObservationsOf
<1>5. CASE Insert(t)
  <2> DEFINE x == [th EXCEPT !.pc = "next", !.feed = Tail(th.feed), !.place = th.place + 1,
                             !.todo = {Head(th.feed)}]
  <2>1. threads'[t] = x
    BY <1>5, InsertTyped, Lands
  <2>2. x.pc = "next" /\ x.todo = {Head(th.feed)}
    BY <1>1 DEF Thread
  <2> HIDE DEF x
  <2>3. Head(th.feed) # k
    BY <2>1, <2>2 DEF WorkingOn
  <2> QED BY <1>5, <2>3 DEF Insert, ObservationsOf
<1>6. CASE UpdateSetting(t) \/ InsertSetting(t)
  <2>1. threads'[t] = [th EXCEPT !.pc = "list"]
    BY <1>6, StoreTyped, Lands
  <2> QED BY <1>1, <2>1 DEF Thread, WorkingOn
<1>7. CASE \E s \in Scopes : Reset(t, s)
  <2> PICK s \in Scopes : Reset(t, s)
    BY <1>7
  <2>1. threads'[t] = [Idle EXCEPT !.pc = "list", !.scope = s, !.request = requests + 1]
    BY ResetTyped, Lands
  <2> QED BY <2>1 DEF Idle, WorkingOn
<1> QED BY <1>2, <1>4, <1>5, <1>6, <1>7
        DEF Request, Statement, BeginFeed, BeginSetHalfLife, BeginSetThresholds, FindSetting,
            InsertRefused, ListKeys, ReadObservations, ReadHalfLife, Write, Proceed, tables

\* ... and whoever changes a profile did before.
LEMMA ProfilesOfOthers ==
  ASSUME Typed, NEW t \in Threads, Request(t) \/ Statement(t),
         NEW k \in Keys, k \notin WorkingOn(threads[t])
  PROVE  profiles'[k] = profiles[k]
<1>1. CASE Request(t)
  BY <1>1, StartsIdle
<1>2. CASE Write(t)
  <2>1. threads[t].key # k
    BY <1>2 DEF Write, WorkingOn
  <2> QED BY <1>2, <2>1 DEF Write, Typed, TypeOK
<1> QED BY <1>1, <1>2
        DEF Statement, Insert, FindSetting, UpdateSetting, InsertSetting, InsertRefused,
            ListKeys, ReadObservations, ReadHalfLife, Proceed, tables

(***************************************************************************)
(* Who notices whom                                                        *)
(***************************************************************************)

Act(t) == (Request(t) \/ Statement(t)) /\ Track

LEMMA ActsAlone ==
  ASSUME Typed, NEW t \in Threads, Act(t)
  PROVE  \A u \in Threads \ {t} : threads'[u] = threads[u]
BY TypedStep, Lands DEF Act

LEMMA Tracked ==
  ASSUME Typed, NEW t \in Threads, Act(t)
  PROVE  /\ \A u \in Threads : overlapped'[u] = IF threads'[u].pc = "idle" THEN {}
                                                 ELSE overlapped[u] \cup Overlap(u)
         /\ \A u, v \in Threads, k \in Keys : u # v /\ Works(u, k)' /\ Works(v, k)' =>
              k \in Overlap(u) /\ k \in stained'
         /\ \A k \in stained \ stained' :
              Works(t, k) /\ ~Works(t, k)' /\ k \notin overlapped[t]
<1>1. \A u \in Threads : overlapped'[u] = IF threads'[u].pc = "idle" THEN {}
                                          ELSE overlapped[u] \cup Overlap(u)
  BY DEF Act, Track
<1>2. ASSUME NEW u \in Threads, NEW v \in Threads, NEW k \in Keys, u # v, Works(u, k)', Works(v, k)'
      PROVE  k \in Overlap(u) /\ k \in stained'
  <2>1. k \in Overlap(u)
    BY <1>2 DEF Works, Overlap
  <2> QED BY <2>1 DEF Act, Track
<1>3. ASSUME NEW k \in stained \ stained'
      PROVE  Works(t, k) /\ ~Works(t, k)' /\ k \notin overlapped[t]
  <2>1. PICK u \in Threads : k \in (WorkingOn(threads[u]) \ WorkingOn(threads'[u])) \ overlapped[u]
    BY <1>3 DEF Act, Track
  <2>2. u = t
    BY <2>1, ActsAlone
  <2> QED BY <2>1, <2>2 DEF Works
<1> QED BY <1>1, <1>2, <1>3

\* Nobody is idle on a key.
LEMMA BusyWorks ==
  ASSUME Typed, NEW t \in Threads, NEW k \in Keys, Works(t, k)
  PROVE  threads[t].pc # "idle"
BY IdleForm DEF Typed, Formed, Works

LEMMA NoticedStep ==
  ASSUME Typed, Typed', NEW t \in Threads, Act(t)
  PROVE  Noticed'
<1> SUFFICES ASSUME NEW u \in Threads, NEW v \in Threads, NEW k \in Keys, u # v,
                    Works(u, k)', Works(v, k)'
             PROVE  k \in overlapped'[u]
  BY DEF Noticed
<1>1. threads'[u].pc # "idle"
  BY IdleForm DEF Typed, Formed, Works
<1> QED BY <1>1, Tracked

LEMMA MarkedStep ==
  ASSUME Typed, Typed', Noticed, Marked, NEW t \in Threads, Act(t)
  PROVE  Marked'
<1>1. ASSUME NEW u \in Threads, NEW k \in Keys, Works(u, k)', k \in overlapped'[u]
      PROVE  k \in stained'
  <2>1. k \in overlapped[u] \/ k \in Overlap(u)
    BY <1>1, Tracked
  <2>2. CASE k \in Overlap(u)
    BY <2>2 DEF Act, Track
  <2>3. CASE k \in overlapped[u]
    <3>1. Works(u, k)
      <4>1. CASE u # t
        BY <1>1, <4>1, ActsAlone DEF Works
      <4>2. CASE u = t /\ Statement(t)
        BY <1>1, <4>2, Narrows DEF Works
      <4>3. CASE u = t /\ Request(t)
        BY <2>3, <4>3, StartsIdle, IdleForm DEF Marked
      <4> QED BY <4>1, <4>2, <4>3 DEF Act
    <3>2. k \in stained
      BY <2>3, <3>1 DEF Marked
    <3>3. ASSUME k \notin stained' PROVE FALSE
      <4>1. Works(t, k) /\ ~Works(t, k)' /\ k \notin overlapped[t]
        BY <3>2, <3>3, Tracked
      <4>2. u # t
        BY <1>1, <4>1
      <4> QED BY <3>1, <4>1, <4>2 DEF Noticed
    <3> QED BY <3>3
  <2> QED BY <2>1, <2>2, <2>3
<1>2. \A u \in Threads : threads'[u].pc = "idle" => overlapped'[u] = {}
  BY Tracked
<1> QED BY <1>1, <1>2 DEF Marked

(***************************************************************************)
(* What a thread has read                                                  *)
(***************************************************************************)

\* Only statements of _upsert_setting and _rematerialise_profile change what was read.
Unread(x) == x.pc # "store" /\ x.key = None /\ x.seen = {}
Rests(th, x) ==
  x.pc \notin {"store", "half_life", "write"} /\ x.seen = th.seen /\ x.key = th.key
HasFound(t, x) ==
  /\ FindSetting(t) /\ x.pc = "store"
  /\ x.existing = settings[x.scope].id /\ x.scope \in Scopes
  /\ x.seen = threads[t].seen /\ x.key = threads[t].key
HasObservations(t, x) ==
  \E k \in Keys : ReadObservations(t, k) /\ x.pc = "half_life" /\ x.key = k /\ x.seen = ObservationsOf(k)
HasHalfLife(t, x) ==
  /\ ReadHalfLife(t) /\ x.pc = "write"
  /\ x.key = threads[t].key /\ x.seen = threads[t].seen
  /\ x.half_life \in EffectiveHalfLives(threads[t].key)

LEMMA Reads ==
  ASSUME Typed, NEW t \in Threads, Request(t) \/ Statement(t)
  PROVE  \/ Unread(threads'[t]) \/ Rests(threads[t], threads'[t]) \/ HasFound(t, threads'[t])
         \/ HasObservations(t, threads'[t]) \/ HasHalfLife(t, threads'[t])
<1> DEFINE th == threads[t]
<1>1. th \in Thread
  BY DEF Typed, TypeOK
<1>2. CASE \E feed \in Feeds : BeginFeed(t, feed)
  <2> PICK feed \in Feeds : BeginFeed(t, feed)
    BY <1>2
  <2>1. threads'[t] = [Idle EXCEPT !.pc = "insert", !.feed = feed, !.request = requests + 1]
    BY BeginFeedTyped, Lands
  <2> QED BY <2>1 DEF Idle, Unread
<1>3. CASE \E o \in observations, w \in Weights \cup {None} : SetWeight(t, o, w)
  <2> PICK o \in observations, w \in Weights \cup {None} : SetWeight(t, o, w)
    BY <1>3
  <2>1. threads'[t] = [Idle EXCEPT !.pc = "next", !.todo = {o.key}, !.request = requests + 1]
    BY SetWeightTyped, Lands
  <2> QED BY <2>1 DEF Idle, Unread
<1>4. CASE \E s \in Scopes, h \in HalfLives : BeginSetHalfLife(t, s, h)
  <2> PICK s \in Scopes, h \in HalfLives : BeginSetHalfLife(t, s, h)
    BY <1>4
  <2>1. threads'[t] = [Idle EXCEPT !.pc = "find", !.scope = s, !.half_life_days = h, !.request = requests + 1]
    BY SetHalfLifeTyped, Lands
  <2> QED BY <2>1 DEF Idle, Unread
<1>5. CASE \E s \in Scopes, pair \in Thresholds : BeginSetThresholds(t, s, pair)
  <2> PICK s \in Scopes, pair \in Thresholds : BeginSetThresholds(t, s, pair)
    BY <1>5
  <2>1. threads'[t] = [Idle EXCEPT !.pc = "find", !.scope = s, !.thresholds = pair, !.request = requests + 1]
    BY SetThresholdsTyped, Lands
  <2> QED BY <2>1 DEF Idle, Unread
<1>6. CASE \E s \in Scopes : Reset(t, s)
  <2> PICK s \in Scopes : Reset(t, s)
    BY <1>6
  <2>1. threads'[t] = [Idle EXCEPT !.pc = "list", !.scope = s, !.request = requests + 1]
    BY ResetTyped, Lands
  <2> QED BY <2>1 DEF Idle, Unread
<1>7. CASE Insert(t)
  <2> DEFINE x == [th EXCEPT !.pc = "next", !.feed = Tail(th.feed), !.place = th.place + 1,
                             !.todo = {Head(th.feed)}]
  <2>1. threads'[t] = x
    BY <1>7, InsertTyped, Lands
  <2>2. Rests(th, x)
    BY <1>1 DEF Thread, Rests
  <2> QED BY <2>1, <2>2
<1>8. CASE FindSetting(t)
  <2> DEFINE x == [th EXCEPT !.pc = "store", !.existing = settings[th.scope].id]
  <2>1. threads'[t] = x
    BY <1>8, FindSettingTyped, Lands
  <2>2. x.scope = th.scope /\ x.pc = "store" /\ x.existing = settings[th.scope].id
    BY <1>1 DEF Thread
  <2>3. x.seen = th.seen /\ x.key = th.key
    BY <1>1 DEF Thread
  <2>4. th.scope \in Scopes
    BY <1>1, <1>8 DEF Thread, FindSetting, Typed, Formed
  <2> QED BY <1>8, <2>1, <2>2, <2>3, <2>4 DEF HasFound
<1>9. CASE UpdateSetting(t) \/ InsertSetting(t)
  <2>1. threads'[t] = [th EXCEPT !.pc = "list"]
    BY <1>9, StoreTyped, Lands
  <2>2. Rests(th, [th EXCEPT !.pc = "list"])
    BY <1>1 DEF Thread, Rests
  <2> QED BY <2>1, <2>2
<1>10. CASE InsertRefused(t)
  <2>1. threads'[t] = Idle
    BY <1>10, InsertRefusedTyped, Lands
  <2> QED BY <2>1, IdleForm DEF Unread
<1>11. CASE ListKeys(t)
  <2> DEFINE x == [th EXCEPT !.pc = "next", !.todo = Listed]
  <2>1. threads'[t] = x
    BY <1>11, ListKeysTyped, Lands
  <2>2. Rests(th, x)
    BY <1>1 DEF Thread, Rests
  <2> QED BY <2>1, <2>2
<1>12. CASE \E k \in Keys : ReadObservations(t, k)
  <2> PICK k \in Keys : ReadObservations(t, k)
    BY <1>12
  <2> DEFINE x == [th EXCEPT !.pc = "half_life", !.todo = th.todo \ {k}, !.key = k,
                             !.seen = ObservationsOf(k)]
  <2>1. threads'[t] = x
    BY ReadObservationsTyped, Lands
  <2>2. x.pc = "half_life" /\ x.key = k /\ x.seen = ObservationsOf(k)
    BY <1>1 DEF Thread
  <2> QED BY <2>1, <2>2 DEF HasObservations
<1>13. CASE ReadHalfLife(t)
  <2> PICK h \in EffectiveHalfLives(th.key) : GoesTo(t, [th EXCEPT !.pc = "write", !.half_life = h])
    BY <1>13, ReadHalfLifeTyped
  <2> DEFINE x == [th EXCEPT !.pc = "write", !.half_life = h]
  <2>1. threads'[t] = x
    BY Lands
  <2>2. x.pc = "write" /\ x.key = th.key /\ x.seen = th.seen /\ x.half_life = h
    BY <1>1 DEF Thread
  <2> QED BY <1>13, <2>1, <2>2 DEF HasHalfLife
<1>14. CASE Write(t)
  <2> DEFINE x == [th EXCEPT !.pc = "next", !.key = None, !.seen = {}, !.half_life = Default]
  <2>1. threads'[t] = x
    BY <1>14, WriteTyped, Lands
  <2>2. Unread(x)
    BY <1>1 DEF Thread, Unread
  <2> QED BY <2>1, <2>2
<1>15. CASE Proceed(t)
  <2>1. threads'[t] \in {Idle, [th EXCEPT !.pc = "insert"]}
    BY <1>15, ProceedTyped, Lands
  <2>2. Unread(Idle) /\ Rests(th, [th EXCEPT !.pc = "insert"])
    BY <1>1, IdleForm DEF Thread, Rests, Unread
  <2> QED BY <2>1, <2>2
<1> QED BY <1>2, <1>3, <1>4, <1>5, <1>6, <1>7, <1>8, <1>9, <1>10, <1>11, <1>12, <1>13,
           <1>14, <1>15 DEF Request, Statement

\* Observations are replaced by ones of the same key, and never deleted.
LEMMA ListGrows ==
  ASSUME Typed, NEW t \in Threads, Request(t) \/ Statement(t)
  PROVE  Listed \subseteq Listed'
<1>1. CASE observations \subseteq observations'
  BY <1>1 DEF Listed
<1>2. CASE \E o \in observations, w \in Weights \cup {None} : SetWeight(t, o, w)
  <2> PICK o \in observations, w \in Weights \cup {None} : SetWeight(t, o, w)
    BY <1>2
  <2>1. [o EXCEPT !.weight_override = w].key = o.key
    BY DEF Typed, TypeOK, Observation
  <2>2. observations' = (observations \ {o}) \cup {[o EXCEPT !.weight_override = w]}
    BY DEF SetWeight
  <2> QED BY <2>1, <2>2 DEF Listed
<1> QED BY <1>1, <1>2
        DEF Request, Statement, BeginFeed, BeginSetHalfLife, BeginSetThresholds, Reset, Insert,
            FindSetting, UpdateSetting, InsertSetting, InsertRefused, ListKeys,
            ReadObservations, ReadHalfLife, Write, Proceed, tables

LEMMA GroundedStep ==
  ASSUME Typed, Grounded, NEW t \in Threads, Act(t)
  PROVE  Grounded'
<1>1. Listed \subseteq Listed' /\ (Request(t) \/ Statement(t))
  BY ListGrows DEF Act
<1>2. ASSUME NEW k \in Keys, profiles'[k] # Absent PROVE k \in Listed
  <2>1. CASE profiles' = profiles
    BY <1>2, <2>1 DEF Grounded
  <2>2. CASE Write(t)
    <3>1. CASE threads[t].key = k
      <4>1. threads[t].seen # {}
        BY <1>2, <2>2, <3>1, OfNothing DEF Write, Typed, TypeOK
      <4> QED BY <3>1, <4>1 DEF Grounded
    <3>2. CASE threads[t].key # k
      BY <1>2, <2>2, <3>2 DEF Write, Typed, TypeOK, Grounded
    <3> QED BY <3>1, <3>2
  <2> QED BY <1>1, <2>1, <2>2, StartsIdle
          DEF Statement, Insert, FindSetting, UpdateSetting, InsertSetting, InsertRefused,
              ListKeys, ReadObservations, ReadHalfLife, Proceed, tables
<1>3. ASSUME NEW u \in Threads, threads'[u].seen # {} PROVE threads'[u].key \in Listed
  <2>1. CASE u # t
    BY <1>3, <2>1, ActsAlone DEF Grounded
  <2>2. CASE u = t
    <3>1. \A k : ObservationsOf(k) # {} => k \in Listed
      BY DEF ObservationsOf, Listed
    <3>2. \/ threads'[t].seen = threads[t].seen /\ threads'[t].key = threads[t].key
          \/ \E k \in Keys : threads'[t].key = k /\ threads'[t].seen = ObservationsOf(k)
      BY <1>1, <1>3, <2>2, Reads DEF Unread, Rests, HasFound, HasObservations, HasHalfLife
    <3> QED BY <1>3, <2>2, <3>1, <3>2 DEF Grounded
  <2> QED BY <2>1, <2>2
<1> QED BY <1>1, <1>2, <1>3 DEF Grounded

\* What the settings amount to stays with the settings.
LEMMA SameHalfLives ==
  ASSUME NEW k, settings' = settings
  PROVE  EffectiveHalfLives(k)' = EffectiveHalfLives(k)
BY DEF EffectiveHalfLives, Stored, ChannelScopes, ClientScopes, GlobalScopes

LEMMA FollowedStep ==
  ASSUME Typed, Typed', Followed, NEW t \in Threads, Act(t)
  PROVE  Followed'
<1> SUFFICES ASSUME NEW u \in Threads, NEW k \in Keys, k \notin overlapped'[u],
                    threads'[u].pc \in {"half_life", "write"}, threads'[u].key = k
             PROVE  Holds(threads[u], k)'
  BY DEF Followed
<1>1. Works(u, k)' /\ threads'[u].pc # "idle"
  BY DEF Works, WorkingOn
<1>2. k \notin overlapped[u]
  BY <1>1, Tracked
<1>3. CASE u # t
  <2>1. threads'[u] = threads[u]
    BY <1>3, ActsAlone
  <2>2. Holds(threads[u], k)
    BY <1>2, <2>1 DEF Followed
  <2>3. ~Works(t, k)'
    BY <1>1, <1>3, Tracked
  <2>4. ObservationsOf(k)' = ObservationsOf(k) /\ settings' = settings
    BY <2>3, InputsOfOthers DEF Act, Works
  <2>5. EffectiveHalfLives(k)' = EffectiveHalfLives(k)
    BY <2>4, SameHalfLives
  <2> QED BY <2>1, <2>2, <2>4, <2>5 DEF Holds
<1>4. CASE u = t
  <2>1. Request(t) \/ Statement(t)
    BY DEF Act
  <2>2. k # None
    BY CalibrationAssumption
  <2>3. CASE HasObservations(t, threads'[t])
    BY <1>4, <2>3 DEF Holds, HasObservations, ReadObservations, tables, ObservationsOf
  <2>4. CASE HasHalfLife(t, threads'[t])
    <3>1. Holds(threads[t], k)
      BY <1>2, <1>4, <2>4 DEF Followed, HasHalfLife, ReadHalfLife
    <3>2. ObservationsOf(k)' = ObservationsOf(k) /\ EffectiveHalfLives(k)' = EffectiveHalfLives(k)
      BY <2>4, SameHalfLives DEF HasHalfLife, ReadHalfLife, tables, ObservationsOf
    <3> QED BY <1>4, <2>4, <3>1, <3>2 DEF Holds, HasHalfLife
  <2> QED BY <1>4, <2>1, <2>2, <2>3, <2>4, Reads DEF Unread, Rests, HasFound
<1> QED BY <1>3, <1>4

LEMMA UnopposedStep ==
  ASSUME Typed, Typed', Unopposed, NEW t \in Threads, Act(t)
  PROVE  Unopposed'
<1> SUFFICES ASSUME NEW u \in Threads, threads'[u].pc = "store", threads'[u].existing = 0
             PROVE  settings'[threads'[u].scope] = NoRow \/ Keys \subseteq overlapped'[u]
  BY DEF Unopposed
<1>1. CASE u # t
  <2>1. threads'[u] = threads[u]
    BY <1>1, ActsAlone
  <2>2. overlapped'[u] = overlapped[u] \cup Overlap(u)
    BY Tracked
  <2>3. CASE settings' = settings
    BY <2>1, <2>2, <2>3 DEF Unopposed
  <2>4. CASE settings' # settings
    <3>1. \A k \in Keys : Works(t, k)'
      BY <2>4, InputsOfOthers DEF Act, Works
    <3>2. \A k \in Keys : Works(u, k)'
      BY DEF Works, WorkingOn
    <3> QED BY <1>1, <2>2, <3>1, <3>2, Tracked
  <2> QED BY <2>3, <2>4
<1>2. CASE u = t
  <2>1. HasFound(t, threads'[t])
    BY <1>2, Reads DEF Act, Unread, Rests, HasObservations, HasHalfLife
  <2> QED BY <1>2, <2>1 DEF HasFound, FindSetting, tables, Typed
<1> QED BY <1>1, <1>2

(***************************************************************************)
(* A key that is left is fresh                                             *)
(***************************************************************************)

LEMMA FreshStays ==
  ASSUME NEW k, Fresh(k), profiles'[k] = profiles[k],
         ObservationsOf(k)' = ObservationsOf(k), settings' = settings
  PROVE  Fresh(k)'
BY SameHalfLives DEF Fresh

\* Who leaves a key it worked on alone leaves it fresh.
LEMMA LeftFresh ==
  ASSUME Typed, Grounded, Followed, Unopposed, NEW t \in Threads, Act(t),
         NEW k \in Keys, Works(t, k), ~Works(t, k)', k \notin overlapped[t]
  PROVE  Fresh(k)'
<1> DEFINE th == threads[t]
<1>1. th \in Thread /\ Formed(th)
  BY DEF Typed, TypeOK
<1>2. Statement(t) /\ Drops(t)
  BY StartsIdle, Narrows DEF Act, Works
<1>3. ObservationsOf(k)' = ObservationsOf(k) /\ settings' = settings
  BY InputsOfOthers DEF Act, Works
<1>4. CASE ListKeys(t)
  <2> DEFINE x == [th EXCEPT !.pc = "next", !.todo = Listed]
  <2>1. threads'[t] = x
    BY <1>4, ListKeysTyped, Lands
  <2>2. x.pc = "next" /\ x.todo = Listed
    BY <1>1 DEF Thread
  <2> HIDE DEF x
  <2>3. k \notin Listed
    BY <2>1, <2>2 DEF Works, WorkingOn
  <2>4. Fresh(k) /\ profiles' = profiles
    BY <1>4, <2>3, NothingIsFresh DEF ListKeys, tables
  <2> QED BY <1>3, <2>4, FreshStays
<1>5. CASE InsertRefused(t)
  BY <1>5 DEF InsertRefused, Unopposed
<1>6. CASE Write(t)
  <2> DEFINE x == [th EXCEPT !.pc = "next", !.key = None, !.seen = {}, !.half_life = Default]
  <2>1. threads'[t] = x
    BY <1>6, WriteTyped, Lands
  <2>2. x.pc = "next" /\ x.todo = th.todo /\ x.feed = th.feed
    BY <1>1 DEF Thread
  <2> HIDE DEF x
  <2>3. th.key = k
    BY <1>6, <2>1, <2>2 DEF Works, WorkingOn, Write
  <2>4. Holds(th, k) /\ th.pc = "write"
    BY <1>6, <2>3 DEF Followed, Write
  <2>5. profiles'[k] = Materialised(ObservationsOf(k), th.half_life)
    BY <1>6, <2>3, <2>4 DEF Write, Holds, Typed, TypeOK
  <2>6. th.half_life \in EffectiveHalfLives(k)'
    BY <1>3, <2>4, SameHalfLives DEF Holds
  <2> QED BY <1>3, <2>5, <2>6 DEF Fresh
<1> QED BY <1>2, <1>4, <1>5, <1>6 DEF Drops

LEMMA FreshStep ==
  ASSUME Typed, Grounded, Marked, Followed, Unopposed, UnstainedFresh, NEW t \in Threads, Act(t)
  PROVE  UnstainedFresh'
<1> SUFFICES ASSUME NEW k \in Keys, k \notin stained', \A u \in Threads : ~Works(u, k)'
             PROVE  Fresh(k)'
  BY DEF UnstainedFresh, Works
<1>1. \A u \in Threads \ {t} : ~Works(u, k)
  BY ActsAlone DEF Works
<1>2. CASE ~Works(t, k)
  <2>1. k \notin stained
    BY <1>2, Tracked
  <2>2. Fresh(k)
    BY <1>1, <1>2, <2>1 DEF UnstainedFresh, Works
  <2>3. ObservationsOf(k)' = ObservationsOf(k) /\ settings' = settings
    BY InputsOfOthers DEF Act, Works
  <2>4. profiles'[k] = profiles[k]
    BY <1>2, ProfilesOfOthers DEF Act, Works
  <2> QED BY <2>2, <2>3, <2>4, FreshStays
<1>3. CASE Works(t, k)
  <2>1. k \notin overlapped[t]
    BY <1>3, Tracked DEF Marked
  <2> QED BY <1>3, <2>1, LeftFresh
<1> QED BY <1>2, <1>3

(***************************************************************************)
(* The invariant                                                           *)
(***************************************************************************)

LEMMA IInvInit == Init => IInv
<1> SUFFICES ASSUME Init PROVE IInv
  OBVIOUS
<1>1. Typed
  BY TypedInit
<1>2. \A t \in Threads : threads[t] = Idle /\ overlapped[t] = {}
  BY DEF Init
<1>3. \A t \in Threads, k \in Keys : ~Works(t, k)
  BY <1>2, IdleForm DEF Works
<1>4. Grounded
  BY <1>2, IdleForm DEF Init, Grounded
<1>5. Listed = {}
  BY DEF Init, Listed
<1>6. UnstainedFresh
  BY <1>4, <1>5, NothingIsFresh DEF UnstainedFresh
<1>7. Followed /\ Unopposed
  BY <1>2, IdleForm DEF Followed, Unopposed
<1> QED BY <1>1, <1>2, <1>3, <1>4, <1>6, <1>7 DEF IInv, Noticed, Marked

\* A restart stains what was being worked on.
LEMMA CrashKeeps ==
  ASSUME IInv, Typed', Crash
  PROVE  IInv'
<1> USE DEF IInv
<1>1. \A t \in Threads : threads'[t] = Idle /\ overlapped'[t] = {}
  BY DEF Crash
<1>2. \A t \in Threads, k \in Keys : ~Works(t, k)'
  BY <1>1, IdleForm DEF Works
<1>3. /\ observations' = observations /\ profiles' = profiles /\ settings' = settings
      /\ Listed' = Listed
  BY DEF Crash, tables, Listed
<1>4. Grounded'
  BY <1>1, <1>3, IdleForm DEF Grounded
<1>5. UnstainedFresh'
  <2> SUFFICES ASSUME NEW k \in Keys, k \notin stained' PROVE Fresh(k)'
    BY DEF UnstainedFresh
  <2>1. k \notin stained /\ \A t \in Threads : k \notin WorkingOn(threads[t])
    BY DEF Crash
  <2>2. Fresh(k)
    BY <2>1 DEF UnstainedFresh
  <2>3. ObservationsOf(k)' = ObservationsOf(k)
    BY <1>3 DEF ObservationsOf
  <2> QED BY <1>3, <2>2, <2>3, FreshStays
<1>6. Followed' /\ Unopposed'
  BY <1>1, IdleForm DEF Followed, Unopposed
<1> QED BY <1>1, <1>2, <1>4, <1>5, <1>6 DEF Noticed, Marked

LEMMA IInvNext == IInv /\ [Next]_vars => IInv'
<1> SUFFICES ASSUME IInv, [Next]_vars PROVE IInv'
  OBVIOUS
<1>1. Typed /\ Typed'
  BY TypedNext DEF IInv
<1>2. CASE \E t \in Threads : Act(t)
  <2> PICK t \in Threads : Act(t)
    BY <1>2
  <2>1. Grounded' /\ Noticed'
    BY <1>1, GroundedStep, NoticedStep DEF IInv
  <2>2. Marked' /\ Followed'
    BY <1>1, MarkedStep, FollowedStep DEF IInv
  <2>3. Unopposed' /\ UnstainedFresh'
    BY <1>1, UnopposedStep, FreshStep DEF IInv
  <2> QED BY <1>1, <2>1, <2>2, <2>3 DEF IInv
<1>3. CASE Crash
  BY <1>1, <1>3, CrashKeeps
<1>4. CASE UNCHANGED vars
  <2>1. /\ observations' = observations /\ profiles' = profiles /\ settings' = settings
        /\ threads' = threads /\ overlapped' = overlapped /\ stained' = stained
    BY <1>4 DEF vars, tables
  <2>2. \A k : ObservationsOf(k)' = ObservationsOf(k) /\ EffectiveHalfLives(k)' = EffectiveHalfLives(k)
    BY <2>1, SameHalfLives DEF ObservationsOf
  <2>3. Grounded' /\ Noticed' /\ Marked' /\ Unopposed'
    BY <2>1 DEF IInv, Grounded, Listed, Noticed, Marked, Unopposed, Works
  <2>4. Followed'
    BY <2>1, <2>2 DEF IInv, Followed, Holds
  <2>5. UnstainedFresh'
    BY <2>1, <2>2 DEF IInv, UnstainedFresh, Fresh
  <2> QED BY <1>1, <2>3, <2>4, <2>5 DEF IInv
<1> QED BY <1>2, <1>3, <1>4 DEF Next, Act

THEOREM Invariance == Spec => []IInv
BY IInvInit, IInvNext, PTL DEF Spec

\* Tables and threads are well-typed.
THEOREM TypeCorrect == Spec => []TypeOK
<1>1. IInv => TypeOK
  BY DEF IInv, Typed
<1> QED BY <1>1, Invariance, PTL

\* The profile of a key nobody works on is what its observations and the
\* settings amount to, unless requests worked on it at once or one was cut short,
\* and from the next request that works on it alone it is again.
THEOREM LeftAloneIsFresh == Spec => []UnstainedFresh
<1>1. IInv => UnstainedFresh
  BY DEF IInv
<1> QED BY <1>1, Invariance, PTL
=============================================================================
