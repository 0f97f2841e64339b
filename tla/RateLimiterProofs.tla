------------------------- MODULE RateLimiterProofs -------------------------
(***************************************************************************)
(* The limiter keeps its bound for every limit, window and set of clients. *)
(* WindowBound is not inductive: a request passes because the deque is     *)
(* short, and that says something about older requests only as long as     *)
(* what popleft took is older than the window (DroppedAreOld).             *)
(***************************************************************************)
EXTENDS RateLimiter, TLAPS

InOrder(g, now) ==
  /\ \A i \in 1..Len(g) : g[i] <= now
  /\ \A i, j \in 1..Len(g) : i <= j => g[i] <= g[j]

DroppedAreOld(g, h, now) == \A i \in 1..Len(g) : i < h => g[i] < now - Window

Spaced(g) ==
  \A i \in 1..(Len(g) - MaxRequests) : g[i + MaxRequests] - g[i] > Window

IInv ==
  /\ TypeOK
  /\ \A c \in Clients :
       /\ InOrder(granted[c], clock)
       /\ DroppedAreOld(granted[c], head[c], clock)
       /\ Spaced(granted[c])

\* What Retry-After promises: of a client that holds an invitation the request
\* MaxRequests back expires less than a second after it.
Advised(g, a) ==
  a # Never =>
    /\ Len(g) >= MaxRequests
    /\ g[Len(g) - MaxRequests + 1] + Window < a + Second

AInv ==
  \A c \in Clients :
    /\ Len(granted[c]) - head[c] + 1 <= MaxRequests
    /\ Advised(granted[c], advice[c])

\* What one more request does to the times: it comes last, and is spaced from
\* the request MaxRequests before it when that one was dropped.
LEMMA OneMore ==
  ASSUME NEW g \in Seq(Int), NEW now \in Int, NEW h \in Int,
         InOrder(g, now), DroppedAreOld(g, h, now), Spaced(g),
         Len(g) - h + 1 < MaxRequests
  PROVE  /\ InOrder(Append(g, now), now)
         /\ Spaced(Append(g, now))
<1> USE LimitAssumption
<1> DEFINE a == Append(g, now)
<1>1. Len(a) = Len(g) + 1 /\ a[Len(g) + 1] = now /\ \A i \in 1..Len(g) : a[i] = g[i]
  OBVIOUS
<1>2. Len(g) \in Nat /\ \A i \in 1..Len(g) : g[i] \in Int
  OBVIOUS
<1> HIDE DEF a
<1>3. InOrder(a, now)
  <2>1. \A i \in 1..Len(g) : g[i] <= now
    BY DEF InOrder
  <2>2. \A i \in 1..Len(a) : a[i] <= now /\ a[i] \in Int
    BY <1>1, <1>2, <2>1
  <2>3. ASSUME NEW i \in 1..Len(a), NEW j \in 1..Len(a), i <= j
        PROVE  a[i] <= a[j]
    <3>1. CASE j = Len(g) + 1
      BY <3>1, <1>1, <2>2
    <3>2. CASE j # Len(g) + 1
      <4>1. i \in 1..Len(g) /\ j \in 1..Len(g)
        BY <3>2, <2>3, <1>1, <1>2
      <4> QED BY <4>1, <2>3, <1>1 DEF InOrder
    <3> QED BY <3>1, <3>2
  <2> QED BY <2>2, <2>3 DEF InOrder
<1>4. ASSUME NEW i \in 1..(Len(a) - MaxRequests)
      PROVE  a[i + MaxRequests] - a[i] > Window
  <2>1. i \in 1..Len(g) /\ i \in Int
    BY <1>1, <1>2
  <2>2. CASE i + MaxRequests = Len(g) + 1
    <3>1. i < h
      BY <2>1, <2>2, <1>2
    <3>2. g[i] < now - Window
      BY <3>1, <2>1 DEF DroppedAreOld
    <3> QED BY <3>2, <2>1, <2>2, <1>1, <1>2
  <2>3. CASE i + MaxRequests # Len(g) + 1
    <3>1. i \in 1..(Len(g) - MaxRequests) /\ i + MaxRequests \in 1..Len(g)
      BY <2>1, <2>3, <1>1, <1>2
    <3>2. g[i + MaxRequests] - g[i] > Window
      BY <3>1 DEF Spaced
    <3> QED BY <3>1, <3>2, <2>1, <1>1
  <2> QED BY <2>2, <2>3
<1> QED BY <1>3, <1>4 DEF Spaced, a

LEMMA InitIInv == Init => IInv
<1> SUFFICES ASSUME Init PROVE IInv
  OBVIOUS
<1>1. TypeOK
  BY LimitAssumption DEF Init, TypeOK, Times, Never
<1>2. ASSUME NEW c \in Clients
      PROVE  /\ InOrder(granted[c], clock)
             /\ DroppedAreOld(granted[c], head[c], clock)
             /\ Spaced(granted[c])
  <2>1. granted[c] = <<>> /\ Len(granted[c]) = 0
    BY DEF Init
  <2> QED BY <2>1, LimitAssumption DEF InOrder, DroppedAreOld, Spaced
<1> QED BY <1>1, <1>2 DEF IInv

\* What popleft leaves: a place in the deque, with only old entries before it.
LEMMA PurgedPlace ==
  ASSUME IInv, NEW c \in Clients, NEW h \in Purged(c)
  PROVE  /\ h \in 1..(Len(granted[c]) + 1)
         /\ DroppedAreOld(granted[c], h, clock)
         /\ h <= Len(granted[c]) => granted[c][h] >= clock - Window
<1>1. head[c] \in Nat /\ head[c] >= 1 /\ Len(granted[c]) \in Nat
  BY DEF IInv, TypeOK
<1>2. h \in head[c]..(Len(granted[c]) + 1)
  BY DEF Purged
<1>3. ASSUME NEW i \in 1..Len(granted[c]), i < h
      PROVE  granted[c][i] < clock - Window
  <2>1. CASE i < head[c]
    BY <2>1 DEF IInv, DroppedAreOld
  <2>2. CASE i >= head[c]
    <3>1. i \in head[c]..(h - 1)
      BY <1>1, <1>2, <1>3, <2>2
    <3> QED BY <3>1 DEF Purged
  <2> QED BY <2>1, <2>2, <1>1
<1> QED BY <1>1, <1>2, <1>3 DEF DroppedAreOld, Purged

LEMMA GrantKeeps == ASSUME IInv, NEW c \in Clients, Grant(c) PROVE IInv'
<1> USE LimitAssumption
<1>1. PICK h \in Purged(c) :
        /\ ~Full(c, h)
        /\ head' = [head EXCEPT ![c] = h]
        /\ granted' = [granted EXCEPT ![c] = Append(@, clock)]
        /\ advice' = [advice EXCEPT ![c] = Never]
        /\ clock' = clock
  BY DEF Grant
<1>2. /\ h \in 1..(Len(granted[c]) + 1)
      /\ DroppedAreOld(granted[c], h, clock)
  BY PurgedPlace
<1>3. /\ clock \in Times /\ clock \in Int
      /\ granted[c] \in Seq(Times) /\ granted[c] \in Seq(Int)
      /\ Len(granted[c]) \in Nat
  BY DEF IInv, TypeOK, Times
<1>4. TypeOK'
  <2>1. Append(granted[c], clock) \in Seq(Times)
        /\ Len(Append(granted[c], clock)) = Len(granted[c]) + 1
    BY <1>3
  <2>2. granted' \in [Clients -> Seq(Times)] /\ clock' \in Times
    BY <1>1, <1>3, <2>1 DEF IInv, TypeOK
  <2>3. advice' \in [Clients -> Int]
    BY <1>1 DEF IInv, TypeOK, Never
  <2>4. head' \in [Clients -> Nat]
    BY <1>1, <1>2, <1>3 DEF IInv, TypeOK
  <2>5. ASSUME NEW d \in Clients PROVE (head[d] \in 1..(Len(granted[d]) + 1))'
    BY <1>1, <1>2, <1>3, <2>1 DEF IInv, TypeOK
  <2> QED BY <2>2, <2>3, <2>4, <2>5 DEF TypeOK
<1>5. ASSUME NEW d \in Clients
      PROVE  (/\ InOrder(granted[d], clock)
              /\ DroppedAreOld(granted[d], head[d], clock)
              /\ Spaced(granted[d]))'
  <2>1. CASE d # c
    <3>1. granted'[d] = granted[d] /\ head'[d] = head[d] /\ clock' = clock
      BY <1>1, <2>1 DEF IInv, TypeOK
    <3> QED BY <3>1 DEF IInv, InOrder, DroppedAreOld, Spaced
  <2>2. CASE d = c
    <3> DEFINE g == Append(granted[c], clock)
    <3>1. granted'[d] = g /\ head'[d] = h /\ clock' = clock
      BY <1>1, <2>2 DEF IInv, TypeOK
    <3>2. InOrder(granted[c], clock) /\ Spaced(granted[c])
      BY DEF IInv
    <3>3. Len(granted[c]) - h + 1 < MaxRequests
      BY <1>1, <1>2, <1>3 DEF Full
    <3>4. h \in Int
      BY <1>2
    <3>5. InOrder(g, clock) /\ Spaced(g)
      BY <3>2, <3>3, <3>4, <1>2, <1>3, OneMore
    <3>6. DroppedAreOld(g, h, clock)
      BY <1>2, <1>3 DEF DroppedAreOld
    <3> HIDE DEF g
    <3> QED BY <3>1, <3>5, <3>6 DEF InOrder, DroppedAreOld, Spaced
  <2> QED BY <2>1, <2>2
<1> QED BY <1>4, <1>5 DEF IInv

LEMMA RefuseKeeps == ASSUME IInv, NEW c \in Clients, Refuse(c) PROVE IInv'
<1> USE LimitAssumption
<1>1. PICK h \in Purged(c) :
        /\ Full(c, h)
        /\ head' = [head EXCEPT ![c] = h]
        /\ advice' = [advice EXCEPT ![c] = clock + RetryAfter(c, h)]
        /\ clock' = clock /\ granted' = granted
  BY DEF Refuse
<1>2. /\ h \in 1..(Len(granted[c]) + 1)
      /\ DroppedAreOld(granted[c], h, clock)
  BY PurgedPlace
<1>3. clock \in Int /\ granted[c] \in Seq(Times) /\ Len(granted[c]) \in Nat
  BY DEF IInv, TypeOK, Times
<1>4. h \in 1..Len(granted[c])
  BY <1>1, <1>2, <1>3 DEF Full
<1>5. RetryAfter(c, h) \in Int
  <2>1. granted[c][h] \in Times
    BY <1>3, <1>4
  <2>2. granted[c][h] + Window - clock \in Int
    BY <2>1, <1>3 DEF Times
  <2> DEFINE wait == granted[c][h] + Window - clock
             shown == IF wait < Second THEN Second ELSE wait
  <2>3. shown \in Int /\ Second \in Nat \ {0}
    BY <2>2
  <2> HIDE DEF shown
  <2>4. shown \div Second \in Int
    BY <2>3
  <2>5. Second * (shown \div Second) \in Int
    BY <2>3, <2>4
  <2> QED BY <2>5 DEF RetryAfter, shown
<1>6. TypeOK'
  BY <1>1, <1>2, <1>3, <1>5 DEF IInv, TypeOK
<1>7. ASSUME NEW d \in Clients
      PROVE  (/\ InOrder(granted[d], clock)
              /\ DroppedAreOld(granted[d], head[d], clock)
              /\ Spaced(granted[d]))'
  BY <1>1, <1>2 DEF IInv, TypeOK, InOrder, DroppedAreOld, Spaced
<1> QED BY <1>6, <1>7 DEF IInv

LEMMA TickKeeps == IInv /\ Tick => IInv'
<1> SUFFICES ASSUME IInv, Tick PROVE IInv'
  OBVIOUS
<1> USE LimitAssumption
<1>1. clock' = clock + 1 /\ clock \in Int /\ granted' = granted /\ head' = head
  BY DEF IInv, TypeOK, Tick, Times
<1>2. TypeOK'
  BY DEF IInv, TypeOK, Tick, Times
<1>3. ASSUME NEW c \in Clients
      PROVE  (/\ InOrder(granted[c], clock)
              /\ DroppedAreOld(granted[c], head[c], clock)
              /\ Spaced(granted[c]))'
  <2>1. granted[c] \in Seq(Times) /\ \A i \in 1..Len(granted[c]) : granted[c][i] \in Int
    BY DEF IInv, TypeOK, Times
  <2>2. InOrder(granted[c], clock) /\ DroppedAreOld(granted[c], head[c], clock)
        /\ Spaced(granted[c])
    BY DEF IInv
  <2>3. InOrder(granted[c], clock + 1) /\ DroppedAreOld(granted[c], head[c], clock + 1)
    BY <1>1, <2>1, <2>2 DEF InOrder, DroppedAreOld
  <2> QED BY <1>1, <2>2, <2>3
<1> QED BY <1>2, <1>3 DEF IInv

LEMMA NextKeeps == IInv /\ [Next]_vars => IInv'
<1> SUFFICES ASSUME IInv, [Next]_vars PROVE IInv'
  OBVIOUS
<1>1. CASE \E c \in Clients : Grant(c) \/ Refuse(c)
  BY <1>1, GrantKeeps, RefuseKeeps
<1>2. CASE Tick
  BY <1>2, TickKeeps
<1>3. CASE UNCHANGED vars
  BY <1>3 DEF vars, IInv, TypeOK, InOrder, DroppedAreOld, Spaced
<1> QED BY <1>1, <1>2, <1>3 DEF Next

THEOREM Invariance == Spec => []IInv
<1> QED BY InitIInv, NextKeeps, PTL DEF Spec

\* The deque's place, the times and the advice keep their types, whatever the
\* limit, the window and the clients.
THEOREM TypeCorrect == Spec => []TypeOK
<1>1. IInv => TypeOK
  BY DEF IInv
<1> QED BY <1>1, Invariance, PTL

\* check() lets no more than MaxRequests pass in any stretch as long as the
\* window, for every limit, window and number of clients (rate_limit.py:44-46).
THEOREM AtMostTheLimit == Spec => []WindowBound
<1>1. IInv => WindowBound
  BY DEF IInv, Spaced, WindowBound
<1> QED BY <1>1, Invariance, PTL

\* check() refuses at the limit only: a refused client had MaxRequests pass in
\* the window that ends now (rate_limit.py:46-50).
THEOREM NeverBelowTheLimit == Spec => RefusedAtLimitOnly
<1>1. ASSUME IInv, NEW c \in Clients, Refuse(c)
      PROVE  /\ Len(granted[c]) >= MaxRequests
             /\ granted[c][Len(granted[c]) - MaxRequests + 1] >= clock - Window
  <2>1. PICK h \in Purged(c) : Full(c, h)
    BY <1>1 DEF Refuse
  <2>2. /\ h \in 1..(Len(granted[c]) + 1)
        /\ h <= Len(granted[c]) => granted[c][h] >= clock - Window
    BY <1>1, PurgedPlace
  <2>3. Len(granted[c]) \in Nat /\ granted[c] \in Seq(Times) /\ clock \in Int
    BY <1>1 DEF IInv, TypeOK, Times
  <2> DEFINE last == Len(granted[c]) - MaxRequests + 1
  <2>4. h \in 1..Len(granted[c]) /\ last \in 1..Len(granted[c]) /\ h <= last
    BY <2>1, <2>2, <2>3, LimitAssumption DEF Full
  <2>5. granted[c][h] \in Int /\ granted[c][last] \in Int
    <3>1. granted[c][h] \in Times /\ granted[c][last] \in Times
      BY <2>3, <2>4
    <3> QED BY <3>1 DEF Times
  <2>6. granted[c][h] <= granted[c][last]
    BY <1>1, <2>4 DEF IInv, InOrder
  <2> QED BY <2>2, <2>3, <2>4, <2>5, <2>6, LimitAssumption
<1>2. IInv => \A c \in Clients : Refuse(c) =>
        /\ Len(granted[c]) >= MaxRequests
        /\ granted[c][Len(granted[c]) - MaxRequests + 1] >= clock - Window
  BY <1>1
<1> QED BY <1>2, Invariance, PTL DEF RefusedAtLimitOnly

\* Full and the bound on the deque's length leave one place for the oldest.
LEMMA OldestIsTheLimit ==
  ASSUME IInv, AInv, NEW c \in Clients, NEW h \in Purged(c), Full(c, h)
  PROVE  h = Len(granted[c]) - MaxRequests + 1 /\ Len(granted[c]) >= MaxRequests
<1>1. head[c] \in Nat /\ Len(granted[c]) \in Nat /\ h \in head[c]..(Len(granted[c]) + 1)
  BY DEF IInv, TypeOK, Purged
<1>2. Len(granted[c]) - head[c] + 1 <= MaxRequests /\ Len(granted[c]) - h + 1 >= MaxRequests
  BY DEF AInv, Full
<1>3. h \in 1..(Len(granted[c]) + 1)
  BY PurgedPlace
<1> QED BY <1>1, <1>2, <1>3, LimitAssumption

\* Cutting a time down to whole seconds takes less than a second from it.
LEMMA CutDown ==
  ASSUME NEW w \in Int, NEW s \in Nat \ {0}
  PROVE  w < s * ((IF w < s THEN s ELSE w) \div s) + s
<1>1. CASE w < s
  <2>1. s \div s = 1
    BY SMT
  <2> QED BY <1>1, <2>1
<1>2. CASE w >= s
  <2> DEFINE q == w \div s
             r == w % s
  <2>1. w = s * q + r /\ r < s /\ q \in Int /\ r \in Int
    BY Z3
  <2>2. s * q \in Int
    BY <2>1
  <2> HIDE DEF q, r
  <2>3. w < s * q + s
    BY <2>1, <2>2
  <2>4. (IF w < s THEN s ELSE w) = w
    BY <1>2
  <2> QED BY <2>3, <2>4 DEF q
<1> QED BY <1>1, <1>2

LEMMA InitAInv == Init => AInv
<1> SUFFICES ASSUME Init, NEW c \in Clients
             PROVE  /\ Len(granted[c]) - head[c] + 1 <= MaxRequests
                    /\ Advised(granted[c], advice[c])
  BY DEF AInv
<1>1. Len(granted[c]) = 0 /\ head[c] = 1 /\ advice[c] = Never
  BY DEF Init
<1> QED BY <1>1, LimitAssumption DEF Advised

LEMMA GrantAdvises == ASSUME IInv, AInv, NEW c \in Clients, Grant(c) PROVE AInv'
<1>1. PICK h \in Purged(c) :
        /\ ~Full(c, h)
        /\ head' = [head EXCEPT ![c] = h]
        /\ granted' = [granted EXCEPT ![c] = Append(@, clock)]
        /\ advice' = [advice EXCEPT ![c] = Never]
  BY DEF Grant
<1>2. granted[c] \in Seq(Times) /\ clock \in Times /\ h \in Int /\ Len(granted[c]) \in Nat
  BY PurgedPlace DEF IInv, TypeOK
<1>3. ASSUME NEW d \in Clients
      PROVE  (/\ Len(granted[d]) - head[d] + 1 <= MaxRequests
              /\ Advised(granted[d], advice[d]))'
  <2>1. CASE d = c
    <3>1. granted'[d] = Append(granted[c], clock) /\ head'[d] = h /\ advice'[d] = Never
      BY <1>1, <2>1 DEF IInv, TypeOK
    <3>2. Len(granted'[d]) = Len(granted[c]) + 1
      BY <3>1, <1>2
    <3>3. Len(granted[c]) - h + 1 < MaxRequests
      BY <1>1, <1>2, LimitAssumption DEF Full
    <3> QED BY <3>1, <3>2, <3>3, <1>2, LimitAssumption DEF Advised
  <2>2. CASE d # c
    <3>1. granted'[d] = granted[d] /\ head'[d] = head[d] /\ advice'[d] = advice[d]
      BY <1>1, <2>2 DEF IInv, TypeOK
    <3> QED BY <3>1 DEF AInv, Advised
  <2> QED BY <2>1, <2>2
<1> QED BY <1>3 DEF AInv

LEMMA RefuseAdvises == ASSUME IInv, AInv, NEW c \in Clients, Refuse(c) PROVE AInv'
<1>1. PICK h \in Purged(c) :
        /\ Full(c, h)
        /\ head' = [head EXCEPT ![c] = h]
        /\ advice' = [advice EXCEPT ![c] = clock + RetryAfter(c, h)]
        /\ granted' = granted
  BY DEF Refuse
<1>2. h = Len(granted[c]) - MaxRequests + 1 /\ Len(granted[c]) >= MaxRequests
  BY <1>1, OldestIsTheLimit
<1>3. granted[c] \in Seq(Times) /\ clock \in Int /\ h \in 1..Len(granted[c])
      /\ Len(granted[c]) \in Nat
  BY <1>2, LimitAssumption DEF IInv, TypeOK, Times
<1>4. granted[c][h] \in Int
  <2>1. granted[c][h] \in Times
    BY <1>3
  <2> QED BY <2>1 DEF Times
<1> DEFINE w == granted[c][h] + Window - clock
           r == RetryAfter(c, h)
<1>5. w \in Int /\ Second \in Nat \ {0} /\ Window \in Nat
  BY <1>3, <1>4, LimitAssumption
<1>6. w < r + Second /\ r \in Int
  <2> HIDE DEF w
  <2> DEFINE q == (IF w < Second THEN Second ELSE w) \div Second
  <2>1. w < Second * q + Second
    BY <1>5, CutDown
  <2>2. (IF w < Second THEN Second ELSE w) \in Int
    BY <1>5
  <2>3. q \in Int
    BY <2>2, <1>5
  <2>4. r = Second * q
    BY DEF RetryAfter, w
  <2> HIDE DEF q, r
  <2> QED BY <2>1, <2>3, <2>4, <1>5
<1> HIDE DEF r
<1>7. granted[c][h] + Window < clock + r + Second
  BY <1>3, <1>4, <1>5, <1>6
<1>8. ASSUME NEW d \in Clients
      PROVE  (/\ Len(granted[d]) - head[d] + 1 <= MaxRequests
              /\ Advised(granted[d], advice[d]))'
  <2>1. CASE d = c
    <3>1. granted'[d] = granted[c] /\ head'[d] = h /\ advice'[d] = clock + r
      BY <1>1, <2>1 DEF IInv, TypeOK, r
    <3> QED BY <3>1, <1>2, <1>3, <1>7, LimitAssumption DEF Advised
  <2>2. CASE d # c
    <3>1. granted'[d] = granted[d] /\ head'[d] = head[d] /\ advice'[d] = advice[d]
      BY <1>1, <2>2 DEF IInv, TypeOK
    <3> QED BY <3>1 DEF AInv, Advised
  <2> QED BY <2>1, <2>2
<1> QED BY <1>8 DEF AInv

LEMMA NextAdvises == IInv /\ AInv /\ [Next]_vars => AInv'
<1> SUFFICES ASSUME IInv, AInv, [Next]_vars PROVE AInv'
  OBVIOUS
<1>1. CASE \E c \in Clients : Grant(c) \/ Refuse(c)
  BY <1>1, GrantAdvises, RefuseAdvises
<1>2. CASE Tick
  BY <1>2 DEF Tick, AInv, Advised
<1>3. CASE UNCHANGED vars
  BY <1>3 DEF vars, AInv, Advised
<1> QED BY <1>1, <1>2, <1>3 DEF Next

THEOREM AdviceInvariance == Spec => []AInv
<1>1. Spec => [](IInv /\ AInv)
  BY InitIInv, InitAInv, NextKeeps, NextAdvises, PTL DEF Spec
<1> QED BY <1>1, PTL

\* Whoever waits a second longer than Retry-After said is not refused again,
\* for every limit, window and length of a second (rate_limit.py:47-50, 100).
THEOREM RetrySuffices == Spec => RetryWithinASecond
<1>1. ASSUME IInv, AInv, NEW c \in Clients, Refuse(c)
      PROVE  advice[c] = Never \/ clock < advice[c] + Second
  <2> SUFFICES ASSUME advice[c] # Never PROVE clock < advice[c] + Second
    OBVIOUS
  <2>1. PICK h \in Purged(c) : Full(c, h)
    BY <1>1 DEF Refuse
  <2>2. h = Len(granted[c]) - MaxRequests + 1 /\ Len(granted[c]) >= MaxRequests
    BY <1>1, <2>1, OldestIsTheLimit
  <2>3. granted[c] \in Seq(Times) /\ h \in 1..Len(granted[c]) /\ clock \in Int
        /\ advice[c] \in Int
    BY <1>1, <2>2, LimitAssumption DEF IInv, TypeOK, Times
  <2>4. granted[c][h] \in Int
    <3>1. granted[c][h] \in Times
      BY <2>3
    <3> QED BY <3>1 DEF Times
  <2>5. granted[c][h] >= clock - Window
    BY <1>1, <2>3, PurgedPlace
  <2>6. granted[c][h] + Window < advice[c] + Second
    BY <1>1, <2>2 DEF AInv, Advised
  <2> QED BY <2>3, <2>4, <2>5, <2>6, LimitAssumption
<1>2. IInv /\ AInv => \A c \in Clients : Refuse(c) =>
        advice[c] = Never \/ clock < advice[c] + Second
  BY <1>1
<1> QED BY <1>2, Invariance, AdviceInvariance, PTL DEF RetryWithinASecond
=============================================================================
