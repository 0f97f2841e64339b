---------------------------- MODULE RateLimiter ----------------------------
(***************************************************************************)
(* app/services/rate_limit.py: the sliding window in front of every write. *)
(* The middleware is a coroutine and check() awaits nothing, so the event  *)
(* loop runs one check at a time; reads are not limited and not modelled.  *)
(*                                                                         *)
(* A client's deque is granted[c] from place head[c] on: popleft moves     *)
(* head, append extends granted, and what popleft took stays for the       *)
(* properties.                                                             *)
(***************************************************************************)
EXTENDS Integers, Sequences

CONSTANTS
  Clients,       \* the addresses _client_ip tells apart
  MaxRequests,   \* N of CCS_RATE_LIMIT "N/SECONDS"
  Second,        \* ticks of the clock in a second
  Window,        \* the window in ticks
  MaxClock       \* bound on time.monotonic()

\* _parse_limit raises both numbers to 1 at least.
ASSUME LimitAssumption ==
  /\ MaxRequests \in Nat \ {0}
  /\ Second \in Nat \ {0} /\ Window \in Nat /\ Window >= Second
  /\ MaxClock \in Nat

VARIABLES
  clock,     \* time.monotonic(), in ticks
  granted,   \* client -> the times of its requests that passed
  head,      \* client -> the place of the oldest one still in its deque
  advice     \* client -> when Retry-After of its last answer invites it back

vars == <<clock, granted, head, advice>>

Times == 0..MaxClock
Never == -1    \* no invitation: the last request passed, or there was none

TypeOK ==
  /\ clock \in Times
  /\ granted \in [Clients -> Seq(Times)]
  /\ head \in [Clients -> Nat] /\ \A c \in Clients : head[c] \in 1..(Len(granted[c]) + 1)
  /\ advice \in [Clients -> Int]

Init ==
  /\ clock = 0
  /\ granted = [c \in Clients |-> <<>>]
  /\ head = [c \in Clients |-> 1]
  /\ advice = [c \in Clients |-> Never]

\* MUTANT: an entry exactly as old as the window is dropped too
PurgedInclusive(c) ==
  {h \in head[c]..(Len(granted[c]) + 1) :
     /\ \A i \in head[c]..(h - 1) : granted[c][i] <= clock - Window
     /\ h <= Len(granted[c]) => granted[c][h] > clock - Window}

\* The one place the deque starts at once popleft has run
Purged(c) ==
  {h \in head[c]..(Len(granted[c]) + 1) :
     /\ \A i \in head[c]..(h - 1) : granted[c][i] < clock - Window
     /\ h <= Len(granted[c]) => granted[c][h] >= clock - Window}

\* MUTANT: the limit is reached one request early
FullEarly(c, h) == Len(granted[c]) - h + 2 >= MaxRequests

\* len(bucket) >= max_requests
Full(c, h) == Len(granted[c]) - h + 1 >= MaxRequests

\* MUTANT: min for max
RetryAfterAtMostOne(c, h) ==
  LET wait == granted[c][h] + Window - clock
  IN  Second * ((IF wait < Second THEN wait ELSE Second) \div Second)

\* int(max(1.0, bucket[0] + window - now)), in ticks
RetryAfter(c, h) ==
  LET wait == granted[c][h] + Window - clock
  IN  Second * ((IF wait < Second THEN Second ELSE wait) \div Second)

Grant(c) ==
  \E h \in Purged(c) :
    /\ ~Full(c, h)
    /\ head' = [head EXCEPT ![c] = h]
    /\ granted' = [granted EXCEPT ![c] = Append(@, clock)]
    /\ advice' = [advice EXCEPT ![c] = Never]
    /\ UNCHANGED clock

Refuse(c) ==
  \E h \in Purged(c) :
    /\ Full(c, h)
    /\ head' = [head EXCEPT ![c] = h]
    /\ advice' = [advice EXCEPT ![c] = clock + RetryAfter(c, h)]
    /\ UNCHANGED <<clock, granted>>

Tick ==
  /\ clock < MaxClock
  /\ clock' = clock + 1
  /\ UNCHANGED <<granted, head, advice>>

Next == (\E c \in Clients : Grant(c) \/ Refuse(c)) \/ Tick

Spec == Init /\ [][Next]_vars

(***************************************************************************)
(* Properties                                                              *)
(***************************************************************************)

\* No more than MaxRequests pass in any stretch of time as long as the window,
\* wherever it starts and whatever was refused meanwhile (rate_limit.py:44-46).
WindowBound ==
  \A c \in Clients : \A i \in 1..(Len(granted[c]) - MaxRequests) :
    granted[c][i + MaxRequests] - granted[c][i] > Window

\* Only a client that had MaxRequests pass in the window that ends now is
\* refused: requests that were refused themselves do not count.
RefusedAtLimitOnly ==
  [][\A c \in Clients : Refuse(c) =>
       /\ Len(granted[c]) >= MaxRequests
       /\ granted[c][Len(granted[c]) - MaxRequests + 1] >= clock - Window]_vars

\* A client that waits a second longer than Retry-After said is not refused
\* again: the header cuts the time to expiry down to whole seconds
\* (rate_limit.py:47-50, 100), and may not cut off more than that one second.
RetryWithinASecond ==
  [][\A c \in Clients : Refuse(c) =>
       advice[c] = Never \/ clock < advice[c] + Second]_vars
=============================================================================
