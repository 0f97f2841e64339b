----------------------------- MODULE MCFrontend -----------------------------
(* The page with two requests in flight. *)
EXTENDS Frontend, TLC

Symmetry == Permutations(Calls) \cup Permutations(Sids) \cup Permutations(Channels)

\* What is left of a request that failed, where the rest of its callback goes by
\* no more than that (AnswerFailed, Disturbs): states that differ in what a
\* failed request had asked for have the same successors but for that, and TLC
\* visits one of them.
Failed(call) ==
  LET goesOn == call.stage = "refused" /\ call.op \in {"resume", "start", "new"}
  IN  [stage |-> call.stage, alone |-> call.alone,
       op    |-> IF goesOn THEN call.op ELSE None,
       mode  |-> IF goesOn /\ call.op = "new" THEN call.mode ELSE None]

Outlook(call) == IF call # None /\ call.stage \in {"refused", "lost"} THEN Failed(call) ELSE call

View == <<page, saved, [c \in Calls |-> Outlook(calls[c])], server, writes, disturbed, stained>>
=============================================================================
