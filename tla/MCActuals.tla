----------------------------- MODULE MCActuals -----------------------------
(***************************************************************************)
(* Actuals with records for the final settlement and for two weeks, with   *)
(* and without an id, and one for a week past the end of the plan; each    *)
(* second record leaves a channel out.                                     *)
(***************************************************************************)
EXTENDS Reports, TLC

Final(seen)     == [scope |-> "FINAL", period_week |-> None, seen |-> seen]
Weekly(w, seen) == [scope |-> "WEEKLY", period_week |-> w, seen |-> seen]

SomeBatches ==
  LET one == Weekly(1, None)  two == Weekly(2, None)  late == Weekly(3, None)
      end == Final(None)      again == Final(1)
  IN  {<<>>, <<one>>, <<two>>, <<end>>, <<again>>, <<late>>, <<one, late>>,
       <<one, two>>, <<one, one>>, <<two, end>>, <<end, again>>, <<again, one>>,
       <<again, again>>}

Say(n) == [spend |-> n, reach |-> 10 + n, buyers |-> 20 - n]
SomeContent == [qi \in Puts \X (1..MaxBatch) |->
  [ch \in IF qi[2] = 1 THEN Channels ELSE {"tv"} |-> Say(qi[1])]]

Symmetry == Permutations(Threads) \cup Permutations(Plans)
=============================================================================
