---------------------------- MODULE MCOptimizer ----------------------------
(***************************************************************************)
(* Three channels with every combination of limits below zero and below,   *)
(* at and above what their weights would give them; of the costs, every    *)
(* combination on one channel; and a budget of less than a cent a point.   *)
(***************************************************************************)
EXTENDS Optimizer, TLC

CONSTANTS ch1, ch2, ch3

Limits  == {Unset, -50, 0, 20, 70}
Costs   == {Unset, -1, 0, 2, 7}
Weights == {[ch \in Pool |-> 1], [ch \in Pool |-> IF ch = ch1 THEN 5 ELSE 1],
            [ch \in Pool |-> CASE ch = ch1 -> 1 [] ch = ch2 -> 2 [] ch = ch3 -> 3]}

Brief(w, min, max, o, l) ==
  [budget |-> 100, weeks |-> 3, weight |-> w, minimum |-> min, maximum |-> max,
   override |-> [ch \in Pool |-> IF ch = ch1 THEN o ELSE Unset],
   learned  |-> [ch \in Pool |-> IF ch = ch1 THEN l ELSE Unset],
   default  |-> [ch \in Pool |-> 3]]

NoLimits == [ch \in Pool |-> Unset]

MCInputs ==
  {Brief(w, min, max, Unset, Unset) :
     w \in Weights, min \in [Pool -> Limits \ {0}], max \in [Pool -> Limits]}
  \cup {Brief(w, NoLimits, NoLimits, o, l) : w \in Weights, o \in Costs, l \in Costs}
  \cup {[Brief(w, [ch \in Pool |-> min], [ch \in Pool |-> max], Unset, Unset) EXCEPT !.budget = 3] :
          w \in Weights, min \in Limits, max \in Limits}
=============================================================================
