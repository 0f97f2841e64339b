--------------------------- MODULE MCLearningLoop ---------------------------
(* LearningLoop with one session, records for a week and the settlement. *)
EXTENDS LearningLoop, TLC

OneSession == [p \in Plans |-> "s"]

Week(cells, seen) == [slot |-> "week", cells |-> cells, seen |-> seen]
SomeInputs == {Week({"reach", "cpm"}, None), Week({"reach"}, 1),
               [slot |-> "final", cells |-> {"cpm"}, seen |-> None]}

Symmetry == Permutations(Threads)
=============================================================================
