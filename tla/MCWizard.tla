------------------------------ MODULE MCWizard ------------------------------
(* Wizard with, for every question, good answers and bad ones. *)
EXTENDS Wizard, TLC

MCAnswers ==
  {Blank}
    \cup {[Blank EXCEPT !.valid = v, !.weeks = w] : v \in BOOLEAN, w \in Weeks \cup {53, None}}
    \cup {[Blank EXCEPT !.planning_type = t] : t \in {"Reach", "Comm"}}
    \cup {[Blank EXCEPT !.channel_ids = cs, !.valid = v] : cs \in SUBSET Channels, v \in {FALSE, None}}
    \cup {[Blank EXCEPT !.weekly_budgets = b, !.weeks = w] : b \in WeeklyBudgets, w \in Weeks}
    \cup {[Blank EXCEPT !.total = n, !.pool = cs] : n \in {0, 1}, cs \in SUBSET Channels}

MCEdits == {None, {}, Channels}

ChannelSymmetry == Permutations(Channels)
=============================================================================
