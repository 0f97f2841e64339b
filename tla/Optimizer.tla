----------------------------- MODULE Optimizer -----------------------------
(***************************************************************************)
(* app/services/optimizer.py, the automatic plan: a budget is split by     *)
(* weight, clamped to the limits of each channel, scaled back to the       *)
(* budget when that moved it by more than 1 %, and spread over the weeks.  *)
(* The optimize step first draws a curve, the same plan for ten growing    *)
(* budgets, and then saves the plan for the whole budget.                  *)
(*                                                                         *)
(* Money is in cents (the code rounds to two decimals).  Between two       *)
(* roundings a share is an exact fraction over the sum of the weights,     *)
(* where the code has a double.                                            *)
(***************************************************************************)
EXTENDS Integers, FiniteSets, Functions

CONSTANTS
  Pool,         \* the channels to choose from, without duplicates
  Inputs,       \* briefs with their automatic_input and what was learned
  StepCount,    \* points of the curve
  Unset         \* a limit, a cost or a plan there is not

\* weight: penetration * attention / CPM of the reference data, to some scale;
\* minimum, maximum: min_budget and max_budget; the three costs are a
\* channel's cpm_twd as the brief overrides it, as learned, and by default.
\* Nothing keeps a limit or a cost from being zero or below it: only the budget
\* is checked.
AutomaticInput ==
  [budget : Nat \ {0}, weeks : 1..52, weight : [Pool -> Nat],
   minimum : [Pool -> Int \cup {Unset}], maximum : [Pool -> Int \cup {Unset}],
   override : [Pool -> Int \cup {Unset}], learned : [Pool -> Int \cup {Unset}],
   default : [Pool -> Int]]

Plan == [budget : Nat, alloc : [Pool -> Int], impressions : [Pool -> Nat]]

ASSUME OptimizerAssumption ==
  /\ IsFiniteSet(Pool)
  /\ \A i \in Inputs : i \in AutomaticInput
  /\ StepCount \in Nat \ {0}
  /\ Unset \notin Int \cup Plan

VARIABLES
  input,    \* what the planner entered
  step,     \* how many points of the curve there are
  point,    \* the last of them
  plan      \* the plan that was saved, or Unset

optimizerVars == <<input, step, point, plan>>

(***************************************************************************)
(* The split                                                               *)
(***************************************************************************)

\* round(p / q), ties to even
Rounded(p, q) ==
  LET below == p \div q
      twice == 2 * (p % q)
  IN  IF twice < q \/ (twice = q /\ below % 2 = 0) THEN below ELSE below + 1

AtLeast(n, limit) == IF limit # Unset /\ n < limit THEN limit ELSE n
AtMost(n, limit)  == IF limit # Unset /\ n > limit THEN limit ELSE n

\* sum(weights.values()) or 1.0
TotalWeight(in) ==
  LET sum == SumFunction(in.weight) IN IF sum = 0 THEN 1 ELSE sum

Times(limit, n) == IF limit = Unset THEN Unset ELSE limit * n

\* MUTANT: the minimum wins over a maximum below it
ClampedMinLast(in, budget) ==
  LET w == TotalWeight(in)
  IN  [ch \in Pool |->
         AtLeast(AtMost(budget * in.weight[ch], Times(in.maximum[ch], w)), Times(in.minimum[ch], w))]

\* _apply_constraints, over the total weight: first the minimum, then the maximum
Clamped(in, budget) ==
  LET w == TotalWeight(in)
  IN  [ch \in Pool |->
         AtMost(AtLeast(budget * in.weight[ch], Times(in.minimum[ch], w)), Times(in.maximum[ch], w))]

ClampedTotal(in, budget) == SumFunction(Clamped(in, budget))

\* MUTANT: up to 10 % is let pass
OffByATenth(in, budget) ==
  LET total == ClampedTotal(in, budget)
      whole == budget * TotalWeight(in)
  IN  total > 0 /\ (10 * (total - whole) > whole \/ 10 * (whole - total) > whole)

\* The clamp moved the total by more than 1 %
Off(in, budget) ==
  LET total == ClampedTotal(in, budget)
      whole == budget * TotalWeight(in)
  IN  total > 0 /\ (100 * (total - whole) > whole \/ 100 * (whole - total) > whole)

\* MUTANT: the scale is upside down
ScaledWrongWay(in, budget, share) ==
  Rounded(share * ClampedTotal(in, budget), TotalWeight(in) * TotalWeight(in) * budget)

\* v * (budget / total_after)
Scaled(in, budget, share) == Rounded(share * budget, ClampedTotal(in, budget))

\* total_budget_twd of each channel; a point of the curve that rounds to no
\* budget has no allocations.
Allocation(in, budget) ==
  [ch \in Pool |->
     CASE budget = 0 -> 0
       [] budget # 0 /\ Off(in, budget) -> Scaled(in, budget, Clamped(in, budget)[ch])
       [] OTHER -> Rounded(Clamped(in, budget)[ch], TotalWeight(in))]

(***************************************************************************)
(* What it buys                                                            *)
(***************************************************************************)

\* _resolve_metric: the brief first, then what was learned, then the default
Cpm(in, ch, useLearned) ==
  CASE in.override[ch] # Unset -> in.override[ch]
    [] in.override[ch] = Unset /\ useLearned /\ in.learned[ch] # Unset -> in.learned[ch]
    [] OTHER -> in.default[ch]

\* _impressions_from_budget of a week's part, week by week
Impressions(in, ch, cents, useLearned) ==
  LET cpm == Cpm(in, ch, useLearned)
  IN  IF cpm <= 0 \/ cents <= 0 THEN 0 ELSE in.weeks * Rounded(cents * 10, in.weeks * cpm)

PlanFor(in, budget, useLearned) ==
  LET alloc == Allocation(in, budget)
  IN  [budget |-> budget, alloc |-> alloc,
       impressions |-> [ch \in Pool |-> Impressions(in, ch, alloc[ch], useLearned)]]

(***************************************************************************)
(* The optimize step                                                       *)
(***************************************************************************)

OptimizerInit ==
  /\ input \in Inputs
  /\ step = 0 /\ point = Unset /\ plan = Unset

OptimizerTypeOK ==
  /\ input \in AutomaticInput
  /\ step \in 0..StepCount
  /\ point \in Plan \cup {Unset} /\ (point = Unset <=> step = 0)
  /\ plan \in Plan \cup {Unset}

\* MUTANT: the curve starts at no budget
PartFromZero(i) == Rounded(input.budget * (i - 1), StepCount)

\* round(base_budget * pct, 2)
Part(i) == Rounded(input.budget * i, StepCount)

\* budget_step_curve does not say who owns the plan, so that nothing that was
\* learned is used.
NextPoint ==
  /\ step < StepCount
  /\ step' = step + 1
  /\ point' = PlanFor(input, Part(step'), FALSE)
  /\ UNCHANGED <<input, plan>>

\* The planner submits the step.
Optimize ==
  /\ step = StepCount /\ plan = Unset
  /\ plan' = PlanFor(input, input.budget, TRUE)
  /\ UNCHANGED <<input, step, point>>

OptimizerNext == NextPoint \/ Optimize

OptimizerSpec == OptimizerInit /\ [][OptimizerNext]_optimizerVars

(***************************************************************************)
(* Properties                                                              *)
(***************************************************************************)

NoMaximumBelowZero(in) == \A ch \in Pool : in.maximum[ch] = Unset \/ in.maximum[ch] >= 0

\* Where no maximum is below zero, more budget never takes money or impressions
\* from any channel, whichever limits begin or cease to bind on the way, so the
\* curve's net reach never falls (tests/test_agent_automatic.py:56-74).
CurveNeverFalls ==
  [][NextPoint /\ point # Unset /\ NoMaximumBelowZero(input) =>
       \A ch \in Pool : /\ point.alloc[ch] <= point'.alloc[ch]
                        /\ point.impressions[ch] <= point'.impressions[ch]]_optimizerVars

\* A plan spends the budget, but for 1 % and half a cent a channel, unless the
\* limits and weights leave no channel anything (optimizer.py:297-301).
SpendsTheBudget ==
  \A p \in {point, plan} \ {Unset} :
    LET spent == SumFunction(p.alloc)
        slack == p.budget + 50 * Cardinality(Pool)
    IN  ClampedTotal(input, p.budget) > 0 =>
          100 * (spent - p.budget) <= slack /\ 100 * (p.budget - spent) <= slack

\* Scaling raises a positive share when the limits left budget over, and a
\* negative one when they asked for more than there was.
Raises(in, budget, share) ==
  LET left == budget * TotalWeight(in) - ClampedTotal(in, budget)
  IN  (share > 0 /\ left > 0) \/ (share < 0 /\ left < 0)

Lowers(in, budget, share) == Raises(in, budget, -share)

\* Scaling breaks limits one way only: a channel is over its maximum only when
\* the scaling raises its share, and under a minimum (that is not above its
\* maximum) only when it lowers it.
LimitsBrokenOneWay ==
  \A p \in {point, plan} \ {Unset} : \A ch \in Pool :
    LET share == Clamped(input, p.budget)[ch]
        least == input.minimum[ch]
        most  == input.maximum[ch]
    IN  p.budget # 0 =>
          /\ most # Unset /\ p.alloc[ch] > most => Raises(input, p.budget, share)
          /\ least # Unset /\ AtMost(least, most) = least /\ p.alloc[ch] < least
             => Lowers(input, p.budget, share)

\* The curve ends at the plan: the split is the same, and so are the impressions
\* of every channel whose cost was not learned or is overridden.
CurveEndsAtPlan ==
  plan # Unset =>
    /\ plan.alloc = point.alloc
    /\ \A ch \in Pool :
         input.learned[ch] = Unset \/ input.override[ch] # Unset =>
           plan.impressions[ch] = point.impressions[ch]
=============================================================================
