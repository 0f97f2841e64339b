---------------------------- MODULE WizardSteps ----------------------------
(***************************************************************************)
(* The pure part of the planning wizard, app/services/agent.py: the order  *)
(* of the steps in each mode, the handler of each step, fork() and the     *)
(* session that advance() computes from a session and a payload.  Nothing  *)
(* here reads or writes a table; Wizard and SessionService do.             *)
(*                                                                         *)
(* Data no later guard reads (survey, client, project name, targets, comms, *)
(* criterion, strategy, min/max constraints) is reduced to whether the     *)
(* payload carries an acceptable answer.                                   *)
(***************************************************************************)
EXTENDS Integers, Sequences

CONSTANTS
  Channels,       \* the channel ids of the reference data
  Weeks,          \* the campaign lengths a planner picks, within 1..52
  FirstWeeks,     \* the one a new brief has
  Amounts,        \* weekly budgets a planner types, valid or not
  MaxAmount,      \* MAX_WEEKLY_BUDGET_TWD
  None            \* Python's None

ASSUME WeeksAssumption  == FirstWeeks \in Weeks /\ Weeks \subseteq 1..52
ASSUME AmountAssumption == MaxAmount \in Nat /\ Amounts \subseteq Int
ASSUME NoneAssumption   == None \notin Nat /\ None \notin {"back", "skip"}

(***************************************************************************)
(* Steps                                                                   *)
(***************************************************************************)

Modes == {"manual", "automatic"}

SharedOrder == <<"survey_client", "project_dates", "target_audience",
                 "planning_type", "comms_setup", "channels">>
ManualOrder == SharedOrder \o <<"calibration", "manual_plan", "review">>
AutoOrder   == SharedOrder \o <<"criterion", "budget_channels", "min_max",
                                "optimize", "review">>

StepOrder(mode) == IF mode = "manual" THEN ManualOrder ELSE AutoOrder
StepsOf(mode)   == {StepOrder(mode)[i] : i \in 1..Len(StepOrder(mode))}

\* step_index, counted from 1; a step foreign to the mode counts as the first
StepIndex(s) ==
  LET places == {i \in 1..Len(StepOrder(s.mode)) : StepOrder(s.mode)[i] = s.step}
  IN  IF places = {} THEN 1 ELSE CHOOSE i \in places : TRUE

(***************************************************************************)
(* Sessions and payloads                                                   *)
(***************************************************************************)

\* The channels that carry an override; the overriding numbers are left out.
Overrides == SUBSET Channels

\* weekly_budgets: the channels given a row and a budget in it.  A row's length
\* is checked when it arrives and padded or cut when the plan is computed.
WeeklyBudgets == [channels : SUBSET Channels, amount : Amounts]

Brief == [weeks : Weeks, planning_type : {"Reach", "Comm"},
          channel_ids : SUBSET Channels, overrides : Overrides]
\* pool: mandatory_channel_ids and optional_channel_ids together
AutomaticInput == [funded : BOOLEAN, pool : SUBSET Channels]
SessionOver(PlanIds) ==
  {s \in [mode : Modes, step : StepsOf("manual") \cup StepsOf("automatic"),
          brief : Brief, manual_input : {None} \cup WeeklyBudgets,
          automatic_input : AutomaticInput, plan_id : {None} \cup PlanIds] :
     s.step \in StepsOf(s.mode)}

\* Every field of StepPayload is optional; Blank carries none of them.
Blank == [action |-> None, overrides |-> None, valid |-> None, weeks |-> None,
          planning_type |-> None, channel_ids |-> None, weekly_budgets |-> None,
          total |-> None, pool |-> None]
Payload ==
  [action : {None, "back", "skip"}, overrides : {None} \cup Overrides,
   valid : {None} \cup BOOLEAN,         \* answers reduced to acceptable or not
   weeks : {0, 53, None} \cup Weeks,    \* also the length of the budget rows
   planning_type : {"Reach", "Comm", None},
   channel_ids : {None} \cup (SUBSET Channels),
   weekly_budgets : {None} \cup WeeklyBudgets,
   total : {-1, 0, 1, None},            \* the sign of total_budget_twd
   pool : {None} \cup (SUBSET Channels)]

OverridesOnly(p) == p.overrides # None /\ [p EXCEPT !.overrides = None] = Blank

NewSession(mode, weeks) ==
  [mode |-> mode, step |-> "survey_client",
   brief |-> [weeks |-> weeks, planning_type |-> "Reach",
              channel_ids |-> {}, overrides |-> {}],
   manual_input |-> None,
   automatic_input |-> [funded |-> FALSE, pool |-> {}],
   plan_id |-> None]

(***************************************************************************)
(* Step handlers: what each accepts and what it stores                     *)
(***************************************************************************)

\* An answer that is not valid has too many ids, or one that no channel has.
AcceptsChannels(s, p) == p.channel_ids \notin {None, {}} /\ p.valid # FALSE

AcceptsWeeklyBudgets(s, p) ==
  /\ p.weekly_budgets # None
  /\ p.weekly_budgets.channels \subseteq s.brief.channel_ids
  /\ p.weekly_budgets.channels # {} =>
       p.weeks = s.brief.weeks /\ p.weekly_budgets.amount \in 0..MaxAmount

AcceptsBudgetSplit(s, p) ==
  p.total = 1 /\ p.pool \notin {None, {}} /\ p.pool \subseteq s.brief.channel_ids

AcceptsAnswer(s, p) ==
  CASE s.step \in {"survey_client", "target_audience"} -> p.valid = TRUE
    [] s.step = "project_dates"   -> p.valid = TRUE /\ p.weeks \notin {0, 53}
    [] s.step = "planning_type"   -> p.planning_type # None
    [] s.step = "comms_setup"     -> s.brief.planning_type = "Comm" => p.valid = TRUE
    [] s.step = "channels"        -> AcceptsChannels(s, p)
    [] s.step = "manual_plan"     -> AcceptsWeeklyBudgets(s, p)
    [] s.step = "criterion"       -> p.valid # FALSE
    [] s.step = "budget_channels" -> AcceptsBudgetSplit(s, p)
    [] OTHER -> TRUE    \* calibration, min_max, optimize, review

\* compute_automatic_plan falls back on the brief's channels, and keeps them
PooledInput(s) ==
  [s.automatic_input EXCEPT !.pool = IF @ = {} THEN s.brief.channel_ids ELSE @]

StoreAnswer(s, p) ==
  CASE s.step = "project_dates" ->
         [s EXCEPT !.brief.weeks = IF p.weeks = None THEN @ ELSE p.weeks]
    [] s.step = "planning_type" -> [s EXCEPT !.brief.planning_type = p.planning_type]
    [] s.step = "channels"    -> [s EXCEPT !.brief.channel_ids = p.channel_ids]
    [] s.step = "manual_plan" -> [s EXCEPT !.manual_input = p.weekly_budgets]
    [] s.step = "budget_channels" ->
         [s EXCEPT !.automatic_input = [funded |-> TRUE, pool |-> p.pool]]
    [] s.step = "optimize" -> [s EXCEPT !.automatic_input = PooledInput(s)]
    [] OTHER -> s

(***************************************************************************)
(* advance()                                                               *)
(***************************************************************************)

\* _apply_overrides: None leaves the brief alone, {} clears, others merge.
WithOverrides(s, p) ==
  IF p.overrides = None THEN s
  ELSE [s EXCEPT !.brief.overrides =
          IF p.overrides = {} THEN {} ELSE @ \cup p.overrides]

AtStep(s, i) == [s EXCEPT !.step = StepOrder(s.mode)[i]]

IndexBefore(s) == IF StepIndex(s) = 1 THEN 1 ELSE StepIndex(s) - 1
IndexBehind(s) == IF StepIndex(s) = Len(StepOrder(s.mode)) THEN StepIndex(s)
                                                           ELSE StepIndex(s) + 1

\* MUTANT: every session jumps over comms_setup
IndexAfterWithoutComms(s) ==
  LET order == StepOrder(s.mode)
      next  == StepIndex(s) + 1
  IN  IF next > Len(order) THEN Len(order)
      ELSE IF order[next] = "comms_setup" THEN next + 1 ELSE next

\* The step after the current one; Reach planning jumps over comms_setup.
IndexAfter(s) ==
  LET order == StepOrder(s.mode)
      next  == StepIndex(s) + 1
  IN  IF next > Len(order) THEN Len(order)
      ELSE IF order[next] = "comms_setup" /\ s.brief.planning_type = "Reach"
           THEN next + 1 ELSE next

Submits(p) == p.action \notin {"back", "skip"} /\ ~OverridesOnly(p)

\* FALSE where advance() raises StepError and nothing is saved
Accepted(s, p) == Submits(p) => AcceptsAnswer(WithOverrides(s, p), p)

\* The session once the step has moved, before a plan is attached
Landed(s, p) ==
  LET o == WithOverrides(s, p)
  IN  CASE p.action = "back" -> AtStep(o, IndexBefore(o))
        [] p.action = "skip" -> AtStep(o, IndexBehind(o))
        [] OverridesOnly(p) -> o
        [] OTHER -> AtStep(StoreAnswer(o, p), IndexAfter(StoreAnswer(o, p)))

\* MUTANT: the manual plan is computed when the budgets are submitted only
MakesPlanOnSubmit(s, p) ==
  s.step \in {"optimize", "manual_plan"} /\ Submits(p)

\* MUTANT: arriving at review computes the manual plan anew
MakesPlanAnew(s, p) ==
  \/ s.step = "optimize" /\ Submits(p)
  \/ s.mode = "manual" /\ Landed(s, p).step = "review"

\* Whether this advance() computes and saves a plan: the optimize handler
\* always does, a manual session does when it is at review without one.
MakesPlan(s, p) ==
  \/ s.step = "optimize" /\ Submits(p)
  \/ /\ s.mode = "manual" /\ s.plan_id = None
     /\ Landed(s, p).step = "review"

\* What compute_manual_plan and compute_automatic_plan build the plan from:
\* the channels that get an allocation, and the planner's weekly budgets
PlannedInput(s) ==
  IF s.mode = "manual"
    THEN [channels |-> s.brief.channel_ids, budgets |-> s.manual_input]
    ELSE [channels |-> IF s.automatic_input.funded THEN s.automatic_input.pool ELSE {},
          budgets  |-> None]

PlanOver(Briefs) ==
  [brief_id : Briefs, kind : Modes,
   input : [channels : SUBSET Channels, budgets : {None} \cup WeeklyBudgets]]

PlanFor(s, id) == [brief_id |-> id, kind |-> s.mode, input |-> PlannedInput(s)]

(***************************************************************************)
(* fork()                                                                  *)
(***************************************************************************)

OtherMode(mode) == IF mode = "manual" THEN "automatic" ELSE "manual"

CanFork(s) == s.brief.channel_ids # {}

\* MUTANT: the fork stays at the step of its source
ForkedInPlace(s) ==
  [NewSession(OtherMode(s.mode), s.brief.weeks) EXCEPT !.brief = s.brief, !.step = s.step]

\* MUTANT: the fork copies the plan_id of its source
ForkedWithPlan(s) ==
  [NewSession(OtherMode(s.mode), s.brief.weeks) EXCEPT
     !.brief = s.brief, !.plan_id = s.plan_id,
     !.step  = IF s.mode = "manual" THEN "criterion" ELSE "calibration"]

Forked(s) ==
  [NewSession(OtherMode(s.mode), s.brief.weeks) EXCEPT
     !.brief = s.brief,
     !.step  = IF s.mode = "manual" THEN "criterion" ELSE "calibration",
     !.automatic_input.pool = IF s.mode = "manual" THEN s.brief.channel_ids ELSE {}]
=============================================================================
