------------------------------- MODULE Wizard -------------------------------
(***************************************************************************)
(* One planner walking one session at a time through the wizard: every     *)
(* request is answered before the next one is sent, so reading, advancing  *)
(* and saving are one step.  A fork moves the planner to the new session.  *)
(* SessionService shows what changes when requests overlap.                *)
(***************************************************************************)
EXTENDS WizardSteps

CONSTANTS
  Answers,       \* the payloads a planner sends: good and bad answers,
  Edits,         \* and the overrides that come with them or with a move
  MaxPlans,      \* bound on the plans saved
  MaxForks       \* bound on the forks

ASSUME WizardAssumption ==
  /\ Answers \subseteq {p \in Payload : p.overrides = None /\ p.action = None}
  /\ Edits \subseteq {None} \cup Overrides
  /\ MaxPlans \in Nat \ {0} /\ MaxForks \in Nat

VARIABLES
  session,     \* the session the planner is in
  sid,         \* its id; forking takes the next one
  savedPlans,  \* the rows of table plans, a plan's id being its place
  passed       \* history variable: the steps the planner answered or skipped

wizardVars == <<session, sid, savedPlans, passed>>

WizardTypeOK ==
  /\ session \in SessionOver(1..MaxPlans)
  /\ sid \in 1..(MaxForks + 1)
  /\ savedPlans \in Seq(PlanOver(1..(MaxForks + 1))) /\ Len(savedPlans) <= MaxPlans
  /\ passed \subseteq StepsOf("manual") \cup StepsOf("automatic")

WizardInit ==
  /\ \E mode \in Modes : session = NewSession(mode, FirstWeeks)
  /\ sid = 1
  /\ savedPlans = <<>>
  /\ passed = {}

\* advance() from the landed session on: save the plan if one is due, then
\* the session that points at it.
Save(p) ==
  LET landed == Landed(session, p)
  IN  IF MakesPlan(session, p)
        THEN /\ Len(savedPlans) < MaxPlans
             /\ savedPlans' = Append(savedPlans, PlanFor(landed, sid))
             /\ session' = [landed EXCEPT !.plan_id = Len(savedPlans) + 1]
        ELSE session' = landed /\ UNCHANGED savedPlans

GoBack ==
  \E o \in Edits :
    /\ Save([Blank EXCEPT !.action = "back", !.overrides = o])
    /\ UNCHANGED <<sid, passed>>

SkipStep ==
  \E o \in Edits :
    /\ Save([Blank EXCEPT !.action = "skip", !.overrides = o])
    /\ passed' = passed \cup {session.step}
    /\ UNCHANGED sid

EditOverrides ==
  \E o \in Edits \ {None} :
    /\ Save([Blank EXCEPT !.overrides = o])
    /\ UNCHANGED <<sid, passed>>

SubmitAnswer ==
  \E a \in Answers, o \in Edits :
    LET p == [a EXCEPT !.overrides = o]
    IN  /\ Submits(p)
        /\ Accepted(session, p)
        /\ Save(p)
        /\ passed' = passed \cup {session.step}
        /\ UNCHANGED sid

Fork ==
  /\ sid <= MaxForks
  /\ CanFork(session)
  /\ session' = Forked(session)
  /\ sid' = sid + 1
  /\ UNCHANGED <<savedPlans, passed>>

WizardNext == GoBack \/ SkipStep \/ EditOverrides \/ SubmitAnswer \/ Fork

WizardSpec == WizardInit /\ [][WizardNext]_wizardVars

(***************************************************************************)
(* Properties                                                              *)
(***************************************************************************)

\* However a manual session gets to review (submitting, skipping, going back
\* and forth, forked), there is a plan for it to show: agent.py:383.
ManualReviewHasPlan ==
  session.mode = "manual" /\ session.step = "review" => session.plan_id # None

\* A session points at a stored plan of its own, of its own kind and the
\* newest it has, also when it was forked from a session that has plans.
PointsAtOwnNewestPlan ==
  session.plan_id # None =>
    /\ session.plan_id \in 1..Len(savedPlans)
    /\ savedPlans[session.plan_id].brief_id = sid
    /\ savedPlans[session.plan_id].kind = session.mode
    /\ \A i \in session.plan_id + 1..Len(savedPlans) : savedPlans[i].brief_id # sid

\* The wizard bypasses no question on its own: each step behind the current
\* one was answered or skipped by the planner.  The exceptions are
\* comms_setup under Reach planning, and in a fork: fork() asks for channels
\* in the source and not that the source is past comms_setup, so that a
\* planner who goes back to choose Comm and then forks is never asked for KPIs.
NothingBypassed ==
  \A i \in 1..(StepIndex(session) - 1) :
    LET step == StepOrder(session.mode)[i]
    IN  \/ step \in passed
        \/ step = "comms_setup" /\ (session.brief.planning_type = "Reach" \/ sid > 1)
=============================================================================
