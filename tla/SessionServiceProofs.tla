------------------------ MODULE SessionServiceProofs ------------------------
(***************************************************************************)
(* Proofs about Wizard and SessionService, for every set of answers, weeks *)
(* and channels and every number of plans, forks, threads, sessions,       *)
(* requests, ticks and crashes.  First what the operators of WizardSteps   *)
(* return and where they lead, which both specifications rest on, and what *)
(* one planner meets; then the service: its types, the invariants that     *)
(* hold however requests overlap, what a session nothing disturbs keeps,   *)
(* and the refinement of SessionPromise.                                   *)
(***************************************************************************)
EXTENDS Wizard, SessionService, TLAPS

(***************************************************************************)
(* WizardSteps: step orders, sessions and plans                            *)
(***************************************************************************)

\* The two step orders, where they start, end and part.
LEMMA OrderLengths == Len(ManualOrder) = 9 /\ Len(AutoOrder) = 11
BY DEF ManualOrder, AutoOrder, SharedOrder

LEMMA OrderSteps ==
  /\ ManualOrder[1] = "survey_client" /\ AutoOrder[1] = "survey_client"
  /\ ManualOrder[7] = "calibration" /\ AutoOrder[7] = "criterion"
  /\ ManualOrder[9] = "review" /\ AutoOrder[11] = "review"
BY DEF ManualOrder, AutoOrder, SharedOrder

LEMMA OrderOfMode ==
  StepOrder("manual") = ManualOrder /\ StepOrder("automatic") = AutoOrder
BY DEF StepOrder

\* Every position of an order names a step of the mode; the last is review.
LEMMA Positions ==
  ASSUME NEW mode \in Modes
  PROVE  /\ Len(StepOrder(mode)) \in Nat \ {0}
         /\ \A i \in 1..Len(StepOrder(mode)) : StepOrder(mode)[i] \in StepsOf(mode)
         /\ StepOrder(mode)[Len(StepOrder(mode))] = "review"
<1>1. Len(StepOrder(mode)) \in Nat \ {0}
  BY OrderOfMode, OrderLengths DEF Modes
<1>2. ASSUME NEW i \in 1..Len(StepOrder(mode)) PROVE StepOrder(mode)[i] \in StepsOf(mode)
  BY Zenon DEF StepsOf
<1>3. StepOrder(mode)[Len(StepOrder(mode))] = "review"
  BY OrderOfMode, OrderLengths, OrderSteps DEF Modes
<1> QED BY <1>1, <1>2, <1>3

\* The steps before the modes part, and no step comes twice in an order.
LEMMA SharedSteps ==
  ASSUME NEW mode \in Modes
  PROVE  /\ StepOrder(mode)[1] = "survey_client" /\ StepOrder(mode)[2] = "project_dates"
         /\ StepOrder(mode)[3] = "target_audience" /\ StepOrder(mode)[4] = "planning_type"
         /\ StepOrder(mode)[5] = "comms_setup" /\ StepOrder(mode)[6] = "channels"
         /\ StepOrder(mode)[7] = IF mode = "manual" THEN "calibration" ELSE "criterion"
         /\ Len(StepOrder(mode)) >= 9
<1>1. CASE mode = "manual"
  BY <1>1 DEF StepOrder, ManualOrder, SharedOrder
<1>2. CASE mode = "automatic"
  BY <1>2 DEF StepOrder, AutoOrder, SharedOrder
<1> QED BY <1>1, <1>2 DEF Modes

LEMMA OrderOnce ==
  ASSUME NEW mode \in Modes, NEW i \in 1..Len(StepOrder(mode)),
         NEW j \in 1..Len(StepOrder(mode)), StepOrder(mode)[i] = StepOrder(mode)[j]
  PROVE  i = j
<1>1. CASE mode = "manual"
  BY <1>1 DEF StepOrder, ManualOrder, SharedOrder
<1>2. CASE mode = "automatic"
  BY <1>2 DEF StepOrder, AutoOrder, SharedOrder
<1> QED BY <1>1, <1>2 DEF Modes

LEMMA StartingSteps ==
  /\ "survey_client" \in StepsOf("manual") /\ "survey_client" \in StepsOf("automatic")
  /\ "calibration" \in StepsOf("manual") /\ "criterion" \in StepsOf("automatic")
<1>1. Len(StepOrder("manual")) = 9 /\ Len(StepOrder("automatic")) = 11
  BY OrderOfMode, OrderLengths
<1>2. "manual" \in Modes /\ "automatic" \in Modes
  BY DEF Modes
<1>3. /\ StepOrder("manual")[1] \in StepsOf("manual")
      /\ StepOrder("manual")[7] \in StepsOf("manual")
  BY <1>1, <1>2, Positions
<1>4. /\ StepOrder("automatic")[1] \in StepsOf("automatic")
      /\ StepOrder("automatic")[7] \in StepsOf("automatic")
  BY <1>1, <1>2, Positions
<1> QED BY <1>3, <1>4, OrderOfMode, OrderSteps

LEMMA StepIndexInOrder ==
  ASSUME NEW s, s.mode \in Modes
  PROVE  StepIndex(s) \in 1..Len(StepOrder(s.mode))
<1> DEFINE places == {i \in 1..Len(StepOrder(s.mode)) : StepOrder(s.mode)[i] = s.step}
<1>1. CASE places = {}
  BY <1>1, Positions DEF StepIndex
<1>2. CASE places # {}
  <2>1. (CHOOSE i \in places : TRUE) \in places
    BY <1>2
  <2> QED BY <1>2, <2>1 DEF StepIndex
<1> QED BY <1>1, <1>2

LEMMA IndexAfterInOrder ==
  ASSUME NEW s, s.mode \in Modes
  PROVE  IndexAfter(s) \in 1..Len(StepOrder(s.mode))
BY StepIndexInOrder, Positions DEF IndexAfter

\* Moving within the order keeps a session a session.
LEMMA AtStepType ==
  ASSUME NEW PlanIds, NEW s \in SessionOver(PlanIds),
         NEW i \in 1..Len(StepOrder(s.mode))
  PROVE  /\ AtStep(s, i) \in SessionOver(PlanIds)
         /\ AtStep(s, i).mode = s.mode /\ AtStep(s, i).plan_id = s.plan_id
<1>1. s.mode \in Modes
  BY DEF SessionOver
<1>2. StepOrder(s.mode)[i] \in StepsOf(s.mode)
  BY <1>1, Positions
<1>3. StepsOf(s.mode) \subseteq StepsOf("manual") \cup StepsOf("automatic")
  BY <1>1 DEF Modes
<1> QED BY <1>1, <1>2, <1>3 DEF AtStep, SessionOver

\* A session is where step_index says, and it goes where it is put.
LEMMA StepIndexPlace ==
  ASSUME NEW s, s.mode \in Modes, s.step \in StepsOf(s.mode)
  PROVE  StepOrder(s.mode)[StepIndex(s)] = s.step
<1> DEFINE places == {i \in 1..Len(StepOrder(s.mode)) : StepOrder(s.mode)[i] = s.step}
<1>1. places # {}
  BY DEF StepsOf
<1>2. (CHOOSE i \in places : TRUE) \in places
  BY <1>1
<1>3. StepIndex(s) = CHOOSE i \in places : TRUE
  BY <1>1 DEF StepIndex
<1> QED BY <1>2, <1>3

LEMMA IndexOfAtStep ==
  ASSUME NEW PlanIds, NEW s \in SessionOver(PlanIds),
         NEW i \in 1..Len(StepOrder(s.mode))
  PROVE  StepIndex(AtStep(s, i)) = i
<1> DEFINE a == AtStep(s, i)
<1>1. s.mode \in Modes /\ a.mode = s.mode /\ a.step = StepOrder(s.mode)[i]
  BY AtStepType DEF AtStep, SessionOver
<1>2. a.step \in StepsOf(a.mode)
  BY <1>1, Positions
<1> HIDE DEF a
<1>3. StepOrder(s.mode)[StepIndex(a)] = StepOrder(s.mode)[i] /\ StepIndex(a) \in 1..Len(StepOrder(s.mode))
  BY <1>1, <1>2, StepIndexPlace, StepIndexInOrder
<1> QED BY <1>1, <1>3, OrderOnce DEF a

\* Moving to another step is not editing overrides.
LEMMA MovesAreNotEdits ==
  ASSUME NEW p \in Payload, p.action \in {"back", "skip"}
  PROVE  ~OverridesOnly(p)
<1> SUFFICES ASSUME OverridesOnly(p) PROVE FALSE
  OBVIOUS
<1>1. [p EXCEPT !.overrides = None].action = p.action
  BY DEF Payload
<1>2. [p EXCEPT !.overrides = None].action = Blank.action
  BY Zenon DEF OverridesOnly
<1>3. p.action = None
  BY <1>1, <1>2 DEF Blank
<1> QED BY <1>3, NoneAssumption

\* Overrides change the brief only.
LEMMA WithOverridesType ==
  ASSUME NEW PlanIds, NEW s \in SessionOver(PlanIds), NEW p \in Payload
  PROVE  /\ WithOverrides(s, p) \in SessionOver(PlanIds)
         /\ WithOverrides(s, p).mode = s.mode
         /\ WithOverrides(s, p).step = s.step
         /\ WithOverrides(s, p).plan_id = s.plan_id
BY DEF WithOverrides, SessionOver, Brief, Overrides, Payload

\* An accepted answer is stored as data of the right kind, and it moves
\* neither the mode nor the plan.
LEMMA StoreAnswerType ==
  ASSUME NEW PlanIds, NEW s \in SessionOver(PlanIds), NEW p \in Payload,
         AcceptsAnswer(s, p)
  PROVE  /\ StoreAnswer(s, p) \in SessionOver(PlanIds)
         /\ StoreAnswer(s, p).mode = s.mode
         /\ StoreAnswer(s, p).step = s.step
         /\ StoreAnswer(s, p).plan_id = s.plan_id
<1>1. CASE s.step = "project_dates"
  BY <1>1 DEF StoreAnswer, AcceptsAnswer, SessionOver, Brief, Payload
<1>2. CASE s.step = "planning_type"
  BY <1>2 DEF StoreAnswer, AcceptsAnswer, SessionOver, Brief, Payload
<1>3. CASE s.step = "channels"
  BY <1>3 DEF StoreAnswer, AcceptsAnswer, AcceptsChannels, SessionOver, Brief, Payload
<1>4. CASE s.step = "manual_plan"
  BY <1>4 DEF StoreAnswer, AcceptsAnswer, AcceptsWeeklyBudgets, SessionOver, Payload
<1>5. CASE s.step = "budget_channels"
  BY <1>5 DEF StoreAnswer, AcceptsAnswer, AcceptsBudgetSplit, SessionOver,
              AutomaticInput, Payload
<1>6. CASE s.step = "optimize"
  BY <1>6 DEF StoreAnswer, PooledInput, SessionOver, AutomaticInput, Brief
<1>7. CASE s.step \notin {"project_dates", "planning_type", "channels", "manual_plan",
                          "budget_channels", "optimize"}
  BY <1>7 DEF StoreAnswer
<1> QED BY <1>1, <1>2, <1>3, <1>4, <1>5, <1>6, <1>7

\* What advance() makes of a session is a session of the same mode, with the
\* plan it had.
LEMMA LandedType ==
  ASSUME NEW PlanIds, NEW s \in SessionOver(PlanIds), NEW p \in Payload, Accepted(s, p)
  PROVE  /\ Landed(s, p) \in SessionOver(PlanIds)
         /\ Landed(s, p).mode = s.mode
         /\ Landed(s, p).plan_id = s.plan_id
<1> DEFINE o == WithOverrides(s, p)
<1>1. /\ o \in SessionOver(PlanIds) /\ o.mode = s.mode /\ o.plan_id = s.plan_id
      /\ o.mode \in Modes
  BY WithOverridesType DEF SessionOver
<1>2. StepIndex(o) \in 1..Len(StepOrder(o.mode)) /\ Len(StepOrder(o.mode)) \in Nat
  BY <1>1, StepIndexInOrder, Positions
<1>3. CASE p.action = "back"
  <2>1. IndexBefore(o) \in 1..Len(StepOrder(o.mode))
    BY <1>2 DEF IndexBefore
  <2>2. Landed(s, p) = AtStep(o, IndexBefore(o))
    BY <1>3, MovesAreNotEdits DEF Landed
  <2> HIDE DEF o
  <2> QED BY <1>1, <2>1, <2>2, AtStepType
<1>4. CASE p.action = "skip"
  <2>1. IndexBehind(o) \in 1..Len(StepOrder(o.mode))
    BY <1>2 DEF IndexBehind
  <2>2. Landed(s, p) = AtStep(o, IndexBehind(o))
    BY <1>4, MovesAreNotEdits DEF Landed
  <2> HIDE DEF o
  <2> QED BY <1>1, <2>1, <2>2, AtStepType
<1>5. CASE p.action \notin {"back", "skip"} /\ OverridesOnly(p)
  BY <1>1, <1>5 DEF Landed
<1>6. CASE Submits(p)
  <2> DEFINE a == StoreAnswer(o, p)
  <2>1. AcceptsAnswer(o, p)
    BY <1>6 DEF Accepted
  <2>2. /\ a \in SessionOver(PlanIds) /\ a.mode = s.mode /\ a.plan_id = s.plan_id
        /\ a.mode \in Modes
    BY <1>1, <2>1, StoreAnswerType
  <2>3. IndexAfter(a) \in 1..Len(StepOrder(a.mode))
    BY <2>2, IndexAfterInOrder
  <2>4. Landed(s, p) = AtStep(a, IndexAfter(a))
    BY <1>6 DEF Landed, Submits
  <2> HIDE DEF a
  <2> QED BY <2>2, <2>3, <2>4, AtStepType
<1> QED BY <1>3, <1>4, <1>5, <1>6 DEF Submits

\* Where advance() leaves a session: going back and editing overrides never
\* goes on, skipping goes on by one step, and an answer by one step or over
\* comms_setup under Reach planning.  The planning type and the channels are
\* answers to their own questions.
SameAnswers(s, l) ==
  l.brief.planning_type = s.brief.planning_type /\ l.brief.channel_ids = s.brief.channel_ids

Onward(s, l) ==
  \/ StepIndex(l) <= StepIndex(s) + 1
  \/ /\ StepIndex(l) = StepIndex(s) + 2
     /\ StepOrder(s.mode)[StepIndex(s) + 1] = "comms_setup"
     /\ l.brief.planning_type = "Reach"

LEMMA AtStepBrief ==
  ASSUME NEW PlanIds, NEW s \in SessionOver(PlanIds), NEW i
  PROVE  AtStep(s, i).brief = s.brief
BY DEF AtStep, SessionOver

LEMMA WithOverridesPlace ==
  ASSUME NEW PlanIds, NEW s \in SessionOver(PlanIds), NEW p \in Payload
  PROVE  SameAnswers(s, WithOverrides(s, p)) /\ StepIndex(WithOverrides(s, p)) = StepIndex(s)
<1>1. SameAnswers(s, WithOverrides(s, p))
  BY DEF WithOverrides, SessionOver, Brief, SameAnswers
<1>2. WithOverrides(s, p).mode = s.mode /\ WithOverrides(s, p).step = s.step
  BY WithOverridesType
<1> QED BY <1>1, <1>2 DEF StepIndex

LEMMA LandedBack ==
  ASSUME NEW PlanIds, NEW s \in SessionOver(PlanIds), NEW p \in Payload, p.action = "back"
  PROVE  SameAnswers(s, Landed(s, p)) /\ StepIndex(Landed(s, p)) <= StepIndex(s)
<1> DEFINE o == WithOverrides(s, p)
<1>1. /\ o \in SessionOver(PlanIds) /\ o.mode \in Modes /\ SameAnswers(s, o)
      /\ StepIndex(o) = StepIndex(s)
  BY WithOverridesType, WithOverridesPlace DEF SessionOver
<1>2. Landed(s, p) = AtStep(o, IndexBefore(o))
  BY MovesAreNotEdits DEF Landed
<1> HIDE DEF o
<1>3. StepIndex(o) \in 1..Len(StepOrder(o.mode)) /\ Len(StepOrder(o.mode)) \in Nat
  BY <1>1, StepIndexInOrder, Positions
<1>4. IndexBefore(o) \in 1..Len(StepOrder(o.mode)) /\ IndexBefore(o) <= StepIndex(o)
  BY <1>3 DEF IndexBefore
<1>5. StepIndex(AtStep(o, IndexBefore(o))) = IndexBefore(o)
  BY <1>1, <1>4, IndexOfAtStep
<1>6. AtStep(o, IndexBefore(o)).brief = o.brief
  BY <1>1, AtStepBrief
<1> QED BY <1>1, <1>2, <1>4, <1>5, <1>6 DEF SameAnswers

LEMMA LandedSkip ==
  ASSUME NEW PlanIds, NEW s \in SessionOver(PlanIds), NEW p \in Payload, p.action = "skip"
  PROVE  SameAnswers(s, Landed(s, p)) /\ StepIndex(Landed(s, p)) <= StepIndex(s) + 1
<1> DEFINE o == WithOverrides(s, p)
<1>1. /\ o \in SessionOver(PlanIds) /\ o.mode \in Modes /\ SameAnswers(s, o)
      /\ StepIndex(o) = StepIndex(s)
  BY WithOverridesType, WithOverridesPlace DEF SessionOver
<1>2. Landed(s, p) = AtStep(o, IndexBehind(o))
  BY MovesAreNotEdits DEF Landed
<1> HIDE DEF o
<1>3. StepIndex(o) \in 1..Len(StepOrder(o.mode)) /\ Len(StepOrder(o.mode)) \in Nat
  BY <1>1, StepIndexInOrder, Positions
<1>4. IndexBehind(o) \in 1..Len(StepOrder(o.mode)) /\ IndexBehind(o) <= StepIndex(o) + 1
  BY <1>3 DEF IndexBehind
<1>5. StepIndex(AtStep(o, IndexBehind(o))) = IndexBehind(o)
  BY <1>1, <1>4, IndexOfAtStep
<1>6. AtStep(o, IndexBehind(o)).brief = o.brief
  BY <1>1, AtStepBrief
<1> QED BY <1>1, <1>2, <1>4, <1>5, <1>6 DEF SameAnswers

LEMMA LandedEdit ==
  ASSUME NEW PlanIds, NEW s \in SessionOver(PlanIds), NEW p \in Payload, OverridesOnly(p)
  PROVE  SameAnswers(s, Landed(s, p)) /\ StepIndex(Landed(s, p)) = StepIndex(s)
<1>1. p.action \notin {"back", "skip"}
  BY MovesAreNotEdits
<1>2. Landed(s, p) = WithOverrides(s, p)
  BY <1>1 DEF Landed
<1> QED BY <1>2, WithOverridesPlace

\* An answer is stored under its own question.
LEMMA StoreAnswerPlace ==
  ASSUME NEW PlanIds, NEW s \in SessionOver(PlanIds), NEW p \in Payload,
         AcceptsAnswer(s, p)
  PROVE  /\ s.step # "planning_type" =>
              StoreAnswer(s, p).brief.planning_type = s.brief.planning_type
         /\ s.step # "channels" =>
              StoreAnswer(s, p).brief.channel_ids = s.brief.channel_ids
<1>1. CASE s.step = "project_dates"
  BY <1>1 DEF StoreAnswer, SessionOver, Brief
<1>2. CASE s.step = "planning_type"
  BY <1>2 DEF StoreAnswer, SessionOver, Brief
<1>3. CASE s.step = "channels"
  BY <1>3 DEF StoreAnswer, SessionOver, Brief
<1>4. CASE s.step \in {"manual_plan", "budget_channels", "optimize"}
  BY <1>4 DEF StoreAnswer, SessionOver
<1>5. CASE s.step \notin {"project_dates", "planning_type", "channels", "manual_plan",
                          "budget_channels", "optimize"}
  BY <1>5 DEF StoreAnswer
<1> QED BY <1>1, <1>2, <1>3, <1>4, <1>5

LEMMA LandedAnswer ==
  ASSUME NEW PlanIds, NEW s \in SessionOver(PlanIds), NEW p \in Payload,
         Submits(p), Accepted(s, p)
  PROVE  /\ Onward(s, Landed(s, p))
         /\ s.step # "planning_type" =>
              Landed(s, p).brief.planning_type = s.brief.planning_type
         /\ s.step # "channels" => Landed(s, p).brief.channel_ids = s.brief.channel_ids
<1> DEFINE o == WithOverrides(s, p)
           a == StoreAnswer(o, p)
<1>1. /\ o \in SessionOver(PlanIds) /\ o.mode = s.mode /\ o.step = s.step
      /\ SameAnswers(s, o) /\ StepIndex(o) = StepIndex(s) /\ AcceptsAnswer(o, p)
  BY WithOverridesType, WithOverridesPlace DEF Accepted
<1>2. Landed(s, p) = AtStep(a, IndexAfter(a))
  BY DEF Landed, Submits
<1>3. /\ a \in SessionOver(PlanIds) /\ a.mode = s.mode /\ a.step = s.step
      /\ s.step # "planning_type" => a.brief.planning_type = o.brief.planning_type
      /\ s.step # "channels" => a.brief.channel_ids = o.brief.channel_ids
  BY <1>1, StoreAnswerType, StoreAnswerPlace
<1> HIDE DEF a, o
<1>4. a.mode \in Modes /\ StepIndex(a) = StepIndex(s)
  BY <1>3 DEF SessionOver, StepIndex
<1>5. /\ IndexAfter(a) \in 1..Len(StepOrder(a.mode)) /\ Len(StepOrder(a.mode)) \in Nat
      /\ StepIndex(a) \in 1..Len(StepOrder(a.mode))
  BY <1>4, IndexAfterInOrder, StepIndexInOrder, Positions
<1>6. StepIndex(AtStep(a, IndexAfter(a))) = IndexAfter(a)
  BY <1>3, <1>5, IndexOfAtStep
<1>7. AtStep(a, IndexAfter(a)).brief = a.brief
  BY <1>3, AtStepBrief
<1>8. \/ IndexAfter(a) <= StepIndex(a) + 1
      \/ /\ IndexAfter(a) = StepIndex(a) + 2 /\ a.brief.planning_type = "Reach"
         /\ StepOrder(a.mode)[StepIndex(a) + 1] = "comms_setup"
  BY <1>5 DEF IndexAfter
<1>9. Onward(s, Landed(s, p))
  BY <1>2, <1>3, <1>4, <1>6, <1>7, <1>8 DEF Onward
<1> QED BY <1>1, <1>2, <1>3, <1>7, <1>9 DEF SameAnswers

\* create_session() and fork() return sessions without a plan.
LEMMA NewSessionType ==
  ASSUME NEW PlanIds, NEW mode \in Modes, NEW weeks \in Weeks
  PROVE  /\ NewSession(mode, weeks) \in SessionOver(PlanIds)
         /\ NewSession(mode, weeks).plan_id = None
BY StartingSteps DEF NewSession, SessionOver, Brief, Overrides, AutomaticInput, Modes

LEMMA ForkedType ==
  ASSUME NEW PlanIds, NEW s \in SessionOver(PlanIds)
  PROVE  /\ Forked(s) \in SessionOver(PlanIds)
         /\ Forked(s).mode = OtherMode(s.mode)
         /\ Forked(s).plan_id = None
<1>1. s.brief \in Brief /\ s.brief.channel_ids \in SUBSET Channels /\ s.mode \in Modes
  BY DEF SessionOver, Brief
<1>2. CASE s.mode = "manual"
  BY <1>1, <1>2, StartingSteps
     DEF Forked, OtherMode, NewSession, SessionOver, AutomaticInput, Modes
<1>3. CASE s.mode = "automatic"
  BY <1>1, <1>3, StartingSteps
     DEF Forked, OtherMode, NewSession, SessionOver, AutomaticInput, Modes
<1> QED BY <1>1, <1>2, <1>3 DEF Modes

\* A plan records the channels of the brief, or a pool of channels.
LEMMA PlanForType ==
  ASSUME NEW PlanIds, NEW s \in SessionOver(PlanIds), NEW Briefs, NEW id \in Briefs
  PROVE  /\ PlanFor(s, id) \in PlanOver(Briefs)
         /\ PlanFor(s, id).brief_id = id /\ PlanFor(s, id).kind = s.mode
BY DEF PlanFor, PlanOver, PlannedInput, SessionOver, AutomaticInput, Brief

(***************************************************************************)
(* The wizard: the invariant                                               *)
(***************************************************************************)

\* The steps behind s were answered or skipped, and channels are in the brief
\* only once the questions up to them were: what a fork starts with.
Behind(s, seen, forked) ==
  \A i \in 1..(StepIndex(s) - 1) :
    LET step == StepOrder(s.mode)[i]
    IN  \/ step \in seen
        \/ step = "comms_setup" /\ (s.brief.planning_type = "Reach" \/ forked)

AskedForChannels(s, seen) ==
  s.brief.channel_ids # {} =>
    {"survey_client", "project_dates", "target_audience", "planning_type", "channels"} \subseteq seen

\* Plans belong to the sessions there have been, and with that a session that
\* points at a plan points at the newest of its own.
WizardIInv ==
  /\ WizardTypeOK
  /\ ManualReviewHasPlan
  /\ PointsAtOwnNewestPlan
  /\ \A i \in 1..Len(savedPlans) : savedPlans[i].brief_id <= sid
  /\ NothingBypassed
  /\ AskedForChannels(session, passed)

(***************************************************************************)
(* The wizard: nothing is bypassed                                         *)
(***************************************************************************)

LEMMA BypassedBehind == NothingBypassed <=> Behind(session, passed, sid > 1)
BY DEF NothingBypassed, Behind

\* Going back, or staying
LEMMA BehindStays ==
  ASSUME NEW s, NEW l, NEW seen, NEW forked, Behind(s, seen, forked), AskedForChannels(s, seen),
         s.mode \in Modes, l.mode = s.mode, StepIndex(l) <= StepIndex(s), SameAnswers(s, l)
  PROVE  Behind(l, seen, forked) /\ AskedForChannels(l, seen)
<1>1. StepIndex(s) \in Int /\ StepIndex(l) \in Int
  BY StepIndexInOrder
<1> QED BY <1>1 DEF Behind, AskedForChannels, SameAnswers

\* Going on, with an answer or without
LEMMA BehindGrows ==
  ASSUME NEW PlanIds, NEW s \in SessionOver(PlanIds), NEW l, NEW seen, NEW forked,
         Behind(s, seen, forked), AskedForChannels(s, seen),
         l.mode = s.mode, Onward(s, l),
         s.step # "planning_type" => l.brief.planning_type = s.brief.planning_type,
         s.step # "channels" => l.brief.channel_ids = s.brief.channel_ids
  PROVE  Behind(l, seen \cup {s.step}, forked) /\ AskedForChannels(l, seen \cup {s.step})
<1>1. /\ s.mode \in Modes /\ StepIndex(s) \in 1..Len(StepOrder(s.mode))
      /\ StepOrder(s.mode)[StepIndex(s)] = s.step /\ Len(StepOrder(s.mode)) \in Nat
  BY StepIndexInOrder, StepIndexPlace, Positions DEF SessionOver
<1>2. StepIndex(l) \in Int
  BY <1>1, StepIndexInOrder
<1>3. ASSUME NEW i \in 1..(StepIndex(l) - 1)
      PROVE  \/ StepOrder(s.mode)[i] \in seen \cup {s.step}
             \/ /\ StepOrder(s.mode)[i] = "comms_setup"
                /\ l.brief.planning_type = "Reach" \/ forked
  <2>1. CASE i = StepIndex(s)
    BY <2>1, <1>1
  <2>2. CASE i > StepIndex(s)
    BY <2>2, <1>1, <1>2, <1>3 DEF Onward
  <2>3. CASE i < StepIndex(s)
    <3>1. \/ StepOrder(s.mode)[i] \in seen
          \/ StepOrder(s.mode)[i] = "comms_setup" /\ (s.brief.planning_type = "Reach" \/ forked)
      BY <2>3, <1>1 DEF Behind
    <3>2. CASE s.step = "planning_type"
      <4>1. StepIndex(s) = 4
        BY <3>2, <1>1, SharedSteps, OrderOnce
      <4>2. StepOrder(s.mode)[i] # "comms_setup"
        BY <4>1, <2>3, <1>1, SharedSteps
      <4> QED BY <3>1, <4>2
    <3> QED BY <3>1, <3>2
  <2> QED BY <2>1, <2>2, <2>3, <1>1
<1>4. Behind(l, seen \cup {s.step}, forked)
  BY <1>3 DEF Behind
<1>5. AskedForChannels(l, seen \cup {s.step})
  <2>1. CASE s.step = "channels"
    <3>1. StepIndex(s) = 6
      BY <2>1, <1>1, SharedSteps, OrderOnce
    <3>2. {StepOrder(s.mode)[i] : i \in 1..4} \subseteq seen
      BY <3>1, <1>1, SharedSteps DEF Behind
    <3>3. /\ StepOrder(s.mode)[1] \in seen /\ StepOrder(s.mode)[2] \in seen
          /\ StepOrder(s.mode)[3] \in seen /\ StepOrder(s.mode)[4] \in seen
      BY <3>2
    <3> QED BY <3>3, <2>1, <1>1, SharedSteps DEF AskedForChannels
  <2>2. CASE s.step # "channels"
    BY <2>2 DEF AskedForChannels
  <2> QED BY <2>1, <2>2
<1> QED BY <1>4, <1>5

\* A fork starts behind the questions its source was asked.
LEMMA BehindForked ==
  ASSUME NEW PlanIds, NEW s \in SessionOver(PlanIds), NEW seen,
         AskedForChannels(s, seen), CanFork(s)
  PROVE  Behind(Forked(s), seen, TRUE) /\ AskedForChannels(Forked(s), seen)
<1> DEFINE f == Forked(s)
<1>1. f.mode \in Modes /\ f.step \in StepsOf(f.mode) /\ f \in SessionOver(PlanIds)
  BY ForkedType DEF SessionOver
<1>2. f.brief = s.brief /\ f.step = IF f.mode = "manual" THEN "calibration" ELSE "criterion"
  BY DEF Forked, NewSession, OtherMode, SessionOver, Modes
<1> HIDE DEF f
<1>3. /\ StepIndex(f) \in 1..Len(StepOrder(f.mode)) /\ StepOrder(f.mode)[StepIndex(f)] = f.step
      /\ Len(StepOrder(f.mode)) \in Nat
  BY <1>1, StepIndexInOrder, StepIndexPlace, Positions
<1>4. StepIndex(f) = 7
  <2>1. 7 \in 1..Len(StepOrder(f.mode)) /\ StepOrder(f.mode)[7] = f.step
    BY <1>1, <1>2, <1>3, SharedSteps
  <2> QED BY <1>1, <1>3, <2>1, OrderOnce
<1>5. {"survey_client", "project_dates", "target_audience", "planning_type", "channels"} \subseteq seen
  BY DEF AskedForChannels, CanFork
<1>6. Behind(f, seen, TRUE)
  <2>1. ASSUME NEW i \in 1..6
        PROVE  StepOrder(f.mode)[i] \in seen \/ StepOrder(f.mode)[i] = "comms_setup"
    <3>1. i = 1 \/ i = 2 \/ i = 3 \/ i = 4 \/ i = 5 \/ i = 6
      OBVIOUS
    <3> QED BY <3>1, <1>1, <1>5, SharedSteps
  <2> QED BY <2>1, <1>4 DEF Behind
<1>7. AskedForChannels(f, seen)
  BY <1>5 DEF AskedForChannels
<1> QED BY <1>6, <1>7 DEF f

LEMMA WizardIInvInit == WizardInit => WizardIInv
<1> SUFFICES ASSUME WizardInit PROVE WizardIInv
  OBVIOUS
<1> USE WizardAssumption
<1>1. PICK mode \in Modes : session = NewSession(mode, FirstWeeks)
  BY DEF WizardInit
<1>2. session \in SessionOver(1..MaxPlans) /\ session.plan_id = None
  BY <1>1, WeeksAssumption, NewSessionType
<1>3. session.step = "survey_client"
  BY <1>1 DEF NewSession
<1>4. savedPlans \in Seq(PlanOver(1..(MaxForks + 1))) /\ Len(savedPlans) = 0 /\ sid = 1 /\ passed = {}
  BY DEF WizardInit
<1>5. StepIndex(session) = 1
  <2>1. /\ session.mode \in Modes /\ session.step \in StepsOf(session.mode)
        /\ StepIndex(session) \in 1..Len(StepOrder(session.mode))
        /\ StepOrder(session.mode)[StepIndex(session)] = session.step
        /\ Len(StepOrder(session.mode)) \in Nat
    BY <1>2, StepIndexInOrder, StepIndexPlace, Positions DEF SessionOver
  <2>2. PICK i \in 1..Len(StepOrder(session.mode)) :
          i = StepIndex(session) /\ StepOrder(session.mode)[i] = session.step
    BY <2>1
  <2>3. /\ 1 \in 1..Len(StepOrder(session.mode))
        /\ StepOrder(session.mode)[1] = "survey_client"
    BY <2>1, SharedSteps
  <2>4. i = 1
    BY <2>1, <2>2, <2>3, <1>3, OrderOnce
  <2> QED BY <2>2, <2>4
<1>6. NothingBypassed
  BY <1>5 DEF NothingBypassed
<1>7. AskedForChannels(session, passed)
  BY <1>1 DEF NewSession, AskedForChannels
<1> QED BY <1>2, <1>3, <1>4, <1>6, <1>7
        DEF WizardIInv, WizardTypeOK, ManualReviewHasPlan, PointsAtOwnNewestPlan

\* Saving an accepted payload, whatever it is.
LEMMA SaveStep ==
  ASSUME WizardIInv, NEW p \in Payload, Accepted(session, p), Save(p), UNCHANGED sid
  PROVE  /\ session' \in SessionOver(1..MaxPlans)
         /\ savedPlans' \in Seq(PlanOver(1..(MaxForks + 1))) /\ Len(savedPlans') <= MaxPlans
         /\ ManualReviewHasPlan' /\ PointsAtOwnNewestPlan'
         /\ \A i \in 1..Len(savedPlans') : savedPlans'[i].brief_id <= sid
<1> DEFINE landed == Landed(session, p)
           plan   == PlanFor(landed, sid)
           id     == Len(savedPlans) + 1
           S      == SessionOver(1..MaxPlans)
           P      == PlanOver(1..(MaxForks + 1))
<1>1. /\ session \in S /\ sid \in 1..(MaxForks + 1) /\ sid \in Nat
      /\ savedPlans \in Seq(P) /\ Len(savedPlans) <= MaxPlans /\ Len(savedPlans) \in Nat
  BY WizardAssumption DEF WizardIInv, WizardTypeOK
<1>2. landed \in S /\ landed.mode = session.mode /\ landed.plan_id = session.plan_id
  BY <1>1, LandedType
<1>3. plan \in P /\ plan.brief_id = sid /\ plan.kind = session.mode
  BY <1>1, <1>2, PlanForType
<1>4. CASE MakesPlan(session, p)
  <2>1. /\ Len(savedPlans) < MaxPlans /\ savedPlans' = Append(savedPlans, plan)
        /\ session' = [landed EXCEPT !.plan_id = id]
    BY <1>4 DEF Save
  <2>2. /\ savedPlans' \in Seq(P) /\ Len(savedPlans') = id /\ savedPlans'[id] = plan
        /\ \A i \in 1..Len(savedPlans) : savedPlans'[i] = savedPlans[i]
    BY <1>1, <1>3, <2>1
  <2>3. id \in 1..MaxPlans /\ id # None
    BY <1>1, <2>1, WizardAssumption, NoneAssumption
  <2>4. /\ session' \in S /\ session'.plan_id = id /\ session'.mode = session.mode
    BY <1>2, <2>1, <2>3 DEF SessionOver
  <2>5. PointsAtOwnNewestPlan'
    BY <1>1, <1>3, <2>2, <2>4 DEF PointsAtOwnNewestPlan
  <2>6. \A i \in 1..Len(savedPlans') : savedPlans'[i].brief_id <= sid
    BY <1>1, <1>3, <2>2 DEF WizardIInv
  <2> QED BY <1>1, <2>1, <2>2, <2>3, <2>4, <2>5, <2>6 DEF ManualReviewHasPlan
<1>5. CASE ~MakesPlan(session, p)
  <2>1. session' = landed /\ UNCHANGED savedPlans
    BY <1>5 DEF Save
  <2>2. ManualReviewHasPlan'
    BY <1>2, <1>5, <2>1 DEF MakesPlan, ManualReviewHasPlan
  <2>3. PointsAtOwnNewestPlan'
    BY <1>2, <2>1 DEF WizardIInv, PointsAtOwnNewestPlan
  <2> QED BY <1>1, <1>2, <2>1, <2>2, <2>3 DEF WizardIInv
<1> QED BY <1>4, <1>5

\* A session is saved where it landed, with the brief it landed with.
LEMMA SaveBehind ==
  ASSUME NEW p \in Payload, NEW seen, session \in SessionOver(1..MaxPlans), Accepted(session, p), Save(p),
         Behind(Landed(session, p), seen, sid > 1),
         AskedForChannels(Landed(session, p), seen),
         passed' = seen, UNCHANGED sid
  PROVE  NothingBypassed' /\ AskedForChannels(session, passed)'
<1>1. PICK l : l = Landed(session, p)
  OBVIOUS
<1>2. PICK new : new = session'
  OBVIOUS
<1>3. l \in SessionOver(1..MaxPlans)
  BY <1>1, LandedType
<1>4. new.mode = l.mode /\ new.step = l.step /\ new.brief = l.brief
  BY <1>1, <1>2, <1>3 DEF Save, SessionOver
<1>5. StepIndex(new) = StepIndex(l)
  BY <1>4 DEF StepIndex
<1>6. Behind(new, seen, sid > 1) /\ AskedForChannels(new, seen)
  BY <1>1, <1>4, <1>5 DEF Behind, AskedForChannels
<1> QED BY <1>2, <1>6 DEF NothingBypassed, Behind, AskedForChannels

\* What the three ways to save have in common
LEMMA IInvBehind ==
  ASSUME WizardIInv
  PROVE  /\ session \in SessionOver(1..MaxPlans) /\ session.mode \in Modes
         /\ Behind(session, passed, sid > 1) /\ AskedForChannels(session, passed)
BY BypassedBehind DEF WizardIInv, WizardTypeOK, SessionOver

LEMMA ForkStep ==
  ASSUME WizardIInv, Fork
  PROVE  WizardIInv'
<1>1. /\ session \in SessionOver(1..MaxPlans) /\ session' = Forked(session)
      /\ sid' = sid + 1 /\ sid <= MaxForks /\ UNCHANGED <<savedPlans, passed>>
  BY DEF WizardIInv, WizardTypeOK, Fork
<1>2. session' \in SessionOver(1..MaxPlans) /\ session'.plan_id = None
  BY <1>1, ForkedType
<1>3. session'.step \in {"criterion", "calibration"}
  BY <1>1 DEF Forked, NewSession
<1>4. \A i \in 1..Len(savedPlans) : savedPlans[i].brief_id <= sid + 1
  <2>1. ASSUME NEW i \in 1..Len(savedPlans) PROVE savedPlans[i].brief_id \in 1..(MaxForks + 1)
    <3>1. savedPlans[i] \in PlanOver(1..(MaxForks + 1))
      BY DEF WizardIInv, WizardTypeOK
    <3> QED BY <3>1 DEF PlanOver
  <2> QED BY <2>1, WizardAssumption DEF WizardIInv, WizardTypeOK
<1>5. sid' \in 1..(MaxForks + 1)
  BY <1>1, WizardAssumption DEF WizardIInv, WizardTypeOK
<1>6. NothingBypassed' /\ AskedForChannels(session, passed)'
  <2>1. PICK new : new = session'
    OBVIOUS
  <2>2. /\ session \in SessionOver(1..MaxPlans) /\ AskedForChannels(session, passed)
        /\ CanFork(session)
    BY IInvBehind DEF Fork
  <2>3. Behind(new, passed, TRUE) /\ AskedForChannels(new, passed)
    BY <2>1, <2>2, <1>1, BehindForked
  <2>4. (sid > 1)' = TRUE
    BY <1>1 DEF WizardIInv, WizardTypeOK
  <2> QED BY <2>1, <2>3, <2>4, <1>1 DEF NothingBypassed, Behind, AskedForChannels
<1> QED BY <1>1, <1>2, <1>3, <1>4, <1>5, <1>6
        DEF WizardIInv, WizardTypeOK, ManualReviewHasPlan, PointsAtOwnNewestPlan

\* The payloads of the planner's actions are payloads, and moves are accepted.
LEMMA EditedType ==
  ASSUME NEW p \in Payload, NEW o \in Edits
  PROVE  [p EXCEPT !.overrides = o] \in Payload
BY WizardAssumption DEF Payload

LEMMA BlankType ==
  /\ Blank \in Payload
  /\ \A a \in {"back", "skip"} : [Blank EXCEPT !.action = a] \in Payload
BY DEF Blank, Payload

LEMMA WizardIInvStep == WizardIInv /\ [WizardNext]_wizardVars => WizardIInv'
<1> SUFFICES ASSUME WizardIInv, [WizardNext]_wizardVars PROVE WizardIInv'
  OBVIOUS
<1>1. CASE GoBack
  <2>1. PICK o \in Edits : Save([Blank EXCEPT !.action = "back", !.overrides = o])
    BY <1>1 DEF GoBack
  <2> DEFINE p == [Blank EXCEPT !.action = "back", !.overrides = o]
  <2>2. p = [[Blank EXCEPT !.action = "back"] EXCEPT !.overrides = o]
    BY DEF Blank
  <2>3. p \in Payload /\ p.action = "back"
    BY <2>2, BlankType, EditedType DEF Blank
  <2>4. Accepted(session, p)
    BY <2>3 DEF Accepted, Submits
  <2> HIDE DEF p
  <2>5. /\ Behind(Landed(session, p), passed, sid > 1)
        /\ AskedForChannels(Landed(session, p), passed)
    <3>1. /\ Landed(session, p).mode = session.mode
          /\ SameAnswers(session, Landed(session, p))
          /\ StepIndex(Landed(session, p)) <= StepIndex(session)
      BY <2>3, <2>4, IInvBehind, LandedBack, LandedType
    <3> QED BY <3>1, IInvBehind, BehindStays
  <2>6. Save(p) /\ UNCHANGED <<sid, passed>>
    BY <1>1, <2>1 DEF GoBack, p
  <2>7. NothingBypassed' /\ AskedForChannels(session, passed)'
    BY <2>3, <2>4, <2>5, <2>6, IInvBehind, SaveBehind
  <2> QED BY <2>3, <2>4, <2>6, <2>7, SaveStep DEF WizardIInv, WizardTypeOK
<1>2. CASE SkipStep
  <2>1. PICK o \in Edits : Save([Blank EXCEPT !.action = "skip", !.overrides = o])
    BY <1>2 DEF SkipStep
  <2> DEFINE p == [Blank EXCEPT !.action = "skip", !.overrides = o]
  <2>2. p = [[Blank EXCEPT !.action = "skip"] EXCEPT !.overrides = o]
    BY DEF Blank
  <2>3. p \in Payload /\ p.action = "skip"
    BY <2>2, BlankType, EditedType DEF Blank
  <2>4. Accepted(session, p)
    BY <2>3 DEF Accepted, Submits
  <2>5. passed' \subseteq StepsOf("manual") \cup StepsOf("automatic")
    BY <1>2 DEF SkipStep, WizardIInv, WizardTypeOK, SessionOver
  <2> HIDE DEF p
  <2>6. PICK seen : seen = passed \cup {session.step}
    OBVIOUS
  <2>7. Behind(Landed(session, p), seen, sid > 1) /\ AskedForChannels(Landed(session, p), seen)
    <3>1. /\ Landed(session, p).mode = session.mode
          /\ SameAnswers(session, Landed(session, p))
          /\ Onward(session, Landed(session, p))
      BY <2>3, <2>4, IInvBehind, LandedSkip, LandedType DEF Onward
    <3> QED BY <3>1, <2>6, IInvBehind, BehindGrows DEF SameAnswers
  <2>8. Save(p) /\ UNCHANGED sid /\ passed' = seen
    BY <1>2, <2>1, <2>6 DEF SkipStep, p
  <2>9. NothingBypassed' /\ AskedForChannels(session, passed)'
    BY <2>3, <2>4, <2>7, <2>8, IInvBehind, SaveBehind
  <2> QED BY <2>3, <2>4, <2>5, <2>8, <2>9, SaveStep DEF WizardIInv, WizardTypeOK
<1>3. CASE EditOverrides
  <2>1. PICK o \in Edits \ {None} : Save([Blank EXCEPT !.overrides = o])
    BY <1>3 DEF EditOverrides
  <2> DEFINE p == [Blank EXCEPT !.overrides = o]
  <2>2. p \in Payload
    BY BlankType, EditedType
  <2>3. OverridesOnly(p)
    <3>1. p.overrides # None
      BY <2>1 DEF Blank
    <3>2. p = [action |-> None, overrides |-> o, valid |-> None, weeks |-> None,
               planning_type |-> None, channel_ids |-> None, weekly_budgets |-> None,
               total |-> None, pool |-> None]
      BY DEF Blank
    <3> HIDE DEF p
    <3>3. [p EXCEPT !.overrides = None] = Blank
      BY <3>2 DEF Blank
    <3> QED BY <3>1, <3>3 DEF OverridesOnly
  <2>4. Accepted(session, p)
    BY <2>3 DEF Accepted, Submits
  <2> HIDE DEF p
  <2>5. /\ Behind(Landed(session, p), passed, sid > 1)
        /\ AskedForChannels(Landed(session, p), passed)
    <3>1. /\ Landed(session, p).mode = session.mode
          /\ SameAnswers(session, Landed(session, p))
          /\ StepIndex(Landed(session, p)) = StepIndex(session)
      BY <2>2, <2>3, <2>4, IInvBehind, LandedEdit, LandedType
    <3>2. StepIndex(session) \in Int
      BY IInvBehind, StepIndexInOrder
    <3> QED BY <3>1, <3>2, IInvBehind, BehindStays
  <2>6. Save(p) /\ UNCHANGED <<sid, passed>>
    BY <1>3, <2>1 DEF EditOverrides, p
  <2>7. NothingBypassed' /\ AskedForChannels(session, passed)'
    BY <2>2, <2>4, <2>5, <2>6, IInvBehind, SaveBehind
  <2> QED BY <2>2, <2>4, <2>6, <2>7, SaveStep DEF WizardIInv, WizardTypeOK
<1>4. CASE SubmitAnswer
  <2>1. PICK a \in Answers, o \in Edits :
          /\ Submits([a EXCEPT !.overrides = o])
          /\ Accepted(session, [a EXCEPT !.overrides = o])
          /\ Save([a EXCEPT !.overrides = o])
    BY <1>4 DEF SubmitAnswer
  <2> DEFINE p == [a EXCEPT !.overrides = o]
  <2>2. p \in Payload
    BY EditedType, WizardAssumption
  <2>3. passed' \subseteq StepsOf("manual") \cup StepsOf("automatic") /\ UNCHANGED sid
    BY <1>4 DEF SubmitAnswer, WizardIInv, WizardTypeOK, SessionOver
  <2>4. Submits(p) /\ Accepted(session, p) /\ Save(p)
    BY <2>1
  <2> HIDE DEF p
  <2>5. PICK seen : seen = passed \cup {session.step}
    OBVIOUS
  <2>6. Behind(Landed(session, p), seen, sid > 1) /\ AskedForChannels(Landed(session, p), seen)
    <3>1. /\ Landed(session, p).mode = session.mode
          /\ Onward(session, Landed(session, p))
          /\ session.step # "planning_type" =>
               Landed(session, p).brief.planning_type = session.brief.planning_type
          /\ session.step # "channels" =>
               Landed(session, p).brief.channel_ids = session.brief.channel_ids
      BY <2>2, <2>4, IInvBehind, LandedAnswer, LandedType
    <3> QED BY <3>1, <2>5, IInvBehind, BehindGrows
  <2>7. passed' = seen
    BY <1>4, <2>5 DEF SubmitAnswer
  <2>8. NothingBypassed' /\ AskedForChannels(session, passed)'
    BY <2>2, <2>3, <2>4, <2>6, <2>7, IInvBehind, SaveBehind
  <2> QED BY <2>2, <2>3, <2>4, <2>8, SaveStep DEF WizardIInv, WizardTypeOK
<1>5. CASE Fork
  BY <1>5, ForkStep
<1>6. CASE UNCHANGED wizardVars
  <2>1. NothingBypassed' /\ AskedForChannels(session, passed)'
    BY <1>6 DEF wizardVars, WizardIInv, NothingBypassed, AskedForChannels
  <2> QED BY <1>6, <2>1 DEF wizardVars, WizardIInv, WizardTypeOK, ManualReviewHasPlan, PointsAtOwnNewestPlan
<1> QED BY <1>1, <1>2, <1>3, <1>4, <1>5, <1>6 DEF WizardNext

\* Every answer, move and fork leaves a session at a step of its own mode.
THEOREM WizardTypeCorrect == WizardSpec => []WizardTypeOK
<1>1. WizardIInv => WizardTypeOK
  BY DEF WizardIInv
<1> QED BY <1>1, WizardIInvInit, WizardIInvStep, PTL DEF WizardSpec

\* A manual session at review has a plan, however its planner got there.
THEOREM ReviewHasPlan == WizardSpec => []ManualReviewHasPlan
<1>1. WizardIInv => ManualReviewHasPlan
  BY DEF WizardIInv
<1> QED BY <1>1, WizardIInvInit, WizardIInvStep, PTL DEF WizardSpec

\* A session points at the newest of its own plans, after any fork.
THEOREM OwnNewestPlan == WizardSpec => []PointsAtOwnNewestPlan
<1>1. WizardIInv => PointsAtOwnNewestPlan
  BY DEF WizardIInv
<1> QED BY <1>1, WizardIInvInit, WizardIInvStep, PTL DEF WizardSpec

\* However the planner went back and forth, skipped, edited and forked, every
\* step behind the current one was answered or skipped, but for comms_setup.
THEOREM NothingIsBypassed == WizardSpec => []NothingBypassed
<1>1. WizardIInv => NothingBypassed
  BY DEF WizardIInv
<1> QED BY <1>1, WizardIInvInit, WizardIInvStep, PTL DEF WizardSpec

(***************************************************************************)
(* The service: types                                                      *)
(***************************************************************************)

\* A busy thread has a session in hand, and a number if it advances one;
\* u is what has been used up of ids and numbers.
WellFormed(th, u) ==
  /\ th.pc = "idle" => th.request = None
  /\ th.pc # "idle" => th.sid \in Sids /\ th.sid <= u.sids /\ th.session \in Session
  /\ th.pc \in {"save_plan", "log_turn"} => th.request # None
  /\ th.request # None => th.request <= u.reqs

Typed ==
  /\ TypeOK
  /\ \A t \in Threads : WellFormed(threads[t], used)
  /\ \A s \in Sids : sessions[s] # None => s <= used.sids

LEMMA IdleType ==
  /\ Idle \in Thread /\ Idle.pc = "idle" /\ Idle.request = None
  /\ \A u : WellFormed(Idle, u)
BY DEF Idle, Thread, Steps, WellFormed

LEMMA TypedInit == Init => Typed
<1> SUFFICES ASSUME Init PROVE Typed
  OBVIOUS
<1> USE ServiceAssumption
<1>1. sessions \in [Sids -> {None} \cup Row]
  <2> SUFFICES ASSUME NEW s \in Sids, s <= Len(Seeds)
               PROVE  [session |-> Seeds[s], history |-> <<>>, created_at |-> 0,
                       updated_at |-> 0, project |-> "chosen"] \in Row
    BY DEF Init
  <2>1. Seeds[s] \in Session
    BY DEF Sids
  <2> QED BY <2>1 DEF Row, Times
<1>2. plans \in [Pids -> {None} \cup Plan] /\ turns \subseteq Turn /\ lock \in {None} \cup Threads
  BY DEF Init
<1>3. threads \in [Threads -> Thread] /\ \A t \in Threads : WellFormed(threads[t], used)
  BY IdleType DEF Init
<1>4. clock \in Times /\ crashes \in 0..MaxCrashes /\ disturbed \subseteq Sids
  BY DEF Init, Times
<1>5. used \in [sids : 0..MaxSessions, reqs : 0..MaxRequests]
  BY DEF Init
<1>6. versions \in [Sids -> SUBSET Seq(Reqs)] /\ acked \in [Sids -> Seq(Reqs)]
  BY DEF Init
<1>7. \A s \in Sids : sessions[s] # None => s <= used.sids
  BY DEF Init
<1> QED BY <1>1, <1>2, <1>3, <1>4, <1>5, <1>6, <1>7 DEF Typed, TypeOK

\* Changing one thread keeps the others as they were.
LEMMA OneThread ==
  ASSUME Typed, NEW t \in Threads, NEW th \in Thread, WellFormed(th, used'),
         threads' = [threads EXCEPT ![t] = th],
         used'.sids \in Int, used'.reqs \in Int,
         used'.sids >= used.sids, used'.reqs >= used.reqs
  PROVE  /\ threads' \in [Threads -> Thread]
         /\ \A u \in Threads : WellFormed(threads'[u], used')
<1>1. threads' \in [Threads -> Thread]
  BY DEF Typed, TypeOK
<1>2. ASSUME NEW u \in Threads PROVE WellFormed(threads'[u], used')
  <2>1. CASE u = t
    BY <2>1 DEF Typed, TypeOK
  <2>2. CASE u # t
    <3>1. threads'[u] = threads[u] /\ threads[u] \in Thread /\ WellFormed(threads[u], used)
      BY <2>2 DEF Typed, TypeOK
    <3>2. used.sids \in Int /\ used.reqs \in Int
      BY DEF Typed, TypeOK
    <3> QED BY <3>1, <3>2 DEF WellFormed, Thread, Sids, Reqs
  <2> QED BY <2>1, <2>2
<1> QED BY <1>1, <1>2

LEMMA BeginAdvanceTyped ==
  ASSUME Typed, NEW t \in Threads, NEW s \in Sids, NEW p \in Payloads, BeginAdvance(t, s, p)
  PROVE  Typed'
<1> DEFINE read == sessions[s].session
           r == used.reqs + 1
           pc == IF MakesPlan(read, p) THEN "save_plan" ELSE "save_session"
           th == [Idle EXCEPT !.pc = pc, !.sid = s, !.request = r,
                              !.session = Landed(read, p),
                              !.history = Append(sessions[s].history, r)]
<1>1. read \in Session /\ sessions[s].history \in Seq(Reqs) /\ s <= used.sids
  BY DEF Typed, TypeOK, BeginAdvance, Row
<1>2. Landed(read, p) \in Session
  BY <1>1, LandedType, ServiceAssumption DEF BeginAdvance, Session
<1>3. r \in Reqs /\ used' = [used EXCEPT !.reqs = r] /\ r \in 0..MaxRequests
  BY ServiceAssumption DEF Typed, TypeOK, BeginAdvance, Reqs
<1>4. pc \in {"save_plan", "save_session"}
  OBVIOUS
<1>5. Append(sessions[s].history, r) \in Seq(Reqs)
  BY <1>1, <1>3
<1> HIDE DEF pc, r, read
<1>6. th \in Thread /\ th.pc = pc /\ th.sid = s /\ th.request = r /\ th.session \in Session
  BY <1>2, <1>3, <1>4, <1>5, IdleType DEF Thread, Steps
<1>7. used' \in [sids : 0..MaxSessions, reqs : 0..MaxRequests]
      /\ used'.sids = used.sids /\ used'.reqs = r
  BY <1>3 DEF Typed, TypeOK
<1>8. WellFormed(th, used')
  BY <1>1, <1>3, <1>4, <1>6, <1>7, NoneAssumption DEF WellFormed, Reqs
<1>9. threads' = [threads EXCEPT ![t] = th]
  BY DEF BeginAdvance, pc, r, read
<1>10. /\ used'.sids \in Int /\ used'.reqs \in Int
       /\ used'.sids >= used.sids /\ used'.reqs >= used.reqs
  BY <1>7 DEF Typed, TypeOK, r
<1> HIDE DEF th
<1>11. threads' \in [Threads -> Thread] /\ \A u \in Threads : WellFormed(threads'[u], used')
  BY <1>6, <1>7, <1>8, <1>9, <1>10, OneThread
<1> QED BY <1>7, <1>11 DEF Typed, TypeOK, BeginAdvance, tables

LEMMA BeginSaveOfNewTyped ==
  ASSUME Typed, NEW t \in Threads, NEW x \in Session, BeginSaveOfNew(t, x)
  PROVE  Typed'
<1> DEFINE s == used.sids + 1
           th == [Idle EXCEPT !.pc = "save_session", !.sid = s,
                              !.session = x, !.project = "chosen"]
<1>1. s \in Sids /\ s \in 0..MaxSessions /\ used' = [used EXCEPT !.sids = s]
  BY ServiceAssumption DEF Typed, TypeOK, BeginSaveOfNew, Sids
<1>2. used' \in [sids : 0..MaxSessions, reqs : 0..MaxRequests]
      /\ used'.sids = s /\ used'.reqs = used.reqs
  BY <1>1 DEF Typed, TypeOK
<1>3. /\ used'.sids \in Int /\ used'.reqs \in Int
      /\ used'.sids >= used.sids /\ used'.reqs >= used.reqs
  BY <1>2 DEF Typed, TypeOK
<1>4. threads' = [threads EXCEPT ![t] = th]
  BY DEF BeginSaveOfNew
<1> HIDE DEF s
<1>5. /\ th \in Thread /\ th.pc = "save_session" /\ th.sid = s /\ th.request = None
      /\ th.session = x
  BY <1>1, IdleType DEF Thread, Steps
<1>6. WellFormed(th, used')
  BY <1>1, <1>2, <1>3, <1>5 DEF WellFormed
<1> HIDE DEF th
<1>7. threads' \in [Threads -> Thread] /\ \A u \in Threads : WellFormed(threads'[u], used')
  BY <1>3, <1>4, <1>5, <1>6, OneThread
<1>8. \A i \in Sids : sessions'[i] # None => i <= used'.sids
  BY <1>3 DEF Typed, TypeOK, BeginSaveOfNew, tables, Sids
<1> QED BY <1>2, <1>7, <1>8 DEF Typed, TypeOK, BeginSaveOfNew, tables, ghosts

\* The writes leave used alone.
LEMMA OneThreadWrites ==
  ASSUME Typed, NEW t \in Threads, NEW th \in Thread, WellFormed(th, used),
         threads' = [threads EXCEPT ![t] = th], UNCHANGED used
  PROVE  /\ threads' \in [Threads -> Thread]
         /\ \A u \in Threads : WellFormed(threads'[u], used')
<1>1. /\ used'.sids \in Int /\ used'.reqs \in Int
      /\ used'.sids >= used.sids /\ used'.reqs >= used.reqs
  BY DEF Typed, TypeOK
<1>2. WellFormed(th, used')
  OBVIOUS
<1> QED BY <1>1, <1>2, OneThread

LEMMA SavePlanTyped ==
  ASSUME Typed, NEW t \in Threads, SavePlan(t)
  PROVE  Typed'
<1> DEFINE th == threads[t]
           new == [th EXCEPT !.pc = "save_session", !.session.plan_id = th.request]
<1>1. /\ th \in Thread /\ th.session \in Session /\ th.sid \in Sids /\ th.request \in Reqs
      /\ WellFormed(th, used)
  BY DEF Typed, TypeOK, WellFormed, SavePlan, Thread
<1>2. [th.session EXCEPT !.plan_id = th.request] \in Session
  BY <1>1 DEF Session, SessionOver, Pids
<1>3. /\ new \in Thread /\ new.pc = "save_session" /\ new.sid = th.sid
      /\ new.request = th.request /\ new.session \in Session
  BY <1>1, <1>2 DEF Thread, Steps
<1>4. WellFormed(new, used)
  BY <1>1, <1>3 DEF WellFormed, SavePlan
<1>5. threads' = [threads EXCEPT ![t] = new]
  BY DEF SavePlan
<1>6. PlanFor(th.session, th.sid) \in Plan
  BY <1>1, PlanForType DEF Plan, Session
<1>7. plans' \in [Pids -> {None} \cup Plan]
  BY <1>1, <1>6 DEF Typed, TypeOK, SavePlan
<1> HIDE DEF new
<1>8. threads' \in [Threads -> Thread] /\ \A u \in Threads : WellFormed(threads'[u], used')
  BY <1>3, <1>4, <1>5, OneThreadWrites DEF SavePlan
<1> QED BY <1>7, <1>8 DEF Typed, TypeOK, SavePlan, ghosts

\* save_session writes one row: the session the request has in hand.
LEMMA SavedRow ==
  ASSUME Typed, NEW t \in Threads, SaveSession(t)
  PROVE  /\ threads[t].sid \in Sids /\ threads[t].history \in Seq(Reqs)
         /\ \E row \in Row : /\ sessions' = [sessions EXCEPT ![threads[t].sid] = row]
                            /\ row.session = threads[t].session
                            /\ row.history = threads[t].history
<1> DEFINE th == threads[t]
           old == sessions[th.sid]
           created == IF old # None THEN old.created_at ELSE clock
           project == IF th.project # None THEN th.project
                      ELSE IF old # None THEN old.project ELSE "Default"
           row == [session |-> th.session, history |-> th.history,
                   created_at |-> created, updated_at |-> clock, project |-> project]
<1>1. /\ th \in Thread /\ th.session \in Session /\ th.sid \in Sids
      /\ th.history \in Seq(Reqs)
  BY DEF Typed, TypeOK, WellFormed, SaveSession, Thread
<1>2. old = None \/ old \in Row
  BY <1>1 DEF Typed, TypeOK
<1>3. created \in Times /\ clock \in Times
  BY <1>2 DEF Typed, TypeOK, Row
<1>4. project \in {"chosen", "Default"}
  BY <1>1, <1>2 DEF Thread, Row
<1> HIDE DEF created, project
<1>5. row \in Row
  BY <1>1, <1>3, <1>4 DEF Row
<1>6. sessions' = [sessions EXCEPT ![th.sid] = row]
  BY DEF SaveSession, created, project
<1> QED BY <1>1, <1>5, <1>6

LEMMA SaveSessionTyped ==
  ASSUME Typed, NEW t \in Threads, SaveSession(t)
  PROVE  Typed'
<1> DEFINE th == threads[t]
           new == [th EXCEPT !.pc = "sweep_plans"]
<1>1. th \in Thread /\ th.sid \in Sids /\ th.sid <= used.sids /\ WellFormed(th, used)
  BY DEF Typed, TypeOK, WellFormed, SaveSession, Thread
<1>2. /\ sessions' \in [Sids -> {None} \cup Row]
      /\ \A s \in Sids : sessions'[s] # None => s <= used.sids
  BY <1>1, SavedRow DEF Typed, TypeOK
<1>3. /\ new \in Thread /\ new.pc = "sweep_plans" /\ new.sid = th.sid
      /\ new.request = th.request /\ new.session = th.session
  BY <1>1 DEF Thread, Steps
<1>4. WellFormed(new, used)
  BY <1>1, <1>3 DEF WellFormed, SaveSession
<1>5. threads' = [threads EXCEPT ![t] = new]
  BY DEF SaveSession
<1>6. versions' \in [Sids -> SUBSET Seq(Reqs)]
  <2>1. th.history \in Seq(Reqs)
    BY <1>1 DEF Thread
  <2> QED BY <1>1, <2>1 DEF Typed, TypeOK, SaveSession
<1> HIDE DEF new
<1>7. threads' \in [Threads -> Thread] /\ \A u \in Threads : WellFormed(threads'[u], used')
  BY <1>3, <1>4, <1>5, OneThreadWrites DEF SaveSession
<1> QED BY <1>2, <1>6, <1>7 DEF Typed, TypeOK, SaveSession

LEMMA SweepPlansTyped ==
  ASSUME Typed, NEW t \in Threads, SweepPlans(t)
  PROVE  Typed'
<1> DEFINE th == threads[t]
           new == [th EXCEPT !.pc = "sweep_sessions", !.cutoff = clock - TTL]
<1>1. th \in Thread /\ WellFormed(th, used) /\ clock - TTL \in Int
  BY ServiceAssumption DEF Typed, TypeOK, Times
<1>2. /\ new \in Thread /\ new.pc = "sweep_sessions" /\ new.sid = th.sid
      /\ new.request = th.request /\ new.session = th.session
  BY <1>1 DEF Thread, Steps
<1>3. WellFormed(new, used)
  BY <1>1, <1>2 DEF WellFormed, SweepPlans
<1>4. threads' = [threads EXCEPT ![t] = new]
  BY DEF SweepPlans
<1>5. plans' \in [Pids -> {None} \cup Plan]
  BY DEF Typed, TypeOK, SweepPlans
<1> HIDE DEF new
<1>6. threads' \in [Threads -> Thread] /\ \A u \in Threads : WellFormed(threads'[u], used')
  BY <1>2, <1>3, <1>4, OneThreadWrites DEF SweepPlans
<1> QED BY <1>5, <1>6 DEF Typed, TypeOK, SweepPlans, ghosts

\* Removing rows keeps the tables well typed.
LEMMA DropTyped ==
  ASSUME Typed, NEW gone, Drop(gone)
  PROVE  /\ sessions' \in [Sids -> {None} \cup Row]
         /\ \A s \in Sids : sessions'[s] # None => s <= used.sids
         /\ turns' \subseteq Turn
BY DEF Drop, Typed, TypeOK

LEMMA SweepSessionsTyped ==
  ASSUME Typed, NEW t \in Threads, SweepSessions(t)
  PROVE  Typed'
<1> DEFINE th == threads[t]
           new == IF th.request = None THEN Idle ELSE [th EXCEPT !.pc = "log_turn"]
<1>1. th \in Thread /\ WellFormed(th, used) /\ th.pc = "sweep_sessions"
  BY DEF Typed, TypeOK, SweepSessions
<1>2. new \in Thread /\ WellFormed(new, used)
  BY <1>1, IdleType DEF Thread, Steps, WellFormed
<1>3. threads' = [threads EXCEPT ![t] = new]
  BY DEF SweepSessions
<1> HIDE DEF new
<1>4. threads' \in [Threads -> Thread] /\ \A u \in Threads : WellFormed(threads'[u], used')
  BY <1>2, <1>3, OneThreadWrites DEF SweepSessions
<1>5. disturbed' \subseteq Sids
  BY DEF SweepSessions, Drop, Stale, Stored, Typed, TypeOK
<1> QED BY <1>4, <1>5, DropTyped DEF Typed, TypeOK, SweepSessions

LEMMA LogTurnTyped ==
  ASSUME Typed, NEW t \in Threads, LogTurn(t),
         \A s \in Sids : NextIndex(s) \in Nat
  PROVE  Typed'
<1> DEFINE th == threads[t]
<1>1. /\ th \in Thread /\ th.sid \in Sids /\ th.request \in Reqs /\ th.history \in Seq(Reqs)
  BY DEF Typed, TypeOK, WellFormed, LogTurn, Thread
<1>2. /\ threads' = [threads EXCEPT ![t] = Idle] /\ UNCHANGED lock
  BY DEF LogTurn, Logged, Refused
<1>3. threads' \in [Threads -> Thread] /\ \A u \in Threads : WellFormed(threads'[u], used')
  BY <1>2, IdleType, OneThreadWrites DEF LogTurn
<1>4. turns' \subseteq Turn /\ acked' \in [Sids -> Seq(Reqs)]
  <2>1. CASE Logged(t)
    <3>1. [session_id |-> th.sid, turn_index |-> NextIndex(th.sid),
           request |-> th.request, snapshot |-> th.history] \in Turn
      BY <1>1 DEF Turn
    <3> QED BY <1>1, <2>1, <3>1 DEF Typed, TypeOK, Logged
  <2>2. CASE Refused(t)
    BY <2>2 DEF Typed, TypeOK, Refused
  <2> QED BY <2>1, <2>2 DEF LogTurn
<1> QED BY <1>2, <1>3, <1>4 DEF Typed, TypeOK, LogTurn

LEMMA CrashTyped ==
  ASSUME Typed, Crash
  PROVE  Typed'
<1>1. threads' \in [Threads -> Thread] /\ \A u \in Threads : WellFormed(threads'[u], used')
  BY IdleType DEF Crash
<1>2. disturbed' \subseteq Sids
  BY DEF Crash, Stale, Stored, Typed, TypeOK
<1>3. crashes' \in 0..MaxCrashes
  BY ServiceAssumption DEF Crash, Typed, TypeOK
<1> QED BY <1>1, <1>2, <1>3 DEF Typed, TypeOK, Crash, tables

(***************************************************************************)
(* The numbering of turns                                                  *)
(***************************************************************************)

\* The turns of a session are numbered from 0 without gaps or repeats.
NumberedUpTo(s, n) ==
  /\ \A a \in TurnsOf(s) : a.turn_index \in 0..(n - 1)
  /\ \A i \in 0..(n - 1) : \E a \in TurnsOf(s) : a.turn_index = i
  /\ \A a, b \in TurnsOf(s) : a.turn_index = b.turn_index => a = b

Numbered == \A s \in Sids : \E n \in Nat : NumberedUpTo(s, n)

\* MAX(turn_index) + 1 is the next free number.
LEMMA NextIndexIsFree ==
  ASSUME NEW s, NEW n \in Nat, NumberedUpTo(s, n)
  PROVE  NextIndex(s) = n
<1> DEFINE indexes == {turn.turn_index : turn \in TurnsOf(s)}
           top(i) == \A turn \in TurnsOf(s) : turn.turn_index <= i
           highest == CHOOSE i \in indexes : top(i)
<1>1. CASE n = 0
  <2>1. TurnsOf(s) = {}
    BY <1>1 DEF NumberedUpTo
  <2> QED BY <1>1, <2>1 DEF NextIndex
<1>2. CASE n # 0
  <2>1. \E a \in TurnsOf(s) : a.turn_index = n - 1
    BY <1>2 DEF NumberedUpTo
  <2>2. n - 1 \in indexes /\ top(n - 1) /\ TurnsOf(s) # {}
    BY <2>1 DEF NumberedUpTo
  <2>3. ASSUME NEW i \in indexes, top(i) PROVE i = n - 1
    <3>1. i \in 0..(n - 1)
      BY DEF NumberedUpTo
    <3>2. n - 1 <= i
      BY <2>1, <2>3
    <3> QED BY <3>1, <3>2
  <2>4. highest = n - 1
    BY <2>2, <2>3
  <2>5. NextIndex(s) = 1 + highest
    BY <2>2 DEF NextIndex
  <2> HIDE DEF highest
  <2> QED BY <2>4, <2>5
<1> QED BY <1>1, <1>2

LEMMA LogTurnNumbered ==
  ASSUME Typed, Numbered, NEW t \in Threads, LogTurn(t)
  PROVE  Numbered'
<1> DEFINE own == threads[t].sid
<1>1. CASE Refused(t)
  BY <1>1 DEF Refused, Numbered, NumberedUpTo, TurnsOf
<1>2. CASE Logged(t)
  <2>1. own \in Sids
    BY DEF Typed, WellFormed, LogTurn
  <2>2. PICK n \in Nat : NumberedUpTo(own, n)
    BY <2>1 DEF Numbered
  <2> DEFINE new == [session_id |-> own, turn_index |-> n,
                     request |-> threads[t].request, snapshot |-> threads[t].history]
  <2>3. turns' = turns \cup {new} /\ new.session_id = own /\ new.turn_index = n
    BY <1>2, <2>2, NextIndexIsFree DEF Logged
  <2> HIDE DEF new
  <2>4. ASSUME NEW s \in Sids PROVE \E m \in Nat : NumberedUpTo(s, m)'
    <3>1. CASE s # own
      <4>1. TurnsOf(s)' = TurnsOf(s)
        BY <2>3, <3>1 DEF TurnsOf
      <4> QED BY <4>1 DEF Numbered, NumberedUpTo
    <3>2. CASE s = own
      <4>1. TurnsOf(s)' = TurnsOf(s) \cup {new}
        BY <2>3, <3>2 DEF TurnsOf
      <4>2. NumberedUpTo(s, n + 1)'
        BY <2>2, <2>3, <3>2, <4>1 DEF NumberedUpTo
      <4> QED BY <4>2
    <3> QED BY <3>1, <3>2
  <2> QED BY <2>4 DEF Numbered
<1> QED BY <1>1, <1>2 DEF LogTurn

\* Deletion takes all the turns of a session or none.
LEMMA DropNumbered ==
  ASSUME Numbered, NEW gone, Drop(gone)
  PROVE  Numbered'
<1> SUFFICES ASSUME NEW s \in Sids PROVE \E n \in Nat : NumberedUpTo(s, n)'
  BY DEF Numbered
<1>1. CASE s \in gone
  <2>1. TurnsOf(s)' = {}
    BY <1>1 DEF Drop, TurnsOf
  <2>2. NumberedUpTo(s, 0)'
    BY <2>1 DEF NumberedUpTo
  <2> QED BY <2>2
<1>2. CASE s \notin gone
  <2>1. TurnsOf(s)' = TurnsOf(s)
    BY <1>2 DEF Drop, TurnsOf
  <2> QED BY <2>1 DEF Numbered, NumberedUpTo
<1> QED BY <1>1, <1>2

LEMMA UnchangedNumbered ==
  ASSUME Numbered, UNCHANGED turns
  PROVE  Numbered'
BY DEF Numbered, NumberedUpTo, TurnsOf

(***************************************************************************)
(* The invariant and what follows from it                                  *)
(***************************************************************************)

TurnsLinked == \A turn \in turns : sessions[turn.session_id] # None

IInv == Typed /\ Numbered /\ TurnsLinked

LEMMA IInvInit == Init => IInv
<1> SUFFICES ASSUME Init PROVE IInv
  OBVIOUS
<1>1. Numbered
  <2>1. \A s \in Sids : NumberedUpTo(s, 0)
    BY DEF Init, NumberedUpTo, TurnsOf
  <2> QED BY <2>1 DEF Numbered
<1>2. TurnsLinked
  BY DEF Init, TurnsLinked
<1> QED BY <1>1, <1>2, TypedInit DEF IInv

LEMMA DropLinked ==
  ASSUME IInv, NEW gone, Drop(gone)
  PROVE  TurnsLinked'
BY DEF IInv, TurnsLinked, Drop, Typed, TypeOK, Turn

LEMMA IInvStep == IInv /\ [Next]_vars => IInv'
<1> SUFFICES ASSUME IInv, [Next]_vars PROVE IInv'
  OBVIOUS
<1> USE DEF IInv
<1>1. CASE \E t \in Threads, s \in Sids, p \in Payloads : BeginAdvance(t, s, p)
  <2> PICK t \in Threads, s \in Sids, p \in Payloads : BeginAdvance(t, s, p)
    BY <1>1
  <2> QED BY BeginAdvanceTyped, UnchangedNumbered DEF BeginAdvance, tables, TurnsLinked
<1>2. CASE \E t \in Threads, mode \in Modes : BeginCreate(t, mode)
  <2> PICK t \in Threads, mode \in Modes : BeginCreate(t, mode)
    BY <1>2
  <2>1. NewSession(mode, FirstWeeks) \in Session
    BY WeeksAssumption, NewSessionType DEF Session
  <2> QED BY <2>1, BeginSaveOfNewTyped, UnchangedNumbered
          DEF BeginCreate, BeginSaveOfNew, tables, TurnsLinked
<1>3. CASE \E t \in Threads, s \in Sids : BeginFork(t, s)
  <2> PICK t \in Threads, s \in Sids : BeginFork(t, s)
    BY <1>3
  <2>1. Forked(sessions[s].session) \in Session
    BY ForkedType DEF BeginFork, Typed, TypeOK, Row, Session
  <2> QED BY <2>1, BeginSaveOfNewTyped, UnchangedNumbered
          DEF BeginFork, BeginSaveOfNew, tables, TurnsLinked
<1>4. ASSUME NEW t \in Threads, SavePlan(t) PROVE IInv'
  BY <1>4, SavePlanTyped, UnchangedNumbered DEF SavePlan, TurnsLinked
<1>5. ASSUME NEW t \in Threads, SaveSession(t) PROVE IInv'
  <2>1. TurnsLinked'
    <3>1. PICK row \in Row : sessions' = [sessions EXCEPT ![threads[t].sid] = row]
      BY <1>5, SavedRow
    <3>2. row # None /\ UNCHANGED turns
      BY <1>5, RowAssumption DEF SaveSession
    <3> QED BY <3>1, <3>2 DEF TurnsLinked, Typed, TypeOK, Turn
  <2> QED BY <1>5, <2>1, SaveSessionTyped, UnchangedNumbered DEF SaveSession
<1>6. ASSUME NEW t \in Threads, SweepPlans(t) PROVE IInv'
  BY <1>6, SweepPlansTyped, UnchangedNumbered DEF SweepPlans, TurnsLinked
<1>7. ASSUME NEW t \in Threads, SweepSessions(t) PROVE IInv'
  BY <1>7, SweepSessionsTyped, DropNumbered, DropLinked DEF SweepSessions
<1>8. ASSUME NEW t \in Threads, LogTurn(t) PROVE IInv'
  <2>1. \A s \in Sids : NextIndex(s) \in Nat
    BY NextIndexIsFree DEF Numbered
  <2>2. TurnsLinked'
    BY <1>8 DEF LogTurn, Logged, Refused, TurnsLinked
  <2> QED BY <1>8, <2>1, <2>2, LogTurnTyped, LogTurnNumbered
<1>9. CASE \E s \in Sids : DeleteSession(s)
  <2> PICK s \in Sids : DeleteSession(s)
    BY <1>9
  <2>1. Typed'
    BY DropTyped DEF DeleteSession, Drop, Typed, TypeOK
  <2> QED BY <2>1, DropNumbered, DropLinked DEF DeleteSession
<1>10. CASE Tick
  <2>1. Typed'
    BY <1>10, ServiceAssumption DEF Tick, Typed, TypeOK, Times, tables, ghosts
  <2> QED BY <1>10, <2>1, UnchangedNumbered DEF Tick, tables, TurnsLinked
<1>11. CASE Crash
  BY <1>11, CrashTyped, UnchangedNumbered DEF Crash, tables, TurnsLinked
<1>12. CASE UNCHANGED vars
  BY <1>12, UnchangedNumbered DEF vars, tables, ghosts, TurnsLinked, Typed, TypeOK
<1> QED BY <1>1, <1>2, <1>3, <1>4, <1>5, <1>6, <1>7, <1>8, <1>9, <1>10, <1>11, <1>12
        DEF Next, Write

THEOREM Invariance == Spec => []IInv
BY IInvInit, IInvStep, PTL DEF Spec

\* Every variable keeps its type, in particular every advance leaves a session
\* at a step of its own mode.
THEOREM TypeCorrect == Spec => []TypeOK
BY Invariance, PTL DEF IInv, Typed

\* storage.log_turn numbers the turns of a session without gaps or repeats.
THEOREM GaplessTurns == Spec => []TurnsGapless
<1>1. ASSUME IInv PROVE TurnsGapless
  <2>1. ASSUME NEW a \in turns
        PROVE  /\ a \in TurnsOf(a.session_id)
               /\ \E n \in Nat : NumberedUpTo(a.session_id, n)
    BY <1>1 DEF IInv, Typed, TypeOK, Turn, Numbered, TurnsOf
  <2>2. ASSUME NEW a \in turns, NEW b \in turns,
               a.session_id = b.session_id, a.turn_index = b.turn_index
        PROVE  a = b
    BY <2>1, <2>2 DEF NumberedUpTo
  <2>3. ASSUME NEW a \in turns, NEW i \in 0..(a.turn_index - 1)
        PROVE  \E b \in turns : b.session_id = a.session_id /\ b.turn_index = i
    <3>1. PICK n \in Nat : NumberedUpTo(a.session_id, n)
      BY <2>1
    <3>2. i \in 0..(n - 1)
      BY <2>1, <3>1 DEF NumberedUpTo
    <3> QED BY <3>1, <3>2 DEF NumberedUpTo, TurnsOf
  <2> QED BY <2>2, <2>3 DEF TurnsGapless
<1> QED BY <1>1, Invariance, PTL

\* No turn outlives its session.
THEOREM TurnsNeverOrphaned == Spec => []TurnsHaveSession
<1>1. IInv => TurnsHaveSession
  BY DEF IInv, Typed, TypeOK, Turn, TurnsLinked, TurnsHaveSession, Stored
<1> QED BY <1>1, Invariance, PTL

(***************************************************************************)
(* The plan a session points at                                            *)
(***************************************************************************)

\* Session x, stored as s or about to be, points at no plan, at a plan of its
\* own, or at one that was removed; not at one that is still to be saved, where
\* ps are the plans, ths the threads and u what is used up.
Linked(x, s, ps, ths, u) ==
  x.plan_id # None =>
    /\ x.plan_id <= u.reqs
    /\ \A t \in Threads : ths[t].pc = "save_plan" => ths[t].request # x.plan_id
    /\ ps[x.plan_id] # None => ps[x.plan_id].brief_id = s /\ ps[x.plan_id].kind = x.mode

RequestsDistinct ==
  \A t, u \in Threads :
    t # u /\ threads[t].request # None => threads[u].request # threads[t].request

StoredLinked ==
  \A s \in Sids : sessions[s] # None =>
    Linked(sessions[s].session, s, plans, threads, used)
HeldLinked ==
  \A t \in Threads : threads[t].pc # "idle" =>
    Linked(threads[t].session, threads[t].sid, plans, threads, used)

LInv == RequestsDistinct /\ StoredLinked /\ HeldLinked

\* What a step may do to the plans: save the one of a thread at save_plan, or
\* remove some; and only a new number gets to save_plan.
PlansMove ==
  /\ used'.reqs \in Int /\ used'.reqs >= used.reqs
  /\ \A p \in Pids :
       \/ plans'[p] = plans[p]
       \/ plans'[p] = None
       \/ \E t \in Threads : threads[t].pc = "save_plan" /\ threads[t].request = p
  /\ \A t \in Threads : threads'[t].pc = "save_plan" =>
       \/ threads[t].pc = "save_plan" /\ threads'[t].request = threads[t].request
       \/ threads'[t].request \in Int /\ threads'[t].request > used.reqs

LEMMA LinkedKept ==
  ASSUME Typed, PlansMove
  PROVE  \A x \in Session : \A s :
           Linked(x, s, plans, threads, used) => Linked(x, s, plans', threads', used')
<1> SUFFICES ASSUME NEW x \in Session, NEW s, Linked(x, s, plans, threads, used),
                    x.plan_id # None
    PROVE  /\ x.plan_id <= used'.reqs
           /\ \A t \in Threads :
                threads'[t].pc = "save_plan" => threads'[t].request # x.plan_id
           /\ plans'[x.plan_id] # None =>
                plans'[x.plan_id].brief_id = s /\ plans'[x.plan_id].kind = x.mode
  BY DEF Linked
<1>1. x.plan_id \in Pids /\ x.plan_id \in Int /\ used.reqs \in Int /\ x.plan_id <= used.reqs
  BY DEF Session, SessionOver, Pids, Reqs, Linked, Typed, TypeOK
<1>2. x.plan_id <= used'.reqs
  BY <1>1 DEF PlansMove
<1>3. \A t \in Threads : threads'[t].pc = "save_plan" => threads'[t].request # x.plan_id
  BY <1>1 DEF PlansMove, Linked
<1>4. plans'[x.plan_id] = plans[x.plan_id] \/ plans'[x.plan_id] = None
  BY <1>1 DEF PlansMove, Linked
<1> QED BY <1>2, <1>3, <1>4 DEF Linked

\* A step that changes the thread t only, to th, and no session but maybe
\* the one t stores, keeps the links when th is linked.
LEMMA LinksOneThread ==
  ASSUME Typed, LInv, PlansMove, NEW t \in Threads, NEW th,
         threads' = [threads EXCEPT ![t] = th],
         \/ th.request = threads[t].request
         \/ th.request = None
         \/ th.request \in Int /\ th.request > used.reqs,
         th.pc # "idle" => Linked(th.session, th.sid, plans', threads', used'),
         \A s \in Sids : sessions'[s] # None =>
           \/ sessions[s] # None /\ sessions'[s].session = sessions[s].session
           \/ threads[t].pc # "idle" /\ s = threads[t].sid
                /\ sessions'[s].session = threads[t].session
  PROVE  LInv'
<1>1. ASSUME NEW s \in Sids, sessions'[s] # None
      PROVE  Linked(sessions'[s].session, s, plans', threads', used')
  <2>1. CASE sessions[s] # None /\ sessions'[s].session = sessions[s].session
    <3>1. /\ sessions[s].session \in Session
          /\ Linked(sessions[s].session, s, plans, threads, used)
      BY <2>1 DEF LInv, StoredLinked, Typed, TypeOK, Row
    <3> QED BY <2>1, <3>1, LinkedKept
  <2>2. CASE threads[t].pc # "idle" /\ s = threads[t].sid
                /\ sessions'[s].session = threads[t].session
    <3>1. threads[t].session \in Session /\ Linked(threads[t].session, s, plans, threads, used)
      BY <2>2 DEF LInv, HeldLinked, Typed, WellFormed
    <3> QED BY <2>2, <3>1, LinkedKept
  <2> QED BY <1>1, <2>1, <2>2
<1>2. ASSUME NEW u \in Threads, threads'[u].pc # "idle"
      PROVE  Linked(threads'[u].session, threads'[u].sid, plans', threads', used')
  <2>1. CASE u = t
    <3>1. threads'[t] = th
      BY DEF Typed, TypeOK
    <3> QED BY <1>2, <2>1, <3>1
  <2>2. CASE u # t
    <3>1. threads'[u] = threads[u]
      BY <2>2 DEF Typed, TypeOK
    <3>2. /\ threads[u].session \in Session
          /\ Linked(threads[u].session, threads[u].sid, plans, threads, used)
      BY <1>2, <3>1 DEF LInv, HeldLinked, Typed, WellFormed
    <3> QED BY <3>1, <3>2, LinkedKept
  <2> QED BY <2>1, <2>2
<1>3. RequestsDistinct'
  <2>1. ASSUME NEW u \in Threads, threads[u].request # None
        PROVE  threads[u].request \in Int /\ threads[u].request <= used.reqs
    BY <2>1 DEF Typed, TypeOK, WellFormed, Thread, Reqs
  <2>2. \A u \in Threads : threads'[u] = IF u = t THEN th ELSE threads[u]
    BY DEF Typed, TypeOK
  <2>3. used.reqs \in Int
    BY DEF Typed, TypeOK
  <2> QED BY <2>1, <2>2, <2>3 DEF LInv, RequestsDistinct
<1> QED BY <1>1, <1>2, <1>3 DEF LInv, StoredLinked, HeldLinked

\* The same when the threads stay, or all of them stop, and rows only go.
LEMMA LinksRowsGo ==
  ASSUME Typed, LInv, PlansMove,
         threads' = threads \/ threads' = [t \in Threads |-> Idle],
         \A s \in Sids : sessions'[s] \in {None, sessions[s]}
  PROVE  LInv'
<1>1. ASSUME NEW s \in Sids, sessions'[s] # None
      PROVE  Linked(sessions'[s].session, s, plans', threads', used')
  <2>1. /\ sessions[s].session \in Session /\ sessions'[s] = sessions[s]
        /\ Linked(sessions[s].session, s, plans, threads, used)
    BY <1>1 DEF LInv, StoredLinked, Typed, TypeOK, Row
  <2> QED BY <2>1, LinkedKept
<1>2. ASSUME NEW u \in Threads, threads'[u].pc # "idle"
      PROVE  Linked(threads'[u].session, threads'[u].sid, plans', threads', used')
  <2>1. threads'[u] = threads[u]
    BY <1>2, IdleType
  <2>2. /\ threads[u].session \in Session
        /\ Linked(threads[u].session, threads[u].sid, plans, threads, used)
    BY <1>2, <2>1 DEF LInv, HeldLinked, Typed, WellFormed
  <2> QED BY <2>1, <2>2, LinkedKept
<1>3. RequestsDistinct'
  BY IdleType DEF LInv, RequestsDistinct
<1> QED BY <1>1, <1>2, <1>3 DEF LInv, StoredLinked, HeldLinked

\* What follows from the types in the steps that leave the numbers alone.
LEMMA PlansMoveWrites ==
  ASSUME Typed, UNCHANGED used,
         \A t \in Threads : threads'[t].pc = "save_plan" => threads'[t] = threads[t],
         \A p \in Pids :
           \/ plans'[p] = plans[p]
           \/ plans'[p] = None
           \/ \E t \in Threads : threads[t].pc = "save_plan" /\ threads[t].request = p
  PROVE  PlansMove
BY DEF PlansMove, Typed, TypeOK

LEMMA BeginAdvanceLinks ==
  ASSUME Typed, LInv, NEW t \in Threads, NEW s \in Sids, NEW p \in Payloads,
         BeginAdvance(t, s, p)
  PROVE  LInv'
<1> DEFINE read == sessions[s].session
           r == used.reqs + 1
           pc == IF MakesPlan(read, p) THEN "save_plan" ELSE "save_session"
           th == [Idle EXCEPT !.pc = pc, !.sid = s, !.request = r,
                              !.session = Landed(read, p),
                              !.history = Append(sessions[s].history, r)]
<1>1. /\ used.reqs \in Int /\ r \in Int /\ r > used.reqs
      /\ used'.reqs = r /\ used'.reqs >= used.reqs
  BY DEF Typed, TypeOK, BeginAdvance
<1>2. /\ th.request = r /\ th.sid = s /\ th.session = Landed(read, p)
      /\ threads' = [threads EXCEPT ![t] = th]
  BY DEF BeginAdvance, Idle
<1>3. read \in Session /\ Linked(read, s, plans, threads, used)
  BY DEF BeginAdvance, LInv, StoredLinked, Typed, TypeOK, Row
<1>4. Landed(read, p).plan_id = read.plan_id /\ Landed(read, p).mode = read.mode
  BY <1>3, LandedType, ServiceAssumption DEF BeginAdvance, Session
<1> HIDE DEF th, read, r
<1>5. \A u \in Threads : threads'[u] = IF u = t THEN th ELSE threads[u]
  BY <1>2 DEF Typed, TypeOK
<1>6. PlansMove
  BY <1>1, <1>2, <1>5 DEF PlansMove, BeginAdvance, tables
<1>7. Linked(read, s, plans', threads', used')
  BY <1>3, <1>6, LinkedKept
<1>8. Linked(th.session, th.sid, plans', threads', used')
  BY <1>2, <1>4, <1>7 DEF Linked
<1>9. UNCHANGED sessions
  BY DEF BeginAdvance, tables
<1> QED BY <1>1, <1>2, <1>6, <1>8, <1>9, LinksOneThread

LEMMA BeginSaveOfNewLinks ==
  ASSUME Typed, LInv, NEW t \in Threads, NEW x \in Session, x.plan_id = None,
         BeginSaveOfNew(t, x)
  PROVE  LInv'
<1> DEFINE th == [Idle EXCEPT !.pc = "save_session", !.sid = used.sids + 1,
                              !.session = x, !.project = "chosen"]
<1>1. /\ th.request = None /\ th.session = x /\ th.pc = "save_session"
      /\ threads' = [threads EXCEPT ![t] = th]
  BY DEF BeginSaveOfNew, Idle
<1> HIDE DEF th
<1>2. \A u \in Threads : threads'[u] = IF u = t THEN th ELSE threads[u]
  BY <1>1 DEF Typed, TypeOK
<1>3. used'.reqs = used.reqs /\ used.reqs \in Int /\ UNCHANGED <<sessions, plans>>
  BY DEF BeginSaveOfNew, Typed, TypeOK, tables
<1>4. PlansMove
  BY <1>1, <1>2, <1>3 DEF PlansMove
<1>5. Linked(th.session, th.sid, plans', threads', used')
  BY <1>1 DEF Linked
<1> QED BY <1>1, <1>3, <1>4, <1>5, LinksOneThread

LEMMA SavePlanLinks ==
  ASSUME Typed, LInv, NEW t \in Threads, SavePlan(t)
  PROVE  LInv'
<1> DEFINE th == threads[t]
           id == th.request
           new == [th EXCEPT !.pc = "save_session", !.session.plan_id = id]
<1>1. /\ th \in Thread /\ th.session \in Session /\ id \in Pids /\ id # None /\ id <= used.reqs
      /\ th.pc = "save_plan"
  BY DEF Typed, TypeOK, WellFormed, SavePlan, Thread, Pids
<1>2. /\ new.request = id /\ new.sid = th.sid /\ new.pc = "save_session"
      /\ new.session.plan_id = id /\ new.session.mode = th.session.mode
      /\ threads' = [threads EXCEPT ![t] = new]
  BY <1>1 DEF SavePlan, Thread, Session, SessionOver
<1> HIDE DEF new
<1>3. \A u \in Threads : threads'[u] = IF u = t THEN new ELSE threads[u]
  BY <1>2 DEF Typed, TypeOK
<1>4. /\ plans'[id].brief_id = th.sid /\ plans'[id].kind = th.session.mode
      /\ \A p \in Pids : p # id => plans'[p] = plans[p]
  BY <1>1 DEF SavePlan, PlanFor, Typed, TypeOK
<1>5. PlansMove
  BY <1>1, <1>2, <1>3, <1>4, PlansMoveWrites DEF SavePlan
<1>6. \A u \in Threads : threads'[u].pc = "save_plan" => threads'[u].request # id
  BY <1>1, <1>2, <1>3 DEF LInv, RequestsDistinct
<1>7. Linked(new.session, new.sid, plans', threads', used')
  BY <1>1, <1>2, <1>4, <1>6 DEF Linked, SavePlan
<1>8. UNCHANGED sessions
  BY DEF SavePlan
<1> QED BY <1>2, <1>5, <1>7, <1>8, LinksOneThread

LEMMA SaveSessionLinks ==
  ASSUME Typed, LInv, NEW t \in Threads, SaveSession(t)
  PROVE  LInv'
<1> DEFINE th == threads[t]
           new == [th EXCEPT !.pc = "sweep_plans"]
<1>1. /\ new.request = th.request /\ new.sid = th.sid /\ new.session = th.session
      /\ new.pc = "sweep_plans" /\ th.pc = "save_session"
      /\ threads' = [threads EXCEPT ![t] = new]
  BY DEF SaveSession, Typed, TypeOK, Thread
<1> HIDE DEF new
<1>2. \A u \in Threads : threads'[u] = IF u = t THEN new ELSE threads[u]
  BY <1>1 DEF Typed, TypeOK
<1>3. PlansMove
  BY <1>1, <1>2, PlansMoveWrites DEF SaveSession
<1>4. th.session \in Session /\ Linked(th.session, th.sid, plans, threads, used)
  BY <1>1 DEF LInv, HeldLinked, Typed, WellFormed
<1>5. Linked(new.session, new.sid, plans', threads', used')
  BY <1>1, <1>3, <1>4, LinkedKept
<1>6. PICK row \in Row : /\ sessions' = [sessions EXCEPT ![th.sid] = row]
                        /\ row.session = th.session
  BY SavedRow
<1>7. ASSUME NEW s \in Sids, sessions'[s] # None
      PROVE  \/ sessions[s] # None /\ sessions'[s].session = sessions[s].session
             \/ s = th.sid /\ sessions'[s].session = th.session
  BY <1>6, <1>7 DEF Typed, TypeOK
<1> QED BY <1>1, <1>3, <1>5, <1>7, LinksOneThread

LEMMA SweepPlansLinks ==
  ASSUME Typed, LInv, NEW t \in Threads, SweepPlans(t)
  PROVE  LInv'
<1> DEFINE th == threads[t]
           new == [th EXCEPT !.pc = "sweep_sessions", !.cutoff = clock - TTL]
<1>1. /\ new.request = th.request /\ new.sid = th.sid /\ new.session = th.session
      /\ new.pc = "sweep_sessions" /\ th.pc = "sweep_plans"
      /\ threads' = [threads EXCEPT ![t] = new]
  BY DEF SweepPlans, Typed, TypeOK, Thread
<1> HIDE DEF new
<1>2. \A u \in Threads : threads'[u] = IF u = t THEN new ELSE threads[u]
  BY <1>1 DEF Typed, TypeOK
<1>3. \A p \in Pids : plans'[p] = plans[p] \/ plans'[p] = None
  BY DEF SweepPlans
<1>4. PlansMove
  BY <1>1, <1>2, <1>3, PlansMoveWrites DEF SweepPlans
<1>5. th.session \in Session /\ Linked(th.session, th.sid, plans, threads, used)
  BY <1>1 DEF LInv, HeldLinked, Typed, WellFormed
<1>6. Linked(new.session, new.sid, plans', threads', used')
  BY <1>1, <1>4, <1>5, LinkedKept
<1>7. UNCHANGED sessions
  BY DEF SweepPlans
<1> QED BY <1>1, <1>4, <1>6, <1>7, LinksOneThread

LEMMA SweepSessionsLinks ==
  ASSUME Typed, LInv, NEW t \in Threads, SweepSessions(t)
  PROVE  LInv'
<1> DEFINE th == threads[t]
           new == IF th.request = None THEN Idle ELSE [th EXCEPT !.pc = "log_turn"]
<1>1. /\ new.request = th.request
      /\ new.pc # "idle" =>
           new.sid = th.sid /\ new.session = th.session /\ new.pc = "log_turn"
      /\ th.pc = "sweep_sessions"
      /\ threads' = [threads EXCEPT ![t] = new]
  BY IdleType DEF SweepSessions, Typed, TypeOK, Thread
<1>2. new.pc # "save_plan"
  BY <1>1
<1> HIDE DEF new
<1>3. \A u \in Threads : threads'[u] = IF u = t THEN new ELSE threads[u]
  BY <1>1 DEF Typed, TypeOK
<1>4. PlansMove
  BY <1>2, <1>3, PlansMoveWrites DEF SweepSessions
<1>5. th.session \in Session /\ Linked(th.session, th.sid, plans, threads, used)
  BY <1>1 DEF LInv, HeldLinked, Typed, WellFormed
<1>6. new.pc # "idle" => Linked(new.session, new.sid, plans', threads', used')
  BY <1>1, <1>4, <1>5, LinkedKept
<1>7. ASSUME NEW s \in Sids, sessions'[s] # None PROVE sessions'[s] = sessions[s]
  BY <1>7 DEF SweepSessions, Drop
<1> QED BY <1>1, <1>4, <1>6, <1>7, LinksOneThread

LEMMA LogTurnLinks ==
  ASSUME Typed, LInv, NEW t \in Threads, LogTurn(t)
  PROVE  LInv'
<1>1. threads' = [threads EXCEPT ![t] = Idle] /\ UNCHANGED <<sessions, plans, used>>
  BY DEF LogTurn, Logged, Refused
<1>2. \A u \in Threads : threads'[u] = IF u = t THEN Idle ELSE threads[u]
  BY <1>1 DEF Typed, TypeOK
<1>3. PlansMove
  BY <1>1, <1>2, IdleType, PlansMoveWrites
<1> QED BY <1>1, <1>3, IdleType, LinksOneThread

LEMMA LInvInit == Init => LInv
<1> SUFFICES ASSUME Init PROVE LInv
  OBVIOUS
<1>1. \A t \in Threads : threads[t].request = None /\ threads[t].pc = "idle"
  BY IdleType DEF Init
<1>2. ASSUME NEW s \in Sids, sessions[s] # None
      PROVE  Linked(sessions[s].session, s, plans, threads, used)
  <2>1. sessions[s].session.plan_id = None
    BY <1>2, ServiceAssumption DEF Init, Sids
  <2> QED BY <2>1 DEF Linked
<1> QED BY <1>1, <1>2 DEF LInv, RequestsDistinct, StoredLinked, HeldLinked

LEMMA LInvStep == IInv /\ LInv /\ [Next]_vars => LInv'
<1> SUFFICES ASSUME Typed, LInv, [Next]_vars PROVE LInv'
  BY DEF IInv
<1>1. CASE \E t \in Threads, s \in Sids, p \in Payloads : BeginAdvance(t, s, p)
  BY <1>1, BeginAdvanceLinks
<1>2. CASE \E t \in Threads, mode \in Modes : BeginCreate(t, mode)
  <2> PICK t \in Threads, mode \in Modes : BeginCreate(t, mode)
    BY <1>2
  <2>1. NewSession(mode, FirstWeeks) \in Session /\ NewSession(mode, FirstWeeks).plan_id = None
    BY WeeksAssumption, NewSessionType DEF Session
  <2> QED BY <2>1, BeginSaveOfNewLinks DEF BeginCreate
<1>3. CASE \E t \in Threads, s \in Sids : BeginFork(t, s)
  <2> PICK t \in Threads, s \in Sids : BeginFork(t, s)
    BY <1>3
  <2>1. Forked(sessions[s].session) \in Session /\ Forked(sessions[s].session).plan_id = None
    BY ForkedType DEF BeginFork, Typed, TypeOK, Row, Session
  <2> QED BY <2>1, BeginSaveOfNewLinks DEF BeginFork
<1>4. CASE \E t \in Threads : Write(t)
  BY <1>4, SavePlanLinks, SaveSessionLinks, SweepPlansLinks, SweepSessionsLinks, LogTurnLinks
     DEF Write
<1>5. CASE \E s \in Sids : DeleteSession(s)
  <2>1. UNCHANGED <<plans, threads, used>> /\ \A s \in Sids : sessions'[s] \in {None, sessions[s]}
    BY <1>5 DEF DeleteSession, Drop
  <2>2. PlansMove
    BY <2>1, PlansMoveWrites
  <2> QED BY <2>1, <2>2, LinksRowsGo
<1>6. CASE Tick
  <2>1. UNCHANGED <<plans, threads, used, sessions>>
    BY <1>6 DEF Tick, tables
  <2>2. PlansMove
    BY <2>1, PlansMoveWrites
  <2> QED BY <2>1, <2>2, LinksRowsGo
<1>7. CASE Crash
  <2>1. UNCHANGED <<plans, used, sessions>> /\ threads' = [t \in Threads |-> Idle]
    BY <1>7 DEF Crash, tables
  <2>2. PlansMove
    BY <2>1, IdleType, PlansMoveWrites
  <2> QED BY <2>1, <2>2, LinksRowsGo
<1>8. CASE UNCHANGED vars
  <2>1. UNCHANGED <<plans, threads, used, sessions>>
    BY <1>8 DEF vars, tables
  <2>2. PlansMove
    BY <2>1, PlansMoveWrites
  <2> QED BY <2>1, <2>2, LinksRowsGo
<1> QED BY <1>1, <1>2, <1>3, <1>4, <1>5, <1>6, <1>7, <1>8 DEF Next

\* A session points at no other session's plan and at none still to be saved,
\* whatever overlaps, is swept or dies.
THEOREM LinkedPlans == Spec => []LinkedPlanIsOwn
<1>1. LInv => LinkedPlanIsOwn
  BY DEF LInv, StoredLinked, Linked, LinkedPlanIsOwn, Stored
<1>2. Spec => []LInv
  <2>1. IInv /\ LInv /\ [Next]_vars => LInv'
    BY LInvStep
  <2> QED BY LInvInit, <2>1, Invariance, PTL DEF Spec
<1> QED BY <1>1, <1>2, PTL

(***************************************************************************)
(* The session being saved                                                 *)
(***************************************************************************)

Sweeping(th) == th.pc \in {"sweep_plans", "sweep_sessions"}

\* A thread that sweeps holds the lock, and its session is stored.
SweepersHoldLock ==
  \A t \in Threads : Sweeping(threads[t]) => lock = t /\ sessions[threads[t].sid] # None

\* A step that leaves the lock and the rows, and makes no thread sweep.
LEMMA SweepersKept ==
  ASSUME Typed, SweepersHoldLock, UNCHANGED <<lock, sessions>>,
         NEW t \in Threads, NEW th, threads' = [threads EXCEPT ![t] = th],
         Sweeping(th) => Sweeping(threads[t]) /\ th.sid = threads[t].sid
  PROVE  SweepersHoldLock'
<1>1. \A u \in Threads : threads'[u] = IF u = t THEN th ELSE threads[u]
  BY DEF Typed, TypeOK
<1> QED BY <1>1 DEF SweepersHoldLock

LEMMA SweepersStep == IInv /\ SweepersHoldLock /\ [Next]_vars => SweepersHoldLock'
<1> SUFFICES ASSUME Typed, SweepersHoldLock, [Next]_vars PROVE SweepersHoldLock'
  BY DEF IInv
<1>1. ASSUME NEW t \in Threads, NEW s \in Sids, NEW p \in Payloads, BeginAdvance(t, s, p)
      PROVE  SweepersHoldLock'
  <2> DEFINE pc == IF MakesPlan(sessions[s].session, p) THEN "save_plan" ELSE "save_session"
             th == [Idle EXCEPT !.pc = pc, !.sid = s, !.request = used.reqs + 1,
                                !.session = Landed(sessions[s].session, p),
                                !.history = Append(sessions[s].history, used.reqs + 1)]
  <2>1. /\ threads' = [threads EXCEPT ![t] = th] /\ UNCHANGED <<lock, sessions>>
        /\ ~Sweeping(th)
    BY <1>1 DEF BeginAdvance, tables, Idle, Sweeping
  <2> HIDE DEF th
  <2> QED BY <2>1, SweepersKept
<1>2. ASSUME NEW t \in Threads, NEW x, BeginSaveOfNew(t, x) PROVE SweepersHoldLock'
  <2> DEFINE th == [Idle EXCEPT !.pc = "save_session", !.sid = used.sids + 1,
                                !.session = x, !.project = "chosen"]
  <2>1. /\ threads' = [threads EXCEPT ![t] = th] /\ UNCHANGED <<lock, sessions>>
        /\ ~Sweeping(th)
    BY <1>2 DEF BeginSaveOfNew, tables, Idle, Sweeping
  <2> HIDE DEF th
  <2> QED BY <2>1, SweepersKept
<1>3. ASSUME NEW t \in Threads, SavePlan(t) PROVE SweepersHoldLock'
  <2> DEFINE th == [threads[t] EXCEPT !.pc = "save_session",
                                      !.session.plan_id = threads[t].request]
  <2>1. /\ threads' = [threads EXCEPT ![t] = th] /\ UNCHANGED <<lock, sessions>>
        /\ ~Sweeping(th)
    BY <1>3 DEF SavePlan, Sweeping, Typed, TypeOK, Thread
  <2> HIDE DEF th
  <2> QED BY <2>1, SweepersKept
<1>4. ASSUME NEW t \in Threads, SaveSession(t) PROVE SweepersHoldLock'
  <2>1. PICK row \in Row : sessions' = [sessions EXCEPT ![threads[t].sid] = row]
    BY <1>4, SavedRow
  <2>2. threads[t].sid \in Sids /\ row # None
    BY <1>4, SavedRow, RowAssumption
  <2>3. /\ lock = None /\ lock' = t
        /\ \A u \in Threads : threads'[u] = IF u = t THEN [threads[t] EXCEPT !.pc = "sweep_plans"]
                                              ELSE threads[u]
    BY <1>4 DEF SaveSession, Typed, TypeOK
  <2>4. \A u \in Threads : ~Sweeping(threads[u])
    BY <2>3, ThreadsAssumption DEF SweepersHoldLock
  <2>5. threads'[t].sid = threads[t].sid
    BY <2>3 DEF Typed, TypeOK, Thread
  <2>6. sessions'[threads[t].sid] # None
    BY <2>1, <2>2 DEF Typed, TypeOK
  <2> QED BY <2>3, <2>4, <2>5, <2>6 DEF SweepersHoldLock
<1>5. ASSUME NEW t \in Threads, SweepPlans(t) PROVE SweepersHoldLock'
  <2> DEFINE th == [threads[t] EXCEPT !.pc = "sweep_sessions", !.cutoff = clock - TTL]
  <2>1. /\ threads' = [threads EXCEPT ![t] = th] /\ UNCHANGED <<lock, sessions>>
        /\ Sweeping(threads[t]) /\ th.sid = threads[t].sid
    BY <1>5 DEF SweepPlans, Sweeping, Typed, TypeOK, Thread
  <2> HIDE DEF th
  <2> QED BY <2>1, SweepersKept
<1>6. ASSUME NEW t \in Threads, SweepSessions(t) PROVE SweepersHoldLock'
  <2>1. \A u \in Threads : u # t => threads'[u] = threads[u] /\ ~Sweeping(threads[u])
    BY <1>6 DEF SweepSessions, SweepersHoldLock, Sweeping, Typed, TypeOK
  <2>2. ~Sweeping(threads'[t])
    BY <1>6, IdleType DEF SweepSessions, Sweeping, Typed, TypeOK, Thread
  <2> QED BY <2>1, <2>2 DEF SweepersHoldLock
<1>7. ASSUME NEW t \in Threads, LogTurn(t) PROVE SweepersHoldLock'
  <2>1. /\ threads' = [threads EXCEPT ![t] = Idle] /\ UNCHANGED <<lock, sessions>>
        /\ ~Sweeping(Idle)
    BY <1>7, IdleType DEF LogTurn, Logged, Refused, Sweeping
  <2> QED BY <2>1, SweepersKept
<1>8. ASSUME NEW s \in Sids, DeleteSession(s) PROVE SweepersHoldLock'
  BY <1>8, ThreadsAssumption DEF DeleteSession, SweepersHoldLock
<1>9. CASE Tick \/ UNCHANGED vars
  BY <1>9 DEF Tick, vars, tables, SweepersHoldLock
<1>10. CASE Crash
  BY <1>10, IdleType DEF Crash, SweepersHoldLock, Sweeping
<1> QED BY <1>1, <1>2, <1>3, <1>4, <1>5, <1>6, <1>7, <1>8, <1>9, <1>10
        DEF Next, Write, BeginCreate, BeginFork

\* The sweep at the end of a save never takes the session saved, however late
\* it runs (keep_session_id of _sweep_stale; nobody else gets the lock).
THEOREM SavedSessionSurvives == Spec => OwnSessionSurvivesSweep
<1>1. Init => SweepersHoldLock
  BY IdleType DEF Init, SweepersHoldLock, Sweeping
<1>2. Spec => [](IInv /\ SweepersHoldLock)
  <2>1. IInv /\ SweepersHoldLock /\ [Next]_vars => SweepersHoldLock'
    BY SweepersStep
  <2> QED BY <1>1, <2>1, Invariance, PTL DEF Spec
<1>3. IInv /\ SweepersHoldLock =>
        \A t \in Threads : SweepSessions(t) => sessions'[threads[t].sid] # None
  BY DEF SweepSessions, Drop, Stale, SweepersHoldLock, Sweeping, IInv, Typed, WellFormed
<1>4. IInv /\ SweepersHoldLock /\ [Next]_vars =>
        [\A t \in Threads : SweepSessions(t) => sessions'[threads[t].sid] # None]_vars
  BY <1>3
<1> QED BY <1>2, <1>4, PTL DEF Spec, OwnSessionSurvivesSweep

(***************************************************************************)
(* Sessions nothing disturbs                                               *)
(***************************************************************************)

OwnPlans(s) == {p \in Pids : plans[p] # None /\ plans[p].brief_id = s}

\* The conversation that replays the requests of ack
Replay(s, ack) ==
  {[session_id |-> s, turn_index |-> i - 1, request |-> ack[i],
    snapshot |-> SubSeq(ack, 1, i)] : i \in 1..Len(ack)}

Advances(th, s) == th.request # None /\ th.sid = s
Creates(th)     == th.pc # "idle" /\ th.request = None

\* A row nobody advances holds what was acknowledged, and a manual session
\* has no plan but the one it points at.
AtRest(row, ack, own) ==
  /\ row.history = ack
  /\ row.session.mode = "manual" => own \subseteq {row.session.plan_id}

\* A thread that advances a session carries it one request on; with the row
\* saved it is the row.
Carries(th, row, ack, own) ==
  /\ th.history = Append(ack, th.request)
  /\ th.session.mode = row.session.mode
  /\ th.session.mode = "manual" =>
       /\ own \subseteq {th.session.plan_id}
       /\ th.pc = "save_plan" => th.session.plan_id = None
  /\ IF th.pc \in {"save_plan", "save_session"}
       THEN row.history = ack
       ELSE row.history = th.history /\ row.session = th.session

QuietAt(s) ==
  /\ \A t, u \in Threads : Advances(threads[t], s) /\ Advances(threads[u], s) => t = u
  /\ \A t \in Threads : Advances(threads[t], s) =>
       sessions[s] # None /\ Carries(threads[t], sessions[s], acked[s], OwnPlans(s))
  /\ sessions[s] # None => TurnsOf(s) = Replay(s, acked[s])
  /\ sessions[s] # None /\ ~InFlight(s) => AtRest(sessions[s], acked[s], OwnPlans(s))

Quiet == \A s \in Sids \ disturbed : QuietAt(s)

\* An id that was not handed out, or whose session is not stored yet, has left
\* no trace.
Unused(s) == sessions[s] = None /\ acked[s] = <<>> /\ OwnPlans(s) = {}

NewSessions ==
  /\ \A s \in Sids : s > used.sids => Unused(s)
  /\ \A t \in Threads : Creates(threads[t]) =>
       /\ threads[t].session.plan_id = None
       /\ threads[t].pc = "save_session" =>
            /\ threads[t].history = <<>>
            /\ Unused(threads[t].sid)
            /\ \A u \in Threads \ {t} :
                 threads[u].pc # "idle" => threads[u].sid # threads[t].sid

\* A step of one thread that writes no row, turn or plan of an unused id,
\* and starts to create no session
LEMMA NewSessionsKept ==
  ASSUME Typed, NewSessions, NEW t \in Threads, NEW th,
         threads' = [threads EXCEPT ![t] = th], used'.sids \in Int, used'.sids >= used.sids,
         Creates(th) => th.pc # "save_session" /\ th.session.plan_id = None,
         th.pc # "idle" => \/ threads[t].pc # "idle" /\ th.sid = threads[t].sid
                           \/ sessions[th.sid] # None,
         \A s \in Sids : Unused(s) =>
           \/ Unused(s)'
           \/ threads[t].pc # "idle" /\ threads[t].sid = s
  PROVE  NewSessions'
<1>1. used.sids \in Int /\ \A u \in Threads : WellFormed(threads[u], used)
  BY DEF Typed, TypeOK
<1>2. \A u \in Threads : threads'[u] = IF u = t THEN th ELSE threads[u]
  BY DEF Typed, TypeOK
<1>3. ASSUME NEW s \in Sids, s > used'.sids PROVE Unused(s)'
  BY <1>1, <1>3 DEF NewSessions, WellFormed, Sids
<1>4. ASSUME NEW u \in Threads, Creates(threads'[u]) PROVE threads'[u].session.plan_id = None
  BY <1>2, <1>4 DEF NewSessions
<1>5. ASSUME NEW u \in Threads, Creates(threads'[u]), threads'[u].pc = "save_session"
      PROVE  /\ threads'[u].history = <<>>
             /\ Unused(threads[u].sid)'
             /\ \A w \in Threads \ {u} :
                  threads'[w].pc # "idle" => threads'[w].sid # threads'[u].sid
  <2>1. u # t /\ threads'[u] = threads[u]
    BY <1>2, <1>5
  <2>2. PICK s \in Sids : s = threads[u].sid
    BY <1>1, <1>5, <2>1 DEF WellFormed
  <2>3. /\ Unused(s) /\ threads[u].history = <<>>
        /\ \A w \in Threads \ {u} : threads[w].pc # "idle" => threads[w].sid # s
    BY <1>5, <2>1, <2>2 DEF NewSessions
  <2>4. Unused(s)'
    BY <2>1, <2>3
  <2>5. Unused(threads[u].sid)'
    BY <2>1, <2>2, <2>4 DEF Unused, OwnPlans
  <2>6. th.pc # "idle" => th.sid # s
    BY <2>1, <2>3 DEF Unused
  <2> QED BY <1>2, <2>1, <2>2, <2>3, <2>5, <2>6
<1> QED BY <1>3, <1>4, <1>5 DEF NewSessions

LEMMA UnusedStays ==
  ASSUME NEW s, Unused(s), sessions'[s] \in {None, sessions[s]}, acked'[s] = acked[s],
         \A p \in Pids : plans'[p] \in {None, plans[p]}
  PROVE  Unused(s)'
BY DEF Unused, OwnPlans

LEMMA NewSessionsThreadsStay ==
  ASSUME Typed, NewSessions, UNCHANGED <<plans, acked, used>>,
         threads' = threads \/ threads' = [t \in Threads |-> Idle],
         \A s \in Sids : sessions'[s] \in {None, sessions[s]}
  PROVE  NewSessions'
<1>1. ASSUME NEW s \in Sids, Unused(s) PROVE Unused(s)'
  BY <1>1, UnusedStays
<1>2. ASSUME NEW t \in Threads, Creates(threads'[t])
      PROVE  UNCHANGED threads /\ Creates(threads[t]) /\ threads[t].sid \in Sids
  BY <1>2, IdleType DEF Creates, Typed, WellFormed
<1>3. ASSUME NEW t \in Threads, Creates(threads'[t]), threads'[t].pc = "save_session"
      PROVE  Unused(threads[t].sid)'
  <2>1. UNCHANGED threads /\ Unused(threads[t].sid)
    BY <1>2, <1>3 DEF NewSessions
  <2>2. PICK s \in Sids : s = threads[t].sid
    BY <1>2, <1>3
  <2>3. Unused(s)'
    BY <1>1, <2>1, <2>2
  <2> QED BY <2>1, <2>2, <2>3 DEF Unused, OwnPlans
<1> QED BY <1>1, <1>2, <1>3 DEF NewSessions

LEMMA BeginAdvanceNew ==
  ASSUME Typed, NewSessions, NEW t \in Threads, NEW s \in Sids, NEW p \in Payloads,
         BeginAdvance(t, s, p)
  PROVE  NewSessions'
<1> DEFINE pc == IF MakesPlan(sessions[s].session, p) THEN "save_plan" ELSE "save_session"
           th == [Idle EXCEPT !.pc = pc, !.sid = s, !.request = used.reqs + 1,
                              !.session = Landed(sessions[s].session, p),
                              !.history = Append(sessions[s].history, used.reqs + 1)]
<1>1. used.reqs + 1 # None
  BY NoneAssumption DEF Typed, TypeOK
<1>2. threads' = [threads EXCEPT ![t] = th] /\ ~Creates(th) /\ th.sid = s
  BY <1>1 DEF BeginAdvance, Idle, Creates
<1> HIDE DEF th
<1>3. sessions[s] # None /\ UNCHANGED tables /\ UNCHANGED acked
  BY DEF BeginAdvance
<1>4. used'.sids \in Int /\ used'.sids >= used.sids
  BY DEF BeginAdvance, Typed, TypeOK
<1>5. \A i \in Sids : Unused(i) => Unused(i)'
  BY <1>3 DEF Unused, OwnPlans, tables
<1> QED BY <1>2, <1>3, <1>4, <1>5, NewSessionsKept

LEMMA BeginSaveOfNewNew ==
  ASSUME Typed, NewSessions, NEW t \in Threads, NEW x \in Session, x.plan_id = None,
         BeginSaveOfNew(t, x)
  PROVE  NewSessions'
<1>0. PICK own : own = used.sids + 1
  OBVIOUS
<1> DEFINE th == [Idle EXCEPT !.pc = "save_session", !.sid = own,
                              !.session = x, !.project = "chosen"]
<1>1. /\ threads' = [threads EXCEPT ![t] = th]
      /\ th.sid = own /\ th.session = x /\ th.history = <<>>
  BY <1>0 DEF BeginSaveOfNew, Idle
<1>2. own \in Sids /\ used.sids \in Int /\ used'.sids = own
  BY <1>0, ServiceAssumption DEF BeginSaveOfNew, Typed, TypeOK, Sids
<1> HIDE DEF th
<1>3. \A u \in Threads : threads'[u] = IF u = t THEN th ELSE threads[u]
  BY <1>1 DEF Typed, TypeOK
<1>4. UNCHANGED <<sessions, plans, acked>>
  BY DEF BeginSaveOfNew, tables, ghosts
<1>5. ASSUME NEW s \in Sids, Unused(s) PROVE Unused(s)'
  BY <1>4, <1>5 DEF Unused, OwnPlans
<1>6. Unused(own) /\ Unused(own)'
  BY <1>0, <1>2, <1>5 DEF NewSessions, Sids
<1>7. \A u \in Threads : threads[u].pc # "idle" => threads[u].sid \in Sids /\ threads[u].sid < own
  BY <1>0, <1>2 DEF Typed, WellFormed, Sids
<1>8. \A s \in Sids : s > used'.sids => Unused(s)'
  BY <1>0, <1>2, <1>5 DEF NewSessions, Sids
<1>9. ASSUME NEW u \in Threads, Creates(threads'[u])
      PROVE  /\ threads'[u].session.plan_id = None
             /\ threads'[u].pc = "save_session" => threads'[u].history = <<>>
  BY <1>1, <1>3, <1>9 DEF NewSessions
<1>10. ASSUME NEW u \in Threads, Creates(threads'[u]), threads'[u].pc = "save_session"
       PROVE  /\ Unused(threads[u].sid)' \/ u = t
              /\ \A w \in Threads \ {u} :
                   threads'[w].pc # "idle" => threads'[w].sid # threads'[u].sid
  <2>1. CASE u = t
    BY <1>1, <1>2, <1>3, <1>7, <2>1 DEF Sids
  <2>2. CASE u # t
    <3>1. threads'[u] = threads[u] /\ Creates(threads[u])
      BY <1>3, <1>10, <2>2
    <3>2. PICK s \in Sids : s = threads[u].sid
      BY <1>7, <3>1 DEF Creates
    <3>3. /\ Unused(s) /\ s < own
          /\ \A w \in Threads \ {u} : threads[w].pc # "idle" => threads[w].sid # s
      BY <1>7, <1>10, <3>1, <3>2 DEF NewSessions, Creates
    <3>4. Unused(threads[u].sid)'
      BY <1>4, <3>1, <3>2, <3>3 DEF Unused, OwnPlans
    <3> QED BY <1>1, <1>2, <1>3, <3>1, <3>2, <3>3, <3>4 DEF Sids
  <2> QED BY <2>1, <2>2
<1>11. Unused(threads[t].sid)'
  <2>1. threads'[t].sid = own
    BY <1>1, <1>3
  <2>2. sessions'[own] = None /\ acked'[own] = <<>> /\ OwnPlans(own)' = {}
    BY <1>6 DEF Unused
  <2>3. OwnPlans(threads[t].sid)' = OwnPlans(own)'
    BY <2>1 DEF OwnPlans
  <2> QED BY <2>1, <2>2, <2>3 DEF Unused
<1> QED BY <1>8, <1>9, <1>10, <1>11 DEF NewSessions

LEMMA SavePlanNew ==
  ASSUME Typed, NewSessions, NEW t \in Threads, SavePlan(t)
  PROVE  NewSessions'
<1> DEFINE th == [threads[t] EXCEPT !.pc = "save_session",
                                    !.session.plan_id = threads[t].request]
<1>1. /\ threads' = [threads EXCEPT ![t] = th] /\ th.sid = threads[t].sid
      /\ ~Creates(th) /\ threads[t].pc # "idle"
  BY DEF SavePlan, Typed, TypeOK, Thread, WellFormed, Creates
<1> HIDE DEF th
<1>2. threads[t].request \in Pids /\ UNCHANGED <<sessions, acked, used>> /\ used'.sids \in Int /\ used'.sids >= used.sids
  BY DEF SavePlan, Typed, TypeOK, WellFormed, Thread, Pids, ghosts
<1>3. PlanFor(threads[t].session, threads[t].sid).brief_id = threads[t].sid
  BY DEF PlanFor
<1>4. ASSUME NEW s \in Sids, Unused(s) PROVE Unused(s)' \/ threads[t].sid = s
  BY <1>2, <1>3, <1>4 DEF SavePlan, Unused, OwnPlans, Typed, TypeOK
<1> QED BY <1>1, <1>2, <1>4, NewSessionsKept

LEMMA SaveSessionNew ==
  ASSUME Typed, NewSessions, NEW t \in Threads, SaveSession(t)
  PROVE  NewSessions'
<1> DEFINE th == [threads[t] EXCEPT !.pc = "sweep_plans"]
<1>1. /\ threads' = [threads EXCEPT ![t] = th] /\ th.sid = threads[t].sid
      /\ th.pc = "sweep_plans" /\ th.request = threads[t].request
      /\ th.session = threads[t].session /\ threads[t].pc = "save_session"
  BY DEF SaveSession, Typed, TypeOK, Thread
<1> HIDE DEF th
<1>2. Creates(th) => th.session.plan_id = None
  BY <1>1 DEF NewSessions, Creates
<1>3. UNCHANGED <<plans, acked, used>> /\ used'.sids \in Int /\ used'.sids >= used.sids
  BY DEF SaveSession, Typed, TypeOK
<1>4. ASSUME NEW s \in Sids, Unused(s) PROVE Unused(s)' \/ threads[t].sid = s
  BY <1>3, <1>4, SavedRow DEF Unused, OwnPlans, Typed, TypeOK
<1> QED BY <1>1, <1>2, <1>3, <1>4, NewSessionsKept

LEMMA SweepPlansNew ==
  ASSUME Typed, NewSessions, NEW t \in Threads, SweepPlans(t)
  PROVE  NewSessions'
<1> DEFINE th == [threads[t] EXCEPT !.pc = "sweep_sessions", !.cutoff = clock - TTL]
<1>1. /\ threads' = [threads EXCEPT ![t] = th] /\ th.sid = threads[t].sid
      /\ th.pc = "sweep_sessions" /\ th.request = threads[t].request
      /\ th.session = threads[t].session /\ threads[t].pc = "sweep_plans"
  BY DEF SweepPlans, Typed, TypeOK, Thread
<1> HIDE DEF th
<1>2. Creates(th) => th.session.plan_id = None
  BY <1>1 DEF NewSessions, Creates
<1>3. /\ UNCHANGED <<sessions, acked, used>> /\ used'.sids \in Int /\ used'.sids >= used.sids
      /\ \A p \in Pids : plans'[p] \in {None, plans[p]}
  BY DEF SweepPlans, Typed, TypeOK, ghosts
<1>4. \A s \in Sids : Unused(s) => Unused(s)'
  BY <1>3, UnusedStays
<1> QED BY <1>1, <1>2, <1>3, <1>4, NewSessionsKept

LEMMA SweepSessionsNew ==
  ASSUME Typed, NewSessions, NEW t \in Threads, SweepSessions(t)
  PROVE  NewSessions'
<1> DEFINE th == IF threads[t].request = None THEN Idle ELSE [threads[t] EXCEPT !.pc = "log_turn"]
<1>1. /\ threads' = [threads EXCEPT ![t] = th] /\ ~Creates(th)
      /\ th.pc # "idle" => th.sid = threads[t].sid
      /\ threads[t].pc = "sweep_sessions"
  BY IdleType DEF SweepSessions, Typed, TypeOK, Thread, Creates
<1> HIDE DEF th
<1>2. /\ UNCHANGED <<plans, acked, used>> /\ used'.sids \in Int /\ used'.sids >= used.sids
      /\ \A s \in Sids : sessions'[s] \in {None, sessions[s]}
  BY DEF SweepSessions, Drop, Typed, TypeOK
<1>3. \A s \in Sids : Unused(s) => Unused(s)'
  BY <1>2, UnusedStays
<1> QED BY <1>1, <1>2, <1>3, NewSessionsKept

LEMMA LogTurnNew ==
  ASSUME Typed, NewSessions, NEW t \in Threads, LogTurn(t)
  PROVE  NewSessions'
<1>1. /\ threads' = [threads EXCEPT ![t] = Idle] /\ ~Creates(Idle) /\ threads[t].pc = "log_turn"
      /\ UNCHANGED <<sessions, plans, used>> /\ used'.sids \in Int /\ used'.sids >= used.sids
  BY IdleType DEF LogTurn, Logged, Refused, Creates, Typed, TypeOK
<1>2. ASSUME NEW s \in Sids, Unused(s) PROVE Unused(s)' \/ threads[t].sid = s
  <2>1. threads[t].sid # s => acked'[s] = acked[s]
    BY DEF LogTurn, Logged, Refused, Typed, TypeOK
  <2> QED BY <1>1, <1>2, <2>1, UnusedStays
<1> QED BY <1>1, <1>2, IdleType, NewSessionsKept

LEMMA NewSessionsInit == Init => NewSessions
<1> SUFFICES ASSUME Init PROVE NewSessions
  OBVIOUS
<1>1. \A t \in Threads : ~Creates(threads[t])
  BY IdleType DEF Init, Creates
<1>2. \A s \in Sids : s > used.sids => Unused(s)
  BY ServiceAssumption DEF Init, Unused, OwnPlans, Sids
<1> QED BY <1>1, <1>2 DEF NewSessions

LEMMA NewSessionsStep == Typed /\ NewSessions /\ [Next]_vars => NewSessions'
<1> SUFFICES ASSUME Typed, NewSessions, [Next]_vars PROVE NewSessions'
  OBVIOUS
<1>1. CASE \E t \in Threads, s \in Sids, p \in Payloads : BeginAdvance(t, s, p)
  BY <1>1, BeginAdvanceNew
<1>2. CASE \E t \in Threads, mode \in Modes : BeginCreate(t, mode)
  <2> PICK t \in Threads, mode \in Modes : BeginCreate(t, mode)
    BY <1>2
  <2>1. NewSession(mode, FirstWeeks) \in Session /\ NewSession(mode, FirstWeeks).plan_id = None
    BY WeeksAssumption, NewSessionType DEF Session
  <2> QED BY <2>1, BeginSaveOfNewNew DEF BeginCreate
<1>3. CASE \E t \in Threads, s \in Sids : BeginFork(t, s)
  <2> PICK t \in Threads, s \in Sids : BeginFork(t, s)
    BY <1>3
  <2>1. Forked(sessions[s].session) \in Session /\ Forked(sessions[s].session).plan_id = None
    BY ForkedType DEF BeginFork, Typed, TypeOK, Row, Session
  <2> QED BY <2>1, BeginSaveOfNewNew DEF BeginFork
<1>4. CASE \E t \in Threads : Write(t)
  BY <1>4, SavePlanNew, SaveSessionNew, SweepPlansNew, SweepSessionsNew, LogTurnNew DEF Write
<1>5. CASE \E s \in Sids : DeleteSession(s)
  BY <1>5, NewSessionsThreadsStay DEF DeleteSession, Drop
<1>6. CASE Tick \/ Crash \/ UNCHANGED vars
  BY <1>6, NewSessionsThreadsStay DEF Tick, Crash, vars, tables, ghosts
<1> QED BY <1>1, <1>2, <1>3, <1>4, <1>5, <1>6 DEF Next

\* QuietAt once more: one thread moves to th.
LEMMA QuietMoves ==
  ASSUME Typed, NEW s, QuietAt(s), NEW t \in Threads, NEW th,
         threads' = [threads EXCEPT ![t] = th],
         Advances(th, s) =>
           /\ \A u \in Threads \ {t} : ~Advances(threads[u], s)
           /\ sessions'[s] # None
           /\ Carries(th, sessions'[s], acked'[s], OwnPlans(s)'),
         \A u \in Threads \ {t} : Advances(threads[u], s) =>
           /\ sessions'[s] = sessions[s] /\ acked'[s] = acked[s]
           /\ OwnPlans(s)' \subseteq OwnPlans(s),
         sessions'[s] # None => TurnsOf(s)' = Replay(s, acked'[s]),
         sessions'[s] # None /\ ~Advances(th, s) =>
           \/ \E u \in Threads \ {t} : Advances(threads[u], s)
           \/ AtRest(sessions'[s], acked'[s], OwnPlans(s)')
  PROVE  QuietAt(s)'
<1>1. \A u \in Threads : threads'[u] = IF u = t THEN th ELSE threads[u]
  BY DEF Typed, TypeOK
<1>2. ASSUME NEW u \in Threads, NEW w \in Threads,
             Advances(threads'[u], s), Advances(threads'[w], s)
      PROVE  u = w
  BY <1>1, <1>2 DEF QuietAt
<1>3. ASSUME NEW u \in Threads, Advances(threads'[u], s)
      PROVE  sessions'[s] # None /\ Carries(threads'[u], sessions'[s], acked'[s], OwnPlans(s)')
  <2>1. CASE u = t
    BY <1>1, <1>3, <2>1
  <2>2. CASE u # t
    <3>1. /\ threads'[u] = threads[u] /\ Advances(threads[u], s)
          /\ sessions'[s] = sessions[s] /\ acked'[s] = acked[s]
          /\ OwnPlans(s)' \subseteq OwnPlans(s)
      BY <1>1, <1>3, <2>2
    <3>2. sessions[s] # None /\ Carries(threads[u], sessions[s], acked[s], OwnPlans(s))
      BY <3>1 DEF QuietAt
    <3> QED BY <3>1, <3>2 DEF Carries
  <2> QED BY <2>1, <2>2
<1>4. ASSUME sessions'[s] # None, ~InFlight(s)'
      PROVE  AtRest(sessions'[s], acked'[s], OwnPlans(s)')
  <2>1. \A u \in Threads : ~Advances(threads'[u], s)
    BY <1>4 DEF InFlight, Advancing, Advances
  <2> QED BY <1>1, <1>4, <2>1
<1> QED BY <1>2, <1>3, <1>4 DEF QuietAt

\* A step that does not touch s
LEMMA QuietUntouched ==
  ASSUME Typed, NEW s, QuietAt(s), NEW t \in Threads, NEW th,
         threads' = [threads EXCEPT ![t] = th],
         ~Advances(threads[t], s), ~Advances(th, s),
         sessions'[s] = sessions[s], acked'[s] = acked[s], TurnsOf(s)' = TurnsOf(s),
         OwnPlans(s)' \subseteq OwnPlans(s)
  PROVE  QuietAt(s)'
<1>1. TurnsOf(s)' = Replay(s, acked'[s]) \/ sessions'[s] = None
  BY DEF QuietAt
<1>2. ASSUME sessions'[s] # None
      PROVE  \/ \E u \in Threads \ {t} : Advances(threads[u], s)
             \/ AtRest(sessions'[s], acked'[s], OwnPlans(s)')
  BY <1>2 DEF QuietAt, AtRest, InFlight, Advancing, Advances
<1> QED BY <1>1, <1>2, QuietMoves

\* A step that leaves the threads or stops them all
LEMMA QuietThreadsStay ==
  ASSUME Typed, NEW s, QuietAt(s), sessions'[s] = sessions[s], acked'[s] = acked[s],
         TurnsOf(s)' = TurnsOf(s), OwnPlans(s)' = OwnPlans(s),
         threads' = threads \/ (~InFlight(s) /\ threads' = [t \in Threads |-> Idle])
  PROVE  QuietAt(s)'
<1>1. CASE threads' = threads
  BY <1>1 DEF QuietAt, InFlight, Advancing
<1>2. CASE ~InFlight(s) /\ threads' = [t \in Threads |-> Idle]
  <2>1. \A t \in Threads : ~Advances(threads'[t], s)
    BY <1>2, IdleType DEF Advances
  <2> QED BY <1>2, <2>1 DEF QuietAt
<1> QED BY <1>1, <1>2

LEMMA QuietGone ==
  ASSUME NEW s, sessions'[s] = None, \A t \in Threads : ~Advances(threads'[t], s)
  PROVE  QuietAt(s)'
BY DEF QuietAt

\* A manual session computes a plan when it has none.
LEMMA ManualPlansOnce ==
  ASSUME NEW x \in Session, NEW p, x.mode = "manual", MakesPlan(x, p)
  PROVE  x.plan_id = None
<1>1. x.step # "optimize"
  BY DEF Session, SessionOver, StepsOf, StepOrder, ManualOrder, SharedOrder
<1> QED BY <1>1 DEF MakesPlan

LEMMA ReplayAppend ==
  ASSUME NEW s, NEW ack \in Seq(Reqs), NEW r \in Reqs
  PROVE  Replay(s, Append(ack, r)) =
           Replay(s, ack) \cup {[session_id |-> s, turn_index |-> Len(ack), request |-> r,
                                 snapshot |-> Append(ack, r)]}
<1> DEFINE n == Len(ack)
           more == Append(ack, r)
           turn(a, i) == [session_id |-> s, turn_index |-> i - 1, request |-> a[i],
                          snapshot |-> SubSeq(a, 1, i)]
<1>1. more \in Seq(Reqs) /\ Len(more) = n + 1 /\ n \in Nat
  OBVIOUS
<1>2. ASSUME NEW i \in 1..n PROVE turn(more, i) = turn(ack, i)
  <2>1. more[i] = ack[i] /\ \A j \in 1..i : more[j] = ack[j]
    BY <1>1
  <2>2. /\ SubSeq(more, 1, i) \in Seq(Reqs) /\ Len(SubSeq(more, 1, i)) = i
        /\ SubSeq(ack, 1, i) \in Seq(Reqs) /\ Len(SubSeq(ack, 1, i)) = i
        /\ \A j \in 1..i : SubSeq(more, 1, i)[j] = more[j] /\ SubSeq(ack, 1, i)[j] = ack[j]
    BY <1>1
  <2>3. SubSeq(more, 1, i) = SubSeq(ack, 1, i)
    BY <2>1, <2>2
  <2> QED BY <2>1, <2>3
<1>3. SubSeq(more, 1, n + 1) = more /\ more[n + 1] = r
  OBVIOUS
<1>4. turn(more, n + 1) = [session_id |-> s, turn_index |-> n, request |-> r, snapshot |-> more]
  BY <1>1, <1>3
<1>5. Replay(s, more) = {turn(more, i) : i \in 1..(n + 1)} /\ Replay(s, ack) = {turn(ack, i) : i \in 1..n}
  BY <1>1 DEF Replay
<1> HIDE DEF turn, more
<1>6. 1..(n + 1) = 1..n \cup {n + 1}
  BY <1>1
<1>7. {turn(more, i) : i \in 1..(n + 1)} = {turn(ack, i) : i \in 1..n} \cup {turn(more, n + 1)}
  BY <1>2, <1>6
<1> QED BY <1>4, <1>5, <1>7 DEF more

LEMMA ReplayNumbered ==
  ASSUME NEW s, NEW ack \in Seq(Reqs), TurnsOf(s) = Replay(s, ack)
  PROVE  NumberedUpTo(s, Len(ack))
<1>1. Len(ack) \in Nat
  OBVIOUS
<1>2. \A a \in TurnsOf(s) : a.turn_index \in 0..(Len(ack) - 1)
  BY <1>1 DEF Replay
<1>3. ASSUME NEW i \in 0..(Len(ack) - 1) PROVE \E a \in TurnsOf(s) : a.turn_index = i
  <2>1. i + 1 \in 1..Len(ack) /\ (i + 1) - 1 = i
    BY <1>1
  <2> DEFINE turn == [session_id |-> s, turn_index |-> (i + 1) - 1, request |-> ack[i + 1],
                      snapshot |-> SubSeq(ack, 1, i + 1)]
  <2>2. turn \in Replay(s, ack)
    BY <2>1 DEF Replay
  <2>3. turn.turn_index = i
    BY <2>1
  <2> QED BY <2>2, <2>3
<1>4. \A a, b \in TurnsOf(s) : a.turn_index = b.turn_index => a = b
  BY <1>1 DEF Replay
<1> QED BY <1>2, <1>3, <1>4 DEF NumberedUpTo

LEMMA BeginAdvanceQuiet ==
  ASSUME Typed, Quiet, NEW t \in Threads, NEW i \in Sids, NEW p \in Payloads,
         BeginAdvance(t, i, p)
  PROVE  Quiet'
<1> SUFFICES ASSUME NEW s \in Sids, s \notin disturbed' PROVE QuietAt(s)'
  BY DEF Quiet
<1> DEFINE read == sessions[i].session
           r == used.reqs + 1
           pc == IF MakesPlan(read, p) THEN "save_plan" ELSE "save_session"
           th == [Idle EXCEPT !.pc = pc, !.sid = i, !.request = r,
                              !.session = Landed(read, p),
                              !.history = Append(sessions[i].history, r)]
<1>1. /\ threads' = [threads EXCEPT ![t] = th] /\ th.sid = i /\ th.request = r /\ th.pc = pc
      /\ th.session = Landed(read, p) /\ th.history = Append(sessions[i].history, r)
  BY DEF BeginAdvance, Idle
<1>2. s \notin disturbed /\ (s = i => ~InFlight(i)) /\ QuietAt(s)
  BY DEF BeginAdvance, Quiet
<1>3. read \in Session /\ sessions[i] # None
  BY DEF BeginAdvance, Typed, TypeOK, Row
<1>4. Landed(read, p).plan_id = read.plan_id /\ Landed(read, p).mode = read.mode
  BY <1>3, LandedType, ServiceAssumption DEF BeginAdvance, Session
<1>5. read.mode = "manual" /\ pc = "save_plan" => read.plan_id = None
  BY <1>3, ManualPlansOnce
<1>6. pc \in {"save_plan", "save_session"}
  OBVIOUS
<1>7. /\ sessions'[s] = sessions[s] /\ acked'[s] = acked[s]
      /\ OwnPlans(s)' = OwnPlans(s) /\ TurnsOf(s)' = TurnsOf(s)
  BY DEF BeginAdvance, tables, OwnPlans, TurnsOf
<1>8. ~Advances(threads[t], s)
  BY DEF BeginAdvance, Typed, WellFormed, Advances
<1> HIDE DEF th, pc, r
<1>9. CASE s = i
  <2>1. \A u \in Threads : ~Advances(threads[u], s)
    BY <1>2, <1>9 DEF InFlight, Advancing, Advances
  <2>2. AtRest(sessions[s], acked[s], OwnPlans(s))
    BY <1>2, <1>3, <1>9 DEF QuietAt
  <2>3. Carries(th, sessions[s], acked[s], OwnPlans(s))
    BY <1>1, <1>4, <1>5, <1>6, <1>9, <2>2 DEF Carries, AtRest
  <2>4. sessions'[s] # None => TurnsOf(s)' = Replay(s, acked'[s])
    BY <1>2, <1>7 DEF QuietAt
  <2>5. /\ sessions'[s] # None
        /\ Carries(th, sessions'[s], acked'[s], OwnPlans(s)')
        /\ AtRest(sessions'[s], acked'[s], OwnPlans(s)')
    BY <1>3, <1>7, <1>9, <2>2, <2>3
  <2> QED BY <1>1, <1>2, <2>1, <2>4, <2>5, QuietMoves
<1>10. CASE s # i
  BY <1>1, <1>2, <1>7, <1>8, <1>10, QuietUntouched DEF Advances
<1> QED BY <1>9, <1>10

LEMMA BeginSaveOfNewQuiet ==
  ASSUME Typed, Quiet, NEW t \in Threads, NEW x \in Session, BeginSaveOfNew(t, x)
  PROVE  Quiet'
<1> SUFFICES ASSUME NEW s \in Sids, s \notin disturbed' PROVE QuietAt(s)'
  BY DEF Quiet
<1> DEFINE th == [Idle EXCEPT !.pc = "save_session", !.sid = used.sids + 1,
                              !.session = x, !.project = "chosen"]
<1>1. threads' = [threads EXCEPT ![t] = th] /\ ~Advances(th, s)
  BY DEF BeginSaveOfNew, Idle, Advances
<1> HIDE DEF th
<1>2. QuietAt(s)
  BY DEF BeginSaveOfNew, ghosts, Quiet
<1>3. /\ sessions'[s] = sessions[s] /\ acked'[s] = acked[s]
      /\ OwnPlans(s)' = OwnPlans(s) /\ TurnsOf(s)' = TurnsOf(s)
  BY DEF BeginSaveOfNew, tables, ghosts, OwnPlans, TurnsOf
<1>4. ~Advances(threads[t], s)
  BY DEF BeginSaveOfNew, Typed, WellFormed, Advances
<1> QED BY <1>1, <1>2, <1>3, <1>4, QuietUntouched

LEMMA SavePlanQuiet ==
  ASSUME Typed, Quiet, NEW t \in Threads, SavePlan(t)
  PROVE  Quiet'
<1> SUFFICES ASSUME NEW s \in Sids, s \notin disturbed' PROVE QuietAt(s)'
  BY DEF Quiet
<1> DEFINE old == threads[t]
           th == [old EXCEPT !.pc = "save_session", !.session.plan_id = old.request]
<1>1. /\ old \in Thread /\ old.session \in Session /\ old.request \in Pids
      /\ old.request # None /\ old.pc = "save_plan"
  BY DEF Typed, TypeOK, WellFormed, SavePlan, Thread, Pids
<1>2. /\ threads' = [threads EXCEPT ![t] = th] /\ th.sid = old.sid /\ th.request = old.request
      /\ th.pc = "save_session" /\ th.session.plan_id = old.request
      /\ th.session.mode = old.session.mode /\ th.history = old.history
  BY <1>1 DEF SavePlan, Thread, Session, SessionOver
<1> HIDE DEF th
<1>3. QuietAt(s)
  BY DEF SavePlan, ghosts, Quiet
<1>4. /\ sessions'[s] = sessions[s] /\ acked'[s] = acked[s] /\ TurnsOf(s)' = TurnsOf(s)
  BY DEF SavePlan, ghosts, TurnsOf
<1>5. PlanFor(old.session, old.sid).brief_id = old.sid
  BY DEF PlanFor
<1>6. OwnPlans(s)' \subseteq OwnPlans(s) \cup (IF s = old.sid THEN {old.request} ELSE {})
  BY <1>1, <1>5 DEF SavePlan, OwnPlans, Typed, TypeOK
<1>7. CASE s = old.sid
  <2>1. Advances(old, s)
    BY <1>1, <1>7 DEF Advances
  <2>2. /\ \A u \in Threads \ {t} : ~Advances(threads[u], s)
        /\ sessions[s] # None /\ Carries(old, sessions[s], acked[s], OwnPlans(s))
        /\ TurnsOf(s) = Replay(s, acked[s])
    BY <1>3, <2>1 DEF QuietAt
  <2>3. old.session.mode = "manual" => OwnPlans(s) \subseteq {None}
    BY <1>1, <2>2 DEF Carries
  <2>4. OwnPlans(s) \subseteq Pids /\ None \notin Pids
    BY NoneAssumption DEF OwnPlans, Pids, Reqs
  <2>5. Carries(th, sessions'[s], acked'[s], OwnPlans(s)')
    BY <1>1, <1>2, <1>4, <1>6, <1>7, <2>2, <2>3, <2>4 DEF Carries
  <2>6. sessions'[s] # None /\ TurnsOf(s)' = Replay(s, acked'[s]) /\ Advances(th, s)
    BY <1>2, <1>4, <2>1, <2>2 DEF Advances
  <2> QED BY <1>2, <1>3, <2>2, <2>5, <2>6, QuietMoves
<1>8. CASE s # old.sid
  BY <1>2, <1>3, <1>4, <1>6, <1>8, QuietUntouched DEF Advances
<1> QED BY <1>7, <1>8

LEMMA SaveSessionQuiet ==
  ASSUME Typed, TurnsLinked, NewSessions, Quiet, NEW t \in Threads, SaveSession(t)
  PROVE  Quiet'
<1> SUFFICES ASSUME NEW s \in Sids, s \notin disturbed' PROVE QuietAt(s)'
  BY DEF Quiet
<1> DEFINE old == threads[t]
           th == [old EXCEPT !.pc = "sweep_plans"]
<1>1. /\ threads' = [threads EXCEPT ![t] = th] /\ th.sid = old.sid /\ th.request = old.request
      /\ th.pc = "sweep_plans" /\ th.session = old.session /\ th.history = old.history
      /\ old.pc = "save_session"
  BY DEF SaveSession, Typed, TypeOK, Thread
<1> HIDE DEF th
<1>2. QuietAt(s)
  BY DEF SaveSession, Quiet
<1>3. acked'[s] = acked[s] /\ TurnsOf(s)' = TurnsOf(s) /\ OwnPlans(s)' = OwnPlans(s)
  BY DEF SaveSession, TurnsOf, OwnPlans
<1>4. PICK row \in Row : /\ sessions' = [sessions EXCEPT ![old.sid] = row]
                        /\ row.session = old.session /\ row.history = old.history
  BY SavedRow
<1>5. row # None
  BY RowAssumption
<1>6. CASE s # old.sid
  <2>1. sessions'[s] = sessions[s]
    BY <1>4, <1>6 DEF Typed, TypeOK
  <2> QED BY <1>1, <1>2, <1>3, <1>6, <2>1, QuietUntouched DEF Advances
<1>7. CASE s = old.sid /\ old.request # None
  <2>1. Advances(old, s) /\ Advances(th, s)
    BY <1>1, <1>7 DEF Advances
  <2>2. /\ \A u \in Threads \ {t} : ~Advances(threads[u], s)
        /\ Carries(old, sessions[s], acked[s], OwnPlans(s))
        /\ TurnsOf(s) = Replay(s, acked[s])
    BY <1>2, <2>1 DEF QuietAt
  <2>3. sessions'[s] = row
    BY <1>4, <1>7 DEF Typed, TypeOK
  <2>4. Carries(th, row, acked'[s], OwnPlans(s)')
    BY <1>1, <1>3, <1>4, <2>2 DEF Carries
  <2> QED BY <1>1, <1>2, <1>3, <1>5, <2>1, <2>2, <2>3, <2>4, QuietMoves
<1>8. CASE s = old.sid /\ old.request = None
  <2>1. sessions'[s] = row
    BY <1>4, <1>8 DEF Typed, TypeOK
  <2>2. Unused(s) /\ old.history = <<>>
    BY <1>1, <1>8 DEF NewSessions, Creates
  <2>3. \A u \in Threads : ~Advances(threads[u], s)
    BY <1>2, <2>2 DEF QuietAt, Unused
  <2>4. ~Advances(th, s)
    BY <1>1, <1>8 DEF Advances
  <2>5. TurnsOf(s)' = {}
    BY <1>3, <2>2 DEF TurnsLinked, TurnsOf, Unused
  <2>6. Replay(s, acked'[s]) = {}
    <3>1. Replay(s, <<>>) = {}
      BY DEF Replay
    <3> QED BY <1>3, <2>2, <3>1 DEF Unused
  <2>7. AtRest(row, acked'[s], OwnPlans(s)')
    BY <1>3, <1>4, <2>2 DEF AtRest, Unused
  <2> QED BY <1>1, <1>2, <2>1, <2>3, <2>4, <2>5, <2>6, <2>7, QuietMoves
<1> QED BY <1>6, <1>7, <1>8

LEMMA SweepPlansQuiet ==
  ASSUME Typed, Quiet, NEW t \in Threads, SweepPlans(t)
  PROVE  Quiet'
<1> SUFFICES ASSUME NEW s \in Sids, s \notin disturbed' PROVE QuietAt(s)'
  BY DEF Quiet
<1> DEFINE old == threads[t]
           th == [old EXCEPT !.pc = "sweep_sessions", !.cutoff = clock - TTL]
<1>1. /\ threads' = [threads EXCEPT ![t] = th] /\ th.sid = old.sid /\ th.request = old.request
      /\ th.pc = "sweep_sessions" /\ th.session = old.session /\ th.history = old.history
      /\ old.pc = "sweep_plans"
  BY DEF SweepPlans, Typed, TypeOK, Thread
<1> HIDE DEF th
<1>2. QuietAt(s)
  BY DEF SweepPlans, ghosts, Quiet
<1>3. /\ sessions'[s] = sessions[s] /\ acked'[s] = acked[s] /\ TurnsOf(s)' = TurnsOf(s)
      /\ OwnPlans(s)' \subseteq OwnPlans(s)
  BY DEF SweepPlans, ghosts, TurnsOf, OwnPlans
<1>4. CASE Advances(old, s)
  <2>1. /\ \A u \in Threads \ {t} : ~Advances(threads[u], s)
        /\ sessions[s] # None /\ Carries(old, sessions[s], acked[s], OwnPlans(s))
        /\ TurnsOf(s) = Replay(s, acked[s])
    BY <1>2, <1>4 DEF QuietAt
  <2>2. Carries(th, sessions'[s], acked'[s], OwnPlans(s)') /\ Advances(th, s)
    BY <1>1, <1>3, <1>4, <2>1 DEF Carries, Advances
  <2> QED BY <1>1, <1>2, <1>3, <2>1, <2>2, QuietMoves
<1>5. CASE ~Advances(old, s)
  BY <1>1, <1>2, <1>3, <1>5, QuietUntouched DEF Advances
<1> QED BY <1>4, <1>5

\* A row that goes undisturbed had no advance in flight.
LEMMA DropQuiet ==
  ASSUME NEW s \in Sids, NEW gone, Drop(gone), s \notin disturbed'
  PROVE  /\ s \notin disturbed
         /\ s \in gone => sessions'[s] = None /\ \A t \in Threads : ~Advances(threads[t], s)
         /\ s \notin gone => sessions'[s] = sessions[s] /\ TurnsOf(s)' = TurnsOf(s)
BY DEF Drop, TurnsOf, InFlight, Advancing, Advances

LEMMA SweepSessionsQuiet ==
  ASSUME Typed, Quiet, NEW t \in Threads, SweepSessions(t)
  PROVE  Quiet'
<1> SUFFICES ASSUME NEW s \in Sids, s \notin disturbed' PROVE QuietAt(s)'
  BY DEF Quiet
<1> DEFINE old == threads[t]
           th == IF old.request = None THEN Idle ELSE [old EXCEPT !.pc = "log_turn"]
           gone == Stale(old.cutoff, old.sid)
<1>1. threads' = [threads EXCEPT ![t] = th] /\ old.pc = "sweep_sessions" /\ Drop(gone)
  BY DEF SweepSessions
<1>2. /\ Advances(th, s) => Advances(old, s)
      /\ Advances(old, s) => /\ Advances(th, s) /\ th.request = old.request /\ th.pc = "log_turn"
                             /\ th.session = old.session /\ th.history = old.history
  BY IdleType DEF Advances, Typed, TypeOK, Thread
<1> HIDE DEF th, gone
<1>3. s \notin disturbed /\ QuietAt(s)
  BY <1>1, DropQuiet DEF Quiet
<1>4. acked'[s] = acked[s] /\ OwnPlans(s)' = OwnPlans(s)
  BY DEF SweepSessions, OwnPlans
<1>5. CASE s \in gone
  <2>1. sessions'[s] = None /\ \A u \in Threads : ~Advances(threads[u], s)
    BY <1>1, <1>5, DropQuiet
  <2>2. \A u \in Threads : ~Advances(threads'[u], s)
    BY <1>1, <1>2, <2>1 DEF Typed, TypeOK
  <2> QED BY <2>1, <2>2, QuietGone
<1>6. CASE s \notin gone
  <2>1. sessions'[s] = sessions[s] /\ TurnsOf(s)' = TurnsOf(s)
    BY <1>1, <1>6, DropQuiet
  <2>2. CASE Advances(old, s)
    <3>1. /\ \A u \in Threads \ {t} : ~Advances(threads[u], s)
          /\ sessions[s] # None /\ Carries(old, sessions[s], acked[s], OwnPlans(s))
          /\ TurnsOf(s) = Replay(s, acked[s])
      BY <1>3, <2>2 DEF QuietAt
    <3>2. Carries(th, sessions'[s], acked'[s], OwnPlans(s)') /\ Advances(th, s)
      BY <1>1, <1>2, <1>4, <2>1, <2>2, <3>1 DEF Carries
    <3> QED BY <1>1, <1>3, <1>4, <2>1, <3>1, <3>2, QuietMoves
  <2>3. CASE ~Advances(old, s)
    BY <1>1, <1>2, <1>3, <1>4, <2>1, <2>3, QuietUntouched
  <2> QED BY <2>2, <2>3
<1> QED BY <1>5, <1>6

LEMMA LogTurnQuiet ==
  ASSUME Typed, Quiet, NEW t \in Threads, LogTurn(t)
  PROVE  Quiet'
<1> SUFFICES ASSUME NEW s \in Sids, s \notin disturbed' PROVE QuietAt(s)'
  BY DEF Quiet
<1> DEFINE old == threads[t]
<1>1. /\ threads' = [threads EXCEPT ![t] = Idle] /\ ~Advances(Idle, s)
      /\ sessions'[s] = sessions[s] /\ OwnPlans(s)' = OwnPlans(s)
  BY IdleType DEF LogTurn, Logged, Refused, Advances, OwnPlans
<1>2. QuietAt(s)
  BY DEF LogTurn, Quiet
<1>3. /\ old \in Thread /\ old.pc = "log_turn" /\ old.request \in Reqs /\ old.request # None
  BY DEF LogTurn, Typed, TypeOK, WellFormed, Thread
<1>4. CASE s # old.sid
  <2>1. acked'[s] = acked[s] /\ TurnsOf(s)' = TurnsOf(s)
    BY <1>4 DEF LogTurn, Logged, Refused, TurnsOf, Typed, TypeOK
  <2> QED BY <1>1, <1>2, <1>4, <2>1, QuietUntouched DEF Advances
<1>5. CASE s = old.sid
  <2>1. Advances(old, s)
    BY <1>3, <1>5 DEF Advances
  <2>2. /\ \A u \in Threads \ {t} : ~Advances(threads[u], s)
        /\ sessions[s] # None /\ Carries(old, sessions[s], acked[s], OwnPlans(s))
        /\ TurnsOf(s) = Replay(s, acked[s])
    BY <1>2, <2>1 DEF QuietAt
  <2>3. Logged(t)
    BY <1>5, <2>2 DEF LogTurn
  <2>4. PICK ack \in Seq(Reqs) : ack = acked[s]
    BY DEF Typed, TypeOK
  <2>5. NextIndex(s) = Len(ack)
    BY <2>2, <2>4, ReplayNumbered, NextIndexIsFree
  <2>6. old.history = Append(ack, old.request)
    BY <2>2, <2>4 DEF Carries
  <2>7. acked'[s] = Append(ack, old.request)
    BY <1>5, <2>3, <2>4 DEF Logged, Typed, TypeOK
  <2>8. TurnsOf(s)' = TurnsOf(s) \cup {[session_id |-> s, turn_index |-> Len(ack),
                        request |-> old.request, snapshot |-> Append(ack, old.request)]}
    BY <1>5, <2>3, <2>5, <2>6 DEF Logged, TurnsOf
  <2>9. TurnsOf(s)' = Replay(s, acked'[s])
    BY <1>3, <2>2, <2>4, <2>7, <2>8, ReplayAppend
  <2>10. AtRest(sessions'[s], acked'[s], OwnPlans(s)')
    BY <1>1, <1>3, <2>2, <2>6, <2>7 DEF Carries, AtRest
  <2> QED BY <1>1, <1>2, <2>2, <2>9, <2>10, QuietMoves
<1> QED BY <1>4, <1>5

LEMMA DeleteSessionQuiet ==
  ASSUME Typed, Quiet, NEW i \in Sids, DeleteSession(i)
  PROVE  Quiet'
<1> SUFFICES ASSUME NEW s \in Sids, s \notin disturbed' PROVE QuietAt(s)'
  BY DEF Quiet
<1>1. Drop({i}) /\ UNCHANGED <<threads, plans, acked>>
  BY DEF DeleteSession
<1>2. QuietAt(s)
  BY <1>1, DropQuiet DEF Quiet
<1>3. CASE s = i
  BY <1>1, <1>3, DropQuiet, QuietGone
<1>4. CASE s # i
  <2>1. sessions'[s] = sessions[s] /\ TurnsOf(s)' = TurnsOf(s) /\ OwnPlans(s)' = OwnPlans(s)
    BY <1>1, <1>4, DropQuiet DEF OwnPlans
  <2> QED BY <1>1, <1>2, <2>1, QuietThreadsStay
<1> QED BY <1>3, <1>4

LEMMA EnvironmentQuiet ==
  ASSUME Typed, Quiet, Tick \/ Crash \/ UNCHANGED vars
  PROVE  Quiet'
<1> SUFFICES ASSUME NEW s \in Sids, s \notin disturbed' PROVE QuietAt(s)'
  BY DEF Quiet
<1>1. /\ sessions'[s] = sessions[s] /\ acked'[s] = acked[s]
      /\ TurnsOf(s)' = TurnsOf(s) /\ OwnPlans(s)' = OwnPlans(s)
  BY DEF Tick, Crash, vars, tables, ghosts, TurnsOf, OwnPlans
<1>2. threads' = threads \/ (~InFlight(s) /\ threads' = [t \in Threads |-> Idle])
  BY DEF Tick, Crash, vars
<1>3. QuietAt(s)
  BY DEF Tick, Crash, vars, ghosts, Quiet
<1> QED BY <1>1, <1>2, <1>3, QuietThreadsStay

LEMMA QuietInit == Init => Quiet
<1> SUFFICES ASSUME Init, NEW s \in Sids PROVE QuietAt(s)
  BY DEF Quiet
<1>1. \A t \in Threads : ~Advances(threads[t], s)
  BY IdleType DEF Init, Advances
<1>2. Replay(s, <<>>) = {}
  BY DEF Replay
<1>3. acked[s] = <<>> /\ TurnsOf(s) = {} /\ OwnPlans(s) = {}
  BY DEF Init, TurnsOf, OwnPlans
<1>4. sessions[s] # None => sessions[s].history = <<>>
  BY DEF Init
<1> QED BY <1>1, <1>2, <1>3, <1>4 DEF QuietAt, AtRest

LEMMA QuietStep == IInv /\ NewSessions /\ Quiet /\ [Next]_vars => Quiet'
<1> SUFFICES ASSUME Typed, TurnsLinked, NewSessions, Quiet, [Next]_vars PROVE Quiet'
  BY DEF IInv
<1>1. CASE \E t \in Threads, s \in Sids, p \in Payloads : BeginAdvance(t, s, p)
  BY <1>1, BeginAdvanceQuiet
<1>2. CASE \E t \in Threads, mode \in Modes : BeginCreate(t, mode)
  <2> PICK t \in Threads, mode \in Modes : BeginCreate(t, mode)
    BY <1>2
  <2>1. NewSession(mode, FirstWeeks) \in Session
    BY WeeksAssumption, NewSessionType DEF Session
  <2> QED BY <2>1, BeginSaveOfNewQuiet DEF BeginCreate
<1>3. CASE \E t \in Threads, s \in Sids : BeginFork(t, s)
  <2> PICK t \in Threads, s \in Sids : BeginFork(t, s)
    BY <1>3
  <2>1. Forked(sessions[s].session) \in Session
    BY ForkedType DEF BeginFork, Typed, TypeOK, Row, Session
  <2> QED BY <2>1, BeginSaveOfNewQuiet DEF BeginFork
<1>4. CASE \E t \in Threads : Write(t)
  BY <1>4, SavePlanQuiet, SaveSessionQuiet, SweepPlansQuiet, SweepSessionsQuiet, LogTurnQuiet
     DEF Write
<1>5. CASE \E s \in Sids : DeleteSession(s)
  BY <1>5, DeleteSessionQuiet
<1>6. CASE Tick \/ Crash \/ UNCHANGED vars
  BY <1>6, EnvironmentQuiet
<1> QED BY <1>1, <1>2, <1>3, <1>4, <1>5, <1>6 DEF Next

LEMMA QuietAlways == Spec => [](IInv /\ NewSessions /\ Quiet)
<1>1. IInv /\ NewSessions /\ [Next]_vars => NewSessions'
  BY NewSessionsStep DEF IInv
<1> QED BY <1>1, NewSessionsInit, QuietInit, QuietStep, Invariance, PTL DEF Spec

\* Whatever goes on around it, a session with one advance at a time that is
\* neither removed nor crashed under one holds the requests that were answered,
\* and its conversation replays them.
THEOREM QuietSessions == Spec => []QuietSessionsExact
<1>1. Quiet => QuietSessionsExact
  BY DEF Quiet, QuietAt, AtRest, Replay, Stored, QuietSessionsExact
<1> QED BY <1>1, QuietAlways, PTL

\* Such a manual session never gets a second plan.
THEOREM OneManualPlan == Spec => []QuietManualOnePlan
<1>1. ASSUME Quiet, NEW s \in Stored \ disturbed, sessions[s].session.mode = "manual"
      PROVE  \A p, q \in OwnPlans(s) : p = q
  <2>1. QuietAt(s) /\ sessions[s] # None
    BY <1>1 DEF Quiet, Stored
  <2>2. CASE InFlight(s)
    <3>1. PICK t \in Threads : Advances(threads[t], s)
      BY <2>2 DEF InFlight, Advancing, Advances
    <3> QED BY <1>1, <2>1, <3>1 DEF QuietAt, Carries
  <2>3. CASE ~InFlight(s)
    BY <1>1, <2>1, <2>3 DEF QuietAt, AtRest
  <2> QED BY <2>2, <2>3
<1>2. Quiet => QuietManualOnePlan
  BY <1>1 DEF QuietManualOnePlan, OwnPlans
<1> QED BY <1>2, QuietAlways, PTL

(***************************************************************************)
(* No sweep takes the plans of a session and leaves the session            *)
(***************************************************************************)

HasPlan(x, ps) == x.plan_id # None => ps[x.plan_id] # None

\* The plan of a session stays as long as nothing disturbs or sweeps the
\* session: in the row, and in the hands of a thread that will save it.
PlansKept ==
  /\ QuietSessionsKeepPlan
  /\ \A t \in Threads :
       threads[t].pc # "idle" /\ threads[t].sid \notin disturbed \cup BeingSwept =>
         HasPlan(threads[t].session, plans)

LEMMA NobodySwept ==
  ASSUME SweepersHoldLock, lock = None
  PROVE  BeingSwept = {}
BY ThreadsAssumption DEF SweepersHoldLock, Sweeping, BeingSwept

LEMMA OneSweeps ==
  ASSUME SweepersHoldLock, NEW t \in Threads, Sweeping(threads[t])
  PROVE  /\ \A u \in Threads \ {t} : ~Sweeping(threads[u])
         /\ BeingSwept = IF threads[t].pc = "sweep_sessions"
                           THEN Stale(threads[t].cutoff, threads[t].sid) ELSE {}
<1>1. \A u \in Threads \ {t} : ~Sweeping(threads[u])
  BY DEF SweepersHoldLock
<1> QED BY <1>1 DEF Sweeping, BeingSwept

\* The rows and the cutoffs of the sweeping threads say what is being swept.
LEMMA BeingSweptSame ==
  ASSUME Typed, NEW t \in Threads, NEW th, threads' = [threads EXCEPT ![t] = th],
         ~Sweeping(threads[t]), ~Sweeping(th), UNCHANGED sessions
  PROVE  BeingSwept' = BeingSwept
<1>1. \A u \in Threads : threads'[u] = IF u = t THEN th ELSE threads[u]
  BY DEF Typed, TypeOK
<1>2. threads[t].pc # "sweep_sessions" /\ th.pc # "sweep_sessions"
  BY DEF Sweeping
<1>3. \A s : s \in BeingSwept' <=>
             \E u \in Threads : threads'[u].pc = "sweep_sessions"
                                /\ s \in Stale(threads'[u].cutoff, threads'[u].sid)
  BY DEF BeingSwept, Stale, Stored
<1>4. \A s : s \in BeingSwept <=>
             \E u \in Threads : threads[u].pc = "sweep_sessions"
                                /\ s \in Stale(threads[u].cutoff, threads[u].sid)
  BY DEF BeingSwept
<1> QED BY <1>1, <1>2, <1>3, <1>4

LEMMA HasPlanStays ==
  ASSUME NEW x \in Session, NEW s, Linked(x, s, plans, threads, used), HasPlan(x, plans),
         s \notin BeingSwept',
         \A p \in Pids :
           plans[p] # None /\ plans'[p] = None => plans[p].brief_id \in BeingSwept'
  PROVE  HasPlan(x, plans')
<1>1. x.plan_id # None => x.plan_id \in Pids
  BY DEF Session, SessionOver
<1> QED BY <1>1 DEF HasPlan, Linked

LEMMA PlansKeptMoves ==
  ASSUME Typed, LInv, PlansKept, NEW t \in Threads, NEW th,
         threads' = [threads EXCEPT ![t] = th],
         \A p \in Pids :
           plans[p] # None /\ plans'[p] = None => plans[p].brief_id \in BeingSwept',
         disturbed \subseteq disturbed',
         \A s \in Sids : sessions'[s] # None /\ s \notin disturbed' \cup BeingSwept' =>
           /\ s \notin BeingSwept
           /\ \/ sessions[s] # None /\ sessions'[s].session = sessions[s].session
              \/ /\ threads[t].pc # "idle" /\ s = threads[t].sid
                 /\ sessions'[s].session = threads[t].session,
         \A u \in Threads \ {t} :
           threads[u].pc # "idle" /\ threads[u].sid \notin disturbed' \cup BeingSwept' =>
             threads[u].sid \notin BeingSwept \/ threads[u].session.plan_id = None,
         th.pc # "idle" /\ th.sid \notin disturbed' \cup BeingSwept' => HasPlan(th.session, plans')
  PROVE  PlansKept'
<1>1. \A u \in Threads : threads'[u] = IF u = t THEN th ELSE threads[u]
  BY DEF Typed, TypeOK
<1>2. ASSUME NEW u \in Threads, NEW x, x = threads[u].session, threads[u].pc # "idle",
             threads[u].sid \notin disturbed \cup BeingSwept, threads[u].sid \notin BeingSwept'
      PROVE  HasPlan(x, plans')
  <2>1. x \in Session
    BY <1>2 DEF Typed, WellFormed
  <2>2. Linked(x, threads[u].sid, plans, threads, used) /\ HasPlan(x, plans)
    BY <1>2 DEF LInv, HeldLinked, PlansKept
  <2> QED BY <1>2, <2>1, <2>2, HasPlanStays
<1>3. ASSUME NEW s \in Sids, sessions'[s] # None, s \notin disturbed' \cup BeingSwept'
      PROVE  LET id == sessions'[s].session.plan_id IN id # None => plans'[id] # None
  <2>1. PICK x : x = sessions'[s].session
    OBVIOUS
  <2>2. CASE sessions[s] # None /\ x = sessions[s].session
    <3>1. x \in Session /\ Linked(x, s, plans, threads, used)
      BY <2>2 DEF LInv, StoredLinked, Typed, TypeOK, Row
    <3>2. s \notin disturbed \cup BeingSwept
      BY <1>3
    <3>3. HasPlan(x, plans)
      BY <2>2, <3>2 DEF PlansKept, QuietSessionsKeepPlan, Stored, HasPlan
    <3>4. HasPlan(x, plans')
      BY <1>3, <3>1, <3>3, HasPlanStays
    <3> QED BY <2>1, <3>4 DEF HasPlan
  <2>3. CASE threads[t].pc # "idle" /\ s = threads[t].sid /\ x = threads[t].session
    <3>1. s \notin disturbed \cup BeingSwept
      BY <1>3
    <3>2. HasPlan(x, plans')
      BY <1>2, <1>3, <2>3, <3>1
    <3> QED BY <2>1, <3>2 DEF HasPlan
  <2> QED BY <1>3, <2>1, <2>2, <2>3
<1>4. ASSUME NEW u \in Threads, NEW x, x = threads'[u].session, threads'[u].pc # "idle",
             threads'[u].sid \notin disturbed' \cup BeingSwept'
      PROVE  HasPlan(x, plans')
  <2>1. CASE u = t
    <3>1. threads'[u] = th
      BY <1>1, <2>1
    <3>2. HasPlan(th.session, plans')
      BY <1>4, <3>1
    <3> QED BY <1>4, <3>1, <3>2
  <2>2. CASE u # t
    <3>1. threads'[u] = threads[u]
      BY <1>1, <2>2
    <3>2. CASE threads[u].sid \notin BeingSwept
      BY <1>2, <1>4, <3>1, <3>2
    <3>3. CASE threads[u].session.plan_id = None
      BY <1>4, <3>1, <3>3 DEF HasPlan
    <3> QED BY <1>4, <2>2, <3>1, <3>2, <3>3
  <2> QED BY <2>1, <2>2
<1>5. QuietSessionsKeepPlan'
  BY <1>3 DEF QuietSessionsKeepPlan, Stored
<1> QED BY <1>4, <1>5 DEF PlansKept

\* The same when the threads stay, or all of them stop.
LEMMA PlansKeptThreadsStay ==
  ASSUME PlansKept, UNCHANGED plans, threads' = threads \/ threads' = [t \in Threads |-> Idle],
         disturbed \cup BeingSwept \subseteq disturbed' \cup BeingSwept',
         \A s \in Sids : sessions'[s] \in {None, sessions[s]}
  PROVE  PlansKept'
<1>1. QuietSessionsKeepPlan'
  BY DEF PlansKept, QuietSessionsKeepPlan, Stored
<1>2. ASSUME NEW u \in Threads, threads'[u].pc # "idle",
             threads'[u].sid \notin disturbed' \cup BeingSwept'
      PROVE  threads'[u] = threads[u] /\ HasPlan(threads[u].session, plans)
  BY <1>2, IdleType DEF PlansKept
<1> QED BY <1>1, <1>2 DEF PlansKept, HasPlan

LEMMA BeginAdvanceKeeps ==
  ASSUME Typed, LInv, PlansKept, NEW t \in Threads, NEW i \in Sids, NEW p \in Payloads,
         BeginAdvance(t, i, p)
  PROVE  PlansKept'
<1> DEFINE read == sessions[i].session
           pc == IF MakesPlan(read, p) THEN "save_plan" ELSE "save_session"
           th == [Idle EXCEPT !.pc = pc, !.sid = i, !.request = used.reqs + 1,
                              !.session = Landed(read, p),
                              !.history = Append(sessions[i].history, used.reqs + 1)]
<1>1. /\ threads' = [threads EXCEPT ![t] = th] /\ th.sid = i /\ th.session = Landed(read, p)
      /\ ~Sweeping(th) /\ ~Sweeping(threads[t])
  BY DEF BeginAdvance, Idle, Sweeping
<1>2. read \in Session /\ sessions[i] # None
  BY DEF BeginAdvance, Typed, TypeOK, Row
<1>3. Landed(read, p).plan_id = read.plan_id
  BY <1>2, LandedType, ServiceAssumption DEF BeginAdvance, Session
<1> HIDE DEF th
<1>4. UNCHANGED <<sessions, plans>> /\ disturbed \subseteq disturbed'
  BY DEF BeginAdvance, tables
<1>5. BeingSwept' = BeingSwept
  BY <1>1, <1>4, BeingSweptSame
<1>6. ASSUME th.sid \notin disturbed' \cup BeingSwept' PROVE HasPlan(th.session, plans')
  <2>1. i \notin disturbed \cup BeingSwept
    BY <1>1, <1>4, <1>5, <1>6
  <2>2. HasPlan(read, plans)
    BY <1>2, <2>1 DEF PlansKept, QuietSessionsKeepPlan, Stored, HasPlan
  <2> QED BY <1>1, <1>3, <1>4, <2>2 DEF HasPlan
<1> QED BY <1>1, <1>4, <1>5, <1>6, PlansKeptMoves

LEMMA BeginSaveOfNewKeeps ==
  ASSUME Typed, LInv, PlansKept, NEW t \in Threads, NEW x \in Session, x.plan_id = None,
         BeginSaveOfNew(t, x)
  PROVE  PlansKept'
<1> DEFINE th == [Idle EXCEPT !.pc = "save_session", !.sid = used.sids + 1,
                              !.session = x, !.project = "chosen"]
<1>1. /\ threads' = [threads EXCEPT ![t] = th] /\ th.session = x
      /\ ~Sweeping(th) /\ ~Sweeping(threads[t])
  BY DEF BeginSaveOfNew, Idle, Sweeping
<1> HIDE DEF th
<1>2. UNCHANGED <<sessions, plans, disturbed>>
  BY DEF BeginSaveOfNew, tables, ghosts
<1>3. BeingSwept' = BeingSwept
  BY <1>1, <1>2, BeingSweptSame
<1>4. HasPlan(th.session, plans')
  BY <1>1 DEF HasPlan
<1> QED BY <1>1, <1>2, <1>3, <1>4, PlansKeptMoves

LEMMA SavePlanKeeps ==
  ASSUME Typed, LInv, SweepersHoldLock, PlansKept, NEW t \in Threads, SavePlan(t)
  PROVE  PlansKept'
<1> DEFINE old == threads[t]
           th == [old EXCEPT !.pc = "save_session", !.session.plan_id = old.request]
<1>1. /\ old \in Thread /\ old.session \in Session /\ old.sid \in Sids /\ old.request \in Pids
      /\ old.pc = "save_plan"
  BY DEF Typed, TypeOK, WellFormed, SavePlan, Thread, Pids
<1>2. /\ threads' = [threads EXCEPT ![t] = th] /\ th.session.plan_id = old.request
      /\ ~Sweeping(th) /\ ~Sweeping(old)
  BY <1>1 DEF SavePlan, Thread, Session, SessionOver, Sweeping
<1> HIDE DEF th
<1>3. UNCHANGED <<sessions, disturbed>> /\ lock = None
  BY DEF SavePlan, ghosts
<1>4. BeingSwept = {} /\ BeingSwept' = {}
  BY <1>2, <1>3, BeingSweptSame, NobodySwept
<1>5. PlanFor(old.session, old.sid) # None
  BY <1>1, PlanForType, RowAssumption DEF Plan, Session
<1>6. plans'[old.request] # None /\ \A p \in Pids : plans[p] # None => plans'[p] # None
  BY <1>1, <1>5 DEF SavePlan, Typed, TypeOK
<1>7. HasPlan(th.session, plans')
  BY <1>2, <1>6 DEF HasPlan
<1> QED BY <1>2, <1>3, <1>4, <1>6, <1>7, PlansKeptMoves

LEMMA SaveSessionKeeps ==
  ASSUME Typed, LInv, SweepersHoldLock, PlansKept, NEW t \in Threads, SaveSession(t)
  PROVE  PlansKept'
<1> DEFINE old == threads[t]
           th == [old EXCEPT !.pc = "sweep_plans"]
<1>1. /\ threads' = [threads EXCEPT ![t] = th] /\ th.sid = old.sid /\ th.session = old.session
      /\ th.pc = "sweep_plans" /\ old.pc = "save_session"
  BY DEF SaveSession, Typed, TypeOK, Thread
<1> HIDE DEF th
<1>2. UNCHANGED <<plans, disturbed>> /\ lock = None /\ \A u \in Threads : ~Sweeping(threads[u])
  BY ThreadsAssumption DEF SaveSession, SweepersHoldLock
<1>3. BeingSwept = {}
  BY <1>2, NobodySwept
<1>4. \A u \in Threads : threads'[u].pc # "sweep_sessions"
  BY <1>1, <1>2 DEF Typed, TypeOK, Sweeping
<1>5. BeingSwept' = {}
  BY <1>4 DEF BeingSwept
<1>6. PICK row \in Row : /\ sessions' = [sessions EXCEPT ![old.sid] = row]
                        /\ row.session = old.session
  BY SavedRow
<1>7. ASSUME NEW s \in Sids, sessions'[s] # None
      PROVE  \/ sessions[s] # None /\ sessions'[s].session = sessions[s].session
             \/ /\ old.pc # "idle" /\ s = old.sid
                /\ sessions'[s].session = old.session
  BY <1>1, <1>6, <1>7 DEF Typed, TypeOK
<1>8. ASSUME th.sid \notin disturbed' PROVE HasPlan(th.session, plans')
  <2>1. HasPlan(old.session, plans)
    BY <1>1, <1>2, <1>3, <1>8 DEF PlansKept
  <2> QED BY <1>1, <1>2, <2>1 DEF HasPlan
<1> QED BY <1>1, <1>2, <1>3, <1>5, <1>7, <1>8, PlansKeptMoves

\* What the first statement of a sweep found stale is what is being swept.
LEMMA SweepPlansSweeps ==
  ASSUME Typed, SweepersHoldLock, NEW t \in Threads, SweepPlans(t)
  PROVE  BeingSwept' = Stale(clock - TTL, threads[t].sid)
<1> DEFINE th == [threads[t] EXCEPT !.pc = "sweep_sessions", !.cutoff = clock - TTL]
<1>1. /\ threads' = [threads EXCEPT ![t] = th] /\ th.sid = threads[t].sid
      /\ th.pc = "sweep_sessions" /\ th.cutoff = clock - TTL /\ threads[t].pc = "sweep_plans"
  BY DEF SweepPlans, Typed, TypeOK, Thread
<1> HIDE DEF th
<1>2. \A u \in Threads : threads'[u] = IF u = t THEN th ELSE threads[u]
  BY <1>1 DEF Typed, TypeOK
<1>3. \A u \in Threads \ {t} : ~Sweeping(threads[u])
  BY <1>1, OneSweeps DEF Sweeping
<1>4. {u \in Threads : threads'[u].pc = "sweep_sessions"} = {t}
  BY <1>1, <1>2, <1>3 DEF Sweeping
<1>5. \A s : s \in BeingSwept' <=>
             \E u \in {w \in Threads : threads'[w].pc = "sweep_sessions"} :
               s \in Stale(threads'[u].cutoff, threads'[u].sid)
  <2>1. UNCHANGED sessions
    BY DEF SweepPlans
  <2> QED BY <2>1 DEF BeingSwept, Stale, Stored
<1>6. threads'[t].cutoff = clock - TTL /\ threads'[t].sid = threads[t].sid
  BY <1>1, <1>2
<1> QED BY <1>4, <1>5, <1>6

LEMMA SweepPlansKeeps ==
  ASSUME Typed, LInv, SweepersHoldLock, PlansKept, NEW t \in Threads, SweepPlans(t)
  PROVE  PlansKept'
<1> DEFINE old == threads[t]
           th == [old EXCEPT !.pc = "sweep_sessions", !.cutoff = clock - TTL]
<1>1. /\ threads' = [threads EXCEPT ![t] = th] /\ th.sid = old.sid /\ th.session = old.session
      /\ th.pc = "sweep_sessions" /\ th.cutoff = clock - TTL /\ old.pc = "sweep_plans"
  BY DEF SweepPlans, Typed, TypeOK, Thread
<1> HIDE DEF th
<1>2. BeingSwept = {} /\ \A u \in Threads \ {t} : ~Sweeping(threads[u])
  BY <1>1, OneSweeps DEF Sweeping
<1>3. UNCHANGED <<sessions, disturbed>>
  BY DEF SweepPlans, ghosts
<1>5. BeingSwept' = Stale(clock - TTL, old.sid)
  BY SweepPlansSweeps
<1>6. \A p \in Pids : plans[p] # None /\ plans'[p] = None => plans[p].brief_id \in BeingSwept'
  BY <1>5 DEF SweepPlans
<1>7. ASSUME th.sid \notin disturbed' \cup BeingSwept' PROVE HasPlan(th.session, plans')
  <2>1. PICK x \in Session : x = old.session
    BY <1>1 DEF Typed, WellFormed
  <2>2. HasPlan(x, plans) /\ Linked(x, old.sid, plans, threads, used)
    BY <1>1, <1>2, <1>3, <1>7, <2>1 DEF PlansKept, LInv, HeldLinked
  <2>3. HasPlan(x, plans')
    BY <1>1, <1>6, <1>7, <2>2, HasPlanStays
  <2> QED BY <1>1, <2>1, <2>3
<1> QED BY <1>1, <1>2, <1>3, <1>6, <1>7, PlansKeptMoves

LEMMA SweepSessionsKeeps ==
  ASSUME Typed, LInv, SweepersHoldLock, NewSessions, PlansKept,
         NEW t \in Threads, SweepSessions(t)
  PROVE  PlansKept'
<1> DEFINE old == threads[t]
           th == IF old.request = None THEN Idle ELSE [old EXCEPT !.pc = "log_turn"]
           gone == Stale(old.cutoff, old.sid)
<1>1. /\ threads' = [threads EXCEPT ![t] = th] /\ old.pc = "sweep_sessions" /\ Drop(gone)
      /\ UNCHANGED plans
  BY DEF SweepSessions
<1>2. /\ th.pc # "sweep_sessions"
      /\ th.pc # "idle" => th.sid = old.sid /\ th.session = old.session
  BY IdleType DEF Typed, TypeOK, Thread
<1> HIDE DEF th
<1>3. BeingSwept = gone /\ \A u \in Threads \ {t} : ~Sweeping(threads[u])
  BY <1>1, OneSweeps DEF Sweeping
<1>4. \A u \in Threads : threads'[u].pc # "sweep_sessions"
  BY <1>1, <1>2, <1>3 DEF Typed, TypeOK, Sweeping
<1>5. BeingSwept' = {}
  BY <1>4 DEF BeingSwept
<1>6. old.sid \notin gone
  BY DEF Stale
<1> HIDE DEF gone
<1>7. /\ disturbed \subseteq disturbed'
      /\ \A s \in Sids : sessions'[s] # None => s \notin gone /\ sessions'[s] = sessions[s]
      /\ \A s \in gone : InFlight(s) => s \in disturbed'
  BY <1>1 DEF Drop
<1>8. ASSUME NEW u \in Threads, threads[u].pc # "idle", threads[u].sid \notin disturbed'
      PROVE  threads[u].sid \notin gone \/ threads[u].session.plan_id = None
  <2>1. CASE threads[u].request = None
    BY <1>8, <2>1 DEF NewSessions, Creates
  <2>2. CASE threads[u].request # None
    BY <1>7, <1>8, <2>2 DEF InFlight, Advancing
  <2> QED BY <2>1, <2>2
<1>9. ASSUME th.pc # "idle", th.sid \notin disturbed' PROVE HasPlan(th.session, plans')
  <2>1. HasPlan(old.session, plans)
    BY <1>1, <1>2, <1>3, <1>6, <1>7, <1>9 DEF PlansKept
  <2> QED BY <1>1, <1>2, <1>9, <2>1 DEF HasPlan
<1> QED BY <1>1, <1>3, <1>5, <1>7, <1>8, <1>9, PlansKeptMoves

LEMMA LogTurnKeeps ==
  ASSUME Typed, LInv, SweepersHoldLock, PlansKept, NEW t \in Threads, LogTurn(t)
  PROVE  PlansKept'
<1>1. /\ threads' = [threads EXCEPT ![t] = Idle] /\ ~Sweeping(Idle) /\ ~Sweeping(threads[t])
      /\ lock = None /\ UNCHANGED <<sessions, plans, disturbed>>
  BY IdleType DEF LogTurn, Logged, Refused, Sweeping
<1>2. BeingSwept = {} /\ BeingSwept' = {}
  BY <1>1, BeingSweptSame, NobodySwept
<1> QED BY <1>1, <1>2, IdleType, PlansKeptMoves

LEMMA PlansKeptInit == Init => PlansKept
<1> SUFFICES ASSUME Init PROVE PlansKept
  OBVIOUS
<1>1. \A t \in Threads : threads[t].pc = "idle"
  BY IdleType DEF Init
<1>2. QuietSessionsKeepPlan
  BY ServiceAssumption DEF Init, QuietSessionsKeepPlan, Stored, Sids
<1> QED BY <1>1, <1>2 DEF PlansKept

LEMMA PlansKeptStep ==
  IInv /\ LInv /\ SweepersHoldLock /\ NewSessions /\ PlansKept /\ [Next]_vars => PlansKept'
<1> SUFFICES ASSUME Typed, LInv, SweepersHoldLock, NewSessions, PlansKept, [Next]_vars
             PROVE  PlansKept'
  BY DEF IInv
<1>1. CASE \E t \in Threads, s \in Sids, p \in Payloads : BeginAdvance(t, s, p)
  BY <1>1, BeginAdvanceKeeps
<1>2. CASE \E t \in Threads, mode \in Modes : BeginCreate(t, mode)
  <2> PICK t \in Threads, mode \in Modes : BeginCreate(t, mode)
    BY <1>2
  <2>1. NewSession(mode, FirstWeeks) \in Session /\ NewSession(mode, FirstWeeks).plan_id = None
    BY WeeksAssumption, NewSessionType DEF Session
  <2> QED BY <2>1, BeginSaveOfNewKeeps DEF BeginCreate
<1>3. CASE \E t \in Threads, s \in Sids : BeginFork(t, s)
  <2> PICK t \in Threads, s \in Sids : BeginFork(t, s)
    BY <1>3
  <2>1. Forked(sessions[s].session) \in Session /\ Forked(sessions[s].session).plan_id = None
    BY ForkedType DEF BeginFork, Typed, TypeOK, Row, Session
  <2> QED BY <2>1, BeginSaveOfNewKeeps DEF BeginFork
<1>4. CASE \E t \in Threads : Write(t)
  BY <1>4, SavePlanKeeps, SaveSessionKeeps, SweepPlansKeeps, SweepSessionsKeeps, LogTurnKeeps
     DEF Write
<1>5. CASE \E s \in Sids : DeleteSession(s)
  <2>1. /\ UNCHANGED <<plans, threads>> /\ disturbed \subseteq disturbed' /\ lock = None
        /\ \A s \in Sids : sessions'[s] \in {None, sessions[s]}
    BY <1>5 DEF DeleteSession, Drop
  <2>2. BeingSwept = {}
    BY <2>1, NobodySwept
  <2> QED BY <2>1, <2>2, PlansKeptThreadsStay
<1>6. CASE Tick \/ UNCHANGED vars
  <2>1. UNCHANGED <<plans, threads, disturbed, sessions>>
    BY <1>6 DEF Tick, vars, tables, ghosts
  <2>2. BeingSwept' = BeingSwept
    BY <2>1 DEF BeingSwept, Stale, Stored
  <2> QED BY <2>1, <2>2, PlansKeptThreadsStay
<1>7. CASE Crash
  <2>1. /\ UNCHANGED <<plans, sessions>> /\ threads' = [t \in Threads |-> Idle]
        /\ disturbed \cup BeingSwept \subseteq disturbed'
    BY <1>7 DEF Crash, tables, BeingSwept
  <2> QED BY <2>1, PlansKeptThreadsStay
<1> QED BY <1>1, <1>2, <1>3, <1>4, <1>5, <1>6, <1>7 DEF Next

\* No sweep, however it overlaps and wherever it dies, takes the plan of a
\* session that stays undisturbed.
THEOREM KeepsPlan == Spec => []QuietSessionsKeepPlan
<1>1. Init => SweepersHoldLock
  BY IdleType DEF Init, SweepersHoldLock, Sweeping
<1>2. IInv /\ SweepersHoldLock /\ [Next]_vars => SweepersHoldLock'
  BY SweepersStep
<1>3. IInv /\ LInv /\ [Next]_vars => LInv'
  BY LInvStep
<1>4. PlansKept => QuietSessionsKeepPlan
  BY DEF PlansKept
<1> QED BY <1>1, <1>2, <1>3, <1>4, LInvInit, PlansKeptInit, PlansKeptStep, QuietAlways, PTL
        DEF Spec

(***************************************************************************)
(* A sweep leaves no plan of a session it takes                            *)
(***************************************************************************)

\* Between the two statements of a sweep nobody stores a plan for a session
\* it has found stale.
SweptBare == \A p \in Pids : plans[p] # None => plans[p].brief_id \notin BeingSwept

LEMMA BareWhenNobodySweeps ==
  ASSUME \A u \in Threads : threads'[u].pc # "sweep_sessions"
  PROVE  SweptBare'
BY DEF SweptBare, BeingSwept

\* A step of a thread outside its sweep, with nobody else in one.
LEMMA BareOutsideSweeps ==
  ASSUME Typed, SweepersHoldLock, lock = None, NEW t \in Threads, NEW th,
         threads' = [threads EXCEPT ![t] = th], th.pc # "sweep_sessions"
  PROVE  SweptBare'
<1>1. \A u \in Threads : threads[u].pc # "sweep_sessions"
  BY ThreadsAssumption DEF SweepersHoldLock, Sweeping
<1>2. \A u \in Threads : threads'[u] = IF u = t THEN th ELSE threads[u]
  BY DEF Typed, TypeOK
<1>3. \A u \in Threads : threads'[u].pc # "sweep_sessions"
  BY <1>1, <1>2
<1> QED BY <1>3, BareWhenNobodySweeps

LEMMA SweepPlansBare ==
  ASSUME Typed, SweepersHoldLock, NEW t \in Threads, SweepPlans(t)
  PROVE  SweptBare'
<1> DEFINE stale == Stale(clock - TTL, threads[t].sid)
<1>1. BeingSwept' = stale
  BY SweepPlansSweeps
<1>2. plans' = [p \in Pids |-> IF plans[p] # None /\ plans[p].brief_id \in stale
                                 THEN None ELSE plans[p]]
  BY DEF SweepPlans
<1> HIDE DEF stale
<1> QED BY <1>1, <1>2 DEF SweptBare

LEMMA SweepSessionsBare ==
  ASSUME Typed, SweepersHoldLock, NEW t \in Threads, SweepSessions(t)
  PROVE  SweptBare'
<1>1. threads[t].pc = "sweep_sessions" /\ \A u \in Threads \ {t} : ~Sweeping(threads[u])
  BY OneSweeps DEF SweepSessions, Sweeping
<1>2. threads'[t].pc # "sweep_sessions"
  BY IdleType DEF SweepSessions, Typed, TypeOK, Thread
<1>3. \A u \in Threads \ {t} : threads'[u] = threads[u]
  BY DEF SweepSessions, Typed, TypeOK
<1>4. \A u \in Threads : threads'[u].pc # "sweep_sessions"
  BY <1>1, <1>2, <1>3 DEF Sweeping
<1> QED BY <1>4, BareWhenNobodySweeps

LEMMA SweptBareStep == IInv /\ SweepersHoldLock /\ SweptBare /\ [Next]_vars => SweptBare'
<1> SUFFICES ASSUME Typed, SweepersHoldLock, SweptBare, [Next]_vars PROVE SweptBare'
  BY DEF IInv
<1>1. CASE BeingSwept' = BeingSwept /\ UNCHANGED plans
  BY <1>1 DEF SweptBare
<1>2. ASSUME NEW t \in Threads, NEW s \in Sids, NEW p \in Payloads, BeginAdvance(t, s, p)
      PROVE  SweptBare'
  <2> DEFINE read == sessions[s].session
             pc == IF MakesPlan(read, p) THEN "save_plan" ELSE "save_session"
             th == [Idle EXCEPT !.pc = pc, !.sid = s, !.request = used.reqs + 1,
                                !.session = Landed(read, p),
                                !.history = Append(sessions[s].history, used.reqs + 1)]
  <2>1. /\ threads' = [threads EXCEPT ![t] = th] /\ ~Sweeping(th) /\ ~Sweeping(threads[t])
        /\ UNCHANGED <<sessions, plans>>
    BY <1>2 DEF BeginAdvance, Idle, Sweeping, tables
  <2> HIDE DEF th
  <2>2. BeingSwept' = BeingSwept
    BY <2>1, BeingSweptSame
  <2> QED BY <1>1, <2>1, <2>2
<1>3. ASSUME NEW t \in Threads, NEW x, BeginSaveOfNew(t, x) PROVE SweptBare'
  <2> DEFINE th == [Idle EXCEPT !.pc = "save_session", !.sid = used.sids + 1,
                                !.session = x, !.project = "chosen"]
  <2>1. /\ threads' = [threads EXCEPT ![t] = th] /\ ~Sweeping(th) /\ ~Sweeping(threads[t])
        /\ UNCHANGED <<sessions, plans>>
    BY <1>3 DEF BeginSaveOfNew, Idle, Sweeping, tables
  <2> HIDE DEF th
  <2>2. BeingSwept' = BeingSwept
    BY <2>1, BeingSweptSame
  <2> QED BY <1>1, <2>1, <2>2
<1>4. ASSUME NEW t \in Threads, SavePlan(t) PROVE SweptBare'
  <2> DEFINE th == [threads[t] EXCEPT !.pc = "save_session",
                                      !.session.plan_id = threads[t].request]
  <2>1. /\ threads' = [threads EXCEPT ![t] = th] /\ th.pc # "sweep_sessions" /\ lock = None
    BY <1>4 DEF SavePlan, Typed, TypeOK, Thread
  <2> HIDE DEF th
  <2> QED BY <2>1, BareOutsideSweeps
<1>5. ASSUME NEW t \in Threads, SaveSession(t) PROVE SweptBare'
  <2> DEFINE th == [threads[t] EXCEPT !.pc = "sweep_plans"]
  <2>1. threads' = [threads EXCEPT ![t] = th] /\ th.pc # "sweep_sessions" /\ lock = None
    BY <1>5 DEF SaveSession, Typed, TypeOK, Thread
  <2> HIDE DEF th
  <2> QED BY <2>1, BareOutsideSweeps
<1>6. ASSUME NEW t \in Threads, LogTurn(t) PROVE SweptBare'
  <2>1. threads' = [threads EXCEPT ![t] = Idle] /\ Idle.pc # "sweep_sessions" /\ lock = None
    BY <1>6, IdleType DEF LogTurn, Logged, Refused
  <2> QED BY <2>1, BareOutsideSweeps
<1>7. CASE \E s \in Sids : DeleteSession(s)
  <2>1. threads' = threads /\ lock = None
    BY <1>7 DEF DeleteSession
  <2>2. \A u \in Threads : threads'[u].pc # "sweep_sessions"
    BY <2>1, ThreadsAssumption DEF SweepersHoldLock, Sweeping
  <2> QED BY <2>2, BareWhenNobodySweeps
<1>8. CASE Tick \/ UNCHANGED vars
  <2>1. UNCHANGED <<plans, threads, sessions>>
    BY <1>8 DEF Tick, vars, tables
  <2>2. BeingSwept' = BeingSwept
    BY <2>1 DEF BeingSwept, Stale, Stored
  <2> QED BY <1>1, <2>1, <2>2
<1>9. CASE Crash
  <2>1. \A u \in Threads : threads'[u].pc # "sweep_sessions"
    BY <1>9, IdleType DEF Crash
  <2> QED BY <2>1, BareWhenNobodySweeps
<1>10. ASSUME NEW t \in Threads, Write(t) PROVE SweptBare'
  BY <1>4, <1>5, <1>6, <1>10, SweepPlansBare, SweepSessionsBare DEF Write
<1> QED BY <1>2, <1>3, <1>7, <1>8, <1>9, <1>10 DEF Next, BeginCreate, BeginFork

LEMMA SweepTakesBare ==
  ASSUME SweepersHoldLock, SweptBare, NEW t \in Threads, NEW s \in Sids, SweepSessions(t),
         sessions[s] # None, sessions'[s] = None, NEW p \in Pids, plans[p] # None
  PROVE  plans[p].brief_id # s
<1>1. threads[t].pc = "sweep_sessions" /\ s \in Stale(threads[t].cutoff, threads[t].sid)
  BY DEF SweepSessions, Drop
<1>2. s \in BeingSwept
  BY <1>1, OneSweeps DEF Sweeping
<1> QED BY <1>2 DEF SweptBare

\* The two statements of a sweep agree, whatever the other threads and the
\* clock do in between: no plan is left of a session it takes.
THEOREM SweepsAreWhole == Spec => SweptWholly
<1>1. Init => SweepersHoldLock /\ SweptBare
  BY IdleType DEF Init, SweepersHoldLock, Sweeping, SweptBare
<1>2. IInv /\ SweepersHoldLock /\ [Next]_vars => SweepersHoldLock'
  BY SweepersStep
<1>3. SweepersHoldLock /\ SweptBare =>
        [\A t \in Threads, s \in Sids :
           SweepSessions(t) /\ sessions[s] # None /\ sessions'[s] = None =>
             \A p \in Pids : plans[p] # None => plans[p].brief_id # s]_vars
  BY SweepTakesBare
<1> QED BY <1>1, <1>2, <1>3, IInvInit, IInvStep, SweptBareStep, PTL DEF Spec, SweptWholly

(***************************************************************************)
(* The refinement of SessionPromise: what a thread holds before it saves   *)
(***************************************************************************)

\* The thread th saves a new session under an id that has no version, or one
\* that adds its own request, stored nowhere, to a version vs has of it.
Based(th, vs) ==
  /\ th.pc = "save_session" /\ th.request = None => th.history = <<>> /\ vs[th.sid] = {}
  /\ th.pc \in {"save_plan", "save_session"} /\ th.request # None =>
       /\ \E v \in vs[th.sid] : th.history = Append(v, th.request)
       /\ \A v \in vs[th.sid] : \A i \in 1..Len(v) : v[i] # th.request

AllBased == \A t \in Threads : Based(threads[t], versions)

\* Nobody else has the id of a session that is not saved yet.
NewIdsOwned ==
  \A t, u \in Threads :
    t # u /\ threads[t].pc = "save_session" /\ threads[t].request = None
      /\ threads[u].pc # "idle" => threads[u].sid # threads[t].sid

VersionsOk ==
  \A s \in Sids :
    /\ sessions[s] # None => sessions[s].history \in versions[s]
    /\ s > used.sids => versions[s] = {}
    /\ \A v \in versions[s] : \A i \in 1..Len(v) : v[i] <= used.reqs

PInv == AllBased /\ NewIdsOwned /\ VersionsOk

LEMMA IdleBased == \A vs : Based(Idle, vs)
BY DEF Based, Idle

LEMMA InitRows ==
  ASSUME Init
  PROVE  \A s \in Sids :
           /\ s \in 1..Len(Seeds) => sessions[s] # None /\ sessions[s].history = <<>>
           /\ s \notin 1..Len(Seeds) => sessions[s] = None
<1> SUFFICES ASSUME NEW s \in Sids
    PROVE  /\ s \in 1..Len(Seeds) => sessions[s] # None /\ sessions[s].history = <<>>
           /\ s \notin 1..Len(Seeds) => sessions[s] = None
  OBVIOUS
<1> DEFINE row == [session |-> Seeds[s], history |-> <<>>, created_at |-> 0,
                   updated_at |-> 0, project |-> "chosen"]
<1>1. CASE s \in 1..Len(Seeds)
  <2>1. row \in Row
    BY <1>1, ServiceAssumption DEF Row, Times
  <2>2. sessions[s] = row
    BY <1>1, ServiceAssumption DEF Init, Sids
  <2> QED BY <1>1, <2>1, <2>2, RowAssumption
<1>2. CASE s \notin 1..Len(Seeds)
  BY <1>2, ServiceAssumption DEF Init, Sids
<1> QED BY <1>1, <1>2

LEMMA PInvInit == Init => PInv
<1> SUFFICES ASSUME Init PROVE PInv
  OBVIOUS
<1>1. AllBased /\ NewIdsOwned
  BY IdleType, IdleBased DEF Init, AllBased, NewIdsOwned
<1>2. VersionsOk
  BY InitRows, ServiceAssumption DEF Init, VersionsOk, Sids
<1> QED BY <1>1, <1>2 DEF PInv

(***************************************************************************)
(* The steps                                                               *)
(***************************************************************************)

\* A step that stores no version and changes at most the thread t, to th,
\* which does not come to hold a new session.
LEMMA PInvNoStore ==
  ASSUME Typed, PInv, UNCHANGED <<versions, used>>, NEW t \in Threads, NEW th,
         threads' = [threads EXCEPT ![t] = th],
         Based(th, versions),
         th.pc # "idle" => threads[t].pc # "idle" /\ th.sid = threads[t].sid,
         th.pc = "save_session" /\ th.request = None => th = threads[t],
         \A s \in Sids : sessions'[s] # None => sessions'[s] = sessions[s]
  PROVE  PInv'
<1>1. \A u \in Threads : threads'[u] = IF u = t THEN th ELSE threads[u]
  BY DEF Typed, TypeOK
<1>2. AllBased'
  BY <1>1 DEF PInv, AllBased
<1>3. NewIdsOwned'
  BY <1>1 DEF PInv, NewIdsOwned
<1>4. VersionsOk'
  BY DEF PInv, VersionsOk
<1> QED BY <1>2, <1>3, <1>4 DEF PInv

LEMMA BeginAdvancePInv ==
  ASSUME Typed, PInv, NEW t \in Threads, NEW s \in Sids, NEW p \in Payloads,
         BeginAdvance(t, s, p)
  PROVE  PInv'
<1> DEFINE r == used.reqs + 1
           pc == IF MakesPlan(sessions[s].session, p) THEN "save_plan" ELSE "save_session"
           th == [Idle EXCEPT !.pc = pc, !.sid = s, !.request = r,
                              !.session = Landed(sessions[s].session, p),
                              !.history = Append(sessions[s].history, r)]
<1>1. /\ used.reqs \in Int /\ r # None /\ used'.reqs = r /\ used'.sids = used.sids
      /\ UNCHANGED <<sessions, versions>>
  BY NoneAssumption DEF Typed, TypeOK, BeginAdvance, tables
<1>2. /\ th.request = r /\ th.sid = s /\ th.pc \in {"save_plan", "save_session"}
      /\ th.history = Append(sessions[s].history, r)
      /\ threads' = [threads EXCEPT ![t] = th]
  BY DEF BeginAdvance, Idle
<1>3. sessions[s].history \in versions[s]
  BY DEF BeginAdvance, PInv, VersionsOk
<1>4. \A v \in versions[s] : \A i \in 1..Len(v) : v[i] # r
  BY <1>1 DEF PInv, VersionsOk
<1>5. Based(th, versions)
  BY <1>1, <1>2, <1>3, <1>4 DEF Based
<1> HIDE DEF th
<1>6. \A u \in Threads : threads'[u] = IF u = t THEN th ELSE threads[u]
  BY <1>2 DEF Typed, TypeOK
<1>7. AllBased'
  BY <1>1, <1>5, <1>6 DEF PInv, AllBased
<1>8. NewIdsOwned'
  <2>1. \A u \in Threads : threads[u].pc = "save_session" /\ threads[u].request = None =>
                             threads[u].sid # s
    BY <1>3 DEF PInv, AllBased, Based
  <2> QED BY <1>1, <1>2, <1>6, <2>1 DEF PInv, NewIdsOwned
<1>9. VersionsOk'
  <2>1. ASSUME NEW x \in Sids, NEW v \in versions[x], NEW i \in 1..Len(v) PROVE v[i] <= r
    <3>1. v \in Seq(Reqs)
      BY DEF Typed, TypeOK
    <3>2. v[i] \in Reqs
      BY <3>1
    <3>3. v[i] \in Int
      BY <3>2, ServiceAssumption DEF Reqs
    <3> QED BY <1>1, <3>3 DEF PInv, VersionsOk
  <2> QED BY <1>1, <2>1 DEF PInv, VersionsOk
<1> QED BY <1>7, <1>8, <1>9 DEF PInv

LEMMA BeginSaveOfNewPInv ==
  ASSUME Typed, PInv, NEW t \in Threads, NEW x \in Session, BeginSaveOfNew(t, x)
  PROVE  PInv'
<1> DEFINE s == used.sids + 1
           th == [Idle EXCEPT !.pc = "save_session", !.sid = s,
                              !.session = x, !.project = "chosen"]
<1>1. /\ used.sids \in Int /\ used'.sids = s /\ used'.reqs = used.reqs /\ s \in Sids
      /\ UNCHANGED <<sessions, versions>>
  BY ServiceAssumption DEF Typed, TypeOK, BeginSaveOfNew, tables, ghosts, Sids
<1>2. /\ th.request = None /\ th.sid = s /\ th.pc = "save_session" /\ th.history = <<>>
      /\ threads' = [threads EXCEPT ![t] = th]
  BY DEF BeginSaveOfNew, Idle
<1>3. versions[s] = {}
  BY <1>1 DEF PInv, VersionsOk
<1>4. Based(th, versions)
  BY <1>2, <1>3 DEF Based
<1>5. \A u \in Threads : threads[u].pc # "idle" => threads[u].sid # s
  BY <1>1 DEF Typed, WellFormed, Sids
<1> HIDE DEF th, s
<1>6. \A u \in Threads : threads'[u] = IF u = t THEN th ELSE threads[u]
  BY <1>2 DEF Typed, TypeOK
<1>7. AllBased'
  BY <1>1, <1>4, <1>6 DEF PInv, AllBased
<1>8. NewIdsOwned'
  BY <1>2, <1>5, <1>6 DEF PInv, NewIdsOwned
<1>9. VersionsOk'
  BY <1>1 DEF PInv, VersionsOk, Sids, s
<1> QED BY <1>7, <1>8, <1>9 DEF PInv

\* The history save_session stores is a version one request on, or the first.
LEMMA StoredHistory ==
  ASSUME Typed, PInv, NEW t \in Threads, SaveSession(t)
  PROVE  LET th == threads[t]
         IN  \/ /\ th.request = None /\ th.history = <<>> /\ versions[th.sid] = {}
             \/ /\ th.request \in Reqs /\ th.request <= used.reqs
                /\ \E v \in versions[th.sid] : v \in Seq(Reqs) /\ th.history = Append(v, th.request)
                /\ \A v \in versions[th.sid] : \A i \in 1..Len(v) : v[i] # th.request
<1>1. threads[t].pc = "save_session" /\ Based(threads[t], versions)
  BY DEF SaveSession, PInv, AllBased
<1>2. /\ threads[t].request # None =>
           threads[t].request \in Reqs /\ threads[t].request <= used.reqs
      /\ threads[t].sid \in Sids
  BY <1>1 DEF Typed, TypeOK, WellFormed, Thread
<1>3. \A v \in versions[threads[t].sid] : v \in Seq(Reqs)
  BY <1>2 DEF Typed, TypeOK
<1>4. CASE threads[t].request = None
  BY <1>1, <1>4 DEF Based
<1>5. CASE threads[t].request # None
  BY <1>1, <1>2, <1>3, <1>5 DEF Based
<1> QED BY <1>4, <1>5

LEMMA SaveSessionPInv ==
  ASSUME Typed, LInv, PInv, NEW t \in Threads, SaveSession(t)
  PROVE  PInv'
<1> DEFINE th == threads[t]
           new == [th EXCEPT !.pc = "sweep_plans"]
<1>1. /\ new.request = th.request /\ new.sid = th.sid /\ new.pc = "sweep_plans"
      /\ th.pc = "save_session" /\ th.sid \in Sids /\ th.sid <= used.sids
      /\ threads' = [threads EXCEPT ![t] = new]
  BY DEF SaveSession, Typed, TypeOK, WellFormed, Thread
<1> HIDE DEF new
<1>2. \A u \in Threads : threads'[u] = IF u = t THEN new ELSE threads[u]
  BY <1>1 DEF Typed, TypeOK
<1>3. \A s \in Sids :
        versions'[s] = IF s = th.sid THEN versions[s] \cup {th.history} ELSE versions[s]
  BY <1>1 DEF SaveSession, Typed, TypeOK
<1>4. ASSUME NEW u \in Threads, u # t PROVE Based(threads[u], versions')
  <2>1. Based(threads[u], versions) /\ (threads[u].pc # "idle" => threads[u].sid \in Sids)
    BY DEF PInv, AllBased, Typed, WellFormed
  <2>2. CASE threads[u].pc = "save_session" /\ threads[u].request = None
    <3>1. threads[u].sid # th.sid
      BY <1>1, <1>4, <2>2 DEF PInv, NewIdsOwned
    <3> QED BY <1>3, <2>1, <2>2, <3>1 DEF Based
  <2>3. CASE threads[u].pc \in {"save_plan", "save_session"} /\ threads[u].request # None
    <3>1. ASSUME threads[u].sid = th.sid, NEW i \in 1..Len(th.history)
          PROVE  th.history[i] # threads[u].request
      <4>1. th.request \in Reqs
        BY <3>1, StoredHistory
      <4>2. PICK v \in versions[th.sid] : v \in Seq(Reqs) /\ th.history = Append(v, th.request)
        BY <3>1, <4>1, StoredHistory, NoneAssumption DEF Reqs
      <4>3. threads[u].request # th.request
        BY <1>4, <2>3 DEF LInv, RequestsDistinct
      <4>4. \A j \in 1..Len(v) : v[j] # threads[u].request
        BY <2>1, <2>3, <3>1, <4>2 DEF Based
      <4> QED BY <4>1, <4>2, <4>3, <4>4
    <3>2. threads[u].sid \in Sids /\ versions[threads[u].sid] \subseteq versions'[threads[u].sid]
      BY <1>3, <2>1, <2>3
    <3>3. PICK v \in versions[threads[u].sid] : threads[u].history = Append(v, threads[u].request)
      BY <2>1, <2>3 DEF Based
    <3>4. ASSUME NEW w \in versions'[threads[u].sid], NEW i \in 1..Len(w)
          PROVE  w[i] # threads[u].request
      <4>1. CASE w \in versions[threads[u].sid]
        BY <2>1, <2>3, <4>1 DEF Based
      <4>2. CASE w \notin versions[threads[u].sid]
        <5>1. threads[u].sid = th.sid /\ w = th.history
          BY <1>3, <3>2, <4>2
        <5> QED BY <3>1, <5>1
      <4> QED BY <4>1, <4>2
    <3> QED BY <2>3, <3>2, <3>3, <3>4 DEF Based
  <2>4. CASE \/ threads[u].pc # "save_session" /\ threads[u].request = None
             \/ threads[u].pc \notin {"save_plan", "save_session"}
    BY <2>4 DEF Based
  <2> QED BY <2>2, <2>3, <2>4
<1>5. AllBased'
  <2>1. Based(new, versions')
    BY <1>1 DEF Based
  <2> QED BY <1>2, <1>4, <2>1 DEF AllBased
<1>6. NewIdsOwned'
  BY <1>1, <1>2 DEF PInv, NewIdsOwned
<1>7. VersionsOk'
  <2>1. PICK row \in Row : /\ sessions' = [sessions EXCEPT ![th.sid] = row]
                          /\ row.history = th.history
    BY SavedRow
  <2>2. ASSUME NEW s \in Sids, sessions'[s] # None PROVE sessions'[s].history \in versions'[s]
    BY <1>1, <1>3, <2>1, <2>2 DEF PInv, VersionsOk, Typed, TypeOK
  <2>3. ASSUME NEW s \in Sids, s > used'.sids PROVE versions'[s] = {}
    <3>1. used'.sids = used.sids /\ used.sids \in Int /\ s \in Int /\ th.sid \in Int
      BY <1>1 DEF SaveSession, Typed, TypeOK, Sids
    <3>2. s # th.sid /\ s > used.sids
      BY <1>1, <2>3, <3>1
    <3> QED BY <1>3, <3>2 DEF PInv, VersionsOk
  <2>4. \A i \in 1..Len(th.history) : th.history[i] <= used.reqs
    <3>1. CASE th.history = <<>>
      BY <3>1
    <3>2. CASE th.history # <<>>
      <4>1. PICK v \in versions[th.sid] : v \in Seq(Reqs) /\ th.history = Append(v, th.request)
        BY <3>2, StoredHistory
      <4>2. th.request \in Reqs /\ th.request <= used.reqs
        BY <3>2, StoredHistory
      <4>3. \A j \in 1..Len(v) : v[j] <= used.reqs
        BY <1>1 DEF PInv, VersionsOk
      <4> QED BY <4>1, <4>2, <4>3
    <3> QED BY <3>1, <3>2
  <2>5. ASSUME NEW s \in Sids, NEW v \in versions'[s], NEW i \in 1..Len(v)
        PROVE  v[i] <= used'.reqs
    BY <1>3, <2>4 DEF SaveSession, PInv, VersionsOk
  <2> QED BY <2>2, <2>3, <2>5 DEF VersionsOk
<1> QED BY <1>5, <1>6, <1>7 DEF PInv

LEMMA PInvStep == IInv /\ LInv /\ PInv /\ [Next]_vars => PInv'
<1> SUFFICES ASSUME Typed, LInv, PInv, [Next]_vars PROVE PInv'
  BY DEF IInv
<1>1. CASE \E t \in Threads, s \in Sids, p \in Payloads : BeginAdvance(t, s, p)
  BY <1>1, BeginAdvancePInv
<1>2. CASE \E t \in Threads, mode \in Modes : BeginCreate(t, mode)
  <2> PICK t \in Threads, mode \in Modes : BeginCreate(t, mode)
    BY <1>2
  <2>1. NewSession(mode, FirstWeeks) \in Session
    BY WeeksAssumption, NewSessionType DEF Session
  <2> QED BY <2>1, BeginSaveOfNewPInv DEF BeginCreate
<1>3. CASE \E t \in Threads, s \in Sids : BeginFork(t, s)
  <2> PICK t \in Threads, s \in Sids : BeginFork(t, s)
    BY <1>3
  <2>1. Forked(sessions[s].session) \in Session
    BY ForkedType DEF BeginFork, Typed, TypeOK, Row, Session
  <2> QED BY <2>1, BeginSaveOfNewPInv DEF BeginFork
<1>4. ASSUME NEW t \in Threads, SavePlan(t) PROVE PInv'
  <2> DEFINE th == threads[t]
             new == [th EXCEPT !.pc = "save_session", !.session.plan_id = th.request]
  <2>1. /\ new.request = th.request /\ new.sid = th.sid /\ new.history = th.history
        /\ new.pc = "save_session" /\ th.pc = "save_plan" /\ th.request # None
        /\ threads' = [threads EXCEPT ![t] = new]
    BY <1>4 DEF SavePlan, Typed, TypeOK, WellFormed, Thread
  <2>2. Based(new, versions)
    BY <2>1 DEF PInv, AllBased, Based
  <2>3. UNCHANGED <<versions, used, sessions>>
    BY <1>4 DEF SavePlan, ghosts
  <2> HIDE DEF new
  <2> QED BY <2>1, <2>2, <2>3, PInvNoStore
<1>5. ASSUME NEW t \in Threads, SaveSession(t) PROVE PInv'
  BY <1>5, SaveSessionPInv
<1>6. ASSUME NEW t \in Threads, SweepPlans(t) PROVE PInv'
  <2> DEFINE th == threads[t]
             new == [th EXCEPT !.pc = "sweep_sessions", !.cutoff = clock - TTL]
  <2>1. /\ new.sid = th.sid /\ new.pc = "sweep_sessions" /\ th.pc = "sweep_plans"
        /\ threads' = [threads EXCEPT ![t] = new]
    BY <1>6 DEF SweepPlans, Typed, TypeOK, Thread
  <2>2. Based(new, versions) /\ UNCHANGED <<versions, used, sessions>>
    BY <1>6, <2>1 DEF Based, SweepPlans, ghosts
  <2> HIDE DEF new
  <2> QED BY <2>1, <2>2, PInvNoStore
<1>7. ASSUME NEW t \in Threads, SweepSessions(t) PROVE PInv'
  <2> DEFINE th == threads[t]
             new == IF th.request = None THEN Idle ELSE [th EXCEPT !.pc = "log_turn"]
  <2>1. /\ new.pc # "idle" => new.sid = th.sid
        /\ new.pc \in {"idle", "log_turn"} /\ th.pc = "sweep_sessions"
        /\ threads' = [threads EXCEPT ![t] = new]
    BY <1>7, IdleType DEF SweepSessions, Typed, TypeOK, Thread
  <2>2. Based(new, versions) /\ UNCHANGED <<versions, used>>
    BY <1>7, <2>1 DEF Based, SweepSessions
  <2>3. \A s \in Sids : sessions'[s] # None => sessions'[s] = sessions[s]
    BY <1>7 DEF SweepSessions, Drop
  <2> HIDE DEF new
  <2> QED BY <2>1, <2>2, <2>3, PInvNoStore
<1>8. ASSUME NEW t \in Threads, LogTurn(t) PROVE PInv'
  <2>1. threads' = [threads EXCEPT ![t] = Idle] /\ UNCHANGED <<sessions, versions, used>>
    BY <1>8 DEF LogTurn, Logged, Refused
  <2> QED BY <2>1, IdleType, IdleBased, PInvNoStore
<1>9. CASE \E s \in Sids : DeleteSession(s)
  BY <1>9 DEF DeleteSession, Drop, PInv, AllBased, NewIdsOwned, VersionsOk
<1>10. CASE Tick
  BY <1>10 DEF Tick, tables, ghosts, PInv, AllBased, NewIdsOwned, VersionsOk
<1>11. CASE Crash
  BY <1>11, IdleType, IdleBased
     DEF Crash, tables, PInv, AllBased, NewIdsOwned, VersionsOk
<1>12. CASE UNCHANGED vars
  BY <1>12 DEF vars, tables, ghosts, PInv, AllBased, NewIdsOwned, VersionsOk
<1> QED BY <1>1, <1>2, <1>3, <1>4, <1>5, <1>6, <1>7, <1>8, <1>9, <1>10, <1>11, <1>12
        DEF Next, Write

(***************************************************************************)
(* The refinement                                                          *)
(***************************************************************************)

LEMMA InitPromised == Init => Promise!Init
<1> SUFFICES ASSUME Init PROVE Promise!Init
  OBVIOUS
<1>1. \A s \in Sids : s \in 1..Len(Seeds) <=> s <= Len(Seeds)
  BY ServiceAssumption DEF Sids
<1>2. Current = [s \in Sids |-> IF s \in 1..Len(Seeds) THEN <<>> ELSE None]
  BY InitRows DEF Current
<1>3. versions = [s \in Sids |-> IF s \in 1..Len(Seeds) THEN {<<>>} ELSE {}]
  BY <1>1 DEF Init
<1> QED BY <1>2, <1>3 DEF Promise!Init, Current

\* A step that stores no version removes sessions, or leaves them.
LEMMA RowsGoPromised ==
  ASSUME UNCHANGED versions, \A s \in Sids : sessions'[s] \in {None, sessions[s]}
  PROVE  Promise!Next
<1> DEFINE gone == {s \in Sids : sessions'[s] = None}
<1>1. Current' = [s \in Sids |-> IF s \in gone THEN None ELSE Current[s]]
  BY DEF Current
<1>2. Promise!Remove(gone) /\ gone \in SUBSET Sids
  BY <1>1 DEF Promise!Remove
<1> HIDE DEF gone
<1> QED BY <1>2 DEF Promise!Next

LEMMA SaveSessionPromised ==
  ASSUME Typed, PInv, NEW t \in Threads, SaveSession(t)
  PROVE  Promise!Next
<1> DEFINE own == threads[t].sid
           v   == threads[t].history
           r   == threads[t].request
<1>1. PICK row \in Row : sessions' = [sessions EXCEPT ![own] = row] /\ row.history = v
  BY SavedRow
<1>2. own \in Sids /\ row # None
  BY SavedRow, RowAssumption
<1>3. Current' = [Current EXCEPT ![own] = v]
  BY <1>1, <1>2 DEF Current, Typed, TypeOK
<1>4. versions' = [versions EXCEPT ![own] = @ \cup {v}]
  BY DEF SaveSession
<1>5. Promise!Store(own, v)
  BY <1>3, <1>4 DEF Promise!Store
<1> HIDE DEF own, v, r
<1>6. CASE v = <<>> /\ versions[own] = {}
  <2>1. Promise!Store(own, <<>>)
    BY <1>5, <1>6
  <2>2. Promise!Create(own)
    BY <1>6, <2>1 DEF Promise!Create
  <2> QED BY <1>2, <2>2 DEF Promise!Next
<1>7. CASE /\ r \in Reqs
           /\ \E w \in versions[own] : w \in Seq(Reqs) /\ v = Append(w, r)
           /\ \A w \in versions[own] : \A i \in 1..Len(w) : w[i] # r
  <2>1. r \notin Promise!AppliedIn(own)
    BY <1>7 DEF Promise!AppliedIn
  <2>2. PICK w \in versions[own] : v = Append(w, r)
    BY <1>7
  <2>3. Promise!Store(own, Append(w, r))
    BY <1>5, <2>2
  <2>4. Promise!Extend(own, r)
    BY <2>1, <2>2, <2>3 DEF Promise!Extend
  <2> QED BY <1>2, <1>7, <2>4 DEF Promise!Next
<1> QED BY <1>6, <1>7, StoredHistory DEF own, v, r

LEMMA StepPromised == IInv /\ PInv /\ [Next]_vars => [Promise!Next]_<<Current, versions>>
<1> SUFFICES ASSUME Typed, PInv, [Next]_vars PROVE [Promise!Next]_<<Current, versions>>
  BY DEF IInv
<1>1. ASSUME NEW t \in Threads, SaveSession(t) PROVE Promise!Next
  BY <1>1, SaveSessionPromised
<1>2. CASE UNCHANGED versions /\ \A s \in Sids : sessions'[s] \in {None, sessions[s]}
  BY <1>2, RowsGoPromised
<1>3. ASSUME NEW t \in Threads, Write(t), ~SaveSession(t)
      PROVE  UNCHANGED versions /\ \A s \in Sids : sessions'[s] \in {None, sessions[s]}
  BY <1>3 DEF Write, SavePlan, SweepPlans, SweepSessions, LogTurn, Logged, Refused, Drop, ghosts
<1>4. CASE UNCHANGED vars \/ Tick \/ Crash
  BY <1>2, <1>4 DEF vars, tables, ghosts, Tick, Crash
<1>5. ASSUME NEW s \in Sids, DeleteSession(s) PROVE Promise!Next
  BY <1>5, RowsGoPromised DEF DeleteSession, Drop
<1>6. ASSUME NEW t \in Threads,
             \/ \E s \in Sids, p \in Payloads : BeginAdvance(t, s, p)
             \/ \E mode \in Modes : BeginCreate(t, mode)
             \/ \E s \in Sids : BeginFork(t, s)
      PROVE  Promise!Next
  BY <1>6, RowsGoPromised
     DEF BeginAdvance, BeginCreate, BeginFork, BeginSaveOfNew, tables, ghosts
<1> QED BY <1>1, <1>2, <1>3, <1>4, <1>5, <1>6 DEF Next

\* The service is last-writer-wins and no worse: whatever overlaps, is swept,
\* deleted or dies, a stored session is one request away from a version that
\* was stored before, and no request is applied twice.
THEOREM Refinement == Spec => KeepsPromise
<1>1. Spec => [](IInv /\ LInv /\ PInv)
  <2>1. Init => IInv /\ LInv /\ PInv
    BY IInvInit, LInvInit, PInvInit
  <2>2. IInv /\ LInv /\ PInv /\ [Next]_vars => (IInv /\ LInv /\ PInv)'
    BY IInvStep, LInvStep, PInvStep
  <2> QED BY <2>1, <2>2, PTL DEF Spec
<1>2. Spec => Promise!Init /\ [][Promise!Next]_<<Current, versions>>
  BY <1>1, InitPromised, StepPromised, PTL DEF Spec
<1> QED BY <1>2 DEF KeepsPromise, Promise!Spec
=============================================================================
