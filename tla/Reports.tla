------------------------------ MODULE Reports ------------------------------
(***************************************************************************)
(* The report of a plan (services/actuals.py) as a function of the records *)
(* in force that Actuals stores: what GET /api/plans/{id}/report answers   *)
(* in each state.  Of the figures of a channel there is one of each kind:  *)
(* spend is summed over the weeks, like impressions; reach is averaged,    *)
(* like cpm, frequency and penetration; buyers (buying_audience_000) is    *)
(* the largest.  An average is kept as a sum and a number of weeks.        *)
(***************************************************************************)
EXTENDS Actuals, FiniteSetsExt

CONSTANTS
  Channels,      \* the channels planners enter figures for
  Allocated,     \* the channels a plan has allocations for
  Content        \* <<put, part>> -> what the record says, channel by channel

Figures == [spend : Nat, reach : Nat, buyers : Nat]

ASSUME ReportsAssumption ==
  /\ Allocated \subseteq Channels /\ IsFiniteSet(Channels)
  /\ \A q \in Puts, i \in 1..MaxBatch :
       \E chs \in SUBSET Channels : Content[<<q, i>>] \in [chs -> Figures]

PerChannel(r) == Content[<<r.put, r.part>>]
Entered(r)    == DOMAIN PerChannel(r)

Finals(p)   == {r \in rows : r.plan = p /\ r.slot = 0}
Weeklies(p) == {r \in rows : r.plan = p /\ r.slot # 0}
With(rs, ch) == {r \in rs : ch \in Entered(r)}

\* MUTANT: by the weeks there are records for, with the channel or without
AllWeeks(rs, ch) == Cardinality(rs)

\* counts[ch]
Weeks(rs, ch) == Cardinality(With(rs, ch))

\* _sum_weeklies, of the records that have the channel
SumWeeklies(rs, ch) ==
  [spend  |-> SumFunction([r \in With(rs, ch) |-> PerChannel(r)[ch].spend]),
   reach  |-> [sum   |-> SumFunction([r \in With(rs, ch) |-> PerChannel(r)[ch].reach]),
               weeks |-> Weeks(rs, ch)],
   buyers |-> Max({PerChannel(r)[ch].buyers : r \in With(rs, ch)})]

\* choose_actuals_source: FINAL wins.  It is one record, and the sum over one
\* record is what it says.
ActualsSource(p) == IF Finals(p) # {} THEN Finals(p) ELSE Weeklies(p)

Nothing == [spend |-> 0, reach |-> [sum |-> 0, weeks |-> 1], buyers |-> 0]

\* build_report: a row for each channel of the plan, and their total; what was
\* entered for any other channel is in neither.
ReportRow(p, ch) ==
  IF With(ActualsSource(p), ch) = {} THEN Nothing ELSE SumWeeklies(ActualsSource(p), ch)
TotalSpend(p) == SumFunction([ch \in Allocated |-> ReportRow(p, ch).spend])

(***************************************************************************)
(* Property                                                                *)
(***************************************************************************)

\* The report of a plan is that of the records answered with 200 and neither
\* superseded nor removed since, through whatever PUTs and DELETEs: the final
\* settlement by itself, or else all weeks of each channel, the blended reach
\* no lower than the worst of them and no higher than the best (actuals.py:74);
\* the total is what those records say of the channels of the plan, whichever
\* way it is added up; and a plan is reported to have no actuals only when none
\* are left.
Live(p) == {r \in acked \ history : r.plan = p}
BlendedFrom(row, rs, ch) ==
  IF With(rs, ch) = {} THEN row = Nothing
  ELSE LET reach == {PerChannel(r)[ch].reach : r \in With(rs, ch)}
       IN  /\ row.reach.sum \in (Min(reach) * row.reach.weeks)..(Max(reach) * row.reach.weeks)
           /\ \A r \in With(rs, ch) : row.spend >= PerChannel(r)[ch].spend
SpentOnPlan(r) ==
  SumFunction([ch \in Entered(r) \cap Allocated |-> PerChannel(r)[ch].spend])
ReportOfLiveRecords ==
  \A p \in plans : rows \cap history = {} =>
    LET final == {r \in Live(p) : r.slot = 0}
        from  == IF final # {} THEN final ELSE Live(p)
    IN  /\ (ActualsSource(p) = {}) = (Live(p) = {})
        /\ \A ch \in Allocated : BlendedFrom(ReportRow(p, ch), from, ch)
        /\ TotalSpend(p) = SumFunction([r \in from |-> SpentOnPlan(r)])
=============================================================================
