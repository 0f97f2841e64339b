-------------------------- MODULE MCSessionService --------------------------
(***************************************************************************)
(* SessionService with sessions about to make a plan, the place where an   *)
(* advance has all of its writes: a manual one at manual_plan and an       *)
(* automatic one at optimize.                                              *)
(***************************************************************************)
EXTENDS SessionService, TLC

ReadySession(mode, step) ==
  [NewSession(mode, FirstWeeks) EXCEPT !.step = step, !.brief.channel_ids = Channels]

ManualReady == ReadySession("manual", "manual_plan")
AutoReady   == ReadySession("automatic", "optimize")

BothSeeds   == <<ManualReady, AutoReady>>
ManualSeeds == <<ManualReady>>

Budgets == [Blank EXCEPT !.weekly_budgets = [channels |-> Channels, amount |-> 1],
                         !.weeks = FirstWeeks]
GoBack  == [Blank EXCEPT !.action = "back"]

MCPayloads == {Budgets, GoBack}

ThreadSymmetry == Permutations(Threads)
=============================================================================
