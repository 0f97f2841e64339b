# CCS Planner Agent: TLA+ models, TLC runs and TLAPS proofs

CCS Planner Agent is a FastAPI service, with a single-page frontend, that walks
a media planner through a wizard, computes a media plan, and later learns from
the results of the campaign. This directory models its logic on both sides:
what the wizard may do, what the store, the actuals, the calibration and the
accounts keep when requests overlap, expire or die half way, what a startup
makes of an old database, how a plan is computed and reported on, and what the
page shows; and it proves what matters most of it for every size of the
system.

## 1. Inventory

The service is one container with one uvicorn worker (`src/Dockerfile`). Route
handlers in `app/main.py` are plain `def`s, so FastAPI runs each request in a
thread of its pool. The database is SQLite in WAL mode and autocommit, with one
connection per thread; `storage._lock` is one process-wide mutex taken by *some*
of the writes, each on its own.

| part | state | operations | interacts with |
|---|---|---|---|
| **Wizard** `services/agent.py` | the session being advanced, in memory | `create_session`, `advance` (13 step handlers, back, skip, overrides), `fork` | optimizer (computes the plan), storage (`save_plan`, `save_session`, `log_turn`) |
| **Session store** `services/storage.py` | tables `sessions`, `plans`, `conversations`; `_lock` | save, get, delete, log, TTL sweep | called by the wizard and the endpoints; every save sweeps |
| **Actuals** `services/actuals.py`, storage | `plan_actuals`, `plan_actuals_history` | PUT (batch, one transaction), DELETE, report | rows cascade with their plan; each PUT feeds calibration |
| **Calibration** `services/calibration.py` | observations, profiles (materialised), settings | record, re-weight, set / reset half-life and thresholds, rematerialise | fed by actuals; read by the coverage banner and the CAL pills |
| **Rate limiter** `services/rate_limit.py` | a deque of timestamps per client | `check` | in front of every write |
| **Accounts** `services/auth.py`, storage, main | `users`, `projects` | create, disable, enable, rotate, bootstrap admin; create, archive, default project | authenticates every request; owns sessions, plans, settings |
| **Startup** `_lifespan` in main, storage | the schema, `storage.json` of v1..v3 | `init_schema` with its backfill, `auto_migrate_legacy_if_empty`, `import_legacy_json`, `ensure_admin` | runs before the first request, on whatever the last process left |
| **Optimizer** `services/optimizer.py` | none (pure) | manual and automatic plan, constraints, charts | called by the wizard |
| **Reference data, survey loader, config** | files and environment | read at start | wizard, optimizer |
| **Frontend** `static/app.js` | the current session and caches, in the browser | submit, fork, resume, dashboards | the HTTP API |

Hard behaviours, each listed with its line under `hazards` in `PROJECT.json`:
a session is read without the lock and written back whole; one `advance` is up
to four separate committed statements; the sweep of one session removes others,
with an advance in flight or not; the process may die between any two
statements; the wizard can be left and re-entered in the middle; calibration
reads, computes and writes without the lock; limits, thresholds and rounding
meet in the optimizer; the page applies an answer to whatever it shows by then;
users and projects are looked up and inserted without the lock or a unique
index; a startup is cut anywhere and begun again on what it left; a PUT of
actuals stores, reads the brief and learns in three separate goes.

What makes each part correct:

- *Wizard*: no question is bypassed by the code on its own; every step can be
  answered; a manual session at review has a plan; the session points at its
  own newest plan.
- *Session store*: a stored session is always one request on from a version
  stored before; turns are numbered without gaps and go with their session; a
  session nobody disturbs holds exactly the requests that were acknowledged;
  the session being saved outlives the sweep; every request ends.
- *Actuals*: every record that was acknowledged is in force or in the history,
  none of a failed batch is in either, and none is in both but while it is being
  deleted.
- *Calibration*: a profile is exactly what its observations and the effective
  half-life amount to, unless two requests worked on it at once or one was cut
  short, and the next request on its own repairs it.
- *Rate limiter*: no more than N requests in any window, nobody refused below
  the limit, and nobody refused again a second after Retry-After.
- *Optimizer*: more budget takes nothing from any channel (where no maximum is
  below zero), the budget is spent, and limits give way on one side only.
- *Frontend*: card, buttons, mode and `localStorage` are about one session, as
  the service has it, whenever one thing is done at a time.
- *Accounts and projects*: no two users of a name and no two default projects
  of a user, unless two requests for them overlap; an active admin once there
  is a user, and somebody who holds the key of one; a session lies in a project
  of its owner.
- *Startup*: the import is all or nothing; the columns queries join on repeat
  the payload; no restart brings back what planners deleted; the service comes
  up.
- *Learning*: every observation has the record it came from; nothing of a PUT is
  learned twice or under two scopes; the coverage banner has something behind it.
- *Reports*: a report is that of the records in force, FINAL before WEEKLY.

## 2. Modules

| module | what it is |
|---|---|
| `WizardSteps` | the pure wizard: step orders, what each handler accepts and stores, overrides, `fork`, and the session `advance` computes |
| `Wizard` | one planner, one session at a time: every path through the wizard, forks included |
| `SessionService` | the same wizard behind threads: each request is its read, its save of the plan, its save of the session, the two statements of the sweep and its turn, as separate actions |
| `SessionPromise` | what the store promises and no more: *last writer wins, but whole versions only*. `SessionService` implements it |
| `Actuals` | PUT (one transaction per batch, with rollback) and DELETE (two statements), the cascade from a swept plan, restarts |
| `AuditTrail` | what FR-27 and FR-28 promise of actuals: one record a place, a batch in one step, nothing gone that is not in the log. `Actuals` implements it |
| `Reports` | the report of a plan, as a function of the records in force that `Actuals` stores |
| `Calibration` | observations, weight pins, settings and the recomputation of profiles, one SQL statement per action |
| `LearningLoop` | a PUT of actuals from its batch to its last observation, composed with sessions, plans, deletions and the sweep |
| `Accounts` | users and projects: the look-up of the key and each statement of each handler, and the bootstrap admin at every start that has a key for it |
| `Startup` | `init_schema` and the import of `storage.json`, one committed statement at a time, with what requests do to the same rows in between |
| `RateLimiter` | the sliding window and its Retry-After |
| `Optimizer` | the automatic plan and the budget curve, in exact arithmetic |
| `Frontend` | the page: clicks, requests in flight, answers, `localStorage`, reloads |
| `SessionServiceProofs` | the theorems about `WizardSteps`, `Wizard` and `SessionService` |
| `PlanProofs` | the theorems about `Actuals`, `Reports` and `Optimizer` |
| `CalibrationProofs`, `LearningLoopProofs`, `AccountsProofs`, `StartupProofs`, `RateLimiterProofs`, `FrontendProofs` | the theorems about the module each is named for |
| `MC*` | for each of the above, the payloads, seeds, inputs and symmetry TLC uses |

`Wizard` and `SessionService` compose `WizardSteps` with a planner and with the
store; `SessionPromise` and `AuditTrail` are the abstract specifications, joined
by `INSTANCE` in the modules that implement them. `Reports` extends `Actuals`.
`LearningLoop` composes what `SessionService`, `Actuals` and `Calibration` each
show in detail: it stores a batch in one step, since `Actuals` shows that a batch
takes effect as a whole, and appends observations without their profiles.

### How state and actions correspond to the code

`WizardSteps` keeps of a session what a later guard or a property reads: mode,
step, weeks, planning type, channels, which channels carry overrides, the
weekly budgets, the automatic pool, and the plan id. The answers no later code
branches on (survey, client, project name, targets, KPIs, criterion, strategy,
constraints) are reduced to whether the handler accepts them. `AcceptsAnswer`
is where a handler raises `StepError`, `StoreAnswer` what it assigns, `Landed`
the three branches of `advance` and the auto-skip of `comms_setup`,
`MakesPlan` the two places a plan is computed, `PlanFor` the plan.

In `SessionService` a session row also has the `history` list, reduced to the
numbers of the requests appended to it. An `advance` request is
`BeginAdvance` (the unlocked `get_session`, and all that happens in memory),
`SavePlan`, `SaveSession` (which keeps `storage._lock`), `SweepPlans` and
`SweepSessions` (the two `DELETE`s, each committed on its own), and `LogTurn`
(which may be refused by the foreign key). `create_session` and `fork` are one
save without a turn. `DeleteSession` is one statement. `Tick` moves
`time.time()`, `Crash` kills the process: committed statements stay.
`versions`, `acked` and `disturbed` are history variables that only the
properties read.

In `Actuals` a record is its place (a week of a plan, or the final settlement)
and its id; `put` and `part` tell contents apart. `BeginPut` is the look-up of
the plan and the validation, before the lock; `BeginTransaction`, `UpsertNext`
(one record: archive what is there, delete it, insert), `Commit` and `Rollback`
are the transaction, which other threads see only when it is committed;
`Archive` and `Remove` are the two statements of DELETE.

In `Calibration` a profile is what it was computed from: the set of observations
and the half-life. `Insert`, `FindSetting`, `UpdateSetting`, `InsertSetting`,
`ListKeys`, `ReadObservations`, `ReadHalfLife` and `Write` are single SQL
statements; `InsertRefused` is the unique index of the settings. `overlapped`
and `stained` are history variables: which keys two requests have worked on at
once, or one of them not to its end.

In `Reports`, `Content` says what each record holds, channel by channel.
`ActualsSource` is `choose_actuals_source`, `SumWeeklies` and `Weeks` are
`_sum_weeklies`, `ReportRow` and `TotalSpend` the loop of `build_report`. Of the
figures of a channel there is one of each kind: one summed, one averaged, one
whose maximum is taken; an average is its sum and its number of weeks.

In `LearningLoop` a PUT is `Begin`, `Store` or `Refuse`, `ReadBrief` (the session
of the plan, as it is now), one `Learn` for each figure that is not 0, and
`Answer`, or `Swallow` for an exception on the way. `Rescope`, `DeleteSession`,
`Sweep` and `DeleteRecord` are what may happen in between. An observation
remembers its PUT; `partial` and `moved` are history variables, for PUTs whose
learning was cut short and PUTs whose session has changed since they began.

In `Accounts` a request is a `Begin` (the middleware finds an active user of the
key; the handler's guards on what it found) and then one action for each
statement: `CheckName` and `InsertUser`, `FindDefault` and `InsertDefault`,
`FindProject` and `SaveSession`, and so on. `Answer` is the moment somebody
gets to know a new key: a request can be made only with the key of an active user
that has reached somebody (`Known`). Users are numbered as they are inserted.
`Lifespan` is the part of `_lifespan` about users: each start finds a key in its
environment or none (`keyed`), and without one it touches no user and serves all
the same. `raced` and `lost` are history variables.

In `Startup`, `boot` is the line the startup has come to. `InitSchema` reads the
rows to backfill, `Backfill` updates one, `CountRows` decides on the import, the
rest are the statements of `import_legacy_json`. `ImportFails` is an exception
on a row that does not parse; it ends the process, as `Crash` may anywhere. A
row is its scope, the two columns that repeat it, and whether it is past the TTL.
`Save` inserts a new session with any scope (a fork copies the brief of another)
and one that was deleted or swept since a request read it; `inHand` are those,
and a restart ends the requests that had read them.

In `RateLimiter` a deque is a tail of the sequence of all requests that passed;
`advice` remembers what Retry-After last said.

In `Optimizer` money is in cents and a share is a fraction over the sum of the
weights; limits and costs are integers, since nothing on the way from the page
keeps them from being negative; `Rounded` is Python's `round`. `Clamped` is `_apply_constraints`,
`Off` and `Scaled` the renormalisation, `NextPoint` one turn of the loop of
`budget_step_curve`, `Optimize` the handler of the step.

In `Frontend` the page is `state.mode`, `state.sessionId` and `state.session`. A
click sends a request, with what its callback closed over; `Serve`, `Refuse`
and `Lose` are the service and the network, `Deliver` the rest of the callback.
Of the service only what the page can tell is there: a session is its mode, its
overrides and the number of answers it holds, and a request is served in one
step. `disturbed` and `stained` are history variables.

Operators marked `MUTANT` in the modules are variants of the operator below
them with a plausible bug; no specification uses them. Each property is shown
to fail when its mutant takes the place of the original, so that it is known to
depend on the code it is about.

## 3. Runs

| run | shows | bounds |
|---|---|---|
| `wizard` | every order of answering, skipping, going back, editing overrides and forking keeps `NothingBypassed`, `ManualReviewHasPlan`, `PointsAtOwnNewestPlan` | one channel, two campaign lengths, one valid and one excessive budget, two plans, one fork: enough for a plan to become stale, for a second one, and for a fork of a session that has a plan |
| `sessions` | the store without crashes: the promise (`KeepsPromise`), turn numbers, plan links, undisturbed sessions, `OwnSessionSurvivesSweep`, and that a sweep takes the plans of what it takes (`SweptWholly`) | two threads, two advance requests, three sessions, a clock of three instants with TTL 1: every pair of steps of two requests interleaves, both kinds of plan are made, and a session can expire, be swept by another's save and come back |
| `sessions_restart` | with one crash at any point `QuietSessionsKeepPlan`, and that every request ends | two sessions, fair threads |
| `actuals` | `AuditComplete`, `SupersededOnce`, `KeysUnique`, `ReportOfLiveRecords`, and that `Actuals` implements `AuditTrail` | two threads, three PUTs of up to two records, for two weeks and the settlement, with and without an id, valid and past the end of the plan; every second record of a batch lacks two of three channels, one of them not in the plan; one restart; the plan may be swept |
| `learning_loop` | `SourceKnown`, `LearnedAsOne`, `BannerBacked` | two threads and two PUTs, of records for a week and the settlement and of a record sent back with its id; two changes, of the scope (two, or none), by deletion or by the sweep; one exception and one restart |
| `accounts` | `UniqueUnlessRaced`, `AdminReachable`, `SessionsInOwnProject` | two threads, four requests and a restart, each start with or without a key: a user is created, made to act, disabled and rotated while another request is under way; two names of users and of projects |
| `startup` | `ImportWhole`, `ColumnsRepeatPayload`, `DeletedStayDeleted`, `ComesUp` | a file of two sessions and a plan, any one row unreadable, or no file; an empty database or one of an older version with a full or half a scope; two crashes, one lapse of the TTL, another session and another plan: a session is deleted, saved again by a request that had read it, and deleted once more before a restart |
| `calibration` | `UnstainedFresh` | two threads, three requests, two keys, three scopes of settings that override each other, two half-lives, weight pinned to 0, one restart: a key is worked on by two requests and repaired by a third |
| `rate_limiter` | `WindowBound`, `RefusedAtLimitOnly`, `RetryWithinASecond` | two clients, N = 2, a window of 5 ticks that is not a whole number of seconds of 2 ticks, a clock of 11: two windows and both edges |
| `optimizer` | `CurveNeverFalls`, `SpendsTheBudget`, `LimitsBrokenOneWay`, `CurveEndsAtPlan` | three channels, three sets of weights, every combination of no limit or one of three or four values per channel and side, one of them below zero, minima above maxima too; costs of zero and below; ten points of a budget of 100 cents and of 3: limits begin and cease to bind, and the 1 % threshold is crossed, along the curve, and points come out at no budget |
| `frontend` | `InStep`, `SavedKeepsMode` | two requests in flight, two sessions, three writes, one channel: a fork or a new session and an answer to the old one overlap, a request is lost after it was served, and the page is reloaded in between; a `VIEW` makes one state of those that differ only in what a failed request had asked for, which nothing reads any more |

`sessions_lost_update` shows a statement of the repository's documents that the
code does not keep (section 4), with the smallest bounds that show the case.

A type invariant (`TypeOK`, `WizardTypeOK`, `OptimizerTypeOK`: modules that share
a proof module have names of their own) is an invariant of two runs, `wizard` and
`actuals`. The other modules define it too, and of every one of them it is proved.

Two requests are enough for the pairwise interleavings the code can go wrong
on: each request touches one session, plan or profile, and the third party (a
sweep on behalf of another session, a deletion, a crash) is an action of its own
and needs no third thread. The proofs in section 5 have no bounds.

`CHECK_DEADLOCK FALSE` is used everywhere because the bounds on requests,
sessions and the clock make every behaviour stop.

### Fairness

`FairSpec` of `SessionService` asks for weak fairness of each thread's next
write. The operating system schedules every thread, and a thread waiting for
`storage._lock` finds it free again and again. Strong fairness is not needed
because requests are finite: after the last one begins, the lock is free for
good once its holder is done. Nothing is assumed of clients, of the clock, or of
crashes.

`FairSpec` of `Startup` asks for weak fairness of the startup's next step, whose
first is the start of the process: `_lifespan` runs in one thread and waits for
nobody, and the container is started again whenever it ends
(`docker-compose.yml:6`, `restart: unless-stopped`).

## 4. What the code does not keep

One statement has a run with a short counterexample, and `findings` quotes the
line it contradicts: overlapping advances of one session lose an update that was
answered with 200 (PRD NFR-2; `sessions_lost_update`).

Others were met while modelling. They are kept in the models, as behaviour the
properties allow for, without a run of their own.

Wizard and sessions:

- skip and back land on `comms_setup` under Reach planning, which README.md:118
  excludes; a manual plan is not computed again after going back
  (agent.py:382);
- an automatic plan may be made for channels that have left the brief: go back to
  `channels`, pick others, skip past `budget_channels` (agent.py:227, against
  the message at agent.py:211);
- two overlapping advances may log their turns in the other order than they
  saved; two overlapping submits of a manual plan make two plans
  (agent.py:383); deleting a session leaves its plans; the sweep counts from the
  last update and not from creation, and may take a session another thread is
  about to save (storage.py:711-721);
- a session deleted or swept while a request has it in hand comes back when that
  request saves it, as a new row without its earlier turns (storage.py:526-549).

Actuals, reports and learning:

- a DELETE of actuals cut short by a restart leaves the record in force and in
  the history, and a record sent back with its own id can be neither replaced nor
  deleted later: in both cases the primary key of the history refuses
  (storage.py:791-799);
- what was spent on a channel the plan has no allocation for is in no row of the
  report and not in its total (actuals.py:142), which is why
  `ReportOfLiveRecords` says that the total is what the records say of the
  plan's own channels; the reach of the total is that of the first channel
  (actuals.py:170);
- each PUT learns all its records, those of earlier PUTs that are sent again
  included, and the dialog of the page sends every week again at each save
  (app.js:1817); observations of records that were superseded or deleted stay in
  force, and FINAL and the weeks it settles are both learned;
- when the client or the target of a brief changes, the coverage banner counts
  its plans under the new scope and the observations stay under the old one
  (main.py:442): `BannerBacked` has to leave such PUTs out;
- two overlapping recomputations leave a stale profile, and so does a restart
  between storing a half-life and recomputing, after which the no-op guard skips
  the same request (calibration.py:292, 407).

Accounts and startup:

- two overlapping requests for one name make two users of that name, two first
  requests of one user make two default projects, and two admins can disable
  each other (main.py:120, 137; storage.py:503). A restart makes the bootstrap
  admin an admin again and gives it the key of the environment, but does not
  activate it (storage.py:429);
- a service started without a key in the environment touches no user: on an empty
  database it serves with no admin at all (main.py:67,
  tests/test_admin_bootstrap.py:66-72), and after a restart that lost the only
  admin's rotated key nobody holds one until a start with a key, which
  `AdminReachable` has to allow for;
- an import cut after its first row is never resumed, since the next startup
  counts rows (storage.py:323), although the docstring of `import_legacy_json`
  calls it idempotent; a file whose first row does not parse keeps the service
  from ever starting on an empty database;
- `storage.json` stays where it is: once the last session and the last plan are
  gone, the next startup brings back what planners deleted;
- imported sessions have no `client_id` and `first_target_id` before their next
  save or the next startup, so that the coverage banner does not see them.

Limiter, optimizer and page:

- Retry-After is cut down to whole seconds, and a client that waits exactly that
  long may be refused once more (rate_limit.py:100);
- the optimizer scales a channel over the maximum it was just clamped to, though
  the rest of the budget could go elsewhere (optimizer.py:300, against PRD
  FR-3): with three equal channels and a maximum on one, that one ends over it;
- limits below zero are accepted: `AutoChannelConstraint` and the handler check
  nothing and the inputs of the page have no least value (schemas.py:166-167,
  agent.py:219-220, app.js:743). The clamped sum may then be small and the scale
  huge: of two equal channels, one with a maximum of -50, a budget of 120 makes
  -600 and 720, and one of 140 makes -350 and 490, so that the second channel
  loses money as the budget grows. `CurveNeverFalls` leaves such briefs out
  (`NoMaximumBelowZero`), the other properties hold of them;
- after one channel's overrides are cleared the page shows none, and the service
  keeps them (app.js:2456, against the comment at app.js:2455);
- an answer that comes after a change of session is applied to the new one, and
  a refused new session changes the mode of the page (app.js:878, 1408).

## 5. Proofs

All theorems hold for every number of threads, sessions, requests, ticks and
crashes and for every set of channels, weeks, amounts, batches and
payloads, under the `ASSUME`s of the modules: weeks lie in 1..52, `None` is not
a value of the other types (no row, plan, key, scope or request of the page), nor
`Unset` a number or a plan, the channels of a report and of a plan are finite
sets, what a record says of a channel are naturals, the weights of a brief are
naturals and its limits and costs integers or unset, the seeds are well-typed
sessions without plans, a batch of actuals or a feed of observations is a
sequence no longer than its bound, and in a database of an older version a column
is empty or repeats the payload, since `init_schema` adds it empty and every save
writes both (storage.py:271, 536). TLC evaluates these assumptions in every run.

Hardly any of the properties is inductive as it stands. Each proof therefore
states an inductive invariant that implies them, whose parts are named for what
they say:

- `SessionServiceProofs` begins with the wizard alone. It first says what each operator of `WizardSteps` returns (a step of
  the right order, a well-typed session, a plan for the session) and where it
  leads (`Onward`: back and an edit never go on, a skip goes on by one step, an
  answer by one or over `comms_setup` under Reach planning). From there
  `WizardTypeCorrect`, `ReviewHasPlan` and `OwnNewestPlan` strengthen each other, since
  a plan must be newest *and* present for the next advance to keep it. For
  `NothingIsBypassed` the invariant adds that channels are in the brief only
  once the first five questions were (`AskedForChannels`): that is what lets a
  fork begin behind them.

- Of the store `SessionServiceProofs` proves types, `GaplessTurns`, `TurnsNeverOrphaned`,
  `LinkedPlans` and `SavedSessionSurvives`, which hold however requests overlap.
  The inductive invariant adds that a thread past its save names a used request,
  that a thread that sweeps holds the lock, that plan numbers in flight are
  distinct from those stored in sessions, and that a turn is only ever added
  under the lock.
  `QuietSessions` and `OneManualPlan` are about sessions nothing disturbs. Such a
  session is in one of two states (`QuietAt`): at rest, where its row is what
  was acknowledged and its turns replay that, or with one thread that carries the
  next version and owns whatever plan is not linked yet (`Carries`). A
  session that begins must find nothing under its id (`NewSessions`).
  `KeepsPlan` says that no sweep takes the plan of such a session and leaves the
  session: as long as a session is neither disturbed nor being swept the plan it
  points at is there, in its row and in the hands of the thread that will
  save it (`PlansKept`). `SweepsAreWhole` is the other half, for every session:
  between the two statements of a sweep no plan is there of a session being swept
  (`SweptBare`), because only the thread that sweeps holds the lock that saving a
  plan takes, and the second statement uses the cutoff of the first.
  `Refinement` says that `SessionService` implements `SessionPromise`: initial
  states map to initial states and each action to Create, Extend, Remove or a
  stutter. The invariant it needs is that the history a thread carries extends
  a *stored* version by a request no version contains yet.

- Of the actuals `PlanProofs` proves `TypeCorrect`, `KeysStayUnique`, `AuditStaysComplete`,
  `InBothOnlyMeanwhile` and `ImplementsTrail`, which is that `Actuals` implements
  `AuditTrail`: a commit maps to `Put`, all of whose records are of a batch
  nothing arrived of before (to a stutter when the batch is empty),
  the statements of a DELETE to `LogFirst` and `Retire`, everything else but the
  sweep to a stutter. A commit replaces both tables at once, so the invariant has
  to say of a transaction half way through its batch what makes that safe
  (`WorkSound`: what it took out of the tables it has in its own history, and
  under every such row lies one of its own), and that the tables have not changed
  since it read them (`Mutual`, the one lock). `Sound` says that a PUT under way
  is of a number no acknowledged row has, and that a DELETE between its
  statements finds its row in both tables. That there are ids enough for every
  record (`IdsBounded`) is part of the types: it counts the PUTs that are over.

  `ReportsAreLive` is a statement about sums: that adding the cells of the report
  channel by channel gives what adding the records one by one gives. A sum over
  a set is a recursive function on its subsets, and there is no induction over
  data to be had. The way out is to count: a sum of naturals is the number of
  *dots* (`Dots`: pairs of an index and a unit of its value), which one argument
  shows (`SumIsDots`: where a smallest set would be the first to disagree, by the
  well-foundedness of `<` on the naturals). What is needed of sums are then
  facts about finite sets: that two of them are equal follows from a bijection
  (`SumReindexed`, `SumByParts`), that one is no larger from a subset
  (`SumMonotone`). A sum of integers, as limits below zero ask for, is the
  difference of two such counts (`Balance`, `SumIsBalance`). `SourceIsLive` says that the report picks FINAL or every
  WEEKLY record of the acknowledged ones in force.

- Of the optimizer `PlanProofs` proves `OptimizerTypeCorrect`, `BudgetIsSpent`,
  `LimitsBreakOneWay`, `CurveEndsAtThePlan` and `CurveRises`, for any channels,
  weights, limits (minima above maxima too, and below zero, but for maxima below
  zero in `CurveRises`), costs, weeks and budget. That each
  plan is `PlanFor` some budget is the whole invariant; the rest is arithmetic.
  Rounding keeps the order of two fractions and moves each by half at most
  (`RoundedMonotone`, `RoundedNear`). A limit never turns the order of two
  shares and never lets a share grow faster than the budget
  (`LimitsKeepOrder`, `MinimumDilutes`, `MaximumDilutes`), so the same is true of
  their sum (`TotalGrows`); and these two facts together are what makes a
  channel's money grow with the budget in each of the four ways two plans can be
  scaled or not (`OffKeepsOrder`). Where only one of them is, it is scaled the harmless
  way: when the limits let the larger budget pass they can only have asked the
  smaller one for too much, and the other way round.

- `CalibrationProofs` proves `TypeCorrect` and `LeftAloneIsFresh`. What a request
  reads it uses only two statements later, with no lock between. The invariant
  says that what it holds of a key is current as long as no other request has
  worked on the key (`Followed`), because whoever changes the observations or
  settings of a key works on it from that statement on, and both have then
  noticed (`Noticed`) and the key is stained (`Marked`). A key leaves a request
  in three ways: written, which `Followed` makes right; not listed, which is
  right because a profile always has observations to stand on (`Grounded`);
  or with the refusal of the unique index, which only happens to a request that
  overlapped with the one that inserted (`Unopposed`).

- `LearningLoopProofs` proves `TypeCorrect`, `SourcesKnown`, `PutsAreLearnedAsOne`
  and `BannersAreBacked`. What a PUT has taught when it is done rests on what it
  had in hand at each point of its way (`Held`: before it stores there is
  nothing of it in the tables, then each figure of each of its records is still
  to be learned or learned, and under the one scope it read). Other PUTs, edits
  and sweeps leave that alone, because no two PUTs write under one number
  (`Distinct`, `Consistent`). `DoneTaught` keeps the outcome of the finished ones.

- `AccountsProofs` proves `TypeCorrect`, `NamesAndDefaultsUnique`,
  `AdminStaysReachable` and `SessionsOwned`, where
  a handler acts on what an earlier statement of it found. The invariant says
  what each thread knows at each point of its request (`Sound`: the user, the
  target and the project it holds are still there; `NamesFree`, `DefaultsFree`:
  what it did not find is still not there; `DisablersActive`: who disables
  somebody else is an active admin), unless another thread is at the same
  (`Pairs`). `UsersGrow` and `ProjectsGrow`, that rows never go and keep their
  names and owners, carry these over the steps of others. Of `AdminReachable`,
  that somebody holds an active admin's key (`KeyHeld`) is no invariant on its
  own: as long as no key was lost it follows from there being an active admin
  (`AdminRemains`), and after that, in a process with a key, from the bootstrap
  admin being an admin whose key no crash has taken (`BootstrapKeyHeld`), unless
  somebody disabled it. A second invariant,
  `Quiet`, says that nobody is served before the startup is done.

- `StartupProofs` proves `TypeCorrect`, `ImportsWhole`, `ColumnsAreCurrent` and
  `DeletedStay`. The invariant says at each line of the startup how much of the
  file is in (`ImportFollowed`), that a row is either backfilled, still to be,
  or imported since (`ColumnsFollowed`), and that an import after a deletion is
  one that found the tables empty (`ImportAfterDeletion`).

- `RateLimiterProofs` proves `TypeCorrect`, `AtMostTheLimit`,
  `NeverBelowTheLimit` and `RetrySuffices` for every limit, window and length of
  a second. The window bound needs that the times are in order and that
  whatever left the deque was older than the window; the advice needs besides
  that a deque never holds more than N, so that the request that blocks a client
  stays the one N back until the client is let through.

- `FrontendProofs` proves `TypeCorrect`, `PageInStep` and `SavedOfItsMode`. The
  properties are about the page at rest, and the invariant about each request on
  its way: whom it is for and what its answer will be (`CallKnown`); and, while it
  has been the only one on its way, that its answer is the session as the service
  has it, and of the page's own session where that is asked for (`AloneKnown`). `InStepMeanwhile` is `InStep` with what an answer is still to
  bring: the page is behind by an advance or by overrides only if that is
  served and not delivered.

Only model-checked: `RequestsFinish` and `ComesUp`, since liveness under fairness
is out of the provers' reach, as is `ENABLED`; and of `AuditTrail` and
`SessionPromise` that they are the right thing to promise, which no proof says.
All other properties of the passing runs are theorems. The runs stay of use
beside them: they show that each property can be broken by a change of the code
it is about, and that every action is taken.

What the theorems do not say is what the models leave out: the optimizer's
doubles, where `Optimizer` has exact fractions between two roundings, are the
case that matters (a tie may round the other way by a cent).

## 6. Not modelled

See `components` for each part's status.

- *Frontend*: the dashboards with their render epoch (app.js:2271), the
  calibration sliders, the administration of users and the actuals dialog. They
  follow the pattern that `Frontend` models for the session (a request, an answer
  applied to what the page shows by then) and keep nothing in the browser.
- *Optimizer*: the reach curve, the duplication matrix and the distribution of
  frequencies are functions of one plan in floating point, without state.
- *Reports*: variances and badges compare two figures; the HTML is layout.
- *Calibration*: the arithmetic of weights and confidence is floating point; a
  profile is modelled as what goes into it.
- *Several workers*: `storage._lock` is a lock of one process, and the container
  runs one (`src/Dockerfile`). With more, `MAX(turn_index) + 1` and its INSERT
  (storage.py:656) would no longer exclude each other.
- Reference data, the survey loader and the configuration are read once and
  never changed; prompts, labels and warnings are wording; static files, charts
  and deployment scripts hold no state of the service.

What would come next: a second client of the page that edits actuals while
another does, the dashboards with their render epoch, and the reach curve over a
table of rational probabilities.
