# FinancialOS: TLA+ specifications

FinancialOS is a FastAPI application (`src/app/`) over SQLite or PostgreSQL, with a
React client (`src/frontend/`). It keeps a household's accounts, transactions, debts
and goals, shows it a daily panel computed from them, and has a coach, driven by
language models, that *proposes* changes; only the user's approval applies them. This
directory holds TLA+ models of the program's own logic, TLC configurations that check
them on small instances, and proofs that TLAPS checks for every instance.

`PROJECT.json` maps every definition to the source lines it stands for, lists the
hazards of the code with the properties that watch them, and names for every property
a plausible bug (a *mutant* of one definition) that TLC then finds.

Reading order: `ApprovalPromise`, `ActionLifecycle`, `RecurringTrigger`; `Ledger`,
`Goals`, `ActionHandlers`; `Calendar`, `Books`, `Forecast`, `Household`; `Insights`,
`Scheduler`, `Coach`. The others stand alone. The theorems about a component are in the
module that ends in `Proofs`; each begins with the lemmas about its operators, then the
inductive invariant, then one step per action.

## How the program runs, and what a step is

gunicorn starts `WEB_CONCURRENCY` (2) worker processes (`docker-entrypoint.sh:33`),
each with a thread pool for the synchronous endpoints; a separate process runs the
scheduler. Every request has its own SQLAlchemy session (`dependencies.py:20`),
without autoflush and without row locks or version columns. A request may commit
several times. Between two commits nothing it writes is visible to others; what it
has read may be out of date at once. **A step of a model is therefore what one
request does between two points at which another request can interleave**: a read
whose result is used later, or a commit. A worker may die between any two steps
(`--timeout 60`, redeployments, out of memory), and no start-up code looks at what
it left.

Where the interest of a component is not in overlapping requests but in long
histories of calls or in arithmetic (the panel, the strategies, the extractors of the
long-term memory), a step is a whole request, day or night.

## Inventory

| Component | State | Operations | Talks to | What makes it hard, and correct | Status |
|---|---|---|---|---|---|
| Approval of actions (`action_executor.py`, `routers/actions.py`) | `pending_actions`, `action_history` | propose, approve, reject, edit | every handler, user rules, coach, trigger-due | several commits per approval, races, crashes; applied at most once, answers and history true | partly |
| Handlers and user rules (`action_executor.py`, `user_rules.py`, `routers/checkpoints.py`) | accounts, lots, debts, `master_checkpoints` | one handler per type; create, amend, delete a rule | balances, approval | rules read the cash of the moment; what is sold and paid is conserved | modelled |
| Recurring records (`routers/incomes.py`, `expenses.py`) | `last_triggered_year_month`, `source_recurring_id` | trigger-due, CRUD | proposes actions; the executor marks the month | overlapping triggers, rejected proposals, month change; once a month, never lost | modelled |
| Debts (`services/debt_settlement.py`, `routers/debts.py`) | `personal_debts` with its trace, balances | create, update, delete, mark paid | accounts, executor | long histories of settle, amend, withdraw; balances explained, trust money untouched | modelled |
| Transactions (`routers/transactions.py`, `balance_rules.py`) | `transactions`, balances | create, update, delete | goal rules, accounts | reversal under another account, type and amount | partly |
| Goals (`goal_engine.py`, `goal_rules.py`, `routers/goals.py`) | `goals` (cached progress, status), `goal_allocations`, `goal_rules` | allocate, evaluate rules, refresh | transactions | caches, savepoints without commit, rounding | modelled |
| LLM quota (`llm_quota.py`), slots (`capacity.py`) | `api_call_log`, a semaphore per worker | pre-check, reserve, count, cancel, reconcile | chat, premortem, reflection | concurrent reservations, reused ids, midnight, failures; ceiling kept, nobody charged for nothing | modelled / partly |
| Authentication (`auth.py`, `routers/auth.py`) | `users.token_version`, `revoked_tokens` | register, sign in, renew, reset, change, delete | client | tokens stored nowhere, used once, ended for ever | modelled |
| Workspaces, closed beta (`routers/workspaces.py`, `workspace_deps.py`, `kvkk.py`, `beta_access.py`) | memberships, roles, invitations | open, invite, join, remove, erase an account | every scoped query | owners leave, shared rows refer to people who leave | partly |
| Cash flow and calendar (`cashflow.py`) | none (pure) | forecast | panel | short months, stale and clamped dates | modelled |
| Rules engine, panel (`rules_engine.py`, `routers/cockpit.py`) | `net_worth_snapshots` | cockpit, reports | all tables | many lists and windows over one set of rows must agree | partly |
| Simulation (`simulation_engine.py`) | none (a copy) | apply, project, compare | panel, executor | a second implementation of what the executor does | modelled |
| Debt strategy (`debt_strategy.py`) | none (pure) | plan, compare, advise | accounts | rounding, termination, freed money | modelled |
| Coach (`coach.py`, `routers/coach.py`, `provider_errors.py`, `intent_rules.py`) | `coach_memory` | chat, reset, chain of providers | LLM, proposals, insights | partial failures, truncated history, claims the records do not bear out | partly |
| Long-term memory (`coach_insights.py`, `insight_schema.py`) | `coach_insights` | extractors, declarations, prompt block | coach, scheduler | stale rows, budget, priorities | modelled |
| Scheduler (`scheduler.py`) | `scheduler_runs` | nightly jobs, catch-up, retention | insights, prices | a machine that sleeps, stops, fails in mid-job | partly |
| Premortem (`premortem.py`) | `decision_journal` | imagine, cache, link the outcome | cards, quota | found again by the card it names | modelled |
| Accounts, prices and funds | balances, lots, prices | CRUD, price job | handlers, panel | everybody writes balances by read-modify-write | partly |
| Rate limit, evaluation of the coach, operations, web client | counters, logs | | | wiring, text or I/O | not modelled |
| Data rights, data model and migrations, deployment and scripts | | | | met where the modelled operations need them | partly |

## The modules

Arrows read "is extended by". Modules named `MC...` only give constants their values;
small instances that need none are configured by their `.cfg` alone. `MCRequests` and
`MCPeople` hold instances of two modules that share no state: `part`, chosen at the start,
says which of the two a behaviour is one of, and the other stays as it began.

```
ApprovalPromise . . refined by . . ActionLifecycle -> RecurringTrigger -> ApprovalProofs, MC
LlmQuota, DebtSettlement -> RequestProofs, MCRequests
Payoff -> PayoffProofs, MC
Sessions, Workspaces -> AccessProofs, MCPeople
Ledger -> Goals -> BalancesProofs, MC
      `-> ActionHandlers -> BalancesProofs, MC
DataProofs -> RequestProofs, AccessProofs, BalancesProofs, PayoffProofs,
              CoachProofs, HouseholdProofs
Calendar -> Books -> Forecast -> Journal -> Cockpit -> WhatIf -> Household
                                              Household -> HouseholdProofs, MC
Insights -> Scheduler --.
Providers --------------+-> Coach -> CoachProofs, MC
Premortem --------------'
Lists -> Cockpit, Providers
```

### ActionLifecycle, ApprovalPromise: the life of a proposed action

`status`, `payload` are the row of `pending_actions`, `history` the rows of
`action_history`; `pc`, `target`, `held`, `answer` belong to the requests. `applied`,
`appliedAs`, `claimant`, `late` are ghosts: how often a handler committed, with what, who
won the row, and which rows a reject or an edit wrote after they had left pending.

| Action | Code |
|---|---|
| `Propose` | `propose_action`: insert and commit |
| `BeginApprove` | the read and status check that precede the claim |
| `Claim` | `UPDATE ... SET status='approved' WHERE id=? AND status='pending'` and its commit |
| `LoadPayload`, `RuleGate` | reading the payload anew, `enforce_user_rules` |
| `RunHandler` | a handler: commits its mutation, refuses, raises before or after its commit |
| `MarkExecuted`, `BuildMessage`, `MarkFailed` | the executor's status commits and the try block they sit in |
| `WriteHistory` | the router's history row, in a commit of its own |
| `BeginReject`, `CommitReject`, `BeginEdit`, `CommitEdit` | reject and edit: check, then write by primary key |
| `Abort`, `Crash` | a call raises outside the try block; the worker dies |

Here a handler is one mutation that commits once, and the rule gate a free choice;
`ActionHandlers` has their contents. `ApprovalPromise` is the abstract specification:
an offer is taken at most once while it is open, and performed at most once, after it was
taken.

### RecurringTrigger: trigger-due, composed with ActionLifecycle

An action's payload is the month its transaction is dated in. `BeginTrigger` to
`LinkSource` are the steps of trigger-due for one record, with the two duplicate
checks and the two commits; `ServeAction` is a step of the approval flow together
with `_mark_recurring_triggered`; `CreateRecord`, `PauseRecord`, `DeleteRecord` are
the panel. `regime`, chosen at the start, says what may happen: `rough` (everything
overlaps, raises and dies), `quiet` (requests one after another), `orderly`. `Home`
says in whose workspace a record and its account live. Incomes and expenses share the
code.

### DebtSettlement: the cash leg of a settled debt

A request loads the debt (`LoadDebt`), computes the change of each balance from what
it read (`SyncCash`, which is `senkronize_nakit`) and commits (`CommitDebt`). The
ORM's unit of work is `Merge`: only changed columns are written, each with the value
computed from what was loaded; `Lands` says when the database refuses. Accounts are
created, deleted, typed over and put in trust around it. `external` is a ghost: what the
user typed. `ForeignKeys` tells the databases apart: migration `f2a3b4c5d6e7` creates
the reference on PostgreSQL only, and SQLite hands out the id of a deleted last row
again.

### LlmQuota: the daily ceiling of LLM calls

One user's rows of `api_call_log`, with ids and days; a *use* is a chat, a premortem
or a reflection. `Reserve` (and `CommitRow` on PostgreSQL, where an id is taken before
the row is visible), `Count`, `Cancel`, `Call` and `Reconcile` are the phases of
`rezerve_et`, `iptal_et` and `ek_cagrilari_uzlastir`; `PreCheck` and `TakeSlot` come
before them. `Holders` says when each path holds a slot. `dialect` is chosen at the
start.

### Ledger, Goals, ActionHandlers: balances

`Ledger` has a person's transactions: a request loads the row (`BeginCreate`,
`LoadTxn`), then the accounts (`ReadAccounts`), and commits both (`CommitTxn`);
`Change` is the old effect taken back and the new one applied, `Merge` what the ORM
writes. `Goals`
adds goals, allocations by hand (`CheckAllocation`, `WriteAllocation`: two steps) and
by rule (`EvaluateRules`, in the savepoint that SQLite keeps and PostgreSQL drops),
rounding to hundredths, and the cached progress. `ActionHandlers` has the handlers
that touch accounts (transactions, balances typed in, cards paid, lots sold, prices,
checkpoints): `Check` is `enforce_user_rules`, which passes over a rule without a usable
parameter (`Usable`), `Load` and `Commit` the handler, and `CreateCheckpoint`,
`UpdateCheckpoint`, `DeleteCheckpoint` are the panel. A handler reads a `Picture` of the
books (`Seen`) and computes another (`Outcome`) that it writes. Sums over rows and accounts
are `SumFunctionOnSet` of the community modules.

### Sessions, Workspaces: people

`Sessions` signs tokens with a type, a subject and a version, and holds nothing of
them but `revoked` and the user's `token_version`; ghosts count uses (`uses`) and name
the era and the person a token was signed for. Requests of two phases (a check, then
a commit) are `Begin...` and `Finish`; `Logout` takes a refresh token, an access token or
both. `Workspaces` has the beta invitations, personal
and shared workspaces, members and roles, rows written and the erasure of an account
with the hand-over of what it owned (`purge_user_data`). A first OAuth login commits the
account (`FinishRegister`) and then the workspace (`FinishOauth`), and may stop in between;
a later login makes up for it. In both modules `alone` says whether requests overlap.

### Payoff: the debt strategies

The month by month engine of `debt_strategy.py`, with `Cent` as its epsilon, run once
for each plan of a question: `BeginMonth` (interest), `PayMinimum`,
`PayExtra` in the plan's order, `RollOver`, `EndMonth`. `Result` is what the
answer is computed from. Amounts are whole numbers; `Interest` rounds as integers do.

### Calendar, Books, Forecast, Journal, Cockpit, WhatIf, Household: the panel

`Calendar` is the arithmetic of short months: four functions of the code clamp a day
to the end of a month, each in its way, and all are here. `Books` is what the panel
reads: `held` is the balance the application has, `real` the bank's (approving a
recurring item only writes a transaction; the balance follows when it is typed in).
`Forecast` is `cashflow.py` and the safe spending and safe payment derived from it,
`Journal` the sums over transactions (summary, pace, envelopes, patterns,
subscriptions), `Cockpit` the rest of the panel (budget, reminders, overdue, aging,
alerts with the traps of minimum payments, next step, milestones, health), `WhatIf` the
simulation: a copy of the world,
the change, the projection over two horizons, the comparison. `Household` lives with
them: `NextDay`, `Book`, `Settle`, `PayCard`, `PayInstalment`, `Spend`, `Sell`,
`CutStatement`, `TypeIn`, and `OpenPanel`, whose word `plan` remembers. `K` holds the
engine's thresholds, scaled to months of three and four days.

### Insights, Scheduler, Premortem, Providers, Coach

`Insights` is the table `coach_insights` and every extractor as an operator from one
table and tonight's facts to the next. `Scheduler` has the nightly jobs, their run
records, jobs that raise, a machine that sleeps and is switched off, and the catch-up at
a start, of the jobs whose last success is more than 24 hours old (waking from sleep is
not a start). Time is counted in hours of which only a few are interesting. `Premortem` is the
journal of decisions. `Providers` is the chain of `FallbackProvider` (retries, providers
outgrown by a request, missing keys) and the translation of the memory into each
provider's messages. `Lists` has what is left of a list that is filtered, for `Providers`
and the panel. `Coach` is a turn of a conversation: `Ask`, `Answer` (with the tool calls it
proposes and the notes it takes), `Retry`, `Reask`, `Conclude` (the cleaning of the reply),
`Save` (one row and one commit at a time), `Hear` (the red-line extractor), `Foresee`,
`Reflect`, `Reset`, `Stop`. A decision on a card is what `ActionLifecycle` has in detail,
with what follows it: `Reject`, or `Claim`, `Apply`, `Learn` (the extractors of an
approval), `Record` (the history) and `Link` (the outcome of its premortem), each of them a
commit that the next may not reach. A text is the set of what its lines say.

## The runs

| Run | Instance | States | What it shows |
|---|---|---|---|
| `action` | 1 action, 2 payloads, 3 approvals, 1 rejection, 1 edit; raising calls, crashes; fairness | 207 447 | `AppliedOnce`: at most one commit of the mutation. `RecordsAgree`: status, history and what was done agree, for executed actions always, for the others unless a reject or an edit wrote late. `AnswersAreHonest`: what a conflict and an approval's success say is so; a rejection's success, unless it wrote late. `ImplementsPromise`: refines `ApprovalPromise`. `ServedToTheEnd`: what no fault took is resolved and shown |
| `action_reject` | 1 approval, 1 rejection, nothing fails | | *violated*: `RejectedIsUntouched`; see Findings, as for the other violated ones |
| `recurring` | 1 record, 2 triggers, 2 actions, 2 approvals, 1 rejection, 2 months | 752 347 | `MarkIsEarned`: in any interleaving a marked month has an applied transaction. `QuietlyOnce`: one proposal at a time and one booking a month for requests one after another |
| `recurring_shared` | the record and its account in a shared workspace | | *violated*: `NoDeadEnds` |
| `requests` | a receivable and a debt, 2 accounts, amounts 1 and 2, 3 requests one after another; or a chat, a premortem, a reflection, 2 workers, 1 slot, ceiling 1, 2 days, both databases, failing writes and crashes | 2 307 952 | `SettlementsAddUp`: each balance is what was typed plus the legs now settled on it. `ReservationsWithinCeiling` (SQLite), `CallsAreCounted`, `RefusalsAreFair`, types |
| `handlers` | 2 actions of every kind, 3 lots, one checkpoint | 150 037 | `FloorKept`: no expense breaks a floor. `WorthKept`: cards and sales conserve what is owned. `ProtectedStay`: no chain of amendments removes a protected checkpoint |
| `goals` | 1 transaction, 2 goals, 1 rule, 2 requests, 1 clerk, both databases | 1 894 798 | `BooksHold`: a balance is the sum of the rows' effects, allocations live as long as both ends. `ManualFits`: allocations by hand fit what is left. `AchievedIsReached`: a goal becomes achieved when what it asks for has been contributed |
| `goals_achieved` | 1 goal of 30 000, 29 999 allocated | | *violated*: `AchievedIsReached` |
| `people` | 2 addresses, 2 people at a time, 5 tokens, versions to 1; or 3 people, 1 shared workspace, 2 invitations, 2 rows, 2 registrations overlapping or not, OAuth logins that stop half-way | 756 135 | `SingleUse`: links, codes and refresh tokens work once. `SessionsHold`: ended sessions stay out, a token opens its own account. `OwnersAndInvites`: one owner each, a personal workspace for all but those who were stopped, an invitation opens one account. `OthersKeepTheirs`: nobody's leaving takes another's rows |
| `payoff` | 3 debts of seven kinds, 2 extras, 4 amounts, 3 questions, 12 months | 579 755 | `MoneyAddsUp`: nothing lost or invented. `RolloverIsWhole`: in a plan of loans each month sets aside what the month before did, whatever has closed. `AdvicePays`: the avalanche for loans, and paying in part of the dearest debt, cost no more |
| `cockpit` | 5 households over months of 3 and 4 days | 57 728 | `ForecastComesTrue`, `SpendingStaysAfloat`, `UrgentFirst`, `NothingFallsThrough`, `OneSetOfBooks`, `PreviewKeepsFaith`, `CelebratedOnce` |
| `coach` | five scenes of conversations, declarations and decisions on cards, with stops and raising calls; three of nights, 3 or 4 of them, of a machine that sleeps once or is switched off up to four times and started at two hours of the day, with jobs and extractors that raise; fairness | 314 863 | `HonestReply`, `ReplayableHistory`, `RedLinesAreRemembered`, `CriticalIsRemembered`, `OutcomeIsLinked`. `ActiveAreJustified`: what an extractor that ran leaves active is what the facts of its night bear out. `AtMostTwoDaysBehind`: where the machine never sleeps, is on and has nothing left to run, the last success of every job that does not raise is at most two days old. `NightsAreCaughtUp`: a job that is more than a day behind while the machine is off succeeds in the end |

Every run ends within four minutes. None checks deadlock: a finite set of requests is
served, a household reaches its last day, a conversation its last turn, and that
nothing is left to do then is no error.

### Findings

Each of these runs checks what a document, a comment or a docstring of the repository
says, and TLC finds a behaviour of the code in which it is not so. The passing runs state
what is left: the same property with the case excluded, or a weaker one.

* `action_reject`: a rejection reads the action as pending, an approval claims and applies
  it, and the rejection then writes `rejected` by primary key and is answered with success
  (`action_executor.py:672-678`). The docstrings (`routers/actions.py:439`,
  `action_executor.py:657`) say that nothing is applied.
* `recurring_shared`: trigger-due chooses a cash account in the active workspace but
  proposes for the caller's personal one, where the handler does not find the account: a
  recurring record of a shared workspace can be proposed and never booked. The comment at
  `routers/incomes.py:145` says of such dead ends that they were removed.
* `goals_achieved`: a goal of 30 000 with 29 999 contributed shows a progress that is
  rounded to 100, and becomes achieved (`goal_engine.py:292`). `schemas.py:319` says that it
  does so only if the contribution reaches the target.

### Where code and documents part

Further places where the code does one thing and a document or a comment says another. The
models follow the code and have each of these behaviours; no run is spent on showing them,
and the properties except them or are stated for the case in which they cannot occur.

* A late edit. An edit reads the action as pending and writes its payload after the
  approval has applied it (`routers/actions.py:462-482`); the history row, written from the
  reloaded action, shows a payload that was never applied. `models.py:593-608` calls the
  table the log of what was applied, with a snapshot of its payload. `RecordsAgree` excepts
  the actions that are `late`.
* Debts settled twice. Two overlapping requests settle one debt; both load it unpaid, and
  the second adds the amount to a balance that already has it. `debt_settlement.py:22-23`
  says that double counting is impossible. `SettlementsAddUp` is for requests one at a time.
* Rules that card payments pass. `min_cash_floor` looks for a kind `pay_card` that no
  handler has (`user_rules.py:72`; the handler is `pay_credit_card`), and
  `account_untouchable` for keys that the payloads of card payments and sales do not have
  (`user_rules.py:78`). `user_rules.py:17-18` says that the cash cannot fall below the one and
  that the balance of the other cannot be changed. `FloorKept` is about expenses.
* Two conventions of signs. The handler of a transaction moves every account that is no card
  like cash (`action_executor.py:804`), while `balance_delta`, said at `balance_rules.py:5` to
  be the one place of that rule, moves investment accounts and loans by nothing. `WorthKept`
  is about card payments and sales.
* An account without a workspace. The first OAuth login commits the account and makes the
  personal workspace in a second commit (`routers/auth.py:690-702`); an account that is left
  without one is answered with an error by every request until a later OAuth login.
  `workspace_deps.py:70` says that every account has one. `OwnersAndInvites` says that only
  those who were stopped there have none.
* A missed night. A job is caught up at seven in the morning, the machine is off in the
  night after and started at six: its last success is less than 24 hours old, so nothing is
  made up (`scheduler.py:572`). `docs/user-guide/gunluk-dongu.md:55` says that what was
  skipped while the machine was off is made up for when it starts. `NightsAreCaughtUp` and
  `AtMostTwoDaysBehind` say how far a job can fall behind.
* Cards due on the last days of a month. The simulation goes from horizon to horizon, its
  baseline there in one go. Each window clamps the payment day of a card anew
  (`simulation_engine.py:466`), within a window a clamped day stays clamped: of a card due on
  the 31st, 30 and then 60 days from 26 February pay on 28 and on 31 March, 90 days in one go
  on 28 March only. `tests/test_simulation_boundary.py:11` asks that both give the same.
  `PreviewKeepsFaith` leaves such cards out.

### Bounds, and why they are enough

* `action`, `recurring`, `requests` (quota): interference over a row is between pairs of requests;
  two approvals, a rejection and an edit give every pair and the third approval a
  bystander. `LastMonth`, `LastDay` are 2: one boundary is crossed before, during and
  after each request. `Ceiling` 1 with three uses gives full, overfull and reopened
  days; `MaxCalls` 2 is a call that stands for the reservation and one that does not.
* `requests` (debts), `goals`, `handlers`: accounts are numbers because the code takes the
  smallest id. Two amounts tell "the same" from "another"; `Figures` bounds what a user
  types. A target of 19 999 with 19 998 contributed is the largest in `goals` whose progress
  is not rounded up to all of it (`SmallGoals`); `goals_achieved` has one of 30 000.
* The violated runs have as few requests as their behaviour needs, and no faults.
* `people`: five tokens are enough for a session, its renewal, the replay of the
  first token, a reset link and a new session; two people at a time for an id that
  could be given again. A version is raised once for each account, and every operation that
  raises it may be the one; `SessionsStayApart` is proved for any number. Of workspaces, an
  owner, an heir and somebody removed.
* `payoff`: one borrower in each role (first, middle, last of the order), cards and
  loans whose balances make the minimum a constant, a falling share, or less than the
  interest. `MaxMonths` 12 stands for the code's 600, `Cent` 2 for its 0.01.
* `cockpit`: months of three and four days put every clamp, month end and window of the
  code within five to eight days. The five households differ in what is due when, in
  what is booked already, in debts that are late, and in what they sell.
* `coach`: each scene is a conversation or a stretch of nights in which one group
  of rules meets its boundary: six rows of memory against a letter that fills them, five
  rows and 1400 characters of prompt against six insights, counts around each
  extractor's threshold. A machine is started at six or at seven in the morning, which is
  less and more than 24 hours after a start at the other hour of the day before.
* Symmetry is used for sets whose members the code does not compare, and in no run with
  a liveness property.

### Fairness

* `action` (`FairSpec`): weak fairness of each accepted request's next step. Every
  accepted request is served in a thread of its own, no step of an approval waits for
  another request for ever (SQLite's writer lock gives up after five seconds, which is
  a raise), and each step stays enabled until taken, so weak fairness is what the
  operating system gives. What a crash or a raise took from its claimant is excused.
  Users are not assumed to approve, reject or edit anything.
* `coach` (`Spec`): weak fairness of `TakesDue` and `TakesLate`: the event loop
  runs a job that is due while the machine is on; of `HourPasses`: time goes on; and of
  `SwitchOn`: whoever switched the machine off switches it on again. Nobody is assumed to
  chat or decide. Only `NightsAreCaughtUp` needs any of it.

The other runs check safety and action properties and assume nothing.

## What is proved

TLC checks the instances of the table above; the theorems below hold for any number of
requests, rows, people, accounts and so on, and any amounts. Where a theorem has a
hypothesis, the code is known to break the property without it (see Known behaviour),
and the run has the same restriction.

| Module | Theorem | States | Holds |
|---|---|---|---|
| `ApprovalProofs` | `TypeCorrect` | `TypeOK` | with faults and crashes |
| | `AtMostOnce`, `StatusAndHistoryAgree`, `AnswersAreTrue` | `AppliedOnce`, `RecordsAgree`, `AnswersAreHonest` | with faults and crashes |
| | `ClaimsAreOneWay` | nothing enters approved but from pending, nor goes back | with faults and crashes |
| | `FlowKeepsPromise` | `ImplementsPromise`, the refinement of `ApprovalPromise` | with faults and crashes |
| | `MarksAreEarned` | `MarkIsEarned` | with faults and crashes, with edits |
| | `AskedAndBookedOnce` | `QuietlyOnce` | without edits |
| `RequestProofs` | `QuotaTypes`, `CallsCounted`, `RefusedFairly` | `QTypeOK`, `CallsAreCounted`, `RefusalsAreFair` | on both databases, with failing writes and crashes |
| | `QuotaHolds` | `ReservationsWithinCeiling` | (the property is about SQLite) |
| | `DebtTypes` | `DTypeOK` | whatever overlaps |
| | `SettlementsAddUpAlone`, `OutsideTrustAlone` | `SettlementsAddUp`, `SettlesOutsideTrust` | `Alone`, `ForeignKeys` |
| `AccessProofs` | `SessionTypes` | `SessTypeOK`; one account for an address | whatever overlaps |
| | `TokensWorkOnce` | `SingleUse` | `Alone` |
| | `SessionsStayApart` | `SessionsHold` | `Alone`, `~ReusesIds` |
| | `OneOwnerEach`, `DeparturesTakeOwn` | `OwnersAndInvites`, `OthersKeepTheirs` | whatever overlaps |
| `BalancesProofs` | `AllocationsEndInTime` | `GTypeOK`; an allocation lives no longer than its goal and its transaction | whatever overlaps |
| | `AchievedIsEarned` | `AchievedIsReached` | whatever overlaps; targets below 20 000 units (`SmallGoals`) |
| | `BooksHoldAlone`, `ManualFitsAlone` | `BooksHold`, `ManualFits` | `Alone` |
| | `BooksStayTyped` | `HTypeOK` | whatever overlaps |
| | `CheckpointsStay` | `ProtectedStay` | whatever overlaps |
| | `FloorsHold`, `WorthHolds` | `FloorKept`, `WorthKept` | `Alone` |
| `PayoffProofs` | `MoneyAlwaysAddsUp`, `RolloverIsAlwaysWhole` | `MoneyAddsUp`, `RolloverIsWhole` | any debts, orders and extra money (`RolloverIsWhole` speaks of loans) |
| `CoachProofs` | `RepliesAreHonest` | `HonestReply` | whatever a model says first and when asked again |
| | `OutcomesAreLinked` | `OutcomeIsLinked` | premortems that do not overlap; stops and raising calls between the commits of a decision |
| | `RedLinesStay` | `RedLinesAreRemembered` | with stops in mid-turn, resets, any number of windows |
| | `BatchIsJustified` | `ActiveAreJustified` | any facts and thresholds, jobs that raise |
| | `CriticalStaysInFront` | `CriticalIsRemembered` | any table, limit and budget |
| | `HistoryReplays` | `ReplayableHistory` | one window that is not stopped in mid-turn; any limits, resets, models |
| `HouseholdProofs` | `NewOnlyOnce` | `CelebratedOnce` | any household and calendar |
| | `NothingIsLost` | `NothingFallsThrough` | any household and calendar |
| | `BooksAgree` | `OneSetOfBooks` | any household and calendar |
| | `PreviewsComeTrue` | `PreviewIsWhatHappens`, the first half of `PreviewKeepsFaith` | all but sales at a price of zero |
| | `UrgentComesFirst` | `UrgentFirst` | any household and calendar |

`Alone` says that a request ends before the next one looks: the code reads, computes in
Python and writes without a lock, so an overlap loses an update. `ForeignKeys` and
`~ReusesIds` are PostgreSQL with its migrations applied, where no reference dangles and
no id is given again. The other assumptions say that `None` is no value of any other
set, that ids and amounts are positive numbers, that the kinds of requests differ and
that the sets of rows are finite; each is an `ASSUME` in the module of its constants.

### The arguments

None of the invariants is inductive alone. What each proof adds:

* **Approval** (`IInv`). A handler runs only in the request that won the row
  (`Ownership`), and a row that nobody won was never applied (`ClaimOrder`); whoever
  wrote the history or answered is done (`WriterIsDone`, `AnsweredIsDone`). An action that
  is not `late` was rejected while nobody had won it, and keeps the payload its handler was
  given (`OnTimeIsConsistent`, `InHand`); `OnlyClaimantDecides` says who writes what. The
  refinement follows from `IInv` step by step.
* **Recurring records** (`MInv`, `QuietInv`). Every step of the composed system is, to
  the approval flow, one of its steps or none, so `IInv` carries over; `HeldIsKnown` and
  `Linking` say that what a request holds and a trigger has created is that record's own
  proposal. For requests one after another, `Quiet` adds that an open proposal is newer
  than whatever was booked (`OpenIsNew`), that the mark is at the latest month booked
  (`LatestIsMarked`) but for an approval about to write it, and that a trigger past its
  checks is still right about them (`TriggerIsDue`). An edit may move a proposal to
  another month, hence the hypothesis.
* **Quota** (`QInv`, `TInv`, `RInv`, `FInv`). The rank of an admitted row never grows:
  on SQLite a new id lies above every id in the table, so later rows do not count before
  it, although ids of deleted rows come again (`RanksStay`). The admitted row of a day
  with the highest id then has a rank that counts every admitted one. `IdsApart`: rows
  flushed but not yet visible on PostgreSQL have ids of their own. `RowsKept` follows
  each use's rows from reservation to reconciliation. For refusals, only rows nobody is
  about to take back count (`Firm`): before each row that is being cancelled there are
  `Ceiling` firm rows (`FullBefore`), so two that cancel at once did not turn each other
  away.
* **Debts** (`DInv`). While a request runs alone, the row it loaded is the row there is
  and each balance it will write is the present one plus the difference of the legs
  (`NothingMoved`); a settled debt's trace is an account that exists (`TraceIsLive`).
* **Sessions** (`SInv`, `UInv`). The version of a row is the number of times its owner's
  sessions were ended (`RowsCount`) and a token carries the number of its session
  (`TokensCarry`), so an ended session's number is never current again. A use revokes
  (`UsesAreRevoked`), and a request that has looked at a token not yet used is the only
  one to (`OneSpends`).
* **Workspaces** (`WInv`). The list of members names each person once and exactly the
  owner in the role of owner (`Sound`); no invitation link makes an owner
  (`LinksAreLesser`); `Personal` workspaces have one member, and an account without one is
  that of an OAuth login that has not come to its second commit or never will (`Settled`).
  When `purge_user_data`
  removes an owner, exactly one of the members left takes the role.
* **Goals** (`TypesAndLife`, `GInv`). `JobsHeld`: what a request has loaded is a row.
  For requests one at a time, `NothingMoves` is `NothingMoved` of the debts, and
  `AsksFit` says that what a clerk has checked still fits.
* **Handlers** (`HTypes`, `HInv`). What `enforce_user_rules` permitted is permitted when
  it is written, and the handler's plan is what it would compute now (`StillTrue`); the
  rest is arithmetic on sums of balances. `Entered`: the amounts in the payloads of
  transactions are amounts.
* **Debt strategies** (`PayoffInv`). In the course of a month, what the household was
  asked for covers the extra, the minimums still to be paid, the last minimums of the
  debts that run and those of the debts that closed and are not rolled over yet
  (`Covered`). A last minimum was worked out on what is owed now and that minimum, or on
  more (`LastPaid`), so where minimums cover the interest the next one is no larger, and
  the next month asks no more. For `RolloverIsWhole`, the instalments of the loans that run,
  those of the loans closed this month and what was freed before add up to the same sum at
  every step of a month (`Whole`, `LastFixed`); `Serving` says who is served.

* **Coach and nights** (`Knows`, `Drawn`). `Knows` is what the table of insights, the
  runs of the jobs, the cards and the memory are: rows of known types with the lifecycle
  their type allows (`Shapes`, `Days`), ids given once, outcomes only of what is in the
  history and for every row that was linked (`Cards`), memories that are
  replies (`Memories`) and a table no step of which loses a row (`Sound`). An extractor
  is a sweep of its own type, so it changes no other type's rows, and after it the active
  rows of its type are tonight's. That the whole batch leaves all of them so follows from
  the order it runs them in. `Drawn` is the strengthening for red lines: every line of a
  stored message is active, or the turn that stored it has not heard it yet, or its turn
  was stopped and a later message's extractor will read it. `HonestReply` needs no
  invariant but a case analysis of the cleaning of a reply. For the history (`Replayable`),
  the memory and the rows still to be saved are a conversation in which every call is
  answered right behind it (`Chat`): the rows of a turn are saved in the order they were
  built, and a call and its answer carry an id no earlier row has. The window, the limit
  on size and a reset leave an end of it. An end of a conversation can only begin with an
  answer whose call was cut away, which is what the translation drops; what it keeps
  stands in its order, so a call and its answer stay neighbours. For the prompt, the rows shown
  are a prefix of the rows in order of rank, so what is left out is behind what is shown.
* **Household** (`Days`, `Money`, `Written`, `Waits`). `Days`: every date written lies in
  the calendar, and the months partition its dates. `Money`: balances, debts and holdings
  are whole numbers. `Written`: transactions carry a date up to today, a known type and
  category. `Waits`: what a panel promised refers to what was there. Sums by month,
  category and window agree because they are sums over the parts of a partition
  (`SumByParts`). For the alerts: whether an alert stands in the list is settled by one
  position in it (`InARow`), a stable sort keeps the critical ones in front, and the debt
  in the first alert is the first of the overdue sorted by date.

`DataProofs` has what these share: induction over the subsets of a finite set, stated
for a set of hypotheses so that the provers can instantiate it, and from it how
`SumFunctionOnSet` changes when one term is added, removed or changed, that it grows with
its terms, that the sum over a partition is the sum of the sums, that the least of a
finite set of numbers exists, and how a finite set is put in order. Balances as sums of
rows rest on it, and so do the lists of the panel.

`OutsideTrustAlone` is proved only: that no step settles a debt on an account held in trust
is one guard, on the account chosen at settlement, and has no run of its own.

### What the proofs changed

* `ExecutorDelta` (`ActionHandlers`) and `ErrorClass` (`Providers`) were CASE expressions
  with overlapping arms, whose value TLA+ leaves open; they are now in the order of the
  code.
* In `BeginRegister` (`Workspaces`) an implication took in the conjunct before it, so
  that a request could begin again while it was running.
* `UpdateBalance` and `PayCard` now refuse a payload that names no account, as the
  handlers do.
* The lists of the panel and of the memory are cut and filtered by sets of positions, and
  `Batch` runs the extractors one after another in the code's order, not as a fold over a
  sequence of names: the provers can reason about both. `Total` and the books' other sums
  are `SumFunctionOnSet`.
* The assumptions on the constants of `Insights`, `Coach` and `Household` are stated
  (`InsightConstants`, `CoachConstants`, `HouseholdConstants`): types, and that a household
  to start from is one that can be typed in (`IsHome`).
* `Trimmed` (`Coach`) leaves a history of one row, and of none, as it is: the code's loop
  looks at longer ones only, and the model read the last row of an empty one. The
  translations of `Providers` are written as what is picked of the rows (`Lists`).
* `PreviewIsWhatHappens` excepts a sale at a price of zero, which the executor allows and
  the simulation refuses; `UrgentFirst` says *an* oldest debt, for two may be due on one day.
* `HonestReply` was too strong: a model that says nothing and notes what cannot be kept
  leaves a reply that is the note alone. `MCCoach` has that conversation now.

### Only model-checked

* `ServedToTheEnd` and `NightsAreCaughtUp`: liveness under fairness.
* `AtMostTwoDaysBehind`: that nights and days alternate as they do is arithmetic on the
  hours of the scenes.
* `AdvicePays` compares whole runs of the engine and depends on the kinds of the debts
  (see Known behaviour); its run says for which it was checked.
* `ForecastComesTrue` and `SpendingStaysAfloat` compare what a panel promised with what
  several days bring. Both need a household that starts without arrears and with loans
  whose dates are not stale (see Known behaviour), so they are claims about the five
  households of the run and others like them, not about every one.
* `NothingSeen`, the second half of `PreviewKeepsFaith`: an action that
  changes nothing shows no effect at any horizon, a claim about two projections of months.
* `ReplayableHistory` is about the OpenAI-compatible translation. The ones for Anthropic
  and Gemini are written down beside it and no property speaks of them: the first sends an
  answer whose call was cut away as it comes, the second sends no answers.
* The properties of the violated runs: `RejectedIsUntouched`, `NoDeadEnds`, and
  `AchievedIsReached` beyond `SmallGoals`.

## Known behaviour

What else the code does, met while modelling, beside what is said above. The properties
are stated so that they hold beside it.

Approval and balances:

* An error after the handler's commit leaves an applied action shown as failed
  (`action_executor.py:650`), so the properties say of a failed action that it was not
  applied only where no call raises; a crash after the claim leaves the row approved
  (RESIL.md:20).
* Overlapping transactions compute a balance from the same figure and lose an effect; an
  overlap of settlements may also leave an unpaid debt with a trace. SQLite gives a
  deleted last id again, so a withdrawn leg may leave another account.
* `pay_credit_card` may draw on cash held in trust (`action_executor.py:919`) and lowers no
  `statement_balance`. `min_cash_floor` passes over an expense on a card, and
  `mark_debt_paid`. An amendment of a checkpoint does not validate its rule's parameters
  again, so an active rule may be one that is never looked at.
* Approving a recurring income moves no balance, while the panel stops expecting it. No
  code advances `next_payment_date` of a loan.
* `achieved` is never withdrawn. A goal rule may be raised above 100 percent in two
  amendments. On PostgreSQL the allocations of a rule are dropped with the request.
* Two overlapping triggers book a month twice.

Quota and people:

* A chat of several calls ends above the ceiling by its own calls, premortems by
  theirs; on PostgreSQL an id taken earlier and committed later lets one more through. A
  use whose reconciliation fails keeps one row for all its calls.
* A refresh whose answer is lost looks like a reuse when it is retried and ends all
  sessions. Two overlapping registrations use one invitation twice. Some foreign keys
  make the erasure of an account fail as a whole (`kvkk.py:47`).

Panel, forecast, simulation and strategies:

* What is booked today is forecast again (`cashflow.py:96`), so the promises are stated
  for panels opened before the day's bookings. Unpaid debts vanish from the forecast
  once they are late (they are among the overdue). Loan forecasts are anchored on a
  date that may be stale or clamped. Reminders are suppressed at a month's end.
* The simulation counts the cash waiting in an investment account, the panel does not;
  it lets a sale fall back on the default cash account and refuses a price of zero,
  where the executor requires an account and allows zero; instalments keep leaving cash
  after a loan is paid off. `networth_attribution` leaves payables out. The
  "opportunity" step may advise more than the safe debt payment.
* What a closing debt does not need of its last minimum is not spent in that month
  (`debt_strategy.py:261-275`); `RolloverIsWhole` says that its instalment is there whole
  from the next. A debt left with exactly one kurus neither closes nor gets a payment, so
  its minimum is lost to the plan; the property excepts it (`LeftBehind`).
* The warnings of `compare_strategies` do not reach its answer; with cards, whose
  minimum falls, the avalanche may cost more than the snowball.

Coach and nights:

* A proposal that is refused beside one that is accepted may go unmentioned. A model
  that says nothing and notes something that cannot be kept leaves a reply that consists
  of the note on the memory alone (`HonestReply` excepts it). For
  Anthropic a tool result may stay without its call at the edge of the window. A turn
  that fails late leaves its card. A reflection notes insights past `ayikla`.
* An approval that is stopped before the link, or whose link raises (swallowed at
  `routers/actions.py:389-402`), leaves a premortem without an outcome for good, and so does
  a premortem that is stored after its card was decided: `OutcomeIsLinked` says that an
  outcome is never wrong and never lost once it is linked, not that there is one. Two
  overlapping premortems of one card leave two rows.
* A night slept through is not made up for: waking is not a start, and what is more than an
  hour late is dropped. Of nights switched off only the jobs are made up whose last success
  is more than 24 hours old at a start, in the order of the list and once, however many
  nights were missed.
* `_check_and_invalidate` is called by nothing and `expires_at` is read by nothing.

## What is not modelled, and why

* Texts: prompts, wording, the recognisers of Turkish phrases, number and date parsing,
  exports, the evaluation of the coach. No state interleaves there, and a property would
  have to be about words.
* Network clients (prices, funds, mail, OAuth providers, language models) and files
  (backups): what comes back from them is a choice of the environment. The price job
  writes objects it loaded before its calls (`scheduler.py:406`); that a sale in between
  survives is not checked.
* The handlers that only write a goal, a wish, an envelope or a note, and demo data
  (`routers/onboarding.py:158`): single writes with nothing to disagree with.
* The rate limit's two counters (`rate_limit.py:112`): it says how often requests come,
  and no property depends on that.
* Migrations, configuration, headers, logging, health checks, scripts, the client's
  rendering.
* The scope filter of every query is modelled as membership, not query by query.
* Finer grain than the models have: `ensure_personal_workspace` is one step though it
  looks before it inserts; no start falls in the very instant of the cron; the red-line extractor
  of a turn does not raise (in the code `run_extractor` swallows what it raises, and the next
  message's extractor reads the line again while the window still holds it).

## Plan

What is left: the price job against sales; the rate limit's two counters; the lists of
wishes. Of the properties that are only checked, `ForecastComesTrue` could be proved for
households without arrears, with an invariant that says which entries of the forecast the
days gone by have used up.
