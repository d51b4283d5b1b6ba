# Formal models of the Singhacks repository

The repository holds two programs that decide something on behalf of people:

* **The contingency desk** (`src/contingency-desk`): a Streamlit application in which a
  relationship manager (RM) signs contingency plans *before* an event. A plan watches a market
  variable, fires by itself when its trigger is hit, and is then executed or dismissed by the RM.
* **The support agent** (`src/MySingHacks`): a Go gateway that starts a Temporal workflow per
  support ticket, a Python worker that runs the workflow's graph of LLM steps, and a human approval
  in front of the one step that has a side effect.

The modules here model both, check them with TLC on small instances and prove what matters most
with TLAPS. Every definition is translated from the code; `PROJECT.json` maps each to its lines.

## Inventory

| Component | State it keeps | Operations | What makes it hard |
|---|---|---|---|
| Desk engine (`engine.py`) | none | `shock`, `resolve`, `evaluate_trigger` | sensitivities of either sign, boundaries (`>=` against `>`), a divisor that may vanish |
| Verification pass (`verify.py`) | `facts.json`, on disk | betas, facility rows, the solved Brent level, positions, its own `shock` | one number stands for a pool; a second implementation of the shock |
| Plan store (`store.py`) | plan records with governance fields and a decision log | `arm`, `dismiss`, `fire`, `action`, `sweep`, `armed_vs_now` | several fields change per operation; a refusal must leave nothing behind; two levels for one trigger |
| Desk session (`app.py`) | `st.session_state` | the callbacks of every widget, session start, reset | clicks on a screen that is already stale; a market sweep after every callback; nothing is persisted |
| Shipped plans (`build_plans.py`) | JSON files | drafts, one armed; `at_brent` freezes numbers into them | the drafted levels must warn in time; frozen numbers age when the facts change |
| Screens (`ui.py`) | none | the card, the board row, the fired band | each puts together fields of a plan that change at different moments |
| Ticket workflow (`workflows.py`, `mapping.py`) | `_state`, `_decision`, Temporal's history | `run`, `submit_decision`, `get_state`, the approval wait | signals, activity results and two deadlines in any order |
| Support graph (`graph/workflow.py`) | the graph's state | nine nodes, two routers, an interrupt | retries, a redraft loop, an attempt that outlives its timeout |
| Tool registry (`registry.py`) | `_completed_actions` and the tools, in memory | `create`, `execute_read_tool`, `execute_action` | the idempotency keys die with the process; an MCP server may replace a tool, or be gone |
| Worker (`worker.py`, `healthcheck.py`) | the registry, the resolved collection | boot, poll, exit | crashes between a side effect and its report; two processes at a time in a rolling update, each with its own memory; what is resolved at boot goes stale |
| Models and retrieval (`models.py`, `repository.py`) | none | `classify`, `plan`, `draft`, `search` | the demo model must not reach production; a collection that is gone is not an empty one |
| Gateway tickets (`temporal.go`, `handler.go`) | requests under way | `Start`, `Get`, `Decide` | check and signal are two calls; answers get lost, signals arrive late |
| Rate limiter (`ratelimit.go`) | counters in Redis | `Allow` | counter and expiry belong together; fails open |
| Knowledge writer (`chroma.go`, `embeddings.go`) | a cached collection id under a mutex | `Upsert`, `Embed`, `resolveCollection` | concurrent first writes, a lock held over a call, vectors in any order |
| Seed data, layout, prompts, configuration, MCP demo tools, scripts, manifests | none | | not modelled, see below |

How they interact: a callback of the desk calls one operation of the store and then
`update_market()`, which revalues the book with the engine and lets the store sweep all plans. The
gateway never talks to the worker: it starts, queries and signals workflows through Temporal, which
keeps the history; the worker polls Temporal and runs workflow code and activities. Several gateways
share Redis. Gateway and worker share the collection of Chroma, which either of them may create, the
one to write and the other to search. Around the desk three programs hand files on by hand:
`verify.py` turns the bank's CSV files into `facts.json`, `build_plans.py` freezes some of its
numbers into the plan files, and a session loads both and recomputes the same numbers on the dial.

Properties that make the components correct, in a sentence each: a trigger is never missed and
never fires on terms nobody signed; a plan's log explains its state; the margin call, the headroom,
the cure and the solved Brent level of a facility agree, and so do the numbers frozen into a plan and
those on the dial; a card tells what the log tells; the side effect of a ticket happens only
after a reviewer's approve was taken while the ticket waited, and "completed" is said only after it
happened; exactly one of several concurrent decisions counts; an accepted decision settles its
ticket; a rate-limited caller gets out again; a document is stored with its own vector, and what was
reported as stored is found by the worker. The hazards behind them are listed in `PROJECT.json`, each
at its line.

## Modules

```
Engine ── BookOnDial ── DeskFacts ── DeskFactsProofs      TicketLifecycle   (what a ticket promises)
   │                                     │                  ▲          ▲
   │           RateLimiter ── RateLimiterProofs             │          │ INSTANCE, its actions
   │                                     │                  │          │ composed with the gateway's
   │                         FiniteSums ─┘ (both use it)    │      SupportService ── SupportServiceProofs
   │                                                        │
PlanStore ── ContingencyDesk ── PlanCard                TicketWorkflow ── TicketWorkflowProofs
                 │       └ ContingencyDeskProofs ┐      implements it
                 │ implements           PlanCard ┴ DeskLogProofs
                 ▼
            PlanLifecycle                     KnowledgeWriter ── AgentWorker ── KnowledgeProofs
```

**`Engine`** is the arithmetic of `engine.py` and of `verify.py`'s `brent_trigger()`. The code
divides floats; here every quantity is an integer times the denominator it would be divided by, and
a comparison of quotients is one of cross products. Rounding for display is left out. What a float
comparison at exact equality may do differently is therefore not modelled.

**`BookOnDial`** puts the five facilities of the book under the dial (`move_dial`, `preset`), with
the triggers of the shipped plans beside them. `Early` says of a drafted trigger what its author
meant it to be, a level short of the margin call; that the shipped numbers are so is an assumption
(`WarningsAssumption`), which TLC evaluates on them.

**`DeskFacts`** adds the programs around the dial. Its variables are the version of the CSV files,
the version `facts.json` was computed from, the version the plans were built from, and what the
session has loaded; `Delivery`, `RunVerify`, `RunBuildPlans`, `NewSession` and `reset_demo` move
them. What each program computes are functions of a version: `beta_to_brent` (a least-squares slope
over snapshots), `facility_row`, `verify_shock` (which leaves out moves of at most 1,000 dollars),
`at_brent`, and `ClientDelta`, the session's own revaluation. Returns are multiples of one unit and
money is multiplied by the denominator the betas share, so all of it is exact. `FilesOK` is what the
files of the bank give: positive fixings and prices by date, and one row per portfolio and instrument.

**`PlanStore`** has the operations of `store.py` as operators on plan records: an operation returns
`[ok, plan]`, with the caller's own plan when the code raises `TransitionError`. `signature` is the
plan body itself (only the trigger could change, so it stands for the whole): two signatures are
equal when the bodies are. `load_plans` is what `build_plans.py` wrote.

**`ContingencyDesk`** is one browser session. Its variables are the keys of `st.session_state`;
each action is a callback *with* the sweep it ends in (`transition`, `move_dial`, `preset`,
`reset_demo`, `navigate`, ...). `view` is the screen rendered last and `Render` the script's run:
between a callback and the next run the old widgets can still be clicked, so a stale click is an
ordinary behaviour of the model. `NewSession` is a reload or a restart of the process.

**`PlanCard`** is what the screens make of a session: the column of the board, the observation with
its distance to the trigger, the signature, and the fired band. They are functions of the desk's
state; only the wording is left out.

**`PlanLifecycle`** is the abstract desk, after `schema/state_machine.md`: signed once, on terms
that stay; fires only when signed; executed only after it fired; one decision at a time. The desk
implements it under the mapping `Lives` (a plan's state and its armed level).

**`TicketWorkflow`** has one record per workflow execution: where the graph stands, the attempt of
the current activity, the published status, the decision, the inbox of signals in Temporal's
history, Temporal's own verdict on the execution, and counters for loops, hours and side effects.
An action is one workflow task (workflow code up to where it blocks again, inline nodes included),
one step of an activity, one event at the Temporal server, or the start or end of a worker process.
Any process that is up may run a workflow task, since the state of a workflow is its history; an
attempt at `apply_action` belongs to the process that took it, with that process's registry. Several
may be up: `replicas: 1` (`deploy/k8s/app.yaml`) does not keep a rolling update, the default
strategy, from starting the new one before the old one is gone.
`apply_action` is split where a crash can fall: started, executed, reported. An attempt given up by
its timeout may still run (`straggler`, the processes that do) and may outlive its execution. Effects are counted in the
model only; the code has no such counter.

**`TicketLifecycle`** is the abstract ticket: reported status, decision, whether the action
happened, whether the execution is open. `TicketWorkflow` implements it under `Lives`; what is
forgotten is the graph, retries, crashes and clocks.

**`SupportService`** is the gateway. It instantiates `TicketLifecycle` for the ticket's own life,
and adds the requests: `Post`/`Start`, and `PostDecision`/`Check`/`Signal`/`Record`/`Handle`, with
failures at each point. A signal that was sent may be recorded after its request was given up.

**`RateLimiter`** counts in ticks: the key's value, its time to live, and, for the properties only,
how many requests were admitted by age. Redis may stop answering, lose an answer, or lose its data.

**`KnowledgeWriter`** has the requests of `POST /v1/knowledge` between embedding, lock, resolve and
write. An embedding is abstracted to the content it is of, so a misplaced vector shows. A write may
land after its request failed; Chroma may come back without its data; gateways restart.

**`AgentWorker`** puts one worker process next to the writer, on the same Chroma. It boots in the
order of `main()` (settings refused or taken, collection resolved for good, tools loaded from an MCP
server that may be gone, poll) and may exit anywhere. Other processes share nothing with it but
Temporal's list of pollers, which its health check reads (`others`). The graph's reasoning nodes then work on a
ticket: a provider's model answers anything its schemas allow (`Replies`), the demo model is
translated, with a text abstracted to the set of words it looks for. `TicketWorkflow` says how often
a node runs and what follows the draft; here it is what the nodes compute.

**`MC...`** modules give the constants values. Operators named `X_Something` and commented "Mutant"
are wrong variants of `X`, which nothing uses: substituting one for `X` must break a property.

## Runs

| Run | Question | Bounds, and why they are enough |
|---|---|---|
| `desk` | every safety property of the desk, and that it implements `PlanLifecycle` | two plans, one shipped armed, so that a decision on one meets a firing of the other; one LTV and one Brent trigger; four Brent levels, between which each trigger switches; three levels to sign at, below, at and above the drafted one. The state space is finite without a bound: a plan takes at most four transitions. |
| `desk_armed_late`, `desk_restart` | documented properties the code does not have | as above |
| `book` | the consistency of the book's numbers at every position of the dial, and of what `verify.py`, `build_plans.py` and the session compute | the five real facilities of `out/facts.json` in thousands, and a bank of two clients and seven holdings whose files change three times: a larger loan on a pool that gains when Brent falls, fixings that never moved (no betas, so `verify.py` fails), and a top-up holding that was sold (so `build_plans.py` fails); the dial in steps of a dollar and the levels at which the triggers of the shipped plans switch |
| `ticket` | safety and progress of a ticket, and that it implements `TicketLifecycle` | one ticket (tickets share only the workers and their registries, keyed by ticket), one action that needs approval and one that does not, one redraft, an approval window of one hour or none (so that progress is seen without any deadline to help), three processes of which two may be up at a time (one to act before and one after a crash, one beside another), two unhandled signals |
| `ticket_once` | a documented property the code does not have | as `ticket` |
| `ticket_waiting` | a documented property the code does not have | as `ticket` |
| `service` | concurrent decisions, safety and liveness | two tickets, a customer who may post twice, two reviewers: two requests are enough for a check of one to be outdated by the other, and two tickets for a decision to go astray |
| `service_conflict` | a documented property the code does not have | one ticket |
| `limiter` | expiry, the window, the lockout | limit 2, window 3 ticks, counts up to 4: bursts on both sides of a border, and counts beyond the limit; two callers |
| `knowledge` | vectors, answers, the lock, and what the worker finds | two requests that share a document, one of them with two documents (the fewest that can be swapped); one loss of Chroma's data, so that an id goes stale; one restart of the gateway and two boots of the worker, so that either may hold the id of a collection that is gone; the demo model, a provider and the deployment that must be refused; an MCP server with another tool, and none (one that is gone leaves what none does, and one that replaces the local tool leaves the same names; the theorems are for any) |
| `worker_health` | a documented property the code does not have | as `knowledge` |

Deadlock is checked where the system never stops (desk, book, limiter). Tickets and requests come to an
end, so `CHECK_DEADLOCK FALSE` stands in the other configurations.

### What is checked

*Desk.* `NoMissedTrigger`: after any callback, the screens' market is the dial's, and no plan
watches a market that satisfies the level its RM signed. `FiredOnSignedTerms`: a fired plan was
signed, its signature verifies, and the observed market satisfies the signed level, not the
drafted one. `DecisionLogIsTheHistory`: the log is a path of the transition table with the right
actors, ending at the state, and a plan is resolved exactly when that state says how.
`CardTellsTheLog`: the signature, the level, the distance and the fired band on a card are those of
the history in the log, through every order of decisions. Action properties: `RecordsOnlyGrow` (append-only, signatures and observations written once, stale clicks
included), `OneDecisionAtATime` (a callback carries one decision, the rest of what changes are
firings at the market of that moment), and `ImplementsLifecycle`.

*Book.* `BreachHeadroomCureAgree`, `TriggerInvertsShock` (the solved level is exactly where the
revaluation breaches, on the right side for short facilities), `WarnedBeforeTheCall` (no drafted
trigger is silent when its facility is on margin call), `OneDangerousEnd`. `BetaIsLeastSquares` (no
slope leaves a smaller residual), `PoolIsRevalued` (the one number `C` revalues a pool as its
holdings one by one would), `FrozenIsWhatTheDialShows` (in a session whose plans were built from the
facts it loaded, the numbers frozen into a plan are the dial's at that level, the household's loss
but for the small moves `verify.py` leaves out).

*Ticket.* `EffectOnlyIfApproved`, `CompletedMeansExecuted`, `OncePerProcess` (what the in-memory
keys really give: one execution for each process started, against the promise refuted below), `AcceptsExactlyInPause` (the handler's test takes a decision exactly when the
workflow is blocked on one), `ImplementsLifecycle`, and the liveness properties `ReachesReview` and
`DecisionIsCarriedOut` (both also without any deadline).

*Gateway.* `RefusalIsFinal` (a 404 or 409 is not followed by a signal), `OneAuthorPerDecision`,
`AcceptedIsOnItsWay` (an accepted decision is recorded, and is dropped only where the ticket was
decided or closed first), and liveness `AcceptedSettles`.

*Limiter.* `EveryCounterExpires`, `WindowIsBounded` (at most the limit per window, twice that in any
stretch of its length, which is what a fixed window gives), and liveness `LockoutEnds`.

*Knowledge.* `VectorsMatch`, `OkMeansSearchable`, `NothingIsMissed` (a retrieval that succeeds finds
every document that was reported as stored in the collection Chroma has, or as many as the limit
allows), `PollingMeansComplete` (a worker that polls can do what a plan asks for), `ShippingMeansReadBack` (the citation the end-to-end test waits for
proves that a stored document was read), and liveness `EveryUpsertIsAnswered`.

### Fairness

Nothing is assumed of people: no user has to click, post or decide.

* `TicketWorkflow`: a worker polls its queues while it runs, so graph steps, signals and timers each
  happen if they stay possible (weak fairness per kind, as none starves another); when no process runs
  the deployment starts one; Temporal times out an attempt that died with its process; the clock goes
  on. Attempts may fail, but every retry policy is bounded, so no fairness against failure is needed.
  Processes exit only while the bound leaves room for another start, so the last ones stay.
* `SupportService`: a request takes its next step, its timeout being one; signals are handled by a
  polling worker. Nothing is assumed of `Record`: a signal that never reaches Temporal is never
  answered with 202.
* `RateLimiter`: time passes, and an outage ends.
* `AgentWorker` and `KnowledgeWriter`: a request takes its next step, its timeout being one, and Go's mutex does not
  starve a waiter (strong fairness of `Lock`; `sync.Mutex` hands over to a starving waiter). Nothing is
  assumed of the worker.

## Findings

Each is a run in which TLC finds a documented property violated.

* `ArmedBeforeTheEvent`: `store.py:7` says the RM signs before the event. `arm()` does not look at
  the market, and the callback sweeps at once: a plan can be signed and fire in one click.
* `ArmedPlanSurvivesRestart`: requirement N3.1 (`docs/contingency-desk-requirements.md:146`) says an
  armed plan survives restarts. Plans live in the session only.
* `ExecutedOnce`: `registry.py:68` says an approved side effect is executed exactly once per ticket and
  action. The key lives in the memory of one process. An attempt that acted and was given up before it
  reported is retried, and a process that does not remember performs the action again: the next one
  after a crash, or the other one of a rolling update. (`docs/deployment.md:52` and
  `docs/railway.md:298` warn of a second replica; one replica does not exclude it.) At most one
  execution per process started is what holds (`OncePerProcess`).
* `WaitingEnds`: `docs/deployment.md:94` says no ticket stays open forever, because it is
  auto-rejected. The execution timeout is counted from the start of the run and the approval window from the
  pause, with an hour between them: a ticket that pauses more than an hour after it was posted is
  closed by Temporal, not by the workflow, and a query goes on to report `waiting_approval`.
* `UnpausedIsRefused`: the service's `README.md:205` says a decision on a run that is not paused
  returns 409. The status stays `waiting_approval` while the approved action runs: in the trace a
  reviewer approves, a second one posts his decision while the ticket is decided and open, and it
  passes the check, is signalled, answered 202, and dropped.
* `HealthyMeansPolling`: `docs/deployment.md:77` says the worker's probe asserts that this process is
  polling. `has_pollers` asks whether Temporal lists any poller of the queue. A process that died is
  listed for minutes and in a rolling update another one polls, so a process that still boots passes,
  before it has a collection or tools.

Seen on the way, and let happen by the models:

* `docs/GLOSSARY.md:125` says the cure brings the LTV back under the trigger. `cure_cash` brings it to
  the trigger, where `breached` (`engine.py:44`, `>=`) still holds: a facility that pays what the screen
  asks for stays in breach. `BreachHeadroomCureAgree` states the code's reading.
* `build_plans.py:43` writes the demo facility's margin call as a literal 0.70, and the scenario level
  is written twice (`verify.py:200`, `build_plans.py:59`). `FrozenIsWhatTheDialShows` is stated for
  the cash cure where the facility's own trigger is 70.
* `build_plans.py:123` calls the household's loss "all positions revalued", but `verify.py:185` leaves
  out moves of at most 1,000 dollars; the property bounds the difference by that per position.
* `build_plans.py:59` says the armed level, 79.00, is "rounded down" from the derived 78.85. It is
  rounded up, which for a pool that falls with Brent is the earlier warning; `Early` allows it.
* "Reset demo" loads the plan files again and keeps the facts, so after the scripts were run a
  session can show plans of one version beside facts of another. Nothing ties a plan to its facts.
* A dismissal aimed at a draft, or a ticket posted again after a timeout, cannot be told from a new
  decision or a new ticket.
* After Chroma lost its data, gateway and worker hold a collection that is gone until they restart:
  writes and searches fail, and neither pretends (`OkMeansSearchable`, `NothingIsMissed`).

## Proofs

Every safety invariant and every action property that a passing run checks is also a theorem: the
run shows it on a small instance, the theorem for every value of the constants.

Each proof module extends the module it is about. The assumptions are the named `ASSUME`s of the
models, all of which TLC evaluates in the runs:

* constants are of their type, and `None` and the actors' names are none of the values they stand
  beside (`PlanStoreAssumption`, `NamesAssumption`, `CardAssumption`, `ServiceAssumption`);
* lending values stay positive over the dial, because at zero the code would divide by it
  (`BookAssumption`, `PlanStoreAssumption`);
* the bank's files have positive fixings and prices, finitely many holdings, and one row per
  portfolio and instrument (`DataAssumption` with `FilesOK`): `PoolIsRevalued` and
  `FrozenIsWhatTheDialShows` go from holdings to positions and back;
* a drafted trigger is set short of its facility's margin call (`WarningsAssumption`): that is
  what the shipped numbers must be, while *that it suffices* at every position of the dial is the theorem.

### The desk

**`ContingencyDeskProofs`**: `Typing`, `TriggerNeverMissed` (`NoMissedTrigger`),
`FiresOnlyOnSignedTerms` (`FiredOnSignedTerms`) and the refinement `DeskImplementsLifecycle`
(`ImplementsLifecycle`), for any plans, levels and dial. Neither of the invariants is inductive by
itself. `PlanInv` says of a single plan what the operations of the store keep:
the drafted trigger never changes; a draft has no signature and no observation; any state after the
signing has the RM's signature over the trigger and one of the levels; an observation satisfies the
signed level. One lemma per operation shows that it keeps `PlanInv`, `SweepInv` that a sweep also
leaves no watching plan behind, and `UpdateMarketInv` and `TransitionInv` carry that through the
callbacks. `DeskInv == TypeOK /\ PlansInv(plans) /\ NoMissedTrigger` is the inductive invariant. For the
refinement a callback is an operation and then a sweep: `ArmMoves`, `DismissMoves` and `ActionMoves`
say which move of the lifecycle an operation is, `SweepMoves` that a sweep keeps a plan or fires it,
and `DecidedThenSwept` that both fit in one step.

**`DeskLogProofs`**: `LogIsTheHistory` (`DecisionLogIsTheHistory`), `NothingIsRewritten`
(`RecordsOnlyGrow`), `OneDecisionPerClick` (`OneDecisionAtATime`) and `CardsTellTheLog`
(`CardTellsTheLog`). None follows from `PlanInv`, which does not mention the log. `HistoryOK` adds the
three parts it needs: `LogOK`, the log is a path of `Allowed` with an actor that may take each step,
and ends at the state; `MarksOK`, signature and observation stand exactly when the log passed the
state that sets them; `ResolutionOK`, the resolution names the state a resolved plan ended in.
`DeskLogInv == DeskInv /\ HistoriesOK(plans)` is inductive. The proofs are about one operation on one
record (what it appends, which fields it keeps), then about a sweep, then about the two in a callback;
the card is a function of the state, and follows.

### The book

**`DeskFactsProofs`** is about `BookOnDial` and the scripts around it.

* The dial: `DialTyping`, `SolvedLevelIsTheMarginCall` (`TriggerInvertsShock`), `RowIsConsistent`
  (`BreachHeadroomCureAgree`) and `MarginCallsAreMonotone` (`OneDangerousEnd`). The argument is algebra:
  the cross-multiplied inequalities are the same one, whose direction the sign of the sensitivity
  decides. `WarningsComeFirst` (`WarnedBeforeTheCall`): headroom is monotone along the dial (`NearSide`),
  so a level with headroom left lies before every level that breaches.
* The scripts: `FactsTyping`, and `ScriptsImplementTheDial`: with the scripts and sessions around it the
  dial is still a behaviour of `BookOnDial`, because a new session and a reset put it where it could be
  moved anyway. `BookBesideTheScripts` carries the theorems of the dial over to the specification the run
  checks.
* The numbers: `BetaFitsBest` (`BetaIsLeastSquares`): the residual is a quadratic in the slope
  (`ResidualIsQuadratic`), and the beta is where its square is complete (`CompleteTheSquare`).
  `SensitivityRevaluesThePool` (`PoolIsRevalued`): a sum of linear terms is linear.
  `FrozenNumbersHold` (`FrozenIsWhatTheDialShows`): positions are holdings under another name
  (`PositionsAreHoldings`), and each of the moves left out is at most the small move
  (`SmallMovesAreLeftOut`).

**`FiniteSums`** holds what these proofs and the limiter's need of `SumFunctionOnSet`: that a term can be
taken out in any order, that sums split, grow, rename, are linear, and are bounded by their terms. The
library's induction theorems take an operator as a parameter, which no installed prover can
instantiate; `SubsetInduction` is stated with a *set* of subsets instead, and follows from
the well-foundedness of strict inclusion by a minimal counterexample.

### The agent and the gateway

**`TicketWorkflowProofs`**: `Typing`, `EffectsAreApproved`, `CompletedIsTrue`,
`OneExecutionPerProcess`, `HandlerMatchesPause`, `DraftingIsBounded`, `VerdictsAreFinal`, and the
refinement `WorkflowImplementsLifecycle`, for any number of tickets, processes, redrafts and hours.
`RunInv` ties the graph's node to the published status, the decision, the plan and the effects;
`Counted` says that a registry holds only tickets that were acted upon, and that a ticket's executions
together with the running processes that have not performed its action never exceed the processes
started: a start adds one to both sides, an execution or an exit takes a process out of the second count.
A step other than the start or the end of a process changes one run, so the work is done on records: `Step(r, n)` says that `n` keeps `RunInv`, takes back no verdict, and is for the lifecycle a
move or a stutter; one lemma per piece of workflow code proves it, `Lift` carries it to the system,
and `MovesRefine` turns a move into a step of `TicketLifecycle`.

**`SupportServiceProofs`**: `Typing`, `NoIsFinal` (`RefusalIsFinal`), `OneRequestDecides`
(`OneAuthorPerDecision`) and `AcceptedIsNotLost` (`AcceptedIsOnItsWay`), for any tickets, customers and
reviewers. The invariant joins three parties that never share a variable: `LifeInv`, a ticket with a
decision has paused, and one that is over is closed; `RequestInv`, a request has a signal only after a
check that passed, is answered 202 only when its signal was recorded, and a dropped signal found its
ticket decided or closed; `QueueInv`, a queue holds signals recorded for its own ticket, each once.
The last is what keeps a signal from being taken twice, and so two requests from both being
the author of one decision.

**`RateLimiterProofs`**: `Typing`, `CountersExpire` (`EveryCounterExpires`) and `BurstsAreBounded`
(`WindowIsBounded`). `Typing` bounds what is admitted between two ticks by the limit, which needs that it
was counted in the current window. `BurstInv` splits what is remembered at the border of the current
window: since then at most the counter and the limit were admitted, and before it at most the limit. A
script adds to the first part, and opens an empty one when there was none; a tick makes every age one
greater, which renames the terms of the sums and forgets the oldest.

**`KnowledgeProofs`**: every safety property of the `knowledge` run, for any requests, documents, losses
and restarts: `Typing`, `VectorsBelong`, `OkIsStored`, `RetrievalMissesNothing`,
`PollingIsComplete`, `ShippingProvesReadBack`. `WriterInv` ties a request's progress to its vectors
(those of its own contents once it is past the embedding, `EmbedIsOwn`), its collection to the ids
Chroma gave out (`Latest`), and a write that landed in the present collection to what is stored; a
write that landed in an earlier one has an id below every later one, which is why a loss of data
cannot make an old answer false. `OneRequest` proves it for any step of one request, and the lemmas
per action are instances. `ProcessInv` and `TicketInv` do the same for the boot order and for what
the nodes put in a ticket, where `faked` remembers that only the demo model answered.

### What stays with TLC

Liveness under fairness (`ReachesReview`, `DecisionIsCarriedOut`, `AcceptedSettles`, `LockoutEnds`,
`EveryUpsertIsAnswered`) is out of the prover's reach, and so is `ENABLED`. The arithmetic of the
shipped numbers is TLC's as well: it evaluates the assumptions on them. The findings are
counterexamples, which only a run can show.

## Not modelled, and why

* Wording, layout and CSS (`ui.py`, `style.py`), the printed report, the mandate optics and the cash
  needs of `verify.py`, and the sorted list of moves in `shock()`: display data nothing computes on.
* `build_seed.py` writes reference tables once, offline.
* The three plan files of `build_plans.py` are written one after the other and taken as written
  together; `verify.py` writes `facts.json` at its end.
* Prompts, texts and redaction of the agent: stateless, whose outcomes are nondeterministic choices
  (which action is planned, whether the critique passes, whether an attempt fails). The in-memory
  repository of `repository.py` is a double for the tests.
* Decoding and validation of requests, health checks of the gateway, API keys, and the parsing of
  settings: per request or per process, stateless.
* Floating point: comparisons are exact here.
* Several processes in `AgentWorker`: they share no memory, so it follows one at a time, which may be any
  of those that run. The others are there as what the queue lists. `TicketWorkflow` runs several,
  because they take each other's attempts.
* The drain of a worker on SIGTERM is an exit between two activities; what an exit inside one does
  is in `TicketWorkflow`.
* `quickstart.py`, MCP demo tools, scripts and manifests.

## Plan

1. (done) the desk with its store, engine and lifecycle; the ticket workflow with its lifecycle; the
   gateway on that lifecycle; the limiter; the knowledge writer; the first proofs.
2. (done) the programs that make the desk's numbers, against the dial; the screens against the log;
   the worker's boot, retrieval and demo model against what the gateway stored; the desk's
   refinement, the knowledge run's safety and the carry-over of the book's theorems proved.
3. (done) the desk's log and cards, the gateway, the limiter's window, and the book's sums proved, so that
   only liveness is left to TLC.
4. Shorten the proofs that repeat an argument (the callbacks of the desk, the ticks of the limiter) into
   lemmas of their own, and prove the safety half of the liveness properties where it has one: that an
   accepted decision's ticket can no longer be paused, and that a caller locked out has a counter whose
   time to live only falls.
