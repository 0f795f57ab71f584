# A TLA+ model of the agentic SDLC orchestrator

The orchestrator runs a *plan*: a directed graph of nodes (model calls, coding
agents, commands, human checkpoints, fan-outs) that turns a requirement into
reviewed code and an evidence bundle. Its engine decides what may run, records
what happened, judges it at gates, and decides what a failure leads to. This
directory holds a TLA+ specification of that engine, of the commands a person
gives it and of what it reports, and of the service the repository has it build;
TLC configurations that check them on small instances; and proofs, checked by
TLAPS, of invariants and of a refinement that hold for every instance.

Paths below are relative to the repository; `engine/scheduler.py` and the like
stand for `src/orchestrator/engine/scheduler.py`.

## 1. The system

### Components, their state and their operations

| Component | Source | State | Operations |
|---|---|---|---|
| Scheduler | `engine/scheduler.py` | `runs.status`, `node_executions` (status, `extra_needs`, config), attempts, gate records; in memory `_runtime`, `_extra_needs` | `start`, `advance` (wave loop), `_record`, `_expand`, `_apply_policy`, `_insert_repair`, `_insert_escalation`, `_block_for_human`, `_invalidate_downstream`, `_settle`, `revalidate` |
| Failure policy | `policy/failure.py` | none | `respond_to`, `escalation_node` |
| Plan graph | `engine/plan.py`, `engine/loader.py`, `engine/compose.py`, `engine/profile.py` | the loaded plan, immutable during a run | load, `extends`, defaults, checks, `dependency_graph`, `runtime_graph` |
| Lineage and approvals | `lineage/*`, `state/models.py`, `state/store.py` | artifact versions, approvals and their bindings | `record_artifact`, `request_approval`, `decide`, `revert_to_pending`, `stale_approvals` |
| Gates | `gates/*` | none of its own; predicates read the run | `evaluate_gate`, `_combine`, predicates, expressions over facts |
| Console | `cli/main.py` | the database, one session per command; `held-by.pid` | `run`, `approve`, `reject`, `retry`, `invalidate`, `recheck`, `resume`, `stop`, `rollback`, `watch` |
| Workers | `workers/*` | none that survives a node, except replay's cassette | `run(node, inputs, scope)` |
| Triage, clarification, baseline | `policy/*` | none | which ambiguities block; the questions put; the snapshot to restore |
| Evidence, metrics | `evidence/*`, `metrics/*` | none (read the run, at any moment) | `assemble`, the bundle's counts and `is_releasable`, `run_metrics`; rendering, fleets |
| Target: click recorder | `target/shortener/analytics` | a bounded queue, a daemon thread with a batch in hand, the clicks table | `record_click`, `start_recorder`, `stop_recorder`, `_drain`, `summarize_clicks` |
| Target: links and routes | `target/shortener/links`, `main`, `storage` | the links table | create, redirect, delete, read, analytics |
| Target: rate limiter | `target/shortener/ratelimit` | a token bucket per caller | `enforce_rate_limit`, the sweep |

They interact through one SQLite database. A process that drives a run holds
one session for its whole life: it commits when a wave is dispatched and again
when the wave is recorded, and nothing else. Commands open sessions of their
own. A second process drives the run later through `resume`, after rebuilding
what is in memory from the rows (`rehydrate`). Which process drives is settled
by a pid file.

### What is hard here

* **A run outlives its processes.** Everything between two commits is lost on a
  crash; a wave that was dispatched stays RUNNING in the database.
* **The graph grows.** Repairs, handoffs and fan-out children are inserted at
  runtime, are not part of the authored graph, and are reached by different
  code than the authored nodes.
* **Results go out of date.** A re-derived or withdrawn artifact has to reach
  every verdict, approval and child built on it.
* **People and the engine write the same rows.** A question can outlive its
  subject; an answer can arrive after a retry has already passed; a command can
  close the only question of a row and leave the row waiting.
* **A verdict has two kinds of no.** FAIL (the work is wrong) and ERROR (the
  check could not be performed) have different budgets, consequences and
  recoveries, and re-checks may mix the verdicts of several attempts.
* **What is reported is read off the same rows twice**, by the bundle and by the
  metrics, and has to say of the run what it was.
* **The service it builds is concurrent itself**: requests on threads of the
  server, a queue that is full or outlives its thread, a process that dies with
  a batch in hand, clocks read before locks are taken.
* **Two processes may drive one run**, as the pid file, the lock of the
  database and the status a session caches are three different things.

The hazards are listed at their lines in `PROJECT.json`. The correctness of
each component, in a sentence:

* scheduler: no failure is dropped, no repair skipped, no out-of-date result
  called evidence, and a driving process always comes back;
* the whole run: per authored node, a start only after what it needs, and no
  result finished, undone or waived but in the ways its contract lists;
* fan-out: green only while every child of the current shape is green;
* approvals: work behind a checkpoint starts only under an approval of the
  versions that exist, and whatever waits for a person can be answered;
* gates: green means green by the rules of the gate, and a recorded no becomes
  a yes only with an argument on the record;
* driver hold: one process dispatches at a time, none is refused for nothing;
* agent sessions: each changes what its scope allows its names to say, its
  changeset says what it changed, and a session whose permission guard was skipped is not trusted;
* reports: a bundle that says releasable is of a run whose gates are green, and
  the bundle and the metrics do not contradict each other;
* click recorder: an accepted click is kept once, or lost for a reason, and a
  stop in time leaves none behind; redirects never wait for it;
* links: a code is issued once and a retired link stays retired;
* rate limiter: who comes back when told to is served, and forgetting idle
  callers changes no budget.

## 2. The modules

```
FailurePolicy <- PlanGraph <- RunEngine <- RunConsole <- RunProperties <- RunProofs
RunContract <- (instance) RunProperties <- Clarification <- MCClarify
                               RunProperties <- RunReport <- MCReport
                               RunReport, Clarification, RunProofs <- EvidenceProofs
                               RunProperties <- MCPlans <- MCClarify, MCReport
GateRecheck <- GateProofs
AgentSession <- AgentSessionProofs, MCSession
DriverHold <- HoldProofs
PlanCompose <- ComposeProofs, MCPlanCompose

ClickLog <- (instance) ClickRecorder <- Shortener <- ShortenerProofs, MCShortener
                       ClickSummary  <- Shortener
RateLimit <- RateLimitProofs, MCRateLimit
```

**`FailurePolicy`** is `policy/failure.py`: what an attempt's verdict leads to,
from the node's policy and the attempt number.

**`PlanGraph`** is the loaded plan as CONSTANTS. `Work` holds every node that
can do work, authored (`Plan`) or grown; `Node[w]` is a record of the fields
the engine decides with. Prompts, paths and payloads are left out. The
assumptions are what the loader's checks and the naming of inserted nodes
(`impl:api`, `fix:tests`, `escalate:tests#2`) guarantee: references resolve,
the graph is acyclic, nothing inserted belongs to two owners. `Downstream` is
defined as a least set, which can be reasoned about; `MCPlans` has TLC compare it
with the graph search of the community modules on every plan.

**`RunEngine`** is the driver. A row is `<<w, 0, "none">>` for node `w`, or
`<<w, k, v>>` for the human node `escalate:w#k` inserted when attempt `k` of
`w` reached verdict `v`; `v` is the `escalated_for` of its stored config. The
control of `advance` is in `phase`:

| `phase` | where the process is | steps |
|---|---|---|
| `parked` | none drives the run | `Resume`, and the commands |
| `loop` | at the head of the `while` | `Dispatch`, `Settle` |
| `wave` | dispatched and committed, nothing recorded | the records, `ExpandRaises` |
| `record` | some outcomes of the wave recorded, not committed | the records |

`Dispatch` takes *all* ready rows, as `_ready` does. Each outcome of a wave is
recorded by one action, which contains everything `_record` calls: the
attempt, the artifacts, the cascade of `_invalidate_downstream`, the verdict
and its whole consequence under the policy. The work itself is the choice of
its verdict, of whether artifacts were produced, and of the shape a fan-out's
source describes afterwards (or none, when it is missing or malformed).
`Crash` returns to `parked` from `loop` or `wave`; between two records of one
wave nothing is committed, so a crash there is a crash in `wave`. The same holds
for the exception of a fan-out whose source is missing or malformed
(`ExpandRaises`): it takes the records of the whole wave with it, so a wave that
must end that way (`Doomed`) records nothing. A source in the same wave may
still feed its fan-out, or record what does not parse.

Outcomes of a wave are recorded in any order. The code records them in the
order of the rows; the model allows more, and every property is checked, and
proved, for all orders.

**`RunConsole`** adds the commands a person gives while no process drives the
run: `Approve`, `Reject`, `Retry`, `Invalidate`, `RecheckPasses`,
`RecheckFails`, `Stop`, `Rollback`, each with the whole effect of the command
in `cli/main.py`. At most `MaxOps` are given. `Spec` is the composition.

**`RunProperties`** states what the two promise; **`MCPlans`** holds small plans
with the shapes of the shipped ones: the repair loop, the fan-out, the
checkpoint and the ambiguity path.

**`RunContract`** is the abstract run, of the authored nodes only: a node is
`open`, `running`, `asked`, `done` or `skipped`, a checkpoint has a question or
not, and a process drives the run or people command it. It says when a node may
start, who may finish, undo or waive it, and what a withdrawal takes with it.
`RunProperties` maps the run to it (`Stage`, `Contract`) and forgets attempts,
verdicts, policies, versions, waves in part recorded, inserted nodes and handoffs.
FAILED, ERRORED, PENDING and STALE are all `open`, and so is what a dead process
left RUNNING. `KeepsContract` says that the run implements it.

**`RunReport`** is what a run is reported to have been, next to the run itself.
`ledger[w]` is what the store appends for node `w`: the outcome of each attempt,
`pass` or `red`. The metrics (`RunMetrics`: first passes, incidents, recoveries)
and the bundle (`Counts`, `BlockingGates`, `IsReleasable`) are operators over
it and over the rows, so they can be read in every state of a run.

**`GateRecheck`** looks inside one gate, which `RunEngine` leaves open: `all`
and `any` checks, predicates over recorded state, expressions over facts that
either a probe or only the worker can report, attempts whose worker or probe
raised, and the two forms of `revalidate`.

**`DriverHold`** looks inside `phase # "parked"`, which `RunEngine` gives to one
process: who drives the run. It models the read of the run, the flush that
takes SQLite's write lock, the check and the claim of the pid file, the status
each session caches, deaths, `stop` and `stop --force`.

**`Clarification`** puts the dialogue with a person on top of `RunProperties`:
the register of open questions, what triage disposes of, what the text of each
decision answers, and what `normalize` folds back. It takes the actions of the
driver and the console as they are and says, for the four nodes of the
dialogue, what their work records and when their gates pass. `said[i]` is the
set of questions the text of `approvals[i]` answers: a line `id: answer` answers
one, unstructured text answers all of them, as in `parse_answers`. `Crash`,
fan-outs and bundles are left out of `DialogueNext`. Intake may write any
disposition the schema admits, `resolved` included, which triage then skips;
`claimed` is the history of the questions the latest intake resolved itself.

**`PlanCompose`** is what happens before a run: deltas applied to a raw base,
innermost first, each one inserting, overriding, then removing, and the checks
of `load_plan` on the result. The acyclic plan whose references resolve that it
accepts is the assumption `PlanGraph` makes. A duplicate id, also of two nodes of
one insertion, is refused at once (the code refuses it at the end). `splices`
remembers what was inserted after what, and what needed the anchor then.

**`AgentSession`** looks inside one wave of coding agents (`_execute`,
`workers/codeagent.py`): each session is a thread of the pool, `at[s]` is where
it is, and all write to one `tree`, which keeps the last writer of each file. A
call names a file, and a file has several names (`Denotes`): its own, absolute
ones, relative ones with `..` or through a link. `Relativise` is what the guard
makes of a name: an absolute one becomes the file's own, every other one is judged
as it is written. `Permits` is the match of that name with the patterns of the
node, and `Changes` follows the name to its file. `Allowed` and `Frozen` are sets of
names, so a pattern may match a name of a file it was not written for.
`written` and `denied` are the memory of the session's own `ScopeGuard`;
`asked` is the write it was permitted and has not done, as a permission and the
write are two steps, between which another thread may act and the time may run
out. `sink`, `saved` and `heard` are what `warnings.catch_warnings` swaps: the
place of the process a warning goes to, what leaving the block puts back, and
the list each session inspects. `shadowed` are the sessions whose guard the SDK
skips, chosen once for a run. `Record` is the return of the whole wave to
`_record`: errors re-enter while attempts are left, and an exception that is no
`WorkerError` (`raised`) leaves nothing recorded. `changed`, `refused`, `beside` and
`misnamed` (the files written under a name judged for another) are history.

**`ClickRecorder`** is the recorder of the service a run builds: the bounded
`queue`, the lifespan (`life`) that starts and stops the thread, and the drains.
`at[d]` is where thread `d` is in `_drain`, `batch[d]` what it holds. A join that
times out leaves its thread alive; the next lifespan starts another on the same
queue, and both take from it. `ProcessEnds` takes queue, batches and threads
along. **`ClickLog`** is what it promises, without queue, thread or process: each
click is accepted or refused, and what was accepted is kept once, a batch at a
time, or lost. **`Shortener`** puts the routes around it: each request is a
thread of the server that goes through the steps between which others may act
(mint and insert; fetch and act; one step for each SELECT of an analytics
answer), over the links table. It shows `RecordsEachClickOnce`, that the whole
service implements `ClickLog` under the mapping `FateOf`. **`ClickSummary`** is
the arithmetic of an analytics answer: the intervals of a window, the breakdown
with its limit and the row for the rest. `ORDER BY count DESC` leaves values of one
count in no order, so `Ranking` is any order by count.

**`RateLimit`** is the token bucket of each caller, with a request in two steps:
the clock is read, then the lock is taken. A bucket is measured in time (it fills
by one each tick; a token costs `Window / rate_limit_requests`), so no fraction
is needed; the whole seconds of `Retry-After` are made of it as `main` makes
them. `promise`, `full`, `since`, `latest` and `overtaken` are history.

### Abstractions worth knowing

* Payloads, prompts and messages do not exist; an artifact is its version.
* `outputs`/`qualified`: `_invalidate_downstream` looks for declared output
  names among recorded names. In the shipped plans the two differ (`register`
  against `normalize.register`), so the automatic cascade never fires there;
  `qualified` nodes are those for which it does. Both are checked.
* One instant (`clock`) stamps every decision a command takes.
* `cleared` remembers whether the run looked releasable when a bundle was last
  judged, for a re-check that keeps those verdicts.
* `used` and `owed` are history variables; no action reads them.
* Commands are taken while the run is parked. A `stop` beside a live driver is
  in `DriverHold`; other commands beside a live driver are not modelled yet.

## 3. What TLC checks

Runs that pass (`tlc -workers 2 -config X.cfg M`):

| Run | Instance | States | Properties |
|---|---|---|---|
| `RepairLoop` | `impl`, then `tests` (repaired once) and `docs` (`safe_stop` on an error), then `release`, 2 commands | 798 k | `Inductive` (with `TypeOK`), `FailureIsHandedOff`, `RepairPrecedesReentry`, `EvidenceIsCurrent`, `GreenIsCurrent`, `WaiverHolds` |
| `FanOut` | `design -> impl`, shapes `{api}` and `{api, store}`, a child that raises stops the run, 2 commands | 235 k | `FanoutComplete`, `FanoutMatchesSource`, `SessionEnds` |
| `Checkpoint` | `design -> approval -> scaffold`, approval bound to the design, cascade firing, with the reports, 3 commands | 889 k | `BuiltOnApproval`, `ReleasableIsGreen`, `ReportsAgree`, `KeepsContract` |
| `Triage` | the ambiguity path, with error retries, `safe_stop` and `rollback`, 3 commands | 1.15 M | `QuestionHoldsWork` |
| `Gate` | two `all` and two `any` checks of every kind | 1107 | `GreenByTheGate`, `GreenOverNoIsArgued`, `AnsweredIsKept`, `RaisedIsNeverGreen` |
| `Hold` | two resumes of a run at rest, one death | 1815 | `OneDriver`, `RefusedWhileDriven`, `DriverEnds` |
| `Clarify` | the head of the ambiguous plan, two questions at the threshold, every disposition, 3 commands | 1.05 M | `QuestionsReachAPerson`, `AnswersAreQuoted`, `AnswersStand` |
| `Sessions` | two implementers, a module each, the other's module frozen to the first, whose patterns match a second name of it; two attempts, guards skipped or not | 900 k | `ManifestCoversChanges`, `OwnWorkStands`, `AloneIsGuarded`, `WaveEnds` |
| `Compose` | a line, a diamond and a cyclic base, two deltas, two insertions, one override | 1.63 M | `ChainBetween`, `NothingWaitsForPlaced`, `CycleNeedsAnAuthor` |
| `Clicks` | five loads of three requests on one code, a queue of two, batches of two, two lifespans | 113 k | `StopDrains`, `GoneStaysGone`, `AnswersAccount`, `OneLinkPerCode`, `RecordsEachClickOnce`, `StopReturns`, `ClicksSettle` |
| `Limit` | two callers, two threads, a budget of two, a second of two ticks, a sweep above one caller | 2.32 M | `RetryIsServed`, `SweepIsInvisible` |

What they show:

* **No failure is dropped** (`FailureIsHandedOff`): a broken node whose policy
  escalates always has the handoff of its *latest* attempt asked, to be asked,
  or refused. Approvals, withdrawals and re-checks that close a question always
  move the node as well.
* **A repair runs before what it repairs** (`RepairPrecedesReentry`), for the
  budget of two attempts the shipped plans give.
* **Evidence stays true** (`EvidenceIsCurrent`): while the bundle is green
  nothing upstream of it, in the graph as grown at runtime, is unfinished,
  failed or stale, through retries and withdrawals after the fact.
* **A completed run's results come from versions that exist**
  (`GreenIsCurrent`), for plans without fan-outs and checkpoints; see section 6.
* **A fan-out is what its source says** (`FanoutComplete`,
  `FanoutMatchesSource`): not at the instant of `_expand` only, but afterwards.
* **An approval is of a version** (`BuiltOnApproval`), and **a raised question
  holds the work behind it** (`QuestionHoldsWork`). **Whatever waits can be
  answered**: `AskedIsAnswerable` is a conjunct of `Inductive`, checked where one
  outcome of a wave asks a person and another stops the run over the question.
* **A dead process strands nothing** (`OnlyTheWaveRuns`, in `Inductive`): while a
  process drives, no row is RUNNING but those of its own wave. The mutant leaves
  out the head of `advance` (`engine/scheduler.py:135-143`).
* **The run keeps its contract** (`KeepsContract`): it implements `RunContract`. A
  node starts only when all it needs is settled and nothing older is in flight; only
  a person passes a checkpoint or waives work; a withdrawal leaves
  nothing behind it done, asked or questioned; a process that ends in any way undoes
  nothing; and a re-check moves its own node and what that node raises.
* **A green gate is green by its own rules**, though re-checks re-decide it
  with other code than `_combine` (`GreenByTheGate`); a required no is
  overruled only after an argument, even when errors and re-checks alternate
  (`GreenOverNoIsArgued`); a re-check never loses an answer that only the
  worker could give (`AnsweredIsKept`).
* **One process dispatches at a time** (`OneDriver`), among resumes of a run at
  rest: what separates two of them is not the pid file, which both may find
  absent, but the write lock the flush before the check takes.
* **Nothing is built on a question nobody was asked** (`QuestionsReachAPerson`)
  when the checkpoint is part of the plan, whatever the analyst assumed, a
  person left unanswered, or a withdrawal repeated; **an answer is not asked
  about again or overwritten** (`AnswersStand`), and is **one the decision it is
  attributed to gave** (`AnswersAreQuoted`).
  The first property has three exemptions: a person waived a failed step of the
  dialogue (`docs/demo.md:130`); a request that outlived a withdrawal of the
  checkpoint was answered while nothing waited for it (`early`), which does let
  the design past an open question; or the analyst itself recorded the question
  as `resolved` (`claimed`), which triage takes for a decision whoever wrote it.
  Without the last it fails (`KnobIsThePolicys`, section 5).
* **An inserted chain stands where the delta put it** (`ChainBetween`), also
  when another delta inserts at the same anchor later; a placed node is waited
  for by nobody (`NothingWaitsForPlaced`); composition alone makes no cycle
  (`CycleNeedsAnAuthor`).
* **Parallel sessions do not spoil each other's work** (`OwnWorkStands`) when
  their scopes, less what is frozen, are disjoint and their guards are asked,
  through timeouts and second attempts, in all files that no session wrote under
  a name judged for another file; of those it says nothing, and `StaysInScope`
  (section 5) shows why. The changeset **names everything its session changed**
  (`ManifestCoversChanges`), by whatever name, also for a write that was done as
  the time ran out; a session that listened **alone** is trusted only if its
  guard was asked (`AloneIsGuarded`), which fails as soon as two listen (section
  5); and a wave **is recorded, or the process dies** (`WaveEnds`).
* **A releasable bundle has green gates** (`ReleasableIsGreen`): though only the
  last verdict of a node counts, no retry, withdrawal, re-check or waiver on the
  way leaves a gated node that is neither green nor skipped by the plan. **The
  bundle and the metrics do not contradict each other** (`ReportsAgree`) in any
  state of a run.
* **A click has one fate** (`RecordsEachClickOnce`): kept in one row, refused by
  the full queue, refused by the datastore or gone with its process, with two
  drains on one queue as well. **A stop in time leaves nothing behind**
  (`StopDrains`), **returns** though it puts its sentinel without a timeout
  (`StopReturns`), and **no accepted click waits for ever** (`ClicksSettle`), also
  behind a thread its lifespan gave up on.
* **A retired link stays retired** (`GoneStaysGone`) for every request begun once
  its retirement was answered or its time had passed; **a code is issued once**
  (`OneLinkPerCode`), deletions and restarts included. **An analytics answer
  accounts for every click its SELECT found** (`AnswersAccount`), the short last
  interval and the values below the limit included.
* **`Retry-After` is a real answer** (`RetryIsServed`): who comes back when told
  to finds its token, though the reading it is charged with may be older than
  one the bucket has seen. **The sweep is invisible** (`SweepIsInvisible`) to
  callers that were not overtaken.

### Bounds

`MaxOps` commands: two or three are enough for every ordered pair or triple of
commands against every state of the run, and the known defects need at most
three. `RepairLoop`'s properties were also checked once at `MaxOps = 3`
without `docs` (6.0 M states). Attempts are bounded by the budgets of the plan's policies
between commands, so no bound is put on the engine. `docs` is in `RepairLoop` for the
wave of two: an outcome that blocks the run and one that stops it. `Hold` bounds waves,
deaths and resumes: two waves (one to block, one to go on), one death (to leave
a pid file and a RUNNING run), and two resumes, the fewest that race.
`Clarify` has two questions, so that a note can answer one and not the other,
both at the threshold, as one below it is asked about by nobody; the properties
were also checked once with a question below it or both there, every disposition
and two commands (141 k states), and with `assumption` and `resolved` and three
(2.39 M). `Compose` has two
insertions, in one delta or in two, at distinct anchors or the same, and one
override; a third insertion repeats what two can do to each other. `Sessions`
has two sessions, the fewest that overlap, one with a file it must write; two
more names of the other's file, one absolute and one that is judged as written; two
attempts, so that the second finds what the first left; and two writes or
denials per session, one more than it takes to be refused and go on. `Clicks` has
three redirects, the fewest that overflow a queue of two; two lifespans, the
fewest that leave a thread behind; three requests, so that a creation, a
deletion and a redirect of one code meet; `Limit` has two callers, the fewest
one of which is swept for the other, and a clock of six ticks: a window, in
which a budget of two is spent and refilled. Deadlock is checked in every run
but `Compose`, `Sessions`, `Clicks` and `Limit`, where an accepted or refused
plan, a recorded wave or a dead process, requests that were all answered, or a
clock at its bound, is the end: a parked run can always be resumed.

### Fairness

`RunConsole!Spec` has weak fairness of `Driver`: a process that drives a run
keeps going. It is an ordinary loop in one thread; the work it waits for ends
or raises, as every worker has a timeout. No fairness is assumed of `Resume`,
`Crash` or any command: nobody owes the run a decision. `DriverHold!Spec` has
weak fairness of each process's own steps, none of starts, deaths and stops;
`DriverEnds` therefore also shows that nobody waits for ever on the lock.
`AgentSession!Spec` has weak fairness of what the program itself does with each
session: begin it, open it, end it when `asyncio.wait_for` says so, collect its
files; and of `Record`. Of the agent nothing is assumed: it need never finish.
`Shortener!Spec` has weak fairness of the recorder only: the drain threads, which
loop without a condition and wait on the queue with a timeout; `pending.put`, which
goes on when there is room; and `join`, which has a timeout. None is assumed of
requests, lifespans or the datastore, which may refuse every batch. `RateLimit`
has none.

## 4. What TLAPS proves

The theorems are listed in `PROJECT.json`. Each holds for every value of the
constants that satisfies the assumptions its module names and, where one is
stated, the hypothesis of the theorem.

### The run (`RunProofs`, `EvidenceProofs`)

For every plan that satisfies `PlanAssumption` and `AcyclicAssumption`, every
policy, and every `MaxOps`:

| Theorem | States | Hypothesis on the plan |
|---|---|---|
| `InductiveHolds`, `TypesHold` | `Inductive`, `TypeOK` | |
| `FanoutCompleteHolds` | `FanoutComplete` | |
| `AskedIsAnswerableHolds` | `AskedIsAnswerable` | |
| `KeepsContractHolds` | `KeepsContract`: the run implements `RunContract` | |
| `FailureIsHandedOffHolds` | `FailureIsHandedOff` | |
| `GreenEvidenceStands` | all work upstream of a green bundle is done | `RaisedUpstream` |
| `EvidenceIsCurrentHolds` | `EvidenceIsCurrent` | `RaisedUpstream`, `NobodyIsAskedFirst` |
| `FanoutMatchesSourceHolds` | `FanoutMatchesSource` | `SourcesFirst` |
| `RepairPrecedesReentryHolds` | `RepairPrecedesReentry` | `OneRepair` |
| `RequiredWaiversStand` | the driver leaves required work a person waived alone | |
| `WaiverHoldsHolds` | `WaiverHolds` | `WaivedIsRequired` |
| `BuiltOnApprovalHolds` | `BuiltOnApproval` | `BindsQualified` |
| `RaisedQuestionsAreAnswered` | work that waits for the processing of a raised question starts after both | `AsksThrough` |
| `QuestionHoldsWorkHolds` | `QuestionHoldsWork` | `HeldByOne` |
| `GreenIsCurrentAt` | a green result of a node was computed from the versions there are, also while the run goes on | `ReadsNeeds` of the node |
| `GreenIsCurrentHolds` | `GreenIsCurrent` | `ReadsNeeds` of all that does work |
| `ReportsAgreeHolds` | `ReportsAgree` (of `ReportSpec`) | |
| `ReleasableIsGreenHolds` | `ReleasableIsGreen` (of `ReportSpec`) | `GatesAreJudged` |
| `AnswersStandHolds` | `AnswersStand` (of `DialogueSpec`) | |
| `AnswersAreQuotedHolds` | `AnswersAreQuoted` (of `DialogueSpec`) | `BindsNothing` |
| `AnswersPrecedeWork` | work that waits for normalize starts on questions a person answered or the analyst resolved (of `DialogueSpec`) | `AsksFirst` |
| `QuestionsReachAPersonHolds` | `QuestionsReachAPerson` (of `DialogueSpec`) | `AsksFirst`, `BuildersWait` |

`Inductive` is `Bookkeeping` and `OnlyTheWaveRuns`. `Bookkeeping`, on which the other
theorems rest, is the conjunction of `TypeOK`, `FanoutComplete`,
`AskedIsAnswerable`, `FailureIsHandedOff` and of four facts they need.
`FanoutComplete` alone is not inductive: a child could turn from PASSED to
something else by an outcome recorded later in the same wave, so
`WaveIsUndone` says that nothing in flight has a result yet, and
`GrownByOwner` that a fan-out waits only for nodes it inserted itself, which no
other action moves. `AskedIsAnswerable` needs to know that nothing but human
rows is ever asked about or bound (`PeopleAreAsked`): re-opening a superseded
approval must not find a row of another kind. `FailureIsHandedOff` needs
`HandoffsNumbered`: a handoff is about an attempt that was made, so the next
attempt's handoff is a new row. The proof has one lemma per action, and under
it one step per conjunct the action can disturb; what all outcomes of a wave
share (`ApplyPolicy`) is a lemma of its own. `OnlyTheWaveRuns` follows from it with
one more question of every action, what it starts (`PolicyStartsNothing`,
`OnlyDispatchStarts`).

`EvidenceProofs` needs the same question of every action, *what may a step do to
a row it is not about?*, and answers it once: every step that does something is
`GentleMove` (dispatch, settling, a crash: no verdict appears), `AnswerMove` (a
person answers), `ExpandMove`, `VerdictMove` (an outcome with its cascade and its
policy) or `WithdrawMove` (`StepMoves`). Each theorem then has five cases
instead of one per action. On top of `Bookkeeping` and of the rows each node can
have grown (`RowsGrown`):

* *The contract.* Every action is a step of `RunContract` or changes nothing it
  sees; the lemmas are one for each action (`DispatchStarts`, `BlockPuts`,
  `RecordWorkSeen`, `InvalidateWithdraws`, ...), over what a row says of a stage
  (`StageFacts`) and what becomes of the open questions when some are asked, asked
  again or closed (`QuestionsAsked`, `QuestionsReverted`, `QuestionsClosed`). Besides
  `Bookkeeping` it needs `HandoffsJudged`: what an approved handoff waives is work,
  never a checkpoint. Nothing is assumed of the plan.
* *Release evidence.* `EvidenceStands`: everything that does work upstream of a
  bundle that was cleared is PASSED or SKIPPED, while the bundle is green or
  ERRORED (a re-check may lift the error). It is inductive as nothing that is done
  can be in a wave, and a withdrawal of anything upstream makes the bundle STALE. A
  verdict, however, may raise optional work (`Raised`) far from its own node;
  `RaisedUpstream` says it does so only from upstream of the bundle.
* *Fan-out.* `SourceStands`: what a fan-out can expand was recorded by its source,
  and a source that is not `qualified` is done while its fan-out is green or in the
  wave, as it can only run again through a withdrawal, which reaches everything
  downstream. A `qualified` one reaches it through the cascade. `SourcesFirst` is
  what makes one of the two apply.
* *Repair.* `RepairOwed`: as long as the repair is owed, the node waits for a fix
  that is not done. The fix has no gate, so it cannot be waived, and is inserted
  only once (`OneRepair`): the insertion finds no row of an earlier one that
  PASSED.
* *Waivers.* `HandoffsJudged`: only what has a verdict is handed off, so what was
  waived is neither a fan-out nor a person; the driver wakes SKIPPED rows only
  when they are optional or children of a fan-out.
* *Approvals.* `Dated` (no decision is of the future, a binding names a version
  that has been recorded, and only checkpoints have bindings) and `Covered` (a
  green checkpoint has a decision that stands, and while a process drives the run,
  one of the versions there are). That a row with a decision has a standing one
  takes the latest of them by the least-number principle (`WFMin`), in place of an
  induction.
* *The optional question.* `QuestionFirst`, as long as neither the question nor its
  processing was refused: either nothing was raised, and then both are SKIPPED and
  nobody was asked; or the processing starts, and has a result, only once the
  question is PASSED (`AnsweredFirst`), and is PASSED, waived for good, or not yet
  skipped (`Processed`). Inductive it is because an escalation brings in both or
  neither (`RaisedTogether`), because a request without versions is never opened
  again (`DecisionsStay`), and because a failure is put to a person once
  (`PutOnce`): a second request could be refused after the first was approved, and
  the work be skipped with no waiver on the record.
* *Evidence that was replaced.* `ReadsStand`: what a node works from, or has a
  result of, is what there is, and is done, so it cannot record another version.
  It stops being done by a withdrawal or a cascade only, and a withdrawal reaches
  every node that waits for it while nothing is in flight.
* *Reports.* `LedgerKept` (a node's ledger has an entry for each attempt, and its
  last one is what the row says), from which it follows that the two reports
  agree; for a releasable run also `SkippedIsSilent` (a closed handoff has no open
  question) and `CompletedIsDone`.
* *Answers.* `RegisterMoves` says what a step makes of the register: a new one, a
  triage of it, or one with the answers of the latest decision. A resolved question
  survives the last two (`AnswersStand`). An answer stays quoted as a decision that
  names no version is never changed, by no retry, withdrawal or re-opening
  (`DecisionsStay`, of every action of the run).
* *The dialogue.* `InOrder`: nothing of it is under way before what it waits for is
  done, unless triage was waived, and the checkpoint is never waived; a withdrawal
  takes the later steps with it. From it, that the register is never new under a
  judged triage or a green normalize, and so `Heard`: a judged triage left every
  question at the threshold open or resolved, a green normalize left none open, and
  what is resolved was answered by a person or written so by the analyst
  (`Settled`). `WaveReady`: what a wave needs is satisfied when
  it starts.

The hypotheses are about plans, and the loader checks none of them. Nothing is
assumed of the analyst: it may write any disposition. None of them can be left out:

| Hypothesis | Plans that have it | Without it |
|---|---|---|
| `RaisedUpstream` | all instances, the shipped plans | `w` beside `opt -> release`, where `w` may raise the optional `opt`: the bundle is green over the `opt` that was skipped when `w` wakes it |
| `NobodyIsAskedFirst` | all instances; not the shipped plans, for which `GreenEvidenceStands` is stated | a checkpoint withdrawn while it waits has two requests; one is approved, and when the run is COMPLETED the other is rejected under a green bundle |
| `SourcesFirst` | all instances | `design -> approval -> fan-out`, the design retried: the approval left over lets the fan-out run beside the design. Between `design` and `impl` the shipped plans put a checkpoint and tests, so the theorem does not cover them unless the output is `qualified` |
| `OneRepair` | all instances, the shipped plans (two attempts) | `RepairSkipped.cfg` |
| `WaivedIsRequired` | `RepairLoop`, `Checkpoint`; in the shipped plans all gated nodes but `normalize-clarification` and the children of `impl`, which is why `RequiredWaiversStand` is stated per node | `FanoutUnwaived.cfg` |
| `BindsQualified` | all instances that pass; not the shipped plans | `CheckpointReasked.cfg` |
| `AsksThrough`, `HeldByOne` | `Triage`; `plans/greenfield.yaml` has `AsksThrough` and its design waits for the processing, but the nodes behind the design wait for it through the design alone, which is why `RaisedQuestionsAreAnswered` is stated per node | a node that raises the processing alone: it is done before the question exists; a checkpoint that needs the triage, which is then withdrawn behind a waived processing; a checkpoint that binds what is re-derived; a design that needs the triage only |
| `ReadsNeeds` | of all that does work: `RepairLoop`; in `plans/greenfield.yaml` triage and the release bundle have it, while the design and the acceptance tests read the register past what they wait for, which is why `GreenIsCurrentAt` is stated per node | a node that reads `u` behind a waived `s`: when `u` is withdrawn, both run in one wave; an optional source that is raised late; a `qualified` node whose cascade makes the source stale while the reader is in the wave |
| `GatesAreJudged` | all instances, the shipped plans | a gate on a checkpoint, which the loader accepts and nothing evaluates |
| `BindsNothing` | all instances, the shipped plans | a checkpoint that approves what triage recorded: the decision is re-opened under the register it answered, and the next answer takes its place |
| `AsksFirst` | `Clarify`; `plans/ambiguous.yaml` | `ChangeUnanswered.cfg`, `RaisedAgain.cfg` |
| `BuildersWait` | `Clarify`; in `plans/ambiguous.yaml` the design waits for normalize, while the acceptance tests and the docs wait for it behind others that a person may waive, which is why `AnswersPrecedeWork` is stated per node | work that reads the register beside the dialogue |

### The gate, the hold, the sessions

For every set of checks (`GateProofs`): `GreenByTheGateHolds` and
`GreenOverNoIsArguedHolds`, from `GateInvHolds`; `AnsweredIsKeptHolds`, of every
step of `Recheck`; and `RaisedIsNeverGreenHolds` for a gate that has a required
check, or only alternatives, that look at what the work reported
(`NeedsAFact`; `GateWorkerRaised.cfg` shows a gate of predicates passing on the
artifacts of an earlier attempt).

For any number of processes, waves and deaths (`HoldProofs`):

* `RefusedWhileDrivenHolds`: the pid file names nobody, a process that drives the
  run or a dead one (`HoldNamesDriver`), so only a living driver refuses a
  resume, also beside the process of `run`.
* `OneDriverHolds`: of two resumes of a run at rest (`TwoResumes`) at most one
  dispatches. `DriverInv` says who holds the write lock between the flush and the
  head of `advance`, and that a resume which takes no lock, having found the run
  RUNNING, is the last to come, with the other past its head (`LockedOrLast`).
  A third resume breaks it: two may find the RUNNING of a first that has ended by
  the time they look at the pid file. So does the process of `run`
  (`RunUnheld.cfg`).

For any number of sessions, files, names, scopes, threads and attempts
(`AgentSessionProofs`): `SessionTypesHold`, `ManifestCoversChangesHolds`,
`OwnWorkStandsHolds` and `AloneIsGuardedHolds`, from `SessionInvHolds`. The
invariant adds what holds between the steps: a permission is used only while
its session is open (`AskedWhileOpen`), the guard remembers a write before it is
done (`GuardRemembers`), a name that is permitted is one the node's patterns
match, and a file that is changed is in the scope or in `misnamed`
(`ScopesKept`), and who has been alone since it began to listen is the one the
process's warnings go to (`HearsItself`). The last is the reason two listeners
break it: leaving the block restores what it *found*, not what is installed.

### The service

For any number of requests, codes, lifespans, and any queue and batch size
(`ShortenerProofs`):

* `RecordsEachClickOnceHolds`: `Spec => Log!Spec`, every step of the service is a
  step of `ClickLog` or changes nothing of it. The mapping reads a click's fate
  off the queue, the batches and the rows; `OnePlace`, its invariant, says that a
  click is in one position of the queue or one batch, or has ended in one way.
  Without it a batch stored twice would map to a click kept from nowhere.
* `StopDrainsHolds`: `Spec => []StopDrains`. While no join of the process was
  overdue, the thread of the lifespan is the only one alive, and behind its
  sentinel nothing is queued, as the server has no request left to record one
  (`Shutdown`): `StopInv` follows the sentinel from `put` to the end of the thread.
* `OneLinkPerCodeHolds`: a code that names a link names it for ever; the insert of
  another is refused, whatever deletions, expiries and restarts come between.
* `GoneStaysGoneHolds`: a redirect that began when its link was already gone is
  never answered with it. `LateInv` follows it from its beginning to its row and
  its answer: a link that was retired or has expired stays so.
* `AnswersAccountHolds`: the series and each breakdown of an analytics answer sum to
  the clicks their SELECTs found, for any clicks, moments, columns, limit above zero
  and served window. `AnswerInv` says that an answered request has one part for
  each SELECT and that each part is of the window; `FiniteInv`, that what is stored
  is finite, as batches grow by one click at a time. Of what they compute: a moment of the
  window has an interval (`SlotInRange`: `counts[...]` is never an index error),
  the intervals and the groups share no click and leave none out
  (`SeriesAccounts`, `BreakdownAccounts`), and there is an order by count to rank by
  (`RankingExists`). The sums are folds, and `SumOfParts`, that the sizes of disjoint
  parts add up, would be an induction over the parts. The proof takes the
  smallest set of parts for which it fails (`FS_StrictSubsetOrderingWellFounded`,
  `WFMin`) and contradicts it by the equation of the fold, `SumOfUnion`.

For any callers, threads, window, budget, second and size of the sweep
(`RateLimitProofs`): `RetryIsServedHolds` and `SweepIsInvisibleHolds`, from
`RateInvHolds`. The invariant compares each bucket with one that is never swept
(`InStep`) and says of each promise that the bucket will hold a token at that
time (`Promised`); it needs that rounding up to whole seconds never shortens a
wait (`RetryLongEnough`) and that nobody is ahead of the clock (`Bounded`).

### Composition

For any bases, insertions, overrides and number of deltas (`ComposeProofs`):

* `ChainBetweenHolds`: every way by which a node that needed the anchor waits for
  it passes every node of the chain put after it. `ChainHolds`, the invariant,
  gives for each node `m` of a chain a set of nodes that holds what was put
  behind the chain and not the anchor, and that no `needs` leaves but by `m`. A
  later splice keeps one: its new nodes join the side of their anchor
  (`SpliceSeparates`). It also says that what was put behind a chain still reaches
  all of it and the anchor. Without that, the anchor could be dropped while
  dependents are left, and come back elsewhere under the old id.
* `CycleNeedsAnAuthorHolds`: a set of nodes in which each waits for another of the
  set, in the composed mapping, holds such a set of the mapping before
  (`SpliceIsAcyclic`): a chain is entered at its anchor only and left to what
  needed the anchor.
* `NothingWaitsForPlacedHolds`: `PlacedHolds` adds that a placed node is still
  there, so no later insertion may bring its id again, with something needing it.

What a chain does along its length is an induction in each case; the proofs take
the least or the greatest position at which a claim fails, by
`LeastNumber` and `GreatestBelow`, instead.

All three need that no base names a node that only a delta brings
(`BasesResolve`), and the first that no placed node does (`PlacedResolve`). The
shipped plans have both: a base is a plan of its own, whose references resolve,
and the one placed node of `plans/brownfield.yaml` has `needs: []`. `load_plan`
checks references on the composed mapping only, and TLC breaks `ChainBetween` and
`CycleNeedsAnAuthor` for a base that names what a delta brings, and `ChainBetween`
for a placed node that names a chain inserted after it: the name is a way around
the splice that was there first.

### Only model-checked

* Liveness: `SessionEnds`, `DriverEnds`, `WaveEnds`, `StopReturns`, `ClicksSettle`.
  The prover has no rules for fairness.

Every invariant and action property of a passing run is stated by a theorem,
where one is named in the tables above under its hypothesis.

## 5. Where the code and its text disagree

The property of a run TLC must find violated; the quote and its line are in
`PROJECT.json`.

| Run | What the trace shows |
|---|---|
| `FanoutStale` | a design that is withdrawn and runs again keeps a child's name; the child stays green, built from the old design, and the run completes |

Further configurations reproduce behaviour worth a reader's attention; they are
not part of the listed runs:

* `GuardUnseen.cfg` (`MCSession`, `TrustedIsGuarded`): two sessions open at once;
  the warning that the SDK will not ask the guard of one is heard by the other,
  or by nobody, and the unguarded one is trusted. `_refuse_if_guard_was_shadowed`
  exists because "a warning on stderr is not a control"
  (`workers/codeagent.py:114-115`), but `warnings.catch_warnings` (line 206) swaps
  state of the whole process.
* `WithdrawalAnswers.cfg` (`MCClarify`, `ResolvedByApproval`): a checkpoint is
  withdrawn while it waits and its old request approved; `_decision_text` takes
  the last decided row, so the note of the withdrawal becomes the answer to every
  question ("a human answered it", `artifacts.py:42`).
* `ReportedHealthier.cfg` (`MCReport`, `LooksNoHealthier`): a `rollback` policy
  leaves an ungated node ERRORED and the run ROLLED_BACK; after a `resume`
  `_settle` ends it COMPLETED, no gate blocks, and the bundle says releasable,
  though it "cannot look healthier than the run it describes"
  (`evidence/bundle.py:205-206`).
* `IncidentHidden.cfg` (`MCReport`, `IncidentsAreReported` and `RetriesAgree`, with
  `-continue`): a node that failed, passed and failed again counts as recovered,
  as only its first incident is looked at, though unrecovered ones are "reported
  separately" (`metrics/collect.py:9`); and the bundle's `retries` takes rows that
  never ran off the attempts and can be negative (`evidence/bundle.py:191`).
* `RecorderOverlaps.cfg` (`MCShortener`, with `-continue`). `JoinedIsDrained`: after
  a join that timed out, the next lifespan's thread takes the sentinel meant for
  the first, or the other way round; a thread is joined in time while its clicks
  still wait. `PartsAgree`: a batch stored between two SELECTs of one analytics
  answer is in the breakdown and not in the series.
* `SweptEarly.cfg` (`MCRateLimit`, `ForgottenIsFull`): a bucket charged with the
  reading of an overtaken request holds less than one window fills, and is
  forgotten, hence full, all the same.
* `FanoutUnwaived.cfg` (`MCPlans`, `WaiverHolds`): a child of a fan-out waived
  past by a person is put back to PENDING when the fan-out expands next; a
  fan-out cannot be waived past, though the handoff says so
  (`policy/failure.py:81-96`).
* `RepairSkipped.cfg` (`MCPlans`, `RepairPrecedesReentry`): with three attempts
  allowed the second repair is never run, as the fix row already PASSED; "the
  failed node re-enters only after the fix has run" (`engine/scheduler.py:664`)
  holds for the two attempts of the shipped plans.
* `GateWorkerRaised.cfg` (`GateRecheck`, `RaisedIsNeverGreen`): a gate of
  predicates only accepts an attempt whose worker raised, on the artifacts of an
  earlier one ("the gate will ERROR", `engine/scheduler.py:270-271`).
* `CheckpointReasked.cfg` (`MCPlans`, with `-continue`): a checkpoint that was
  answered asks again.
  `WaitingIsNotFailed`: after `invalidate` of an approved checkpoint the run is
  BLOCKED, but its dependents are STALE, not PENDING; a `resume` then makes
  `_settle` end the run FAILED although the checkpoint's question is open.
  `ApprovalAnswersTheQuestion`: a withdrawn checkpoint keeps its old request open,
  and `approve` decides that older request, which names versions that were
  replaced. `BuiltOnApproval`, with the names the shipped plans bind: the waiting
  checkpoint and the design are withdrawn, the old request is approved, and
  design and scaffold run in one wave; the scaffold is then retried under the
  approval of a version just replaced. "If either artifact is re-derived, this
  approval reverts to pending" (`plans/greenfield.yaml:138-139`) needs the cascade
  that never fires for these names.
* `ChangeUnanswered.cfg` (`MCClarify`, `QuestionsReachAPerson`): the `design` of
  `plans/brownfield.yaml` waits for triage only (line 106), so work that reads
  the register starts, after the sign-off, on questions nobody answered; of such
  a plan `plans/greenfield.yaml:61-66` says "clarification is theatre".
* `RaisedAgain.cfg` (`MCClarify`, with `-continue`). `QuestionsReachAPerson`: with an
  optional checkpoint, a withdrawn intake raises new questions, but the checkpoint
  and `normalize` are PASSED and `_activate` wakes SKIPPED rows only.
  `KnobIsThePolicys`: intake records a question at the threshold as `resolved`, which
  the schema and `artifacts.py:39-43` admit; triage skips it (`policy/triage.py:42-43`)
  and the design starts on it, though "the knob that calibrates autonomy cannot be
  set by the agent it governs" (lines 40-41). Only `prompts/analyst.md` asks for
  another disposition.
* `RunUnheld.cfg` (`DriverHold`, with `-continue`). `OneDriver`: `run` takes no
  hold, so a resume beside it drives as well. `NothingStartsAfterStop`: a driver
  between waves does not see a committed `stop`, dispatches the next wave, and
  overwrites STOPPED.
* `WaveLost.cfg` (`MCSession`, with `-continue`). `WorkIsRecorded`: a declared file
  that is no UTF-8, or a directory, raises past `WorkerError` and through
  `pool.map`; the outcomes of the sessions beside it are lost with it, though
  "every outcome of the wave is recorded" (`engine/scheduler.py:174`) and their
  files stay. `DenialsReachTheRecord`: the denials of a session that times out go
  nowhere ("a denial is both refused and recorded", `workers/codeagent.py:64-66`).
  `StaysInScope`: a relative name is judged as it is written
  (`workers/codeagent.py:77-78`), whatever file it denotes, so a file outside the
  scope, or a frozen one, is changed under a name the patterns match; "`impl:api`
  cannot write `impl:storage`'s directory because the runtime refuses" (lines 9-10)
  holds of files named as the guard names them. `DeclaredIsWritten`: a second
  attempt that writes nothing is taken at the file the first one left; the error
  for a missing file speaks of a file "which the session did not write"
  (`workers/codeagent.py:423-427`), but only its presence is looked at.

## 6. Limits of what holds

* `GreenIsCurrent` does not hold with fan-outs (`FanoutStale`) or with a
  checkpoint between the withdrawn result and its reader, whose old request may
  be approved (`CheckpointReasked`).
* `WaiverHolds` does not hold for the children of a fan-out (`FanoutUnwaived`),
  nor for an optional node re-activated by a triage that runs again.
* `OneDriver` holds for two resumes of a run at rest, among any number of processes.
  A third resume, a run found RUNNING, or the process of `run` breaks it.
* With the names the shipped plans use, `BuiltOnApproval` fails for work behind a
  checkpoint that may be retried (`CheckpointReasked`), and `FanoutMatchesSource`
  where a checkpoint stands between a fan-out and a source that may be retried.
* The hypotheses of the theorems of section 4 are requirements on a plan that
  `load_plan` does not check.
* Not modelled: reuse of a pid by another program; SQLite's lock timeout
  (a driver that meets it ends like a crash); file contents; the inside of the
  workers other than the coding agent; commands beside a live driver other than
  `stop`.
* `AgentSession` enters and leaves `catch_warnings` in one step each, with the
  look at the list; the probes of `verify` are left to the verdict `RunEngine`
  chooses; a session that ends is one that ended by itself, by the clock or by
  an error of the SDK. `OwnWorkStands` says nothing of scopes that overlap, nor of a
  file written under a name judged for another (`StaysInScope` in `WaveLost.cfg`).
* `QuestionsReachAPerson` does not hold for a checkpoint that is optional and
  ran before (`RaisedAgain`), nor for the brownfield plan (`ChangeUnanswered`), and
  says nothing of a question the analyst recorded as resolved (`KnobIsThePolicys`).
* `QuestionHoldsWork` is about work that waits directly for the question, not
  about work behind a node that was waived before the triage was withdrawn.
* The theorems of `PlanCompose` are about bases (and placed nodes) that name no
  node only a delta brings.
* `PlanCompose` does not model profile substitution, node defaults, or that a
  rollback's restore point must declare outputs.
* `RunReport` leaves out times, tokens, stages, fleets and waiver records. The
  bundle stored as an artifact is assembled while the run is RUNNING, so its own
  `is_releasable` is false; the one that matters is read later, as modelled.
  `ReportsAgree` says nothing of waived nodes, which are red in both.
* `Shortener` models neither URL validation, the health route, nor the classes of
  user agents. SQLite's isolation is that of one statement: no SELECT begins a
  transaction (as `sqlite3` behaves by default). `ClickLog` promises no click that
  a full queue, the datastore or the end of the process took.
* `RateLimit` takes `time.monotonic` to be monotone and refills exactly; the code
  computes with floating point, and a wait rounded to a second hides the error.
* `invalidate` of an inserted node raises in the code and is no action here.

## 7. Plan

Done: the core (`FailurePolicy`, `PlanGraph`, `RunEngine`, `RunConsole`,
`RunProperties`, `RunContract`), the gate (`GateRecheck`), the hold (`DriverHold`), the
dialogue (`Clarification`), composition (`PlanCompose`), a wave of coding agents
(`AgentSession`), the reports (`RunReport`), the service (`ClickLog`,
`ClickRecorder`, `ClickSummary`, `Shortener`, `RateLimit`), the proofs named
above.

Next, in this order:

1. *Commands beside a live driver*: compose `RunConsole`'s commands with a
   driver whose session caches what it read; which commands are lost or undone.
2. *`Baseline`* (`policy/baseline.py`, `rollback`): a restore that leaves the
   target at the baseline, partial failures included.
3. *`Replay`* (`workers/replay.py`), *`AgentLoop`* (`workers/agent.py`):
   record and replay; bounded repair of malformed output.

Abstract specifications worth stating: a mutual exclusion for `DriverHold`.
`RunContract` and `ClickLog` are the ones stated so far.

Theorem worth proving next: `QuestionHoldsWork` for nodes that wait for the
processing through others.
