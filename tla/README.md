# HAAO, formally

This directory holds TLA+ models of HAAO's concurrent core and of its web page,
the TLC configurations that check them on small instances, and theorems about
them that TLAPS checks for every instance. Paths below are relative to `src/`;
where no directory is given, a `.py` file is under `src/orchestrator/` and a
`.ts` or `.tsx` file under `src/frontend/src/app/` (components in its
`components/`).

1. [The system](#the-system)
2. [Modules](#modules)
3. [How a model corresponds to the code](#how-a-model-corresponds-to-the-code)
4. [Runs](#runs)
5. [Fairness](#fairness)
6. [Proofs](#proofs)
7. [Disagreements between the code and its documents](#disagreements)
8. [What is not modelled](#what-is-not-modelled)
9. [Plan](#plan)

## The system

HAAO is a board on which a Product Owner (PO) turns requirements into tickets.
A local model executes a ticket, a cloud model in the role of Tech Lead audits
the result, and the PO accepts it. It is one FastAPI process over one SQLite
database, background worker threads in the same process, and, in the
split-plane deployment, runner daemons on customers' machines.

| Component | State it keeps | Operations | Interacts with |
|---|---|---|---|
| Runner control plane (`db/sqlite.py` RunnerRepository, `api.py` /runner) | `runner_tokens`, `runner_jobs`, `run_events` | register, revoke, enqueue, heartbeat, lease, events, complete, release | daemons, over HTTP; the lease columns of a job are the shared state |
| Customer-side runner (`runner_client/`) | the state file, `_current_job_id`, the call in progress | register once, heartbeat, lease, execute, report, release | control plane |
| Ticket state machine (`state_machine.py`, `models/ticket.py`) | none: functions of a ticket document | transition, record_test_failure, normalisation on save | everybody who writes a ticket |
| Ticket endpoints (`api.py`, `diff_review.py`, `manual_ticket_flow.py`) | the `tickets` table | create, approve, accept, reject, split, abandon, assign model, retry, rerun, escalate, execute, cancel, diff approve/reject, merge, revert, move, delete, pr | the same rows as runs and audits |
| Execution loop (`execution_loop.py`) | the document it read, the worktree | prepare, model, write, tests, retry, fall back, block | registry, worktrees, rows |
| Review and escalation (`review_flow.py`, `escalation.py`) | the document it read | audit, handle a blocked ticket | rows |
| Auto-run workers (`auto_worker.py`, `auto_orchestrator.py`) | worker tasks, stop event | start, stop, tick, `run_once` | everything above |
| Ticket leases (`db/sqlite.py`) | the lease in a ticket's metadata | claim, release | workers |
| Registry, worktrees, recovery (`execution_registry.py`, `execution_safety.py`, `crash_recovery.py`) | a dictionary of running executions; directories | register, cancel, unregister; add, remove; recover | runs, workers |
| Git flow, pull requests (`git_flow.py`, `pr_flow.py`) | branches; git metadata of a ticket | commit, merge, revert; open, gate | endpoints, dependency gate of the leases |
| Requirements (`requirements_flow.py`) | `requirements` | preview, confirm, discard | creates tickets |
| Evals (`evals.py`) | run records in memory | start, carry out, list, restart of the server | the eval panel |
| Web: requests (`api/client.ts`, `api/authToken.ts`, `AuthPrompt.tsx`, `sso.py`) | the token store, the one dialog, the calls that wait for it | fetch, refuse, ask, retry; sign in with a provider | every part of the page |
| Web: board (`App.tsx`, `api/adapter.ts`) | the list of cards, the project it is of, demo or connected | load, poll, change at once and take back | ticket endpoints; the graph of the leases |
| Web: ticket panel (`TicketDetail.tsx`) | the ticket shown, drafts, an armed confirmation | open, edit, confirm, run, act | the board replaces the ticket under it |
| Web: composer (`RequirementComposer.tsx`) | the step, the prompt, the preview, its cards, the form and templates | decompose, edit, confirm, discard, save a template | requirements; the board |
| Web: settings (`ModelsPage.tsx`, `ModelCard.tsx`) | values read once, edits, saves under way | edit, save, take back, read again | App.tsx holds a copy |
| Web: chat (`ChatPanel.tsx`, `App.tsx`) | messages, the draft and its files | load, poll, send, upload | the project shown |
| Web: auto-run control (`WorkerPoolControl.tsx`, `App.tsx`) | status, the effect that binds the pool to a project | start, stop, rebind, poll | workers; other tabs |
| Web: projects (`ProjectSwitcher.tsx`) | the list, the selection, two panels | create, change, delete, seed, select | everything shown of a project |
| Web: activity, inbox, views, evals (`ActivityPage.tsx`, `InboxPage.tsx`, ...) | what each shows and the cursor it asks from | load, poll, mark, open | events, notifications, run records |
| Web: shell (`App.tsx`, `NewTicketModal.tsx`, `OnboardingWizard.tsx`) | the page, the overlays and their order | open, save, close, Escape | all of them |
| The rest | see PROJECT.json | | |

What is hard about it:

* **Whole-document saves.** A ticket is one JSON document. Executions and
  audits read it, spend minutes in a model or in the tests, and save a document
  derived from what they read, while the endpoints go on serving the PO; so do
  diff approval, merge and revert with git in between. Every write in between is
  silently undone, or must be shown harmless.
* **Threads that cannot be stopped.** A worker's tick runs in a thread pool.
  Stopping the workers cancels the asyncio task, not the thread; a restart
  begins while the old thread still executes a ticket under the same worker id.
* **Leases that nobody renews.** Ticket leases last `lease_ttl_sec`, and an
  execution may last longer. A tick that finds the workspace dirty keeps the
  lease it just took.
* **Check, then act.** `complete` and `events` check the lease in one statement
  and write in another. The acceptance gate is asked before a branch is pushed
  and a provider called, and not again when the pull request is recorded.
* **A lossy network and dying processes** between the daemons and the control
  plane; a server that may die between any two saves.
* **Calls nobody cancels.** The page is one thread, but every `await` lets it go
  on: the user changes project, closes the panel or presses again, and the
  answer comes in whatever order into whatever is shown by then. Some parts
  compare a sequence number or a project before they take an answer, some do not.
* **Numbers of one's own.** Tickets and requirements are numbered per project,
  and the panels know theirs by the number.
* **Two writers of one screen.** Polls replace what a change has just shown
  before the server knows of it; a refused change puts back what it remembered.
* **Decisions saved before a move that may be refused.** `approve`, `accept`
  and `reject` save first and then ask the state machine, which may answer 409.

What makes each component correct is stated by its properties (see
[Runs](#runs)): a job goes through queued, leased and terminal, and only its
owner ends it; at most one daemon works on a job; a revoked or dead daemon does
not keep one; nothing reaches a human unverified; the budget bounds the work; a
run ends; a closed ticket stays closed; the two human gates hold; a dependency
is merged before its dependents run; leases of overlapping tickets do not
overlap; and everything that was queued gets done. Of the page: what it shows is
the server's, of the project it names; what the user does reaches the ticket or
project it was meant for, once; a late answer does no harm; nothing is busy for
ever; and what polls catches up.

## Modules

| Module | Models | Uses |
|---|---|---|
| `RunnerJobProtocol` | the abstract life of a job: absent, queued, leased (running or expired), terminal | |
| `RunnerControlPlane` | the server's side, each request in a thread of its own | implements `RunnerJobProtocol` |
| `RunnerControlPlaneProofs` | theorems about `RunnerControlPlane` | TLAPS |
| `RunnerFleet` | the daemons and the network, composed with the control plane | extends `RunnerControlPlane` |
| `RunnerFleetProofs` | theorems about `RunnerFleet` | TLAPS, `RunnerControlPlaneProofs` |
| `TicketStates` | statuses and legal transitions | |
| `TicketLifecycle` | one row of the tickets table under all its writers: the PO, a run, an audit, a git command, a pull request under way, recovery, crashes | extends `TicketStates` |
| `TicketLifecycleProofs` | theorems about `TicketLifecycle` and the cards of `WebTicket` | TLAPS |
| `WorkerPool` | which thread executes which ticket: workers, leases, registry, worktrees, recovery | |
| `WorkerPoolProofs` | theorems about `WorkerPool` | TLAPS |
| `WebBase` | projects and calls, which the modules of the page share | |
| `WebAuth`, `WebSso` | refused calls and their dialog; signing in with a provider | `WebBase` |
| `WebTicket` | what a card shows and offers, as functions of a row, against the endpoints | extends `TicketLifecycle` |
| `WebBoard` | the list of cards, its loads, polls and changes | `WebBase` |
| `WebGraph` | the dependency graph: the endpoint's two readings against claims and releases, merged into the cards | |
| `WebDetail` | the panel of one ticket while the ticket under it is replaced, and the page turned to another project | `WebBase` |
| `WebComposer`, `WebReview` | the composer's steps with the requirements' rows; the cards of a preview | `WebBase` |
| `WebForm`, `WebTemplates` | the form's target and what is detected for it; its templates | `WebBase` |
| `WebSettings` | settings shown before they are saved, drafts, lists read again | `WebBase` |
| `WebChat`, `WebChatForm` | messages; the draft and its files | `WebBase` |
| `WebWorker` | auto-run as tabs start, stop and rebind it | `WebBase` |
| `WebProjects` | the selection, the switcher's panels, creation and deletion | `WebBase` |
| `WebActivity`, `WebInbox`, `WebViews` | event streams, notifications, and panels that only read | `WebBase` |
| `WebEvals` | eval runs in the server with their baselines, and the panel | `WebBase` |
| `WebShell` | pages and overlays | `WebBase` |
| `WebLateProofs` | theorems about late answers and eval baselines | TLAPS, extends `MCWebPage` |
| `WebOwnProofs` | theorems that what the user does stays with its ticket or project, and that nothing waits for nobody | extends `WebLateProofs` |
| `WebOnceProofs` | theorems that a press counts once and that choices hold | extends `WebOwnProofs` |
| `WebShownProofs` | theorems that what the page shows is so, or was, and that every part keeps its types | extends `WebOnceProofs` |
| `MCRunnerControlPlane`, `MCRunnerFleet`, `MCTicketLifecycle`, `MCWorkerPool` | the values of the constants for TLC | |
| `MCWebPage`, `MCWebCatchUp` | the parts of the page side by side: a behaviour looks at one part | the `Web` modules |

`TicketLifecycle` answers what happens to a ticket whatever order its writers
come in, and lets any thread take it. `WorkerPool` answers who takes it, and
reduces what happens to it to a few statuses. They meet at one place: a run in
`WorkerPool` that fails its tests again and again is ended by its budget, which
is `TriesBounded` of `TicketLifecycle`.

The parts of the page share no state that any of their properties relates: each
keeps its own copy of the project shown, since what couples them is that it may
change under them at any time. `MCWebPage` therefore puts them side by side, and
`PartsNext` moves one of them. `WebTicket` is checked within `TicketLifecycle`
(`BoardIsTrue` of `lifecycle_gates`): in every reachable row, what a card offers
is what the server allows.

Definitions whose comment begins with *Slip* are variants of the definition
below them with a plausible mistake (a dropped condition, an off-by-one, a
missing reset). No specification uses them: replacing the definition by its slip
must make TLC report the property the slip is paired with, which shows that the
property depends on the code.

## How a model corresponds to the code

**RunnerControlPlane.** `jobs` is `runner_jobs` in the order of `created_at`;
`ttl` is the number of ticks until `lease_expires_at`, zero once it has passed
(a lease with none left is expired, as `lease_expires <= now` is in
`require_active_lease` and in `lease_next_job`). `token` is `runner_tokens`.
`handler` holds the request each server thread is serving: `Receive` is the
arrival and `_require_runner`, `Heartbeat`, `LeaseNextJob` and `ReleaseJob` are
the one-transaction endpoints, `CheckLease` followed by `CompleteJob` or
`AppendEvents` the two-statement ones, `Respond` the response. `complete_job`
updates by owner and does not look at status or expiry again, and neither does
`CompleteJob`. The repository's second authentication in `heartbeat` and its
update are one step. `events` keeps which runners wrote into a job's log, not
what they wrote; `grantees` is a history variable.

**RunnerFleet.** A daemon's `pc` is the transport call its thread is in, or
`execute`. A call is `Send`, the server's steps, and `GetReply`; 401 raises at
once, every other failure is tried again until `max_retries`. Exceptions inside
the `try` of `run_once` lead to the error report (`error_events`,
`error_complete`), others to the `finally` of `run_forever`, which releases the
job on record (`Leave`). Faults: `LoseRequest`, `LoseResponse`, `Timeout` (the
server goes on with a request nobody waits for), `Interrupt`, `Kill`, a restart
(`Start` with the state file in place) and `RevokeRunner`. The executor is one
step that returns or raises. The history variable `late` records that an
execution outlived its lease or a request its caller.

**TicketLifecycle.** `tickets` is the table, a row reduced to the fields some
condition reads: `status`, `needs_approval`, `attempts`, the position of the
assigned model in the fallback chain (`OffChain`, 0, for a cloud model or a local
one that is not in it, which falls back to the first of the chain), the result's
outcome, the audit's verdict, whether `accepted_by`, `escalation_handled_by` and `abandoned` are set, who a
blocked ticket is escalated to, and whether a branch, a merge commit and a pull
request are recorded. `run[t]` is the execution in flight with the document it
will save (`snap`), `audit[t]` the audit likewise, and so is `command[t]`, a diff
approval, a merge or a revert: `ApproveDiff`, `Merge` and `Revert` read the
document and leave the rest to git, `DiffApproved`, `BranchMerged` and
`MergeReverted` save it, or `CommandFails`. `pull[t]` is a pull request under
way: `OpenPr` and `AcceptByPr` ask the gate of the document they read, here kept
in `snap`, and call the provider; `StorePr` records the result on the row as it
is by then; for `accept`, `AcceptStored` then saves the acceptance and moves the
ticket. Without an integration `Accept` does so at once. A step is the code between
two points where something slow happens: `StartRun` up to the model call,
`BeginTests` from the written files to the tests, `TestsPass` and `TestsFail`
from the test result to the last save. `Saved` is the normalisation every save
performs (an `abandoned` document keeps its status), `Moved` the transition a
handler attempts after a save that stays when the transition is refused.
`Cancel` of a registered run only sets its flag; the endpoint also removes the
worktree, whose effect on the run is a `RunError`.

**WorkerPool.** A thread's `pc` is where its tick is in `run_once` and
`run_ticket`; `leaving` is the stop event as seen by that thread. `Claim` is
`claim_next_ready_ticket` (one `BEGIN IMMEDIATE` transaction) followed by the
fallback to the first ticket in progress, which takes no lease. `Recover`
removes the worktrees of every ticket in progress or testing and requeues those
in testing that are not registered. `Save` writes the row the run remembers,
lease included. `parked` stands for every status in which a human or an
auditor has the ticket. `Mishap`s are counted, so that each run can bound them.

**The web page.** An action is the code between two `await`s, with the effects of
the render it causes, which run before the next event. `c \in Calls` is a call
of `client.ts` under way, as a record of what the handler that made it still
holds (its closure: the project, the ticket, the earlier value, a sequence
number). It is `sent`, then the server's handler runs (`Serve...`), then the
answer is taken (the actions named after what follows the `await`), in any order
between calls. A call may fail before or after the server acted. `Restart`,
another tab and another user appear as changes of the server's state.

* `WebDetail`: `shown` is the number of the ticket on the panel and `turnedTo` the
  project the page is at. A replacement may be another project's ticket of the
  number, since the effects that reset the panel depend on the number alone
  (`TicketDetail.tsx:115`). `typedOn` and `armedOn` are the ticket and project a
  draft was begun or a question asked on, `fetch` the requests for the checklist,
  of which the last is heard; `adrift` records that the project changed under
  the open panel (`Turn`), or that the list it was opened from was not that of
  the project yet.
* `WebBoard`: `server` is the project's tickets by version, `board` the cards,
  `request[c]` the call. A poll and a load replace the list, a change shows
  itself at once and a refusal puts back the card it remembered.
* `WebGraph`: one refresh is three readings (`ReadTickets`, the endpoint's own
  reading of tickets, then of leases), with claims and releases in between.
* `WebComposer`: `row[p][i]` is the requirement as `requirements_flow.py` keeps
  it, `ask[c]` the call; decomposing reads, waits for the model and saves.
* `WebSettings`: `group` is the settings a behaviour looks at (two for the role
  routing, whose one call writes both halves); `stored` the server, `page` the
  state of the page, `draft` the form; `clean` and `agreed` of a call record
  whether the page was up to date when it was made.
* `WebViews`: five panels that load and show; `view.guarded` are those whose
  effect ignores the answer to an earlier project, and only these are promised
  not to turn back (`NotTurnedBack`).
* `WebEvals`: `evals` are the records in order of their start, `tasks` the
  background tasks of those being carried out, which a restart loses.

Abstractions common to all: an HTTP handler that reads a row and saves it with no
slow call in between is one step, although another thread's statements may come
between its own (the discard of a requirement, for one); what waits for git, a
provider or a model is several steps; ticket ids
are reused after a deletion, because the next id is the largest one plus one;
texts, prompts, patches and timestamps are left out, and a model's answer or a
test's outcome is a choice.

## Runs

All runs finish within about four minutes on two cores. "Deadlock off"
(`CHECK_DEADLOCK FALSE`) means the system may rightly stop: bounded faults and
jobs are used up, or the user does nothing more.

| Run | Checks | Instance | Distinct states |
|---|---|---|---|
| `runner_control_plane` | `CPTypeOK` `JobRowCoherent` `EventsOnlyFromGrantees` `TerminalIsFinal` `LeaseHeldUntilExpiry` `ResultOnlyFromOwner` `ImplementsProtocol` | two runners of one workspace, two requests in flight, a job in their workspace or another, leases of two ticks and heartbeats of one | 264,530 |
| `runner_fleet_safety` | `FleetTypeOK` `AtMostOneWorker` `WorkIsGranted` `ResultIsFinal` | two daemons, two tries per call, any two of the seven faults, executions of any length | 1,236,290 |
| `runner_fleet_liveness` | `EveryJobEnds` `RevokedLeaseEnds` | two daemons, one lost request, kill, interrupt or revocation | 54,396 |
| `lifecycle_safety` | `TypeOK` `VerifiedBeforeReview` | a ticket and at most two copies of it held by a run, an audit and a git command; the pipeline's endpoints and those that pull a ticket out of it; crashes; cloud usage records | 1,340,701 |
| `lifecycle_rework` | `TriesBounded` `FirstBlockIsHandled` `RunEnds` `TestingIsTransient` | a ticket on a model outside the chain and a chain of two models, every way to restart, cancel, redirect or delete it (not `move` or `assign_model`), crashes | 71,768 |
| `lifecycle_revival` | `AbandonedUnlessStaleSave` | a budget of one retry; abandon, rerun, escalate, any move, a new model, diff approval, merge and revert; one copy of the ticket held at a time | 233,752 |
| `lifecycle_gates` | `NoRunBeforeApproval` `PrOnlyWhenAccepted` `BoardIsTrue` | a ticket and the child it is split into, both gates, integrations that come and go, a pull request pushed while runs, audits, a split and crashes go on | 298,140 |
| `pool_single` | `TypeOK` `DependenciesMet` `LiveLeasesDisjoint` | one worker, three tickets (two share a file, one depends on another), three mishaps | 14,069 |
| `pool_progress` | `EveryTicketLands` | the same tickets; one worker, the thread of its next start, a request that executes a ticket; one mishap of any kind | 38,045 |
| `web_page` | `PageTypeOK` `DoneOnce` `ShownIsReal` `KeptToItsOwn` `ChoicesHold` `NothingHangs` `BaselineIsBefore` `LateIsHarmless` | nineteen parts, each with two calls under way, two projects, one or two of everything else; `VIEW PartView`: a state is told apart by the part looked at, the others never move | 1,082,411 |
| `web_catch_up` | `BoardCatchesUp` `GraphFollows` `StreamsCatchUp` `AutoRunFollows` `ViewSettles` | the six parts that poll, with two calls under way | 114,361 |

The properties of `web_page` are conjunctions of one property per part, each
stated and explained in the part's module; `DoneOnce`, for instance, is that a
requirement makes its tickets once, one message is answered at a time and carries
its files alone, one start of the pool is listened to, and a form makes one
ticket. A further run, `pool_conflict`, states what a test of the repository says
and finds it false; it is described under [Disagreements](#disagreements).

Why the bounds are enough:

* *One job, two runners, two threads.* The columns of a job depend on no other
  job, except that a lease takes the oldest; two requests in flight are what it
  takes to put one between the check and the write of another. The theorems
  below hold for any number of each.
* *Two faults.* Reporting a job twice takes a lost response and a retry; a job
  worked on twice takes a killed or slow daemon and a second one. Two faults
  allow a retry after a fault, and a fault while recovering from another.
* *Budget zero or one, chain of one or two.* Zero makes the first failure
  exhaust the budget, two models make it fall back once and then block; with one
  retry the increment before the comparison matters. `GivenModels` are the models
  that tickets are created with or given: in `lifecycle_rework` one outside the
  chain, so that a run goes from it to the first of the chain and on to the
  second. The chain is fixed during a behaviour.
* *`MaxCopies` and `MaxAttempts`.* The first bounds the documents of one ticket
  that a run, an audit and a git command hold at once (3 is all of them): two
  make one save over what another saved. Where it is 1 (`lifecycle_revival`, too
  large with 2) the theorem covers the rest. The second keeps a ticket with that
  many failed attempts from being run again and so the table finite. One git
  command and one pull request of a ticket at a time: they share a working copy.
* *Three tickets.* One conflict and one dependency, in both orders, need three.
* *Two calls, two projects.* A late answer needs one call that is overtaken by
  another, and a second project it may be about. `MaxReq`, `MaxForm`, `MaxRun`,
  `MaxMsg`, `MaxEvent`, `MaxText`, `MaxWrites`, `MaxOthers`, `MaxPreview`,
  `MaxMade`, `MaxFlips`, `MaxTicket`, `MaxBroken` and `MaxVersion` bound counters
  that grow with use; `Visited` are the projects the user turns to and `Passed`
  the statuses another writer gives a ticket of the graph. Each part was also run
  alone on larger instances (three calls or three projects; the composer with
  `MaxReq = 2`: 4,863,975 states) without an error; inbox, evals, review, board
  and graph were not exhausted there, over tens of millions of states.
* *A subset of the endpoints per run.* Each run takes those that can write what
  its properties relate. `move` and `revert` are left out of `lifecycle_safety`
  because they write a status the pipeline did not earn, by design of the board.
  `retry` and `execute` are left out of `lifecycle_gates`, where they break the
  first gate, and `reject`, `merge` and `revert`, which break the second
  (see [Disagreements](#disagreements)).

## Fairness

* The control plane's threads and the clock are weakly fair: a request that is
  being served is answered, and time passes.
* A daemon's own steps are weakly fair until its process ends; a daemon that
  never started starts. Faults, restarts, revocations and new jobs are not.
  `Timely` (used in `runner_fleet_liveness`) lets an execution end within its
  lease; without it two daemons can take a job from each other for ever.
* Auto-run is on: the worker loop (`AutoWorker._run`) recovers orphans, asks for
  escalations, and a run that started goes on. `SF(AuditStep)`: a Tech Lead that
  is asked again and again, because a failed call leaves the ticket where it
  was, answers in the end. The run's own steps need only weak fairness.
* In `WorkerPool`, `SF(Conclude)`: the budget ends the retries, which
  `TriesBounded` shows; `SF(Leave)`: a stopped worker's tick returns after
  `max_cycles_per_tick`. The PO is fair only in `WorkerPool`, in accepting and
  merging what is finished; in `TicketLifecycle` the PO owes nothing.
* On the page (`PartsFairness`), each call under way is weakly fair: `fetch`
  ends, with an answer or an error, and the code after the `await` runs.
  `SF(Polls)`: `setInterval` fires again and again while the page is shown; the
  interval's callback may find a call in its way each time, hence strong.
  `SF(PollAnswered)` and `SF(PollTaken)`: a poll that is made for ever is not
  refused for ever, and its answer not lost for ever; one failure is survived.
  Presses, other tabs and the server's other writers owe nothing.

## Proofs

`RunnerControlPlaneProofs` proves, for every set of runners, workspaces and
threads, every number of jobs and every length of leases, from
`RunnerAssumption` alone:

| Theorem | Establishes |
|---|---|
| `TypeCorrect` | `CPSpec => []CPTypeOK` |
| `RowsCoherent` | `CPSpec => []JobRowCoherent` |
| `EventsFromGrantees` | `CPSpec => []EventsOnlyFromGrantees` |
| `TerminalStays` | `CPSpec => TerminalIsFinal` |
| `LeaseHeld` | `CPSpec => LeaseHeldUntilExpiry` |
| `ResultFromOwner` | `CPSpec => ResultOnlyFromOwner` |
| `Refinement` | `CPSpec => ImplementsProtocol` |

The inductive invariant is `CPInv`: the three invariants and `RequestInv`, which
says what may be relied on between the steps of a request. A request past
authentication carries a runner; one past `CheckLease` is about a job its runner
was once granted. Without the latter, `EventsOnlyFromGrantees` and
`JobRowCoherent` are not inductive: the job may have been released and given away
between the check and the write, and what is left of the check is only that the
runner is among the grantees. That `complete_job` matches the owner again is
what keeps a result from a runner that lost its lease; a job whose owner still
matches is leased or terminal by `JobRowCoherent`.

There is one lemma per action for `CPInv`. `JobEffect` then sums up what any step
does to the table of jobs, and the action properties and the refinement are
proved by its cases. Under the refinement mapping (`JobView`: status, owner and
whether the lease runs) a request's bookkeeping is a stutter, a completion of a
job that is already terminal is a stutter, and a tick is the abstract `Expire` of
the leases it ends.

`WorkerPoolProofs` proves, for any number of tickets, threads, executions and
mishaps and every relation of dependency and overlap, from `PoolAssumption`:

| Theorem | Establishes |
|---|---|
| `TypeCorrect` | `Spec => []TypeOK` |
| `SingleMeetsDependencies` | under `OneThread`, `Spec => []DependenciesMet` |
| `SingleLeasesDisjoint` | under `OneThread`, `Spec => []LiveLeasesDisjoint` |

`OneThread` is the default configuration: one worker thread, and no request that
executes a ticket behind its back. With two threads neither property holds
(`pool_conflict`), so the hypothesis is needed; `pool_single` is an instance of
it. The inductive invariant is `PoolInv`: besides the types and the second property,
`ThreadOwnsRow` (the row a run remembers is the row in the table, and a claimed
ticket has its dependencies merged) and `BegunAreMet` (so has every ticket in
progress or testing). The latter is what makes the fallback of `run_once`
harmless: it executes a ticket in progress without asking for its dependencies,
but the ticket could only have got there through a claim that did, and nothing
takes a merged ticket back.

`WebLateProofs` proves of the page, for any number of projects, requirements,
runs, calls, targets and values of a setting:

| Theorem | Establishes |
|---|---|
| `LateAnswersAreHarmless` | `PartsSpec => LateIsHarmless`: no late answer takes a confirmation back (`ConfirmedForGood`), overwrites the other half of a setting (`OtherHalfKept`), turns a guarded view back (`NotTurnedBack`) or fills in a form that has gone on (`DetectedForTarget`) |
| `BaselineBefore` | `PartsSpec => []BaselineIsBefore`: the baseline of an eval run is a completed run of its target that started before it |

The inductive invariant is `LateInv`, one conjunct per part. For the composer it
must say that no decomposition is still at work on a row that can be confirmed:
`preview` saves the row it read once the model has answered, so a confirmation is
safe only because the page learns the row's id from the end of that very call.
For the settings it is `CallAgrees`: a save made while nothing else was under way
and the page was up to date (`clean`, `agreed`) still carries the other half as
the server has it when it is served, and leaves on the page what is stored. For
the views, a load that may still be taken is of the project shown. For the evals,
records are in the order of their start, and a run that a task still carries out
is nobody's baseline.

`WebOwnProofs` proves of the page, for any number of tickets, projects,
notifications, files and calls, from the same assumptions:

| Theorem | Establishes |
|---|---|
| `KeptToOwn` | `PartsSpec => []KeptToItsOwn`: drafts, checklists and confirmations are of the number of the ticket shown, drafts and confirmations also of its project unless the page turned under the panel, orders of the project they were given for, an opened notification opens its project, a detected repository is of the form's target |
| `NothingWaits` | `PartsSpec => []NothingHangs`: whatever is shown as loading, saving or busy waits for a call that is under way |

`OwnInv` ties what is shown to what was asked: a request of the ticket panel that
may still be taken is of the ticket shown (`AskedHere`), and a draft or a question
was begun there, in that project while the panel is not `adrift` (`HereStays`); an open settings or
deletion panel is about the project selected, unless an answer turned the page
under it (`PanelIsAbout`); a notification that is being opened remembers the
page's project, unless the user has gone elsewhere meanwhile (`OpenedFrom`).
`BusyInv` adds what the flags rest on, one conjunct per part. The save button's
call writes and does not read (`WriterWaits`): a refresh that ends first must not
be mistaken for it. An upload that the form shows was begun by this form and not
by one that was left. For the sign-in (`SsoInv`) one run at most listens, and one
that was not told yet still has its code in the address. That is why a rerun
begins another run unless the run it cancels was past its code, which is the
exception that `SsoBusyIsAsked` makes (`dropped`).

`WebOnceProofs` proves of the page, for any number of calls, requirements,
messages, files, tabs, forms, cards and previews, from the same assumptions and
`FormsAssumption` (the bounds on forms are natural numbers):

| Theorem | Establishes |
|---|---|
| `PressesCountOnce` | `PartsSpec => []DoneOnce`: a requirement makes its tickets once, the chat waits for one answer, a file goes with one message, one start of the pool is listened to, a form makes one ticket |
| `ChoicesAreKept` | `PartsSpec => []ChoicesHold`: what is approved is what is shown, what is made is what was left in, files are not lost, a form that is saving stays open, a dismissed guide stays away |

`OnceInv` has a conjunct per part, and two of them are more than bookkeeping. A
requirement is *claimed* by the decomposition that prepares it and by the
confirmation that goes on with it (`ClaimsInv`): no row has two claims, and while
the review shows a row only the confirmation that the composer waits for may
claim it. This is what keeps the tickets single, because `confirm` checks the
status first and writes it last: two confirmations of one row under way together
would both pass the check. The invariant is void once a confirmation broke or
went astray (`broken`), and there the page does lose count. For the files
(`FilesInv`) a file the server has is with an answered upload, in the form, in the
message being sent, sent, removed or given up (`KeptInv`); none of those that wait
for a message or went with one is still on its way to the form, and a message under
way names only files that no message named before (`PlacesInv`); two uploads never
share a file (`BatchesInv`).

`WebShownProofs` proves of the page, for any number of projects, tickets, messages,
events, workers, templates, runs of the sign-in and calls:

| Theorem | Establishes |
|---|---|
| `ShownAsIs` | `PartsSpec => []ShownIsReal`: cards, previews, messages, events, settings, projects, templates and errors are, or were, the server's, and the graph calls ready what a worker may claim |
| `PageTypeCorrect` | `PartsSpec => []PageTypeOK`: each of the nineteen parts keeps its types |

`ShownInv` has a conjunct per part that shows something of the server's.

* *Board* (`BoardInv`). A card of a project is never newer than its ticket. The same
  is asked of the lists that calls carry and of the lists they would put back, since
  either may become the board long after.
* *Activity* (`ActivityInv`). The stream and every page of events under way have
  rising ids. What is appended has no id that is there already, so the union has an
  order, and only one: `EventsInOrder` shows that such an order exists for every
  finite set of events, by induction on its size.
* *Chat* (`ChatInv`). Ids of messages have no gaps, so that the next one is nobody's
  yet, and what an answer carries was written to the project it was asked of.
* *Composer* (`SavedInv`). A preview shown or on its way is saved, and a saved row
  is from then on confirmed or discarded at most (`RowsStaySaved`).
* *Projects* (`ListInv`). While no two calls that change the list crossed, the page
  is behind the server by exactly what the one call under way has done (`Behind`);
  seeding is the hard case, as it is answered with a list read after it wrote.
* *Templates* (`OfferInv`). A list on its way holds what was stored before it was
  read; `overtaken` are those that were stored after.
* *Sign-in* (`SignInv`). While no run was cancelled with its code gone, a spent code
  was taken by a run that still listens, so none of the others can report a failure
  over it; `questions` is bounded by the times that the configuration turned.
* *Graph* (`GraphInv`). A lease that runs has a worker for its holder. The route of
  the graph and the claim then judge alike: a ticket does not conflict with itself,
  and a leased one is its holder's to claim.

`RestInv` adds what the invariants of the other theorems do not say of the types.
Only one of its conjuncts is not plain: a ticket of a preview is on the board twice
at most, because the answer to an approval appends to whatever is there, because a
poll puts each ticket there once, and because no approval is carried out twice
(`ReviewRest`).

These proofs use assumptions that TLC evaluates in `web_page`. `EventsAssumption`,
`NoCallAssumption`, `NobodyAssumption`, `StoppedAssumption` and `FlipsAssumption` say
that bounds and page sizes are natural numbers; `BoardAssumption` that tickets have
ids at all, `GraphAssumption` that there is a worker (`auto_worker.py:103` makes at
least one).

`RunnerFleetProofs` proves of the daemons over their network, for any number of
runners, threads, jobs and faults, from `RunnerAssumption` and
`FleetAssumption`:

| Theorem | Establishes |
|---|---|
| `FleetTypeCorrect` | `FleetSpec => []FleetTypeOK` |
| `FleetIsClient` | `FleetSpec => CPSpec`: what is proved of the control plane holds of the fleet |
| `WorkGranted` | `FleetSpec => []WorkIsGranted` |
| `OneWorker` | `FleetSpec => []AtMostOneWorker` |
| `ResultStays` | `FleetSpec => ResultIsFinal` |

The inductive invariant is `FleetInv`. `CPInv` is its first conjunct and is not
proved again: every step of the fleet is one of the control plane or leaves it
alone. Of each daemon, `OnRecord` says that the job of its state file was granted
to it, and that the file is cleared only after a revocation; `Awaits`, that the
thread it waits for serves the call it is in; of each thread, `Sent` says what
its reply tells of the sender. `AtMostOneWorker` needs more, and only while
nothing was `late`. `InTime`: what a daemon works on, or is about to be told of,
is its own by the server's clock, and it has no request in the server but the
one it waits for. `OneRequest` and `CheckedIsOpen`: nothing ends a job between
the check and the write of its owner's `complete`, since the `release` that a
daemon sends as it leaves is the only request that may overtake another. Drop
`OneRequest` and a retried `complete` could end the job under the first one,
after which a second outcome is reported: that is what `ResultIsFinal` excludes.

`TicketLifecycleProofs` proves of a ticket under all its writers, for any number
of tickets, every retry budget and fallback chain, with and without crashes, from
`LifecycleAssumption`:

| Theorem | Under | Establishes |
|---|---|---|
| `TypeCorrect` | any endpoints | `Spec => []TypeOK` |
| `VerifiedFirst` | `StatusEarned` | `Spec => []VerifiedBeforeReview` |
| `AbandonedStays` | any endpoints | `Spec => AbandonedUnlessStaleSave` |
| `GateOne` | `GateKept` | `Spec => NoRunBeforeApproval` |
| `BudgetBounds` | `BudgetKept` | `Spec => []TriesBounded` |
| `GateTwo` | `SecondGateKept` | `Spec => PrOnlyWhenAccepted` |
| `BoardShowsGates` | any endpoints | `Spec => [](DropsAreLegal /\ GatesAreShown)`: two of the three parts of `BoardIsTrue` |

The hypotheses are about `PoOps`, the endpoints that the PO uses, and each is
needed. `BudgetBounds` is over `Models + 1` models: a model outside the chain
falls back to its first, and the run then goes through the whole of it. `move`
and `revert` write a status the pipeline did not earn (`StatusEarned`). The six
endpoints of `GateKept` get a ticket around the gate, alone or through a copy that is saved late ([Disagreements](#disagreements)).
A PO who recreates a ticket under its run, and moves the new one to where the
run left the old one, gives the run a fresh budget (`BudgetKept` excludes the
two together, not either). `SecondGateKept` is the strongest: the endpoints are `split`, `approve`, `diff_approve`, `accept`, `pr`
and `assign_model`. An acceptance that was refused stays in the ticket, so that
whatever restarts it lets the pull request be opened early; one that is stored
after the pull request, or given while no integration is configured (`FALSE` in
`PullRequests`), leaves its pull request to be opened later, from wherever the
ticket has got to; and a merge or a revert saves a copy of the ticket that no
gate was asked of. `PrOnlyWhenAccepted` speaks of the whole window: a pull request
is under way only for a document that succeeded, was audited and awaited
acceptance or was accepted, and what takes the row away from there before the
result is stored is a split and nothing else. `lifecycle_gates` is an instance of
the two gates' hypotheses, `lifecycle_safety` of `StatusEarned`, `lifecycle_rework`
of `BudgetKept`.

Executions and audits save a copy of the document that they read before a call
of a model; in between, endpoints and other copies are saved. So an invariant of
the table alone is not inductive. `DocInv` asks the same of every copy, in the
table or in the hands of an execution or an audit (`Good`): what its status
promises of its outcome, verdict, acceptance and approval; and that the copies in
hand have one of the statuses those pipelines work on. `AskInv` asks the same
of the copies that git commands hold. `TriesInv` relates a run's
failures to what its document accounts for (`Spent`), on its copy and on the row
it reads again before the next call, unless that row is one it cannot go on with.
Outside the chain a run has spent nothing of it yet: position 0 in `Spent`.
`GatedInv` says that while somebody holds a copy the ticket cannot pass the
second gate, and that while its pull request is being pushed nobody holds one or
begins to: the row is awaiting acceptance, done or split then, and none of these
is dispatched, audited, escalated or committed. So no stale save can fall into
the window.

Model-checked only:

* all liveness, and of `BoardIsTrue` the part that every offer is served
  (`OffersAreServed`): they rest on fairness and `ENABLED`, which the prover does
  not handle. Every other invariant of a passing run is a theorem, some of them
  under the hypotheses named above.

Neither proved nor checked:

* the two gates with endpoints the hypotheses above exclude. Where an endpoint of
  the code takes a ticket around a gate they are false, and where it does not they
  are open;
* `DependenciesMet` and `LiveLeasesDisjoint` with two threads are false, see
  [Disagreements](#disagreements).

## Disagreements

Each of these is a behaviour of the code that a document, a comment or a test of
the repository rules out. The first has a run.

* **Two workers run overlapping tickets** (`pool_conflict`). When nothing can be
  claimed, `run_once` takes the first ticket in progress, also when another
  worker is executing it. `tests/test_wave7_throughput.py:272` asserts that
  active tickets share no files.

Met while modelling, without a run of their own:

* *A lost lease response is renewed for ever.* `heartbeat` extends every lease
  of the runner (`db/sqlite.py:1963`), and a daemon heartbeats before every lease
  request. A job leased in a response that was lost belongs to a daemon that does
  not know it, never expires and is never worked on. `docs/runner_protocol.md:30`
  says that expired jobs are reclaimable.
* *A refused acceptance opens the second gate.* `accept` saves `accepted_by`
  (`api.py:2615`) before the move that answers 409, and nothing clears it; the
  ticket may then be audited, rejected by the PO, and still have its pull request
  opened. The gate's own message (`pr_flow.py:355`) says the ticket must be
  awaiting acceptance or accepted. `PrOnlyWhenAccepted` states what does hold.
  Where `reject` is among the endpoints, an acceptance that is saved after the
  pull request was stored may land on a ticket that was taken back meanwhile, with
  the same effect; `SecondGateKept` therefore has no `reject`.
* *A split under a pull request.* The gate (`pr_flow.py:236`) is asked of a document
  that is then pushed (line 255) and sent to the provider. A ticket that is split
  meanwhile still gets the pull request recorded (269), and `accept`, which reads
  it again, marks it accepted before the move is refused.
* *Git commands save what they read.* `merge`, `revert` (`api.py:3028`, 3055) and
  diff approval (`diff_review.py:41`) read the ticket, wait for git and save the
  document they read. What was written meanwhile is undone: an abandoned ticket
  comes back, a ticket that was taken up again is put beside its own run, and one
  whose pull request is being pushed is taken from the second gate.
* *The panel and the project.* Numbers of tickets are per project
  (`db/sqlite.py:714`), and the panel resets when the number changes
  (`TicketDetail.tsx:115`). When the page turns to another project under an open
  panel (`App.tsx:823`, 1044), a draft goes on, and an armed deletion or merge is
  carried out, on the ticket of the same number there, although the comment above
  the effect speaks of a ticket replaced by polling. The checklist is asked for
  without a project (line 143), which the server refuses where several have the
  number (`db/sqlite.py:730`), and not again for the other project's ticket.
  `DraftIsMine` and `ConfirmedWhereAsked` state what does hold.
* *The first gate.* `retry` makes a backlog ticket ready and `execute` runs one,
  whatever `needs_approval` says (split, retry the child, and a worker takes it).
  `HAAO_product_brief.md:47` and `OPERATOR_GUIDE.md:52` say that nothing runs
  before it is approved. Adding `"retry"` to `Gates` shows it.
* *A second block.* No code clears `escalation_handled_by`, so a ticket that was
  helped once and blocks again is skipped (`auto_orchestrator.py:163`), while
  `OPERATOR_GUIDE.md:100` promises help whenever the budget is exhausted.
  `FirstBlockIsHandled` states what does hold.
* *Worktrees of live runs.* Recovery removes the worktree of every ticket in
  progress or testing, registered or not (`crash_recovery.py:39`). With two
  workers each can remove the other's for ever, and `EveryTicketLands` fails;
  `pool_progress` therefore has one worker, the default.
* *The registry.* `register` overwrites and `unregister` pops the entry of
  another execution of the same ticket (`execution_registry.py:19`); the
  remaining one can no longer be cancelled, and recovery takes it for an orphan.
* *Endless runs.* A PO who moves or deletes and recreates a ticket under its run
  again and again, or gives it another model each time it has fallen back, can
  keep the run going; `lifecycle_rework` has neither `move` nor `assign_model`.
* *The composer's board.* A comment (`RequirementComposer.tsx:636`) says what the
  effect of lines 626 to 633 does not do. An approval names a requirement by its
  id alone (line 774), so that after a switch of the project under the form it
  may confirm another project's. An edit of a card's target files (310 to 316,
  381 to 412) is shown and never sent, while the review's header (895, 1269) says
  that what is shown is created. The answer to an approval that is lost leaves
  the review standing over tickets that exist.
* *The graph's header* always reads "0 ready, 0 blocked": `TicketGraphResponse`
  (`api.py:1011`) has neither list. The lease of a card is from the graph's second
  reading and its status from the list before it.
* *Signing in.* A run of the effect that is cancelled while its call is under way
  leaves `ssoBusy` set, or sends the one-time code a second time.
* *Evals.* A run in progress when the server restarts is listed as running for
  ever (`api.py:2489`), and the panel polls it for ever.
* *Activity.* A stream that is empty is never polled, and a failed load shows
  demo events.
* *Chat.* The draft and the files waiting with it stay when the project changes
  and go to the other project with the next message.
* *Overlays.* Escape closes a form whose save is under way, and the answer then
  closes the next form that was opened. A template saved before the list is
  loaded disappears from the list when it is.

## What is not modelled

* *Audits in the pool.* `run_once` reviews before it executes; an audit that
  keeps failing stops a worker from executing. `WorkerPool` has no audits.
* *Two executions of one ticket in `TicketLifecycle`.* `WorkerPool` has them, but
  not what they do to the document.
* *Git.* Branches, merge commits and the shared working copy; the models know
  only what the ticket records.
* *What is saved over a ticket that was recreated.* A row does not say which
  requirement it is of, so that no property notices when a run saves the result of
  a deleted ticket over the new one of its number (`db/sqlite.py:714`).
* *Unverified tickets.* One that is marked unverified skips its tests and is
  recorded as a success (`execution_loop.py:433`); in the model both are
  `TestsPass`, and `VerifiedBeforeReview` promises the recorded success.
* *Smaller reductions.* `escalate_to` may also be `blocked`, which goes the way of
  `human`. A worker that is handed a backlog ticket by a request would run it
  (`execution_loop.py:704`); `WorkerPool` keeps it `parked`. The answer of the chat
  and the end of its sending are one step, although the list of requirements is
  read in between (`App.tsx:1225`). In `web_catch_up` the user stays with one
  project (`Visited`), so that the catching up is not disturbed by another's
  answers; `web_page` has them.
* *Offers.* `BoardIsTrue` is checked for the endpoints of `lifecycle_gates`, without
  merge and revert, and an offer counts as served although git may refuse it (a
  dirty workspace, an empty diff).
* *Statement interleavings within an endpoint*, such as a split that fails half
  way or a discard that crosses a confirmation (`requirements_flow.py:201`), apart
  from the runner endpoints, the graph's two readings and the confirmation of a
  requirement.
* *The team plane's panels.* `GET /identity/context` is missing from `api.py`, so
  `teamActive` stays false (`ModelsPage.tsx:293`) and members, retention, runners,
  Git credentials and the audit log are never shown. Neither are
  `NewRequirementModal.tsx` and `buildProposedTickets`, which nothing uses.
* *Presentation.* Filters, layout, drag and drop beyond the move it asks for, the
  vendored widgets under `components/ui`, demo data beyond its ids.
* Memberships, patch application, model clients, prompts, context retrieval,
  retention, insights: sequential, or pure input and output. PROJECT.json lists
  each with its reason.

## Plan

Done: the runner protocol (control plane, fleet), the ticket's life, the worker
pool, the web page; proofs about the control plane, the fleet, the ticket's life,
the pool and the page.
Next, in this order:

1. The second gate for endpoints that restart a ticket: which of the excluded ones
   are safe, with `DocInv` strengthened by what a restart clears.
2. A module of the git flow: approval, merge, revert and pull request over one
   working copy, with the branch each of them leaves behind and the refusals that
   the offers of the board do not know of.
3. The requirements on the server: `preview`, `discard` and `confirm` by two
   sessions, with the tickets `confirm` creates one by one.
4. `WorkerPool` with the document of `TicketLifecycle`, to say of two executions
   of one ticket what they leave in the table.
5. Memberships: seats counted in one statement and taken in another.
