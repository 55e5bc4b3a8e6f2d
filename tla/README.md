# TLA+ models of the 小九九 companion runtime

The repository is a *companion runtime*: a Python service that decides when a
character speaks to its user and carries the message through rendering,
authorization and sending, while users, hosts and timers act concurrently.  Its
code is `src/runtime/src/companion_runtime/` (115 files, about 58,600 lines);
paths below are relative to that directory.

This project models the parts of it where order and failure matter most: the life
of one intention to speak (an *action attempt*), the queue and the protocol that
deliver it, the books two decision engines keep of it, the right to send at all,
and the state row every part of the service reads and replaces.  TLC checks small
instances; TLAPS proves the safety of all of them for every size.

## 1. Inventory

| Component | State it keeps | Operations | What is hard | What makes it correct |
|---|---|---|---|---|
| Attempt state machine (`action.py`) | `action_attempts.state` | `commit`, `transition` and its callers | a move that is not in the table raises and rolls back whatever surrounds it | closed attempts stay closed, sent ones are only resolved |
| Delivery queue (`projections.py`, `OutboxProjection`) | `outbox`: status, lease owner, lease expiry, claim counter | `enqueue`, `claim`, `ack`, `nack`, `requeue`, `reclaim_expired`, `settle`, `cancel`, `cancel_for_attempt` | leases lapse while their holders work; the claim counter at its limit | a row ends with its attempt |
| Delivery handlers (`reducer.py`) | both of the above, the history, the contact budget | render completed or failed, delivery report, re-coordination, sweep | duplicate, late and reordered reports; two transactions where one is meant | one send row per intention, one charge per message sent |
| Runtime (`runtime.py`) | the state row and its version, boundaries, candidates | `process_user_message`, `lazy_tick`, `observe_reply`, `_commit_attempt` | the row is read before the transaction that replaces it; a message is one transaction, the attempts it re-coordinates one more each | no message's effect is overwritten; a boundary leaves nothing unsent behind; nothing hangs |
| Protocol v1 (`api_v1.py`, `authorize.py`) | nothing of its own: the lease id names owner, row and claim | `lease`, `heartbeat`, `authorize`, `result` | check-then-act around a lease; reports of old claims; outages | transmissions within the budget; only the holder ends a claim |
| In-process worker (`delivery.py`) | none | claim, render, authorize, send | a plain nack after a transport error may repeat a message | as for protocol v1 |
| Scheduler (`scheduler.py`, `cli.py`) | wake plan, back-off, round-in-flight latch | plan, run a round, stop | the gate is read before the round that commits, and not at all for a retry; planning may raise; the worker thread outlives a cancelled loop | two attempts in preparation only after a retry; the database is not closed under a round |
| Concurrency protocol (`protocol.py`, `reducer.py`) | `background_tasks` | `classify`, `process_proposal`, `register_task`, `reconcile` | results that are late, repeated or rest on a premise taken back | one verdict for each registration |
| Unfinished matters (`unfinished.py`) | `unfinished_matters` | detect, create, settle, expire, POST | messages, refreshes and hosts open matters about the same thing | one live matter per subject |
| Event log and mirror (`eventlog.py`, `db_base.py`) | `events`, the JSONL file, a queue in memory | append, savepoint, rollback, commit, hooks | hooks of nested blocks that fail in part; a crash after COMMIT | the file is a copy of the committed log |
| Runtime v2 and Langchao live (`runtime_v2.py`, `langchao_live*.py`) | audit stages, terminal acknowledgements, exposures | commit, render and send hooks, closing, recovery | a memory copy that is not rolled back; reports of two claims | a round is booked once, and as what happened |
| User model v2, maintenance (`user_model_v2_*.py`, `maintenance_v2.py`) | exposures, labels, forecasts, comparisons, reward ledger | settle by reply, settle by pass, compare, fit | two writers of a label; statements outside transactions | every window is settled, revisions in order |
| Langchao authority (`langchao_authority*.py`, two scripts) | pointer, authorities, dispatch claims | switch, route, commit, refuse, recover, roll out | switches while rounds think; commits whose answer is lost | a frozen scope is quiet |
| Boundaries (`boundaries.py`) | `boundaries` | detect, narrow, carry over, revoke | texts | only the verdict is visible in `Delivery` |
| Privacy deletion | its own tables (PostgreSQL) | stages of a deletion request | not modelled | |
| Emotion, motivation, memory, legacy user model, appraisal | real-valued state, texts | time integration, scoring, retrieval, model calls | numerical | |
| Test host and scripts (`src/framework/cf`, `src/scripts`) | none of the Runtime's | simulations, builds, fleet operations | only the two dispatch scripts act on the Runtime | |

**How they interact.** Every writer goes through `db.transaction()`
(`db_base.py`), which serialises writers on both backends; a user message and a
tick also hold `Runtime.write_session()`.  The scheduler or a host asks for a
round; the round reads the authority of its scope, commits an attempt under it
and queues its *render* row; an adapter leases the row, has the host's main LLM
write the text, and reports it; the reducer queues the *send* row; an adapter
leases that one, asks for a last authorization, transmits, and reports; the
report charges the contact budget and, in the same transaction, lets the engine
of the round close its books and prepare the exposure the user model learns from.
Meanwhile user messages re-coordinate what has not been sent, resolve what was,
settle labels and matters, and declare boundaries; ticks reclaim lapsed leases
and close what can no longer be delivered; hosts hand in results of tasks they
were given earlier.

The full list of components, including those that are not modelled and why, is
in `PROJECT.json`, and so is the list of hazards, each at its line, with the
properties that would catch it going wrong.

## 2. Modules

| Module | Models | Uses |
|---|---|---|
| `AttemptStates` | `action.py`: the states and the transition table | |
| `Outbox` | `projections.py`: one operator per UPDATE statement of the queue | |
| `Delivery` | attempts, rows, boundary and re-coordination under the most general client | the two above |
| `Intention` | *abstract*: what delivery promises, without queue, lease, renderer or report | |
| `V1Host` | adapters working against `api_v1.py`; each of its steps on the store is one of Delivery's | extends `Delivery` |
| `Settlement` | the engines' books, hooked into the reports of `V1Host` | extends `V1Host` |
| `RoundBook` | *abstract*: what the engines promise of a round | |
| `UserLabels` | what is learned from a sent message, by the reply's hook and the maintenance pass | |
| `Dispatch` | the authority of a scope, rounds, operators, a rolling restart | |
| `Scheduler` | the loop, its worker thread, shutdown | |
| `EventMirror` | nested transactions with their hooks, and the mirror of the log | |
| `StateRow` | the row of `runtime_state`: sessions, versions, who overwrites whom | |
| `Proposals` | tasks, results, refreshes, unfinished matters | extends `StateRow` |
| `MC…` | instances of these, and the refinement mapping of `Delivery` onto `Intention` | |
| `DeliveryProofs`, `V1HostProofs`, `SettlementProofs`, `UserLabelsProofs`, `DispatchProofs`, `SchedulerProofs`, `EventMirrorProofs`, `ProposalsProofs` | the theorems | each extends its module; `SettlementProofs` also extends `V1HostProofs`, and that one `DeliveryProofs` |

A definition whose comment begins with *Mutant* is a faulty variant of the one
below it, with which a property is tested: put in its place, the property must
fail.  Nothing else refers to it.

### Delivery

`attempt[a]` is a row of `action_attempts` (`"none"`: not committed yet) and
`outbox[r]` one of `outbox` (`"absent"`: not inserted yet); `charged[a]` counts the
`proactive_sent` events and budget charges of an attempt, `boundary` says that
an active boundary forbids proactive contact, and `pass` is the message that is
being ingested (it holds the write session) with what is left of its call of
`reconcile_pending_attempts`.  `cleared` says that a round of runtime_v2 was
told that no boundary blocks it and has not committed yet; `observed` is the set
of attempts the user model has an observation of.

The two engines commit differently, and `Delivery` has both ways.  runtime_v2
asks for the boundary verdict while it assesses its candidates
(`runtime_v2.py:604`), with no session and no transaction, and commits later, in a
write session, without asking again (`legacy_bridge_v2.py:313`).  Langchao asks
and commits in one transaction (`langchao_live.py:208`), which takes no write
session, so it may come between the transactions of a message that is being
ingested.  `legacy_endogenous_round`, which would do both in one write session, is
disabled in production (`cli.py:329`, `runtime.py:1694`).

| Action | Code |
|---|---|
| `AskVerdict`, `CommitDecided`, `RoundGivesUp` | `decide_endogenous` of runtime_v2 and `commit_candidate_with_snapshot` |
| `CommitAtOnce` | `execute_in_transaction` and `commit_langchao_candidate_in_transaction` |
| `Claim`, `Ack`, `Nack`, `Requeue` | `Reducer.claim_outbox`, `ack_outbox`, `nack_outbox`, `requeue_outbox`, with and without an expected owner |
| `Extend` | the UPDATE of `post_outbox_heartbeat` |
| `RenderUsable`, `RenderUnusable` | `Reducer.complete_render` and `_apply_rendered_text`, replays included |
| `ReportFailed` | `Reducer.fail_render`, and `mark_delivered(success=False)` |
| `MarkDelivered` | `Reducer.mark_delivered`, duplicate and late reports included, and those that name a render row: neither it nor `POST /delivery` asks for the kind |
| `Sweep` | `close_settled_outbox_attempts`, the second transaction of every terminal nack |
| `Tick` | `Runtime.lazy_tick` with maintenance: reclaim, close failed and orphaned attempts, record silence |
| `Ingest`, `ListPreSend`, `ReconcileNext`, `ReconcileRaises` | `process_user_message`: its transaction, the list, one re-coordination, and the exception that ends the loop |
| `PostReconcile` | `POST /reconcile`, one attempt at a time: without an `attempt_id` a call is a number of these steps, and nothing waits for where it has got to |
| `ObserveReply` | `Runtime.observe_reply`, of an attempt in any state: the observation is recorded, and closes the attempt if it is *sent* |
| `Ages`, `LeaseLapses`, `BoundaryLifts`, `Crash` | time and the process |

Abstractions, each of them to more behaviours than the code has: time (a window
or a lease may be over at any moment), the text (a render is usable or not), the
decision of `protocol.reconcile` (any its code can return for that class of
message), who may report (anyone, on any row, at any time), `available_at` (a
claim comes later anyway).  `rendering` and `proposed` never survive a
transaction, so no state has them; the handlers' tests for them are kept.

### V1Host

`lease[r][n]` is the *n*-th claim of a row: who holds it and how far the adapter
is.  From an outcome on, its report is under way and may arrive any number of
times, in any order, or never; there is no message queue because any set of
messages in flight amounts to the same.  `spoken[a]` is a
history variable: the number of times the platform took the message.  `GiveBack` is
`_requeue_after_authorize_unavailable`; `HoldsLease` and `NamesClaim` are the
fences of `_lease_denial` and `_apply_action_report`, and a success is taken as
delivered only for a *send* row.  The module is about adapters of protocol v1; what
a client of the v0 routes can do beside them is in `Delivery`.  An adapter is another
program: that one claim has one outcome is the wire contract the endpoint's
docstrings state, and is the assumption `TransmissionBudget` rests on.

### Settlement

`engine[a]` is the engine whose round committed the attempt, `ack[a]` the terminal
acknowledgement of the round with the row it names, `audit[a]` the stages on
record and `recorder[a]` the copy `V2RuntimeCoordinator` keeps in memory, which a
rollback leaves as it is.  A report of `V1Host` is taken together with the hook
of its engine (`Applied`): the hook applies, or raises and the whole report is
rolled back, and a hook may fail for reasons of its own (`HookFails`).
`SettleAbandoned` is `_settle_abandoned_round`, `Restart` loses the memory.  All
other steps of `V1Host` leave the books alone.  `RoundBook` is the promise: opened
once, closed at most once, closed as *sent* only when the message went out and
together with the exposure.

### UserLabels

One record per target and exposure: status, revision, source.  `Acknowledge`
prepares exposure and expectation in one transaction; a reply is committed by
the Runtime and settled by a hook that runs later, or never (`Crash`).  The
maintenance pass is cut where its transactions are: due exposures, comparison,
closing of the expectation, fit.  The last two are separate statements on a
session whose open transaction a request may roll back (`MaxFaults` counts
those).  Time is a clock of ticks, windows are `Horizon`.

### Dispatch

`active` is the pointer with its version and authority, `claim[r]` the dispatch
claims of a round, `nosend[r]` its no-send result, `run` the round in hand,
`rollout` the rolling restart.  `Publish` counts the durable work in the
transaction that switches; a round reads the authority first (`Route`) and commits
under what it finds (`CommitRound`), the commit's answer may be lost
(`CommitUnanswered`) and is looked for again (`Recover`).  A live round that is
turned down or in which nothing wins leaves its no-send result (`RecordRefusal`,
`Defer`); one whose winner is to rest, and a resting one of runtime_v2, does not.  The delivery of what was
committed is one step that ends in one of the ways `Delivery` has.

### Scheduler

The coroutine's program counter, the gate as it was last read, the back-off, the
reason of the last plan, the worker thread and the latch.  `Plan` reads the gate,
or sleeps a back-off without reading it; `PlanFails` is `replan()` raising, which
no handler surrounds, so the loop is *crashed* while the process is up.  The round
asks about boundaries (`AskBoundary`), may commit later (`CommitAttempt`), and may
raise at any point before or after it (`RoundRaises`: the decision, `run_due` and
the consolidation at `cli.py:378-385`, the shadow runner at
`langchao_live_wiring.py:255`).  Waking is possible at any moment, so the length
of the sleep is not modelled.

### EventMirror

`levels` are the open blocks, each with its rows and the callbacks it buffers;
`session` is what the server says of the connection; `frames` are the lines the
mirror has queued at each depth (`_mirror_frames`); `hooks` are the post-commit
callbacks of a committed block that are still to run; `log` is the set of
committed events and `mirror[e]` counts the lines of the file about event *e*,
whose number is its place in the append order.

| Action | Code |
|---|---|
| `Begin`, `BeginRefused` | `transaction()`'s entry: BEGIN, SAVEPOINT, and a BEGIN the server refuses |
| `LogEvent`, `LogEventAlone` | `append()` in a block and outside any, `_mirror_after_commit` |
| `Release`, `Rollback`, `Commit`, `RunHook` | the ends of a block and the callbacks each runs: `_release_frame`, `_discard_frame`, `_flush_mirror` |
| `CommitFails`, `StatementFails`, `ReleaseRefused` | the server's refusals |
| `Crash` | the process, at any moment, between two callbacks too |

A frame is known by the depth it is registered at and the event it was made for,
which is what its callbacks close over; the list of callbacks of a level is a
set, because the first callback that finds a frame resolves it and all later ones
find nothing.  Exceptions escape at any depth, PostgreSQL aborts blocks whose
statement failed and answers COMMIT of such a block with a rollback, and a write
may break off anywhere in the text.  `lost` and `orderly` remember what excuses
a difference.  `LogEventAlone` is one step; in the code `_prune_frames` takes the
mirror's lock and then the connection's, the opposite of the order an append
in a block takes them in, which can matter only to callers that append without a
block while another thread has one open, and the program has none.

### StateRow and Proposals

The row carries the set of writes whose change it shows, so that a lost update
is a missing element.  `Begins` takes the write session and reads the row;
`MessageCommits` and `TickCommits` are the transactions that follow;
`ReducerWrites` is any transaction that reads and writes the row without the
session.  `TickCommits` has no version guard because `_lazy_tick` expects the
version it reads last (`runtime.py:707`).

In `Proposals`, `work[t]` is what a host has in hand for a task (its snapshot),
`task[t]` the record in `background_tasks`, `matter[x]` the matter that a message,
a refresh or a POST opened, `decided` and `reopened` count verdicts and repeated
registrations.  `ProcessProposal` is one transaction: `Discarded` and `Rebased`
are `classify` in its order, with the real budgets.  A message's words are what
they do: subjects it opens and settles, premises it takes back.

Facts about that code which the model keeps and no property speaks of: a rebased
`emotion_explain` has lost its payload and its handler raises
(`reducer.py:450-452, 551`), so it is neither applied nor settled; `POST /tasks`
reopens a task that was dealt with; a discarded result without a record is
judged anew when it is sent again; only the ten oldest newer messages are looked
at for a retraction; a refresh names the version read after its provider's
answer; `resolve()` also resolves an expired matter and reserves its subject.

## 3. Runs

| Run | Instance | Shows |
|---|---|---|
| `MCDelivery` | 2 attempts, 2 rows, 1 owner, 1 claim against a budget of 1, both ways to commit, fairness | `RowsEndWithTheirAttempt`, `OneRowPerKind`, `ContactAccounting`, `HistoryIsKept`, `BoundaryClears`, `KeepsThePromise` (`Delivery` implements `Intention`), `NothingHangs`, `SilenceEnds` |
| `MCV1Host` | 1 attempt, 2 rows, 1 adapter, 3 claims against a budget of 2, fairness | `LiveRowServesItsAttempt`, `TransmissionBudget`, `ContactsWereMade`, `ClaimEndsAsItsHolderSays`, `OnlyTranslates` (the protocol implements `Delivery`), `EveryAttemptEnds` |
| `MCSettlement` | as `MCV1Host`, either engine, without fairness | `BooksAgree`, `KeepsTheBooks` (`Settlement` implements `RoundBook`) |
| `MCUserLabels` | 2 exposures of one contract, 3 ticks of time, 1 reply, 1 undone statement, 1 fit, fairness | `LedgerFollowsItsSource`, `SettledInFull`, `RevisionsInOrder`, `WindowsAreSettled` |
| `MCDispatch` | 1 operator beside a rolling restart, 2 rounds, 5 authorities, fairness of deliveries | `QuietWhenFrozen`, `DispatchedOrRefused`, `NewCodeOnly`, `DrainsInTheEnd` |
| `MCScheduler` | up to 3 contacts, rounds and plans that raise, fairness | `OnlyRetriesOverlap`, `NoRoundAfterClose`, `KeepsThinking` |
| `MCEventMirror` | 3 levels, 5 events, failures at any depth, writes that fail part-way, swallowed errors, crashes | `MirrorFaithful`, `NothingBeforeCommit` |
| `MCProposals` | 2 messages, an evaluation, a deep refresh, a POST, a delivery, 5 versions, each task registered twice | `MessagesAreKept`, `OnlyTicksOverwrite`, `OneVerdictPerDispatch`, `OneMatterPerSubject` |
| `MCDeliveryReconcile` | as `MCDelivery`, 4 rows | *violated*: `EveryAttemptIsReconciled` |
| `MCSettlementLate` | as `MCSettlement` | *violated*: `LateSendIsBooked` |
| `MCUserLabelsSilence` | as `MCUserLabels`, hooks and passes one after the other | *violated*: `OccurrenceStands` |
| `MCStateRowTick` | 2 messages, an evaluation, a delivery, 4 versions | *violated*: `NoWriteIsLost` |

Each run but the violated ones also checks the type invariant of its module;
that of `V1Host` is part of `BooksTypeOK` in `MCSettlement`.

**Why the bounds are enough.**

- `MCDelivery`: attempts meet only in a re-coordination pass and in a sweep, both
  of which treat them one by one, so two show every interference.  The two rows
  are a render and a send row of one attempt, or a render row of each.  A row's
  behaviour changes only when its claim counter meets `max_attempts`:
  here the only claim is the last one, `MCV1Host` has claims below, at and beyond
  it.  `MaxClaims` bounds the claims of a row
  because `requeue` has no budget.  The safety theorems of both modules hold
  without any of these bounds.
- `MCScheduler`: a second contact needs one retry and a third a second one; what
  comes after repeats it.
- `MCSettlement`: rounds share no books, so one is enough; three claims on the
  send row are a failed one, a late one and the one under way.
- `MCUserLabels`: two exposures are the least for which a ledger can mix sources
  and a revision can overtake another.  The reply window ends a tick before the
  others, as in `DecisionConfigV2` (30 minutes against 2 and 24 hours), and one
  tick remains for corrections.
- `MCDispatch`: five authorities are the first one, a freeze, what a rollout
  publishes at its start and at its end, and an operator's switch in between;
  with two rounds a decided one and a new one coexist.  The theorems have no bound.
- `MCEventMirror`: with three levels there is a block that is neither the
  outermost nor the innermost; five events put one on each level, one before and
  one after a rollback.
- `MCProposals`: one message a result rests on and one that takes the premise
  back are all `classify` distinguishes; `MaxVersion` admits every writer once
  and one repetition; `NewerLimit` is the code's and is not reached.  The theorems
  cover all other sizes.

**Fairness** is stated on steps the code takes by a timer or a loop, never on a
user or on what a report says.

- `Delivery`'s `Fairness`: ticks get their turn (`SF(Tick)`: every lease poll of an
  adapter ticks with maintenance before it looks at the queue (`api_v1.py:1837`),
  and so does every message of the user; adapters poll by a timer, so a tick cannot
  lose the write session for ever.  The rounds of the production scheduler do not
  tick, and the assumption does not rest on them), a message being ingested is
  ingested to its end unless the process dies, windows elapse.  No report, claim
  or sweep is assumed.
- `V1LiveSpec` adds that adapters poll the queue and finish what they hold with
  *some* outcome (the wire contract of protocol v1 asks both of them), and that leases
  lapse; still no report has to arrive.
- `Scheduler`: the event loop runs what is ready, the worker thread ends its
  round, planning comes out one way or the other (it may raise at any turn), and what was committed is delivered or dropped, which is
  `EveryAttemptEnds` of `V1Host`.
- `UserLabels`: the clock, and the maintenance pass that follows each round.  This
  is the scheduler coming back, which `KeepsThinking` shows as long as planning
  does not raise: after a planning failure (see the divergences below) the
  windows are settled by the next process.  The
  reply's hook is *not* fair: it may be lost, and the pass settles the windows.
- `Dispatch`: only that what was dispatched ends, again `EveryAttemptEnds`.
- `Settlement`, `EventMirror` and `Proposals` promise nothing that needs fairness.

**What the violations say.**

- `EveryAttemptIsReconciled`: `reconcile_pending_attempts` promises to
  "re-coordinate every in-flight attempt" (`reducer.py:1111`).  An attempt on its
  list that a report or sweep closes before the loop reaches it cannot take an
  *abort*; `IllegalTransition` then leaves the loop, and the attempts behind it
  keep a text the message made stale.  (Called by `POST /reconcile`, the loop also
  reaches *sent* attempts, with the same effect; the run needs only a message.)
  `BoundaryClears` still holds: the message fails visibly, so that pass does not
  run to its end.
- `LateSendIsBooked`: a success that is reported late "must reach the Reducer's
  late-report path so v2 can record an exposure" (`api_v1.py:1072`).  If another
  claim's failure closed the round first, or a hook that was rolled back left its
  stage in the recorder's memory, the books refuse the success
  (`runtime_v2.py:908`); its transaction is rolled back with the delivery report
  in it, and a message the user received is never charged.
- `OccurrenceStands`: "their false value is produced only by complete-window
  absence" (`user_model_v2_labels.py:222`).  The pass lists an exposure because
  *one* window ended and settles *all* its labels from no observations
  (`maintenance_v2.py:185`), so a recorded reply becomes silence, without any race.
- `NoWriteIsLost`: every write carries an optimistic concurrency check, says
  `runtime/README.md:384`.  A tick takes the expected version from a second
  read inside its transaction (`runtime.py:707`) but writes the copy of the first,
  so a contact charged in between is forgotten.  `OnlyTicksOverwrite` shows that
  nothing else does this, and `MessagesAreKept` that no message suffers from it.

**Divergences seen while reading, which no run shows.**

- An explicit boundary outranks the motivational algorithm
  (`runtime/README.md:1251`) and "is never overridden" (`runtime_v2.py:688`).  The
  verdict is asked for at `runtime_v2.py:604` and used by a commit that does not
  ask again: a boundary declared in between, its message ingested to the end,
  finds nothing to clear, and the attempt is committed under it.  Sending it is
  still refused by the last authorization.  `Delivery` has these steps;
  `KeepsThePromise` is what holds: one verdict given while no boundary stood is
  good for one intention.
- `observe_reply` records "the user's reaction to a sent proactive message"
  (`runtime.py:2607`) of an attempt in any state.  One that is sent after its
  observation is never closed by silence, because the sweep skips whatever has an
  observation (`runtime.py:757`; both only where the legacy user model is enabled,
  which is the default but not what `serve` does).  `SilenceEnds` speaks of all
  others.
- Dispatch is suppressed "while a proactive contact is still in flight"
  (`scheduler.py:234`).  A round that raises after its commit is retried on the
  gate that was read before it (`scheduler.py:507`), and may commit a second
  contact.  `OnlyRetriesOverlap` shows that this is the only way.
- A standard deployment wakes to think by itself (`runtime/README.md:1020`).
  `replan()` reads the database outside any handler (`scheduler.py:515`); its
  exception ends the loop, and the process stays up without ever thinking again.
  `KeepsThinking` says what holds as long as planning does not raise.
- A text re-coordinated as *rerender* is authorized and sent (`authorize.py:184`
  refuses *abort* and *resolved*); `api_v1.py:55-58` calls it a denial.
- `POST /delivery` says it reports "a delivery result for a send outbox row"
  (`api.py:677`) and takes any: a success that names the render row of an attempt
  that waits to be sent marks it *sent* and charges it, and its send row stays in
  the queue.  `Delivery` has that report, `RowsEndWithTheirAttempt` is what still
  holds, and `LiveRowServesItsAttempt` is shown for protocol v1, which asks for the
  kind.
- The reward ledger is keyed by contract and target, so a second message of a
  goal replaces the outcome of the first (`langchao_user_outcomes.py:69`).
- The revision comparison before a Langchao commit compares a value with itself
  (`langchao_live.py:159`); the rolling restart reads the pointer again instead of
  keeping the one it checked (`rolling_restart.py:219`).
- `list_open()` excludes *muted* matters, so they neither come back nor expire by
  a tick; `settle_from_deep_refresh` does not ask whether the matter is still
  unresolved; candidates of matters that a tick or a POST closes stay active; the
  guards look at 200 matters (`list_all(limit=200)`).

## 4. Proofs

Every invariant, action property and refinement that a passing run checks is
also proved, for every value of the constants.  The proofs assume the named
assumptions of the modules they extend (`DeliveryAssumption`,
`MaxAttemptsAssumption`, `TimeAssumption`, `HorizonAssumption`,
`ContractAssumption`, `BoundsAssumption`, `SchedulerAssumption`,
`RoundsAssumption`, `SwitchesAssumption`, `EnabledAssumption`,
`MirrorAssumption`, `StateRowAssumption`, `ProposalsAssumption`), which TLC
evaluates in the runs, and nothing else, except where a theorem says so itself.
They say that constants are numbers, switches or functions of the right kind; the
strongest is that no window is empty.

**Delivery** (`DeliveryProofs`).  The invariants of
`MCDelivery` are not inductive one by one.  `DeliveryInv` strengthens them:

- `RowsEndWithTheirAttempt` and `OneRowPerKind` need each other (a render that
  could be applied twice would queue two send rows; a second live render row would
  survive a report) and need `RowsFollowAttempts`: a send row exists only once
  its attempt was rendered, so the first usable render finds none;
- `ContactAccounting` needs that an attempt becomes *sent* only by the report
  that charges it;
- `PassInv` says that what a boundary's pass still has to do contains every
  attempt that could be sent and was there when the message came, and, as long as
  the boundary stands, every attempt that could be sent.  Commits of runtime_v2
  wait for the write session; those of langchao do not, and are on neither side
  of the claim: they need a boundary that does not stand, and the attempts they
  create were not there.

The argument has two halves.  Every step but two *narrows* (`Narrowing`): no row
comes to life, an attempt only moves towards its end and leaves no live row
behind, and a charge is made exactly for the move to *sent*.  The lemma
`NextStep` shows that every action is such a step, or a commit (`Commits`), or
the first usable render of an attempt (`Readies`).  `DeliveryInv` and the history property
follow once from each of these three instead of once from each of the actions.
`Implementation` proves `Spec => I!Spec` from the same lemma: a narrowing step is
`Speak` or `Close` of `Intention`, `AskVerdict` is `Permit`, a commit is `Intend`,
which uses the permission up, and a usable render changes nothing `Intention`
speaks of.

**Protocol v1** (`V1HostProofs`).  `Translates` proves `V1Spec => Spec`: every
step of the protocol is a step of `Delivery` or leaves its variables alone, so what
is proved of `Delivery` holds of the store under any adapters.  What is left are
the properties that speak of claims.  `HoldersDecide` needs no invariant beyond
types: `Fate` lists what one step can do to one row, and `EveryFate` shows that
every action does one of these; a claim that runs can only be ended by the report
that names its counter, or by a message known to be out.  The others rest on
`HostInv`:

- `LiveRowServesItsAttempt`, which protocol v1 keeps although `Delivery` does not:
  only the report of a send row charges (`OnlyReportsCharge`), and it takes that row
  out of the queue, which is the only live one of its attempt;
- `ClaimsWereMade`: a claim in progress has a row, whose counter reached it, so
  a new claim never overwrites an old one;
- `OneClaimEach`: the transmissions of an attempt number exactly the claims that
  are *sent*, so `ContactsWereMade` follows from the fact that only the report of
  such a claim charges;
- `GivenBackBeyondBudget`: a claim at or beyond `max_attempts` has a successor
  only if its holder gave it back without an outcome.  `nack` and
  `reclaim_expired` fail the row there and only `requeue` does not.

`TransmissionBudget` then counts: below `max_attempts` each claim was sent at most
once, and at or beyond it only the last one can be *sent*, so there is an injection
from the sent claims into `1..MaxAttempts` (`OneRowPerKind`, carried over from
`Delivery`, puts them all on one row).

**Settlement** (`SettlementProofs`).  `RoundTranslates` proves that a step of the
rounds is a step of `V1Host`, hooks that fail and restarts included, so `HostInv`
holds of `Settlement` without another proof.  `RoundsAreHosted` and
`RoundsKeepThePromise` draw the conclusion: what is proved of `Delivery` and of
`V1Host` holds end to end, under any engine and whatever its hooks do.

`RoundInv` adds one fact per attempt, `BookOf`, which says what the attempt's state, the acknowledgement, the audit and
its copy in memory say of one another.  `BooksAgree` alone is not inductive for
three reasons.

- The next hook continues from the copy in memory (`Loaded`), which a rollback
  leaves as it was.  `AuditOf` says that this copy never holds both outcomes,
  and holds one only when the message had been rendered; otherwise a hook could
  write an outcome on record that no acknowledgement names.
- A failed acknowledgement must stay true.  `FailedRowsAreClosed` says that no
  row fails without its attempt being closed in the same transaction, so a
  booked failure never meets an attempt that is still waiting.
- An exposure names a row (`Known`), and rows do not change their attempt.

`KeepingTheBooks` proves `RoundSpec => Book!Spec`: the commit of a round is
`Open` of `RoundBook`, the first report of an outcome whose hook applies closes the
book, and everything else leaves it alone, or lets a message go out.

**User labels** (`UserLabelsProofs`).  `LabelInv` is enough for the ledger and the
order of revisions: whatever writer comes last, the revision of a label only
grows, comparisons name revisions it has had, and an item of the pass is the only
one for its label.  `SettledInFull` needs `ComparisonInv`, which says why the pass can be
trusted although it lists exposures, reads labels, writes comparisons and closes
expectations in different transactions.  The reply's hook runs once for an
exposure.  Until it has (`Awaited`), a pass finds all four labels of an
exposure settled, so the first comparison closes the expectation and is one of
all four (`OpenInv`, `WorkInv`).  After it, no revision the pass has read is
compared under another label (`ItemInv`), and what is open although its window
ended is on the pass's list or was reopened by the hook (`SettleInv`).  None of this survives a statement that is taken
back, so all of it is stated for `faults = 0`, as the property is.

**Event mirror** (`EventMirrorProofs`).  That no line is written twice, and none
before its block is committed, needs only the table: `TableInv` says that a line
is queued at one depth, unwritten and not given up, and this holds through
everything that may fail.  That the file is complete needs `InStep`, the contract between
the three callbacks and the levels (`CallbacksOf`): the lines queued at a depth
are the rows of its level; a level with lines has a flush among the callbacks
that will run after COMMIT; its undo and release callbacks name its own frame, and
none reaches a level above.  `Unprotected` is the exception this had to make
room for: a level whose only lines were handed up to it has a flush but no undo
and no release callback of its own.  When it ends, the contract is broken and the run is no
longer `orderly`.  The proof takes the operators first (`HandedUp`, `Discarded`,
`LinesAreWrittenOrLost`), then each action twice: once for the table, whatever
the run was like, and once for `InStep` in orderly runs.

**Scheduler** (`SchedulerProofs`).  `CloseInv`: the latch is set while the worker
runs, and a closed database has a clear latch.  `GateInv`: unless the last sleep
was a back-off, a round that may still commit was started when nothing was in
flight, although the gate that said so is an interval old; nothing but the worker
can commit in between.  `OverlapTakesARetry` follows, with failures before and
after the commit and no assumption on either.

**Dispatch** (`DispatchProofs`).  `DInv` adds to the types what a running round
knows (`RunInv`) and whose claim is whose (`ClaimInv`).  A switch counts the
durable work in the transaction that publishes (`NothingDurable` implies
`Drained`), and a round commits only under the authority it finds there, so
`QuietWhenFrozen` survives both.  `RefusalInv`: a round that may be durable, its
commit unanswered included, is recovered and never refused.  `RolloutInv` follows
the restart through its stages up to `NewCodeOnly`.

**State row and proposals** (`ProposalsProofs`).  `RowInv`: as long as the version
stands, who holds the write session has the stored row in hand; a tick's copy
shows exactly the messages of the log.  It gives `MessagesAreKept` and
`OnlyTicksOverwrite` for `StateRow`, and `ProposalsRefineRow` (`PropSpec =>
RowSpec`) carries them over.  `VerdictInv` counts verdicts against
registrations.  `MatterInv` is `OneMatterPerSubject` and *Grounded*: a result is
applied only when the messages it rests on are in the log, without which a
refresh could open a matter about an event whose own matter comes later.

**Only model-checked**: the liveness properties `NothingHangs`, `SilenceEnds`,
`EveryAttemptEnds`, `WindowsAreSettled`, `KeepsThinking` and `DrainsInTheEnd`,
because they rest on fairness, which is out of the prover's reach.  The four
violations are what they are: counterexamples TLC finds.

## 5. Not modelled, and why

- Real-valued dynamics: emotion, motivation, hazard rates, memory scores, the
  legacy user model and the estimators of the second one.  What they decide is a
  choice of the models.
- Texts: prompts, renderer constraints, detection of boundaries and retractions,
  sameness of titles.  A model takes what the text does as given.
- Calls to language models, event and context endpoints, read-only routes.
- `delivery.py`, the in-process worker: it makes only calls that are actions of
  `Delivery`, in an order adapters of protocol v1 also have.
- The privacy deletion pipeline, offline consolidation and history import: long
  sequential jobs over tables that no modelled component reads.
- The connection pool, schema migrations, command line and settings.
- The simulations, black-box users and fleet scripts under `src/scripts`
  and the test host: a large share of the repository's lines, with no state of the
  Runtime.  Of them only the two dispatch scripts are modelled.
- Limits of 50 attempts and 200 matters in list queries: out of reach of a small
  instance.
- A crash between a message's transaction and its re-coordination
  (`runtime.py:1035`): the redelivery is a duplicate and does not re-coordinate.
  `Delivery` has the crash, but treats a redelivery as a new message.
- The daily budget among the guards of the commits: it is compared with a real-valued urge.
- Deep refreshes a host submits through the proposals endpoint itself, beside the
  Runtime's own.

What a continuation would take up: the semantic backlog and its triggers, and the
deletion pipeline.
