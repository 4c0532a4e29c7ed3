# AquaOps Copilot: verification project

This directory holds TLA+ models of AquaOps Copilot, the TLC runs that check
them on small instances, and theorems that TLAPS proves for every instance.
Paths below are relative to the repository; `jobs.py` stands for
`src/aquaops/tasks/jobs.py`, and so on. `PROJECT.json` links every definition
to the lines it models, every property to a mutation of the code that breaks
it, and every hazard to the properties that would catch it.

## The system

AquaOps is a FastAPI service with a PostgreSQL database, Celery workers on
Redis, a Qdrant collection of public documents and an in-process operations
graph that answers questions with budgeted tools.

| Component | State it keeps | Operations | What makes it correct |
|---|---|---|---|
| Ingestion worker protocol (`tasks/jobs.py`, `celery_app.py`) | `tasks` rows: state, Celery id, attempt, lease, expiry, retry count; messages | claim, advance to a retry, recover an expired attempt, ingest, end, retry, invalidate the cache | one live lease per task, bounded retries, ended rows stay ended, a task that was published ends |
| Task rows and transitions (`domain/services.py`, `api/routes/tasks.py`) | the same rows, `audit_events` | transition requested by an operator | only allowed transitions, one audit event each |
| Cases (`domain/services.py`, `api/routes/cases.py`) | `cases`, `audit_events` | create or find a case, read it | one case per owner and external key, durable answers |
| Authentication (`security/`, `api/app.py`) | `users`, `user_roles`; tokens | decode a token, compare its roles with the table | a token dies with its role |
| Tool policy (`agent/policy.py`, `agent/coverage.py`) | budget sessions; grants, receipts, evidence | authorize, issue, consume, redeem, mint, coverage gate | limits bound executions; one execution backs one batch of evidence |
| Operations graph (`agent/graph.py`) | one `AgentState` per run | route, authorize, run the tool, answer or refuse | an answer cites only what its own tool showed |
| Agent run store (`agent/state.py`, `api/routes/agent.py`) | bounded ordered map of results | save, load, retry under another id | the latest results, none replaced |
| Public diagnostics (`agent/tools.py`, `agent/public_diagnostics.py`, `data/public_window.py`, `data/public_anomaly.py`) | none | window aggregation, anomaly screening, checks of their results | answers are computed from registered bytes, windows add up, screens depend on their window alone and pass their own checks |
| Data quality and public history (`data/quality.py`, `data/public_history.py`, `scripts/profile_public_source.py`) | the CSV, its registered hash, the profile file | locate, verify and parse the CSV; profile it; write the profile | a profile on disk is complete and agrees with the window tool |
| Qdrant store (`rag/store.py`) | collection, payload indexes, `_initialized`, points | initialize, upsert, search | a store that is initialized has a prepared collection; a half-prepared one is completed and never refused; what is acknowledged is stored |
| Retrieval (`rag/hybrid.py`, `retrieve.py`, `demo_runtime.py`, `local_models.py`) | query cache of the encoder | BM25 and dense search, fusion, rerank, four variants | evidence is what was retrieved, fusion is fair, the cache holds the latest queries |
| Evaluation (`rag/evaluation.py`, `rag/demo_evaluation.py`) | counters of a report | load a dataset, judge a case, summarise | reports add up, both evaluators agree, an unsafe answer is seen |
| Retrieval cache invalidation (`cache/service.py`) | Redis keys | scan and delete | nothing stale is left behind |
| Corpus acquisition (`rag/acquire.py`, `public_corpus.py`) | download, staging and destination directories | download, verify, extract, write the receipt, rename into place, clean up | what is at the destination is complete and verified, and is never replaced; reports are true |
| MCP server (`mcp/public_server.py`) | none | three read-only handlers | refuses what it must refuse, shows only what was retrieved |
| Forecast contracts (`forecasting/contracts.py`) | none | validate points, manifests, metrics and deliveries | an accepted delivery is complete, looks only back, and claims only earned levels |
| Demo tooling, research graph, migrations | none that changes | command lines, one refusal, schemas | |

How they interact: API threads and workers share PostgreSQL at READ COMMITTED.
A worker writes the Qdrant collection, then its row, then deletes cached
retrievals. API threads run the graph; each run owns a budget session, and all
runs share the result store, behind a lock. Stores in several processes share
the Qdrant collection, and acquisitions the destination directory. The history
tools read a CSV and a registry that the host replaces. Retrievals share the
cache of their encoder, behind its lock. Nothing else is shared.

What is hard: three statements of a claim interleave with other workers and
operators; Celery redelivers, duplicates and loses messages and processes;
leases and broker visibility are two clocks of different length; a retry is
both a row and a message, written one after the other; two clients create one
case; grants and receipts can be kept and presented again; two runs draw one
id; results are evicted while others are saved; a store meets the collection
that another is just preparing; a rename competes with another one, and is
denied now and then; a file changes between the steps that locate, verify and
parse it; one statistic is computed in two modules and checked in two more; a
reranker is not trusted; two evaluators meant to agree are written apart.

## Modules

| Module | What it is |
|---|---|
| `TaskLifecycle` | abstract: tasks move along `ALLOWED_TRANSITIONS`, one event per move |
| `IngestionTasks` | workers, operators, broker, faults; implements `TaskLifecycle` |
| `IngestionTasksProofs` | eight theorems about it |
| `CaseRegistry` | abstract: a key gets one case, once; every answer names it |
| `Cases` | `POST /v1/cases` from token to answer; implements `CaseRegistry` |
| `CasesProofs` | five theorems about it |
| `ToolExecutions` | abstract: bounded executions, each cited at most once |
| `ToolSessions` | budget sessions and their capabilities; implements `ToolExecutions` |
| `ToolSessionsProofs` | five theorems about it |
| `AgentRuns` | composes `ToolSessions` with the graph and the result store |
| `AgentRunsProofs` | six theorems about it |
| `PublicStore` | stores preparing and writing one Qdrant collection |
| `PublicStoreProofs` | five theorems about it |
| `Publication` | abstract: a destination is published once, whole, by one acquisition |
| `PublicAcquisition` | acquisitions of public archives; implements `Publication` |
| `PublicAcquisitionProofs` | five theorems about it |
| `PublicWindow`, `PublicAnomaly`, `PublicQuality` | operators: what the window, the screen and the profile compute, and the validators of their results |
| `PublicHistory` | calls of the history tools and the profile script beside a host that replaces the file |
| `Fusion`, `PublicRetrieval` | operators: reciprocal-rank fusion, and a retrieval by each variant |
| `PublicEvaluation` | the MCP server and both evaluators as clients of retrieval |
| `PublicEvaluationProofs` | five theorems about them |
| `ForecastContracts` | operators: the validators of a forecast delivery |
| `PublicDataProofs` | six theorems about `PublicHistory`, four about what `ForecastContracts` accepts |
| `MC*` | values for the constants; the `.cfg` files give bounds and properties |

Each detailed module contains, next to the action it alters, the *broken
variants* that `PROJECT.json` lists as mutants: the same action with a
plausible mistake. They are part of no specification.

### IngestionTasks

`row[t]` is the row of `tasks` (columns `state`, `worker_token`,
`worker_attempt`, `worker_lease_token`, `worker_lease_expires_at`,
`retry_count`), `audit[t][a]` counts audit events, `broker` holds messages,
`worker[w]` a process with the local variables of the Celery task,
`operator[o]` a transition request between its SELECT and its UPDATE.

| Code | Actions |
|---|---|
| `ingest_public_document` receives a message | `Deliver`, `Ack` |
| `_claim_task` | `ClaimQueued` / `ClaimMisses`, `SelectClaimed`, `AdvanceAttempt` / `AdvanceMisses`, `RecoverAttempt` / `RecoverMisses` |
| handler and `run_public_ingestion` | `Upsert`, `HandlerReturns`, `HandlerTimesOut`, `HandlerFails` |
| `_finish_attempt` | `FinishSucceeded`, `FinishFailed`, `FinishRetry`, `ClaimLost` |
| `except TimeoutError`, `self.retry` | `Republish`, `RepublishFails` |
| cache invalidation | `InvalidateCache`, `InvalidationFails` |
| `transition_persisted_task` | `OperatorReads`, `OperatorWrites`, `OperatorConflicts` |
| broker and failures | `Publish`, `Duplicate`, `ChildLost`, `WorkerLost`, `DatabaseFails` |

An UPDATE that finds its row commits with its audit event as one step. An
UPDATE that finds none leaves the transaction open at READ COMMITTED, so the
next statement is a step of its own and sees what others committed; `now` is
read once, before the first statement, as in the code. Whether attempts remain is
decided twice, as in the code: by the handler, which schedules the next one in the row
(`HandlerTimesOut`), and by the task, which publishes it (`Republish`). After a
last attempt the second decision publishes nothing, and is no step of the model.

Abstractions. The broker is a set, so two equal copies of a message are one:
a copy that is consumed while its receiver runs may be put back by
`Duplicate`, so every order of deliveries remains. Processes read one clock;
skew is not modelled. A lease token is new in the sense that no row and no
process holds it. The retry countdown of at most four seconds is below a tick,
as a lease is 30 minutes. Malformed messages, messages for unknown tasks, and
the owner check of the transition route change no state and are left out.

### Cases

`case[i]` and `audit[i]` are the committed rows, `request[r]` a thread with its
uncommitted row, `roles` the users table, `issued` the roles for which a token
may still be out. `Select`, `Insert`, `InsertConflicts` and `Reselect` are the
statements of `create_case`; `Commit` and `Fail` are `session_scope`; an INSERT
is not enabled while a rival transaction holds the same key uncommitted, which
is how PostgreSQL enforces `uq_cases_owner_external_key`. A role stands for a
user's set of roles: `operator` for the sets that can write cases (`admin` is
one), `viewer` for the others, `none` for a user without a role. Titles do not
matter to the properties. `held` is a history variable: whether the owner could write at some
time since the request was sent.

### ToolSessions and AgentRuns

A grant is a record of session, tool and nonce, where the nonce stands for
the identity of an `object()`; a receipt is the same record, and any thread may
present either again, in any session. `Issue`, `Consume` and `Mint` are the
functions of the same purpose in `policy.py` and `coverage.py`, one step each
because each holds the session's lock. `valid_budget`, `may_consume` and
`authorize_public_tool_call` translate the validators of `ToolBudget` and the
order of the refusals.

`AgentRuns` uses `ToolSessions` through `Policy == INSTANCE ToolSessions`; the
graph is its only client. A question is one of six kinds by what it makes the
graph do; what a tool computed is nondeterministic (`Answer`, `ToolFails`).
`Save` and `SaveRefused` are the result store and the loop of `submit_run` that
draws another id; each attempt has a session of its own.

### PublicStore

`collection` is what Qdrant holds: the vector configuration (absent, the fixed
one, or another) and the type of each payload index; `points` are the stored
chunks; `store[s]` is an instance with its caller's place, the next of
`_PAYLOAD_INDEXES`, and `_initialized`; `origin` is a history variable, who
created the collection.

| Code | Actions |
|---|---|
| building a store, after a failure another one | `Open` |
| `ensure_public_collection` | `CheckCollection`, `Create`, `CreateConflicts` (409), `Validate` |
| `_ensure_payload_indexes`, end of `initialize` | `CreateIndex` |
| `upsert` | `Upsert` |
| calls that fail | `CallFails` (no effect), `CreateAnswerLost`, `IndexAnswerLost`, `UpsertAnswerLost` (effect, no answer) |
| another program | `ForeignCreates` |

Every call to Qdrant is one step. An upsert whose answer is lost may have
written any part of its batch. Creating a keyword index where there is one
already is taken to change nothing. Search reads and is left out; a chunk is
valid or not, and its vectors and payload are not modelled, as point ids are
derived from chunk ids and the same chunk is always the same point.

### PublicAcquisition

`acquirer[a]` is one invocation of `acquire_public_source`, with its place,
source, archive, attempt and outcome; `staging[a]` and `download[a]` are its
directories; `destination` is what is at the destination; `posix` says whether
a rename replaces an empty directory; `committed` is a history variable.

| Code | Actions |
|---|---|
| registry and destination checks | `Start` |
| downloader, checksum | `Transfer`, `Verify` |
| staging directory | `Stage`, `StageFails` |
| extraction and receipt | `ListMembers`, `ExtractMember`, `WriteReceipt`, `StagingFails` |
| `_commit_staged_directory` | `BeginCommit`, `CheckDestination`, `Replace`, `ReplaceDenied`, `CommitFails` |
| `finally` and the end of `with` | `Clean`, `Discard`, `DiscardFails` |
| failures, others | `Crash`, `Occupy` |

The rename is one step, as the operating system makes it; all checks before it
are steps of their own. A member or receipt that is written in part counts as
absent, which is what a reader of a staging directory that never gets published
would see. Two archives with the registered checksum are the same archive.
Nobody removes or changes what is at the destination. `DiscardFails` shows one
case worth knowing: the download directory cannot be removed after the rename,
and the invocation reports a failure although the source is published;
`ReportsAreTrue` says that this is the only such case.

### PublicHistory

`csv` is the file and `registered` what the registry says of it; a version
stands for both its bytes and their hash. `call` is one request to a tool, with
the door it came through (graph, agent tool or MCP server), and `script` the
profile script; `derived` is the profile on disk.

| Code | Actions |
|---|---|
| checks of a request | `Request` |
| `_validated_public_csv_path` | `Locate` |
| `_load_registered_csv_sha256`, `_read_verified_csv_bytes` | actions of these names |
| parsing, the tool, the check of its result | `Parse` |
| `profile_wwtp_langmatt_csv`, `write_profile`, `_write_profile_atomically` | `profile_public_source`, `write_profile`, `WriteAtomically` |
| the acquisition script and the user | `Replace`, `Register` |

The file may change between any two steps of a call. One call exists per
behaviour, and one run of the script at a time: they share nothing but the
files. The script runs again after any end, so a profile meets one that is
already on disk; an error or a crash before the rename leaves that one alone.

Numbers. A reading is a float of `PRECISION` bits, in units of the least float;
`UNIT` is 1.0. Every addition, subtraction, product and quotient of the window
and of the screen is rounded to the nearest float, ties to even, in the order of
the code (`Rounded`): totals and means, and of a screen its median, deviations,
interpolated quartiles, scale and score. The constants 1.4826, 1.349 and 3.5 are
the floats nearest to them. `Ulp` looks for the unit, one of the powers of two up
to `MAX_EXPONENT`, in which a number has `PRECISION` bits (`Power`, a recursive
function, as the provers do not know `^`). Beyond `MAX_FLOAT` a number is not
finite: as in `_require_finite`, a statistic that overflows makes the screen
`Unavailable`, and a cell does not parse. A sorted list is never built, but its
k-th element is the reading that fewer than k readings are below and at least k
are at most (`Smallest`). Rows are picked by their positions, so equal readings of
different rows stay apart. Timestamps are hours, so the median interval of a
profile is kept doubled; `irregular` marks a row with more cells than the header
or a padded timestamp.

### PublicRetrieval and PublicEvaluation

A whole retrieval is one step: its providers are local to the call, and the
one thing shared, the encoder's cache, is read and written under a lock. What
the providers do in a call is a record of the *world* `w`: the scores of BM25,
whether the model encodes, what Qdrant answers, and what the reranker returns,
which is not trusted. A chunk is its id, its body and its score; equal ids with
other bodies conflict. `Fusion` keeps shares of `1 / (60 + rank)` as integers
over a common multiple, so equal sums are equal; near-ties of floats are out of
scope. `Sorted` lists a finite set in a strict order, by counting what precedes
an element.

`PublicEvaluation` has one client per behaviour: `Encode`, `Serve` and `Return` are the
MCP server's handler, `Load` and `Evaluate` the registered evaluator
(`_parse_registered_dataset`, `evaluate_retriever`) or the demo evaluator
(`_parse_dataset`, `_evaluate_variant`; `second` holds the counters the other evaluator would
have). A case is one step: the clock is read before and after the call, and may
fail at either reading. Whether a limit in
an MCP request is well typed, and the filters of URLs and versions, are left out.

### ForecastContracts

The validators of `ForecastPointV1`, `ForecastRunManifestV1`, metrics and
deliveries, as predicates. They are pure, so there is nothing for TLC to
explore and no run: `PublicDataProofs` says what follows from acceptance,
for deliveries of any size. Instants count microseconds, estimates are integers
in place of finite floats, levels and ratios count thousandths; patterns of
tokens, units, hashes and time zones, and the two Arrow schemas, are left out.

## Runs

| Run | What it shows |
|---|---|
| `ingestion_contention` | two Celery ids with two retries, two workers and an operator compete for one task under any single fault: the audit trail tells the state, success means indexed, two processes execute a task only if one lease has run out, retries stay in budget, `TaskLifecycle` is implemented |
| `ingestion_progress` | under fairness and one fault (a lost worker container, a duplicated message, a failing cache) every published task ends; at every moment a message or a process still carries it to its end (`NothingIsForgotten`, which needs `Reliable`: see *Proofs*); a success clears the cache |
| `ingestion_requeue` | expected violation, see *Findings* |
| `tool_sessions` | two sessions, four grants, presented in any order and session: budgets balance, evidence is backed, `ToolExecutions` is implemented |
| `agent_runs` | three concurrent runs, a store of two entries, a repeated id: answers are backed, charges are traced, the store keeps the latest results, none is replaced, every submission completes |
| `cases` | two requests race for one key, one more asks for another key, with a failure, a role change and resends: one case per key, durable answers, revocation, `CaseRegistry` is implemented, every request ends |
| `acquisition` | two acquisitions of any of four sources aim at one destination, with crashes, denied renames and somebody else's directories: what is published is complete, reports are true, acquisitions end, `Publication` is implemented |
| `public_store` | three stores prepare one collection, any call fails any number of times, and another program may have created it: initialized means prepared, refusals are just, foreign collections stay, acknowledged chunks are stored |
| `public_history` | one call of any kind over any of twenty-four histories, among them some whose quartiles round and some whose statistics overflow, each in another operation; and profiles written one after another, while file and registry are replaced between the steps: answers are about registered bytes, windows compose, screens are coherent and accepted by their own boundary, profiles are whole and agree with the window tool, and while sums are exact the means fit |
| `public_rounding` | expected violation, see *Findings* |
| `retrieval_evaluation` | four queries in any order through the MCP server, and suites through both evaluators, with every variant and with providers that fail, repeat, conflict and tamper: the cache holds the latest queries, evidence is what was retrieved, fusion is fair, reports add up, the evaluators agree |
| `evaluation_clock` | expected violation, see *Findings* |

Properties worth a word. `WindowsCompose` cuts an answered window in two and
recomputes: counts add up, extremes are those of the halves. `ScreeningIsCoherent` recomputes an answered
screen three ways. With two rows exchanged, or without a row outside the window, it is
the same. With every reading negated it is the mirrored screen, unless its scale
rests on quartiles that are interpolated: `lower + (upper - lower) * fraction`
rounds towards one side, so their distance may differ from that of the mirrored
ones by a rounding, and the property does not claim otherwise. With another
reading of the file as the target, centre and scale stay and the score moves the
same way; an anomaly that moves further out remains one, and the screen is refused
only for a target further out, whose score overflows. `OwnScreensAccepted` sends every computed
screen through the boundary of the tools, with what rounding makes of scales and
scores (a score that rounds to zero has no direction). `ProfileAgrees` compares the profile with a window over
the whole file, which another module computes. `MeansFit` holds what depends on
rounding: no window and no profile is refused for its mean, and the two modules'
means agree. It is stated for files with `ExactSums`: the readings of a column are
multiples of one power of two, and so small that a float holds the sum of as many
as the file has rows. For other
readings (three of 0.1) it is false, see *Findings*. `EvaluatorsAgree` replays what
one evaluator saw through the rules of the other. `FusionIsFair` says
that fusion loses nothing and puts no chunk behind one that neither list prefers to it.

### Bounds

- `MaxTime`: a lease lasts 1 tick and the broker's visibility is 2, so 2 or 3
  ticks see a lease run out, a redelivery after that, and a takeover.
- `Leases`: three names for two processes and one row; a fourth would be an
  idle name.
- `MAX_INGESTION_RETRIES` is 2 in the code and in `ingestion_contention`: a
  first, a middle and a last attempt; `ingestion_progress` has 1. The theorems
  hold for any value.
- `MaxFaults` is 1. A task executes twice when a message is delivered again
  while its first receiver is slow, which takes one fault. The theorems
  hold for any number.
- `tool_sessions` limits tools to 3 in total and 2 for a tool, where the code has 6 and 2: with
  three tools of two calls each the code's total can never be the tighter limit;
  with 3 it is, so that both are exercised. The theorems hold for any limits.
- Two requests for one key is the race; a third for another key of the same
  owner shows that keys do not disturb each other. Three ids are one for each
  request, and one is left over.
- Three run ids and one collision: a store of two entries overflows, and a
  request whose id is taken succeeds with its second.
- Two acquirers are the race for a destination; a third would meet what the
  second meets. The four sources are one with several members of every kind,
  one with a single file, one with an unsafe member and one that is not
  eligible. The four attempts are the code's.
- Three stores: one creates the collection, one meets a conflict, one meets the
  half-prepared collection. The six indexes are the code's; two batches share a
  chunk, and one holds a chunk that is not valid. Failures are not bounded.
- Histories of up to six hours (spread, equal, equal but for one, with gaps, out of
  order, repeated, broken) and windows of one to five: a baseline of
  `MIN_HISTORY_POINTS` = 2, where the code has 48, leaves room for rows before,
  inside and after it. `MAX_HOURS` is 5 for 168. `PRECISION` 6, `MAX_EXPONENT` 3
  and `UNIT` 8 stand for 53 bits, 2045 and 2^1074; the largest float is 504, which is
  63 times 1.0. Readings of 0 to 88 and small sums of them are exact; others round
  (33 + 34), overflow (320 + 64 + 64 + 128), or make the median, a deviation, the
  scale, the span of the quartiles or the score overflow. `public_rounding` has 3
  bits, where the rounding of small sums shows. The theorems hold for any
  precision of at least 3 bits, any largest exponent and any unit.
- A corpus of three chunks and a fourth that only Qdrant knows; four queries
  for a cache of two (the code has 256): each can be evicted, asked again, and
  refused. Ranks are counted to `TOP` = 2 for 5, and the percentile is the 60th
  for the 95th: with suites of three cases both differ from a maximum.
  `MAX_CASES` is 3 for 200: no suite of the run is longer, so the refusal of a longer one is in the
  model and not exercised.

Symmetry is used in safety runs only, over ids, nonces, leases and processes
that no definition tells apart.
`CHECK_DEADLOCK FALSE`: every instance stops when its bounds are used up and
all its work is done.

### Fairness

`IngestionTasks!Fairness`: a started process takes its next step (a worker runs
its task to the end), some message is delivered while a worker is idle and a
visible message waits, and time passes. Producers, operators and faults are
free to do nothing. `Cases` and `AgentRuns`: a thread goes on with the request
it handles. `PublicAcquisition`: an invocation goes on
unless it crashes. FastAPI runs these handlers in a thread pool to their end, and
PostgreSQL grants a lock once its holder is gone; weak fairness on the whole handler is enough,
as an INSERT that waits becomes enabled for good when its rival has ended, and
the number of rivals is bounded by the number of requests.
`ingestion_progress` allows `worker_lost`, `duplicate` and `cache`: for a
failing database, a broker that cannot take the retry, and a lost child process
the code has no recovery (see *Findings* and the hazards).

## Findings

**A requeued message is dropped.**
`task_reject_on_worker_lost=True` (`celery_app.py:9`) has the message of a dead
child process requeued at once. Recovery requires the dead holder's lease to
have expired (`jobs.py:128`), and it lasts 30 minutes. So the redelivery
fails with "task attempt already processed" (`jobs.py:138`), is acknowledged,
and the row says `running` for ever, with no message left. The tests of recovery
(`test_tasks.py:372` and `:460`) set the expiry into the past by hand.
`ingestion_requeue` shows it. The loss of a whole container is
different: there the broker (Redis, with Celery's default visibility timeout of an
hour) waits longer than a lease, and `ingestion_progress` shows that the task is taken over.

**A module refuses its own result.** `statistics.fmean` (`quality.py:336`)
rounds the sum and then the quotient, so the mean of three readings of 0.1 is
0.10000000000000002, and `quality.py:244` refuses a profile whose mean is above
its maximum, although `quality.py:165` says it accepts the shape produced by
this module. `public_window.py:102` computes the same mean and
`agent/tools.py:74` checks it in the same way: a window of three readings of
0.1 is answered as unavailable evidence. `public_rounding` shows it with a short
mantissa; `MeansFit`, checked by `public_history`, says that without a rounded
sum there is no such refusal.

**A failing clock hides an unsafe answer.** `docs/public-rag-evaluation.md:43`
says that any structurally valid evidence makes a refusal case an
`unsafe_answer`, and line 44 that a failing clock makes a case a `clock_error`.
`evaluate_retriever` looks at the clock before the response
(`evaluation.py:214`), and `_controlled_non_answer` counts every failure of a
refusal case as a correct refusal (`evaluation.py:567`). So a refusal case that
was answered, while the clock failed at its end, raises the refusal accuracy.
`evaluation_clock` shows it. The demo evaluator has no such case.

## Proofs

The theorems assume only the named assumptions on constants (`ConstantsOK`,
`LimitsOK`, `RunsOK`, `CasesOK`, `StoreOK`, `AcquisitionOK`, `FloatsOK`,
`HistoryOK`, `RequestsOK`, `FusionOK`, `RetrievalOK`, `EvaluationOK`), which TLC
evaluates in every run, and hold for any number of processes, messages,
requests, ids, retries, faults, stores, acquirers, rows, chunks and cases.

**IngestionTasksProofs.** `TypeCorrect`, `TerminalRowsAreFinal`,
`RetryBudgetHolds`, `LeasesExclude`, `AuditTrailHolds`, `SuccessesAreIndexed`,
`TasksImplementLifecycle`, `NoTaskIsForgotten`. Two lemmas carry the case analysis: `RowStep` lists
all that a step may do to a row, `ProcessStep` all it may do to a process; each
invariant is then proved from these lists and not from the thirty actions.
The strengthenings:
- `Shape`: types, busy processes hold a Celery id, only a process with retries
  left is about to schedule one;
- `Requests`: a pending transition is one that is allowed;
- `Budget`: `RetryBudget`, with every retry in a message or about to be sent
  counted by its row (`Scheduled`, `Untried`). `RetryBudget` alone is not
  inductive, as a message with a large retry number would break it;
- `Leased`: an executing process still has its lease in the row unless its
  deadline is past, leases are distinct, and deadlines date from one reading of
  the clock;
- `Trail`: the audit trail, with `worker_token` set only by a recorded start;
- `Upserted`: a process about to record success has indexed its source;
- `Kept`, for `NoTaskIsForgotten`: a queued task that was published has a
  message or a process about to claim it (`Announced`), and a running one that a
  worker claimed is `Driven`: by a message that will find the row open whenever
  it is delivered (`Waits`), or by a process that runs its attempt, is about to
  publish the next, or is on its way to the UPDATE that admits it. The last
  needs the columns of the row, and what a rival's UPDATE makes of them: whoever
  closes the row to one carrier is the next carrier.

`NothingIsForgotten` speaks of deployments that are `Reliable`: the database,
the broker's intake and child processes do not fail, and the broker's visibility
timeout is longer than a lease. Celery's default on Redis is an hour against the 30
minutes of `WORKER_LEASE_DURATION`; with a shorter one a redelivery would find the lease alive and
be dropped, as in the first finding. Lost containers, duplicates, an operator
and a failing cache are within it.

**CasesProofs.** `TypeCorrect`, `KeysAreUnique`, `AnswersEndure`,
`RevocationHolds`, `CasesImplementRegistry`. `OneCasePerKey` speaks of
uncommitted rows too, as otherwise a commit could break it; the rest of the
invariant says that a pending row is new and belongs to one transaction, what a
request found is committed or its own, a row has one creator, and rows and
audit events correspond. `KeysMap` then gives the refinement mapping a value.

**ToolSessionsProofs.** `TypeCorrect`, `BudgetsBalance`, `ReceiptsNameGrants`,
`EvidenceBacked`, `SessionsImplementExecutions`. The invariant counts:
consumed nonces and receipts correspond, nonces name one grant, and the three
counters of a session add up to the cardinality of its executions.

**PublicStoreProofs.** `TypeCorrect`, `InitializedIsPrepared`,
`OnlyForeignIsRefused`, `IncompatibleIsLeftAlone`, `AcknowledgedIsKept`.
`Settled` says what each place of a store implies of the collection (a store
that creates indexes has a compatible collection in which the ones before
`next` exist), `Owned` that a collection no foreign program made is compatible,
and `PointsAreAccepted` is the second half of `AcknowledgedIsStored`. The lemma
`Grows` carries them: no step takes an index or a point away.

**PublicAcquisitionProofs.** `TypeCorrect`, `PublishedDataIsComplete`,
`ReportsHold`, `OccupiedRemains`, `AcquisitionsImplementPublication`. `Staged`
says what each place implies of the invocation's own directories (at the rename,
its staging directory is what is to be published), `Reported` ties outcome, place
and `committed` together, and `Published` says that the destination is the
complete directory of the one committed acquisition, or holds no data.

**AgentRunsProofs.** `TypeCorrect`, `AnswersBacked`, `ChargesTraced`,
`StoreIsLatest`, `StoredResultsStay`, `RunsKeepPolicy`. `CarriesItsOwn` says
that the session, grant and receipt of a run are those of its own attempt and
question, `Charges` what each place of a run implies of its session (none
charged, or exactly one nonce), and `Backed` is `AnswersAreBacked` for one
request. `OthersStay` makes the proof modular: a step touches one run and the
sessions of its request, so one lemma per action suffices. `LatestGrows` and
`StoreStep` do the sequence reasoning: what the latest distinct saves become
when one more is appended. `RunsKeepPolicy` is the composition: every behaviour
of the graph is one of the budget sessions (`Spec => Policy!Spec`), so the
theorems of `ToolSessionsProofs` hold of them.

**PublicEvaluationProofs.** `EncoderRemembersTheLastQueries`: `Ends` says that the cache
is the end of the list of the encoder's queries, each at its last place, and
`Remembering` that a hit, a miss and an eviction keep it so.
`AnswersAreRetrieved`: `Retrieved` says that what the server holds is what one
call returned; `HybridIs` and `SnapshotIs` follow an entry through fusion, an
untrusted reranker and its check. `FusionOrdersFairly`: `SortedLists` shows that
counting predecessors lists a strict order, `FuseIs` that deduplication and the
sum of two falling shares keep both rankings' preferences.
`EvaluatorsReportTheSame`: `Agreed` compares the two sets of counters after
every case (`JudgedAlike`); it needs that an answer names a chunk once, which
`EvaluationOK` assumes of what Qdrant returns (points have distinct ids) and the
proof derives for every variant. `TheReportAddsUp`: `Tally` adds the counters up
to the cases, `Kept` ties each latency to the case it was measured in, and
`PercentileIs` shows that the index the code computes is the nearest rank.

**PublicDataProofs, history.** The invariant `IInv` says what the stages of a call
imply: while it parses, it holds bytes that were registered when it asked
(`Holds`), and it is answered with what they say or with a refusal
(`Faithful`); a profile on its way to the disk, and the one there, is one of a
version (`Profiled`). Everything else is about pure operators, for any rows:
- `AnswersRegistered` follows from `IInv`.
- `WindowsTile`: the positions of a window are the disjoint union of those of
  its two halves, so counts add up, and the least and greatest of a union are those of
  the parts (`WindowsMerge`).
- `RoundedByUlp`, `RoundedAt` and `RoundedCrosses` say what rounding does for any
  precision: it returns a float, leaves floats alone, is odd, and keeps order
  (`RoundedIsFloat`, `RoundedSame`, `RoundedMirrors`, `RoundedRises`). The proofs
  about screens and means use nothing else of it.
- `ScreeningCoheres`: `SmallestIs` characterises an order statistic by two
  counts, and a bijection of positions that keeps the readings keeps the counts.
  Exchanging rows and removing a row beside the window are such bijections
  (`SwappedIs`, `RowsBesideGo`), so whatever is computed from order statistics
  stays (`ScreenStays`). Negation takes the k-th smallest to the k-th largest:
  medians and deviations mirror because rounding is odd, and quartiles that are
  readings change places (`MedianMirrors`, `SpreadMirrors`, `ScreenMirrors`).
  Another target changes only the score, which rises with it because
  subtraction and division rise and so does rounding; nearer to the centre than
  an answered target nothing overflows (`ScoreRises`, `ScreenFollows`).
- `OwnScreensPass`: whatever the outcome, the screen's fields agree the way the
  boundary demands; the scale is never negative, since a deviation is not and
  the third quartile, rounded, is not below the first (`QuartilesRise`).
- `ProfilesAgree`: the window from the first to the last hour holds every row
  (`WholeFile`), and on rows that the history tools can read the profile's notion
  of an empty cell is theirs.
- `MeansAreFit`: the window and the profile get their means from one lemma about
  the readings of a column, whatever the rows. Running totals are recursive functions of a position;
  `Induction` proves what holds at the first position and passes to the next by
  looking at the least position at which it fails, so no induction theorem is needed.
  `PowersAre` gives the powers of two, `SumRuns` and `TotalsAreExact` the sum: a
  sum of small multiples of a power of two is not rounded. A quotient is rounded,
  but between two limits that are floats, and rounding cannot pass a float
  (`RoundedWithin`), so the mean lies between the extremes
  (`MeanIs`) for the window and for the profile, and is the same number in both.
  The theorem says nothing of decimal readings such as 0.1, which are multiples of no
  useful unit; there `public_rounding` is the counterexample.

**PublicDataProofs, forecasts.** `AcceptedIsComplete`: every forecast of a delivery
has each declared horizon in exactly one row. `AcceptedLooksBack`: no training,
calibration, row or metric is younger than an instant that is forecast, across
rows of different origins, which no validator states. `AcceptedLevelsAreEarned`:
only a ready row with ordered bounds and data that did not fail claims a level,
and a persistence forecast never does. `SampleIsAccepted` shows a delivery that
is accepted, so that the three are about something.

`TypeOK` of the modules proved about is an invariant of no run, as their
theorem `TypeCorrect` covers every instance. `TerminalRowsAreFinal`,
`ReceiptsNameGrants` and `OccupiedRemains` are proved and not run either: the
refinements the runs check imply what they say.

Model-checked only: liveness (`EveryTaskEnds`, `EveryRequestEnds` and the like),
which is beyond the prover, and the three expected violations.

## Not modelled

- Text, layout, logging, digests and schemas, except as "well formed or not".
- The retrieval cache service (`cache/service.py`): nothing in the source writes
  the keys it deletes, so nothing can race with it. Its one call is a step of
  `IngestionTasks`.
- What follows when the broker cannot take a retry (`RepublishFails`) or the
  database fails at the end of an attempt (`DatabaseFails`): both are steps of
  `IngestionTasks`, but no property says that the task ends, as nothing in the
  code takes it up again. `NothingIsForgotten` and `EveryTaskEnds` are checked
  without them.
- Tokenization, model loading, the choice of a reranker's backend; the field by
  field serialization of the MCP server; the four tools that always report a
  missing capability.
- Chunking and `extract_verified_archive`, which only tests call with archives.
- Demo tooling and command lines: I/O. Migrations and the research graph:
  nothing to interleave.
- The SQLAlchemy listener that rejects changes to audit events: no modelled
  action changes one.

## Plan

Done: the ingestion protocol, the tool policy with the graph and the result
store, cases, the vector store, acquisition, the history tools and the profile,
retrieval with both evaluators, the forecast contracts; proofs about all of
them. Every safety property of a passing run is a theorem.

Next, in this order:

1. Proofs: that a collection that was prepared stays prepared.
2. Operators for chunking (`public_corpus.py`): chunks cover their document and
   overlap as configured.
3. The dataset and corpus loaders of the demo, as `PublicEvaluation` has them for
   the evaluation datasets.
4. `Readiness` of the API shell.
