# A TLA+ model of the contract review workflow

The program reviews a contract: it parses an uploaded document into clauses, has a model
(or a heuristic) extract their details, checks them against a policy, and approves the
contract by itself or interrupts for a reviewer. LangGraph runs the workflow and keeps its
threads in a checkpointer; an audit store (SQLite, a JSONL stream, Markdown reports) keeps
what happened; a FastAPI service puts it on the network. What is hard about it is not any
one function. It is that one run lives in two stores that know nothing of each other, is
carried on by several HTTP calls in worker threads, and can be cut at any statement.

Paths are relative to the repository; `nodes.py` and its neighbours are in
`contract_review_langgraph/`.

## The system

| component | state | operations | correct when |
|---|---|---|---|
| audit store, `audit.py` | table `runs`, table `events`, `events.jsonl`, reports | `register_run`, `append_event`, `mark_review_pending`, `mark_review_completed`, `finalize_run`, `write_report`, `get_run`, `list_pending_reviews`, `initialize_audit_store` | the two event streams agree; every outcome shown has its event; timestamps are never taken back |
| nodes, `nodes.py`, and edges, `graph.py` | the channels of a thread (`state.py`) | seven nodes, three conditional edges | failures reach the report and no reviewer or approval; every run settles |
| checkpointer, `checkpointing.py` | the threads | chosen by `LANGGRAPH_CHECKPOINTER`; the library saves a checkpoint after each node | paused threads survive a restart |
| HTTP API, `api/main.py`, `api/schemas.py` | none of its own | `POST /api/run`, `POST /api/resume/{id}`, `GET /api/runs/{id}`, `GET /api/pending-reviews` | an answer names the outcome that was written; a decision is honoured once; the inbox lists what can be resumed |
| rate limiter, `api/rate_limit.py` | admitted calls per address | `is_allowed` | no window of 60 s admits more than 10 |
| policy, `policies.py` | none | `load_policy_pack`, `evaluate_policy` | auto-advance only what every rule lets through |
| extraction, `llm.py`, `prompts.py` | none | `extract_contract_details`, providers, heuristics | one valid extraction for each clause, or an error |
| parsing, `parsing.py` | none | `read_contract`, `normalize_text`, `chunk_into_clauses` | clauses in order, at disjoint positions |
| reviewer edits, `nodes.py` 321-346 | none | `_apply_reviewer_edits` | no clause lost, invented or duplicated |

How they meet: `main.py` calls `graph.invoke` in a worker thread (`asyncio.to_thread`);
LangGraph calls the nodes one after another; the nodes call `audit.py`, each statement on a
connection of its own; `main.py` reads the thread (`graph.get_state`) and the audit store
(`get_run`, `list_pending_reviews`) at moments of its own. `human_review` calls
`interrupt()`, which ends the invocation. A resume runs that node again *from its first
line*, so what stands before the `interrupt()` is done twice.

The hard behaviours, with the properties for them, are listed in `PROJECT.json` under
`hazards`: overlapping resumes, a resume checked before an `await` and used after it, the
two halves of `append_event`, the SELECT and the UPDATE of `_transition_review_status`,
writes to the audit store that commit before the checkpoint that goes with them, checkpoints
saved in the background, threads invoked a second time, the routes failures take, schema
migrations that run at the same time or are stopped half way, the edges of the rate
limiter's window, and what odd documents, odd replies and odd edits do to the clauses.

## The modules

| module | models |
|---|---|
| `ReviewState` | `state.py`, `models.py`: channels, enumerations, the kinds of documents, extractions and answers |
| `AuditStore` | `audit.py`: one operator for each committed statement |
| `Checkpoints` | the LangGraph checkpointer: threads, background saving, recorded answers, a crash |
| `ReviewGraph` | `nodes.py` and `graph.py`: one invocation per call, one action per statement that touches shared state; failing statements and crashes |
| `ReviewApi` | the endpoints of `api/main.py` on top of it: `Spec`, `FairSpec` |
| `ReviewStudio` | callers that invoke the graph directly (LangGraph Studio, the tests): `Spec` |
| `GraphSafety` | properties of the audit store and the threads, whoever calls; the inductive invariant `GraphInv` |
| `ReviewSafety` | properties of the service; the refinement mapping to `ReviewCase` |
| `ReviewCase` | the abstract specification: what one contract goes through |
| `ReviewLifecycle` | inductive invariants of the service, whatever calls overlap: `LifecycleInv` (the roles of calls), `InboxInv`, `PolicyInv` |
| `ReviewSerial` | those of threads whose calls do not overlap, whoever calls: `SerialInv`, `SettledInv` |
| `ReviewOutcome` | those of the service in that case: how a thread comes to its outcome, `OutcomeInv` |
| `SchemaMigration` | `initialize_audit_store` and `_ensure_run_columns`: operations that meet an older database, one action per statement |
| `SlidingWindow` | the abstract specification of a rate limiter: it remembers every call it admitted |
| `RateLimiter` | `api/rate_limit.py`: pruned lists of stamps; implements `SlidingWindow` |
| `ClauseChunking` | `parsing.py`: reading, normalising, splitting into clauses with positions |
| `ClauseExtraction` | `llm.py`: choice of provider, merging and validating a reply, heuristics, fallback; `env_flag` |
| `PolicyRouting` | `policies.py`: reasons, eligibility, route |
| `ReviewerEdits` | `_apply_reviewer_edits` of `nodes.py` |
| `ContractIntake` | composes these four: what the nodes put into a thread's channels; the properties |
| `ContractScreening` | the abstract specification of that: what `ReviewGraph` takes it to be |
| `MCReview`, `MCStudio`, `MCLimiter`, `MCMigration`, `MCIntake` | instances for TLC |
| `GraphProofs` | lemmas: every step inside the graph keeps `GraphInv` and, while calls do not overlap, `SerialInv` |
| `ReviewProofs` | theorems about the service (`ReviewApi!Spec`), whatever calls overlap: the audit trail and the life of a thread, failed policies and the inbox |
| `OutcomeProofs` | theorems about the service while the calls of a thread do not overlap, the refinement of `ReviewCase` among them |
| `StudioProofs` | theorems about direct callers (`ReviewStudio!Spec`) |
| `LimiterProofs`, `MigrationProofs` | theorems about the rate limiter and the migration |
| `ChunkingProofs` | theorems about the operators of `ClauseChunking`, for texts of any length |
| `IntakeProofs` | theorems about the pipeline, on top of it |

`AuditStore` and `Checkpoints` extend `ReviewState`; `ReviewGraph` extends both; `ReviewApi`
and `ReviewStudio` extend `ReviewGraph`, each with its own ways in and out of the graph.
The workflow is modelled twice, at two grains. `ReviewGraph` has every interleaving and
fault but looks at no clause: it chooses among the outcomes of a node. `ContractIntake` has
one contract at a time, with its words, its model's reply and its reviewer's edits, and no
faults. `ContractScreening` repeats the choices `ReviewGraph` makes, and `pipeline` shows
that `ContractIntake` never leaves them. The migration is a component of its own because
every operation of `audit.py` runs it first: `AuditStore` starts where it has succeeded.

### State and actions against the code

* `runs[t]` is the row of run `t`. A thread and its run have one identifier, as `main.py`
  192-195 says. The columns nobody decides by are left out; a timestamp column is set or not.
* `events[t]`, `log[t]` are the rows of table `events` and the lines of `events.jsonl`. An
  event has its type, the decision or final status in its payload, and the call that wrote
  it in the place of its autoincremented number.
* `ckpt[t]` is the newest saved checkpoint of a thread, `unsaved[c]` what call `c` has made
  and the background writer not saved yet.
* A reviewer's edits are of four kinds (`EditKinds`), by what they do to the clauses at hand:
  nothing, something that may change what the clauses are to the policy, or
  `_apply_reviewer_edits` raises on them (for a `clause_id` that is a list, with no clauses,
  too), or `write_report` does; `api/schemas.py` accepts any dictionaries.
* `inv[c]` is the invocation of call `c`: the node it is in and the statement it is at
  (`stage`), the channels as the node sees them (`values`) and after its update (`result`).
  It is volatile, as a worker thread is.
* `http[c]` is the decision a resume asks for and the answer its caller gets.

* `calls[k]` is the list of stamps of key `k`, as a set of entries that are told apart by
  the number of the call; `admitted` and `refused` are history, for the properties.
* `columns` are those of the columns an older table may lack that the table has; a caller
  is at a statement (`at`), with what its PRAGMA found (`existing`) and the place of its loop
  (`next`).
* A text is a sequence of words and blanks (`"sp"`, `"nl"`, `"cr"`); a position counts
  symbols as the code counts characters. A clause is named by its number.
* A reply's item and a reviewer's patch are records with the keys that were sent; a
  confidence is a percentage; a summary is there or empty; of `evidence_spans` the form is
  kept, and the "Reviewer: ..." lines a review appends to it (`reviewer_lines`).
* A keyword is looked for among characters in the code (`llm.py` 213, 233). How words are spelt
  is what the constants `Within`, `Begins` and `Ends` say: which words have which others in
  them, at their beginning or at their end. `Mentions` finds "fee" in "feedback", "indemn" in
  "indemnify", and "exclusive jurisdiction" in "nonexclusive jurisdictions". A keyword whose
  characters are spread over two of the model's words with no blank between them is not found;
  a case of that kind is one more word.

A node is cut where another caller, a crash or a failing statement could see a difference:
before each INSERT, each UPDATE, each SELECT whose answer is used later, each line of the
JSONL file, each report, and between a node's return and its checkpoint. So
`_transition_review_status` is two steps (`SelectPending`, `SetPending`), `append_event` is
two (`Insert`, `Line`), and what stands between them in the code runs without a cut.
`NodeStep` is the disjunction of all of them. The operators named "Seeded fault" are never
used by the specifications: each is a plausible bug in the definition after it, and shows
that the property it is meant for would notice.

### What is assumed of LangGraph

The library is not part of the repository. `Checkpoints`, `Start`, `Resume`, `Pause` and
`Return` say how it behaves for the calls the program makes:

* after each node the loop makes a checkpoint and hands it to a writer that saves in order,
  in the background; `invoke` waits for the writer before it returns or raises;
* a thread's state is its newest saved checkpoint. A pending interrupt is to be seen until
  the checkpoint after `human_review` is saved;
* `invoke` with an input on a used thread keeps the channels the input does not name;
  `Command(resume=...)` goes on from the newest saved checkpoint; on a thread that has
  ended it does nothing;
* `interrupt()` may write down the answer it returns, so that a node which fails after it is
  resumed with that answer and not with a newer one. Versions allowed by `pyproject.toml`
  differ, so `KeepAnswer` may or may not.

The model leaves out failures of the checkpointer itself.

## What the runs check

The runs of the service have one thread and three calls (a run and two resumes of it, or three direct
invocations). One thread is enough: no operation reads or writes two threads, except that
the inbox lists them, and each property speaks of one thread at a time. Three calls are the
least with which two resumes of one run can race, or a failed resume can be retried.
`MaxFaults` bounds failed statements plus crashes; one of them can hit any statement.
Deadlock is not checked because the callers may all have finished.

**`review_serial`** (`FairSpec`, sqlite, no fallback, one fault, every kind of upload, one
call of a thread at a time, edits of three kinds; about 337,000 states):

* `StreamsAgree`: a JSONL line has its row; a row without its line is just being written
  unless a fault came between.
* `OutcomeLogged`: whatever final status a thread's state, a report or a row shows, the event
  table has the event that accounts for it, with the same decision.
* `PausedIsAudited`: a thread that waits was marked interrupted, and both streams say so.
* `StatusAgrees`: with nobody active, no fault and no resume that raised, `GET /api/runs`
  (which puts thread and row together) says what the audit store says. It does not see the
  "completed" that comes early in the middle of a run (see below).
* `CompletedIsWritten`: behind every "completed" of a POST there are the ended thread, the
  finalised row and the report, all naming the outcome of the response.
* `AnswerHonoured`: a reviewer who gets a 200 gets the outcome of their own decision.
* `PolicyFailsClosed`: after `policy_failed` no review and no approval.
* `TimestampsKept`: no later write takes a timestamp back.
* `ClosedStaysClosed`: once a thread's end is saved, nothing of it changes.
* `ImplementsCase`: the service implements `ReviewCase`, through failed statements and
  crashes: one outcome per thread, given by the program or by a decision that somebody
  submitted while the thread was waiting, and never changed. The mapping reads only the
  saved checkpoints and the decisions asked for.
* `OutcomeInv`: the inductive invariant of the proofs about this case.
* `EveryCallAnswered`, `EveryRunSettles`: requests are answered, and runs come to a report, a
  reviewer or an error, unless the process stops under them.

**`review_overlap`** (`Spec`, calls may overlap, a readable contract, one fault, no edits or
unusable ones, calls symmetric; about 1.5 million states): what is left when resumes race.
`PausedIsAudited`, `TimestampsKept`, and `InboxExact`: once all is quiet, and if nothing
failed, the inbox lists exactly the threads `POST /api/resume` accepts. `GraphInv` and
`LifecycleInv` are inductive invariants of the proofs.

**`studio`** (`ReviewStudio!Spec`, no fallback, one fault, all kinds of edits, calls
symmetric; about 1.1 million states): used threads get other documents, missing files too,
and answers nobody has looked at. `EndedAgrees` (thread, report and row tell an ended thread
the same way), `MissingIsNeverReviewed`, `OutcomeLogged`, `TimestampsKept`, and the inductive
invariant `SerialInv`. One thing is modelled and forbidden by no property: `human_review` offers
approve, edit and reject (`nodes.py` 216), but a plain-text answer returns at 299, before the
check of 316, and any other word approves. The endpoint lets only the three through.

**`rate_limit`** (two addresses, two calls in a window of two ticks, five ticks, restarts;
about 99,000 states). The window fits into the horizon twice, so that stamps are thrown away
and lists fill up again.

* `WindowBound`: no window, wherever it ends, has admitted more than the limit.
* `RetryAdmitted`: whoever was refused gets in one window later, however often they tried in
  between, unless their key was served: refused calls do not count.
* `ImplementsWindow`: pruning changes no answer; keys do not touch each other.
* `LimiterInv`: the inductive invariant of the proofs.

**`migration`** (three operations, three new columns, a database that is absent, old, or left
by a migration that was stopped; about 70,000 states). Any two can overlap while a third has
stopped; three columns have a first, a last and one in between.

* `ReadyIsComplete`: whoever gets through finds the complete schema.
* `FailureNeedsRival`: an operation fails here only if another one has started, whatever
  columns a migration that was stopped before has left. The duplicate `ALTER TABLE` is real:
  two first requests after an update can meet, and one of them gets an error.
* `SomebodyGetsThrough`: never all of them. It depends on all of them going through
  `RUN_COLUMNS` in one order.
* `MigrationInv`: the inductive invariant of the proofs.

**`pipeline`** (about 152,000 states from 34,000 contracts). `MCIntake` has all texts and PDF
pages of up to five symbols (words, space, `\n`, `\r`), pairs of short pages and paragraphs,
with a provider that is down; pairs of clauses chosen for the keyword tables, with providers
(none, too), keys and the fallback flag; two clauses with all replies of up to two of seventeen
items, and five policy packs; and all pairs of lists of up to two of ten patches. Two items and two
patches per list are the least with which one can contradict, repeat or invalidate another;
five symbols have two clauses around every short run of blanks.

* `NothingLost`: the words of the document are the words of its clauses, in order. The document
  is what the reader asks for: of a DOCX its paragraphs (`parsing.py` 31). Words in the tables,
  headers and footers of a DOCX never reach the clauses, and this property says nothing of them.
* `SpansMatchText`: `start_char` and `end_char` are right in `raw_text`, in order, disjoint,
  with repeated clauses too, although the text is normalised twice.
* `OneExtractionPerClause`: whatever the reply and the patches name.
* `AutoAdvanceJustified`: an approval without a reviewer is justified, clause by clause. By
  what a valid reply says last of the clause; or, where the reply leaves it out or nobody has
  answered, by its characters: no risk term, and those of liability, indemn, termination and
  renewal only next to those of payment, fee or invoice. That exception is the code's, and it
  is about characters, not about meaning: "liability is limited to the fees paid" is typed
  `payment`, because the table has that first, and so is "supplier's liability for feedback";
  both may be approved without a reviewer. The contract `feedback liability` is among the
  instances. Approvals on a reply that came and was not valid are no part of it: they are
  against the specification, and `invalid_reply` shows them.
* `EditsLand`: the reviewer's last word on a field is what the report gets, the reviewer lines
  in a clause's evidence are the reasons of the risk patches that name it, and nothing else
  changes.
* `ImplementsScreening`: the picture `ReviewGraph` has of all this is right.
* `IntakeInv`: the inductive invariant of the proofs.

Each of these properties fails when the definition named for it in `PROJECT.json` is replaced
by its seeded fault.

### Where the code and its documents disagree

Six runs check what a document or the code itself says, and TLC finds a counterexample:

| run | said | what happens |
|---|---|---|
| `double_resume` | `DEPLOYMENT.md` 327-331, `main.py` 254-255: a thread already resumed gets a 404 | between the check (`main.py` 251) and the checkpoint after `human_review` a second resume passes too, and gets a 200; both review, or the second is told the first one's decision |
| `fail_closed` | `spec/02-system-design.md` 212: a model failure without fallback fails closed into audit | the edge after extraction is unconditional, the policy overwrites the route, and the run is put before a reviewer with nothing extracted |
| `unreadable` | `spec/02-system-design.md` 213: a parser failure is marked `needs_manual_parse` | errors of `read_text`, `Document` and `PdfReader` are not caught: a 500 and a row without final status |
| `lost_review` | `REVIEW.md` 37: interrupted runs survive restarts, and the pending-review endpoint shows them | a fault after `mark_review_completed` leaves the thread waiting and the row "completed": it can be resumed, but is in nobody's inbox. An edit that cannot be applied does the same without any fault |
| `unreported` | `spec/03-proof-to-contract-eval.md` 69: every run emits a decision trace and report | an edit may put evidence into a clause that `write_report` cannot join: the decision is checkpointed, the report raises, the resume gets a 500 and every later one a 404 |
| `invalid_reply` | `spec/02-system-design.md` 216: a validation failure blocks the action and requires a reviewer | one invalid item in the model's reply makes `model_validate` raise (`llm.py` 165), the rules take the place of the whole reply (`llm.py` 107-113), and the contract may be approved without a reviewer |

### Fairness

`FairSpec` has weak fairness, for each call, of `Advance` (the worker thread runs, the
endpoint answers) and of `Save` (the background writer). Both are threads of a running
process and nothing in them waits on another call: SQLite waits for a lock are bounded and
turn into a failed statement. Making a call, failing and crashing are not fair: nobody has
to call, and nothing has to break. A model call that never ends is no behaviour of the code
(`httpx` has a timeout of 45 s). The other specifications state no fairness: the limiter and
the pipeline have safety properties only, and `SomebodyGetsThrough` speaks of the states in
which everybody has finished.

## What is proved

### The service and direct callers, whatever overlaps

For every set of threads and of calls, any uploads, any number of faults, any edits,
overlapping calls or not, both checkpointers, with or without the fallback:

| theorem | property |
|---|---|
| `ReviewProofs!ReviewInvariance`, `StudioProofs!StudioInvariance` | `GraphInv`, the inductive invariant |
| `ReviewProofs!ReviewTypeCorrect`, `StudioProofs!StudioTypeCorrect` | `TypeOK` |
| `ReviewProofs!ReviewStreamsAgree` | `StreamsAgree` |
| `ReviewProofs!ReviewOutcomeLogged`, `StudioProofs!StudioOutcomeLogged` | `OutcomeLogged` |
| `ReviewProofs!ReviewLifecycleInvariance` | `LifecycleInv` |
| `ReviewProofs!ReviewPausedIsAudited` | `PausedIsAudited` |
| `ReviewProofs!ReviewTimestampsKept` | `TimestampsKept` |
| `ReviewProofs!ReviewPolicyFailsClosed` | `PolicyFailsClosed` |
| `ReviewProofs!ReviewInboxExact` | `InboxExact` |
| `StudioProofs!StudioSerialInvariance` | `SerialInv`, with `SettledInv` |
| `StudioProofs!StudioEndedAgrees` | `EndedAgrees` |
| `StudioProofs!StudioMissingIsNeverReviewed` | `MissingIsNeverReviewed` |
| `StudioProofs!StudioTimestampsKept` | `TimestampsKept` |

They rest on the assumptions on the constants alone: `CheckpointerAssumption`,
`GraphAssumption`, `ApiAssumption`, `EditsAssumption`, `ThreadsAssumption` (no thread is
called `Null`).

*The audit trail.* `OutcomeLogged` is not inductive: a step that saves a checkpoint, writes a
report or finalises a row shows values that a call has been carrying around, and the
property says nothing of those. `CallOK(c)` does: the channels a call works with, the update
it is about to return and each checkpoint it has not saved yet are `Backed` by the events
of its thread. The update of a node is backed only *together with* the event being written
(`stage = "insert"`), because the nodes build their result first and write the event before
they return it. That order is what the theorem is about. Events are only ever added
(`BackedMonotone`), so what was backed stays so, whichever other call takes a step: that is
why overlapping calls and crashes need no argument of their own, and why a stale UPDATE
cannot hurt. Finally `stage = "line"` keeps the row of the event (`Written(c) \in E`), from
which `StreamsAgree` follows.

*The life of a thread.* `TimestampsKept` and `PausedIsAudited` need to know who can be at a
thread, and that a row read by a SELECT has not lost a timestamp since. `LifecycleInv` gives
each call one of two roles: the one call of `run_contract` (`RunnerOK`), which has the thread
to itself until it pauses, and any number of resumes (`ResumerOK`), which begin only after
the pause was saved, and so after the row was marked and the event written (`PutForward`). A
resume can therefore find nothing but a row that keeps `interrupted_at`, and once one of them
has set `resumed_at`, every later state of the thread has it. On top of the roles, `PolicyInv`
follows a failed policy evaluation along the only way left to it, and `InboxInv` follows the
row and the interrupt: each step that takes one of them away from the inbox leaves somebody
behind who owes the other (`Owing`), until all is quiet.

*Direct callers* may use a thread again, with another document, so no role survives. While
their calls do not overlap, a call knows its row (`WritesOK`) and its last checkpoint is what
it leaves behind (`LastOK`); `SettledInv` is about the threads nobody is at.

### The service, one call of a thread at a time

With the hypotheses of `review_serial`, `~Overlap` and `Checkpointer = "sqlite"`, for any
threads, calls, uploads, edits and faults:

| theorem of `OutcomeProofs` | property |
|---|---|
| `ServiceSerialInvariance` (`~Overlap` alone) | `SerialInv`, with the invariants above |
| `ServiceOutcomeInvariance` | `OutcomeInv` |
| `ServiceClosedStaysClosed` | `ClosedStaysClosed` |
| `ServiceCompletedIsWritten` | `CompletedIsWritten` |
| `ServiceImplementsCase` | `ImplementsCase`, by step simulation |
| `ServiceAnswerHonoured` | `AnswerHonoured` |
| `ServiceStatusAgrees` | `StatusAgrees` |

Neither hypothesis can go: two resumes that overlap do review a thread twice
(`double_resume`), and a memory checkpointer forgets ended threads with the process.
`ServiceSteps` reduces every step to one call at a thread it has to itself, a save, a crash,
or a new call. `ClosedInv` says that whoever still is at an ended thread has nothing left to
do, so ended threads are frozen. `CaseInv` says that each checkpoint of a call `Follows` the
one before it in the order of the nodes, and that an outcome is the program's own or that of
a decision asked for; saving one is then one step of `ReviewCase` or none. `HonestInv` says
that an answer LangGraph recorded earlier is either the one at hand or one whose edits fail
again. `RestInv` says what a call leaves behind: a run gives up without an outcome only while
it reads its document, and `completed_at` is set by the last step of the last node; with
`InboxExact` this gives `StatusAgrees`.

### The rate limiter, the migration and the pipeline

For any keys, limit, window and horizon (`WindowAssumption`), any callers and columns
(`MigrationAssumption`), any documents, replies, policy packs and edits (`CasesAssumption`:
the parts of a document are texts, and a text file is one of them; thresholds are numbers,
required fields are text fields, edits are lists), any spelling of words
(`SpellingAssumption`: what a word begins or ends with is within it):

| theorem | property |
|---|---|
| `LimiterProofs!LimiterInvariance` | `LimiterInv` |
| `LimiterProofs!LimiterWindowBound` | `WindowBound` |
| `LimiterProofs!LimiterRetryAdmitted` | `RetryAdmitted` |
| `LimiterProofs!LimiterImplementsWindow` | `ImplementsWindow`, by step simulation |
| `MigrationProofs!MigrationInvariance` | `MigrationInv` |
| `MigrationProofs!MigrationReady` | `ReadyIsComplete` |
| `MigrationProofs!MigrationNeedsRival` | `FailureNeedsRival` |
| `MigrationProofs!MigrationSomebodyThrough` | `SomebodyGetsThrough` |
| `IntakeProofs!IntakeInvariance` | `IntakeInv` |
| `IntakeProofs!IntakeSpansMatchText` | `SpansMatchText` |
| `IntakeProofs!IntakeNothingLost` | `NothingLost` |
| `ChunkingProofs!NormalizeTwice`, `!ClauseSpans`, `!ClauseInk` | what these two rest on, of any text |
| `IntakeProofs!IntakeOneExtractionPerClause` | `OneExtractionPerClause` |
| `IntakeProofs!IntakeAutoAdvanceJustified` | `AutoAdvanceJustified` |
| `IntakeProofs!IntakeEditsLand` | `EditsLand` |
| `IntakeProofs!IntakeImplementsScreening` | `ImplementsScreening`, by step simulation |

`LimiterInv` says that a key's list lies between two sets: the calls of the window that ends
now, and all calls ever admitted. Pruning moves it towards the first, so that `Kept` *is*
that window (`KeptIsWindow`), from which both the bound and the simulation follow.
`MigrationInv` says that the columns a caller has passed in its loop are in the table;
columns are never dropped, so no other caller can take that back. `FailureNeedsRival` needs
more: while a caller is alone, what it finds and has not read it added itself (`LoneOK`),
and a list without repetitions never comes to such a column again. `SomebodyGetsThrough`
looks at the caller that is ahead (`Ahead`): a caller can fail only at a column another has
added, and that one is further on in the list.

`IntakeInv` says what a contract brings along to each node. The policy's verdict is then
that of `Clean` on every clause (`PolicyRoute`, `NoObjection`), and what is clean was either
said so by the reply's last item on the clause or typed so by the first keyword of the table
that it has the characters of (`LowByRules`). `EditsLand` needs what a fold does to a list
of patches of any length. The library's induction theorems take an operator as a parameter,
which these provers cannot instantiate; `LeastNat` gets round it: the set of prefixes of the
list for which the claim fails, if it is not empty, has a least element, by
`NatLessThanWellFounded` and `WFMin`, which speak of sets. All inductions here, those over
texts too, are of that form. `IterationExists` and `FoldUpdate` unfold `FoldLeft` that way,
and `FoldedFields` says that the last patch that names a field wins.

*From a document to its clauses.* `IntakeInv` says what the thread has of a document:
nothing, or `NormalizedText` and the clauses made of it (`ParsedText`). What that means is a
matter of the operators alone, and `ChunkingProofs` is about those:

* A text that loses blanks, or gets other blanks for some, keeps its words (`SameInk`): both
  lists of words are the images of one increasing enumeration. `InOrder` enumerates a set of
  places by rank, so no recursion is needed (`InOrderLists`). Every stage of
  `normalize_text`, the joining of parts and `strip` are of this kind (`NormalizeText`,
  `JoinedInk`, `ReadInk`).
* Each stage leaves a text without its own kind of disorder and brings none of the earlier
  ones back (`NoReturn`, `SingleSpaces`, `FewNewlines`, `Trimmed`), and a `Tidy` text is left
  alone by all of them (`NormalizeAgain`). `parse_and_chunk_clauses` normalises, and
  `chunk_into_clauses` normalises once more: the spans are positions in the second text and
  are used in the first, which is right because of this (`NormalizeTwice`).
* Between the end of a block and the next there are only blanks (`BlanksBefore`), and a block
  begins with a word. So `find` from the cursor cannot stop early, not even at a copy of the
  block, because it would have to match a word against a blank (`FoundInPlace`). By induction
  along the blocks every one is found where it is (`LocatedInPlace`), which makes the clauses
  `Placed`. The `start == -1` of the code never happens, then.
* A word in a block that had a blank line before it would have begun a block (`OneBlock`), and
  two blocks have one between them (`BlocksApart`).
* The prefixes of the text up to the ends of its blocks have the words of the blocks so far
  (`BlocksInk`, by induction), which gives `ClauseInk`.

### Checked by TLC only

The liveness properties `EveryCallAnswered` and `EveryRunSettles`, since fairness and ENABLED
are beyond TLAPS here. Every other property of a passing run is a theorem.

## Not modelled

Upload limits and 422/413 answers (they end a request before any state changes), CORS,
report wording, clause titles, prompts, the HTTP exchange with providers (a reply fails or
has items), obligations, dates and amounts, file hashes, deletion of temporary uploads,
paths, and deployment files. Upper and lower case are not told apart; a term broken over a line
end is not found, in the code as in the model.
White space other than spaces, tabs, `\n` and `\r` (form feeds, no-break spaces) is left
out. Clauses are in the order of their numbers; the code sorts edited ones by their ids as
text, which is another order from the thousandth clause on. SQLite's locks are not
modelled: a statement that waits for one too long is `Stop`. `GET /api/runs` is one step
here: the code reads the row, the interrupt and the values one after the other while
worker threads go on; in the middle of a run it may say "completed" before `finalize_run`,
which no property forbids.

## Plan

1. Done: the audit store and its migration, the graph and its callers, the rate limiter, the
   pipeline from a document to edited extractions; the invariants and proofs above.
2. Done: proofs about texts of any length, and from these `SpansMatchText` and `NothingLost`.
3. Left: a run of the service with the memory checkpointer, if it says something the sqlite
   one does not; liveness by proof, once TLAPS can do it.
