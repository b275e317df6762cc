# A TLA+ model of the case-screening system

The repository is a system in which a person collects the documents of a case
(PDF, spreadsheet, e-mail), lets an agent draft a list of items with evidence
and questions, then reviews, edits, confirms, approves and exports that draft.
The backend (FastAPI, SQLAlchemy, PostgreSQL) holds all the logic that has
state; the frontend (Next.js) renders it.  This directory models the backend.

## 1. Inventory

| Part | State it keeps | Operations | What makes it hard |
|---|---|---|---|
| Run lifecycle: `run_repository.py`, `run_service.py`, `jobs.py`, `run_dispatcher.py`, `run_trace_store.py`, `dependencies.py` | `agent_runs`, `agent_run_steps`, `traces/<run>.jsonl`, the asyncio tasks of the process | `start`/`reserve`, `finish`, `recover_expired`, `recover_interrupted`, trace export, three attempts to persist an end, shutdown | a run is ended by its job, by any later request or by a restarted server; each end is several transactions and a file; crashes between any two of them |
| Guarded tool calls: `agent_tool_repository.py`, `tools.py`, `hooks.py` | the version's artifacts, the pending step | `begin_step`, `operation`, `fail_step`, `record_denial`, `finalize_draft` | two transactions per call under row locks; the executor is closed from outside while a call is committing |
| Runner loop: `runner.py`, `claude_policy.py`, with the clock of `jobs.py` | turn and repetition counters, three deadlines, a queue, replies not yet given | ask the policy, call a tool, hand a reply back, stop; persist with retries | timeouts race late answers; messages queue up while a tool runs; recovery measures the same job by another clock |
| Local policy: `local_policy.py` | what it has recognized | read all, then write all | it never looks at a reply |
| Draft artifacts: `draft_types.py`, `draft_repository.py`, `draft_validation.py`, `models/drafts.py`, `t201_artifacts.py` | header, items, ends, evidence, questions, inventory of a version | record, validate, finalize | one rule is written four times: in the contract of the arguments, the models, the migration and the validation; rows are never removed |
| Human records: `record_service.py`, `record_repository.py`, `record_types.py` | edits, confirmations, judgements | edit, undo an edit, confirm, undo, judge | each is undone on its own, and each bears on the version state |
| Approval: `approval_service.py`, `version_state.py` | version state, state events, bounce comments, send-off decision | request check, check, approve, bounce, decide | guards read records that other operations change |
| Export: `export_service.py`, `export_repository.py` | exported files and their rows | export, list with integrity | the file is saved before its row is committed |
| Intake: `document_intake_service.py`, `document_storage.py` | stored files, `documents`, pages | intake, exclude, include | count limit read before it is used; file and row are two steps |
| Inventory: `inventory_reconciliation.py` | none | reconcile | pure |
| Cases and rule sets | `cases`, `rule_sets` | create, list | the case row is the lock of `reserve` |
| Readers, HTTP layer, frontend | none that matters here | parse, map, render | outside the model |

How the parts interact.  A request calls a service, which calls a repository;
a repository works in one database session, one transaction at a time.
`RunService.start` hands a reserved run to `RunDispatcher`, which starts an
asyncio task; the task calls the runner, the runner calls tools through
`ToolExecutor`, and each tool opens sessions of its own.  Three row locks order
them, always taken in this order: the case (reservation), the version and the
run (tool calls, ends, exports).  Excluding a document takes the row of the
case too; taking one in takes no lock at all.  Human records, approval and export
work on a version once its run has finalized it, under the lock of its row.

The hazards this creates are listed, each at its line, in `PROJECT.json`.

## 2. Modules

### RunLifecycle

The life of the runs of one case.  Three stores survive each other: the
database (`outcome`, `finalized`, `steps`, `traceFailed`), the trace files
(`file`) and the memory of the process (everything else), which `Crash` erases.

| State | Code |
|---|---|
| `outcome[r]` | `agent_runs.outcome`; `"absent"` before the reservation |
| `finalized` | `versions.finalized_at` is set |
| `steps[r]` | the `trace_event` of each `agent_run_steps` row, in `seq` order, by kind |
| `traceFailed` | `stage_detail = 'trace_write_failed'` |
| `expired` | `_is_recoverable`: `now - started_at` exceeds outer timeout plus grace |
| `file[r]` | `traces/<r>.jsonl` |
| `tool[r]`, `held`, `closed` | the transaction of the call in progress, the row locks it holds, `ToolExecutor.closed` |
| `jobPc[r]`, `jobResult[r]`, `jobAttempt[r]` | where `_execute` stands, the `RunResult` it stores, the attempt |
| `clientPc[c]`, `clientRun[c]`, `clientGoal[c]` | where a request (or the startup hook, `Boot`) stands, with which run and why |

A transaction is one step, the one that commits it, because row locks serialise
the rest, with two exceptions: the case row of `reserve` (`LockCase`, `Reserve`)
and the version and run rows of a tool call (`LockRun`, then a commit or
`RollBack`) are held over two steps, since other actors wait for them or act
without them in between.  `finish` and the export that follows it are separate
transactions in the code and separate steps here; so are the two transactions of
a tool call.  A denial (`RecordDenial`) is one transaction, of the task that
reads the SDK's messages, and may come between those two; so a call replaces the
last event still pending (`CallStep`), not the last event.  `PersistFails` and
`ClientFails` make any of these steps the last
one that happened.  `Shutdown` is `stop_jobs`: a working job still persists its
end, a job that was persisting makes no further attempt, and `Exit` may come at
any time because `stop_jobs` waits 16 seconds at most.

Abstracted: what an artifact contains; why `reserve` refuses (the choice in
`Reserve`); which timeout fired (`WorkerTimesOut` at any time); what the
validation of `finalize` says beyond "there are items" (`FinalizeDraft` or
`RollBack`); the turn counter; the text of details.

Properties:

- `SuccessIsClean`, `EndIsRecorded`: outcome, finalization and trace agree,
  whichever transactions failed or were repeated.
- `WellOrderedSteps`: no retry of an end, and no tool call that was committing
  when its run ended, disturbs the order of the trace.
- `TracePrefix`: the file is always a prefix of the committed events.
- `WritesAreFenced`: artifacts change only while the run runs and its version is
  open, although the check and the commit are two steps.
- `SingleRunning`, `EndsOnce`: across concurrent requests.
- `RunEnds` (liveness): no run stays running for ever.
- `TypeOK`, `RunInv`: the types and the inductive invariant, proved (section 4).

### RunPromise

What the runs of a case promise to everything else: reserve when no other is
running, collect artifacts until sealed or ended, end once, succeed only when
sealed.  `RunLifecycle!KeepsPromise` is the refinement, with `sealed` mapped to
`finalized` and `content` to the positions of the artifact events.

### MC_RunLifecycle, RunLifecycleProofs, RunTraceProofs

The first instantiates RunLifecycle for TLC; the second holds the proofs about
locks, ends and the refinement, the third those about the trace.

### HumanRecords, ItemValues

What people record about one finalized version.  `record(version_id)` takes the
lock of the version row before the first read of a request and keeps it to the
commit, so a request is one step, and `recorded_at`, set under that lock,
orders the rows as the steps do (the clock of the server is taken not to go
back).  The list of versions takes no lock and runs under READ COMMITTED, so it
is three steps, one per statement whose result it joins.

| State | Code |
|---|---|
| `current_state` | `versions.current_state` |
| `approvals` | `version_state_events` and `bounces`, merged by `recorded_at` |
| `edits` | `item_edits`: item, field, new value, new state, `undone_at` set or not |
| `confirmations` | `confirmations`: kind, item, `undone_at` set or not |
| `comments` | `bounce_comments`: item, `bounce_id` (0 for NULL, else the place of the bounce in `approvals`) |
| `resolution[q]`, `sendoff` | the latest row of `question_judgements` and of `sendoff_decisions`, the only one anything reads |
| `view[l]` | the list of versions a reader is building: the state it read, and how many entries of `approvals` it has seen as events and as bounces |

| Action | Code |
|---|---|
| `Edit`, `UndoEdit` | `RecordService.edit`, `undo_edit` |
| `Confirm`, `UndoConfirmation` | `confirm`, `undo_confirmation` |
| `Judge` | `judge` |
| `Transition`, `Comment`, `Bounce`, `DecideSendoff` | the methods of `ApprovalService` |
| `ListVersions`, `ListEvents`, `ListBounces` | `list_versions_with_records`, a statement each |

`ItemValues` holds the operators without state: which rows a request becomes
(`EditRows`), what rows make of an item (`apply_edits`), and when values and
states agree (`Consistent`, from `ItemInput.consistency_errors`).  The loop of
`apply_edits` goes from row to row, and what a row sets never depends on what it
finds; so the model says it column by column: the latest row not undone that
sets a column has set it.  TLC checks this against the loop itself
(`LatestIsLoop` of `MC_HumanRecords`, all sequences of two rows of a quantity
and a note, undone or not).  Fields the code treats alike share a column:
"od" stands for od, wall and weight, "grade" for grade and connection, "note"
for kind, usage_note and note.

Abstracted: `old_value`, `old_state`, reasons, recorders and times, which are
written and never read back by any guard; the status of a judgement; the
wording of a bounce's reason.  Not read in this model: the pages of one version
(`summary`, `list_records`, ...), which show rows as they are.

Properties:

- `StateIsLatestEvent`: the state column, which guards read, never departs from
  the history, which people read.
- `RecheckIsStaffAfterReview` (proved only): the shortcut of `needs_recheck` is equivalent to
  the definition the documents give.
- `CheckWasEarned`: no order of confirming, undoing and correcting leaves draft
  without each row and the coverage having been confirmed at some time.
- `BounceHasReason` (proved only), `CommentTakenOnce`: bounces and the comments
  they take.
- `ListedFlagWasTrue`: the flag of a list read in three statements was true at
  some moment of the reading, although it compares two tables of two moments.
- `CorrectionReopens` (proved only), `CorrectionRepairs`: what a correction does
  to the state and to the values, whatever had been undone before it.

### ReviewPromise

The review of a version with three variables: state, sent back, to be checked
again.  `HumanRecords!KeepsReviewPromise` is the refinement, with the two flags
mapped to what `bounced` and `needs_recheck` derive from the history.

### MC_HumanRecords, HumanRecordsProofs

The first gives an item with a quantity to be announced and an outer diameter,
and two sets of edits (one of a field without state; every well-formed one of
the quantity, a measure and the length), and the loop of `apply_edits` as the
reference for the operator.  The second holds the proofs.

### CaseDocuments

The documents of a case, and what the runs make of them.  Exclusion and
reservation hold the row of the case from their checks to their commit, so each
is two steps and shuts the other out; the tools of a run hold the rows of the
version and the run, not the row of the case, and a call is one step here (its
two transactions are in RunLifecycle); an intake holds nothing, so it may come
between any two statements of the others.

| State | Code |
|---|---|
| `documents`, `excluded` | the rows of `documents` and of `document_exclusions` |
| `files` | the originals `LocalDocumentStorage` holds |
| `intake[i]` | the document an intake has counted and stored, whose rows it has not inserted |
| `exclusion[e]` | the document an exclusion has checked, under the row of the case, and not inserted |
| `outcome[r]`, `input[r]` | the run, and the documents its first step lists; `"reserving"` while the row of the case is held |
| `scanned[r]`, `reported[r]`, `cited[r]` | the ranges its reading steps name, its extraction issues, the documents of its evidence and inventory |
| `check[r]` | the `finalize_draft` under way: which statement comes next, the documents there were before the first one, the ranges found so far |
| `finalized[r]` | the completeness of its version |

| Action | Code |
|---|---|
| `Admit`, `Insert`, `InsertFails` | `DocumentIntakeService.intake` |
| `CheckExclusion`, `Exclude`, `ExclusionFails` | `exclude` of `document_repository.py` |
| `CheckReservation`, `Reserve`, `ReservationFails`, `EndRun` | the documents' part of `reserve`, and any end of a run |
| `read_document`, `read_email`, `report_unreadable`, `_document_in_case` | the tools of these names; the last one is the check of every tool that cites |
| `SnapshotPages`, `SnapshotParts`, `Finalize`, `FinalizeFails` | the statements of `validation_snapshot`, and the judgement of `validate_snapshot` |

Abstracted: what a reader extracts (`Readable`, `Flawed`: the ranges with text,
the documents with an issue); an issue that names no range excuses none and is
`None`; the conditions of completeness that are about items, evidence and
questions are in the choice between `Finalize` and `FinalizeFails`.  The issues
`record_interruption` writes for a run that was cut short belong to no finalized
version and are left out.  The comment at `draft_repository.py:276`, that the
ranges do not change in the course of a run, holds for exclusions and not for
intakes; the properties below are what is left of it.

- `RunAvoidsExcluded`, `DocumentsStay` (the second proved only): although no tool locks the case, a
  running run never has, and never loses, a document to an exclusion.
- `FinalizedReadAll`, `CompleteIsRead`: a finalization that reads pages, parts
  and issues in statements of their own answers for every document there was
  when it began; `CompleteIsRead` also says none of them was flawed.
- `OvershootBounded`: the count of an intake is stale when its document is
  inserted; the excess is what the other intakes under way can bring.

### Exports, ArchivePromise

The exports of one version.  `export` holds the lock of the version over three
steps, the reads, the saving of the file and the row; people record things under
the same lock (`Record` counts what `HumanRecords` details); lists are made
without it.

| State | Code |
|---|---|
| `recorded` | how much has been recorded on the version: what a workbook shows |
| `pc[x]` | where an export stands; `"undo"` between its rollback and the removal of its file |
| `head[x]`, `body[x]`, `initial[x]` | the records the locked version row stands for, those `snapshot` read, whether no export was found |
| `stored[x]` | its file: none, cut short, whole, or other than saved |
| `rows` | the rows of `exports`, in order |
| `altered` | the files somebody replaced or deleted by hand |
| `view[l]` | the list a reader is building: the rows it read, the verdicts so far |
| `faults` | failures of the storage and crashes so far |

| Action | Code |
|---|---|
| `lock_version`, `snapshot`, `save`, `save_export` | `ExportService.export`, in its order; the last one commits |
| `SaveFails`, `ExportFails`, `AnswerLost` | an exception in the block: in `save`, anywhere else, after the database has committed |
| `remove`, `RemoveFails` | the except clause |
| `Crash` | the process dies; its transactions are rolled back, its files stay |
| `list_exports`, `ReadFile` | `ExportService.list`: the rows in one statement, then a file at a time |
| `Alter` | people, outside the program |

Abstracted: the content of a workbook, which is the moment whose records it
shows.  The list of documents a workbook shows is read without a lock on the
case, so it is not part of what is said of that moment.

- `KeepsArchive`: the rows are an archive, ArchivePromise: each entry names and
  shows the moment it is added, and the first one alone is the initial export.
- `NoFileIsLeft`: a failure that is neither a crash nor one of the storage
  leaves no file without a row, whatever the others do meanwhile.
- `VerdictWarranted`: the list reads files after it has read the rows, and
  still alarms only about a file that was altered or whose request failed.
- `ExportInv`: the inductive invariant, checked and proved.

### CarryOver

`HumanRecords` composed with the part of `reserve` that reads it.  Records are
not carried over to the version of a new run, so `reserve` refuses a request
that does not acknowledge this while there are any.  `has_records` reads three
tables in three statements under the row of the case, which nothing that records
takes; `start.known` remembers what was there when the request began.

- `RecordsAreNoticed`: what was there when the request began and is still there
  was noticed.  Nothing stronger holds: a record added to a table already read
  is missed, and there need be no single moment at which all three were empty.
  No document speaks of either.

### RunnerLoop, JobClock

`RunnerLoop` is one worker and, on the other side of a queue, the SDK of
`claude_policy.py`.  `JobClock` puts the job of the run around it, on one clock
that counts from `started_at`.

| State | Code |
|---|---|
| `pc` | where `_drive` stands: it asks the policy, awaits a tool, closes the policy, or is over |
| `deadline`, `since` | the inner deadline, and what the silence is measured from (`last_message`, or the beginning of the wait) |
| `turns`, `repetitions`, `validation_repetitions`, `error_repetitions` | the counters, each of the last three with what it counts |
| `queue`, `requests`, `pending` | the queue of the policy, the requests of the SDK with the state of their futures, the one whose call is being executed |
| `talking`, `messages`, `heard` | whether `consume` runs, how many messages it had and when it had the last |
| `executed` | the calls so far with their replies (recorded for the properties) |
| `job`, `wake`, `attempt`, `outcome` | where `_execute` stands, the deadline of its wait, the attempt, the result it persists |
| `stalled` | how many ticks have passed while something was due |

| Action | Code |
|---|---|
| `Message`, `Request`, `EndOfTalk`, `Abandon` | `consume` and the handlers of the tools; a handler that is cancelled |
| `TakeHeartbeat`, `TakeCall`, `TakeEnd` | an item of the policy, as the loop reads it |
| `ToolDone` | the reply: counters, limits in their order, the answer to the future |
| `Timeout`, `Cancel`, `Close` | the timeout of a wait, the cancellation by the job, the end of the clean-up |
| `StartJob`, `Collect`, `OuterTimeout`, `GiveUp` | `_execute` up to the outcome, `cancel_with_grace` |
| `Saved`, `SaveFails`, `SaveTimeout`, `Unsaved`, `Resume` | three attempts to persist |
| `stop_jobs` | the end of the process |

An item that arrives in the instant of a timeout counts as in time, as
`asyncio.wait` lets a task run once first.  A heartbeat bears the time the SDK
sent it; it may have been queued while a tool ran.  Abstracted: the clean-up of
the policy is one wait of at most `Cleanup`; what the SDK says.  The executor
answers a closed call itself, so a request that comes after the close is not
added.

- `StopIsWarranted`: the counters against the history of calls: every limit
  that ends a run had been reached, and none before.
- `RepliesMatch`: each future gets the reply of its own call or is dropped, with
  requests abandoned and calls still queued.
- `SilenceIsReal`: heartbeats read late do not make a talking policy silent.
- `JobIsDoneFirst`: recovery finds no job at work, if the grace covers what
  `GraceAssumption` adds up.  With the code's numbers in ticks of 20 ms
  (`Finish` 250, `Cleanup` 1, `Delay` 5 and 10) the sum without stalls is
  3 * 251 + 2 + 15 = 770, and the grace is 800: what is left for an event loop
  that is late is 30 ticks, 0.6 seconds over the whole life of the job.
- `OuterIsLastResort`: the inner limits come first, which
  `definition.py:61` asserts of the numbers alone.
- `LoopEnds` (liveness): the job is done in the end.

### Columns, RowContracts, DraftModels, T201Artifacts, DraftValidation, InventoryReconciliation

The definitions about a draft that have no state, one module a file of the code,
all over the rows of `Columns`: the contracts of the tools' arguments
(`draft_types.py`), the tables as the models declare them (the tests' tables)
and as the migration creates them (production's), the final validation, and the
reconciliation of the inventory.  Texts are a few classes of values told apart
by blanks, numbers by what JSON, Pydantic and a column make of them; integers
from one on are named by the texts in `Numerals`, and `"vast"` is one too wide
for its column.  The names
texts are told apart by are none of those classes (`NamesAssumption`), nor are
the integers (`NumeralsAssumption`), and the batches an agent may send are
sequences, as JSON arrays are (`BatchesAssumption`).

### DraftArtifacts, LocalDummy

`DraftArtifacts` is a run writing its draft through the tools and finalizing it;
a call is one step, since the locks of the version and the run are held from its
first read to its commit (the two transactions of a call are in `RunLifecycle`).

| State | Code |
|---|---|
| `draft` | the seven tables of a version, a sequence of rows each; an id is a place in it; the ends of the item and the links of the entry at a place stand at that place of their table |
| `scanned`, `reported` | the ranges its reading steps name, and those of its extraction issues |
| `finalized` | `versions.finalized_at` and the completeness |
| `aborted` | calls the repository let through and the database refused |
| `inquiry` | the calls an agent may make in this instance, the ranges there are to read, and what readers noted when documents were taken in |

`save_header`, `add_items`, `add_evidences`, `add_questions`, `add_inventory` and
`finalize` are the methods of `draft_repository.py`, each with the contract in
front of it; `read` and `report_unreadable` are what the reading tools leave.
`Issues` are those a snapshot of a version counts, the run's own and those of a
reader, which belong to no run: either kind excuses its range and makes a draft
incomplete.

`LocalDummy` is `local_policy.py` over those tools: it reads ranges of lines and
drafts them, hardly looking at a reply.  A line of a case is named by the
document, the range and the line where it stands, so two lines with the same
text are two.

| State | Code |
|---|---|
| `document`, `range`, `line` | where the three loops over documents, ranges and lines are |
| `matches`, `notes_here` | of the range being read: `matches` holds its other lines, recognized or not, `notes_here` its notes |
| `sources`, `url_notes`, `readable`, `unsupported` | what the loops have collected |
| `evidences`, `questions`, `entries` | the lists drawn up once the items have ids |
| `phase` | the call to make next, or why the policy stopped |

`ReadDocument`, `ReportDocument` and `ReportBlank` are the calls of the loops,
`ReadLine` and `Interpret` the inner loop and what follows it, `DrawSource` and
`DrawNote` one turn each of the two loops over `sources` and `url_notes`, and one
action is left for each call after that.  A row's number has any number of
digits, so it may be "vast", wider than its column; then the items are aborted
and the policy, which needs their ids, raises (`"raised"`).  `TakeIn` is an intake
beside the run, which no lock keeps out: the policy never learns of a document
that came after it listed them, and its draft then is not valid
(`"validation_unresolved"`) or not finalized (`"draft_not_finalized"`), unless the
reader noted something of each range.  Codes are concatenated as in the code;
`NumberingAssumption` says that there are texts enough in the model to number
the lines of a case, and that concatenation keeps the codes of two numbers
apart, as it does those of `str(seq)`, `Q-{seq}` and `URL-{seq}`.

- `AcceptedIsStorable`: contracts, repository, models and migration agree: no
  transaction the code lets through is aborted by a constraint.  A number wider
  than its column is (a `DataError`, which the tool answers with `E_INTERNAL`).
- `BackstopsAreIdle`: what contracts and validation both demand, the contracts
  enforce, since the validation's complaint would come too late.
- `ViolationsCanBeRemedied`: rows cannot be changed, and still every violation
  but a conflict can be removed by one call.
- `FinalizedIsValid`, `InventoryReconciles`: the published draft and its view.
- `RefusedForCause`: the policy that takes every reply for a success is refused
  for no row it drafts; only an over-wide quantity aborts its items, and only a
  range taken in late, neither read nor noted, leaves its draft unfinished.
- `PublishesAllOrNothing`: it publishes every line of a case or none.

Abstracted: composite foreign keys, which tie each row to its version; texts
that only one of PostgreSQL's `trim` (blanks), Rust's and Python's `strip` calls
empty beyond the classes of `Columns` (U+001C to U+001F are among them);
wording and figures.

### The other MC modules and proofs

`MC_CaseDocuments`, `MC_Exports`, `MC_CarryOver`, `MC_JobClock`,
`MC_DraftArtifacts` and `MC_LocalDummy` are the instances for TLC,
`CaseDocumentsProofs`, `ExportsProofs`, `JobClockProofs` (the loop's too),
`DraftArtifactsProofs` and `LocalDummyProofs` the proofs (those about `CarryOver`
are the end of `HumanRecordsProofs`).  The three documents of `MC_CaseDocuments`
are one of two ranges, an e-mail of one part, and a form nobody can read.

## 3. Runs

| Run | Instance | Shows |
|---|---|---|
| `one_run` | 1 request handler, 1 run, 2 tool calls, 3 faults, 1 stop | every safety property of a run, the refinement and `RunEnds` |
| `two_requests` | 2 handlers, 2 runs, no tools | `SingleRunning`, `EndsOnce` |
| `approval` | 2 items, 2 edits, 3 confirmations, 2 comments, 6 events and bounces | state, history, flags, comments, refinement |
| `carry_over` | 1 item, 1 question, 1 reader, 1 edit, 2 confirmations, 3 events and bounces, any number of requests | `RecordsAreNoticed`, `ListedFlagWasTrue`, types |
| `values` | 1 item, 4 rows of edits of three groups, undone in any order | `CorrectionRepairs` |
| `undone_unit` | 1 item | a documented claim the code does not keep |
| `documents` | 3 documents, 2 intakes, 1 excluder, 2 runs, a limit of 1, 1 issue a run | documents, limits and finalizations |
| `exports` | 3 requests, 1 reader, 2 records, 1 fault | archive, files, lists |
| `lost_export` | the same | a documented claim the code does not keep |
| `draft` | six inquiries of an agent, 6 writing calls, and 250 cases of the local policy, 1 range taken in late | contracts, tables and validation against each other; inventory; the local policy |
| `dead_end` | the inquiries of an agent | a documented claim the code does not keep |
| `loop` | 2 tools, 2 requests waiting, 1 message, 3 turns, limits of 2, deadlines of 1 to 4 ticks, 1 tick of stall | the loop, the hand-over of replies, the deadlines, three attempts to persist, recovery |

Bounds. Three faults are what it takes to exhaust the three attempts of a job,
so a stranded run is reached; after one stop no run has a job any more, and what
a second stop could interrupt, the recovery at startup and a request's, a fault
of that request interrupts at the same places; two tool calls let a write
precede the finalization; two runs and two requests let a second reservation
race an end of the first. Six events and bounces hold a check, a bounce, an
approval, a correction, a second bounce and a second approval, so every flag is
set, cleared and set again; three confirmations are what the check of two items
needs, and with one item they leave room for one undone and repeated; four rows
hold two corrections of a quantity, each of which can be half undone. With a
limit of one, two intakes exceed it and a third document can still be listed
after an exclusion; two runs make one reservation meet another and an exclusion;
one issue a run tells a range that was excused from one that was read. Three
exports hold an initial one, one that fails and one that follows it; two records
separate the moments of the three. Carrying over needs one record of each kind,
one of them undone; three events show a flag set and cleared while a list is
read. Six writing calls are what a smallest finalized draft takes (a header, a
row, its source, a question, the inventory, and one more that is wrong); each
inquiry holds the calls that go wrong in one way, and the cases of the local
policy hold documents of each kind, lines of each kind and documents with none;
one range taken in late, noted or not, is excused or missed; no case has more
than three lines, so the `Numerals` 1 to 4 number them and leave one for a
remedy. In `loop`, three turns reach each limit of two with a call of another
kind between; two requests waiting let one be abandoned in the queue and one
while its call runs; with one tick of stall the grace of 11 is the least that
`GraceAssumption` admits.
Deadlock is not checked: with the budgets spent and the runs used up the
modelled system really stops.

Fairness.  In `one_run`, by `FairSpec`: Weak fairness of the steps of a coroutine
(`ToolStep`, `JobStep`, `ClientStep`): asyncio runs a ready task, and PostgreSQL
grants a lock that is released. Of `Expire`: time passes. Of `StartServer` and
`Exit`: an operator restarts a server, `stop_jobs` is bounded. Of `Arrive(c) /\
Recoverable # {}`: somebody opens the case while an expired run is there;
without it `RunEnds` is false, since nothing in the process watches a run whose
three attempts have failed. No fairness is assumed of faults, crashes or
timeouts there.  In `loop`: weak fairness of the worker's steps, of the job's and
of time, since the event loop runs what is due; none of the SDK, of tools and of
the database, which may all be silent for ever.

Findings. `undone_unit`: a quantity is corrected by two rows and undone by one;
undoing the row of the unit leaves the number without it (04-db.md:725).
`lost_export`: any exception that leaves the transaction removes the file, the
one of a commit whose answer is lost included; its row stays, and no later
export is the initial one (a bug, at export_service.py:63, against
05-api-ipo.md:239). `dead_end`: once a question calls the quantity of a row
without a group a conflict, nothing the agent can do makes the draft valid
again, since rows are only added, although the violation's message and
agent-plan.md:156 name its remedy.

Observations for which no run is kept: a worker whose executor was closed while
it awaited its commit still commits its artifact (agent-plan.md:246 says
otherwise; the fence of `WritesAreFenced` holds); undoing a correction, unlike
making one, leaves a version approved (02-requirement.md:355); an edit names one
field, so a measure whose unit was cleared cannot be stated again
(03-spec.md:304), except by undoing what cleared it.

## 4. Proofs

`RunLifecycleProofs` proves, from `ClientsAssumption` and `BoundsAssumption`
alone:

- `RunInvariant`: `Spec => [](TypeOK /\ RunInv)`.  The type invariant is not
  inductive by itself (a job could store the result `"none"`), nor is any of the
  safety properties.  `RunInv` adds who holds which lock and why (`ToolInv`),
  what a job and a client have done by the time they are where they are
  (`JobInv`, `ClientInv`), and that runs are numbered in order (`ReservedInv`).
- `Implements`: `Spec => KeepsPromise`.  Every step is mapped to one of the four
  actions of RunPromise or to a stutter; the invariant provides that a locked
  run may be written to and that a committing call replaces its own pending
  event, never an earlier artifact.
- `Fenced`, `OneRun`, `EndedOnce`: the properties of the same content, from the
  step lemmas above.

`RunTraceProofs` extends it and proves `TraceInvariant`, from which
`SuccessesAreClean`, `StepsAreOrdered`, `FilesArePrefixes` and `EndsAreRecorded`
follow.  None of these is inductive with `RunInv`: the invariant adds that the
trace of a run being launched is its first event, so an export before the job
writes nothing a call may still replace (`LaunchInv`), and that a run whose
interruption is recorded holds no lock and has no call that could commit
(`InterruptInv`).  With these, each of the thirty-odd actions has one of seven
effects on the database and the file of one run, or none (`StepHasEffect`), and
it is the seven effects that are shown to keep what is said of the data.

`HumanRecordsProofs` proves, about the review, from `QuestionsAssumption` alone:

- `StateFollowsEvents`: `Spec => []ReviewInv`.  Neither `StateIsLatestEvent`
  nor `RecheckIsStaffAfterReview` is inductive alone: that a correction is the
  latest event exactly when a check follows the latest review needs the events
  to chain and the state to be the end of the chain.  `HistoryIsTrue` and
  `RecheckIsTrue` are its two parts.
- `ImplementsReview`: `Spec => KeepsReviewPromise`.  Lemma `Effects` reduces
  the eleven actions to four effects on state and history; each is mapped to an
  action of ReviewPromise, the rest to a stutter.
- `BouncesHaveReasons`, `CommentsStay`: with the invariant `CommentInv`.
- `ChecksAreEarned`: confirmations are marked and never removed
  (`ConfirmationsStay`), and leaving draft reads those not marked.
- `ListedFlagsWereTrue`: two of the three moments a reader joins lie on the same
  side of every change of the flag, which the invariant of a reader says by what
  it has seen so far.

and about the values, from `DraftedAssumption` (a draft has a value of its kind
in every column), `InputsAssumption` and `DecisionsAssumption`:

- `CorrectionsRepair`: `Spec => CorrectionRepairs`.  `edit` checks the values it
  has read with its rows applied to them; what is shown afterwards is the draft
  with all rows applied.  `LaterRowsApplyLast` says that the two are the same,
  for any rows before and any of them undone.  Its core is that a set of places
  has a latest (`LatestIs`), by the well-foundedness of the natural numbers.
- `ValuesStayTyped` and `RecordsTypeCorrect`: a row takes the other half of a
  quantity from the values it finds, so the types of the rows and those of the
  values need each other; the invariant `EditTypes` adds that each row of a field
  with a state names one, without which a state column could become empty.
- `CorrectionsReopen`: only `Edit` adds rows, and it reopens.

and about `CarryOver`, which it extends:

- `RequestRecordsNothing`: `CarrySpec => Spec`, with which all of the above holds
  while runs are requested (`CarryOverTypeCorrect` is an instance).
- `ExistingRecordsAreNoticed`: records are added, marked and never come back, so
  what was there at the beginning and is there at the end was there when its
  table was read.

`CaseDocumentsProofs` proves, from `DocsAssumption`, `IntakesAssumption` and
`LimitAssumption`:

- `DocumentInvariant`: `Spec => [](TypeOK /\ DocInv)`.  `DocInv` adds that an
  exclusion about to be inserted means no run is reserved or running, that a
  reservation about to be inserted lists no excluded document, and that a
  finalization under way has the ranges of the statements behind it for every
  document there was when it began.
- `ExcludedIsAvoided`, `DocumentsOfARunStay`, `FinalizedHasRead` and
  `CompleteHasRead` follow, the last two with what a finalized version was
  judged by (`FinalInvariant`).
- `OvershootIsBounded`: the sum of documents listed and intakes under way grows
  only by an intake that found room; the rest is arithmetic of cardinalities.

`ExportsProofs` proves, from `RequestsAssumption` and `BoundsAssumption`:

- `ExportInvariant`: `Spec => []ExportInv`; the reads of the one holder stay
  true until its commit.
- `ImplementsArchive`: `Spec => KeepsArchive`.  A commit is an `Export` of the
  archive whether or not its answer arrives, `Record` is `Record`, the rest
  stutters; that the entry is true is what `HolderInv` says of the holder.
- `NoFileLeft`, `VerdictsAreWarranted`: with what a failed request and a
  verdict once given can still become.

`JobClockProofs` proves, from `LimitsAssumption`, `ClockAssumption` and
`GraceAssumption`, `RecoveryWaits` and `OuterDeadlineIsLast`.  The invariant
bounds, for each place of the job, how far the clock can have gone: by the
deadline of the place, those of the places before it, and the ticks stalled.

It also proves, from `LimitsAssumption` (the counts are at least one, the
deadlines and bounds natural numbers):

- `RepliesAreMatched` and `SilencesAreReal`.  The invariant says what the queue
  holds: of the requests, those after the one the worker has taken last, in
  order (`Fifo`), so the call it takes next is the next one and its reply goes
  to that request; and the last message, unless the wait at hand counts from it
  or a later moment (`SilenceIsKnown`), so a wait that ends on an empty queue is
  no shorter than the silence.
- `StopsAreWarranted`: `Spec => []StopIsWarranted`.  The property speaks of the
  history, the worker of three counters and the last key of each.  `HistoryInv`
  relates them: a counter with a key counts exactly the places, from one of them
  to the end, that hold this key, and after every earlier place, before that
  one, something else was noted (`CountsFrom`).  A limit is met by the counter if and only if it
  is by the history (`CountIsWarranted`, `CountGoesOn`); while the loop goes on
  none is (`GoesOn`), and a stop names the first of the four that was
  (`StopFits`), in the order of the worker.
- `JobTypeCorrect`: `Spec => []TypeOK`; that a job persists an end, never a
  missing or a cancelled result, needs that a worker that closes has one.

`DraftArtifactsProofs` proves, from `NamesAssumption`, `NumeralsAssumption`,
`BatchesAssumption` and `MaxCallsAssumption`, for any inquiries of an agent:

- `KeptIsStorable`: a draft whose rows keep the contracts and the checks of the
  repository (`DraftOK`) passes every CHECK, NOT NULL, foreign key and unique
  index of both schemas.  The contracts of `draft_types.py` and the constraints
  of `drafts.py` and `t201_artifacts.py` are written three times over in
  different terms; this is where they are compared, column by column.
- `DraftTypeCorrect`, `DraftAcceptedIsStorable`, `DraftFinalizedIsValid` by the
  invariant `DraftInv`, which is `DraftOK` of the draft and the properties.
  `DraftOK` is what makes them inductive: rows are checked when they are added,
  against the rows there are, and a constraint is about all of them.
- `DraftBackstopsAreIdle`: each rule the validation repeats follows from
  `DraftOK`.
- `DraftViolationsCanBeRemedied`: `Spec => [](RoomIsLeft =>
  ViolationsCanBeRemedied)`, for each of the four remedies that the call is
  accepted (`SourceRemedies`, `HeaderRemedies`, `QuestionRemedies`,
  `CompanionRemedies`), that the draft after it is again one of `DraftOK`, hence
  storable, and that the violation is gone.  A stored row can be registered
  again under another code because `DraftOK` says it has no
  `consistency_errors`, which do not look at the code.  `RoomIsLeft` is what the
  finite stand-ins of the model need: a code that no row has, ids and field
  names among those it tells apart, no two places with one id, and a document to
  cite.  It is true in every state of the run `draft`.
- `DraftInventoryReconciles`: `valid_mapping` on entry is what `reconcile`
  judges by, and the links of items and of entries are one relation read in both
  directions.

`LocalDummyProofs` proves, from those and `CasesAssumption`,
`NumberingAssumption` and `FieldsAssumption`, for any cases:

- `DummyRefusedForCause`: `DummySpec => []RefusedForCause`.  The policy takes a
  reply for a success, so that its next call is accepted has to follow from the
  calls before it, all of them: the id it cites is that of the item it made, the
  document one it has read, the code one it has not used.  What ends its run all
  the same is a cause in its documents (`Overlong`) or in what was taken in since
  (`Unread`), whatever is taken in and whenever.
- `DummyPublishesAllOrNothing`: `DummySpec => []PublishesAllOrNothing`.
- `DummyTypeCorrect`, `DummyAcceptedIsStorable`, `DummyFinalizedIsValid`,
  `DummyBackstopsAreIdle`, `DummyInventoryReconciles` and
  `DummyViolationsCanBeRemedied` (where `RoomIsLeft`): what is proved of the draft
  of an agent holds of the policy's, by the same lemmas about calls; the policy's
  batches need no assumption.

The invariant `DummyInv` is that of the draft (`DraftKept`) and, where this
policy drives the run, `Driven`, in six parts:

- `AtPlace`: where the loops can be, and that what there is to read are the
  ranges of the case and some of the late ones (`RangesKnown`).
- `Taken`: what has been collected, as sets of places.  `notes_here` and
  `matches` list the lines of the range read so far, `url_notes` the notes of the
  ranges behind; each lists a place once.  `sources` has only rows, and, unless
  `unsupported` is set, every line of the ranges behind that is neither a note nor
  blank.
- `Scanned`: the ranges behind have been scanned, and unless `unsupported`,
  something is reported if and only if a document or a range behind was empty.
- `DrawnUp`: the lists drawn up, each row by its number.
- `Written`: the seven tables, call by call, as functions of those lists; no call
  was aborted but that of items with an over-wide quantity, after which nothing
  is written; the draft conforms.
- `Halted`: where the policy stopped for what came late, it is still unread; an
  intake never excuses a range that an earlier one brought.

Two arguments carry it. Numbers: rows and notes are distinct places of the case,
so there are no more of them than places (`Numbered`), and `NumberingAssumption`
keeps their codes apart; and the counts the second theorem speaks of are lengths
(`AsMany`). At the end: nothing `DraftValidation` looks for is there but a late
range (`OnlyTheLateIsAmiss`), since each row has its evidence for `kind` and
`qty`, states its other fields as not stated, and has a question if it is TBA;
hence the policy is left with `validation_unresolved` only for that. TLC checks
`DummyInv` and `RoomIsLeft` on the instance of `draft` without an error.

Every safety and action property of a run is thus proved for all values of its
constants (`ViolationsCanBeRemedied` where `RoomIsLeft`).  Those that are only
model-checked are liveness, `RunEnds` and `LoopEnds`: fairness and ENABLED are out of the prover's reach.

## 5. Plan

What is left, in order of what it would add:

- `RunLifecycle` refined by `JobClock` where both describe the job: the same
  job with the clock forgotten.
- An intake that is atomic as the abstract specification of the one in
  `CaseDocuments`.
- The workbook of an export as a function of what `HumanRecords` holds.
- The frontend's polling of a run: the last state shown is the last state.

## 6. Not modelled, and why

- Readers of documents (`services/readers`): parsing by external libraries,
  without state.
- HTTP endpoints, schemas, error texts: thin adapters; frontend rendering.
- Cases and rule sets: plain rows; their one lock is in `RunLifecycle`.
- What a model decides: the policy is nondeterministic.
- Layout of workbooks, wording, logging.
- The parts of section 5, until they are written.
