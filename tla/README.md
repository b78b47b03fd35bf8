# Formal models of NF-SafetyHub

NF-SafetyHub is a FastAPI proxy in front of a large-language-model relay. It
admits `/v1` requests, checks and masks chat prompts, forwards them, answers
blocked ones itself, and keeps an audit log and a training archive. This
directory holds TLA+ models of the parts whose correctness depends on the order
in which things happen, the TLC configurations that check them on small
instances, and proofs, checked by TLAPS, that hold for every instance.

## 1. The system

Four uvicorn worker processes share a PostgreSQL database, the rules file
`engine/rules_config.yaml` and the report directory; nothing else. Inside a
worker one asyncio event loop runs everything, so whatever code does between two
suspension points (`await` that really suspends) is one indivisible step. A
request passes RequestId, the concurrency gate, the body limit, API-key identity
and admin authentication before it reaches the relay.

| Component | State it keeps | Operations | Talks to |
|---|---|---|---|
| `/v1` gate, `middleware/concurrency_limit.py` | `_inflight`, `_queued`, one `asyncio.Condition` | acquire, wait, time out, refuse with 429, release | every `/v1` request of the worker |
| Archive queue, `runtime/archive_queue.py` | bounded queue, one worker task, `_dropped`, `_processed`, `_running` | enqueue, batch, write, stop | relay (enqueue), `storage/training.py` and `storage/audit.py` (writers), runtime settings |
| Relay, `proxy/relay.py`, `proxy/stream.py` | locals of one request | read body, scan, block or mask, forward, archive, audit | scanners, archive queue, upstream |
| Scanning engine, `engine/` | loaded rules of each scanner | scan, reload | rules file, relay |
| Fake responses, `proxy/fake_response.py` | none | build an answer | relay |
| API-key governance, `governance/` | key records (database), tokens (provider) | create, revoke, delete, replace, bulk replace | provider's HTTP API, identity |
| Identity, `middleware/identity.py` | cached key count per worker | identify a request | key records |
| Rule store, `admin/router.py` | the rules file | switch a rule, reload | scanners of its own worker; other workers poll |
| Runtime settings, `storage/runtime_settings.py` | one row, one copy per worker | set, refresh every second | relay, archive queue |
| Data governance, `storage/data_governance.py` | jobs, marks on conversations | coverage analysis, cleanup | training rows |
| Reports, `runtime/reports.py`, `storage/reports.py` | report rows, lock files, report files | generate, schedule, sample, clean up | database, disk |
| Admin statistics cache, `runtime/admin_cache.py` | one cached value | get, invalidate | admin pages |
| Image assets, `storage/image_assets.py` | files and rows | download and store | relay |
| Key import and re-encryption, `scripts/import_yxai_keys.py`, `scripts/migrate_apikeys_to_fernet.py` | none | import an export, renew old secrets | key records, beside the service |
| Move to PostgreSQL, `scripts/migrate_sqlite_to_postgres.py`, `scripts/verify_postgres_migration.py` | offset of a table | clear, copy in batches, set sequences, compare | both databases, beside the service |

What is hard to test here:

- the order in which tasks get a condition's lock, and timers that fire before,
  with or after a notification (gate);
- a rule reload, a change of the capture switch, a failing upstream or a client
  that leaves, between any two steps of a request (relay);
- a writer that fails before or after its commit, a full queue and a shutdown
  that has to empty it (archive queue);
- two workers, or a worker and the key provider, of which one fails between two
  steps that belong together (key governance, rule file, coverage jobs, reports);
- a copy in memory that is older than what it was copied from (rules, runtime
  settings, number of keys, figures of the administration page);
- bytes that end anywhere: chunks, byte limits and events that do not fall
  together (streams), positions in a text that is not the one they are used for;
- a script that reads, works and writes while the service goes on, or that dies
  half-way and is run again (keys, move to PostgreSQL).

For each component, what makes it correct:

- gate: the counters say how many requests run and wait, neither exceeds its
  limit, no slot is idle while a request waits, every request is settled;
- archive queue: every accepted payload is written at most once and leaves the
  queue, `join()` counts exactly, stop loses nothing, the counters shown to
  operators add up;
- relay: what the upstream is sent is what was judged; every hit is audited once
  with what was done; every answered conversation is archived at most once;
- key governance: an active record has a live token; a token without a record
  is not left behind; revoking a record revokes the token it uses;
- rule store: a switch is not undone by a concurrent one; a reload loads a rule
  set that someone wrote;
- coverage: a covered conversation is a prefix of a kept one, none that should
  be covered is passed over, and clean-up loses no exchange;
- reports: a period is not refused for ever (a killed generation blocks it until
  its row expires, up to 90 days later); files and rows agree; no audit is in two
  reports of a type, and one in none is of a period whose report was not generated;
- identity: nobody passes without a key unless there was none shortly before,
  and the upstream key is one that the client's key stands for;
- settings and figures: every worker comes to have the stored value; no figure is
  older than its lifetime;
- contents: what is scanned is what is masked, the strongest rule decides, an
  archive is a true beginning of what was streamed, every image is recorded once;
- scripts: a record keeps what it was last given, an import can be repeated if no
  creation recorded one of its tokens later, a move that ends is whole.

`PROJECT.json` lists these hazards one by one at their lines.

## 2. Modules

| Module | What it is |
|---|---|
| `BoundedAdmission` | the abstract promise of the gate: at most so many run, at most so many queue, a request is refused only when both are full or it has waited |
| `V1Limiter` | the gate as it is coded, step by step |
| `V1LimiterProofs` | its invariants, and that it implements `BoundedAdmission`, proved for every number of requests and all limits |
| `ArchiveQueue` | the queue, its worker, the fallback writes and `stop()` |
| `ArchiveQueueProofs` | its invariants and counters proved for every queue and batch size |
| `RelayRequest` | one request in the relay |
| `RelayRequestProofs` | its safety and action properties proved for every set of rules |
| `KeyGovernance` | key records, provider tokens and the administrators' calls that change both |
| `KeyRecords` | what the key table says, and the service and the scripts that write it |
| `KeyGovernanceProofs` | about both: revocations are real and final, client keys unique, records and tokens together, for every number of calls; records are as given, whoever writes them, and imports can be repeated |
| `Identity` | who passes to the relay, with a worker's cached number of keys, in time |
| `StatsCache` | the administration page's figures, their lock and their lifetime, in time |
| `RuleFile` | the rules file, read and rewritten by all workers |
| `RuntimeSettings` | the capture switch: a row, and a copy in every worker |
| `ChatText` | one chat request as text: what is scanned, hit, masked, answered and audited |
| `StreamArchive` | one stream as bytes: what is passed on, kept and read again |
| `ImageAssets` | the tasks that archive generated images |
| `DataGovernance` | conversations, coverage jobs and clean-up |
| `DataGovernanceProofs` | no exchange is lost and no repetition missed, for every number of rows, users and jobs |
| `Reports` | generations of a period's report, its row, files and lock file, and the clean-up of all three |
| `ReportsProofs` | what a row says of its files is true unless a lock file was swept away, for every number of workers, periods and formats; no audit is counted twice |
| `ReportFigures` | the calendar of reports, which of them are generated, and which audits they count |
| `DatabaseMove` | the copy from SQLite to PostgreSQL and its comparison |
| `SharedStoresProofs` | about `RuleFile`, `DatabaseMove`, `Identity` and `StatsCache`: switches add up, moves are whole, nobody passes unknown, figures are fresh |
| `ContentsProofs` | about `StreamArchive`, `ImageAssets` and `ChatText`: archives are beginnings, messages are what was said, images are recorded once; what is scanned is masked, the strongest rule decides, audits show what was hit |
| `MCWorkerProcess`, `MCDataGovernance`, `MCReports`, `MCTimedCaches`, `MCContents`, `MCSharedStores` | small instances for TLC |

`MCWorkerProcess`, `MCReports`, `MCTimedCaches`, `MCContents` and `MCSharedStores`
put several modules side by side that share neither state nor locks. A variable `subject`,
chosen at the start, says which of them a behaviour follows; the others rest in
one fixed state. What such a run shows is therefore what a run of each module
would show, with no product of their states in between.

Where components do share state, the module that needs it has both sides: the
relay's archive and capture switch are in `RelayRequest` and, from the queue's
side, in `ArchiveQueue`; the archive's inserts are in `DataGovernance`; the audits
a report counts are written in `ReportFigures`; administrators' changes of keys
are in `Identity`; the service writes beside the scripts in `KeyRecords` and
`DatabaseMove`.

Definitions whose comment starts with "Faulty variant", or that are marked
"a mutant", are wrong on purpose: each stands for a plausible bug, is used by no
specification, and shows that a property notices it (see `PROJECT.json`,
`mutants`).

### V1Limiter

`pc[r]` is the suspension point of request `r`: waiting for the lock on the way
in (`entering`), in `condition.wait()` (`sleeping`), notified but not yet run,
waiting for the lock again (`reacquiring`), timed out and waiting for the lock
(`expired`), sending a 429 with the lock held (`rejectFull`, `rejectLate`), in
the application (`running`), or waiting for the lock to give its slot back
(`releasing`). `inflight` and `queued` are the two counters; `lockq` is the
asyncio lock with its first-in first-out queue and `waiters` the condition's
wait list. Every action is a maximal piece of code between two suspensions: for
example `Arrive` runs from the call of `_acquire_slot` to the slot, the wait,
the 429 or the lock queue.

Python's own behaviour is part of the model. `renotify` chooses between the two
versions of `Condition.wait()`: until 3.12 a wait that is cancelled after it was
notified forgets the notification, from 3.13 on it passes it on. The image runs
3.12. `WorkConserving` therefore holds with `renotify`, and `NoIdleSlot`, the
same without that condition, is violated.

### ArchiveQueue

`fate` says what became of each payload, `rows` how often it was committed,
`tried` whether a writer was ever called with it; they are history, the other
variables are the code's. A batch is collected, the training writer runs, then
the audit writer, and `task_done()` is called for each item. `Settle` stands for
a writer's effect on the rows; it may raise before the commit, or after it while
refreshing. `Rowless` payloads are conversations the writer makes no row of.

### RelayRequest

A text is the set of rules that match it: `seen` for the latest text after
normalization, which is what scanners see, and `raw` for all user texts as they
were sent, which is what the masking patterns are applied to. Judging (scan,
mask, audit) does not suspend and is one step, `Judge`. After it the handler, or
the stream's generator, moves through `ready`, `relaying` and `awaiting` to
`done`; `Reload` and `SetCapture` are other tasks of the worker and may happen
between any two steps. Requests share no state but the rules and the switch, so
one request is enough.

### KeyGovernance

Each administrator's call is a task `c` with its own `job[c]`; `pc[c]` says which
request to the provider or which database statement comes next. `records` is the
table, indexed by the call that created the row; `live` holds the tokens that
exist at the provider, and `made`, a history variable, who made each. Every step
is one HTTP request or one statement, so other calls, in the same worker or in
another, come between. `Abandon` ends a call anywhere: a request fails, its
answer is lost after it had its effect, or the worker dies. `SaveFails` is an
exception that `create_from_provider` catches, which leads to `Compensate`; it may
come from the refresh, after the row was committed. `tellsId` is the provider's
choice: with the id in its answer a creation knows its token, without it the
code takes the newest token of that name. `NoStrayToken` and `ActiveTokenLives`
hold with the id; without it the compensation of one creation may delete the
token of another (`CompensationTakesItsOwn` is violated). A row of a bulk replacement
whose record is deleted between lookup and replacement is reported as replaced
(`ReadForReplace`); the model keeps this and no property claims otherwise.
`update()` writes the name, owner, department, cost centre and the date of expiry
(`expires_at`); nothing in these two modules reads them, and it is left out.

### KeyRecords

Here the provider is left out and the columns count: the client's key, by whose
hash and prefix a record is found, the two encrypted secrets with their form, the
token's id, the provider, and whether the two keys are the same. `given` is
history: the keys each id was last given by whoever wrote it. `Named` is how one
row of a replacement list finds its record: by id, by whole key, or by a prefix
that only one record has; `Meant` is what it should find, a short key being the
prefix of another included. Keys are taken to begin with `sk-`, as the code does. The import is one transaction, so `ImportResult` folds
`ImportItem` over the file; each item sees what the ones before it made. The
re-encryption reads (`ReadSecrets`) and later writes in one transaction
(`WriteSecrets`), and any change may come between. A key that is given to a
record in the meantime may then be overwritten by the earlier one: `overtaken`
collects these ids, `KeysAsGiven` exempts them, and they are the reason to stop
the service before that script.

A key may be given by an administrator (`CreateKey`) or made by the provider
(`CreateFromProvider`): the latter stores the token's id, which is not a unique
column. `Tokens` are the tokens that the provider may make for the service, with
the ids and keys by which exports know them. A creation from the provider first
has the token made and then saves its record; an export made in between names the
token, and if it is imported before the record is saved, two records have one
token's id, and every later import of it raises. `late` collects such tokens,
`ImportRepeats` exempts files that name one, and `ImportAlwaysRepeats`, which a
document promises, is violated. A provider that names no id gives a record like
that of a pasted key.

### Identity and StatsCache

Both count time in ticks. In `Identity` a request of one worker looks up its key,
or the cached number of keys, in steps between which administrators in any
worker create, change, revoke and delete keys; a count that was taken before
another may be stored after it. The history variables say when the table was last
empty and which upstream keys the client's key stood for since the request came.
`StatsCache` is the lock, both looks at the cached value, and a load that takes
time; a figure is known by the moment at which the oldest part of it was read.

### RuleFile and RuntimeSettings

`file` is the rules file with its three states: whole, emptied by `open(..., "w")`,
and torn, when two writes overlap. A switch reads the file, opens it, writes it
and reloads; a reload reads the file once per scanner. `SwitchesKept` is about
switches that do not overlap, in whatever workers; that overlapping ones undo one
another is a finding. `OthersStayArmed`, which a document promises, is violated: a
worker may load the file while another has it empty. `RuntimeSettings` has the
row, every worker's copy, and refreshes and changes that overtake one another
between their database call and their assignment.

### ChatText, StreamArchive, ImageAssets

`ChatText` is a text as a sequence of pieces: words in upper or lower case,
numbers that one kind of expression finds, gaps, characters that are not seen,
and pieces that are percent-encoded some times. A message's content, a text or
lists in lists of texts and objects, is the sequence of its texts in the order
they stand, each at its place: which item and which field of every list on the
way to it. So contents nest to any depth without recursion: a text is read if
every field on its way is (`IsRead`), and masked if every field on its way is one
the masking visits. Normalisation decodes twice and
drops and squeezes; rules match with their mode, case and default values; masking
replaces the numbers of the rules in force in the raw text. The module has the
whole way from the messages to the text that is scanned, the action, the body
that is sent, the chunks of the fake answer and the snippets of the audit.
`StreamArchive` is a stream of bytes which is cut into chunks in every way; the
collector keeps the first `limit` bytes and the message is read again from them.
`ImageAssets` has tasks that may share a request id, and so a file name.

### DataGovernance

`conv` holds every conversation ever stored in the order of ids, which is not the
order in which they become visible. A coverage job takes batches of pending rows
behind its cursor, looks for longer ones of the same user and key, writes the
marks and goes on; clean-up deletes between any two of these steps. `late` is
history: the row became visible after one with a greater id, so that a running job
may have passed its place. Such a row stays pending for the next job, and what
`NoneMissed` says of the rows a job leaves behind does not include it.

### Reports and ReportFigures

`Reports` is a period's row, its files and its lock file, with workers that
generate, die and retry. The lock is taken as the code takes it: `Open` opens the
lock file of the period, or makes one, and `Flock` locks the inode it has opened.
The clean-up has a lock of its own and sweeps every file below the reports
directory; the lock files lie there. Between its reading of a lock file's age
(`Look`) and its `UnlinkLock` a generation may open that file, which then excludes
nobody: the next one makes and locks a new inode. Both may find the row not
running, since nothing tests it again when it is saved. `undercut` is history:
the periods to which this has happened, until a generation has saved its row
alone and with the lock file that is there. `OneWriter`, which a document demands,
is violated; what is left of it is `OneWriterUnlessUndercut`, and `RecordsTrue`
speaks of the other periods.

`ReportFigures` is the calendar: days from 2020 on with months, leap years and
ISO weeks, the scheduler's reports of each day, and the audits that are written
meanwhile. A report that is due is generated or not (`Miss`): `generate_scheduled`
returns on any exception, and neither it nor the scheduler comes back to a period,
nor to one whose time fell into a standstill. `lost` counts the audits of such
periods. That they are in no scheduled report is what the code does by design; what
`CountedOnce` demands is that the periods join all the same, so that a failure costs
the audits of its own period only and repeats none.

### DatabaseMove

A run of the copy clears the target or does not, copies table after table in
batches behind an offset, each batch a transaction, and sets the sequences in the
end, of one table after the other: it reads the greatest id (`ReadHighest`) and
sets the sequence by it (`SetSequence`), and `behind` remembers the tables into
which the service wrote in between (an insert whose transaction is open at the
reading counts as one). Of these the sequence may give an id that is taken. The
comparison counts the rows of the tables it is given (`Compared`), by default seven
of the twelve, so that numbers that agree mean a whole move of those tables only;
`AgreementIsWhole` says it of all and is violated.
The copy may stop before any of these steps and be run again. The service may
write to the source or the target at any time: SQLite gives the largest id plus
one, PostgreSQL its sequence's next. `quiet` is history: nothing was written by
anybody else since the target was empty. Tables whose ids are text take part as
tables whose sequence nobody asks.

## 3. What TLC checks

| Run | Instance | Shows |
|---|---|---|
| `worker_process` | 5 requests, 2 slots, 2 queue places; 2 audits, 2 conversations (one rowless), queue of 2, batches of 3 | the gate: counters, work conservation, refinement of `BoundedAdmission`, every request settles; the queue: no double write, honest counters, `stop()` drains, everything settles |
| `archive_audit_lost` | 1 audit, 1 conversation | violated: an audit is lost untried |
| `relay` | every request, 4 rules (2 blocking, 1 warning, 1 masking) | one judgement governs sending, audit and archive; every request ends |
| `relay_no_text` | every request, 2 rules | violated: a chat without text is not passed on |
| `keys` | 3 calls of any kind, 2 names, 1 pasted key | revocations are real and final, records and tokens stay together |
| `governance` | 3 exchanges of one user and one of another, 2 jobs, batches of 2 | marks are true, nothing is lost, nothing is passed over |
| `reports` | 2 workers, 1 period, 1 format, 3 lock files; 35 days from four dates, 1 audit | rows and files agree unless a lock file was swept away; no audit in two reports of a type, and one in none only for want of the report |
| `reports_end` | 1 worker, 1 period, 2 formats, 1 clean-up cut short | no report runs for ever, old files go |
| `timed_caches` | 1 key, 2 upstream keys, 2 requests, 4 moments; 3 viewers, 5 moments | nobody passes unknown, the right upstream key is used, figures are fresh |
| `contents` | chats of 1 or 2 messages under 5 sets of rules; 5 streams, 6 limits; 2 image tasks | what is scanned is masked, the strongest rule decides, audits show the hit, archives are true, images are recorded once |
| `shared_stores` | 2 workers, 2 rules, 3 switches, 1 kill; 3 refreshers, 3 changes; 4 changes of 4 record ids; 2 tables, 2 runs of the copy, 2 other writes | switches add up, workers follow, records are as given, imports repeat, moves are whole |
| `rules_unarmed` | the same | violated: a switch of one rule disarms another worker |

Bounds. Five requests with two slots and two places is the smallest gate in which
slots and queue are full, a request is refused, and a newcomer competes with two
waiters. The queue of two is shorter than a batch, so that batches end by size,
by timeout and by an empty queue, and payloads are dropped; four payloads let
two kinds share a batch and one overflow. Four rules give each scanner a
blocking rule and the regex scanner one rule of each other level. Three
key calls let a creation meet a revocation and a replacement, or a second
creation, which is all that one record and one token can take part in.

`MaxRows`: with three conversations a job has a full batch and a further one, a
chain of two coverings, and a row that commits late. `Retention`, one day, is
the least that tells young from old. `Span`: 35 days hold a whole month, two
turns of a month and five weeks, and one audit is enough since each is counted by
itself; the four starting dates put them around a
29 February, a 28 February, and turns of the year of which one has a 53rd week.
`MaxTime` and `MaxClock` exceed the lifetimes, so that a value is cached, goes
stale and is loaded again. `MaxHops` is three instead of five redirects.
`MaxSwitches`: two switches may race and a third comes after them.
`MaxChanges`: import, revoke, delete and create by hand is the shortest way in
which looking up by token id alone would fail. `MaxRuns` and `MaxWrites`: a copy
that died, one that is run again, and a write to each database; of the two tables
the comparison names one. `Inodes`: each worker may have a lock file open that is
unlinked already, beside the one that is there. Generations may be killed without
bound; `MaxCrashes` of `Reports` bounds the clean-ups that are cut short. That a
report ends and old files go is asked of one worker, since another generation of
the period is refused or, after the first was killed, is the same worker's next. Of the streams,
one holds a line separator that JSON allows and `splitlines` cuts at.

Where a model is finite by its bounds, deadlock is not checked: the end of its
changes is no fault. `ArchiveQueue`, `V1Limiter`, `RelayRequest` and
`KeyGovernance` are checked for it.

Fairness. `V1Limiter`, in `MCWorkerProcess`: weak fairness of ready tasks and of timers, which the
event loop gives, and of the end of a 429, a send of a few bytes. None for
arrivals or for applications: a request settles although every running one stays
for ever. `ArchiveQueue`, beside it: weak fairness of the worker's next step (timers fire
and the database driver returns or raises), of `stop()` and of each fallback
write. `RelayRequest`: weak fairness of the handler, of the server starting or
dropping a generator, and of `TransportFails`, because httpx's timeouts bound
each wait; none for the upstream's answer. A stream counts as one wait.
`MCReports`: a generation goes on, days pass, and each day's clean-up comes; a
killed worker does not, which is why its report ends only by expiring.
`MCContents`: an image task goes on, as each download has a timeout.
`MCSharedStores`: the two periodic loops run, a change that has begun ends, a
killed worker is replaced; and the loading of each scanner is strongly fair,
because a reload does not fail every time. Everything else, and all of
`KeyGovernance`, `DataGovernance`, `MCTimedCaches`, `KeyRecords` and
`DatabaseMove`, states safety only and assumes none.

Findings. Three runs are violated where the code disagrees with a document.
Further disagreements are stated as formulas in their modules, found violated in
instances like those above, and have no run of their own:
`V1Limiter.NoIdleSlot`, `RelayRequest.MaskingIsAudited` and `DesensitizedWasMasked`,
`KeyGovernance.CompensationTakesItsOwn`, `KeyRecords.ImportAlwaysRepeats`,
`DatabaseMove.AgreementIsWhole`, `Reports.OneWriter` and `SucceededHasFiles`,
`ReportFigures.WarningsCounted`, `StreamArchive.WholeMessageArchived`,
`ChatText.AuditShowsMask`. `PROJECT.json` quotes both sides of each.

The type invariants of all modules hold in the same instances; they are not
properties of the runs, nor are the invariants that only serve the proofs
(`WaitStructures`, `CountsFrozenWhileRefusing`, `JoinCountExact`,
`KeysUnambiguous`), which section 4 covers.

## 4. What TLAPS proves

All theorems hold for every value of the constants, under the assumptions named
in the modules (finite sets of requests and payloads, positive limits, disjoint
kinds). TLC evaluates these assumptions in each run.

- `V1LimiterProofs`: `IInv` is `TypeOK`, the counter part, the wait structures
  and work conservation together; none is inductive alone, because who may be
  woken depends on the wait list, and the counters depend on who owns the lock.
  The counting is done once, in lemmas about moving one or two requests between
  families of states; each critical section has a lemma of its own; `Next` is
  then a case split. `CountsFrozenWhileRefusing` follows from `IInv`: the
  refusing request owns the lock and everything that counts needs it.
  `GateRefinement` is the refinement of `BoundedAdmission`: every action maps to
  one of its steps or to a stutter, using `CountersExact` to read
  `inflight < MaxInflight` as "a slot is free".
- `ArchiveQueueProofs`: `IInv` adds to the type and the `join()` count that
  every held payload is in the batch or in the queue, and that the worker's state
  agrees with the batch. `JoinCountExact` and `StopDrains` follow. For `HeldOnce`
  and `CountersHonest`, `HeldInv` adds that batch and queue hold different payloads,
  each of them still held (but for conversations settled while their batch's
  audits wait), and the counters' bounds with the number of held payloads in the
  place of the queue's length. That a batch adds no more to the counters than it
  settles rests on a lemma about the length of injective sequences.
- `RelayRequestProofs`: `IInv` adds that a request on its way was cleared by the
  rules it was judged with, and that nothing is sent or archived earlier.
- `KeyGovernanceProofs`: `IInv` adds that the row an edit has read is still the
  row it will write, but for status and secret, that a token to be marked is gone
  already, and that a row's creation is past its commit, so that an id never
  returns. One lemma per kind of step; new tokens are new because `made` only
  grows. `RevocationIsFinal` follows from what the invariant says of held rows.
  `NoStrayToken` and `ActiveTokenLives` need `TInv` beside it: for a provider that
  names its tokens, each creation has the token it made and no other has it, its
  record and what edits read of it hold the same token, the token lives until the
  record is saved, and a row goes only after its token.
  For `KeyRecords`, `KeysIInv` adds what a re-encryption has in hand: it read the
  keys last given, unless they were overtaken, and whatever is still in the old
  form was read so; else a success would leave unreadable secrets. An import of any
  length keeps the table's shape because each item does (`ImportItemStep`).
  Of repeated imports `RepeatIInv` says, while no other file has been imported,
  that a record with an import's id is still its token's (`OwnIds`), so that the id
  is free or found, and that each item's token, if a record has it, has the item's
  key (`Told`); the service changes neither, unless a creation from the provider
  records a token that the file has named (`late`).
- `DataGovernanceProofs`: of a job the invariant says that its batch lies behind
  its cursor, that marks on the way to the database are true and all there, but
  for what others have marked and what became visible late, and that what is
  pending behind the cursor is in the batch or late. Of the rows it says that what
  was deleted as covered was covered, and (`Chain`) that what an analysed or
  covered conversation extends is covered itself: without the latter a job that
  marks from an uncovered row only would leave repetitions.
- `ReportsProofs`: the heart is who owns the lock file: at most one generation is
  between taking the lock and giving it back, it is the one that made the row's
  current attempt, and only it writes the files the row will name, as long as the
  period is not in `undercut`. `RecordsTrue` and `WritersExclusive`, which is
  `OneWriterUnlessUndercut`, follow. A period leaves `undercut` when a generation
  saves its row alone and with the lock file that is there: from then on every
  other has to lock that file. Of the figures, `ReportOK` says where the last
  report of a type ended: where the next will begin, if it is due, and else at the
  last turn of day, week or month. So the periods join, whether their reports
  are generated or missed. That midnight keeps this is
  calendar: the number of the next date is the next number (`TomorrowIsNext`), weeks
  begin on Mondays and months on their first day, and `PeriodsOK` leads every label
  back to its period, over the turns of ISO years too. Counts of joined periods add
  up because sets of audits are disjoint, and a trend's buckets because a sum over
  them counts each audit once (`CountsAddUp`).
- `SharedStoresProofs`. Rules: `SwitchesKept` speaks of the file only while nobody
  writes it. The invariant adds, for as long as switches came one by one, that at
  most one worker is between reading and writing, that it will write what all
  switches asked for, and that the file is empty from its opening on, so that no
  torn text can arise. Figures: it orders the moments of a request, from its coming
  over its second look to its reading, and bounds the expiry by the moment of
  which the kept figures tell; `StatsFresh` follows without any use of the lock,
  which keeps loads from repeating one another but is not what keeps figures fresh.
  Identity: it says when the table was last empty (`HistoryOK`), that a cached
  "none" expires within a lifetime of that moment, and that a record which is still
  active was valid for the request's key since it came.
  Moves: until something else is written, each table's copy is a beginning of its
  source with `offset` rows, and a whole one in the tables passed (`Progress`).
  Of the sequences it says that those of the tables passed lie above every id
  (`Numbered`), and that of the table at hand the greatest id was read, but for
  tables written in between.
- `ContentsProofs`. Streams: what is kept is the first `limit` bytes of what was
  taken from the upstream, whether the client got it or not; and this is a
  beginning of the answer's bytes, then at most one error event (`MessageIInv`).
  What a message is read from is followed byte by byte (`After`, `AfterError`), so
  that `MessageRead` tells the message of every cut of every answer. Images: a source has
  one row when its task has done with it and none before (`RecordedInTurn`), and a
  completed row's path bears the hash of its content, so that what another task
  writes there is the same (`RowOK`). Chats: `TextIInv` says of which messages and
  rules the text, the hits and the end of a request are. The rest is about the
  operators. A rule occurs in a text as `Occurs` tells it exactly if the position
  the code computes is one (`KeywordPlaces`, `NumberPlaces`), so a scanner has a hit
  of some level exactly if a rule of that level is in force (`InForceIsFound`), and
  the short circuit of the scan hides none that counts (`StrongestDecides`). Every
  position lies in the normalised text, and the window around it shows what is
  there (`WindowShows`). Masking commutes with what the scan reads: a masked
  content is read at the same places (`ReadAlike`), its parts are the masked parts
  (`PartsMasked`), and joining them puts gaps between, which no mask touches
  (`JoinedMasked`); so the last message that says anything stays the last
  (`LatestMasked`).

Where data of any length is folded over (`FlattenSeq`, `FoldLeft`), the library's
induction rules cannot be used here. The proofs take the least counterexample
instead, which well-foundedness of `<` on the naturals gives: it shows that the
recursive function the definition chooses exists, and then what it computes.

Assumptions that are more than types: no file to import names a token or key
twice, tables to begin with have one record for each client's key
(`InitialAssumption`, the column's uniqueness), identifiers are told apart by their
beginnings (`IdentifiersAssumption`), there is a table to move
(`TablesAssumption`), and the scheduler runs before 2100, which the calendar's
leap years take for one (`CalendarAssumption`), the key table is finite and imports'
ids are their own (`IdsAssumption`), the station gives a key to one token for good
(`TokensAssumption`, of exports and of tokens made for the service: were a key to move, a record would keep the id of its first
token, and a later import could find that id taken), the pieces of text of an
answer differ from those that frame it (`BytesAssumption`), keyword rules have
keywords that are texts, and an expression finds numbers of one kind
(`RulesAssumption`).

Only model-checked: liveness, which the prover has no support for here;
`RuntimeSettings`, whose properties are of that kind; and the violated properties.
Every safety invariant and action property of a passing run is stated by a theorem.

## 5. Not modelled, and plan

What would come next, most important first:

1. `RelayRequest` and `ArchiveQueue` composed: a hit's audit reaches the database or
   is counted;
2. the runtime samples of `runtime/reports.py`, one row per minute and worker.

Not modelled: the rendering of reports and pages, HTTP headers and routing beyond
the upstream key, the body limit and the administrators' login (functions of one
request), the text of endpoints other than chat (never scanned), regular
expressions as such (a number is of a kind that an expression finds), the
database schema and engine set-up, load tests and capture and replay tools,
deployment scripts, and cancellation of a request task from outside, which
nothing in the repository does.
