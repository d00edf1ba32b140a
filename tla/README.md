# TLA+ verification of protoprompt

This directory specifies the stateful core of protoprompt in TLA+: the durable
Memory Ledger with its storage, the recall planner and the review gate that stand on
it, the planner of token-budgeted requests, the secret vault, the Ollama chat
application, and the agent CLI with its working memory. TLC checks the modules on
small instances; TLAPS proves some of their properties for every value of the
constants. `PROJECT.json` lists components, runs, mutants, findings, hazards and
theorems, and maps every definition to the source lines it models.

    tlc -workers 2 -config MCMemoryLedger.cfg MCMemoryLedger
    tlapm ContextBudgetProofs.tla

Paths below are relative to `src/`; `ledger/` stands for `src/protoprompt/ledger/`,
`agent/` for `src/protoprompt/agent/`, `ollama/` for
`apps/ollama-chat/src/protoprompt_ollama_chat/`, `cli/` for
`apps/agent-cli/src/protoprompt_cli/` (all under `src/`).

## 1. Inventory

### Memory Ledger (`ledger/sqlite.py`, `postgres.py`, `types.py`, `writer.py`, `policy.py`)

*State.* One database: records with an admission column set, payloads (plaintext),
sources, relations, an event log, erasure and hard-erase receipts, review audits,
tombstones for records, events and sources, recall checkpoints with their selections,
receipts of scope-wide purges. Below them: a schema version, append-only guards
(triggers), and in SQLite's case a cache of admission checks per connection.

*Operations.* setup, dry_run_setup; create_candidate, confirm, quarantine, expire,
retract, supersede, forget, forget_by_source, purge_scope_payloads, erase,
apply_admission_review, create_recall_checkpoint, invalidate_recall_checkpoint,
expire_due; reads. Each command is one transaction (`BEGIN IMMEDIATE`, or an advisory
lock on PostgreSQL) that any exception rolls back; a host names it with an event
identifier and may retry it.

*Interactions.* Several connections and processes share the database, and so may
programs that are not ledgers. The planner, the gate and the task-resume planner call
it; records carry a revision that callers compare.

*Hard.* Retries after erasure; forgetting in the middle of a supersession chain;
invalidating every checkpoint a command touches; the expiry batch, which scans in one
transaction and expires in others; timestamps compared as texts; migrations of files
whose guards forbid what the migration must do; the hard erase, which drops the guards
for its deletion; a cache that must notice other connections.

*Correct when.* Rows, log and receipts agree; forgotten and erased content leaves
nothing behind; revoked sources stay empty; an identifier is spent once; a record
follows one lifecycle; no command runs on a database that is not the ledger's own, and
no unaudited record is served.

### Bounded recall (`ledger/recall/`)

*State.* Plans in memory, checkpoints in the ledger. *Operations.* plan, resolve,
checkpoint, resume_checkpoint, resolve_resume, compose. Each takes several ledger
transactions and samples an injected clock. *Hard.* Everything may change between the
transactions, and the process may die with the plan. *Correct when.* What resolve
returns was planned, unchanged and valid; a refusal has a cause; a resumed plan is
the sealed one; a composed request carries the records as they are at that moment.

### Admission review gate (`ledger/admission.py`)

*State.* A seal per gate object. *Operations.* propose, review, apply. *Hard.* Reviews
are kept, applied twice, given to another gate or to one recreated after a restart; an
apply waits for the write lock past the deadline. *Correct when.* One verdict per
candidate, from a living gate, on the reviewed revision, in time.

### Token-budgeted context (`src/protoprompt/injector_budgeted.py`, `context_plan.py`)

*State.* None of its own but the request being planned. *Operations.* plan_messages.
*Hard.* The call graph of a replayed history (parallel tool calls, Responses programs,
streamed outputs, anonymous searches, reasoning) must survive dropping groups for
room; the caller edits its list during the awaits; costs are not additive.
*Correct when.* The plan never passes the ceiling, is refused only for its mandatory
parts, accounts for each token, and sends no half of a tool call.

### Secret vault (`src/protoprompt/secrets/`)

*State.* The table of encrypted secrets, the pending-rotation record, the key of the
provider, the cipher in memory. *Operations.* put, get, delete, list_keys,
rotate_key, and recovery in `__init__`. *Hard.* The lock covers single statements:
encryption and decryption happen outside it; a rotation touches two stores and may
crash between them. *Correct when.* No secret is lost, every start opens the vault.

### Ollama chat application (`ollama/`)

*Turns.* A table of reference-counted `asyncio.Lock` entries per dialog, the chat and
delete handlers, a response generator and a model task that meet in a bounded queue.
*Hard.* A browser may leave at any await. *Correct when.* One turn at a time, answers
follow questions, a deleted dialog stays deleted, every turn ends.

*Documents and archive.* Upload writes a row, a file and vectors; removal undoes them;
a chat archives the transcript in segments and retrieves both; startup reconciles.
*Hard.* A failure or crash between any two; a deletion during a retrieval; an interval
changed by a restart; a vector write that goes on in its thread after its request was
cancelled. *Correct when.* Nothing exists that no row leads to, nothing
unfinished is retrieved, the archive has no holes.

*Task-resume demo.* A signed mapping of a dialog to an episode of the ledger passes
create, active, closing, removed, across two databases and a secret file. *Hard.* A
crash in any transaction, a mapping that closes while a request composes from it.
*Correct when.* No request goes on with the text of a forgotten episode; a deleted dialog
leaves no mapping.

### Agent (`agent/working.py`, `cli/`)

*Working memory.* A hot set under a token budget, a cold store, a manifest. *Operations.*
add, recall, forget, pin, clear, export, import: chains of awaits. *Hard.* The store
fails or the process dies between the pop and the archive. *Correct when.* Forgetting is
a demotion: the text is in the cold zone, however often it came and went.

*Sessions.* The REPL's commands and turns on one memory; a file per session. *Hard.*
Switching, damaged files, leaving. *Correct when.* A switch loses neither session.

*File tools.* Inspection, staging, exchange of names, check, clean-up or restoration,
after a permission dialogue. *Hard.* Other processes act between any two system calls.
*Correct when.* Nobody else's file is lost, the reported outcome is true, only what the
user saw and allowed runs.

### The rest

| component | state and operations | why it is not modelled |
|---|---|---|
| task resume (`ledger/task_resume*.py`) | sealed task checkpoints on top of recall | its calls are RecallPlanner's; the typed codec is pure data |
| user profile (`src/protoprompt/profile/`) | a versioned profile; compare-and-put | left for later |
| embedding cache (`src/protoprompt/cache.py`) | an LRU map; concurrent partial hits | left for later |
| retrieval and stores (`rag/`, `store/`) | vectors; chunk, index, search | sequential; seen as sets by their callers' models |
| events, hooks, tokens, scope, readers, pipeline | none shared | pure or observability |
| integrations, connectivity | in the external services | adapters |

Examples, benchmarks, site, build files and data are left aside.

## 2. Modules

| module | models | code |
|---|---|---|
| `MemoryLedger` | the tables and all commands of one scope | `ledger/sqlite.py`, `types.py`, `writer.py` |
| `RecordLifecycle` | abstract: the life of one record identifier | what the ledger promises |
| `LedgerLifecycle` | the mapping from tables to `RecordLifecycle` | |
| `LedgerExpiry` | `expire_due` beside the other commands | `ledger/sqlite.py` |
| `LedgerStorage` | setup, migration, schema check, guards, admission cache, on both backends | `ledger/sqlite.py`, `postgres.py` |
| `RecallPlanner` | the planner's calls as steps between ledger commands | `ledger/recall/planner.py` |
| `RequestComposer` | a request composed from a plan: resolve, await, resolve again | `ledger/recall/composer.py` |
| `AdmissionGate` | gates, kept reviews and queued calls | `ledger/admission.py` |
| `ResponseRuns` | which parts of a replayed call graph may be sent | `injector_budgeted.py:155-842` |
| `ContextBudget` | planning one request, with or without a composer's lane | `injector_budgeted.py`, `ledger/recall/composer.py` |
| `SecretVault` | threads of one vault, crash and recovery | `secrets/store.py`, `secrets/key.py` |
| `ChatTurn` | turns of one dialog | `ollama/app.py` |
| `TaskBinding` | what each transaction on the mapping does | `ollama/task_resume_state.py`, `task_resume_demo.py` |
| `DialogData` | documents, archive, deletion, mapping and startup of one dialog | `ollama/app.py` |
| `WorkingMemory` | the hot set and the cold zone between awaits | `agent/working.py` |
| `AgentSession` | the REPL, its turns and session files | `cli/core.py`, `repl.py`, `__main__.py`, `persistence.py` |
| `ToolRunner` | one file replacement raced by others, and consent | `cli/tools.py`, `actions.py`, `repl.py` |
| `MC*` | bounds, symmetry and next-state relations with bounded identifiers | |
| `LedgerProofs` | theorems about `MemoryLedger` and its lifecycle, `LedgerExpiry`, `AdmissionGate`, `RecallPlanner`, `RequestComposer` | |
| `LedgerStorageProofs`, `SecretVaultProofs`, `ChatTurnProofs`, `ToolRunnerProofs`, `DialogDataProofs`, `ContextBudgetProofs` | theorems about the module they are named after | |
| `AgentSessionProofs` | theorems about `AgentSession` and the `WorkingMemory` under it | |

`LedgerExpiry`, `RecallPlanner` and `AdmissionGate` extend `MemoryLedger` and
interleave its commands with their own steps, so they are compositions: what they
show, they show against every command of the ledger. `RequestComposer` extends
`RecallPlanner` and puts two of its resolves, step by step, into a request. `DialogData` composes
`TaskBinding` with the application, `AgentSession` the REPL with `WorkingMemory`,
`ContextBudget` the builder with `ResponseRuns`.

### MemoryLedger

A variable is a table. A command is one action, because its transaction is atomic and
a command that raises rolls back: a refused command is no step. A retry finds its
event identifier spent (`Unspent`) and answers from the stored rows or raises: it writes
nothing either, so it is no step, and `RetriesChangeNothing` says what that must mean
over time.

`Transition` is the common path of `_transition`: the revision check, the table of
allowed transitions, the moved row, the event, the invalidated checkpoints.
`ForgetAll` is the shared body of forget, forget_by_source and the purge, over a set
of records in one transaction. `Erase` removes a record and every reference to it and
leaves tombstones for its identifier and its events. `ApplyAdmissionReview` is the three
verdicts with their audit.

Identifiers that the code derives (purge events) or draws (uuid4 of forget_by_source)
are `PurgeIds` and `RevocationIds`, disjoint from those of the host
(`DistinctEventIds`: the collision of a uuid4 or of a digest is left out).
`TextRank` is what `format_timestamp` does to the order of instants when they are
compared as texts: a whole second sorts after its own fractions.

Plaintext, digests, actors, reasons, kinds and confidence are left out: no guard
branches on them except comparisons of a retry with what it retries. Also left out:
other scopes (each query filters by scope).

### LedgerExpiry

`scan` is the list `expire_due` holds between its transactions. `ExpireDueRow` expires a
row at its scanned revision, `ExpireDueSkip` is the caught conflict, `ExpireDueAbort`
the uncaught ValueError for an instant before the creation of the record.

### LedgerStorage

`disk` is the committed database, `work` what the open write transaction has made of
it, `lock` the write boundary, `job[c]` which of the steps begin, ready and apply the
call of connection `c` has taken; their order is `WriteOrder`. The database is its schema
version, which versions' tables exist, whether one was altered or something foreign
attached, the state of the two guards, and per record what the guards and the sidecar
tables depend on. Setup is `Migrate` (SQLite, from any version) or `CreateOrRepair`
(PostgreSQL). `OtherProgram` changes objects whenever the backend lets it: on SQLite
while nobody holds the write lock, on PostgreSQL until the open transaction has touched
its tables, because the advisory lock keeps out ledgers only. `ReadActive` is
list_active with the cache: `moved[c]` says that data_version or total_changes moved,
`Fetched` which audits the capacity check makes it select again.

Three commands stand for the rest: one that adds a sidecar row, one that needs an
audit, one that drops guards. What commands do to the other tables is `MemoryLedger`.

### RecallPlanner

`plans[p]` is a call: `planned` after plan or resume, `loaded` after the first
transaction of resolve, `validated` after the second, then `returned` or `stale`;
`manifest` and `mismatch` are the steps of resume_checkpoint. `Sampled(p)` is the
interval from which a step may have sampled its clock: between the end of the previous
step and now, which includes the time spent waiting for the lock. Ranking, filters and
budgets together choose *some* subset of the listed records; a plan that is recomputed
on resume may therefore differ even when nothing changed (`ReplanDiffers`). `retired`
is a history variable: the markers (record, revision) that were once current and no
longer are. The planner's clock is assumed monotone.

### RequestComposer

`requests[p]` is how far the request made of plan `p` is: the steps of the first
resolve (`resolving`), the await of retrieval (`awaiting`), its answer (`answered`), the steps
of the second resolve (`confirming`), `handed`. `ResolveStep` is the planner's own
action, of which a resolve takes several; every ledger command may run between any two, and
during the await. `lost` is a history variable: a selected record had been retired when
the answer came. What the first resolve returned is in the request all along, so only the
second one can keep such a record from leaving. The code compares the two renderings as well;
records at the planned revisions render alike.

### AdmissionGate

`incarnation[g]` stands for the seal key of a gate object. `Propose` is the ingress of
a candidate with the gate's origin; raw commands create candidates of unknown origin
only. A review may be offered to any gate any number of times. `Submit` verifies the
seal, `Apply` is the ledger command that ran after the call waited for the lock.

### ResponseRuns and ContextBudget

An item is one message or Responses item: its kind, the ids that correlate it, the
program that owns it, its status. `RunIsValid` is the conjunction of what the code
checks in one pass over a run of protocol items; `HistoryGroups` cuts a history into
groups kept or dropped together; `HistoryDependency` is the part of it the final input's
leading outputs need. The definitions are pure operators without recursion other than
recursive functions.

`ContextBudget` is a request: `Ask` snapshots the caller's list and fails or waits,
`Retrieve` is the rest after the await (blocks trimmed by binary search, groups chosen
newest first, decisions). Meanwhile the caller may overwrite its last message. A request
of the composer has a lane of recalled records in front, which costs room; that its records
are current is `RequestComposer`'s subject. Texts are numbers of words. `TruncationIsMaximal`
and `NothingIsOrphaned` are reference definitions, stated from the inputs and the
output and not from the code's steps.

### SecretVault

One action per section between two acquisitions of the lock. `task[t]` is what thread
`t` holds between them. A token is the key it was encrypted with, whether its time to
live has elapsed, and `Wrapped` is the pending record (new key, encrypted under the
old). `Open`, `RecoverPending`, `AdoptProvider` and `FinishRecovery` are `__init__`;
`Crash` may happen at any step. `DurableProvider = FALSE` is `EnvKeyProvider`, whose key
falls back to the installed one at a crash. `WrapKey` takes a key that was never used before, as a generated
one is.

### ChatTurn

A step runs from one await to the next. `pc[i]` is where handler `i` is suspended,
`producer[i]` its model task, `queue[i]` the SSE queue. A browser that leaves before
the response cancels the handler (`CancelWaiting`, `PlanAborted`); one that leaves
after planning and before the generator's first step leaves a generator that never
started (`NeverStarted`); one that leaves during the stream (`Leave`) closes the
generator, or abandons it at a yield for the collector (`Collect`). Retrieval and vector
deletion are awaits that may fail.

### TaskBinding and DialogData

`TaskBinding` holds the row of the mapping, the secret and the episodes, and one
operator per transaction; `DialogData` puts them in the order of the host. A step runs
from one await or one commit to the next; the turn lock is a mutex, as `ChatTurn`
justifies. `Fault` is counted: an exception of an await, a crash, or an outsider who
edits the mapping or replaces the secret while the application is down. A vector is written
in a thread (`asyncio.to_thread`): a browser that leaves during the archive's write cancels the
await and frees the turn, but the write goes on. `late` holds the segments whose write still runs,
`LateAdd` is its end, at any later time in the same process, after a deletion too; `landed` is a history
variable, the vectors last written that way. Uploads and deletions are not cancelled by
a browser that leaves: they stream nothing. A request of the demo composes in three steps,
because mapping and episode are in two databases: `PlanBegin` reads the mapping, `Compose`
searches and resumes the episode, `Confirm` looks at the mapping once more. Each step that
may fail has its failing disjunct, with whatever part of a multi-row deletion was done.
`demo` says whether this process was started with a seed, which decides whether a
deletion closes the mapping.

### WorkingMemory and AgentSession

The agent is one task, so operations do not overlap, but each is a chain of awaits.
`work` is the rest of the chain: its first element is the next piece of code to run, and
an action executes it. `Pop` takes an item out of the hot set and puts the two store
calls in front of the chain; a death between them is `torn`. Scores are abstracted to
free choices (which item is demoted, which documents a query hits). `demoted` and
`torn` are history variables. `AgentSession` adds the commands, the turn with its
iterations, the actions of a reply and its raw tail, and the files: save_json truncates
and then writes, two steps.

### ToolRunner

One file in one directory, and one temporary name per call. Each step is one system
call; a file is an inode with a text and its two time stamps. Other actors write in
place, replace, create and unlink the file and sweep temporary names, at any step, and
the process may die at any step. The permission dialogue precedes it: the payload may
change after its preview was shown, `/allow` and `/deny` may come in between.

## 3. Runs

| run | question | result |
|---|---|---|
| `ledger` | do the tables stay consistent with their history, with one another and with the lifecycle under every command in any order, with reused identifiers and an expiry batch in between? | holds |
| `recall` | plans, checkpoints, resumption and composed requests against the clock and every ledger command, two records competing for a window of one | holds |
| `admission` | two gates, kept and stale reviews, late calls | holds |
| `storage` | do commands run only on a ledger's own database, does setup repair or refuse, does the cache notice other writers? | holds |
| `context` | is a planned request within its ceiling, explained, cut no shorter than needed and whole? | holds |
| `vault` | one thread, three rotations, crashes and failing providers | holds |
| `chat_turn` | two chats and a deletion of one dialog, browsers leave anywhere | holds |
| `dialog_data` | do upload, removal, archive, deletion and closing survive failures and crashes at each step? | holds |
| `agent` | does forgetting stay a demotion, do switches of session lose neither? | holds |
| `agent_files` | is no foreign file lost, each outcome true and each action consented to? | holds |
| `agent_exit` | does each session file hold its own session? | **violated** (finding 2) |
| `expiry_subsecond` | does a record expire early with half seconds? | **violated** (finding 1) |

The properties of a run are conjunctions of the named parts stated above them in the
module; for example `NothingOutlivesErasure` is `ForgottenLeavesNothing`,
`ErasedLeavesNoTrace` and `RevokedSourcesAreEmpty`. Every property of a passing run has a
mutant: the operator it lists in `PROJECT.json` is a plausible bug (a dropped guard, a
wrong bound, a forgotten table) that makes TLC find the property violated under the same
configuration. Each module's type invariant has been checked on its run's instance too;
the configurations leave it out for speed.

### Findings

1. `expire_due` compares deadlines as texts (`ledger/sqlite.py:1304`). A whole second is
   written without a fraction and `.` sorts before `Z`, so a record valid until
   07.5 s is expired at 07 s. The docstring promises expiry at the boundary.
2. `cli/__main__.py:195` saves the memory under the session name the process was
   started with, not under `repl.session`. After `/resume` or `/new`, leaving writes the
   active session's memory into the file of the other one. `DESIGN.md:376` of the agent
   says that `sessions/<name>.json` is the state of the active session.

### Observations

Behaviour the models show that no run states as expected, because no document plainly
promises otherwise or because the condition is rarer than that of the findings. Seven have a configuration of their
own beside the runs, with which TLC prints the history:

- `MCSecretVaultThreads.cfg`: `get` decrypts after it gave the lock back, with whatever
  cipher the object holds then (`secrets/store.py:113`); beside a rotation it takes a
  good token for a tampered one and deletes the row.
- `MCSecretVaultPut.cfg`: `put` encrypts before it takes the lock (`:136`); beside a
  rotation it stores a token under the old key next to the pending record, and after a
  crash neither branch of the recovery accepts the rows.
- `ChatTurnLost.cfg`: the turn of a dialog is given back only in the `finally` block of the
  response generator (`ollama/app.py:1979`), which does not exist before its first step: a
  browser that leaves in between strands the dialog, although the comment at `:1887`
  means to prevent that. A second way needs a full queue (`Stranded` names both);
  `TurnsAndWaitsEnd` says that there is no third.
- `DialogDataPlain.cfg`: a process started without the seed skips `close_binding`
  (`ollama/app.py:1625`) and deletes a seeded dialog, leaving its mapping and episode;
  `docs/en/ollama-task-resume-demo.md:131` describes the deletion with the demo on.
- `MCAgentSessionIds.cfg`: `_next_id` (`agent/working.py:169`) skips the ids of the hot set
  only, and the counter starts again with every process. Once an item imported from a session
  file has been demoted, a new item is issued its id, and the demotion of the new one deletes
  the earlier copy from the cold zone, although the docstring promises an id that is
  "collision-free even after import_state". `OnlyInterruptedDemotionsLose` holds beside it: it
  speaks of the text demoted last under a lineage.
- `DialogDataLate.cfg`: the archive's vector is added in a thread (`store/async_store.py:66`). A
  browser that leaves while `ollama/app.py:1297` awaits the add cancels the await; the turn is
  released at `:1982`, a queued deletion takes the rows and the vectors, and then the add commits:
  the deleted dialog keeps a vector until the next start. `apps/ollama-chat/README.md:58-61`
  says that deleting a dialog deletes its archive vectors and that no failure between the
  steps makes a vector "forgotten" (`DeletionTakesEveryVector`, which TLC finds violated).
  `NothingUntracked` and `DeletedDialogsLeaveNothing` of the run `dialog_data` except the
  vectors of such writes (`landed`) and no others, and say that a start removes them.
- `MCContextBudgetMalformed.cfg`: a request for tools whose ids are malformed declares the empty
  set of ids; with no reply behind it the two empty sets agree, and it is kept and sent alone
  (`injector_budgeted.py:815-829`). The docstring at `:684-686` says that history
  selection drops it (`MalformedCallsAreDropped`, violated). `NothingIsOrphaned` excepts such requests
  (`Malformed`) and no others.

Others, met while modelling:

- With `DurableProvider = FALSE` the vault loses its rows after a rotation and a restart:
  `rotate` of `EnvKeyProvider` changes `os.environ` only.
- A crash in `close_binding` leaves the mapping `closing`, and a restart with the seed is then
  refused; a crash while seeding leaves an episode nothing refers to.
- When pinned items and the batch together exceed the budget, recall's own add demotes
  an item of the batch and the index at `agent/working.py:551` raises; the comment at `:544`
  says it cannot happen. Merging a note and pinning enforce neither budget nor cap.
- `/new` of an existing name overwrites its file; `save_json` truncates in place.
- The PostgreSQL advisory lock keeps no DDL out before the first write, so a command may
  run on guards dropped after its check (the first half of `CommandsRunGuarded` is stated
  for SQLite only). Reads check readiness before their snapshot, `dry_run_setup` reads
  version and objects in two statements.
- A builder with a non-empty system prompt of zero tokens reaches the branch that the
  comment near `injector_budgeted.py:1543` calls unreachable. A newer group over the
  budget is skipped and older ones are kept, where `:859` says "oldest-first". Dropping a
  separator can make two runs adjacent.
- On Windows an edit of an existing file always ends in a refusal.

### Bounds

- `ledger`: two records, one source, one purge operation, one checkpoint, one origin,
  two instants, and identifiers by kind of history (`InBounds`): six while only bare records exist
  and time stands still, four with sources, purges, audits and checkpoints, three with
  deadlines and expiry scans (and no purge or revocation). Two records are what supersession and unlinking need; four
  identifiers allow create, review, supersede and erase; an identifier may be offered
  again at any time. Chains of three and longer are covered by the proofs.
- `expiry_subsecond`: two ticks per second, so instants 0 and 2 are whole seconds and 1 is
  the half between them.
- `recall`: two records and `ActiveReadLimit = 1`, the least in which one record pushes
  out another; four commands, either with a checkpoint and time standing still, or with deadlines and
  ticks and no checkpoint. While a request is composed time stands still and there is no
  checkpoint (`MaxComposed` bounds the commands): what the second resolve must notice is a command.
  338,098 states.
- `admission`: one candidate (verdicts of different candidates do not meet), two
  gates, two calls in flight, one recreation (`MaxIncarnation`), two kept reviews.
- `storage`: two connections, two records of which one may come from an earlier release,
  a cache of one entry, one change by another program; every schema version from 0 to 8.
  The view leaves out `reply`, which no guard reads and the properties look at only in the step
  that sets it.
- `context`: histories of up to four items of thirteen kinds under one setting, and of one item
  under every setting of the spread (no prompt, an empty one, one that cannot fit,
  a profile, a left-out section, a reserve over the ceiling), each with and without a lane;
  one edit. 800,984 states.
- `vault*`: two names, four keys (a rotation interrupted, recovered and followed by
  another), one thread (two in the side configurations).
- `chat_turn`: two chats and a deletion, three lock entries (one per request),
  `QueueMax = 1` and `MaxTokens = 1`, so that the queue is full as soon as something
  is in it. The code's 64 (`SSE_QUEUE_MAX_EVENTS`) differs only in how many events come
  before it fills.
- `dialog_data`: one upload and one stray document, one dialog of four messages with
  intervals 1 and 2, two faults, two starts, two episodes: a failed clean-up, a crash in
  what repairs it and the next start fit.
- `agent*`: texts of one and two tokens, a budget of three and a pin cap of two, four ids,
  two sessions of which one file is foreign, two processes, two commands, up to two actions in a
  reply. A demotion needs two adds, a lost one a crash in between; four ids allow a
  recall beside a hot set of two. More ids, actions and sessions are covered by the proofs.
- `agent_files`: two calls, two steps of others, one crash, both platforms, a payload
  too large to show.

Symmetry: records in `ledger` (`Rank` orders them only when `ActiveReadLimit` is smaller
than their number, so `recall` may not), connections in `storage`, gates and calls in
`admission`, keys but the first in `vault`. Liveness is checked without symmetry.

`CHECK_DEADLOCK FALSE` everywhere: identifiers, keys and requests run out, and a host
may simply stop calling.

### Fairness

Only `ChatTurn` states fairness. Weak fairness of the steps of the handlers, of the
model task and of its puts: asyncio runs every ready coroutine, the model and the
vector store answer or fail (both clients have timeouts), and a browser that stays
reads. `Wake` is fair because `asyncio.Lock` wakes its waiters. No fairness for
arrivals, for leaving browsers, or for the collector: nothing obliges them. The other
components answer a call or fail it; whether a host calls again is its own affair.

## 4. Proofs

| theorem | says |
|---|---|
| `LedgerProofs!Typing` | the tables stay well typed |
| `LedgerProofs!RevocationHolds` | nothing derived from a revoked source is stored |
| `LedgerProofs!IdentifiersAreSpentForever` | no command makes a used identifier available |
| `LedgerProofs!CheckpointsStayCurrent` | an active checkpoint selects active records at their sealed revisions |
| `LedgerProofs!LinksMirrorRows`, `ChainsEnd`, `RelationsHold` | relations and superseded_by agree, and no chain of replacements closes |
| `LedgerProofs!PayloadsAlwaysFollowRows` | plaintext only of records that have a row |
| `LedgerProofs!LedgerImplementsLifecycle` | `MemoryLedger` implements `RecordLifecycle` |
| `LedgerProofs!ErasureLeavesNoTrace` | no table names an erased record, no identifier used up by an erasure is written again |
| `LedgerProofs!HistoryIsKept`, `TrustLeavesItsVerdict`, `RowsAreExplained` | one event for each revision, the row is what they lead to, trust has its audited verdict |
| `LedgerProofs!RetriesAreHarmless` | retries change nothing, the log only grows but for erasure, a purge happens once |
| `LedgerProofs!ForgettingIsComplete`, `ErasureHolds` | forgotten, erased and revoked content leaves nothing behind |
| `LedgerStorageProofs!StorageIsSound` | types, what a schema version promises of the rows, what an open transaction and the cache rest on |
| `LedgerStorageProofs!FingerprintsStayGone`, `SetupsAreSound` | from version 4 on no event keeps a fingerprint; a setup leaves a database that is ready and invents nothing |
| `LedgerStorageProofs!CommandsAreGuarded` | commands leave the objects of the database alone and, on SQLite, commit only on the ledger's own |
| `LedgerStorageProofs!ServedRecordsAreAudited`, `RefusalsAreJustified` | reads serve only audited records, and refusals have a cause, for a cache of any size |
| `SecretVaultProofs!VaultTyping`, `RecoveryIsVerified`, `RotationKeepsTheTime` | any threads: types, recovery finishes only when the provider's key opens every secret, rotation prolongs nothing |
| `SecretVaultProofs!RotationIsRecoverable`, `GetDropsOnlyExpired`, `TimeToLiveIsKept`, `RestingVaultReads` | one thread: no start is refused, get deletes only expired rows, a vault at rest reads all it stores |
| `LedgerProofs!ExpiryHolds` | `expire_due` takes every overdue row and no other and spares what changed after its scan (where text orders time) |
| `LedgerProofs!VerdictsAreUnique`, `VerdictsAreOfLiveGates`, `AdmissionsArePunctual` | one verdict per candidate, from a living gate's own seal, never after the record ended |
| `LedgerProofs!RetiredStaysUnused`, `ReturnedHadNotEnded`, `RefusalsAreExplained` | no retired or ended record is validated, resumed or returned; a refusal has a cause (the last where text orders time) |
| `LedgerProofs!ComposedStaysCurrent` | whatever commands run between the steps of either resolve, no composed request leaves with a record retired before its answer came |
| `LedgerProofs!ExpiryIsLedger`, `GatesAreLedger`, `RecallIsLedger` | the three programs take steps of `MemoryLedger` only |
| `ChatTurnProofs!TurnsExclude`, `CountingIsExact`, `TurnsHold` | no two requests are in a turn together, `users` counts holders and waiters |
| `ChatTurnProofs!TranscriptHolds`, `DeletionHolds` | an answer directly follows its question and only completed ones are kept; no turn recreates a deleted dialog |
| `DialogDataProofs!DataHolds` | the invariant of documents, archive, mapping, startup and crashes |
| `DialogDataProofs!NothingIsUntracked`, `DeletionLeavesNothing`, `ArchiveStaysComplete` | files and vectors have rows and a deleted dialog leaves nothing, but for the vectors of cancelled writes that ended late; the archive has no holes |
| `DialogDataProofs!SearchIsClean`, `ForgottenStaysUnresumed` | a search returns completed uploads and segments only; a composed request goes on only while its episode has its text |
| `AgentSessionProofs!DemotionsAreKept` | what was demoted is in the cold zone, unless the process died in that demotion |
| `AgentSessionProofs!RoomInvariance`, `RecallsMakeRoomFirst` | what a process holds, saves and has still to do is typed; committing a recalled text demotes nothing unless the pins and the batch together are over the budget |
| `AgentSessionProofs!SwitchesKeepBoth` | a session is left only when its file holds the memory; a target that does not load changes nothing |
| `ContextBudgetProofs!RefusalsAreDue`, `CutsAreLongest` | a request is refused for its size exactly when its mandatory parts do not fit; a cut text is the longest that fits |
| `ContextBudgetProofs!PlansExplainThemselves` | decisions claim exactly what is sent and reserved, and name every message once, in or out |
| `ContextBudgetProofs!PlansOrphanNothing` | no output is sent without its call, no call without its output (but for requests with malformed ids), no owned item outside its open program, no reasoning without what it led to |
| `ToolRunnerProofs!ForeignFilesSurvive`, `OutcomesHold`, `ConsentIsAsked` | nobody else's file is lost, outcomes are true, only what the user saw and allowed is staged |

With them every property of the runs `ledger`, `recall`, `admission`, `storage`,
`vault`, `dialog_data`, `agent`, `agent_files` and `context` and every one of `chat_turn`
but its liveness hold for every value of the constants.

*Assumptions.* `LedgerConstants`, `DistinctEventIds`, `VaultConstants`,
`NoneIsNoRecord` (the null value is no record), `ChatConstants`, `ToolAssumption`,
`DialogAssumption`, `MemoryAssumption`, `SessionAssumption`, `ContextAssumption`,
`SettingsAssumption`, `ItemsAssumption` (a chat message names no caller, the call of a
program has one id) and `StorageAssumption` (null values and task names are none of the
things they stand beside; bounds are numbers), stated where the constants are declared.
Some theorems carry a hypothesis of their own:

- `Alone` (exactly one thread) and `DurableProvider` in the single-thread theorems of the
  vault; the side configurations show that the first is needed, section 3 what happens
  without the second.
- `TextOrdersTime` in `ExpiryHolds` and `RefusalsAreExplained`: the texts of the instants
  sort like the instants. It holds when timestamps are whole seconds
  (`WholeSecondsAreOrdered`); finding 1 is what happens without it.
- `Nat \subseteq Revisions` in `ExpiryIsLedger` and `GatesAreLedger`. `Revisions` bounds
  the revisions that `MemoryLedger!Next` offers to TLC as a caller's expectation; a scan and a gate
  expect whatever revision they read, which is a ledger step when the ledger accepts any
  expectation, as the code does.

*Ledger.* `TypeOK` is inductive. `RevokedSourcesAreEmpty` is inductive with it: the only
action that adds a source checks the revocation, the only one that revokes empties the
source in the same transaction. `CheckpointsAreCurrent` is inductive because every
command is shown to leave a marker alone or to drop the checkpoints that select it
(`InvalidationSuffices` and the `...Undisturbed` lemmas, one per command).
`SpentIdsStaySpent` is an action property: the only command that removes events is
erase, and `EraseSpends` shows that it puts a tombstone where it removes one. The
refinement needs `PayloadsFollowRows`: without it a record with a row and no plaintext
in a state other than retracted could leave "forgotten" again.

*Relations.* `LinkInv` is the agreement pair by pair, and that a replaced record is
neither a candidate nor active (`ReplacedAreOver`). Supersession adds a pair whose
replacement is active and therefore the end of its chain, so no cycle can close.

*Erasure.* `ErasedLeavesNoTrace` is not inductive. `TraceInv` strengthens its first half:
nothing names an erased record, and only active checkpoints have selections, because
erase looks at the active ones only. Every other command names records that exist or
that it may create, and `PayloadsFollowRows` keeps those apart from the erased ones.
`SpentInv` strengthens the second half. `forget_by_source` and the purge write under
derived identifiers without checking that they are unspent; `DerivedSpentOnce` says why
they need not: an identifier `<<s, r>>` is spent only once `s` is revoked, after which
no record has `s` as its source (`RevocationHolds`), and `<<o, r>>` only once purge `o`
is done.

*History.* Every command but erase is shown to be an `Appends` step: it writes one event
under a fresh identifier for each row it moves, numbered with the row's new revision
(`TransitionAppends`, `ForgetAllAppends`, `CreateAppends`). `HistoryInv` then says that
the events of a record carry the numbers 1 to its revision, each once
(`NumberedIsGapless` turns this into the cardinalities of `HistoryIsGapless`), and that
an identifier with no row has no events, which makes the first event of a new record
number 1. Verdicts survive such a step because an audited identifier is in the log and
therefore not fresh (`AuditedIsSpent`). For the two commands with derived identifiers the
freshness comes from `SpentInv` above.

*Forgetting.* Every step is one of four (`StepsAreLogged`): it appends events and
stores nothing forgotten (`Grows`), it withdraws a set of records with their payloads
and writes a receipt for each (`Withdraws`), it is an erasure, or it leaves these tables
alone. `ForgetInv` (plaintext is stored exactly where the log
says so, and the receipts stand exactly beside the forgotten events) is inductive over the four,
and `NamesHavePayloads` adds that a source, a relation or a selection names only records
with a payload. `RetriesChangeNothing` follows from the same four and from
`StepsLeavePurge`.

*Storage.* The properties are about a commit, while what makes them true happened at
earlier steps of the same transaction, and other programs act in between. `StorageInv`
carries this over the gap. `Boundary` says that whoever began a write owns the lock, that
what it checked still holds (on SQLite all of it, on PostgreSQL only the version, because
DDL is not kept out), and that a `work` that is not null is already what the commit
promises of a command or of a setup. `CacheIsAudited` says that the markers of a connection
that has not noticed a change stand for audits that are there; it is inductive because
every commit and every outside change marks all connections. `Sound` says what a version
promises of the rows (no fingerprint from 4, an origin for each payload from 5) and that
version 0 is an empty database; the migration lemmas need it, since `Migrate` labels
nothing from version 5 on. A setup repairs any database it does not refuse
(`MigrationIsReady`, `CreationIsReady`), and a database that is ready is never refused
(`SetupRefusedForACause`).

*Vault.* `BootInv` (typing, and which key the cipher has in each phase of `__init__`)
is inductive for any threads and any provider. For one thread and a durable provider
`SInv` adds that no thread works before `__init__` has returned, which key the cipher
of an open vault has (`CipherOf`), what the thread may rely on at each point of its
operation (`Holding`), and `ProviderOpensTheFile`: without a pending record the
provider's key opens every row, with one the pending key does and the provider has
the wrapping or the wrapped key.

*Turns.* `LockInv` says that an entry's count is the cardinality of the requests that
refer to it, that a referred entry is the one in the table, and that a request in a
turn holds the lock of its entry. Exclusion follows: two requests in a turn would hold
the one lock in the table.

*Transcript.* `DialogInv` adds to `LockInv` that a request between its first look at
the dialog and its last write finds the dialog there, and that one between its question
and its answer finds its question last in the transcript. Both rest on
`WritersExclude`: who writes is in a turn, so nobody else is writing.

*Programs of the ledger.* A gate, a scan and a planner keep what they read while any
other command runs. One lemma about every command carries what they may still
conclude: by `StepsMoveRows` a step leaves a row alone, moves it to the next revision,
creates it, or erases it for good (`RowStep`). A scan's row is therefore as it was
read, at a later revision, or buried (`ScanHolds`), and the revision tells these apart.
`GateInv` says that a record with a verdict has left the candidates and that a queued
call holds a review of a gate object that exists: a review of an earlier incarnation fails at
its seal, a second one at the revision. `RecallInv` says that a selected marker is still
the row or is retired, that a row read by a resolve keeps its deadline until it is
retired, and that what a plan selects or a live checkpoint seals is of a known origin and
trusted; the events of *History* turn the last into an audited verdict.
A composer's steps are a planner's or leave its variables alone (`ComposerIsRecall`), so
`RecallInv` holds beside a request. `ComposerInv` follows the mark `lost` through the second
resolve: its validation compares each selected marker with the row, which a retired marker never
is again, so a request that was lost when its answer came gets no further than `loaded`
(`RequestIsSound`).

*Documents and dialog.* `DataInv` falls into two halves, one for each lock.
`DocumentsHold` says which task has `document_lock` at which step of an upload, a removal
and a search, and what that step relies on: the row is there until the file and the vectors are
gone, and a search holds ids that are ready. `DialogHolds` says the same for the turn: a
deletion has listed every vector that did not land late before it erases the first, what a
late write leaves has a row or is in `landed`, the batch in work begins
at the oldest message after every ready segment, a process of the demo has a dialog for
its mapping. A request changes one half and leaves the other as it stands
(`DocumentStep`, `ChatStep`, `DeletionStep`); the startup and the crash find both
locks free or free them (`Quiet`). `ArchiveHolds` cannot speak of the watermark only: that every message is after all ready segments
or inside one is kept by each step, and `WatermarkFacts` shows that the maximum of the
code says the same.

*Resumption.* The look that lets a composed request go on is at the mapping, the property is about
the episode in another database. `ResumeInv` says that while the mapping is the one the
request loaded, its episode is sealed: a close marks the mapping before it forgets the
episode, and a mapping that is closing never becomes active again.

*Files.* `ToolInv` follows the inodes: two names never share one, the staged inode
goes by no name but the two of the call, and at each step it says what stands under them
(`LeafInv`) and that the replaced file is the one the edit was computed from
(`SourceInv`). No step of another actor gives the staged inode another name, and a
death leaves the names as they are. `ConsentInv` says that what is allowed was allowed by the user in this process.

*Agent.* The theorems rest on the shape of `work`, the rest of the chain of awaits.
`WorkInv` says that a chain is `Ordinary` (it holds neither the awaits of a demotion nor a
change of session), or is `Evicting` (a demotion at its head, its text on record, an ordinary
chain behind it), or is `Changing` (one of the three states in which /resume or /new saves
and then switches, and in the last of them the file of the session is what the memory
holds). Every operation is shown to turn an ordinary chain into an ordinary one
(`...Effect`), except that `Pop` begins a demotion and its two awaits end it, and only a death leaves
in between, which `torn` records. `ColdInv` then survives each step because the
steps that touch the cold zone are those two awaits. For the switch nothing can happen
between the write and the load: no command starts while a chain is under way.
For a recall, `ChainInv` says that it is alone in `work` but for a demotion it made itself, and
`Roomy` that the hot set and what is left of the batch fit the budget together, or that the pins and
the batch never will. The first holds once room was made, since no item of the batch is hot then,
so that whoever is not pinned was a victim; an insertion moves one text from the batch to
the hot set, which leaves the sum. A sum of tokens is a fold over a set in an order that
is left open: by induction over the size of the set, the order does not matter and any
one item can be taken out (`SumsSplit`, `SpentLessOne`).

*Context.* `BInv` says that a waiting request has passed the early checks, and that the
result is right for the request it answers (`PlanIsRight`); it is inductive because a
plan is made in one step, from the request's own snapshot (`PlannedIsRight`). The work
is below it: the builder's loops are folds and recursive functions, and what they compute
needs induction over data. The library's induction theorems take an operator, so
`Inductive` is stated for a set of numbers and follows from the well-founded order of the
naturals. A loop is then reasoned about by the equation its definition chooses a solution
of: a solution is shown to exist, and what each round keeps holds at the end. What the
rounds keep are `Keeping` (the history selected costs what its decisions claim and fits
its room), `Placing` (so do the blocks placed, and a cut is where one word more would not
fit) and `BisectionFinds` (the search ends between a bound that fits and one that does
not). An early refusal and a late one are then a matter of arithmetic (`EarlyRefusal`).
That every message is decided on once needs the groups: they follow one another from the
first message to the last (`HistoryIsGrouped`), so going back over them the selection has
decided, on every message from the last group's first on, once and on no other, and has
kept the messages it took in (`Chosen`); what it has not reached yet is the dependency of
the final input, which one decision of the request names (`HistoryIsExplained`).

That nothing is orphaned needs what a group may hold. A list is `Unbroken` when each of
its items finds in it what it needs (`Served`) and no tool reply comes first; two such
lists are one when they are put together (`UnbrokenJoined`), so whatever the room leaves
out, what is kept stays unbroken, and what the final input answers is one list with the
calls reserved for it (`DependencyIsWhole`). A request with all its replies is unbroken, and
so is a valid run of Responses items (`RunIsWhole`). The hard part of a run are its
searches without an id, which the code pairs from the right: the scan never leaves more
searches than outputs behind it (`NeverShort`), so an output with no search before it
would be one output too many for the searches behind it (`SearchesArePaired`).

*Only model-checked.* Liveness (`TurnsAndWaitsEnd`) and ENABLED are out of the prover's
reach; every safety property of a passing run is proved. No module declares a RECURSIVE
operator.

## 5. Not modelled, and the plan

Within the components above: export; text and metadata validation; rendering of recalled
memories; `guard.py`; the SQL of PostgreSQL's commands, which mirrors SQLite's; a
connection that breaks after COMMIT was sent; build and plan of the context builder
without messages, its shared last report and duplicate priorities; the paths, links and
mounts the file tools refuse before they act; shell commands; `/resume-state` of the REPL
(`cli/repl.py:562`), which loads a state file over the memory without a switch of session; Windows handle semantics
beyond their order; several dialogs and several uploads at once beyond one of each, which meet only
in `document_lock`.

Whole components: task resume (its calls are those of `RecallPlanner`), the user profile,
the embedding cache, retrieval, events and integrations, for the reasons in the
inventory.

Next: `ProfileUpdate`, compare-and-put of several managers with reset and delete, with an
atomic versioned register as its abstract specification; then `EmbeddingCache`.
