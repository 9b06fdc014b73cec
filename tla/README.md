# A TLA+ model of Agent Workspace Index

Agent Workspace Index (AWI) keeps a searchable index of files that agents work
on.  One writer, the *producer*, turns file events and scans into a catalog and
two derived indexes, and publishes immutable snapshots of them on shared
storage.  A daemon follows the published snapshots and answers searches; MCP
adapters put it in front of agents.  This directory holds TLA+ modules that
model the code, TLC configurations that check them on small instances, and
proofs that TLAPS checks for every value of the constants.

Paths are relative to the repository (`src/producer.rs` is the Rust source file
of that name).  `PROJECT.json` lists components, runs, hazards, theorems, and
for every definition the lines of code it stands for.

## 1. Inventory

| Component | State it keeps | Operations | What makes it correct | Module |
|---|---|---|---|---|
| Producer loop (`src/producer.rs`) | inbox directory, phase of a single-threaded loop, watcher channel | `enqueue`, `ingest`, `discover`, `scan_batch`, `apply_batch`, `apply_change_group`, `publish`, `bootstrap` | no acknowledged event is lost through crashes and lost workers; every event is published in the end | `Producer` |
| Change ledger (`src/change_ledger.rs`) | SQLite: changes, receipts, scans, directories, dirty flag, stamp of the pointer | `enqueue`, `batch`, `ack`, `retry`, `schedule`, `checkpoint` | rows go away only when their change is in the catalog | `Producer` |
| Catalog (`src/catalog.rs`) | SQLite: files, generations, roots, memory sources | `start_generation`, `upsert_file`, `mark_path_deleted`, `mark_missing_deleted`, `complete_generation` | rows of unfinished generations are never published and are redone | `Producer`, `WatchPublisher` |
| Workspace index (`src/workspace.rs`) | catalog, tantivy, semantic runtime, writer lock, cache of answers | `index_root`, `notify_paths_budgeted`, `refresh_agent_memories`, `publish_snapshot`, searches | the three stores agree once a generation completes; an answer is about what is indexed now | `Producer`, `WatchPublisher`, `Ranking` |
| Snapshot publication (`src/snapshot.rs`) | `generations/`, `current.json` | `publish`, `prune_generations`, `materialize_pointer`, `prune_cache` | the pointer names a complete directory; a copy in use is never removed | `Producer`, `ReaderCache` |
| Fencing (`src/fence.rs`) and supervisor (`scripts/producer_supervisor.py`) | the fence file, caslock, leases, the persisted fallback | `cas_bump_fence`, `fence_lost`, `commit_guard`, `monitor`, `supervise` | a superseded writer never moves the pointer; the shard is served again | `Fence`, `Leadership` |
| Watch publisher (`src/publisher.rs`) | event channel, the counts of one cycle | `publish_once`, `watch`, `run_cycle` | every change on disk is indexed and published | `WatchPublisher` |
| Reader and collection (`src/reader.rs`, `src/collection.rs`) | cache of copies, set directories with descriptors, leases | `refresh`, `prune_cache`, `open_with_previous` | what a reader serves stays whole; the daemon catches up | `ReaderCache`, `Ranking` |
| Daemon and protocol (`src/daemon.rs`, `src/protocol.rs`) | lock, socket, queue, workers, metrics | `serve_with_snapshots`, the accept loop, workers, `try_request`, shutdown | every connection is answered or closed; the daemon stops when told, and else only when its listener fails | `Daemon`, `ReaderCache` |
| Semantic index (`src/semantic.rs`, `scripts/semantic_sidecar.py`) | LanceDB directory, sidecar process, sealed manifest | `apply_changes`, `seal`, `search` | agrees with the catalog; a search survives its absence | `WatchPublisher`, `Ranking` |
| Agent memories (`src/memory.rs`) | none | discovery of sources | a refresh is in the catalog before it is published | `Producer` |
| Search (`src/search.rs`, `src/source_context.rs`) | tantivy index | lookups, fusion, ranking, source context | scopes, exclusions and names are honoured whatever fills a window | `Ranking` |
| MCP server and audit (`src/mcp.rs`, `src/mcp_audit.rs`) | one log, one older log, one lock for all adapters | tools, diagnoses, `audited`, `write`, `rotate_if_needed` | every answered call is on record, in order, across processes | `Mcp` |
| Integrations (`src/integration.rs`) | the configuration files of the agent clients | `integrate` and one function per client | an entry that is said to be registered is; nothing a client keeps beside it is lost | `Integration` |
| Extraction, data profiles, diagnostics, models, metrics | none | functions of a file's text | not modelled | |
| CLI and installers | none beyond the above | argument parsing, installation | not modelled | |

How they interact.  File producers write JSON events into the inbox (a shared
directory).  The producer reads them into the ledger, indexes the rows through
the workspace index (which writes the catalog, then the semantic index, then
tantivy, then completes the generation), seals the ledger beside the catalog,
and asks `snapshot::publish` for a new directory and a new `current.json`.  It
then clears the dirty flag, stamps the ledger with the pointer, copies it to the
shared checkpoint and only then removes the inbox files.  A supervisor restarts
the producer, and the monitor on another machine takes over by raising the
fence.  The daemon polls `collection.json` and the pointers it names, copies
snapshots to a local cache, and describes each combination in a directory of its
own, a *set*, that its workers open by path.  Every agent client runs an MCP
adapter, which asks the daemon or, if there is none, the index directory, and
appends to one audit trail.  `awi integrate` writes the adapter into the
configuration of each client.

What is hard.  Each durable write of a producer is durable by itself, so there
are about a dozen places where a crash leaves a different combination of files;
the local index may vanish with its worker; a generation number may be reached
twice; budgets cut a batch anywhere; a single flag decides whether all of it is
published.  Two writers meet at the fence.  Readers open by path what another
thread prunes.  A pool of workers shares a bounded queue, a gauge and a way to
stop.  Processes that know nothing of each other rotate one log, and rewrite
files that other programs write too.

## 2. Plan

In this order, the most important behaviour first:

1. `Producer`: loop, ledger, catalog rows and publication as one state machine
   with crashes and lost workers.  Checked; safety proved.
2. `Fence`: supervisor, monitor, two producers, fence and commit guard;
   implements `Leadership`.  Checked; safety and refinement proved.
3. `WatchPublisher`: full scans over catalog, semantic index and tantivy and the
   loop that publishes them.  Checked; the agreement of the indexes proved.
4. `ReaderCache`: following, copying, pruning, leases.  Checked; safety proved.
5. `Daemon`: start, queue, workers, shutdown, clients.  Checked; safety proved.
6. `Mcp`: adapters and the trail they share.  Checked; safety proved.
7. `Integration`: one pass over the clients.  Checked; all its properties proved.
8. `Ranking`: one search over several shards.  Checked; all its properties proved.

Next would be: the data of a hand-over (a composition of `Producer` and
`Fence`: the fence guards the pointer, not the shared checkpoint and the inbox);
revisions of ledger rows with concurrent clients of the ledger; the cursor of a
scan that is resumed; nested roots in one catalog; the sidecar process with its
restarts and time-outs.

## 3. Modules

Beside the eight modules below there are `Leadership` (an abstract
specification), `MCProducer` and `MCRanking` (instances for TLC) and eight
modules of proofs (section 5).  `TypeOK` says in every module what the variables
range over; where it is proved, section 5 says so.  A definition whose comment
calls it a mutant, or a bug the checks must see, is not part of a
specification: it is a plausible slip in the code that `PROJECT.json` pairs with
the property that notices it.

### Producer

`Producer.tla` models `awi produce`.  A file is reduced to a version number;
`Absent` names the versions that mean "no file here", so a delete and a
re-creation are edits like any other.

| State | Code |
|---|---|
| `disk`, `excluded` | the file system and what `allowed` rejects |
| `carries`, `said`, `inbox` | event files; `said` is history: the versions at the time an event was issued |
| `local`, `catalog`, `gen` | `catalog.sqlite3`: version and `generation_completed` of each row, newest generation |
| `torn` | paths of the group that failed after their row was written: `complete_generation` completes them with the others |
| `ledger` | `producer.sqlite3`: rows, rows whose retry time has passed, receipts, `dirty`, `snapshot_pointer` |
| `dirs`, `snap`, `pointer`, `shared` | generation directories, their contents, `current.json`, `producer-checkpoint.sqlite3` |
| `pc` and the batch and refresh variables | local variables of `run` and of the functions it calls |

The loop visits the phases in the order of `run`: `events` (`Ingest`), `gather`
(`Discover`: hints and scans), `memory` (`MemoryBegin` .. `MemoryEnd`:
`discover`), `scan`, `groups` and `index` (`apply_batch`, `apply_change_group`,
`notify_paths_budgeted`), `acking`, `tick` and then `publish`, one action per
durable write: `Seal`, `Stage`, `Flip`, `ClearDirty`, `Checkpoint`,
`RemoveInbox`, `DeleteReceipt`.  `Crash` may strike in any phase and keeps both
volumes; `WorkerLoss` also removes the local index, and `Start` and `Restore` are
`bootstrap`.  `WorkerLoss` is any loss but that of a worker that has staged a
generation and not flipped the pointer to it: `WorkerLossLeavingOrphan` is that
one, in `SpecOrphan`, for which `producer_orphan` shows what goes wrong.
`IndexFails` may fail before the row of the file is written or after it.

Abstractions.  A scan is its effect on the queue: it may enqueue any file that
needs an update (`Discover`), and fairness says it keeps coming back to each.
Revision and priority are left out, because the loop is the ledger's only client
and enqueues nothing between `batch` and `ack`.

### Fence and Leadership

`Fence.tla` models the failover of one shard: `supervise` on the worker,
`monitor` on the master (both in `scripts/producer_supervisor.py`) and the commit
guard of the producers they start (`src/fence.rs`, around the rename in
`publish_pointer`).

| State | Code |
|---|---|
| `fence` | the fence file (`fence.json` in the tests): generation and owner token |
| `caslock`, `lease` | who holds the `flock` beside the fence, and the publication's `producer.lock` |
| `shown` | the generation for which `current.json` was renamed last |
| `cut`, `fresh` | whether the worker reaches storage; whether its status is younger than the monitor's timeout |
| `sup`, `supTerm` | the supervisor and its `fence_gen` (0 for `None`) |
| `mon`, `monTerm`, `rec`, `grace` | the point a monitor tick has reached, the generation it claimed, the persisted state of its fallback, `unreachable_since` |
| `child`, `term`, `owned` | phase of each producer's commit, its `AWI_FENCE_GEN`, whether anybody still polls it |

A claim (`Claimed`) is one step because `cas_bump_fence` reads and writes under
the lock, but it waits for a producer that is inside the guard.  The guard is
three steps, `GuardLock`, `GuardCheck` or `GuardRefuse`, and `Rename`, and
claims, deaths and a partition may come between any two of them; `GuardRefuse` is
also the fence read that times out.  A monitor tick is several steps as well: it
decides on a status it has read (`MonDecide`), claims (`MonClaim`), launches, and
persists the fallback's pid afterwards (`MonPersist`).  Locks go when their
holder dies.  When the worker is cut off, storage drops the lease of its producer;
a commit that is pending keeps its lock and waits for the partition to end.  That
storage may drop this lock too, and rename when the worker is back, is a step kept
apart (`LockLapses`, `SpecLapse`; section 6).  `SupDies` leaves a producer without its
supervisor, `MonDiesUnpersisted` one that no monitor knows of, and
`SupStartUnclaimed` is a supervisor whose claim failed and that goes on without a
generation.

`Prompt` says that a running supervisor writes its status within the monitor's
timeout and grace, as with the documented intervals.  Nothing keeps the code from
violating it (a paused process), so safety is checked and proved for both
values; liveness needs it.  `ClaimsFail` lets a claim fail; liveness is checked
without, because a supervisor that has no generation never publishes and hides
that from the monitor.

`Leadership.tla` is the abstract specification: terms are claimed one after the
other, and the pointer moves only on behalf of the term that is current then.
`OnlyTheLeaderPublishes` says that `Fence` implements it, with `fence.gen` and
`shown` for its two variables.

### WatchPublisher

`WatchPublisher.tla` models `awi watch` and the scan it runs, `index_root`.

| State | Code |
|---|---|
| `disk`, `event` | the files below a memory source, a local and a remote root; something is in the watcher's channel |
| `row` | rows of `files`: the version that was indexed, `generation_completed`, `deleted` |
| `lex`, `sem`, `failures` | documents in tantivy, rows in LanceDB, paths in `index_failures` |
| `pub`, `published` | what the snapshot shows, `current.json` exists |
| `pc`, `scope`, `root`, `changed` | place in the loop, roots of this cycle, the one being scanned, whether `changed_files + deleted_files` is positive: files that were indexed to the end or retired |
| `left`, `seen`, `touched`, `documents`, `swept`, `failed` | locals of `index_root_inner`: files the walk has not reached, rows with this `last_seen_generation` and this `index_generation`, `documents`, `deleted_paths`, `report.failed` |

Every commit is a step of its own: each row of the walk, the deletion pass, the
semantic batches, the lexical commit, the completion of the generation, the
publication.  An error (`ReadFails`, `RowFails`, `WalkFails`, `RootFails`,
`SemanticFails`, `SearchFails`, `PublishFails`) or a `Crash` may come at each, and
files change at any time.  An error of one file is recorded and the scan goes on;
any other ends the cycle, `run_cycle` logs it and the loop waits for the next
tick.  `RowFails` is the awkward one: the row has been written, so it is
completed with its generation, but its document was never collected.

### ReaderCache

`ReaderCache.tla` models the serving side: the follower in `src/daemon.rs`,
`materialize_pointer` and `prune_cache`, `collection.rs::refresh`, and the
readers that open sets by path.

| State | Code |
|---|---|
| `pointer`, `conf` | `current.json` of each shard, the shards `collection.json` lists |
| `whole`, `broken` | copies of snapshots in the cache; copies whose removal was interrupted |
| `dirs`, `recent` | set directories; those with a descriptor, the newest activation first |
| `up`, `path` | the accept loop runs, `active_path` |
| `lease`, `scratch` | the set each reader holds a shared lock in; readers that opened a removed set as an empty index |
| `asked`, `touched`, `lag` | a path that was read and is not opened yet, its lock file exists, prunes since then |
| `pc`, `want`, `pinned`, `ready`, `todo`, `rank`, `retained` | the refresh thread's place and locals |
| `used` | history: the sets somebody served at some time since the prune under way began |

A set is its content: the generation pinned for each shard.  `Pin` reads one
pointer at a time, `Materialize` verifies, copies or reuses one shard,
`MakeSet` and `Describe` are the two writes of a set, `PruneSet` and `PruneCopy`
the removals one by one, `Activate` the accept loop taking the result.  Workers
and the status refresher read the path (`ReadPath`), create the lock file
(`Touch`) and take the lease (`Open`) at their own pace; `MaxLag` bounds how many
prunes fit between the first and the last.  A `Crash` may leave a copy half
removed.

### Daemon

`Daemon.tla` models the process that serves: `serve_with_snapshots` from
`daemon.lock` to its guards, the accept loop with `try_send`, the workers, and
`try_request` on the other side.

| State | Code |
|---|---|
| `state`, `lock`, `sock` | each process, the holder of `daemon.lock`, whose socket is at the path |
| `turn`, `backlog`, `held`, `queue` | the accept loop's place; connections not accepted, between `accept` and `try_send`, in the channel |
| `stops`, `worker` | the shutdown channel; what each query worker does |
| `accepted`, `queued`, `active`, `completed`, `rejected` | the metrics a status request reports |
| `step` | of each worker, the update of the metrics it makes next |
| `kind`, `at`, `answer`, `gone` | a client's request, where it is connected, what it was told, whether it left |

A client asks something (`query`), asks to stop (`stop`), sends nothing (`mute`)
or a byte now and then without ever ending its line (`trickle`), and may leave at
any time.  The read timeout runs anew for each read, so it ends the wait for a mute
client and not for a trickling one.  The metrics are separate relaxed atomics in
the code, and separate steps here: a connection is taken from the queue
(`Receive`), then one gauge goes down (`LowerQueued`), then the other up
(`RaiseActive`), and after the request `LowerActive`, `RaiseCompleted` and, for a
Shutdown, `Stop` follow one after the other; the accept loop counts in steps of its
own.  A worker may panic and is not replaced, and ends after a Shutdown whose
response could be written.  `accept()` returns nothing (`WouldBlock`), is
interrupted, or fails in any other way (`AcceptFails`: no descriptor left, a
connection its client aborted): then the loop ends although nobody was told.  On the
way out `Join`, `Unlock` and `RemoveSocket` are the order in which Rust
drops the guards.

### Mcp

`Mcp.tla` models the MCP adapters of one user and their audit trail.

| State | Code |
|---|---|
| `alive`, `call` | adapter processes; the stage, tool, parent search and result of each call |
| `log`, `old`, `lock` | the trail, the one before it, the holder of the lock file |
| `written`, `unlogged` | history: everything ever appended; calls whose record could not be written |

The calls of an adapter overlap while they wait (`asked`, `probing`); the
record and the reply run on its only thread: `Lock`, `Rotate` (which removes the
older file), `Rename`, `AppendRecord`, `Reply`.  A call whose arguments have not
the shape of the tool's never reaches it (`Malformed`: rmcp answers and nothing is
recorded); one whose values are wrong is recorded like any other (`Call` with
`valid` false).  `RecordFails` is any error on the way, which is told on stderr
only; `Kill` ends an adapter at any point, and its lock goes with it.  Either may
leave a part of the line in the log, without an end of line, and the next record is
glued to it: `Pieces` tells whole lines, glued ones and parts apart.  A piece is
counted, not measured: `LogLimit` stands for the limit in bytes.

### Integration

`Integration.tla` models one or more runs of `awi integrate`.

| State | Code |
|---|---|
| `file` | each configuration file: absent, not JSON, JSON of another shape, or usable; AWI's entry; a count of the client's other settings; whether it has comments |
| `present` | what of a client is installed |
| `run` | the command: place, clients left, server wanted, `--dry-run`, the copy to be renamed, the report |
| `settled`, `told`, `gone` | history: the server a client was said to have, the last word on it, entries taken out and not put back |

Codex, Gemini and Claude are configured by their own commands (`RemoveEntry`,
`AddEntry`, `Verify`), the others by reading, merging, writing a temporary file
and renaming it (`Merge`, `WriteTemporary`, `Rename`).  The first look at a
client may fail: Codex' command, or the read of Gemini's or Claude's file, whose
error the code drops (`read_json(..).ok()`).  The entry then counts as missing,
and what is there is overwritten or, for Claude, taken out unseen
(`LookCodexFails`, `LookGeminiFails`, `LookClaudeFails`).  For a client that is
merged a failed read is reported (`ReadFails`).  `Merge` keeps the client's
other settings and not its comments: the readers take JSONC and JSON5, the
writer writes plain JSON. `Merged` and `Matches` are the two halves of each kind
of configuration, in the shapes the code tells apart.  The clients' own commands
are external: that they leave the rest of the file as it is, is assumed.  Users
and clients edit the same files (`AddOther`, `SwitchOff`, `Drop`, `InstallCli`),
commands and writes fail, and the command may be killed.

### Ranking

`Ranking.tla` models one search over a collection as a function of what the
lookups return, with the state that outlives it: what is published and the cache
of answers of each shard.  A file has a path, a directory, a kind, a scope it is
about, a depth, a name and a text that tells copies apart.  `Lookup` takes the
window of each lane of one index, the lane of literal file names among them, and
fuses them by rank; that last lane adds nothing by rank, but its files get
`EXACT_PATH_BOOST`, and every file something for the words its path covers
(`Path`).  `Nearest` is the embedding process; `Shown`, `Applicable` and `Boost` are
what the catalog says of a candidate; `ShardHits` puts a shard's part together;
`Ranked`, `Originals` and `Spread` are the reader's ranking of the union.  Scores
are integers in units of 1/100000 with ties broken by path.  What a world gives per
shard are the relevance of the words (`raw`) and of the meaning (`near`) of each
file, the part of the words its path covers (`covered`), and the files whose symbol
(`named`) or literal name (`literal`) was asked for.  A shard has word statistics of
its own, so the same file may have another `raw` in another shard, and the reader
compares these numbers as they are: nothing is said of an answer had the files been
split otherwise.  `MCRanking.tla` gives it eight files with copies of a source and of
the instructions, outputs and a memory, in 1656 distributions over two shards.

## 4. Runs

| Run | Question | Bounds |
|---|---|---|
| `producer_safety` | is an event lost, or do readers step back, when one thing goes wrong at any point? | 2 files, 2 events of which one is refused, 1 ignore rule, 1 edit per file; a crash, a lost worker (without an orphan directory), a failed step or a refused event (`OneFailure`) |
| `producer_live` | is every event delivered, do readers converge, is interrupted work redone? | 1 file, also a memory source, 1 event, 1 crash and 1 fault |
| `producer_orphan` | a worker lost after staging, before the flip (violation) | 1 file, 2 events, 2 losses |
| `fence_safety` | does only the newest claim move the pointer? | 5 generations, 2 starts of the worker, 1 partition at any moment, 2 deaths, 1 orphan, failed claims, any timing |
| `fence_live` | is the shard served again, and is a superseded producer stopped? | 2 starts, 1 partition, 1 death, prompt polls |
| `watch` | do catalog and indexes stay together, does the catalog catch up with the disk, do readers? | a memory, a local and a remote file, 3 edits, 1 error, 1 crash |
| `reader_cache` | does what a reader serves stay whole, does a prune leave only what is new or in use, does the daemon catch up? | 2 shards, 2 publications, 1 edit of the collection, 1 fault or crash, 1 worker, 1 prune between path and open |
| `daemon` | do the metrics add up between any two updates, is everybody answered, does the daemon stop only when told or when its listener fails? | 1 daemon, 3 clients (a Shutdown; one that is mute, trickles or asks for a Shutdown too; a query or one that trickles), 2 workers, a queue of 1, 1 panic, interrupted or failed accept, failed start or kill |
| `daemon_socket` | a daemon that leaves while another starts (violation) | 2 daemons, 1 client |
| `integration` | do entries stay registered, is a second run quiet, does each client get its status, are other settings kept, is nothing lost silently? | 9 kinds of client of which one is installed, any of 7 states of its file, 2 runs, 2 servers, 1 edit, 2 failures of looks, reads, commands or writes, or kills |
| `mcp` | is each answered call on record, does the trail lose only its oldest, does every call end? | 2 adapters, 3 calls, some malformed, a log of two lines that is new or full, 1 kill or failed write, which may leave a part of a line |
| `ranking` | are scopes, symbols, literal names, exclusions and applicable instructions honoured, does a shard's first hit crowd out better ones, is an answer current? | 1656 collections of 8 files, 6 requests, windows of 4, caches of 1, for 12 collections a second search with a publication |

Why the bounds are enough to be interesting.  One crash reaches every pair
(state before, recovery after); what needs several is proved.  Two files let a
change group be half attempted and a batch be split into two groups; two events
let one be acknowledged while the other is only ingested.  `OneFailure` keeps
`producer_safety` to one thing going wrong in a behaviour, beside the ignore
rule; a crash and a fault in the same behaviour are in `producer_live`, and any
number of both in the proofs, as are files that are deleted and come back
(`Absent` may hold any versions).  `MaxGen` is large enough that the loop can
publish after every edit, fault and crash.  Two starts of the worker and one
partition let leadership go from the worker to the fallback, back, and over once
more; `fence_live` allows nine generations and no behaviour gets to the ninth.
One file per root lets an error hit the first, a middle or the last root of a
cycle.  Two publications and an edit of the collection make four sets, more than
`Keep` protects, so that leases matter; with `Retain` 2 a pinned generation can
be pruned at its source.  A queue of one is full with two workers busy, and
three clients include one that is turned away while two are mute.  A log of two
lines that is full rotates at the first call, and two calls later once more.  In
`integration` one client is installed at a time: no step for one client reads
the file of another, and the report still covers the clients that are not
installed.  Two failures let a failed look be followed by a failed command.  The
windows of `ranking` are smaller than the number of files, so they overflow in
many of its collections.

Deadlock is checked in `watch`, whose loop always has a step to take.  The
others may stop: with every event delivered and all bounds spent, when no worker
is started again, when the daemon has left and every client was answered, after
the last call, run or search.

The violations are disagreements between the code and what the repository says
of it.  `producer_orphan`: `snapshot::publish` keeps a generation directory that
exists, and a worker that was lost between staging and flip leaves one its
successor will reach with other contents.  `daemon_socket`: the guard that
removes the socket is declared before the lock and so runs after it is released.

### Fairness

`Producer`: `WF_vars(Loop)`, because `run` is a loop that never blocks on
anything but I/O and its supervisor restarts it; `SF` of `Seal \/
NothingToPublish` and of `MemoryBegin`, each of which has a timer that is
compared with the clock in every round, so the round in which it has expired
comes again and again; `WF` of `BackoffElapses(f)`, a moment on the clock; `SF`
of `Discover(f)`, because every root is scanned each `--scan-interval` and the
scan reaches each file below it.  No fairness is assumed of edits, events,
crashes or faults.

`Fence`: `WF` of the supervisor's polls and of the monitor's tick, both loops
that sleep for a fixed interval; of `Heal` and `StatusAges`, because a partition
ends and a clock goes on; of the steps inside the guard, which are bounded reads
and one rename; `SF` of `MonClaim` and `GuardLock`, because `flock` grants a lock
that is released again and again to those who wait for it.  Nothing makes the
worker's supervisor start again.

`WatchPublisher`: `WF_vars(Loop)`, a loop that blocks only on the channel, with
a timeout.  Edits are finite, so the timeout comes.

`ReaderCache`: `WF` of the refresh thread, whose poll is a timer, of the status
refresher, which is one too, and of a follower that has begun to open a path.  A
worker reopens only when a request reaches it, so nothing is assumed of that.

`Daemon`: `WF` of each process' own steps and of each worker, each of whose reads
has a timeout.  Clients promise nothing, not even to speak or to end a line.

`Mcp`: `WF` that some call that can go on does: sockets time out, the runtime
keeps running and `flock` is given to a waiter; as calls are finitely many, that
is enough.

## 5. Proofs

All are theorems of the specifications above, for every value of the constants
that satisfies the named assumption of the module.

**Producer** (`ProducerProofs`).  `TypeCorrect`, `Invariance` (`IInv`), and from
it `EventsAreSafe` (`NoEventLost`), `PublicationIsSound` (`PublishedComplete`),
`CleanHidesNothing` (`CleanMeansPublished`) and `ReadersMoveForward`
(`PublishedNeverRegresses`).  `NoEventLost` is not inductive: it speaks of
shared storage only, while what makes it true is local.  `LocalCovered` says the
same of the local catalog and ledger, `GroupCovered` that rows about to be
acknowledged are in the catalog, `Sealed` that what is being published is that
catalog and ledger, `Numbered` that the directory a publication creates is new,
`Checkpointed` that an inbox file is removed only for a receipt that the shared
checkpoint holds, and `Versioned` that versions only grow on their way from disk
through the catalog to the snapshot.  `Spec` leaves out the two losses for which
`NoEventLost` does not hold: of a worker between staging a generation and flipping
the pointer to it, and of a process between the two halves of a restore (section 6).

**Fence** (`FenceProofs`).  `FenceInvariance`, `GuardIsTight`,
`NobodySharesATerm` (`TermsUnique`, which no run checks) and
`ImplementsLeadership` (`OnlyTheLeaderPublishes`), for partitions at any moment,
step by step: claims map to claims, `Rename` to a publication, everything else
stutters.  `FenceInv` adds what makes the safety properties inductive: a
producer inside the guard holds the caslock, so that no claim can come between
its check and its rename, a partition in between included (this rests on storage
keeping the lock of a pending commit: `Spec` has no `LockLapses`); no generation
in use is above the fence's; a fallback that lives holds the publication lock;
and when both producers live, the worker's is the older one, because the
fallback got that lock only after the worker had lost it.

**Watch publisher** (`WatchProofs`).  `ScanInvariance` and `IndexesStayTogether`
(`IndexesAgree`).  Completing a generation makes its rows visible, so `ScanInv`
says that until then they are hidden, that their documents reach the semantic
index before the lexical one and both before the completion, and that a row
without a document is recorded as failed.

**Daemon** (`DaemonProofs`).  `DaemonInvariance`, `DaemonTypes`, `BooksBalance`
(`Accounted`), `InOnePlace`, `QueueIsDrained` (`DrainsQueue`) and `StopsInOrder`
(`StopsOnlyWhenTold`), for any number of daemons, workers, clients and panics.
`DaemonInv` adds that the lock's holder is the only daemon between its lock and
its release (`Owned`), that a connection is in one place (`Distinct`) and
belongs to the daemon that listens (`Hosted`), that workers left the queue only
after as many Shutdowns (`Drained`), and that a Shutdown reaches the accept loop
after its client (`Told`).  `Accounted` holds between any two updates, each of
which is a step: it says which connections are in no gauge at the moment.  It does
not speak of the sum of the five values in one Metrics answer, which are read one
after the other.  `StopsOnlyWhenTold` leaves out the kill and the failed `accept()`.
The gauge `active` counts workers at two steps, so the proof needs cardinalities of
sets that gain and lose one worker.

**MCP trail** (`McpProofs`).  `McpTypes`, `TrailSurvives` (`TrailIsSuffix`),
`TrailIsBounded` (`TrailBounded`), `AnswersAreOnRecord` (`AnsweredOnRecord`) and
`ParentsComeFirst` (`ParentFirst`), for any number of adapters and calls and any
limit.  `McpInv` states the trail element by element, that the only call at
work on the log belongs to the holder of its lock (`Exclusive`), how much room
each step of a rotation has (`Room`), that a call is entered once (`Recorded`), and
that a glued line stands right behind the part that spoiled it.

**Reader cache** (`ReaderCacheProofs`).  `CacheInvariance`, `CacheTypes`,
`NothingIsTakenAway` (`LeasedStaysWhole`), `NobodyServesScratch`
(`NeverScratch`), `ReadersNeverGoBack` (`GenerationsMoveForward`) and
`CacheIsBounded` (`CacheBounded`), for any shards, workers, publications, edits
of the collection, failed opens and deaths.  A lease says nothing about copies,
so `CacheInv` goes through the descriptor: a described set is whole
(`DescribedWhole`), a leased one is described (`LeaseDescribed`), and what the
refresh has copied for the set it is about to describe is still there
(`Copied`).  That a prune does not break this is `Pruning`: it walks the list of
described sets newest first, keeps the copies of exactly those it has passed and
kept, and takes the described ones before the others.  Three more invariants
rest on it.
`Near` says how far down the list a path can be that a follower has read and not
opened yet, one place for each prune since.  `NobodyServesScratch` therefore has
the hypothesis `MaxLag + 2 <= Keep`: while a new set is being described the
active one is second in the list, every prune that ends before the follower has
its lock may move it down by a place, and the first `Keep` places are safe.  The
code keeps three sets and does not bound the delay between reading a path and
taking the lock; with three, the theorem allows for one prune in between.
`Tracked` keeps the books of a prune with the history variable `used`: whatever is
served while the prune runs is in it, so each described set beyond the newest `Keep`
is either still on the prune's list or was found in use.  When the prune is through,
`CacheBounded` is what is left of that.  It gives up early only at a set without a
descriptor, and then fewer than `Keep` sets are described, or a reader serves that
very set as an empty index.  `Forward` orders what one
reader serves, is about to open, what is active and what is being pinned.

**Integration** (`IntegrationProofs`).  `IntegrationInvariance`, `OthersAreKept`
(`OthersKept`: settings always, comments unless the client is reported as
configured) and `FilesStayWhole` (`WholeStaysWhole`: no step tears a usable
file or touches an unusable one).  The invariant says that a copy about to be
renamed was merged from the very file it replaces (`Merging`) and that only a
usable file has an entry of AWI's.  On top of it `PassInvariance` (`PassInv`) and
from that `RegisteredStays` (`Registered`, with its exception: the entry of Claude
that was taken out unseen and not put back), `RepeatsAreQuiet` (`RepeatIsQuiet`),
`PassesAreComplete` (`PassIsComplete`) and `NothingLostSilently`
(`NotLostSilently`), for all sixteen clients installed in any combination, any
number of runs, edits and failures; the run installs one at a time.  `PassInv`
says of the list of clients left that it has no repetitions and together with the
report is what was asked for (`Request`), what a command of a client's own may
find (`Commanding`) and what is about to be written (`Writing`), and of every
client that it is in order (`Sound`): an entry that is missing was reported or is
about to be put back, a client said to be registered is, and the word it got is
right.  Some clients have two places, so each step on one is checked against the
place every client is read from.

**Ranking** (`RankingProofs`).  All properties but `NoCrowdingOut`, for any
finite sets of files and shards, any exclusions, relevance, requests, windows
and sizes of the cache, and any number of searches and publications.
`RankingInv` says of every cached answer that it was a possible one, that its
generation is none of the future, and that it is right if its generation is the
shard's (`CacheRight`). `RankingInvariance` shows that it is inductive;
`AnswersStayCurrent` (`AnswersCurrent`) is one of its parts.  So a fresh answer
is one the shards would give now, some of them without the embedding process,
and the others follow it through the pipeline:

* `HiddenNeverShown` (`HiddenStaysHidden`) goes back from a hit: through the
  spreading of directories, the folding of copies, the reader's fusion and the
  catalog to the lookup that found it.
* `NamedAreFound` (`NamedFound`) and `ScopesFilterFirst` (`ScopeBeforeWindow`) go
  forward from a file that must be found.  A rank sort is by a total order
  (`BetterIsAnOrder`, `RanksAreDistinct`), so a window that is no smaller than
  what it is put on cuts nothing (`BestIsAll`).  What a child scope leaves fits
  into the window of each lane (`WindowHolds`); the three kept parts always fit
  into the merged window (`MergedIsAll`); what may be shown fits into what a shard
  hands over (`Fits`, `GivenWhereItFits`); a copy gives way only to a better one of
  its own text, and among those there is a best (`OriginalsKeepBest`); and an
  answer that is not full has spread all that was left (`SpreadCovers`).
* `ApplicableComesFirst` (`ApplicableFirst`) bounds the sums.  A lane adds at most
  2131 (`Share`), the four that are fused 8524, the embedding process 1639, the words
  a path covers 5000, the favour of a memory 8000; applicable instructions gain
  100000 or more, a definition asked for 150000 and a literal name 200000 (which
  makes the file identified, too: `BoostOfFile`).  So what reaches 100000 is one of
  these three (`BoostTells`).  The first hit is chosen before anything is discounted,
  so it is the best of all (`BestOfAll`, `FirstIsBoosted`).
* `LiteralComesFirst` (`LiteralFirst`) goes on from there.  A file asked for by its
  literal name keeps its place in its lane (`LiteralIsKept`) and gains 200000, any
  other has 180000 at most (`PlainMost`) and 10163 from its ranks, unless it is one
  of instructions that apply to a directory more than 750 levels deep (`Deep`).

The assumptions are that files and shards are finitely many (`CollectionIsFinite`),
that paths and depths are numbers and paths differ (`FilesAreNumbered`,
`PathsAreDistinct`), that the worlds are worlds of the shards, in which a path
covers no more than all words and a symbol is defined in a source
(`WorldsAreOfShards`), and that windows, limits and the size of the cache are
positive (`WindowsArePositive`).

Induction over data.  The library's induction theorems take an operator, which the
provers cannot instantiate.  Two recursive functions are proved about all the
same, `Once` (a request without its repetitions) and `Spread`: induction in the
form of a set that holds 0 and successors (`SetInduction`, from the least element
of a well-founded relation) shows that a function with the recursion's equation
exists, and then that the chosen one has the invariant.

Model-checked only.  All liveness (`EventsDelivered`, both `Converges`,
`InterruptedRowsRedone`, `ShardServed`, `SupersededStops`, `CatalogCatchesUp`,
`ShownUnlessFailed`, `ShutdownHonoured`, `EveryoneHears`, `EveryCallEnds`), which
rests on fairness and is out of the prover's reach, and `NoCrowdingOut`, which
compares sums of rounded quotients.  Every other invariant and action property
that a passing run checks is also a theorem.

## 6. Known gaps

What the code does not promise, found while modelling.  The properties are
stated so that they hold without it, and the hazards in `PROJECT.json` point
here.

* A crash inside `bootstrap`, between the renamed index and the copy of the
  newest producer state: the next start skips the restore.  `SpecRestoreCrash`
  adds the step; `NoEventLost` does not hold for it.
* A worker lost between staging a generation and flipping the pointer to it leaves
  a directory that its successor will take for its own (`SpecOrphan`,
  `producer_orphan`).
* A worker that is cut off inside the commit guard: if storage drops the lock of the
  pending commit (a lease-based file server may), a fallback can claim, and the
  rename that goes through afterwards moves the pointer for a superseded writer.
  `SpecLapse` adds the step; `OnlyTheLeaderPublishes` does not hold for it.
* An interrupted row whose path becomes ignored is acknowledged without work and
  stays incomplete; publication is refused from then on.
* An inbox event that `ingest` refuses (over 4 MiB, not JSON) ends every pass at
  that file; the files listed after it are never read.  `EventsDelivered` is
  checked with events that are accepted.
* The last status of a fenced supervisor looks fresh: the monitor drains the
  fallback that owns the shard, and takes over again after the grace period.
* A supervisor whose claim failed goes on without a generation: its producer
  never publishes, and its fresh status keeps the monitor away.
* A cycle of the watch publisher that fails forgets what it has counted; its
  changes are published only when something else changes.
* A file whose row was written and whose document was not is in the catalog but
  not found by a search; it is recorded as failed (`RowFails`).  The same happens to
  a row of the producer (`torn`): its group is completed with it, the retry finds the
  row current and acknowledges it, and the document is never written.  `Producer` has
  the catalog alone, so no property of it speaks of the document.
* A set that failed to activate takes one of the places that are kept, so that a
  follower that reads a path just before may open it after it was pruned, as an
  empty index (`NeverScratch` assumes none did).
* An `accept()` that fails for want of a descriptor, or because its client aborted
  the connection, ends the daemon (`AcceptFails`).
* The read timeout is per read: a client that sends a byte now and then holds its
  worker for ever, and as many of them as there are workers starve everyone and hold
  up a shutdown (`Starved`, `Stuck`).
* When as many workers have panicked as there are, the daemon accepts
  connections, fills its queue and answers nobody.
* As many Shutdowns as there are workers end all of them with connections still
  queued; these are closed without an answer (`DrainsQueue` says only then).
* A read of Claude's file that fails for a moment makes `awi integrate` remove an
  entry it has not seen, though it may be as it should be; if adding it again fails or
  the command is killed, it is gone until the next run.  The user is told
  (`NotLostSilently`), `Registered` excepts it.
* Comments are lost from a file that `awi integrate` merges into.  Not in the model:
  the order of its keys and its layout change, a file that was a symbolic link is
  replaced by a plain one, and its mode becomes 0600.
* An edit a client makes between the reading and the renaming of its file by
  `awi integrate` is lost.  `OthersKept` speaks of what was there when the run
  began.
* A search answered while the embedding process is away is remembered like any
  other until the shard publishes or the entry is evicted (`AnswersCurrent`
  allows for it).
* A shard hands over at most 200 hits before the reader folds copies.  If the
  copies of one definition fill it, a different definition of the same name is
  left out of an answer that then has room for it.  `NamedFound` and
  `ScopeBeforeWindow` ask therefore that what a shard may show fits into what it
  hands over (`Fits`): without it they hold for the instance TLC checks and not
  for every value of the constants, as the attempt to prove them showed.
* Each shard computes relevance with its own word statistics (document frequencies,
  average length), and the reader compares these numbers as if they were of one
  scale.  The model takes them as given per shard: no property says that the split of
  a collection into shards does not change an answer, because in the code it does.
* The lane of literal names reads the 1000 best files whose names have the same words
  and filters afterwards: where more of them have, a file of that very name may not be
  among them.  `literal` in `Ranking` is what is among them, so `LiteralFirst` does not
  speak of the others.
* A part of a record that a failed or killed write left in the trail spoils the record
  after it (`AnsweredOnRecord` allows for one each).
* A call with malformed arguments is in no trail.
* A row that waits for its retry while its file is edited again or removed is in the
  proofs of `Producer` and not in `producer_live`, whose file changes once: that such
  a row too is delivered in the end is not checked.
* The boost that fades with a memory's age is left out of `Ranking`, and its other
  favours are abstracted to whether it is of this project.
* An adapter whose daemon is gone opens its own index directory, which may be
  empty; apart from its diagnosis the answer is that of a search without hits.
* Not in the models: that the Rust guard locks `fence.json.caslock` under a name
  it derives by replacing the extension; that a reattached fallback has no
  `wait()`; that `flock` on the fence has no timeout; that an unreadable fence
  counts as empty; that a root inside another takes over its rows.

## 7. Not modelled

File contents, parsing, extraction, data profiles and SQL over them, source
context, the text indexes' own scores and the embeddings: functions of data,
whose results are inputs of the models.  The CLI, the installers, the status
file, logs and wordings.  `--bootstrap-source`, the scan's cursor, directory
frontier and revisions of the ledger, nested roots, health deadlines and backoff
of the supervisor, the sidecar's process.  Reading the audit trail back.
Framing of the protocol, path and symbol lookups as requests of their own.
NFS semantics other than an atomic rename and durable fsync.  `PROJECT.json`
gives the reason per component.
