# TLA+ models of OpenContext

OpenContext prepares context for coding agents and controls what those agents
may do to a workspace. Most of the repository is analysis over large data
(indexing, retrieval, ranking, compression). Its core *logic* is elsewhere: in
the loops that decide whether an agent may write, whether what it wrote
counts as done, and which of several processes is allowed to work on what.
These modules model that logic, TLC checks it on small instances, and TLAPS
proves the main results for instances of every size.

Paths below are relative to `packages/opencontext_core/opencontext_core/`
unless they start with `packages/` or `docs/`.

## 1. Inventory

| Component | State it keeps | Operations | Hard behaviour | Correct when | Status |
|---|---|---|---|---|---|
| **OC Flow** (`oc_flow/`, `tdd/red_green.py`, `models/canonical_status.py`) | the node of the graph, `OCFlowContext`, the workspace, TDD evidence, the final status and exit code | `run`: capture RED, walk the nodes, apply edits, inspect, repair, finish | external answers at every node, partial edit sets, rollback of one pass among several, a bounded loop, interrupts | exit code 0 is earned by the workspace; strict mode never edits before RED; refusals leave no trace; the run ends | modelled, proved |
| **Checkpoints** (`harness/checkpoint.py`) | captured bytes per file | `create`, `restore`, `diff` | restore after later edits, nested passes, two applies | a restore puts back exactly the captured files | partly, inside OC Flow and the runtime |
| **Agent leases** (`workflow/leases.py`) | SQLite table of leases, table of signals | `acquire`, `release`, `release_by_run_phase`, `get_lease`, `get_active_leases`, `signal` | several processes, SELECT outside the write transaction, lazy expiry, locked database | one active lease per slot; no early expiry; no resurrection | partly (no signals), proved |
| **SDD conductor** (`oc_new/`, `agentic/`) | `state.json`, `budget_ledger.json`, run artifacts, leases | `start`, `resume`, `mark_done` | short-lived processes over shared files, non-atomic writes, gates that read files written by agents | the action fits the phases; apply is gated; nothing recorded is lost |partly, proved |
| **Runtime sessions** (`runtime/api.py`, `session_store.py`) | `session.json`, `run.json`, `state.json` of a linked flow run, manifests, the workspace | `start_session`, `run`, `apply`, `resume`, `archive` | crash between two files, one temporary name for all writers, calls that work for minutes on a session they loaded | the session can be read, names a run that exists, is not left running; completion has evidence; an apply is all or nothing | partly, proved |
| **Memory write queue** (`packages/opencontext_memory/opencontext_memory/store/write_queue.py`) | in-process lock, lock file, handle | `__enter__`, `__exit__` | unlink of a locked file, deadline without lock, exceptions while entering | one writer at a time, no writer waits for ever | modelled, proved |
| **Memory store** (`packages/opencontext_memory/.../store/`, `tools/`, `lifecycle.py`, `conflict.py`) | observations with a life-cycle state, full-text mirror, relations, sessions | save, update, delete, approve, reject, compact, review, purge, judge | separate autocommitted statements, the connection's last row id, equal texts | what is saved can be found, what is deleted stays deleted, tools act on rows as they are | partly, proved |
| **Harness runner** (`harness/runner.py`, `phases.py`, `run_store.py`) | run state (status, gates, edits), the workspace, the record files of each run | `run`, `resume_from`, fix loop, `persist_run` | rules that soften failures, fix attempts that replace edits and gates, resume, crash between record files | a run that says passed was verified as it is, a refused apply writes nothing | partly, proved |
| **`opencontext sdd`** (`packages/opencontext_sdd/`) | change status file | `explore` ... `archive` | order of phases | forward-only transitions (SDD_CONTRACT) | planned |
| **Provider gateway, call budget** (`providers/gateway.py`, `operating_model/call_budget.py`) | usage per provider and window | `generate`, `use`, `reset_if_needed` | fallback chains, windows that end during a call | no call beyond the limit, fallback never to a blocked provider | planned |
| **Compression cache** (`compression/ccr_cache.py`), **plugin life cycle** (`plugins/lifecycle.py`), **task graph** (`agents/dag_state.py`), **backups** (`backup.py`, `configurator/backup.py`), **action policy** (`actions/policy.py`) | small files or tables | small sequential operations | boundaries, partial failure | bounded, restorable, total | planned as time allows |
| **Context engine, code graph** (`context/`, `retrieval/`, `indexing/`, `embeddings/`) | indexes | build, query, pack | numeric scoring over large data | quality, not safety | not modelled: nothing a bounded state space would show |
| **Front ends** (CLI, API, studio, MCP), **configuration and setup**, **evaluation, learning, benchmarks** | files | render, parse, install, report | input and output | - | not modelled |

How they interact: the CLI starts an OC Flow run in its own process; OC Flow
calls an executor (deterministic or provider-backed), the action policy, the
checkpoint store and the test command. A runtime session (`RuntimeApi`) starts
OC Flow or harness runs and keeps which of them is active; its apply uses the
checkpoint store as OC Flow does. The harness and the memory tools of any
process write the same memory store. The conductor never runs an agent: it
writes into `state.json` what the agent host should do next, takes a lease for
the phase it hands out, and is called again with the outcome. Agents and users
talk to it only through files of the run directory.

## 2. The modules

| Module | Models | Extends |
|---|---|---|
| `LeaseBoard` | abstract: what callers of `AgentCoordinationStore` may rely on | |
| `AgentLeases` | the lease table, one action per SQL statement; implements `LeaseBoard` | |
| `MCAgentLeases` | symmetry for TLC | `AgentLeases` |
| `AgentLeasesProofs` | theorems | `AgentLeases` |
| `OcFlow` | one governed run | |
| `OcFlowProofs` | theorems | `OcFlow` |
| `OcNewConductor` | one SDD run and the processes that advance it | |
| `MCOcNew` | excerpts of the phase table, configurations | `OcNewConductor` |
| `OcNewConductorProofs` | theorems | `OcNewConductor` |
| `AdvisoryLock` | abstract: what callers of the write queue may rely on | |
| `WriteQueue` | the write queue, one action per system call; implements `AdvisoryLock` | |
| `MCWriteQueue` | processes and threads for TLC | `WriteQueue` |
| `WriteQueueProofs` | theorems | `WriteQueue` |
| `MemoryStore` | one observation store under several connections, one action per statement | |
| `MCMemoryStore` | topics, texts, symmetry | `MemoryStore` |
| `MemoryStoreProofs` | theorems | `MemoryStore` |
| `AtomicFile` | abstract: what callers of `SessionStore` may rely on | |
| `RuntimeSession` | one session and the processes that run, resume, archive and apply on it; implements `AtomicFile` | |
| `MCRuntimeSession` | symmetry for TLC | `RuntimeSession` |
| `RuntimeSessionProofs` | theorems | `RuntimeSession` |
| `HarnessRunner` | a chain of harness runs over one workspace | |
| `MCHarnessRunner` | a track of four phases | `HarnessRunner` |
| `HarnessRunnerProofs` | theorems | `HarnessRunner` |

Each module also holds its **mutants**: small variants of a definition, marked
`Mutant`, that make a plausible mistake. `PROJECT.json` pairs every checked
property with a mutant under which TLC finds the property violated, so no
property is vacuous. Mutants are not part of any specification.

### AgentLeases and LeaseBoard

`leases` is the table, `op` the method call each process is in, `clock` the
common wall clock, `raced` a history variable: the slots on which two
`acquire` calls have been in flight together. Python's `sqlite3` opens a
transaction before the first INSERT or UPDATE only, so a method is *read, then
write*: `BeginAcquire` reads the clock, `FindNone`, `FindStale` and `Refuse`
are the outcomes of the SELECT, `Grant` is the transaction with the UPDATE of
the stale row and the INSERT. `release_by_run_phase`, `get_lease` and
`get_active_leases` are split the same way. `Crash` is the death of a process
or a `database is locked` error: the connection closes without a commit.
The columns `agent_id` and `acquired_at` decide nothing and are left out, and
so is the signals table, which no decision reads.

`LeaseBoard` knows no statements: acquire, release and expiry take effect at once,
and a grant takes its slot from late holders only, from all of them unless two
agents have asked for the slot at the same time. `ImplementsBoard` maps a slot's
holders to its active rows and an asking agent to one between the start of its
`acquire` and the end of it.

### OcFlow

One run of `OCFlowRunner`. `task` holds what the run is asked for and what it
finds, as booleans (the wording of a task is classified by regular expressions
and word lists; the model takes their verdicts, in every combination the code
allows). `disk` is the workspace: for each file the pass that wrote it and the
defect inspection would find. `ctx` is `OCFlowContext`. The actions are the
nodes of `oc_flow.yaml` as the runner executes them; `node_mutate` is split
into `Mutate` (propose, check, capture a checkpoint), `ApplyEdit` and
`RecordEdit` for each file, and `Applied` or `ApplyFailed`, because an exception
or an interrupt can fall between two edits, and between the write of a file and
the note that it has changed. `Finish` is everything after the walk: completion,
test-only check, regression run, gates, exit code, and the final `run.json`;
`Return` is the end of the process. `result` is what `run.json` says, the list of
changed files included, so that an interrupt before `Finish` leaves it empty.

Abstractions, each of which allows more behaviour than the code, or none that
the properties tell apart:

* a written file has any defect, whatever the edit was; tests pass or fail
  freely every time they run;
* the edits of a pass are a set of files, in any order;
* restoring a checkpoint is one step (the code restores file by file);
* `BudgetGuard.charge` only records, and memory, compression and brain hooks
  are advisory: none of them changes the course of the run;
* lint and type-check commands are never configured by the runner, so
  inspection has scope, secrets, syntax and the targeted tests;
* the edge from `diagnose` back to `gather_context`, the `can_exit` guards and
  the `failed` status of a missing edge cannot be taken with the built-in
  executors and have no action.

`Interrupt` is `KeyboardInterrupt`: it is not an `Exception`, so the handler
that restores the checkpoint does not see it and a half-applied edit set
stays. `_finalize_cancelled` writes the status and no changed files, or updates
the `run.json` that `Finish` has left. A killed process, or an I/O error that nothing catches, leaves the same
workspace without a verdict, so it needs no action of its own.

### OcNewConductor

A call is split where another process can get in between: the load, reading
and rewriting the budget ledger, the lease, and each `write_text`, which
truncates the file before it writes. `saved` is `state.json` with its phases
and next action. Truncation empties it (`EmptyState`): nothing of the old text
is left for a later call, whether a write follows or a crash. Two writers that
both truncated may leave the shorter text with the tail of the longer one, which
does not parse either (`MayMix`). The ledger is emptied and written the same way.
`recorded` is a history variable: the completions that the file showed when it
could last be read. `Judged` is the chain of gates in `mark_done`,
`DecidedFor` the chain of conditions in `_advance`, `Advance` the decision
together with the fail-soft lease. An exhausted strict budget saves the state
once before the decision (`truncate_first`, `write_first`). A ledger that does
not parse raises (`RaiseOnLedger`), which ends the call unsaved.

The agents and the user are the environment: they write artifacts, publish
spec files, approve, report. They never withdraw a file or an approval; the
code has no protection against that. The phase table is a constant: `MCOcNew`
gives excerpts that keep the phases with gates of their own. A run without
configuration behaves as `automatic` with budget `lenient`; `lenient` stands
for the budget modes off, warn and adaptive, and `observe` for the three modes
that never execute code. `_advance` also has an `observe_only` action, which
the model keeps although no mode reaches it (those modes always pause first).

### WriteQueue and AdvisoryLock

One queue per process, shared by its threads. `Enter` takes the
`threading.Lock`; on POSIX `OpenFile` and `Flock` are the two system calls, on
Windows `CreateExcl` and `GiveUp` are the two ways out of the loop; `Unlock`
and `Unlink` are the halves of `__exit__`. A lock file is an inode, so that a
file can be unlinked while it is open and locked. `handle` is the attribute
`_cross_fd` of the instance, the local `fh` of a thread that waits is `opened`.
`EnterRaises` is any exception inside `__enter__`, `Crash` the death and
restart of a process. Releasing `_inproc` is one step with the unlink before
it: between the two, only threads of the same process could tell, and they
are waiting. `_manifest_write_lock` in `memory/stores.py` has the same
unlock-then-unlink order.

`AdvisoryLock` knows no files: threads hold the lock, pass it without holding
it (`Barge`, Windows), and a POSIX lock may break, after which it excludes
nobody. `ImplementsLock` maps the threads in the critical section to holders or
bargers by whether their queue has a handle, and `pulled`, the unlink of a file
in use, to `broken`.

### MemoryStore

`rows` are the observations by id, `index` the full-text mirror, `relations`
the conflict edges, `last` the id each connection inserted last. The store runs
in autocommit mode, so every statement is an action and other processes get in
between: a save probes for an equal text, writes, mirrors, searches for
conflicts and relates; approve and reject look first and update later; compact
selects groups and updates rows one by one; purge deletes table by table. What
a statement knows from an earlier one is in `call`, `found`, `new` and `todo`. A topic and a text are
model values, equal texts are the same value; a search finds a row by its
mirror. `stale` and `touched` are history variables that exclude, in the
properties, exactly what an update by id cannot see. Ranking, snippets,
exports and reading tools change nothing and are left out.

### RuntimeSession and AtomicFile

One session, several processes, each of which loads `session.json`, works on
its copy (`mine`) and writes it back. `_atomic_write` writes to
`session.json.tmp`, a name that all writers share, and replaces: the model
splits it into opening (which truncates), filling and replacing, and follows
the open inode, which another process's replace moves to the path (`fd`).
`run.json` of a run that ends is written the same way (`OpenRun`, `FillRun`,
`ReplaceRun`), and not by one process only: `agent_edits` finishes the active run
of the session whoever executes it (`EnsureRun`), so that two calls can share
`run.json.tmp`. The `run.json` of a run just minted is one step, since no other
call knows the run. `CreateRun`, `Work` and `Finish` are `_execute_workflow_run` and `_finalize`;
what the harness does is a free outcome (`HarnessRunner` has the details).
`agent_edits` loads, inspects, writes the report, truncates and writes
`state.json`, and finishes the active run. A durable apply mints a run if the
session has none, captures a checkpoint, edits file by file and registers, or
restores. `overlaps` and `mishap` are history variables: which kinds of calls
have overlapped (two saves, two ends of one run, two completions, two applies), and
whether a call has died or has lost its temporary file.

`AtomicFile` knows no temporary file and no inode: a writer begins a save, and its
text appears at once or not at all. Two saves under way at the same time may break
the file, after which every write leaves what it likes. `ImplementsFile` maps the
text to `session.json`, a draft to the copy of a call that is saving, and `broken`
to the overlap of two saves.

Not modelled: events, live state and receipts (nothing reads them to decide);
the flip of `resume` without durable artifacts, which needs a paused session,
and nothing ever pauses one; and a resume that fails its integrity check, which
changes nothing.

### HarnessRunner

A run walks `Phases`. `Absorb` is what the loop makes of the result of a
phase: which failures are final, which are sticky (`terminal_gate_failed`),
which are softened to a warning. `Apply` and `Verify` are modelled by what they
do to the workspace and which tests they run; any other phase is a free result.
`Apply` drops edits that cannot be turned into a file's content, as the code
does without a word, and any of its declared gates may fail after the edits are
written, which makes the run terminal and keeps them.
The workspace is `broken`, the files whose mapped tests fail now, so that a
scoped test run (`TestsFail`) looks at the files of the latest edits only and
the suite (`SuiteFails`, strict TDD) at all of them. `Reapply` and `Reverify`
are one fix attempt. `Persist` writes `run.json`, `artifacts.json` and
`events.json` in turn, with a crash or an interrupt in between; `Start` may
resume the run before, which skips the phases that its events call completed
and takes over nothing of its edits.
Budget mode, gate policy, TDD mode, executor and privacy rules are chosen anew
for every run.

Abstractions: the score of the confidence gate and the verdict of the
pre-gates are free; tests are deterministic; an edit breaks and repairs any
tests; only the run before can be resumed (resuming an older one is a shorter
chain after other edits); an I/O error while artifacts are carried over, which
the code swallows, is left out. The `opencontext_sdd` delegation and the
judgment phase are not modelled.

## 3. What the runs check

| Run | Bounds | Shows |
|---|---|---|
| `agent_leases` | 2 processes, 2 runs, 1 phase, 3 lease ids, clock to 2 | types, `LeaseBoard` implemented, no early expiry, no resurrection |
| `agent_leases_doc` | the same | **violated**: the exclusion of `acquire`'s docstring |
| `oc_flow` | 2 files (one a test file), 2 attempts, 3 strategies, 12 steps | the invariants below, refusals freeze the workspace, a run cut by the step limit never looks successful, repairs are paid for |
| `oc_new` | 1 process, 3 phases, 3 configurations, at most 2 charged calls, crashes and lost leases | the action fits the phases, apply is gated, completions are kept and the file can be read, but for a death in the middle of a write; the lease is held |
| `oc_new_pair` | 2 processes, 2 ungated phases, 2 charged calls, crashes | the action fits the phases and the ledger is kept when calls overlap or die half way |
| `write_queue` | POSIX and Windows, 3 processes, 4 threads, 2 writes each, crashes and exceptions | handle and owner agree, refinement of the lock (what an overlap needs), nobody waits for ever |
| `write_queue_overlap` | POSIX, 2 processes, 3 threads, no faults | **violated**: critical sections do not overlap |
| `memory_store` | 2 processes, 2 texts, 1 topic, 3 rows, 1 relation, 3 calls on an empty store or one with two rows, crashes | tools act on facts, no row comes back, live rows can be found |
| `memory_store_id` | 1 process, 3 texts, 3 calls on an empty store | **violated**: an upsert returns the original id |
| `runtime_session` | 2 processes, 2 runs, 2 files, 3 calls, durable artifacts on, crashes | `session.json` is an atomic file until two saves meet, and the four properties below |
| `harness` | 4 phases, 2 files (one with a test), 2 fix attempts, 2 runs, crashes and interrupts | passed means tested, a refused apply writes nothing, skipped phases have their artifacts |
| `harness_recovered` | the same, 1 run | **violated**: a recovery leaves no test failing that was seen to fail |

A run marked *violated* checks one sentence of the documentation against the
code; `PROJECT.json`, "findings", quotes the sentence and says what the
counterexample shows.

Why the bounds are enough. Leases interact only on a common slot, and every
method looks at one picked row and one slot: two processes and two slots give
every pair of overlapping calls, three ids one stale row, one fresh row and
one raced row, and two clock ticks a time before, at and after an expiry. OC Flow
needs one ordinary file and one test file to tell all gates apart, and two
attempts for a first pass, a repair, and an exhausted budget; the proofs lift
both bounds. The conductor looks at the first incomplete phase and the phase
it was called about: three phases give one before, one at and one behind it.
Two processes get the two phases `propose` and `spec`, since what they can do to
each other's `state.json` and ledger does not depend on the gates of `apply`.
The write queue needs two processes for the race at the lock file, a third to
arrive while they race, and two threads in one of them for the shared handle;
four inodes are one more than the processes can use at once.
The memory store needs one topic and two texts for an upsert, an equal text and
a new one, and two connections for a statement between two of another. A
session needs two processes for two saves that meet at the temporary file, and
a third call to read what they left;
with two runs a call that would mint a third stops there. The durable artifacts
are on, since the setting is only ever a guard: off, less can happen.
The harness needs one phase before apply, one after verify that may soften, one file with a test and one without, a fix
attempt after a failed one, and one resume; the proofs lift these bounds.
`MaxTime`, `MaxTokens`, `MaxAttempts`, `MaxSteps`, `Writes`, `Calls`, `MaxRuns` and
`MaxLoops` are the caps on
counters. `MaxAttempts`, `MaxLoops` and `MaxSteps` exist in the code, with 1 to 3
attempts, 2 fix loops and 50 steps; the 12 steps of the run let the step limit
strike, which two attempts never reach from 14 steps on (proved).

Fairness. In the write queue every thread is weakly fair in acquiring: the
kernel schedules it, and a lock that stays free is granted in the end. No strong fairness is
assumed, so `WritersFinish` is about writers that stop coming (`Writes`): under
endless contention neither `threading.Lock` nor `flock` promises a turn.
A holder is assumed to leave: the body of `with` is one
statement on the database. Faults are never fair. The other modules check safety
only and assume no fairness; that a run of OC Flow ends follows from the bound on
its steps (`RepairBounded`) as far as every handler returns.
Deadlock is checked where a standstill would be one: a finished OC Flow run
(`Over`) and a write queue whose threads are all done or, after an exception in
`__enter__`, blocked for ever (`Finished`) stutter explicitly. The runs of the memory store, the runtime sessions and the
harness do not check for deadlock: their processes really stop, when the calls
or runs that the bound allows are used up.

### The properties

* `CompletedIsHonest`: with exit code 0, what inspection last looked at is what
  is on disk, no file the run wrote has a defect, a demanded change exists, and
  a required verification passed. It relates the exit code to the workspace
  over all passes, rollbacks and repairs.
* `StrictNeedsRed`, `ViolationExits6`, `NeedsLeaveNoTrace`, `BlockedPassUndone`,
  `PolicyBlockFreezes`: see the comments in `OcFlow.tla`.
* `ChangesReported` speaks of the list in `run.json`, and so not of a run that was
  interrupted or left by an exception: such a `run.json` has none.
  `PassCanBeUndone` is what holds of those: at every point at which an interrupt
  may leave the workspace, the checkpoint has every file of the pass as it was
  before. `RepairBounded`: no pass is free, and the steps of the walk follow the
  attempts counted, not the step limit.
* `ImplementsBoard`, `NoEarlyExpiry`, `NoResurrection`: what the lease table
  really guarantees to callers that decide from stale reads. A grant leaves one
  holder of the slot, all others were late, and only a race of two acquires excuses
  the table; `ExclusiveUnlessRaced` (one active row per slot) follows.
* `HandleIsMine`, `LockHasOwner`, `ImplementsLock`: the lock
  file excludes exactly as long as nobody unlinks it under a waiting process
  and nobody gives up; inside a process the shared handle is always the
  caller's. `WritersFinish`: nobody waits for ever.
* `NextFitsPhases`, `ApplyUnlocked`, `NoLostCompletion`, `LedgerKeepsAll`,
  `SpawnedIsLeased`: what a reader of the conductor's files may rely on. The
  last three exclude, by a history variable, exactly the mishaps the code does
  not protect against. `NoLostCompletion` speaks of the file that a reader finds:
  it parses, unless calls have overlapped or one died while it wrote it, and what
  the last reader found complete still is, unless calls have overlapped or one
  about the phase took it back. `LedgerKeepsAll` excuses only two calls that are at
  the ledger at the same time (`charge`), not every overlap, and a death only if it
  leaves a text that does not parse; `LedgerRecordsSpend`, without the excuse, is
  what budget.py says, and does not hold (section 6).
* `ActsOnFacts`, `NoResurrection`, `Findable`: a tool changes a row only as what
  it looked at allows, a deleted row never becomes live again, a live row has
  its text in the mirror once its writer has finished, unless that writer died
  or wrote under a stale id.
* `ActiveRunLoads`, `RunningIsDriven`, `CompletedHasEvidence`, `AllOrNothing`:
  what any caller may rely on in the files of a session, and which overlap or
  death is the only excuse. `ImplementsFile`: until two saves overlap, every text
  of `session.json` is one that a call was saving, and no temporary file that a
  dead call left is ever published. `TornOnlyByOverlap` follows from it.
* `PassedIsGreen`, `BlockedApplyWritesNothing`, `SkippedHasArtifact`: the verdict
  of a harness run against the workspace, over softening and fix attempts. A run
  that has taken its apply over from a resumed run has no edits whose tests it could
  run: there `PassedIsGreen` claims the suite of strict TDD mode only (section 6).

## 4. What is proved

All theorems hold for every value of the constants that satisfies the module's
assumption (`LeaseAssumption`, `FlowAssumption` of `OcFlow` and of
`OcNewConductor`, `QueueAssumption`, `HarnessAssumption`, `StoreAssumption`,
`SessionAssumption`), and no theorem assumes fairness.

**AgentLeasesProofs.** `TypeCorrect`; `BoardImplemented` (`ImplementsBoard`);
`LeaseExclusion` (`ExclusiveUnlessRaced`); `LeasesExpireInTime` (`NoEarlyExpiry`);
`LeasesNeverResurrect` (`NoResurrection`). Exclusion alone is not inductive: between the SELECT and
the INSERT of an acquire nothing in the table says that the slot was found
free. The strengthening describes, for a slot on which no two acquires have
overlapped, what an acquire in flight knows: its slot has no active row other
than the stale one it picked. No-early-expiry needs that a picked row's expiry
lies before the time the caller read, and that the clock only grows. The
refinement needs both, and `WellPicked`: a row that a call holds on to from its
SELECT to its UPDATE is a real one, of the call's own slot when an acquire is to
expire it. A SELECT is then a stutter of the board, and each transaction one step of
it: a grant takes exactly the rows picked, which are all the slot has unless
another acquire interfered.

**OcFlowProofs.** Seven inductive invariants, each about one concern and
each using those before it: `ControlInv` (which status belongs to which node),
`BoundInv` (steps spent, by node and attempts), `RedInv` (a strict walk has a
RED run), `DiskInv` (saved bytes and passes: what a checkpoint holds was
written by earlier passes, and every file with the run's bytes is recorded or is
the one being written), `TouchInv` (which runs have touched nothing), `PolicyInv` (after a refusal nothing is pending), `VerdictInv` (what a
passed inspection found is still on disk at every later node, and the final
status follows from it). From them: `FlowTypeCorrect`, `RepairIsBounded` (`RepairBounded`),
`StepLimitUnreachable`, `StrictMutationNeedsRed`, `RefusalFreezesWorkspace`,
`RollbackUndoesPass`, `PassIsUndoable` (`PassCanBeUndone`), `ChangedFilesAreReported`, `ZeroExitIsHonest`,
`StrictViolationExits6`, `AskingLeavesNoTrace`.

**WriteQueueProofs.** `TypeCorrect`, `HandleBelongsToCaller`, `LocksAreReleased`, and `QueueImplementsLock`: the queue implements
`AdvisoryLock`, by a step lemma for each action. Exclusion is not inductive on
POSIX, since two threads may have different files open; the strengthening says
that this takes an unlink of a file in use: as long as there was none, whatever
is open is the file at the path (`PathInv`), and no two queues have the same
file (`FileInv`).

**HarnessRunnerProofs.** `TypeCorrect`, `SuccessIsGreen` (`PassedIsGreen`),
`RefusalIsFinal` (`BlockedApplyWritesNothing`), `ResumeFindsArtifacts`
(`SkippedHasArtifact`). The assumption beyond types is that a phase is scheduled
once and apply before verify, as `PHASE_DEPENDENCIES`, `WORKFLOW_TRACKS` and every
subset that `schedule_phases` takes of them say (`agents/sdd_orchestrator.py:29`).
A record says passed only at the end, so `PassedIsGreen` alone says nothing about
the way there. `GateInv` does: a red verification under an enforcing policy has
set `terminal_gate_failed`, which keeps the status failed until a fix attempt
sees the tests pass. `OrderInv` is needed because apply must not come after the
verification it would invalidate, `BlockInv` because a hard failure is what
keeps later phases from softening a refusal, `RecordInv` because resume reads
two files that were written one after the other.

**MemoryStoreProofs.** `TypeCorrect`, `CallsActOnFacts` (`ActsOnFacts`),
`RowsFindable` (`Findable`), `RowsStayGone` (`NoResurrection`), for any number of
connections, rows, texts and topics. What a call knows between two of its
statements (`Facts`) is not inductive by itself. An upsert that reports upserted
is right only because the partial unique index leaves one live row per topic
(`OneRowPerTopic`): the row the probe found is then the row the upsert updates.
Compaction drops rows by id long after it read them, so `Facts` says of its list
that no keeper is on it and no row is on it twice; `CompactStep` derives this
from the keeper's being the first live row of its text. `Findable` needs
`Awaited`: a row just written is mirrored under its own id unless it was updated
in place, which the model notes in `stale`. The argument is one of rely and
guarantee: a step of `p` changes rows that the others note (`Noted`), ages the
table (`Ages`: ids grow, a row with an old id never comes to life, its text
changes only if noted) and keeps or replaces the postings (`Posted`); the lemma
`Combine` turns these into the invariant of every other process. The assumption
beyond types is that there is a text.

**OcNewConductorProofs.** `TypeCorrect`, `SavedActionFits` (`NextFitsPhases`),
`ApplyIsUnlocked` (`ApplyUnlocked`), `LedgerIsComplete` (`LedgerKeepsAll`),
`SpawnHoldsLease` (`SpawnedIsLeased`), and the action property `CompletionsStay`
(`NoLostCompletion`), for any phase table, configuration, token counts and number
of processes. What the files say was decided by a call some steps before, so
every part of the invariant speaks of the calls in flight as well as of the
files. `FitInv`: what a call is about to write fits the phases it writes with it.
`ApplyInv`: an order to apply is justified on disk, as loaded and as decided, and
stays so because the agents never withdraw anything. `LedgerInv`: a call that
rewrites the ledger has read all of it, unless another was at it too; this needs
no assumption on overlaps elsewhere and survives deaths. `LeaseInv` carries the lease from
the moment it is taken to the moment the order can be read, and needs that the
ledger is torn only while a call writes it: on a torn one a later call would
raise after it has released the lease and before it has saved another order.
`CopyInv`: a call has the recorded completions in memory, but for the phase it was
called about. `FileInv`: without overlap and death `state.json` is torn exactly
while it is written.

**RuntimeSessionProofs.** `TypeCorrect`, `SessionImplementsFile`
(`ImplementsFile`), `SessionNotTorn` (`TornOnlyByOverlap`),
`ActiveRunIsThere` (`ActiveRunLoads`), `RunningHasDriver` (`RunningIsDriven`),
`CompletionHasEvidence` (`CompletedHasEvidence`), `AppliesAtomically`
(`AllOrNothing`), for any number of processes, runs, files and calls. Nothing
about `session.json` is inductive alone, since its next content is in the
temporary file and in the memory of the calls. `SaveInv` says that, without
overlapping saves, one call has the temporary file open and what is in it is that
call's text; with it, each step of a save is a step of `AtomicFile` or a stutter,
and the step of any other action begins a save or is a stutter. `ExistInv` extends the active run's existence to the temporary file
and every copy in memory; it needs no history variable, which is why it survives
overlaps and deaths. `FinishInv` says the same of `run.json.tmp` as `SaveInv` of
`session.json.tmp`, per run, and therefore that a run that two calls have not
finished at once can be loaded. `DrivenInv` is the argument behind `RunningIsDriven`: text
that says running stays in the temporary file only while a call that has written
it is at the same save, and whoever publishes it, its writer is there to write
the end. `EvidenceInv` says that one call at a time works on the linked run, that
the status it found can still be completed, and that the report on disk is its
own. `WorkspaceInv` says of an apply at work that the workspace is its checkpoint
but for the files it has edited, and that the checkpoint was uniform.

**Only model-checked.** `WritersFinish`: liveness is out of the prover's reach. Every invariant and every action property of a passing run is a
theorem. What the operators compute is not proved by induction anywhere: no proof
needs it, since the models use sets and functions.

## 5. Plan

In this order; each module gets an instance for TLC, and proofs where listed.

1. `OcNewProgress`: the full ten-phase table with a cooperative agent, no phase
   waits for an artifact nobody produces, and the run reaches `done`. Composition
   of the conductor with `AgentLeases`.
2. `TwoFlows`: two instances of `OcFlow` over one workspace.
3. `CallBudget`, `ProviderGateway`, `PluginLifecycle`, `CcrCache`; the action policy
   as a function against a reference table; `SddCycle`.
4. Abstract specifications: a run that "claims success only for verified
   work", implemented by `OcFlow` and by `HarnessRunner`; a phase pipeline,
   implemented by `OcNewConductor` for a single process.

## 6. Where code and documentation disagree

Four runs are marked *violated*; their sentences are quoted in `PROJECT.json`.
These came up while modelling and have no run:

OC Flow and the conductor

* `rollback-report.json` lists every file changed since the run began as
  restored, although only the checkpoint of the last pass was
  (`oc_flow/nodes.py:1452`; `RestoredFilesWereCaptured` does not hold).
* A strict run records the regression suite and reads its result nowhere
  (`oc_flow/runner.py:1120`, TDD_STRICT_CONTRACT step 7; `RegressionGates` does
  not hold).
* A mutation task whose wording names no test, outside strict mode and without
  a test command, ends `completed` although nothing was executed
  (`oc_flow/completion.py:119`); RUN_STATE_CONTRACT says a skipped verification
  is blocked or failed.
* A cancelled run keeps the edits of its last pass, and its `run.json` lists no
  changed files (`oc_flow/runner.py:551`).
* Two conductor calls at the same time: the second save of `state.json` drops the
  phase of the first, and a death in the middle of a save leaves a file that no
  later call can load (`oc_new/store.py:24`).
* Two calls that charge the budget ledger at the same time leave the charge of one
  (`oc_new/conductor.py:848`; `LedgerRecordsSpend` does not hold); `agentic/budget.py:1`
  calls it an append-only audit trail.
* The archive gate is asked only for the status `passed`; `warning` completes the
  phase as well (`oc_new/conductor.py:217`; `ArchivedWithEvidence` does not hold).
* A `stepwise` conductor run pauses before its first phase and not after its
  last (`oc_new/conductor.py:388`); the CLI explains the mode as a pause after
  every phase.

Memory

* `timeout_seconds` of the write queue is ignored on POSIX
  (`store/write_queue.py:60`).
* A proposed row counts as the keeper of its text: compaction deletes the
  approved copy (`tools/mem_compact.py:38`); a save of a text that only a
  proposed row holds is absorbed by it.
* `mark_reviewed` makes any row active, also a proposed one (`lifecycle.py:149`).
* A save of a text is absorbed by the equal row that it has found, also when that
  row is deleted before the update (`tools/mem_save.py:255`); a row rejected
  between the look and the update of an approval becomes active
  (`tools/mem_approval.py:33`); a death between a row and its mirror leaves a row that
  no search finds (`store/sqlite.py:222`).
* A row pinned between compaction's SELECT and its UPDATE is compacted all the
  same; two equal saves at the same time both insert; a hard delete leaves the
  text in the mirror.

Runtime sessions

* `session_store.py:7` says that all writes are atomic. Two savers of a session
  share one temporary name: one may publish the other's empty or half-written
  text, and the second `replace` raises `FileNotFoundError`. So do two calls that
  finish one run, which may leave a `run.json` that no later call can load
  (`WritesAreAtomic` does not hold).
* The comment at `runtime/api.py:578` says that a completed flow run is rejected
  without side effects; two overlapping `agent_edits` are both accepted, and the report of a failed
  inspection may end beside a completed run.
* No operation looks at the status of the session: an archive during a run is
  undone when the run ends, and `agent_edits` turns a failed run into a
  completed one.
* A durable apply that fails restores its checkpoint over edits that another
  apply has made in the meantime.

Harness runner

* A run resumed after a failed verification skips apply, has no edits, maps
  nothing to a test and ends passed with the tests still failing
  (`harness/runner.py:944`, `harness/phases.py:2620`); RUN_STATE_CONTRACT, rule 4: "A
  skipped verification is `blocked` or `failed`, never `passed`". `PassedIsGreen`
  therefore says nothing of the edits that such a run has taken over. Likewise a
  resumed `not_applied` run skips its planned apply and ends passed, and a verify
  whose own tests passed but whose declared gates failed is skipped.
* Edits that do not materialise are dropped without a word
  (`harness/phases.py:1801`), and apply passes with the rest.
* The phases that a resumed run skips are no completed phases of its own record:
  a resume of the resume executes them again, apply included.
* A low confidence score skips apply or verify without changing the status
  (`harness/runner.py:992`); under the strict budget mode it fails the run, and
  the failed confidence gate of verify sends it into the fix loop, which can
  end it passed without the phases after verify.
* A fix attempt forgets failed gates that it does not evaluate again (mutation
  tests, an exception in verify) and takes a test run that raises for a success
  (`harness/runner.py:2481`).
* Edits that fail and are rolled back only warn.
