# A TLA+ model of AtMem

AtMem is a local memory and governance service for AI agents: it stores what
an agent may remember, what it is working on, and what an operator allowed, in
SQLite databases that several processes open at once. This directory models the
parts of it whose correctness depends on the order of events, checks them with
TLC on small instances and proves the main invariants with TLAPS for every
value of the constants.

Paths below are relative to the repository root (`atmem/...`, `docs/...`).

## 1. Inventory

| Component | State | Operations | Interacts with |
|---|---|---|---|
| Task policy (`task_state/policy.py`, `models.py`, `contracts/task_state.py`) | none: pure functions of one snapshot | `evaluate`, `apply_operations`, `evaluate_completion` | called by the task service on a snapshot it read |
| Task service (`task_state/service.py`, tables in `store/sqlite.py`) | `governed_tasks`, `_revisions`, `_proposals`, `_steps` | start, get/list, submit, correct, pause, resume, complete, cancel, expiry, forget | shared database: CLI, dashboard, hosts and the maintenance thread each call it on a connection of their own |
| Maintenance (`maintenance.py`) | a thread and a stop event | expiry scan, graph consolidation, audit verification | calls the task service |
| Process locks (`locking.py`) | table of held locks per process, `flock` per file | acquire, close, nested and shared acquisitions | used by the control store, backups, the dashboard daemon |
| Session bindings (`task_state/binding.py`) | `governed_task_session_bindings` | register, revoke, resolve | checked by the host boundary before each write |
| Host boundary, enablement (`task_state/host_boundary.py`, `enablement.py`) | audit events | observe, propose, request_lifecycle; enable, disable | gates one after the other, then the task service |
| Task context (`control/manager.py` `prepare_task_context`, `task_state/context.py`) | delivery rows | prepare, confirm exposure | reads setting, binding and task, records deliveries |
| Delegated retrieval (`delegated/`) | a registration file; acceptances, reservations, deliveries in the control store | prepare a turn; register, enable, remove | chosen by `ControlPlaneManager.prepare` before AtMem's own memory |
| Continuity (`continuity/`) | workflow revisions in the evidence vault | create, configure, begin, outcome, renew, abandon | hosts run external tools under leases |
| Evidence vault (`evidence/`) | sealed documents, key slots, a key file, a locked file, a rotation journal | capture, view, delete, rotate key, lock, unlock | also holds the key of the control store |
| Control plane (`control/manager.py`, `store.py`) | one encrypted SQLite image, host configuration files | turns, exposures, activation, restoration | loads the image under a process lock and replaces the file on commit |
| Black box, audit chain (`control/blackbox.py`, `store/sqlite.py`) | hash-chained rows | append, verify, incremental verify | every service appends |
| Semantic index (`semantic/index.py`, `health.py`) | epochs, queues, vectors | enqueue, rebuild, search | follows the memory store |
| Memory authority (`memory.py`) | memories, versions, facts | observe, revise, forget, consolidate | extraction and retrieval |
| Identity, home, action guard | tables or files of their own | see `PROJECT.json` | the services above |
| Extraction, retrieval, context engine, graph, code, media | derived data | heuristics over text | memory authority |
| CLI, servers, MCP, installers, adapters, AtBot, OpenClaw plugin, TypeScript packages | none that matters here | parsing, transport, rendering | callers |

What is hard in this system:

* **Interleaving.** No lock is held across a service call. A read is
  autocommitted and only the final write is a transaction
  (`SQLiteStore.transaction`, `BEGIN IMMEDIATE`), so every decision is taken on
  rows that may be stale when it is written. Correctness rests on unique
  indexes and on the compare-and-set of `advance_task_head`.
* **Failure.** A process may die between two statements of a call; one call may
  be two transactions (an expiry, then the change that found it due); a key
  rotation is five file operations; a commit of the control store can take
  effect in memory and not on disk; a caller that lost an answer asks again.
* **The outside world.** A tool acts whether or not its host lives to report it,
  and a destination forgets an idempotency key after a while.
* **Time.** Expiry combines timestamps written by different calls; leases and
  idempotency windows are compared with a clock that may be set back.
* **Sequences.** A delta is a list of operations validated one after the other,
  and deltas follow each other for the life of a task.

What makes each component correct is stated as the properties of section 4; the
hazards they are aimed at are listed with their lines in `PROJECT.json`.

## 2. Modules

| Module | Models | Used by |
|---|---|---|
| `TaskPolicy` | the pure rules: what a delta does to a snapshot | `TaskPolicyMachine`, `MCTaskStateService` (INSTANCE) |
| `TaskPolicyMachine` | one task under a stream of accepted deltas | `MCTaskPolicy`, `TaskPolicyProofs` |
| `TaskPolicyProofs` | theorems about both | |
| `TaskLedger` | abstract: a task is one object that changes atomically | `TaskStateService` (INSTANCE, refinement) |
| `TaskStateService` | callers racing on the task tables | `MCTaskStateService`, `TaskStateServiceProofs` |
| `TaskStateServiceProofs` | theorems about it: types, stored heads | `TaskHistoryProofs` |
| `TaskHistoryProofs` | theorems about it: histories and what calls know of them, the ledger, decisions, steps and pauses | |
| `ProcessFileLock` | file locks shared by threads and processes | `MCProcessFileLock`, `ProcessFileLockProofs` |
| `ProcessFileLockProofs` | theorems about it | |
| `HostBoundary` | what a conversation may do to a task: bindings, setting, host writes, task context | `MCHostBoundary`, `HostBoundaryProofs` |
| `HostBoundaryProofs` | theorems about it | |
| `DelegatedContext` | a turn whose context a provider supplies, and the store it is settled in | `MCDelegatedContext`, `DelegatedContextProofs` |
| `DelegatedContextProofs` | theorems about it | |
| `Continuity` | operations of a workflow run by hosts under leases, and their destinations | `MCContinuity`, `ContinuityProofs` |
| `ContinuityProofs` | theorems about it | |
| `EvidenceKeys` | the keys of vault and control container through rotation, lock and unlock | itself, `EvidenceKeysProofs` |
| `EvidenceKeysProofs` | theorems about it | |
| `MCTaskPolicy`, `MCTaskStateService`, `MCProcessFileLock`, `MCHostBoundary`, `MCDelegatedContext`, `MCContinuity` | small instances | the `.cfg` files |

`TaskStateService` takes `TaskPolicy` as its policy. `HostBoundary` stands in
front of `TaskStateService` and keeps of it whether a task is there, in which
incarnation, and whether it is open, paused or terminal. `Continuity` lives in
the vault whose keys `EvidenceKeys` handles, and `DelegatedContext` in the
control store whose container it re-encrypts; each names the part of the other
it depends on (the capture mode, the key transition lock).

### TaskPolicy and TaskPolicyMachine

A snapshot keeps the phase, the items (status, dependencies, whether required,
reasons, assurance), the constraints, the inspected sources and the schema lock.
`Refused` has one disjunct per early return of `_validate_operation`, with the
reason code in a comment; `ApplyOperation` is `apply_operations`; `Decide` is
`evaluate` after its eligibility and base-revision checks; `WorkAfter(n, ...)` is
the snapshot after the first n operations (a recursive function of n) and `Work`
the one after all, so that each operation sees what the earlier ones did and the
first refusal discards everything. `WellFormed` is what `TaskOperation` checks of
an operation; the fields of an operation that the rules do not look at stay free.
`Raises` is the `ValueError` of the `TaskItem` and `TaskState` constructors, which
escapes `evaluate`. Titles, texts and evidence references are members of small
sets. `TaskPolicyMachine` keeps the head snapshot and whether a privileged
correction produced it; `frozen` is history: every structure the task had after an
operation that left it locked. `Readable` collects what the two constructors check
whenever a stored snapshot is read back, `Acyclic` says that the items of a
snapshot can be finished in some order.

### TaskStateService

`tasks`, `revisions`, `proposals` and `steps` are the tables, by task; `pc` and
`call` are where each caller is in its current call and what it holds in local
variables. One action is one autocommitted read or one transaction:

| Code | Actions |
|---|---|
| `start` | `StartRead`, `StartCommit` |
| `submit`, `correct`, `submit_atbot_observation` | `SubmitRead`, (`Reload`), `SubmitCommit` |
| `pause`, `resume`, `cancel` | `LifecycleRequest`, `LifecycleRead`, `LifecycleCommit`, `Confirm` |
| `complete` | the same, with `CompletionGate` before `LifecycleRead` |
| expected revision (`control/manager.py` `change_task_lifecycle`, `cli.py` `_check_expected_revision`) | the `check` stage of `LifecycleRequest` |
| `get`, `list` | `Get`, (`Reload`) |
| `_expire_if_due` inside any of these | `ExpireRead`, `ExpireCommit`, `Confirm`, `Reload` |
| `scan_for_expiry` | `ScanRead`, `ScanNext`, then the expiry actions |
| `forget` | `Forget` |
| a process dies | `Crash` |
| time passes | `Tick` |

`CanInsertRevision` and `CanInsertProposal` are the primary keys, the
one-successor index and the foreign keys of the schema: an insert they forbid is
the `sqlite3.IntegrityError` that `_commit` turns into a conflict and that
`_lifecycle` lets escape. A row and the head revision it names are read in one
step, since revisions are immutable; a timestamp is any instant between the read a
call decided on and its transaction. The policy is a parameter (`PolicyEligible`,
`PolicyDecide`, `PolicyComplete`): the runs give it `TaskPolicy`, the proofs any
policy that meets `PolicyAssumption`. `RebuildLimit` is how many revisions
`rebuild_task_pause_accounting` reads (1000, `store/sqlite.py:3036`).

`Ledger` is what the tables say of each task whose id was never forgotten: head
revision, lifecycle and content. With it as the refinement mapping the module
implements `TaskLedger`, in which starting, accepting a delta, moving the
lifecycle and forgetting are single steps on one object (`TasksAreAtomic`).

Abstracted: scope and capability checks (a caller outside the scope sees no
task), provenance rows (no rule reads them), delivery and binding rows,
wording. `start` by idempotency key returns the existing task; key and id are
identified.

### ProcessFileLock

`held` is `_PROCESS_LOCKS` of each process, `flock` what the operating system
granted, `guard` the thread that has `_PROCESS_LOCKS_GUARD`, `key` the thread that
acquired each lock object. `Call` brings a thread to the guard; `Join` is the
`while` loop over an existing entry (mode mismatch, refusal, wait, nested
acquisition); `Open` opens and validates the file and goes on to lock it with the
guard still held; `Granted` and `Refused` end that; `Close` gives a reference back
and, with the last one, unlocks and wakes every waiter; `Die` is a process that
ends. What a thread does between taking and leaving the guard is one step,
except that waiting for the file lies between two. Modes, paths, waiting and the
nesting that callers allow themselves are constants. External: the compatibility
rule of `flock` and `LockFileEx`, and the release of locks at process exit.

### HostBoundary

One scope. `mode` is the latest enablement event, `bindings` the unrevoked rows,
`epoch` the generation a host presents for a session key, `task` each task's
lifecycle and incarnation, `deliveries` the rows whose identifier was handed
out. A host call is `Begin`, `CheckSetting` (`_enablement`, and the check of
`prepare_task_context`), `ResolveTask` (`resolve`, `_bound_task`), then `Write`, or
`ReadTask` and `RecordDelivery`: each is an autocommitted read of its own or one
transaction of the task service. `Confirm` is `confirm_task_exposure`. The
operator's `atmem task bind` is `BindRead` and `Register`; `Revoke`, `SetMode`,
`StartTask`, `Forget` are single transactions; `Lapse`, `Reset` and `MoveTask` are
time, the host and other callers. `seen` is history: what the operator allowed
this conversation while the call was under way. A delivery a slot has made is
dropped when the slot is used again, to keep the instance finite.

Abstracted: the capability ceiling of a host (a fixed table), the text and the
budget of the context, the reason codes, the recorded withheld deliveries
without an identifier (nobody can confirm them).

### DelegatedContext

`disk` is the encrypted control container and `mem` its image in the open store:
`Persisted` is a commit that replaced the file, `Unpersisted` one that took
effect in memory and failed to. A call holds the container's writer lock from
open to close, so one call is under way at a time; it may still die anywhere
(`Stop`), and what a failed commit left in memory is written by `Close`. `cfg` is
the registration, a file the operator replaces at any moment, which a call reads
twice (`HasEnabled`, `Match`). A result is a model value with a turn, a nonce and
a decision; `Verified` is `parse_and_verify_envelope`. `said` collects what the
host was told for each turn over all its tries.

Abstracted: signatures and digests (a result verifies or not), the evidence rows
of each decision, the idempotency key (it is treated as the nonce is), previews.

### Continuity

`wf` is the latest revision of one workflow key (or its tombstone), `att` the
host's side of each `run_operation`, `dest` what happened at the destinations.
Each service method is one transaction under the key transition lock, hence one
action; the client's steps, the tool call and its effect are separate. An answer
may be lost (`BeginUnheard`, `OutcomeUnheard`: the request is carried out and
nobody hears), a request carried out after its host is gone, a receipt delivered
twice. A host that died is one that takes no further step. `time` is real time;
the controller reads `time - back`. The assumption that hosts' dawdling and the
clock's lag fit into the 30 second margin (`HostDelay + MaxBack <= Margin`) is the
model's, and is what the margin is for.

Abstracted: byte budgets (a coordinator's save may be refused), results (there is
one or not), lease tokens (the attempt stands for its token), roles other than
who may create.

### EvidenceKeys

`keyfile`, `lockedfile` and `journal` are the files beside the vault, `slots` the
key slots in it (partition, the name its tag was made from, the key that wraps
it), `ctl` the key of the control container. A request constructs its own service:
`Start` reads the key file, `Opened` or `Resume` ... `Discard` is the
constructor's look at the journal. Then one action per file operation or SQLite
transaction: captures, access records, deletions, continuity operations, the
control store, the steps of `rotate_key`, its rollback, `lock` and `unlock`.
Journal and locked file are created exclusively and written afterwards
(`CreateJournal`, `WriteJournal`; `CreateLocked`, `LockFile`), so a stop between
the two leaves a torn file. `Stop` ends a request anywhere. `badWrite` records
that a write of the key file failed during a rotation. Cryptography is which key
opens what.

## 3. Plan

1. Task policy and task service, with their first theorems (done).
2. Process locks, with mutual exclusion proved (done).
3. Session bindings, host boundary and task context, each gate on a read of its
   own, proved (done).
4. Delegated turns over a store whose commits can fail; continuity; the vault's
   keys: proved (done).
5. The histories, decisions and pauses of tasks that were never forgotten, proved
   (done).
6. An abstract ledger that `TaskStateService` implements for ids that are not
   reused, the properties of `TaskPolicyMachine` by induction over a delta, and
   freedom from deadlock of locks with one waited file, proved (done).
7. Control plane activation and restoration with crashes between the file edits
   and the database; incremental verification of the audit chain; semantic index
   epochs; home migration.

## 4. Runs

Passing runs:

* `race` - two callers that may crash at any step, one task, three proposals (two
  rivals of revision 1, one that reuses a key), every lifecycle target with and
  without an expected revision, an absolute age of one clock unit, forgetting.
  Checks that history stays linear, that what a call writes was computed from a
  state the task really had, that the row agrees with the history it caches, that
  nothing changes a task that ended, that every decision is recorded exactly once
  and every revision accounted for, that a call which is refused changed nothing in
  any of its transactions (but for an expiry it found due), and that the
  tables change as the atomic operations of `TaskLedger` do (a mutant that decides a
  delta on whatever head it finds breaks nothing but this).
* `reborn` - the id may be forgotten and started again while old calls are in
  flight, with longer sequences of pauses and resumes under both age rules. Linear
  history is lost here (an orphan revision may be left behind), but the row still
  names a stored revision with all its ancestors, nothing is rewritten, and for
  the first incarnation an expiry is no earlier than the rule it cites allows
  counting from the start of the task, and the pause time rebuilt from the
  revisions is the stored one up to `RebuildLimit` revisions and never more beyond.
* `scan` - liveness: under weak fairness of the maintenance thread, a task whose
  absolute age is due ends, although a client crashes, forgets, collides and submits
  a delta that raises.
* `policy` - deltas of up to two operations by a host agent and by operator
  corrections on a task with up to three items. A schema that is locked keeps its
  items, constraints, dependencies and required flags from the locking operation on,
  through the rest of its own delta too.
* `locks` - three threads of one process and one of another, which may die, with
  the household lock (shared at run time, exclusive for a migration, never
  waiting) and the schema lock (exclusive, waiting, nested by one thread), in any
  nesting.

* `boundary` - one host, one operator, one session key with two generations, two
  tasks started up to twice. What a host did had the operator's permission for
  this very conversation at some moment of the call (each gate is one read, so no
  more can be said); a restarted task inherits no row that was made while its
  predecessor was there.
* `delegated` - two turns, four results (rivals for one turn, one that withholds,
  one for the other turn with a used nonce), every registration, failed writes and
  crashes. One authority a turn however often it is prepared; whatever was told is
  on disk; a turn is settled once; a nonce buys one turn.
* `continuity` - two hosts, a workflow of an idempotent and a queryable operation,
  lost answers, late and repeated requests, lapsing leases, a host that dawdles
  between grant and call, a clock set back, revision limits that are reached. The
  idempotent operation is executed again after a lapsed lease, a lost grant and a
  dead host. No operation takes effect twice or before the one it follows, no
  result is invented or lost, receipts and stops always find room, settled work
  stays settled. Time ends at `MaxTime`, so the run does not look for deadlock.
* `evidence` - requests one after another, each stopping anywhere, up to three
  keys, torn journals and locked files included. A key that opens all of the
  vault, and one for the control container, can be found at every moment; a
  service that opens can read everything; after a rotation the old key opens
  nothing.

Runs that show a promise the code does not keep (`findings` in `PROJECT.json`
quotes the lines):

* `completion` - required work accepted between the gate check and the completing
  transaction is completed over.
* `hosts` - two hosts with two threads each open the memory store and the semantic
  index at once. A thread that waits for the other host's file keeps its
  process's guard, which the thread that would release the first file needs; with
  two files waited for in opposite order by two hosts nobody goes on. The
  callers nest no lock in another. With one waiting file (run `locks`) no circle
  exists.
* `stalekey` - with two requests at once, one that opened its service before a
  rotation appends after it, under the key that is gone.

Met while modelling and visible in the model, without a run of their own:

* Tasks. `set_item_blocker` by a host agent reopens completed work, although
  `models.py:28` says settled work does not silently reopen. The loser of two
  concurrent expirations fails with an integrity error that `_expire_if_due` does
  not absorb. Pauses before the last progress are subtracted from the no-progress
  age again. With more live tasks than a scan page, older tasks without a rule
  hide a due one. A no-progress verdict may be acted on after progress was
  recorded; an expected revision is compared on a separate read; `add_item` may
  carry the status `completed` without evidence, or an assurance above the role's
  ceiling; `set_phase` to the current phase counts as progress; work added after
  entering the terminal phase leaves it undone; an added item that starts
  `blocked` raises out of `submit` undecided. Past 1000 revisions
  `rebuild_task_pause_accounting` leaves out the later pauses and reports less
  than the row, although its docstring says that it derives the same number:
  `PauseAccountingAgrees` claims equality up to the limit only.
* Bindings. A binding can be written for a task forgotten after the look at it
  (`cli.py:3790` says a binding never names something unreachable; `NoInheritedRows`
  speaks of rows whose task was there), and a terminal task can be bound. A binding
  past its lifetime blocks a new one until it is revoked. A host write resolved
  before a forget can land on the task started next under the identifier. For a
  paused or terminal task `prepare_task_context` returns the identifier of a withheld
  delivery, which a host can confirm as exposed, although `manager.py:158` says it
  stays absent.
* Delegation. When the registration is switched off between two tries of a turn,
  AtMem's own context is given for a turn that already had a delegated one;
  `OneAuthority` leaves the unlabelled native answer out for that reason.
* Keys. Two workflows, or a workflow and a tombstone, get the same name when a
  vault is rotated (`_partition_for_document` knows neither), the tag collides,
  and no rotation succeeds from then on. A crash between lock's two file
  operations leaves both files, and locking fails ever after. A crash between
  creating the journal and writing it makes every later constructor raise at
  `service.py:107` until the file is removed by hand; one between creating the
  locked file and writing it makes every later lock fail on the existing file and
  unlock raise. The key file still names the key of everything in both cases, so
  the invariants hold. If the key file cannot be written and the rollback is then
  interrupted, the control container is under a key nobody has:
  `ControlRecoverable` and `OldKeyRetired` exclude runs with such a write.

### Bounds

* Tasks. Two callers suffice for a race between a decision and a write, because
  every conflict is between one read and one transaction; a third only repeats it.
  `MaxRevision` stops new calls (never calls in flight), so heads can pass it by
  one per caller. `MaxNow` lets every age rule of a run become due and a verdict
  be acted on an instant after it was reached: one tick in `race`, whose subject
  is the order of steps, more in `reborn`, whose subject is durations and where
  `RebuildLimit` is 3, so that histories pass it. One task is enough where tasks
  do not interact; the scan needs two to have an order. `MaxItems` stands for the
  code's limit of items and is reached.
* Locks. Three threads in one process and one in another give every pair of rivals
  (same thread, same process, other process) and two waiters behind one owner; all
  reachable states are explored without a bound. `hosts` needs a second thread in
  each process.
* Boundary. Calls of hosts only meet through the tables, so one call against all
  changes of its surroundings shows what a gate can miss; two tasks can disagree,
  two generations can be mixed up, two incarnations can inherit. There is one
  operator: a second makes the run too large (over 6 million states), and what two
  of them race for is decided by a unique index in one transaction. The theorems
  hold for any number of hosts and operators.
* Delegation. Calls are serialised by the container's lock. Two turns and two
  results for one of them give every rivalry; the theorems hold for any number.
* Continuity. Two attempts meet on an operation, two operations have an order.
  `MaxRevisions` is 6 so that every limit below and above it is reached. The
  idempotency window is 5 with a margin of 2, a lease and a timeout of 1: a lease
  runs out while the window still allows another execution. `HostDelay` and
  `MaxBack` use up the margin together. `MaxTime` 7 passes the end of the window.
  With `MaxIdle` 0, time passes before the first dispatch only as far as a clock set
  back needs: until then nothing but the clock's own high mark is compared with an
  earlier instant, so waiting longer only shifts what follows.
* Keys. `MaxKeys` 3 allows a rotation after an interrupted one; one request at a
  time, since two are refuted by `stalekey`. One run and one workflow name every
  kind of partition.

Symmetry is used for clients, tasks and attempts where they are interchangeable,
and in no liveness run.

### Fairness

`FairSpec` assumes weak fairness of each maintenance thread only: `_run` loops for
the life of the service and swallows errors (`maintenance.py`). Clients may stop
anywhere.

## 5. Proofs

`TaskStateServiceProofs` proves, for all sets of callers, tasks, proposals,
targets and snapshots, all ages and any policy:

* `TypeCorrect`: `Spec => []TypeOK`. Besides the shape of the tables, `TypeOK`
  says what each call in flight holds at each of its steps, and that neither a
  stored pause nor a pause a call has read began after the instant the call
  will write, which is why accumulated pauses never become negative.
* `HeadsAreStored`: `Spec => []HeadRevisionStored`. The row names a stored
  revision, and revisions 1 to the head form a chain of parents, even when an
  id is reused under calls in flight.

The inductive invariant is `Inv == TypeOK /\ HeadRevisionStored`: reading a view
needs the head to be stored (the view is then a revision), and keeping the chain
needs the type of what a call holds. The argument for the chain is that an
insert is only made one above the head a call read, and only with the
compare-and-set against the stored head: the one new link ends at the head, and
an insert that loses the compare lies above the head, where the chain does not
look. One lemma per action, one step per conjunct that the action touches.
Assumptions used: `ConstantsAssumption`, `NoneAssumption`, `PolicyAssumption`, all
evaluated by TLC on every run.

`TaskPolicyProofs` proves, for any profile, limits and deltas of any length, that
every reachable snapshot is `Good` (`PolicyInvariant`: it has its fields, finitely
many items, and can be read) and has the structure of every locked one before it,
and from it `PolicyReadable`, `PolicyAcyclic`, `PolicyLockFreezes` and
`PolicySkips`. A delta is a recursion over its operations, so the properties are
first proved of one operation that was neither refused nor raised
(`OperationApplied`) as a relation between two snapshots (`Effect`: good stays
good, acyclic stays acyclic, a locked schema keeps its structure, an unprivileged
operation skips no required item), which is transitive (`EffectTransitive`), and
then of the first n operations by `InductiveSet`. That a new item closes no circle
is the argument that any set of items that contains it either has a member besides
it that waits on nothing in the set, or is the new item alone, which waits only on
older ones (`NewItemAcyclic`). `PolicyAcyclic` assumes that the items a task
starts with are acyclic, because `start` checks only that dependencies are known:
a caller can start a task whose required items wait on each other.
`PolicyMeetsService` closes the gap between the two models: what
`TaskStateService` assumes of its policy is proved of `Decide`. Assumption used:
`PolicyAssumption` (the start snapshot can be built, deltas are sequences of
well-formed operations).

`ProcessFileLockProofs` proves, for any finite set of lock objects and any
processes, threads and files, with processes dying at any step:

* `LocksInvariant`: the inductive invariant `Inv`, of which the following are
  consequences (`LocksTyped` is its type part).
* `Exclusion`: `Spec => []ExclusiveIsAlone`.
* `TableIsRight`: `Spec => []TableMatchesSystem`.
* `WakeupsArrive`: `Spec => []NoLostWakeup`.
* `NoDeadlock`: `OneWaitedFile` implies `Spec => []NoCircularWait`.

Exclusion is not inductive: two holders of one path are compared through what the
operating system granted. `Inv` adds that a call has its lock object to itself,
that a thread locking a file has the guard and finds no entry in the table
(`CallsOK`), that a held object agrees with its entry in mode and owner
(`HoldersOK`), and that an exclusive grant is the only one of its file
(`SystemOK`). Then two holders have entries, the entries are grants, an exclusive
grant equals every other, so both are of one process and share one entry, whose
owner is both their threads. Counting references needs the cardinality of the
set of holders, which grows or shrinks by one object (`HoldingAdd`,
`HoldingRemove`). Assumption used: `LocksAssumption`.
`NoDeadlock` has the hypothesis that callers wait for one file only (a constant of
the model: which lock objects wait), which the run `locks` meets and `hosts` does not.
`WaitsOK` adds to `Inv` that the guard is kept across steps only by a thread in
`flock`, that lock objects are held by threads of their own process, and that only
callers of waiting locks wait. Then whoever waits for a file waits for its holders
(`WaitsForHolders`), a holder can only wait for its process's guard, and the thread
that has that guard waits for nobody, since its process already has the one file
that is waited for (`GuardOfHolder`); so no set of threads waits within itself.

`HostBoundaryProofs` proves, for any tasks, sessions, hosts and operators:
`TypeCorrect`, `AuthorityHolds` (`AuthorityDuringCall`) and `NoInheritance`
(`NoInheritedRows`, about deliveries and the bindings registered while their task was
there). The inductive
invariant `IInv` adds `GateInv`: a call past the setting gate that is not a
rehearsal has seen an active scope, and a call past the binding gate has seen the
binding it resolved. A gate reads the state it is in, and what a call has seen
includes every state since it began, so passing a gate puts its fact into the
history (`WatchGrows`), where nothing removes it before the call returns.
Assumption used: `BoundaryAssumption`.

`DelegatedContextProofs` proves, for any turns, results and nonces: `TypeCorrect`,
`OneAuthorityHolds`, `AnsweredRecorded`, `NonceOnce` and the action property
`SettledOnce`. `OneAuthority` is not inductive: two answers are compared through
the image on disk. `IInv` says that both images are coherent and the one in memory
never takes back what is on disk (`ImageInv`), that every answer told is backed by
the disk (`SaidInv`), and that the answer a call is about to give is backed by
memory (`CallInv`), which `Close` writes before it answers. Every commit, persisted
or not, only adds to an image (`Keeps`), so what backs an answer stays, and two
backed answers of a turn are the same. Assumption used: `DelegatedAssumption`.

`TaskHistoryProofs` proves, for task ids that were never forgotten (the properties
say `Intact`; what a reborn id loses is shown by the run `reborn`) and however
many callers race: `HistoriesAreLinear`, `ViewsHold`, `RowsAgree`,
`ExpiriesAreDue`, and the action properties `TerminalForGood`, `HistoryOnlyGrows`,
`RefusalsAreHarmless`. None of the invariants is inductive, because a call writes
from what it read before. `HInv` adds to `Inv` that an absent task has no rows
(`Unborn`), that each history is linear, its row a cache of it and its expiries
due (`Histories`), and what a call in flight knows at each of its steps
(`CallsKnow`): its view is a revision of the history, the row it read is the
current one or has an older head, and the instants it will write lie between that
read and now. The argument is one lemma: an insert that the indexes let through is
one above the head, so the view it was computed from is the current one
(`InsertIsCurrent`). Every write is then a `Move` (one more revision, with the row
that goes with it), and `Move` keeps a history; a call that lost a race cannot
insert. `NextEffects` says for each task what any step may do to it (nothing, a
move, deletion, birth), and the action properties read off it.
`RefusalsAreHarmless` is about whole calls, which are several steps: `NextAnswers`
says that a task changes only in a step that answers success about it, in an
expiry, or in one that takes its caller into `Committed`, from where a call only
ever answers success, dies or finds the task forgotten. `ExpiriesAreDue` needs
that ages are measured from instants no earlier than the start (`AgeDue`,
`DueIsAged`); it bounds the age of the task for both rules, and does not say that
no progress came between the verdict and the write. `NoneAssumption` also says
that no submission has the null identifier, which `steps` uses for steps without a
proposal.

The same module proves the refinement, `ServiceImplementsLedger`:
`Spec => TasksAreAtomic`. Initial states map to initial states; for a step,
`LedgerWrite` shows that a transaction about one task changes one entry, and
`InsertIsCurrent` that what a call computed from its read it computed from the entry
it replaces, so an accepted delta is `Accept`, a lifecycle change or an expiry is
`Move`, the first start of an id is `Start` and its first deletion is `Forget`; reads,
refusals, crashes, time and whatever happens to a reused id are stuttering steps.
`TaskLedger` takes any policy, as the service does.

It also proves `DecisionsAccounted`: `Accounts` ties the proposals of a task, its
steps and its head together, each proposal told by one step, each revision made by
one accepted step; cardinalities are those of explicit singletons. `PausesAgree`
is about a fold over the revisions. The library's induction rules take operators
and cannot be used here, but its theorem that the numbers are well founded can:
`InductiveSet` derives induction for sets from it, `FoldIsUnique` and
`FoldExtends` follow, and the invariant says that the fold of a history ends in
the row's accumulator and open pause. The audit folds a prefix of at most
`RebuildLimit` revisions, which is the whole fold for a short history
(`FoldPrefix`) and never more than it (`FoldGrows`).

`ContinuityProofs` proves, for any numbers of operations and hosts and any limits:
`TypeCorrect`, `AtMostOnce`, `ResultsHold`, `OrderHolds`, `RoomHolds` and the action
property `SettledForGood`. At most one effect is a fact about pairs of executions:
`ExecutionsOK` says that any two executions of an operation are compatible (the
later ends before the destination forgets the key of the earlier; without
idempotency there is only one), which is kept when the workflow is deleted and its
key is used again. A grant is compatible with all earlier ones because it is
compared with the first attempt (`GrantsOK`), which the revision records and time
only moves away from; the comparison is made with a clock that lags, which is where
`HostDelay + MaxBack <= Margin` is used. `RoomHolds` is a count: `BudgetOK` weighs the
revision against the operations without an end, the lease that is out and the stop
that may come. Assumption used: `ContinuityAssumption`.

`EvidenceKeysProofs` proves `TypeCorrect` for requests that overlap in any way,
and `EvidenceIsRecoverable`, `ControlIsRecoverable`, `OpenServicesRead` and
`OldKeysRetire` for any number of requests and keys, of every behaviour that
satisfies `[]Alone`: while a request is in a phase that changes keys (recovery in
the constructor, and what is done under the key transition lock) no other is under
way. Requests that only use the vault overlap as they like. The code does not
ensure `Alone`, since such requests do not take the lock, and `stalekey` shows
what then happens: the theorems say that in the model this overlap is the only way
to lose the vault's key. The hypothesis is met by every behaviour with one
request, those of the run `evidence`. The invariant `IInv` says what the files can
look like between any two file operations (`Files`: without a journal, or with a
torn one, one key opens all; with a written one the vault is under the old or the
new key as a whole, and the key file names the old one until everything is under
the new one), that keys are new when they are made (`Fresh`), and what a request
relies on phase by phase (`Relies`), in particular that the slots `rotate_key`
read are still all there is when it commits. Deletion is a recursive function over
the slots; `WithoutSubset` is proved by the induction described above. Assumption
used: `EvidenceAssumption`.

Only model-checked: liveness (`DueTaskExpires`), which is out of the prover's
reach, and the three runs that show a violation. Every invariant and action
property of the passing runs is the conclusion of a theorem; `NoCircularWait`,
`DependenciesAcyclic` and the four recoverability properties of `EvidenceKeys`
under the hypothesis named above.

## 6. Not modelled

`components` in `PROJECT.json` lists every part with the reason. In short:

* Extraction, retrieval scoring, context packing, graph and code indexing, media
  and interchange are heuristics and conversions over text: what they compute is
  a matter of quality, not of the order of events.
* The command line, servers, MCP, installers, host adapters and the TypeScript
  packages parse, render and forward; the state changes they ask for are those of
  the services, and where they add a step of their own (`atmem task bind`, the
  expected revision) it is in the service's module.
* The action guard is a pure decision; black box and identity write rows of their
  own in one transaction.
* Left for later: activation and restoration of host configuration, incremental
  verification of the audit chain, semantic index epochs, memory versions, home
  migration (section 3).
