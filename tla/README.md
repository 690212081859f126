# A TLA+ model of langgraph-ledger

langgraph-ledger records what a LangGraph run does in append-only, hash-chained
JSONL logs, one per thread, verifies them later, and repairs them after a crash.
This directory holds TLA+ modules of its core, TLC runs that check them on small
instances, and theorems that TLAPS checks for every instance.

    tlc -config recorder.cfg MCRecorder      one run of the table below
    tlapm RecorderProofs.tla                 one of the proof modules

Paths below are relative to `src/src/langgraph_ledger/`.

## 1. The system

| component | state | operations | used by |
|---|---|---|---|
| `hashing.py` | none | `event_id` (SHA-256 or HMAC over v, seq, ts, kind, payload, prev), labels | recorder, verify, checkpointer, callbacks |
| `recorder.py` | one file per thread; per path: `_next_seq`, `_prev`, `dropped`, a lock; the cache `_RECORDERS` | `__init__`/`_resume` (truncate a torn tail, quarantine), `append`, `emit` (fail-soft or strict), `read_log`, `recorder_for`, `bind_recorder` | everything |
| `verify.py` | none | `verify_log`, `chain_head`, `verify_thread` (log against saver) | CLI, users |
| `repair.py` | none; appends to logs | `find_orphaned_runs`, `close_orphaned_run`, `repair_all` | CLI, users |
| `callbacks.py` | open runs, nodes, LLM and tool calls by run id | `on_*_start/end/error`, each an `emit` | LangChain, from several threads |
| `checkpointer.py` | the wrapped saver | `put`, `put_writes`, async forms, strictness | LangGraph |
| `rollback.py` | copies checkpoints between threads of a saver | `fork_thread`, `time_travel_config` | users |
| `replay.py`, `dag.py`, `analysis.py` | none | fold a log into messages, a graph, a summary | CLI |
| `events.py` | none | vocabulary, payload builders | all producers |
| `cli.py`, `__main__.py`, `__init__.py` | none | arguments, printing | |

How they interact: callbacks and checkpointer are *producers*. They call `emit`
on one recorder per log, from as many threads as LangGraph runs nodes in. The
recorder serialises them with a lock per path and writes one line per event. The
log outlives the process: the next one *resumes* from what it finds. `verify`,
`replay`, `dag` and `analysis` are *readers*. `repair` is both: it reads every
log of a root and appends `run/end {interrupted}` to those whose last run is
open.

What is hard, and what makes each part correct:

* **recorder**: threads interleave inside `append`; the process may die before,
  inside or after a write; a write may raise; the next process has to find the
  place to go on. Correct if no acknowledged event is lost or moved, no position
  is used twice, the log of a live process verifies, and a torn tail is cut
  without cutting an event.
* **verify**: any sequence of edits must be reported, blame must not fall before
  the edit, an untouched log must pass, a wrong key must fail.
* **repair**: runs once or often, beside crashes, in a process that may already
  have the log open. Correct if it closes exactly the runs that died, keeps the
  chain, changes nothing that was recorded.
* **checkpointer**: to its callers it is the saver it wraps; the recorded digest
  is that of the stored checkpoint; a strict recorder stops the run, a fail-soft
  one never does. Between the put, the re-read and the append of one call others
  act, checkpoints are deleted, and everything may raise.
* **verify_thread**: reports exactly the checkpoints that are no longer what was
  recorded.
* **callbacks**: results find their calls, and steps their run, whatever the
  interleaving; the brackets of a run tell whether it died.
* **replay, dag, analysis**: for every log a run can leave, also one with holes,
  the one-pass algorithms compute what their definitions say.
* **fork**: the copy is the lineage that was forked, and a copy that broke off is
  still a thread one can go on from.

`PROJECT.json` lists the places where each of these can go wrong, with the
property that watches it or the reason why none does.

## 2. Modules

| module | models | with |
|---|---|---|
| `Chain` | envelopes, ids, `event_id`, what `verify_log` expects of one line, the readable prefix `_resume` looks for | pure operators |
| `AuditLog` | what the recorder promises its callers | abstract specification |
| `Recorder` | `recorder.py`: one recorder per path, several threads, a process that dies | implements `AuditLog` |
| `Verify` | `verify.py`: `verify_log` and `chain_head` on an edited file | extends `Chain` |
| `Repair` | `repair.py` over a root with several logs, with `recorder_for`'s cache and an application that starts, continues and ends runs | extends `Chain` |
| `Saver` | a LangGraph checkpointer as its callers see it | abstract specification |
| `Checkpointer` | `checkpointer.py`: the tracing saver and its application; `verify_thread` | instantiates `Saver` |
| `Fork` | `rollback.py`: `fork_thread` through the tracing saver, beside the application | extends `Checkpointer`, implements `Saver` |
| `Timeline` | `dag.py`, `replay.py`, `analysis.py` as folds over a log | pure operators |
| `Callbacks` | `callbacks.py`: the handler under overlapping LangChain runs, and the log it writes | extends `Timeline` |
| `MCRecorder`, `MCVerify`, `MCRepair`, `MCFork`, `MCCallbacks` | instances for TLC (symmetry, setups, plans) | |
| `ChainProofs`, `RecorderProofs`, `VerifyProofs`, `RepairProofs` | lemmas about the chain; theorems about the recorder, the verifier and the repair | TLAPS |
| `ForkProofs`, `LedgerProofs` | theorems about the tracing saver and the fork: types and refinement; what is put, recorded and copied | TLAPS |
| `TimelineProofs` | lemmas about the folds of `Timeline`, for every log | TLAPS |
| `CallbacksProofs` | theorems about the handler and its log: dictionaries, brackets, steps; what is computed from the log | TLAPS |

### Chain: ids as histories

An id is a hash over the event and the previous id. Assuming no collisions, two
ids are equal exactly if everything hashed into them is. `Chain` therefore
represents an id *by* its history: the sequence of links (position, content,
key) from genesis on. `event_id` appends a link to the previous id. A key is
part of the link, because an HMAC under another key is another id; one of the
`Keys` stands for "no key". A *content* stands for version, time, kind and
payload. A line that `json.loads` rejects is the value `Torn`.

### Recorder

`lines`, `nl` and `quarantined` are the disk. `nl` says whether the last line is
terminated; bytes written behind an unterminated line are glued to it (`put`).
`next_seq`, `prev`, `holder` (the path lock), `pc`/`envelope` (where each thread
is in `append`, and its local) and `dropped` are memory, lost in a `Crash`.
`acked`, `crashes`, `damaged` and `faulted` are history variables. The lock is
the variable `holder`: a thread enters `append` (`Begin`) when it is free.

| action | code |
|---|---|
| `Resume` | `__init__` and `_resume`: read to the first line that does not parse, adopt its predecessor's seq and id, then leave the file, truncate it, or quarantine it |
| `ResumeFault` | the `OSError` branch: what was read so far is adopted, the file is left |
| `Begin` | `append` takes the lock and builds the envelope |
| `Write` | open, write, flush |
| `Commit` | `_prev`, `_next_seq`, lock released, the caller gets its envelope |
| `Reject`, `Fail` | `append` raises before, or in, the write; `emit` counts it or (strict) raises |
| `Crash` | the process dies; a write in flight leaves one of `CrashTears` |
| `DamageLine` | a line in the middle is damaged while no process runs |

The environment is a parameter. `CrashTears` and `FailTears` are subsets of
`{"none", "part", "bare", "full"}`: nothing, a fragment, the whole text without
its newline, all of it. `HealthyTears` (crashes leave nothing or a fragment,
failed writes leave nothing) is the environment in which the recorder keeps its
promises. Outside of it, it does not: `bare_tail` shows what a crash can do to
it. A write that raises half-way does the same, as the code does not undo it.

`AuditLog` has two actions: `Record` appends a content, `Acknowledge` marks the
newest one. The refinement mapping reads the record off the file (the contents
of the readable lines) and the acknowledgements off `acked`. `Write` is a
`Record`, `Commit` an `Acknowledge`, and everything else stutters: a resume may
cut the file, but never the record. `RefinesAuditLog` asks this of every step up
to which no line was damaged and every resume could read the log (`Unharmed`).

### Verify

A log is recorded under `write_key`, edited up to `MaxEdits` times, and
`verify_log` runs over the result with `hmac_key`: `Read`, then one `CheckLine`
per line with the code's five locals, then `Conclude`. Edits remove, swap,
double, tear or modify lines, modify one and hash it again, or replace
everything behind some line with a chain of its own. Hashing needs a key out of
`EditKeys`. The anchored head of `chain_head` is that of the log as recorded.

### Repair

One step per call of the recorder: `Recorder` shows that an append is atomic to
an observer and what a crash can leave. The disk of a log is that of `Recorder`,
`nl` included, and `CrashTears` and `FailTears` have all four values here too.
`rec` is `recorder_for`'s cache, which decides what key an append uses and
whether the file is cleaned first (`opened`, `written`).

| action | code |
|---|---|
| `StartRun`, `StepRun`, `EndRun` | the application's events, by the handler |
| `LoseStart`, `LoseEvent` | an append of theirs raises and `emit` drops the event: a run without its start or its end on record |
| `Crash` | the process dies; of one append in flight, the application's or the repair's, one of `CrashTears` arrives |
| `Sweep`, `Scan`, `Scanned` | `find_orphaned_runs`, in the order of the glob; the quarantined file of a log is read together with it |
| `Check`, `Interrupt`, `InterruptRaises` | `close_orphaned_run`: the second read of the bracket, and the append that returns or raises |
| `Return` | `repair_all` returns |

`Sweep` has no condition on runs in progress, as `find_orphaned_runs` has none.
Whether somebody starts a sweep while a run is alive is a matter of the
operator, and so in `Next`, not in the action: `SweepAllowed` and
`RunsAllowed` keep the two apart unless `Concurrent` is `TRUE`. `died` are the
logs that a crash left open, a history variable. The lines to repair are those
of the file, so a run whose start was dropped is nothing to a repair, and one
whose end was dropped looks like one that died.

### Saver, Checkpointer, Fork

`Saver` is the contract of the wrapped saver: a call has its effect in one step
and answers in a later one; it may fail without an effect; threads may be
deleted and checkpoints may drift at any time. `failclosed` says whether a call
may be refused after its effect. Pending writes are keyed by task and position,
as in `InMemorySaver`: the positions a task has are an initial segment, so what a
call adds is the tail behind the writes that the task has already.

In `Checkpointer` a call of the tracing saver goes through `InnerPut` or
`InnerPutWrites` (the effect), `Reread` (puts only: the checkpoint as stored)
and `Trace` (digest, `emit`, answer). `async` tells `aput`, which looks for a
recorder after the re-read, from `put`, which looks before it. Everything that
can raise may: the saver (`InnerFail`), `get_tuple`, the constructor of the
recorder, the append. `handle` is the except clause with `_raise_if_strict`,
the second construction of the recorder included. `Wrappers` are the ways an
application can set up the wrapper: a bound recorder or none, enabled or not,
strict or not, and recorders it has opened before. `digest` takes a checkpoint
to the pair of its id and content, or to `NoDigest` when the serializer raises;
`Survives` maps the object handed to `put` to what is left of it in the store.

The refinement mapping is the identity on the store, the pending writes and the
answers; `failclosed` is "some recorder in use is strict". The run checks
`RefinesSaver == S!Spec`: whatever the tracing does, it changes no effect and no
order, and no answer unless a recorder is strict.

`Fork` adds one `fork_thread` at a time, from the latest checkpoint or one found
by its recorded label: `ForkRead` is one turn of the loop of `_ancestry`
(`ForkReadFail` if the saver raises in it),
`ForkPut` and `ForkWrite` are calls through the tracing saver, `ForkLog` is the
fork event. Deletions, drift and the application's own puts come in between.

### Timeline

`build_dag`, `replay_messages` and `analyze_log` are folds over the positions of
a log, with the dictionaries of the code as functions. The body of `analyze_log`
is three `if`/`elif` chains that see every event; they are three operators
(`call_chain`, `model_chain`, `node_chain`) and `tally` is one after the other.
Below them stand
definitions that look at the log as a whole: `relations` (which edges two events
call for), `repeats` (a block of repeated calls), `unanswered` (the calls whose
result is not on record).

### Callbacks

A *plan* is a set of LangChain runs: graph runs, nodes, inner chains, model and
tool calls, with their parents, the node in their metadata, and the label of a
tool call. When they start and end is open, except that a run starts while its
parent is open, ends after its children, and a run that comes `after` another
one waits for it. The state is the handler's five tables and the log.

| action | code |
|---|---|
| `on_chain_start` | opens a run bracket, a node, or nothing |
| `on_chain_end` | `on_chain_end` and `on_chain_error`: `close_run`, `close_node` or nothing |
| `count_step` | the loop at the end of `_close_node`, a step of its own: other threads act between it and `emit`. A thread that opens or closes another graph run under the loop makes it raise, so any runs but the first may miss their step |
| `on_llm_start`, `on_llm_end`, `on_tool_start`, `on_tool_end` | the handlers of that name and their `_error` twins (`ok = FALSE`) |
| `Snapshot`, `Writes` | the checkpointer's events in the same log |
| `Crash`, `Restart`, `Repair` | the process dies, a new one with a fresh handler starts, `close_orphaned_run` runs in between |

Every `emit` may lose its event. A fail-soft recorder then goes on; a strict one
raises, and the rest of the handler is skipped. LangChain swallows what a
handler raises (the repository's README warns of it), so the run goes on either
way.

## 3. Runs

| run | instance | shows |
|---|---|---|
| `recorder` | 2 threads, 2 contents, 3 lines, 2 crashes, 1 dropped event; torn tails, read faults and damage allowed | `LiveLogVerifies`, `OnlyTailTorn`, `AckedDurable`, `QuarantineHoldsNoEvent`, `HeadMatchesFile`, `RefinesAuditLog`, `AppendEnds` |
| `verify` | 3 events, 2 edits, keyed and keyless | `EditDetected`, `KeyedLogOnlyTruncated`, `NoFalseAlarm`, `WrongKeyFails`, `BlameNotEarlier` |
| `repair` | 2 logs, 3 events each and the ends of their runs, 2 crashes, 2 sweeps, keyless application, torn tails, failed writes that leave nothing | `RepairKeepsChain`, `InterruptedClosesARun`, `SweepClosesAll`, `DiedStaysOpen` |
| `checkpointer` | 2 threads, 2 namespaces, 2 checkpoint ids, 7 setups of the wrapper, 1 trouble (a failure, a deletion or a drift) | `RefinesSaver`, `StrictRecordsAll`, `VerifyExact`, `ForkFaithful`, `ParentClosed`, `ForkEnds` |
| `callbacks` | 6 plans of up to 5 runs, up to 3 snapshots, 2 troubles (a lost event, an error, a crash) | `PairedByRun`, `HandlerForgets`, `StepsCountNodes`, `BracketsTellCrash`, `CallEdgesTrue`, `DagMatches`, `ReplayHonest`, `StreaksExact`, `FailuresReported` |
| `bare_tail` | a crash may leave a line without its newline | **violates** `AckedDurable` |
| `damage_hidden` | a line in the middle may be damaged | **violates** `DamageStaysVisible` |
| `repair_keyed` | the application keys its logs | **violates** `RepairKeepsChain` |
| `repair_torn` | a crash may tear a line | **violates** `SweepHeals` |
| `fork_writes` | the instance of `checkpointer` | **violates** `PendingWritesCopied` |
| `soft_raises` | the recorder cannot be constructed, twice | **violates** `SoftNeverRaises` |
| `replay_drops` | the plans of `callbacks`, 1 trouble | **violates** `UnfinishedSurface` |

Bounds. Two threads are enough to interleave inside `append`; a third waits for
the same lock. Two crashes let a process die in the log a dead process left
torn. Three lines leave room for acknowledged events on both sides of a crash,
and for a line in the middle to damage. Two edits combine any two kinds, for
instance cutting a line and chaining the rest again; three events have a first,
a middle and a last line. Two logs let one log of a root disturb the repair of
the other; two sweeps try idempotence. Two checkpoint ids make a chain with a
parent and a child, which is what a fork can get wrong; one trouble at a time
shows what each does alone, at any moment of a call or of a fork. In the model
of the handler two troubles combine a lost event with a crash; the plans are
chosen so that each overlap the code can meet is in one: two nodes with the same
tool call, two different tool calls of one node, two graph runs, a model call
and a subgraph inside a node, a streak of calls cut by a checkpoint, checkpoints
behind one another. `CHECK_DEADLOCK FALSE` is set because
every bounded instance stops at its bounds.

Two threads (and two contents) are interchangeable, hence the symmetry of
`bare_tail` and `damage_hidden`. `recorder`, which checks liveness, does not use it.

Fairness. `FairSpec` has weak fairness on the steps of each thread between
taking the lock and leaving it (`Write`, `Fail`, `Commit` together). Nothing in
that part of `append` waits for another thread, so an OS that schedules every
thread gives it. No fairness is assumed for taking the lock, for crashes, or
for a restart; `AppendEnds` holds also because a crash ends the call. A thread
that waits for the lock is idle in the model, so `AppendEnds` says of the lock
itself that it comes free: an `append` that raised and kept it violates that.
`Fork!FairSpec` has weak fairness on the body of `fork_thread` and on the calls
it makes: one synchronous function that waits for nobody. The application need
not make any progress.

### What the violations show

* `bare_tail`: `_resume` accepts a last line without newline and `append`
  continues right behind it. Both events become one unreadable line, although
  the second one's `append` returned.
* `damage_hidden`: `_resume` truncates at the first unreadable line, wherever it
  is. In the run the second of three lines is damaged (a damaged first line is
  another matter: it makes the file a quarantined one, which
  `DamageStaysVisible` leaves out). A log that `verify_log` rejected is accepted
  after the next start of the application, without the events behind the damage.
  The changelog says that tolerance is tail-only.
* `repair_keyed`: `close_orphaned_run` has no key. A keyed log that another
  process repairs fails verification from then on.
* `repair_torn`: `find_orphaned_runs` raises on the torn line, or the
  quarantined file, that the crash itself left, before anything is closed, also
  in other logs. Starting the application first cuts the torn line and lets the
  sweep pass; a quarantined file has to be moved away by hand.
* `fork_writes`: two pending writes of one task are copied by a `put_writes` each,
  both at position 0 of their call. A saver that keys writes by task and position,
  as `InMemorySaver` does, takes the second for a repetition of the first.
* `soft_raises`: `_raise_if_strict` asks for the recorder again, outside of any
  `try`. If constructing it failed the first time it fails again, and a put that
  nobody wanted strict raises after its effect.
* `replay_drops`: the replay knows open calls by their label, and two calls with
  the same input share it. Two parallel calls and one result leave none open;
  the call that died with the process is not surfaced. (`replay_messages` on
  these three events, run by hand, gives the same.)

### What the passing properties leave out on purpose

Each of these is a condition in a property and a line in `PROJECT.json`:

* `StrictRecordsAll` and `VerifyExact` say nothing of a put whose checkpoint was
  deleted or replaced before it was read again: then it is not recorded, or as
  what it became.
* `VerifyExact` holds for logs of one thread and its top-level graph. A snapshot
  event has no namespace, so `verify_thread` reports every checkpoint of a
  subgraph as missing; a bound recorder mixes threads in one log.
* `ForkFaithful` is what does hold of the pending writes (`fork_writes` shows what
  does not): the first write of every task is copied. For the same reason the
  application must not write to the new thread's pending writes while they are
  copied: `AppThreads` leaves the new thread out in the run, `ChildLeftAlone` is
  the hypothesis of the theorem. The original may change while it is copied, and
  the copy is of the checkpoints that did not. That includes the parents they
  name (`lineage`): a copy whose new thread is deleted under way goes on, and the
  checkpoint it puts next names a parent that is gone, so that a later fork of it
  begins there.
* The properties of the recorder are those of a recorder whose failed writes leave
  nothing. `append` has no rollback: what a write that raised leaves of its line
  is glued to the next event. They also leave out a resume that could not read the
  log (`faulted`): `_resume` warns and goes on from where it stood, so the next
  append may be a second genesis.
* `RepairKeepsChain`, `InterruptedClosesARun`, `SweepClosesAll` and
  `DiedStaysOpen` are checked for roots that are swept while no run is alive, and
  for crashes that leave no whole line without its newline. Beside a live run,
  `repair_all` closes that run, which it cannot tell from one that died
  (`repair.py:5-6`). Where a crash left such a line, the log parses, its run is
  found open, and the `run/end` of the repair is glued to the last event: what
  `bare_tail` shows of an append of the application. "Pre-crash events are never
  touched" (`repair.py:15`) does not hold then, and no run claims it.
* `StepsCountNodes` and `BracketsTellCrash` hold for graph runs that do not
  overlap on one handler; `BracketsTellCrash` for logs that lost no bracket.
* `CallEdgesTrue` excludes a result whose call was lost: the DAG then falls back
  on the first call of the same label.

## 4. Theorems

| theorem | states | under |
|---|---|---|
| `RecorderProofs!TypeCorrect` | `TypeOK` | - |
| `RecorderProofs!Inductive` | `IInv` | `HealthyTears` |
| `RecorderProofs!Durability` | `AckedDurable` | `HealthyTears` |
| `RecorderProofs!LiveIntegrity` | `LiveLogVerifies` | `HealthyTears` |
| `RecorderProofs!TornTailIsLast` | `OnlyTailTorn` | `HealthyTears` |
| `RecorderProofs!CachedHead` | `HeadMatchesFile` | `HealthyTears` |
| `RecorderProofs!Quarantine` | `QuarantineHoldsNoEvent` | `HealthyTears` |
| `RecorderProofs!Refinement` | `RefinesAuditLog` | `HealthyTears` |
| `VerifyProofs!TypeCorrect` | `TypeOK` | - |
| `VerifyProofs!AnchoredEdits` | `EditDetected` | - |
| `VerifyProofs!KeyMismatch` | `WrongKeyFails` | - |
| `VerifyProofs!KeyedEdits` | `KeyedLogOnlyTruncated` | - |
| `VerifyProofs!BlameIsDeserved` | `BlameNotEarlier` | - |
| `VerifyProofs!UntouchedVerifies` | `NoFalseAlarm` | - |
| `RepairProofs!TypeCorrect` | `TypeOK` | - |
| `RepairProofs!ChainKept` | `RepairKeepsChain` | `SameKey`, `HealthyTears` |
| `RepairProofs!DiedStays` | `DiedStaysOpen` | `HealthyTears` |
| `RepairProofs!SweepsClose` | `SweepClosesAll` | `HealthyTears` |
| `RepairProofs!Idempotent` | `InterruptedClosesARun` | `HealthyTears`, `Apart` |
| `ForkProofs!TypeCorrect` | `TypeOK` | - |
| `ForkProofs!Transparency` | `RefinesSaver` | `"handler" \notin ConstructorFaults` |
| `LedgerProofs!DriftCaught` | `VerifyExact` | - |
| `LedgerProofs!NoOrphans` | `ParentClosed` | - |
| `LedgerProofs!StrictIsComplete` | `StrictRecordsAll` | - |
| `LedgerProofs!ForkCopies` | `ForkFaithful` | `ChildLeftAlone` in every step |
| `CallbacksProofs!Pairing` | `PairedByRun` | - |
| `CallbacksProofs!Forgetting` | `HandlerForgets` | - |
| `CallbacksProofs!TypeCorrect` | `TypeOK` | - |
| `CallbacksProofs!Verdict` | `BracketsTellCrash` | - |
| `CallbacksProofs!Steps` | `StepsCountNodes` | `NodesInGraphs` |
| `CallbacksProofs!Reporting` | `FailuresReported` | - |
| `CallbacksProofs!LongestBlocks` | `StreaksExact` | - |
| `CallbacksProofs!DagExact` | `DagMatches` | - |
| `CallbacksProofs!CallEdges` | `CallEdgesTrue` | - |
| `CallbacksProofs!Surfaced` | `ReplayHonest` | - |

They hold for any set of threads, contents and keys, any length of log, any
number of crashes, sweeps and edits (the bounds are arbitrary naturals), any root,
any set of callers, checkpoints and recorders, and any plan of LangChain runs,
given the named assumptions of the modules on their constants. The assumptions
say that the values a variable uses for "none", for a torn line and for the kinds
of event differ, that saver ids are positive numbers and that what a saver has
stored it stores again unchanged, and that a plan has finitely many runs, whose
parents are runs of the plan.

| hypothesis | says | without it |
|---|---|---|
| `HealthyTears` | a crash leaves a fragment or nothing (in `RepairProofs` also a whole line with its newline), a failed write nothing | `bare_tail` |
| `SameKey` | the application uses no key, as the sweep | `repair_keyed` |
| `Apart` | `~Concurrent`: no application runs beside a sweep | a sweep closes a run that is going on |
| `ChildLeftAlone` | the application does not write to the thread that is being copied | its write takes the position of a copied one |
| `NodesInGraphs` | a node runs inside of a graph run | it counts for runs it does not belong to |

**Recorder.** None of the safety properties is inductive. That the next line
fits depends on the head in memory being the file's (`HeadMatchesFile`), which
depends on only the holder of the lock being inside `append`
(`LockDiscipline`), on the envelope it carries having been built from that same
head (`EnvelopeFits`), and on what a dead process left: a chain up to the first
unreadable line, and an unterminated line only as an unreadable last one
(`FileChained`). `IInv` is their conjunction. It is stated with "unless a resume
could not read the log" (`faulted`) and "unless a line was damaged" (`damaged`)
where the code gives no guarantee otherwise, so damage stays in scope of
`LiveIntegrity`: a damaged log is cut back to a chain. The proof has one lemma
per action. `HealthyTears` is used twice: in a crash (`CrashStep`), and for a
failed write (`FailStep`). `Quarantine` follows from the form of the file in the
step that moves it aside: a chain, and an unreadable line only at the end.

**Verify.** A single comparison says little: a line may agree with a
predecessor that is itself forged. So `LoopChained` says of the whole prefix the
loop has read that, as long as nothing was reported, every id *is* the history
of the lines before it, and the locals are those of the last line. Equal ids
then mean equal prefixes (`EqualIds`), which gives `AnchoredEdits` and
`KeyMismatch` at once. `KeyedEdits` needs one more invariant, `NoForgery`: an
edit leaves ids that were in the file or ids under keys of the editor, so an id
under the recorder's key is one that it wrote.
The other direction, that nothing is reported without cause, needs the loop the
other way round: as long as the lines read are the recorded ones, its locals are
those that the next recorded line calls for (`BlameIsDeserved`), and the bracket
it found open is open (`UntouchedVerifies`).

**Repair.** `Whole` is the disk: a log with a cached recorder parses, and only a
torn line is without its newline. `HealthyWrite` derives from it what `written`
does, whatever part of the line arrives: the readable lines stay and at most one
is put behind them. It is the one place where `HealthyTears` is needed, and
without it false. The chain needs `Chained`: every log is linked
up to its first unreadable line, and a cached recorder stands behind the last
one. A run that died is open on record (`DiedOpen`), because nothing but a
bracket closes it, and it is on the list of a sweep that has read its log
(`Listed`). These two hold beside an application as well, so `DiedStays` and
`SweepsClose` do not ask that the root is idle. `Idempotent` does: `RunInv` says
that what a sweep has read in `Check` is still so in `Interrupt`, which a run
that ends in between would make false.

**Checkpointer and Fork.** `TypeOK` needs `Progress`, which says of `fork_thread`
what its code takes for granted: while it reads the ancestry there is a
checkpoint to read, and while it copies it neither runs past the lineage nor past
the writes of a checkpoint. `IInv` is both; one lemma per action. `Transparency`
maps every step: the inner calls and the drift and deletions are `Saver`'s own
actions, a re-read and a fork's read stutter, and the answer of a traced call is
an `Answer` of the saver, refused only if `failclosed` (`HandleRefines`,
`LeaveRefines`). The one subtle point is that `failclosed` is a function of the
recorders in use and must not change under the saver's feet: a recorder made on
the way never changes whether one is strict. The assumption excludes exactly what
`soft_raises` shows.

**What is put, recorded and copied** (`LedgerProofs`). All four properties rest on
one fact: at most one checkpoint is ever put at a place, a thread and an id
(`Places`). The application's ids are new; a fork puts ascending ids into a
thread that nobody used (`Lineage`, with the fact that a parent has the smaller
id). So what is stored at a place is what was put there, or the place is in
`changed`; a snapshot on record is of that put; and what a put has in hand between
its effect and its record is in the store or in `raced`. `DriftCaught` follows.
`NoOrphans` needs only the parent of the copy under way (`LastCopied`).
`StrictIsComplete` needs that a recorder, once made for a thread, stays, and that
logs grow. `ForkCopies` follows the lineage through both loops. What was read is
a chain of parent links, each still as it was read or noted in `changed`
(`ReadSoFar`); what was copied is the same with the first write of each task
(`CopiedSoFar`); and no step changes either without a note (`Steady`). The last
copy holds only writes of tasks that were copied, so the first write of the next
task finds none of its own and gets position 1. That is where an application
write would come in between.

**Callbacks.** None of the properties is inductive. What a result says of its call
comes out of a dictionary, so `Known` says that the dictionaries hold what their
runs were started with; and that an entry is found and removed depends on the
dictionaries, the set of start times and the state of each run agreeing (`Kept`),
also where a strict recorder left a handler half way. For the brackets, `Verdict`
relates a graph run's state to the last bracket on record: a run under way has
its start behind every end, unless an event was lost. `Steps` is a count:
the counter of a run equals the `node/end`s on record or lost that belong to it,
minus those whose `count_step` is still to come. Which graph run a node belongs
to is a walk up the plan; the proof describes it as the set of runs on a
parent line, for which no induction over the plan is needed.

**Timeline.** The report, the DAG and the replay are folds over a log, and what a
fold computes is an induction over the log. The provers cannot instantiate the
library's induction rules, but a loop invariant fixes a *set* of positions, and
that a set of positions up to `n` that has 0 and with every position the next one
is `0..n` follows from the well-foundedness of `<` (`UpTo`). With it `FoldExists`
constructs the function that the fold's recursion chooses, and `FoldSteps` turns a
fold into the sequence of values of its accumulator, one step per event, which is
the loop of the code. Each algorithm then has its loop invariant:

* report: each of the three chains adds at most its own part (`CallChain`,
  `ModelChain`, `NodeChain`), so a pass lists every failed event once and in order
  and counts every model call and node (`ReportLists`). That these events are the
  failed *runs* is a matter of the handler: `FInv` says that the end of a run on
  record tells whether it failed, that a failed run has its end on record or lost,
  and none twice. The two make `Reporting`. For the streaks, `Tallied`
  says that `streak` is the longest block that ends with the last call, `streaks`
  are the other longest blocks, and `prev_call_label` is the last call's label
  unless a snapshot followed. A call of that label makes the block longer, or
  begins one (`TallyRepeats`), any other ends it (`TallyEnds`). `StreaksExactOn`.
* DAG: `Indices` says what the dictionaries hold (the call of every run, the first
  call of every label, the last snapshot of every checkpoint), `Matches` that the
  edges into the events so far are those of the definition. That a stronger edge
  replaces a weaker one whatever came first is `DrawnEdges`. `DagMatchesOn`.
* replay: `pending_calls` are the labels of the calls that no result of their
  label follows, and no message says "interrupted" before the end
  (`InterruptedOn`).

The report, the streaks and the replay are as claimed for *every* sequence of
events; the DAG for every log in which no run has two calls (`OneCall`), because
`call_by_run` keeps the last call of a run and the definition has all. That the
handler writes such logs only is a part of `RInv`, with what else
`CallEdges` and `Surfaced` need to know of the record: a call carries the label
of its run, and a result on record stands behind its call, unless that was lost.

What stays with TLC: the liveness of `AppendEnds` and `ForkEnds`, liveness under
fairness being out of TLAPS's reach. Every invariant that a passing run checks is
stated by a theorem, under the hypothesis the table names.

## 5. What the models leave out

* Hash collisions, the bytes of canonical JSON, the clock. A payload with
  integer keys or values that JSON changes on the way through the file is a
  question about `canonical_json` that these models do not ask.
* Loss of power. `append` flushes to the operating system and does not `fsync`;
  the crashes here are of the process.
* Two recorders of one path (two processes, or a `TraceRecorder` made directly):
  the code rules them out by convention (`recorder.py:266`), and so do the models.
* Two quarantines within one second, which get one name.
* `dropped += 1` outside the lock: modelled as one step.
* `enabled=False` in `Recorder`: a recorder that does nothing. `Checkpointer` has
  disabled recorders.
* Texts, digests of texts, durations, model names, token counts (`digest_text`,
  `record_full`): the events of `Callbacks` have the fields that properties tell
  apart.
* `steps += 1` and the loop around it are one step, with what another thread can
  do to the loop as a choice in it. CPython switches threads between two turns of
  such a loop, not inside of `steps += 1`.
* More than one write in flight when a process dies: the logs of a root have a lock
  each, but of a crash in `Repair` one log at most keeps part of a line.
* A recorder whose construction raises in `Repair` (`Checkpointer` has it).
* A model call without a model name, a node without a name: the report counts
  neither.
* The exports of the DAG, the plain counts of the failure report, the command
  line: formatting, printing, arguments.
* The thread id is a model value: what `_safe_segment` does to it is not modelled.

## 6. Plan

Done: all modules above, their runs and the theorems of section 4; none of the
runs' invariants is left without one. What could be added:

* two recorders of one path, each with its own `next_seq` and `prev`
  (`recorder.py:266`), which the models rule out as the code's convention does;
* `Repair` as a composition of `Recorder`s, instead of one whose appends are
  atomic because `Recorder` shows them to be.
