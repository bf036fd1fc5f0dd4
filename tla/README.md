# Verification of the Redline Ghidra MCP bridge

TLA+ models of `ghidra-mcp` (Rust MCP server) and its Ghidra bridge (Java), the
TLC configurations that check them, and TLAPS proofs about them. Paths below are
relative to the repository; modules are in this directory.

## The system

An MCP client starts the Rust program over stdio. Every one of its 85 tools is a
call of `Backend::execute` behind one mutex; the call is written as a request file
into a *mailbox directory*, a Java bridge inside Ghidra (headless or GUI plugin)
takes it, runs it through `CommandDispatcher` and writes a response file. Two lock
files (`client.lock`, `bridge.lock`) give each side one owner.

| Component | State it keeps | Operations | Interacts through |
|---|---|---|---|
| Mailbox client (`src/mailbox.rs`, `src/backend.rs`) | `failed` poison, held `client.lock`, `client.pending` on disk | open, ensure_reusable, call_validated | mailbox files, probe of `bridge.lock` |
| Launcher (`src/launch.rs`) | `launch_uncertain`, captured output | bridge_running, ensure_bridge | child process, `bridge.lock` |
| Start scripts (`scripts/start-*.ps1`) | launch record, logs | probe, clear `stop`, start Java, wait for readiness | `bridge.lock`, mailbox files |
| Bridge loop (`BridgeServer.java`) | `closed`, held `bridge.lock` | construct, run, requestStop, close | mailbox files, dispatcher |
| Dispatcher (`CommandDispatcher.java`) | project, program, consumers, jobs, active job | 10 lifecycle and analysis commands, reads, edits | Ghidra, analysis thread, GUI context |
| Command families (`*Commands.java`) | none of their own | reads, transactions, export | Ghidra program |
| GUI plugin (`RedlineMcpPlugin.java`) | `stopping`, `bridge`, `worker` | start, stop, dispose | event thread, worker thread |
| Tool registry, parameter and result validation (`server.rs`, `domain*`, `backend/*`) | none | validate, annotate | MCP client |

Hard behaviours: two processes interleave on plain files and locks; either dies
anywhere; the caller's deadline races a late answer; a call's future can be
dropped while a file operation is still queued; commands run against a Ghidra that
its GUI user changes at the same time; analysis runs on its own thread; a bridge
is launched by a helper whose success may be unknown; an operator writes `stop`
and repairs the directory by hand.

What makes each part correct: *mailbox* - at most one execution per request, an
answer is the truth about the caller's own request, doubt is never lost;
*launcher* - never a second bridge after an uncertain launch, readiness is never
missed; *dispatcher* - no edit against a program or project other than the
expected one, no loss of unsaved work, no switch during analysis; *jobs* - one
analysis at a time, every job reaches a final state, stop waits for it; *plugin* -
a stop is never lost, at most one bridge per tool; *edits* - a definite error means
no change, a success means the change was read back; *validation* - what is sent
and what is accepted stay within the documented bounds.

## Modules

| Module | Models | Runs | Proofs |
|---|---|---|---|
| `GuardedCall`, `MailboxExchange` | the call over the mailbox, and what it promises | `mailbox_*` | `MailboxExchange_proofs`, with the refinement |
| `Launch` | a call that starts the bridge | `launch_*` | `Launch_proofs` |
| `AnalysisJobs` | jobs, deadline, cancellation, stop | `analysis_*` | `AnalysisJobs_proofs` |
| `Lifecycle` | projects, programs, consumers, the GUI's worker and user | `lifecycle` | `Lifecycle_proofs` |
| `ToolRegistry` | the 85 tools, the mutex, `isMutation` | `registry` | `ToolRegistry_proofs` |
| `AtomicEdits`, `Edits` | transactions: guards, rows, readback, rollback, and what an edit promises | `edits` | `Edits_proofs`, with the refinement |
| `Queries` | the reading conversation: pages, scans, searches | `queries`, `preview_rejected` | `Queries_proofs`, `Answers_proofs` |
| `CoreOps`, `UtilityOps`, `ResearchOps`, `FlowOps`, `TypeOps` | operators of `Edits` and `Queries`: for each operation its parameters, answer and acceptance | through these | - |

The modules compose by promise. `MailboxExchange` shows that one request runs at
most once and that its answer is the truth, so `ToolRegistry`, `Edits`, `Queries`
and `Lifecycle` take a call as received, run and answered once, and ask what one
command after the other does. `AnalysisJobs` keeps every command of theirs that needs
an idle bridge away from analysis.

What could follow: `MailboxExchange` with the script's look at the directory apart
from its removal of `stop` (`scripts/start-bridge.ps1:39`), as `Launch` already has it
for the lock; `export_program` and `create_project`; a proof of `WholeAndOnce` for the
walks of `Queries` (call graphs, paths, traces), which needs an invariant of the walk that
says what it has reached, and not only that its answer is well formed.

## `MailboxExchange`

One action is one step another process can come between.

| State | Code |
|---|---|
| `marker`, `requestTmp`, `request`, `responseTmp`, `response`, `stop` | the files of the mailbox directory; a file is represented by the request or response it holds |
| `clientLock`, `bridgeLock` | owners of the advisory locks; a client's probe and the start script own `bridge.lock` for a moment |
| `cpc`, `stored`, `failed`, `current`, `received` | position of the tool call, `Backend.mailbox` is `Some`, `Mailbox.failed`, request id, parsed response |
| `inFlight` | a file operation the blocking pool still has after its call's future was dropped |
| `bpc`, `closed`, `serving`, `reply` | position of `BridgeServer.run`, its flag, its request and response |
| `used`, `runs`, `ran`, `told` | history: ids generated, dispatcher entries, native outcome, what the caller learned |

Client: `OpenMailbox`/`CheckOpened` are `Mailbox::open`; `EnsureReusable`,
`ProbeRunning`, `ProbeTakes`, `ProbeDrops` are `prepare` without a launch
configuration; `BeginCall` sets the poison and lists the directory again;
`Operate` performs one awaited file operation (`mark`, `stage`, `publish`,
`removeResponse`, `removeMarker`); `ReadResponse`, `Accept`, `Reject`, `Timeout`
are the polling loop; `Return` clears the poison. `Abandon` is an I/O error or a
dropped future, `ExitClient` the end of the process, `LateOperation` and
`LoseOperation` the fate of a queued operation. Bridge: `LockMailbox`,
`RefuseMailbox`, `ScanMailbox` are the constructor, `SeeStop` to
`PublishResponse` one iteration of `run`, then `close` and death. `WriteStop`,
`LauncherProbes`, `LauncherClears`, `Recover` are the operator and the script;
recovery follows `docs/recovery.md`: only with both locks free, pending file last.

Abstractions: a listing of the directory is atomic; creating, writing and syncing
one temporary file is one step (a partial file only blocks, it is never
published); a request is well-formed, since only `call_validated` writes it;
`validate_result` may accept or refuse. Limits and formats are not modelled.

`GuardedCall` is the promise without files: a request runs at most once while it
is the guarded one, the guard is lifted for a definite outcome or by an operator
when nobody is attached, and the caller is told the outcome or "unknown". A
timed-out call may still run; it is never answered with another call's outcome.

### Runs

| Run | Instance | Shows |
|---|---|---|
| `mailbox_safety` | 2 clients, 2 bridges, 2 requests, symmetric | `TypeOK`, `AtMostOnce`, `TruthfulAnswer`, `OneExchange`, `GuardOutlivesDoubt`, refinement of `GuardedCall` |
| `mailbox_liveness` | 1 client, 1 bridge, 2 requests | `CallReturns`, `RequestNoticed`, `StopHonoured` |
| `mailbox_unanswered` | 1 client, 1 bridge | the divergence below |

Two clients are enough for a queued operation of one to meet the call of another,
two bridges for a predecessor that died and its successor, two requests for an old
exchange and a new one; processes restart without bound. Three requests pass too
(1.1 million states). `Requests` bounds the calls of a behaviour; nothing else is
bounded. Deadlock is checked in every run.

Fairness (liveness only): each client, bridge, queued operation and the script's
probe takes its next step unless its process dies. The client polls every 10 ms
against a deadline and every await is a local file operation; the loop sleeps
50 ms; native commands carry their own time limits. No user, operator, start or
crash is fair. `RequestNoticed` and `StopHonoured` also hold through a bridge's
death, which ends what they wait for; the user may cancel at any moment.

### Divergence found

- `mailbox_unanswered`: `client.pending` is removed (`src/mailbox.rs:250`) before
  the outcome is returned; a cancellation or death in between leaves a reusable
  mailbox and an unanswered, executed command, against
  `docs/bridge-protocol.md:7` and the comment at `src/mailbox.rs:146`.

Two more are in the model and have no run: the poison (`src/mailbox.rs:147`)
precedes the listing (`:148`), so a stop written in between makes the client unusable
although nothing was sent, against `docs/bridge-protocol.md:5`; a bridge start that
meets a client's probe is refused as if another bridge existed (`src/launch.rs:94`,
`BridgeServer.java:30`).

## `Launch`

A tool call that finds no bridge starts one: the client sets `launch_uncertain`,
spawns a PowerShell helper, waits for its exit and its readiness record, probes
`bridge.lock` and lowers the latch. The helper looks at the directory under an
exclusive handle of `bridge.lock`, starts Java, waits 45 s for its line on stderr
and stops it if the line does not come.

| State | Code |
|---|---|
| `clientLock`, `bridgeLock`, `stop` | as above; `bridgeLock` belongs to a helper's handle, to its Java process or to `Other` (the GUI plugin) |
| `doubt` | anything an unfinished exchange leaves in the mailbox |
| `cpc`, `stored`, `uncertain` | position of the call, `Backend.mailbox`, `Backend.launch_uncertain` |
| `launch`, `captured`, `ended`, `permit` | locals of `launch_if_needed`: the child, its captured stdout, the permit of `Notify` |
| `hpc`, `written` | position of the helper's script, parts of the record in its pipe |
| `jpc` | position of Java; `over` has printed the line, `stopped` was killed by its helper |
| `unconfirmed`, `used` | history: helpers spawned and not confirmed, Java processes that executed a command |

`BeginCall` to `LastProbe` are `connected_mailbox` and `prepare`, `Spawn` to
`Timeout` are `launch_if_needed` and `wait_for_readiness`, `Cancel` is a dropped
future (possible only where the call awaits) and kills the helper. `CrashClient`
(only with `Crashes`) drops nothing. `ReaderReads` and `ReaderEnds` are the capture
task; the record comes in `Record = 2` parts so that an incomplete one can be seen,
and the end of the pipe need not come while Java lives. An exchange is one step
(`Call`); the client's probe, which takes the lock for a moment, is in
`MailboxExchange`. Configuration errors are one refusal.

| Run | Instance | Shows |
|---|---|---|
| `launch_safety` | 2 clients, 2 launches, symmetric, no crash | `TypeOK`, `OneUnconfirmedLaunch`, `OneHelper`, `NoWorkStopped`, `StopReachesBridge` |
| `launch_liveness` | 1 client, 2 launches, crashes | `LaunchEnds` |

`Launches` bounds the spawns of a behaviour: two let a launch meet the remains of
an earlier one; client processes restart without bound. A launch is used up, so
these runs do not check for deadlock.

`OneHelper` and `NoWorkStopped` assume that no client process is killed: a killed
client leaves its helper behind, which may then give up on a Java process that
another client already uses. Fairness: the runtime polls the call and its reader,
the helper's script runs and has its own deadline. The client's 55 s limit, the death of
Java and the end of its pipe are not relied upon.

Observed, without a run: `prepare` sets the latch (`src/backend.rs:33`) before anything is
spawned, so a failure such as "supported only on Windows; start the bridge
separately" (`src/launch.rs:119`) makes the process refuse that bridge too,
against `docs/bridge-protocol.md:5` and `docs/recovery.md:5`.

## `AnalysisJobs`

The bridge thread submits jobs, reports and cancels them and stops; one analysis
thread runs them. Every access of one thread to a field the other one uses is a
step, so `job_status` reads state and error separately and the `finally` block
of a job is three steps.

| State | Code |
|---|---|
| `jobs`, `activeJob` | job table in order of insertion, `activeJob` |
| `state`, `error`, `cancelled`, `deadline`, `consumers` | fields of `AnalysisJob`, its monitor, its timer, the program's consumer |
| `queue`, `accepting` | `analysisExecutor` |
| `apc`, `current`, `transaction` | position of the analysis thread, its job, its open transaction |
| `bpc`, `report`, `lock` | position of the bridge thread, what a report has read, ownership of `bridge.lock` |
| `userAnalysis` | the GUI user analyses the same program |

`BeginCommand`/`EndCommand` stand for every command that needs `ensureIdle`;
`Capacity` (2 in the runs, above 1 in the proofs) stands for the table of 100.
`Gui` tells a process that outlives its bridge from a headless one that ends with
it; `Collects` lets the JVM collect a server nobody refers to.

| Run | Instance | Shows |
|---|---|---|
| `analysis_safety` | 3 jobs, headless | `TypeOK`, `CommandsRunAlone`, `CompletedIsOver`, `FailureIsExplained`, `UnfinishedIsKnown`, `OwnershipCoversAnalysis`, `OutcomeIsFinal` |
| `analysis_liveness` | 2 jobs, GUI, collected | `EveryJobEnds` |

Three jobs overflow a table of two while one of them runs. A headless process
ends, so `analysis_safety` does not check for deadlock.

A job that is reported as failed may still hold the active slot for a moment, so
that the next command is refused as busy; only `completed` promises that the job
is over (`CompletedIsOver`). Fairness: both threads go on, the timer fires, and native
analysis ends once its monitor is cancelled; analysis that ignores its monitor
keeps the bridge busy, as `docs/java-api.md` says of native code.

Observed, without a run (`OwnershipCoversAnalysis` is checked for a headless bridge
and proved without collection): a stop that times out keeps `bridge.lock` only as long as the JVM
does not collect the server, to which nothing refers once the plugin's worker has
ended (`BridgeServer.java:128`, `docs/java-api.md:64`).

## `Lifecycle`

The dispatcher's commands on projects and programs, and the thread that carries the
bridge. A program object lives while the bridge or the GUI tool holds it; what was not
saved ends with it.

| State | Code |
|---|---|
| `project`, `disk`, `open`, `current` | Ghidra's project, its files, the open program objects and who holds them, the selected program |
| `consumers` | programs `CommandDispatcher` has to release |
| `request`, `pc`, `target`, `old` | the command, its position, the program it acquires and the one it replaces |
| `worker`, `published`, `closed` | position of the bridge's thread, the field `bridge`, the server's flag |
| `stopping`, `ui` | the plugin's flag, `stopBridge` between its two steps |
| `lost`, `before`, `wrote` | history: work that ended with a release, the state at the command's start, files it saved |

`Receive` compares identities and looks at unsaved work (`Allowed`); then one action is
one step that can fail: `OpenProject`, `CloseProject`/`CloseNative`, `LoadImport`,
`RefuseImport`, `StoreImport`, `StoreFault`, `SelectSame`, `Acquire`,
`LookAtOld`/`Select`/`SelectFault`/`ReleaseOld` (`switchProgram`, whose three looks at
the GUI are tasks of their own on the event thread), `Save`/`CheckSaved`.
`NativeFault` is an exception of native code. `Publish`, `LookForStop`, `LeaveLoop`,
`Unlock`, `CloseDispatcher` and `Start` are the worker, `StopFlag` and `StopServer`
are `stopBridge` and `dispose`. `UserOpens`, `UserEdits`, `UserSaves`,
`UserCloses` and `UserImports` are the GUI user, possible between any two steps.

| Run | Instance | Shows |
|---|---|---|
| `lifecycle` | 2 files, headless and GUI, 3 commands, 2 steps of the user, 2 starts, 5 identities; 1.2 million states | `StopNotLost`, `WorkKept`, `OneOutcome` |

Three commands are an open or an import, a change of program, and what follows it;
two user steps are an edit and a switch, or a close and an open. `MaxIds` bounds the
objects and ends a behaviour; `Finished` is the only step then.

`WorkKept` speaks of a headless bridge. In the GUI, `close()` releases the bridge's
consumers without a look at unsaved work (`CommandDispatcher.java:609`); a program the
tool holds as well keeps it. A headless bridge that finds unsaved work at its end
fails (`worker = "failed"`) with the project still held; the process then ends
and the work with it, which no release can prevent. The GUI's project stays open, a
restarted bridge keeps the identities of its predecessor, and Ghidra's refusal of a
second hold for the same consumer is one of the native faults.

## `ToolRegistry`

The tools of `server.rs` with their `read_only_hint`, the operation registries of the
Java command classes with `isMutation`, and the handlers that write: three lists kept
by hand. Two calls, of any two operations, wait for the mutex, are refused,
published, answered, time out or are dropped (`Proceed`, `Drop`); the bridge answers,
refuses, notices a moved context, fails or exceeds the size of a response (`Bridge`).

| Run | Instance | Shows |
|---|---|---|
| `registry` | 2 callers, all operations | `HintsHold`, `DefiniteErrorsChangeNothing`, `NothingAfterDoubt`, `CallsEnd` |

Two callers are the holder of the mutex and one behind it. Fairness is weak
fairness of `Proceed`: tokio's mutex is first come, first served, and a call that has
published ends by its deadline at the latest; the bridge need not answer.

## `Queries`

A client reads: `Refuse`/`Send` are `validate`, `Decline`/`Reply` the handler with a
time budget of any size up to `Budget` (rows, visits of a graph, calls of a function and
paths in `ResearchOps`, functions and emulated steps in `FlowOps`), `Misroute` an answer to another request,
`Accept`/`Reject` the checks of `backend.rs` and `backend/*.rs`; then the client goes
on with the offset, address or cursor of the answer (`GoOn`), and the user may
edit the program before it does (`Edit`). The five `Ops` modules define, for each
operation, `<Name>Params` (`domain.rs`, `domain/*.rs`), the answer (`*Commands.java`)
and `Accepts<Name>`. `Wanted` is the reference: what the client should have in the
end, as a set, without pages and walks (`Reached` for a call graph, `SimplePaths` for
call paths).

| Run | Instance | Shows |
|---|---|---|
| `queries` | 8 offsets, the last unmapped, up to 4 rows, limits 0 to 3, budget 0 to 7; 203,576 states | `HonestAccepted`, `ContinuationsSent`, `WholeAndOnce`, `StableRows`, `BoundReplies` |
| `preview_rejected` | a program mapped up to the last offset | the divergence below |

Every limit of the code (page sizes, scan limits, lengths) is one of the constants
`OpLimit`, `ScanLimit`, `EdgeLimit`, `FieldLimit`, `MaxSize`; offsets and numbers
stop at `MaxOffset` and `MaxInt` as the code's do at 2^64-1 and 2^31-1. The requests end
before, at and behind each boundary; larger values repeat these cases. A
conversation ends, so deadlock is not checked.

`StableRows` is promised by scans, which go on from a place; pages go on from a count
and may skip or repeat. The references of one address keep their order
across an edit, because the cursor counts within it. Two inputs are kept out of this
run, since `HonestAccepted` fails there: a program mapped up to the last offset (the
finding) and a register named in another case (below).

Divergence `preview_rejected`: `src/backend/utilities.rs:152` computes the place behind
every instruction of a preview, also behind the last, so a preview that ends at the
end of the address space is refused as uncertain, against
`docs/utility-tools.md:9`. The check of `get_pcode` guards the same sum with
`index + 1 < len`.

## `Edits`

A client edits what it has seen while the GUI user edits the same program and moves to
another. `db[p]` has one function for each kind of stored thing (comments, bookmarks,
names, tags, registers, units, types, variables, signatures, options, base, blocks).

| Action | Code |
|---|---|
| `Look`, `Ask` | the client reads, and fills the guards of a plan with what it saw; `validate` |
| `Check` | `expectedProgram` and what a handler looks at before its transaction |
| `StartTransaction`, `WriteRow`, `Rollback` | the transaction; a row is guard, write and readback |
| `LeaveInTime`, `Commit` | the looks at the context inside and behind the transaction |
| `NativeFault` | an unexpected exception: rolled back, and still `mutation_uncertain` |
| `TakeResult`, `TakeError` | the comparison of the answer; the definite error |
| `UserEdits`, `UserSwitches` | the user, between commands and between check and transaction |

| Run | Instance | Shows |
|---|---|---|
| `edits` | 2 programs, 2 commands, 1 step of the user; 456,414 states | `TypeOK`, `AllOrNothing`, `NoLostUpdate`, `HonestAccepted`, refinement of `AtomicEdits` |

`AtomicEdits` is the promise without transactions and rows: a request changes the program
it names and no other, all at once or not at all (`Apply`, `Fail`), only while what it
is about is what the client has seen (`Agrees`), and the client learns `done`, `refused` or
`doubt`; `done` means that it happened, `refused` that it did not. Under
`ImplementsAtomicEdits` the edit happens at `Commit`, whatever the look at the context behind it says; until
then the written rows are hidden by the saved database. `Early(r)` is the set of places
that a request looks at before its transaction and not again; a step of the user that
changes one of them in between (`meanwhile`) may be overwritten, no other may.

Two commands let a guard meet the client's own earlier edit, one user step is an edit
of any kind of row or a switch. `TypeOK` includes that fields of a structure never
overlap. `HonestAccepted` compares the readback as Ghidra spells it (`NativePath`) with
what the MCP server expects (`DescriptorPath`), for pointers to arrays of pointers too.

`PlansAssumption` and `OriginalAssumption` say which plans and which database are
meant: a plan names cells that exist, the stored types are well formed to begin with, and
the tables of functions and of code units have the same addresses. The modelled user
edits every kind of cell, but a structure the user writes keeps the layout of the one that
was there: `fieldEdit` looks at the layout before the transaction and not again
(`TypeCommands.java:128`), so what another layout in between would do is Ghidra's own
checking, which is not in this repository.

`NoLostUpdate` says that what a committed edit overwrites is what the client had seen
(`Guarded`: names, comments, signatures, fields) and that nothing is there that the request
is to leave alone by its own words (`Spares`). The second is what the operations without an
expected value promise: `clear_listing` clears complete units of `expected_kind` outside of
functions, a definition needs undefined storage, a creation an unused name, a value of a
register no decoded instructions. `clear_listing` compares with the kind that the request
names and not with the units its client saw, so `Guarded` has nothing to compare for it.

Nine operations look at these places before the transaction only. `LooksEarly` names
the places of each:

| Operation | Looks at | Check, transaction |
|---|---|---|
| `clear_listing` | functions and units of the range | `UtilityCommands.java:152-160`, 162 |
| `set_processor_context` | units of the range | `UtilityCommands.java:144`, 145 |
| `create_instructions` | units of the range | `ExtendedCommands.java:142`, 143 |
| `define_data` | units of the range | `ExtendedCommands.java:218`, 219 |
| `apply_data_type` | units of the range | `TypeCommands.java:134`, 135 |
| `create_function` | functions at the entry | `ExtendedCommands.java:163`, 165 |
| `create_memory_block` | the block | `ExtendedCommands.java:122`, 125 |
| `set_structure_field` | the structure | `TypeCommands.java:126-128`, 130 |
| `set_function_signature` | the function and its signature | `TypeCommands.java:178`, 180 |

`late` says that the user changed one of these very places between the check and the
transaction, and is all that `NoLostUpdate` exempts: such a change the code overwrites, or
Ghidra refuses the write by checks of its own. Those are not in this repository, and the
model lets the row be written. The creations of types look again in the transaction
(`TypeCommands.java:121`) and are not exempt. Some early looks are not about a user's work and
are not among the places: that a function is there to be tagged, that a replacement has the
length of the field, that a name is not a duplicate. What Ghidra does with edits of two
threads within one transaction is outside this repository and not modelled.
`set_variable_type` guards name and storage, not the type.

## Observations

Met while modelling, without a run of their own:

- `get_processor_context`, `set_processor_context`: Ghidra finds a register in any case
  of its name and answers with its own spelling; the exact comparison of
  `src/backend/utilities.rs:186` calls the committed edit a doubt.
- `batch_set_comments` with an empty comment always rolls back: Ghidra stores none,
  and the readback expects the empty text.
- A checked exception of native code inside a transaction that was rolled back still
  halts the bridge as `mutation_uncertain`.
- `list_data_types` refuses an answer with a path longer than 1024 characters, which
  Ghidra does not exclude.
- `list_symbols`, `list_strings`, `list_data_types` and `get_function_variables` refuse an
  offset above 1,000,000 (`src/domain.rs:578`, `:602`, `src/domain/types.rs:52`) while
  their answers go on to say `has_more`: what lies behind cannot be read. `PagesGoOn`
  states the condition (`InReach`).
- Pages of a list are not tied to the offset of the request: an answer to another
  offset passes (`BoundReplies` names the operations that are tied).
- A search whose time budget ends before its first row returns the cursor it was given.
- The bridge frees the mailbox before the dispatcher closes the project
  (`HeadlessMain.java:39`), so the next bridge may meet Ghidra's project lock.

## Proofs

`MailboxExchange_proofs` proves, for any sets of clients, bridges and requests and
under `ConstantsAssumption` only (the identifiers are distinct): `Typing`,
`RunsAtMostOnce`, `AnswersTruthfully`, `OneExchangeAtATime`, `GuardKept` and
`Refinement` (`Spec => ImplementsGuardedCall`). All rest on `Invariance`, the
invariant `IInv`, because none of the properties is inductive alone:

- `LocksHeld`, `QueuedPoisoned`, `Identified`: who can act at all. A call has the
  client lock, a bridge past its constructor the bridge lock, a queued operation
  belongs to a poisoned or dead process, and ids are never shared.
- `OnePlace`: an exchange is in at most one kind of file, so a response in the
  directory means that nobody serves and nothing is requested.
- `CallStands`, `BridgeStands`: what each position implies about the directory.
  The step that carries at-most-once: a bridge in its loop sees only requests
  published after its scan, and those have not run.
- `Counted`: `runs`, `ran` and `told` agree.

There is one lemma per action; the four lemmas `StagedAlone`, `DispatchedFresh`,
`ReplyAlone` and `AnswerAlone` name what the invariant says at the turning points
of an exchange. Refinement maps `guarded` to `marker` and `attached` to "a lock is
owned"; every step is one abstract step or a stutter.

`Launch_proofs` proves `LaunchTyping`, `LaunchesAreConfirmed`, `HelpersNeverMeet`,
`WorkSurvivesStartup` and `StopsAreSeen` for any sets of clients and launches under
`LaunchAssumption`. `IInv` adds: a call owns `client.lock` and has latched before it
spawns (`CallStands`, `LatchStands`), `bridge.lock` belongs to the helper that looks
or the Java process that serves (`LockStands`), a helper is the one the owner of
`client.lock` waits for (`HelperStands`), and a process that worked has no helper
any more (`UsedStands`), which is why no helper can stop it.

`AnalysisJobs_proofs` proves `JobsTyping`, `NoCommandMeetsAnalysis`,
`CompletedJobsAreOver`, `FailuresAreExplained`, `UnfinishedJobsAreKnown`,
`OutcomesAreFinal` and, without collection, `AnalysisIsOwned`, for any jobs and any
capacity above one. `IInv` says which job the thread works on and what each job has
recorded (`ActiveStands`, `CurrentStands`, `JobsStand`), that unfinished jobs are
the last two of the table (`TableStands`; this needs the capacity above one), what
a half-read report means (`ReportStands`), and what a stop has waited for
(`StopStands`).

`Lifecycle_proofs` proves three theorems for any files and any bounds.
`StopsReachTheWorker`: `StopInv` adds to `StopNotLost` that a worker past its
construction shows its server in the field `bridge`, and that a stop between its two
steps has raised the flag. The worker publishes first and looks at the flag then,
`stopBridge` raises the flag first and looks at the field then, so one of the two
sees the other. `WorkIsKept`: `WorkInv` holds, for a headless bridge, what each step
of a command has made sure of (`Kept`: before the switch the selected program is
unchanged, during it the old one is; an import that was not saved yet is not a
stored program; before a close no consumer is changed). It stays true from check to
release because nobody else works on the programs of a headless bridge and edits come
between commands only (`RunsStep`). New objects get identities nobody has
(`OpenedFacts`), which needs `LifecycleAssumption`: `Nobody` is no identity.
`EveryCommandHasOneOutcome`: `OutcomeInv` adds to `WorkInv` that the programs the bridge
holds are exactly those in `consumers` at every step (`Held = consumers`), and, for each
position of a command, what it has opened, stored and selected so far (`Progress`). A
fault at any position therefore ends with what the command began with, or with all
it announces.

`ToolRegistry_proofs` proves, for any number of callers and under the three handwritten
lists as they are, `HintsAreHonest`, `DefiniteMeansUnchanged`, `DoubtEndsTheSession` and
`RequestsDoNotOverlap`. The lists come in as three lemmas: no tool announced as read
only is a mutation, every handler that writes is one, every mutation is announced as
one. The rest is the session: the poison is set before a request is published and
cleared by an answer only, so a second request cannot be published while one is
out. The mutex is not needed for it; it decides who goes next.

`Edits_proofs` proves `EditsAreAllOrNothing`, `EditsAreAtomic`, `NoEditIsLost`,
`TypesStayWellFormed` and `PlainEditsAreAccepted` for any programs, plans, batch lengths
and numbers of commands and user steps. Four invariants, one on top of the other:

- `WritesInv`: inside a transaction the database is the saved one with the first `row`
  rows put into it (`Written`), in every other program it is untouched, and the
  program held is the one the request expects. That carries the rollback and the
  place of an edit. `Written` is a function of the row number and needs no recursion: a
  cell has the value of the last row about it.
- `Seen`: each guard passed so far held of the saved database, and a guard of a later row
  is not disturbed by an earlier one because `validate` keeps rows apart (`Apart`). What
  was looked at early held when it was checked (`Found`), and a step of the user elsewhere
  leaves it so (`FoundStays`, for places that `InTables` says are in the database); a
  step at one of the places sets `late`. So what a commit overwrites is what the client saw,
  and what it is to leave alone is not there, unless `late`.
- `Layouts`: every stored type is well formed, and what `create_structure` and
  `set_structure_field` were checked for still holds when the row is written.
- `Grounds`: the places of a request exist (`Placed`, `InMemory`), and each readback so far
  showed the value that was asked for (`Shown`), until the answer repeats it.

`PlainEditsAreAccepted` is `HonestAccepted` for the operations whose answer neither
spells a type nor holds a variable: nine with a comparison, and seven that have none in the
model (`OTHER` of `AcceptsEdit`). One lemma for each kind of comparison (`LabelAccepted`,
`CommentsAccepted`, `TagsAccepted`, ...) says that the answer from the written database passes
it. An empty comment shows why the readback is needed: Ghidra stores none, and
a batch that asks for one is rolled back instead of answered. `Agreed` leaves out a register
that is not spelled as the processor does, as in `Answers_proofs`.

`EditsAreAtomic` is the refinement of `AtomicEdits`, from `WritesInv` and `Seen`. Until
`Commit` every step of the bridge is a stutter, since `Outside` is the saved database;
at `Commit` `WritesInv` says that what appears is `Effect` of the whole request, and
`Seen` that what the request is about was as the client saw it, or changed too late (`AllSeen`).

The first half of `Queries_proofs` proves four theorems for any programs, requests and budget, under
`ProgramsAssumption` (a list has a length, marks lie in the address space, calls and links
are finitely many, code units lie one behind the other, a mapped address is in one of
them) and `QueriesAssumption` (a client asks for what the registry offers, `Operations`).
`RepliesAreBound` rests on `ReplyInv`, which says where the reply came from; per
operation, what the validator compares determines the answer. The other three are about
the operations that count their rows (`Counted`; a context of one named register is
left out, see the observation on spellings): `PageAnswers` shows that each of the nine
handlers reads the part of one list that begins at the offset, that its `has_more`
or `total` means the same as the next offset being inside the list, and that its
validator accepts it. `PageInv` follows a client: it has the list from its first offset
up to the one it asks for. Hence `PagesAreAccepted`, `PagesGoOn` and `PagesAreWhole`,
which are `HonestAccepted` (also for the four operations that repeat the request),
`ContinuationsSent` and `WholeAndOnce` for these operations.

Its second half proves the same three, and `StableRows` in full, for the eight scans:
`ScansAreAccepted`, `ScansGoOn`, `ScansAreWhole` and `ScansAreStable`, for any programs,
ranges, limits, queries and budgets. The argument has three layers:

- `Ranked(S, <)` lists a finite ordered set, each member once (`RankLists`: the members
  before a member are fewer than before a later one, so every place is taken). What
  `Chosen` and `Take` leave of a list is a list of a subset (`ChosenLists`, `TakeLists`).
- Per scan, `ScansGive`: the rows of an answer are exactly those of `Wanted` that lie in
  front of the place the answer goes on with (`ScanGiven`), that place is a request
  `validate` lets through and whose `Wanted` is the rest (`GoesOn`), and the validator
  accepts the answer.
- `ScanInv`: a client at the request `r` has rows that lie in front of `r` only, all of them
  when nobody edits, and each row that every version had is either ahead or held once
  (`CameTo`). An edit cannot disturb it because `Ahead` does not look at the program.

A scan of similar functions is followed to its end only with a `function_limit` up to its
`result_limit`: otherwise the least similar ones of a window are left out, as the tool
announces (`Scanning`, `Wants`).

`Answers_proofs` closes the two questions for all 38 operations together, again for any
programs, requests, limits and budget: `AnswersAreAccepted` is `HonestAccepted`, and
`AnswersGoOn` is `ContinuationsSent`.

- A handler that repeats a step is a recursive function over an interval
  (`CodeFrom`, `Visit`, `Explore`, `Follow`, `Paths`, `SumOf` and others). What it computes is
  not needed, only what its steps keep; `Repetition` says that such a function is there and
  stays in a set that its step does not leave, with `Upwards` in the place of an induction.
- One lemma for each operation, named after it (`PcodeAccepted`, `GraphAccepted`,
  `TraceAccepted`, `CallPathsAccepted`, ...), says that its validator accepts what its
  handler gives. The walks need an invariant each (`GraphIn`, `TraceIn`, `Flowed`): what is
  queued or given up was found, and only once; each edge joins two nodes that were found;
  no depth and no number passes its limit.
- `OwnAnswerAccepted` puts these and the lemmas of `Queries_proofs` together;
  `GoesOnValid` does it for what an answer names to go on with; `AskInv` is the invariant.

`Agreed` is the condition of the first theorem: it leaves out the two cases in which check and
handler do disagree, `preview_instructions` when a code unit ends at the last address
(run `preview_rejected`) and a register that is not spelled as the processor does (the
observation on spellings). The condition of the second, `InReach`, is the one of
`PagesGoOn`: a list longer than the largest offset a request may name cannot be paged to
its end.

All invariants were checked by TLC on the instances of the runs before they were proved.

Only model-checked: the liveness properties (fairness and ENABLED are outside the
prover); `HonestAccepted` of `Edits` for the other nine operations (`Spelling`), which
compares types that are spelled by folds over their nesting; `WholeAndOnce` of `Queries` for the operations that neither count their rows
nor scan: decodings (`get_pcode`, `preview_instructions`), walks (`get_control_flow`,
`get_call_graph`, `find_call_paths`, `trace_data_flow`), `get_function_details` and
`compare_program_memory`. What such a function computes for every input, and not only what
its steps keep, would need induction over data.

## Not modelled

- `export_program` and `create_project` (files), `go_to`, `list_programs`,
  `list_languages`, the containment of paths.
- Single reads without a bound: `get_comments`, `get_function_tags`,
  `get_analysis_options`, `get_data_type`, `decompile` and its text.
- Parsing of address text, formats, lengths of text fields of an answer.
- Configuration of the start scripts, the plugin's dialog and saved settings.
- Packaging, installation, test drivers, CI.
