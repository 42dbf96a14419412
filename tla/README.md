# AsterFiles: a TLA+ model of its operations, tabs and loaders

AsterFiles is a Windows file manager written in Rust. This directory models two parts
of it. The first can lose or duplicate a user's files: a file operation (copy, move,
rename, recycle, permanent delete, undo) from the click to the settled task, with the
threads, channels, windows and cancellation tokens in between; what a copy, a move and
a permanent delete do on the disk, step by step, with failures and crashes; the
download from a network share, where calls that never return have to be lived with, and
the helper process it runs in. The second can make the user act on the wrong file: the
tab, its history and its requests that overtake each other, the watcher that keeps a
listing true to the disk, and the folder sizes that come late.

Paths below are relative to the repository; `LIB` is `crates/domain/src/lib.rs`, `FO` is
`crates/domain/src/file_operations.rs`, `FS` is
`crates/domain/src/folder_size_scheduler.rs`, `APP` is `src/app.rs`, `CO` is
`src/app/file_operation_coordinator.rs`, `WK` is `src/app/file_operation_worker.rs`,
`DW` is `src/app/directory_watch_refresh.rs`, `DL` is
`crates/platform-windows/src/windows/network_copy/download.rs`, `NW` is
`crates/platform-windows/src/windows/network.rs`, `PF` is
`crates/platform-windows/src/fs/file_operations.rs`.

## 1. Inventory

### Components

| Component | Source | State | Operations | Correct when |
|---|---|---|---|---|
| Operation manager | FO | tasks by id, a queue and a slot per lane, next id | submit, submit_preparing, complete_preparation, start_next, mark_running, finish, cancel, pause, set/resolve_conflict, retry, prune | slots, queues and task states agree; one operation per lane; a lane never idles with work queued |
| Cancellation token | FO, PF `check_cancel` | cancelled flag, paused flag behind a mutex, acknowledgement | pause, resume, cancel, wait_if_paused | "paused" shown only when the thread stopped; no lost resume; cancel wakes |
| Undo history | FO | at most 32 entries, one of them lent out | push, begin, finish | lent to exactly one undo task, returned when it fails |
| Coordinator | CO | application state under one lock, registered directories | enqueue, prepare rename, request undo, finish, retry | a completion settles its task and starts the next |
| Lane workers | WK | one thread per lane (local, network, cleanup), conflict gate | take a request, ask about a conflict, wait, report | nothing executed twice or beside the slot |
| Event pump and windows | APP, `src/app/actions.rs`, `src/app/window_sessions.rs` | conflict window and response channels, pending exit | forward events, handle them on the UI thread, exit | conflicts can be answered; exit waits for the disk and happens |
| Recycle batch | `windows/file_operation.rs` | one IFileOperation per request | PreExecute reports, abort | partial results shown as partial |
| Copy execution | PF, `fs/file_operations/copy_scan.rs`, `windows/copy_file.rs` | scanner thread and its bounded queue, temporary, backup and staging names | scan, copy, publish, swap, remove the source of a move, discard | at no instant a file is without a whole copy; the result tells what was done |
| Permanent delete clean-up | PF, WK, APP | numbered records on disk, the hidden payload directory, the clean-up task | record, rename away, record again, release, retry, discover at start | a directory moved away is never forgotten; only recorded directories are deleted; everything queued is released |
| Network download | DL, `windows/network_copy.rs`, `network_copy/read_control.rs` | version found first, bytes confirmed, one reader thread and its channel, four read permits | query, read a block, write it, give a reader up, retry, keep | a kept file is one version of the source; a paused copy writes nothing; a cancelled copy ends |
| Network copy helper | NW, `network_snapshot.rs`, `copy_execution/temporary_copy.rs` | control, acknowledgement, event and response files, a child process with a token of its own, the registered temporary file | pause, resume, cancel with sequence numbers; conflicts and answers; kill after one second, clean-up | a pause is shown when the copy has stopped; a resume reaches it; answers go to their own conflict; a cancelled operation ends and leaves no half copied file |
| Tab sessions | LIB `TabSession` | history, page, entries and pending entries, load state, latest request, its token, selection, return page of a search | begin navigation, back, forward, jump, batch, finish, fail, search, leave it | a late result never reaches a newer place; a selection stands for the files the user picked |
| Directory loading | `src/app/directory_loading.rs`, APP | one worker per request, bounded event queue, acknowledgements | list, send a batch, wait, finish | a load that is shown is served |
| Watch refresh | DW, `windows/directory_watch.rs`, `src/app/rename_updates.rs`, CO | watcher per directory, notifications, samples, retries, gate, registered operation directories | start, fail, pump, probe, refresh, hand over to an operation, project a rename | a tab with nothing on its way shows the disk |
| Folder sizes | FS, APP, `src/app/callbacks/file_list.rs` | strategy, generation, in-flight set (24), bounded channel (32) | viewport, sort by size, end of a listing, submit, complete, refuse | no folder shows another's size; what is drawn as queried is queried; never more asked about than slots; sizes arrive |
| Network discovery | `domain/src/network.rs` | request id, idle time-out | begin, apply batch, expire | stale results are dropped |
| Thumbnails | `domain/src/thumbnail_scheduler.rs` | latest plan, budgets | plan, submit, complete | bounded parallelism, no stale picture |
| Session store, audit log, WebDAV, Shell integration, windows and drag, user interface | see `PROJECT.json` | | | I/O, COM, HTTP and layout |

`PROJECT.json` lists each with its sources and its status.

### Interactions

The UI thread runs user actions and event handlers one at a time; the event pump
thread receives worker events, handles progress (the `Executing` report) itself and
queues the rest with `invoke_from_event_loop`; each lane has one worker thread; each
rename has a preparation thread that resolves network drives; each directory request
and each probe of the disk has a thread of its own. All of them reach the application
state through one `Mutex`, so a handler is one atomic step; requests, events, batches
and conflict answers travel through channels. The only state shared outside that mutex
is the cancellation token (the UI thread and the copying thread) and `conflict_gate`
(the lane workers), a blocking mutex held while the user is asked.

A file operation and a watcher see the same changes: the coordinator registers the
directories an operation works in, the watch pump leaves their notifications to the end
of the operation, and the end asks for a listing or projects the renames. A tab with a
listing feeds the folder sizes, whose answers come back over a timer.

A network copy runs in a helper process. Parent and helper talk through small files,
each replaced as a whole by its only writer and looked at every 20 ms: whatever is
overwritten before it is read is lost, and numbers tell the new from the old. Its
copying thread touches the share through threads of its own, one at a time, each with a
permit and a channel of one message: a thread that hangs in a call to the server is
abandoned, permit and all, and another one takes over. The helper's monitor thread
forwards pause, resume and cancel to the token the copying thread reads.

### Hard behaviours

- a user action (cancel, pause, retry, exit) between the moment a worker sent an
  event and the moment the UI thread handles it;
- a rename cancelled while its preparation thread is working;
- a permanent delete that frees the local lane and fills the cleanup lane in one
  handler; cleanup records found again after a restart;
- a process that ends between a record and the rename it announces, or between the two
  steps that publish a record;
- two lanes that meet conflicts at the same time;
- pausing, resuming and cancelling a thread that is about to sleep;
- leaving the application with operations queued, executing, asking or cleaning up;
- a recycle batch the Shell aborts half way;
- a directory move across volumes that fails or is cancelled half way, with another
  program at work in the source; a scanner blocked on its full queue;
- a network reader that is given up and answers later, beside its successor;
- a source that is replaced between two readers of one file;
- pause, resume and cancellation overtaking each other between two processes, and the
  confirmation of a pause that no longer stands;
- a helper that hangs, crashes or is killed with a file half copied or half replaced;
- a directory request overtaken by another, by Back, by a search, with its batches,
  its end or its failure still in the queue; entry ids used again by each request;
- a notification between its judgement, its sample and the listing it asks for, while
  the tab loads, leaves, or an operation begins or ends;
- folder sizes asked for rows that are gone, and a channel that is full.

`PROJECT.json` lists the hazards at their lines, with the properties that watch them.

## 2. Modules and their code

| Module | Models | State and actions |
|---|---|---|
| `OperationManager` | FO `OperationTask`, `OperationManager` | No variables: a manager is a record, each method an operator from manager to manager. The coordinator calls several of them under one lock, and the model composes them the same way. `Update(m, id, task)` is `task_mut`; a refused transition or call returns the manager unchanged, as the code's ignored `Err` does. |
| `OperationLanes` | CO, WK, the pump and callbacks of APP, `actions.rs`, `window_sessions.rs` | One variable per shared object (`manager`, the lane channels `inbox`, `worker`, `gate`, `reply`, `events`, `uiQueue`, `responses`, `dialog`, `undo`, the exit flags). One action per callback, handler and worker step; `HandlerTail` is the tail every event handler runs (close a conflict window nobody waits for, leave if the exit is due). |
| `LaneContract` | what the lanes promise | Four phases per operation (absent, waiting, serving, settled), at most one served per lane, and the moves between phases. `OperationLanes` implements it with `PhaseOf`, read off channels, workers, undelivered completions and task states; an operation that is none of the four maps to `"lost"`, which the contract forbids. |
| `PauseToken` | FO `CancellationToken`, PF `check_cancel` | One action per critical section, atomic store or condition-variable operation. `Sleep` is the atomic release-and-sleep of `Condvar::wait`; `SpuriousWake` is what its documentation allows. `OperationLanes` uses its contract only (`Park`, `Unpark`); `FileTransfer` extends it, its worker being the copying thread. |
| `FileTransfer` | PF `copy_path_with_execution`, `move_path_with_progress_inner` and what they call, `copy_scan.rs`, `copy_file.rs` | `job`: the worker at its place with what it has reported; `scan`: the scanner and its queue; `file`: for each name what stands at the source, the destination, the temporary, backup, kept and staging siblings; `tree`: the directories themselves; the token. One action per file system call that changes something, and one per `check_cancel` where the thread can stop. |
| `CleanupTask` | PF `create_cleanup_task`, `write_cleanup_record`, `discover_cleanup_tasks`, `retry_cleanup_task`; the two workers of WK that call them, the scan at start of APP | `original`, `payload`: what stands at each place and in the hidden directory; `disk`, `leftover`: records published and temporary ones left behind; `make`, `clean`, `scan`: three threads at their places; `due`: the task in the manager; `up`: the process. `Crash` may come between any two steps and `Restart` begins again with what is on the disk. |
| `NetworkDownload` | DL `copy_inner`, `copy_stream`, `start_reading`; `copy_query`; `ReadSlots` | `at`, `phase`, `stream`, `expected`, `current`, `block`: the copying thread; `workers`: by permit, the query or reader thread that holds it, with its channel (`mail`) and what it is about to send (`letter`); `data`: the destination, block by block; `version`: the source; the token, with `waiting` for the place of the copying thread in `wait_if_paused`. One action per turn of a loop between two places where another thread can be seen. `Dropped` is the drop of the channel, which abandons the thread behind it. |
| `NetworkControl` | NW `isolated_network_file_operation` (the parent's loop), `NetworkOperationMonitor`, the conflict callback of `execute_network_operation`; `cleanup_registered`; PF `copy_file_safely`, `replace_with_temporary` | `task` and `parent`: the loop at its place and its locals; `control`, `ack`, `event`, `response`, `output`: the files; `child`, `token`, `monitor`, `copier`: the helper; `temporary`, `target`: the disk. One action per file read or written, so that parent and helper interleave between any two. |
| `TabSession` | LIB `TabSession`, `NavigationHistory` | No variables: a session is a record, each method an operator from session to session, composed by the callbacks as the code composes the methods under its lock. |
| `TabNavigation` | the navigation, refresh, history, search and selection callbacks of APP; `directory_loading.rs` and the workers it starts | `tab`: the session; `jobs`: the worker of each request; `events`: the bounded queue with batches, ends and failures; `searches`: requests Everything has not answered; `picked`: a history variable, the files the user picked on each page. |
| `WatchRefresh` | DW, `windows/directory_watch.rs`, `rename_updates.rs`, the registration and refresh part of CO | `disk` with a version per name, `watch`, `notes`, `pending`, `probe`, `sample`, `gate`: watcher, pump, waiting notifications, comparison in flight, its sample and the refresh gate; `job`: a listing; `op`, `relist`: operations and the listings their end asks for. A batch is taken as read and applied in one step (`TabNavigation` has them apart). |
| `FolderSizes` | FS, the viewport, sort and listing-end callbacks of APP, both threads of the folder queries | `tab`, `listing`: session and directory worker as far as sizes depend on them; `sched`: the scheduler; `requests`, `channel`, `batch`, `events`: the queries on their way to Everything and back. |
| `MCOperationLanes`, `MCNetworkDownload`, `MCTabNavigation` | | The kinds, lanes, outcomes, sizes and histories of the small instances. |
| `OperationLanesProofs` (with the manager's operators), `FileTransferProofs` (with `PauseToken`), `CleanupTaskProofs`, `NetworkDownloadProofs`, `NetworkControlProofs`, `TabNavigationProofs`, `WatchRefreshProofs`, `FolderSizesProofs` | | Theorems, section 4. |

### Abstractions

- **Data.** A task keeps what control flow reads. Progress figures, speeds, error
  texts, paths and item lists are gone; whether an item is left that a retry would
  reset is the field `retryable`, and an execution's result is an `Outcome` of four
  booleans, the ones `file_operation_terminal_state`, the undo history and the retry
  look at.
- **Kinds.** `"Copy"` stands for Copy, Move, CreateFolder and FastRemove, whose path
  through coordinator and worker is the same. Only it meets conflicts.
- **Tokens.** The code compares nothing: a request carries an `Arc` of the task's
  token. The model names the token by its round and reads the task's flags;
  `ExecutionHoldsSlot` checks that a worker's round is the task's current one, which
  is what makes that reading right.
- **Feasible outcomes.** `Feasible` and `FinishRequest` say which outcomes the worker
  can produce: an item is left undone only after a cancellation (or by a batch that the
  Shell aborted), only a move keeps a source, a recycle batch removes nothing before
  the Shell reported that it executes, only local copies, renames and recycles
  that succeeded entirely can be undone.
- **Atomicity.** A handler is atomic because it holds the application lock from its
  first read to its last write. Where the code drops the lock and takes it again
  between sending an event and handling it, the model has two actions.
- **Conflicts.** A conflict already answered by "apply to all" is answered by the worker
  itself (WK:1540-1562); it is an item like any other in the model.
- **Network download.** A worker is named after its permit; it gives the permit back
  when its thread ends, or, if the copying thread still listens, when that has read the
  last message: nobody else asks for permits in the instance, so the difference is not
  seen. A block is what one read returns. The wait before a retry asks about pause and
  cancellation like the one before the next reader, and is merged with it. The file
  that `LocalTarget` removes when a copy does not succeed is `data` in a state other
  than `"copied"`. Errors come from a budget, `MaxFaults`, and so do time-outs: the
  budget is what ends a retry that the code would go on with for ever. An open handle
  shares reading only (`FILE_SHARE_READ`), so the source does not change while a
  worker holds one, and the server may lose it (`HandleLost`).
- **Network control.** A file that is locked while it is replaced
  (`available_snapshot`) is read in a later round. The memory of a process or a call
  that has ended is put back to its start, and with the call its files; the number of
  the last conflict stays, to name it. The copying thread's asking about pause and
  cancellation and what it does next are one step when the answer is to go on.
  `CleanupRefused` is a temporary file that is not on a local path, or that Windows
  still holds. The Job object that ends the helper with its parent is not needed: the
  parent does not crash.
- **Tabs.** A file is its place and a number; the workers list a place in any order, so
  that an entry id stands for another file in the next request. Places are
  local, UNC (the first batch clears the selection, a partial page stands) or WebDAV
  (listed by HTTP, not watched), as the code tells them apart. `TabNavigation` and `FolderSizes` model one tab: tabs
  share no state but the event queue, whose other entries only take up room.
- **Watching.** A file is a name and a version, the version being the number of the
  change that wrote it. Time (the 80 ms gate, the retries of a probe) is a free choice of
  when the pump goes round; what expires may expire. `Settling` keeps the window thread
  from doing anything else between the end of an operation and the listings it asks for,
  which the code does in one handler.
- **Clean-up.** One task; the contents of a directory are a free number of entries that
  `Erase` removes one after the other, with failures in between. Identity (volume and file id) is
  the number that tells the directory recorded from one that took its place.
- **Transfers.** A directory holds files only: a nested one repeats the steps of the outer
  one. Answers to conflicts come at once (`OperationLanes` has the wait). What the worker
  cannot know beforehand (same volume or not, what stands at the destination, the policy)
  is part of `request`. A file's content is old, new or own, whole or not.
- **Folder sizes.** Every row is a folder and every listing a set of rows ordered by name
  wherever the code walks it. A size is written as its path, which is how a wrong one
  shows. `TimedOut` stands for every failure. A question and the answer to it are one
  step (`Ask`), the answer waiting in `events`. Reopening the shown directory without a
  background request is F5.
- **The end.** In `OperationLanes` hiding the last window ends the event loop and the process. Every
  action requires `open`; the system really stops there, which is why deadlock is not
  checked (a settled system with no bound left to use also stops). The other modules
  stop when their bounds are used up and nothing is on its way.

## 3. What is checked

### Bounds

`MaxTasks` (how many operations the user enqueues), `MaxRounds` (rounds of a task),
`MaxConflicts` (conflicts of a round), `MaxRecovered` (cleanup records found at
start-up), `UndoLimit` (32 in the code, 1 here, so that the limit is met). `UserActions`
switches the optional user actions on, so that each run explores in depth the ones its
question is about; `Retriable` are the kinds of task the user retries, `Outcomes` the ends
of a request. Every hazard of the lanes needs at most two operations at a time, plus
the cleanup and the undo that the code adds on its own, so two user operations are enough.
`lanes` has the conflicts and the undo, one round per task and no pause; it carries the
liveness properties and the refinement, which the code keeps only while nobody pauses.
`rounds` has everything else: recycle batches that the Shell may abort (`ShellAborts`),
permanent deletes and one clean-up found at start, renames, pauses, and a second round of
the recycle batches; a request ends as done beside an item that failed (`Mixed`), or with
items left (`Left`).

In `download` the source has two streams, of two blocks and one: the least where a
reader can be given up inside a stream and between two. Two permits let an abandoned
reader stay beside its successor and, with two faults, let both be taken by threads
that hang. Two versions are what it takes to mix two.

In `control` one pause, its resume and a cancellation are three commands that overwrite
each other in one file; two files are what it takes for an answer to meet a later
conflict; one failure of any kind may strike anywhere. With two pauses, where the
confirmation of one can meet the other, the same properties were checked by hand (857,029
states), and the proofs hold for any number.

In `navigation` a local place that is listed, a UNC and a WebDAV place, two files in each,
two requests that may overtake each other, and a queue of two. In `watch` two names and
two operations on one tab, three changes and two listings; by hand, three listings, and
two tabs with two of each (1.04 million states). In `cleanup` two directories are the
least where one is done and one not, with one crash, failure, stranger and retry each; by
hand, two crashes (571 thousand states) and records removed in any order (4.18 million).
In `transfer` two files, one failure, one change by another program, one pause and a
queue of one, which the second file fills. In `sizes` three folders, one of them not
indexed, two in flight and two in the channel (24 and 32 in the code), two requests, one
scroll and one sort; by hand, two places (988 thousand states) and failing answers
(882 thousand).

The type invariants of `TabNavigation`, `WatchRefresh`, `NetworkDownload`,
`NetworkControl` and `FolderSizes`, and `AskedWithinLimit` of the last, are in the modules
and were checked when the bounds were set. All are proved too, on their own or as a part of
the invariants of section 4.

### Runs

| Run | Instance | Shows |
|---|---|---|
| `lanes` | copies on the local and the network lane, one conflict each, undo, cancel, exit, nobody pausing, fairness | Types; `UndoOwnedByTask`: the lent entry and the undo task begin and end together; `UndoBounded`; `ImplementsContract`: the refinement of `LaneContract`; `OperationSettles`; `ExitHappens`. |
| `rounds` | recycle batches with aborts by the Shell, permanent deletes and cleanups, a recovered cleanup, prepared renames, pause, cancel, exit, two rounds | `ManagerConsistent`; `ExecutionHoldsSlot`: inbox, worker and pending completion of a lane are the task in its slot, in one place at a time and in its current round; `NoIdleLaneWithWork`; `QuitWhenQuiet`: the process is gone only when no user operation is on its way to the disk; `CompletionSettlesTask`: only a pause keeps a completion from settling its task; `CompletedUnlessAborted`: completed means that nothing is left, but after a batch the Shell aborted; `SettledUntilRetried`; `CancelledPreparationStaysOut`. |
| `transfer` | a file or a directory copied or moved, within a volume or across, conflicts, pause, cancel | `NothingLost`: at every instant, wherever the process may end, a source is whole somewhere and what had its name at the destination is there, in its backup, or replaced by a whole file; `OutcomeTrue`: done, failed, cancelled and "source retained" mean what they say; `StillWhilePaused`; `WorkerLeaves`: a scanner blocked on its queue never holds the worker. |
| `cleanup` | two directories, crashes, failures, strangers, retries, fairness | `PayloadTracked`: a directory moved out of its place is named by the latest record on disk, at every instant; `ErasesOnlyRecorded`: what took its place survives; `ReleasedAfterQueued`: a queued clean-up that meets no failure releases all. |
| `download` | two streams, two permits, two versions, two faults, one pause, fairness of the copying thread | `BlocksInPlace`: each stream written is a prefix of that stream in the version found first; `CopiedIsWhole`; `PausedWritesNothing`; `CancelEnds` although calls may never return; `ServedCopyEnds`: with calls that return, the copy ends whatever permits were taken. Both set apart the wake-up of a cancellation that the thread misses (`WakeUpMissed`). |
| `control` | one pause, two files, one failure, fairness of the loops | `ConfirmedMeansStopped`: while the task shows "paused" the helper's copying thread waits or is on its way out; `ReplacedOnlyWhenTold`; `NothingLeftBehind`: crashed and killed helpers included; `CancelEnds`, whatever the helper hangs in; `ResumeReaches`, unless the helper can no longer exchange files. |
| `navigation` | a tab with a past, three kinds of places, two requests, all gestures | `CommitsWhole`: a page that becomes complete is the whole listing of the place the latest request asked for; `LoadIsServed`: a page shown as loading has its worker at work or its event in the queue; `LeavingKeepsPlaces`: what is left by a gesture stays in the history; `SelectionIsPicked`: on a complete page the selection stands for what the user picked. |
| `watch` | one tab, a watcher that fails and overflows, other programs, the program's own rename, copy, delete | `QuietIsFresh`: a tab with nothing on its way shows the disk. |
| `sizes` | one tab that scrolls, sorts by size, reloads, searches | `SizeIsOwn`: no row shows another folder's size; `QueryingIsUnderWay`: a row drawn as being queried has its query or its answer on its way; `SortCommitsWhole`: the sizes of a sort appear all at once; `SizesArrive`. |
| `exit_paused` | one local copy, pause, cancel, exit, fairness | **violated**: `ExitHappens`. |
| `selection_refresh` | one local place, select, F5 | **violated**: `SelectionIsAlwaysPicked`. |
| `cleanup_crash` | one directory, one crash | **violated**: `RecoveredIsReleased`. |

Every property of a passing run has a mutant: a variant of one definition that a
plausible mistake would make (the `\* Mutant:` definitions), which breaks the property.

### Fairness

`FairSpec` assumes that threads run. In `OperationLanes`: weak fairness on each lane's
worker, on the pump thread, on the UI thread's event handlers and on the preparation
threads. Worker and pump loop on blocking receives, `invoke_from_event_loop` handlers run
in order, and none of them waits for a user, except a worker in the conflict gate. Users
owe nothing: no user action is fair. `OperationSettles` and `ExitHappens` therefore carry
the one assumption the code makes of its user, `ConflictsAnswered`: a conflict window does
not stay open for ever. It is needed because `conflict_gate` is a blocking mutex: a
lane whose own task was cancelled waits inside it until the other lane's conflict is
answered. In `lanes` nobody pauses: with pauses the code keeps neither of them
(disagreement 1). `Unpark` is weakly fair in `FairSpec` all the same, and a cancellation
always ends the wait there; `lanes` never waits, and in `exit_paused`, which refutes, more
fairness than the code grants leaves fewer behaviours to refute with.

In `NetworkDownload` only the copying thread is fair. The waits of its loops have a
time-out, all but one: `wait_if_paused` sleeps on a condition variable until somebody
notifies it. So a thread that sleeps (`waiting = "asleep"`) owes nothing; a resume or a
cancellation that finds it asleep makes it `"woken"`, and from there it is fair again. A
cancellation that comes between the thread's look at the flag and its sleep
(`"parking"`) wakes nobody, since `cancel` does not take the mutex (FO:500-504), and
`CancelEnds` and `ServedCopyEnds` say so (`WakeUpMissed`). The readers are in calls to a
server that owes nothing, and `CancelEnds` needs nothing from them. `ServedCopyEnds`
states its two assumptions, `Served`: every call returns in the end, and a pause is
lifted, however often the thread wakes by itself and takes the mutex (strong fairness).

In `NetworkControl` the parent's loop and the monitor's are fair (both sleep 20 ms and
go round), so is the clock of the cancellation and the waking of a thread that a resume
has notified (`Woken`; resuming takes the mutex, so that notification is never missed).
A waiting thread owes nothing to a cancellation, which may be missed here too: the
operation returns because the parent kills the helper after a second.
The copying thread is not: it may hang in a call to the server at any place, and
nothing promised of the parent may depend on it. That a cancelling user need not answer a
conflict is `AskingIsCancelled`.

In `CleanupTask` the three threads are fair while the process runs; nobody owes a start
after a crash or a retry after a failure, and `ReleasedAfterQueued` says which of them
excuse it. In `FileTransfer` only the scanner and the worker's last step are:
`WorkerLeaves` is about them alone. In `FolderSizes` the two threads are (each loops on a
blocking receive; a query to Everything has a time-out of two seconds) and the timer that
drains the answers. `TabNavigation` and `WatchRefresh` are checked without fairness: their
properties say that what is owed is on its way, which a missing step of a live thread
cannot spoil.

### Disagreements with the repository's documents

1. **A completion that meets a pause is lost, and the application cannot be left** (run
   `exit_paused`). `finish` refuses every transition from `Paused`, and
   `finish_file_operation` drops the refusal (CO:714). When the pause lands between the
   worker's `Finished` and the handler on the UI thread, the task keeps its slot and
   nobody works on it; a resume only marks it as running again. The run then closes the
   window and chooses "cancel the tasks and exit": the task stays in `Cancelling` and the
   exit waits for it for ever, where `docs/foundation-plan.md:109` says that it waits for
   the terminal states and then exits.
2. **During a refresh a selection can stand for another file** (run `selection_refresh`).
   `accept_directory_batch` clears the selection at the first batch of a UNC place only
   (LIB:1236). For a local place F5 keeps the old ids selected while the page already
   shows the new rows, numbered in the order the directory was read now; until the load
   ends a command takes the file that has the id (`selected_paths_for_tab`).
   `docs/foundation-plan.md:420` says that old entry numbers are not handed to other
   files, and that F5 clears the selection.
3. **A crash in the middle of a record stops the clean-up for good** (run
   `cleanup_crash`). `write_cleanup_record` creates the temporary file of a generation
   with `create_new` (PF:1926); a process that ends before the rename leaves it, and each
   later write of that generation is refused, so the recovered task fails at its first
   record at every start, where
   `docs/postmortem/postmortem-2026-09-11-permanent-delete-cleanup.md:38` says that valid
   clean-up tasks are recovered after a restart.

### Seen while modelling

These have no run of their own. The properties name the case they set apart, and the
model has it. The first two contradict a document of the repository, as the three above.

- **A cancellation does not always wake a paused wait.** `cancel` stores its flag and
  notifies without the mutex (FO:500-504); a thread that has looked at the flag and not
  yet gone to sleep (FO:553-558) misses it and sleeps on, since the wait has no time-out.
  `docs/foundation-plan.md:124` says that cancelling must wake a paused wait. Stated
  without exception, as `cancelled ~> at \in Ended`, `CancelEnds` of `download` fails in
  nine steps: pause, the thread enters the wait, cancel, the thread sleeps. Inside the
  helper the kill after a second ends it; a local copy waits for ever.
- **An aborted batch is shown as completed.** What the Shell leaves of a batch that it
  aborts has neither failed nor succeeded (WK:1212), and a task without failures is
  completed, where `docs/foundation-plan.md:115` asks for an accurate partial completion.
  `rounds` has the abort; `CompletedUnlessAborted` without its exception fails there.
- A pause between a worker's conflict and its handler makes `set_conflict` refuse
  (APP:14261): the window closes at once while the worker keeps the gate.
- A resume and a second pause before the woken thread has relocked leave that pause
  unacknowledged (FO:546-559).
- A helper killed between the two renames of a replacement leaves the old file under its
  backup name only (PF:2674).
- Two instances: the scan at start discards the empty first record of a task another
  instance is creating; with `EarlyDelete = TRUE` `PayloadTracked` fails.
- A user who makes a directory in the place of a recorded one before the clean-up looks
  makes it fail at every retry. A write that fails after a move reports an item as failed
  that is gone.
- A cancelled replacement of a directory leaves its `.asterfiles-copy` tree (PF:2423); a
  rename replaces a file that appeared at the destination during the copy (PF:2593); a
  source edited between its copy and its removal is lost with its edit (PF:1212).
- A rename is projected on the row with the old name though that may be another file by
  then (`rename_updates.rs`): `QuietIsFresh` sets such tabs apart (`blind`). A change in
  the half second before a watcher starts is not seen; Escape restores the page as it was
  before the search.
- A search, then a place that fails, then Back shows the rows of the search as complete:
  `DirectoryShowsItsPlace` of `TabNavigation`, which no run checks, fails in five steps with
  the gestures of opening, history and search and two requests.
  A failed navigation followed by a successful F5 loses the place left from the history. A
  jump over three or more places reverses the order of the forward menu.
- A search left with Escape leaves a cancelled token in the tab: rows scrolled into view
  are drawn as queried and never are, until the next navigation (`SizesArrive` asks for a
  page that accepts). A scroll while a load is under way uses the slots for rows that
  will be gone, whose answers bring no further query. A full channel refuses a query as
  `TimedOut` though nothing was asked (APP:15882).

## 4. What is proved

For every value of the constants (any number of tasks, rounds, conflicts, recovered
records, pauses), under the named assumptions `NoOpAssumption`, `LanesAssumption`,
`MaxPausesAssumption` and those named below:

- `TypesHold`: `Spec => []TypeOK`, and `BooksConsistent`:
  `Spec => []ManagerConsistent`, in `OperationLanesProofs`. `ManagerConsistent` is what
  `require_active_mut` and the `expect("queued task must exist")` of `start_next` rest
  on: a slot holds a task of its lane that is in progress, nothing is in progress
  outside a slot, a queue holds Queued tasks of its lane, each once.

  The inductive invariant is `LanesInv == TypeOK /\ ManagerConsistent`. Neither half is
  inductive alone: the handlers write into a task what an event carries, so the books
  need the types of the two event queues; and the request that `start_next` sends is
  typed only because the slot it filled holds a task. The proof is in two layers.
  The first part of the module shows that each operator keeps `ManagerInv` in isolation
  (`StartNextKeeps`, `FinishKeeps`, `CancelKeeps`, `RetryKeeps`, `SubmitKeeps`,
  `SubmitRecoveredKeeps`, `CompletePreparationKeeps`, `PruneKeeps`, ...), from three
  facts about changing a manager: a change of a task in place keeps it when the state
  stays on its side of "in progress" (`InPlaceKeeps`), a queue may be replaced by one
  that fits (`ReplaceQueueKeeps`), a task outside the queues and slots may change freely
  (`OffQueueKeeps`). The second has one case per action, each citing the operators the
  action composes.

- `ExecutionHolds`, `NoIdleLane`, `HistoryStaysBounded`, `QuitsWhenQuiet`,
  `SettledTasksStay`, `CancelledRenamesStayOut` and `CompletedStaysComplete` in
  `OperationLanesProofs`: `ExecutionHoldsSlot`, `NoIdleLaneWithWork`, `UndoBounded`,
  `QuitWhenQuiet`, `SettledUntilRetried`, `CancelledPreparationStaysOut` and
  `CompletedUnlessAborted` for any number of tasks, rounds, conflicts, pauses,
  cancelled renames and recovered records. The last needs no hypothesis on the Shell: the
  step that matters is how the worker ends (`FinishRequest`), where an item is left only
  after a cancellation, which the task then shows, or in a batch of recycle deletes that
  the Shell aborted. What the completion says of its task has to stay true until it is
  handled (`Served`: while it is on its way the task may still be cancelled, but not
  change its kind or lose its cancellation), and then gives the task its state and its
  items together (`AllComplete`).

  None of them is inductive on the books alone. `ServiceInv` is `LanesInv` with
  `Serving` and `ClosedIsQuiet`. Its centre is `InStep`, over the four places the round
  of a task can be in: the channel of its lane, its worker, the worker events, the UI
  queue. Per lane at most one of request, worker and completion is there, and it is about
  the task in the slot, in its present round; every event is about a task that holds a
  slot (`AllServed`); and the completion is the last event of its task, within a queue
  and across the two (`LastOfIts`, `LastBefore`). The order is what makes it inductive:
  when a handler frees the slot, nothing of that round may still be behind it. `NoneIdle`
  says that a free slot has an empty queue; each handler keeps it because it starts the
  lane whose slot it frees or whose queue it grows. `InGoodOrder` says what tasks show:
  renames still prepared are out of queues and slots, an active task is marked as
  cancelled exactly when it shows so, and while the history runs an undo the local slot
  holds it. The lemmas on the manager say, per operator, what it does
  to the slots, queues and tasks it finds (`Continues`: slots go on, nothing enters a
  queue but what is named, no settled task changes but by a retry), and the channels and
  events are followed by lemmas of their own over plain sequences.

- `UndosOwnTheirEntry`, `CompletionsSettle`, `KeepsTheContract` in
  `OperationLanesProofs`: `UndoOwnedByTask`, `CompletionSettlesTask` and the refinement
  `ImplementsContract`, for any number of tasks, rounds and conflicts. `CompletionsSettle`
  allows pauses: it says that a pause is the only thing that can make `finish` refuse.
  The other two hold as long as nobody pauses a task (hypothesis `NoPause`, that is
  `"pause" \notin UserActions`, as in run `lanes`), which is needed: a completion that is
  refused leaves its task in the slot for ever (disagreement 1).

  All three need the converse of `InStep`: `Accounted` says that every slot is accounted
  for. If neither a request nor a worker is about the task in it, a completion is under
  way (`OnItsWay`, if nobody pauses); the task may end (`MayEnd`: only a recycle batch has
  not begun, and if nobody pauses no task is paused); it waits for an answer only while
  its worker does (`AnswerDue`); and the events tell the truth (`News`: a conflict under
  way, unless its task is cancelled, is the only one of its task and has a worker waiting;
  a recycle batch that removed something is known to have begun before it is known to have
  ended). From it follows that `finish` grants every completion whose task is not paused
  when it is handled (`CompletionGranted`): the answer to a conflict, the report of a batch
  and the completion come in the order that makes it so, whatever pauses fall between.
  TLC checked `Accounted` on the instance of `rounds` and on one with conflicts, pauses
  and undo before the proof.

  The refinement is proved step by step: the initial states map to `ContractInit`
  (nothing is present); `PhasesAreRead` shows that under the invariants the phase is a
  function of the state of the task, so that `"lost"` does not occur; `ContractAdvances`
  maps each step of `Next` to a step of the contract for each operation (`Contracted`,
  shown for every handler together with `Accounted'` as `GoesOn`); and `ServedAlone`
  gives `AtMostOneServed` from the books.

- `AckIsHonest`, `NoLostResume`, `TokenTypes` in `FileTransferProofs`: the theorems about
  `PauseToken` alone. `TokenInv` adds to
  the two properties who holds the mutex (`locked <=> worker \in {"testing", "parking"}`)
  and that a thread between test and sleep is paused: without it, a resume might fall
  between the two.

- `TransferUsesToken`, `PausedIsStill`, `TransferLosesNothing` in `FileTransferProofs`:
  the copy implements the token (each step of worker, scanner, disk or user is a step of
  `PauseToken` or leaves the token alone), so `TokenInv` holds inside a copy and with the
  types gives `StillWhilePaused`; and `NothingLost`, for every set of names, every
  request and every bound (`TransferAssumption`). `NothingLost` speaks of single steps,
  so each that takes something away needs to know that a whole copy has a name.
  `TransferInv` says so: no source is removed by a copy (`SourceStays`), the step after a
  swap finds the new content under the destination's name (`SwapDone`), the steps after a
  file's copy find a whole one (`CopyDone`), and a staged directory holds everything seen
  before its source goes (`Staged`: `StagedOnly`, `FreshTree`, `SeenStaged`, `TreeDone`).

- `OutcomeIsTrue` in `FileTransferProofs`: `OutcomeTrue`, under the same assumption (which
  also keeps the scanner's messages apart from names). The outcome is one word at the end
  of a long run, so `HonestInv` relates what was done so far to the disk at every place of
  the worker. `Listing`: a file to be copied is still to be listed, in the queue, at the
  worker or at its place, and the end comes last in the queue; hence "done" means that
  every file arrived. `Intact`: until a source is removed (`gone`), every file with a new
  copy has its source; the code tells a plain error only then, and "source retained"
  after. `Temps`, `Stages`: which temporary file, backup and staged tree can be there at
  each place. `Waits`: only a check point is left by a cancellation. `HonestInv` holds on
  top of `TransferInv`; TLC checked its parts on two files, two faults and two changes
  (2.9 million states) before the proof.

- `MovedIsTracked`, `OnlyRecordedErased` in `CleanupTaskProofs`: `PayloadTracked` and
  `ErasesOnlyRecorded` for any number of directories, crashes, failures, strangers and
  retries, with one instance (hypothesis `~EarlyDelete`: the scan of a second instance
  discards the empty first record of a task that is being created, and the first
  property fails). Both speak of the latest record, which a crash may leave at any
  number, while each worker holds a record of its own that it is about to publish or to
  act upon. `CleanupInv` says that the records on disk are numbered without a gap, so
  that there is a latest one and pruning the oldest keeps it (`Consecutive`); who may be
  at work, since nobody is before the scan at start is answered and then one worker at a
  time (`Turns`); and how the record a worker holds compares with the latest one at each
  of its places (`MakeInStep`, `CleanInStep`).

- `WrittenInPlace`, `KeptIsWhole`, `PauseDiscardsReaders`, `PauseStopsWriting` in
  `NetworkDownloadProofs`: the four safety properties of the download, for any streams,
  number of permits, versions, faults and pauses (`SizesAssumption`,
  `BoundsAssumption`). `BlocksInPlace` is not inductive: a block is right only because
  of how it came to be. `DownloadInv` follows it back: the block about to be written,
  the message in the channel and the one about to be sent are the block of the version
  found first at their offset, and a reader that holds its handle holds it on that
  version (`BlocksOfExpected`); only the worker the copying thread listens to is live
  (`OneLiveWorker`); the streams before the present one are complete (`StreamsDone`);
  an acknowledged thread is at a wait (`AckAtWait`).

- `ControlTypes`, `ConfirmedIsStopped`, `ReplacedAsTold`, `NothingIsLeft` in
  `NetworkControlProofs`: the safety properties of the network control, for any
  number of pauses, files and failures (`BoundsAssumption`). What the task shows in one
  process speaks of a thread in another, so `ControlInv` links them number by number:
  what the parent sent last, what lies in the control file, what the monitor read and
  what it confirmed never decrease along that line (`CommandsInStep`); the number
  confirmed is the number read only while the helper's token is acknowledged
  (`ConfirmedInHelper`); a task shown as paused has the last number confirmed, and the
  last command was a pause (`ConfirmedInParent`). Then the four numbers are equal, and
  the thread waits. `AnswersInStep` does the same for conflicts and answers,
  `TemporaryInStep` says when the file is registered and when it can be there.

- `SizesAreOwn`, `SortsCommitWhole` in `FolderSizesProofs`: `SizeIsOwn` and
  `SortCommitsWhole` for any number of folders, slots, requests, scrolls and sorts
  (`SizeAssumption`: Unknown is neither a size nor a failure). `SizesInv` follows a size
  from Everything to the row: an answer on its way is one about the folder its query
  names (`AnswersOwn`), a sort keeps each answer under its own key, asks only for folders
  it has frozen, and has frozen finitely many (`SchedGood`), and every row in the tab,
  those still loading and those a search has set aside included, is right (`TabGood`).
  That as many answers as frozen folders means all of them is then a fact about finite
  sets.

- `QueriesAreUnderWay` in `FolderSizesProofs`: `QueryingIsUnderWay`, for any capacity of
  the channel too. `SizesUnderWay` counts by generation: what bears the scheduler's
  generation is of its request and strategy, nothing bears a later one (`QueryOf`), and
  in the four stages together (requests, channel, batch, events) each key under way is
  asked for exactly once (`Carries`). A restart begins a generation nothing bears yet
  (`RestartUnderWay`); a submission adds keys that are not taken (`NextIsNew`); an answer
  of the generation in force is always accepted and takes its key away
  (`AnswerUnderWay`); and a page once left is accepted again only under another request
  (`SameUnderWay`), so that an answer dropped for a page that is gone is missed by nobody.

- `LimitsAreKept`, `TypesHold` in `FolderSizesProofs`: `AskedWithinLimit` (no more folders
  are asked about at a time than there are slots) and `TypeOK`, for any number of folders
  and slots. That the first `Room` keys of a list are at most `Room` needs each key to
  have its own number of keys before it, hence that no two share a name (`FirstFew`).
  `InLimits` says so of every set of rows a query is chosen from: an id lies within the
  folders of a page, a listing names each folder once, and the names it has yet to send
  are not among the rows it has sent (`ListingGoesOn`).

- `TypesHold`, `LoadsAreServed`, `SelectionsArePicked`, `CommitsAreWhole`, `PlacesAreKept`
  in `TabNavigationProofs`: `TypeOK`, `LoadIsServed`, `SelectionIsPicked`, `CommitsWhole`
  and `LeavingKeepsPlaces` for any places of any kinds, any number of files in them, of
  requests and of places in the queue (`PlacesAssumption` and the assumptions on `PerPlace`,
  `MaxRequests` and `QueueCap`). A load is whole only because of everything that was done
  for it, and a selection is right only because ids have kept their files, so the
  invariant `IInv` follows both. `Sound` is the tab by itself: the token is the one of the
  request under way (`InRequest`), no row is there twice and the index is the one of the
  rows shown (`InLists`), the place travelled to is in the history (`InHistory`). `InPicks`
  says which ids stand for picked files, in each list a tab keeps: the rows committed,
  those of a share that arrive and those a search has put away; local rows that arrive are
  left out because there it is false (disagreement 2). `Ordered` says that nothing is known
  of a request not made yet. `InService` is about the request under way: it has at most
  one event in the queue, and its rows, those in the queue and those still to be read are
  the place, once each (`WholeListing` makes a commit of it). Each operation of the
  session has a lemma of what it leaves and one that it keeps `Sound` and `InPicks`. The
  session's `Sorted` is stated as the one sequence in order with the same rows
  (`CHOOSE`), which is what its proofs use; TLC evaluates it for the small instance.

- `RowsAreFresh`, `TypesHold` in `WatchRefreshProofs`: `QuietIsFresh` and `TypeOK` for any
  tabs, names, operations, bounds and hazards (`BoundsAssumption`, and
  `NoWatchAssumption`: none is nothing else). `QuietIsFresh` speaks of the moment when
  nothing is on its way; the invariant `IInv` says of every moment what will put a wrong
  row right. `InView`: a file that a tab on the screen shows wrongly is still to be read
  by its listing, or `Owed`. It is `Held` by a notification, by what waits in the pump, by
  a retry that comes back from the window, by a batch left to the operations while one
  works, or by a listing that follows one; or it is `Probed`, by a comparison that has still to
  read it, or has read it as it is and therefore finds it, or has found it, or is stale
  and so comes back as a retry. A notification counts only if the tab will not drop it
  (`Bears`): the request it was seen under is the latest, or the tab does not load, or
  what loads is a refresh. So every step that takes one of these away has to be shown to
  put another in its place: the turn of the pump (`PumpView`), the end of a sample
  (`SampleView`), the window's answer (`ApplyView`), the end of an operation
  (`FinishedView`). A rename shown in place changes rows with no listing at all:
  `InRename` says that a finished rename still fits the disk or the tab is owed the name.
  The rest, `Basis`, is kept by every step by itself: the types; `InOps`, that one
  operation at a time is on the local lane and a version is written once; `InListing`,
  that a tab loads exactly when it has a job and lists a name once; `InProbe`, that a
  probe which is not stale has the rows of its tab; `InNotes`, that what waits says
  something, of a request that was made. TLC checked `IInv`, part by part, on the instance of
  `watch` before the proof. Tabs set apart by `blind` are outside the theorem as they are
  outside the property.

Only model-checked: the liveness properties (`OperationSettles`, `ExitHappens`,
`CancelEnds`, `SizesArrive` and the like), since fairness and `ENABLED` are outside the
prover, with `ReleasedAfterQueued` of the clean-up among them. Every safety property that
a passing run checks is proved.

## 5. Not modelled

- Of the lanes: `DestinationCreated`, `CopyRecovery`, `PermanentDeleteStage` and progress
  events change progress figures and marks of the row, never a state, a slot or a queue.
  Those of them that are queued on the UI thread run the common tail once more, which
  finds what the tail of the last handler left. Creating, linking and renaming item by
  item, drop staging, and `fail_operation_dispatch` (the dispatcher's channel lives as
  long as the application, so its error branch is not reachable). Age limits of `prune`:
  which receipts have expired is a free choice (`PruneTasks`).
- Of a transfer: nested directories, links, attributes, alternate streams, block cloning
  and the choice between copying engines; progress.
- Of the clean-up: several tasks at once, the sizes it reports, deletes on the network
  (refused by the code).
- Of a network copy: scan and progress snapshots, the recycle and the permanent delete
  in the helper, `retired` staging files, the upload with Robocopy and its staging
  directory, the `recovering` mark.
- Of a tab: further pages of a search, sorting by other fields, range selection and
  focus, drawing, moving a tab between windows; libraries of several roots; the limits per
  server of the network queue.
- Of watching: renamed ancestors of the place shown, image caches, the paths on the
  clipboard.
- Of the folder sizes: several tabs that share the channel and the preference for the
  active one, the pipe to Everything, renamed folders, switching Everything off.
- Network discovery, thumbnails, windows and tab drag, session store, audit log, the
  WebDAV client: not yet, see the plan. Shell integration and user interface: COM and
  Win32 calls, Slint projection, layout and texts, which a state machine says nothing
  about.

## 6. Plan

1. `Thumbnails`: the latest plan wins, answers of older ones are dropped, budgets.
2. Everything's search pages in `TabNavigation`: the next page while the first is shown.
3. `Discovery`: request ids, batches and the idle time-out.
4. The Robocopy upload: staging directory, inspection of what Robocopy left, commit,
   `retired` staging files and their later clean-up.
5. Session store: replace by rename, and what a crash between two writes leaves.
6. Tabs moved between windows: who owns a tab whose request is on its way.
