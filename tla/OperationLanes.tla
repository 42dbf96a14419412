----------------------------- MODULE OperationLanes -----------------------------
(***************************************************************************)
(* File operations from the click to the settled task: the coordinator     *)
(* (src/app/file_operation_coordinator.rs), the three lane workers         *)
(* (src/app/file_operation_worker.rs), the event pump and the window       *)
(* callbacks (src/app.rs, src/app/actions.rs), around the manager of       *)
(* OperationManager.                                                       *)
(*                                                                         *)
(* Threads: the UI thread runs every user action and every queued event    *)
(* handler, one at a time; the pump thread moves worker events to the UI   *)
(* queue; one thread per lane executes requests; each rename has a         *)
(* preparation thread.  They share the application state under one lock,   *)
(* so every handler is one atomic step, and talk through channels.  Hiding *)
(* the last window ends the event loop and the process: no action is       *)
(* enabled once open is FALSE.                                             *)
(***************************************************************************)
EXTENDS OperationManager

CONSTANTS
  NoLane,        \* nobody holds the conflict gate
  MaxTasks,      \* bound: the user enqueues while next_id <= MaxTasks
  MaxRounds,     \* bound: execution rounds of a task
  MaxConflicts,  \* bound: conflicts one round raises
  MaxRecovered,  \* bound: cleanup records found at start-up
  UndoLimit,     \* UndoHistory::MAX_ENTRIES
  Submittable,   \* the <<kind, lane>> pairs the user enqueues
  Retriable,     \* the kinds of task the user retries
  UserActions,   \* which of the optional user actions happen at all
  Outcomes,      \* the outcomes of a round that are tried
  ShellAborts    \* whether the Shell may abort a recycle batch on its own

\* What a round did: whether some item succeeded, failed, kept its source after
\* a move, or was left undone.
Outcome == [succeeded: BOOLEAN, failed: BOOLEAN, retained: BOOLEAN, left: BOOLEAN]

ASSUME LanesAssumption ==
  /\ NoLane \notin Lanes
  /\ {MaxTasks, MaxRounds, MaxConflicts, MaxRecovered, UndoLimit} \subseteq Nat
  /\ MaxRounds > 0 /\ UndoLimit > 0
  /\ Submittable \subseteq {"Copy", "RecycleDelete", "PermanentDelete"} \X {"Local", "Network"}
  /\ Outcomes \subseteq Outcome
  /\ ShellAborts \in BOOLEAN

VARIABLES
  manager,     \* app.operations
  preparing,   \* renames whose preparation thread has not reported yet
  inbox,       \* [Lanes -> Seq(request)]: sent to a lane worker, not taken
  worker,      \* [Lanes -> what the lane's thread is doing]
  gate,        \* the lane whose worker holds conflict_gate, or NoLane
  reply,       \* [Lanes -> BOOLEAN]: a decision waits in the conflict channel
  events,      \* worker events the pump has not received
  uiQueue,     \* events handed to the UI thread, not handled
  responses,   \* app.conflict_responses: the ids with a response sender
  dialog,      \* the operation the conflict window is open for, or NoOp
  undo,        \* UndoHistory: entries and whether one is in progress
  confirming,  \* the exit confirmation is on screen
  exiting,     \* app.exit_after_cancel
  open,        \* the application still has its window
  scanned      \* the start-up scan for cleanup records has reported

vars == <<manager, preparing, inbox, worker, gate, reply, events, uiQueue,
          responses, dialog, undo, confirming, exiting, open, scanned>>

ui == <<undo, confirming, exiting, open, scanned>>
work == <<worker, gate, reply, events>>

Request == [id: Nat, round: Nat]
Event ==
  [type: {"Executing", "Conflict"}, id: Nat]
  \cup [type: {"Finished", "Committed"}, id: Nat, outcome: Outcome,
        undoable: BOOLEAN, cleanup: BOOLEAN]

\* The worker's view of its request.
WorkerState == [pc: {"idle", "run", "parked", "gate", "waiting"}, id: Nat, round: Nat,
                conflicts: Nat, executing: BOOLEAN]
Idle == [pc |-> "idle", id |-> 0, round |-> 0, conflicts |-> 0, executing |-> FALSE]

Init ==
  /\ manager = NewManager
  /\ preparing = {}
  /\ inbox = [l \in Lanes |-> <<>>]
  /\ worker = [l \in Lanes |-> Idle]
  /\ gate = NoLane
  /\ reply = [l \in Lanes |-> FALSE]
  /\ events = <<>>
  /\ uiQueue = <<>>
  /\ responses = {}
  /\ dialog = NoOp
  /\ undo = [entries |-> 0, running |-> FALSE]
  /\ confirming = FALSE /\ exiting = FALSE /\ open = TRUE /\ scanned = FALSE

-----------------------------------------------------------------------------
(* Helpers of the coordinator.                                              *)

UsesLocalRecycleBatch(task) == task.kind = "RecycleDelete" /\ task.lane = "Local"

\* The batch stays in Preflight until the Shell reports that it executes.
MarkRunningIfReady(m, id) ==
  IF UsesLocalRecycleBatch(m.tasks[id]) THEN m ELSE MarkRunning(m, id)

StartAndMark(m, lane) ==
  LET s == StartNext(m, lane)
  IN  IF Started(m, s, lane) THEN MarkRunningIfReady(s, s.active[lane]) ELSE s

\* The request carries the task's current token, named here by its round.
RequestFor(m, id) == [id |-> id, round |-> m.tasks[id].round]

\* The lane channels after the requests start_next produced were sent.
Deliver(before, after) ==
  [l \in Lanes |->
     IF Started(before, after, l)
     THEN Append(inbox[l], RequestFor(after, after.active[l]))
     ELSE inbox[l]]

\* Mutant: the cancellation is not considered.
TerminalStateUncancelled(cancelled, outcome) ==
  IF outcome.retained \/ (outcome.failed /\ outcome.succeeded) THEN "PartiallyCompleted"
  ELSE IF outcome.failed THEN "Failed" ELSE "Completed"

\* Mutant: one item that succeeded makes the task complete.
TerminalStateAnySuccess(cancelled, outcome) ==
  IF outcome.retained \/ cancelled THEN "PartiallyCompleted"
  ELSE IF outcome.succeeded THEN "Completed" ELSE "Failed"

TerminalState(cancelled, outcome) ==
  IF outcome.retained THEN "PartiallyCompleted"
  ELSE IF cancelled /\ ~outcome.succeeded /\ ~outcome.failed THEN "Cancelled"
  ELSE IF cancelled \/ (outcome.failed /\ outcome.succeeded) THEN "PartiallyCompleted"
  ELSE IF outcome.failed THEN "Failed" ELSE "Completed"

\* The item states of an event are written to the task before it is finished.
WithItemStates(m, e) ==
  IF Present(m, e.id)
  THEN [m EXCEPT !.tasks[e.id].retryable = e.outcome.failed \/ e.outcome.left]
  ELSE m

\* What the handlers read of a task the manager no longer has.
LaneOf(m, id) == IF Present(m, id) THEN m.tasks[id].lane ELSE "Local"
KindOf(m, id) == IF Present(m, id) THEN m.tasks[id].kind ELSE "Copy"
IsCancelled(m, id) == Present(m, id) /\ m.tasks[id].cancelled

\* The handlers ignore a refusal by finish.
Settled(m, e) == Finish(m, e.id, TerminalState(IsCancelled(m, e.id), e.outcome))

\* The worker blocked on id's conflict gets a decision, if the sender is there.
Answer(id) ==
  /\ responses' = responses \ {id}
  /\ reply' = [l \in Lanes |->
                 reply[l] \/ (id \in responses /\ worker[l].pc = "waiting" /\ worker[l].id = id)]

-----------------------------------------------------------------------------
(* User actions, on the UI thread.                                          *)

MayEnqueue == open /\ manager.next <= MaxTasks

EnqueueOperation(kind, lane) ==
  /\ MayEnqueue
  /\ LET m == Submit(manager, kind, lane, FALSE)
     IN  manager' = StartAndMark(m, lane) /\ inbox' = Deliver(m, manager')
  /\ UNCHANGED <<preparing, work, uiQueue, responses, dialog, ui>>

EnqueueRename ==
  /\ MayEnqueue /\ "rename" \in UserActions
  /\ manager' = SubmitPreparing(manager)
  /\ preparing' = preparing \cup {manager.next}
  /\ UNCHANGED <<inbox, work, uiQueue, responses, dialog, ui>>

\* The preparation thread: only now is it known which lane the paths need.
RenamePrepared(id, lane) ==
  /\ open
  /\ preparing' = preparing \ {id}
  /\ IF PreparationAccepted(manager, id)
     THEN LET m == CompletePreparation(manager, id, lane)
          IN  manager' = StartAndMark(m, lane) /\ inbox' = Deliver(m, manager')
     ELSE UNCHANGED <<manager, inbox>>
  /\ UNCHANGED <<work, uiQueue, responses, dialog, ui>>

LocalBusy ==
  \E id \in DOMAIN manager.tasks :
    manager.tasks[id].lane = "Local" /\ IsActive(manager.tasks[id].state)

\* Mutant: begin peeks at the entry instead of taking it.
RequestUndoPeeking ==
  /\ MayEnqueue /\ "undo" \in UserActions
  /\ ~LocalBusy /\ ~undo.running /\ undo.entries > 0
  /\ LET m == Submit(manager, "Undo", "Local", FALSE)
         s == StartNext(m, "Local")
     IN  /\ manager' = MarkRunning(s, s.active["Local"])
         /\ inbox' = Deliver(m, manager')
         /\ undo' = [undo EXCEPT !.running = TRUE]
  /\ UNCHANGED <<preparing, work, uiQueue, responses, dialog, confirming, exiting, open, scanned>>

\* An undo that does not start gives its entry back.
RequestUndo ==
  /\ MayEnqueue /\ "undo" \in UserActions
  /\ ~LocalBusy /\ ~undo.running /\ undo.entries > 0
  /\ LET m == Submit(manager, "Undo", "Local", FALSE)
         s == StartNext(m, "Local")
     IN  IF Started(m, s, "Local")
         THEN /\ manager' = MarkRunning(s, s.active["Local"])
              /\ inbox' = Deliver(m, manager')
              /\ undo' = [entries |-> undo.entries - 1, running |-> TRUE]
         ELSE /\ manager' = [manager EXCEPT !.next = @ + 1]
              /\ UNCHANGED <<inbox, undo>>
  /\ UNCHANGED <<preparing, work, uiQueue, responses, dialog, confirming, exiting, open, scanned>>

CommittedCleanup(task) == task.kind = "PermanentDelete" /\ task.lane = "Cleanup"

\* actions::cancel, behind cancellation_reason.
CancelTask(id) ==
  /\ open /\ "cancel" \in UserActions
  /\ ~CommittedCleanup(manager.tasks[id])
  /\ IsActive(manager.tasks[id].state) /\ manager.tasks[id].state # "Cancelling"
  /\ manager' = Cancel(manager, id)
  /\ Answer(id)
  /\ UNCHANGED <<preparing, inbox, worker, gate, events, uiQueue, dialog, ui>>

\* The row offers the button for these tasks only (can_pause).
PauseOrResume(id) ==
  LET task == manager.tasks[id]
  IN  /\ open /\ "pause" \in UserActions
      /\ ~UsesLocalRecycleBatch(task) /\ ~CommittedCleanup(task)
      /\ task.state \in {"Running", "Paused"}
      /\ manager' = Update(manager, id, SetPaused(task, task.state = "Running"))
      /\ UNCHANGED <<preparing, inbox, work, uiQueue, responses, dialog, ui>>

\* The row offers the button for these tasks only (can_retry).
RetryTask(id) ==
  /\ open /\ manager.tasks[id].kind \in Retriable
  /\ manager.tasks[id].kind # "Undo"
  /\ manager.tasks[id].state \in {"Failed", "PartiallyCompleted"}
  /\ manager.tasks[id].round < MaxRounds
  /\ RetryAccepted(manager, id)
  /\ LET m == Retry(manager, id)
         lane == manager.tasks[id].lane
     IN  manager' = StartAndMark(m, lane) /\ inbox' = Deliver(m, manager')
  /\ UNCHANGED <<preparing, work, uiQueue, responses, dialog, ui>>

\* Any of the conflict window's buttons, or closing it (which skips the item).
ResolveDialog ==
  /\ open /\ dialog # NoOp
  /\ manager' = IF Present(manager, dialog)
                THEN Update(manager, dialog, ResolveConflict(manager.tasks[dialog]))
                ELSE manager
  /\ Answer(dialog)
  /\ dialog' = NoOp
  /\ UNCHANGED <<preparing, inbox, worker, gate, events, uiQueue, ui>>

\* Closing the last window asks first when a foreground task is active.
CloseLastWindow ==
  /\ open /\ "exit" \in UserActions
  /\ IF HasForegroundActiveTasks(manager)
     THEN confirming' = TRUE /\ open' = open
     ELSE open' = FALSE /\ confirming' = confirming
  /\ UNCHANGED <<manager, preparing, inbox, work, uiQueue, responses, dialog, undo, exiting, scanned>>

WaitForTasks ==
  /\ open /\ confirming
  /\ confirming' = FALSE
  /\ UNCHANGED <<manager, preparing, inbox, work, uiQueue, responses, dialog, undo, exiting, open, scanned>>

ActiveIds(m) == {id \in DOMAIN m.tasks : IsActive(m.tasks[id].state)}

\* cancel_operations on every active task, cleanups included.  A queue holds
\* Queued tasks only (QueuesHoldQueuedTasks), so each queued id is dropped.
AllCancelled(m) ==
  [m EXCEPT !.tasks = [id \in DOMAIN m.tasks |->
                         IF id \in ActiveIds(m) THEN RequestCancel(m.tasks[id]) ELSE m.tasks[id]],
            !.queues = [l \in Lanes |-> <<>>]]

CancelTasksAndExit ==
  /\ open /\ confirming
  /\ confirming' = FALSE
  /\ exiting' = TRUE
  /\ manager' = AllCancelled(manager)
  /\ responses' = responses \ ActiveIds(manager)
  /\ reply' = [l \in Lanes |->
                 \/ reply[l]
                 \/ /\ worker[l].pc = "waiting"
                    /\ worker[l].id \in responses \cap ActiveIds(manager)]
  /\ dialog' = NoOp
  /\ open' = HasActiveTasks(manager')
  /\ UNCHANGED <<preparing, inbox, worker, gate, events, uiQueue, undo, scanned>>

\* The 250 ms timer of the operation window.
PruneTasks(expired) ==
  /\ open /\ Prune(manager, expired) # manager
  /\ manager' = Prune(manager, expired)
  /\ UNCHANGED <<preparing, inbox, work, uiQueue, responses, dialog, ui>>

\* The start-up scan reports its records: all are queued, the first starts.
RecoverCleanups(count) ==
  LET m == SubmitRecovered(manager, count)
  IN  /\ open /\ ~scanned
      /\ scanned' = TRUE
      /\ manager' = StartAndMark(m, "Cleanup")
      /\ inbox' = Deliver(m, manager')
      /\ UNCHANGED <<preparing, work, uiQueue, responses, dialog, undo, confirming, exiting, open>>

-----------------------------------------------------------------------------
(* A lane worker.                                                           *)

\* The request carries its token as an Arc.  It is the task's current one as long
\* as the worker executes the round the task is in (ExecutionHoldsSlot).
Token(l) == manager.tasks[worker[l].id]

WorkerStep(l, next) ==
  /\ open
  /\ worker' = [worker EXCEPT ![l] = next]
  /\ UNCHANGED <<manager, preparing, uiQueue, responses, dialog, ui>>

TakeRequest(l) ==
  /\ worker[l].pc = "idle" /\ inbox[l] # <<>>
  /\ inbox' = [inbox EXCEPT ![l] = Tail(@)]
  /\ WorkerStep(l, [Idle EXCEPT !.pc = "run", !.id = Head(inbox[l]).id,
                                !.round = Head(inbox[l]).round])
  /\ UNCHANGED <<gate, reply, events>>

\* wait_if_paused, which PauseToken and NetworkDownload model step by step: there the
\* wake-up of a cancel can be missed.  Nothing that rests on fairness is claimed of a
\* run that pauses, but for the opposite: exit_paused refutes ExitHappens.
Park(l) ==
  /\ worker[l].pc = "run" /\ Token(l).paused /\ ~Token(l).cancelled
  /\ WorkerStep(l, [worker[l] EXCEPT !.pc = "parked"])
  /\ UNCHANGED <<inbox, gate, reply, events>>

Unpark(l) ==
  /\ worker[l].pc = "parked" /\ (~Token(l).paused \/ Token(l).cancelled)
  /\ WorkerStep(l, [worker[l] EXCEPT !.pc = "run"])
  /\ UNCHANGED <<inbox, gate, reply, events>>

\* The Shell begins to execute a recycle batch.
ReportExecuting(l) ==
  /\ worker[l].pc = "run" /\ UsesLocalRecycleBatch(Token(l)) /\ ~worker[l].executing
  /\ WorkerStep(l, [worker[l] EXCEPT !.executing = TRUE])
  /\ events' = Append(events, [type |-> "Executing", id |-> worker[l].id])
  /\ UNCHANGED <<inbox, gate, reply>>

MeetConflict(l) ==
  /\ worker[l].pc = "run" /\ Token(l).kind = "Copy" /\ ~Token(l).cancelled
  /\ worker[l].conflicts < MaxConflicts
  /\ WorkerStep(l, [worker[l] EXCEPT !.pc = "gate"])
  /\ UNCHANGED <<inbox, gate, reply, events>>

EnterGate(l) ==
  /\ worker[l].pc = "gate" /\ gate = NoLane
  /\ gate' = l
  /\ WorkerStep(l, [worker[l] EXCEPT !.pc = "waiting", !.conflicts = @ + 1])
  /\ events' = Append(events, [type |-> "Conflict", id |-> worker[l].id])
  /\ UNCHANGED <<inbox, reply>>

\* Mutant: the gate's guard outlives the conflict.
LeaveGateClosed(l) ==
  /\ worker[l].pc = "waiting" /\ (reply[l] \/ Token(l).cancelled)
  /\ reply' = [reply EXCEPT ![l] = FALSE]
  /\ WorkerStep(l, [worker[l] EXCEPT !.pc = "run"])
  /\ UNCHANGED <<inbox, gate, events>>

\* A decision arrived, or the 50 ms poll saw the cancellation.
LeaveGate(l) ==
  /\ worker[l].pc = "waiting" /\ (reply[l] \/ Token(l).cancelled)
  /\ gate' = NoLane
  /\ reply' = [reply EXCEPT ![l] = FALSE]
  /\ WorkerStep(l, [worker[l] EXCEPT !.pc = "run"])
  /\ UNCHANGED <<inbox, events>>

\* What a round can end with: an item is left over only by a cancellation, or
\* by a batch the Shell aborted; only a moved item can keep its source; and a
\* recycle batch removes nothing before it reported that it executes.
Feasible(l, outcome) ==
  /\ outcome.left => Token(l).cancelled \/ (ShellAborts /\ UsesLocalRecycleBatch(Token(l)))
  /\ outcome.retained => outcome.succeeded /\ Token(l).kind = "Copy"
  /\ UsesLocalRecycleBatch(Token(l)) /\ outcome.succeeded => worker[l].executing
  /\ Token(l).kind # "Copy" => outcome.succeeded \/ outcome.failed \/ outcome.left

CommitsOnly(task) == task.kind = "PermanentDelete" /\ task.lane = "Local"

FinishRequest(l, outcome, undoable, cleanup) ==
  /\ worker[l].pc = "run"
  /\ Feasible(l, outcome)
  /\ undoable => /\ outcome.succeeded /\ ~outcome.failed /\ ~outcome.retained /\ ~outcome.left
                 /\ l = "Local" /\ Token(l).kind \in {"Copy", "Rename", "RecycleDelete"}
  /\ cleanup => CommitsOnly(Token(l)) /\ outcome.succeeded
  /\ events' = Append(events,
                 [type |-> IF CommitsOnly(Token(l)) THEN "Committed" ELSE "Finished",
                  id |-> worker[l].id, outcome |-> outcome,
                  undoable |-> undoable, cleanup |-> cleanup])
  /\ WorkerStep(l, Idle)
  /\ UNCHANGED <<inbox, gate, reply>>

-----------------------------------------------------------------------------
(* The event pump and the handlers it queues on the UI thread.              *)

\* Progress is handled on the pump thread itself; the rest is queued.
PumpExecuting ==
  /\ open /\ events # <<>> /\ Head(events).type = "Executing"
  /\ events' = Tail(events)
  /\ LET id == Head(events).id
     IN  manager' = IF /\ Present(manager, id)
                       /\ ~manager.tasks[id].cancelled
                       /\ manager.tasks[id].state = "Preflight"
                    THEN MarkRunning(manager, id) ELSE manager
  /\ UNCHANGED <<preparing, inbox, worker, gate, reply, uiQueue, responses, dialog, ui>>

PumpForward ==
  /\ open /\ events # <<>> /\ Head(events).type # "Executing"
  /\ events' = Tail(events)
  /\ uiQueue' = Append(uiQueue, Head(events))
  /\ UNCHANGED <<manager, preparing, inbox, worker, gate, reply, responses, dialog, ui>>

ShouldCloseDialog(m, id) ==
  id # NoOp /\ (Present(m, id) => m.tasks[id].state # "WaitingConflict" \/ m.tasks[id].cancelled)

\* Mutant: the pending exit is not looked at again.
HandlerTailNoExit(shown) ==
  /\ open
  /\ uiQueue' = Tail(uiQueue)
  /\ dialog' = IF ShouldCloseDialog(manager', shown) THEN NoOp ELSE shown
  /\ UNCHANGED <<preparing, work, confirming, exiting, open, scanned>>

\* Every handler ends by closing a conflict window nobody waits for, and by
\* leaving the application when the cancelled tasks have all settled.
HandlerTail(shown) ==
  /\ open
  /\ uiQueue' = Tail(uiQueue)
  /\ dialog' = IF ShouldCloseDialog(manager', shown) THEN NoOp ELSE shown
  /\ open' = ~(exiting /\ ~HasActiveTasks(manager'))
  /\ UNCHANGED <<preparing, work, confirming, exiting, scanned>>

HandleConflict ==
  /\ uiQueue # <<>> /\ Head(uiQueue).type = "Conflict"
  /\ LET id == Head(uiQueue).id
     IN  /\ manager' = IF Present(manager, id)
                       THEN Update(manager, id, SetConflict(manager.tasks[id])) ELSE manager
         /\ responses' = responses \cup {id}
         /\ HandlerTail(id)
  /\ UNCHANGED <<inbox, undo>>

\* Mutant: an undo that did not complete stays the one in progress.
UndoAfterFailure(kind, e, terminal) ==
  IF kind = "Undo" THEN [undo EXCEPT !.running = e.outcome.failed \/ e.outcome.left]
  ELSE IF terminal = "Completed" /\ e.undoable
       THEN [undo EXCEPT !.entries = IF @ < UndoLimit THEN @ + 1 ELSE @]
       ELSE undo

\* UndoHistory::push and finish, which run before the task is finished.
UndoAfter(kind, e, terminal) ==
  IF kind = "Undo"
  THEN IF ~undo.running THEN undo
       ELSE [entries |-> undo.entries + (IF e.outcome.failed \/ e.outcome.left THEN 1 ELSE 0),
             running |-> FALSE]
  ELSE IF terminal = "Completed" /\ e.undoable
       THEN [undo EXCEPT !.entries = IF @ < UndoLimit THEN @ + 1 ELSE @]
       ELSE undo

HandleFinished ==
  /\ uiQueue # <<>> /\ Head(uiQueue).type = "Finished"
  /\ LET e == Head(uiQueue)
         m == Settled(WithItemStates(manager, e), e)
         terminal == TerminalState(IsCancelled(manager, e.id), e.outcome)
     IN  /\ manager' = StartAndMark(m, LaneOf(manager, e.id))
         /\ inbox' = Deliver(m, manager')
         /\ undo' = UndoAfter(KindOf(manager, e.id), e, terminal)
         /\ responses' = responses \ {e.id}
  /\ HandlerTail(dialog)

\* Mutant: only the cleanup lane is started.
HandleCommittedCleanupOnly ==
  /\ uiQueue # <<>> /\ Head(uiQueue).type = "Committed"
  /\ LET e == Head(uiQueue)
         m == Settled(WithItemStates(manager, e), e)
         c == IF e.cleanup THEN Submit(m, "PermanentDelete", "Cleanup", FALSE) ELSE m
     IN  manager' = StartAndMark(c, "Cleanup") /\ inbox' = Deliver(c, manager')
  /\ HandlerTail(dialog)
  /\ UNCHANGED <<undo, responses>>

\* A local permanent delete ends here; what it renamed away is released by a
\* cleanup task of its own.
HandleCommitted ==
  /\ uiQueue # <<>> /\ Head(uiQueue).type = "Committed"
  /\ LET e == Head(uiQueue)
         m == Settled(WithItemStates(manager, e), e)
         c == IF e.cleanup THEN Submit(m, "PermanentDelete", "Cleanup", FALSE) ELSE m
     IN  /\ manager' = StartAndMark(StartAndMark(c, "Cleanup"), "Local")
         /\ inbox' = Deliver(c, manager')
  /\ HandlerTail(dialog)
  /\ UNCHANGED <<undo, responses>>

-----------------------------------------------------------------------------
UserStep ==
  \/ \E pair \in Submittable : EnqueueOperation(pair[1], pair[2])
  \/ EnqueueRename \/ RequestUndo
  \/ \E id \in DOMAIN manager.tasks : CancelTask(id) \/ PauseOrResume(id) \/ RetryTask(id)
  \/ ResolveDialog \/ CloseLastWindow \/ WaitForTasks \/ CancelTasksAndExit

LaneStep(l) ==
  \/ TakeRequest(l) \/ Park(l) \/ Unpark(l) \/ ReportExecuting(l)
  \/ MeetConflict(l) \/ EnterGate(l) \/ LeaveGate(l)
  \/ \E outcome \in Outcomes, undoable, cleanup \in BOOLEAN :
       FinishRequest(l, outcome, undoable, cleanup)

UiHandler == HandleConflict \/ HandleFinished \/ HandleCommitted

SystemStep ==
  \/ \E id \in preparing, lane \in {"Local", "Network"} : RenamePrepared(id, lane)
  \/ \E count \in 0..MaxRecovered : RecoverCleanups(count)
  \/ \E expired \in SUBSET Receipts(manager) : PruneTasks(expired)
  \/ \E l \in Lanes : LaneStep(l)
  \/ PumpExecuting \/ PumpForward \/ UiHandler

Next == UserStep \/ SystemStep

\* Threads run and the event loop turns; users owe nothing.
Fairness ==
  /\ \A l \in Lanes : WF_vars(LaneStep(l))
  /\ WF_vars(PumpExecuting \/ PumpForward)
  /\ WF_vars(UiHandler)
  /\ WF_vars(\E id \in preparing, lane \in {"Local", "Network"} : RenamePrepared(id, lane))

Spec == Init /\ [][Next]_vars
FairSpec == Spec /\ Fairness

-----------------------------------------------------------------------------
(* Properties.                                                              *)

Busy(l) == worker[l].pc # "idle"

Undelivered(type, id) ==
  \E i \in DOMAIN events : events[i].type = type /\ events[i].id = id

Unhandled(type, id) ==
  Undelivered(type, id) \/ (\E i \in DOMAIN uiQueue : uiQueue[i].type = type /\ uiQueue[i].id = id)

CompletionPending(id) == Unhandled("Finished", id) \/ Unhandled("Committed", id)

\* The ids of what lane l's side of the system still holds: requests not
\* taken, the one being executed, and completions not handled.
HeldBy(l) ==
  {inbox[l][i].id : i \in DOMAIN inbox[l]}
  \cup (IF Busy(l) THEN {worker[l].id} ELSE {})
  \cup {id \in DOMAIN manager.tasks : manager.tasks[id].lane = l /\ CompletionPending(id)}

TypeOK ==
  /\ ManagerType(manager)
  /\ preparing \subseteq Nat
  /\ inbox \in [Lanes -> Seq(Request)]
  /\ worker \in [Lanes -> WorkerState]
  /\ gate \in Lanes \cup {NoLane}
  /\ reply \in [Lanes -> BOOLEAN]
  /\ events \in Seq(Event) /\ uiQueue \in Seq(Event)
  /\ responses \subseteq Nat
  /\ dialog \in Nat \cup {NoOp}
  /\ undo \in [entries: Nat, running: BOOLEAN]
  /\ {confirming, exiting, open, scanned} \subseteq BOOLEAN

\* The manager's books are consistent: slots, queues and task states agree
\* (require_active_mut and "queued task must exist" rest on this).
ManagerConsistent == ManagerInv(manager)

\* What a lane's worker, channel and completion hold is the task in the slot,
\* with the token of its current round, in one place at a time: no operation is
\* executed twice, by a stale request, or beside another one of its lane.
ExecutionHoldsSlot ==
  \A l \in Lanes :
    /\ HeldBy(l) \subseteq {manager.active[l]}
    /\ Len(inbox[l]) <= 1
    /\ inbox[l] # <<>> => /\ ~Busy(l) /\ ~CompletionPending(inbox[l][1].id)
                          /\ manager.tasks[inbox[l][1].id].round = inbox[l][1].round
    /\ Busy(l) => /\ ~CompletionPending(worker[l].id)
                  /\ manager.tasks[worker[l].id].round = worker[l].round

\* start_next runs wherever a slot is freed or a queue grows: a lane is never
\* idle while an operation waits for it.
NoIdleLaneWithWork == \A l \in Lanes : manager.active[l] = NoOp => manager.queues[l] = <<>>

\* The history lends its entry to exactly one undo task, and the two end together.
UndoOwnedByTask ==
  undo.running <=> \E id \in DOMAIN manager.tasks :
                     manager.tasks[id].kind = "Undo" /\ IsActive(manager.tasks[id].state)

\* Entries come back after a failed undo, and are never more than the limit.
UndoBounded == undo.entries + (IF undo.running THEN 1 ELSE 0) <= UndoLimit

\* The application is gone only when no user operation is on its way to the
\* disk, being executed, or finished without its task knowing.
QuitWhenQuiet == ~open => HeldBy("Local") \cup HeldBy("Network") = {}

\* A task shown as completed has no item left to do.  The one exception is a batch of
\* recycle deletes, which the Shell may abort on its own: what it leaves has neither
\* failed nor succeeded, and the task is shown as completed.
CompletedUnlessAborted ==
  \A id \in DOMAIN manager.tasks :
    LET task == manager.tasks[id]
    IN  task.state = "Completed" => ~task.retryable \/ (ShellAborts /\ UsesLocalRecycleBatch(task))

\* A settled task stays as it settled until a retry opens a new round.
SettledUntilRetried ==
  [][\A id \in DOMAIN manager.tasks \cap DOMAIN manager'.tasks :
       /\ manager.tasks[id].state \in Terminal
       /\ manager'.tasks[id].state # manager.tasks[id].state
       => manager'.tasks[id].round = manager.tasks[id].round + 1]_vars

\* A rename cancelled while it is prepared never enters a queue or a slot.
CancelledPreparationStaysOut ==
  [][\A id \in preparing :
       manager.tasks[id].cancelled => ~InSomeQueue(manager', id) /\ ~HoldsSlot(manager', id)]_vars

\* Handling a completion settles its task, whatever happened between the two: only a
\* pause that came first (finish is refused from Paused) keeps the task in its slot.
CompletionSettlesTask ==
  [][(HandleFinished \/ HandleCommitted) =>
       LET id == Head(uiQueue).id
       IN  manager.tasks[id].state # "Paused" => manager'.tasks[id].state \in Terminal]_vars

InState(id, states) == Present(manager, id) /\ manager.tasks[id].state \in states

\* No conflict window stays unanswered: a lane may wait for another lane's.
ConflictsAnswered == []<>(dialog = NoOp)

\* Each accepted operation, a queued one included, settles, and one that was
\* asked to cancel does not hang in Cancelling.
OperationSettles ==
  ConflictsAnswered =>
    \A id \in 1..MaxTasks :
      InState(id, States \ Terminal) ~> (~InState(id, States \ Terminal) \/ ~open)

\* "Cancel the tasks and exit" does exit, whatever was queued, executing or asking
\* when the user chose it, as long as nobody pauses a task (run lanes).  With pauses
\* it need not (run exit_paused): the completion of a paused task is refused and
\* forgotten, and the exit waits for a task that nobody works on.
ExitHappens == ConflictsAnswered => (exiting ~> ~open)

-----------------------------------------------------------------------------
(* The contract with the disk, seen from the lanes' side.                   *)

ContractIds == 1..(MaxTasks + MaxTasks * MaxRounds + MaxRecovered)

PhaseOf(id) ==
  IF ~Present(manager, id) THEN "absent"
  ELSE IF \E l \in Lanes : id \in HeldBy(l) THEN "serving"
  ELSE IF manager.tasks[id].state \in Terminal THEN "settled"
  ELSE IF manager.tasks[id].state = "Queued" THEN "waiting"
  ELSE "lost"

HomeOf(id) == IF Present(manager, id) THEN manager.tasks[id].lane ELSE "Local"

Contract == INSTANCE LaneContract
  WITH Ids <- ContractIds, LaneNames <- Lanes,
       phase <- [id \in ContractIds |-> PhaseOf(id)],
       home <- [id \in ContractIds |-> HomeOf(id)]

\* The machinery implements the contract: accepted operations are served alone
\* in their lane and settle, and none is lost between the two.
ImplementsContract == Contract!ContractSpec
=============================================================================
