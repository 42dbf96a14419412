---------------------------- MODULE OperationManager ----------------------------
(***************************************************************************)
(* crates/domain/src/file_operations.rs: the OperationManager that every   *)
(* file operation passes through.  The manager is a value, m, and each of  *)
(* its methods is an operator that returns the manager it leaves behind;   *)
(* the coordinator composes several of them under one lock.                *)
(*                                                                         *)
(* A task keeps what the control flow reads: its kind and lane, its state, *)
(* whether a conflict is recorded, the two flags of its cancellation       *)
(* token, the execution round, whether an item is left that prepare_retry  *)
(* would reset, whether finished_at is set and whether the task came from  *)
(* a cleanup record found at start-up.                                     *)
(***************************************************************************)
EXTENDS Integers, Sequences

CONSTANT NoOp      \* the None of Option<OperationId>

ASSUME NoOpAssumption == NoOp \notin Nat

Lanes == {"Local", "Network", "Cleanup"}

\* "Copy" stands for Copy, Move, CreateFolder and FastRemove: one code path.
Kinds == {"Copy", "Rename", "RecycleDelete", "PermanentDelete", "Undo"}

InProgress == {"Preflight", "Running", "Paused", "WaitingConflict", "Cancelling"}
Terminal   == {"Completed", "Cancelled", "PartiallyCompleted", "Failed"}
States     == {"Queued"} \cup InProgress \cup Terminal

IsActive(state) == state \notin Terminal

CanTransition ==
  ({"Queued"} \X {"Preflight", "Cancelling", "Cancelled", "Failed"})
  \cup ({"Preflight"} \X {"Running", "Cancelling", "Completed", "Failed"})
  \cup ({"Running"} \X {"Paused", "WaitingConflict", "Cancelling", "Completed",
                        "PartiallyCompleted", "Failed"})
  \cup ({"Paused"} \X {"Running", "Cancelling"})
  \cup ({"WaitingConflict"} \X {"Running", "Cancelling", "PartiallyCompleted", "Failed"})
  \cup ({"Cancelling"} \X {"Cancelled", "PartiallyCompleted", "Failed"})

Task == [kind: Kinds, lane: Lanes, state: States, conflict: BOOLEAN,
         cancelled: BOOLEAN, paused: BOOLEAN, round: Nat \ {0},
         retryable: BOOLEAN, stamped: BOOLEAN, recovered: BOOLEAN]

\* Mutant: the first round is numbered from zero.
NewTaskFromZero(kind, lane, recovered) ==
  [kind |-> kind, lane |-> lane, state |-> "Queued", conflict |-> FALSE,
   cancelled |-> FALSE, paused |-> FALSE, round |-> 0,
   retryable |-> TRUE, stamped |-> FALSE, recovered |-> recovered]

NewTask(kind, lane, recovered) ==
  [kind |-> kind, lane |-> lane, state |-> "Queued", conflict |-> FALSE,
   cancelled |-> FALSE, paused |-> FALSE, round |-> 1,
   retryable |-> TRUE, stamped |-> FALSE, recovered |-> recovered]

-----------------------------------------------------------------------------
(* Steps of one task.  A refused transition leaves the task as it was.      *)

Transition(task, next) ==
  IF <<task.state, next>> \in CanTransition THEN [task EXCEPT !.state = next] ELSE task

\* set_conflict pauses the token only once the transition was accepted.
SetConflict(task) ==
  IF <<task.state, "WaitingConflict">> \in CanTransition
  THEN [task EXCEPT !.state = "WaitingConflict", !.paused = TRUE, !.conflict = TRUE]
  ELSE task

\* resolve_conflict takes the conflict and resumes the token before it asks
\* for the transition back to Running.
ResolveConflict(task) ==
  IF ~task.conflict THEN task
  ELSE Transition([task EXCEPT !.conflict = FALSE, !.paused = FALSE], "Running")

\* The token is cancelled whatever the state is.
RequestCancel(task) ==
  Transition([task EXCEPT !.cancelled = TRUE],
             IF task.state = "Queued" THEN "Cancelled" ELSE "Cancelling")

SetPaused(task, paused) ==
  CASE task.state = "Running" /\ paused  -> [task EXCEPT !.paused = TRUE, !.state = "Paused"]
    [] task.state = "Paused" /\ ~paused -> [task EXCEPT !.paused = FALSE, !.state = "Running"]
    [] OTHER                            -> task

\* Mutant: a retry goes on with the round and the token it had.
PrepareRetrySameToken(task) ==
  [task EXCEPT !.state = "Queued", !.conflict = FALSE, !.stamped = FALSE]

\* A new round gets a new token; items that already succeeded stay as they are.
PrepareRetry(task) ==
  [task EXCEPT !.round = @ + 1, !.state = "Queued", !.conflict = FALSE,
               !.stamped = FALSE, !.cancelled = FALSE, !.paused = FALSE]

-----------------------------------------------------------------------------
(* The manager.                                                             *)

NewManager ==
  [next |-> 1, tasks |-> <<>>,
   queues |-> [l \in Lanes |-> <<>>], active |-> [l \in Lanes |-> NoOp]]

Present(m, id) == id \in DOMAIN m.tasks

HasActiveTasks(m) == \E id \in DOMAIN m.tasks : IsActive(m.tasks[id].state)

\* Mutant: only a task that runs counts.
HasForegroundRunningTasks(m) ==
  \E id \in DOMAIN m.tasks : m.tasks[id].lane # "Cleanup" /\ m.tasks[id].state = "Running"

HasForegroundActiveTasks(m) ==
  \E id \in DOMAIN m.tasks : m.tasks[id].lane # "Cleanup" /\ IsActive(m.tasks[id].state)

InSomeQueue(m, id) == \E l \in Lanes : \E i \in DOMAIN m.queues[l] : m.queues[l][i] = id

\* The map with one more entry.
With(tasks, id, task) ==
  [x \in DOMAIN tasks \cup {id} |-> IF x = id THEN task ELSE tasks[x]]

\* task_mut, followed by a change of that task alone.
Update(m, id, task) == IF Present(m, id) THEN [m EXCEPT !.tasks[id] = task] ELSE m

\* retain(|queued| *queued != id): an id stands in a queue at most once
\* (QueuesHoldQueuedTasks), so there is at most one element to drop.
Without(queue, id) ==
  IF \E i \in DOMAIN queue : queue[i] = id
  THEN LET i == CHOOSE i \in DOMAIN queue : queue[i] = id
       IN  SubSeq(queue, 1, i - 1) \o SubSeq(queue, i + 1, Len(queue))
  ELSE queue

SubmitPreparing(m) ==
  [m EXCEPT !.next = @ + 1, !.tasks = With(@, m.next, NewTask("Rename", "Local", FALSE))]

Submit(m, kind, lane, recovered) ==
  [m EXCEPT !.next = @ + 1,
            !.tasks = With(@, m.next, NewTask(kind, lane, recovered)),
            !.queues[lane] = Append(@, m.next)]

\* submit_recovered_cleanup, count times in a row.
SubmitRecovered(m, count) ==
  LET ids == m.next..(m.next + count - 1)
  IN  [m EXCEPT !.next = @ + count,
                !.tasks = [id \in DOMAIN @ \cup ids |->
                             IF id \in ids THEN NewTask("PermanentDelete", "Cleanup", TRUE) ELSE @[id]],
                !.queues["Cleanup"] = @ \o [i \in 1..count |-> m.next + i - 1]]

\* Mutant: the task may have been cancelled in the meantime.
PreparationAcceptedLate(m, id) == ~InSomeQueue(m, id) /\ Present(m, id)

PreparationAccepted(m, id) ==
  /\ ~InSomeQueue(m, id)
  /\ Present(m, id)
  /\ m.tasks[id].state = "Queued"
  /\ ~m.tasks[id].cancelled

CompletePreparation(m, id, lane) ==
  [m EXCEPT !.tasks[id].lane = lane, !.queues[lane] = Append(@, id)]

\* The positions start_next would stop at: it skips what is no longer Queued.
Startable(m, lane) ==
  {i \in DOMAIN m.queues[lane] : m.tasks[m.queues[lane][i]].state = "Queued"}

\* Mutant: the slot is not looked at.
StartNextAnyway(m, lane) ==
  LET queue == m.queues[lane]
  IN  IF Startable(m, lane) = {} THEN m
      ELSE [m EXCEPT !.queues[lane] = Tail(queue),
                     !.tasks[queue[1]].state = "Preflight",
                     !.active[lane] = queue[1]]

StartNext(m, lane) ==
  LET queue == m.queues[lane]
      first == CHOOSE i \in Startable(m, lane) : \A j \in Startable(m, lane) : i <= j
  IN  IF m.active[lane] # NoOp THEN m
      ELSE IF Startable(m, lane) = {} THEN [m EXCEPT !.queues[lane] = <<>>]
      ELSE [m EXCEPT !.queues[lane] = SubSeq(queue, first + 1, Len(queue)),
                     !.tasks[queue[first]].state = "Preflight",
                     !.active[lane] = queue[first]]

\* The id start_next(lane) returned, given the manager before and after it.
Started(before, after, lane) == before.active[lane] = NoOp /\ after.active[lane] # NoOp

HoldsSlot(m, id) == Present(m, id) /\ m.active[m.tasks[id].lane] = id

MarkRunning(m, id) ==
  IF HoldsSlot(m, id) THEN [m EXCEPT !.tasks[id] = Transition(@, "Running")] ELSE m

\* finish gives the slot back only when the transition is legal.
CanFinish(m, id, state) == HoldsSlot(m, id) /\ <<m.tasks[id].state, state>> \in CanTransition

Finish(m, id, state) ==
  IF CanFinish(m, id, state)
  THEN [m EXCEPT !.tasks[id].state = state, !.tasks[id].stamped = TRUE,
                 !.active[m.tasks[id].lane] = NoOp]
  ELSE m

\* Mutant: the cancelled task stays in its queue.
CancelInQueue(m, id) == [m EXCEPT !.tasks[id] = RequestCancel(@)]

\* Mutant: a cancelled task gives its slot back at once.
CancelFreesSlot(m, id) ==
  LET lane == m.tasks[id].lane
  IN  [m EXCEPT !.tasks[id] = RequestCancel(@),
                !.queues[lane] = Without(@, id),
                !.active[lane] = IF @ = id THEN NoOp ELSE @]

\* A task that is past cancelling refuses the request but keeps the token's flag.
Cancel(m, id) ==
  LET lane == m.tasks[id].lane
      cancelled == [m EXCEPT !.tasks[id] = RequestCancel(@)]
  IN  IF m.active[lane] = id \/ m.tasks[id].state \in Terminal THEN cancelled
      ELSE [cancelled EXCEPT !.queues[lane] = Without(@, id)]

RetryAccepted(m, id) ==
  /\ Present(m, id)
  /\ m.active[m.tasks[id].lane] # id
  /\ m.tasks[id].state \in Terminal
  /\ m.tasks[id].retryable

Retry(m, id) ==
  [m EXCEPT !.tasks[id] = PrepareRetry(@),
            !.queues[m.tasks[id].lane] = Append(@, id)]

\* What prune_transient_with_retained_cleanup may drop: a cleanup of this
\* session that completed is kept for its ten seconds on screen.
Prunable(m) ==
  {id \in DOMAIN m.tasks : m.tasks[id].state \in {"Completed", "Cancelled"} /\ m.tasks[id].stamped}

Receipts(m) ==
  {id \in Prunable(m) : /\ m.tasks[id].lane = "Cleanup"
                        /\ m.tasks[id].kind = "PermanentDelete"
                        /\ m.tasks[id].state = "Completed"
                        /\ ~m.tasks[id].recovered}

\* expired: the receipts whose ten seconds are over.
Prune(m, expired) ==
  LET kept == DOMAIN m.tasks \ ((Prunable(m) \ Receipts(m)) \cup expired)
  IN  [m EXCEPT !.tasks = [id \in kept |-> m.tasks[id]]]

-----------------------------------------------------------------------------
(* The invariant every operator above keeps.                                *)

ManagerType(m) ==
  /\ DOMAIN m = {"next", "tasks", "queues", "active"}
  /\ m.next \in Nat \ {0}
  /\ \A id \in DOMAIN m.tasks : id \in Nat /\ id < m.next /\ m.tasks[id] \in Task
  /\ m.queues \in [Lanes -> Seq(Nat)]
  /\ m.active \in [Lanes -> Nat \cup {NoOp}]

\* A slot is held by a task of that lane that is in progress.
SlotsHoldTasksInProgress(m) ==
  \A l \in Lanes : m.active[l] # NoOp =>
    /\ Present(m, m.active[l])
    /\ m.tasks[m.active[l]].lane = l
    /\ m.tasks[m.active[l]].state \in InProgress

\* Nothing is in progress outside the slot of its lane.
InProgressHoldsSlot(m) ==
  \A id \in DOMAIN m.tasks : m.tasks[id].state \in InProgress => m.active[m.tasks[id].lane] = id

\* A queue holds tasks of its lane that are still Queued, each once: this is
\* what start_next's "queued task must exist" rests on.
QueuesHoldQueuedTasks(m) ==
  \A l \in Lanes :
    /\ \A i \in DOMAIN m.queues[l] :
         /\ Present(m, m.queues[l][i])
         /\ m.tasks[m.queues[l][i]].lane = l
         /\ m.tasks[m.queues[l][i]].state = "Queued"
    /\ \A i, j \in DOMAIN m.queues[l] : m.queues[l][i] = m.queues[l][j] => i = j

ManagerInv(m) ==
  /\ ManagerType(m)
  /\ SlotsHoldTasksInProgress(m)
  /\ InProgressHoldsSlot(m)
  /\ QueuesHoldQueuedTasks(m)
=============================================================================
