------------------------ MODULE OperationLanesProofs ------------------------
(***************************************************************************)
(* What holds of OperationLanes for every value of its constants, in three *)
(* inductive invariants, each resting on the one before.                   *)
(*                                                                         *)
(* LanesInv is TypeOK with ManagerConsistent. Neither is inductive alone:  *)
(* a handler writes what an event carries into a task, so the books need   *)
(* the types of the two event queues; and what start_next sends to a       *)
(* worker is typed only because a slot holds a task.                       *)
(*                                                                         *)
(* ServiceInv adds that channels, workers and events are in step with the  *)
(* slots, that no lane idles, and what tasks show. That an operation is    *)
(* executed once needs it: a stale request is excluded only because each   *)
(* place a request can be in excludes the others, for the round of the     *)
(* task as well.                                                           *)
(*                                                                         *)
(* Accounted adds that the events tell the truth and that each slot is     *)
(* accounted for by a request, a worker or a completion under way, this    *)
(* last as long as nobody pauses a task: finish refuses a completion that  *)
(* meets a pause, and it is lost. It refuses no other completion, pauses   *)
(* or not, because a task waits for an answer only while its worker does.  *)
(*                                                                         *)
(* They rest on the manager, which comes first: each of its methods leaves *)
(* its books consistent (ManagerInv), for any number of tasks, only moves  *)
(* slots and queues on, and leaves a task that has settled as it is.       *)
(***************************************************************************)
EXTENDS OperationLanes, SequenceTheorems, TLAPS

-----------------------------------------------------------------------------
(* Steps of one task.                                                       *)

\* A change of a task that no slot and no queue has to follow.
StaysPut(old, new) ==
  /\ new \in Task
  /\ new.lane = old.lane
  /\ new.state = old.state \/ {old.state, new.state} \subseteq InProgress

\* Every step of a task gives a task of the same lane (Transition and what is
\* built from it).
LEMMA TransitionType ==
  ASSUME NEW task \in Task, NEW next \in States
  PROVE  /\ Transition(task, next) \in Task
         /\ Transition(task, next).lane = task.lane
         /\ Transition(task, next).state = IF <<task.state, next>> \in CanTransition
                                           THEN next ELSE task.state
BY DEF Transition, Task, States

\* Recording a conflict moves no task out of its slot.
LEMMA SetConflictStays ==
  ASSUME NEW task \in Task
  PROVE  StaysPut(task, SetConflict(task))
BY ZenonT(60) DEF StaysPut, SetConflict, Task, States, InProgress, CanTransition, Terminal

\* Answering a conflict moves no task out of its slot.
LEMMA ResolveConflictStays ==
  ASSUME NEW task \in Task
  PROVE  StaysPut(task, ResolveConflict(task))
BY ZenonT(60) DEF StaysPut, ResolveConflict, Transition, Task, States, InProgress, CanTransition, Terminal

\* Pausing and resuming move no task out of its slot.
LEMMA SetPausedStays ==
  ASSUME NEW task \in Task, NEW paused \in BOOLEAN
  PROVE  StaysPut(task, SetPaused(task, paused))
BY DEF StaysPut, SetPaused, Task, States, InProgress, Terminal

\* A cancelled task keeps its lane; a queued one settles, one in progress stays
\* in progress, a settled one stays settled.
LEMMA RequestCancelType ==
  ASSUME NEW task \in Task
  PROVE  /\ RequestCancel(task) \in Task
         /\ RequestCancel(task).lane = task.lane
         /\ task.state = "Queued" => RequestCancel(task).state = "Cancelled"
         /\ task.state \in InProgress => RequestCancel(task).state = "Cancelling"
         /\ task.state \in Terminal => RequestCancel(task).state = task.state
BY DEF RequestCancel, Transition, Task, States, InProgress, CanTransition, Terminal

-----------------------------------------------------------------------------
(* Operators that change one task and no slot or queue.                     *)

\* One task may change in place as long as it stays put.
LEMMA InPlaceKeeps ==
  ASSUME NEW m, ManagerInv(m), NEW id \in DOMAIN m.tasks, NEW task,
         StaysPut(m.tasks[id], task)
  PROVE  ManagerInv([m EXCEPT !.tasks[id] = task])
<1> DEFINE n == [m EXCEPT !.tasks[id] = task]
<1>1. /\ n.next = m.next /\ n.queues = m.queues /\ n.active = m.active
      /\ DOMAIN n.tasks = DOMAIN m.tasks
      /\ \A x \in DOMAIN m.tasks : n.tasks[x] = IF x = id THEN task ELSE m.tasks[x]
      /\ DOMAIN n = {"next", "tasks", "queues", "active"}
  BY DEF ManagerInv, ManagerType
<1>2. ManagerType(n)
  BY <1>1 DEF ManagerInv, ManagerType, StaysPut
<1>3. SlotsHoldTasksInProgress(n)
  BY <1>1 DEF ManagerInv, SlotsHoldTasksInProgress, StaysPut, Present
<1>4. InProgressHoldsSlot(n)
  BY <1>1 DEF ManagerInv, InProgressHoldsSlot, StaysPut
<1>5. QueuesHoldQueuedTasks(n)
  BY <1>1 DEF ManagerInv, QueuesHoldQueuedTasks, StaysPut, Present, InProgress
<1>6. QED BY <1>2, <1>3, <1>4, <1>5 DEF ManagerInv

\* task_mut followed by such a change, whether or not the task is there.
LEMMA UpdateKeeps ==
  ASSUME NEW m, ManagerInv(m), NEW id, NEW task,
         Present(m, id) => StaysPut(m.tasks[id], task)
  PROVE  ManagerInv(Update(m, id, task))
BY InPlaceKeeps DEF Update, Present

\* mark_running changes the task in the slot, from Preflight to Running.
LEMMA MarkRunningKeeps ==
  ASSUME NEW m, ManagerInv(m), NEW id
  PROVE  ManagerInv(MarkRunning(m, id))
<1>1. CASE HoldsSlot(m, id)
  <2> DEFINE task == Transition(m.tasks[id], "Running")
  <2>1. id \in DOMAIN m.tasks /\ m.tasks[id] \in Task /\ m.tasks[id].lane \in Lanes
    BY <1>1 DEF HoldsSlot, Present, ManagerInv, ManagerType, Task
  <2>2. m.tasks[id].state \in InProgress
    <3>1. id \in Nat
      BY <2>1 DEF ManagerInv, ManagerType
    <3>2. m.active[m.tasks[id].lane] = id /\ id # NoOp
      BY <1>1, <3>1, NoOpAssumption DEF HoldsSlot
    <3>3. QED BY <2>1, <3>2 DEF ManagerInv, SlotsHoldTasksInProgress
  <2>3. StaysPut(m.tasks[id], task)
    BY <2>1, <2>2, TransitionType DEF StaysPut, States, InProgress
  <2>4. MarkRunning(m, id) = [m EXCEPT !.tasks[id] = task]
    BY <1>1, <2>1 DEF MarkRunning
  <2>5. QED BY <2>1, <2>3, <2>4, InPlaceKeeps
<1>2. CASE ~HoldsSlot(m, id)
  BY <1>2 DEF MarkRunning
<1>3. QED BY <1>1, <1>2

-----------------------------------------------------------------------------
(* Operators that add a task or a place in a queue.                         *)

\* The empty manager is consistent.
LEMMA NewManagerConsistent == ManagerInv(NewManager)
BY DEF NewManager, ManagerInv, ManagerType, SlotsHoldTasksInProgress, InProgressHoldsSlot,
       QueuesHoldQueuedTasks, Lanes

\* A new task is a task that is still Queued.
LEMMA NewTaskType ==
  ASSUME NEW kind \in Kinds, NEW lane \in Lanes, NEW recovered \in BOOLEAN
  PROVE  /\ NewTask(kind, lane, recovered) \in Task
         /\ NewTask(kind, lane, recovered).lane = lane
         /\ NewTask(kind, lane, recovered).state = "Queued"
BY DEF NewTask, Task, States

\* A queue may be replaced by any queue of Queued tasks of the lane, each once.
FitQueue(m, lane, queue) ==
  /\ queue \in Seq(Nat)
  /\ \A i \in 1..Len(queue) : /\ queue[i] \in DOMAIN m.tasks
                              /\ m.tasks[queue[i]].lane = lane
                              /\ m.tasks[queue[i]].state = "Queued"
  /\ \A i, j \in 1..Len(queue) : queue[i] = queue[j] => i = j

\* The queues of a consistent manager are such queues.
LEMMA QueuesFit ==
  ASSUME NEW m, ManagerInv(m), NEW lane \in Lanes
  PROVE  FitQueue(m, lane, m.queues[lane])
<1>1. m.queues[lane] \in Seq(Nat)
  BY DEF ManagerInv, ManagerType
<1>2. DOMAIN m.queues[lane] = 1..Len(m.queues[lane])
  BY <1>1
<1>3. QED BY <1>1, <1>2 DEF FitQueue, ManagerInv, QueuesHoldQueuedTasks, Present

\* Exchanging one queue for a fitting one disturbs nothing else.
LEMMA ReplaceQueueKeeps ==
  ASSUME NEW m, ManagerInv(m), NEW lane \in Lanes, NEW queue, FitQueue(m, lane, queue)
  PROVE  ManagerInv([m EXCEPT !.queues[lane] = queue])
<1> DEFINE n == [m EXCEPT !.queues[lane] = queue]
<1>1. /\ n.next = m.next /\ n.tasks = m.tasks /\ n.active = m.active
      /\ n.queues = [m.queues EXCEPT ![lane] = queue]
      /\ DOMAIN n = {"next", "tasks", "queues", "active"}
  BY DEF ManagerInv, ManagerType
<1> HIDE DEF n
<1>2. ManagerType(n)
  BY <1>1 DEF ManagerInv, ManagerType, FitQueue
<1>3. SlotsHoldTasksInProgress(n) /\ InProgressHoldsSlot(n)
  BY <1>1 DEF ManagerInv, SlotsHoldTasksInProgress, InProgressHoldsSlot, Present
<1>4. DOMAIN queue = 1..Len(queue)
  BY DEF FitQueue
<1>5. \A l \in Lanes : n.queues[l] = IF l = lane THEN queue ELSE m.queues[l]
  BY <1>1 DEF ManagerInv, ManagerType
<1>6. QueuesHoldQueuedTasks(n)
  BY <1>1, <1>4, <1>5 DEF ManagerInv, QueuesHoldQueuedTasks, FitQueue, Present
<1>7. QED BY <1>2, <1>3, <1>6 DEF ManagerInv, n

\* A task that stands in no queue may become any other one that is not in progress.
LEMMA OffQueueKeeps ==
  ASSUME NEW m, ManagerInv(m), NEW id \in DOMAIN m.tasks, NEW task \in Task,
         ~InSomeQueue(m, id),
         m.tasks[id].state \notin InProgress, task.state \notin InProgress
  PROVE  ManagerInv([m EXCEPT !.tasks[id] = task])
<1> DEFINE n == [m EXCEPT !.tasks[id] = task]
<1>1. /\ n.next = m.next /\ n.queues = m.queues /\ n.active = m.active
      /\ DOMAIN n.tasks = DOMAIN m.tasks
      /\ \A x \in DOMAIN m.tasks : n.tasks[x] = IF x = id THEN task ELSE m.tasks[x]
      /\ DOMAIN n = {"next", "tasks", "queues", "active"}
  BY DEF ManagerInv, ManagerType
<1> HIDE DEF n
<1>2. ManagerType(n)
  BY <1>1 DEF ManagerInv, ManagerType
<1>3. SlotsHoldTasksInProgress(n)
  BY <1>1 DEF ManagerInv, SlotsHoldTasksInProgress, Present
<1>4. InProgressHoldsSlot(n)
  BY <1>1 DEF ManagerInv, InProgressHoldsSlot
<1>5. QueuesHoldQueuedTasks(n)
  BY <1>1 DEF ManagerInv, QueuesHoldQueuedTasks, InSomeQueue, Present
<1>6. QED BY <1>2, <1>3, <1>4, <1>5 DEF ManagerInv, n

\* A task that is not Queued stands in no queue.
LEMMA OnlyQueuedInQueues ==
  ASSUME NEW m, ManagerInv(m), NEW id \in DOMAIN m.tasks, m.tasks[id].state # "Queued"
  PROVE  ~InSomeQueue(m, id)
BY DEF ManagerInv, QueuesHoldQueuedTasks, InSomeQueue

\* New tasks may be added under ids that were not given out yet.
LEMMA AddTasksKeeps ==
  ASSUME NEW m, ManagerInv(m), NEW count \in Nat, NEW tasks, NEW task \in Task,
         task.state = "Queued",
         DOMAIN tasks = DOMAIN m.tasks \cup (m.next..(m.next + count - 1)),
         \A x \in DOMAIN tasks :
           tasks[x] = IF x \in m.next..(m.next + count - 1) THEN task ELSE m.tasks[x]
  PROVE  ManagerInv([m EXCEPT !.next = @ + count, !.tasks = tasks])
<1> DEFINE n == [m EXCEPT !.next = @ + count, !.tasks = tasks]
<1>1. /\ n.next = m.next + count /\ n.tasks = tasks
      /\ n.queues = m.queues /\ n.active = m.active
      /\ DOMAIN n = {"next", "tasks", "queues", "active"}
  BY DEF ManagerInv, ManagerType
<1> HIDE DEF n
<1>2. m.next \in Nat /\ \A x \in DOMAIN m.tasks : x \in Nat /\ x < m.next
  BY DEF ManagerInv, ManagerType
<1>3. \A x \in DOMAIN m.tasks : x \in DOMAIN tasks /\ tasks[x] = m.tasks[x]
  BY <1>2
<1>4. \A x \in DOMAIN tasks : x \in DOMAIN m.tasks \/ tasks[x] = task
  OBVIOUS
<1>5. ManagerType(n)
  BY <1>1, <1>2, <1>3, <1>4 DEF ManagerInv, ManagerType
<1>6. SlotsHoldTasksInProgress(n)
  BY <1>1, <1>3 DEF ManagerInv, SlotsHoldTasksInProgress, Present
<1>7. InProgressHoldsSlot(n)
  BY <1>1, <1>3, <1>4 DEF ManagerInv, InProgressHoldsSlot, InProgress
<1>8. QueuesHoldQueuedTasks(n)
  BY <1>1, <1>3 DEF ManagerInv, QueuesHoldQueuedTasks, Present
<1>9. QED BY <1>5, <1>6, <1>7, <1>8 DEF ManagerInv, n

-----------------------------------------------------------------------------
(* Submitting, preparing and retrying.                                      *)

\* The end of a queue takes a Queued task of the lane that is not in it yet.
LEMMA AppendFits ==
  ASSUME NEW m, ManagerInv(m), NEW lane \in Lanes, NEW queue, FitQueue(m, lane, queue),
         NEW id \in DOMAIN m.tasks, m.tasks[id].lane = lane, m.tasks[id].state = "Queued",
         \A i \in 1..Len(queue) : queue[i] # id
  PROVE  FitQueue(m, lane, Append(queue, id))
<1>1. id \in Nat /\ queue \in Seq(Nat)
  BY DEF ManagerInv, ManagerType, FitQueue
<1>2. /\ Append(queue, id) \in Seq(Nat)
      /\ Len(Append(queue, id)) = Len(queue) + 1
      /\ \A i \in 1..Len(queue) : Append(queue, id)[i] = queue[i]
      /\ Append(queue, id)[Len(queue) + 1] = id
      /\ Len(queue) \in Nat
  BY <1>1, AppendProperties, LenProperties
<1>3. \A i \in 1..(Len(queue) + 1) : i \in 1..Len(queue) \/ i = Len(queue) + 1
  BY <1>2
<1>4. QED BY <1>2, <1>3 DEF FitQueue

\* Appending it keeps the books.
LEMMA EnqueueKeeps ==
  ASSUME NEW m, ManagerInv(m), NEW lane \in Lanes, NEW id \in DOMAIN m.tasks,
         m.tasks[id].lane = lane, m.tasks[id].state = "Queued", ~InSomeQueue(m, id)
  PROVE  ManagerInv([m EXCEPT !.queues[lane] = Append(@, id)])
<1>1. FitQueue(m, lane, m.queues[lane])
  BY QueuesFit
<1>2. \A i \in 1..Len(m.queues[lane]) : m.queues[lane][i] # id
  BY <1>1, LenProperties DEF FitQueue, InSomeQueue
<1>3. FitQueue(m, lane, Append(m.queues[lane], id))
  BY <1>1, <1>2, AppendFits
<1>4. QED BY <1>3, ReplaceQueueKeeps

\* No queue holds an id that was not given out.
LEMMA NextNotQueued ==
  ASSUME NEW m, ManagerInv(m), NEW id \in Nat, id >= m.next
  PROVE  ~InSomeQueue(m, id) /\ id \notin DOMAIN m.tasks
BY DEF ManagerInv, ManagerType, QueuesHoldQueuedTasks, InSomeQueue, Present

\* submit_preparing registers a task that is in no queue.
LEMMA SubmitPreparingKeeps ==
  ASSUME NEW m, ManagerInv(m)
  PROVE  ManagerInv(SubmitPreparing(m))
<1> DEFINE task == NewTask("Rename", "Local", FALSE)
           tasks == With(m.tasks, m.next, task)
<1>1. task \in Task /\ task.state = "Queued"
  BY NewTaskType DEF Kinds, Lanes
<1>2. m.next \in Nat /\ m.next..(m.next + 1 - 1) = {m.next}
  BY DEF ManagerInv, ManagerType
<1> HIDE DEF task
<1>3. DOMAIN tasks = DOMAIN m.tasks \cup {m.next}
      /\ \A x \in DOMAIN tasks : tasks[x] = IF x \in {m.next} THEN task ELSE m.tasks[x]
  BY DEF With
<1> HIDE DEF tasks
<1>4. ManagerInv([m EXCEPT !.next = @ + 1, !.tasks = tasks])
  BY <1>1, <1>2, <1>3, AddTasksKeeps
<1>5. QED BY <1>4 DEF SubmitPreparing, tasks, task

\* submit registers a task at the end of its lane's queue.
LEMMA SubmitKeeps ==
  ASSUME NEW m, ManagerInv(m), NEW kind \in Kinds, NEW lane \in Lanes, NEW recovered \in BOOLEAN
  PROVE  ManagerInv(Submit(m, kind, lane, recovered))
<1> DEFINE task == NewTask(kind, lane, recovered)
           tasks == With(m.tasks, m.next, task)
           n == [m EXCEPT !.next = @ + 1, !.tasks = tasks]
<1>1. task \in Task /\ task.state = "Queued" /\ task.lane = lane
  BY NewTaskType
<1>2. m.next \in Nat /\ m.next..(m.next + 1 - 1) = {m.next}
  BY DEF ManagerInv, ManagerType
<1> HIDE DEF task
<1>3. DOMAIN tasks = DOMAIN m.tasks \cup {m.next}
      /\ \A x \in DOMAIN tasks : tasks[x] = IF x \in {m.next} THEN task ELSE m.tasks[x]
  BY DEF With
<1> HIDE DEF tasks
<1>4. ManagerInv(n)
  BY ZenonT(60), <1>1, <1>2, <1>3, AddTasksKeeps
<1>5. n.tasks = tasks /\ n.queues = m.queues
  BY DEF ManagerInv, ManagerType
<1>6. m.next \in DOMAIN n.tasks /\ n.tasks[m.next] = task
  BY <1>3, <1>5
<1>7. ~InSomeQueue(n, m.next)
  BY <1>2, <1>5, NextNotQueued DEF InSomeQueue
<1>8. Submit(m, kind, lane, recovered) = [n EXCEPT !.queues[lane] = Append(@, m.next)]
  BY <1>5 DEF Submit, tasks, task
<1> HIDE DEF n
<1>9. QED BY SMTT(30), <1>1, <1>4, <1>6, <1>7, <1>8, EnqueueKeeps

\* complete_preparation moves the task to the lane its paths need and queues it there.
LEMMA CompletePreparationKeeps ==
  ASSUME NEW m, ManagerInv(m), NEW id, PreparationAccepted(m, id), NEW lane \in Lanes
  PROVE  ManagerInv(CompletePreparation(m, id, lane))
<1> DEFINE task == [m.tasks[id] EXCEPT !.lane = lane]
           n == [m EXCEPT !.tasks[id] = task]
<1>1. id \in DOMAIN m.tasks /\ m.tasks[id] \in Task /\ m.tasks[id].state = "Queued"
      /\ ~InSomeQueue(m, id)
  BY DEF PreparationAccepted, Present, ManagerInv, ManagerType
<1>2. task \in Task /\ task.lane = lane /\ task.state = "Queued"
  BY <1>1 DEF Task
<1> HIDE DEF task
<1>3. ManagerInv(n)
  BY <1>1, <1>2, OffQueueKeeps DEF InProgress
<1>4. id \in DOMAIN n.tasks /\ n.tasks[id] = task /\ n.queues = m.queues
  BY <1>1 DEF ManagerInv, ManagerType
<1>5. CompletePreparation(m, id, lane) = [n EXCEPT !.queues[lane] = Append(@, id)]
  BY DEF CompletePreparation, task
<1> HIDE DEF n
<1>6. QED BY <1>1, <1>2, <1>3, <1>4, <1>5, EnqueueKeeps DEF InSomeQueue

\* A retried task is Queued again in the lane it had.
LEMMA PrepareRetryType ==
  ASSUME NEW task \in Task
  PROVE  /\ PrepareRetry(task) \in Task
         /\ PrepareRetry(task).lane = task.lane
         /\ PrepareRetry(task).state = "Queued"
<1> DEFINE round == task.round + 1
<1>1. round \in Nat \ {0}
  BY DEF Task
<1> HIDE DEF round
<1>2. PrepareRetry(task) =
        [task EXCEPT !.round = round, !.state = "Queued", !.conflict = FALSE,
                     !.stamped = FALSE, !.cancelled = FALSE, !.paused = FALSE]
  BY DEF PrepareRetry, round
<1>3. QED BY <1>1, <1>2 DEF Task, States

\* retry opens a new round of a settled task at the end of its lane's queue.
LEMMA RetryKeeps ==
  ASSUME NEW m, ManagerInv(m), NEW id, RetryAccepted(m, id)
  PROVE  ManagerInv(Retry(m, id))
<1> DEFINE task == PrepareRetry(m.tasks[id])
           lane == m.tasks[id].lane
           n == [m EXCEPT !.tasks[id] = task]
<1>1. id \in DOMAIN m.tasks /\ m.tasks[id] \in Task /\ m.tasks[id].state \in Terminal
      /\ lane \in Lanes
  BY DEF RetryAccepted, Present, ManagerInv, ManagerType, Task
<1>2. task \in Task /\ task.lane = lane /\ task.state = "Queued"
  BY <1>1, PrepareRetryType
<1>3. ~InSomeQueue(m, id) /\ m.tasks[id].state \notin InProgress
  BY <1>1, OnlyQueuedInQueues DEF Terminal, InProgress
<1>4. ManagerInv(n)
  <2> HIDE DEF task
  <2>1. QED BY <1>1, <1>2, <1>3, OffQueueKeeps DEF InProgress
<1>5. id \in DOMAIN n.tasks /\ n.tasks[id] = task /\ n.queues = m.queues
  BY <1>1 DEF ManagerInv, ManagerType
<1>6. Retry(m, id) = [n EXCEPT !.queues[lane] = Append(@, id)]
  BY <1>1 DEF Retry
<1> HIDE DEF n, task, lane
<1>7. QED BY <1>1, <1>2, <1>3, <1>4, <1>5, <1>6, EnqueueKeeps DEF InSomeQueue

\* The recovered cleanups stand at the end of the cleanup queue, in their order.
LEMMA SubmitRecoveredKeeps ==
  ASSUME NEW m, ManagerInv(m), NEW count \in Nat
  PROVE  ManagerInv(SubmitRecovered(m, count))
<1> DEFINE task == NewTask("PermanentDelete", "Cleanup", TRUE)
           ids == m.next..(m.next + count - 1)
           tasks == [id \in DOMAIN m.tasks \cup ids |-> IF id \in ids THEN task ELSE m.tasks[id]]
           n == [m EXCEPT !.next = @ + count, !.tasks = tasks]
           added == [i \in 1..count |-> m.next + i - 1]
           queue == m.queues["Cleanup"]
<1>1. task \in Task /\ task.state = "Queued" /\ task.lane = "Cleanup"
  BY NewTaskType DEF Kinds, Lanes
<1>2. m.next \in Nat /\ "Cleanup" \in Lanes
  BY DEF ManagerInv, ManagerType, Lanes
<1> HIDE DEF task
<1>3. ManagerInv(n)
  BY <1>1, AddTasksKeeps
<1>4. n.tasks = tasks /\ n.queues = m.queues
  BY DEF ManagerInv, ManagerType
<1>5. /\ added \in Seq(Nat) /\ Len(added) = count
      /\ \A i \in 1..count : added[i] = m.next + i - 1 /\ added[i] \in ids
  BY <1>2
<1>6. FitQueue(n, "Cleanup", queue)
  BY <1>2, <1>3, <1>4, QueuesFit
<1>7. \A i \in 1..Len(queue) : queue[i] \in Nat /\ queue[i] < m.next
  <2>1. FitQueue(m, "Cleanup", queue)
    BY <1>2, QueuesFit
  <2>2. QED BY <2>1 DEF FitQueue, ManagerInv, ManagerType
<1>8. FitQueue(n, "Cleanup", queue \o added)
  <2>1. queue \in Seq(Nat) /\ Len(queue) \in Nat
    BY <1>6, LenProperties DEF FitQueue
  <2>2. /\ queue \o added \in Seq(Nat)
        /\ Len(queue \o added) = Len(queue) + count
        /\ \A i \in 1..(Len(queue) + count) :
             (queue \o added)[i] = IF i <= Len(queue) THEN queue[i] ELSE added[i - Len(queue)]
    BY <2>1, <1>5, ConcatProperties
  <2>3. \A id \in ids : id \in DOMAIN n.tasks /\ n.tasks[id] = task
    BY <1>4
  <2> DEFINE all == queue \o added
  <2> HIDE DEF added, queue, n, ids, all
  <2>4. ASSUME NEW i \in 1..Len(all)
        PROVE  \/ /\ i \in 1..Len(queue) /\ all[i] = queue[i] /\ all[i] < m.next
                  /\ all[i] \in DOMAIN n.tasks
                  /\ n.tasks[all[i]].lane = "Cleanup" /\ n.tasks[all[i]].state = "Queued"
               \/ /\ i \notin 1..Len(queue) /\ all[i] = m.next + (i - Len(queue)) - 1
                  /\ all[i] \in DOMAIN n.tasks
                  /\ n.tasks[all[i]].lane = "Cleanup" /\ n.tasks[all[i]].state = "Queued"
    <3>1. i \in 1..(Len(queue) + count) /\ i \in Nat
      BY <2>1, <2>2 DEF all
    <3>2. CASE i <= Len(queue)
      <4>1. i \in 1..Len(queue) /\ all[i] = queue[i]
        BY <2>1, <2>2, <3>1, <3>2 DEF all
      <4>2. QED BY <4>1, <1>6, <1>7 DEF FitQueue
    <3>3. CASE ~(i <= Len(queue))
      <4>1. i - Len(queue) \in 1..count /\ i \notin 1..Len(queue)
        BY <2>1, <3>1, <3>3
      <4>2. all[i] = added[i - Len(queue)]
        BY <2>2, <3>1, <3>3 DEF all
      <4>3. QED BY <4>1, <4>2, <1>1, <1>5, <2>3
    <3>4. QED BY <3>2, <3>3
  <2>5. ASSUME NEW i \in 1..Len(all), NEW j \in 1..Len(all), all[i] = all[j]
        PROVE  i = j
    <3>1. i \in Nat /\ j \in Nat
      BY <2>1, <2>2 DEF all
    <3>2. CASE i \in 1..Len(queue) /\ j \in 1..Len(queue)
      BY <3>2, <2>4, <2>5, <1>6 DEF FitQueue
    <3>3. CASE i \notin 1..Len(queue) /\ j \notin 1..Len(queue)
      <4>1. m.next + (i - Len(queue)) - 1 = m.next + (j - Len(queue)) - 1
        BY <3>3, <2>4, <2>5
      <4>2. QED BY <4>1, <3>1, <2>1, <1>2
    <3>4. ASSUME NEW x \in 1..Len(all), NEW y \in 1..Len(all),
                 x \in 1..Len(queue), y \notin 1..Len(queue)
          PROVE  all[x] # all[y]
      <4>1. all[x] < m.next /\ all[x] = queue[x] /\ queue[x] \in Nat
        BY <3>4, <2>4, <1>7
      <4>2. all[y] = m.next + (y - Len(queue)) - 1 /\ y \in Nat /\ y > Len(queue)
        BY SMTT(30), <3>4, <2>4, <2>1, <2>2 DEF all
      <4>3. QED BY <4>1, <4>2, <2>1, <1>2
    <3>5. QED BY <3>2, <3>3, <3>4, <2>5
  <2>6. FitQueue(n, "Cleanup", all)
    BY <2>2, <2>4, <2>5 DEF FitQueue, all
  <2>7. QED BY <2>6 DEF all
<1>9. ManagerInv([n EXCEPT !.queues["Cleanup"] = queue \o added])
  <2> HIDE DEF n, queue, added
  <2>1. QED BY <1>2, <1>3, <1>8, ReplaceQueueKeeps
<1>10. QED BY <1>9 DEF SubmitRecovered, task

-----------------------------------------------------------------------------
(* Taking a slot and giving it back.                                        *)

\* A free slot may be taken by a Queued task of the lane that left its queue.
LEMMA TakeSlotKeeps ==
  ASSUME NEW m, ManagerInv(m), NEW lane \in Lanes, m.active[lane] = NoOp,
         NEW id \in DOMAIN m.tasks, m.tasks[id].lane = lane, m.tasks[id].state = "Queued",
         ~InSomeQueue(m, id)
  PROVE  ManagerInv([m EXCEPT !.tasks[id].state = "Preflight", !.active[lane] = id])
<1> DEFINE n == [m EXCEPT !.tasks[id].state = "Preflight", !.active[lane] = id]
           task == [m.tasks[id] EXCEPT !.state = "Preflight"]
<1>0. m.tasks[id] \in Task /\ id \in Nat
  BY DEF ManagerInv, ManagerType
<1>1. task \in Task /\ task.lane = lane /\ task.state = "Preflight"
  BY <1>0 DEF Task, States, InProgress
<1>2. /\ n.next = m.next /\ n.queues = m.queues
      /\ n.active = [m.active EXCEPT ![lane] = id]
      /\ DOMAIN n.tasks = DOMAIN m.tasks
      /\ \A x \in DOMAIN m.tasks : n.tasks[x] = IF x = id THEN task ELSE m.tasks[x]
      /\ DOMAIN n = {"next", "tasks", "queues", "active"}
  BY DEF ManagerInv, ManagerType
<1> HIDE DEF n, task
<1>3. \A l \in Lanes : n.active[l] = IF l = lane THEN id ELSE m.active[l]
  BY <1>2 DEF ManagerInv, ManagerType
<1>4. ManagerType(n)
  BY <1>0, <1>1, <1>2 DEF ManagerInv, ManagerType
<1>5. SlotsHoldTasksInProgress(n)
  BY <1>1, <1>2, <1>3 DEF ManagerInv, SlotsHoldTasksInProgress, Present, InProgress
<1>6. InProgressHoldsSlot(n)
  <2> SUFFICES ASSUME NEW x \in DOMAIN n.tasks, n.tasks[x].state \in InProgress
               PROVE  n.active[n.tasks[x].lane] = x
    BY DEF InProgressHoldsSlot
  <2>1. CASE x = id
    BY <2>1, <1>1, <1>2, <1>3
  <2>2. CASE x # id
    <3>1. m.active[m.tasks[x].lane] = x /\ m.tasks[x].lane \in Lanes /\ x \in Nat
      BY <2>2, <1>2 DEF ManagerInv, InProgressHoldsSlot, ManagerType, Task
    <3>2. m.tasks[x].lane # lane
      BY <3>1, NoOpAssumption
    <3>3. QED BY <2>2, <3>1, <3>2, <1>2, <1>3
  <2>3. QED BY <2>1, <2>2
<1>7. QueuesHoldQueuedTasks(n)
  BY <1>2 DEF ManagerInv, QueuesHoldQueuedTasks, InSomeQueue, Present
<1>8. QED BY <1>4, <1>5, <1>6, <1>7 DEF ManagerInv, n

\* start_next takes the head of the queue: what stands in a queue is Queued, so
\* there is nothing to skip.
LEMMA StartNextKeeps ==
  ASSUME NEW m, ManagerInv(m), NEW lane \in Lanes
  PROVE  ManagerInv(StartNext(m, lane))
<1> DEFINE queue == m.queues[lane]
           rest == SubSeq(queue, 2, Len(queue))
           n == [m EXCEPT !.queues[lane] = rest]
           id == queue[1]
<1>1. FitQueue(m, lane, queue) /\ queue \in Seq(Nat) /\ Len(queue) \in Nat
      /\ DOMAIN queue = 1..Len(queue)
  BY QueuesFit, LenProperties DEF FitQueue
<1>2. Startable(m, lane) = 1..Len(queue)
  BY <1>1 DEF Startable, FitQueue
<1>3. CASE m.active[lane] # NoOp
  BY <1>3 DEF StartNext
<1>4. CASE m.active[lane] = NoOp /\ Startable(m, lane) = {}
  <2>1. FitQueue(m, lane, <<>>)
    BY EmptySeq DEF FitQueue
  <2>2. StartNext(m, lane) = [m EXCEPT !.queues[lane] = <<>>]
    BY <1>4 DEF StartNext
  <2>3. QED BY <2>1, <2>2, ReplaceQueueKeeps
<1>5. CASE m.active[lane] = NoOp /\ Startable(m, lane) # {}
  <2>1. 1 \in 1..Len(queue)
    BY <1>1, <1>2, <1>5
  <2> DEFINE first == CHOOSE i \in Startable(m, lane) : \A j \in Startable(m, lane) : i <= j
  <2>2. first = 1
    BY <1>1, <1>2, <2>1
  <2>3. /\ rest \in Seq(Nat) /\ Len(rest) = Len(queue) - 1
        /\ \A i \in 1..(Len(queue) - 1) : rest[i] = queue[i + 1]
    <3>1. \A i \in 2..Len(queue) : queue[i] \in Nat
      BY <1>1, ElementOfSeq
    <3> HIDE DEF queue
    <3>2. /\ rest \in Seq(Nat)
          /\ Len(rest) = IF 2 <= Len(queue) THEN Len(queue) - 2 + 1 ELSE 0
          /\ \A i \in 1..(Len(queue) - 2 + 1) : rest[i] = queue[2 + i - 1]
      BY <3>1, <1>1, SubSeqProperties DEF rest
    <3>3. QED BY <3>2, <1>1, <2>1
  <2>4. FitQueue(m, lane, rest)
    BY SMTT(30), <2>3, <1>1 DEF FitQueue
  <2>5. \A i \in 1..Len(rest) : rest[i] # id
    BY <2>1, <2>3, <1>1 DEF FitQueue
  <2> HIDE DEF rest
  <2>6. ManagerInv(n)
    BY <2>4, ReplaceQueueKeeps
  <2>7. n.tasks = m.tasks /\ n.active = m.active /\ n.queues = [m.queues EXCEPT ![lane] = rest]
        /\ m.queues \in [Lanes -> Seq(Nat)]
    BY DEF ManagerInv, ManagerType
  <2>8. id \in DOMAIN m.tasks /\ m.tasks[id].lane = lane /\ m.tasks[id].state = "Queued"
    BY <2>1, <1>1 DEF FitQueue
  <2>9. StartNext(m, lane) = [n EXCEPT !.tasks[id].state = "Preflight", !.active[lane] = id]
    <3>1. StartNext(m, lane) =
            [m EXCEPT !.queues[lane] = SubSeq(queue, first + 1, Len(queue)),
                      !.tasks[queue[first]].state = "Preflight",
                      !.active[lane] = queue[first]]
      BY <1>5 DEF StartNext
    <3> HIDE DEF first
    <3>2. SubSeq(queue, first + 1, Len(queue)) = rest /\ queue[first] = id
      BY <2>2 DEF rest
    <3> HIDE DEF queue, id
    <3>3. QED BY <3>1, <3>2
  <2>10. ~InSomeQueue(n, id)
    <3> SUFFICES ASSUME NEW l \in Lanes, NEW i \in DOMAIN n.queues[l] PROVE n.queues[l][i] # id
      BY DEF InSomeQueue
    <3>1. CASE l = lane
      <4>1. n.queues[l] = rest /\ DOMAIN rest = 1..Len(rest)
        BY <3>1, <2>3, <2>7, LenProperties
      <4>2. QED BY <4>1, <2>5
    <3>2. CASE l # lane
      <4>1. n.queues[l] = m.queues[l]
        BY <3>2, <2>7
      <4>2. m.tasks[m.queues[l][i]].lane = l
        BY <4>1 DEF ManagerInv, QueuesHoldQueuedTasks
      <4>3. QED BY <4>1, <4>2, <2>8, <3>2
    <3>3. QED BY <3>1, <3>2
  <2> HIDE DEF n, id
  <2>11. n.active[lane] = NoOp /\ id \in DOMAIN n.tasks /\ n.tasks[id].lane = lane
         /\ n.tasks[id].state = "Queued"
    BY <1>5, <2>7, <2>8
  <2>12. ManagerInv([n EXCEPT !.tasks[id].state = "Preflight", !.active[lane] = id])
    BY <2>6, <2>10, <2>11, TakeSlotKeeps
  <2>13. QED BY <2>9, <2>12
<1>6. QED BY <1>3, <1>4, <1>5

\* finish settles the task and gives the slot back, or changes nothing.
LEMMA FinishKeeps ==
  ASSUME NEW m, ManagerInv(m), NEW id, NEW state \in Terminal
  PROVE  ManagerInv(Finish(m, id, state))
<1>1. CASE CanFinish(m, id, state)
  <2> DEFINE lane == m.tasks[id].lane
             task == [m.tasks[id] EXCEPT !.state = state, !.stamped = TRUE]
             n == [m EXCEPT !.tasks[id].state = state, !.tasks[id].stamped = TRUE,
                            !.active[lane] = NoOp]
  <2>1. id \in DOMAIN m.tasks /\ m.tasks[id] \in Task /\ id \in Nat
        /\ lane \in Lanes /\ m.active[lane] = id
    BY <1>1 DEF CanFinish, HoldsSlot, Present, ManagerInv, ManagerType, Task
  <2>2. task \in Task /\ task.lane = lane /\ task.state = state
    BY <2>1 DEF Task, States
  <2>3. /\ n.next = m.next /\ n.queues = m.queues
        /\ n.active = [m.active EXCEPT ![lane] = NoOp]
        /\ DOMAIN n.tasks = DOMAIN m.tasks
        /\ \A x \in DOMAIN m.tasks : n.tasks[x] = IF x = id THEN task ELSE m.tasks[x]
        /\ DOMAIN n = {"next", "tasks", "queues", "active"}
    BY <2>1 DEF ManagerInv, ManagerType
  <2>4. m.tasks[id].state \in InProgress
    BY <2>1, NoOpAssumption DEF ManagerInv, SlotsHoldTasksInProgress
  <2>5. Finish(m, id, state) = n
    BY <1>1 DEF Finish
  <2> HIDE DEF n, task
  <2>6. \A l \in Lanes : n.active[l] = IF l = lane THEN NoOp ELSE m.active[l]
    BY <2>3 DEF ManagerInv, ManagerType
  <2>7. ManagerType(n)
    BY <2>2, <2>3 DEF ManagerInv, ManagerType
  <2>8. SlotsHoldTasksInProgress(n)
    <3>1. \A l \in Lanes : l # lane /\ m.active[l] # NoOp => m.active[l] # id
      BY <2>1 DEF ManagerInv, SlotsHoldTasksInProgress
    <3>2. QED BY <3>1, <2>3, <2>6 DEF ManagerInv, SlotsHoldTasksInProgress, Present
  <2>9. InProgressHoldsSlot(n)
    <3> SUFFICES ASSUME NEW x \in DOMAIN n.tasks, n.tasks[x].state \in InProgress
                 PROVE  n.active[n.tasks[x].lane] = x
      BY DEF InProgressHoldsSlot
    <3>1. x # id /\ x \in DOMAIN m.tasks /\ n.tasks[x] = m.tasks[x]
      BY <2>2, <2>3 DEF InProgress, Terminal
    <3>2. m.active[m.tasks[x].lane] = x /\ m.tasks[x].lane \in Lanes
      BY <3>1 DEF ManagerInv, InProgressHoldsSlot, ManagerType, Task
    <3>3. QED BY <3>1, <3>2, <2>1, <2>6
  <2>10. QueuesHoldQueuedTasks(n)
    <3>1. ~InSomeQueue(m, id)
      BY <2>1, <2>4, OnlyQueuedInQueues DEF InProgress
    <3>2. QED BY <3>1, <2>3 DEF ManagerInv, QueuesHoldQueuedTasks, InSomeQueue, Present
  <2>11. QED BY <2>5, <2>7, <2>8, <2>9, <2>10 DEF ManagerInv
<1>2. CASE ~CanFinish(m, id, state)
  BY <1>2 DEF Finish
<1>3. QED BY <1>1, <1>2

-----------------------------------------------------------------------------
(* Cancelling and pruning.                                                  *)

\* The length of what follows position k of a sequence of length len.
LEMMA TailLength ==
  ASSUME NEW k \in Nat, NEW len \in Nat, k <= len
  PROVE  (IF k + 1 <= len THEN len - (k + 1) + 1 ELSE 0) = len - k
<1>1. CASE k = len
  BY <1>1
<1>2. CASE k # len
  BY <1>2
<1>3. QED BY <1>1, <1>2

\* Dropping an id from a queue leaves the others, in their order.
LEMMA WithoutFits ==
  ASSUME NEW m, ManagerInv(m), NEW lane \in Lanes, NEW queue, FitQueue(m, lane, queue), NEW id
  PROVE  /\ FitQueue(m, lane, Without(queue, id))
         /\ \A i \in 1..Len(Without(queue, id)) : Without(queue, id)[i] # id
         /\ \A i \in 1..Len(Without(queue, id)) :
              \E p \in 1..Len(queue) : Without(queue, id)[i] = queue[p]
<1>1. queue \in Seq(Nat) /\ Len(queue) \in Nat /\ DOMAIN queue = 1..Len(queue)
  BY LenProperties DEF FitQueue
<1>2. CASE \E i \in DOMAIN queue : queue[i] = id
  <2> DEFINE k == CHOOSE i \in DOMAIN queue : queue[i] = id
             front == SubSeq(queue, 1, k - 1)
             back == SubSeq(queue, k + 1, Len(queue))
  <2>1. k \in 1..Len(queue) /\ queue[k] = id
    BY <1>1, <1>2
  <2>2. Without(queue, id) = front \o back
    BY <1>2 DEF Without
  <2> HIDE DEF k
  <2>3. /\ front \in Seq(Nat) /\ Len(front) = k - 1
        /\ \A i \in 1..(k - 1) : front[i] = queue[i]
    <3>1. \A i \in 1..(k - 1) : queue[i] \in Nat
      BY <1>1, <2>1, ElementOfSeq
    <3>2. /\ front \in Seq(Nat)
          /\ Len(front) = IF 1 <= k - 1 THEN k - 1 - 1 + 1 ELSE 0
          /\ \A i \in 1..(k - 1 - 1 + 1) : front[i] = queue[1 + i - 1]
      BY <3>1, <1>1, <2>1, SubSeqProperties
    <3>3. QED BY <3>2, <1>1, <2>1
  <2>4. /\ back \in Seq(Nat) /\ Len(back) = Len(queue) - k
        /\ \A i \in 1..(Len(queue) - k) : back[i] = queue[k + i]
    <3>1. \A i \in (k + 1)..Len(queue) : queue[i] \in Nat
      BY <1>1, <2>1, ElementOfSeq
    <3>2. /\ back \in Seq(Nat)
          /\ Len(back) = IF k + 1 <= Len(queue) THEN Len(queue) - (k + 1) + 1 ELSE 0
          /\ \A i \in 1..(Len(queue) - (k + 1) + 1) : back[i] = queue[k + 1 + i - 1]
      BY <3>1, <1>1, <2>1, SubSeqProperties
    <3> HIDE DEF back, front
    <3>3. /\ Len(queue) - (k + 1) + 1 = Len(queue) - k
          /\ k \in Nat /\ Len(queue) \in Nat /\ k <= Len(queue)
      BY <1>1, <2>1
    <3>4. \A i \in 1..(Len(queue) - k) : k + 1 + i - 1 = k + i
      BY <1>1, <3>3
    <3>5. Len(back) = Len(queue) - k
      BY <3>2, <3>3, TailLength
    <3>6. QED BY <3>2, <3>3, <3>4, <3>5
  <2> HIDE DEF front, back
  <2> DEFINE all == front \o back
  <2>5. /\ all \in Seq(Nat) /\ Len(all) = Len(queue) - 1
        /\ \A i \in 1..(Len(queue) - 1) :
             all[i] = IF i <= k - 1 THEN front[i] ELSE back[i - (k - 1)]
    <3>1. /\ all \in Seq(Nat)
          /\ Len(all) = Len(front) + Len(back)
          /\ \A i \in 1..(Len(front) + Len(back)) :
               all[i] = IF i <= Len(front) THEN front[i] ELSE back[i - Len(front)]
      BY <2>3, <2>4, ConcatProperties
    <3> HIDE DEF all
    <3>2. Len(front) = k - 1 /\ Len(front) + Len(back) = Len(queue) - 1
      BY <1>1, <2>1, <2>3, <2>4
    <3>3. QED BY <3>1, <3>2
  <2> HIDE DEF all
  <2> DEFINE at(i) == IF i <= k - 1 THEN i ELSE i + 1
  <2>6. ASSUME NEW i \in 1..Len(all)
        PROVE  /\ all[i] = queue[at(i)]
               /\ at(i) \in 1..Len(queue) /\ at(i) # k
    <3>1. CASE i <= k - 1
      <4>1. i \in 1..(k - 1) /\ i \in 1..(Len(queue) - 1) /\ at(i) = i
        BY <3>1, <1>1, <2>1, <2>5
      <4>2. all[i] = queue[i]
        BY <3>1, <4>1, <2>3, <2>5
      <4>3. i \in 1..Len(queue) /\ i # k
        BY <3>1, <4>1, <1>1, <2>1
      <4> HIDE DEF at
      <4>4. QED BY <4>1, <4>2, <4>3
    <3>2. CASE ~(i <= k - 1)
      <4>1. i - (k - 1) \in 1..(Len(queue) - k) /\ k + (i - (k - 1)) = i + 1
        BY <3>2, <1>1, <2>1, <2>5
      <4>2. all[i] = queue[i + 1]
        BY <3>2, <4>1, <2>4, <2>5
      <4>3. QED BY <3>2, <4>2, <1>1, <2>1, <2>5
    <3>3. QED BY <3>1, <3>2
  <2>7. ASSUME NEW i \in 1..Len(all) PROVE all[i] # id
    BY ZenonT(60), <2>1, <2>6 DEF FitQueue
  <2>8. ASSUME NEW i \in 1..Len(all), NEW j \in 1..Len(all), all[i] = all[j] PROVE i = j
    <3>1. at(i) = at(j)
      <4> HIDE DEF at
      <4>1. /\ at(i) \in 1..Len(queue) /\ at(j) \in 1..Len(queue)
            /\ queue[at(i)] = queue[at(j)]
        BY <2>6, <2>8
      <4>2. QED BY <4>1 DEF FitQueue
    <3>2. i \in Nat /\ j \in Nat /\ k \in Nat
      BY <1>1, <2>1, <2>5
    <3>3. QED BY <3>1, <3>2
  <2> HIDE DEF at
  <2>9. FitQueue(m, lane, all)
    <3>1. \A i \in 1..Len(all) : /\ all[i] \in DOMAIN m.tasks
                                 /\ m.tasks[all[i]].lane = lane
                                 /\ m.tasks[all[i]].state = "Queued"
      <4> SUFFICES ASSUME NEW i \in 1..Len(all)
                   PROVE  /\ all[i] \in DOMAIN m.tasks
                          /\ m.tasks[all[i]].lane = lane
                          /\ m.tasks[all[i]].state = "Queued"
        OBVIOUS
      <4>1. PICK p \in 1..Len(queue) : all[i] = queue[p]
        BY <2>6
      <4>2. QED BY <4>1 DEF FitQueue
    <3>2. all \in Seq(Nat)
      BY <2>5
    <3>3. QED BY <2>8, <3>1, <3>2 DEF FitQueue
  <2>10. \A i \in 1..Len(all) : \E p \in 1..Len(queue) : all[i] = queue[p]
    BY <2>6
  <2>11. QED BY <2>2, <2>7, <2>9, <2>10 DEF all
<1>3. CASE ~\E i \in DOMAIN queue : queue[i] = id
  BY <1>1, <1>3 DEF Without
<1>4. QED BY <1>2, <1>3

\* cancel settles a queued task and drops it from its queue; a task in its slot
\* keeps the slot until it is finished.
LEMMA CancelKeeps ==
  ASSUME NEW m, ManagerInv(m), NEW id \in DOMAIN m.tasks
  PROVE  ManagerInv(Cancel(m, id))
<1> DEFINE lane == m.tasks[id].lane
           task == RequestCancel(m.tasks[id])
           cancelled == [m EXCEPT !.tasks[id] = task]
<1>1. m.tasks[id] \in Task /\ lane \in Lanes /\ id \in Nat
  BY DEF ManagerInv, ManagerType, Task
<1>2. /\ task \in Task /\ task.lane = lane
      /\ m.tasks[id].state = "Queued" => task.state = "Cancelled"
      /\ m.tasks[id].state \in InProgress => task.state = "Cancelling"
      /\ m.tasks[id].state \in Terminal => task.state = m.tasks[id].state
  BY <1>1, RequestCancelType
<1>3. CASE m.active[lane] = id \/ m.tasks[id].state \in Terminal
  <2>1. m.tasks[id].state \in InProgress \cup Terminal
    BY <1>1, <1>3, NoOpAssumption DEF ManagerInv, SlotsHoldTasksInProgress
  <2> HIDE DEF task
  <2>2. StaysPut(m.tasks[id], task)
    BY <1>2, <2>1 DEF StaysPut, InProgress, Terminal
  <2>3. QED BY <1>3, <2>2, InPlaceKeeps DEF Cancel, task
<1>4. CASE ~(m.active[lane] = id \/ m.tasks[id].state \in Terminal)
  <2> DEFINE queue == Without(m.queues[lane], id)
             n == [m EXCEPT !.queues[lane] = queue]
  <2>1. m.tasks[id].state = "Queued"
    BY <1>1, <1>4 DEF ManagerInv, InProgressHoldsSlot, Task, States
  <2>2. FitQueue(m, lane, queue) /\ \A i \in 1..Len(queue) : queue[i] # id
    BY <1>1, QueuesFit, WithoutFits
  <2>3. Cancel(m, id) = [n EXCEPT !.tasks[id] = task]
    <3>1. Cancel(m, id) = [cancelled EXCEPT !.queues[lane] = queue]
      BY <1>4 DEF Cancel, ManagerInv, ManagerType
    <3> HIDE DEF queue, task, lane
    <3>2. QED BY <3>1 DEF ManagerInv, ManagerType
  <2> HIDE DEF queue, task
  <2>4. ManagerInv(n)
    BY <1>1, <2>2, ReplaceQueueKeeps
  <2>5. n.tasks = m.tasks /\ n.queues = [m.queues EXCEPT ![lane] = queue]
        /\ m.queues \in [Lanes -> Seq(Nat)]
    BY DEF ManagerInv, ManagerType
  <2>6. ~InSomeQueue(n, id)
    <3> SUFFICES ASSUME NEW l \in Lanes, NEW i \in DOMAIN n.queues[l] PROVE n.queues[l][i] # id
      BY DEF InSomeQueue
    <3>1. CASE l = lane
      <4>1. n.queues[l] = queue /\ DOMAIN queue = 1..Len(queue)
        BY <3>1, <2>2, <2>5, LenProperties DEF FitQueue
      <4>2. QED BY <4>1, <2>2
    <3>2. CASE l # lane
      <4>1. n.queues[l] = m.queues[l]
        BY <3>2, <2>5
      <4>2. m.tasks[m.queues[l][i]].lane = l
        BY <4>1 DEF ManagerInv, QueuesHoldQueuedTasks
      <4>3. QED BY <4>1, <4>2, <3>2
    <3>3. QED BY <3>1, <3>2
  <2>7. task.state \notin InProgress /\ n.tasks[id].state \notin InProgress /\ id \in DOMAIN n.tasks
    BY <1>2, <2>1, <2>5 DEF InProgress
  <2> HIDE DEF n
  <2>8. ManagerInv([n EXCEPT !.tasks[id] = task])
    BY <1>2, <2>4, <2>6, <2>7, OffQueueKeeps
  <2>9. QED BY <2>3, <2>8
<1>5. QED BY <1>3, <1>4

\* What prune forgets has settled, so no slot and no queue names it.
LEMMA PruneKeeps ==
  ASSUME NEW m, ManagerInv(m), NEW expired \in SUBSET Receipts(m)
  PROVE  ManagerInv(Prune(m, expired))
<1> DEFINE n == Prune(m, expired)
<1>1. /\ n.next = m.next /\ n.queues = m.queues /\ n.active = m.active
      /\ DOMAIN n = {"next", "tasks", "queues", "active"}
      /\ DOMAIN n.tasks \subseteq DOMAIN m.tasks
      /\ \A x \in DOMAIN n.tasks : n.tasks[x] = m.tasks[x]
      /\ \A x \in DOMAIN m.tasks : m.tasks[x].state \notin Terminal => x \in DOMAIN n.tasks
  BY DEF Prune, Prunable, Receipts, Terminal, ManagerInv, ManagerType
<1> HIDE DEF n
<1>2. ManagerType(n)
  BY <1>1 DEF ManagerInv, ManagerType
<1>3. SlotsHoldTasksInProgress(n)
  BY <1>1 DEF ManagerInv, SlotsHoldTasksInProgress, Present, InProgress, Terminal
<1>4. InProgressHoldsSlot(n)
  BY <1>1 DEF ManagerInv, InProgressHoldsSlot
<1>5. QueuesHoldQueuedTasks(n)
  BY <1>1 DEF ManagerInv, QueuesHoldQueuedTasks, Present, Terminal
<1>6. QED BY <1>2, <1>3, <1>4, <1>5 DEF ManagerInv, n

-----------------------------------------------------------------------------
(* What an operator does to the tasks, slots and queues it finds.  Every    *)
(* operator but retry and finish lets the manager continue: no operation    *)
(* becomes another one, none settles except by being cancelled, and a slot  *)
(* that is held stays held.                                                 *)

\* An active task is cancelled exactly when it shows so.
Marked(task) == IsActive(task.state) => (task.cancelled <=> task.state = "Cancelling")

\* States no task reaches short of finish.
Unfinished(state) == state \notin Terminal \ {"Cancelled"}

Onward(old, new) ==
  /\ new.kind = old.kind /\ new.round = old.round /\ new.retryable = old.retryable
  /\ old.cancelled => new.cancelled
  /\ new.state = old.state \/ (old.state \notin Terminal /\ Unfinished(new.state))
  /\ old.state \in Terminal => new.lane = old.lane
  /\ Marked(old) => Marked(new)

Placed(m, id) == InSomeQueue(m, id) \/ \E l \in Lanes : m.active[l] = id

TasksGoOn(m, n) ==
  /\ n.next >= m.next
  /\ \A x \in DOMAIN m.tasks \cap DOMAIN n.tasks : Onward(m.tasks[x], n.tasks[x])
  /\ \A x \in DOMAIN n.tasks \ DOMAIN m.tasks :
       x >= m.next /\ Marked(n.tasks[x]) /\ Unfinished(n.tasks[x].state)

\* Only the ids of entering, and new ones, come into a queue or a slot.
PlacesGoOn(m, n, entering) ==
  \A x \in Nat : x < m.next /\ x \notin entering /\ Placed(n, x) => Placed(m, x)

\* Only the queues of growing may get longer.
QueuesGoOn(m, n, growing) ==
  \A l \in Lanes \ growing : m.queues[l] = <<>> => n.queues[l] = <<>>

SlotsGoOn(m, n) == \A l \in Lanes : m.active[l] # NoOp => n.active[l] = m.active[l]

Continues(m, n, entering, growing) ==
  /\ TasksGoOn(m, n)
  /\ PlacesGoOn(m, n, entering)
  /\ QueuesGoOn(m, n, growing)
  /\ SlotsGoOn(m, n)

\* Steps of one task are onward.
LEMMA OnwardSteps ==
  ASSUME NEW task \in Task
  PROVE  /\ Onward(task, task)
         /\ Onward(task, Transition(task, "Running"))
         /\ Onward(task, SetConflict(task))
         /\ Onward(task, ResolveConflict(task))
         /\ \A paused \in BOOLEAN : Onward(task, SetPaused(task, paused))
         /\ Onward(task, RequestCancel(task))
<1> USE DEF Onward, Marked, IsActive, Unfinished, Task, States, InProgress, Terminal
<1>1. Onward(task, task)
  OBVIOUS
<1>2. Onward(task, Transition(task, "Running"))
  BY DEF Transition, CanTransition
<1>3. Onward(task, SetConflict(task))
  BY DEF SetConflict, CanTransition
<1>4. Onward(task, ResolveConflict(task))
  BY DEF ResolveConflict, Transition, CanTransition
<1>5. ASSUME NEW paused \in BOOLEAN PROVE Onward(task, SetPaused(task, paused))
  BY DEF SetPaused
<1>6. Onward(task, RequestCancel(task))
  BY DEF RequestCancel, Transition, CanTransition
<1>7. QED BY <1>1, <1>2, <1>3, <1>4, <1>5, <1>6

\* One step onward after another.
LEMMA OnwardTwice ==
  ASSUME NEW a, NEW b, NEW c, Onward(a, b), Onward(b, c)
  PROVE  Onward(a, c)
BY DEF Onward, Unfinished

\* A manager that continues twice continues.
LEMMA ContinuesTwice ==
  ASSUME NEW m, NEW n, NEW p, ManagerInv(m), ManagerInv(n), ManagerInv(p),
         NEW entering, NEW growing, NEW entering2, NEW growing2,
         Continues(m, n, entering, growing), Continues(n, p, entering2, growing2)
  PROVE  Continues(m, p, entering \cup entering2, growing \cup growing2)
<1>1. m.next \in Nat /\ n.next \in Nat /\ p.next \in Nat /\ m.next <= n.next /\ n.next <= p.next
  BY DEF ManagerInv, ManagerType, Continues, TasksGoOn
<1>2. TasksGoOn(m, p)
  <2>1. ASSUME NEW x \in DOMAIN m.tasks \cap DOMAIN p.tasks
        PROVE  Onward(m.tasks[x], p.tasks[x])
    <3>1. x \in Nat /\ x < m.next
      BY DEF ManagerInv, ManagerType
    <3>2. x \in DOMAIN n.tasks
      BY <1>1, <3>1 DEF Continues, TasksGoOn
    <3>3. QED BY <3>2, OnwardTwice DEF Continues, TasksGoOn
  <2>2. ASSUME NEW x \in DOMAIN p.tasks \ DOMAIN m.tasks
        PROVE  x >= m.next /\ Marked(p.tasks[x]) /\ Unfinished(p.tasks[x].state)
    <3>0. x \in Nat
      BY DEF ManagerInv, ManagerType
    <3>1. CASE x \in DOMAIN n.tasks
      <4>1. x >= m.next /\ Marked(n.tasks[x]) /\ Unfinished(n.tasks[x].state)
        BY <3>1 DEF Continues, TasksGoOn
      <4>2. Onward(n.tasks[x], p.tasks[x])
        BY <3>1 DEF Continues, TasksGoOn
      <4>3. QED BY <4>1, <4>2 DEF Onward
    <3>2. CASE x \notin DOMAIN n.tasks
      <4>1. x >= n.next /\ Marked(p.tasks[x]) /\ Unfinished(p.tasks[x].state)
        BY <3>2 DEF Continues, TasksGoOn
      <4>2. QED BY <4>1, <3>0, <1>1
    <3>3. QED BY <3>1, <3>2
  <2>3. p.next >= m.next
    BY <1>1
  <2>4. QED BY <2>1, <2>2, <2>3 DEF TasksGoOn
<1>3. PlacesGoOn(m, p, entering \cup entering2)
  BY <1>1 DEF Continues, PlacesGoOn
<1>4. QueuesGoOn(m, p, growing \cup growing2)
  BY DEF Continues, QueuesGoOn
<1>5. SlotsGoOn(m, p)
  BY DEF Continues, SlotsGoOn
<1>6. QED BY <1>2, <1>3, <1>4, <1>5 DEF Continues

\* Placed reads the queues and the slots only.
LEMMA SamePlaces ==
  ASSUME NEW m, NEW n, n.queues = m.queues, n.active = m.active, NEW entering
  PROVE  PlacesGoOn(m, n, entering) /\ QueuesGoOn(m, n, {}) /\ SlotsGoOn(m, n)
BY DEF PlacesGoOn, QueuesGoOn, SlotsGoOn, Placed, InSomeQueue

\* A change of one task in place.
LEMMA InPlaceContinues ==
  ASSUME NEW m, ManagerInv(m), NEW id \in DOMAIN m.tasks, NEW task, Onward(m.tasks[id], task)
  PROVE  Continues(m, [m EXCEPT !.tasks[id] = task], {}, {})
<1> DEFINE n == [m EXCEPT !.tasks[id] = task]
<1>1. /\ n.next = m.next /\ n.queues = m.queues /\ n.active = m.active
      /\ DOMAIN n.tasks = DOMAIN m.tasks
      /\ \A x \in DOMAIN m.tasks : n.tasks[x] = IF x = id THEN task ELSE m.tasks[x]
  BY DEF ManagerInv, ManagerType
<1>2. m.next \in Nat /\ \A x \in DOMAIN m.tasks : m.tasks[x] \in Task
  BY DEF ManagerInv, ManagerType
<1> HIDE DEF n
<1>3. TasksGoOn(m, n)
  BY <1>1, <1>2, OnwardSteps DEF TasksGoOn
<1>4. QED BY <1>1, <1>3, SamePlaces DEF Continues, n

\* A manager whose fields did not change.
LEMMA SameContinues ==
  ASSUME NEW m, ManagerInv(m), NEW n, n.next = m.next, n.tasks = m.tasks,
         n.queues = m.queues, n.active = m.active
  PROVE  Continues(m, n, {}, {})
<1>1. m.next \in Nat /\ \A x \in DOMAIN m.tasks : m.tasks[x] \in Task
  BY DEF ManagerInv, ManagerType
<1>2. TasksGoOn(m, n)
  BY <1>1, OnwardSteps DEF TasksGoOn
<1>3. QED BY <1>2, SamePlaces DEF Continues

\* task_mut followed by a step onward.
LEMMA UpdateContinues ==
  ASSUME NEW m, ManagerInv(m), NEW id, NEW task,
         Present(m, id) => Onward(m.tasks[id], task)
  PROVE  Continues(m, Update(m, id, task), {}, {})
BY InPlaceContinues, SameContinues DEF Update, Present

\* mark_running.
LEMMA MarkRunningContinues ==
  ASSUME NEW m, ManagerInv(m), NEW id
  PROVE  Continues(m, MarkRunning(m, id), {}, {})
<1>1. CASE HoldsSlot(m, id)
  <2> DEFINE task == Transition(m.tasks[id], "Running")
  <2>1. id \in DOMAIN m.tasks /\ m.tasks[id] \in Task
    BY <1>1 DEF HoldsSlot, Present, ManagerInv, ManagerType
  <2>2. Onward(m.tasks[id], task)
    BY <2>1, OnwardSteps
  <2>3. MarkRunning(m, id) = [m EXCEPT !.tasks[id] = task]
    BY <1>1, <2>1 DEF MarkRunning
  <2> HIDE DEF task
  <2>4. QED BY <2>1, <2>2, <2>3, InPlaceContinues
<1>2. CASE ~HoldsSlot(m, id)
  BY <1>2, SameContinues DEF MarkRunning
<1>3. QED BY <1>1, <1>2

\* A task that was just submitted.
LEMMA NewTaskFresh ==
  ASSUME NEW kind, NEW lane, NEW recovered
  PROVE  Marked(NewTask(kind, lane, recovered)) /\ Unfinished(NewTask(kind, lane, recovered).state)
BY DEF NewTask, Marked, Unfinished, Terminal

\* Adding fresh tasks under new ids.
LEMMA AddTasksGoOn ==
  ASSUME NEW m, ManagerInv(m), NEW n, NEW count \in Nat, NEW task,
         Marked(task), Unfinished(task.state),
         n.next = m.next + count,
         DOMAIN n.tasks = DOMAIN m.tasks \cup (m.next..(m.next + count - 1)),
         \A x \in DOMAIN n.tasks :
           n.tasks[x] = IF x \in m.next..(m.next + count - 1) THEN task ELSE m.tasks[x]
  PROVE  TasksGoOn(m, n)
<1>1. m.next \in Nat
      /\ \A x \in DOMAIN m.tasks : m.tasks[x] \in Task /\ x \in Nat /\ x < m.next
  BY DEF ManagerInv, ManagerType
<1>2. QED BY <1>1, OnwardSteps DEF TasksGoOn

\* submit_preparing.
LEMMA SubmitPreparingContinues ==
  ASSUME NEW m, ManagerInv(m)
  PROVE  Continues(m, SubmitPreparing(m), {}, {})
<1> DEFINE task == NewTask("Rename", "Local", FALSE)
           n == SubmitPreparing(m)
<1>1. /\ n.next = m.next + 1 /\ n.queues = m.queues /\ n.active = m.active
      /\ n.tasks = With(m.tasks, m.next, task)
      /\ m.next \in Nat
  BY DEF SubmitPreparing, ManagerInv, ManagerType
<1>2. Marked(task) /\ Unfinished(task.state)
  BY NewTaskFresh
<1> HIDE DEF task, n
<1>3. TasksGoOn(m, n)
  BY <1>1, <1>2, AddTasksGoOn, m.next..(m.next + 1 - 1) = {m.next} DEF With
<1>4. QED BY <1>1, <1>3, SamePlaces DEF Continues, n

\* An id at the end of a queue.
LEMMA AppendPlaces ==
  ASSUME NEW m, ManagerInv(m), NEW n, NEW lane \in Lanes, NEW id \in Nat,
         n.queues = [m.queues EXCEPT ![lane] = Append(@, id)], n.active = m.active
  PROVE  /\ PlacesGoOn(m, n, {id})
         /\ id >= m.next => PlacesGoOn(m, n, {})
         /\ QueuesGoOn(m, n, {lane})
         /\ SlotsGoOn(m, n)
<1>1. m.queues \in [Lanes -> Seq(Nat)] /\ m.queues[lane] \in Seq(Nat) /\ m.next \in Nat
  BY DEF ManagerInv, ManagerType
<1> DEFINE queue == Append(m.queues[lane], id)
<1>2. /\ DOMAIN queue = 1..(Len(m.queues[lane]) + 1) /\ Len(m.queues[lane]) \in Nat
      /\ DOMAIN m.queues[lane] = 1..Len(m.queues[lane])
      /\ \A i \in 1..Len(m.queues[lane]) : queue[i] = m.queues[lane][i]
      /\ queue[Len(m.queues[lane]) + 1] = id
  BY <1>1, AppendProperties, LenProperties
<1>3. \A l \in Lanes : n.queues[l] = IF l = lane THEN queue ELSE m.queues[l]
  BY <1>1
<1> HIDE DEF queue
<1>4. ASSUME NEW x, InSomeQueue(n, x), x # id PROVE InSomeQueue(m, x)
  <2>1. PICK l \in Lanes : \E i \in DOMAIN n.queues[l] : n.queues[l][i] = x
    BY <1>4 DEF InSomeQueue
  <2>2. PICK i \in DOMAIN n.queues[l] : n.queues[l][i] = x
    BY <2>1
  <2>3. i \in DOMAIN m.queues[l] /\ m.queues[l][i] = x
    <3>1. CASE l # lane
      BY <3>1, <1>3, <2>2
    <3>2. CASE l = lane
      <4>1. i \in 1..(Len(m.queues[lane]) + 1) /\ queue[i] = x
        BY <3>2, <1>2, <1>3, <2>2
      <4>2. i # Len(m.queues[lane]) + 1
        BY <4>1, <1>2, <1>4
      <4>3. i \in 1..Len(m.queues[lane])
        BY <4>1, <4>2, <1>2
      <4>4. QED BY <3>2, <4>1, <4>3, <1>2
    <3>3. QED BY <3>1, <3>2
  <2>4. QED BY <2>3 DEF InSomeQueue
<1>5. PlacesGoOn(m, n, {id})
  BY <1>4 DEF PlacesGoOn, Placed
<1>6. id >= m.next => PlacesGoOn(m, n, {})
  BY <1>1, <1>4 DEF PlacesGoOn, Placed
<1>7. QueuesGoOn(m, n, {lane}) /\ SlotsGoOn(m, n)
  BY <1>3 DEF QueuesGoOn, SlotsGoOn
<1>8. QED BY <1>5, <1>6, <1>7

\* submit.
LEMMA SubmitContinues ==
  ASSUME NEW m, ManagerInv(m), NEW kind, NEW lane \in Lanes, NEW recovered
  PROVE  Continues(m, Submit(m, kind, lane, recovered), {}, {lane})
<1> DEFINE task == NewTask(kind, lane, recovered)
           n == Submit(m, kind, lane, recovered)
<1>1. /\ n.next = m.next + 1 /\ n.active = m.active
      /\ n.queues = [m.queues EXCEPT ![lane] = Append(@, m.next)]
      /\ n.tasks = With(m.tasks, m.next, task)
      /\ m.next \in Nat
  BY DEF Submit, ManagerInv, ManagerType
<1>2. Marked(task) /\ Unfinished(task.state)
  BY NewTaskFresh
<1> HIDE DEF task, n
<1>3. TasksGoOn(m, n)
  BY <1>1, <1>2, AddTasksGoOn, m.next..(m.next + 1 - 1) = {m.next} DEF With
<1>4. m.next >= m.next
  BY <1>1
<1>5. PlacesGoOn(m, n, {}) /\ QueuesGoOn(m, n, {lane}) /\ SlotsGoOn(m, n)
  BY <1>1, <1>4, AppendPlaces
<1>6. QED BY <1>3, <1>5 DEF Continues, n

\* complete_preparation: the id enters a queue for the first time.
LEMMA CompletePreparationContinues ==
  ASSUME NEW m, ManagerInv(m), NEW id, PreparationAccepted(m, id), NEW lane \in Lanes
  PROVE  Continues(m, CompletePreparation(m, id, lane), {id}, {lane})
<1> DEFINE task == [m.tasks[id] EXCEPT !.lane = lane]
           n == CompletePreparation(m, id, lane)
<1>1. id \in DOMAIN m.tasks /\ m.tasks[id] \in Task /\ id \in Nat
  BY DEF PreparationAccepted, Present, ManagerInv, ManagerType
<1>2. /\ n.next = m.next /\ n.active = m.active
      /\ n.queues = [m.queues EXCEPT ![lane] = Append(@, id)]
      /\ DOMAIN n.tasks = DOMAIN m.tasks
      /\ \A x \in DOMAIN m.tasks : n.tasks[x] = IF x = id THEN task ELSE m.tasks[x]
  BY <1>1 DEF CompletePreparation, ManagerInv, ManagerType
<1>3. Onward(m.tasks[id], task)
  BY <1>1 DEF Onward, Marked, Task, PreparationAccepted, Terminal
<1>4. m.next \in Nat /\ \A x \in DOMAIN m.tasks : m.tasks[x] \in Task
  BY DEF ManagerInv, ManagerType
<1> HIDE DEF task, n
<1>5. TasksGoOn(m, n)
  BY <1>2, <1>3, <1>4, OnwardSteps DEF TasksGoOn
<1>6. PlacesGoOn(m, n, {id}) /\ QueuesGoOn(m, n, {lane}) /\ SlotsGoOn(m, n)
  BY <1>1, <1>2, AppendPlaces
<1>7. QED BY <1>5, <1>6 DEF Continues, n

\* prune forgets settled tasks.
LEMMA PruneContinues ==
  ASSUME NEW m, ManagerInv(m), NEW expired
  PROVE  Continues(m, Prune(m, expired), {}, {})
<1> DEFINE n == Prune(m, expired)
<1>1. /\ n.next = m.next /\ n.queues = m.queues /\ n.active = m.active
      /\ DOMAIN n.tasks \subseteq DOMAIN m.tasks
      /\ \A x \in DOMAIN n.tasks : n.tasks[x] = m.tasks[x]
  BY DEF Prune, ManagerInv, ManagerType
<1>2. m.next \in Nat /\ \A x \in DOMAIN m.tasks : m.tasks[x] \in Task
  BY DEF ManagerInv, ManagerType
<1> HIDE DEF n
<1>3. TasksGoOn(m, n)
  BY <1>1, <1>2, OnwardSteps DEF TasksGoOn
<1>4. QED BY <1>1, <1>3, SamePlaces DEF Continues, n

\* submit_recovered_cleanup, count times.
LEMMA SubmitRecoveredContinues ==
  ASSUME NEW m, ManagerInv(m), NEW count \in Nat
  PROVE  Continues(m, SubmitRecovered(m, count), {}, {"Cleanup"})
<1> DEFINE task == NewTask("PermanentDelete", "Cleanup", TRUE)
           ids == m.next..(m.next + count - 1)
           added == [i \in 1..count |-> m.next + i - 1]
           queue == m.queues["Cleanup"] \o added
           n == SubmitRecovered(m, count)
<1>1. /\ n.next = m.next + count /\ n.active = m.active
      /\ n.queues = [m.queues EXCEPT !["Cleanup"] = queue]
      /\ n.tasks = [id \in DOMAIN m.tasks \cup ids |-> IF id \in ids THEN task ELSE m.tasks[id]]
      /\ m.next \in Nat /\ m.queues \in [Lanes -> Seq(Nat)] /\ "Cleanup" \in Lanes
  BY DEF SubmitRecovered, ManagerInv, ManagerType, Lanes
<1>2. Marked(task) /\ Unfinished(task.state)
  BY NewTaskFresh
<1>3. added \in Seq(Nat) /\ Len(added) = count /\ \A i \in 1..count : added[i] >= m.next
  BY <1>1
<1>4. /\ DOMAIN queue = 1..(Len(m.queues["Cleanup"]) + count) /\ Len(m.queues["Cleanup"]) \in Nat
      /\ DOMAIN m.queues["Cleanup"] = 1..Len(m.queues["Cleanup"])
      /\ \A i \in DOMAIN queue :
           queue[i] = IF i <= Len(m.queues["Cleanup"]) THEN m.queues["Cleanup"][i]
                      ELSE added[i - Len(m.queues["Cleanup"])]
  <2> DEFINE old == m.queues["Cleanup"]
  <2>1. old \in Seq(Nat) /\ Len(old) \in Nat /\ DOMAIN old = 1..Len(old)
    BY <1>1, LenProperties
  <2> HIDE DEF added, old
  <2>2. /\ old \o added \in Seq(Nat)
        /\ Len(old \o added) = Len(old) + count
        /\ \A i \in 1..(Len(old) + count) :
             (old \o added)[i] = IF i <= Len(old) THEN old[i] ELSE added[i - Len(old)]
    BY <2>1, <1>3, ConcatProperties
  <2>3. DOMAIN (old \o added) = 1..(Len(old) + count)
    BY <2>2, LenProperties
  <2>4. queue = old \o added
    BY DEF old
  <2> HIDE DEF queue
  <2>5. QED BY <2>1, <2>2, <2>3, <2>4 DEF old
<1>5. \A l \in Lanes : n.queues[l] = IF l = "Cleanup" THEN queue ELSE m.queues[l]
  <2> HIDE DEF n, queue
  <2>1. QED BY <1>1
<1> HIDE DEF task, n, added, queue
<1>6. TasksGoOn(m, n)
  <2>1. DOMAIN n.tasks = DOMAIN m.tasks \cup (m.next..(m.next + count - 1))
    BY <1>1
  <2>2. \A x \in DOMAIN n.tasks :
          n.tasks[x] = IF x \in m.next..(m.next + count - 1) THEN task ELSE m.tasks[x]
    BY <1>1
  <2>3. n.next = m.next + count
    BY <1>1
  <2> HIDE DEF ids
  <2>4. QED BY <1>2, <2>1, <2>2, <2>3, AddTasksGoOn
<1>7. ASSUME NEW x \in Nat, x < m.next, InSomeQueue(n, x) PROVE InSomeQueue(m, x)
  <2>1. PICK l \in Lanes : \E i \in DOMAIN n.queues[l] : n.queues[l][i] = x
    BY <1>7 DEF InSomeQueue
  <2>2. PICK i \in DOMAIN n.queues[l] : n.queues[l][i] = x
    BY <2>1
  <2>3. i \in DOMAIN m.queues[l] /\ m.queues[l][i] = x
    <3>1. CASE l # "Cleanup"
      BY <3>1, <1>5, <2>2
    <3>2. CASE l = "Cleanup"
      <4>1. i \in DOMAIN queue /\ queue[i] = x /\ i \in 1..(Len(m.queues["Cleanup"]) + count)
        BY <3>2, <1>4, <1>5, <2>2
      <4>2. i <= Len(m.queues["Cleanup"])
        <5>1. SUFFICES ASSUME ~(i <= Len(m.queues["Cleanup"])) PROVE FALSE
          OBVIOUS
        <5>2. i - Len(m.queues["Cleanup"]) \in 1..count
          BY <4>1, <5>1, <1>4
        <5>3. queue[i] = added[i - Len(m.queues["Cleanup"])]
          BY <4>1, <5>1, <1>4
        <5>4. x >= m.next
          BY <4>1, <5>2, <5>3, <1>3
        <5>5. QED BY <5>4, <1>1, <1>7
      <4>3. QED BY <3>2, <4>1, <4>2, <1>4
    <3>3. QED BY <3>1, <3>2
  <2>4. QED BY <2>3 DEF InSomeQueue
<1>8. PlacesGoOn(m, n, {})
  BY <1>1, <1>7 DEF PlacesGoOn, Placed
<1>9. QueuesGoOn(m, n, {"Cleanup"}) /\ SlotsGoOn(m, n)
  BY <1>1, <1>5 DEF QueuesGoOn, SlotsGoOn
<1>10. QED BY <1>6, <1>8, <1>9 DEF Continues, n

-----------------------------------------------------------------------------
(* start_next.                                                              *)

\* What start_next leaves behind when it starts the head of the queue.
Launches(m, n, lane) ==
  /\ n.next = m.next
  /\ n.queues = [m.queues EXCEPT ![lane] = SubSeq(@, 2, Len(@))]
  /\ n.active = [m.active EXCEPT ![lane] = m.queues[lane][1]]
  /\ n.tasks = [m.tasks EXCEPT ![m.queues[lane][1]].state = "Preflight"]

SameFields(m, n) ==
  /\ n.next = m.next /\ n.tasks = m.tasks
  /\ n.queues = m.queues /\ n.active = m.active

CanLaunch(m, lane) == m.active[lane] = NoOp /\ m.queues[lane] # <<>>

\* start_next starts the head of the queue when the slot is free, and nothing else.
LEMMA StartNextEffect ==
  ASSUME NEW m, ManagerInv(m), NEW lane \in Lanes
  PROVE  /\ CanLaunch(m, lane) => Launches(m, StartNext(m, lane), lane)
         /\ ~CanLaunch(m, lane) => SameFields(m, StartNext(m, lane))
<1> DEFINE queue == m.queues[lane]
           n == StartNext(m, lane)
<1>1. FitQueue(m, lane, queue) /\ queue \in Seq(Nat) /\ Len(queue) \in Nat
      /\ DOMAIN queue = 1..Len(queue)
  BY QueuesFit, LenProperties DEF FitQueue
<1>2. Startable(m, lane) = 1..Len(queue)
  BY <1>1 DEF Startable, FitQueue
<1>3. CASE m.active[lane] # NoOp
  BY <1>3 DEF StartNext, SameFields, CanLaunch
<1>4. CASE m.active[lane] = NoOp /\ queue = <<>>
  <2>1. n = [m EXCEPT !.queues[lane] = <<>>]
    BY <1>1, <1>2, <1>4 DEF StartNext
  <2>2. m.queues \in [Lanes -> Seq(Nat)]
    BY DEF ManagerInv, ManagerType
  <2>3. [m.queues EXCEPT ![lane] = <<>>] = m.queues
    BY <2>2, <1>4
  <2> HIDE DEF n
  <2>4. QED BY <2>1, <2>3, <1>4 DEF SameFields, CanLaunch, ManagerInv, ManagerType, n
<1>5. CASE m.active[lane] = NoOp /\ queue # <<>>
  <2> DEFINE first == CHOOSE i \in Startable(m, lane) : \A j \in Startable(m, lane) : i <= j
  <2>1. 1 \in 1..Len(queue)
    BY <1>1, <1>5, EmptySeq
  <2>2. first = 1
    BY <1>1, <1>2, <2>1
  <2>3. n = [m EXCEPT !.queues[lane] = SubSeq(queue, first + 1, Len(queue)),
                      !.tasks[queue[first]].state = "Preflight",
                      !.active[lane] = queue[first]]
    BY <1>2, <1>5, <2>1 DEF StartNext
  <2> HIDE DEF first, n
  <2>4. n = [m EXCEPT !.queues[lane] = SubSeq(queue, 2, Len(queue)),
                      !.tasks[queue[1]].state = "Preflight",
                      !.active[lane] = queue[1]]
    BY <2>2, <2>3
  <2>5. Launches(m, n, lane)
    BY <2>4 DEF Launches, ManagerInv, ManagerType
  <2>6. QED BY <2>5, <1>5 DEF CanLaunch, n
<1>6. QED BY <1>3, <1>4, <1>5

\* The head of the queue and what follows it.
LEMMA LaunchedTask ==
  ASSUME NEW m, ManagerInv(m), NEW lane \in Lanes, CanLaunch(m, lane)
  PROVE  /\ m.queues[lane][1] \in DOMAIN m.tasks
         /\ m.queues[lane][1] \in Nat
         /\ m.tasks[m.queues[lane][1]] \in Task
         /\ m.tasks[m.queues[lane][1]].lane = lane
         /\ m.tasks[m.queues[lane][1]].state = "Queued"
         /\ 1 \in DOMAIN m.queues[lane]
         /\ \A i \in DOMAIN SubSeq(m.queues[lane], 2, Len(m.queues[lane])) :
              /\ i + 1 \in DOMAIN m.queues[lane]
              /\ SubSeq(m.queues[lane], 2, Len(m.queues[lane]))[i] = m.queues[lane][i + 1]
<1> DEFINE queue == m.queues[lane]
           rest == SubSeq(queue, 2, Len(queue))
<1>1. FitQueue(m, lane, queue) /\ queue \in Seq(Nat) /\ Len(queue) \in Nat
      /\ DOMAIN queue = 1..Len(queue)
  BY QueuesFit, LenProperties DEF FitQueue
<1>2. 1 \in 1..Len(queue)
  BY <1>1, EmptySeq DEF CanLaunch
<1>3. queue[1] \in DOMAIN m.tasks /\ m.tasks[queue[1]].lane = lane
      /\ m.tasks[queue[1]].state = "Queued"
  BY <1>1, <1>2 DEF FitQueue
<1>4. queue[1] \in Nat /\ m.tasks[queue[1]] \in Task
  BY <1>3 DEF ManagerInv, ManagerType
<1>5. \A i \in DOMAIN rest : i + 1 \in DOMAIN queue /\ rest[i] = queue[i + 1]
  <2>1. \A i \in 2..Len(queue) : queue[i] \in Nat
    BY <1>1, ElementOfSeq
  <2> HIDE DEF queue
  <2>2. /\ rest \in Seq(Nat)
        /\ Len(rest) = IF 2 <= Len(queue) THEN Len(queue) - 2 + 1 ELSE 0
        /\ \A i \in 1..(Len(queue) - 2 + 1) : rest[i] = queue[2 + i - 1]
    BY <2>1, <1>1, SubSeqProperties
  <2>3. DOMAIN rest = 1..Len(rest)
    BY <2>2, LenProperties
  <2>4. Len(rest) = Len(queue) - 1
    BY <2>2, <1>1, <1>2
  <2>5. \A i \in 1..(Len(queue) - 1) : rest[i] = queue[i + 1] /\ i + 1 \in 1..Len(queue)
    BY <2>2, <1>1, <1>2
  <2>6. QED BY <2>3, <2>4, <2>5, <1>1
<1>6. QED BY <1>1, <1>2, <1>3, <1>4, <1>5

\* Starting a task continues, and leaves no queue behind a free slot.
LEMMA LaunchContinues ==
  ASSUME NEW m, ManagerInv(m), NEW lane \in Lanes, CanLaunch(m, lane),
         NEW n, Launches(m, n, lane)
  PROVE  Continues(m, n, {}, {}) /\ n.active[lane] \in Nat
<1> DEFINE id == m.queues[lane][1]
           task == [m.tasks[id] EXCEPT !.state = "Preflight"]
           rest == SubSeq(m.queues[lane], 2, Len(m.queues[lane]))
<1>1. /\ id \in DOMAIN m.tasks /\ id \in Nat /\ m.tasks[id] \in Task
      /\ m.tasks[id].state = "Queued" /\ 1 \in DOMAIN m.queues[lane]
      /\ \A i \in DOMAIN rest : i + 1 \in DOMAIN m.queues[lane] /\ rest[i] = m.queues[lane][i + 1]
  BY LaunchedTask
<1>2. m.next \in Nat /\ m.active \in [Lanes -> Nat \cup {NoOp}] /\ m.queues \in [Lanes -> Seq(Nat)]
      /\ \A x \in DOMAIN m.tasks : m.tasks[x] \in Task
  BY DEF ManagerInv, ManagerType
<1>3. Onward(m.tasks[id], task)
  BY <1>1 DEF Onward, Marked, Unfinished, IsActive, Terminal, Task
<1>4. n.next = m.next /\ DOMAIN n.tasks = DOMAIN m.tasks
      /\ \A x \in DOMAIN m.tasks : n.tasks[x] = IF x = id THEN task ELSE m.tasks[x]
  BY <1>1 DEF Launches
<1>5. /\ \A l \in Lanes : n.queues[l] = IF l = lane THEN rest ELSE m.queues[l]
      /\ \A l \in Lanes : n.active[l] = IF l = lane THEN id ELSE m.active[l]
  <2> HIDE DEF rest, id
  <2>1. QED BY <1>2 DEF Launches, rest, id
<1>6. InSomeQueue(m, id)
  BY <1>1 DEF InSomeQueue
<1>7. m.active[lane] = NoOp /\ m.queues[lane] # <<>>
  BY DEF CanLaunch
<1> HIDE DEF task, id, rest
<1>8. TasksGoOn(m, n)
  <2>1. \A x \in DOMAIN m.tasks : Onward(m.tasks[x], n.tasks[x])
    BY <1>2, <1>3, <1>4, OnwardSteps
  <2>2. n.next >= m.next
    BY <1>2, <1>4
  <2>3. QED BY <2>1, <2>2, <1>4 DEF TasksGoOn
<1>9. ASSUME NEW x, InSomeQueue(n, x) PROVE InSomeQueue(m, x)
  <2>1. PICK l \in Lanes : \E i \in DOMAIN n.queues[l] : n.queues[l][i] = x
    BY <1>9 DEF InSomeQueue
  <2>2. CASE l = lane
    BY <2>1, <2>2, <1>1, <1>5 DEF InSomeQueue
  <2>3. CASE l # lane
    BY <2>1, <2>3, <1>5 DEF InSomeQueue
  <2>4. QED BY <2>2, <2>3
<1>10. PlacesGoOn(m, n, {})
  BY <1>5, <1>6, <1>9 DEF PlacesGoOn, Placed
<1>11. QueuesGoOn(m, n, {}) /\ SlotsGoOn(m, n)
  BY <1>5, <1>7 DEF QueuesGoOn, SlotsGoOn
<1>12. QED BY <1>1, <1>5, <1>8, <1>10, <1>11 DEF Continues, id

\* start_next continues, and no lane it was asked for idles with work.
LEMMA StartNextContinues ==
  ASSUME NEW m, ManagerInv(m), NEW lane \in Lanes
  PROVE  /\ Continues(m, StartNext(m, lane), {}, {})
         /\ StartNext(m, lane).active[lane] = NoOp => StartNext(m, lane).queues[lane] = <<>>
<1>1. CASE CanLaunch(m, lane)
  BY <1>1, StartNextEffect, LaunchContinues, NoOpAssumption
<1>2. CASE ~CanLaunch(m, lane)
  <2>1. SameFields(m, StartNext(m, lane))
    BY <1>2, StartNextEffect
  <2>2. QED BY <1>2, <2>1, SameContinues DEF SameFields, CanLaunch
<1>3. QED BY <1>1, <1>2

-----------------------------------------------------------------------------
(* Cancelling, retrying, finishing.                                         *)

\* What cancel leaves behind.
LEMMA CancelEffect ==
  ASSUME NEW m, ManagerInv(m), NEW id \in DOMAIN m.tasks
  PROVE  /\ Cancel(m, id).next = m.next /\ Cancel(m, id).active = m.active
         /\ Cancel(m, id).tasks = [m.tasks EXCEPT ![id] = RequestCancel(@)]
         /\ \A l \in Lanes : \/ Cancel(m, id).queues[l] = m.queues[l]
                             \/ Cancel(m, id).queues[l] = Without(m.queues[l], id)
<1> DEFINE lane == m.tasks[id].lane
           cancelled == [m EXCEPT !.tasks[id] = RequestCancel(@)]
<1>1. lane \in Lanes /\ m.queues \in [Lanes -> Seq(Nat)]
  BY DEF ManagerInv, ManagerType, Task
<1>2. CASE m.active[lane] = id \/ m.tasks[id].state \in Terminal
  BY <1>2 DEF Cancel, ManagerInv, ManagerType
<1>3. CASE ~(m.active[lane] = id \/ m.tasks[id].state \in Terminal)
  <2>1. Cancel(m, id) = [cancelled EXCEPT !.queues[lane] = Without(m.queues[lane], id)]
    BY <1>3 DEF Cancel, ManagerInv, ManagerType
  <2> HIDE DEF lane
  <2>2. /\ Cancel(m, id).next = m.next /\ Cancel(m, id).active = m.active
        /\ Cancel(m, id).tasks = [m.tasks EXCEPT ![id] = RequestCancel(@)]
        /\ Cancel(m, id).queues = [m.queues EXCEPT ![lane] = Without(m.queues[lane], id)]
    BY <2>1 DEF ManagerInv, ManagerType
  <2>3. QED BY <2>2, <1>1
<1>4. QED BY <1>2, <1>3

\* cancel.
LEMMA CancelContinues ==
  ASSUME NEW m, ManagerInv(m), NEW id \in DOMAIN m.tasks
  PROVE  Continues(m, Cancel(m, id), {}, {})
<1> DEFINE n == Cancel(m, id)
<1>1. /\ n.next = m.next /\ n.active = m.active
      /\ n.tasks = [m.tasks EXCEPT ![id] = RequestCancel(@)]
      /\ \A l \in Lanes : n.queues[l] = m.queues[l] \/ n.queues[l] = Without(m.queues[l], id)
  BY CancelEffect
<1>2. m.next \in Nat /\ \A x \in DOMAIN m.tasks : m.tasks[x] \in Task
  BY DEF ManagerInv, ManagerType
<1> HIDE DEF n
<1>3. TasksGoOn(m, n)
  BY <1>1, <1>2, OnwardSteps DEF TasksGoOn
<1>4. ASSUME NEW l \in Lanes
      PROVE  /\ \A i \in DOMAIN n.queues[l] : \E p \in DOMAIN m.queues[l] : n.queues[l][i] = m.queues[l][p]
             /\ m.queues[l] = <<>> => n.queues[l] = <<>>
  <2>1. CASE n.queues[l] = m.queues[l]
    BY <2>1
  <2>2. CASE n.queues[l] = Without(m.queues[l], id)
    <3> DEFINE queue == m.queues[l]
    <3>1. FitQueue(m, l, queue) /\ FitQueue(m, l, Without(queue, id))
          /\ \A i \in 1..Len(Without(queue, id)) :
               \E p \in 1..Len(queue) : Without(queue, id)[i] = queue[p]
      BY QueuesFit, WithoutFits
    <3>2. DOMAIN queue = 1..Len(queue) /\ DOMAIN Without(queue, id) = 1..Len(Without(queue, id))
      BY <3>1, LenProperties DEF FitQueue
    <3>3. queue = <<>> => Without(queue, id) = <<>>
      BY DEF Without
    <3> HIDE DEF queue
    <3>4. QED BY <2>2, <3>1, <3>2, <3>3 DEF queue
  <2>3. QED BY <1>1, <2>1, <2>2
<1>5. \A x : InSomeQueue(n, x) => InSomeQueue(m, x)
  BY <1>4 DEF InSomeQueue
<1>6. PlacesGoOn(m, n, {}) /\ QueuesGoOn(m, n, {}) /\ SlotsGoOn(m, n)
  BY <1>1, <1>4, <1>5 DEF PlacesGoOn, QueuesGoOn, SlotsGoOn, Placed
<1>7. QED BY <1>3, <1>6 DEF Continues, n

\* What retry leaves behind.
LEMMA RetryEffect ==
  ASSUME NEW m, ManagerInv(m), NEW id, RetryAccepted(m, id)
  PROVE  /\ id \in DOMAIN m.tasks /\ id \in Nat /\ m.tasks[id] \in Task
         /\ m.tasks[id].state \in Terminal /\ m.tasks[id].lane \in Lanes
         /\ Retry(m, id).next = m.next /\ Retry(m, id).active = m.active
         /\ Retry(m, id).tasks = [m.tasks EXCEPT ![id] = PrepareRetry(@)]
         /\ Retry(m, id).queues = [m.queues EXCEPT ![m.tasks[id].lane] = Append(@, id)]
BY DEF Retry, RetryAccepted, Present, ManagerInv, ManagerType, Task

\* A retried task is the same operation in its next round.
LEMMA PrepareRetryFresh ==
  ASSUME NEW task \in Task
  PROVE  /\ PrepareRetry(task).kind = task.kind /\ PrepareRetry(task).round = task.round + 1
         /\ PrepareRetry(task).lane = task.lane
         /\ PrepareRetry(task).state = "Queued" /\ Marked(PrepareRetry(task))
BY DEF PrepareRetry, Marked, Task

\* What finish leaves behind when it accepts.
Finishes(m, n, id, state) ==
  /\ n.next = m.next /\ n.queues = m.queues
  /\ n.active = [m.active EXCEPT ![m.tasks[id].lane] = NoOp]
  /\ n.tasks = [m.tasks EXCEPT ![id] = [m.tasks[id] EXCEPT !.state = state, !.stamped = TRUE]]

LEMMA FinishEffect ==
  ASSUME NEW m, ManagerInv(m), NEW id, NEW state, CanFinish(m, id, state)
  PROVE  Finishes(m, Finish(m, id, state), id, state)
<1>1. id \in DOMAIN m.tasks /\ m.tasks[id] \in Task /\ m.tasks[id].lane \in Lanes
  BY DEF CanFinish, HoldsSlot, Present, ManagerInv, ManagerType, Task
<1>2. QED BY <1>1 DEF Finish, Finishes, ManagerInv, ManagerType

-----------------------------------------------------------------------------
(* The lanes: the first of the three invariants.                           *)

LanesInv == TypeOK /\ ManagerConsistent

-----------------------------------------------------------------------------
(* Coordinator helpers.                                                     *)

\* start_next and mark_running_if_ready in a row.
LEMMA StartAndMarkKeeps ==
  ASSUME NEW m, ManagerInv(m), NEW lane \in Lanes
  PROVE  ManagerInv(StartAndMark(m, lane))
BY StartNextKeeps, MarkRunningKeeps DEF StartAndMark, MarkRunningIfReady

\* What start_next took from a queue is a request the lane's channel can carry.
LEMMA DeliverType ==
  ASSUME NEW before, NEW after, ManagerInv(after), inbox \in [Lanes -> Seq(Request)]
  PROVE  Deliver(before, after) \in [Lanes -> Seq(Request)]
<1> SUFFICES ASSUME NEW l \in Lanes, Started(before, after, l)
             PROVE  RequestFor(after, after.active[l]) \in Request
  BY DEF Deliver
<1> DEFINE id == after.active[l]
<1>1. id # NoOp /\ Present(after, id) /\ after.tasks[id] \in Task /\ id \in Nat
  BY DEF Started, ManagerInv, SlotsHoldTasksInProgress, ManagerType, Present
<1>2. after.tasks[id].round \in Nat
  BY <1>1 DEF Task
<1>3. QED BY <1>1, <1>2 DEF RequestFor, Request

\* The outcome an event carries, and the state it makes the task end in.
LEMMA EventOutcome ==
  ASSUME NEW e \in Event, e.type \in {"Finished", "Committed"}
  PROVE  /\ e.id \in Nat /\ e.outcome \in Outcome
         /\ (e.outcome.failed \/ e.outcome.left) \in BOOLEAN
         /\ \A cancelled : TerminalState(cancelled, e.outcome) \in Terminal
<1>1. e.id \in Nat /\ e.outcome \in Outcome
  BY DEF Event
<1>2. QED BY <1>1 DEF TerminalState, Terminal

\* Writing the item states leaves the task where it is.
LEMMA WithItemStatesKeeps ==
  ASSUME NEW m, ManagerInv(m), NEW e \in Event, e.type \in {"Finished", "Committed"}
  PROVE  ManagerInv(WithItemStates(m, e))
<1>1. CASE Present(m, e.id)
  <2> DEFINE retryable == e.outcome.failed \/ e.outcome.left
             task == [m.tasks[e.id] EXCEPT !.retryable = retryable]
  <2>1. e.id \in DOMAIN m.tasks /\ m.tasks[e.id] \in Task /\ retryable \in BOOLEAN
    BY <1>1, EventOutcome DEF ManagerInv, ManagerType, Present
  <2>2. WithItemStates(m, e) = [m EXCEPT !.tasks[e.id] = task]
    BY <1>1 DEF WithItemStates, ManagerInv, ManagerType
  <2> HIDE DEF retryable
  <2>3. StaysPut(m.tasks[e.id], task)
    BY <2>1 DEF StaysPut, Task
  <2> HIDE DEF task
  <2>4. QED BY <2>1, <2>2, <2>3, InPlaceKeeps
<1>2. CASE ~Present(m, e.id)
  BY <1>2 DEF WithItemStates
<1>3. QED BY <1>1, <1>2

\* The completion of a round, up to and with finish.
LEMMA SettledKeeps ==
  ASSUME NEW m, ManagerInv(m), NEW e \in Event, e.type \in {"Finished", "Committed"}
  PROVE  ManagerInv(Settled(WithItemStates(m, e), e))
BY WithItemStatesKeeps, EventOutcome, FinishKeeps DEF Settled


\* Cancelling every active task empties the queues and leaves the slots alone.
LEMMA AllCancelledKeeps ==
  ASSUME NEW m, ManagerInv(m)
  PROVE  ManagerInv(AllCancelled(m))
<1> DEFINE n == AllCancelled(m)
<1>1. /\ DOMAIN n = {"next", "tasks", "queues", "active"}
      /\ n.next = m.next /\ n.active = m.active
      /\ n.queues = [l \in Lanes |-> <<>>]
      /\ DOMAIN n.tasks = DOMAIN m.tasks
      /\ \A id \in DOMAIN m.tasks :
           n.tasks[id] = IF IsActive(m.tasks[id].state) THEN RequestCancel(m.tasks[id])
                         ELSE m.tasks[id]
  BY DEF AllCancelled, ActiveIds, ManagerInv, ManagerType
<1>2. ASSUME NEW id \in DOMAIN m.tasks
      PROVE  /\ n.tasks[id] \in Task /\ n.tasks[id].lane = m.tasks[id].lane
             /\ n.tasks[id].state \in InProgress <=> m.tasks[id].state \in InProgress
  <2>1. m.tasks[id] \in Task /\ m.tasks[id].state \in States
    BY DEF ManagerInv, ManagerType, Task
  <2> HIDE DEF n
  <2>2. QED
    BY <1>1, <2>1, RequestCancelType DEF IsActive, States, InProgress, Terminal
<1> HIDE DEF n
<1>3. ManagerType(n)
  BY <1>1, <1>2 DEF ManagerType, ManagerInv
<1>4. SlotsHoldTasksInProgress(n) /\ InProgressHoldsSlot(n)
  BY <1>1, <1>2 DEF SlotsHoldTasksInProgress, InProgressHoldsSlot, ManagerInv, Present
<1>5. QueuesHoldQueuedTasks(n)
  BY <1>1 DEF QueuesHoldQueuedTasks
<1>6. QED BY <1>3, <1>4, <1>5 DEF ManagerInv, n

-----------------------------------------------------------------------------
(* The manager's books after each kind of step.                             *)

\* Every user action keeps the books.
LEMMA UserStepKeepsBooks ==
  ASSUME LanesInv, UserStep
  PROVE  ManagerConsistent'
<1> USE DEF LanesInv, ManagerConsistent
<1>1. ASSUME NEW pair \in Submittable, EnqueueOperation(pair[1], pair[2])
      PROVE  ManagerInv(manager')
  <2>1. pair[1] \in Kinds /\ pair[2] \in Lanes
    BY LanesAssumption DEF Kinds, Lanes
  <2>2. QED
    BY <1>1, <2>1, SubmitKeeps, StartAndMarkKeeps DEF EnqueueOperation
<1>2. CASE EnqueueRename
  BY <1>2, SubmitPreparingKeeps DEF EnqueueRename
<1>3. CASE RequestUndo
  <2> DEFINE m == Submit(manager, "Undo", "Local", FALSE)
             s == StartNext(m, "Local")
  <2>1. ManagerInv(m) /\ ManagerInv(s)
    BY SubmitKeeps, StartNextKeeps DEF Kinds, Lanes
  <2>2. CASE Started(m, s, "Local")
    <3>1. manager' = MarkRunning(s, s.active["Local"])
      BY <1>3, <2>2 DEF RequestUndo
    <3>2. QED BY <2>1, <3>1, MarkRunningKeeps
  <2>3. CASE ~Started(m, s, "Local")
    <3>1. manager' = [manager EXCEPT !.next = @ + 1]
      BY <1>3, <2>3 DEF RequestUndo
    <3>2. QED
      BY <3>1 DEF ManagerInv, ManagerType, SlotsHoldTasksInProgress, InProgressHoldsSlot,
                  QueuesHoldQueuedTasks, Present
  <2>4. QED BY <2>2, <2>3
<1>4. ASSUME NEW id \in DOMAIN manager.tasks, CancelTask(id)
      PROVE  ManagerInv(manager')
  BY <1>4, CancelKeeps DEF CancelTask
<1>5. ASSUME NEW id \in DOMAIN manager.tasks, PauseOrResume(id)
      PROVE  ManagerInv(manager')
  <2>1. manager.tasks[id] \in Task
    BY DEF ManagerInv, ManagerType
  <2>2. QED BY <1>5, <2>1, SetPausedStays, UpdateKeeps DEF PauseOrResume
<1>6. ASSUME NEW id \in DOMAIN manager.tasks, RetryTask(id)
      PROVE  ManagerInv(manager')
  <2>1. RetryAccepted(manager, id)
    BY <1>6 DEF RetryTask
  <2>2. ManagerInv(Retry(manager, id))
    BY <2>1, RetryKeeps
  <2>3. manager.tasks[id].lane \in Lanes
    BY DEF ManagerInv, ManagerType, Task
  <2>4. QED BY <1>6, <2>2, <2>3, StartAndMarkKeeps DEF RetryTask
<1>7. CASE ResolveDialog
  <2>1. Present(manager, dialog) => manager.tasks[dialog] \in Task
    BY DEF ManagerInv, ManagerType, Present
  <2>2. QED BY <1>7, <2>1, ResolveConflictStays, UpdateKeeps DEF ResolveDialog
<1>8. CASE CloseLastWindow \/ WaitForTasks
  BY <1>8 DEF CloseLastWindow, WaitForTasks
<1>9. CASE CancelTasksAndExit
  BY <1>9, AllCancelledKeeps DEF CancelTasksAndExit
<1>10. QED
  BY <1>1, <1>2, <1>3, <1>4, <1>5, <1>6, <1>7, <1>8, <1>9 DEF UserStep

\* Every step of a thread, of the pump and of a handler keeps the books.
LEMMA SystemStepKeepsBooks ==
  ASSUME LanesInv, SystemStep
  PROVE  ManagerConsistent'
<1> USE DEF LanesInv, ManagerConsistent
<1>1. ASSUME NEW id \in preparing, NEW lane \in {"Local", "Network"}, RenamePrepared(id, lane)
      PROVE  ManagerInv(manager')
  BY <1>1, CompletePreparationKeeps, StartAndMarkKeeps DEF RenamePrepared, Lanes
<1>2. ASSUME NEW count \in 0..MaxRecovered, RecoverCleanups(count)
      PROVE  ManagerInv(manager')
  BY <1>2, LanesAssumption, SubmitRecoveredKeeps, StartAndMarkKeeps DEF RecoverCleanups, Lanes
<1>3. ASSUME NEW expired \in SUBSET Receipts(manager), PruneTasks(expired)
      PROVE  ManagerInv(manager')
  BY <1>3, PruneKeeps DEF PruneTasks
<1>4. ASSUME NEW l \in Lanes, LaneStep(l)
      PROVE  ManagerInv(manager')
  BY <1>4 DEF LaneStep, WorkerStep, TakeRequest, Park, Unpark, ReportExecuting, MeetConflict,
              EnterGate, LeaveGate, FinishRequest
<1>5. CASE PumpExecuting
  BY <1>5, MarkRunningKeeps DEF PumpExecuting
<1>6. CASE PumpForward
  BY <1>6 DEF PumpForward
<1>7. CASE HandleConflict
  <2> DEFINE id == Head(uiQueue).id
  <2>1. Present(manager, id) => manager.tasks[id] \in Task
    BY DEF ManagerInv, ManagerType, Present
  <2>2. QED BY <1>7, <2>1, SetConflictStays, UpdateKeeps DEF HandleConflict
<1>8. CASE HandleFinished
  <2> DEFINE e == Head(uiQueue)
             m == Settled(WithItemStates(manager, e), e)
  <2>1. e \in Event /\ e.type \in {"Finished", "Committed"}
    BY <1>8 DEF HandleFinished, TypeOK
  <2>2. ManagerInv(m)
    BY <2>1, SettledKeeps
  <2>3. LaneOf(manager, e.id) \in Lanes
    BY DEF LaneOf, ManagerInv, ManagerType, Present, Task, Lanes
  <2>4. manager' = StartAndMark(m, LaneOf(manager, e.id))
    BY <1>8 DEF HandleFinished
  <2>5. QED BY <2>2, <2>3, <2>4, StartAndMarkKeeps
<1>9. CASE HandleCommitted
  <2> DEFINE e == Head(uiQueue)
             m == Settled(WithItemStates(manager, e), e)
             c == IF e.cleanup THEN Submit(m, "PermanentDelete", "Cleanup", FALSE) ELSE m
  <2>1. e \in Event /\ e.type \in {"Finished", "Committed"}
    BY <1>9 DEF HandleCommitted, TypeOK
  <2>2. ManagerInv(m)
    BY <2>1, SettledKeeps
  <2>3. manager' = StartAndMark(StartAndMark(c, "Cleanup"), "Local")
    BY <1>9 DEF HandleCommitted
  <2> HIDE DEF m
  <2>4. ManagerInv(c)
    BY <2>2, SubmitKeeps DEF Kinds, Lanes
  <2> HIDE DEF c
  <2>5. ManagerInv(StartAndMark(c, "Cleanup"))
    BY <2>4, StartAndMarkKeeps DEF Lanes
  <2>6. QED BY <2>3, <2>5, StartAndMarkKeeps DEF Lanes
<1>10. QED
  BY <1>1, <1>2, <1>3, <1>4, <1>5, <1>6, <1>7, <1>8, <1>9 DEF SystemStep, UiHandler


-----------------------------------------------------------------------------
(* The types after each kind of step.                                       *)

\* The typing of the variables beside the manager.
Typed ==
  /\ preparing \subseteq Nat
  /\ inbox \in [Lanes -> Seq(Request)]
  /\ worker \in [Lanes -> WorkerState]
  /\ gate \in Lanes \cup {NoLane}
  /\ reply \in [Lanes -> BOOLEAN]
  /\ events \in Seq(Event) /\ uiQueue \in Seq(Event)
  /\ responses \subseteq Nat
  /\ dialog \in Nat \cup {NoOp}
  /\ undo \in [entries: Nat, running: BOOLEAN]
  /\ {confirming, exiting, open, scanned} \subseteq BOOLEAN

\* Every user action keeps the types; ManagerConsistent' is what Deliver needs.
LEMMA UserStepKeepsTypes ==
  ASSUME LanesInv, UserStep, ManagerConsistent'
  PROVE  Typed'
<1> USE DEF LanesInv, ManagerConsistent, Typed, TypeOK, work, ui
<1>1. ASSUME NEW kind, NEW lane, EnqueueOperation(kind, lane)
      PROVE  Typed'
  BY <1>1, DeliverType DEF EnqueueOperation
<1>2. CASE EnqueueRename
  BY <1>2 DEF EnqueueRename, ManagerInv, ManagerType
<1>3. CASE RequestUndo
  <2> DEFINE m == Submit(manager, "Undo", "Local", FALSE)
             s == StartNext(m, "Local")
  <2>1. CASE Started(m, s, "Local")
    <3>1. /\ inbox' = Deliver(m, manager')
          /\ undo' = [entries |-> undo.entries - 1, running |-> TRUE]
          /\ undo.entries > 0
      BY <1>3, <2>1 DEF RequestUndo
    <3>2. inbox' \in [Lanes -> Seq(Request)]
      BY <3>1, DeliverType
    <3>3. undo' \in [entries: Nat, running: BOOLEAN]
      <4> HIDE DEF m, s
      <4>1. undo.entries \in Nat /\ undo.entries - 1 \in Nat
        BY <3>1
      <4>2. QED BY <3>1, <4>1
    <3>4. QED BY <1>3, <3>2, <3>3 DEF RequestUndo
  <2>2. CASE ~Started(m, s, "Local")
    <3>1. inbox' = inbox /\ undo' = undo
      BY <1>3, <2>2 DEF RequestUndo
    <3>2. QED BY <1>3, <3>1 DEF RequestUndo
  <2>3. QED BY <2>1, <2>2
<1>4. ASSUME NEW id \in DOMAIN manager.tasks, CancelTask(id)
      PROVE  Typed'
  BY <1>4 DEF CancelTask, Answer
<1>5. ASSUME NEW id \in DOMAIN manager.tasks, PauseOrResume(id)
      PROVE  Typed'
  BY <1>5 DEF PauseOrResume
<1>6. ASSUME NEW id \in DOMAIN manager.tasks, RetryTask(id)
      PROVE  Typed'
  BY <1>6, DeliverType DEF RetryTask
<1>7. CASE ResolveDialog
  BY <1>7 DEF ResolveDialog, Answer
<1>8. CASE CloseLastWindow
  BY <1>8 DEF CloseLastWindow
<1>9. CASE WaitForTasks
  BY <1>9 DEF WaitForTasks
<1>10. CASE CancelTasksAndExit
  <2>1. open' \in BOOLEAN
    BY <1>10 DEF CancelTasksAndExit, HasActiveTasks
  <2>2. QED BY <1>10, <2>1 DEF CancelTasksAndExit
<1>11. QED
  BY <1>1, <1>2, <1>3, <1>4, <1>5, <1>6, <1>7, <1>8, <1>9, <1>10 DEF UserStep

\* A worker that asks about a conflict has met one more.
LEMMA OneMoreConflict ==
  ASSUME NEW w \in WorkerState
  PROVE  [w EXCEPT !.pc = "waiting", !.conflicts = @ + 1] \in WorkerState
<1>1. w.conflicts + 1 \in Nat
  BY DEF WorkerState
<1>2. QED BY <1>1 DEF WorkerState

\* Every step of a lane worker keeps the types.
LEMMA LaneStepKeepsTypes ==
  ASSUME LanesInv, NEW l \in Lanes, LaneStep(l)
  PROVE  Typed'
<1> USE DEF LanesInv, Typed, TypeOK, WorkerState, WorkerStep, ui
<1>1. CASE TakeRequest(l)
  <2>1. Head(inbox[l]) \in Request /\ Tail(inbox[l]) \in Seq(Request)
    BY <1>1 DEF TakeRequest
  <2>2. QED BY <1>1, <2>1 DEF TakeRequest, Idle, Request
<1>2. CASE Park(l)
  BY ZenonT(60), <1>2 DEF Park
<1>3. CASE Unpark(l)
  BY ZenonT(60), <1>3 DEF Unpark
<1>4. CASE ReportExecuting(l)
  <2>1. [type |-> "Executing", id |-> worker[l].id] \in Event
    BY DEF Event
  <2>2. events' \in Seq(Event)
    BY <1>4, <2>1, AppendProperties DEF ReportExecuting
  <2>3. QED BY ZenonT(60), <1>4, <2>2 DEF ReportExecuting
<1>5. CASE MeetConflict(l)
  BY ZenonT(60), <1>5 DEF MeetConflict
<1>6. CASE EnterGate(l)
  <2>1. [type |-> "Conflict", id |-> worker[l].id] \in Event
    BY DEF Event
  <2>2. events' \in Seq(Event)
    BY <1>6, <2>1, AppendProperties DEF EnterGate
  <2>3. worker' = [worker EXCEPT ![l] = [worker[l] EXCEPT !.pc = "waiting", !.conflicts = @ + 1]]
    BY <1>6 DEF EnterGate
  <2>4. [worker[l] EXCEPT !.pc = "waiting", !.conflicts = @ + 1] \in WorkerState
    BY OneMoreConflict
  <2> HIDE DEF WorkerState
  <2>5. worker' \in [Lanes -> WorkerState]
    BY <2>3, <2>4
  <2>6. QED BY <1>6, <2>2, <2>5 DEF EnterGate
<1>7. CASE LeaveGate(l)
  BY ZenonT(60), <1>7 DEF LeaveGate
<1>8. ASSUME NEW outcome \in Outcomes, NEW undoable \in BOOLEAN, NEW cleanup \in BOOLEAN,
             FinishRequest(l, outcome, undoable, cleanup)
      PROVE  Typed'
  <2> DEFINE e == [type |-> IF CommitsOnly(Token(l)) THEN "Committed" ELSE "Finished",
                   id |-> worker[l].id, outcome |-> outcome,
                   undoable |-> undoable, cleanup |-> cleanup]
  <2>1. e \in Event
    BY LanesAssumption DEF Event
  <2>2. events' = Append(events, e) /\ worker' = [worker EXCEPT ![l] = Idle]
    BY <1>8 DEF FinishRequest
  <2> HIDE DEF e
  <2>3. events' \in Seq(Event)
    BY <2>1, <2>2, AppendProperties
  <2>4. QED BY SMTT(30), <1>8, <2>2, <2>3 DEF FinishRequest, Idle
<1>9. QED
  BY <1>1, <1>2, <1>3, <1>4, <1>5, <1>6, <1>7, <1>8 DEF LaneStep

\* The rest of a handler keeps the types if what it did before does.
LEMMA HandlerTailType ==
  ASSUME Typed, NEW shown \in Nat \cup {NoOp}, uiQueue # <<>>, HandlerTail(shown),
         inbox' \in [Lanes -> Seq(Request)], responses' \subseteq Nat,
         undo' \in [entries: Nat, running: BOOLEAN]
  PROVE  Typed'
<1>1. Tail(uiQueue) \in Seq(Event)
  BY DEF Typed
<1>2. open' \in BOOLEAN
  BY DEF HandlerTail, HasActiveTasks
<1>3. dialog' \in Nat \cup {NoOp}
  BY DEF HandlerTail
<1>4. QED BY <1>1, <1>2, <1>3 DEF HandlerTail, Typed, work

\* Every step of a thread, of the pump and of a handler keeps the types.
LEMMA SystemStepKeepsTypes ==
  ASSUME LanesInv, SystemStep, ManagerConsistent'
  PROVE  Typed'
<1> USE DEF LanesInv, ManagerConsistent
<1>1. ASSUME NEW id, NEW lane, RenamePrepared(id, lane)
      PROVE  Typed'
  <2>1. inbox' \in [Lanes -> Seq(Request)]
    <3>1. inbox \in [Lanes -> Seq(Request)]
      BY DEF TypeOK
    <3>2. CASE PreparationAccepted(manager, id)
      BY <1>1, <3>1, <3>2, DeliverType DEF RenamePrepared
    <3>3. CASE ~PreparationAccepted(manager, id)
      BY <1>1, <3>1, <3>3 DEF RenamePrepared
    <3>4. QED BY <3>2, <3>3
  <2>2. QED BY <1>1, <2>1 DEF RenamePrepared, Typed, TypeOK, work, ui
<1>2. ASSUME NEW count, RecoverCleanups(count)
      PROVE  Typed'
  BY <1>2, DeliverType DEF RecoverCleanups, Typed, TypeOK, work
<1>3. ASSUME NEW expired, PruneTasks(expired)
      PROVE  Typed'
  BY <1>3 DEF PruneTasks, Typed, TypeOK, work, ui
<1>4. ASSUME NEW l \in Lanes, LaneStep(l)
      PROVE  Typed'
  BY <1>4, LaneStepKeepsTypes
<1>5. CASE PumpExecuting
  BY <1>5 DEF PumpExecuting, Typed, TypeOK, ui
<1>6. CASE PumpForward
  <2>1. Head(events) \in Event /\ Tail(events) \in Seq(Event)
    BY <1>6 DEF PumpForward, TypeOK
  <2>2. QED BY <1>6, <2>1 DEF PumpForward, Typed, TypeOK, ui
<1>7. Typed
  BY DEF Typed, TypeOK
<1>8. CASE HandleConflict
  <2>1. Head(uiQueue) \in Event /\ Head(uiQueue).id \in Nat
    BY <1>8 DEF HandleConflict, TypeOK, Event
  <2>2. QED
    BY <1>7, <1>8, <2>1, HandlerTailType DEF HandleConflict, TypeOK
<1>9. CASE HandleFinished
  <2> DEFINE e == Head(uiQueue)
             kind == KindOf(manager, e.id)
             terminal == TerminalState(IsCancelled(manager, e.id), e.outcome)
  <2>1. undo' = UndoAfter(kind, e, terminal)
    BY <1>9 DEF HandleFinished
  <2>2. undo' \in [entries: Nat, running: BOOLEAN]
    <3>1. undo \in [entries: Nat, running: BOOLEAN]
      BY DEF TypeOK
    <3> HIDE DEF e, kind, terminal
    <3>2. CASE kind = "Undo"
      BY <2>1, <3>1, <3>2 DEF UndoAfter
    <3>3. CASE kind # "Undo"
      BY <2>1, <3>1, <3>3 DEF UndoAfter
    <3>4. QED BY <3>2, <3>3
  <2>3. inbox' \in [Lanes -> Seq(Request)]
    BY <1>9, DeliverType DEF HandleFinished, TypeOK
  <2>4. QED
    BY <1>7, <1>9, <2>2, <2>3, HandlerTailType DEF HandleFinished, TypeOK
<1>10. CASE HandleCommitted
  <2>1. inbox' \in [Lanes -> Seq(Request)]
    BY <1>10, DeliverType DEF HandleCommitted, TypeOK
  <2>2. QED
    BY <1>7, <1>10, <2>1, HandlerTailType DEF HandleCommitted, TypeOK
<1>11. QED
  BY <1>1, <1>2, <1>3, <1>4, <1>5, <1>6, <1>8, <1>9, <1>10 DEF SystemStep, UiHandler

-----------------------------------------------------------------------------
\* The types and the books hold at first.
LEMMA LanesInvInit == Init => LanesInv
<1> SUFFICES ASSUME Init PROVE LanesInv
  OBVIOUS
<1>1. ManagerInv(manager)
  BY NewManagerConsistent DEF Init
<1>2. inbox \in [Lanes -> Seq(Request)] /\ events \in Seq(Event) /\ uiQueue \in Seq(Event)
  <2>1. <<>> \in Seq(Request) /\ <<>> \in Seq(Event)
    BY EmptySeq
  <2>2. QED BY <2>1 DEF Init
<1>3. QED BY <1>1, <1>2 DEF Init, LanesInv, TypeOK, ManagerConsistent, ManagerInv, Idle, WorkerState

\* And every step keeps them.
LEMMA LanesInvStep == LanesInv /\ [Next]_vars => LanesInv'
<1> SUFFICES ASSUME LanesInv, [Next]_vars PROVE LanesInv'
  OBVIOUS
<1>1. CASE Next
  <2>1. ManagerConsistent'
    BY <1>1, UserStepKeepsBooks, SystemStepKeepsBooks DEF Next
  <2>2. Typed'
    BY <1>1, <2>1, UserStepKeepsTypes, SystemStepKeepsTypes DEF Next
  <2>3. QED BY <2>1, <2>2 DEF LanesInv, TypeOK, Typed, ManagerConsistent, ManagerInv
<1>2. CASE UNCHANGED vars
  BY <1>2 DEF vars, LanesInv, TypeOK, ManagerConsistent
<1>3. QED BY <1>1, <1>2

LEMMA LanesInvInductive == Spec => []LanesInv
BY LanesInvInit, LanesInvStep, PTL DEF Spec

\* Every variable keeps its type, the contents of the channels and of the two
\* event queues included.
THEOREM TypesHold == Spec => []TypeOK
<1>1. LanesInv => TypeOK
  BY DEF LanesInv
<1>2. QED BY <1>1, LanesInvInductive, PTL

\* Slots, queues and task states agree in every reachable state, for any number
\* of tasks, rounds, conflicts and recovered cleanups.
THEOREM BooksConsistent == Spec => []ManagerConsistent
<1>1. LanesInv => ManagerConsistent
  BY DEF LanesInv
<1>2. QED BY <1>1, LanesInvInductive, PTL

-----------------------------------------------------------------------------
(* What a manager that continues keeps.                                     *)

AllMarked(m) == \A id \in DOMAIN m.tasks : Marked(m.tasks[id])

\* The Shell may have aborted the batch that task stands for.
MayBeAborted(task) == ShellAborts /\ UsesLocalRecycleBatch(task)

Complete(task) == task.state = "Completed" => ~task.retryable \/ MayBeAborted(task)

AllComplete(m) == \A id \in DOMAIN m.tasks : Complete(m.tasks[id])

\* Renames that are being prepared stand in no queue and have not started.
OutOf(m, ids) ==
  \A id \in ids : /\ id < m.next /\ ~InSomeQueue(m, id)
                  /\ Present(m, id) => m.tasks[id].state \in {"Queued", "Cancelled"}

NoneIdle(m, lanes) == \A l \in lanes : m.active[l] = NoOp => m.queues[l] = <<>>

\* What a worker relies on of the task it serves.
SameService(old, new) ==
  /\ new.kind = old.kind /\ new.lane = old.lane /\ new.round = old.round
  /\ old.cancelled => new.cancelled

SlotsKept(m, n) ==
  \A l \in Lanes : m.active[l] # NoOp =>
    /\ n.active[l] = m.active[l]
    /\ m.active[l] \in DOMAIN n.tasks
    /\ SameService(m.tasks[m.active[l]], n.tasks[m.active[l]])

\* A task in a slot is there, in progress, and belongs to the lane.
LEMMA SlotTask ==
  ASSUME NEW m, ManagerInv(m), NEW l \in Lanes, m.active[l] # NoOp
  PROVE  /\ m.active[l] \in DOMAIN m.tasks /\ m.active[l] \in Nat
         /\ m.tasks[m.active[l]] \in Task
         /\ m.tasks[m.active[l]].lane = l /\ m.tasks[m.active[l]].state \in InProgress
         /\ HoldsSlot(m, m.active[l])
BY DEF ManagerInv, SlotsHoldTasksInProgress, ManagerType, Present, HoldsSlot

\* And the other way round.
LEMMA HolderTask ==
  ASSUME NEW m, ManagerInv(m), NEW id, HoldsSlot(m, id)
  PROVE  /\ id \in DOMAIN m.tasks /\ id \in Nat /\ id # NoOp /\ m.tasks[id] \in Task
         /\ m.tasks[id].lane \in Lanes
         /\ m.active[m.tasks[id].lane] = id
         /\ m.tasks[id].state \in InProgress
<1>1. id \in DOMAIN m.tasks /\ id \in Nat /\ m.tasks[id] \in Task /\ m.tasks[id].lane \in Lanes
      /\ m.active[m.tasks[id].lane] = id
  BY DEF HoldsSlot, Present, ManagerInv, ManagerType, Task
<1>2. id # NoOp
  BY <1>1, NoOpAssumption
<1>3. QED BY <1>1, <1>2, SlotTask

\* A slot that is held stays held, by the same task.
LEMMA ContinuesKeepsSlots ==
  ASSUME NEW m, NEW n, ManagerInv(m), ManagerInv(n), NEW entering, NEW growing,
         Continues(m, n, entering, growing)
  PROVE  SlotsKept(m, n)
<1> SUFFICES ASSUME NEW l \in Lanes, m.active[l] # NoOp
             PROVE  /\ n.active[l] = m.active[l]
                    /\ m.active[l] \in DOMAIN n.tasks
                    /\ SameService(m.tasks[m.active[l]], n.tasks[m.active[l]])
  BY DEF SlotsKept
<1>1. n.active[l] = m.active[l]
  BY DEF Continues, SlotsGoOn
<1>2. m.active[l] \in DOMAIN m.tasks /\ m.tasks[m.active[l]].lane = l
  BY SlotTask
<1>3. m.active[l] \in DOMAIN n.tasks /\ n.tasks[m.active[l]].lane = l
  BY <1>1, SlotTask
<1>4. Onward(m.tasks[m.active[l]], n.tasks[m.active[l]])
  BY <1>2, <1>3 DEF Continues, TasksGoOn
<1>5. QED BY <1>1, <1>2, <1>3, <1>4 DEF SameService, Onward

\* Cancellations stay marked, and what completed stays complete.
LEMMA ContinuesKeepsTasks ==
  ASSUME NEW m, NEW n, NEW entering, NEW growing, Continues(m, n, entering, growing)
  PROVE  /\ AllMarked(m) => AllMarked(n)
         /\ AllComplete(m) => AllComplete(n)
<1>1. ASSUME AllMarked(m) PROVE AllMarked(n)
  BY <1>1 DEF AllMarked, Continues, TasksGoOn, Onward
<1>2. ASSUME AllComplete(m), NEW id \in DOMAIN n.tasks, n.tasks[id].state = "Completed"
      PROVE  Complete(n.tasks[id])
  <2>1. id \in DOMAIN m.tasks
    BY <1>2 DEF Continues, TasksGoOn, Unfinished, Terminal
  <2>2. Onward(m.tasks[id], n.tasks[id])
    BY <2>1 DEF Continues, TasksGoOn
  <2>3. m.tasks[id].state = "Completed" /\ n.tasks[id].lane = m.tasks[id].lane
        /\ n.tasks[id].kind = m.tasks[id].kind /\ n.tasks[id].retryable = m.tasks[id].retryable
    BY <1>2, <2>2 DEF Onward, Unfinished, Terminal
  <2>4. Complete(m.tasks[id])
    BY <1>2, <2>1 DEF AllComplete
  <2>5. QED BY <2>3, <2>4 DEF Complete, MayBeAborted, UsesLocalRecycleBatch
<1>3. QED BY <1>1, <1>2 DEF AllComplete, Complete

\* A rename that is prepared stays out.
LEMMA OutStays ==
  ASSUME NEW m, NEW n, ManagerInv(m), ManagerInv(n), n.next >= m.next,
         NEW entering, PlacesGoOn(m, n, entering),
         NEW ids, ids \subseteq Nat, OutOf(m, ids), ids \cap entering = {},
         \A id \in ids : id \in DOMAIN n.tasks =>
           id \in DOMAIN m.tasks /\ Onward(m.tasks[id], n.tasks[id])
  PROVE  OutOf(n, ids)
<1> SUFFICES ASSUME NEW id \in ids
             PROVE  /\ id < n.next /\ ~InSomeQueue(n, id)
                    /\ Present(n, id) => n.tasks[id].state \in {"Queued", "Cancelled"}
  BY DEF OutOf
<1>1. id \in Nat /\ id \notin entering /\ m.next \in Nat /\ n.next \in Nat /\ n.next >= m.next
      /\ id < m.next
  BY DEF ManagerInv, ManagerType, OutOf
<1>2. ~InSomeQueue(m, id)
  BY DEF OutOf
<1>3. id \in DOMAIN m.tasks => m.tasks[id].state \in {"Queued", "Cancelled"}
  BY DEF OutOf, Present
<1>4. ASSUME NEW l \in Lanes PROVE m.active[l] # id
  <2>1. id # NoOp
    BY <1>1, NoOpAssumption
  <2>2. m.active[l] # NoOp =>
          m.active[l] \in DOMAIN m.tasks /\ m.tasks[m.active[l]].state \in InProgress
    BY SlotTask
  <2>3. QED BY <1>3, <2>1, <2>2 DEF InProgress
<1>5. ~Placed(n, id)
  <2>1. ~Placed(m, id)
    BY <1>2, <1>4 DEF Placed
  <2>2. QED BY <1>1, <2>1 DEF PlacesGoOn
<1>6. ASSUME id \in DOMAIN n.tasks PROVE n.tasks[id].state \in {"Queued", "Cancelled"}
  <2>1. id \in DOMAIN m.tasks
    BY <1>6
  <2>2. Onward(m.tasks[id], n.tasks[id]) /\ n.tasks[id] \in Task
    BY <1>6 DEF ManagerInv, ManagerType
  <2>3. Unfinished(n.tasks[id].state) /\ n.tasks[id].state \in States /\ n.tasks[id].lane \in Lanes
    BY <1>3, <2>1, <2>2 DEF Onward, Task, Unfinished, Terminal
  <2>4. n.tasks[id].state \notin InProgress
    <3>1. n.active[n.tasks[id].lane] # id
      BY <1>5, <2>3 DEF Placed
    <3>2. QED BY <3>1, <1>6 DEF ManagerInv, InProgressHoldsSlot
  <2>5. QED BY <2>3, <2>4 DEF States, Unfinished
<1>7. id < n.next
  BY <1>1
<1>8. ~InSomeQueue(n, id)
  BY <1>5 DEF Placed
<1>9. QED BY <1>6, <1>7, <1>8 DEF Present

\* A manager that continues keeps it out, unless it is the one that enters.
LEMMA ContinuesKeepsOut ==
  ASSUME NEW m, NEW n, ManagerInv(m), ManagerInv(n), NEW entering, NEW growing,
         Continues(m, n, entering, growing),
         NEW ids, ids \subseteq Nat, OutOf(m, ids), ids \cap entering = {}
  PROVE  OutOf(n, ids)
<1>1. m.next \in Nat /\ n.next >= m.next /\ PlacesGoOn(m, n, entering)
  BY DEF ManagerInv, ManagerType, Continues, TasksGoOn
<1>2. ASSUME NEW id \in ids, id \in DOMAIN n.tasks
      PROVE  id \in DOMAIN m.tasks /\ Onward(m.tasks[id], n.tasks[id])
  <2>1. id < m.next /\ id \in Nat
    BY DEF OutOf
  <2>2. id \in DOMAIN m.tasks
    <3>1. id \notin DOMAIN m.tasks => id >= m.next
      BY <1>2 DEF Continues, TasksGoOn
    <3>2. QED BY <1>1, <2>1, <3>1
  <2>3. QED BY <1>2, <2>2 DEF Continues, TasksGoOn
<1>3. QED BY <1>1, <1>2, OutStays

\* A lane whose queue did not grow does not start to idle.
LEMMA ContinuesKeepsBusy ==
  ASSUME NEW m, NEW n, NEW entering, NEW growing, Continues(m, n, entering, growing),
         NEW lanes \in SUBSET Lanes, NoneIdle(m, lanes)
  PROVE  NoneIdle(n, lanes \ growing)
BY DEF NoneIdle, Continues, SlotsGoOn, QueuesGoOn

\* start_next and mark_running_if_ready in a row.
LEMMA StartAndMarkContinues ==
  ASSUME NEW m, ManagerInv(m), NEW lane \in Lanes
  PROVE  /\ Continues(m, StartAndMark(m, lane), {}, {})
         /\ NoneIdle(StartAndMark(m, lane), {lane})
<1> DEFINE s == StartNext(m, lane)
           id == s.active[lane]
<1>1. ManagerInv(s) /\ Continues(m, s, {}, {}) /\ (s.active[lane] = NoOp => s.queues[lane] = <<>>)
  BY StartNextKeeps, StartNextContinues
<1>2. NoneIdle(s, {lane})
  BY <1>1 DEF NoneIdle
<1> HIDE DEF s
<1>3. CASE StartAndMark(m, lane) = s
  BY <1>1, <1>2, <1>3
<1>4. CASE StartAndMark(m, lane) = MarkRunning(s, id)
  <2>1. ManagerInv(MarkRunning(s, id)) /\ Continues(s, MarkRunning(s, id), {}, {})
    BY <1>1, MarkRunningKeeps, MarkRunningContinues
  <2> HIDE DEF id
  <2>2. Continues(m, MarkRunning(s, id), {} \cup {}, {} \cup {})
    BY <1>1, <2>1, ContinuesTwice
  <2>3. NoneIdle(MarkRunning(s, id), {lane} \ {})
    BY <1>2, <2>1, ContinuesKeepsBusy
  <2>4. {} \cup {} = {} /\ {lane} \ {} = {lane}
    OBVIOUS
  <2>5. QED BY <1>4, <2>2, <2>3, <2>4
<1>5. StartAndMark(m, lane) = s \/ StartAndMark(m, lane) = MarkRunning(s, id)
  BY DEF StartAndMark, MarkRunningIfReady, s
<1>6. QED BY <1>3, <1>4, <1>5

\* Starting a lane ends its idling and starts no other one's.
LEMMA StartAndMarkBusy ==
  ASSUME NEW m, ManagerInv(m), NEW lane \in Lanes, NEW lanes \in SUBSET Lanes, NoneIdle(m, lanes)
  PROVE  NoneIdle(StartAndMark(m, lane), lanes \cup {lane})
<1>1. Continues(m, StartAndMark(m, lane), {}, {}) /\ NoneIdle(StartAndMark(m, lane), {lane})
  BY StartAndMarkContinues
<1> DEFINE n == StartAndMark(m, lane)
<1> HIDE DEF n
<1>2. NoneIdle(n, lanes \ {})
  BY <1>1, ContinuesKeepsBusy DEF n
<1>3. NoneIdle(n, lanes \cup {lane})
  BY <1>1, <1>2 DEF NoneIdle, n
<1>4. QED BY <1>3 DEF n

-----------------------------------------------------------------------------
(* Requests, workers and events are in step with the slots.                 *)

IsCompletion(e) == e.type \in {"Finished", "Committed"}

\* A completion of id is on its way, in the worker events ev or the UI queue uq.
Pending(ev, uq, id) ==
  \/ \E i \in DOMAIN ev : IsCompletion(ev[i]) /\ ev[i].id = id
  \/ \E i \in DOMAIN uq : IsCompletion(uq[i]) /\ uq[i].id = id

\* What an event says of its task is still true when it is handled.
Served(m, e) ==
  /\ HoldsSlot(m, e.id)
  /\ e.type = "Committed" => CommitsOnly(m.tasks[e.id])
  /\ IsCompletion(e) /\ e.undoable =>
       m.tasks[e.id].lane = "Local" /\ m.tasks[e.id].kind # "Undo"
  /\ IsCompletion(e) /\ e.outcome.left => m.tasks[e.id].cancelled \/ MayBeAborted(m.tasks[e.id])

AllServed(m, queue) == \A i \in DOMAIN queue : Served(m, queue[i])

\* A completion is the last word of a worker about its operation.
LastOfIts(queue) ==
  \A i, j \in DOMAIN queue : i < j /\ IsCompletion(queue[i]) => queue[j].id # queue[i].id

LastBefore(uq, ev) ==
  \A i \in DOMAIN uq, j \in DOMAIN ev : IsCompletion(uq[i]) => ev[j].id # uq[i].id

\* The request of lane l, taken or not, is for the task in the slot, in its
\* current round, and there is one of it.
LaneInStep(m, l, ib, wk) ==
  /\ ib[l] # <<>> => /\ Len(ib[l]) = 1
                     /\ ib[l][1].id = m.active[l]
                     /\ ib[l][1].round = m.tasks[m.active[l]].round
                     /\ wk[l].pc = "idle"
  /\ wk[l].pc # "idle" => /\ wk[l].id = m.active[l]
                          /\ wk[l].round = m.tasks[m.active[l]].round

Unserved(l, ib, wk) == ib[l] = <<>> /\ wk[l].pc = "idle"

InStep(m, ib, wk, ev, uq) ==
  /\ \A l \in Lanes : LaneInStep(m, l, ib, wk)
  /\ \A l \in Lanes : Unserved(l, ib, wk) \/ ~Pending(ev, uq, m.active[l])
  /\ AllServed(m, ev) /\ AllServed(m, uq)
  /\ LastOfIts(ev) /\ LastOfIts(uq) /\ LastBefore(uq, ev)

\* Deliver, for any contents of the channels.
DeliverTo(ib, before, after) ==
  [l \in Lanes |-> IF Started(before, after, l)
                   THEN Append(ib[l], RequestFor(after, after.active[l])) ELSE ib[l]]

\* Nothing is served in a lane whose slot is free.
LEMMA FreeLane ==
  ASSUME NEW m, NEW l \in Lanes, NEW ib \in [Lanes -> Seq(Request)], NEW wk \in [Lanes -> WorkerState],
         LaneInStep(m, l, ib, wk), m.active[l] = NoOp
  PROVE  Unserved(l, ib, wk)
<1>1. wk[l].id \in Nat
  BY DEF WorkerState
<1>2. ASSUME ib[l] # <<>> PROVE ib[l][1].id \in Nat
  <2>1. ib[l] \in Seq(Request) /\ Len(ib[l]) \in Nat /\ DOMAIN ib[l] = 1..Len(ib[l])
    BY LenProperties
  <2>2. 1 \in 1..Len(ib[l])
    BY <1>2, <2>1, EmptySeq
  <2>3. ib[l][1] \in Request
    BY <2>1, <2>2, ElementOfSeq
  <2>4. QED BY <2>3 DEF Request
<1>3. QED BY <1>1, <1>2, NoOpAssumption DEF LaneInStep, Unserved

\* An event stays true of a task that keeps its slot.
LEMMA ServedKept ==
  ASSUME NEW m, NEW n, ManagerInv(m), SlotsKept(m, n), NEW e, Served(m, e)
  PROVE  Served(n, e)
<1>1. /\ e.id # NoOp /\ m.tasks[e.id].lane \in Lanes /\ m.active[m.tasks[e.id].lane] = e.id
  BY HolderTask DEF Served
<1>2. /\ n.active[m.tasks[e.id].lane] = e.id /\ e.id \in DOMAIN n.tasks
      /\ SameService(m.tasks[e.id], n.tasks[e.id])
  BY <1>1 DEF SlotsKept
<1>3. HoldsSlot(n, e.id)
  BY <1>2 DEF HoldsSlot, Present, SameService
<1>4. CommitsOnly(m.tasks[e.id]) => CommitsOnly(n.tasks[e.id])
  BY <1>2 DEF SameService, CommitsOnly
<1>5. MayBeAborted(m.tasks[e.id]) => MayBeAborted(n.tasks[e.id])
  BY <1>2 DEF SameService, MayBeAborted, UsesLocalRecycleBatch
<1>6. QED BY <1>2, <1>3, <1>4, <1>5 DEF Served, SameService

\* A pending completion is of a task in a slot.
LEMMA PendingHoldsSlot ==
  ASSUME NEW m, NEW ev, NEW uq, AllServed(m, ev), AllServed(m, uq), NEW id, Pending(ev, uq, id)
  PROVE  HoldsSlot(m, id)
BY DEF Pending, AllServed, Served

\* The requests that a step starts keep the lanes in step: the channel of a lane
\* whose slot was free is empty, its worker is idle, and nothing of it is pending.
LEMMA DeliveredInStep ==
  ASSUME NEW m, NEW n, ManagerInv(m), ManagerInv(n), SlotsKept(m, n),
         NEW ib \in [Lanes -> Seq(Request)], NEW wk \in [Lanes -> WorkerState], NEW ev, NEW uq,
         InStep(m, ib, wk, ev, uq)
  PROVE  InStep(n, DeliverTo(ib, m, n), wk, ev, uq)
<1> DEFINE ib2 == DeliverTo(ib, m, n)
<1>1. \A l \in Lanes : ib2[l] = IF Started(m, n, l) THEN Append(ib[l], RequestFor(n, n.active[l])) ELSE ib[l]
  BY DEF DeliverTo
<1> HIDE DEF ib2
<1>2. ASSUME NEW l \in Lanes
      PROVE  LaneInStep(n, l, ib2, wk) /\ (Unserved(l, ib2, wk) \/ ~Pending(ev, uq, n.active[l]))
  <2>0. LaneInStep(m, l, ib, wk) /\ (Unserved(l, ib, wk) \/ ~Pending(ev, uq, m.active[l]))
    BY DEF InStep
  <2>1. CASE m.active[l] # NoOp
    <3>1. ib2[l] = ib[l]
      BY <2>1, <1>1 DEF Started
    <3>2. n.active[l] = m.active[l] /\ n.tasks[m.active[l]].round = m.tasks[m.active[l]].round
      BY <2>1 DEF SlotsKept, SameService
    <3>3. QED BY <2>0, <3>1, <3>2 DEF LaneInStep, Unserved
  <2>2. CASE m.active[l] = NoOp /\ n.active[l] = NoOp
    <3>1. ib2[l] = ib[l]
      BY <2>2, <1>1 DEF Started
    <3>2. Unserved(l, ib, wk)
      BY <2>0, <2>2, FreeLane
    <3>3. QED BY <3>1, <3>2 DEF LaneInStep, Unserved
  <2>3. CASE m.active[l] = NoOp /\ n.active[l] # NoOp
    <3>1. ib2[l] = Append(ib[l], RequestFor(n, n.active[l]))
      BY <2>3, <1>1 DEF Started
    <3>2. Unserved(l, ib, wk)
      BY <2>0, <2>3, FreeLane
    <3>3. ib2[l] = <<RequestFor(n, n.active[l])>>
      BY <3>1, <3>2 DEF Unserved
    <3>4. LaneInStep(n, l, ib2, wk)
      BY <3>2, <3>3 DEF LaneInStep, RequestFor, Unserved
    <3>5. ASSUME Pending(ev, uq, n.active[l]) PROVE FALSE
      <4> DEFINE id == n.active[l]
                 home == m.tasks[id].lane
      <4>1. HoldsSlot(m, id)
        BY <3>5, PendingHoldsSlot DEF InStep
      <4>2. home \in Lanes /\ m.active[home] = id /\ id # NoOp
        BY <4>1, HolderTask
      <4>3. n.tasks[id].lane = home
        BY <4>2 DEF SlotsKept, SameService
      <4>4. n.tasks[id].lane = l
        BY <2>3, SlotTask
      <4>5. QED BY <4>2, <4>3, <4>4, <2>3
    <3>6. QED BY <3>4, <3>5
  <2>4. QED BY <2>1, <2>2, <2>3
<1>3. AllServed(n, ev) /\ AllServed(n, uq)
  BY ServedKept DEF InStep, AllServed
<1>4. QED BY <1>2, <1>3 DEF InStep, ib2

\* Without a request that starts, the channels are as they were.
LEMMA NothingDelivered ==
  ASSUME NEW m, NEW n, n.active = m.active, NEW ib \in [Lanes -> Seq(Request)]
  PROVE  DeliverTo(ib, m, n) = ib
BY DEF DeliverTo, Started

\* The same, when the slots are as they were.
LEMMA QuietInStep ==
  ASSUME NEW m, NEW n, ManagerInv(m), ManagerInv(n), SlotsKept(m, n), n.active = m.active,
         NEW ib \in [Lanes -> Seq(Request)], NEW wk \in [Lanes -> WorkerState], NEW ev, NEW uq,
         InStep(m, ib, wk, ev, uq)
  PROVE  InStep(n, ib, wk, ev, uq)
BY DeliveredInStep, NothingDelivered

\* The head of the worker events moves to the end of the UI queue, or is dropped.
LEMMA TailIsShorter ==
  ASSUME NEW S, NEW queue \in Seq(S), queue # <<>>
  PROVE  /\ 1 \in DOMAIN queue /\ Head(queue) = queue[1]
         /\ Tail(queue) \in Seq(S)
         /\ \A i \in DOMAIN Tail(queue) : /\ i + 1 \in DOMAIN queue /\ i \in Nat /\ 1 < i + 1
                                          /\ Tail(queue)[i] = queue[i + 1]
<1>1. /\ Len(queue) \in Nat /\ DOMAIN queue = 1..Len(queue) /\ Len(queue) # 0
      /\ Tail(queue) \in Seq(S)
  BY LenProperties, EmptySeq
<1>2. Len(Tail(queue)) = Len(queue) - 1
      /\ \A i \in 1..Len(Tail(queue)) : Tail(queue)[i] = queue[i + 1]
  BY HeadTailProperties
<1>3. DOMAIN Tail(queue) = 1..Len(Tail(queue))
  BY <1>1, LenProperties
<1>4. QED BY <1>1, <1>2, <1>3, HeadTailProperties

\* An element at the end.
LEMMA AppendedAt ==
  ASSUME NEW S, NEW queue \in Seq(S), NEW x
  PROVE  /\ DOMAIN Append(queue, x) = DOMAIN queue \cup {Len(queue) + 1}
         /\ \A i \in DOMAIN queue : i \in Nat /\ i < Len(queue) + 1 /\ Append(queue, x)[i] = queue[i]
         /\ Append(queue, x)[Len(queue) + 1] = x
         /\ Len(queue) \in Nat
<1>1. Len(queue) \in Nat /\ DOMAIN queue = 1..Len(queue)
  BY LenProperties
<1>2. QED BY <1>1

\* A queue without its head is as well ordered, and holds no event that it did not.
LEMMA TailOfQueue ==
  ASSUME NEW m, NEW queue \in Seq(Event), queue # <<>>, AllServed(m, queue), LastOfIts(queue)
  PROVE  /\ AllServed(m, Tail(queue)) /\ LastOfIts(Tail(queue))
         /\ Served(m, Head(queue))
         /\ IsCompletion(Head(queue)) =>
              \A i \in DOMAIN Tail(queue) : Tail(queue)[i].id # Head(queue).id
<1>1. /\ 1 \in DOMAIN queue /\ Head(queue) = queue[1]
      /\ \A i \in DOMAIN Tail(queue) : /\ i + 1 \in DOMAIN queue /\ i \in Nat /\ 1 < i + 1
                                       /\ Tail(queue)[i] = queue[i + 1]
  BY TailIsShorter
<1> DEFINE rest == Tail(queue)
<1> HIDE DEF rest
<1>2. \A i \in DOMAIN rest : i + 1 \in DOMAIN queue /\ i \in Nat /\ 1 < i + 1 /\ rest[i] = queue[i + 1]
  BY <1>1 DEF rest
<1>3. AllServed(m, rest) /\ Served(m, Head(queue))
  BY <1>1, <1>2 DEF AllServed
<1>4. LastOfIts(rest)
  <2> SUFFICES ASSUME NEW i \in DOMAIN rest, NEW j \in DOMAIN rest, i < j, IsCompletion(rest[i])
               PROVE  rest[j].id # rest[i].id
    BY DEF LastOfIts
  <2>1. i + 1 < j + 1
    BY <1>2
  <2>2. QED BY <1>2, <2>1 DEF LastOfIts
<1>5. ASSUME IsCompletion(Head(queue)), NEW i \in DOMAIN rest PROVE rest[i].id # Head(queue).id
  BY <1>1, <1>2, <1>5 DEF LastOfIts
<1>6. QED BY <1>3, <1>4, <1>5 DEF rest

\* A worker event that is no completion may be dropped.
LEMMA EventDropped ==
  ASSUME NEW m, NEW ib, NEW wk, NEW ev \in Seq(Event), NEW uq, InStep(m, ib, wk, ev, uq),
         ev # <<>>, ~IsCompletion(Head(ev))
  PROVE  InStep(m, ib, wk, Tail(ev), uq) /\ Served(m, Head(ev))
<1> DEFINE rest == Tail(ev)
<1>1. AllServed(m, rest) /\ LastOfIts(rest) /\ Served(m, Head(ev))
  BY TailOfQueue DEF InStep
<1>2. \A i \in DOMAIN rest : i + 1 \in DOMAIN ev /\ rest[i] = ev[i + 1]
  BY TailIsShorter
<1> HIDE DEF rest
<1>3. \A id : Pending(rest, uq, id) => Pending(ev, uq, id)
  BY <1>2 DEF Pending
<1>4. LastBefore(uq, rest)
  BY <1>2 DEF LastBefore, InStep
<1>5. QED BY <1>1, <1>3, <1>4 DEF InStep, rest

\* So may one that is handled.
LEMMA HandledDropped ==
  ASSUME NEW m, NEW ib, NEW wk, NEW ev, NEW uq \in Seq(Event), InStep(m, ib, wk, ev, uq),
         uq # <<>>
  PROVE  InStep(m, ib, wk, ev, Tail(uq)) /\ Served(m, Head(uq))
<1> DEFINE rest == Tail(uq)
<1>1. AllServed(m, rest) /\ LastOfIts(rest) /\ Served(m, Head(uq))
  BY TailOfQueue DEF InStep
<1>2. \A i \in DOMAIN rest : i + 1 \in DOMAIN uq /\ rest[i] = uq[i + 1]
  BY TailIsShorter
<1> HIDE DEF rest
<1>3. \A id : Pending(ev, rest, id) => Pending(ev, uq, id)
  BY <1>2 DEF Pending
<1>4. LastBefore(rest, ev)
  BY <1>2 DEF LastBefore, InStep
<1>5. QED BY <1>1, <1>3, <1>4 DEF InStep, rest

\* The pump hands the head of the worker events on.
LEMMA EventForwarded ==
  ASSUME NEW m, NEW ib, NEW wk, NEW ev \in Seq(Event), NEW uq \in Seq(Event),
         InStep(m, ib, wk, ev, uq), ev # <<>>
  PROVE  InStep(m, ib, wk, Tail(ev), Append(uq, Head(ev)))
<1> DEFINE rest == Tail(ev)
           more == Append(uq, Head(ev))
           last == Len(uq) + 1
<1>1. /\ AllServed(m, rest) /\ LastOfIts(rest) /\ Served(m, Head(ev))
      /\ IsCompletion(Head(ev)) => \A i \in DOMAIN rest : rest[i].id # Head(ev).id
  BY TailOfQueue DEF InStep
<1>2. /\ 1 \in DOMAIN ev /\ Head(ev) = ev[1]
      /\ \A i \in DOMAIN rest : i + 1 \in DOMAIN ev /\ rest[i] = ev[i + 1]
  BY TailIsShorter
<1>3. /\ DOMAIN more = DOMAIN uq \cup {last}
      /\ \A i \in DOMAIN uq : i \in Nat /\ i < last /\ more[i] = uq[i]
      /\ more[last] = Head(ev) /\ last \in Nat
  BY AppendedAt
<1> HIDE DEF rest, more, last
<1>4. AllServed(m, more)
  BY <1>1, <1>3 DEF AllServed, InStep
<1>5. LastOfIts(more)
  <2> SUFFICES ASSUME NEW i \in DOMAIN more, NEW j \in DOMAIN more, i < j, IsCompletion(more[i])
               PROVE  more[j].id # more[i].id
    BY DEF LastOfIts
  <2>1. i \in DOMAIN uq
    BY <1>3
  <2>2. CASE j \in DOMAIN uq
    BY <2>1, <2>2, <1>3 DEF LastOfIts, InStep
  <2>3. CASE j = last
    BY <2>1, <2>3, <1>2, <1>3 DEF LastBefore, InStep
  <2>4. QED BY <1>3, <2>2, <2>3
<1>6. LastBefore(more, rest)
  <2> SUFFICES ASSUME NEW i \in DOMAIN more, NEW j \in DOMAIN rest, IsCompletion(more[i])
               PROVE  rest[j].id # more[i].id
    BY DEF LastBefore
  <2>1. CASE i \in DOMAIN uq
    BY <2>1, <1>2, <1>3 DEF LastBefore, InStep
  <2>2. CASE i = last
    BY <2>2, <1>1, <1>3
  <2>3. QED BY <1>3, <2>1, <2>2
<1>7. \A id : Pending(rest, more, id) => Pending(ev, uq, id)
  BY <1>2, <1>3 DEF Pending
<1>8. QED BY <1>1, <1>4, <1>5, <1>6, <1>7 DEF InStep, rest, more

\* What a worker says while it executes comes before its completion.
LEMMA EventNoted ==
  ASSUME NEW m, NEW ib, NEW wk, NEW ev \in Seq(Event), NEW uq, InStep(m, ib, wk, ev, uq),
         NEW l \in Lanes, wk[l].pc # "idle", NEW e, e.id = wk[l].id, Served(m, e)
  PROVE  /\ AllServed(m, Append(ev, e)) /\ LastOfIts(Append(ev, e)) /\ LastBefore(uq, Append(ev, e))
         /\ ~IsCompletion(e) => InStep(m, ib, wk, Append(ev, e), uq)
<1> DEFINE more == Append(ev, e)
           last == Len(ev) + 1
<1>1. /\ DOMAIN more = DOMAIN ev \cup {last}
      /\ \A i \in DOMAIN ev : i \in Nat /\ i < last /\ more[i] = ev[i]
      /\ more[last] = e /\ last \in Nat
  BY AppendedAt
<1>2. e.id = m.active[l] /\ ~Pending(ev, uq, e.id)
  BY DEF InStep, LaneInStep, Unserved
<1> HIDE DEF more, last
<1>3. AllServed(m, more)
  BY <1>1 DEF AllServed, InStep
<1>4. LastOfIts(more)
  <2> SUFFICES ASSUME NEW i \in DOMAIN more, NEW j \in DOMAIN more, i < j, IsCompletion(more[i])
               PROVE  more[j].id # more[i].id
    BY DEF LastOfIts
  <2>1. i \in DOMAIN ev
    BY <1>1
  <2>2. CASE j \in DOMAIN ev
    BY <2>1, <2>2, <1>1 DEF LastOfIts, InStep
  <2>3. CASE j = last
    BY <2>1, <2>3, <1>1, <1>2 DEF Pending
  <2>4. QED BY <1>1, <2>2, <2>3
<1>5. LastBefore(uq, more)
  <2> SUFFICES ASSUME NEW i \in DOMAIN uq, NEW j \in DOMAIN more, IsCompletion(uq[i])
               PROVE  more[j].id # uq[i].id
    BY DEF LastBefore
  <2>1. CASE j \in DOMAIN ev
    BY <2>1, <1>1 DEF LastBefore, InStep
  <2>2. CASE j = last
    BY <2>2, <1>1, <1>2 DEF Pending
  <2>3. QED BY <1>1, <2>1, <2>2
<1>6. ASSUME ~IsCompletion(e) PROVE InStep(m, ib, wk, more, uq)
  <2>1. \A id : Pending(more, uq, id) => Pending(ev, uq, id)
    BY <1>1, <1>6 DEF Pending
  <2>2. QED BY <1>3, <1>4, <1>5, <2>1 DEF InStep
<1>7. QED BY <1>3, <1>4, <1>5, <1>6 DEF more

\* The completion itself leaves the lane with nothing to serve.
LEMMA CompletionNoted ==
  ASSUME NEW m, ManagerInv(m), NEW ib \in [Lanes -> Seq(Request)], NEW wk \in [Lanes -> WorkerState],
         NEW ev \in Seq(Event), NEW uq, InStep(m, ib, wk, ev, uq),
         NEW l \in Lanes, wk[l].pc # "idle", NEW e, e.id = wk[l].id, Served(m, e)
  PROVE  InStep(m, ib, [wk EXCEPT ![l] = Idle], Append(ev, e), uq)
<1> DEFINE more == Append(ev, e)
           wk2 == [wk EXCEPT ![l] = Idle]
<1>1. AllServed(m, more) /\ LastOfIts(more) /\ LastBefore(uq, more)
  BY EventNoted
<1>2. /\ DOMAIN more = DOMAIN ev \cup {Len(ev) + 1}
      /\ \A i \in DOMAIN ev : more[i] = ev[i]
      /\ more[Len(ev) + 1] = e
  BY AppendedAt
<1>3. \A x \in Lanes : wk2[x] = IF x = l THEN Idle ELSE wk[x]
  OBVIOUS
<1> HIDE DEF more, wk2
<1>4. ASSUME NEW x \in Lanes
      PROVE  LaneInStep(m, x, ib, wk2) /\ (Unserved(x, ib, wk2) \/ ~Pending(more, uq, m.active[x]))
  <2>1. LaneInStep(m, x, ib, wk) /\ (Unserved(x, ib, wk) \/ ~Pending(ev, uq, m.active[x]))
    BY DEF InStep
  <2>2. CASE x = l
    BY <2>1, <2>2, <1>3 DEF LaneInStep, Unserved, Idle
  <2>3. CASE x # l
    <3>1. LaneInStep(m, x, ib, wk2) /\ (Unserved(x, ib, wk2) <=> Unserved(x, ib, wk))
      BY <2>1, <2>3, <1>3 DEF LaneInStep, Unserved
    <3>2. ASSUME ~Unserved(x, ib, wk) PROVE m.active[x] # e.id
      <4>1. m.active[x] # NoOp
        BY <2>1, <3>2, FreeLane
      <4>2. m.active[l] = e.id
        BY DEF InStep, LaneInStep
      <4>3. m.active[x] = e.id => m.tasks[e.id].lane = x
        BY <4>1, SlotTask
      <4>4. m.active[l] # NoOp
        BY FreeLane DEF InStep, Unserved
      <4>5. m.tasks[e.id].lane = l
        BY <4>2, <4>4, SlotTask
      <4>6. QED BY <2>3, <4>3, <4>5
    <3>3. ASSUME Pending(more, uq, m.active[x]), ~Pending(ev, uq, m.active[x])
          PROVE  m.active[x] = e.id
      BY <3>3, <1>2 DEF Pending
    <3>4. QED BY <2>1, <3>1, <3>2, <3>3
  <2>4. QED BY <2>2, <2>3
<1>5. QED BY <1>1, <1>4 DEF InStep, more, wk2

\* A worker that goes on with its request.
LEMMA WorkerGoesOn ==
  ASSUME NEW m, NEW ib, NEW wk \in [Lanes -> WorkerState], NEW ev, NEW uq, InStep(m, ib, wk, ev, uq),
         NEW l \in Lanes, wk[l].pc # "idle",
         NEW w, w.pc # "idle", w.id = wk[l].id, w.round = wk[l].round
  PROVE  InStep(m, ib, [wk EXCEPT ![l] = w], ev, uq)
<1> DEFINE wk2 == [wk EXCEPT ![l] = w]
<1>1. \A x \in Lanes : wk2[x] = IF x = l THEN w ELSE wk[x]
  OBVIOUS
<1> HIDE DEF wk2
<1>2. ASSUME NEW x \in Lanes
      PROVE  LaneInStep(m, x, ib, wk2) /\ (Unserved(x, ib, wk2) \/ ~Pending(ev, uq, m.active[x]))
  <2>1. LaneInStep(m, x, ib, wk) /\ (Unserved(x, ib, wk) \/ ~Pending(ev, uq, m.active[x]))
    BY DEF InStep
  <2>2. LaneInStep(m, x, ib, wk2)
    BY <2>1, <1>1 DEF LaneInStep
  <2>3. Unserved(x, ib, wk) => Unserved(x, ib, wk2)
    BY <1>1 DEF Unserved
  <2>4. QED BY <2>1, <2>2, <2>3
<1>3. QED BY <1>2 DEF InStep, wk2

\* A worker that takes its request.
LEMMA RequestTaken ==
  ASSUME NEW m, NEW ib \in [Lanes -> Seq(Request)], NEW wk \in [Lanes -> WorkerState], NEW ev, NEW uq,
         InStep(m, ib, wk, ev, uq),
         NEW l \in Lanes, ib[l] # <<>>, NEW w,
         w.pc # "idle", w.id = Head(ib[l]).id, w.round = Head(ib[l]).round
  PROVE  InStep(m, [ib EXCEPT ![l] = Tail(@)], [wk EXCEPT ![l] = w], ev, uq)
<1> DEFINE ib2 == [ib EXCEPT ![l] = Tail(@)]
           wk2 == [wk EXCEPT ![l] = w]
<1>1. \A x \in Lanes : /\ wk2[x] = IF x = l THEN w ELSE wk[x]
                       /\ ib2[x] = IF x = l THEN Tail(ib[l]) ELSE ib[x]
  OBVIOUS
<1>2. Len(ib[l]) = 1 /\ ib[l] \in Seq(Request)
  BY DEF InStep, LaneInStep
<1>3. Tail(ib[l]) = <<>> /\ Head(ib[l]) = ib[l][1]
  <2>1. Tail(ib[l]) \in Seq(Request) /\ Len(Tail(ib[l])) = 0 /\ Head(ib[l]) = ib[l][1]
    BY <1>2, HeadTailProperties
  <2>2. QED BY <2>1, EmptySeq
<1> HIDE DEF ib2, wk2
<1>4. ASSUME NEW x \in Lanes
      PROVE  LaneInStep(m, x, ib2, wk2) /\ (Unserved(x, ib2, wk2) \/ ~Pending(ev, uq, m.active[x]))
  <2>1. LaneInStep(m, x, ib, wk) /\ (Unserved(x, ib, wk) \/ ~Pending(ev, uq, m.active[x]))
    BY DEF InStep
  <2>2. CASE x = l
    BY <2>1, <2>2, <1>1, <1>3 DEF LaneInStep, Unserved
  <2>3. CASE x # l
    BY <2>1, <2>3, <1>1 DEF LaneInStep, Unserved
  <2>4. QED BY <2>2, <2>3
<1>5. QED BY <1>4 DEF InStep, ib2, wk2

-----------------------------------------------------------------------------
(* The completion of a round.                                               *)

\* The state a completion asks for, and whether finish grants it.
Verdict(m, e) == TerminalState(m.tasks[e.id].cancelled, e.outcome)
Granted(m, e) == <<m.tasks[e.id].state, Verdict(m, e)>> \in CanTransition

\* What the handler of a completion leaves behind before it starts another task.
SettlesTask(m, n, e) ==
  /\ n.next = m.next /\ n.queues = m.queues /\ DOMAIN n.tasks = DOMAIN m.tasks
  /\ \A x \in DOMAIN m.tasks : x # e.id => n.tasks[x] = m.tasks[x]
  /\ n.tasks[e.id].kind = m.tasks[e.id].kind
  /\ n.tasks[e.id].lane = m.tasks[e.id].lane
  /\ n.tasks[e.id].round = m.tasks[e.id].round
  /\ n.tasks[e.id].cancelled = m.tasks[e.id].cancelled
  /\ n.tasks[e.id].retryable = (e.outcome.failed \/ e.outcome.left)
  /\ n.tasks[e.id].state = IF Granted(m, e) THEN Verdict(m, e) ELSE m.tasks[e.id].state

SettlesSlot(m, n, e) ==
  /\ \A l \in Lanes : l # m.tasks[e.id].lane => n.active[l] = m.active[l]
  /\ n.active[m.tasks[e.id].lane] = IF Granted(m, e) THEN NoOp ELSE e.id

LEMMA SettledEffect ==
  ASSUME NEW m, ManagerInv(m), NEW e \in Event, IsCompletion(e), HoldsSlot(m, e.id)
  PROVE  /\ SettlesTask(m, Settled(WithItemStates(m, e), e), e)
         /\ SettlesSlot(m, Settled(WithItemStates(m, e), e), e)
<1> DEFINE id == e.id
           lane == m.tasks[id].lane
           w == WithItemStates(m, e)
           n == Settled(w, e)
           retryable == e.outcome.failed \/ e.outcome.left
           verdict == Verdict(m, e)
<1>1. /\ id \in DOMAIN m.tasks /\ m.tasks[id] \in Task /\ lane \in Lanes /\ m.active[lane] = id
      /\ m.active \in [Lanes -> Nat \cup {NoOp}]
  BY HolderTask DEF ManagerInv, ManagerType
<1>2. retryable \in BOOLEAN /\ verdict \in Terminal
  BY EventOutcome DEF IsCompletion, Verdict
<1>3. /\ w.next = m.next /\ w.queues = m.queues /\ w.active = m.active
      /\ w.tasks = [m.tasks EXCEPT ![id] = [@ EXCEPT !.retryable = retryable]]
  BY <1>1 DEF WithItemStates, Present, ManagerInv, ManagerType
<1>4. ManagerInv(w)
  BY WithItemStatesKeeps DEF IsCompletion
<1> HIDE DEF w, retryable
<1>5. /\ DOMAIN w.tasks = DOMAIN m.tasks
      /\ \A x \in DOMAIN m.tasks : x # id => w.tasks[x] = m.tasks[x]
      /\ w.tasks[id] = [m.tasks[id] EXCEPT !.retryable = retryable]
  BY <1>1, <1>3
<1>6. /\ w.tasks[id].kind = m.tasks[id].kind /\ w.tasks[id].lane = lane
      /\ w.tasks[id].round = m.tasks[id].round /\ w.tasks[id].cancelled = m.tasks[id].cancelled
      /\ w.tasks[id].state = m.tasks[id].state /\ w.tasks[id].retryable = retryable
      /\ w.tasks[id] \in Task
  BY <1>1, <1>2, <1>5 DEF Task
<1>7. n = Finish(w, id, verdict)
  BY <1>1, <1>5, <1>6 DEF Settled, IsCancelled, Present, Verdict, Task
<1>8. CanFinish(w, id, verdict) <=> Granted(m, e)
  BY <1>1, <1>3, <1>5, <1>6 DEF CanFinish, HoldsSlot, Present, Granted
<1>9. retryable = (e.outcome.failed \/ e.outcome.left)
  BY DEF retryable
<1> HIDE DEF n, verdict
<1>10. CASE Granted(m, e)
  <2>1. /\ n.next = w.next /\ n.queues = w.queues
        /\ n.active = [w.active EXCEPT ![w.tasks[id].lane] = NoOp]
        /\ n.tasks = [w.tasks EXCEPT ![id] = [@ EXCEPT !.state = verdict, !.stamped = TRUE]]
    <3>1. CanFinish(w, id, verdict)
      BY <1>8, <1>10
    <3>2. Finishes(w, n, id, verdict)
      BY <1>4, <1>7, <3>1, FinishEffect
    <3>3. QED BY <3>2 DEF Finishes
  <2>2. /\ DOMAIN n.tasks = DOMAIN m.tasks
        /\ \A x \in DOMAIN m.tasks : x # id => n.tasks[x] = m.tasks[x]
        /\ n.tasks[id] = [w.tasks[id] EXCEPT !.state = verdict, !.stamped = TRUE]
    BY <2>1, <1>1, <1>5
  <2>3. /\ n.tasks[id].kind = w.tasks[id].kind /\ n.tasks[id].lane = w.tasks[id].lane
        /\ n.tasks[id].round = w.tasks[id].round /\ n.tasks[id].cancelled = w.tasks[id].cancelled
        /\ n.tasks[id].state = verdict /\ n.tasks[id].retryable = w.tasks[id].retryable
    BY <2>2, <1>6 DEF Task
  <2>4. SettlesTask(m, n, e)
    BY <2>1, <2>2, <2>3, <1>3, <1>6, <1>9, <1>10 DEF SettlesTask, verdict
  <2>5. SettlesSlot(m, n, e)
    <3>1. n.active = [m.active EXCEPT ![lane] = NoOp]
      BY <2>1, <1>3, <1>6
    <3>2. n.active[lane] = NoOp /\ \A l \in Lanes : l # lane => n.active[l] = m.active[l]
      BY <3>1, <1>1
    <3>3. QED BY <3>2, <1>10 DEF SettlesSlot
  <2>6. QED BY <2>4, <2>5 DEF n, w
<1>11. CASE ~Granted(m, e)
  <2>1. n = w
    BY <1>7, <1>8, <1>11 DEF Finish
  <2>2. SettlesTask(m, n, e)
    BY <2>1, <1>3, <1>5, <1>6, <1>9, <1>11 DEF SettlesTask
  <2>3. SettlesSlot(m, n, e)
    BY <2>1, <1>1, <1>3, <1>11 DEF SettlesSlot
  <2>4. QED BY <2>2, <2>3 DEF n, w
<1>12. QED BY <1>10, <1>11

\* The handled completion leaves everything else in step.
LEMMA SettledInStep ==
  ASSUME NEW m, ManagerInv(m), NEW n, NEW ib \in [Lanes -> Seq(Request)],
         NEW wk \in [Lanes -> WorkerState], NEW ev, NEW uq \in Seq(Event), uq # <<>>,
         InStep(m, ib, wk, ev, uq), IsCompletion(Head(uq)),
         SettlesTask(m, n, Head(uq)), SettlesSlot(m, n, Head(uq))
  PROVE  InStep(n, ib, wk, ev, Tail(uq))
<1> DEFINE e == Head(uq)
           rest == Tail(uq)
           home == m.tasks[e.id].lane
<1>1. /\ AllServed(m, rest) /\ LastOfIts(rest) /\ Served(m, e)
      /\ \A i \in DOMAIN rest : rest[i].id # e.id
  BY TailOfQueue DEF InStep
<1>2. /\ 1 \in DOMAIN uq /\ e = uq[1]
      /\ \A i \in DOMAIN rest : i + 1 \in DOMAIN uq /\ rest[i] = uq[i + 1]
  BY TailIsShorter
<1>3. /\ e.id # NoOp /\ home \in Lanes /\ m.active[home] = e.id
  BY <1>1, HolderTask DEF Served
<1> HIDE DEF e, rest, home
<1>4. \A i \in DOMAIN ev : ev[i].id # e.id
  BY <1>2 DEF InStep, LastBefore, e
<1>5. Pending(ev, uq, e.id)
  BY <1>2 DEF Pending, e
<1>6. \A id : Pending(ev, rest, id) => Pending(ev, uq, id)
  BY <1>2 DEF Pending
<1>7. LastBefore(rest, ev)
  BY <1>2 DEF LastBefore, InStep
<1>8. ASSUME NEW x, Served(m, x), x.id # e.id PROVE Served(n, x)
  <2>1. /\ x.id \in DOMAIN m.tasks /\ x.id # NoOp /\ m.tasks[x.id].lane \in Lanes
        /\ m.active[m.tasks[x.id].lane] = x.id
    BY <1>8, HolderTask DEF Served
  <2>2. m.tasks[x.id].lane # home
    BY <2>1, <1>3, <1>8
  <2>3. n.active[m.tasks[x.id].lane] = x.id
    BY <2>1, <2>2 DEF SettlesSlot, home, e
  <2>4. x.id \in DOMAIN n.tasks /\ n.tasks[x.id] = m.tasks[x.id]
    BY <2>1, <1>8 DEF SettlesTask, e
  <2>5. QED BY <1>8, <2>3, <2>4 DEF Served, HoldsSlot, Present
<1>9. AllServed(n, rest) /\ AllServed(n, ev)
  BY <1>1, <1>4, <1>8 DEF AllServed, InStep
<1>10. ASSUME NEW l \in Lanes
       PROVE  LaneInStep(n, l, ib, wk) /\ (Unserved(l, ib, wk) \/ ~Pending(ev, rest, n.active[l]))
  <2>1. LaneInStep(m, l, ib, wk) /\ (Unserved(l, ib, wk) \/ ~Pending(ev, uq, m.active[l]))
    BY DEF InStep
  <2>2. CASE Unserved(l, ib, wk)
    BY <2>2 DEF LaneInStep, Unserved
  <2>3. CASE ~Unserved(l, ib, wk)
    <3>1. m.active[l] # e.id /\ m.active[l] # NoOp
      BY <2>1, <2>3, <1>5, FreeLane
    <3>2. m.active[l] \in DOMAIN m.tasks /\ l # home
      BY <3>1, <1>3, SlotTask
    <3>3. n.active[l] = m.active[l]
      BY <3>2 DEF SettlesSlot, home, e
    <3>4. n.tasks[m.active[l]] = m.tasks[m.active[l]]
      BY <3>1, <3>2 DEF SettlesTask, e
    <3>5. QED BY <2>1, <2>3, <3>3, <3>4, <1>6 DEF LaneInStep
  <2>4. QED BY <2>2, <2>3
<1>11. InStep(n, ib, wk, ev, rest)
  BY <1>1, <1>7, <1>9, <1>10 DEF InStep
<1>12. QED BY <1>11 DEF rest

-----------------------------------------------------------------------------
(* The invariant.                                                           *)

\* The undo that is in progress holds the slot of the local lane.
UndoServed(m, running) ==
  running => m.active["Local"] # NoOp /\ m.tasks[m.active["Local"]].kind = "Undo"

InGoodOrder(m, ids, running) ==
  /\ OutOf(m, ids)
  /\ AllMarked(m)
  /\ AllComplete(m)
  /\ UndoServed(m, running)

Serving ==
  /\ InStep(manager, inbox, worker, events, uiQueue)
  /\ InGoodOrder(manager, preparing, undo.running)
  /\ NoneIdle(manager, Lanes)
  /\ UndoBounded

\* The application is left only when no foreground task is active.
ClosedIsQuiet == ~open => ~HasForegroundActiveTasks(manager)

ServiceInv == LanesInv /\ Serving /\ ClosedIsQuiet

\* The undo keeps its slot.
LEMMA UndoStays ==
  ASSUME NEW m, NEW n, SlotsKept(m, n), NEW running, UndoServed(m, running)
  PROVE  UndoServed(n, running)
BY DEF UndoServed, SlotsKept, SameService, Lanes

\* A manager that continues stays in good order.
LEMMA OrderKept ==
  ASSUME NEW m, NEW n, ManagerInv(m), ManagerInv(n), NEW entering, NEW growing,
         Continues(m, n, entering, growing),
         NEW ids, ids \subseteq Nat, ids \cap entering = {}, NEW running,
         InGoodOrder(m, ids, running)
  PROVE  InGoodOrder(n, ids, running) /\ SlotsKept(m, n)
<1>1. SlotsKept(m, n)
  BY ContinuesKeepsSlots
<1>2. OutOf(n, ids)
  BY ContinuesKeepsOut DEF InGoodOrder
<1>3. AllMarked(n) /\ AllComplete(n)
  BY ContinuesKeepsTasks DEF InGoodOrder
<1>4. UndoServed(n, running)
  BY <1>1, UndoStays DEF InGoodOrder
<1>5. QED BY <1>1, <1>2, <1>3, <1>4 DEF InGoodOrder

\* A step that starts nothing and changes no slot, whatever it does to the events.
LEMMA QuietEventStep ==
  ASSUME ServiceInv, ManagerConsistent', Continues(manager, manager', {}, {}),
         manager'.active = manager.active, preparing' = preparing, inbox' = inbox,
         worker' = worker, undo' = undo,
         InStep(manager, inbox, worker, events', uiQueue')
  PROVE  Serving'
<1>1. ManagerInv(manager) /\ ManagerInv(manager') /\ preparing \subseteq Nat
      /\ inbox \in [Lanes -> Seq(Request)] /\ worker \in [Lanes -> WorkerState]
  BY DEF ServiceInv, LanesInv, ManagerConsistent, TypeOK
<1>2. InGoodOrder(manager', preparing, undo.running) /\ SlotsKept(manager, manager')
  BY <1>1, OrderKept, preparing \cap {} = {} DEF ServiceInv, Serving
<1>3. InStep(manager', inbox, worker, events', uiQueue')
  BY <1>1, <1>2, QuietInStep
<1>4. NoneIdle(manager', Lanes \ {})
  BY ContinuesKeepsBusy DEF ServiceInv, Serving
<1>5. Lanes \ {} = Lanes
  OBVIOUS
<1>6. UndoBounded'
  BY DEF ServiceInv, Serving, UndoBounded
<1>7. InStep(manager, inbox, worker, events, uiQueue)'
  BY <1>3
<1>8. InGoodOrder(manager, preparing, undo.running)' /\ NoneIdle(manager, Lanes)'
  BY <1>2, <1>4, <1>5
<1>9. QED BY <1>6, <1>7, <1>8 DEF Serving

\* The same, when it leaves the events alone.
LEMMA QuietStep ==
  ASSUME ServiceInv, ManagerConsistent', Continues(manager, manager', {}, {}),
         manager'.active = manager.active, preparing' = preparing, inbox' = inbox,
         worker' = worker, events' = events, uiQueue' = uiQueue, undo' = undo
  PROVE  Serving'
<1>1. InStep(manager, inbox, worker, events', uiQueue')
  BY DEF ServiceInv, Serving
<1>2. QED BY <1>1, QuietEventStep

\* A step that has put work into one lane and starts that lane.
LEMMA StartingStep ==
  ASSUME TypeOK, NEW m, ManagerInv(m), NEW lane \in Lanes, NEW ids, ids \subseteq Nat, NEW running,
         NEW uq,
         InStep(m, inbox, worker, events, uq), InGoodOrder(m, ids, running),
         NoneIdle(m, Lanes \ {lane})
  PROVE  /\ InStep(StartAndMark(m, lane), Deliver(m, StartAndMark(m, lane)), worker, events, uq)
         /\ InGoodOrder(StartAndMark(m, lane), ids, running)
         /\ NoneIdle(StartAndMark(m, lane), Lanes)
<1> DEFINE n == StartAndMark(m, lane)
<1>1. ManagerInv(n) /\ Continues(m, n, {}, {})
  BY StartAndMarkKeeps, StartAndMarkContinues
<1>2. NoneIdle(n, (Lanes \ {lane}) \cup {lane})
  <2> DEFINE lanes == Lanes \ {lane}
  <2>1. lanes \in SUBSET Lanes /\ NoneIdle(m, lanes)
    OBVIOUS
  <2> HIDE DEF lanes
  <2>2. NoneIdle(n, lanes \cup {lane})
    BY <2>1, StartAndMarkBusy
  <2>3. QED BY <2>2 DEF lanes
<1>3. (Lanes \ {lane}) \cup {lane} = Lanes
  OBVIOUS
<1> HIDE DEF n
<1>4. InGoodOrder(n, ids, running) /\ SlotsKept(m, n)
  BY <1>1, OrderKept, ids \cap {} = {}
<1>5. inbox \in [Lanes -> Seq(Request)] /\ worker \in [Lanes -> WorkerState]
  BY DEF TypeOK
<1>6. InStep(n, DeliverTo(inbox, m, n), worker, events, uq)
  BY <1>1, <1>4, <1>5, DeliveredInStep
<1>7. DeliverTo(inbox, m, n) = Deliver(m, n)
  BY DEF DeliverTo, Deliver
<1>8. QED BY <1>2, <1>3, <1>4, <1>6, <1>7 DEF n

\* Subsets of the renames that are out are out.
LEMMA FewerOut ==
  ASSUME NEW m, NEW ids, OutOf(m, ids), NEW fewer \in SUBSET ids
  PROVE  OutOf(m, fewer)
BY DEF OutOf

\* A step that submits or releases work to one lane, and starts that lane.
LEMMA WorkStep ==
  ASSUME ServiceInv, NEW m, ManagerInv(m), NEW lane \in Lanes, NEW entering,
         Continues(manager, m, entering, {lane}), m.active = manager.active,
         preparing' \subseteq preparing, preparing' \cap entering = {},
         manager' = StartAndMark(m, lane), inbox' = Deliver(m, manager'),
         worker' = worker, events' = events, uiQueue' = uiQueue, undo' = undo
  PROVE  Serving'
<1>1. /\ TypeOK /\ ManagerInv(manager) /\ preparing' \subseteq Nat
      /\ inbox \in [Lanes -> Seq(Request)] /\ worker \in [Lanes -> WorkerState]
  BY DEF ServiceInv, LanesInv, ManagerConsistent, TypeOK
<1>2. InGoodOrder(manager, preparing', undo.running)
  BY FewerOut DEF ServiceInv, Serving, InGoodOrder
<1>3. InGoodOrder(m, preparing', undo.running) /\ SlotsKept(manager, m)
  BY <1>1, <1>2, OrderKept
<1>4. InStep(m, inbox, worker, events, uiQueue)
  BY <1>1, <1>3, QuietInStep DEF ServiceInv, Serving
<1>5. NoneIdle(m, Lanes \ {lane})
  BY ContinuesKeepsBusy DEF ServiceInv, Serving
<1>6. /\ InStep(manager', inbox', worker, events, uiQueue)
      /\ InGoodOrder(manager', preparing', undo.running)
      /\ NoneIdle(manager', Lanes)
  BY <1>1, <1>3, <1>4, <1>5, StartingStep
<1>7. UndoBounded'
  BY DEF ServiceInv, Serving, UndoBounded
<1>8. InStep(manager, inbox, worker, events, uiQueue)'
  BY <1>6
<1>9. InGoodOrder(manager, preparing, undo.running)' /\ NoneIdle(manager, Lanes)'
  BY <1>6
<1>10. QED BY <1>7, <1>8, <1>9 DEF Serving

\* Registering a rename that is to be prepared.
LEMMA RenameServes ==
  ASSUME ServiceInv, ManagerConsistent', EnqueueRename
  PROVE  Serving'
<1>1. /\ manager' = SubmitPreparing(manager) /\ preparing' = preparing \cup {manager.next}
      /\ inbox' = inbox /\ worker' = worker /\ events' = events /\ uiQueue' = uiQueue /\ undo' = undo
  BY DEF EnqueueRename, work, ui
<1>2. /\ ManagerInv(manager) /\ ManagerInv(manager') /\ preparing \subseteq Nat
      /\ inbox \in [Lanes -> Seq(Request)] /\ worker \in [Lanes -> WorkerState]
  BY DEF ServiceInv, LanesInv, ManagerConsistent, TypeOK
<1>3. Continues(manager, manager', {}, {})
  BY <1>1, <1>2, SubmitPreparingContinues
<1>4. /\ manager'.active = manager.active /\ manager'.queues = manager.queues
      /\ manager'.next = manager.next + 1 /\ manager.next \in Nat
      /\ manager'.tasks = With(manager.tasks, manager.next, NewTask("Rename", "Local", FALSE))
  BY <1>1, <1>2 DEF SubmitPreparing, ManagerInv, ManagerType
<1>5. InGoodOrder(manager', preparing, undo.running) /\ SlotsKept(manager, manager')
  BY <1>2, <1>3, OrderKept, preparing \cap {} = {} DEF ServiceInv, Serving
<1>6. OutOf(manager', {manager.next})
  <2>1. ~InSomeQueue(manager, manager.next)
    BY <1>2, <1>4, NextNotQueued
  <2>2. ~InSomeQueue(manager', manager.next)
    BY <2>1, <1>4 DEF InSomeQueue
  <2>3. manager'.tasks[manager.next].state = "Queued"
    BY <1>4 DEF With, NewTask
  <2>4. manager.next < manager'.next
    BY <1>4
  <2>5. QED BY <2>2, <2>3, <2>4 DEF OutOf
<1>7. OutOf(manager', preparing')
  BY <1>1, <1>5, <1>6 DEF OutOf, InGoodOrder
<1>8. InStep(manager', inbox, worker, events, uiQueue)
  BY <1>2, <1>4, <1>5, QuietInStep DEF ServiceInv, Serving
<1>9. NoneIdle(manager', Lanes \ {})
  BY <1>3, ContinuesKeepsBusy DEF ServiceInv, Serving
<1>10. InStep(manager, inbox, worker, events, uiQueue)'
  BY <1>1, <1>8
<1>11. InGoodOrder(manager, preparing, undo.running)'
  BY <1>1, <1>5, <1>7 DEF InGoodOrder
<1>12. NoneIdle(manager, Lanes)' /\ UndoBounded'
  BY <1>1, <1>9, Lanes \ {} = Lanes DEF ServiceInv, Serving, UndoBounded
<1>13. QED BY <1>10, <1>11, <1>12 DEF Serving

\* "Cancel the tasks and exit".
LEMMA AllCancelledContinues ==
  ASSUME NEW m, ManagerInv(m)
  PROVE  Continues(m, AllCancelled(m), {}, {}) /\ AllCancelled(m).active = m.active
<1> DEFINE n == AllCancelled(m)
<1>1. /\ n.next = m.next /\ n.active = m.active
      /\ n.queues = [l \in Lanes |-> <<>>]
      /\ DOMAIN n.tasks = DOMAIN m.tasks
      /\ \A id \in DOMAIN m.tasks :
           n.tasks[id] = RequestCancel(m.tasks[id]) \/ n.tasks[id] = m.tasks[id]
  BY DEF AllCancelled, ActiveIds, ManagerInv, ManagerType
<1>2. m.next \in Nat /\ \A x \in DOMAIN m.tasks : m.tasks[x] \in Task
  BY DEF ManagerInv, ManagerType
<1> HIDE DEF n
<1>3. \A id \in DOMAIN m.tasks : Onward(m.tasks[id], n.tasks[id])
  BY <1>1, <1>2, OnwardSteps
<1>4. TasksGoOn(m, n)
  BY <1>1, <1>2, <1>3 DEF TasksGoOn
<1>5. PlacesGoOn(m, n, {})
  BY <1>1 DEF PlacesGoOn, Placed, InSomeQueue
<1>6. QueuesGoOn(m, n, {}) /\ SlotsGoOn(m, n)
  BY <1>1 DEF QueuesGoOn, SlotsGoOn
<1>7. QED BY <1>1, <1>4, <1>5, <1>6 DEF Continues, n

\* User actions that change one task, or several, where they are.
LEMMA QuietActionsServe ==
  ASSUME ServiceInv, ManagerConsistent',
         \/ \E id \in DOMAIN manager.tasks : CancelTask(id) \/ PauseOrResume(id)
         \/ ResolveDialog \/ CloseLastWindow \/ WaitForTasks \/ CancelTasksAndExit
         \/ \E expired \in SUBSET Receipts(manager) : PruneTasks(expired)
  PROVE  Serving'
<1>1. ManagerInv(manager) /\ \A id \in DOMAIN manager.tasks : manager.tasks[id] \in Task
  BY DEF ServiceInv, LanesInv, ManagerConsistent, ManagerInv, ManagerType
<1>2. ASSUME NEW id \in DOMAIN manager.tasks, CancelTask(id) PROVE Serving'
  <2>1. manager' = Cancel(manager, id)
    BY <1>2 DEF CancelTask
  <2>2. Continues(manager, manager', {}, {}) /\ manager'.active = manager.active
    BY <1>1, <2>1, CancelContinues, CancelEffect
  <2>3. QED BY <1>2, <2>2, QuietStep DEF CancelTask, Answer, ui
<1>3. ASSUME NEW id \in DOMAIN manager.tasks, PauseOrResume(id) PROVE Serving'
  <2> DEFINE task == SetPaused(manager.tasks[id], manager.tasks[id].state = "Running")
  <2>1. manager' = Update(manager, id, task)
    BY <1>3 DEF PauseOrResume
  <2>2. Onward(manager.tasks[id], task)
    BY <1>1, OnwardSteps
  <2> HIDE DEF task
  <2>3. Continues(manager, manager', {}, {}) /\ manager'.active = manager.active
    BY <1>1, <2>1, <2>2, UpdateContinues DEF Update, ManagerInv, ManagerType
  <2>4. QED BY <1>3, <2>3, QuietStep DEF PauseOrResume, work, ui
<1>4. CASE ResolveDialog
  <2> DEFINE task == ResolveConflict(manager.tasks[dialog])
  <2>1. manager' = IF Present(manager, dialog) THEN Update(manager, dialog, task) ELSE manager
    BY <1>4 DEF ResolveDialog
  <2>2. Present(manager, dialog) => Onward(manager.tasks[dialog], task)
    BY <1>1, OnwardSteps DEF Present
  <2> HIDE DEF task
  <2>3. Continues(manager, manager', {}, {}) /\ manager'.active = manager.active
    <3>1. CASE Present(manager, dialog)
      BY <1>1, <2>1, <2>2, <3>1, UpdateContinues DEF Update, ManagerInv, ManagerType
    <3>2. CASE ~Present(manager, dialog)
      BY <1>1, <2>1, <3>2, SameContinues
    <3>3. QED BY <3>1, <3>2
  <2>4. QED BY <1>4, <2>3, QuietStep DEF ResolveDialog, Answer, ui
<1>5. CASE CloseLastWindow \/ WaitForTasks
  <2>1. /\ manager' = manager /\ preparing' = preparing /\ inbox' = inbox /\ worker' = worker
        /\ events' = events /\ uiQueue' = uiQueue /\ undo' = undo
    BY <1>5 DEF CloseLastWindow, WaitForTasks, work
  <2>2. Continues(manager, manager', {}, {}) /\ manager'.active = manager.active
    BY <1>1, <2>1, SameContinues
  <2>3. QED BY <2>1, <2>2, QuietStep
<1>6. CASE CancelTasksAndExit
  <2>1. manager' = AllCancelled(manager)
    BY <1>6 DEF CancelTasksAndExit
  <2>2. Continues(manager, manager', {}, {}) /\ manager'.active = manager.active
    BY <1>1, <2>1, AllCancelledContinues
  <2>3. QED BY <1>6, <2>2, QuietStep DEF CancelTasksAndExit
<1>7. ASSUME NEW expired \in SUBSET Receipts(manager), PruneTasks(expired) PROVE Serving'
  <2>1. manager' = Prune(manager, expired)
    BY <1>7 DEF PruneTasks
  <2>2. Continues(manager, manager', {}, {}) /\ manager'.active = manager.active
    BY <1>1, <2>1, PruneContinues DEF Prune, ManagerInv, ManagerType
  <2>3. QED BY <1>7, <2>2, QuietStep DEF PruneTasks, work, ui
<1>8. QED BY <1>2, <1>3, <1>4, <1>5, <1>6, <1>7

\* Actions that put work into a lane.
LEMMA WorkActionsServe ==
  ASSUME ServiceInv, ManagerConsistent',
         \/ \E pair \in Submittable : EnqueueOperation(pair[1], pair[2])
         \/ \E id \in preparing, lane \in {"Local", "Network"} : RenamePrepared(id, lane)
         \/ \E count \in 0..MaxRecovered : RecoverCleanups(count)
  PROVE  Serving'
<1>1. ManagerInv(manager) /\ preparing \subseteq Nat
  BY DEF ServiceInv, LanesInv, ManagerConsistent, TypeOK
<1>2. ASSUME NEW pair \in Submittable, EnqueueOperation(pair[1], pair[2]) PROVE Serving'
  <2> DEFINE m == Submit(manager, pair[1], pair[2], FALSE)
  <2>1. pair[1] \in Kinds /\ pair[2] \in Lanes
    BY LanesAssumption DEF Kinds, Lanes
  <2>2. ManagerInv(m) /\ Continues(manager, m, {}, {pair[2]}) /\ m.active = manager.active
    BY ZenonT(60), <1>1, <2>1, SubmitKeeps, SubmitContinues DEF Submit, ManagerInv, ManagerType
  <2>3. /\ manager' = StartAndMark(m, pair[2]) /\ inbox' = Deliver(m, manager')
        /\ preparing' = preparing /\ worker' = worker /\ events' = events
        /\ uiQueue' = uiQueue /\ undo' = undo
    BY <1>2 DEF EnqueueOperation, work, ui
  <2>4. preparing' \subseteq preparing /\ preparing' \cap {} = {}
    BY <2>3
  <2> HIDE DEF m
  <2>5. QED BY <2>1, <2>2, <2>3, <2>4, WorkStep
<1>3. ASSUME NEW id \in preparing, NEW lane \in {"Local", "Network"}, RenamePrepared(id, lane)
      PROVE  Serving'
  <2>1. /\ preparing' = preparing \ {id} /\ worker' = worker /\ events' = events
        /\ uiQueue' = uiQueue /\ undo' = undo /\ lane \in Lanes
    BY <1>3 DEF RenamePrepared, work, ui, Lanes
  <2>2. CASE PreparationAccepted(manager, id)
    <3> DEFINE m == CompletePreparation(manager, id, lane)
    <3>1. manager' = StartAndMark(m, lane) /\ inbox' = Deliver(m, manager')
      BY <1>3, <2>2 DEF RenamePrepared
    <3>2. ManagerInv(m) /\ Continues(manager, m, {id}, {lane})
      BY <1>1, <2>1, <2>2, CompletePreparationKeeps, CompletePreparationContinues
    <3>3. m.active = manager.active
      BY <1>1 DEF CompletePreparation, ManagerInv, ManagerType
    <3>4. preparing' \subseteq preparing /\ preparing' \cap {id} = {}
      BY <2>1
    <3> HIDE DEF m
    <3>5. QED BY <2>1, <3>1, <3>2, <3>3, <3>4, WorkStep
  <2>3. CASE ~PreparationAccepted(manager, id)
    <3>1. manager' = manager /\ inbox' = inbox
      BY <1>3, <2>3 DEF RenamePrepared
    <3>2. OutOf(manager, preparing')
      BY <2>1, FewerOut DEF ServiceInv, Serving, InGoodOrder
    <3>3. InGoodOrder(manager, preparing, undo.running)'
      BY <2>1, <3>1, <3>2 DEF ServiceInv, Serving, InGoodOrder
    <3>4. InStep(manager, inbox, worker, events, uiQueue)'
      BY <2>1, <3>1 DEF ServiceInv, Serving
    <3>5. NoneIdle(manager, Lanes)' /\ UndoBounded'
      BY <2>1, <3>1 DEF ServiceInv, Serving, UndoBounded
    <3>6. QED BY <3>3, <3>4, <3>5 DEF Serving
  <2>4. QED BY <2>2, <2>3
<1>4. ASSUME NEW count \in 0..MaxRecovered, RecoverCleanups(count) PROVE Serving'
  <2> DEFINE m == SubmitRecovered(manager, count)
  <2>1. count \in Nat /\ "Cleanup" \in Lanes
    BY LanesAssumption DEF Lanes
  <2>2. ManagerInv(m) /\ Continues(manager, m, {}, {"Cleanup"})
    BY <1>1, <2>1, SubmitRecoveredKeeps, SubmitRecoveredContinues
  <2>3. m.active = manager.active
    BY <1>1 DEF SubmitRecovered, ManagerInv, ManagerType
  <2>4. /\ manager' = StartAndMark(m, "Cleanup") /\ inbox' = Deliver(m, manager')
        /\ preparing' = preparing /\ worker' = worker /\ events' = events
        /\ uiQueue' = uiQueue /\ undo' = undo
    BY <1>4 DEF RecoverCleanups, work
  <2>5. preparing' \subseteq preparing /\ preparing' \cap {} = {}
    BY <2>4
  <2> HIDE DEF m
  <2>6. QED BY <2>1, <2>2, <2>3, <2>4, <2>5, WorkStep
<1>5. QED BY <1>2, <1>3, <1>4

\* Retrying is no step onward for the task it retries, but it keeps every slot.
LEMMA RetryServes ==
  ASSUME ServiceInv, ManagerConsistent', NEW id \in DOMAIN manager.tasks, RetryTask(id)
  PROVE  Serving'
<1> DEFINE m == Retry(manager, id)
           lane == manager.tasks[id].lane
           task == PrepareRetry(manager.tasks[id])
<1>1. /\ TypeOK /\ ManagerInv(manager) /\ preparing \subseteq Nat
      /\ inbox \in [Lanes -> Seq(Request)] /\ worker \in [Lanes -> WorkerState]
  BY DEF ServiceInv, LanesInv, ManagerConsistent, TypeOK
<1>2. /\ manager' = StartAndMark(m, lane) /\ inbox' = Deliver(m, manager')
      /\ RetryAccepted(manager, id) /\ manager.tasks[id].state \in {"Failed", "PartiallyCompleted"}
      /\ preparing' = preparing /\ worker' = worker /\ events' = events
      /\ uiQueue' = uiQueue /\ undo' = undo
  BY DEF RetryTask, work, ui
<1>3. /\ id \in Nat /\ manager.tasks[id] \in Task /\ lane \in Lanes
      /\ m.next = manager.next /\ m.active = manager.active
      /\ m.tasks = [manager.tasks EXCEPT ![id] = task]
      /\ m.queues = [manager.queues EXCEPT ![lane] = Append(@, id)]
  BY ZenonT(60), <1>1, <1>2, RetryEffect
<1>4. ManagerInv(m)
  BY <1>1, <1>2, RetryKeeps
<1>5. /\ task.kind = manager.tasks[id].kind /\ task.state = "Queued" /\ Marked(task)
  BY <1>3, PrepareRetryFresh
<1> HIDE DEF m, lane, task
<1>6. /\ PlacesGoOn(manager, m, {id}) /\ QueuesGoOn(manager, m, {lane}) /\ SlotsGoOn(manager, m)
  BY <1>1, <1>3, AppendPlaces
<1>7. /\ DOMAIN m.tasks = DOMAIN manager.tasks
      /\ m.tasks[id] = task
      /\ \A x \in DOMAIN manager.tasks : x # id => m.tasks[x] = manager.tasks[x]
  BY <1>3
<1>8. id \notin preparing
  BY <1>2 DEF ServiceInv, Serving, InGoodOrder, OutOf, Present
<1>9. OutOf(m, preparing)
  <2>1. \A x \in preparing : x \in DOMAIN m.tasks =>
          x \in DOMAIN manager.tasks /\ Onward(manager.tasks[x], m.tasks[x])
    <3>1. \A x \in DOMAIN manager.tasks : manager.tasks[x] \in Task
      BY <1>1 DEF ManagerInv, ManagerType
    <3>2. QED BY <3>1, <1>7, <1>8, OnwardSteps
  <2>2. preparing \cap {id} = {} /\ m.next >= manager.next
    BY <1>1, <1>3, <1>8 DEF ManagerInv, ManagerType
  <2>3. OutOf(manager, preparing)
    BY DEF ServiceInv, Serving, InGoodOrder
  <2>4. QED BY <1>1, <1>4, <1>6, <2>1, <2>2, <2>3, OutStays
<1>10. AllMarked(m) /\ AllComplete(m)
  BY <1>5, <1>7 DEF ServiceInv, Serving, InGoodOrder, AllMarked, AllComplete, Complete
<1>11. SlotsKept(manager, m)
  <2> SUFFICES ASSUME NEW l \in Lanes, manager.active[l] # NoOp
               PROVE  /\ m.active[l] = manager.active[l]
                      /\ manager.active[l] \in DOMAIN m.tasks
                      /\ SameService(manager.tasks[manager.active[l]], m.tasks[manager.active[l]])
    BY DEF SlotsKept
  <2>1. manager.active[l] \in DOMAIN manager.tasks
        /\ manager.tasks[manager.active[l]].state \in InProgress
    BY <1>1, SlotTask
  <2>2. manager.active[l] # id
    BY <2>1, <1>2 DEF InProgress
  <2>3. QED BY <2>1, <2>2, <1>3, <1>7 DEF SameService
<1>12. InGoodOrder(m, preparing, undo.running)
  BY <1>9, <1>10, <1>11, UndoStays DEF ServiceInv, Serving, InGoodOrder
<1>13. InStep(m, inbox, worker, events, uiQueue)
  BY <1>1, <1>3, <1>4, <1>11, QuietInStep DEF ServiceInv, Serving
<1>14. NoneIdle(m, Lanes \ {lane})
  BY <1>6 DEF ServiceInv, Serving, NoneIdle, QueuesGoOn, SlotsGoOn
<1>15. /\ InStep(manager', inbox', worker, events, uiQueue)
       /\ InGoodOrder(manager', preparing, undo.running)
       /\ NoneIdle(manager', Lanes)
  BY <1>1, <1>2, <1>3, <1>4, <1>12, <1>13, <1>14, StartingStep
<1>16. InStep(manager, inbox, worker, events, uiQueue)'
  BY <1>2, <1>15
<1>17. InGoodOrder(manager, preparing, undo.running)' /\ NoneIdle(manager, Lanes)'
  BY <1>2, <1>15
<1>18. UndoBounded'
  BY <1>2 DEF ServiceInv, Serving, UndoBounded
<1>19. QED BY <1>16, <1>17, <1>18 DEF Serving

\* The undo that starts is the task that was just submitted: nothing else is
\* active in the local lane, so nothing waits for it.
LEMMA UndoStarted ==
  ASSUME ServiceInv, RequestUndo, NEW m, m = Submit(manager, "Undo", "Local", FALSE)
  PROVE  /\ CanLaunch(m, "Local")
         /\ m.queues["Local"][1] = manager.next
         /\ m.tasks[manager.next].kind = "Undo"
         /\ manager.active["Local"] = NoOp
<1>1. ManagerInv(manager) /\ "Local" \in Lanes
  BY DEF ServiceInv, LanesInv, ManagerConsistent, Lanes
<1>2. manager.active["Local"] = NoOp
  <2>1. manager.active["Local"] # NoOp =>
          /\ manager.active["Local"] \in DOMAIN manager.tasks
          /\ manager.tasks[manager.active["Local"]].lane = "Local"
          /\ manager.tasks[manager.active["Local"]].state \in InProgress
    BY <1>1, SlotTask
  <2>2. QED BY <2>1 DEF RequestUndo, LocalBusy, IsActive, InProgress, Terminal
<1>3. manager.queues["Local"] = <<>>
  BY <1>1, <1>2 DEF ServiceInv, Serving, NoneIdle
<1>4. /\ m.active = manager.active
      /\ m.queues = [manager.queues EXCEPT !["Local"] = Append(@, manager.next)]
      /\ m.tasks = With(manager.tasks, manager.next, NewTask("Undo", "Local", FALSE))
      /\ manager.queues \in [Lanes -> Seq(Nat)]
  BY <1>1 DEF Submit, ManagerInv, ManagerType
<1>5. m.queues["Local"] # <<>> /\ m.queues["Local"][1] = manager.next
  <2> DEFINE queue == m.queues["Local"]
             id == manager.next
  <2>1. queue = Append(manager.queues["Local"], id)
    BY <1>1, <1>4
  <2>2. queue = Append(<<>>, id)
    BY <2>1, <1>3
  <2>3. id \in Nat
    BY <1>1 DEF ManagerInv, ManagerType
  <2> HIDE DEF queue, id
  <2>4. <<>> \in Seq(Nat) /\ Len(<<>>) = 0
    BY EmptySeq
  <2>5. Len(queue) = 1 /\ queue[1] = id /\ queue \in Seq(Nat)
    BY <2>2, <2>3, <2>4, AppendProperties
  <2>6. queue # <<>>
    BY <2>5, EmptySeq
  <2>7. QED BY <2>5, <2>6 DEF queue, id
<1>6. m.tasks[manager.next].kind = "Undo"
  <2> DEFINE task == m.tasks[manager.next]
  <2>1. task = NewTask("Undo", "Local", FALSE)
    BY <1>4 DEF With
  <2> HIDE DEF task
  <2>2. task.kind = "Undo"
    BY <2>1 DEF NewTask
  <2>3. QED BY <2>2 DEF task
<1>7. CanLaunch(m, "Local")
  BY <1>2, <1>4, <1>5 DEF CanLaunch
<1>8. QED BY <1>2, <1>5, <1>6, <1>7

\* An undo takes an entry with it.
LEMMA UndoServes ==
  ASSUME ServiceInv, ManagerConsistent', RequestUndo
  PROVE  Serving'
<1> DEFINE m == Submit(manager, "Undo", "Local", FALSE)
           s == StartNext(m, "Local")
           id == manager.next
           n == MarkRunning(s, s.active["Local"])
<1>1. /\ TypeOK /\ ManagerInv(manager) /\ preparing \subseteq Nat /\ "Local" \in Lanes
      /\ inbox \in [Lanes -> Seq(Request)] /\ worker \in [Lanes -> WorkerState]
  BY DEF ServiceInv, LanesInv, ManagerConsistent, TypeOK, Lanes
<1>2. /\ CanLaunch(m, "Local") /\ m.queues["Local"][1] = id /\ m.tasks[id].kind = "Undo"
      /\ manager.active["Local"] = NoOp
  BY UndoStarted
<1>3. /\ ManagerInv(m) /\ Continues(manager, m, {}, {"Local"}) /\ m.active = manager.active
      /\ id \in Nat
  <2>1. ManagerInv(m) /\ Continues(manager, m, {}, {"Local"})
    <3>1. "Undo" \in Kinds
      BY DEF Kinds
    <3>2. QED BY <1>1, <3>1, SubmitKeeps, SubmitContinues
  <2>2. m.active = manager.active /\ id \in Nat
    BY <1>1 DEF Submit, ManagerInv, ManagerType
  <2>3. QED BY <2>1, <2>2
<1>4. /\ ManagerInv(s) /\ Continues(m, s, {}, {}) /\ Launches(m, s, "Local")
      /\ s.active["Local"] = NoOp => s.queues["Local"] = <<>>
  BY <1>1, <1>2, <1>3, StartNextKeeps, StartNextContinues, StartNextEffect
<1>5. s.active["Local"] = id /\ id # NoOp
  BY <1>1, <1>2, <1>3, <1>4, NoOpAssumption DEF Launches, ManagerInv, ManagerType
<1>6. Started(m, s, "Local")
  BY <1>2, <1>3, <1>5 DEF Started
<1>7. /\ manager' = n /\ inbox' = Deliver(m, manager')
      /\ undo' = [entries |-> undo.entries - 1, running |-> TRUE]
      /\ preparing' = preparing /\ worker' = worker /\ events' = events /\ uiQueue' = uiQueue
  BY <1>6 DEF RequestUndo, work
<1> HIDE DEF m, s
<1>8. ManagerInv(n) /\ Continues(s, n, {}, {})
  BY <1>4, MarkRunningKeeps, MarkRunningContinues
<1> HIDE DEF n, id
<1>9. Continues(m, n, {} \cup {}, {} \cup {})
  BY <1>3, <1>4, <1>8, ContinuesTwice
<1>10. Continues(m, n, {}, {})
  BY <1>9, {} \cup {} = {}
<1>11. InGoodOrder(m, preparing, undo.running) /\ SlotsKept(manager, m)
  BY <1>1, <1>3, OrderKept, preparing \cap {} = {} DEF ServiceInv, Serving
<1>12. InGoodOrder(n, preparing, undo.running) /\ SlotsKept(m, n)
  BY <1>1, <1>3, <1>8, <1>10, <1>11, OrderKept, preparing \cap {} = {}
<1>13. UndoServed(n, TRUE)
  <2>1. SlotsKept(s, n)
    BY <1>4, <1>8, ContinuesKeepsSlots
  <2>2. s.tasks[id].kind = "Undo"
    <3>1. id \in DOMAIN m.tasks
      BY <1>1, <1>2, <1>3, LaunchedTask
    <3>2. s.tasks = [m.tasks EXCEPT ![id] = [m.tasks[id] EXCEPT !.state = "Preflight"]]
      BY <1>2, <1>4 DEF Launches
    <3>3. m.tasks[id] \in Task
      BY <3>1, <1>3 DEF ManagerInv, ManagerType
    <3>4. QED BY <3>1, <3>2, <3>3, <1>2 DEF Task
  <2>3. QED BY <1>1, <1>5, <2>1, <2>2 DEF UndoServed, SlotsKept, SameService
<1>14. InStep(m, inbox, worker, events, uiQueue)
  BY <1>1, <1>3, <1>11, QuietInStep DEF ServiceInv, Serving
<1>15. InStep(n, DeliverTo(inbox, m, n), worker, events, uiQueue)
  BY <1>1, <1>3, <1>8, <1>12, <1>14, DeliveredInStep
<1>16. DeliverTo(inbox, m, n) = Deliver(m, n)
  BY DEF DeliverTo, Deliver
<1>17. NoneIdle(n, Lanes)
  <2>1. NoneIdle(m, Lanes \ {"Local"})
    BY <1>3, ContinuesKeepsBusy DEF ServiceInv, Serving
  <2> DEFINE lanes == Lanes \ {"Local"}
  <2>2. lanes \in SUBSET Lanes /\ NoneIdle(m, lanes)
    BY <2>1
  <2> HIDE DEF lanes
  <2>3. NoneIdle(n, lanes \ {})
    BY <1>10, <2>2, ContinuesKeepsBusy
  <2>4. n.active["Local"] = id
    BY <1>1, <1>5, <1>8 DEF Continues, SlotsGoOn
  <2>5. QED BY <1>5, <2>3, <2>4 DEF NoneIdle, lanes
<1>18. InStep(manager, inbox, worker, events, uiQueue)'
  BY <1>7, <1>15, <1>16
<1>19. InGoodOrder(manager, preparing, undo.running)' /\ NoneIdle(manager, Lanes)'
  BY <1>7, <1>12, <1>13, <1>17 DEF InGoodOrder
<1>20. UndoBounded'
  <2>1. ~undo.running /\ undo.entries \in Nat
    BY <1>1 DEF RequestUndo, TypeOK
  <2>2. undo.entries <= UndoLimit /\ UndoLimit \in Nat
    BY <2>1, LanesAssumption DEF ServiceInv, Serving, UndoBounded
  <2>3. undo'.entries = undo.entries - 1 /\ undo'.running = TRUE
    BY <1>7
  <2>4. QED BY <2>1, <2>2, <2>3 DEF UndoBounded
<1>21. QED BY <1>18, <1>19, <1>20 DEF Serving

-----------------------------------------------------------------------------
(* Workers and the pump.                                                    *)

\* A step that leaves the manager alone.
LEMMA ManagerUntouched ==
  ASSUME ServiceInv, manager' = manager, preparing' = preparing, undo' = undo,
         InStep(manager, inbox', worker', events', uiQueue')
  PROVE  Serving'
<1>1. InStep(manager, inbox, worker, events, uiQueue)'
  OBVIOUS
<1>2. InGoodOrder(manager, preparing, undo.running)' /\ NoneIdle(manager, Lanes)' /\ UndoBounded'
  BY DEF ServiceInv, Serving, UndoBounded
<1>3. QED BY <1>1, <1>2 DEF Serving

\* What a worker is busy with is the task in the slot of its lane.
LEMMA BusyHoldsSlot ==
  ASSUME ServiceInv, NEW l \in Lanes, worker[l].pc # "idle"
  PROVE  /\ HoldsSlot(manager, worker[l].id) /\ manager.active[l] = worker[l].id
         /\ manager.tasks[worker[l].id].lane = l
<1>1. /\ ManagerInv(manager) /\ inbox \in [Lanes -> Seq(Request)] /\ worker \in [Lanes -> WorkerState]
      /\ LaneInStep(manager, l, inbox, worker)
  BY DEF ServiceInv, LanesInv, ManagerConsistent, TypeOK, Serving, InStep
<1>2. manager.active[l] # NoOp
  BY <1>1, FreeLane DEF Unserved
<1>3. manager.active[l] = worker[l].id
  BY <1>1 DEF LaneInStep
<1>4. QED BY <1>1, <1>2, <1>3, SlotTask

\* Every step of a lane worker.
LEMMA LaneStepServes ==
  ASSUME ServiceInv, NEW l \in Lanes, LaneStep(l)
  PROVE  Serving'
<1> DEFINE w == worker[l]
<1>1. /\ ManagerInv(manager) /\ inbox \in [Lanes -> Seq(Request)] /\ worker \in [Lanes -> WorkerState]
      /\ events \in Seq(Event) /\ InStep(manager, inbox, worker, events, uiQueue)
  BY DEF ServiceInv, LanesInv, ManagerConsistent, TypeOK, Serving
<1>2. w \in WorkerState
  BY <1>1
<1>3. CASE TakeRequest(l)
  <2> DEFINE next == [Idle EXCEPT !.pc = "run", !.id = Head(inbox[l]).id, !.round = Head(inbox[l]).round]
  <2>1. next.pc # "idle" /\ next.id = Head(inbox[l]).id /\ next.round = Head(inbox[l]).round
    BY DEF Idle
  <2>2. /\ inbox' = [inbox EXCEPT ![l] = Tail(@)] /\ inbox[l] # <<>>
        /\ worker' = [worker EXCEPT ![l] = next]
        /\ events' = events /\ uiQueue' = uiQueue
        /\ manager' = manager /\ preparing' = preparing /\ undo' = undo
    BY <1>3 DEF TakeRequest, WorkerStep, ui
  <2> HIDE DEF next
  <2>3. InStep(manager, inbox', worker', events', uiQueue')
    BY <1>1, <2>1, <2>2, RequestTaken
  <2>4. QED BY <2>2, <2>3, ManagerUntouched
<1>4. CASE Park(l) \/ Unpark(l) \/ MeetConflict(l) \/ LeaveGate(l)
  <2>1. PICK pc \in {"run", "parked", "gate"} : WorkerStep(l, [worker[l] EXCEPT !.pc = pc])
    BY <1>4 DEF Park, Unpark, MeetConflict, LeaveGate
  <2> DEFINE next == [worker[l] EXCEPT !.pc = pc]
  <2>2. next.pc # "idle" /\ next.id = w.id /\ next.round = w.round
    BY <1>2, <2>1 DEF WorkerState
  <2>3. w.pc # "idle" /\ inbox' = inbox /\ events' = events
    BY <1>4 DEF Park, Unpark, MeetConflict, LeaveGate
  <2>4. /\ worker' = [worker EXCEPT ![l] = next] /\ uiQueue' = uiQueue
        /\ manager' = manager /\ preparing' = preparing /\ undo' = undo
    BY <2>1 DEF WorkerStep, ui
  <2> HIDE DEF next
  <2>5. InStep(manager, inbox', worker', events', uiQueue')
    BY <1>1, <2>2, <2>3, <2>4, WorkerGoesOn
  <2>6. QED BY <2>4, <2>5, ManagerUntouched
<1>5. CASE ReportExecuting(l) \/ EnterGate(l)
  <2>1. PICK next, e :
          /\ next \in {[worker[l] EXCEPT !.executing = TRUE],
                       [worker[l] EXCEPT !.pc = "waiting", !.conflicts = @ + 1]}
          /\ e \in {[type |-> "Executing", id |-> w.id], [type |-> "Conflict", id |-> w.id]}
          /\ WorkerStep(l, next) /\ events' = Append(events, e)
    <3>1. CASE ReportExecuting(l)
      BY <3>1 DEF ReportExecuting
    <3>2. CASE EnterGate(l)
      BY <3>2 DEF EnterGate
    <3>3. QED BY <1>5, <3>1, <3>2
  <2>2. w.pc \in {"run", "gate"} /\ inbox' = inbox
    BY <1>5 DEF ReportExecuting, EnterGate
  <2>3. next.pc # "idle" /\ next.id = w.id /\ next.round = w.round
    BY <1>2, <2>1, <2>2 DEF WorkerState
  <2>4. e.id = w.id /\ ~IsCompletion(e) /\ e.type # "Committed"
    BY <2>1 DEF IsCompletion
  <2>5. Served(manager, e)
    BY <2>2, <2>4, BusyHoldsSlot DEF Served
  <2>6. InStep(manager, inbox, worker, Append(events, e), uiQueue)
    BY <1>1, <2>2, <2>4, <2>5, EventNoted
  <2>7. /\ worker' = [worker EXCEPT ![l] = next] /\ uiQueue' = uiQueue
        /\ manager' = manager /\ preparing' = preparing /\ undo' = undo
    BY <2>1 DEF WorkerStep, ui
  <2>8. InStep(manager, inbox', worker', events', uiQueue')
    BY <1>1, <2>1, <2>2, <2>3, <2>6, <2>7, WorkerGoesOn
  <2>9. QED BY <2>7, <2>8, ManagerUntouched
<1>6. ASSUME NEW outcome \in Outcomes, NEW undoable \in BOOLEAN, NEW cleanup \in BOOLEAN,
             FinishRequest(l, outcome, undoable, cleanup)
      PROVE  Serving'
  <2> DEFINE e == [type |-> IF CommitsOnly(Token(l)) THEN "Committed" ELSE "Finished",
                   id |-> w.id, outcome |-> outcome,
                   undoable |-> undoable, cleanup |-> cleanup]
  <2>1. /\ w.pc = "run" /\ events' = Append(events, e)
        /\ worker' = [worker EXCEPT ![l] = Idle] /\ inbox' = inbox /\ uiQueue' = uiQueue
        /\ manager' = manager /\ preparing' = preparing /\ undo' = undo
    BY <1>6 DEF FinishRequest, WorkerStep, ui
  <2>2. /\ outcome.left => Token(l).cancelled \/ MayBeAborted(Token(l))
        /\ undoable => l = "Local" /\ Token(l).kind # "Undo"
    BY <1>6 DEF FinishRequest, Feasible, MayBeAborted
  <2>3. /\ e.id = w.id /\ e.outcome = outcome /\ e.undoable = undoable
        /\ e.type = "Committed" => CommitsOnly(Token(l))
    OBVIOUS
  <2> HIDE DEF e
  <2>4. Served(manager, e)
    BY <2>1, <2>2, <2>3, BusyHoldsSlot DEF Served, Token
  <2>5. InStep(manager, inbox', worker', events', uiQueue')
    BY <1>1, <2>1, <2>3, <2>4, CompletionNoted
  <2>6. QED BY <2>1, <2>5, ManagerUntouched
<1>7. QED BY <1>3, <1>4, <1>5, <1>6 DEF LaneStep

\* The pump: progress marks the task running, the rest is queued.
LEMMA PumpServes ==
  ASSUME ServiceInv, ManagerConsistent', PumpExecuting \/ PumpForward
  PROVE  Serving'
<1>1. /\ ManagerInv(manager) /\ inbox \in [Lanes -> Seq(Request)] /\ worker \in [Lanes -> WorkerState]
      /\ events \in Seq(Event) /\ uiQueue \in Seq(Event) /\ preparing \subseteq Nat
      /\ InStep(manager, inbox, worker, events, uiQueue)
  BY DEF ServiceInv, LanesInv, ManagerConsistent, TypeOK, Serving
<1>2. CASE PumpForward
  <2>1. /\ events # <<>> /\ events' = Tail(events) /\ uiQueue' = Append(uiQueue, Head(events))
        /\ manager' = manager /\ preparing' = preparing /\ undo' = undo
        /\ inbox' = inbox /\ worker' = worker
    BY <1>2 DEF PumpForward, ui
  <2>2. InStep(manager, inbox', worker', events', uiQueue')
    BY <1>1, <2>1, EventForwarded
  <2>3. QED BY <2>1, <2>2, ManagerUntouched
<1>3. CASE PumpExecuting
  <2>1. /\ events # <<>> /\ Head(events).type = "Executing" /\ events' = Tail(events)
        /\ manager' = MarkRunning(manager, Head(events).id) \/ manager' = manager
        /\ preparing' = preparing /\ undo' = undo /\ uiQueue' = uiQueue
        /\ inbox' = inbox /\ worker' = worker
    BY <1>3 DEF PumpExecuting, ui
  <2>2. ~IsCompletion(Head(events))
    BY <2>1 DEF IsCompletion
  <2>3. InStep(manager, inbox, worker, Tail(events), uiQueue)
    BY <1>1, <2>1, <2>2, EventDropped
  <2>4. Continues(manager, manager', {}, {}) /\ manager'.active = manager.active
    <3>1. CASE manager' = manager
      BY <1>1, <3>1, SameContinues
    <3>2. CASE manager' = MarkRunning(manager, Head(events).id)
      BY <1>1, <3>2, MarkRunningContinues DEF MarkRunning, ManagerInv, ManagerType
    <3>3. QED BY <2>1, <3>1, <3>2
  <2>5. InStep(manager, inbox, worker, events', uiQueue')
    BY <2>1, <2>3
  <2>6. QED BY <2>1, <2>4, <2>5, QuietEventStep
<1>4. QED BY <1>2, <1>3

-----------------------------------------------------------------------------
(* The handlers.                                                            *)

\* A conflict is recorded.
LEMMA ConflictServes ==
  ASSUME ServiceInv, ManagerConsistent', HandleConflict
  PROVE  Serving'
<1> DEFINE id == Head(uiQueue).id
           task == SetConflict(manager.tasks[id])
<1>1. /\ ManagerInv(manager) /\ uiQueue \in Seq(Event)
      /\ InStep(manager, inbox, worker, events, uiQueue)
      /\ \A x \in DOMAIN manager.tasks : manager.tasks[x] \in Task
  BY DEF ServiceInv, LanesInv, ManagerConsistent, TypeOK, Serving, ManagerInv, ManagerType
<1>2. /\ uiQueue # <<>> /\ uiQueue' = Tail(uiQueue) /\ events' = events /\ worker' = worker
      /\ preparing' = preparing /\ inbox' = inbox /\ undo' = undo
      /\ manager' = IF Present(manager, id) THEN Update(manager, id, task) ELSE manager
  BY DEF HandleConflict, HandlerTail, work
<1>3. InStep(manager, inbox, worker, events', uiQueue')
  BY <1>1, <1>2, HandledDropped
<1>4. Present(manager, id) => Onward(manager.tasks[id], task)
  BY <1>1, OnwardSteps DEF Present
<1> HIDE DEF id, task
<1>5. Continues(manager, manager', {}, {}) /\ manager'.active = manager.active
  <2>1. CASE Present(manager, id)
    BY <1>1, <1>2, <1>4, <2>1, UpdateContinues DEF Update, ManagerInv, ManagerType
  <2>2. CASE ~Present(manager, id)
    BY <1>1, <1>2, <2>2, SameContinues
  <2>3. QED BY <2>1, <2>2
<1>6. QED BY <1>2, <1>3, <1>5, QuietEventStep

\* A task is complete when its last round left nothing to do.
LEMMA CompleteWhenVerdictSays ==
  ASSUME NEW m, NEW e \in Event, IsCompletion(e), Served(m, e), Verdict(m, e) = "Completed"
  PROVE  ~(e.outcome.failed \/ e.outcome.left) \/ MayBeAborted(m.tasks[e.id])
<1>1. ~m.tasks[e.id].cancelled /\ ~e.outcome.failed
  BY DEF Verdict, TerminalState
<1>2. QED BY <1>1 DEF Served

\* Settling a task leaves the others in good order.
LEMMA SettledInGoodOrder ==
  ASSUME NEW m, NEW n, ManagerInv(m), NEW e \in Event, IsCompletion(e), Served(m, e),
         SettlesTask(m, n, e), SettlesSlot(m, n, e),
         NEW ids, NEW running, InGoodOrder(m, ids, running),
         NEW after, after => running /\ m.tasks[e.id].kind # "Undo"
  PROVE  InGoodOrder(n, ids, after)
<1> DEFINE id == e.id
           home == m.tasks[id].lane
<1>1. /\ id \in DOMAIN m.tasks /\ id # NoOp /\ home \in Lanes /\ m.active[home] = id
      /\ m.tasks[id].state \in InProgress
  BY HolderTask DEF Served
<1>2. Verdict(m, e) \in Terminal
  BY EventOutcome DEF IsCompletion, Verdict
<1>3. /\ n.next = m.next /\ n.queues = m.queues /\ DOMAIN n.tasks = DOMAIN m.tasks
      /\ \A x \in DOMAIN m.tasks : x # id => n.tasks[x] = m.tasks[x]
      /\ n.tasks[id].kind = m.tasks[id].kind /\ n.tasks[id].lane = m.tasks[id].lane
      /\ n.tasks[id].cancelled = m.tasks[id].cancelled
      /\ n.tasks[id].retryable = (e.outcome.failed \/ e.outcome.left)
      /\ n.tasks[id].state = IF Granted(m, e) THEN Verdict(m, e) ELSE m.tasks[id].state
  BY DEF SettlesTask
<1>4. MayBeAborted(m.tasks[id]) => MayBeAborted(n.tasks[id])
  BY <1>3 DEF MayBeAborted, UsesLocalRecycleBatch
<1>5. Verdict(m, e) = "Completed" =>
        ~(e.outcome.failed \/ e.outcome.left) \/ MayBeAborted(m.tasks[id])
  BY CompleteWhenVerdictSays
<1> HIDE DEF id, home
<1>6. OutOf(n, ids)
  <2> SUFFICES ASSUME NEW x \in ids
               PROVE  /\ x < n.next /\ ~InSomeQueue(n, x)
                      /\ Present(n, x) => n.tasks[x].state \in {"Queued", "Cancelled"}
    BY DEF OutOf
  <2>1. /\ x < m.next /\ ~InSomeQueue(m, x)
        /\ Present(m, x) => m.tasks[x].state \in {"Queued", "Cancelled"}
    BY DEF InGoodOrder, OutOf
  <2>2. x # id
    BY <1>1, <2>1 DEF Present, InProgress
  <2>3. QED BY <1>3, <2>1, <2>2 DEF Present, InSomeQueue
<1>7. AllMarked(n)
  <2>1. \A x \in DOMAIN m.tasks : Marked(m.tasks[x])
    BY DEF InGoodOrder, AllMarked
  <2>2. Marked(n.tasks[id])
    BY <1>1, <1>2, <1>3, <2>1 DEF Marked, IsActive
  <2>3. QED BY <1>1, <1>3, <2>1, <2>2 DEF AllMarked
<1>8. AllComplete(n)
  <2>1. AllComplete(m)
    BY DEF InGoodOrder
  <2>2. Complete(n.tasks[id])
    <3>1. n.tasks[id].state = "Completed" => Verdict(m, e) = "Completed"
      BY <1>1, <1>3 DEF InProgress
    <3>2. QED BY <1>3, <1>4, <1>5, <3>1 DEF Complete
  <2>3. QED BY <1>3, <2>1, <2>2 DEF AllComplete
<1>9. ASSUME after PROVE n.active["Local"] # NoOp /\ n.tasks[n.active["Local"]].kind = "Undo"
  <2>1. /\ m.active["Local"] # NoOp /\ m.tasks[m.active["Local"]].kind = "Undo"
        /\ m.tasks[id].kind # "Undo" /\ "Local" \in Lanes
    BY <1>9 DEF InGoodOrder, UndoServed, Lanes, id
  <2>2. m.active["Local"] # id /\ home # "Local"
    BY <1>1, <2>1
  <2>3. n.active["Local"] = m.active["Local"]
    BY <2>1, <2>2 DEF SettlesSlot, home, id
  <2>4. m.active["Local"] \in DOMAIN m.tasks
    BY <2>1, SlotTask
  <2>5. QED BY <1>3, <2>1, <2>2, <2>3, <2>4
<1>10. QED BY <1>6, <1>7, <1>8, <1>9 DEF InGoodOrder, UndoServed

\* Only the lane of the settled task may be idle.
LEMMA SettledIdles ==
  ASSUME NEW m, NEW n, NEW e, SettlesTask(m, n, e), SettlesSlot(m, n, e), NoneIdle(m, Lanes)
  PROVE  NoneIdle(n, Lanes \ {m.tasks[e.id].lane})
BY DEF NoneIdle, SettlesTask, SettlesSlot

\* What a handler finds at the head of its queue, and what settling it leaves.
LEMMA HandledCompletion ==
  ASSUME ServiceInv, uiQueue # <<>>, IsCompletion(Head(uiQueue)),
         NEW n, n = Settled(WithItemStates(manager, Head(uiQueue)), Head(uiQueue))
  PROVE  /\ Head(uiQueue) \in Event /\ Served(manager, Head(uiQueue))
         /\ ManagerInv(n)
         /\ SettlesTask(manager, n, Head(uiQueue)) /\ SettlesSlot(manager, n, Head(uiQueue))
         /\ InStep(n, inbox, worker, events, Tail(uiQueue))
         /\ NoneIdle(n, Lanes \ {manager.tasks[Head(uiQueue).id].lane})
<1> DEFINE e == Head(uiQueue)
<1>1. /\ ManagerInv(manager) /\ uiQueue \in Seq(Event)
      /\ inbox \in [Lanes -> Seq(Request)] /\ worker \in [Lanes -> WorkerState]
      /\ InStep(manager, inbox, worker, events, uiQueue) /\ NoneIdle(manager, Lanes)
  BY DEF ServiceInv, LanesInv, ManagerConsistent, TypeOK, Serving
<1>2. e \in Event
  BY <1>1
<1>3. Served(manager, e)
  BY <1>1, HandledDropped
<1>4. ManagerInv(n)
  BY <1>1, <1>2, SettledKeeps DEF IsCompletion
<1>5. SettlesTask(manager, n, e) /\ SettlesSlot(manager, n, e)
  BY <1>1, <1>2, <1>3, SettledEffect DEF Served
<1> HIDE DEF e
<1>6. InStep(n, inbox, worker, events, Tail(uiQueue))
  BY <1>1, <1>5, SettledInStep DEF e
<1>7. NoneIdle(n, Lanes \ {manager.tasks[e.id].lane})
  BY <1>1, <1>5, SettledIdles
<1>8. QED BY <1>2, <1>3, <1>4, <1>5, <1>6, <1>7 DEF e

\* What an undoable completion adds to the history fits: no undo is in progress,
\* because the undo would hold the slot.
LEMMA HistoryBounded ==
  ASSUME ServiceInv, NEW e, Served(manager, e), IsCompletion(e), NEW terminal,
         undo' = UndoAfter(manager.tasks[e.id].kind, e, terminal)
  PROVE  /\ UndoBounded'
         /\ undo'.running => undo.running /\ manager.tasks[e.id].kind # "Undo"
<1> DEFINE kind == manager.tasks[e.id].kind
<1>1. /\ undo.entries \in Nat /\ undo.running \in BOOLEAN /\ UndoLimit \in Nat
      /\ undo = [entries |-> undo.entries, running |-> undo.running]
  BY LanesAssumption DEF ServiceInv, LanesInv, TypeOK
<1>2. undo.entries + (IF undo.running THEN 1 ELSE 0) <= UndoLimit
  BY DEF ServiceInv, Serving, UndoBounded
<1>3. ASSUME e.undoable PROVE kind # "Undo" /\ ~undo.running
  <2>1. /\ HoldsSlot(manager, e.id) /\ manager.tasks[e.id].lane = "Local" /\ kind # "Undo"
    BY <1>3 DEF Served
  <2>2. manager.active["Local"] = e.id
    BY <2>1 DEF HoldsSlot
  <2>3. QED BY <2>1, <2>2 DEF ServiceInv, Serving, InGoodOrder, UndoServed
<1> HIDE DEF kind
<1>4. CASE kind = "Undo" /\ undo.running
  <2>1. undo' = [entries |-> undo.entries + (IF e.outcome.failed \/ e.outcome.left THEN 1 ELSE 0),
                 running |-> FALSE]
    BY <1>4 DEF UndoAfter, kind
  <2>2. /\ ~undo'.running
        /\ undo'.entries = undo.entries \/ undo'.entries = undo.entries + 1
    BY <2>1, <1>1
  <2>3. undo.entries + 1 <= UndoLimit
    BY <1>2, <1>4
  <2>4. undo'.entries <= UndoLimit
    BY <1>1, <2>2, <2>3
  <2>5. QED BY <1>1, <2>2, <2>4 DEF UndoBounded
<1>5. CASE kind # "Undo" /\ terminal = "Completed" /\ e.undoable
  <2>1. undo' = [undo EXCEPT !.entries = IF undo.entries < UndoLimit THEN undo.entries + 1 ELSE undo.entries]
    BY <1>5 DEF UndoAfter, kind
  <2>2. /\ undo'.entries = IF undo.entries < UndoLimit THEN undo.entries + 1 ELSE undo.entries
        /\ undo'.running = undo.running
    BY <1>1, <2>1
  <2>3. ~undo.running
    BY <1>3, <1>5
  <2>4. undo.entries <= UndoLimit
    BY <1>1, <1>2, <2>3
  <2>5. undo'.entries <= UndoLimit /\ undo'.entries \in Nat
    BY <1>1, <2>2, <2>4
  <2>6. QED BY <1>1, <2>2, <2>3, <2>5 DEF UndoBounded
<1>6. CASE ~(kind = "Undo" /\ undo.running) /\ ~(kind # "Undo" /\ terminal = "Completed" /\ e.undoable)
  <2>1. undo' = undo
    BY <1>6 DEF UndoAfter, kind
  <2>2. UndoBounded'
    BY <1>2, <2>1 DEF UndoBounded
  <2>3. undo'.running => undo.running /\ kind # "Undo"
    BY <1>6, <2>1
  <2>4. QED BY <2>2, <2>3 DEF kind
<1>7. QED BY <1>4, <1>5, <1>6

\* A finished round settles its task and starts the next one of the lane.
LEMMA FinishedServes ==
  ASSUME ServiceInv, HandleFinished
  PROVE  Serving'
<1> DEFINE e == Head(uiQueue)
           m == Settled(WithItemStates(manager, e), e)
           lane == manager.tasks[e.id].lane
           terminal == TerminalState(IsCancelled(manager, e.id), e.outcome)
<1>1. /\ TypeOK /\ ManagerInv(manager) /\ preparing \subseteq Nat
      /\ InGoodOrder(manager, preparing, undo.running)
  BY DEF ServiceInv, LanesInv, ManagerConsistent, TypeOK, Serving
<1>2. /\ uiQueue # <<>> /\ IsCompletion(e)
  BY DEF HandleFinished, IsCompletion
<1>3. /\ e \in Event /\ Served(manager, e) /\ ManagerInv(m)
      /\ SettlesTask(manager, m, e) /\ SettlesSlot(manager, m, e)
      /\ InStep(m, inbox, worker, events, Tail(uiQueue))
      /\ NoneIdle(m, Lanes \ {lane})
  BY <1>2, HandledCompletion
<1>4. Present(manager, e.id) /\ lane \in Lanes
  BY <1>1, <1>3, HolderTask DEF Served, Present
<1>5. /\ manager' = StartAndMark(m, lane) /\ inbox' = Deliver(m, manager')
      /\ undo' = UndoAfter(manager.tasks[e.id].kind, e, terminal)
      /\ uiQueue' = Tail(uiQueue) /\ events' = events /\ worker' = worker /\ preparing' = preparing
  BY <1>4 DEF HandleFinished, HandlerTail, work, LaneOf, KindOf
<1> HIDE DEF m, e, terminal, lane
<1>6. UndoBounded' /\ (undo'.running => undo.running /\ manager.tasks[e.id].kind # "Undo")
  BY <1>2, <1>3, <1>5, HistoryBounded
<1>7. InGoodOrder(m, preparing, undo'.running)
  BY <1>1, <1>2, <1>3, <1>6, SettledInGoodOrder
<1>8. /\ InStep(manager', inbox', worker, events, Tail(uiQueue))
      /\ InGoodOrder(manager', preparing, undo'.running)
      /\ NoneIdle(manager', Lanes)
  BY <1>1, <1>3, <1>4, <1>5, <1>7, StartingStep
<1>9. InStep(manager, inbox, worker, events, uiQueue)'
  BY <1>5, <1>8
<1>10. InGoodOrder(manager, preparing, undo.running)' /\ NoneIdle(manager, Lanes)'
  BY <1>5, <1>8
<1>11. QED BY <1>6, <1>9, <1>10 DEF Serving

\* A local permanent delete ends and hands what it renamed away to the cleanup
\* lane; both lanes start their next task.
LEMMA CommittedServes ==
  ASSUME ServiceInv, HandleCommitted
  PROVE  Serving'
<1> DEFINE e == Head(uiQueue)
           m == Settled(WithItemStates(manager, e), e)
           c == IF e.cleanup THEN Submit(m, "PermanentDelete", "Cleanup", FALSE) ELSE m
           s == StartAndMark(c, "Cleanup")
           n == StartAndMark(s, "Local")
<1>1. /\ TypeOK /\ ManagerInv(manager) /\ preparing \subseteq Nat
      /\ InGoodOrder(manager, preparing, undo.running)
      /\ inbox \in [Lanes -> Seq(Request)] /\ worker \in [Lanes -> WorkerState]
      /\ "Local" \in Lanes /\ "Cleanup" \in Lanes
  BY DEF ServiceInv, LanesInv, ManagerConsistent, TypeOK, Serving, Lanes
<1>2. /\ uiQueue # <<>> /\ IsCompletion(e) /\ e.type = "Committed"
  BY DEF HandleCommitted, IsCompletion
<1>3. /\ e \in Event /\ Served(manager, e) /\ ManagerInv(m)
      /\ SettlesTask(manager, m, e) /\ SettlesSlot(manager, m, e)
      /\ InStep(m, inbox, worker, events, Tail(uiQueue))
      /\ NoneIdle(m, Lanes \ {manager.tasks[e.id].lane})
  BY <1>2, HandledCompletion
<1>4. manager.tasks[e.id].lane = "Local" /\ manager.tasks[e.id].kind # "Undo"
  BY <1>2, <1>3 DEF Served, CommitsOnly
<1>5. /\ manager' = n /\ inbox' = Deliver(c, n) /\ undo' = undo
      /\ uiQueue' = Tail(uiQueue) /\ events' = events /\ worker' = worker /\ preparing' = preparing
  BY DEF HandleCommitted, HandlerTail, work
<1> HIDE DEF m, e
<1>6. InGoodOrder(m, preparing, undo.running)
  BY <1>1, <1>2, <1>3, <1>4, SettledInGoodOrder
<1>7. ManagerInv(c) /\ Continues(m, c, {}, {"Cleanup"}) /\ c.active = m.active
  <2>1. CASE ~e.cleanup
    <3>1. Continues(m, m, {}, {})
      BY <1>3, SameContinues
    <3>2. QED BY <2>1, <1>3, <3>1 DEF Continues, QueuesGoOn
  <2>2. CASE e.cleanup
    <3>1. "PermanentDelete" \in Kinds
      BY DEF Kinds
    <3> DEFINE added == Submit(m, "PermanentDelete", "Cleanup", FALSE)
    <3>2. ManagerInv(added) /\ Continues(m, added, {}, {"Cleanup"})
      BY <1>1, <1>3, <3>1, SubmitKeeps, SubmitContinues
    <3>3. added.active = m.active
      BY <1>3 DEF Submit, ManagerInv, ManagerType
    <3>4. c = added
      BY <2>2
    <3> HIDE DEF added, c
    <3>5. QED BY <3>2, <3>3, <3>4
  <2>3. QED BY <2>1, <2>2
<1> HIDE DEF c
<1>8. InGoodOrder(c, preparing, undo.running) /\ SlotsKept(m, c)
  BY <1>1, <1>3, <1>6, <1>7, OrderKept, preparing \cap {} = {}
<1>9. InStep(c, inbox, worker, events, Tail(uiQueue))
  BY <1>1, <1>3, <1>7, <1>8, QuietInStep
<1>10. ManagerInv(s) /\ Continues(c, s, {}, {})
  BY <1>1, <1>7, StartAndMarkKeeps, StartAndMarkContinues
<1> HIDE DEF s
<1>11. ManagerInv(n) /\ Continues(s, n, {}, {})
  BY <1>1, <1>10, StartAndMarkKeeps, StartAndMarkContinues
<1>12. NoneIdle(n, Lanes)
  <2> DEFINE idle == (Lanes \ {"Local"}) \ {"Cleanup"}
             busy == (Lanes \ {"Local"}) \cup {"Cleanup"}
  <2>1. NoneIdle(c, idle)
    <3> DEFINE others == Lanes \ {"Local"}
    <3>1. others \in SUBSET Lanes /\ NoneIdle(m, others)
      BY <1>3, <1>4
    <3> HIDE DEF others
    <3>2. NoneIdle(c, others \ {"Cleanup"})
      BY <1>7, <3>1, ContinuesKeepsBusy
    <3>3. QED BY <3>2 DEF others
  <2>2. idle \in SUBSET Lanes /\ busy \in SUBSET Lanes /\ idle \cup {"Cleanup"} = busy
        /\ busy \cup {"Local"} = Lanes
    BY DEF Lanes
  <2> HIDE DEF idle, busy
  <2>3. NoneIdle(s, idle \cup {"Cleanup"})
    BY <1>1, <1>7, <2>1, <2>2, StartAndMarkBusy DEF s
  <2>4. NoneIdle(s, busy)
    BY <2>2, <2>3
  <2>5. NoneIdle(n, busy \cup {"Local"})
    BY <1>1, <1>10, <2>2, <2>4, StartAndMarkBusy
  <2>6. QED BY <2>2, <2>5
<1> HIDE DEF n
<1>13. Continues(c, n, {} \cup {}, {} \cup {})
  BY <1>7, <1>10, <1>11, ContinuesTwice
<1>14. Continues(c, n, {}, {})
  BY <1>13, {} \cup {} = {}
<1>15. InGoodOrder(n, preparing, undo.running) /\ SlotsKept(c, n)
  BY <1>1, <1>7, <1>8, <1>11, <1>14, OrderKept, preparing \cap {} = {}
<1>16. InStep(n, DeliverTo(inbox, c, n), worker, events, Tail(uiQueue))
  BY <1>1, <1>7, <1>9, <1>11, <1>15, DeliveredInStep
<1>17. DeliverTo(inbox, c, n) = Deliver(c, n)
  BY DEF DeliverTo, Deliver
<1>18. InStep(manager, inbox, worker, events, uiQueue)'
  BY <1>5, <1>16, <1>17
<1>19. InGoodOrder(manager, preparing, undo.running)' /\ NoneIdle(manager, Lanes)'
  BY <1>5, <1>12, <1>15
<1>20. UndoBounded'
  BY <1>5 DEF ServiceInv, Serving, UndoBounded
<1>21. QED BY <1>18, <1>19, <1>20 DEF Serving

-----------------------------------------------------------------------------
(* The inductive invariant.                                                 *)

\* The window is given up only when no foreground task is active.
LEMMA ClosingIsQuiet ==
  ASSUME Next
  PROVE  ClosedIsQuiet'
<1>1. \A m : HasForegroundActiveTasks(m) => HasActiveTasks(m)
  BY DEF HasForegroundActiveTasks, HasActiveTasks
<1>2. ASSUME open, open' = open PROVE ClosedIsQuiet'
  BY <1>2 DEF ClosedIsQuiet
<1>3. CASE CloseLastWindow
  BY <1>3 DEF CloseLastWindow, ClosedIsQuiet
<1>4. CASE CancelTasksAndExit
  BY <1>4, <1>1 DEF CancelTasksAndExit, ClosedIsQuiet
<1>5. CASE UiHandler
  <2>1. PICK shown : HandlerTail(shown)
    BY <1>5 DEF UiHandler, HandleConflict, HandleFinished, HandleCommitted
  <2>2. QED BY <2>1, <1>1 DEF HandlerTail, ClosedIsQuiet
<1>6. ASSUME UserStep, ~CloseLastWindow, ~CancelTasksAndExit PROVE open /\ open' = open
  <2>1. ASSUME NEW pair \in Submittable, EnqueueOperation(pair[1], pair[2]) PROVE open /\ open' = open
    BY <2>1 DEF EnqueueOperation, MayEnqueue, ui
  <2>2. CASE EnqueueRename
    BY <2>2 DEF EnqueueRename, MayEnqueue, ui
  <2>3. CASE RequestUndo
    BY <2>3 DEF RequestUndo, MayEnqueue
  <2>4. ASSUME NEW id \in DOMAIN manager.tasks, CancelTask(id) \/ PauseOrResume(id) \/ RetryTask(id)
        PROVE  open /\ open' = open
    BY <2>4 DEF CancelTask, PauseOrResume, RetryTask, ui
  <2>5. CASE ResolveDialog
    BY <2>5 DEF ResolveDialog, ui
  <2>6. CASE WaitForTasks
    BY <2>6 DEF WaitForTasks
  <2>7. QED BY <1>6, <2>1, <2>2, <2>3, <2>4, <2>5, <2>6 DEF UserStep
<1>7. ASSUME SystemStep, ~UiHandler PROVE open /\ open' = open
  <2>1. ASSUME NEW id \in preparing, NEW lane, RenamePrepared(id, lane) PROVE open /\ open' = open
    BY <2>1 DEF RenamePrepared, ui
  <2>2. ASSUME NEW count, RecoverCleanups(count) PROVE open /\ open' = open
    BY <2>2 DEF RecoverCleanups
  <2>3. ASSUME NEW expired, PruneTasks(expired) PROVE open /\ open' = open
    BY <2>3 DEF PruneTasks, ui
  <2>4. ASSUME NEW l \in Lanes, LaneStep(l) PROVE open /\ open' = open
    BY <2>4 DEF LaneStep, TakeRequest, Park, Unpark, ReportExecuting, MeetConflict, EnterGate,
                LeaveGate, FinishRequest, WorkerStep, ui
  <2>5. CASE PumpExecuting \/ PumpForward
    BY <2>5 DEF PumpExecuting, PumpForward, ui
  <2>6. QED BY <1>7, <2>1, <2>2, <2>3, <2>4, <2>5 DEF SystemStep
<1>8. QED BY <1>2, <1>3, <1>4, <1>5, <1>6, <1>7 DEF Next

LEMMA ServiceInvInit == Init => ServiceInv
<1> SUFFICES ASSUME Init PROVE ServiceInv
  OBVIOUS
<1>1. LanesInv
  BY LanesInvInit
<1>2. \A l \in Lanes : inbox[l] = <<>> /\ worker[l].pc = "idle" /\ manager.queues[l] = <<>>
  BY DEF Init, NewManager, Idle
<1>3. DOMAIN events = {} /\ DOMAIN uiQueue = {}
  BY DEF Init
<1>4. InStep(manager, inbox, worker, events, uiQueue)
  <2>1. \A l \in Lanes : LaneInStep(manager, l, inbox, worker) /\ Unserved(l, inbox, worker)
    BY <1>2 DEF LaneInStep, Unserved
  <2>2. /\ AllServed(manager, events) /\ AllServed(manager, uiQueue)
        /\ LastOfIts(events) /\ LastOfIts(uiQueue) /\ LastBefore(uiQueue, events)
    BY <1>3 DEF AllServed, LastOfIts, LastBefore
  <2>3. QED BY <2>1, <2>2 DEF InStep
<1>5. InGoodOrder(manager, preparing, undo.running)
  <2>1. preparing = {} /\ manager.tasks = <<>> /\ undo.running = FALSE
    BY DEF Init, NewManager
  <2>2. DOMAIN manager.tasks = {}
    BY <2>1
  <2>3. OutOf(manager, preparing)
    BY <2>1 DEF OutOf
  <2>4. AllMarked(manager) /\ AllComplete(manager)
    BY <2>2 DEF AllMarked, AllComplete, Complete
  <2>5. UndoServed(manager, undo.running)
    BY <2>1 DEF UndoServed
  <2>6. QED BY <2>3, <2>4, <2>5 DEF InGoodOrder
<1>6. NoneIdle(manager, Lanes)
  BY <1>2 DEF NoneIdle
<1>7. UndoBounded
  BY LanesAssumption DEF Init, UndoBounded
<1>8. ClosedIsQuiet
  BY DEF Init, ClosedIsQuiet
<1>9. QED BY <1>1, <1>4, <1>5, <1>6, <1>7, <1>8 DEF ServiceInv, Serving

LEMMA ServiceInvStep == ServiceInv /\ [Next]_vars => ServiceInv'
<1> SUFFICES ASSUME ServiceInv, [Next]_vars PROVE ServiceInv'
  OBVIOUS
<1>1. LanesInv'
  BY LanesInvStep DEF ServiceInv
<1>2. ManagerConsistent'
  BY <1>1 DEF LanesInv
<1>3. CASE Next
  <2>1. ClosedIsQuiet'
    BY <1>3, ClosingIsQuiet
  <2>2. ASSUME UserStep PROVE Serving'
    <3>1. ASSUME \E pair \in Submittable : EnqueueOperation(pair[1], pair[2]) PROVE Serving'
      BY <1>2, <3>1, WorkActionsServe
    <3>2. ASSUME NEW id \in DOMAIN manager.tasks, CancelTask(id) \/ PauseOrResume(id) PROVE Serving'
      BY <1>2, <3>2, QuietActionsServe
    <3>3. ASSUME NEW id \in DOMAIN manager.tasks, RetryTask(id) PROVE Serving'
      BY <1>2, <3>3, RetryServes
    <3>4. ASSUME ResolveDialog \/ CloseLastWindow \/ WaitForTasks \/ CancelTasksAndExit PROVE Serving'
      BY <1>2, <3>4, QuietActionsServe
    <3>5. ASSUME EnqueueRename \/ RequestUndo PROVE Serving'
      BY <1>2, <3>5, RenameServes, UndoServes
    <3>6. QED BY <2>2, <3>1, <3>2, <3>3, <3>4, <3>5 DEF UserStep
  <2>3. ASSUME SystemStep PROVE Serving'
    <3>1. ASSUME \/ \E id \in preparing, lane \in {"Local", "Network"} : RenamePrepared(id, lane)
                 \/ \E count \in 0..MaxRecovered : RecoverCleanups(count)
          PROVE  Serving'
      BY <1>2, <3>1, WorkActionsServe
    <3>2. ASSUME \E expired \in SUBSET Receipts(manager) : PruneTasks(expired) PROVE Serving'
      BY <1>2, <3>2, QuietActionsServe
    <3>3. ASSUME NEW l \in Lanes, LaneStep(l) PROVE Serving'
      BY <3>3, LaneStepServes
    <3>4. ASSUME PumpExecuting \/ PumpForward PROVE Serving'
      BY <1>2, <3>4, PumpServes
    <3>5. ASSUME UiHandler PROVE Serving'
      BY <1>2, <3>5, ConflictServes, FinishedServes, CommittedServes DEF UiHandler
    <3>6. QED BY <2>3, <3>1, <3>2, <3>3, <3>4, <3>5 DEF SystemStep
  <2>4. QED BY <1>1, <1>3, <2>1, <2>2, <2>3 DEF Next, ServiceInv
<1>4. CASE UNCHANGED vars
  <2>1. /\ manager' = manager /\ preparing' = preparing /\ inbox' = inbox /\ worker' = worker
        /\ events' = events /\ uiQueue' = uiQueue /\ undo' = undo /\ open' = open
    BY <1>4 DEF vars
  <2>2. InStep(manager, inbox', worker', events', uiQueue')
    BY <2>1 DEF ServiceInv, Serving
  <2>3. Serving'
    BY <2>1, <2>2, ManagerUntouched
  <2>4. ClosedIsQuiet'
    BY <2>1 DEF ServiceInv, ClosedIsQuiet
  <2>5. QED BY <1>1, <2>3, <2>4 DEF ServiceInv
<1>5. QED BY <1>3, <1>4

LEMMA ServiceInvInductive == Spec => []ServiceInv
BY ServiceInvInit, ServiceInvStep, PTL DEF Spec

\* Whatever lane l's side of the system holds is the task in the slot, and a
\* lane whose slot is free holds nothing.
LEMMA HeldIsInSlot ==
  ASSUME ServiceInv, NEW l \in Lanes, NEW id \in HeldBy(l)
  PROVE  id = manager.active[l] /\ id # NoOp
<1>1. /\ ManagerInv(manager) /\ inbox \in [Lanes -> Seq(Request)] /\ worker \in [Lanes -> WorkerState]
      /\ LaneInStep(manager, l, inbox, worker)
      /\ AllServed(manager, events) /\ AllServed(manager, uiQueue)
  BY DEF ServiceInv, LanesInv, ManagerConsistent, TypeOK, Serving, InStep
<1>2. ~Unserved(l, inbox, worker) => manager.active[l] # NoOp
  BY <1>1, FreeLane
<1>3. CASE \E i \in DOMAIN inbox[l] : id = inbox[l][i].id
  <2>1. PICK i \in DOMAIN inbox[l] : id = inbox[l][i].id
    BY <1>3
  <2>2. inbox[l] \in Seq(Request) /\ DOMAIN inbox[l] = 1..Len(inbox[l]) /\ Len(inbox[l]) \in Nat
    BY <1>1, LenProperties
  <2>3. inbox[l] # <<>>
    BY <2>1, <2>2, EmptySeq
  <2>4. i = 1
    BY <1>1, <2>1, <2>2, <2>3 DEF LaneInStep
  <2>5. QED BY <1>1, <1>2, <2>1, <2>3, <2>4 DEF LaneInStep, Unserved
<1>4. CASE Busy(l) /\ id = worker[l].id
  BY <1>1, <1>2, <1>4 DEF LaneInStep, Unserved, Busy
<1>5. CASE id \in DOMAIN manager.tasks /\ manager.tasks[id].lane = l /\ CompletionPending(id)
  <2>1. Pending(events, uiQueue, id)
    BY <1>5 DEF CompletionPending, Unhandled, Undelivered, Pending, IsCompletion
  <2>2. HoldsSlot(manager, id)
    BY <1>1, <2>1, PendingHoldsSlot
  <2>3. QED BY <1>1, <1>5, <2>2, HolderTask
<1>6. QED BY <1>3, <1>4, <1>5 DEF HeldBy

\* Executing a task, carrying its request and carrying its completion exclude each
\* other, and every one of them is about the task in the slot in its current
\* round: no operation is executed twice, by a stale request, or beside another
\* one of its lane, for any number of tasks, rounds and conflicts.
THEOREM ExecutionHolds == Spec => []ExecutionHoldsSlot
<1>1. ASSUME ServiceInv PROVE ExecutionHoldsSlot
  <2> SUFFICES ASSUME NEW l \in Lanes
               PROVE  /\ HeldBy(l) \subseteq {manager.active[l]}
                      /\ Len(inbox[l]) <= 1
                      /\ inbox[l] # <<>> => /\ ~Busy(l) /\ ~CompletionPending(inbox[l][1].id)
                                            /\ manager.tasks[inbox[l][1].id].round = inbox[l][1].round
                      /\ Busy(l) => /\ ~CompletionPending(worker[l].id)
                                    /\ manager.tasks[worker[l].id].round = worker[l].round
    BY DEF ExecutionHoldsSlot
  <2>1. HeldBy(l) \subseteq {manager.active[l]}
    BY <1>1, HeldIsInSlot
  <2>2. /\ LaneInStep(manager, l, inbox, worker)
        /\ Unserved(l, inbox, worker) \/ ~Pending(events, uiQueue, manager.active[l])
        /\ inbox \in [Lanes -> Seq(Request)]
    BY <1>1 DEF ServiceInv, LanesInv, TypeOK, Serving, InStep
  <2>3. Len(inbox[l]) <= 1
    <3>1. inbox[l] = <<>> => Len(inbox[l]) = 0
      BY EmptySeq
    <3>2. inbox[l] # <<>> => Len(inbox[l]) = 1
      BY <2>2 DEF LaneInStep
    <3>3. Len(inbox[l]) = 0 \/ Len(inbox[l]) = 1
      BY <3>1, <3>2
    <3> DEFINE len == Len(inbox[l])
    <3>4. len = 0 \/ len = 1
      BY <3>3
    <3> HIDE DEF len
    <3>5. len <= 1
      BY <3>4
    <3>6. QED BY <3>5 DEF len
  <2>4. \A id : CompletionPending(id) => Pending(events, uiQueue, id)
    BY DEF CompletionPending, Unhandled, Undelivered, Pending, IsCompletion
  <2>5. QED BY <2>1, <2>2, <2>3, <2>4 DEF LaneInStep, Unserved, Busy
<1>2. QED BY <1>1, ServiceInvInductive, PTL

\* A lane is never idle while an operation waits in its queue: start_next runs
\* wherever a slot is freed or a queue grows.
THEOREM NoIdleLane == Spec => []NoIdleLaneWithWork
<1>1. ASSUME ServiceInv PROVE NoIdleLaneWithWork
  BY <1>1 DEF ServiceInv, Serving, NoneIdle, NoIdleLaneWithWork
<1>2. QED BY <1>1, ServiceInvInductive, PTL

\* The undo history never outgrows its limit, the entry that a failed undo gives
\* back included.
THEOREM HistoryStaysBounded == Spec => []UndoBounded
<1>1. ServiceInv => UndoBounded
  BY DEF ServiceInv, Serving
<1>2. QED BY <1>1, ServiceInvInductive, PTL

\* However the application is left, no user operation is then on its way to the
\* disk, being executed, or finished without its task knowing.
THEOREM QuitsWhenQuiet == Spec => []QuitWhenQuiet
<1>1. ASSUME ServiceInv PROVE QuitWhenQuiet
  <2> SUFFICES ASSUME ~open, NEW l \in {"Local", "Network"}, NEW id \in HeldBy(l) PROVE FALSE
    BY DEF QuitWhenQuiet
  <2>1. l \in Lanes /\ l # "Cleanup"
    BY DEF Lanes
  <2>2. id = manager.active[l] /\ id # NoOp
    BY <1>1, <2>1, HeldIsInSlot
  <2>3. /\ id \in DOMAIN manager.tasks /\ manager.tasks[id].lane = l
        /\ manager.tasks[id].state \in InProgress
    BY <1>1, <2>1, <2>2, SlotTask DEF ServiceInv, LanesInv, ManagerConsistent
  <2>4. HasForegroundActiveTasks(manager)
    BY <2>1, <2>3 DEF HasForegroundActiveTasks, IsActive, InProgress, Terminal
  <2>5. QED BY <1>1, <2>4 DEF ServiceInv, ClosedIsQuiet
<1>2. QED BY <1>1, ServiceInvInductive, PTL

\* A task shown as completed has no item left to do, but for a local recycle batch,
\* and that one only if the Shell may abort batches: it is the batches alone whose
\* left-over items neither fail nor come from a cancellation.
THEOREM CompletedStaysComplete == Spec => []CompletedUnlessAborted
<1>1. ASSUME ServiceInv PROVE CompletedUnlessAborted
  BY <1>1 DEF ServiceInv, Serving, InGoodOrder, AllComplete, Complete, MayBeAborted,
              CompletedUnlessAborted
<1>2. QED BY <1>1, ServiceInvInductive, PTL

-----------------------------------------------------------------------------
(* Action properties.                                                       *)

\* Every step but a completion and a retry lets the manager continue.
LEMMA StepContinues ==
  ASSUME ServiceInv, Next, ~HandleFinished, ~HandleCommitted,
         ~\E id \in DOMAIN manager.tasks : RetryTask(id)
  PROVE  \A id \in DOMAIN manager.tasks \cap DOMAIN manager'.tasks :
           Onward(manager.tasks[id], manager'.tasks[id])
<1>1. /\ ManagerInv(manager)
      /\ \A id \in DOMAIN manager.tasks : manager.tasks[id] \in Task
  BY DEF ServiceInv, LanesInv, ManagerConsistent, ManagerInv, ManagerType
<1>2. SUFFICES \E entering, growing : Continues(manager, manager', entering, growing)
  BY DEF Continues, TasksGoOn
<1>3. ASSUME manager' = manager PROVE Continues(manager, manager', {}, {})
  BY <1>1, <1>3, SameContinues
<1>4. ASSUME NEW m, ManagerInv(m), NEW entering, NEW growing, Continues(manager, m, entering, growing),
             NEW lane \in Lanes, manager' = StartAndMark(m, lane)
      PROVE  \E e, g : Continues(manager, manager', e, g)
  <2>1. Continues(m, manager', {}, {}) /\ ManagerInv(manager')
    BY <1>4, StartAndMarkContinues, StartAndMarkKeeps
  <2>2. Continues(manager, manager', entering \cup {}, growing \cup {})
    BY <1>1, <1>4, <2>1, ContinuesTwice
  <2>3. QED BY <2>2
<1>5. ASSUME NEW pair \in Submittable, EnqueueOperation(pair[1], pair[2])
      PROVE  \E e, g : Continues(manager, manager', e, g)
  <2> DEFINE m == Submit(manager, pair[1], pair[2], FALSE)
  <2>1. pair[1] \in Kinds /\ pair[2] \in Lanes
    BY LanesAssumption DEF Kinds, Lanes
  <2>2. ManagerInv(m) /\ Continues(manager, m, {}, {pair[2]}) /\ manager' = StartAndMark(m, pair[2])
    BY <1>1, <1>5, <2>1, SubmitKeeps, SubmitContinues DEF EnqueueOperation
  <2> HIDE DEF m
  <2>3. QED BY <1>4, <2>1, <2>2
<1>6. CASE EnqueueRename
  BY <1>1, <1>6, SubmitPreparingContinues DEF EnqueueRename
<1>7. CASE RequestUndo
  <2> DEFINE m == Submit(manager, "Undo", "Local", FALSE)
             s == StartNext(m, "Local")
             n == MarkRunning(s, s.active["Local"])
  <2>1. "Local" \in Lanes /\ "Undo" \in Kinds
    BY DEF Lanes, Kinds
  <2>2. ManagerInv(m) /\ Continues(manager, m, {}, {"Local"}) /\ m.active = manager.active
    <3>1. ManagerInv(m) /\ Continues(manager, m, {}, {"Local"})
      BY <1>1, <2>1, SubmitKeeps, SubmitContinues
    <3>2. m.active = manager.active
      BY <1>1 DEF Submit, ManagerInv, ManagerType
    <3>3. QED BY <3>1, <3>2
  <2>3. /\ CanLaunch(m, "Local") /\ m.queues["Local"][1] = manager.next /\ manager.active["Local"] = NoOp
    BY <1>7, UndoStarted
  <2>4. ManagerInv(s) /\ Continues(m, s, {}, {}) /\ Launches(m, s, "Local")
    BY <2>1, <2>2, <2>3, StartNextKeeps, StartNextContinues, StartNextEffect
  <2>5. s.active["Local"] # NoOp
    BY <1>1, <2>1, <2>2, <2>3, <2>4, NoOpAssumption DEF Launches, ManagerInv, ManagerType
  <2>6. manager' = n
    BY <1>7, <2>2, <2>3, <2>5 DEF RequestUndo, Started
  <2> HIDE DEF m, s
  <2>7. ManagerInv(n) /\ Continues(s, n, {}, {})
    BY <2>4, MarkRunningKeeps, MarkRunningContinues
  <2> HIDE DEF n
  <2>8. Continues(m, n, {} \cup {}, {} \cup {})
    BY <2>2, <2>4, <2>7, ContinuesTwice
  <2>9. \E e, g : Continues(manager, n, e, g)
    <3> DEFINE none == {} \cup {}
    <3>1. Continues(m, n, none, none)
      BY <2>8
    <3> HIDE DEF none
    <3>2. Continues(manager, n, {} \cup none, {"Local"} \cup none)
      BY <1>1, <2>2, <2>7, <3>1, ContinuesTwice
    <3>3. QED BY <3>2
  <2>10. QED BY <2>6, <2>9
<1>7a. ASSUME NEW id \in DOMAIN manager.tasks, CancelTask(id)
       PROVE  \E e, g : Continues(manager, manager', e, g)
  BY <1>1, <1>7a, CancelContinues DEF CancelTask
<1>8. ASSUME NEW id \in DOMAIN manager.tasks, PauseOrResume(id)
      PROVE  \E e, g : Continues(manager, manager', e, g)
  <2> DEFINE task == SetPaused(manager.tasks[id], manager.tasks[id].state = "Running")
  <2>1. manager' = Update(manager, id, task)
    BY <1>8 DEF PauseOrResume
  <2>2. Onward(manager.tasks[id], task)
    BY <1>1, OnwardSteps
  <2> HIDE DEF task
  <2>3. QED BY <1>1, <2>1, <2>2, UpdateContinues
<1>9. CASE ResolveDialog
  <2> DEFINE task == ResolveConflict(manager.tasks[dialog])
  <2>1. manager' = IF Present(manager, dialog) THEN Update(manager, dialog, task) ELSE manager
    BY <1>9 DEF ResolveDialog
  <2>2. Present(manager, dialog) => Onward(manager.tasks[dialog], task)
    BY <1>1, OnwardSteps DEF Present
  <2> HIDE DEF task
  <2>3. QED BY <1>1, <1>3, <2>1, <2>2, UpdateContinues
<1>10. CASE CancelTasksAndExit
  BY <1>1, <1>10, AllCancelledContinues DEF CancelTasksAndExit
<1>11. ASSUME NEW id \in preparing, NEW lane \in {"Local", "Network"}, RenamePrepared(id, lane)
       PROVE  \E e, g : Continues(manager, manager', e, g)
  <2>1. CASE PreparationAccepted(manager, id)
    <3> DEFINE m == CompletePreparation(manager, id, lane)
    <3>1. lane \in Lanes /\ manager' = StartAndMark(m, lane)
      BY <1>11, <2>1 DEF RenamePrepared, Lanes
    <3>2. ManagerInv(m) /\ Continues(manager, m, {id}, {lane})
      BY <1>1, <2>1, <3>1, CompletePreparationKeeps, CompletePreparationContinues
    <3> HIDE DEF m
    <3>3. QED BY <1>4, <3>1, <3>2
  <2>2. CASE ~PreparationAccepted(manager, id)
    BY <1>3, <1>11, <2>2 DEF RenamePrepared
  <2>3. QED BY <2>1, <2>2
<1>12. ASSUME NEW count \in 0..MaxRecovered, RecoverCleanups(count)
       PROVE  \E e, g : Continues(manager, manager', e, g)
  <2> DEFINE m == SubmitRecovered(manager, count)
  <2>1. count \in Nat /\ "Cleanup" \in Lanes /\ manager' = StartAndMark(m, "Cleanup")
    BY <1>12, LanesAssumption DEF RecoverCleanups, Lanes
  <2>2. ManagerInv(m) /\ Continues(manager, m, {}, {"Cleanup"})
    BY <1>1, <2>1, SubmitRecoveredKeeps, SubmitRecoveredContinues
  <2> HIDE DEF m
  <2>3. QED BY <1>4, <2>1, <2>2
<1>13. ASSUME NEW expired, PruneTasks(expired)
       PROVE  \E e, g : Continues(manager, manager', e, g)
  BY <1>1, <1>13, PruneContinues DEF PruneTasks
<1>14. ASSUME NEW l \in Lanes, LaneStep(l) PROVE manager' = manager
  BY <1>14 DEF LaneStep, TakeRequest, Park, Unpark, ReportExecuting, MeetConflict, EnterGate,
               LeaveGate, FinishRequest, WorkerStep
<1>15. CASE PumpExecuting
  <2>1. manager' = manager \/ manager' = MarkRunning(manager, Head(events).id)
    BY <1>15 DEF PumpExecuting
  <2>2. QED BY <1>1, <1>3, <2>1, MarkRunningContinues
<1>16. CASE HandleConflict
  <2> DEFINE id == Head(uiQueue).id
             task == SetConflict(manager.tasks[id])
  <2>1. manager' = IF Present(manager, id) THEN Update(manager, id, task) ELSE manager
    BY <1>16 DEF HandleConflict
  <2>2. Present(manager, id) => Onward(manager.tasks[id], task)
    BY <1>1, OnwardSteps DEF Present
  <2> HIDE DEF id, task
  <2>3. QED BY <1>1, <1>3, <2>1, <2>2, UpdateContinues
<1>17. CASE CloseLastWindow \/ WaitForTasks \/ PumpForward
  BY <1>3, <1>17 DEF CloseLastWindow, WaitForTasks, PumpForward
<1>18. CASE UserStep
  BY <1>5, <1>6, <1>7, <1>7a, <1>8, <1>9, <1>10, <1>17, <1>18 DEF UserStep
<1>19. CASE SystemStep
  BY <1>3, <1>11, <1>12, <1>13, <1>14, <1>15, <1>16, <1>17, <1>19 DEF SystemStep, UiHandler
<1>20. QED BY <1>18, <1>19 DEF Next

\* The operation of a settled task stays settled, unless a new round was opened.
StaysSettled(old, new) ==
  old.state \in Terminal => new.state = old.state \/ new.round = old.round + 1

\* A completion settles a task that was in progress, and the retry opens a round.
LEMMA StepKeepsSettled ==
  ASSUME ServiceInv, Next, NEW id \in DOMAIN manager.tasks \cap DOMAIN manager'.tasks
  PROVE  StaysSettled(manager.tasks[id], manager'.tasks[id])
<1>1. /\ ManagerInv(manager) /\ uiQueue \in Seq(Event)
      /\ \A x \in DOMAIN manager.tasks : manager.tasks[x] \in Task
  BY DEF ServiceInv, LanesInv, ManagerConsistent, ManagerInv, ManagerType, TypeOK
<1>2. \A old, new : Onward(old, new) => StaysSettled(old, new)
  BY DEF Onward, StaysSettled
\* What happens to a task between its settling and the start of the next one.
<1>3. ASSUME NEW m, ManagerInv(m), NEW lane \in Lanes, DOMAIN m.tasks = DOMAIN manager.tasks,
             StaysSettled(manager.tasks[id], m.tasks[id]),
             manager.tasks[id].state \in Terminal => m.tasks[id] = manager.tasks[id]
                                                     \/ m.tasks[id].round = manager.tasks[id].round + 1,
             NEW n, NEW entering, NEW growing, Continues(m, n, entering, growing),
             manager' = n
      PROVE  StaysSettled(manager.tasks[id], manager'.tasks[id])
  <2>1. Onward(m.tasks[id], n.tasks[id])
    BY <1>3 DEF Continues, TasksGoOn
  <2>2. QED BY <1>3, <2>1 DEF Onward, StaysSettled
<1>4. ASSUME NEW x \in DOMAIN manager.tasks, RetryTask(x)
      PROVE  StaysSettled(manager.tasks[id], manager'.tasks[id])
  <2> DEFINE m == Retry(manager, x)
             lane == manager.tasks[x].lane
             task == PrepareRetry(manager.tasks[x])
  <2>1. RetryAccepted(manager, x) /\ manager' = StartAndMark(m, lane)
    BY <1>4 DEF RetryTask
  <2>2. /\ lane \in Lanes /\ manager.tasks[x] \in Task
        /\ m.tasks = [manager.tasks EXCEPT ![x] = task]
    BY ZenonT(60), <1>1, <2>1, RetryEffect
  <2>3. task.round = manager.tasks[x].round + 1
    BY <2>2, PrepareRetryFresh
  <2>4. ManagerInv(m)
    BY <1>1, <2>1, RetryKeeps
  <2>5. Continues(m, manager', {}, {})
    BY <2>1, <2>2, <2>4, StartAndMarkContinues
  <2> HIDE DEF m, lane, task
  <2>6. /\ DOMAIN m.tasks = DOMAIN manager.tasks
        /\ m.tasks[id] = manager.tasks[id] \/ m.tasks[id].round = manager.tasks[id].round + 1
    BY <2>2, <2>3
  <2>7. StaysSettled(manager.tasks[id], m.tasks[id])
    BY <2>6 DEF StaysSettled
  <2>8. QED BY <1>3, <2>2, <2>4, <2>5, <2>6, <2>7
<1>5. ASSUME HandleFinished \/ HandleCommitted
      PROVE  StaysSettled(manager.tasks[id], manager'.tasks[id])
  <2> DEFINE e == Head(uiQueue)
             m == Settled(WithItemStates(manager, e), e)
  <2>1. uiQueue # <<>> /\ IsCompletion(e)
    BY <1>5 DEF HandleFinished, HandleCommitted, IsCompletion
  <2>2. /\ Served(manager, e) /\ ManagerInv(m) /\ SettlesTask(manager, m, e)
    BY <2>1, HandledCompletion
  <2>3. /\ Present(manager, e.id) /\ manager.tasks[e.id].lane \in Lanes
        /\ manager.tasks[e.id].state \in InProgress
    BY <1>1, <2>2, HolderTask DEF Served, Present
  <2>4. \E n, entering, growing : Continues(m, n, entering, growing) /\ manager' = n
    <3>1. CASE HandleFinished
      <4>1. manager' = StartAndMark(m, manager.tasks[e.id].lane)
        BY <2>3, <3>1 DEF HandleFinished, LaneOf
      <4> HIDE DEF m
      <4>2. QED BY <2>2, <2>3, <4>1, StartAndMarkContinues
    <3>2. CASE HandleCommitted
      <4> DEFINE c == IF e.cleanup THEN Submit(m, "PermanentDelete", "Cleanup", FALSE) ELSE m
                 s == StartAndMark(c, "Cleanup")
                 n == StartAndMark(s, "Local")
      <4>1. manager' = n
        BY <3>2 DEF HandleCommitted
      <4> HIDE DEF m
      <4>2. "Local" \in Lanes /\ "Cleanup" \in Lanes /\ "PermanentDelete" \in Kinds
        BY DEF Lanes, Kinds
      <4>3. ManagerInv(c) /\ \E g : Continues(m, c, {}, g)
        <5>1. CASE e.cleanup
          BY <2>2, <4>2, <5>1, SubmitKeeps, SubmitContinues
        <5>2. CASE ~e.cleanup
          BY <2>2, <5>2, SameContinues
        <5>3. QED BY <5>1, <5>2
      <4> HIDE DEF c
      <4>4. PICK g : Continues(m, c, {}, g)
        BY <4>3
      <4>5. ManagerInv(s) /\ Continues(c, s, {}, {})
        BY <4>2, <4>3, StartAndMarkKeeps, StartAndMarkContinues
      <4> HIDE DEF s
      <4>6. ManagerInv(n) /\ Continues(s, n, {}, {})
        BY <4>2, <4>5, StartAndMarkKeeps, StartAndMarkContinues
      <4> HIDE DEF n
      <4> DEFINE none == {} \cup {}
                 g2 == g \cup {}
      <4>7. Continues(m, s, none, g2)
        BY <2>2, <4>3, <4>4, <4>5, ContinuesTwice
      <4> HIDE DEF none, g2
      <4>8. Continues(m, n, none \cup {}, g2 \cup {})
        BY <2>2, <4>5, <4>6, <4>7, ContinuesTwice
      <4>9. QED BY <4>1, <4>8
    <3>3. QED BY <1>5, <3>1, <3>2
  <2>5. PICK n, entering, growing : Continues(m, n, entering, growing) /\ manager' = n
    BY <2>4
  <2> HIDE DEF m, e
  <2>6. /\ DOMAIN m.tasks = DOMAIN manager.tasks
        /\ manager.tasks[id].state \in Terminal => m.tasks[id] = manager.tasks[id]
    BY <2>2, <2>3 DEF SettlesTask, Terminal, InProgress
  <2>7. StaysSettled(manager.tasks[id], m.tasks[id])
    BY <2>6 DEF StaysSettled
  <2>8. QED BY <1>3, <2>2, <2>3, <2>5, <2>6, <2>7
<1>6. CASE ~HandleFinished /\ ~HandleCommitted /\ ~\E x \in DOMAIN manager.tasks : RetryTask(x)
  BY <1>2, <1>6, StepContinues
<1>7. QED BY <1>4, <1>5, <1>6

\* A settled task stays as it settled until a retry opens a new round, whatever
\* cancellations, late progress and other completions arrive in between.
THEOREM SettledTasksStay == Spec => SettledUntilRetried
<1>1. ASSUME ServiceInv, [Next]_vars
      PROVE  [\A id \in DOMAIN manager.tasks \cap DOMAIN manager'.tasks :
                /\ manager.tasks[id].state \in Terminal
                /\ manager'.tasks[id].state # manager.tasks[id].state
                => manager'.tasks[id].round = manager.tasks[id].round + 1]_vars
  <2>1. CASE UNCHANGED vars
    BY <2>1
  <2>2. CASE Next
    BY <1>1, <2>2, StepKeepsSettled DEF StaysSettled
  <2>3. QED BY <1>1, <2>1, <2>2
<1>2. QED BY <1>1, ServiceInvInductive, PTL DEF Spec, SettledUntilRetried

\* A rename cancelled while it is prepared never enters a queue or a slot: it
\* stays out while it is prepared, and the preparation's result is refused.
THEOREM CancelledRenamesStayOut == Spec => CancelledPreparationStaysOut
<1>1. ASSUME ServiceInv, ServiceInv', Next, NEW id \in preparing, manager.tasks[id].cancelled
      PROVE  ~InSomeQueue(manager', id) /\ ~HoldsSlot(manager', id)
  <2>1. ManagerInv(manager) /\ ManagerInv(manager')
    BY <1>1 DEF ServiceInv, LanesInv, ManagerConsistent
  <2>2. OutOf(manager, preparing) /\ AllMarked(manager)
    BY <1>1 DEF ServiceInv, Serving, InGoodOrder
  <2>3. OutOf(manager, preparing)'
    BY <1>1 DEF ServiceInv, Serving, InGoodOrder
  <2>4. ASSUME NEW m, ManagerInv(m), NEW ids, id \in ids, OutOf(m, ids)
        PROVE  ~InSomeQueue(m, id) /\ ~HoldsSlot(m, id)
    <3>1. HoldsSlot(m, id) => id \in DOMAIN m.tasks /\ m.tasks[id].state \in InProgress
      BY <2>4, HolderTask
    <3>2. QED BY <2>4, <3>1 DEF OutOf, Present, InProgress
  <2>5. CASE id \in preparing'
    BY <2>1, <2>3, <2>4, <2>5
  <2>6. CASE id \notin preparing'
    <3>1. PICK lane : RenamePrepared(id, lane)
      <4>1. CASE UserStep
        <5>1. ASSUME NEW pair, EnqueueOperation(pair[1], pair[2]) PROVE preparing' = preparing
          BY <5>1 DEF EnqueueOperation
        <5>2. CASE EnqueueRename
          BY <2>6, <5>2 DEF EnqueueRename
        <5>3. ASSUME NEW x \in DOMAIN manager.tasks, CancelTask(x) \/ PauseOrResume(x) \/ RetryTask(x)
              PROVE  preparing' = preparing
          BY <5>3 DEF CancelTask, PauseOrResume, RetryTask
        <5>4. CASE RequestUndo \/ ResolveDialog \/ CloseLastWindow \/ WaitForTasks \/ CancelTasksAndExit
          BY <2>6, <5>4
             DEF RequestUndo, ResolveDialog, CloseLastWindow, WaitForTasks, CancelTasksAndExit
        <5>5. QED BY <2>6, <4>1, <5>1, <5>2, <5>3, <5>4 DEF UserStep
      <4>2. CASE SystemStep
        <5>1. ASSUME NEW x \in preparing, NEW lane, RenamePrepared(x, lane)
              PROVE  \E l : RenamePrepared(id, l)
          BY <2>6, <5>1 DEF RenamePrepared
        <5>2. ASSUME NEW count, RecoverCleanups(count) PROVE preparing' = preparing
          BY <5>2 DEF RecoverCleanups
        <5>3. ASSUME NEW expired, PruneTasks(expired) PROVE preparing' = preparing
          BY <5>3 DEF PruneTasks
        <5>4. ASSUME NEW l \in Lanes, LaneStep(l) PROVE preparing' = preparing
          BY <5>4 DEF LaneStep, TakeRequest, Park, Unpark, ReportExecuting, MeetConflict, EnterGate,
                      LeaveGate, FinishRequest, WorkerStep
        <5>5. ASSUME PumpExecuting \/ PumpForward \/ UiHandler PROVE preparing' = preparing
          BY <5>5 DEF PumpExecuting, PumpForward, UiHandler, HandleConflict, HandleFinished,
                      HandleCommitted, HandlerTail
        <5>6. QED BY <2>6, <4>2, <5>1, <5>2, <5>3, <5>4, <5>5 DEF SystemStep
      <4>3. QED BY <1>1, <4>1, <4>2 DEF Next
    <3>2. ~PreparationAccepted(manager, id)
      BY <1>1 DEF PreparationAccepted
    <3>3. manager' = manager
      BY <3>1, <3>2 DEF RenamePrepared
    <3>4. QED BY <2>1, <2>2, <2>4, <3>3
  <2>7. QED BY <2>5, <2>6
<1>2. ASSUME ServiceInv, ServiceInv', [Next]_vars
      PROVE  [\A id \in preparing :
                manager.tasks[id].cancelled => ~InSomeQueue(manager', id) /\ ~HoldsSlot(manager', id)]_vars
  BY <1>1, <1>2
<1>3. QED BY <1>2, ServiceInvInductive, PTL DEF Spec, CancelledPreparationStaysOut

-----------------------------------------------------------------------------
(* Every slot is accounted for.                                             *)

\* The task in the slot of lane l.
Holder(m, l) == m.tasks[m.active[l]]

Asking(l, wk, rp) == wk[l].pc = "waiting" /\ ~rp[l]

Reports(ev, id) == \E i \in DOMAIN ev : ev[i].type = "Executing" /\ ev[i].id = id

\* Nobody pauses a task.
NoPause == "pause" \notin UserActions

\* What is in a slot may end: only a batch has not begun and, if nobody pauses,
\* nothing is paused and an undo is the one the history lent its entry to.
MayEnd(task, running) ==
  /\ task.state = "Preflight" => UsesLocalRecycleBatch(task)
  /\ NoPause => task.state # "Paused" /\ (task.kind = "Undo" => running)

\* A task waits for a decision exactly as long as its worker does.
AnswerDue(task, id, l, wk, rp, rs) ==
  /\ task.state = "WaitingConflict" => task.conflict /\ Asking(l, wk, rp) /\ id \in rs
  /\ id \in rs => task.kind = "Copy" /\ (task.cancelled \/ Asking(l, wk, rp))
  /\ wk[l].pc \in {"gate", "waiting"} => task.kind = "Copy"

\* The task in a slot is on its way, executed, or done with the news pending, unless
\* the news came while it was paused.
OnItsWay(task, id, l, ib, wk, ev, uq) ==
  /\ NoPause /\ Unserved(l, ib, wk) => Pending(ev, uq, id)
  /\ wk[l].pc # "idle" /\ wk[l].executing /\ task.state = "Preflight" => Reports(ev, id)

SlotsAccounted(m, ib, wk, rp, ev, uq, rs, running) ==
  \A l \in Lanes : m.active[l] # NoOp =>
    /\ MayEnd(Holder(m, l), running)
    /\ AnswerDue(Holder(m, l), m.active[l], l, wk, rp, rs)
    /\ OnItsWay(Holder(m, l), m.active[l], l, ib, wk, ev, uq)

\* A conflict nobody has cancelled is news to the UI thread.
FreshConflict(m, e, wk, rp, rs) ==
  /\ m.tasks[e.id].kind = "Copy"
  /\ ~m.tasks[e.id].cancelled => Asking(m.tasks[e.id].lane, wk, rp) /\ e.id \notin rs

Truthful(m, e, wk, rp, rs) ==
  /\ e.type = "Conflict" => FreshConflict(m, e, wk, rp, rs)
  /\ IsCompletion(e) /\ e.outcome.retained => e.outcome.succeeded

AllTruthful(m, queue, wk, rp, rs) == \A i \in DOMAIN queue : Truthful(m, queue[i], wk, rp, rs)

\* Two conflicts of one task.
Twice(m, d, e) == d.type = "Conflict" /\ e.type = "Conflict" /\ d.id = e.id /\ ~m.tasks[e.id].cancelled

OneConflict(m, ev, uq) ==
  /\ \A i, j \in DOMAIN ev : Twice(m, ev[i], ev[j]) => i = j
  /\ \A i, j \in DOMAIN uq : Twice(m, uq[i], uq[j]) => i = j
  /\ \A i \in DOMAIN uq, j \in DOMAIN ev : ~Twice(m, uq[i], ev[j])

Succeeded(e) == IsCompletion(e) /\ e.outcome.succeeded

\* A batch that removed something is known to have begun before it is known to
\* have ended.
BegunBeforeEnded(m, ev, uq) ==
  /\ \A i \in DOMAIN ev : Succeeded(ev[i]) /\ m.tasks[ev[i].id].state = "Preflight" =>
       \E j \in DOMAIN ev : j < i /\ ev[j].type = "Executing" /\ ev[j].id = ev[i].id
  /\ \A i \in DOMAIN uq : Succeeded(uq[i]) => m.tasks[uq[i].id].state # "Preflight"

\* The events tell the truth.
News(m, wk, rp, ev, uq, rs) ==
  /\ AllTruthful(m, ev, wk, rp, rs)
  /\ AllTruthful(m, uq, wk, rp, rs)
  /\ OneConflict(m, ev, uq)
  /\ BegunBeforeEnded(m, ev, uq)

Accounts(m, ib, wk, rp, ev, uq, rs, running) ==
  /\ SlotsAccounted(m, ib, wk, rp, ev, uq, rs, running)
  /\ News(m, wk, rp, ev, uq, rs)
  /\ \A id \in rs : HoldsSlot(m, id)

\* A conflict of id is still to be shown.
Told(ev, uq, id) ==
  \/ \E i \in DOMAIN ev : ev[i].type = "Conflict" /\ ev[i].id = id
  \/ \E i \in DOMAIN uq : uq[i].type = "Conflict" /\ uq[i].id = id

-----------------------------------------------------------------------------
(* The events.                                                              *)

\* A task may change without making an event about it untrue.
StaysTrue(old, new) ==
  /\ new.kind = old.kind /\ new.lane = old.lane
  /\ old.cancelled => new.cancelled
  /\ new.state = "Preflight" => old.state = "Preflight"

\* As long as the events are the same, they stay true of tasks that change so, if
\* a worker goes on waiting for the answer to a conflict that is still to be shown.
LEMMA NewsStay ==
  ASSUME NEW m, NEW n, NEW ev, NEW uq, AllServed(m, ev), AllServed(m, uq),
         NEW wk, NEW rp, NEW rs, NEW wk2, NEW rp2, NEW rs2, News(m, wk, rp, ev, uq, rs),
         \A id : HoldsSlot(m, id) =>
           /\ StaysTrue(m.tasks[id], n.tasks[id])
           /\ /\ Told(ev, uq, id) /\ ~n.tasks[id].cancelled
              /\ Asking(m.tasks[id].lane, wk, rp) /\ id \notin rs
              => Asking(m.tasks[id].lane, wk2, rp2) /\ id \notin rs2
  PROVE  News(n, wk2, rp2, ev, uq, rs2)
<1>1. ASSUME NEW e, HoldsSlot(m, e.id), Truthful(m, e, wk, rp, rs),
             e.type = "Conflict" => Told(ev, uq, e.id)
      PROVE  Truthful(n, e, wk2, rp2, rs2)
  <2>1. StaysTrue(m.tasks[e.id], n.tasks[e.id])
    BY <1>1
  <2>2. ASSUME e.type = "Conflict" PROVE FreshConflict(n, e, wk2, rp2, rs2)
    <3>1. FreshConflict(m, e, wk, rp, rs) /\ Told(ev, uq, e.id)
      BY <1>1, <2>2 DEF Truthful
    <3>2. ASSUME ~n.tasks[e.id].cancelled PROVE Asking(n.tasks[e.id].lane, wk2, rp2) /\ e.id \notin rs2
      BY <1>1, <2>1, <3>1, <3>2 DEF FreshConflict, StaysTrue
    <3>3. QED BY <2>1, <3>1, <3>2 DEF FreshConflict, StaysTrue
  <2>3. QED BY <1>1, <2>2 DEF Truthful
<1>2. AllTruthful(n, ev, wk2, rp2, rs2)
  <2> SUFFICES ASSUME NEW i \in DOMAIN ev PROVE Truthful(n, ev[i], wk2, rp2, rs2)
    BY DEF AllTruthful
  <2>1. HoldsSlot(m, ev[i].id) /\ Truthful(m, ev[i], wk, rp, rs)
    BY DEF AllServed, Served, News, AllTruthful
  <2>2. ev[i].type = "Conflict" => Told(ev, uq, ev[i].id)
    BY DEF Told
  <2>3. QED BY <1>1, <2>1, <2>2
<1>3. AllTruthful(n, uq, wk2, rp2, rs2)
  <2> SUFFICES ASSUME NEW i \in DOMAIN uq PROVE Truthful(n, uq[i], wk2, rp2, rs2)
    BY DEF AllTruthful
  <2>1. HoldsSlot(m, uq[i].id) /\ Truthful(m, uq[i], wk, rp, rs)
    BY DEF AllServed, Served, News, AllTruthful
  <2>2. uq[i].type = "Conflict" => Told(ev, uq, uq[i].id)
    BY DEF Told
  <2>3. QED BY <1>1, <2>1, <2>2
<1>4. OneConflict(n, ev, uq)
  <2>1. ASSUME NEW d, NEW e, HoldsSlot(m, e.id), Twice(n, d, e) PROVE Twice(m, d, e)
    BY <2>1 DEF Twice, StaysTrue
  <2>2. \A i \in DOMAIN ev : HoldsSlot(m, ev[i].id)
    BY DEF AllServed, Served
  <2>3. \A i \in DOMAIN uq : HoldsSlot(m, uq[i].id)
    BY DEF AllServed, Served
  <2>4. OneConflict(m, ev, uq)
    BY DEF News
  <2>5. QED BY <2>1, <2>2, <2>3, <2>4 DEF OneConflict
<1>5. BegunBeforeEnded(n, ev, uq)
  <2>1. \A i \in DOMAIN ev : n.tasks[ev[i].id].state = "Preflight" => m.tasks[ev[i].id].state = "Preflight"
    BY DEF AllServed, Served, StaysTrue
  <2>2. \A i \in DOMAIN uq : n.tasks[uq[i].id].state = "Preflight" => m.tasks[uq[i].id].state = "Preflight"
    BY DEF AllServed, Served, StaysTrue
  <2>3. BegunBeforeEnded(m, ev, uq)
    BY DEF News
  <2>4. QED BY <2>1, <2>2, <2>3 DEF BegunBeforeEnded
<1>6. QED BY <1>2, <1>3, <1>4, <1>5 DEF News

\* What a worker says is added to what is known.
LEMMA NoteAccounted ==
  ASSUME NEW m, NEW ib, NEW wk, NEW rp, NEW ev \in Seq(Event), NEW uq, NEW rs, NEW running,
         Accounts(m, ib, wk, rp, ev, uq, rs, running),
         NEW e, Truthful(m, e, wk, rp, rs),
         e.type = "Conflict" /\ ~m.tasks[e.id].cancelled => ~Told(ev, uq, e.id),
         Succeeded(e) /\ m.tasks[e.id].state = "Preflight" => Reports(ev, e.id)
  PROVE  Accounts(m, ib, wk, rp, Append(ev, e), uq, rs, running)
<1> DEFINE ev2 == Append(ev, e)
           last == Len(ev) + 1
<1>1. /\ DOMAIN ev2 = DOMAIN ev \cup {last} /\ ev2[last] = e
      /\ \A i \in DOMAIN ev : i \in Nat /\ i < last /\ ev2[i] = ev[i]
  BY AppendedAt
<1> HIDE DEF ev2, last
<1>2. \A id : (Pending(ev, uq, id) => Pending(ev2, uq, id)) /\ (Reports(ev, id) => Reports(ev2, id))
  BY <1>1 DEF Pending, Reports
<1>3. SlotsAccounted(m, ib, wk, rp, ev2, uq, rs, running)
  BY <1>2 DEF Accounts, SlotsAccounted, OnItsWay
<1>4. AllTruthful(m, ev2, wk, rp, rs)
  BY <1>1 DEF Accounts, News, AllTruthful
<1>5. OneConflict(m, ev2, uq)
  <2>1. ASSUME NEW d, Twice(m, d, e) \/ Twice(m, e, d),
               (\E i \in DOMAIN ev : ev[i] = d) \/ (\E i \in DOMAIN uq : uq[i] = d)
        PROVE  FALSE
    BY <2>1 DEF Twice, Told
  <2>2. OneConflict(m, ev, uq)
    BY DEF Accounts, News
  <2>3. ASSUME NEW i \in DOMAIN ev2, NEW j \in DOMAIN ev2, Twice(m, ev2[i], ev2[j]) PROVE i = j
    <3>1. CASE i \in DOMAIN ev /\ j \in DOMAIN ev
      BY <1>1, <2>2, <2>3, <3>1 DEF OneConflict
    <3>2. CASE i = last /\ j \in DOMAIN ev
      BY <1>1, <2>1, <2>3, <3>2
    <3>3. CASE i \in DOMAIN ev /\ j = last
      BY <1>1, <2>1, <2>3, <3>3
    <3>4. QED BY <1>1, <3>1, <3>2, <3>3
  <2>4. ASSUME NEW i \in DOMAIN uq, NEW j \in DOMAIN ev2, Twice(m, uq[i], ev2[j]) PROVE FALSE
    <3>1. CASE j \in DOMAIN ev
      BY <1>1, <2>2, <2>4, <3>1 DEF OneConflict
    <3>2. CASE j = last
      BY <1>1, <2>1, <2>4, <3>2
    <3>3. QED BY <1>1, <3>1, <3>2
  <2>5. QED BY <2>2, <2>3, <2>4 DEF OneConflict
<1>6. BegunBeforeEnded(m, ev2, uq)
  <2>1. BegunBeforeEnded(m, ev, uq)
    BY DEF Accounts, News
  <2>2. ASSUME NEW i \in DOMAIN ev2, Succeeded(ev2[i]), m.tasks[ev2[i].id].state = "Preflight"
        PROVE  \E j \in DOMAIN ev2 : j < i /\ ev2[j].type = "Executing" /\ ev2[j].id = ev2[i].id
    <3>1. CASE i \in DOMAIN ev
      <4>1. PICK j \in DOMAIN ev : j < i /\ ev[j].type = "Executing" /\ ev[j].id = ev[i].id
        BY <1>1, <2>1, <2>2, <3>1 DEF BegunBeforeEnded
      <4>2. QED BY <1>1, <3>1, <4>1
    <3>2. CASE i = last
      <4>1. PICK j \in DOMAIN ev : ev[j].type = "Executing" /\ ev[j].id = e.id
        BY <1>1, <2>2, <3>2 DEF Reports
      <4>2. QED BY <1>1, <3>2, <4>1
    <3>3. QED BY <1>1, <3>1, <3>2
  <2>3. QED BY <2>1, <2>2 DEF BegunBeforeEnded
<1>7. QED BY <1>3, <1>4, <1>5, <1>6 DEF Accounts, News, ev2

\* What is not at the head is in the tail.
LEMMA BeyondTheHead ==
  ASSUME NEW S, NEW queue \in Seq(S), queue # <<>>
  PROVE  \A i \in DOMAIN queue :
           i # 1 => i - 1 \in DOMAIN Tail(queue) /\ Tail(queue)[i - 1] = queue[i]
<1>1. Len(queue) \in Nat /\ DOMAIN queue = 1..Len(queue) /\ Tail(queue) \in Seq(S)
  BY LenProperties, EmptySeq
<1>2. /\ Len(Tail(queue)) = Len(queue) - 1
      /\ \A i \in 1..Len(Tail(queue)) : Tail(queue)[i] = queue[i + 1]
  BY HeadTailProperties
<1>3. DOMAIN Tail(queue) = 1..Len(Tail(queue))
  BY <1>1, LenProperties
<1> SUFFICES ASSUME NEW i \in DOMAIN queue, i # 1
             PROVE  i - 1 \in DOMAIN Tail(queue) /\ Tail(queue)[i - 1] = queue[i]
  OBVIOUS
<1>4. i \in Nat /\ i - 1 \in 1..Len(Tail(queue)) /\ (i - 1) + 1 = i
  BY <1>1, <1>2
<1>5. QED BY <1>2, <1>3, <1>4

\* The head of the worker events is forgotten: it is no completion, and the batch
\* it may be about is known to have begun.
LEMMA DropAccounted ==
  ASSUME NEW m, NEW ib, NEW wk, NEW rp, NEW ev \in Seq(Event), NEW uq, NEW rs, NEW running,
         Accounts(m, ib, wk, rp, ev, uq, rs, running),
         ev # <<>>, ~IsCompletion(Head(ev)),
         Head(ev).type = "Executing" => m.tasks[Head(ev).id].state # "Preflight"
  PROVE  Accounts(m, ib, wk, rp, Tail(ev), uq, rs, running)
<1> DEFINE ev2 == Tail(ev)
           e == Head(ev)
<1>1. /\ 1 \in DOMAIN ev /\ e = ev[1]
      /\ \A i \in DOMAIN ev2 : i + 1 \in DOMAIN ev /\ i \in Nat /\ 1 < i + 1 /\ ev2[i] = ev[i + 1]
  BY TailIsShorter
<1>2. \A i \in DOMAIN ev : i # 1 => i - 1 \in DOMAIN ev2 /\ ev2[i - 1] = ev[i]
  BY BeyondTheHead
<1> HIDE DEF ev2, e
<1>3. \A id : Pending(ev, uq, id) => Pending(ev2, uq, id)
  <2> SUFFICES ASSUME NEW id, NEW i \in DOMAIN ev, IsCompletion(ev[i]), ev[i].id = id
               PROVE  \E j \in DOMAIN ev2 : IsCompletion(ev2[j]) /\ ev2[j].id = id
    BY DEF Pending
  <2>1. i # 1
    BY <1>1 DEF e
  <2>2. i - 1 \in DOMAIN ev2 /\ ev2[i - 1] = ev[i]
    BY <1>2, <2>1
  <2>3. QED BY <2>2
<1>4. \A id : Reports(ev, id) /\ m.tasks[id].state = "Preflight" => Reports(ev2, id)
  <2> SUFFICES ASSUME NEW id, NEW i \in DOMAIN ev, ev[i].type = "Executing", ev[i].id = id,
                      m.tasks[id].state = "Preflight"
               PROVE  Reports(ev2, id)
    BY DEF Reports
  <2>1. i # 1
    BY <1>1 DEF e
  <2>2. QED BY <1>2, <2>1 DEF Reports
<1>5. SlotsAccounted(m, ib, wk, rp, ev2, uq, rs, running)
  <2> SUFFICES ASSUME NEW l \in Lanes, m.active[l] # NoOp
               PROVE  OnItsWay(Holder(m, l), m.active[l], l, ib, wk, ev2, uq)
    BY DEF Accounts, SlotsAccounted
  <2>1. OnItsWay(Holder(m, l), m.active[l], l, ib, wk, ev, uq)
    BY DEF Accounts, SlotsAccounted
  <2>2. QED BY <1>3, <1>4, <2>1 DEF OnItsWay, Holder
<1>6. AllTruthful(m, ev2, wk, rp, rs)
  BY <1>1 DEF Accounts, News, AllTruthful
<1>7. OneConflict(m, ev2, uq)
  <2>1. OneConflict(m, ev, uq)
    BY DEF Accounts, News
  <2>2. ASSUME NEW i \in DOMAIN ev2, NEW j \in DOMAIN ev2, Twice(m, ev2[i], ev2[j]) PROVE i = j
    <3>1. i + 1 = j + 1
      BY <1>1, <2>1, <2>2 DEF OneConflict
    <3>2. QED BY <1>1, <3>1
  <2>3. QED BY <1>1, <2>1, <2>2 DEF OneConflict
<1>8. BegunBeforeEnded(m, ev2, uq)
  <2>1. BegunBeforeEnded(m, ev, uq)
    BY DEF Accounts, News
  <2>2. ASSUME NEW i \in DOMAIN ev2, Succeeded(ev2[i]), m.tasks[ev2[i].id].state = "Preflight"
        PROVE  \E j \in DOMAIN ev2 : j < i /\ ev2[j].type = "Executing" /\ ev2[j].id = ev2[i].id
    <3>1. PICK j \in DOMAIN ev : j < i + 1 /\ ev[j].type = "Executing" /\ ev[j].id = ev2[i].id
      BY <1>1, <2>1, <2>2 DEF BegunBeforeEnded
    <3>2. j # 1
      BY <1>1, <2>2, <3>1 DEF e
    <3>3. j \in Nat
      BY LenProperties
    <3>4. j - 1 \in DOMAIN ev2 /\ ev2[j - 1] = ev[j] /\ j - 1 < i
      BY <1>1, <1>2, <3>1, <3>2, <3>3
    <3>5. QED BY <3>1, <3>4
  <2>3. QED BY <2>1, <2>2 DEF BegunBeforeEnded
<1>9. QED BY <1>5, <1>6, <1>7, <1>8 DEF Accounts, News, ev2

\* The head of the UI queue is handled: it is no completion of a task that stays in
\* its slot, unless tasks are paused.
LEMMA HandleAccounted ==
  ASSUME NEW m, NEW ib, NEW wk, NEW rp, NEW ev, NEW uq \in Seq(Event), NEW rs, NEW running,
         Accounts(m, ib, wk, rp, ev, uq, rs, running), uq # <<>>,
         NoPause /\ IsCompletion(Head(uq)) => \A l \in Lanes : m.active[l] # Head(uq).id
  PROVE  /\ Accounts(m, ib, wk, rp, ev, Tail(uq), rs, running)
         /\ Truthful(m, Head(uq), wk, rp, rs)
         /\ Head(uq).type = "Conflict" /\ ~m.tasks[Head(uq).id].cancelled =>
              ~Told(ev, Tail(uq), Head(uq).id)
<1> DEFINE uq2 == Tail(uq)
           e == Head(uq)
<1>1. /\ 1 \in DOMAIN uq /\ e = uq[1]
      /\ \A i \in DOMAIN uq2 : i + 1 \in DOMAIN uq /\ i \in Nat /\ 1 < i + 1 /\ uq2[i] = uq[i + 1]
  BY TailIsShorter
<1>2. \A i \in DOMAIN uq : i # 1 => i - 1 \in DOMAIN uq2 /\ uq2[i - 1] = uq[i]
  BY BeyondTheHead
<1> HIDE DEF uq2, e
<1>3. ASSUME NoPause, NEW l \in Lanes, Pending(ev, uq, m.active[l])
      PROVE  Pending(ev, uq2, m.active[l])
  BY <1>1, <1>2, <1>3 DEF Pending, e
<1>4. SlotsAccounted(m, ib, wk, rp, ev, uq2, rs, running)
  <2> SUFFICES ASSUME NEW l \in Lanes, m.active[l] # NoOp
               PROVE  OnItsWay(Holder(m, l), m.active[l], l, ib, wk, ev, uq2)
    BY DEF Accounts, SlotsAccounted
  <2>1. OnItsWay(Holder(m, l), m.active[l], l, ib, wk, ev, uq)
    BY DEF Accounts, SlotsAccounted
  <2>2. QED BY <1>3, <2>1 DEF OnItsWay
<1>5. AllTruthful(m, uq2, wk, rp, rs) /\ Truthful(m, e, wk, rp, rs)
  BY <1>1 DEF Accounts, News, AllTruthful
<1>6. OneConflict(m, ev, uq)
  BY DEF Accounts, News
<1>7. OneConflict(m, ev, uq2)
  <2>1. ASSUME NEW i \in DOMAIN uq2, NEW j \in DOMAIN uq2, Twice(m, uq2[i], uq2[j]) PROVE i = j
    <3>1. i + 1 = j + 1
      BY <1>1, <1>6, <2>1 DEF OneConflict
    <3>2. QED BY <1>1, <3>1
  <2>2. QED BY <1>1, <1>6, <2>1 DEF OneConflict
<1>8. ASSUME e.type = "Conflict", ~m.tasks[e.id].cancelled, Told(ev, uq2, e.id) PROVE FALSE
  <2>1. CASE \E i \in DOMAIN ev : ev[i].type = "Conflict" /\ ev[i].id = e.id
    BY <1>1, <1>6, <1>8, <2>1 DEF OneConflict, Twice
  <2>2. CASE \E i \in DOMAIN uq2 : uq2[i].type = "Conflict" /\ uq2[i].id = e.id
    <3>1. PICK i \in DOMAIN uq2 : uq2[i].type = "Conflict" /\ uq2[i].id = e.id
      BY <2>2
    <3>2. i + 1 = 1
      BY <1>1, <1>6, <1>8, <3>1 DEF OneConflict, Twice
    <3>3. QED BY <1>1, <3>2
  <2>3. QED BY <1>8, <2>1, <2>2 DEF Told
<1>9. BegunBeforeEnded(m, ev, uq2)
  BY <1>1 DEF Accounts, News, BegunBeforeEnded
<1>10. QED BY <1>4, <1>5, <1>7, <1>8, <1>9 DEF Accounts, News, uq2, e

\* The pump hands an event on to the UI thread.
LEMMA ForwardAccounted ==
  ASSUME NEW m, NEW ib, NEW wk, NEW rp, NEW ev \in Seq(Event), NEW uq \in Seq(Event), NEW rs,
         NEW running, Accounts(m, ib, wk, rp, ev, uq, rs, running),
         ev # <<>>, Head(ev).type # "Executing"
  PROVE  Accounts(m, ib, wk, rp, Tail(ev), Append(uq, Head(ev)), rs, running)
<1> DEFINE ev2 == Tail(ev)
           e == Head(ev)
           uq2 == Append(uq, e)
           last == Len(uq) + 1
<1>1. /\ 1 \in DOMAIN ev /\ e = ev[1]
      /\ \A i \in DOMAIN ev2 : i + 1 \in DOMAIN ev /\ i \in Nat /\ 1 < i + 1 /\ ev2[i] = ev[i + 1]
  BY TailIsShorter
<1>2. \A i \in DOMAIN ev : i # 1 => i - 1 \in DOMAIN ev2 /\ ev2[i - 1] = ev[i]
  BY BeyondTheHead
<1>3. /\ DOMAIN uq2 = DOMAIN uq \cup {last} /\ uq2[last] = e
      /\ \A i \in DOMAIN uq : i \in Nat /\ i < last /\ uq2[i] = uq[i]
  BY AppendedAt
<1> HIDE DEF ev2, e, uq2, last
<1>4. \A id : Pending(ev, uq, id) => Pending(ev2, uq2, id)
  BY <1>1, <1>2, <1>3 DEF Pending
<1>5. \A id : Reports(ev, id) => Reports(ev2, id)
  <2> SUFFICES ASSUME NEW id, NEW i \in DOMAIN ev, ev[i].type = "Executing", ev[i].id = id
               PROVE  Reports(ev2, id)
    BY DEF Reports
  <2>1. i # 1
    BY <1>1 DEF e
  <2>2. QED BY <1>2, <2>1 DEF Reports
<1>6. SlotsAccounted(m, ib, wk, rp, ev2, uq2, rs, running)
  BY <1>4, <1>5 DEF Accounts, SlotsAccounted, OnItsWay
<1>7. AllTruthful(m, ev2, wk, rp, rs) /\ AllTruthful(m, uq2, wk, rp, rs)
  BY <1>1, <1>3 DEF Accounts, News, AllTruthful
<1>8. OneConflict(m, ev2, uq2)
  <2>1. OneConflict(m, ev, uq)
    BY DEF Accounts, News
  <2>2. ASSUME NEW i \in DOMAIN ev2, NEW j \in DOMAIN ev2, Twice(m, ev2[i], ev2[j]) PROVE i = j
    <3>1. i + 1 = j + 1
      BY <1>1, <2>1, <2>2 DEF OneConflict
    <3>2. QED BY <1>1, <3>1
  <2>3. ASSUME NEW i \in DOMAIN uq2, NEW j \in DOMAIN uq2, Twice(m, uq2[i], uq2[j]) PROVE i = j
    <3>1. CASE i \in DOMAIN uq /\ j \in DOMAIN uq
      BY <1>3, <2>1, <2>3, <3>1 DEF OneConflict
    <3>2. CASE i = last /\ j \in DOMAIN uq
      BY <1>1, <1>3, <2>1, <2>3, <3>2 DEF OneConflict, Twice
    <3>3. CASE i \in DOMAIN uq /\ j = last
      BY <1>1, <1>3, <2>1, <2>3, <3>3 DEF OneConflict
    <3>4. QED BY <1>3, <3>1, <3>2, <3>3
  <2>4. ASSUME NEW i \in DOMAIN uq2, NEW j \in DOMAIN ev2, Twice(m, uq2[i], ev2[j]) PROVE FALSE
    <3>1. CASE i \in DOMAIN uq
      BY <1>1, <1>3, <2>1, <2>4, <3>1 DEF OneConflict
    <3>2. CASE i = last
      <4>1. 1 = j + 1
        BY <1>1, <1>3, <2>1, <2>4, <3>2 DEF OneConflict
      <4>2. QED BY <1>1, <4>1
    <3>3. QED BY <1>3, <3>1, <3>2
  <2>5. QED BY <2>2, <2>3, <2>4 DEF OneConflict
<1>9. BegunBeforeEnded(m, ev2, uq2)
  <2>1. BegunBeforeEnded(m, ev, uq) /\ \A j \in DOMAIN ev : j \in Nat /\ j >= 1
    BY LenProperties DEF Accounts, News
  <2>2. ASSUME NEW i \in DOMAIN ev2, Succeeded(ev2[i]), m.tasks[ev2[i].id].state = "Preflight"
        PROVE  \E j \in DOMAIN ev2 : j < i /\ ev2[j].type = "Executing" /\ ev2[j].id = ev2[i].id
    <3>1. PICK j \in DOMAIN ev : j < i + 1 /\ ev[j].type = "Executing" /\ ev[j].id = ev2[i].id
      BY <1>1, <2>1, <2>2 DEF BegunBeforeEnded
    <3>2. j # 1
      BY <1>1, <3>1 DEF e
    <3>3. j - 1 \in DOMAIN ev2 /\ ev2[j - 1] = ev[j] /\ j - 1 < i
      BY SMTT(30), <1>1, <1>2, <2>1, <3>1, <3>2
    <3>4. QED BY <3>1, <3>3
  <2>3. ASSUME Succeeded(e) PROVE m.tasks[e.id].state # "Preflight"
    BY <1>1, <2>1, <2>3 DEF BegunBeforeEnded
  <2>4. \A i \in DOMAIN uq2 : Succeeded(uq2[i]) => m.tasks[uq2[i].id].state # "Preflight"
    BY <1>3, <2>1, <2>3 DEF BegunBeforeEnded
  <2>5. QED BY <2>2, <2>4 DEF BegunBeforeEnded
<1>10. QED BY <1>6, <1>7, <1>8, <1>9 DEF Accounts, News, ev2, uq2, e

-----------------------------------------------------------------------------
(* Workers and tasks.                                                       *)

\* How the worker of lane l may move: a decision ends its wait, and it goes idle
\* with the news of the end out.
MovesFitly(m, ib, wk, rp, ev, uq, l, w, ib2, rp2) ==
  /\ \A k \in Lanes : k # l => ib2[k] = ib[k] /\ rp2[k] = rp[k]
  /\ wk[l].pc = "waiting" => rp[l] \/ Holder(m, l).cancelled
  /\ w.pc = "idle" => Pending(ev, uq, m.active[l])
  /\ w.pc \in {"gate", "waiting"} => Holder(m, l).kind = "Copy"
  /\ w.pc # "idle" /\ w.executing /\ Holder(m, l).state = "Preflight" => Reports(ev, m.active[l])

\* A worker goes on.  If it waits for an answer, it goes on because it has the
\* answer or because its operation is cancelled.
LEMMA MoveAccounted ==
  ASSUME NEW m, ManagerInv(m), AllMarked(m), NEW ib, NEW wk \in [Lanes -> WorkerState], NEW rp,
         NEW ev, NEW uq, NEW rs, NEW running, AllServed(m, ev), AllServed(m, uq),
         Accounts(m, ib, wk, rp, ev, uq, rs, running),
         NEW l \in Lanes, m.active[l] # NoOp, NEW w, NEW ib2, NEW rp2,
         MovesFitly(m, ib, wk, rp, ev, uq, l, w, ib2, rp2)
  PROVE  Accounts(m, ib2, [wk EXCEPT ![l] = w], rp2, ev, uq, rs, running)
<1>0. /\ \A k \in Lanes : k # l => ib2[k] = ib[k] /\ rp2[k] = rp[k]
      /\ wk[l].pc = "waiting" => rp[l] \/ Holder(m, l).cancelled
      /\ w.pc = "idle" => Pending(ev, uq, m.active[l])
      /\ w.pc \in {"gate", "waiting"} => Holder(m, l).kind = "Copy"
      /\ w.pc # "idle" /\ w.executing /\ Holder(m, l).state = "Preflight" => Reports(ev, m.active[l])
  BY DEF MovesFitly
<1> DEFINE wk2 == [wk EXCEPT ![l] = w]
<1>1. wk2[l] = w /\ \A k \in Lanes : k # l => wk2[k] = wk[k]
  OBVIOUS
<1> HIDE DEF wk2
<1>2. MayEnd(Holder(m, l), running) /\ AnswerDue(Holder(m, l), m.active[l], l, wk, rp, rs)
  BY DEF Accounts, SlotsAccounted
<1>3. Holder(m, l).state # "WaitingConflict"
  <2>1. SUFFICES ASSUME Holder(m, l).state = "WaitingConflict" PROVE FALSE
    OBVIOUS
  <2>2. Holder(m, l).cancelled
    BY <1>0, <1>2, <2>1 DEF AnswerDue, Asking
  <2>3. Marked(Holder(m, l))
    BY SlotTask DEF AllMarked, Holder
  <2>4. QED BY <2>1, <2>2, <2>3 DEF Marked, IsActive, Terminal
<1>4. AnswerDue(Holder(m, l), m.active[l], l, wk2, rp2, rs)
  BY <1>0, <1>1, <1>2, <1>3 DEF AnswerDue, Asking
<1>5. OnItsWay(Holder(m, l), m.active[l], l, ib2, wk2, ev, uq)
  BY <1>0, <1>1 DEF OnItsWay, Unserved
<1>6. SlotsAccounted(m, ib2, wk2, rp2, ev, uq, rs, running)
  <2> SUFFICES ASSUME NEW k \in Lanes, m.active[k] # NoOp, k # l
               PROVE  /\ MayEnd(Holder(m, k), running)
                      /\ AnswerDue(Holder(m, k), m.active[k], k, wk2, rp2, rs)
                      /\ OnItsWay(Holder(m, k), m.active[k], k, ib2, wk2, ev, uq)
    BY <1>2, <1>4, <1>5 DEF SlotsAccounted
  <2>1. /\ MayEnd(Holder(m, k), running)
        /\ AnswerDue(Holder(m, k), m.active[k], k, wk, rp, rs)
        /\ OnItsWay(Holder(m, k), m.active[k], k, ib, wk, ev, uq)
    BY DEF Accounts, SlotsAccounted
  <2>2. ib2[k] = ib[k] /\ rp2[k] = rp[k] /\ wk2[k] = wk[k]
    BY <1>0, <1>1
  <2>3. AnswerDue(Holder(m, k), m.active[k], k, wk2, rp2, rs)
    BY <2>1, <2>2 DEF AnswerDue, Asking
  <2>4. OnItsWay(Holder(m, k), m.active[k], k, ib2, wk2, ev, uq)
    BY <2>1, <2>2 DEF OnItsWay, Unserved
  <2>5. QED BY <2>1, <2>3, <2>4
<1>7. ASSUME NEW id, HoldsSlot(m, id), ~m.tasks[id].cancelled, Asking(m.tasks[id].lane, wk, rp)
      PROVE  Asking(m.tasks[id].lane, wk2, rp2)
  <2>1. m.tasks[id].lane \in Lanes /\ m.active[m.tasks[id].lane] = id
    BY <1>7, HolderTask
  <2>2. m.tasks[id].lane # l
    BY <1>0, <1>7, <2>1 DEF Holder, Asking
  <2>3. QED BY <1>0, <1>1, <1>7, <2>1, <2>2 DEF Asking
<1>8. News(m, wk2, rp2, ev, uq, rs)
  <2>1. News(m, wk, rp, ev, uq, rs)
    BY DEF Accounts
  <2>2. \A id : HoldsSlot(m, id) =>
           /\ StaysTrue(m.tasks[id], m.tasks[id])
           /\ /\ Told(ev, uq, id) /\ ~m.tasks[id].cancelled
              /\ Asking(m.tasks[id].lane, wk, rp) /\ id \notin rs
              => Asking(m.tasks[id].lane, wk2, rp2) /\ id \notin rs
    BY <1>7 DEF StaysTrue
  <2>3. QED BY <2>1, <2>2, NewsStay
<1>9. QED BY <1>6, <1>8 DEF Accounts, wk2

\* What may happen to the task in the slot of lane l: it can still end, its batch
\* has not unbegun, and a conflict that is still to be shown is still unanswered.
ChangesFitly(m, n, l, wk, rp, ev, uq, rs, running, rp2, rs2) ==
  /\ StaysTrue(Holder(m, l), Holder(n, l))
  /\ MayEnd(Holder(n, l), running)
  /\ AnswerDue(Holder(n, l), m.active[l], l, wk, rp2, rs2)
  /\ /\ Told(ev, uq, m.active[l]) /\ ~Holder(n, l).cancelled
     /\ Asking(l, wk, rp) /\ m.active[l] \notin rs
     => Asking(l, wk, rp2) /\ m.active[l] \notin rs2

\* Tasks in slots change, slots do not.
LEMMA ChangeAccounted ==
  ASSUME NEW m, ManagerInv(m), NEW n, ManagerInv(n), n.active = m.active, NEW ib, NEW wk, NEW rp,
         NEW ev, NEW uq, NEW rs, NEW running, AllServed(m, ev), AllServed(m, uq),
         Accounts(m, ib, wk, rp, ev, uq, rs, running), NEW rp2, NEW rs2,
         \A l \in Lanes : m.active[l] # NoOp =>
           ChangesFitly(m, n, l, wk, rp, ev, uq, rs, running, rp2, rs2),
         \A id \in rs2 : HoldsSlot(m, id)
  PROVE  Accounts(n, ib, wk, rp2, ev, uq, rs2, running)
<1>1. ASSUME NEW id, HoldsSlot(m, id)
      PROVE  /\ m.tasks[id].lane \in Lanes /\ m.active[m.tasks[id].lane] = id /\ id # NoOp
             /\ Holder(m, m.tasks[id].lane) = m.tasks[id] /\ Holder(n, m.tasks[id].lane) = n.tasks[id]
             /\ HoldsSlot(n, id)
  <2>1. m.tasks[id].lane \in Lanes /\ m.active[m.tasks[id].lane] = id /\ id # NoOp
    BY <1>1, HolderTask
  <2>2. HoldsSlot(n, n.active[m.tasks[id].lane])
    BY <2>1, SlotTask
  <2>3. QED BY <2>1, <2>2 DEF Holder
<1>2. SlotsAccounted(n, ib, wk, rp2, ev, uq, rs2, running)
  <2> SUFFICES ASSUME NEW l \in Lanes, n.active[l] # NoOp
               PROVE  /\ MayEnd(Holder(n, l), running)
                      /\ AnswerDue(Holder(n, l), n.active[l], l, wk, rp2, rs2)
                      /\ OnItsWay(Holder(n, l), n.active[l], l, ib, wk, ev, uq)
    BY DEF SlotsAccounted
  <2>1. ChangesFitly(m, n, l, wk, rp, ev, uq, rs, running, rp2, rs2)
    OBVIOUS
  <2>2. OnItsWay(Holder(m, l), m.active[l], l, ib, wk, ev, uq)
    BY DEF Accounts, SlotsAccounted
  <2>3. OnItsWay(Holder(n, l), n.active[l], l, ib, wk, ev, uq)
    BY <2>1, <2>2 DEF OnItsWay, ChangesFitly, StaysTrue
  <2>4. QED BY <2>1, <2>3 DEF ChangesFitly
<1>3. News(n, wk, rp2, ev, uq, rs2)
  <2>1. News(m, wk, rp, ev, uq, rs)
    BY DEF Accounts
  <2>2. ASSUME NEW id, HoldsSlot(m, id)
        PROVE  /\ StaysTrue(m.tasks[id], n.tasks[id])
               /\ /\ Told(ev, uq, id) /\ ~n.tasks[id].cancelled
                  /\ Asking(m.tasks[id].lane, wk, rp) /\ id \notin rs
                  => Asking(m.tasks[id].lane, wk, rp2) /\ id \notin rs2
    <3> DEFINE l == m.tasks[id].lane
    <3>1. l \in Lanes /\ m.active[l] = id /\ Holder(m, l) = m.tasks[id] /\ Holder(n, l) = n.tasks[id]
          /\ id # NoOp
      BY <1>1, <2>2
    <3> HIDE DEF l
    <3>2. ChangesFitly(m, n, l, wk, rp, ev, uq, rs, running, rp2, rs2)
      BY <3>1
    <3>3. QED BY <3>1, <3>2 DEF ChangesFitly, l
  <2>3. QED BY <2>1, <2>2, NewsStay
<1>4. QED BY <1>1, <1>2, <1>3 DEF Accounts

-----------------------------------------------------------------------------
(* Steps that start tasks.                                                  *)

\* A task as a step may start it.
Begins(task, running) == task.state \in {"Preflight", "Running"} /\ MayEnd(task, running)

\* What is in a slot is left alone, and free slots may be taken.
StartsOnly(m, n, running) ==
  \A l \in Lanes :
    /\ m.active[l] # NoOp => n.active[l] = m.active[l] /\ Holder(n, l) = Holder(m, l)
    /\ m.active[l] = NoOp /\ n.active[l] # NoOp => Begins(Holder(n, l), running)

LEMMA StartsOnlyTwice ==
  ASSUME NEW m, NEW n, NEW p, NEW running, StartsOnly(m, n, running), StartsOnly(n, p, running)
  PROVE  StartsOnly(m, p, running)
BY DEF StartsOnly

\* The requests that a step starts are under way.
LEMMA StartsAccounted ==
  ASSUME NEW m, ManagerInv(m), NEW n, ManagerInv(n), NEW running, StartsOnly(m, n, running),
         NEW ib \in [Lanes -> Seq(Request)], NEW wk \in [Lanes -> WorkerState], NEW rp,
         NEW ev, NEW uq, NEW rs, InStep(m, ib, wk, ev, uq),
         Accounts(m, ib, wk, rp, ev, uq, rs, running)
  PROVE  Accounts(n, DeliverTo(ib, m, n), wk, rp, ev, uq, rs, running)
<1> DEFINE ib2 == DeliverTo(ib, m, n)
<1>1. \A l \in Lanes : ib2[l] = IF Started(m, n, l) THEN Append(ib[l], RequestFor(n, n.active[l])) ELSE ib[l]
  BY DEF DeliverTo
<1> HIDE DEF ib2
<1>2. ASSUME NEW id, HoldsSlot(m, id)
      PROVE  /\ m.tasks[id].lane \in Lanes /\ m.active[m.tasks[id].lane] = id
             /\ n.tasks[id] = m.tasks[id] /\ HoldsSlot(n, id)
             /\ \A l \in Lanes : m.active[l] = NoOp => n.active[l] # id
  <2>1. m.tasks[id].lane \in Lanes /\ m.active[m.tasks[id].lane] = id /\ id # NoOp
    BY <1>2, HolderTask
  <2>2. n.active[m.tasks[id].lane] = id /\ n.tasks[id] = m.tasks[id]
    BY <2>1 DEF StartsOnly, Holder
  <2>3. HoldsSlot(n, id)
    BY <2>1, <2>2, SlotTask
  <2>4. ASSUME NEW l \in Lanes, m.active[l] = NoOp, n.active[l] = id PROVE FALSE
    <3>1. n.tasks[id].lane = l
      BY <2>1, <2>4, SlotTask
    <3>2. QED BY <2>1, <2>2, <2>4, <3>1
  <2>5. QED BY <2>1, <2>2, <2>3, <2>4
<1>3. SlotsAccounted(n, ib2, wk, rp, ev, uq, rs, running)
  <2> SUFFICES ASSUME NEW l \in Lanes, n.active[l] # NoOp
               PROVE  /\ MayEnd(Holder(n, l), running)
                      /\ AnswerDue(Holder(n, l), n.active[l], l, wk, rp, rs)
                      /\ OnItsWay(Holder(n, l), n.active[l], l, ib2, wk, ev, uq)
    BY DEF SlotsAccounted
  <2>1. CASE m.active[l] # NoOp
    <3>1. ib2[l] = ib[l]
      BY <1>1, <2>1 DEF Started
    <3>2. n.active[l] = m.active[l] /\ Holder(n, l) = Holder(m, l)
      BY <2>1 DEF StartsOnly
    <3>3. /\ MayEnd(Holder(m, l), running)
          /\ AnswerDue(Holder(m, l), m.active[l], l, wk, rp, rs)
          /\ OnItsWay(Holder(m, l), m.active[l], l, ib, wk, ev, uq)
      BY <2>1 DEF Accounts, SlotsAccounted
    <3>4. QED BY <3>1, <3>2, <3>3 DEF OnItsWay, Unserved
  <2>2. CASE m.active[l] = NoOp
    <3>1. Begins(Holder(n, l), running)
      BY <2>2 DEF StartsOnly
    <3>2. Unserved(l, ib, wk)
      BY <2>2, FreeLane DEF InStep
    <3>3. ib2[l] # <<>>
      <4>1. ib2[l] = Append(ib[l], RequestFor(n, n.active[l])) /\ ib[l] = <<>>
        BY <1>1, <2>2, <3>2 DEF Started, Unserved
      <4>2. ib2[l] = <<RequestFor(n, n.active[l])>>
        BY <4>1
      <4>3. QED BY <4>2
    <3>4. n.active[l] \notin rs
      BY <1>2, <2>2 DEF Accounts
    <3>5. AnswerDue(Holder(n, l), n.active[l], l, wk, rp, rs)
      BY <3>1, <3>2, <3>4 DEF AnswerDue, Begins, Unserved
    <3>6. QED BY <3>1, <3>2, <3>3, <3>5 DEF Begins, OnItsWay, Unserved
  <2>3. QED BY <2>1, <2>2
<1>4. News(n, wk, rp, ev, uq, rs)
  <2>1. News(m, wk, rp, ev, uq, rs) /\ AllServed(m, ev) /\ AllServed(m, uq)
    BY DEF Accounts, InStep
  <2>2. \A id : HoldsSlot(m, id) =>
          /\ StaysTrue(m.tasks[id], n.tasks[id])
          /\ /\ Told(ev, uq, id) /\ ~n.tasks[id].cancelled
             /\ Asking(m.tasks[id].lane, wk, rp) /\ id \notin rs
             => Asking(m.tasks[id].lane, wk, rp) /\ id \notin rs
    BY <1>2 DEF StaysTrue
  <2>3. QED BY <2>1, <2>2, NewsStay
<1>5. QED BY <1>2, <1>3, <1>4 DEF Accounts, ib2

\* The next task of a lane takes the free slot.  It begins unless it is a batch,
\* which begins when the Shell says so.
TakesSlot(m, n, lane, id, task) ==
  /\ id \in DOMAIN m.tasks /\ id # NoOp
  /\ m.tasks[id].lane = lane /\ m.tasks[id].state = "Queued"
  /\ m.active[lane] = NoOp
  /\ n.active = [m.active EXCEPT ![lane] = id]
  /\ n.tasks = [m.tasks EXCEPT ![id] = task]
  /\ task.kind = m.tasks[id].kind /\ task.lane = lane
  /\ task.state = IF UsesLocalRecycleBatch(m.tasks[id]) THEN "Preflight" ELSE "Running"

LEMMA LaunchedTakesSlot ==
  ASSUME NEW m, ManagerInv(m), NEW lane \in Lanes, CanLaunch(m, lane), NEW s, ManagerInv(s),
         Launches(m, s, lane), NEW id, id = m.queues[lane][1]
  PROVE  /\ s.active[lane] = id /\ Started(m, s, lane)
         /\ UsesLocalRecycleBatch(m.tasks[id]) => TakesSlot(m, s, lane, id, s.tasks[id])
         /\ UsesLocalRecycleBatch(s.tasks[id]) <=> UsesLocalRecycleBatch(m.tasks[id])
         /\ ~UsesLocalRecycleBatch(m.tasks[id]) =>
              TakesSlot(m, MarkRunning(s, id), lane, id, MarkRunning(s, id).tasks[id])
<1>1. /\ id \in DOMAIN m.tasks /\ id \in Nat /\ m.tasks[id] \in Task
      /\ m.tasks[id].lane = lane /\ m.tasks[id].state = "Queued" /\ m.active[lane] = NoOp
      /\ id # NoOp /\ m.active \in [Lanes -> Nat \cup {NoOp}]
  <2>1. /\ id \in DOMAIN m.tasks /\ id \in Nat /\ m.tasks[id] \in Task
        /\ m.tasks[id].lane = lane /\ m.tasks[id].state = "Queued"
    BY LaunchedTask
  <2>2. m.active[lane] = NoOp
    BY DEF CanLaunch
  <2>3. m.active \in [Lanes -> Nat \cup {NoOp}]
    BY DEF ManagerInv, ManagerType
  <2>4. QED BY <2>1, <2>2, <2>3, NoOpAssumption
<1> DEFINE task == [m.tasks[id] EXCEPT !.state = "Preflight"]
           running == [m.tasks[id] EXCEPT !.state = "Running"]
<1>2. /\ task.kind = m.tasks[id].kind /\ task.lane = lane /\ task.state = "Preflight"
      /\ Transition(task, "Running") = running
      /\ running.kind = m.tasks[id].kind /\ running.lane = lane /\ running.state = "Running"
  BY <1>1 DEF Task, Transition, CanTransition
<1>3. s.active = [m.active EXCEPT ![lane] = id] /\ s.tasks = [m.tasks EXCEPT ![id] = task]
  BY DEF Launches
<1> HIDE DEF task, running
<1>4. s.active[lane] = id /\ s.tasks[id] = task /\ id \in DOMAIN s.tasks
  BY <1>1, <1>3
<1>5. Started(m, s, lane)
  BY <1>1, <1>4 DEF Started
<1>6. UsesLocalRecycleBatch(task) <=> UsesLocalRecycleBatch(m.tasks[id])
  BY <1>1, <1>2 DEF UsesLocalRecycleBatch
<1>7. ASSUME UsesLocalRecycleBatch(m.tasks[id]) PROVE TakesSlot(m, s, lane, id, s.tasks[id])
  BY <1>1, <1>2, <1>3, <1>4, <1>7 DEF TakesSlot
<1>8. HoldsSlot(s, id)
  BY <1>2, <1>4 DEF HoldsSlot, Present
<1> DEFINE n == MarkRunning(s, id)
<1>9. n = [s EXCEPT !.tasks[id] = Transition(@, "Running")]
  BY <1>8 DEF MarkRunning
<1>10. n.active = s.active /\ n.tasks = [s.tasks EXCEPT ![id] = running]
  <2>1. DOMAIN s = {"next", "tasks", "queues", "active"}
    BY DEF ManagerInv, ManagerType
  <2> HIDE DEF n
  <2>2. QED BY <1>2, <1>4, <1>9, <2>1
<1> HIDE DEF n
<1>11. n.tasks = [m.tasks EXCEPT ![id] = running] /\ n.tasks[id] = running
  BY <1>1, <1>3, <1>4, <1>10
<1>12. ASSUME ~UsesLocalRecycleBatch(m.tasks[id]) PROVE TakesSlot(m, n, lane, id, n.tasks[id])
  BY <1>1, <1>2, <1>3, <1>10, <1>11, <1>12 DEF TakesSlot
<1>13. QED BY <1>4, <1>5, <1>6, <1>7, <1>12 DEF n

LEMMA StartAndMarkEffect ==
  ASSUME NEW m, ManagerInv(m), NEW lane \in Lanes, NEW n, n = StartAndMark(m, lane)
  PROVE  \/ n.tasks = m.tasks /\ n.active = m.active
         \/ \E id : TakesSlot(m, n, lane, id, n.tasks[id])
<1> DEFINE s == StartNext(m, lane)
           id == m.queues[lane][1]
<1>1. ManagerInv(s) /\ (CanLaunch(m, lane) => Launches(m, s, lane))
      /\ (~CanLaunch(m, lane) => SameFields(m, s))
  BY StartNextKeeps, StartNextEffect
<1>2. n = IF Started(m, s, lane) THEN MarkRunningIfReady(s, s.active[lane]) ELSE s
  BY DEF StartAndMark
<1> HIDE DEF s, id
<1>3. CASE ~CanLaunch(m, lane)
  BY <1>1, <1>2, <1>3 DEF SameFields, Started
<1>4. CASE CanLaunch(m, lane)
  <2>1. /\ s.active[lane] = id /\ Started(m, s, lane)
        /\ UsesLocalRecycleBatch(m.tasks[id]) => TakesSlot(m, s, lane, id, s.tasks[id])
        /\ UsesLocalRecycleBatch(s.tasks[id]) <=> UsesLocalRecycleBatch(m.tasks[id])
        /\ ~UsesLocalRecycleBatch(m.tasks[id]) =>
              TakesSlot(m, MarkRunning(s, id), lane, id, MarkRunning(s, id).tasks[id])
    BY <1>1, <1>4, LaunchedTakesSlot DEF id
  <2>2. n = IF UsesLocalRecycleBatch(m.tasks[id]) THEN s ELSE MarkRunning(s, id)
    BY <1>2, <2>1 DEF MarkRunningIfReady
  <2>3. QED BY <2>1, <2>2
<1>5. QED BY <1>3, <1>4

\* No undo waits to be started.
UndosStart(m) ==
  \A id \in DOMAIN m.tasks : m.tasks[id].kind = "Undo" =>
    m.tasks[id].lane = "Local" /\ m.tasks[id].state # "Queued"

\* Taking a slot leaves the other slots alone.
LEMMA TakesSlotStarts ==
  ASSUME NEW m, ManagerInv(m), NEW n, NEW lane \in Lanes, NEW id, TakesSlot(m, n, lane, id, n.tasks[id]),
         NEW running, m.tasks[id].kind = "Undo" => running
  PROVE  StartsOnly(m, n, running)
<1>1. m.active \in [Lanes -> Nat \cup {NoOp}]
  BY DEF ManagerInv, ManagerType
<1>2. ASSUME NEW l \in Lanes, m.active[l] # NoOp
      PROVE  n.active[l] = m.active[l] /\ Holder(n, l) = Holder(m, l)
  <2>1. n.active[l] = m.active[l]
    BY <1>1, <1>2 DEF TakesSlot
  <2>2. m.active[l] \in DOMAIN m.tasks /\ m.tasks[m.active[l]].state \in InProgress
    BY <1>2, SlotTask
  <2>3. m.active[l] # id
    BY <2>2 DEF TakesSlot, InProgress
  <2>4. QED BY <2>1, <2>2, <2>3 DEF TakesSlot, Holder
<1>3. ASSUME NEW l \in Lanes, m.active[l] = NoOp, n.active[l] # NoOp
      PROVE  Begins(Holder(n, l), running)
  <2>1. l = lane /\ n.active[l] = id
    BY <1>1, <1>3 DEF TakesSlot
  <2>2. UsesLocalRecycleBatch(n.tasks[id]) <=> UsesLocalRecycleBatch(m.tasks[id])
    BY DEF TakesSlot, UsesLocalRecycleBatch
  <2>3. QED BY <2>1, <2>2 DEF TakesSlot, Begins, MayEnd, Holder
<1>4. QED BY <1>2, <1>3 DEF StartsOnly

LEMMA StartAndMarkStarts ==
  ASSUME NEW m, ManagerInv(m), UndosStart(m), NEW lane \in Lanes, NEW running, NEW n,
         n = StartAndMark(m, lane)
  PROVE  StartsOnly(m, n, running) /\ UndosStart(n)
<1>1. CASE n.tasks = m.tasks /\ n.active = m.active
  BY <1>1 DEF StartsOnly, UndosStart, Holder
<1>2. CASE \E id : TakesSlot(m, n, lane, id, n.tasks[id])
  <2>1. PICK id : TakesSlot(m, n, lane, id, n.tasks[id])
    BY <1>2
  <2>2. m.tasks[id].kind # "Undo"
    BY <2>1 DEF TakesSlot, UndosStart
  <2>3. StartsOnly(m, n, running)
    BY <2>1, <2>2, TakesSlotStarts
  <2>4. UndosStart(n)
    BY <2>1, <2>2 DEF UndosStart, TakesSlot
  <2>5. QED BY <2>3, <2>4
<1>3. QED BY <1>1, <1>2, StartAndMarkEffect

-----------------------------------------------------------------------------
(* The tasks, as the contract with the disk sees them.                      *)

\* No accepted operation is forgotten before it has settled, none that is served
\* goes back to wait or changes its lane, and a new one has not settled.
Contracted(m, n) ==
  /\ \A x \in DOMAIN m.tasks :
       /\ m.tasks[x].state \notin Terminal => x \in DOMAIN n.tasks
       /\ m.tasks[x].state \in InProgress =>
            n.tasks[x].state # "Queued" /\ n.tasks[x].lane = m.tasks[x].lane
  /\ \A x \in DOMAIN n.tasks \ DOMAIN m.tasks : n.tasks[x].state \notin Terminal

\* Operations are accepted without a look at the slots.
Accepts(m, n) ==
  /\ n.active = m.active
  /\ \A l \in Lanes : m.active[l] # NoOp => Holder(n, l) = Holder(m, l)
  /\ Contracted(m, n)

\* No undo waits to be started, before and after.
UndosStillStart(m, n) == UndosStart(m) => UndosStart(n)

\* What there was stays as it is.
Adds(m, n) ==
  /\ DOMAIN m.tasks \subseteq DOMAIN n.tasks
  /\ \A x \in DOMAIN m.tasks : n.tasks[x] = m.tasks[x]

\* New tasks are accepted.
LEMMA AddedAccepts ==
  ASSUME NEW m, ManagerInv(m), NEW n, n.active = m.active,
         DOMAIN m.tasks \subseteq DOMAIN n.tasks,
         \A x \in DOMAIN m.tasks : n.tasks[x] = m.tasks[x],
         \A x \in DOMAIN n.tasks \ DOMAIN m.tasks : n.tasks[x].state = "Queued"
  PROVE  /\ Accepts(m, n)
         /\ (\A x \in DOMAIN n.tasks \ DOMAIN m.tasks : n.tasks[x].kind # "Undo") => UndosStillStart(m, n)
<1>1. Contracted(m, n)
  BY DEF Contracted, InProgress, Terminal
<1>2. \A l \in Lanes : m.active[l] # NoOp => Holder(n, l) = Holder(m, l)
  BY SlotTask DEF Holder
<1>3. QED BY <1>1, <1>2 DEF Accepts, UndosStillStart, UndosStart

\* A task that is not in progress may change, short of becoming another operation.
LEMMA ChangedAccepts ==
  ASSUME NEW m, ManagerInv(m), NEW n, n.active = m.active,
         NEW id \in DOMAIN m.tasks, NEW task, n.tasks = [m.tasks EXCEPT ![id] = task],
         m.tasks[id].state \notin InProgress, task.kind = m.tasks[id].kind, task.kind # "Undo"
  PROVE  Accepts(m, n) /\ UndosStillStart(m, n)
<1>1. DOMAIN n.tasks = DOMAIN m.tasks /\ n.tasks[id] = task
      /\ \A x \in DOMAIN m.tasks : x # id => n.tasks[x] = m.tasks[x]
  OBVIOUS
<1>2. Contracted(m, n)
  BY <1>1 DEF Contracted, InProgress
<1>3. \A l \in Lanes : m.active[l] # NoOp => Holder(n, l) = Holder(m, l)
  BY <1>1, SlotTask DEF Holder
<1>4. UndosStillStart(m, n)
  BY <1>1 DEF UndosStillStart, UndosStart
<1>5. QED BY <1>2, <1>3, <1>4 DEF Accepts

\* submit.
LEMMA SubmitAdds ==
  ASSUME NEW m, ManagerInv(m), NEW kind, NEW lane, NEW recovered, NEW n,
         n = Submit(m, kind, lane, recovered)
  PROVE  /\ Adds(m, n) /\ n.active = m.active
         /\ DOMAIN n.tasks = DOMAIN m.tasks \cup {m.next}
         /\ n.tasks[m.next] = NewTask(kind, lane, recovered)
<1> DEFINE task == NewTask(kind, lane, recovered)
<1>1. /\ n.active = m.active /\ n.tasks = With(m.tasks, m.next, task)
      /\ m.next \notin DOMAIN m.tasks
  <2>1. DOMAIN m = {"next", "tasks", "queues", "active"} /\ m.next \in Nat
        /\ \A x \in DOMAIN m.tasks : x \in Nat /\ x < m.next
    BY DEF ManagerInv, ManagerType
  <2>2. QED BY <2>1 DEF Submit
<1> HIDE DEF task
<1>2. QED BY <1>1 DEF With, Adds, task

LEMMA SubmitAccepts ==
  ASSUME NEW m, ManagerInv(m), NEW kind, NEW lane, NEW recovered
  PROVE  /\ Accepts(m, Submit(m, kind, lane, recovered))
         /\ kind # "Undo" => UndosStillStart(m, Submit(m, kind, lane, recovered))
<1> DEFINE n == Submit(m, kind, lane, recovered)
           task == NewTask(kind, lane, recovered)
<1>1. task.state = "Queued" /\ task.kind = kind
  BY DEF NewTask
<1>2. /\ Adds(m, n) /\ n.active = m.active
      /\ DOMAIN n.tasks = DOMAIN m.tasks \cup {m.next} /\ n.tasks[m.next] = task
  BY SubmitAdds
<1> HIDE DEF n, task
<1>3. QED BY <1>1, <1>2, AddedAccepts DEF n, Adds

\* submit_preparing.
LEMMA SubmitPreparingAccepts ==
  ASSUME NEW m, ManagerInv(m)
  PROVE  Accepts(m, SubmitPreparing(m)) /\ UndosStillStart(m, SubmitPreparing(m))
<1> DEFINE n == SubmitPreparing(m)
           task == NewTask("Rename", "Local", FALSE)
<1>1. task.state = "Queued" /\ task.kind # "Undo"
  BY DEF NewTask
<1>2. /\ n.active = m.active /\ n.tasks = With(m.tasks, m.next, task)
      /\ m.next \notin DOMAIN m.tasks
  <2>1. DOMAIN m = {"next", "tasks", "queues", "active"} /\ m.next \in Nat
        /\ \A x \in DOMAIN m.tasks : x \in Nat /\ x < m.next
    BY DEF ManagerInv, ManagerType
  <2>2. QED BY <2>1 DEF SubmitPreparing
<1> HIDE DEF n, task
<1>3. /\ DOMAIN n.tasks = DOMAIN m.tasks \cup {m.next} /\ n.tasks[m.next] = task
      /\ \A x \in DOMAIN m.tasks : n.tasks[x] = m.tasks[x]
  BY <1>2 DEF With
<1>4. QED BY <1>1, <1>2, <1>3, AddedAccepts DEF n

\* submit_recovered_cleanup, count times.
LEMMA SubmitRecoveredAccepts ==
  ASSUME NEW m, ManagerInv(m), NEW count \in Nat
  PROVE  Accepts(m, SubmitRecovered(m, count)) /\ UndosStillStart(m, SubmitRecovered(m, count))
<1> DEFINE n == SubmitRecovered(m, count)
           ids == m.next..(m.next + count - 1)
           task == NewTask("PermanentDelete", "Cleanup", TRUE)
<1>1. task.state = "Queued" /\ task.kind # "Undo"
  BY DEF NewTask
<1>2. /\ n.active = m.active
      /\ n.tasks = [id \in DOMAIN m.tasks \cup ids |-> IF id \in ids THEN task ELSE m.tasks[id]]
  BY DEF SubmitRecovered, ManagerInv, ManagerType
<1>3. DOMAIN m.tasks \cap ids = {}
  <2>1. m.next \in Nat /\ \A x \in DOMAIN m.tasks : x \in Nat /\ x < m.next
    BY DEF ManagerInv, ManagerType
  <2>2. QED BY <2>1
<1> HIDE DEF n, task, ids
<1>4. /\ DOMAIN n.tasks = DOMAIN m.tasks \cup ids
      /\ \A x \in ids : n.tasks[x] = task
      /\ \A x \in DOMAIN m.tasks : n.tasks[x] = m.tasks[x]
  BY <1>2, <1>3
<1>5. QED BY ZenonT(60), <1>1, <1>2, <1>4, AddedAccepts DEF n

\* complete_preparation: the lane of a task that was in none is now known.
LEMMA CompletePreparationAccepts ==
  ASSUME NEW m, ManagerInv(m), UndosStart(m), NEW id, PreparationAccepted(m, id), NEW lane
  PROVE  Accepts(m, CompletePreparation(m, id, lane)) /\ UndosStillStart(m, CompletePreparation(m, id, lane))
<1> DEFINE n == CompletePreparation(m, id, lane)
           task == [m.tasks[id] EXCEPT !.lane = lane]
<1>1. id \in DOMAIN m.tasks /\ m.tasks[id].state = "Queued" /\ m.tasks[id] \in Task
  BY DEF PreparationAccepted, Present, ManagerInv, ManagerType
<1>2. task.kind = m.tasks[id].kind /\ task.kind # "Undo"
  BY <1>1 DEF Task, UndosStart
<1>3. n.active = m.active /\ n.tasks = [m.tasks EXCEPT ![id] = task]
  BY <1>1 DEF CompletePreparation, ManagerInv, ManagerType
<1> HIDE DEF n, task
<1>4. QED BY <1>1, <1>2, <1>3, ChangedAccepts DEF n, InProgress

\* retry, of anything but an undo.
LEMMA RetryAccepts ==
  ASSUME NEW m, ManagerInv(m), NEW id, RetryAccepted(m, id), m.tasks[id].kind # "Undo"
  PROVE  Accepts(m, Retry(m, id)) /\ UndosStillStart(m, Retry(m, id))
<1>1. /\ id \in DOMAIN m.tasks /\ m.tasks[id] \in Task /\ m.tasks[id].state \in Terminal
      /\ Retry(m, id).active = m.active
      /\ Retry(m, id).tasks = [m.tasks EXCEPT ![id] = PrepareRetry(@)]
  BY ZenonT(60), RetryEffect
<1>2. PrepareRetry(m.tasks[id]).kind = m.tasks[id].kind
  BY <1>1, PrepareRetryFresh
<1> DEFINE task == PrepareRetry(m.tasks[id])
           n == Retry(m, id)
<1>3. n.tasks = [m.tasks EXCEPT ![id] = task]
  BY <1>1
<1>4. n.active = m.active /\ task.kind = m.tasks[id].kind /\ task.kind # "Undo"
      /\ m.tasks[id].state \notin InProgress
  BY <1>1, <1>2 DEF InProgress, Terminal
<1> HIDE DEF task, n
<1>5. QED BY <1>1, <1>3, <1>4, ChangedAccepts DEF n

\* Forgetting settled tasks is no matter to the slots.
LEMMA PruneAccepts ==
  ASSUME NEW m, ManagerInv(m), NEW expired \in SUBSET Receipts(m)
  PROVE  Accepts(m, Prune(m, expired)) /\ UndosStillStart(m, Prune(m, expired))
<1> DEFINE n == Prune(m, expired)
           kept == DOMAIN m.tasks \ ((Prunable(m) \ Receipts(m)) \cup expired)
<1>1. n.active = m.active /\ n.tasks = [id \in kept |-> m.tasks[id]]
  BY DEF Prune, ManagerInv, ManagerType
<1>2. /\ kept \subseteq DOMAIN m.tasks
      /\ \A x \in DOMAIN m.tasks : m.tasks[x].state \notin Terminal => x \in kept
  BY DEF Prunable, Receipts, Terminal
<1> HIDE DEF n, kept
<1>3. Contracted(m, n)
  BY <1>1, <1>2 DEF Contracted, InProgress, Terminal
<1>4. \A l \in Lanes : m.active[l] # NoOp => Holder(n, l) = Holder(m, l)
  BY <1>1, <1>2, SlotTask DEF Holder, InProgress, Terminal
<1>5. UndosStillStart(m, n)
  BY <1>1, <1>2 DEF UndosStillStart, UndosStart
<1>6. QED BY <1>1, <1>3, <1>4, <1>5 DEF Accepts, n

\* Starting a lane serves what waited.
LEMMA StartContracted ==
  ASSUME NEW m, NEW c, ManagerInv(c), Contracted(m, c), NEW lane \in Lanes, NEW n,
         n = StartAndMark(c, lane)
  PROVE  Contracted(m, n)
<1>1. CASE n.tasks = c.tasks
  BY <1>1 DEF Contracted
<1>2. CASE \E id : TakesSlot(c, n, lane, id, n.tasks[id])
  <2>1. PICK id : TakesSlot(c, n, lane, id, n.tasks[id])
    BY <1>2
  <2>2. /\ DOMAIN n.tasks = DOMAIN c.tasks /\ c.tasks[id].state = "Queued"
        /\ \A x \in DOMAIN c.tasks : x # id => n.tasks[x] = c.tasks[x]
        /\ n.tasks[id].state \in {"Preflight", "Running"}
    BY <2>1 DEF TakesSlot
  <2>3. \A x \in DOMAIN m.tasks : m.tasks[x].state \in InProgress =>
          x \in DOMAIN c.tasks /\ x # id
    BY <2>2 DEF Contracted, InProgress, Terminal
  <2>4. \A x \in DOMAIN m.tasks : m.tasks[x].state \in InProgress =>
          n.tasks[x].state # "Queued" /\ n.tasks[x].lane = m.tasks[x].lane
    BY <2>2, <2>3 DEF Contracted
  <2>5. \A x \in DOMAIN n.tasks \ DOMAIN m.tasks : n.tasks[x].state \notin Terminal
    BY <2>2 DEF Contracted, Terminal
  <2>6. \A x \in DOMAIN m.tasks : m.tasks[x].state \notin Terminal => x \in DOMAIN n.tasks
    BY <2>2 DEF Contracted
  <2>7. QED BY <2>4, <2>5, <2>6 DEF Contracted
<1>3. QED BY <1>1, <1>2, StartAndMarkEffect

\* Accepting an operation disturbs nothing that is accounted for.
LEMMA AcceptedAccounted ==
  ASSUME NEW m, ManagerInv(m), NEW c, ManagerInv(c), Accepts(m, c),
         NEW ib \in [Lanes -> Seq(Request)], NEW wk \in [Lanes -> WorkerState], NEW rp,
         NEW ev, NEW uq, NEW rs, NEW running, InStep(m, ib, wk, ev, uq),
         Accounts(m, ib, wk, rp, ev, uq, rs, running)
  PROVE  /\ InStep(c, ib, wk, ev, uq)
         /\ Accounts(c, ib, wk, rp, ev, uq, rs, running)
<1>1. c.active = m.active /\ \A l \in Lanes : m.active[l] # NoOp => Holder(c, l) = Holder(m, l)
  BY DEF Accepts
<1>2. SlotsKept(m, c)
  <2> SUFFICES ASSUME NEW l \in Lanes, m.active[l] # NoOp
               PROVE  /\ c.active[l] = m.active[l] /\ m.active[l] \in DOMAIN c.tasks
                      /\ SameService(m.tasks[m.active[l]], c.tasks[m.active[l]])
    BY DEF SlotsKept
  <2>1. m.active[l] \in DOMAIN c.tasks
    BY <1>1, SlotTask
  <2>2. c.tasks[m.active[l]] = m.tasks[m.active[l]]
    BY <1>1 DEF Holder
  <2>3. QED BY <1>1, <2>1, <2>2 DEF SameService
<1>3. InStep(c, ib, wk, ev, uq)
  BY <1>1, <1>2, QuietInStep
<1>4. StartsOnly(m, c, running)
  BY <1>1 DEF StartsOnly
<1>5. Accounts(c, DeliverTo(ib, m, c), wk, rp, ev, uq, rs, running)
  BY <1>4, StartsAccounted
<1>6. DeliverTo(ib, m, c) = ib
  BY <1>1, NothingDelivered
<1>7. QED BY <1>3, <1>5, <1>6

-----------------------------------------------------------------------------
(* Every step goes on accounting for the slots, and keeps the contract.     *)

Accounted ==
  /\ Accounts(manager, inbox, worker, reply, events, uiQueue, responses, undo.running)
  /\ UndosStart(manager)
  /\ \A l \in Lanes : reply[l] => worker[l].pc = "waiting"

GoesOn == Accounted' /\ Contracted(manager, manager')

\* What ServiceInv says to the lemmas above.
LEMMA ServiceParts ==
  ASSUME ServiceInv
  PROVE  /\ ManagerInv(manager) /\ TypeOK
         /\ inbox \in [Lanes -> Seq(Request)] /\ worker \in [Lanes -> WorkerState]
         /\ events \in Seq(Event) /\ uiQueue \in Seq(Event) /\ reply \in [Lanes -> BOOLEAN]
         /\ InStep(manager, inbox, worker, events, uiQueue)
         /\ AllServed(manager, events) /\ AllServed(manager, uiQueue)
         /\ AllMarked(manager)
BY DEF ServiceInv, LanesInv, TypeOK, ManagerConsistent, Serving, InStep, InGoodOrder

\* A step that accepts operations and starts a lane.
LEMMA WorkGoesOn ==
  ASSUME ServiceInv, Accounted, NEW m, ManagerInv(m), Accepts(manager, m), UndosStart(m),
         NEW lane \in Lanes, manager' = StartAndMark(m, lane), inbox' = Deliver(m, manager'),
         UNCHANGED <<work, uiQueue, responses, undo>>
  PROVE  GoesOn
<1> DEFINE n == StartAndMark(m, lane)
<1>1. manager' = n /\ ManagerInv(n) /\ inbox' = DeliverTo(inbox, m, n)
  BY StartAndMarkKeeps DEF Deliver, DeliverTo
<1>2. StartsOnly(m, n, undo.running) /\ UndosStart(n)
  BY StartAndMarkStarts
<1>3. Contracted(manager, n)
  BY StartContracted DEF Accepts
<1> HIDE DEF n
<1>4. /\ InStep(m, inbox, worker, events, uiQueue)
      /\ Accounts(m, inbox, worker, reply, events, uiQueue, responses, undo.running)
  BY ServiceParts, AcceptedAccounted DEF Accounted
<1>5. Accounts(n, DeliverTo(inbox, m, n), worker, reply, events, uiQueue, responses, undo.running)
  BY <1>1, <1>2, <1>4, ServiceParts, StartsAccounted
<1>6. Accounts(manager', inbox', worker', reply', events', uiQueue', responses', undo'.running)
  BY <1>1, <1>5 DEF work
<1>7. \A l \in Lanes : reply'[l] => worker'[l].pc = "waiting"
  BY DEF Accounted, work
<1>8. Accounted'
  BY <1>1, <1>2, <1>6, <1>7 DEF Accounted
<1>9. QED BY <1>1, <1>3, <1>8 DEF GoesOn

\* A step that only accepts, or forgets.
LEMMA AcceptanceGoesOn ==
  ASSUME ServiceInv, Accounted, ManagerConsistent', Accepts(manager, manager'),
         UndosStart(manager'), UNCHANGED <<inbox, work, uiQueue, responses, undo>>
  PROVE  GoesOn
<1>1. ManagerInv(manager')
  BY DEF ManagerConsistent
<1>2. Accounts(manager', inbox, worker, reply, events, uiQueue, responses, undo.running)
  BY <1>1, ServiceParts, AcceptedAccounted DEF Accounted
<1>3. Accounts(manager', inbox', worker', reply', events', uiQueue', responses', undo'.running)
  BY <1>2 DEF work
<1>4. \A l \in Lanes : reply'[l] => worker'[l].pc = "waiting"
  BY DEF Accounted, work
<1>5. Accounted'
  BY <1>3, <1>4 DEF Accounted
<1>6. QED BY <1>5 DEF GoesOn, Accepts

\* A step that leaves the manager and the workers alone.
LEMMA NothingGoesOn ==
  ASSUME ServiceInv, Accounted, UNCHANGED <<manager, inbox, work, uiQueue, responses, undo>>
  PROVE  GoesOn
<1>1. Accounted'
  BY DEF Accounted, work
<1>2. Contracted(manager, manager')
  BY DEF Contracted, InProgress
<1>3. QED BY <1>1, <1>2 DEF GoesOn

\* Enqueueing, preparing, retrying, recovering, pruning.
LEMMA AcceptingGoesOn ==
  ASSUME ServiceInv, Accounted, ManagerConsistent',
         \/ \E pair \in Submittable : EnqueueOperation(pair[1], pair[2])
         \/ EnqueueRename
         \/ \E id \in preparing, lane \in {"Local", "Network"} : RenamePrepared(id, lane)
         \/ \E count \in 0..MaxRecovered : RecoverCleanups(count)
         \/ \E id \in DOMAIN manager.tasks : RetryTask(id)
         \/ \E expired \in SUBSET Receipts(manager) : PruneTasks(expired)
         \/ CloseLastWindow \/ WaitForTasks
  PROVE  GoesOn
<1>0. ManagerInv(manager) /\ UndosStart(manager)
  BY ServiceParts DEF Accounted
<1>1. CASE \E pair \in Submittable : EnqueueOperation(pair[1], pair[2])
  <2>1. PICK pair \in Submittable : EnqueueOperation(pair[1], pair[2])
    BY <1>1
  <2> DEFINE kind == pair[1]
             lane == pair[2]
             m == Submit(manager, kind, lane, FALSE)
  <2>2. kind \in Kinds /\ lane \in Lanes /\ kind # "Undo"
    BY LanesAssumption DEF Kinds, Lanes
  <2> HIDE DEF kind, lane
  <2>3. ManagerInv(m) /\ Accepts(manager, m) /\ UndosStart(m)
    BY <1>0, <2>2, SubmitKeeps, SubmitAccepts DEF UndosStillStart
  <2>4. manager' = StartAndMark(m, lane) /\ inbox' = Deliver(m, manager')
        /\ UNCHANGED <<work, uiQueue, responses, undo>>
    BY <2>1 DEF EnqueueOperation, ui, kind, lane
  <2> HIDE DEF m
  <2>5. QED BY <2>2, <2>3, <2>4, WorkGoesOn
<1>2. CASE EnqueueRename
  <2>1. Accepts(manager, manager') /\ UndosStart(manager')
    BY <1>0, <1>2, SubmitPreparingAccepts DEF EnqueueRename, UndosStillStart
  <2>2. UNCHANGED <<inbox, work, uiQueue, responses, undo>>
    BY <1>2 DEF EnqueueRename, ui
  <2>3. QED BY <2>1, <2>2, AcceptanceGoesOn
<1>3. CASE \E id \in preparing, lane \in {"Local", "Network"} : RenamePrepared(id, lane)
  <2>1. PICK id \in preparing, lane \in {"Local", "Network"} : RenamePrepared(id, lane)
    BY <1>3
  <2>2. lane \in Lanes
    BY DEF Lanes
  <2>3. UNCHANGED <<work, uiQueue, responses, undo>>
    BY <2>1 DEF RenamePrepared, ui
  <2>4. CASE PreparationAccepted(manager, id)
    <3> DEFINE m == CompletePreparation(manager, id, lane)
    <3>1. ManagerInv(m) /\ Accepts(manager, m) /\ UndosStart(m)
      BY <1>0, <2>2, <2>4, CompletePreparationKeeps, CompletePreparationAccepts DEF UndosStillStart
    <3>2. manager' = StartAndMark(m, lane) /\ inbox' = Deliver(m, manager')
      BY <2>1, <2>4 DEF RenamePrepared
    <3> HIDE DEF m
    <3>3. QED BY <2>2, <2>3, <3>1, <3>2, WorkGoesOn
  <2>5. CASE ~PreparationAccepted(manager, id)
    <3>1. UNCHANGED <<manager, inbox>>
      BY <2>1, <2>5 DEF RenamePrepared
    <3>2. QED BY <2>3, <3>1, NothingGoesOn
  <2>6. QED BY <2>4, <2>5
<1>4. CASE \E count \in 0..MaxRecovered : RecoverCleanups(count)
  <2>1. PICK count \in 0..MaxRecovered : RecoverCleanups(count)
    BY <1>4
  <2> DEFINE m == SubmitRecovered(manager, count)
  <2>2. count \in Nat /\ "Cleanup" \in Lanes
    BY LanesAssumption DEF Lanes
  <2>3. ManagerInv(m) /\ Accepts(manager, m) /\ UndosStart(m)
    BY <1>0, <2>2, SubmitRecoveredKeeps, SubmitRecoveredAccepts DEF UndosStillStart
  <2>4. manager' = StartAndMark(m, "Cleanup") /\ inbox' = Deliver(m, manager')
        /\ UNCHANGED <<work, uiQueue, responses, undo>>
    BY <2>1 DEF RecoverCleanups
  <2> HIDE DEF m
  <2>5. QED BY <2>2, <2>3, <2>4, WorkGoesOn
<1>5. CASE \E id \in DOMAIN manager.tasks : RetryTask(id)
  <2>1. PICK id \in DOMAIN manager.tasks : RetryTask(id)
    BY <1>5
  <2> DEFINE m == Retry(manager, id)
             lane == manager.tasks[id].lane
  <2>2. RetryAccepted(manager, id) /\ manager.tasks[id].kind # "Undo"
    BY <2>1 DEF RetryTask
  <2>3. ManagerInv(m) /\ Accepts(manager, m) /\ UndosStart(m)
    BY <1>0, <2>2, RetryKeeps, RetryAccepts DEF UndosStillStart
  <2>4. lane \in Lanes
    BY <1>0, <2>2, RetryEffect
  <2>5. manager' = StartAndMark(m, lane) /\ inbox' = Deliver(m, manager')
        /\ UNCHANGED <<work, uiQueue, responses, undo>>
    BY <2>1 DEF RetryTask, ui
  <2> HIDE DEF m, lane
  <2>6. QED BY <2>3, <2>4, <2>5, WorkGoesOn
<1>6. CASE \E expired \in SUBSET Receipts(manager) : PruneTasks(expired)
  <2>1. PICK expired \in SUBSET Receipts(manager) : PruneTasks(expired)
    BY <1>6
  <2>2. manager' = Prune(manager, expired) /\ UNCHANGED <<inbox, work, uiQueue, responses, undo>>
    BY <2>1 DEF PruneTasks, ui
  <2>3. Accepts(manager, manager') /\ UndosStart(manager')
    BY <1>0, <2>2, PruneAccepts DEF UndosStillStart
  <2>4. QED BY <2>2, <2>3, AcceptanceGoesOn
<1>7. CASE CloseLastWindow \/ WaitForTasks
  BY <1>7, NothingGoesOn DEF CloseLastWindow, WaitForTasks
<1>8. QED BY <1>1, <1>2, <1>3, <1>4, <1>5, <1>6, <1>7

\* A step that changes tasks where they are.
LEMMA ChangeGoesOn ==
  ASSUME ServiceInv, Accounted, ManagerConsistent', manager'.active = manager.active,
         UndosStart(manager'), Contracted(manager, manager'),
         UNCHANGED <<inbox, worker, events, uiQueue, undo>>,
         \A l \in Lanes : manager.active[l] # NoOp =>
           ChangesFitly(manager, manager', l, worker, reply, events, uiQueue, responses,
                        undo.running, reply', responses'),
         \A id \in responses' : HoldsSlot(manager, id),
         \A l \in Lanes : reply'[l] => worker[l].pc = "waiting"
  PROVE  GoesOn
<1>1. ManagerInv(manager')
  BY DEF ManagerConsistent
<1>2. Accounts(manager', inbox, worker, reply', events, uiQueue, responses', undo.running)
  BY <1>1, ServiceParts, ChangeAccounted DEF Accounted
<1>3. Accounts(manager', inbox', worker', reply', events', uiQueue', responses', undo'.running)
  BY <1>2
<1>4. Accounted'
  BY <1>3 DEF Accounted
<1>5. QED BY <1>4 DEF GoesOn

\* A slot that a step leaves alone.
LEMMA UntouchedFits ==
  ASSUME NEW m, NEW n, NEW ib, NEW wk, NEW rp, NEW ev, NEW uq, NEW rs, NEW running, NEW rp2, NEW rs2,
         Accounts(m, ib, wk, rp, ev, uq, rs, running), NEW l \in Lanes, m.active[l] # NoOp,
         Holder(n, l) = Holder(m, l), rp2[l] <=> rp[l], m.active[l] \in rs2 <=> m.active[l] \in rs
  PROVE  ChangesFitly(m, n, l, wk, rp, ev, uq, rs, running, rp2, rs2)
<1>1. MayEnd(Holder(m, l), running) /\ AnswerDue(Holder(m, l), m.active[l], l, wk, rp, rs)
  BY DEF Accounts, SlotsAccounted
<1>2. AnswerDue(Holder(n, l), m.active[l], l, wk, rp2, rs2)
  BY <1>1 DEF AnswerDue, Asking
<1>3. StaysTrue(Holder(m, l), Holder(n, l))
  BY DEF StaysTrue
<1>4. QED BY <1>1, <1>2, <1>3 DEF ChangesFitly, Asking

\* The worker of a lane is busy with the task in its slot.
LEMMA WorkerOfLane ==
  ASSUME NEW m, NEW ib, NEW wk, NEW ev, NEW uq, InStep(m, ib, wk, ev, uq),
         NEW l \in Lanes, wk[l].pc # "idle"
  PROVE  wk[l].id = m.active[l]
BY DEF InStep, LaneInStep

\* How a task may be answered.
Answers(old, new) ==
  /\ new.kind = old.kind /\ new.lane = old.lane
  /\ old.cancelled => new.cancelled
  /\ old.state # "Queued" => new.state # "Queued"
  /\ new.state = "Preflight" => old.state = "Preflight"

\* The decision is passed on, and the task that is answered may change: afterwards it
\* does not ask, nor is it paused if nobody pauses.
LEMMA AnswerGoesOn ==
  ASSUME ServiceInv, Accounted, ManagerConsistent', NEW id, Answer(id),
         manager'.active = manager.active, DOMAIN manager'.tasks = DOMAIN manager.tasks,
         \A x \in DOMAIN manager.tasks : x # id => manager'.tasks[x] = manager.tasks[x],
         id \in DOMAIN manager.tasks => Answers(manager.tasks[id], manager'.tasks[id]),
         HoldsSlot(manager, id) => /\ manager'.tasks[id].state # "WaitingConflict"
                                   /\ NoPause => manager'.tasks[id].state # "Paused",
         UNCHANGED <<inbox, worker, events, uiQueue, undo>>
  PROVE  GoesOn
<1>1. /\ responses' = responses \ {id}
      /\ \A l \in Lanes :
           reply'[l] <=> reply[l] \/ (id \in responses /\ worker[l].pc = "waiting" /\ worker[l].id = id)
  BY DEF Answer
<1>2. UndosStart(manager')
  BY DEF Accounted, UndosStart, Answers
<1>3. Contracted(manager, manager')
  BY DEF Contracted, Answers, InProgress
<1>4. ASSUME NEW l \in Lanes, manager.active[l] # NoOp
      PROVE  ChangesFitly(manager, manager', l, worker, reply, events, uiQueue, responses,
                        undo.running, reply', responses')
  <2>0. Accounts(manager, inbox, worker, reply, events, uiQueue, responses, undo.running)
    BY DEF Accounted
  <2>1. manager.active[l] \in DOMAIN manager.tasks /\ HoldsSlot(manager, manager.active[l])
        /\ manager.tasks[manager.active[l]].lane = l
    BY <1>4, ServiceParts, SlotTask
  <2>2. CASE manager.active[l] # id
    <3>1. Holder(manager', l) = Holder(manager, l)
      BY <2>1, <2>2 DEF Holder
    <3>2. worker[l].pc = "waiting" => worker[l].id = manager.active[l]
      BY ServiceParts, WorkerOfLane
    <3>3. reply'[l] <=> reply[l]
      BY <1>1, <2>2, <3>2
    <3>4. manager.active[l] \in responses' <=> manager.active[l] \in responses
      BY <1>1, <2>2
    <3>5. QED BY <1>4, <2>0, <3>1, <3>3, <3>4, UntouchedFits
  <2>3. CASE manager.active[l] = id
    <3> DEFINE old == Holder(manager, l)
               new == Holder(manager', l)
    <3>1. /\ Answers(old, new) /\ new.state # "WaitingConflict" /\ (NoPause => new.state # "Paused")
          /\ old = manager.tasks[id] /\ new = manager'.tasks[id]
      BY <2>1, <2>3 DEF Holder
    <3>2. MayEnd(old, undo.running) /\ AnswerDue(old, id, l, worker, reply, responses)
      BY <1>4, <2>0, <2>3 DEF Accounts, SlotsAccounted
    <3> HIDE DEF old, new
    <3>3. MayEnd(new, undo.running)
      BY <3>1, <3>2 DEF MayEnd, Answers, UsesLocalRecycleBatch
    <3>4. id \notin responses'
      BY <1>1
    <3>5. AnswerDue(new, id, l, worker, reply', responses')
      BY <3>1, <3>2, <3>4 DEF AnswerDue, Answers
    <3>6. StaysTrue(old, new)
      BY <3>1 DEF StaysTrue, Answers
    <3>7. Asking(l, worker, reply) /\ id \notin responses => Asking(l, worker, reply')
      BY <1>1 DEF Asking
    <3>8. QED BY <2>3, <3>3, <3>4, <3>5, <3>6, <3>7 DEF ChangesFitly, old, new
  <2>4. QED BY <2>2, <2>3
<1>5. \A x \in responses' : HoldsSlot(manager, x)
  BY <1>1 DEF Accounted, Accounts
<1>6. \A l \in Lanes : reply'[l] => worker[l].pc = "waiting"
  BY <1>1 DEF Accounted
<1>7. QED BY <1>2, <1>3, <1>4, <1>5, <1>6, ChangeGoesOn

\* Cancelling one task.
LEMMA CancelGoesOn ==
  ASSUME ServiceInv, Accounted, ManagerConsistent', NEW id \in DOMAIN manager.tasks, CancelTask(id)
  PROVE  GoesOn
<1> DEFINE old == manager.tasks[id]
<1>0. ManagerInv(manager) /\ old \in Task
  BY ServiceParts DEF ManagerInv, ManagerType
<1>1. /\ manager'.active = manager.active
      /\ manager'.tasks = [manager.tasks EXCEPT ![id] = RequestCancel(@)]
      /\ Answer(id) /\ UNCHANGED <<inbox, worker, events, uiQueue, undo>>
  BY <1>0, CancelEffect DEF CancelTask, ui
<1>2. /\ Onward(old, RequestCancel(old)) /\ RequestCancel(old).lane = old.lane
      /\ old.state = "Queued" => RequestCancel(old).state = "Cancelled"
      /\ old.state \in InProgress => RequestCancel(old).state = "Cancelling"
      /\ old.state \in Terminal => RequestCancel(old).state = old.state
      /\ old.state \in States
  BY <1>0, OnwardSteps, RequestCancelType DEF Task
<1>3. /\ DOMAIN manager'.tasks = DOMAIN manager.tasks
      /\ \A x \in DOMAIN manager.tasks : x # id => manager'.tasks[x] = manager.tasks[x]
      /\ manager'.tasks[id] = RequestCancel(old)
  BY <1>1
<1> HIDE DEF old
<1>4. Answers(old, manager'.tasks[id])
  <2>1. old.state # "Queued" => RequestCancel(old).state # "Queued"
    BY <1>2 DEF InProgress, Terminal, States
  <2>2. RequestCancel(old).state = "Preflight" => old.state = "Preflight"
    BY <1>2 DEF InProgress, Terminal, States
  <2>3. QED BY <1>2, <1>3, <2>1, <2>2 DEF Answers, Onward
<1>5. HoldsSlot(manager, id) => old.state \in InProgress
  BY <1>0, HolderTask DEF old
<1>6. HoldsSlot(manager, id) => manager'.tasks[id].state \notin {"WaitingConflict", "Paused"}
  BY <1>2, <1>3, <1>5
<1>7. QED BY <1>1, <1>3, <1>4, <1>6, AnswerGoesOn DEF old

\* What an answered conflict does to its task.
LEMMA ResolveConflictEffect ==
  ASSUME NEW task \in Task
  PROVE  /\ Answers(task, ResolveConflict(task))
         /\ (task.state = "WaitingConflict" => task.conflict) =>
              ResolveConflict(task).state # "WaitingConflict"
         /\ task.state # "Paused" => ResolveConflict(task).state # "Paused"
<1>1. CASE ~task.conflict
  BY <1>1 DEF ResolveConflict, Answers
<1>2. CASE task.conflict
  <2> DEFINE t == [task EXCEPT !.conflict = FALSE, !.paused = FALSE]
  <2>1. /\ t \in Task /\ t.kind = task.kind /\ t.lane = task.lane /\ t.state = task.state
        /\ t.cancelled = task.cancelled
    BY DEF Task
  <2> HIDE DEF t
  <2>2. ResolveConflict(task) = Transition(t, "Running")
    BY <1>2 DEF ResolveConflict, t
  <2>3. /\ Transition(t, "Running").kind = t.kind /\ Transition(t, "Running").lane = t.lane
        /\ Transition(t, "Running").cancelled = t.cancelled
        /\ Transition(t, "Running").state =
             IF t.state \in {"Preflight", "Paused", "WaitingConflict"} THEN "Running" ELSE t.state
    BY <2>1 DEF Transition, CanTransition, Task
  <2>4. QED BY <2>1, <2>2, <2>3 DEF Answers
<1>3. QED BY <1>1, <1>2

\* Answering the conflict window.
LEMMA ResolveGoesOn ==
  ASSUME ServiceInv, Accounted, ManagerConsistent', ResolveDialog
  PROVE  GoesOn
<1> DEFINE id == dialog
           old == manager.tasks[id]
<1>0. ManagerInv(manager)
  BY ServiceParts
<1>1. Answer(id) /\ UNCHANGED <<inbox, worker, events, uiQueue, undo>>
  BY DEF ResolveDialog, ui
<1>2. CASE id \notin DOMAIN manager.tasks
  <2>1. manager' = manager
    BY <1>2 DEF ResolveDialog, Present
  <2>2. ~HoldsSlot(manager, id)
    BY <1>2 DEF HoldsSlot, Present
  <2> HIDE DEF id
  <2>3. QED BY <1>1, <1>2, <2>1, <2>2, AnswerGoesOn
<1>3. CASE id \in DOMAIN manager.tasks
  <2>1. manager' = [manager EXCEPT !.tasks[id] = ResolveConflict(old)]
    BY <1>3 DEF ResolveDialog, Present, Update
  <2>2. old \in Task
    BY <1>0, <1>3 DEF ManagerInv, ManagerType
  <2>3. /\ Answers(old, ResolveConflict(old))
        /\ (old.state = "WaitingConflict" => old.conflict) =>
             ResolveConflict(old).state # "WaitingConflict"
        /\ old.state # "Paused" => ResolveConflict(old).state # "Paused"
    BY <2>2, ResolveConflictEffect
  <2>4. /\ manager'.active = manager.active
        /\ manager'.tasks = [manager.tasks EXCEPT ![id] = ResolveConflict(old)]
    <3> DEFINE task == ResolveConflict(old)
    <3>1. manager' = [manager EXCEPT !.tasks[id] = task]
      BY <2>1
    <3>2. DOMAIN manager = {"next", "tasks", "queues", "active"}
      BY <1>0 DEF ManagerInv, ManagerType
    <3> HIDE DEF task, id
    <3>3. manager'.active = manager.active /\ manager'.tasks = [manager.tasks EXCEPT ![id] = task]
      BY <1>3, <3>1, <3>2
    <3>4. QED BY <3>3 DEF task
  <2>5. /\ DOMAIN manager'.tasks = DOMAIN manager.tasks
        /\ \A x \in DOMAIN manager.tasks : x # id => manager'.tasks[x] = manager.tasks[x]
        /\ manager'.tasks[id] = ResolveConflict(old)
    BY <1>3, <2>4
  <2>6. ASSUME HoldsSlot(manager, id)
        PROVE  (NoPause => old.state # "Paused") /\ (old.state = "WaitingConflict" => old.conflict)
    <3> DEFINE l == old.lane
    <3>1. l \in Lanes /\ manager.active[l] = id /\ id # NoOp
      BY <1>0, <2>6, HolderTask
    <3>2. Holder(manager, l) = old
      BY <3>1 DEF Holder
    <3> HIDE DEF l, old, id
    <3>3. MayEnd(old, undo.running) /\ AnswerDue(old, id, l, worker, reply, responses)
      BY <3>1, <3>2 DEF Accounted, Accounts, SlotsAccounted
    <3>4. QED BY <3>3 DEF MayEnd, AnswerDue
  <2>7. HoldsSlot(manager, id) => /\ manager'.tasks[id].state # "WaitingConflict"
                                  /\ NoPause => manager'.tasks[id].state # "Paused"
    BY <2>3, <2>5, <2>6
  <2>8. Answers(old, manager'.tasks[id])
    BY <2>3, <2>5
  <2> HIDE DEF id
  <2>9. QED BY <1>1, <2>4, <2>5, <2>7, <2>8, AnswerGoesOn
<1>4. QED BY <1>2, <1>3

\* "Cancel the tasks and exit" answers every conflict and cancels every task.
LEMMA CancelAllGoesOn ==
  ASSUME ServiceInv, Accounted, ManagerConsistent', CancelTasksAndExit
  PROVE  GoesOn
<1>0. ManagerInv(manager) /\ \A x \in DOMAIN manager.tasks : manager.tasks[x] \in Task
  BY ServiceParts DEF ManagerInv, ManagerType
<1>1. /\ UNCHANGED <<inbox, worker, events, uiQueue, undo>>
      /\ responses' = responses \ ActiveIds(manager)
  BY DEF CancelTasksAndExit
<1>2. \A l \in Lanes : reply'[l] => worker[l].pc = "waiting"
  BY DEF CancelTasksAndExit, Accounted
<1>3. /\ manager'.active = manager.active
      /\ manager'.tasks = [x \in DOMAIN manager.tasks |->
                             IF x \in ActiveIds(manager) THEN RequestCancel(manager.tasks[x])
                             ELSE manager.tasks[x]]
  BY <1>0 DEF CancelTasksAndExit, AllCancelled, ManagerInv, ManagerType
<1>4. DOMAIN manager'.tasks = DOMAIN manager.tasks
  BY <1>3
<1>5. ASSUME NEW x \in DOMAIN manager.tasks
      PROVE  /\ manager'.tasks[x].kind = manager.tasks[x].kind
             /\ manager'.tasks[x].lane = manager.tasks[x].lane
             /\ manager.tasks[x].cancelled => manager'.tasks[x].cancelled
             /\ manager.tasks[x].state # "Queued" => manager'.tasks[x].state # "Queued"
             /\ manager.tasks[x].state \in InProgress =>
                  /\ manager'.tasks[x].cancelled
                  /\ manager'.tasks[x].state = "Cancelling"
                  /\ x \in ActiveIds(manager)
  <2> DEFINE old == manager.tasks[x]
             new == manager'.tasks[x]
  <2>1. /\ Onward(old, RequestCancel(old)) /\ RequestCancel(old).lane = old.lane
        /\ old.state = "Queued" => RequestCancel(old).state = "Cancelled"
        /\ old.state \in InProgress => RequestCancel(old).state = "Cancelling"
        /\ old.state \in Terminal => RequestCancel(old).state = old.state
        /\ old.state \in States
    BY <1>0, OnwardSteps, RequestCancelType DEF Task
  <2>2. RequestCancel(old).cancelled
    BY <1>0 DEF RequestCancel, Transition, Task
  <2>3. /\ x \in ActiveIds(manager) => new = RequestCancel(old)
        /\ x \notin ActiveIds(manager) => new = old
        /\ old.state \in InProgress => x \in ActiveIds(manager)
    BY <1>3 DEF ActiveIds, IsActive, InProgress, Terminal
  <2> HIDE DEF old, new
  <2>4. old.state # "Queued" => RequestCancel(old).state # "Queued"
    BY <2>1 DEF InProgress, Terminal, States
  <2>5. QED BY <2>1, <2>2, <2>3, <2>4 DEF Onward, old, new
<1>6. UndosStart(manager')
  BY <1>4, <1>5 DEF Accounted, UndosStart
<1>7. Contracted(manager, manager')
  BY <1>4, <1>5 DEF Contracted, InProgress
<1>8. ASSUME NEW id, HoldsSlot(manager, id)
      PROVE  id \notin responses'
  <2>1. id \in DOMAIN manager.tasks /\ manager.tasks[id].state \in InProgress
    BY <1>0, <1>8, HolderTask
  <2>2. QED BY <1>1, <1>5, <2>1
<1>9. ASSUME NEW l \in Lanes, manager.active[l] # NoOp
      PROVE  ChangesFitly(manager, manager', l, worker, reply, events, uiQueue, responses,
                        undo.running, reply', responses')
  <2> DEFINE old == Holder(manager, l)
             new == Holder(manager', l)
             id == manager.active[l]
  <2>1. id \in DOMAIN manager.tasks /\ HoldsSlot(manager, id) /\ old = manager.tasks[id]
        /\ manager.tasks[id].state \in InProgress /\ new = manager'.tasks[id]
    BY <1>0, <1>3, <1>9, SlotTask DEF Holder
  <2>2. MayEnd(old, undo.running) /\ AnswerDue(old, id, l, worker, reply, responses)
    BY <1>9 DEF Accounted, Accounts, SlotsAccounted
  <2>3. id \notin responses'
    BY <1>8, <2>1
  <2>4. /\ new.kind = old.kind /\ new.lane = old.lane /\ new.cancelled /\ new.state = "Cancelling"
    BY <1>5, <2>1
  <2> HIDE DEF old, new, id
  <2>5. QED BY <2>2, <2>3, <2>4 DEF ChangesFitly, StaysTrue, MayEnd, AnswerDue, id, old, new
<1>10. \A id \in responses' : HoldsSlot(manager, id)
  BY <1>1 DEF Accounted, Accounts
<1>11. QED BY <1>1, <1>2, <1>3, <1>6, <1>7, <1>9, <1>10, ChangeGoesOn

\* What the button does to a task.
LEMMA SetPausedEffect ==
  ASSUME NEW task \in Task, task.state \in {"Running", "Paused"}, NEW new,
         new = SetPaused(task, task.state = "Running")
  PROVE  /\ new.kind = task.kind /\ new.lane = task.lane /\ new.cancelled = task.cancelled
         /\ new.state \in {"Running", "Paused"}
<1>1. CASE task.state = "Running"
  BY <1>1 DEF SetPaused, Task
<1>2. CASE task.state = "Paused"
  BY <1>2 DEF SetPaused, Task
<1>3. QED BY <1>1, <1>2

\* Pausing a task, or letting it go on.
LEMMA PauseGoesOn ==
  ASSUME ServiceInv, Accounted, ManagerConsistent', NEW id \in DOMAIN manager.tasks, PauseOrResume(id)
  PROVE  GoesOn
<1> DEFINE old == manager.tasks[id]
           new == SetPaused(old, old.state = "Running")
<1>1. ManagerInv(manager) /\ old \in Task
  BY ServiceParts DEF ManagerInv, ManagerType
<1>2. /\ ~NoPause /\ old.state \in {"Running", "Paused"} /\ manager' = [manager EXCEPT !.tasks[id] = new]
      /\ UNCHANGED <<inbox, worker, reply, events, uiQueue, responses, undo>>
  BY DEF PauseOrResume, Update, Present, NoPause, work, ui
<1>3. /\ new.kind = old.kind /\ new.lane = old.lane /\ new.cancelled = old.cancelled
      /\ new.state \in {"Running", "Paused"}
  BY <1>1, <1>2, SetPausedEffect
<1> HIDE DEF new
<1>4. /\ manager'.active = manager.active /\ DOMAIN manager'.tasks = DOMAIN manager.tasks
      /\ manager'.tasks[id] = new
      /\ \A x \in DOMAIN manager.tasks : x # id => manager'.tasks[x] = manager.tasks[x]
  <2>1. DOMAIN manager = {"next", "tasks", "queues", "active"}
    BY <1>1 DEF ManagerInv, ManagerType
  <2>2. QED BY <1>2, <2>1
<1> HIDE DEF old
<1>5. UndosStart(manager')
  BY <1>3, <1>4 DEF Accounted, UndosStart, old
<1>6. Contracted(manager, manager')
  BY <1>3, <1>4 DEF Contracted, InProgress, old
<1>7. ASSUME NEW l \in Lanes, manager.active[l] # NoOp
      PROVE  ChangesFitly(manager, manager', l, worker, reply, events, uiQueue, responses,
                        undo.running, reply, responses)
  <2>0. Accounts(manager, inbox, worker, reply, events, uiQueue, responses, undo.running)
    BY DEF Accounted
  <2>1. manager.active[l] \in DOMAIN manager.tasks
    BY <1>1, <1>7, SlotTask
  <2>2. CASE manager.active[l] # id
    <3>1. Holder(manager', l) = Holder(manager, l)
      BY <1>4, <2>1, <2>2 DEF Holder
    <3>2. QED BY <1>7, <2>0, <3>1, UntouchedFits
  <2>3. CASE manager.active[l] = id
    <3>1. Holder(manager, l) = old /\ Holder(manager', l) = new
      BY <1>4, <2>3 DEF Holder, old
    <3>2. AnswerDue(old, id, l, worker, reply, responses)
      BY <1>7, <2>0, <2>3, <3>1 DEF Accounts, SlotsAccounted
    <3>3. AnswerDue(new, id, l, worker, reply, responses)
      BY <1>3, <3>2 DEF AnswerDue
    <3>4. MayEnd(new, undo.running) /\ StaysTrue(old, new)
      BY <1>2, <1>3 DEF MayEnd, StaysTrue
    <3>5. QED BY <2>3, <3>1, <3>3, <3>4 DEF ChangesFitly
  <2>4. QED BY <2>2, <2>3
<1>8. /\ \A x \in responses : HoldsSlot(manager, x)
      /\ \A l \in Lanes : reply[l] => worker[l].pc = "waiting"
  BY DEF Accounted, Accounts
<1>9. QED BY <1>2, <1>4, <1>5, <1>6, <1>7, <1>8, ChangeGoesOn

-----------------------------------------------------------------------------
(* The pump and the conflict handler.                                       *)

\* The rest of the events is forwarded.
LEMMA ForwardGoesOn ==
  ASSUME ServiceInv, Accounted, PumpForward
  PROVE  GoesOn
<1>1. Accounts(manager, inbox, worker, reply, Tail(events), Append(uiQueue, Head(events)), responses,
               undo.running)
  BY ServiceParts, ForwardAccounted DEF Accounted, PumpForward
<1>2. Accounts(manager', inbox', worker', reply', events', uiQueue', responses', undo'.running)
  BY <1>1 DEF PumpForward, ui
<1>3. manager' = manager /\ UNCHANGED <<reply, worker>>
  BY DEF PumpForward
<1>4. Accounted'
  BY <1>2, <1>3 DEF Accounted
<1>5. Contracted(manager, manager')
  BY <1>3 DEF Contracted, InProgress
<1>6. QED BY <1>4, <1>5 DEF GoesOn

\* The batch of a slot begins.
LEMMA BegunEffect ==
  ASSUME NEW m, ManagerInv(m), NEW id, HoldsSlot(m, id), m.tasks[id].state = "Preflight",
         NEW n, n = MarkRunning(m, id)
  PROVE  /\ n.active = m.active /\ DOMAIN n.tasks = DOMAIN m.tasks
         /\ \A x \in DOMAIN m.tasks : x # id => n.tasks[x] = m.tasks[x]
         /\ n.tasks[id] = [m.tasks[id] EXCEPT !.state = "Running"]
<1>1. id \in DOMAIN m.tasks /\ DOMAIN m = {"next", "tasks", "queues", "active"}
  BY HolderTask DEF ManagerInv, ManagerType
<1> DEFINE task == [m.tasks[id] EXCEPT !.state = "Running"]
<1>2. n = [m EXCEPT !.tasks[id] = Transition(@, "Running")]
  BY DEF MarkRunning
<1>3. Transition(m.tasks[id], "Running") = task
  BY DEF Transition, CanTransition
<1> HIDE DEF task
<1>4. n.active = m.active /\ n.tasks = [m.tasks EXCEPT ![id] = task]
  BY <1>1, <1>2, <1>3
<1>5. QED BY <1>1, <1>4 DEF task

\* A cancelled task in a slot shows it.
LEMMA CancelledShows ==
  ASSUME NEW m, ManagerInv(m), AllMarked(m), NEW id, HoldsSlot(m, id)
  PROVE  m.tasks[id].cancelled <=> m.tasks[id].state = "Cancelling"
<1>1. id \in DOMAIN m.tasks /\ m.tasks[id].state \in InProgress
  BY HolderTask
<1>2. QED BY <1>1 DEF AllMarked, Marked, IsActive, InProgress, Terminal

\* Progress marks the task running.
LEMMA ExecutingGoesOn ==
  ASSUME ServiceInv, Accounted, ManagerConsistent', PumpExecuting
  PROVE  GoesOn
<1> DEFINE e == Head(events)
           id == e.id
<1>1. /\ events # <<>> /\ e.type = "Executing" /\ events' = Tail(events)
      /\ UNCHANGED <<inbox, worker, reply, uiQueue, responses, undo>>
  BY DEF PumpExecuting, ui
<1>2. HoldsSlot(manager, id) /\ ~IsCompletion(e)
  <2>1. Served(manager, Head(events))
    BY <1>1, ServiceParts, TailOfQueue DEF InStep
  <2>2. QED BY <1>1, <2>1 DEF Served, IsCompletion
<1>3. ManagerInv(manager) /\ ManagerInv(manager') /\ AllMarked(manager)
  BY ServiceParts DEF ManagerConsistent
<1>4. id \in DOMAIN manager.tasks /\ manager.tasks[id].lane \in Lanes
      /\ manager.active[manager.tasks[id].lane] = id
  BY <1>2, <1>3, HolderTask
<1>5. /\ manager' = manager => manager.tasks[id].state # "Preflight" \/ manager'.tasks[id].state # "Preflight"
      /\ manager' = manager \/ (manager.tasks[id].state = "Preflight" /\ manager' = MarkRunning(manager, id))
  <2>1. CASE ~manager.tasks[id].cancelled /\ manager.tasks[id].state = "Preflight"
    <3>1. manager' = MarkRunning(manager, id)
      BY <1>4, <2>1 DEF PumpExecuting, Present
    <3>2. manager'.tasks[id].state = "Running"
      <4>1. manager'.tasks[id] = [manager.tasks[id] EXCEPT !.state = "Running"]
        BY <1>2, <1>3, <2>1, <3>1, BegunEffect
      <4>2. manager.tasks[id] \in Task
        BY <1>2, <1>3, HolderTask
      <4>3. QED BY <4>1, <4>2 DEF Task
    <3>3. QED BY <2>1, <3>1, <3>2
  <2>2. CASE ~(~manager.tasks[id].cancelled /\ manager.tasks[id].state = "Preflight")
    <3>1. manager' = manager
      BY <2>2 DEF PumpExecuting
    <3>2. manager.tasks[id].state # "Preflight"
      BY <1>2, <1>3, <2>2, CancelledShows
    <3>3. QED BY <3>1, <3>2
  <2>3. QED BY <2>1, <2>2
<1> HIDE DEF id
<1>6. /\ manager'.active = manager.active /\ UndosStart(manager') /\ Contracted(manager, manager')
      /\ manager'.tasks[id].state # "Preflight"
      /\ Accounts(manager', inbox, worker, reply, events, uiQueue, responses, undo.running)
  <2>0. Accounts(manager, inbox, worker, reply, events, uiQueue, responses, undo.running)
        /\ UndosStart(manager)
    BY DEF Accounted
  <2>1. CASE manager' = manager
    <3>1. Contracted(manager, manager')
      BY <2>1 DEF Contracted, InProgress
    <3>2. QED BY <1>5, <2>0, <2>1, <3>1
  <2>2. CASE manager.tasks[id].state = "Preflight" /\ manager' = MarkRunning(manager, id)
    <3>1. /\ manager'.active = manager.active /\ DOMAIN manager'.tasks = DOMAIN manager.tasks
          /\ \A x \in DOMAIN manager.tasks : x # id => manager'.tasks[x] = manager.tasks[x]
          /\ manager'.tasks[id] = [manager.tasks[id] EXCEPT !.state = "Running"]
      BY <1>2, <1>3, <2>2, BegunEffect
    <3>2. /\ manager'.tasks[id].state = "Running" /\ manager'.tasks[id].kind = manager.tasks[id].kind
          /\ manager'.tasks[id].lane = manager.tasks[id].lane
          /\ manager'.tasks[id].cancelled = manager.tasks[id].cancelled
      <4>1. manager.tasks[id] \in Task
        BY <1>2, <1>3, HolderTask
      <4>2. QED BY <3>1, <4>1 DEF Task
    <3>3. UndosStart(manager')
      <4> SUFFICES ASSUME NEW x \in DOMAIN manager'.tasks, manager'.tasks[x].kind = "Undo"
                   PROVE  manager'.tasks[x].lane = "Local" /\ manager'.tasks[x].state # "Queued"
        BY DEF UndosStart
      <4>1. x \in DOMAIN manager.tasks /\ manager.tasks[x].kind = "Undo"
        BY <3>1, <3>2
      <4>2. manager.tasks[x].lane = "Local" /\ manager.tasks[x].state # "Queued"
        BY <2>0, <4>1 DEF UndosStart
      <4>3. CASE x = id
        BY <3>2, <4>2, <4>3
      <4>4. CASE x # id
        BY <3>1, <4>1, <4>2, <4>4
      <4>5. QED BY <4>3, <4>4
    <3>4. Contracted(manager, manager')
      BY <3>1, <3>2 DEF Contracted, InProgress
    <3>5. ASSUME NEW l \in Lanes, manager.active[l] # NoOp
          PROVE  ChangesFitly(manager, manager', l, worker, reply, events, uiQueue, responses,
                        undo.running, reply, responses)
      <4>1. CASE manager.active[l] # id
        <5>1. Holder(manager', l) = Holder(manager, l)
          BY <1>3, <3>1, <3>5, <4>1, SlotTask DEF Holder
        <5>2. QED BY <2>0, <3>5, <5>1, UntouchedFits
      <4>2. CASE manager.active[l] = id
        <5>1. MayEnd(Holder(manager, l), undo.running)
              /\ AnswerDue(Holder(manager, l), id, l, worker, reply, responses)
          BY <2>0, <3>5, <4>2 DEF Accounts, SlotsAccounted
        <5>2. Holder(manager, l) = manager.tasks[id] /\ Holder(manager', l) = manager'.tasks[id]
          BY <3>1, <4>2 DEF Holder
        <5>3. QED BY <2>2, <3>2, <4>2, <5>1, <5>2 DEF ChangesFitly, StaysTrue, MayEnd, AnswerDue
      <4>3. QED BY <4>1, <4>2
    <3>6. \A x \in responses : HoldsSlot(manager, x)
      BY <2>0 DEF Accounts
    <3>7. Accounts(manager', inbox, worker, reply, events, uiQueue, responses, undo.running)
      BY <1>3, <2>0, <3>1, <3>5, <3>6, ServiceParts, ChangeAccounted
    <3>8. QED BY <3>1, <3>2, <3>3, <3>4, <3>7
  <2>3. QED BY <1>5, <2>1, <2>2
<1>7. Accounts(manager', inbox, worker, reply, Tail(events), uiQueue, responses, undo.running)
  <2> HIDE DEF e
  <2>1. events \in Seq(Event) /\ Head(events) = e
    BY ServiceParts DEF e
  <2>2. QED BY <1>1, <1>2, <1>6, <2>1, DropAccounted DEF id
<1>8. Accounts(manager', inbox', worker', reply', events', uiQueue', responses', undo'.running)
  BY <1>1, <1>7
<1>9. \A l \in Lanes : reply'[l] => worker'[l].pc = "waiting"
  BY <1>1 DEF Accounted
<1>10. Accounted'
  BY <1>6, <1>8, <1>9 DEF Accounted
<1>11. QED BY <1>6, <1>10 DEF GoesOn

\* What a conflict does to the task it is about.
LEMMA SetConflictEffect ==
  ASSUME NEW m, ManagerInv(m), NEW id, HoldsSlot(m, id), NEW n,
         n = Update(m, id, SetConflict(m.tasks[id]))
  PROVE  /\ n.active = m.active /\ DOMAIN n.tasks = DOMAIN m.tasks
         /\ \A x \in DOMAIN m.tasks : x # id => n.tasks[x] = m.tasks[x]
         /\ n.tasks[id].kind = m.tasks[id].kind /\ n.tasks[id].lane = m.tasks[id].lane
         /\ n.tasks[id].cancelled = m.tasks[id].cancelled
         /\ m.tasks[id].state = "Running" =>
              n.tasks[id].state = "WaitingConflict" /\ n.tasks[id].conflict
         /\ m.tasks[id].state # "Running" => n.tasks[id] = m.tasks[id]
<1>1. id \in DOMAIN m.tasks /\ DOMAIN m = {"next", "tasks", "queues", "active"} /\ m.tasks[id] \in Task
  BY HolderTask DEF ManagerInv, ManagerType
<1> DEFINE old == m.tasks[id]
           new == SetConflict(old)
<1>2. n = [m EXCEPT !.tasks[id] = new]
  BY <1>1 DEF Update, Present
<1>3. /\ new.kind = old.kind /\ new.lane = old.lane /\ new.cancelled = old.cancelled
      /\ old.state = "Running" => new.state = "WaitingConflict" /\ new.conflict
      /\ old.state # "Running" => new = old
  <2>1. <<old.state, "WaitingConflict">> \in CanTransition <=> old.state = "Running"
    BY DEF CanTransition
  <2>2. CASE old.state = "Running"
    BY <1>1, <2>1, <2>2 DEF SetConflict, Task
  <2>3. CASE old.state # "Running"
    BY <1>1, <2>1, <2>3 DEF SetConflict
  <2>4. QED BY <2>2, <2>3
<1> HIDE DEF old, new
<1>4. n.active = m.active /\ n.tasks = [m.tasks EXCEPT ![id] = new]
  BY <1>1, <1>2
<1>5. QED BY <1>1, <1>3, <1>4 DEF old

\* A conflict is recorded: its task waits unless it is paused, and its worker does
\* already.
LEMMA ConflictGoesOn ==
  ASSUME ServiceInv, Accounted, ManagerConsistent', HandleConflict
  PROVE  GoesOn
<1> DEFINE e == Head(uiQueue)
           id == e.id
           uq == Tail(uiQueue)
           l == manager.tasks[id].lane
           old == manager.tasks[id]
           new == manager'.tasks[id]
<1>1. /\ uiQueue # <<>> /\ e.type = "Conflict" /\ uiQueue' = uq
      /\ responses' = responses \cup {id}
      /\ UNCHANGED <<inbox, worker, reply, events, undo>>
  BY DEF HandleConflict, HandlerTail, work
<1>2. ManagerInv(manager) /\ ManagerInv(manager') /\ AllMarked(manager)
  BY ServiceParts DEF ManagerConsistent
<1>3. HoldsSlot(manager, id) /\ InStep(manager, inbox, worker, events, uq)
  <2>1. InStep(manager, inbox, worker, events, uq) /\ Served(manager, e)
    BY <1>1, ServiceParts, HandledDropped
  <2>2. QED BY <2>1 DEF Served
<1>4. /\ id \in DOMAIN manager.tasks /\ l \in Lanes /\ manager.active[l] = id /\ id # NoOp
      /\ old.state \in InProgress
  BY <1>2, <1>3, HolderTask
<1>5. /\ manager'.active = manager.active /\ DOMAIN manager'.tasks = DOMAIN manager.tasks
      /\ \A x \in DOMAIN manager.tasks : x # id => manager'.tasks[x] = manager.tasks[x]
      /\ new.kind = old.kind /\ new.lane = old.lane /\ new.cancelled = old.cancelled
      /\ old.state = "Running" => new.state = "WaitingConflict" /\ new.conflict
      /\ old.state # "Running" => new = old
  <2>1. manager' = Update(manager, id, SetConflict(old))
    BY <1>4 DEF HandleConflict, Present
  <2> HIDE DEF id, l
  <2>2. /\ manager'.active = manager.active /\ DOMAIN manager'.tasks = DOMAIN manager.tasks
        /\ \A x \in DOMAIN manager.tasks : x # id => manager'.tasks[x] = manager.tasks[x]
    BY <1>2, <1>3, <2>1, SetConflictEffect
  <2>3. /\ new.kind = old.kind /\ new.lane = old.lane /\ new.cancelled = old.cancelled
        /\ old.state = "Running" => new.state = "WaitingConflict" /\ new.conflict
        /\ old.state # "Running" => new = old
    BY <1>2, <1>3, <2>1, SetConflictEffect
  <2>4. QED BY <2>2, <2>3
<1>6. /\ Accounts(manager, inbox, worker, reply, events, uq, responses, undo.running)
      /\ Truthful(manager, e, worker, reply, responses)
      /\ ~old.cancelled => ~Told(events, uq, id)
  <2>1. Accounts(manager, inbox, worker, reply, events, uiQueue, responses, undo.running)
    BY DEF Accounted
  <2>2. ~IsCompletion(e)
    BY <1>1 DEF IsCompletion
  <2>3. /\ Accounts(manager, inbox, worker, reply, events, uq, responses, undo.running)
        /\ Truthful(manager, e, worker, reply, responses)
        /\ e.type = "Conflict" /\ ~old.cancelled => ~Told(events, uq, id)
    BY <1>1, <2>1, <2>2, ServiceParts, HandleAccounted
  <2>4. QED BY <1>1, <2>3
<1>7. /\ MayEnd(old, undo.running) /\ AnswerDue(old, id, l, worker, reply, responses)
  <2>1. Holder(manager, l) = old
    BY <1>4 DEF Holder
  <2> HIDE DEF old, l, uq
  <2>2. QED BY <1>4, <1>6, <2>1 DEF Accounts, SlotsAccounted
<1>8. old.kind = "Copy" /\ (~old.cancelled => Asking(l, worker, reply) /\ id \notin responses)
  BY <1>1, <1>6 DEF Truthful, FreshConflict
<1>9. old.cancelled <=> old.state = "Cancelling"
  BY <1>2, <1>3, CancelledShows
<1>10. ~old.cancelled => old.state \in {"Running", "Paused"} /\ (NoPause => old.state = "Running")
  <2> HIDE DEF old, id, l
  <2>1. QED BY <1>4, <1>7, <1>8, <1>9 DEF MayEnd, AnswerDue, UsesLocalRecycleBatch, InProgress
<1> HIDE DEF old, new, l, id, uq
<1>11. /\ new.kind = "Copy" /\ new.state \notin {"Queued", "Preflight"}
       /\ NoPause => new.state # "Paused"
       /\ new.cancelled => new.state # "WaitingConflict"
       /\ new.state = "WaitingConflict" => new.conflict
       /\ new.cancelled \/ Asking(l, worker, reply)
  BY <1>5, <1>8, <1>9, <1>10
<1>12. UndosStart(manager')
  BY <1>5, <1>11 DEF Accounted, UndosStart, new
<1>13. Contracted(manager, manager')
  BY <1>5, <1>11 DEF Contracted, InProgress, new, old
<1>14. ASSUME NEW k \in Lanes, manager.active[k] # NoOp
       PROVE  ChangesFitly(manager, manager', k, worker, reply, events, uq, responses,
                        undo.running, reply, responses')
  <2>1. manager.active[k] \in DOMAIN manager.tasks /\ manager.tasks[manager.active[k]].lane = k
    BY <1>2, <1>14, SlotTask
  <2>2. CASE manager.active[k] # id
    <3>1. Holder(manager', k) = Holder(manager, k)
      BY <1>5, <2>1, <2>2 DEF Holder
    <3>2. manager.active[k] \in responses' <=> manager.active[k] \in responses
      BY <1>1, <2>2
    <3>3. QED BY <1>6, <1>14, <3>1, <3>2, UntouchedFits
  <2>3. CASE manager.active[k] = id
    <3>1. k = l /\ Holder(manager, k) = old /\ Holder(manager', k) = new
      BY <1>5, <2>1, <2>3 DEF l, old, new, Holder
    <3>2. id \in responses'
      BY <1>1
    <3>3. AnswerDue(new, id, l, worker, reply, responses')
      BY <1>5, <1>7, <1>8, <1>11, <3>2 DEF AnswerDue
    <3>4. MayEnd(new, undo.running)
      BY <1>11 DEF MayEnd
    <3>5. StaysTrue(old, new)
      BY <1>5, <1>11 DEF StaysTrue
    <3>6. ~new.cancelled => ~Told(events, uq, id)
      BY <1>5, <1>6 DEF old
    <3>7. QED BY <2>3, <3>1, <3>3, <3>4, <3>5, <3>6 DEF ChangesFitly
  <2>4. QED BY <2>2, <2>3
<1>15. \A x \in responses' : HoldsSlot(manager, x)
  BY <1>1, <1>3 DEF Accounted, Accounts, id
<1>16. Accounts(manager', inbox, worker, reply, events, uq, responses', undo.running)
  <2>1. AllServed(manager, events) /\ AllServed(manager, uq)
    BY <1>3 DEF InStep
  <2>2. QED BY <1>2, <1>5, <1>6, <1>14, <1>15, <2>1, ChangeAccounted
<1>17. Accounts(manager', inbox', worker', reply', events', uiQueue', responses', undo'.running)
  BY <1>1, <1>16
<1>18. \A k \in Lanes : reply'[k] => worker'[k].pc = "waiting"
  BY <1>1 DEF Accounted
<1>19. Accounted'
  BY <1>12, <1>17, <1>18 DEF Accounted
<1>20. QED BY <1>13, <1>19 DEF GoesOn

-----------------------------------------------------------------------------
(* The workers.                                                             *)

\* A step that leaves the manager alone and keeps accounting for the slots.
LEMMA UntouchedGoesOn ==
  ASSUME ServiceInv, Accounted, UNCHANGED <<manager, uiQueue, responses, undo>>,
         Accounts(manager, inbox', worker', reply', events', uiQueue, responses, undo.running),
         \A l \in Lanes : reply'[l] => worker'[l].pc = "waiting"
  PROVE  GoesOn
<1>1. Accounts(manager', inbox', worker', reply', events', uiQueue', responses', undo'.running)
  OBVIOUS
<1>2. Accounted'
  BY <1>1 DEF Accounted
<1>3. Contracted(manager, manager')
  BY DEF Contracted, InProgress
<1>4. QED BY <1>2, <1>3 DEF GoesOn

\* What is known of a lane whose worker is busy.
LEMMA BusyLane ==
  ASSUME ServiceInv, Accounted, NEW l \in Lanes, worker[l].pc # "idle"
  PROVE  /\ manager.active[l] # NoOp /\ manager.active[l] = worker[l].id
         /\ Token(l) = Holder(manager, l) /\ Token(l).lane = l
         /\ HoldsSlot(manager, worker[l].id)
         /\ MayEnd(Token(l), undo.running)
         /\ AnswerDue(Token(l), worker[l].id, l, worker, reply, responses)
         /\ OnItsWay(Token(l), worker[l].id, l, inbox, worker, events, uiQueue)
<1>1. /\ HoldsSlot(manager, worker[l].id) /\ manager.active[l] = worker[l].id
      /\ manager.tasks[worker[l].id].lane = l
  BY BusyHoldsSlot
<1>2. manager.active[l] # NoOp
  BY <1>1, ServiceParts, HolderTask
<1>3. Token(l) = Holder(manager, l)
  BY <1>1 DEF Token, Holder
<1>4. /\ MayEnd(Holder(manager, l), undo.running)
      /\ AnswerDue(Holder(manager, l), manager.active[l], l, worker, reply, responses)
      /\ OnItsWay(Holder(manager, l), manager.active[l], l, inbox, worker, events, uiQueue)
  BY <1>2 DEF Accounted, Accounts, SlotsAccounted
<1>5. QED BY <1>1, <1>2, <1>3, <1>4 DEF Token

\* A worker that moves while the events, as far as they are known then, stay.
LEMMA WorkerMoves ==
  ASSUME ServiceInv, Accounted, NEW ev, AllServed(manager, ev),
         Accounts(manager, inbox, worker, reply, ev, uiQueue, responses, undo.running),
         NEW l \in Lanes, manager.active[l] # NoOp, NEW w, NEW ib, NEW rp,
         \A k \in Lanes : k # l => ib[k] = inbox[k] /\ rp[k] = reply[k],
         worker[l].pc = "waiting" => reply[l] \/ Holder(manager, l).cancelled,
         w.pc = "idle" => Pending(ev, uiQueue, manager.active[l]),
         w.pc \in {"gate", "waiting"} => Holder(manager, l).kind = "Copy",
         w.pc # "idle" /\ w.executing /\ Holder(manager, l).state = "Preflight" =>
           Reports(ev, manager.active[l])
  PROVE  Accounts(manager, ib, [worker EXCEPT ![l] = w], rp, ev, uiQueue, responses, undo.running)
<1> DEFINE r == undo.running
<1>1. ManagerInv(manager) /\ AllMarked(manager) /\ worker \in [Lanes -> WorkerState]
      /\ AllServed(manager, ev) /\ AllServed(manager, uiQueue)
      /\ Accounts(manager, inbox, worker, reply, ev, uiQueue, responses, r)
  BY ServiceParts
<1>2. MovesFitly(manager, inbox, worker, reply, ev, uiQueue, l, w, ib, rp)
  BY DEF MovesFitly
<1> HIDE DEF r
<1>3. Accounts(manager, ib, [worker EXCEPT ![l] = w], rp, ev, uiQueue, responses, r)
  BY <1>1, <1>2, MoveAccounted
<1>4. QED BY <1>3 DEF r

\* Taking a request, waiting out a pause, and meeting and leaving a conflict.
LEMMA QuietWorkGoesOn ==
  ASSUME ServiceInv, Accounted, NEW l \in Lanes,
         TakeRequest(l) \/ Park(l) \/ Unpark(l) \/ MeetConflict(l) \/ LeaveGate(l)
  PROVE  GoesOn
<1>0. /\ worker \in [Lanes -> WorkerState] /\ worker[l] \in WorkerState
      /\ AllServed(manager, events) /\ reply \in [Lanes -> BOOLEAN]
      /\ Accounts(manager, inbox, worker, reply, events, uiQueue, responses, undo.running)
  BY ServiceParts DEF Accounted
<1>1. CASE TakeRequest(l)
  <2> DEFINE w == [Idle EXCEPT !.pc = "run", !.id = Head(inbox[l]).id, !.round = Head(inbox[l]).round]
  <2>1. w.pc = "run" /\ ~w.executing
    BY DEF Idle
  <2>2. /\ inbox' = [inbox EXCEPT ![l] = Tail(@)] /\ inbox[l] # <<>> /\ worker[l].pc = "idle"
        /\ worker' = [worker EXCEPT ![l] = w]
        /\ UNCHANGED <<manager, uiQueue, responses, undo, reply, events>>
    BY <1>1 DEF TakeRequest, WorkerStep, ui
  <2> HIDE DEF w
  <2>3. manager.active[l] # NoOp
    <3>1. InStep(manager, inbox, worker, events, uiQueue) /\ inbox \in [Lanes -> Seq(Request)]
      BY ServiceParts
    <3>2. QED BY <2>2, <3>1, <1>0, FreeLane DEF InStep, Unserved
  <2>4. Accounts(manager, inbox', worker', reply', events', uiQueue, responses, undo.running)
    BY <1>0, <2>1, <2>2, <2>3, ServiceParts, WorkerMoves
  <2>5. \A k \in Lanes : reply'[k] => worker'[k].pc = "waiting"
    BY <1>0, <2>2 DEF Accounted
  <2>6. QED BY <2>2, <2>4, <2>5, UntouchedGoesOn
<1>2. CASE Park(l) \/ Unpark(l) \/ MeetConflict(l)
  <2>1. PICK pc \in {"run", "parked", "gate"} : WorkerStep(l, [worker[l] EXCEPT !.pc = pc])
            /\ (pc = "gate" => MeetConflict(l))
    BY <1>2 DEF Park, Unpark, MeetConflict
  <2> DEFINE w == [worker[l] EXCEPT !.pc = pc]
  <2>2. w.pc = pc /\ w.executing = worker[l].executing
    BY <1>0 DEF WorkerState
  <2>3. /\ worker[l].pc \in {"run", "parked"} /\ worker' = [worker EXCEPT ![l] = w]
        /\ UNCHANGED <<manager, uiQueue, responses, undo, inbox, reply, events>>
    BY <1>2, <2>1 DEF Park, Unpark, MeetConflict, WorkerStep, ui
  <2>4. pc = "gate" => Token(l).kind = "Copy"
    BY <2>1 DEF MeetConflict
  <2> HIDE DEF w
  <2>5. Accounts(manager, inbox', worker', reply', events', uiQueue, responses, undo.running)
    BY ZenonT(60), <1>0, <2>1, <2>2, <2>3, <2>4, BusyLane, WorkerMoves DEF OnItsWay
  <2>6. \A k \in Lanes : reply'[k] => worker'[k].pc = "waiting"
    BY <1>0, <2>3 DEF Accounted
  <2>7. QED BY <2>3, <2>5, <2>6, UntouchedGoesOn
<1>3. CASE LeaveGate(l)
  <2> DEFINE w == [worker[l] EXCEPT !.pc = "run"]
  <2>1. w.pc = "run" /\ w.executing = worker[l].executing
    BY <1>0 DEF WorkerState
  <2>2. /\ worker[l].pc = "waiting" /\ (reply[l] \/ Token(l).cancelled)
        /\ worker' = [worker EXCEPT ![l] = w] /\ reply' = [reply EXCEPT ![l] = FALSE]
        /\ UNCHANGED <<manager, uiQueue, responses, undo, inbox, events>>
    BY <1>3 DEF LeaveGate, WorkerStep, ui
  <2> HIDE DEF w
  <2>3. ~reply'[l] /\ \A k \in Lanes : k # l => reply'[k] = reply[k]
    BY <1>0, <2>2
  <2>4. Accounts(manager, inbox', worker', reply', events', uiQueue, responses, undo.running)
    BY <1>0, <2>1, <2>2, <2>3, BusyLane, WorkerMoves DEF OnItsWay
  <2>5. \A k \in Lanes : reply'[k] => worker'[k].pc = "waiting"
    BY <1>0, <2>2, <2>3 DEF Accounted
  <2>6. QED BY <2>2, <2>4, <2>5, UntouchedGoesOn
<1>4. QED BY <1>1, <1>2, <1>3

\* Reporting that the Shell executes a batch.
LEMMA ReportGoesOn ==
  ASSUME ServiceInv, Accounted, NEW l \in Lanes, ReportExecuting(l)
  PROVE  GoesOn
<1> DEFINE e == [type |-> "Executing", id |-> worker[l].id]
           w == [worker[l] EXCEPT !.executing = TRUE]
           ev == Append(events, e)
<1>0. /\ worker \in [Lanes -> WorkerState] /\ worker[l] \in WorkerState /\ events \in Seq(Event)
      /\ AllServed(manager, events) /\ InStep(manager, inbox, worker, events, uiQueue)
      /\ Accounts(manager, inbox, worker, reply, events, uiQueue, responses, undo.running)
  BY ServiceParts DEF Accounted
<1>1. /\ w.pc = worker[l].pc /\ e.type = "Executing" /\ e.id = worker[l].id
  BY <1>0 DEF WorkerState
<1>2. /\ worker[l].pc = "run" /\ worker' = [worker EXCEPT ![l] = w] /\ events' = ev
      /\ UNCHANGED <<manager, uiQueue, responses, undo, inbox, reply>>
  BY DEF ReportExecuting, WorkerStep, ui
<1> HIDE DEF e, w
<1>3. ~IsCompletion(e) /\ ~Succeeded(e) /\ Truthful(manager, e, worker, reply, responses)
  BY <1>1 DEF IsCompletion, Succeeded, Truthful
<1>4. Served(manager, e)
  BY <1>1, <1>2, <1>3, BusyLane DEF Served
<1>5. AllServed(manager, ev)
  BY <1>0, <1>1, <1>2, <1>4, EventNoted
<1>6. Accounts(manager, inbox, worker, reply, ev, uiQueue, responses, undo.running)
  BY <1>0, <1>1, <1>3, NoteAccounted
<1>7. Reports(ev, worker[l].id)
  BY <1>0, <1>1, AppendedAt DEF Reports
<1> HIDE DEF ev
<1>8. Accounts(manager, inbox', worker', reply', events', uiQueue, responses, undo.running)
  BY <1>0, <1>1, <1>2, <1>5, <1>6, <1>7, BusyLane, WorkerMoves
<1>9. \A k \in Lanes : reply'[k] => worker'[k].pc = "waiting"
  BY <1>0, <1>2 DEF Accounted
<1>10. QED BY <1>2, <1>8, <1>9, UntouchedGoesOn

\* Entering the gate: nobody knows of the conflict yet.
LEMMA AskGoesOn ==
  ASSUME ServiceInv, Accounted, NEW l \in Lanes, EnterGate(l)
  PROVE  GoesOn
<1> DEFINE e == [type |-> "Conflict", id |-> worker[l].id]
           w == [worker[l] EXCEPT !.pc = "waiting", !.conflicts = @ + 1]
           wk == [worker EXCEPT ![l] = w]
           id == worker[l].id
<1>0. /\ worker \in [Lanes -> WorkerState] /\ worker[l] \in WorkerState /\ events \in Seq(Event)
      /\ AllServed(manager, events) /\ AllServed(manager, uiQueue)
      /\ Accounts(manager, inbox, worker, reply, events, uiQueue, responses, undo.running)
  BY ServiceParts DEF Accounted
<1>1. /\ w.pc = "waiting" /\ w.executing = worker[l].executing /\ e.type = "Conflict" /\ e.id = id
  BY <1>0 DEF WorkerState
<1>2. /\ worker[l].pc = "gate" /\ worker' = wk /\ events' = Append(events, e)
      /\ UNCHANGED <<manager, uiQueue, responses, undo, inbox, reply>>
  BY DEF EnterGate, WorkerStep, ui
<1>3. wk[l] = w
  BY <1>0
<1> HIDE DEF e, w
<1>4. Token(l).kind = "Copy" /\ ~reply[l] /\ Token(l) = manager.tasks[id]
  BY <1>2, BusyLane DEF AnswerDue, Accounted, Token
<1>5. Accounts(manager, inbox, wk, reply, events, uiQueue, responses, undo.running)
  BY ZenonT(60), <1>0, <1>1, <1>2, <1>4, BusyLane, WorkerMoves DEF OnItsWay
<1>6. ASSUME ~Token(l).cancelled
      PROVE  ~Told(events, uiQueue, id) /\ id \notin responses
  <2>1. \A d : d.type = "Conflict" /\ d.id = id => ~Truthful(manager, d, worker, reply, responses)
    BY <1>2, <1>4, <1>6, BusyLane DEF Truthful, FreshConflict, Asking
  <2>2. ~Told(events, uiQueue, id)
    BY <1>0, <2>1 DEF Told, Accounts, News, AllTruthful
  <2>3. id \notin responses
    BY <1>2, <1>6, BusyLane DEF AnswerDue, Asking
  <2>4. QED BY <2>2, <2>3
<1>7. Truthful(manager, e, wk, reply, responses)
  <2>1. manager.tasks[e.id].lane = l
    BY <1>1, <1>2, <1>4, BusyLane
  <2>2. FreshConflict(manager, e, wk, reply, responses)
    BY <1>1, <1>3, <1>4, <1>6, <2>1 DEF FreshConflict, Asking
  <2>3. QED BY <1>1, <2>2 DEF Truthful, IsCompletion
<1>8. ~Succeeded(e)
  BY <1>1 DEF Succeeded, IsCompletion
<1> HIDE DEF wk
<1>9. Accounts(manager, inbox, wk, reply, Append(events, e), uiQueue, responses, undo.running)
  BY <1>0, <1>1, <1>4, <1>5, <1>6, <1>7, <1>8, NoteAccounted
<1>10. Accounts(manager, inbox', worker', reply', events', uiQueue, responses, undo.running)
  BY <1>2, <1>9
<1>11. \A k \in Lanes : reply'[k] => worker'[k].pc = "waiting"
  BY <1>0, <1>1, <1>2 DEF Accounted, wk
<1>12. QED BY <1>2, <1>10, <1>11, UntouchedGoesOn

\* The completion of a round: a batch that removed something has reported before.
LEMMA FinishGoesOn ==
  ASSUME ServiceInv, Accounted, NEW l \in Lanes, NEW outcome \in Outcomes,
         NEW undoable, NEW cleanup, FinishRequest(l, outcome, undoable, cleanup)
  PROVE  GoesOn
<1> DEFINE e == [type |-> IF CommitsOnly(Token(l)) THEN "Committed" ELSE "Finished",
                 id |-> worker[l].id, outcome |-> outcome,
                 undoable |-> undoable, cleanup |-> cleanup]
           ev == Append(events, e)
           id == worker[l].id
<1>0. /\ worker \in [Lanes -> WorkerState] /\ worker[l] \in WorkerState /\ events \in Seq(Event)
      /\ AllServed(manager, events)
      /\ Accounts(manager, inbox, worker, reply, events, uiQueue, responses, undo.running)
      /\ outcome \in Outcome
  BY ServiceParts, LanesAssumption DEF Accounted
<1>1. /\ e.type \in {"Finished", "Committed"} /\ e.id = id /\ e.outcome = outcome
      /\ e.undoable = undoable /\ (e.type = "Committed" => CommitsOnly(Token(l)))
  OBVIOUS
<1>2. /\ worker[l].pc = "run" /\ Feasible(l, outcome)
      /\ undoable => l = "Local" /\ Token(l).kind \in {"Copy", "Rename", "RecycleDelete"}
      /\ worker' = [worker EXCEPT ![l] = Idle] /\ events' = ev
      /\ UNCHANGED <<manager, uiQueue, responses, undo, inbox, reply>>
  BY DEF FinishRequest, WorkerStep, ui
<1>3. Token(l) = manager.tasks[id]
  BY DEF Token
<1> HIDE DEF e
<1>4. Truthful(manager, e, worker, reply, responses)
  BY <1>1, <1>2 DEF Truthful, Feasible
<1>5. Served(manager, e)
  <2>1. HoldsSlot(manager, e.id) /\ manager.tasks[e.id].lane = l
    BY <1>1, <1>2, <1>3, BusyLane
  <2>2. outcome.left => Token(l).cancelled \/ MayBeAborted(Token(l))
    BY <1>2 DEF Feasible, MayBeAborted
  <2>3. e.undoable => manager.tasks[e.id].kind # "Undo" /\ l = "Local"
    BY <1>1, <1>2, <1>3
  <2>4. QED BY <1>1, <1>3, <2>1, <2>2, <2>3 DEF Served
<1>6. AllServed(manager, ev)
  BY <1>0, <1>1, <1>2, <1>5, ServiceParts, EventNoted
<1>7. Succeeded(e) /\ manager.tasks[id].state = "Preflight" => Reports(events, id)
  <2>1. SUFFICES ASSUME outcome.succeeded, manager.tasks[id].state = "Preflight" PROVE Reports(events, id)
    BY <1>1 DEF Succeeded
  <2>2. UsesLocalRecycleBatch(Token(l))
    BY <1>2, <1>3, <2>1, BusyLane DEF MayEnd
  <2>3. worker[l].executing
    BY <1>2, <2>1, <2>2 DEF Feasible
  <2>4. QED BY <1>2, <1>3, <2>1, <2>3, BusyLane DEF OnItsWay
<1>8. Accounts(manager, inbox, worker, reply, ev, uiQueue, responses, undo.running)
  <2>1. e.type # "Conflict"
    BY <1>1
  <2>2. QED BY <1>0, <1>1, <1>4, <1>7, <2>1, NoteAccounted
<1>9. Pending(ev, uiQueue, id)
  BY <1>0, <1>1, AppendedAt DEF Pending, IsCompletion
<1> HIDE DEF ev
<1>10. Accounts(manager, inbox', worker', reply', events', uiQueue, responses, undo.running)
  <2>1. Idle.pc = "idle"
    BY DEF Idle
  <2>2. QED BY <1>0, <1>2, <1>6, <1>8, <1>9, <2>1, BusyLane, WorkerMoves
<1>11. \A k \in Lanes : reply'[k] => worker'[k].pc = "waiting"
  BY <1>0, <1>2 DEF Accounted
<1>12. QED BY <1>2, <1>10, <1>11, UntouchedGoesOn

\* Every step of a lane worker.
LEMMA LaneStepGoesOn ==
  ASSUME ServiceInv, Accounted, NEW l \in Lanes, LaneStep(l)
  PROVE  GoesOn
<1>1. CASE TakeRequest(l) \/ Park(l) \/ Unpark(l) \/ MeetConflict(l) \/ LeaveGate(l)
  BY <1>1, QuietWorkGoesOn
<1>2. CASE ReportExecuting(l)
  BY <1>2, ReportGoesOn
<1>3. CASE EnterGate(l)
  BY <1>3, AskGoesOn
<1>4. CASE \E outcome \in Outcomes, undoable, cleanup \in BOOLEAN :
             FinishRequest(l, outcome, undoable, cleanup)
  BY <1>4, FinishGoesOn
<1>5. QED BY <1>1, <1>2, <1>3, <1>4 DEF LaneStep

-----------------------------------------------------------------------------
(* The end of a round.                                                      *)

\* The lane of a task whose completion waits to be handled serves nothing.
LEMMA EndedLane ==
  ASSUME NEW m, ManagerInv(m), NEW ib, NEW wk, NEW ev, NEW uq \in Seq(Event), uq # <<>>,
         InStep(m, ib, wk, ev, uq), IsCompletion(Head(uq)), NEW l, l = m.tasks[Head(uq).id].lane
  PROVE  /\ HoldsSlot(m, Head(uq).id) /\ l \in Lanes /\ m.active[l] = Head(uq).id
         /\ Unserved(l, ib, wk)
<1> DEFINE e == Head(uq)
<1>1. 1 \in DOMAIN uq /\ e = uq[1]
  BY TailIsShorter
<1> HIDE DEF e
<1>2. Served(m, e)
  BY HandledDropped DEF e
<1>3. HoldsSlot(m, e.id) /\ l \in Lanes /\ m.active[l] = e.id
  BY <1>2, HolderTask DEF Served, e
<1>4. Pending(ev, uq, e.id)
  BY <1>1 DEF Pending, e
<1>5. Unserved(l, ib, wk)
  BY <1>3, <1>4 DEF InStep
<1>6. QED BY <1>3, <1>5 DEF e

\* A completion is not refused unless its task is paused: the task waits for no
\* answer, and has begun if it removed anything.
LEMMA CompletionGranted ==
  ASSUME NEW m, ManagerInv(m), AllMarked(m), NEW ib, NEW wk, NEW rp, NEW ev,
         NEW uq \in Seq(Event), NEW rs, NEW running, uq # <<>>, IsCompletion(Head(uq)),
         InStep(m, ib, wk, ev, uq), Accounts(m, ib, wk, rp, ev, uq, rs, running),
         m.tasks[Head(uq).id].state # "Paused"
  PROVE  Granted(m, Head(uq))
<1> DEFINE e == Head(uq)
           l == m.tasks[Head(uq).id].lane
           task == m.tasks[Head(uq).id]
           o == Head(uq).outcome
<1>1. /\ HoldsSlot(m, e.id) /\ l \in Lanes /\ m.active[l] = e.id /\ Unserved(l, ib, wk)
  BY EndedLane
<1>2. /\ 1 \in DOMAIN uq /\ e = uq[1] /\ e \in Event
  BY TailIsShorter
<1>3. /\ e.id \in DOMAIN m.tasks /\ e.id # NoOp /\ task \in Task /\ task.state \in InProgress
      /\ Holder(m, l) = task
  BY <1>1, HolderTask DEF Holder
<1>4. /\ o.succeeded \in BOOLEAN /\ o.failed \in BOOLEAN /\ o.retained \in BOOLEAN
  BY <1>2, EventOutcome DEF IsCompletion, Outcome
<1>5. task.cancelled <=> task.state = "Cancelling"
  BY <1>1, CancelledShows
<1>6. o.retained => o.succeeded
  BY <1>2 DEF Accounts, News, AllTruthful, Truthful
<1>7. o.succeeded => task.state # "Preflight"
  BY <1>2 DEF Accounts, News, BegunBeforeEnded, Succeeded
<1>0. task.state # "Paused"
  OBVIOUS
<1> HIDE DEF e, l, task, o
<1>8. AnswerDue(task, e.id, l, wk, rp, rs)
  BY <1>1, <1>3 DEF Accounts, SlotsAccounted
<1>9. task.state \in {"Preflight", "Running", "Cancelling"}
  BY <1>0, <1>1, <1>3, <1>8 DEF AnswerDue, Asking, Unserved, InProgress
<1>10. <<task.state, TerminalState(task.cancelled, o)>> \in CanTransition
  <2>1. CASE task.cancelled
    <3>1. TerminalState(task.cancelled, o) \in {"Cancelled", "PartiallyCompleted"}
      BY <2>1 DEF TerminalState
    <3>2. task.state = "Cancelling"
      BY <1>5, <2>1
    <3>3. QED BY <3>1, <3>2 DEF CanTransition
  <2>2. CASE ~task.cancelled /\ o.succeeded
    <3>1. TerminalState(task.cancelled, o) \in {"PartiallyCompleted", "Completed"}
      BY <2>2 DEF TerminalState
    <3>2. task.state = "Running"
      BY <1>5, <1>7, <1>9, <2>2
    <3>3. QED BY <3>1, <3>2 DEF CanTransition
  <2>3. CASE ~task.cancelled /\ ~o.succeeded
    <3>1. TerminalState(task.cancelled, o) \in {"Failed", "Completed"}
      BY <1>6, <2>3 DEF TerminalState
    <3>2. task.state \in {"Preflight", "Running"}
      BY <1>5, <1>9, <2>3
    <3>3. QED BY <3>1, <3>2 DEF CanTransition
  <2>4. QED BY <2>1, <2>2, <2>3
<1>11. QED BY <1>10 DEF Granted, Verdict, task, o

\* A completion is to be handled, and the undo that runs goes on, if it is not the
\* one that ended.
Ending(m, ib, wk, rp, ev, uq, rs, running, running2) ==
  /\ uq # <<>> /\ IsCompletion(Head(uq))
  /\ AllMarked(m) /\ UndosStart(m)
  /\ InStep(m, ib, wk, ev, uq) /\ Accounts(m, ib, wk, rp, ev, uq, rs, running)
  /\ running /\ m.tasks[Head(uq).id].kind # "Undo" => running2

\* What is left is accounted for, and nothing more is heard of the task: the slot is
\* free, or the task was paused and keeps it.
LEMMA SettledAccounted ==
  ASSUME NEW m, ManagerInv(m), NEW n, ManagerInv(n), NEW ib, NEW wk, NEW rp, NEW ev,
         NEW uq \in Seq(Event), NEW rs, NEW running, NEW running2,
         Ending(m, ib, wk, rp, ev, uq, rs, running, running2),
         SettlesTask(m, n, Head(uq)), SettlesSlot(m, n, Head(uq))
  PROVE  /\ Accounts(n, ib, wk, rp, ev, Tail(uq), rs \ {Head(uq).id}, running2)
         /\ UndosStart(n) /\ Contracted(m, n)
         /\ m.tasks[Head(uq).id].state # "Paused" => n.tasks[Head(uq).id].state \in Terminal
<1>0. /\ uq # <<>> /\ IsCompletion(Head(uq))
      /\ AllMarked(m) /\ UndosStart(m)
      /\ InStep(m, ib, wk, ev, uq) /\ Accounts(m, ib, wk, rp, ev, uq, rs, running)
      /\ running /\ m.tasks[Head(uq).id].kind # "Undo" => running2
  BY DEF Ending
<1> USE <1>0
<1> DEFINE e == Head(uq)
           id == Head(uq).id
           home == m.tasks[Head(uq).id].lane
           rs2 == rs \ {id}
<1>1. HoldsSlot(m, id) /\ home \in Lanes /\ m.active[home] = id /\ Unserved(home, ib, wk)
  BY EndedLane
<1>2. id \in DOMAIN m.tasks /\ id # NoOp /\ Holder(m, home) = m.tasks[id] /\ e \in Event
  BY <1>1, HolderTask, TailIsShorter DEF Holder
<1>3. /\ DOMAIN n.tasks = DOMAIN m.tasks
      /\ \A x \in DOMAIN m.tasks : x # id => n.tasks[x] = m.tasks[x]
      /\ n.tasks[id].kind = m.tasks[id].kind /\ n.tasks[id].lane = home /\ m.tasks[id].lane = home
      /\ n.tasks[id].cancelled = m.tasks[id].cancelled
      /\ \A l \in Lanes : l # home => n.active[l] = m.active[l]
  BY DEF SettlesTask, SettlesSlot
<1>4. /\ Granted(m, e) => n.tasks[id].state = Verdict(m, e) /\ n.active[home] = NoOp
      /\ ~Granted(m, e) => n.tasks[id].state = m.tasks[id].state /\ n.active[home] = id
  BY DEF SettlesTask, SettlesSlot
<1>5. \/ n.tasks[id].state \in Terminal /\ n.active[home] = NoOp
      \/ /\ m.tasks[id].state = "Paused" /\ n.tasks[id].state = "Paused"
         /\ n.active[home] = id /\ ~NoPause
  <2>1. CASE Granted(m, e)
    BY <1>2, <1>4, <2>1, EventOutcome DEF IsCompletion, Verdict
  <2>2. CASE ~Granted(m, e)
    <3>1. m.tasks[id].state = "Paused"
      BY <2>2, CompletionGranted
    <3>2. MayEnd(Holder(m, home), running)
      BY <1>1, <1>2 DEF Accounts, SlotsAccounted
    <3>3. ~NoPause
      BY <1>2, <3>1, <3>2 DEF MayEnd
    <3>4. QED BY <1>4, <2>2, <3>1, <3>3
  <2>3. QED BY <2>1, <2>2
<1> HIDE DEF e, id, home, rs2
<1>6. UndosStart(n)
  BY <1>2, <1>3, <1>5 DEF UndosStart, Terminal
<1>7. Contracted(m, n)
  BY <1>2, <1>3, <1>5 DEF Contracted, Terminal, InProgress
<1>8. ASSUME NEW l \in Lanes, n.active[l] # NoOp, l # home
      PROVE  /\ n.active[l] = m.active[l] /\ m.active[l] # NoOp /\ m.active[l] # id
             /\ Holder(n, l) = Holder(m, l)
  <2>1. n.active[l] = m.active[l] /\ m.active[l] # NoOp
    BY <1>3, <1>8
  <2>2. m.active[l] \in DOMAIN m.tasks /\ m.tasks[m.active[l]].lane = l
    BY <2>1, SlotTask
  <2>3. QED BY <1>3, <1>8, <2>1, <2>2 DEF Holder, home, id
<1>9. SlotsAccounted(n, ib, wk, rp, ev, uq, rs2, running2)
  <2> SUFFICES ASSUME NEW l \in Lanes, n.active[l] # NoOp
               PROVE  /\ MayEnd(Holder(n, l), running2)
                      /\ AnswerDue(Holder(n, l), n.active[l], l, wk, rp, rs2)
                      /\ OnItsWay(Holder(n, l), n.active[l], l, ib, wk, ev, uq)
    BY DEF SlotsAccounted
  <2>1. CASE l # home
    <3>1. /\ n.active[l] = m.active[l] /\ m.active[l] # NoOp /\ m.active[l] # id
          /\ Holder(n, l) = Holder(m, l)
      BY <1>8, <2>1
    <3>2. /\ MayEnd(Holder(m, l), running)
          /\ AnswerDue(Holder(m, l), m.active[l], l, wk, rp, rs)
          /\ OnItsWay(Holder(m, l), m.active[l], l, ib, wk, ev, uq)
      BY <3>1 DEF Accounts, SlotsAccounted
    <3>3. AnswerDue(Holder(m, l), m.active[l], l, wk, rp, rs2)
      BY <3>1, <3>2 DEF AnswerDue, rs2
    <3>4. NoPause /\ Holder(m, l).kind = "Undo" => running2
      <4>1. m.active[l] \in DOMAIN m.tasks /\ m.tasks[m.active[l]].lane = l
        BY <3>1, SlotTask
      <4>2. Holder(m, l).kind = "Undo" => l = "Local"
        BY <4>1 DEF UndosStart, Holder
      <4>3. m.tasks[id].kind = "Undo" => home = "Local"
        BY <1>2 DEF UndosStart, home, id
      <4>4. QED BY <2>1, <3>2, <4>2, <4>3 DEF MayEnd, id
    <3>5. MayEnd(Holder(m, l), running2)
      BY <3>2, <3>4 DEF MayEnd
    <3>6. QED BY <3>1, <3>2, <3>3, <3>5
  <2>2. CASE l = home
    <3>1. n.active[l] = id /\ ~NoPause /\ Holder(n, l).state = "Paused"
      BY <1>5, <2>2 DEF Holder
    <3>2. wk[l].pc = "idle" /\ id \notin rs2
      BY <1>1, <2>2 DEF Unserved, rs2
    <3>3. QED BY <3>1, <3>2 DEF MayEnd, AnswerDue, OnItsWay
  <2>3. QED BY <2>1, <2>2
<1>10. News(n, wk, rp, ev, uq, rs2)
  <2>1. News(m, wk, rp, ev, uq, rs) /\ AllServed(m, ev) /\ AllServed(m, uq)
    BY DEF Accounts, InStep
  <2>2. ASSUME NEW x, HoldsSlot(m, x)
        PROVE  /\ StaysTrue(m.tasks[x], n.tasks[x])
               /\ /\ Told(ev, uq, x) /\ ~n.tasks[x].cancelled
                  /\ Asking(m.tasks[x].lane, wk, rp) /\ x \notin rs
                  => Asking(m.tasks[x].lane, wk, rp) /\ x \notin rs2
    <3>1. x \in DOMAIN m.tasks
      BY <2>2, HolderTask
    <3>2. StaysTrue(m.tasks[x], n.tasks[x])
      <4>1. CASE x # id
        BY <1>3, <3>1, <4>1 DEF StaysTrue
      <4>2. CASE x = id
        BY <1>3, <1>5, <4>2 DEF StaysTrue, Terminal, home, id
      <4>3. QED BY <4>1, <4>2
    <3>3. QED BY <3>2 DEF rs2
  <2>3. QED BY <2>1, <2>2, NewsStay
<1>11. \A x \in rs2 : HoldsSlot(n, x)
  <2> SUFFICES ASSUME NEW x \in rs2 PROVE HoldsSlot(n, x)
    OBVIOUS
  <2>1. HoldsSlot(m, x) /\ x # id
    BY DEF rs2, Accounts
  <2>2. x \in DOMAIN m.tasks /\ m.tasks[x].lane \in Lanes /\ m.active[m.tasks[x].lane] = x
    BY <2>1, HolderTask
  <2>3. n.tasks[x] = m.tasks[x] /\ m.tasks[x].lane # home
    BY <1>1, <1>3, <2>1, <2>2
  <2>4. QED BY <1>3, <2>2, <2>3 DEF HoldsSlot, Present
<1>12. Accounts(n, ib, wk, rp, ev, uq, rs2, running2)
  BY <1>9, <1>10, <1>11 DEF Accounts
<1>13. NoPause => \A l \in Lanes : n.active[l] # Head(uq).id
  BY <1>2, <1>5, <1>8 DEF id
<1>14. Accounts(n, ib, wk, rp, ev, Tail(uq), rs2, running2)
  BY <1>12, <1>13, HandleAccounted
<1>15. QED BY <1>5, <1>6, <1>7, <1>14 DEF rs2, id

\* What settling the task of a completion leaves.
LEMMA EndAccounted ==
  ASSUME ServiceInv, Accounted, uiQueue # <<>>, NEW e, e = Head(uiQueue), IsCompletion(e),
         NEW m, m = Settled(WithItemStates(manager, e), e),
         NEW running, undo.running /\ manager.tasks[e.id].kind # "Undo" => running
  PROVE  /\ Served(manager, e) /\ ManagerInv(m)
         /\ InStep(m, inbox, worker, events, Tail(uiQueue))
         /\ Accounts(m, inbox, worker, reply, events, Tail(uiQueue), responses \ {e.id}, running)
         /\ UndosStart(m) /\ Contracted(manager, m)
         /\ manager.tasks[e.id].state # "Paused" => m.tasks[e.id].state \in Terminal
<1> DEFINE before == undo.running
<1>1. /\ ManagerInv(manager) /\ AllMarked(manager) /\ uiQueue \in Seq(Event)
      /\ InStep(manager, inbox, worker, events, uiQueue)
      /\ Accounts(manager, inbox, worker, reply, events, uiQueue, responses, before)
      /\ UndosStart(manager) /\ (before /\ manager.tasks[Head(uiQueue).id].kind # "Undo" => running)
  BY ServiceParts DEF Accounted
<1>2. /\ IsCompletion(Head(uiQueue))
      /\ m = Settled(WithItemStates(manager, Head(uiQueue)), Head(uiQueue))
  OBVIOUS
<1>3. /\ Served(manager, Head(uiQueue)) /\ ManagerInv(m)
      /\ SettlesTask(manager, m, Head(uiQueue)) /\ SettlesSlot(manager, m, Head(uiQueue))
      /\ InStep(m, inbox, worker, events, Tail(uiQueue))
  BY <1>2, HandledCompletion
<1> HIDE DEF before
<1>4. Ending(manager, inbox, worker, reply, events, uiQueue, responses, before, running)
  BY <1>1, <1>2 DEF Ending
<1>5. /\ Accounts(m, inbox, worker, reply, events, Tail(uiQueue), responses \ {Head(uiQueue).id}, running)
      /\ UndosStart(m) /\ Contracted(manager, m)
      /\ manager.tasks[Head(uiQueue).id].state # "Paused" => m.tasks[Head(uiQueue).id].state \in Terminal
  BY <1>1, <1>3, <1>4, SettledAccounted
<1>6. QED BY <1>3, <1>5

\* The contract is kept by a step that is followed by accepting operations.
LEMMA AddedContracted ==
  ASSUME NEW m, NEW c, NEW n, Contracted(m, c), Contracted(c, n), Adds(c, n)
  PROVE  Contracted(m, n)
BY DEF Contracted, Adds, InProgress, Terminal

\* An operation ends, and its lane goes on.
LEMMA FinishedGoesOn ==
  ASSUME ServiceInv, Accounted, HandleFinished
  PROVE  GoesOn
<1> DEFINE e == Head(uiQueue)
           m == Settled(WithItemStates(manager, e), e)
           lane == manager.tasks[e.id].lane
           n == StartAndMark(m, lane)
           rs == responses \ {e.id}
           uq == Tail(uiQueue)
           running == undo'.running
<1>1. /\ uiQueue # <<>> /\ IsCompletion(e)
  BY DEF HandleFinished, IsCompletion
<1>2. Served(manager, e)
  BY <1>1, HandledCompletion
<1>3. Present(manager, e.id) /\ lane \in Lanes
  BY <1>2, ServiceParts, HolderTask DEF Served, Present
<1>4. /\ manager' = n /\ inbox' = Deliver(m, n)
      /\ undo' = UndoAfter(manager.tasks[e.id].kind, e,
                           TerminalState(IsCancelled(manager, e.id), e.outcome))
      /\ responses' = rs /\ uiQueue' = uq
      /\ UNCHANGED <<events, worker, reply>>
  BY <1>3 DEF HandleFinished, HandlerTail, work, LaneOf, KindOf
<1>5. undo.running /\ manager.tasks[e.id].kind # "Undo" => running
  <2>1. undo \in [entries: Nat, running: BOOLEAN]
    BY ServiceParts DEF TypeOK
  <2>2. QED BY <1>4, <2>1 DEF UndoAfter
<1> HIDE DEF running
<1>6. /\ ManagerInv(m) /\ InStep(m, inbox, worker, events, uq)
      /\ Accounts(m, inbox, worker, reply, events, uq, rs, running)
      /\ UndosStart(m) /\ Contracted(manager, m)
  BY <1>1, <1>5, EndAccounted
<1> HIDE DEF m, n, e, lane, rs, uq
<1>7. ManagerInv(n) /\ StartsOnly(m, n, running) /\ UndosStart(n) /\ Contracted(manager, n)
  BY <1>3, <1>6, StartAndMarkKeeps, StartAndMarkStarts, StartContracted DEF n
<1>8. Accounts(n, DeliverTo(inbox, m, n), worker, reply, events, uq, rs, running)
  BY <1>6, <1>7, ServiceParts, StartsAccounted
<1>9. DeliverTo(inbox, m, n) = Deliver(m, n)
  BY DEF DeliverTo, Deliver
<1>10. Accounts(manager', inbox', worker', reply', events', uiQueue', responses', undo'.running)
  BY <1>4, <1>8, <1>9 DEF running
<1>11. \A l \in Lanes : reply'[l] => worker'[l].pc = "waiting"
  BY <1>4 DEF Accounted
<1>12. Accounted'
  BY <1>4, <1>7, <1>10, <1>11 DEF Accounted
<1>13. QED BY <1>4, <1>7, <1>12 DEF GoesOn

\* A local permanent delete ends, and the local and the cleanup lane go on.
LEMMA CommittedGoesOn ==
  ASSUME ServiceInv, Accounted, HandleCommitted
  PROVE  GoesOn
<1> DEFINE e == Head(uiQueue)
           m == Settled(WithItemStates(manager, e), e)
           c == IF e.cleanup THEN Submit(m, "PermanentDelete", "Cleanup", FALSE) ELSE m
           s == StartAndMark(c, "Cleanup")
           n == StartAndMark(s, "Local")
           rs == responses \ {e.id}
           uq == Tail(uiQueue)
           running == undo.running
<1>1. uiQueue # <<>> /\ IsCompletion(e) /\ e.type = "Committed" /\ "Local" \in Lanes /\ "Cleanup" \in Lanes
  BY DEF HandleCommitted, IsCompletion, Lanes
<1>2. /\ Served(manager, e) /\ ManagerInv(m) /\ InStep(m, inbox, worker, events, uq)
      /\ Accounts(m, inbox, worker, reply, events, uq, rs, running)
      /\ UndosStart(m) /\ Contracted(manager, m)
  BY <1>1, EndAccounted
<1>3. rs = responses
  <2> DEFINE id == e.id
             l == manager.tasks[id].lane
  <2>1. /\ l \in Lanes /\ manager.active[l] = id /\ id # NoOp /\ manager.tasks[id].kind # "Copy"
    BY <1>1, <1>2, ServiceParts, HolderTask DEF Served, CommitsOnly
  <2> HIDE DEF l
  <2>2. AnswerDue(Holder(manager, l), id, l, worker, reply, responses) /\ Holder(manager, l).kind # "Copy"
    BY <2>1 DEF Accounted, Accounts, SlotsAccounted, Holder
  <2>3. id \notin responses
    BY <2>2 DEF AnswerDue
  <2>4. QED BY <2>3
<1>4. /\ manager' = n /\ inbox' = Deliver(c, n) /\ uiQueue' = uq
      /\ UNCHANGED <<undo, responses, events, worker, reply>>
  BY DEF HandleCommitted, HandlerTail, work
<1> HIDE DEF m, e, rs, uq, running
<1>6. /\ ManagerInv(c) /\ InStep(c, inbox, worker, events, uq)
      /\ Accounts(c, inbox, worker, reply, events, uq, rs, running)
      /\ UndosStart(c) /\ Contracted(manager, c)
  <2>1. CASE ~e.cleanup
    BY <1>2, <2>1
  <2>2. CASE e.cleanup
    <3> DEFINE added == Submit(m, "PermanentDelete", "Cleanup", FALSE)
    <3>1. "PermanentDelete" \in Kinds
      BY DEF Kinds
    <3>2. ManagerInv(added)
      BY <1>1, <1>2, <3>1, SubmitKeeps
    <3>3. Accepts(m, added) /\ UndosStillStart(m, added) /\ Adds(m, added)
      BY <1>2, SubmitAccepts, SubmitAdds
    <3>4. c = added
      BY <2>2
    <3> HIDE DEF added, c
    <3>5. /\ InStep(added, inbox, worker, events, uq)
          /\ Accounts(added, inbox, worker, reply, events, uq, rs, running)
      BY <1>2, <3>2, <3>3, ServiceParts, AcceptedAccounted
    <3>6. Contracted(manager, added)
      BY <1>2, <3>3, AddedContracted DEF Accepts
    <3>7. QED BY <1>2, <3>2, <3>3, <3>4, <3>5, <3>6 DEF UndosStillStart
  <2>3. QED BY <2>1, <2>2
<1> HIDE DEF c
<1>7. ManagerInv(s) /\ StartsOnly(c, s, running) /\ UndosStart(s) /\ Contracted(manager, s)
  BY <1>1, <1>6, StartAndMarkKeeps, StartAndMarkStarts, StartContracted
<1> HIDE DEF s
<1>8. ManagerInv(n) /\ StartsOnly(s, n, running) /\ UndosStart(n) /\ Contracted(manager, n)
  BY <1>1, <1>7, StartAndMarkKeeps, StartAndMarkStarts, StartContracted
<1> HIDE DEF n
<1>9. StartsOnly(c, n, running)
  BY <1>7, <1>8, StartsOnlyTwice
<1>10. Accounts(n, DeliverTo(inbox, c, n), worker, reply, events, uq, rs, running)
  BY <1>6, <1>8, <1>9, ServiceParts, StartsAccounted
<1>11. DeliverTo(inbox, c, n) = Deliver(c, n)
  BY DEF DeliverTo, Deliver
<1>12. Accounts(manager', inbox', worker', reply', events', uiQueue', responses', undo'.running)
  BY <1>3, <1>4, <1>10, <1>11 DEF running
<1>13. \A l \in Lanes : reply'[l] => worker'[l].pc = "waiting"
  BY <1>4 DEF Accounted
<1>14. Accounted'
  BY <1>4, <1>8, <1>12, <1>13 DEF Accounted
<1>15. QED BY <1>4, <1>8, <1>14 DEF GoesOn

\* An undo takes the free slot of the local lane at once.
LEMMA UndoGoesOn ==
  ASSUME ServiceInv, Accounted, RequestUndo
  PROVE  GoesOn
<1> DEFINE m == Submit(manager, "Undo", "Local", FALSE)
           s == StartNext(m, "Local")
           id == manager.next
           n == MarkRunning(s, id)
<1>1. "Local" \in Lanes /\ "Undo" \in Kinds /\ id \in Nat /\ ManagerInv(manager)
  BY ServiceParts DEF Lanes, Kinds, ManagerInv, ManagerType
<1>2. CanLaunch(m, "Local") /\ m.queues["Local"][1] = id /\ m.tasks[id].kind = "Undo"
  BY UndoStarted
<1>3. ManagerInv(m) /\ Accepts(manager, m)
  BY <1>1, SubmitKeeps, SubmitAccepts
<1>4. ManagerInv(s) /\ Launches(m, s, "Local")
  BY <1>1, <1>2, <1>3, StartNextKeeps, StartNextEffect
<1>5. DOMAIN m.tasks = DOMAIN manager.tasks \cup {id} /\ Adds(manager, m)
  <2> DEFINE recovered == FALSE
             kind == "Undo"
             lane == "Local"
  <2>1. m = Submit(manager, kind, lane, recovered)
    OBVIOUS
  <2> HIDE DEF m, recovered, kind, lane
  <2>2. QED BY <1>1, <2>1, SubmitAdds
<1> HIDE DEF m, s, id
<1>6. ~UsesLocalRecycleBatch(m.tasks[id])
  BY <1>2 DEF UsesLocalRecycleBatch
<1>7. /\ s.active["Local"] = id /\ Started(m, s, "Local")
      /\ TakesSlot(m, n, "Local", id, n.tasks[id])
  BY <1>1, <1>2, <1>3, <1>4, <1>6, LaunchedTakesSlot
<1>8. /\ manager' = n /\ inbox' = Deliver(m, n)
      /\ undo' = [entries |-> undo.entries - 1, running |-> TRUE]
      /\ UNCHANGED <<work, uiQueue, responses>>
  BY <1>7 DEF RequestUndo, m, s
<1>9. ManagerInv(n)
  BY <1>4, MarkRunningKeeps
<1> HIDE DEF n
<1>10. /\ InStep(m, inbox, worker, events, uiQueue)
       /\ Accounts(m, inbox, worker, reply, events, uiQueue, responses, undo.running)
  BY <1>1, <1>3, ServiceParts, AcceptedAccounted DEF Accounted
<1>11. Accounts(m, inbox, worker, reply, events, uiQueue, responses, TRUE)
  BY <1>10 DEF Accounts, SlotsAccounted, MayEnd
<1>12. StartsOnly(m, n, TRUE)
  BY <1>1, <1>3, <1>7, TakesSlotStarts
<1>13. Accounts(n, DeliverTo(inbox, m, n), worker, reply, events, uiQueue, responses, TRUE)
  BY <1>3, <1>9, <1>10, <1>11, <1>12, ServiceParts, StartsAccounted
<1>14. DeliverTo(inbox, m, n) = Deliver(m, n)
  BY DEF DeliverTo, Deliver
<1>15. Accounts(manager', inbox', worker', reply', events', uiQueue', responses', undo'.running)
  BY <1>8, <1>13, <1>14 DEF work
<1>16. n.tasks[id].state = "Running" /\ n.tasks[id].lane = "Local" /\ n.tasks[id].kind = "Undo"
       /\ DOMAIN n.tasks = DOMAIN m.tasks /\ \A x \in DOMAIN m.tasks : x # id => n.tasks[x] = m.tasks[x]
  BY <1>2, <1>6, <1>7 DEF TakesSlot
<1>17. UndosStart(n)
  <2>1. UndosStart(manager)
    BY DEF Accounted
  <2>2. QED BY <1>5, <1>16, <2>1 DEF UndosStart, Adds
<1>18. Contracted(manager, n)
  <2>1. id \notin DOMAIN manager.tasks
    BY <1>1 DEF ManagerInv, ManagerType, id
  <2>2. QED BY <1>5, <1>16, <2>1 DEF Contracted, Terminal, InProgress, Adds
<1>19. \A l \in Lanes : reply'[l] => worker'[l].pc = "waiting"
  BY <1>8 DEF Accounted, work
<1>20. Accounted'
  BY <1>8, <1>15, <1>17, <1>19 DEF Accounted
<1>21. QED BY <1>8, <1>18, <1>20 DEF GoesOn

-----------------------------------------------------------------------------
(* The stronger inductive invariant, and what follows from it.              *)

LEMMA AccountedInit == Init => Accounted
<1> SUFFICES ASSUME Init PROVE Accounted
  OBVIOUS
<1>1. /\ \A l \in Lanes : manager.active[l] = NoOp /\ ~reply[l]
      /\ manager.tasks = <<>> /\ responses = {} /\ events = <<>> /\ uiQueue = <<>>
  BY DEF Init, NewManager
<1>2. DOMAIN manager.tasks = {} /\ DOMAIN events = {} /\ DOMAIN uiQueue = {}
  BY <1>1
<1>3. Accounts(manager, inbox, worker, reply, events, uiQueue, responses, undo.running)
  BY <1>1, <1>2 DEF Accounts, SlotsAccounted, News, AllTruthful, OneConflict, BegunBeforeEnded
<1>4. UndosStart(manager)
  BY <1>2 DEF UndosStart
<1>5. QED BY <1>1, <1>3, <1>4 DEF Accounted

LEMMA AccountedStep ==
  ASSUME ServiceInv, ServiceInv', Accounted, [Next]_vars
  PROVE  GoesOn
<1>1. ManagerConsistent'
  BY DEF ServiceInv, LanesInv
<1>2. CASE UserStep
  <2>1. ASSUME \E pair \in Submittable : EnqueueOperation(pair[1], pair[2]) PROVE GoesOn
    BY <1>1, <2>1, AcceptingGoesOn
  <2>2. ASSUME EnqueueRename \/ CloseLastWindow \/ WaitForTasks PROVE GoesOn
    BY <1>1, <2>2, AcceptingGoesOn
  <2>3. ASSUME NEW id \in DOMAIN manager.tasks, CancelTask(id) PROVE GoesOn
    BY <1>1, <2>3, CancelGoesOn
  <2>4. ASSUME NEW id \in DOMAIN manager.tasks, PauseOrResume(id) PROVE GoesOn
    BY <1>1, <2>4, PauseGoesOn
  <2>5. ASSUME NEW id \in DOMAIN manager.tasks, RetryTask(id) PROVE GoesOn
    BY <1>1, <2>5, AcceptingGoesOn
  <2>6. ASSUME RequestUndo \/ ResolveDialog \/ CancelTasksAndExit PROVE GoesOn
    BY <1>1, <2>6, UndoGoesOn, ResolveGoesOn, CancelAllGoesOn
  <2>7. QED BY <1>2, <2>1, <2>2, <2>3, <2>4, <2>5, <2>6 DEF UserStep
<1>3. CASE SystemStep
  <2>1. ASSUME \/ \E id \in preparing, lane \in {"Local", "Network"} : RenamePrepared(id, lane)
               \/ \E count \in 0..MaxRecovered : RecoverCleanups(count)
               \/ \E expired \in SUBSET Receipts(manager) : PruneTasks(expired)
        PROVE  GoesOn
    BY <1>1, <2>1, AcceptingGoesOn
  <2>2. ASSUME NEW l \in Lanes, LaneStep(l) PROVE GoesOn
    BY <2>2, LaneStepGoesOn
  <2>3. ASSUME PumpExecuting \/ PumpForward PROVE GoesOn
    BY <1>1, <2>3, ExecutingGoesOn, ForwardGoesOn
  <2>4. ASSUME UiHandler PROVE GoesOn
    BY <1>1, <2>4, ConflictGoesOn, FinishedGoesOn, CommittedGoesOn DEF UiHandler
  <2>5. QED BY <1>3, <2>1, <2>2, <2>3, <2>4 DEF SystemStep
<1>4. CASE UNCHANGED vars
  <2>1. UNCHANGED <<manager, inbox, work, uiQueue, responses, undo>>
    BY <1>4 DEF vars, work
  <2>2. QED BY <2>1, NothingGoesOn
<1>5. QED BY <1>2, <1>3, <1>4 DEF Next

LEMMA AccountedInductive == Spec => []Accounted
<1>1. ASSUME ServiceInv, ServiceInv', Accounted, [Next]_vars PROVE Accounted'
  BY <1>1, AccountedStep DEF GoesOn
<1>2. QED BY <1>1, AccountedInit, ServiceInvInductive, PTL DEF Spec

-----------------------------------------------------------------------------
(* The undo.                                                                *)

\* The history lends its entry to exactly one undo task, and the two end together,
\* as long as nobody pauses a task.
THEOREM UndosOwnTheirEntry == "pause" \notin UserActions => (Spec => []UndoOwnedByTask)
<1> SUFFICES ASSUME "pause" \notin UserActions PROVE Spec => []UndoOwnedByTask
  OBVIOUS
<1>1. ASSUME ServiceInv, Accounted PROVE UndoOwnedByTask
  <2>1. /\ ManagerInv(manager) /\ UndosStart(manager) /\ UndoServed(manager, undo.running)
        /\ "Local" \in Lanes
    BY <1>1, ServiceParts DEF ServiceInv, Serving, InGoodOrder, Accounted, Lanes
  <2>2. ASSUME undo.running
        PROVE  \E id \in DOMAIN manager.tasks :
                 manager.tasks[id].kind = "Undo" /\ IsActive(manager.tasks[id].state)
    <3>1. manager.active["Local"] # NoOp /\ manager.tasks[manager.active["Local"]].kind = "Undo"
      BY <2>1, <2>2 DEF UndoServed
    <3>2. /\ manager.active["Local"] \in DOMAIN manager.tasks
          /\ manager.tasks[manager.active["Local"]].state \in InProgress
      BY <2>1, <3>1, SlotTask
    <3>3. QED BY <3>1, <3>2 DEF IsActive, InProgress, Terminal
  <2>3. ASSUME NEW id \in DOMAIN manager.tasks, manager.tasks[id].kind = "Undo",
               IsActive(manager.tasks[id].state)
        PROVE  undo.running
    <3>1. manager.tasks[id].state # "Queued" /\ manager.tasks[id] \in Task /\ id \in Nat
      BY <2>1, <2>3 DEF UndosStart, ManagerInv, ManagerType
    <3>2. manager.tasks[id].state \in InProgress
      BY <2>3, <3>1 DEF IsActive, Task, States, InProgress, Terminal
    <3> DEFINE l == manager.tasks[id].lane
    <3>3. l \in Lanes /\ manager.active[l] = id /\ id # NoOp
      BY <2>1, <3>1, <3>2, NoOpAssumption DEF Task, ManagerInv, InProgressHoldsSlot
    <3>4. Holder(manager, l).kind = "Undo"
      BY <2>3, <3>3 DEF Holder
    <3> HIDE DEF l
    <3>5. MayEnd(Holder(manager, l), undo.running)
      BY <1>1, <3>3 DEF Accounted, Accounts, SlotsAccounted
    <3>6. QED BY <3>4, <3>5 DEF MayEnd, NoPause
  <2>4. QED BY <2>2, <2>3 DEF UndoOwnedByTask
<1>2. QED BY <1>1, ServiceInvInductive, AccountedInductive, PTL

-----------------------------------------------------------------------------
(* Completions.                                                             *)

\* Starting a lane leaves a settled task alone.
LEMMA StartLeavesSettled ==
  ASSUME NEW m, ManagerInv(m), NEW lane \in Lanes, NEW n, n = StartAndMark(m, lane),
         NEW id \in DOMAIN m.tasks, m.tasks[id].state \in Terminal
  PROVE  id \in DOMAIN n.tasks /\ n.tasks[id].state \in Terminal
<1>1. CASE n.tasks = m.tasks
  BY <1>1
<1>2. CASE \E x : TakesSlot(m, n, lane, x, n.tasks[x])
  <2>1. PICK x : TakesSlot(m, n, lane, x, n.tasks[x])
    BY <1>2
  <2>2. x # id
    BY <2>1 DEF TakesSlot, Terminal
  <2>3. n.tasks = [m.tasks EXCEPT ![x] = n.tasks[x]]
    BY <2>1 DEF TakesSlot
  <2>4. QED BY <2>2, <2>3
<1>3. QED BY <1>1, <1>2, StartAndMarkEffect

\* Handling a completion settles its task unless a pause came first, in every run,
\* those with pauses included: finish refuses nothing else, be it that the task waits
\* for an answer, was cancelled, or is a batch that was not seen to begin.
THEOREM CompletionsSettle == Spec => CompletionSettlesTask
<1>1. ASSUME ServiceInv, Accounted, HandleFinished \/ HandleCommitted,
             manager.tasks[Head(uiQueue).id].state # "Paused"
      PROVE  manager'.tasks[Head(uiQueue).id].state \in Terminal
  <2> DEFINE e == Head(uiQueue)
             m == Settled(WithItemStates(manager, e), e)
             running == undo.running
  <2>1. uiQueue # <<>> /\ IsCompletion(e)
    BY <1>1 DEF HandleFinished, HandleCommitted, IsCompletion
  <2>2. /\ Served(manager, e) /\ ManagerInv(m) /\ m.tasks[e.id].state \in Terminal
    <3>1. undo.running /\ manager.tasks[e.id].kind # "Undo" => running
      OBVIOUS
    <3> HIDE DEF running
    <3>2. QED BY <1>1, <2>1, <3>1, EndAccounted
  <2>3. SettlesTask(manager, m, e)
    BY <1>1, <2>1, HandledCompletion
  <2>4. e.id \in DOMAIN m.tasks /\ Present(manager, e.id) /\ manager.tasks[e.id].lane \in Lanes
    BY <1>1, <2>2, <2>3, ServiceParts, HolderTask DEF Served, SettlesTask, Present
  <2>5. CASE HandleFinished
    <3>1. manager' = StartAndMark(m, manager.tasks[e.id].lane)
      BY <2>4, <2>5 DEF HandleFinished, LaneOf
    <3> HIDE DEF e, m
    <3>2. manager'.tasks[e.id].state \in Terminal
      BY <2>2, <2>4, <3>1, StartLeavesSettled
    <3>3. QED BY <3>2 DEF e
  <2>6. CASE HandleCommitted
    <3> DEFINE c == IF e.cleanup THEN Submit(m, "PermanentDelete", "Cleanup", FALSE) ELSE m
               s == StartAndMark(c, "Cleanup")
    <3>1. manager' = StartAndMark(s, "Local") /\ "Local" \in Lanes /\ "Cleanup" \in Lanes
      BY <2>6 DEF HandleCommitted, Lanes
    <3> HIDE DEF e, m
    <3>2. ManagerInv(c) /\ e.id \in DOMAIN c.tasks /\ c.tasks[e.id].state \in Terminal
      <4>1. CASE ~e.cleanup
        BY <2>2, <2>4, <4>1
      <4>2. CASE e.cleanup
        <5> DEFINE added == Submit(m, "PermanentDelete", "Cleanup", FALSE)
        <5>1. "PermanentDelete" \in Kinds
          BY DEF Kinds
        <5>2. ManagerInv(added) /\ Adds(m, added)
          BY <2>2, <3>1, <5>1, SubmitKeeps, SubmitAdds
        <5>3. c = added
          BY <4>2
        <5> HIDE DEF added, c
        <5>4. QED BY <2>2, <2>4, <5>2, <5>3 DEF Adds
      <4>3. QED BY <4>1, <4>2
    <3> HIDE DEF c
    <3>3. ManagerInv(s) /\ e.id \in DOMAIN s.tasks /\ s.tasks[e.id].state \in Terminal
      BY <3>1, <3>2, StartAndMarkKeeps, StartLeavesSettled
    <3> HIDE DEF s
    <3>4. manager'.tasks[e.id].state \in Terminal
      BY <3>1, <3>3, StartLeavesSettled
    <3>5. QED BY <3>4 DEF e
  <2>7. QED BY <1>1, <2>5, <2>6
<1>2. ASSUME ServiceInv, Accounted, [Next]_vars
      PROVE  [(HandleFinished \/ HandleCommitted) =>
                (manager.tasks[Head(uiQueue).id].state # "Paused" =>
                   manager'.tasks[Head(uiQueue).id].state \in Terminal)]_vars
  BY <1>1, <1>2
<1>3. QED BY <1>2, ServiceInvInductive, AccountedInductive, PTL DEF Spec, CompletionSettlesTask

-----------------------------------------------------------------------------
(* The contract with the disk.                                              *)

\* The phase of an operation can be read off the state of its task: what is in
\* progress is held by its lane's side, and nothing else is.
PhaseFits(id) ==
  PhaseOf(id) = IF id \notin DOMAIN manager.tasks THEN "absent"
                ELSE IF manager.tasks[id].state \in InProgress THEN "serving"
                ELSE IF manager.tasks[id].state \in Terminal THEN "settled" ELSE "waiting"

PhasesFit == \A id : PhaseFits(id)

LEMMA InProgressIsHeld ==
  ASSUME ServiceInv, Accounted, NoPause,
         NEW id \in DOMAIN manager.tasks, manager.tasks[id].state \in InProgress
  PROVE  \E l \in Lanes : id \in HeldBy(l)
<1> DEFINE l == manager.tasks[id].lane
<1>1. /\ ManagerInv(manager) /\ InStep(manager, inbox, worker, events, uiQueue)
      /\ inbox \in [Lanes -> Seq(Request)]
  BY ServiceParts
<1>2. /\ l \in Lanes /\ manager.active[l] = id /\ id # NoOp
  BY <1>1, NoOpAssumption DEF ManagerInv, ManagerType, Task, InProgressHoldsSlot
<1> HIDE DEF l
<1>3. Unserved(l, inbox, worker) => Pending(events, uiQueue, id)
  BY <1>2 DEF Accounted, Accounts, SlotsAccounted, OnItsWay
<1>4. CASE Pending(events, uiQueue, id)
  <2>1. CompletionPending(id)
    BY <1>4 DEF Pending, IsCompletion, CompletionPending, Unhandled, Undelivered
  <2>2. QED BY <1>2, <2>1 DEF HeldBy, l
<1>5. CASE inbox[l] # <<>>
  <2>1. inbox[l][1].id = id
    BY <1>1, <1>2, <1>5 DEF InStep, LaneInStep
  <2>2. 1 \in DOMAIN inbox[l]
    BY <1>1, <1>2, <1>5, TailIsShorter
  <2>3. QED BY <1>2, <2>1, <2>2 DEF HeldBy
<1>6. CASE worker[l].pc # "idle"
  <2>1. worker[l].id = id
    BY <1>1, <1>2, <1>6 DEF InStep, LaneInStep
  <2>2. QED BY <1>2, <1>6, <2>1 DEF HeldBy, Busy
<1>7. QED BY <1>3, <1>4, <1>5, <1>6 DEF Unserved

LEMMA PhasesAreRead == NoPause => (ServiceInv /\ Accounted => PhasesFit)
<1> SUFFICES ASSUME NoPause, ServiceInv, Accounted, NEW id PROVE PhaseFits(id)
  BY DEF PhasesFit
<1>1. CASE id \notin DOMAIN manager.tasks
  BY <1>1 DEF PhaseFits, PhaseOf, Present
<1>2. CASE id \in DOMAIN manager.tasks
  <2>1. ManagerInv(manager) /\ manager.tasks[id].state \in States
    BY <1>2, ServiceParts DEF ManagerInv, ManagerType, Task
  <2>2. ASSUME NEW l \in Lanes, id \in HeldBy(l) PROVE manager.tasks[id].state \in InProgress
    <3>1. id = manager.active[l] /\ id # NoOp
      BY <2>2, HeldIsInSlot
    <3>2. QED BY <2>1, <3>1, SlotTask
  <2>3. manager.tasks[id].state \in InProgress <=> \E l \in Lanes : id \in HeldBy(l)
    BY <1>2, <2>2, InProgressIsHeld
  <2>4. QED BY <1>2, <2>1, <2>3 DEF PhaseFits, PhaseOf, Present, States, InProgress, Terminal
<1>3. QED BY <1>1, <1>2

\* Where an operation may go in one step, told by its task.
LEMMA ContractAdvances ==
  ASSUME ServiceInv, PhasesFit, PhasesFit', ManagerConsistent', Contracted(manager, manager'), NEW id
  PROVE  /\ PhaseOf(id)' = PhaseOf(id) \/ <<PhaseOf(id), PhaseOf(id)'>> \in Contract!Advance
         /\ PhaseOf(id)' \in {"absent", "waiting", "serving", "settled"}
         /\ HomeOf(id)' \in Lanes
         /\ PhaseOf(id) = "serving" => HomeOf(id)' = HomeOf(id)
<1>1. PhaseFits(id) /\ PhaseFits(id)'
  BY DEF PhasesFit
<1>2. ManagerInv(manager) /\ ManagerInv(manager')
  BY ServiceParts DEF ManagerConsistent
<1>3. id \in DOMAIN manager'.tasks => manager'.tasks[id] \in Task
  BY <1>2 DEF ManagerInv, ManagerType
<1>4. PhaseOf(id)' \in {"absent", "waiting", "serving", "settled"}
  BY <1>1 DEF PhaseFits
<1>5. HomeOf(id)' \in Lanes
  BY <1>3 DEF HomeOf, Present, Task, Lanes
<1>6. CASE id \notin DOMAIN manager.tasks
  <2>1. PhaseOf(id) = "absent"
    BY <1>1, <1>6 DEF PhaseFits
  <2>2. PhaseOf(id)' # "settled"
    BY <1>1, <1>6 DEF PhaseFits, Contracted
  <2>3. QED BY <1>4, <1>5, <2>1, <2>2 DEF Contract!Advance
<1>7. CASE id \in DOMAIN manager.tasks /\ manager.tasks[id].state \in InProgress
  <2>1. PhaseOf(id) = "serving"
    BY <1>1, <1>7 DEF PhaseFits
  <2>2. /\ id \in DOMAIN manager'.tasks /\ manager'.tasks[id].state # "Queued"
        /\ manager'.tasks[id].lane = manager.tasks[id].lane
    BY <1>7 DEF Contracted, InProgress, Terminal
  <2>3. PhaseOf(id)' \in {"serving", "settled"}
    BY <1>1, <1>3, <2>2 DEF PhaseFits, Task, States, InProgress, Terminal
  <2>4. HomeOf(id)' = HomeOf(id)
    BY <1>7, <2>2 DEF HomeOf, Present
  <2>5. QED BY <1>4, <1>5, <2>1, <2>3, <2>4 DEF Contract!Advance
<1>8. CASE id \in DOMAIN manager.tasks /\ manager.tasks[id].state \in Terminal
  <2>1. PhaseOf(id) = "settled"
    BY <1>1, <1>8 DEF PhaseFits, InProgress, Terminal
  <2>2. QED BY <1>4, <1>5, <2>1 DEF Contract!Advance
<1>9. CASE id \in DOMAIN manager.tasks /\ manager.tasks[id].state \notin InProgress \cup Terminal
  <2>1. PhaseOf(id) = "waiting"
    BY <1>1, <1>9 DEF PhaseFits
  <2>2. PhaseOf(id)' # "absent"
    BY <1>1, <1>9 DEF PhaseFits, Contracted
  <2>3. QED BY <1>4, <1>5, <2>1, <2>2 DEF Contract!Advance
<1>10. QED BY <1>6, <1>7, <1>8, <1>9

\* Operations that are served in one lane are one operation.
LEMMA ServedAlone ==
  ASSUME ManagerConsistent, PhasesFit PROVE Contract!AtMostOneServed
<1> SUFFICES ASSUME NEW i \in ContractIds, NEW j \in ContractIds,
                    PhaseOf(i) = "serving", PhaseOf(j) = "serving", HomeOf(i) = HomeOf(j)
             PROVE  i = j
  BY DEF Contract!AtMostOneServed
<1>1. ASSUME NEW id, PhaseOf(id) = "serving"
      PROVE  id \in DOMAIN manager.tasks /\ manager.active[HomeOf(id)] = id
  <2>1. PhaseFits(id)
    BY DEF PhasesFit
  <2>2. id \in DOMAIN manager.tasks /\ manager.tasks[id].state \in InProgress
    BY <1>1, <2>1 DEF PhaseFits
  <2>3. QED BY <2>2 DEF ManagerConsistent, ManagerInv, InProgressHoldsSlot, HomeOf, Present
<1>2. QED BY <1>1

\* The machinery implements the contract with the disk, as long as nobody pauses a
\* task: accepted operations wait, are served alone in their lane, and settle, and
\* none is lost between the two.
THEOREM KeepsTheContract == "pause" \notin UserActions => (Spec => ImplementsContract)
<1> SUFFICES ASSUME "pause" \notin UserActions PROVE Spec => ImplementsContract
  OBVIOUS
<1>1. ASSUME Init, PhasesFit PROVE Contract!ContractInit
  <2>1. manager.tasks = <<>> /\ DOMAIN manager.tasks = {}
    BY <1>1 DEF Init, NewManager
  <2>2. \A id : PhaseOf(id) = "absent" /\ HomeOf(id) = "Local"
    BY <2>1 DEF PhaseOf, HomeOf, Present
  <2>3. QED BY <2>2 DEF Contract!ContractInit, Lanes
<1>2. ASSUME ServiceInv, Accounted, PhasesFit, ServiceInv', PhasesFit', Contract!AtMostOneServed',
             [Next]_vars
      PROVE  Contract!ContractNext
  <2>1. Contracted(manager, manager') /\ ManagerConsistent'
    BY <1>2, AccountedStep DEF GoesOn, ServiceInv, LanesInv
  <2>2. \A id \in ContractIds :
          /\ PhaseOf(id)' = PhaseOf(id) \/ <<PhaseOf(id), PhaseOf(id)'>> \in Contract!Advance
          /\ PhaseOf(id)' \in {"absent", "waiting", "serving", "settled"}
          /\ HomeOf(id)' \in Lanes
          /\ PhaseOf(id) = "serving" => HomeOf(id)' = HomeOf(id)
    BY <1>2, <2>1, ContractAdvances
  <2>3. QED BY <1>2, <2>2 DEF Contract!ContractNext
<1>3. ServiceInv /\ PhasesFit => Contract!AtMostOneServed
  BY ServedAlone DEF ServiceInv, LanesInv
<1>4. ServiceInv /\ Accounted => PhasesFit
  BY PhasesAreRead DEF NoPause
<1>5. QED BY <1>1, <1>2, <1>3, <1>4, ServiceInvInductive, AccountedInductive, PTL
          DEF Spec, ImplementsContract, Contract!ContractSpec
=============================================================================
