--------------------------- MODULE NetworkControl ---------------------------
(***************************************************************************)
(* Control of a network copy: the parent (isolated_network_file_operation  *)
(* of windows/network.rs) looks at the task's token and tells a helper     *)
(* process, through small files that are overwritten in place, to pause,   *)
(* resume or cancel; the helper's monitor thread obeys and reports when    *)
(* the copying thread has stopped; conflicts travel the other way.  A      *)
(* helper that does not end within a second of the cancellation is killed, *)
(* and the parent removes the temporary file it had registered.            *)
(*                                                                         *)
(* The copying thread is external to the protocol: it may hang in a call   *)
(* to the server anywhere it works.  NetworkDownload has its inside.       *)
(***************************************************************************)
EXTENDS Naturals

CONSTANTS
  MaxPauses,     \* bound: how often the user pauses
  MaxItems,      \* bound: files of the copy, in conflict or not
  MaxFaults      \* bound: failures of the local files, of items and of the helper

ASSUME BoundsAssumption ==
  MaxPauses \in Nat /\ MaxItems \in Nat /\ MaxFaults \in Nat

VARIABLES
  task,      \* the token of the operation in the parent: cancelled, paused, acked
  parent,    \* at, desired, sequence, sent, event (the last one seen), action
  overdue,   \* a second has passed since the cancellation was sent
  result,    \* what the parent returned
  control,   \* files: the last command and its number,
  ack,       \*   the number of the last pause confirmed,
  event,     \*   the number of the last conflict,
  response,  \*   the number of the conflict answered last, and the answer,
  output,    \*   the result of the helper, once it is complete
  child,     \* the helper process; "finished" once it wrote its result, "failed": it crashed
  token,     \* the token of the helper
  monitor,   \* at, sequence, acknowledged, failed
  copier,    \* at, waiting, sequence (of conflicts), replace, outcome
  temporary, \* on the disk: registered, exists
  target,    \* the destination in conflict: "old", "moved" aside, "new"
  told,      \* the last answer of the user, and the conflict it answers
  pauses, items, faults

files == <<control, ack, event, response, output>>
disk == <<temporary, target>>
bounds == <<pauses, items, faults>>
theParent == <<parent, overdue, result>>
theHelper == <<child, token, monitor, copier, disk, items>>
vars == <<task, theParent, files, theHelper, told, pauses, faults>>

NoToken == [cancelled |-> FALSE, paused |-> FALSE, acked |-> FALSE]
Continue == 0
Pausing == 1
Cancelling == 2

\* Where the parent, the monitor and the copying thread start; what is gone when they end is put back here.
NewParent == [at |-> "look", desired |-> Continue, sequence |-> 0, sent |-> Continue,
              event |-> 0, action |-> "skip"]
NewMonitor == [at |-> "read", sequence |-> 0, acknowledged |-> 0, failed |-> FALSE]
NewCopier == [at |-> "item", waiting |-> FALSE, sequence |-> 0, replace |-> FALSE, outcome |-> "none"]
NoCommand == [sequence |-> 0, command |-> Continue]
NoAnswer == [sequence |-> 0, action |-> "skip"]

Init ==
  /\ task = NoToken /\ token = NoToken
  /\ parent = NewParent /\ overdue = FALSE /\ result = "none"
  /\ control = NoCommand /\ ack = 0 /\ event = 0 /\ response = NoAnswer /\ output = "none"
  /\ child = "running" /\ monitor = NewMonitor /\ copier = NewCopier
  /\ temporary = [registered |-> FALSE, exists |-> FALSE] /\ target = "none"
  /\ told = NoAnswer
  /\ pauses = 0 /\ items = 0 /\ faults = 0

-----------------------------------------------------------------------------
(* CancellationToken.  A thread that waits is copier.waiting.               *)

Paused(t) == IF t.paused THEN t ELSE [t EXCEPT !.paused = TRUE, !.acked = FALSE]
Resumed(t) == IF t.paused THEN [t EXCEPT !.paused = FALSE, !.acked = FALSE] ELSE t
Cancelled(t) == [t EXCEPT !.cancelled = TRUE]
Acknowledged(t) == [t EXCEPT !.acked = TRUE]

(* The user.                                                                *)

UserDoes(t) ==
  /\ parent.at # "done"
  /\ task' = t /\ UNCHANGED <<theParent, files, theHelper, told, faults>>

Pause ==
  /\ ~task.cancelled /\ ~task.paused /\ pauses < MaxPauses
  /\ pauses' = pauses + 1 /\ UserDoes(Paused(task))
Resume == ~task.cancelled /\ task.paused /\ UserDoes(Resumed(task)) /\ UNCHANGED pauses
Cancel == ~task.cancelled /\ UserDoes(Cancelled(task)) /\ UNCHANGED pauses

-----------------------------------------------------------------------------
(* The parent's loop.                                                       *)

ParentGoes(p) == parent' = p /\ UNCHANGED <<overdue, result, theHelper, bounds>>

\* The command the token asks for.
Desired == IF task.cancelled THEN Cancelling ELSE IF task.paused THEN Pausing ELSE Continue

\* A confirmation is looked for only while a pause was the last command.
Then(sent) == IF sent = Pausing THEN "listen" ELSE "event"

Look ==
  /\ parent.at = "look"
  /\ ParentGoes([parent EXCEPT !.at = IF Desired = parent.sent THEN Then(parent.sent) ELSE "send",
                               !.desired = IF Desired = parent.sent THEN Continue ELSE Desired])
  /\ UNCHANGED <<task, files, told>>

\* Mutant: the number grows for a pause or a cancellation only.
SendSameNumber ==
  /\ parent.at = "send"
  /\ LET n == IF parent.desired = Continue THEN parent.sequence ELSE parent.sequence + 1
     IN /\ control' = [sequence |-> n, command |-> parent.desired]
        /\ ParentGoes([parent EXCEPT !.at = Then(parent.desired), !.sequence = n,
                               !.sent = parent.desired, !.desired = Continue])
  /\ UNCHANGED <<task, ack, event, response, output, told>>

Send ==
  /\ parent.at = "send"
  /\ control' = [sequence |-> parent.sequence + 1, command |-> parent.desired]
  /\ ParentGoes([parent EXCEPT !.at = Then(parent.desired), !.sequence = @ + 1,
                               !.sent = parent.desired, !.desired = Continue])
  /\ UNCHANGED <<task, ack, event, response, output, told>>

\* The confirmation of the command sent last; the token may change before it is told.
Listen ==
  /\ parent.at = "listen"
  /\ ParentGoes([parent EXCEPT !.at = IF ack = parent.sequence THEN "confirm" ELSE "event"])
  /\ UNCHANGED <<task, files, told>>

Confirm ==
  /\ parent.at = "confirm"
  /\ task' = Acknowledged(task)
  /\ ParentGoes([parent EXCEPT !.at = "event"])
  /\ UNCHANGED <<files, told>>

\* A conflict not seen yet: resolve_conflict, in which the loop stands still.
ReadEvent ==
  /\ parent.at = "event"
  /\ ParentGoes(IF event > parent.event THEN [parent EXCEPT !.at = "asking", !.event = event]
                ELSE [parent EXCEPT !.at = "poll"])
  /\ UNCHANGED <<task, files, told>>

UserAnswers(action) ==
  /\ parent.at = "asking" /\ ~task.cancelled
  /\ told' = [sequence |-> parent.event, action |-> action]
  /\ ParentGoes([parent EXCEPT !.at = "answer", !.action = action])
  /\ UNCHANGED <<task, files>>

\* Mutant: a cancelled task still waits for its user.
AskingIsCancelledNever ==
  /\ parent.at = "asking" /\ task.cancelled /\ FALSE
  /\ ParentGoes([parent EXCEPT !.at = "answer", !.action = "skip"])
  /\ UNCHANGED <<task, files, told>>

AskingIsCancelled ==
  /\ parent.at = "asking" /\ task.cancelled
  /\ ParentGoes([parent EXCEPT !.at = "answer", !.action = "skip"])
  /\ UNCHANGED <<task, files, told>>

SendAnswer ==
  /\ parent.at = "answer"
  /\ response' = [sequence |-> parent.event, action |-> parent.action]
  /\ ParentGoes([parent EXCEPT !.at = "poll", !.action = "skip"])
  /\ UNCHANGED <<task, control, ack, event, output, told>>

SecondPasses ==
  /\ parent.sent = Cancelling /\ ~overdue
  /\ overdue' = TRUE
  /\ UNCHANGED <<task, parent, result, files, theHelper, told, pauses, faults>>

Returns(r) ==
  /\ result' = r /\ parent' = [parent EXCEPT !.at = "cleanup"]
  /\ UNCHANGED <<task, overdue, files, theHelper, told, pauses>>

Dead == child \in {"exited", "failed", "killed"}

Poll ==
  /\ parent.at = "poll"
  /\ IF child \in {"finished", "exited", "failed"}
     THEN Returns(CASE task.cancelled -> "cancelled"
                    [] ~task.cancelled /\ child = "failed" -> "failed"
                    [] OTHER -> output)
     ELSE IF overdue THEN Returns("cancelled")
     ELSE ParentGoes([parent EXCEPT !.at = "look"]) /\ UNCHANGED <<task, files, told>>
  /\ UNCHANGED faults

\* The memory of a process that ends.
HelperGone == token' = NoToken /\ monitor' = NewMonitor /\ copier' = NewCopier

\* The call returns, the files are removed (the event stays in the model, to name the
\* last conflict).
ParentGone ==
  /\ parent' = [NewParent EXCEPT !.at = "done"] /\ overdue' = FALSE
  /\ control' = NoCommand /\ ack' = 0 /\ response' = NoAnswer /\ output' = "none"

\* The helper is ended, with it the job; what it registered is removed unless it was published.
Cleanup ==
  /\ parent.at = "cleanup"
  /\ child' = (IF Dead THEN child ELSE "killed") /\ HelperGone
  /\ temporary' = [temporary EXCEPT !.exists = @ /\ ~(temporary.registered /\ result # "ok")]
  /\ ParentGone
  /\ UNCHANGED <<task, result, event, target, told, bounds>>

-----------------------------------------------------------------------------
(* The helper's monitor thread.                                             *)

MonitorDoes(m, t) ==
  /\ monitor' = m /\ token' = t
  /\ UNCHANGED <<task, theParent, control, event, response, output, child, copier, disk, told, bounds>>

Obeyed(t, command) ==
  CASE command = Continue -> Resumed(t)
    [] command = Pausing -> Paused(t)
    [] OTHER -> Cancelled(t)

ReadControl ==
  /\ child = "running" /\ monitor.at = "read"
  /\ IF control.sequence > monitor.sequence
     THEN MonitorDoes([monitor EXCEPT !.at = "report", !.sequence = control.sequence],
                      Obeyed(token, control.command))
     ELSE MonitorDoes([monitor EXCEPT !.at = "report"], token)
  /\ UNCHANGED ack

\* Mutant: the scanner's arrival is enough.
ReportEarly ==
  /\ child = "running" /\ monitor.at = "report"
  /\ IF token.paused /\ monitor.acknowledged # monitor.sequence
     THEN /\ ack' = monitor.sequence
          /\ MonitorDoes([monitor EXCEPT !.at = "read", !.acknowledged = monitor.sequence], token)
     ELSE MonitorDoes([monitor EXCEPT !.at = "read"], token) /\ UNCHANGED ack

Report ==
  /\ child = "running" /\ monitor.at = "report"
  /\ IF token.paused /\ token.acked /\ monitor.acknowledged # monitor.sequence
     THEN /\ ack' = monitor.sequence
          /\ MonitorDoes([monitor EXCEPT !.at = "read", !.acknowledged = monitor.sequence], token)
     ELSE MonitorDoes([monitor EXCEPT !.at = "read"], token) /\ UNCHANGED ack

-----------------------------------------------------------------------------
(* The helper's copying thread, in execute_network_operation.               *)

Copies == child = "running" /\ ~copier.waiting
CopierDoes(c) == copier' = c /\ UNCHANGED <<task, theParent, monitor, told, pauses>>
CopierGoes(next) == CopierDoes([copier EXCEPT !.at = next])

\* Where it asks, in check_cancel and inside the copy of a file, whether to wait or to stop.
AtWait == copier.at \in {"item", "copying"}

EnterWait ==
  /\ Copies /\ AtWait /\ token.paused /\ ~token.cancelled
  /\ token' = Acknowledged(token)
  /\ CopierDoes([copier EXCEPT !.waiting = TRUE])
  /\ UNCHANGED <<files, child, disk, items, faults>>

LeaveWait ==
  /\ child = "running" /\ copier.waiting /\ (~token.paused \/ token.cancelled)
  /\ CopierDoes([copier EXCEPT !.waiting = FALSE])
  /\ UNCHANGED <<files, child, token, disk, items, faults>>

GoesOn == Copies /\ ~token.paused /\ ~token.cancelled

\* The operation ends early; a file that was being copied is removed.
EndsFailed ==
  /\ CopierDoes([copier EXCEPT !.at = "done", !.outcome = "failed"])
  /\ temporary' = [temporary EXCEPT !.exists = FALSE]
  /\ UNCHANGED <<files, child, items>>

StopCancelled ==
  /\ Copies /\ AtWait /\ token.cancelled
  /\ token' = (IF token.paused THEN Acknowledged(token) ELSE token)
  /\ EndsFailed /\ UNCHANGED <<target, faults>>

\* A destination that exists: the event is written, the answer awaited.
MeetConflict ==
  /\ GoesOn /\ copier.at = "item"
  /\ items < MaxItems /\ items' = items + 1
  /\ event' = copier.sequence + 1 /\ target' = "old"
  /\ CopierDoes([copier EXCEPT !.at = "asking", !.sequence = @ + 1])
  /\ UNCHANGED <<control, ack, response, output, child, token, temporary, faults>>

\* Mutant: whatever answer lies there.
TakeAnyAnswer ==
  /\ Copies /\ copier.at = "asking" /\ response.sequence # 0
  /\ CopierDoes([copier EXCEPT !.at = IF response.action = "replace" THEN "begin" ELSE "item",
                               !.replace = response.action = "replace"])
  /\ UNCHANGED <<files, child, token, disk, items, faults>>

TakeAnswer ==
  /\ Copies /\ copier.at = "asking" /\ response.sequence = copier.sequence
  /\ CopierDoes([copier EXCEPT !.at = IF response.action = "replace" THEN "begin" ELSE "item",
                               !.replace = response.action = "replace"])
  /\ UNCHANGED <<files, child, token, disk, items, faults>>

SkipCancelled ==
  /\ Copies /\ copier.at = "asking" /\ token.cancelled
  /\ CopierGoes("item")
  /\ UNCHANGED <<files, child, token, disk, items, faults>>

\* A destination that is free.
NextItem ==
  /\ GoesOn /\ copier.at = "item"
  /\ items < MaxItems /\ items' = items + 1
  /\ CopierDoes([copier EXCEPT !.at = "begin", !.replace = FALSE])
  /\ UNCHANGED <<files, child, token, disk, faults>>

\* Mutant: the temporary file is not registered, as in a copy without a helper.
RegisterNowhere ==
  /\ Copies /\ copier.at = "begin"
  /\ CopierGoes("create") /\ UNCHANGED <<temporary, files, child, token, target, items, faults>>

\* copy_file_safely: ownership is published before the file exists.
Register ==
  /\ Copies /\ copier.at = "begin"
  /\ temporary' = [temporary EXCEPT !.registered = TRUE]
  /\ CopierGoes("create") /\ UNCHANGED <<files, child, token, target, items, faults>>

CreateTemporary ==
  /\ Copies /\ copier.at = "create"
  /\ temporary' = [temporary EXCEPT !.exists = TRUE]
  /\ CopierGoes("copying") /\ UNCHANGED <<files, child, token, target, items, faults>>

CopyEnds ==
  /\ GoesOn /\ copier.at = "copying"
  /\ CopierGoes("publish") /\ UNCHANGED <<files, child, token, disk, items, faults>>

\* replace_with_temporary: the old file is moved aside, the new one takes its place.
MoveAside ==
  /\ Copies /\ copier.at = "publish" /\ copier.replace
  /\ target' = "moved"
  /\ CopierGoes("replace") /\ UNCHANGED <<files, child, token, temporary, items, faults>>

Publish ==
  /\ Copies
  /\ \/ copier.at = "replace" /\ target' = "new"
     \/ copier.at = "publish" /\ ~copier.replace /\ UNCHANGED target
  /\ temporary' = [temporary EXCEPT !.exists = FALSE]
  /\ CopierDoes([copier EXCEPT !.at = "item", !.replace = FALSE])
  /\ UNCHANGED <<files, child, token, items, faults>>

\* Behind the last file, where a single file is not asked again.
LastItem ==
  /\ Copies /\ copier.at = "item"
  /\ CopierDoes([copier EXCEPT !.at = "done", !.outcome = "ok"])
  /\ UNCHANGED <<files, child, token, disk, items, faults>>

\* monitor.finish, the result file, the file that says it is complete: an error is a
\* result too, and the helper that wrote it ends well.
WriteResult ==
  /\ child = "running" /\ copier.at = "done" /\ monitor.at \in {"read", "ended"}
  /\ child' = "finished"
  /\ output' = IF monitor.failed THEN "failed" ELSE copier.outcome
  /\ HelperGone
  /\ UNCHANGED <<task, theParent, control, ack, event, response, disk, told, bounds>>

Exit ==
  /\ child = "finished" /\ child' = "exited"
  /\ UNCHANGED <<task, theParent, files, token, monitor, copier, disk, told, bounds>>

-----------------------------------------------------------------------------
(* Failures.                                                                *)

Fails == faults < MaxFaults /\ faults' = faults + 1

\* A local file cannot be read or written: the parent gives up,
ParentFails ==
  /\ Fails /\ parent.at \in {"send", "listen", "event", "answer", "poll"} /\ Returns("failed")

\* what it may not or cannot remove stays: a file on the share, or one Windows still holds;
CleanupRefused ==
  /\ Fails /\ parent.at = "cleanup" /\ temporary.registered /\ result # "ok"
  /\ child' = (IF Dead THEN child ELSE "killed") /\ HelperGone
  /\ ParentGone /\ result' = "uncleaned"
  /\ UNCHANGED <<task, event, disk, told, pauses, items>>

\* the monitor cancels the copy.
MonitorFails ==
  /\ Fails /\ child = "running" /\ monitor.at \in {"read", "report"}
  /\ monitor' = [monitor EXCEPT !.at = "ended", !.failed = TRUE]
  /\ token' = Cancelled(token)
  /\ UNCHANGED <<task, theParent, files, child, copier, disk, told, pauses, items>>

\* The conflict's event or answer cannot be exchanged.
ConflictFails ==
  /\ Fails /\ Copies /\ copier.at = "asking"
  /\ monitor' = [monitor EXCEPT !.failed = TRUE]
  /\ token' = Cancelled(token)
  /\ UNCHANGED <<task, theParent, files, child, copier, disk, told, pauses, items>>

ItemFails ==
  /\ Fails /\ Copies /\ copier.at \in {"begin", "create", "copying", "publish", "replace"}
  /\ EndsFailed /\ UNCHANGED token
  /\ target' = IF copier.at = "replace" THEN "old" ELSE target

Crash ==
  /\ Fails /\ child = "running" /\ child' = "failed" /\ HelperGone
  /\ UNCHANGED <<task, theParent, files, disk, items, told, pauses>>

-----------------------------------------------------------------------------
UserStep == Pause \/ Resume \/ Cancel \/ \E action \in {"replace", "skip"} : UserAnswers(action)
ParentStep ==
  Look \/ Send \/ Listen \/ Confirm \/ ReadEvent \/ AskingIsCancelled \/ SendAnswer \/ Poll \/ Cleanup
MonitorStep == ReadControl \/ Report

\* A resume wakes the thread that waits; a cancellation that comes just before the thread
\* sleeps is missed, so that LeaveWait is owed to a resume only.
Woken == LeaveWait /\ ~token.paused

CopierStep ==
  \/ EnterWait \/ StopCancelled \/ MeetConflict \/ TakeAnswer \/ SkipCancelled \/ NextItem \/ Register
  \/ CreateTemporary \/ CopyEnds \/ MoveAside \/ Publish \/ LastItem \/ WriteResult \/ Exit
Fault == ParentFails \/ CleanupRefused \/ MonitorFails \/ ConflictFails \/ ItemFails \/ Crash

Next == UserStep \/ ParentStep \/ SecondPasses \/ MonitorStep \/ LeaveWait \/ CopierStep \/ Fault

\* The two loops run, a second passes, a resumed thread wakes.  Beyond that the copying
\* thread owes nothing: it may hang in a call to the server.
Spec == Init /\ [][Next]_vars
FairSpec ==
  Spec /\ WF_vars(ParentStep) /\ WF_vars(SecondPasses) /\ WF_vars(MonitorStep) /\ WF_vars(Woken)

-----------------------------------------------------------------------------
Tokens == [cancelled : BOOLEAN, paused : BOOLEAN, acked : BOOLEAN]
Commands == {Continue, Pausing, Cancelling}
Controls == [sequence : Nat, command : Commands]
Actions == {"replace", "skip"}
Outcomes == {"none", "ok", "failed", "cancelled", "uncleaned"}
Answers == [sequence : Nat, action : Actions]
ParentStates ==
  [at : {"look", "send", "listen", "confirm", "event", "asking", "answer", "poll", "cleanup", "done"},
   desired : Commands, sequence : Nat, sent : Commands, event : Nat, action : Actions]
MonitorStates ==
  [at : {"read", "report", "ended"}, sequence : Nat, acknowledged : Nat, failed : BOOLEAN]
CopierStates ==
  [at : {"item", "asking", "begin", "create", "copying", "publish", "replace", "done"},
   waiting : BOOLEAN, sequence : Nat, replace : BOOLEAN, outcome : Outcomes]
Temporaries == [registered : BOOLEAN, exists : BOOLEAN]

TypeOK ==
  /\ task \in Tokens /\ token \in Tokens
  /\ parent \in ParentStates /\ overdue \in BOOLEAN
  /\ result \in Outcomes /\ (result # "none" <=> parent.at \in {"cleanup", "done"})
  /\ control \in Controls /\ ack \in Nat
  /\ event \in Nat /\ output \in Outcomes
  /\ response \in Answers /\ told \in Answers
  /\ child \in {"running", "finished", "exited", "failed", "killed"}
  /\ monitor \in MonitorStates /\ copier \in CopierStates
  /\ temporary \in Temporaries
  /\ target \in {"none", "old", "moved", "new"}
  /\ pauses \in 0..MaxPauses /\ items \in 0..MaxItems /\ faults \in 0..MaxFaults

\* "Only when the transfer has really stopped is the pause confirmed": while the
\* task shows paused the copying thread waits, unless the helper is on its way out.
ConfirmedMeansStopped ==
  task.paused /\ task.acked /\ ~task.cancelled =>
    copier.waiting \/ token.cancelled \/ child # "running"

\* A destination is touched only when the user answered this very conflict with
\* "replace": never on an answer left from an earlier one, never on a cancellation.
ReplacedOnlyWhenTold ==
  target \in {"moved", "new"} => told = [sequence |-> event, action |-> "replace"]

\* However the operation ends, crashed and killed helpers included, no half copied
\* file is left once the parent has cleaned up, or the result says so.
NothingLeftBehind == parent.at = "done" /\ temporary.exists => result = "uncleaned"

\* A cancelled operation returns, whatever the helper hangs in.
CancelEnds == task.cancelled ~> parent.at = "done"

\* A resume reaches the thread that waits, through commands that overtake each other,
\* unless the helper failed to exchange files with the parent and cancels its copy.
ResumeReaches ==
  (copier.waiting /\ child = "running" /\ ~task.paused) ~>
    (~copier.waiting \/ child # "running" \/ task.paused \/ monitor.failed)

=============================================================================
