----------------------- MODULE NetworkControlProofs -----------------------
(***************************************************************************)
(* Theorems about the control of a network copy, for any number of pauses, *)
(* files and failures.                                                     *)
(***************************************************************************)
EXTENDS NetworkControl, TLAPS

Running == child = "running"

\* A thread that is done knows how it ended, a helper that ended by itself wrote it.
ResultInStep ==
  /\ copier.at = "done" => copier.outcome # "none"
  /\ child \in {"finished", "exited"} /\ parent.at # "done" => output # "none"

\* The control file holds what the parent sent; what was confirmed is no newer than
\* what was read, what was read no newer than what was sent.
CommandsInStep ==
  /\ Running => parent.at # "done"
  /\ parent.at # "done" => control.sequence = parent.sequence
  /\ parent.sequence = 0 => parent.sent = Continue
  /\ Running => /\ monitor.acknowledged <= monitor.sequence
                /\ monitor.sequence <= parent.sequence
                /\ ack = monitor.acknowledged

\* In the helper: the token is acknowledged by a thread that waits, and the number the
\* monitor wrote last stands for a pause that is acknowledged.
ConfirmedInHelper ==
  Running => /\ token.acked => token.paused
             /\ token.acked => copier.waiting \/ token.cancelled
             /\ monitor.sequence > 0 /\ monitor.acknowledged = monitor.sequence => token.acked

\* In the parent: what the task shows, and is about to show, is the confirmation of the
\* pause sent last.
ConfirmedInParent ==
  /\ parent.at \in {"listen", "confirm"} => parent.sent = Pausing
  /\ parent.at = "confirm" => ack = parent.sequence
  /\ parent.at = "send" =>
       /\ parent.desired # parent.sent
       /\ parent.desired = Cancelling => task.cancelled
       /\ parent.desired = Continue => task.cancelled \/ ~task.paused \/ ~task.acked
  /\ parent.at # "done" /\ task.paused /\ task.acked /\ ~task.cancelled =>
       parent.sent = Pausing /\ ack = parent.sequence

ControlInv == CommandsInStep /\ ConfirmedInHelper /\ ConfirmedInParent

\* Where the answer to the last conflict is on its way to the copying thread.
Replace(n) == [sequence |-> n, action |-> "replace"]

AnswersInStep ==
  /\ Running => parent.at # "done" /\ event = copier.sequence
  /\ parent.at # "done" =>
       /\ parent.event <= event
       /\ response.sequence <= parent.event
       /\ parent.at = "asking" => told.sequence < parent.event
       /\ told.sequence <= parent.event
       /\ parent.at \in {"asking", "answer"} => response.sequence < parent.event
       /\ parent.at = "answer" /\ parent.action = "replace" => told = Replace(parent.event)
       /\ response = Replace(parent.event) => told = response
  /\ Running /\ copier.at \in {"begin", "create", "copying", "publish", "replace"} /\ copier.replace =>
       told = Replace(event)
  /\ Running /\ copier.at = "replace" => copier.replace

AnswersInv == AnswersInStep /\ ReplacedOnlyWhenTold

\* When the temporary file is there it is registered; when the operation is over or
\* between two files it is not there.
TemporaryInStep ==
  /\ temporary.exists => temporary.registered
  /\ Running => parent.at # "done"
  /\ Running /\ copier.at \in {"create", "copying", "publish", "replace"} => temporary.registered
  /\ Running /\ copier.at \in {"item", "asking", "begin", "create", "done"} => ~temporary.exists
  /\ child \in {"finished", "exited"} => ~temporary.exists
  /\ result = "ok" => ~Running /\ ~temporary.exists

TemporaryInv == TemporaryInStep /\ NothingLeftBehind

-----------------------------------------------------------------------------
\* What the steps put in the place of a record is one of its kind.
LEMMA TokensTyped ==
  /\ NoToken \in Tokens
  /\ \A t \in Tokens : /\ Paused(t) \in Tokens /\ Resumed(t) \in Tokens
                       /\ Cancelled(t) \in Tokens /\ Acknowledged(t) \in Tokens
BY DEF Tokens, NoToken, Paused, Resumed, Cancelled, Acknowledged

LEMMA StartsTyped ==
  /\ NewParent \in ParentStates /\ [NewParent EXCEPT !.at = "done"] \in ParentStates
  /\ NewParent.at = "look" /\ [NewParent EXCEPT !.at = "done"].at = "done"
  /\ NewMonitor \in MonitorStates /\ NewCopier \in CopierStates
  /\ NewCopier.at = "item"
  /\ NoCommand \in Controls /\ NoAnswer \in Answers
BY DEF NewParent, NewMonitor, NewCopier, NoCommand, NoAnswer, ParentStates, MonitorStates,
    CopierStates,
       Controls, Answers, Commands, Actions, Outcomes, Continue, Pausing, Cancelling

LEMMA NumberGrows ==
  /\ \A p \in ParentStates, at \in {"listen", "event"}, sent \in Commands, desired \in Commands :
       [p EXCEPT !.at = at, !.sequence = p.sequence + 1, !.sent = sent, !.desired = desired] \in ParentStates
  /\ \A c \in CopierStates : [c EXCEPT !.at = "asking", !.sequence = c.sequence + 1] \in CopierStates
<1>1. ASSUME NEW p \in ParentStates, NEW n \in Nat, NEW at \in {"listen", "event"}, NEW sent \in Commands,
             NEW desired \in Commands
      PROVE  [p EXCEPT !.at = at, !.sequence = n, !.sent = sent, !.desired = desired] \in ParentStates
  BY DEF ParentStates
<1>2. ASSUME NEW c \in CopierStates, NEW n \in Nat
      PROVE  [c EXCEPT !.at = "asking", !.sequence = n] \in CopierStates
  BY DEF CopierStates
<1>3. ASSUME NEW p \in ParentStates PROVE p.sequence + 1 \in Nat
  BY DEF ParentStates
<1>4. ASSUME NEW c \in CopierStates PROVE c.sequence + 1 \in Nat
  BY DEF CopierStates
<1>5. ASSUME NEW p \in ParentStates, NEW at \in {"listen", "event"}, NEW sent \in Commands, NEW desired \in Commands
      PROVE  [p EXCEPT !.at = at, !.sequence = p.sequence + 1, !.sent = sent, !.desired = desired] \in ParentStates
  BY <1>1, <1>3
<1>6. ASSUME NEW c \in CopierStates
      PROVE  [c EXCEPT !.at = "asking", !.sequence = c.sequence + 1] \in CopierStates
  BY <1>2, <1>4
<1> QED BY <1>5, <1>6

\* Every step keeps the types; the result it returns is known.
LEMMA TypesKept ==
  ASSUME TypeOK, ResultInStep, [Next]_vars PROVE TypeOK' /\ ResultInStep'
<1> USE BoundsAssumption DEF vars, theParent, files, disk, bounds, theHelper, MonitorDoes,
    CopierDoes, CopierGoes, EndsFailed, ParentGoes, Returns,
          ParentGone, HelperGone, UserDoes, GoesOn, Copies, AtWait, Fails, Dead,
          TypeOK, ResultInStep
<1>1. CASE Pause
  <2>1. task' \in Tokens
    BY <1>1, TokensTyped DEF Pause
  <2> QED BY <1>1, <2>1 DEF Pause
<1>2. CASE Resume
  <2>1. task' \in Tokens
    BY <1>2, TokensTyped DEF Resume
  <2> QED BY <1>2, <2>1 DEF Resume
<1>3. CASE Cancel
  <2>1. task' \in Tokens
    BY <1>3, TokensTyped DEF Cancel
  <2> QED BY <1>3, <2>1 DEF Cancel
<1>4. CASE \E action \in {"replace", "skip"} : UserAnswers(action)
  <2>1. parent' \in ParentStates
    BY <1>4 DEF UserAnswers, ParentStates, Actions
  <2>2. (result' # "none" <=> parent'.at \in {"cleanup", "done"})
    BY <1>4 DEF UserAnswers, ParentStates
  <2>3. told' \in Answers
    BY <1>4 DEF UserAnswers, Answers, Actions, ParentStates
  <2> QED BY <1>4, <2>1, <2>2, <2>3 DEF UserAnswers
<1>5. CASE Look
  <2>1. Desired \in Commands
    BY <1>5 DEF Look, Desired, Commands, Continue, Pausing, Cancelling
  <2>2. Then(parent.sent) \in {"listen", "event"}
    BY <1>5 DEF Look, Then
  <2>3. parent' \in ParentStates
    BY <1>5, <2>1, <2>2 DEF Look, ParentStates, Commands, Continue
  <2>4. (result' # "none" <=> parent'.at \in {"cleanup", "done"})
    BY <1>5, <2>2 DEF Look, ParentStates
  <2> QED BY <1>5, <2>1, <2>2, <2>3, <2>4 DEF Look
<1>6. CASE Send
  <2>1. Then(parent.desired) \in {"listen", "event"}
    BY <1>6 DEF Send, Then
  <2>2. control' \in Controls
    BY <1>6 DEF Send, Controls, ParentStates
  <2>3. Continue \in Commands /\ parent.desired \in Commands
    BY <1>6 DEF Send, Commands, Continue, ParentStates
  <2>4. parent' \in ParentStates
    BY <1>6, <2>1, <2>3, NumberGrows DEF Send
  <2>5. (result' # "none" <=> parent'.at \in {"cleanup", "done"})
    BY <1>6, <2>1 DEF Send, ParentStates
  <2> QED BY <1>6, <2>1, <2>2, <2>3, <2>4, <2>5 DEF Send
<1>7. CASE Listen
  <2>1. parent' \in ParentStates
    BY <1>7 DEF Listen, ParentStates
  <2>2. (result' # "none" <=> parent'.at \in {"cleanup", "done"})
    BY <1>7 DEF Listen, ParentStates
  <2> QED BY <1>7, <2>1, <2>2 DEF Listen
<1>8. CASE Confirm
  <2>1. parent' \in ParentStates
    BY <1>8 DEF Confirm, ParentStates
  <2>2. (result' # "none" <=> parent'.at \in {"cleanup", "done"})
    BY <1>8 DEF Confirm, ParentStates
  <2>3. task' \in Tokens
    BY <1>8, TokensTyped DEF Confirm
  <2> QED BY <1>8, <2>1, <2>2, <2>3 DEF Confirm
<1>9. CASE ReadEvent
  <2>1. parent' \in ParentStates
    BY <1>9 DEF ReadEvent, ParentStates
  <2>2. (result' # "none" <=> parent'.at \in {"cleanup", "done"})
    BY <1>9 DEF ReadEvent, ParentStates
  <2> QED BY <1>9, <2>1, <2>2 DEF ReadEvent
<1>10. CASE AskingIsCancelled
  <2>1. parent' \in ParentStates
    BY <1>10 DEF AskingIsCancelled, ParentStates, Actions
  <2>2. (result' # "none" <=> parent'.at \in {"cleanup", "done"})
    BY <1>10 DEF AskingIsCancelled, ParentStates
  <2> QED BY <1>10, <2>1, <2>2 DEF AskingIsCancelled
<1>11. CASE SendAnswer
  <2>1. parent' \in ParentStates
    BY <1>11 DEF SendAnswer, ParentStates, Actions
  <2>2. (result' # "none" <=> parent'.at \in {"cleanup", "done"})
    BY <1>11 DEF SendAnswer, ParentStates
  <2>3. response' \in Answers
    BY <1>11 DEF SendAnswer, Answers, Actions, ParentStates
  <2> QED BY <1>11, <2>1, <2>2, <2>3 DEF SendAnswer
<1>12. CASE Poll
  <2>1. parent' \in ParentStates
    BY <1>12 DEF Poll, ParentStates
  <2>2. (result' # "none" <=> parent'.at \in {"cleanup", "done"})
    BY <1>12 DEF Poll, ParentStates
  <2>3. result' \in Outcomes
    BY <1>12 DEF Poll, Outcomes
  <2> QED BY <1>12, <2>1, <2>2, <2>3 DEF Poll
<1>13. CASE Cleanup
  <2>1. parent' \in ParentStates /\ control' \in Controls /\ response' \in Answers /\ output' \in Outcomes
    BY <1>13, StartsTyped DEF Cleanup, Outcomes
  <2>2. (result' # "none" <=> parent'.at \in {"cleanup", "done"})
    BY <1>13, StartsTyped DEF Cleanup, ParentStates
  <2>3. token' \in Tokens /\ monitor' \in MonitorStates
    BY <1>13, TokensTyped, StartsTyped DEF Cleanup
  <2>4. copier' \in CopierStates /\ ResultInStep'
    BY <1>13, StartsTyped DEF Cleanup, CopierStates
  <2>5. temporary' \in Temporaries
    BY <1>13 DEF Cleanup, Temporaries
  <2> QED BY <1>13, <2>1, <2>2, <2>3, <2>4, <2>5 DEF Cleanup
<1>14. CASE SecondPasses
  BY <1>14 DEF SecondPasses
<1>15. CASE ReadControl
  <2>1. token' \in Tokens
    BY <1>15, TokensTyped DEF ReadControl, Obeyed
  <2>2. monitor' \in MonitorStates
    BY <1>15 DEF ReadControl, MonitorStates, Controls
  <2> QED BY <1>15, <2>1, <2>2 DEF ReadControl
<1>16. CASE Report
  <2>1. monitor' \in MonitorStates
    BY <1>16 DEF Report, MonitorStates
  <2>2. ack' \in Nat
    BY <1>16 DEF Report, MonitorStates
  <2> QED BY <1>16, <2>1, <2>2 DEF Report
<1>17. CASE EnterWait
  <2>1. token' \in Tokens
    BY <1>17, TokensTyped DEF EnterWait
  <2>2. copier' \in CopierStates /\ ResultInStep'
    BY <1>17 DEF EnterWait, CopierStates
  <2> QED BY <1>17, <2>1, <2>2 DEF EnterWait
<1>18. CASE LeaveWait
  <2>1. copier' \in CopierStates /\ ResultInStep'
    BY <1>18 DEF LeaveWait, CopierStates
  <2> QED BY <1>18, <2>1 DEF LeaveWait
<1>19. CASE StopCancelled
  <2>1. token' \in Tokens
    BY <1>19, TokensTyped DEF StopCancelled
  <2>2. copier' \in CopierStates /\ ResultInStep'
    BY <1>19 DEF StopCancelled, CopierStates, Outcomes
  <2>3. temporary' \in Temporaries
    BY <1>19 DEF StopCancelled, Temporaries
  <2> QED BY <1>19, <2>1, <2>2, <2>3 DEF StopCancelled
<1>20. CASE MeetConflict
  <2>1. event' \in Nat /\ items' \in 0..MaxItems
    BY <1>20 DEF MeetConflict, CopierStates
  <2>2. copier' \in CopierStates
    BY <1>20, NumberGrows DEF MeetConflict
  <2>3. ResultInStep'
    BY <1>20 DEF MeetConflict, CopierStates
  <2> QED BY <1>20, <2>1, <2>2, <2>3 DEF MeetConflict
<1>21. CASE TakeAnswer
  <2>1. copier' \in CopierStates /\ ResultInStep'
    BY <1>21 DEF TakeAnswer, CopierStates
  <2> QED BY <1>21, <2>1 DEF TakeAnswer
<1>22. CASE SkipCancelled
  <2>1. copier' \in CopierStates /\ ResultInStep'
    BY <1>22 DEF SkipCancelled, CopierStates
  <2> QED BY <1>22, <2>1 DEF SkipCancelled
<1>23. CASE NextItem
  <2>1. copier' \in CopierStates /\ ResultInStep'
    BY <1>23 DEF NextItem, CopierStates
  <2> QED BY <1>23, <2>1 DEF NextItem
<1>24. CASE Register
  <2>1. copier' \in CopierStates /\ ResultInStep'
    BY <1>24 DEF Register, CopierStates
  <2>2. temporary' \in Temporaries
    BY <1>24 DEF Register, Temporaries
  <2> QED BY <1>24, <2>1, <2>2 DEF Register
<1>25. CASE CreateTemporary
  <2>1. copier' \in CopierStates /\ ResultInStep'
    BY <1>25 DEF CreateTemporary, CopierStates
  <2>2. temporary' \in Temporaries
    BY <1>25 DEF CreateTemporary, Temporaries
  <2> QED BY <1>25, <2>1, <2>2 DEF CreateTemporary
<1>26. CASE CopyEnds
  <2>1. copier' \in CopierStates /\ ResultInStep'
    BY <1>26 DEF CopyEnds, CopierStates
  <2> QED BY <1>26, <2>1 DEF CopyEnds
<1>27. CASE MoveAside
  <2>1. copier' \in CopierStates /\ ResultInStep'
    BY <1>27 DEF MoveAside, CopierStates
  <2> QED BY <1>27, <2>1 DEF MoveAside
<1>28. CASE Publish
  <2>1. copier' \in CopierStates /\ ResultInStep'
    BY <1>28 DEF Publish, CopierStates
  <2>2. temporary' \in Temporaries
    BY <1>28 DEF Publish, Temporaries
  <2> QED BY <1>28, <2>1, <2>2 DEF Publish
<1>29. CASE LastItem
  <2>1. copier' \in CopierStates /\ ResultInStep'
    BY <1>29 DEF LastItem, CopierStates, Outcomes
  <2> QED BY <1>29, <2>1 DEF LastItem
<1>30. CASE WriteResult
  <2>1. token' \in Tokens /\ monitor' \in MonitorStates
    BY <1>30, TokensTyped, StartsTyped DEF WriteResult
  <2>2. copier' \in CopierStates /\ ResultInStep'
    BY <1>30, StartsTyped DEF WriteResult, CopierStates
  <2>3. output' \in Outcomes
    BY <1>30 DEF WriteResult, Outcomes, CopierStates
  <2> QED BY <1>30, <2>1, <2>2, <2>3 DEF WriteResult
<1>31. CASE Exit
  BY <1>31 DEF Exit
<1>32. CASE ParentFails
  <2>1. parent' \in ParentStates
    BY <1>32 DEF ParentFails, ParentStates
  <2>2. (result' # "none" <=> parent'.at \in {"cleanup", "done"})
    BY <1>32 DEF ParentFails, ParentStates
  <2>3. result' \in Outcomes
    BY <1>32 DEF ParentFails, Outcomes
  <2> QED BY <1>32, <2>1, <2>2, <2>3 DEF ParentFails
<1>33. CASE CleanupRefused
  <2>1. parent' \in ParentStates /\ control' \in Controls /\ response' \in Answers /\ output' \in Outcomes
    BY <1>33, StartsTyped DEF CleanupRefused, Outcomes
  <2>2. (result' # "none" <=> parent'.at \in {"cleanup", "done"})
    BY <1>33, StartsTyped DEF CleanupRefused, ParentStates
  <2>3. token' \in Tokens /\ monitor' \in MonitorStates
    BY <1>33, TokensTyped, StartsTyped DEF CleanupRefused
  <2>4. copier' \in CopierStates /\ ResultInStep'
    BY <1>33, StartsTyped DEF CleanupRefused, CopierStates
  <2>5. result' \in Outcomes
    BY <1>33 DEF CleanupRefused, Outcomes
  <2>6. faults' \in 0..MaxFaults /\ child' \in {"running", "finished", "exited", "failed", "killed"}
    BY <1>33 DEF CleanupRefused
  <2> QED BY <1>33, <2>1, <2>2, <2>3, <2>4, <2>5, <2>6 DEF CleanupRefused
<1>34. CASE MonitorFails
  <2>1. token' \in Tokens
    BY <1>34, TokensTyped DEF MonitorFails
  <2>2. monitor' \in MonitorStates
    BY <1>34 DEF MonitorFails, MonitorStates
  <2> QED BY <1>34, <2>1, <2>2 DEF MonitorFails
<1>35. CASE ConflictFails
  <2>1. token' \in Tokens
    BY <1>35, TokensTyped DEF ConflictFails
  <2>2. monitor' \in MonitorStates
    BY <1>35 DEF ConflictFails, MonitorStates
  <2> QED BY <1>35, <2>1, <2>2 DEF ConflictFails
<1>36. CASE ItemFails
  <2>1. copier' \in CopierStates /\ ResultInStep'
    BY <1>36 DEF ItemFails, CopierStates, Outcomes
  <2>2. temporary' \in Temporaries
    BY <1>36 DEF ItemFails, Temporaries
  <2> QED BY <1>36, <2>1, <2>2 DEF ItemFails
<1>37. CASE Crash
  <2>1. token' \in Tokens /\ monitor' \in MonitorStates
    BY <1>37, TokensTyped, StartsTyped DEF Crash
  <2>2. copier' \in CopierStates /\ ResultInStep'
    BY <1>37, StartsTyped DEF Crash, CopierStates
  <2> QED BY <1>37, <2>1, <2>2 DEF Crash
<1>38. CASE UNCHANGED vars
  BY <1>38
<1> QED
  BY <1>1, <1>2, <1>3, <1>4, <1>5, <1>6, <1>7, <1>8, <1>9, <1>10, <1>11, <1>12, <1>13,
     <1>14, <1>15, <1>16, <1>17, <1>18, <1>19, <1>20, <1>21, <1>22, <1>23, <1>24, <1>25, <1>26,
     <1>27, <1>28, <1>29, <1>30, <1>31, <1>32, <1>33, <1>34, <1>35, <1>36, <1>37, <1>38
  DEF Next, UserStep, ParentStep, MonitorStep, LeaveWait, CopierStep, Fault

\* Every step keeps what is confirmed in step with what was sent.
LEMMA ControlKept ==
  ASSUME TypeOK, CommandsInStep, ConfirmedInHelper, ConfirmedInParent, [Next]_vars
  PROVE  CommandsInStep' /\ ConfirmedInHelper' /\ ConfirmedInParent'
<1> USE DEF vars, theParent, files, disk, bounds, theHelper, MonitorDoes, CopierDoes, CopierGoes,
    EndsFailed, ParentGoes, Returns,
          ParentGone, HelperGone, UserDoes, GoesOn, Copies, AtWait, Fails, Dead, Running, TypeOK
<1>1. CASE Pause
  BY <1>1 DEF Pause, Paused, Tokens, CommandsInStep, ConfirmedInHelper, ConfirmedInParent
<1>2. CASE Resume
  BY <1>2 DEF Resume, Resumed, Tokens, CommandsInStep, ConfirmedInHelper, ConfirmedInParent
<1>3. CASE Cancel
  BY <1>3 DEF Cancel, Cancelled, Tokens, CommandsInStep, ConfirmedInHelper, ConfirmedInParent
<1>4. CASE \E action \in {"replace", "skip"} : UserAnswers(action)
  BY <1>4 DEF UserAnswers, ParentStates, CommandsInStep, ConfirmedInHelper, ConfirmedInParent
<1>5. CASE Look
  BY <1>5 DEF Look, ParentStates, Desired, Then, Continue, Pausing, Cancelling, CommandsInStep,
      ConfirmedInHelper, ConfirmedInParent
<1>6. CASE Send
  <2>1. CommandsInStep'
    <3>1. /\ control'.sequence = parent.sequence + 1 /\ parent'.sequence = parent.sequence + 1
          /\ parent.at # "done" /\ UNCHANGED <<child, monitor, ack>>
      BY <1>6 DEF Send, ParentStates
    <3>2. parent.sequence \in Nat /\ monitor.sequence \in Nat /\ monitor.acknowledged \in Nat
      BY DEF ParentStates, MonitorStates
    <3>3. parent.sequence + 1 # 0 /\ (monitor.sequence <= parent.sequence => monitor.sequence <= parent.sequence + 1)
      BY <3>2
    <3>4. control'.sequence = parent'.sequence /\ parent'.sequence # 0
      BY <3>1, <3>3
    <3>5. Running' => /\ monitor'.acknowledged <= monitor'.sequence /\ monitor'.sequence <= parent'.sequence
                      /\ ack' = monitor'.acknowledged /\ parent'.at # "done"
      <4>1. parent'.at # "done"
        BY <1>6 DEF Send, Then, ParentStates
      <4> QED BY <3>1, <3>3, <4>1 DEF CommandsInStep
    <3> QED BY <3>4, <3>5 DEF CommandsInStep
  <2>2. ConfirmedInHelper'
    BY <1>6 DEF Send, ParentStates, Commands, Then, Continue, Pausing, Cancelling, ConfirmedInHelper
  <2>3. ConfirmedInParent'
    BY <1>6 DEF Send, ParentStates, Commands, Then, Continue, Pausing, Cancelling, ConfirmedInParent
  <2> QED BY <2>1, <2>2, <2>3
<1>7. CASE Listen
  BY <1>7 DEF Listen, ParentStates, CommandsInStep, ConfirmedInHelper, ConfirmedInParent
<1>8. CASE Confirm
  BY <1>8 DEF Confirm, ParentStates, Acknowledged, Tokens, CommandsInStep, ConfirmedInHelper,
      ConfirmedInParent
<1>9. CASE ReadEvent
  BY <1>9 DEF ReadEvent, ParentStates, CommandsInStep, ConfirmedInHelper, ConfirmedInParent
<1>10. CASE AskingIsCancelled
  BY <1>10 DEF AskingIsCancelled, ParentStates, CommandsInStep, ConfirmedInHelper, ConfirmedInParent
<1>11. CASE SendAnswer
  BY <1>11 DEF SendAnswer, ParentStates, CommandsInStep, ConfirmedInHelper, ConfirmedInParent
<1>12. CASE Poll
  BY <1>12 DEF Poll, ParentStates, CommandsInStep, ConfirmedInHelper, ConfirmedInParent
<1>13. CASE Cleanup
  BY <1>13 DEF Cleanup, CopierStates, MonitorStates, NewParent, NoToken, NoCommand,
      CommandsInStep, ConfirmedInHelper, ConfirmedInParent
<1>14. CASE SecondPasses
  BY <1>14 DEF SecondPasses, CommandsInStep, ConfirmedInHelper, ConfirmedInParent
<1>15. CASE ReadControl
  <2>1. CommandsInStep'
    <3>1. /\ UNCHANGED <<parent, control, child, ack>> /\ Running
          /\ monitor'.acknowledged = monitor.acknowledged
          /\ monitor'.sequence = IF control.sequence > monitor.sequence THEN control.sequence ELSE monitor.sequence
      BY <1>15 DEF ReadControl, MonitorStates
    <3>2. control.sequence \in Nat /\ monitor.sequence \in Nat /\ monitor.acknowledged \in Nat
      BY DEF Controls, MonitorStates
    <3> QED BY <3>1, <3>2 DEF CommandsInStep
  <2>2. ConfirmedInHelper'
    <3>1. control.sequence \in Nat /\ monitor.sequence \in Nat /\ monitor.acknowledged \in Nat
      BY DEF Controls, MonitorStates
    <3>2. CASE control.sequence > monitor.sequence
      <4>1. Running /\ monitor'.sequence = control.sequence /\ monitor'.acknowledged = monitor.acknowledged
        BY <1>15, <3>2 DEF ReadControl, MonitorStates
      <4>2. monitor'.acknowledged # monitor'.sequence
        BY <3>1, <3>2, <4>1 DEF CommandsInStep
      <4>3. token' = Obeyed(token, control.command) /\ copier' = copier
        BY <1>15, <3>2 DEF ReadControl
      <4>4. token'.acked => token'.paused /\ token.acked /\ (token.cancelled => token'.cancelled)
        BY <4>1, <4>3 DEF Obeyed, Paused, Resumed, Cancelled, Tokens, ConfirmedInHelper
      <4> QED BY <4>1, <4>2, <4>3, <4>4 DEF ConfirmedInHelper
    <3>3. CASE ~(control.sequence > monitor.sequence)
      BY <1>15, <3>3 DEF ReadControl, MonitorStates, ConfirmedInHelper
    <3> QED BY <3>2, <3>3
  <2>3. ConfirmedInParent'
    BY <1>15 DEF ReadControl, Obeyed, Paused, Resumed, Cancelled, Tokens, MonitorStates,
        Controls, Continue, Pausing, Cancelling, ConfirmedInParent
  <2> QED BY <2>1, <2>2, <2>3
<1>16. CASE Report
  <2>1. CommandsInStep'
    <3>1. /\ UNCHANGED <<parent, control, child>> /\ Running /\ monitor'.sequence = monitor.sequence
          /\ \/ ack' = ack /\ monitor'.acknowledged = monitor.acknowledged
             \/ ack' = monitor.sequence /\ monitor'.acknowledged = monitor.sequence
      BY <1>16 DEF Report, MonitorStates
    <3>2. monitor.sequence \in Nat
      BY DEF MonitorStates
    <3> QED BY <3>1, <3>2 DEF CommandsInStep
  <2>2. ConfirmedInHelper'
    BY <1>16 DEF Report, MonitorStates, ConfirmedInHelper
  <2>3. ConfirmedInParent'
    <3>1. UNCHANGED <<parent, task>> /\ Running /\ (ack' = ack \/ ack' = monitor.sequence)
      BY <1>16 DEF Report
    <3>2. monitor.sequence \in Nat /\ parent.sequence \in Nat /\ ack \in Nat
      BY DEF MonitorStates, ParentStates
    <3>3. ack = parent.sequence => ack' = parent.sequence
      BY <3>1, <3>2 DEF CommandsInStep
    <3> QED BY <3>1, <3>3 DEF ConfirmedInParent
  <2> QED BY <2>1, <2>2, <2>3
<1>17. CASE EnterWait
  BY <1>17 DEF EnterWait, Acknowledged, Tokens, CopierStates, CommandsInStep, ConfirmedInHelper,
      ConfirmedInParent
<1>18. CASE LeaveWait
  BY <1>18 DEF LeaveWait, CopierStates, CommandsInStep, ConfirmedInHelper, ConfirmedInParent
<1>19. CASE StopCancelled
  BY <1>19 DEF StopCancelled, Acknowledged, Tokens, CopierStates, CommandsInStep,
      ConfirmedInHelper, ConfirmedInParent
<1>20. CASE MeetConflict
  BY <1>20 DEF MeetConflict, CopierStates, CommandsInStep, ConfirmedInHelper, ConfirmedInParent
<1>21. CASE TakeAnswer
  BY <1>21 DEF TakeAnswer, CopierStates, CommandsInStep, ConfirmedInHelper, ConfirmedInParent
<1>22. CASE SkipCancelled
  BY <1>22 DEF SkipCancelled, CopierStates, CommandsInStep, ConfirmedInHelper, ConfirmedInParent
<1>23. CASE NextItem
  BY <1>23 DEF NextItem, CopierStates, CommandsInStep, ConfirmedInHelper, ConfirmedInParent
<1>24. CASE Register
  BY <1>24 DEF Register, CopierStates, CommandsInStep, ConfirmedInHelper, ConfirmedInParent
<1>25. CASE CreateTemporary
  BY <1>25 DEF CreateTemporary, CopierStates, CommandsInStep, ConfirmedInHelper, ConfirmedInParent
<1>26. CASE CopyEnds
  BY <1>26 DEF CopyEnds, CopierStates, CommandsInStep, ConfirmedInHelper, ConfirmedInParent
<1>27. CASE MoveAside
  BY <1>27 DEF MoveAside, CopierStates, CommandsInStep, ConfirmedInHelper, ConfirmedInParent
<1>28. CASE Publish
  BY <1>28 DEF Publish, CopierStates, CommandsInStep, ConfirmedInHelper, ConfirmedInParent
<1>29. CASE LastItem
  BY <1>29 DEF LastItem, CopierStates, CommandsInStep, ConfirmedInHelper, ConfirmedInParent
<1>30. CASE WriteResult
  BY <1>30 DEF WriteResult, CopierStates, MonitorStates, NoToken, CommandsInStep,
      ConfirmedInHelper, ConfirmedInParent
<1>31. CASE Exit
  BY <1>31 DEF Exit, CommandsInStep, ConfirmedInHelper, ConfirmedInParent
<1>32. CASE ParentFails
  BY <1>32 DEF ParentFails, ParentStates, CommandsInStep, ConfirmedInHelper, ConfirmedInParent
<1>33. CASE CleanupRefused
  BY <1>33 DEF CleanupRefused, CopierStates, MonitorStates, NewParent, NoToken, NoCommand,
      CommandsInStep, ConfirmedInHelper, ConfirmedInParent
<1>34. CASE MonitorFails
  BY <1>34 DEF MonitorFails, Cancelled, Tokens, MonitorStates, CommandsInStep, ConfirmedInHelper,
      ConfirmedInParent
<1>35. CASE ConflictFails
  BY <1>35 DEF ConflictFails, Cancelled, Tokens, MonitorStates, CommandsInStep,
      ConfirmedInHelper, ConfirmedInParent
<1>36. CASE ItemFails
  BY <1>36 DEF ItemFails, CopierStates, CommandsInStep, ConfirmedInHelper, ConfirmedInParent
<1>37. CASE Crash
  BY <1>37 DEF Crash, CopierStates, MonitorStates, NoToken, CommandsInStep, ConfirmedInHelper,
      ConfirmedInParent
<1>38. CASE UNCHANGED vars
  BY <1>38 DEF CommandsInStep, ConfirmedInHelper, ConfirmedInParent
<1> QED
  BY <1>1, <1>2, <1>3, <1>4, <1>5, <1>6, <1>7, <1>8, <1>9, <1>10, <1>11, <1>12, <1>13,
     <1>14, <1>15, <1>16, <1>17, <1>18, <1>19, <1>20, <1>21, <1>22, <1>23, <1>24, <1>25, <1>26,
     <1>27, <1>28, <1>29, <1>30, <1>31, <1>32, <1>33, <1>34, <1>35, <1>36, <1>37, <1>38
  DEF Next, UserStep, ParentStep, MonitorStep, LeaveWait, CopierStep, Fault

\* Every step keeps the answers in step with the conflicts.
LEMMA AnswersKept ==
  ASSUME TypeOK, AnswersInStep, ReplacedOnlyWhenTold, [Next]_vars
  PROVE  AnswersInStep' /\ ReplacedOnlyWhenTold'
<1> USE DEF vars, theParent, files, disk, bounds, theHelper, MonitorDoes, CopierDoes, CopierGoes,
    EndsFailed, ParentGoes, Returns,
          ParentGone, HelperGone, UserDoes, GoesOn, Copies, AtWait, Fails, Dead, Running,
          Replace, TypeOK
<1>1. CASE Pause
  BY <1>1 DEF Pause, AnswersInStep, ReplacedOnlyWhenTold
<1>2. CASE Resume
  BY <1>2 DEF Resume, AnswersInStep, ReplacedOnlyWhenTold
<1>3. CASE Cancel
  BY <1>3 DEF Cancel, AnswersInStep, ReplacedOnlyWhenTold
<1>4. CASE \E action \in {"replace", "skip"} : UserAnswers(action)
  <2>1. AnswersInStep'
    BY <1>4 DEF UserAnswers, ParentStates, AnswersInStep
  <2>2. ReplacedOnlyWhenTold'
    <3>1. parent.event \in Nat /\ event \in Nat /\ told.sequence \in Nat /\ response.sequence \in Nat
      BY DEF ParentStates, Answers
    <3>2. target' = target /\ parent.at = "asking"
      BY <1>4 DEF UserAnswers
    <3>3. told.sequence < parent.event /\ parent.event <= event
      BY <3>2 DEF AnswersInStep
    <3>4. told.sequence # event
      BY <3>1, <3>3
    <3>5. target \notin {"moved", "new"}
      BY <3>4 DEF ReplacedOnlyWhenTold
    <3> QED BY <3>2, <3>5 DEF ReplacedOnlyWhenTold
  <2> QED BY <2>1, <2>2
<1>5. CASE Look
  BY <1>5 DEF Look, ParentStates, Then, AnswersInStep, ReplacedOnlyWhenTold
<1>6. CASE Send
  BY <1>6 DEF Send, ParentStates, Then, AnswersInStep, ReplacedOnlyWhenTold
<1>7. CASE Listen
  BY <1>7 DEF Listen, ParentStates, AnswersInStep, ReplacedOnlyWhenTold
<1>8. CASE Confirm
  BY <1>8 DEF Confirm, ParentStates, AnswersInStep, ReplacedOnlyWhenTold
<1>9. CASE ReadEvent
  <2>1. AnswersInStep'
    <3>1. parent.event \in Nat /\ event \in Nat /\ told.sequence \in Nat /\ response.sequence \in Nat
      BY DEF ParentStates, Answers
    <3>2. UNCHANGED <<child, copier, event, response, told>> /\ parent.at # "done"
      BY <1>9 DEF ReadEvent
    <3>3. CASE event > parent.event
      <4>1. parent'.at = "asking" /\ parent'.event = event
        BY <1>9, <3>3 DEF ReadEvent, ParentStates
      <4>2. told.sequence < event /\ response.sequence < event
        BY <3>1, <3>2, <3>3 DEF AnswersInStep
      <4>3. response # Replace(event)
        BY <3>1, <4>2
      <4> HIDE DEF Replace
      <4> QED BY <3>1, <3>2, <4>1, <4>2, <4>3 DEF AnswersInStep
    <3>4. CASE ~(event > parent.event)
      <4>1. parent'.at = "poll" /\ parent'.event = parent.event
        BY <1>9, <3>4 DEF ReadEvent, ParentStates
      <4> HIDE DEF Replace
      <4> QED BY <3>2, <4>1 DEF AnswersInStep
    <3> QED BY <3>3, <3>4
  <2>2. ReplacedOnlyWhenTold'
    BY <1>9 DEF ReadEvent, ParentStates, ReplacedOnlyWhenTold
  <2> QED BY <2>1, <2>2
<1>10. CASE AskingIsCancelled
  BY <1>10 DEF AskingIsCancelled, ParentStates, AnswersInStep, ReplacedOnlyWhenTold
<1>11. CASE SendAnswer
  BY <1>11 DEF SendAnswer, ParentStates, AnswersInStep, ReplacedOnlyWhenTold
<1>12. CASE Poll
  BY <1>12 DEF Poll, ParentStates, AnswersInStep, ReplacedOnlyWhenTold
<1>13. CASE Cleanup
  BY <1>13 DEF Cleanup, CopierStates, NewParent, NoAnswer, AnswersInStep, ReplacedOnlyWhenTold
<1>14. CASE SecondPasses
  BY <1>14 DEF SecondPasses, AnswersInStep, ReplacedOnlyWhenTold
<1>15. CASE ReadControl
  BY <1>15 DEF ReadControl, AnswersInStep, ReplacedOnlyWhenTold
<1>16. CASE Report
  BY <1>16 DEF Report, AnswersInStep, ReplacedOnlyWhenTold
<1>17. CASE EnterWait
  BY <1>17 DEF EnterWait, CopierStates, AnswersInStep, ReplacedOnlyWhenTold
<1>18. CASE LeaveWait
  BY <1>18 DEF LeaveWait, CopierStates, AnswersInStep, ReplacedOnlyWhenTold
<1>19. CASE StopCancelled
  BY <1>19 DEF StopCancelled, CopierStates, AnswersInStep, ReplacedOnlyWhenTold
<1>20. CASE MeetConflict
  <2>1. AnswersInStep'
    <3>1. parent.event \in Nat /\ event \in Nat /\ told.sequence \in Nat /\ response.sequence \in Nat
      BY DEF ParentStates, Answers
    <3>2. UNCHANGED <<child, parent, response, told>> /\ Running /\ event' = copier.sequence + 1
      BY <1>20 DEF MeetConflict
    <3>3. copier'.at = "asking" /\ copier'.sequence = copier.sequence + 1
      BY <1>20 DEF MeetConflict, CopierStates
    <3>4. event = copier.sequence
      BY <3>2 DEF AnswersInStep
    <3>5. parent.event <= event => parent.event <= event + 1
      BY <3>1
    <3> HIDE DEF Replace
    <3> QED BY <3>2, <3>3, <3>4, <3>5 DEF AnswersInStep
  <2>2. ReplacedOnlyWhenTold'
    BY <1>20 DEF MeetConflict, CopierStates, ReplacedOnlyWhenTold
  <2> QED BY <2>1, <2>2
<1>21. CASE TakeAnswer
  <2>1. AnswersInStep'
    <3>1. parent.event \in Nat /\ event \in Nat /\ told.sequence \in Nat /\ response.sequence \in Nat
      BY DEF ParentStates, Answers
    <3>2. UNCHANGED <<child, parent, event, response, told>> /\ Running /\ response.sequence = copier.sequence
      BY <1>21 DEF TakeAnswer
    <3>3. /\ copier'.at \in {"begin", "item"} /\ copier'.sequence = copier.sequence
          /\ copier'.replace => response.action = "replace"
      BY <1>21 DEF TakeAnswer, CopierStates
    <3>4. response.sequence = event /\ parent.event = event
      BY <3>1, <3>2 DEF AnswersInStep
    <3>5. response.action = "replace" => response = Replace(event)
      BY <3>4 DEF Answers
    <3>6. response.action = "replace" => told = Replace(event)
      BY <3>2, <3>4, <3>5 DEF AnswersInStep
    <3> HIDE DEF Replace
    <3> QED BY <3>2, <3>3, <3>6 DEF AnswersInStep
  <2>2. ReplacedOnlyWhenTold'
    BY <1>21 DEF TakeAnswer, CopierStates, ReplacedOnlyWhenTold
  <2> QED BY <2>1, <2>2
<1>22. CASE SkipCancelled
  BY <1>22 DEF SkipCancelled, CopierStates, AnswersInStep, ReplacedOnlyWhenTold
<1>23. CASE NextItem
  BY <1>23 DEF NextItem, CopierStates, AnswersInStep, ReplacedOnlyWhenTold
<1>24. CASE Register
  BY <1>24 DEF Register, CopierStates, AnswersInStep, ReplacedOnlyWhenTold
<1>25. CASE CreateTemporary
  BY <1>25 DEF CreateTemporary, CopierStates, AnswersInStep, ReplacedOnlyWhenTold
<1>26. CASE CopyEnds
  BY <1>26 DEF CopyEnds, CopierStates, AnswersInStep, ReplacedOnlyWhenTold
<1>27. CASE MoveAside
  <2>1. AnswersInStep'
    BY <1>27 DEF MoveAside, CopierStates, AnswersInStep
  <2>2. ReplacedOnlyWhenTold'
    BY <1>27 DEF MoveAside, AnswersInStep, ReplacedOnlyWhenTold
  <2> QED BY <2>1, <2>2
<1>28. CASE Publish
  <2>1. AnswersInStep'
    BY <1>28 DEF Publish, CopierStates, AnswersInStep
  <2>2. ReplacedOnlyWhenTold'
    BY <1>28 DEF Publish, AnswersInStep, ReplacedOnlyWhenTold
  <2> QED BY <2>1, <2>2
<1>29. CASE LastItem
  BY <1>29 DEF LastItem, CopierStates, AnswersInStep, ReplacedOnlyWhenTold
<1>30. CASE WriteResult
  BY <1>30 DEF WriteResult, CopierStates, AnswersInStep, ReplacedOnlyWhenTold
<1>31. CASE Exit
  BY <1>31 DEF Exit, AnswersInStep, ReplacedOnlyWhenTold
<1>32. CASE ParentFails
  BY <1>32 DEF ParentFails, ParentStates, AnswersInStep, ReplacedOnlyWhenTold
<1>33. CASE CleanupRefused
  BY <1>33 DEF CleanupRefused, CopierStates, NewParent, NoAnswer, AnswersInStep,
      ReplacedOnlyWhenTold
<1>34. CASE MonitorFails
  BY <1>34 DEF MonitorFails, AnswersInStep, ReplacedOnlyWhenTold
<1>35. CASE ConflictFails
  BY <1>35 DEF ConflictFails, AnswersInStep, ReplacedOnlyWhenTold
<1>36. CASE ItemFails
  BY <1>36 DEF ItemFails, CopierStates, AnswersInStep, ReplacedOnlyWhenTold
<1>37. CASE Crash
  BY <1>37 DEF Crash, CopierStates, AnswersInStep, ReplacedOnlyWhenTold
<1>38. CASE UNCHANGED vars
  BY <1>38 DEF AnswersInStep, ReplacedOnlyWhenTold
<1> QED
  BY <1>1, <1>2, <1>3, <1>4, <1>5, <1>6, <1>7, <1>8, <1>9, <1>10, <1>11, <1>12, <1>13,
     <1>14, <1>15, <1>16, <1>17, <1>18, <1>19, <1>20, <1>21, <1>22, <1>23, <1>24, <1>25, <1>26,
     <1>27, <1>28, <1>29, <1>30, <1>31, <1>32, <1>33, <1>34, <1>35, <1>36, <1>37, <1>38
  DEF Next, UserStep, ParentStep, MonitorStep, LeaveWait, CopierStep, Fault

\* Every step keeps track of the temporary file.
LEMMA TemporaryKept ==
  ASSUME TypeOK, ResultInStep, TemporaryInStep, NothingLeftBehind, [Next]_vars
  PROVE  TemporaryInStep' /\ NothingLeftBehind'
<1> USE DEF vars, theParent, files, disk, bounds, theHelper, MonitorDoes, CopierDoes, CopierGoes,
    EndsFailed, ParentGoes, Returns,
          ParentGone, HelperGone, UserDoes, GoesOn, Copies, AtWait, Fails, Dead, Running, TypeOK
<1>1. CASE Pause
  BY <1>1 DEF Pause, TemporaryInStep, NothingLeftBehind
<1>2. CASE Resume
  BY <1>2 DEF Resume, TemporaryInStep, NothingLeftBehind
<1>3. CASE Cancel
  BY <1>3 DEF Cancel, TemporaryInStep, NothingLeftBehind
<1>4. CASE \E action \in {"replace", "skip"} : UserAnswers(action)
  BY <1>4 DEF UserAnswers, ParentStates, TemporaryInStep, NothingLeftBehind
<1>5. CASE Look
  BY <1>5 DEF Look, ParentStates, Then, TemporaryInStep, NothingLeftBehind
<1>6. CASE Send
  BY <1>6 DEF Send, ParentStates, Then, TemporaryInStep, NothingLeftBehind
<1>7. CASE Listen
  BY <1>7 DEF Listen, ParentStates, TemporaryInStep, NothingLeftBehind
<1>8. CASE Confirm
  BY <1>8 DEF Confirm, ParentStates, TemporaryInStep, NothingLeftBehind
<1>9. CASE ReadEvent
  BY <1>9 DEF ReadEvent, ParentStates, TemporaryInStep, NothingLeftBehind
<1>10. CASE AskingIsCancelled
  BY <1>10 DEF AskingIsCancelled, ParentStates, TemporaryInStep, NothingLeftBehind
<1>11. CASE SendAnswer
  BY <1>11 DEF SendAnswer, ParentStates, TemporaryInStep, NothingLeftBehind
<1>12. CASE Poll
  BY <1>12 DEF Poll, ParentStates, TemporaryInStep, NothingLeftBehind
<1>13. CASE Cleanup
  <2>1. TemporaryInStep'
    <3>1. parent'.at = "done" /\ child' # "running" /\ (child \in {"finished", "exited"} \/ child' \notin {"finished", "exited"})
      BY <1>13, StartsTyped DEF Cleanup
    <3>2. temporary'.registered = temporary.registered /\ (temporary'.exists => temporary.exists)
          /\ (result # "ok" => ~(temporary'.exists /\ temporary.registered)) /\ result' = result
      BY <1>13 DEF Cleanup, Temporaries
    <3> QED BY <3>1, <3>2 DEF TemporaryInStep
  <2>2. NothingLeftBehind'
    <3>1. parent'.at = "done" /\ child' # "running" /\ (child \in {"finished", "exited"} \/ child' \notin {"finished", "exited"})
      BY <1>13, StartsTyped DEF Cleanup
    <3>2. temporary'.registered = temporary.registered /\ (temporary'.exists => temporary.exists)
          /\ (result # "ok" => ~(temporary'.exists /\ temporary.registered)) /\ result' = result
      BY <1>13 DEF Cleanup, Temporaries
    <3> QED BY <3>1, <3>2 DEF TemporaryInStep, NothingLeftBehind
  <2> QED BY <2>1, <2>2
<1>14. CASE SecondPasses
  BY <1>14 DEF SecondPasses, TemporaryInStep, NothingLeftBehind
<1>15. CASE ReadControl
  BY <1>15 DEF ReadControl, TemporaryInStep, NothingLeftBehind
<1>16. CASE Report
  BY <1>16 DEF Report, TemporaryInStep, NothingLeftBehind
<1>17. CASE EnterWait
  BY <1>17 DEF EnterWait, CopierStates, TemporaryInStep, NothingLeftBehind
<1>18. CASE LeaveWait
  BY <1>18 DEF LeaveWait, CopierStates, TemporaryInStep, NothingLeftBehind
<1>19. CASE StopCancelled
  BY <1>19 DEF StopCancelled, CopierStates, Temporaries, TemporaryInStep, NothingLeftBehind
<1>20. CASE MeetConflict
  BY <1>20 DEF MeetConflict, CopierStates, TemporaryInStep, NothingLeftBehind
<1>21. CASE TakeAnswer
  BY <1>21 DEF TakeAnswer, CopierStates, TemporaryInStep, NothingLeftBehind
<1>22. CASE SkipCancelled
  BY <1>22 DEF SkipCancelled, CopierStates, TemporaryInStep, NothingLeftBehind
<1>23. CASE NextItem
  BY <1>23 DEF NextItem, CopierStates, TemporaryInStep, NothingLeftBehind
<1>24. CASE Register
  BY <1>24 DEF Register, CopierStates, Temporaries, TemporaryInStep, NothingLeftBehind
<1>25. CASE CreateTemporary
  <2>1. TemporaryInStep'
    BY <1>25 DEF CreateTemporary, CopierStates, Temporaries, TemporaryInStep
  <2>2. NothingLeftBehind'
    BY <1>25 DEF CreateTemporary, TemporaryInStep, NothingLeftBehind
  <2> QED BY <2>1, <2>2
<1>26. CASE CopyEnds
  BY <1>26 DEF CopyEnds, CopierStates, TemporaryInStep, NothingLeftBehind
<1>27. CASE MoveAside
  BY <1>27 DEF MoveAside, CopierStates, TemporaryInStep, NothingLeftBehind
<1>28. CASE Publish
  BY <1>28 DEF Publish, CopierStates, Temporaries, TemporaryInStep, NothingLeftBehind
<1>29. CASE LastItem
  BY <1>29 DEF LastItem, CopierStates, TemporaryInStep, NothingLeftBehind
<1>30. CASE WriteResult
  BY <1>30 DEF WriteResult, CopierStates, TemporaryInStep, NothingLeftBehind
<1>31. CASE Exit
  BY <1>31 DEF Exit, TemporaryInStep, NothingLeftBehind
<1>32. CASE ParentFails
  BY <1>32 DEF ParentFails, ParentStates, TemporaryInStep, NothingLeftBehind
<1>33. CASE CleanupRefused
  BY <1>33 DEF CleanupRefused, CopierStates, NewParent, NoAnswer, TemporaryInStep, NothingLeftBehind
<1>34. CASE MonitorFails
  BY <1>34 DEF MonitorFails, TemporaryInStep, NothingLeftBehind
<1>35. CASE ConflictFails
  BY <1>35 DEF ConflictFails, TemporaryInStep, NothingLeftBehind
<1>36. CASE ItemFails
  BY <1>36 DEF ItemFails, CopierStates, Temporaries, TemporaryInStep, NothingLeftBehind
<1>37. CASE Crash
  BY <1>37 DEF Crash, CopierStates, TemporaryInStep, NothingLeftBehind
<1>38. CASE UNCHANGED vars
  BY <1>38 DEF TemporaryInStep, NothingLeftBehind
<1> QED
  BY <1>1, <1>2, <1>3, <1>4, <1>5, <1>6, <1>7, <1>8, <1>9, <1>10, <1>11, <1>12, <1>13,
     <1>14, <1>15, <1>16, <1>17, <1>18, <1>19, <1>20, <1>21, <1>22, <1>23, <1>24, <1>25, <1>26,
     <1>27, <1>28, <1>29, <1>30, <1>31, <1>32, <1>33, <1>34, <1>35, <1>36, <1>37, <1>38
  DEF Next, UserStep, ParentStep, MonitorStep, LeaveWait, CopierStep, Fault

-----------------------------------------------------------------------------
\* Types, and a result that is known once the parent returns: what the parent, the
\* monitor and the copying thread keep stays within its kind in every step.
THEOREM ControlTypes == Spec => [](TypeOK /\ ResultInStep)
<1>1. Init => TypeOK /\ ResultInStep
  <2> SUFFICES ASSUME Init PROVE TypeOK /\ ResultInStep
    OBVIOUS
  <2>1. /\ task \in Tokens /\ token \in Tokens /\ parent \in ParentStates /\ control \in Controls
        /\ response \in Answers /\ told \in Answers /\ monitor \in MonitorStates /\ copier \in CopierStates
    BY TokensTyped, StartsTyped DEF Init
  <2>2. result = "none" /\ parent.at = "look" /\ copier.at = "item" /\ child = "running"
    BY StartsTyped DEF Init
  <2>3. /\ ack \in Nat /\ event \in Nat /\ output \in Outcomes /\ overdue \in BOOLEAN
        /\ target = "none" /\ result \in Outcomes
    BY DEF Init, Outcomes
  <2>4. pauses \in 0..MaxPauses /\ items \in 0..MaxItems /\ faults \in 0..MaxFaults
    BY BoundsAssumption DEF Init
  <2>5. temporary \in Temporaries
    BY DEF Init, Temporaries
  <2> QED BY <2>1, <2>2, <2>3, <2>4, <2>5 DEF TypeOK, ResultInStep
<1>2. TypeOK /\ ResultInStep /\ [Next]_vars => TypeOK' /\ ResultInStep'
  BY TypesKept
<1> QED BY <1>1, <1>2, PTL DEF Spec

\* A pause is confirmed only when the helper's copying thread has stopped
\* (NetworkControlMonitor confirms, the parent's loop passes it on).
THEOREM ConfirmedIsStopped == Spec => []ConfirmedMeansStopped
<1>1. Init => ControlInv
  BY DEF Init, ControlInv, CommandsInStep, ConfirmedInHelper, ConfirmedInParent, Running, NoToken,
         NewParent, NewMonitor, NewCopier, NoCommand
<1>2. TypeOK /\ ControlInv /\ [Next]_vars => ControlInv'
  BY ControlKept DEF ControlInv
<1>3. TypeOK /\ ControlInv => ConfirmedMeansStopped
  <2> SUFFICES ASSUME TypeOK, ControlInv, task.paused, task.acked, ~task.cancelled, Running
               PROVE  copier.waiting \/ token.cancelled
    BY DEF ConfirmedMeansStopped, Running
  <2>1. parent.sequence \in Nat /\ monitor.sequence \in Nat /\ monitor.acknowledged \in Nat
    BY DEF TypeOK, ParentStates, MonitorStates
  <2>2. parent.sent = Pausing /\ ack = parent.sequence
    BY DEF ControlInv, CommandsInStep, ConfirmedInParent
  <2>3. monitor.acknowledged = monitor.sequence /\ monitor.sequence > 0
    BY <2>1, <2>2 DEF ControlInv, CommandsInStep, Continue, Pausing
  <2> QED BY <2>3 DEF ControlInv, ConfirmedInHelper
<1> QED BY <1>1, <1>2, <1>3, ControlTypes, PTL DEF Spec

\* A destination is touched only on the user's answer to this very conflict
\* (NetworkConflictClient waits for the number of its own event).
THEOREM ReplacedAsTold == Spec => []ReplacedOnlyWhenTold
<1>1. Init => AnswersInv
  BY DEF Init, AnswersInv, AnswersInStep, ReplacedOnlyWhenTold, Running, Replace,
         NewParent, NewCopier, NoAnswer
<1>2. TypeOK /\ AnswersInv /\ [Next]_vars => AnswersInv'
  BY AnswersKept DEF AnswersInv
<1>3. AnswersInv => ReplacedOnlyWhenTold
  BY DEF AnswersInv
<1> QED BY <1>1, <1>2, <1>3, ControlTypes, PTL DEF Spec

\* A finished operation leaves no half copied file, whoever crashed or was killed, or
\* its result says so (ownership is published before the temporary file is created).
THEOREM NothingIsLeft == Spec => []NothingLeftBehind
<1>1. Init => TemporaryInv
  BY DEF Init, TemporaryInv, TemporaryInStep, NothingLeftBehind, Running, NewParent, NewCopier
<1>2. TypeOK /\ ResultInStep /\ TemporaryInv /\ [Next]_vars => TemporaryInv'
  BY TemporaryKept DEF TemporaryInv
<1>3. TemporaryInv => NothingLeftBehind
  BY DEF TemporaryInv
<1> QED BY <1>1, <1>2, <1>3, ControlTypes, PTL DEF Spec
=============================================================================
