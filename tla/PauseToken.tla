------------------------------ MODULE PauseToken ------------------------------
(***************************************************************************)
(* CancellationToken of crates/domain/src/file_operations.rs: a flag for   *)
(* cancellation, a paused flag behind a mutex with a condition variable,   *)
(* and the acknowledgement the task row shows as "paused" instead of       *)
(* "pausing".  The UI thread pauses, resumes and cancels; the one thread   *)
(* that moves data (the scanner never waits on the token) calls            *)
(* check_cancel of crates/platform-windows/src/fs/file_operations.rs       *)
(* between two pieces of work.  (For a network copy the pause is passed on *)
(* to a helper process, and acknowledged by the thread that supervises it: *)
(* NetworkControl has that protocol.)                                    *)
(*                                                                         *)
(* Each step is what one thread does without the other seeing the middle:  *)
(* a critical section, an atomic store, the atomic release-and-sleep of    *)
(* Condvar::wait.                                                          *)
(***************************************************************************)
EXTENDS Integers

CONSTANT MaxPauses   \* bound: how often the user pauses

ASSUME MaxPausesAssumption == MaxPauses \in Nat

VARIABLES
  cancelled,   \* AtomicBool
  paused,      \* PauseState.paused, behind the mutex
  acked,       \* AtomicBool pause_acknowledged
  locked,      \* the worker holds the mutex across a step
  worker,      \* where the worker is in wait_if_paused and check_cancel
  notifying,   \* the UI thread stored cancelled and has not called notify_all
  pauses

vars == <<cancelled, paused, acked, locked, worker, notifying, pauses>>
token == <<cancelled, paused, acked>>

\* In wait_if_paused once the acknowledgement was given.
Waiting == {"testing", "parking", "asleep", "woken"}

Init ==
  /\ cancelled = FALSE /\ paused = FALSE /\ acked = FALSE
  /\ locked = FALSE /\ worker = "working" /\ notifying = FALSE /\ pauses = 0

\* Condvar::notify_all reaches the thread only if it already sleeps.
Notified == IF worker = "asleep" THEN "woken" ELSE worker

-----------------------------------------------------------------------------
(* UI thread.  A task that is cancelling refuses to be paused or resumed.   *)

Pause ==
  /\ ~cancelled /\ ~paused /\ ~locked /\ pauses < MaxPauses
  /\ paused' = TRUE /\ acked' = FALSE /\ pauses' = pauses + 1
  /\ UNCHANGED <<cancelled, locked, worker, notifying>>

\* Mutant: the acknowledgement outlives the pause.
ResumeKeepingAck ==
  /\ ~cancelled /\ paused /\ ~locked
  /\ paused' = FALSE
  /\ worker' = Notified
  /\ UNCHANGED <<cancelled, acked, locked, notifying, pauses>>

Resume ==
  /\ ~cancelled /\ paused /\ ~locked
  /\ paused' = FALSE /\ acked' = FALSE
  /\ worker' = Notified
  /\ UNCHANGED <<cancelled, locked, notifying, pauses>>

\* cancel() never takes the mutex.  Exiting cancels a task a second time.
Cancel ==
  /\ ~notifying
  /\ cancelled' = TRUE /\ notifying' = TRUE
  /\ UNCHANGED <<paused, acked, locked, worker, pauses>>

NotifyCancel ==
  /\ notifying
  /\ notifying' = FALSE /\ worker' = Notified
  /\ UNCHANGED <<token, locked, pauses>>

-----------------------------------------------------------------------------
(* Worker thread.                                                           *)

\* wait_if_paused takes the lock and acknowledges before it looks any further.
EnterWait ==
  /\ worker = "working" /\ ~locked
  /\ locked' = TRUE /\ worker' = "testing"
  /\ acked' = IF paused THEN TRUE ELSE acked
  /\ UNCHANGED <<cancelled, paused, notifying, pauses>>

\* while state.paused && !self.is_cancelled()
TestAndPark ==
  /\ worker = "testing" /\ paused /\ ~cancelled
  /\ worker' = "parking"
  /\ UNCHANGED <<token, locked, notifying, pauses>>

TestAndLeave ==
  /\ worker = "testing" /\ ~(paused /\ ~cancelled)
  /\ worker' = "left" /\ locked' = FALSE
  /\ UNCHANGED <<token, notifying, pauses>>

Sleep ==
  /\ worker = "parking"
  /\ worker' = "asleep" /\ locked' = FALSE
  /\ UNCHANGED <<token, notifying, pauses>>

SpuriousWake ==
  /\ worker = "asleep"
  /\ worker' = "woken"
  /\ UNCHANGED <<token, locked, notifying, pauses>>

\* Back in the loop, past the acknowledgement.
Relock ==
  /\ worker = "woken" /\ ~locked
  /\ worker' = "testing" /\ locked' = TRUE
  /\ UNCHANGED <<token, notifying, pauses>>

\* check_cancel after wait_if_paused.
CheckCancel ==
  /\ worker = "left"
  /\ worker' = IF cancelled THEN "ended" ELSE "working"
  /\ UNCHANGED <<token, locked, notifying, pauses>>

Complete ==
  /\ worker = "working"
  /\ worker' = "ended"
  /\ UNCHANGED <<token, locked, notifying, pauses>>

UiStep == Pause \/ Resume \/ Cancel \/ NotifyCancel
WorkerStep == EnterWait \/ TestAndPark \/ TestAndLeave \/ Sleep \/ Relock \/ CheckCancel

Next == UiStep \/ WorkerStep \/ SpuriousWake \/ Complete

Spec == Init /\ [][Next]_vars

-----------------------------------------------------------------------------
TypeOK ==
  /\ {cancelled, paused, acked, locked, notifying} \subseteq BOOLEAN
  /\ worker \in Waiting \cup {"working", "left", "ended"}
  /\ pauses \in 0..MaxPauses

\* "Paused" is shown only while the thread that moves data has stopped: it is in
\* the wait, and cannot leave it without a resume or a cancellation.
AckMeansStopped == acked /\ ~cancelled => paused /\ worker \in Waiting

\* A resume is never lost: a thread asleep in the wait is one that is still paused.
SleepsOnlyWhilePaused == worker = "asleep" => paused
=============================================================================
