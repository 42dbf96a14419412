------------------------------ MODULE CleanupTask ------------------------------
(***************************************************************************)
(* The durable task behind a permanent delete of local directories:        *)
(* create_cleanup_task, discover_cleanup_tasks, retry_cleanup_task and     *)
(* write_cleanup_record of crates/platform-windows/src/fs/                 *)
(* file_operations.rs, with the two workers that call them                 *)
(* (src/app/file_operation_worker.rs) and the scan at start (src/app.rs).  *)
(*                                                                         *)
(* One task.  Each directory is renamed from its place to a payload in the *)
(* hidden .asterfiles-cleanup of the same parent, and its space is         *)
(* released later, by another thread.  A numbered record says before and   *)
(* after each rename what is still to release; it is written to a          *)
(* temporary file and published by a rename.  The process may end between  *)
(* any two steps.  The user and other programs put new directories in the  *)
(* places of the old ones, never into the hidden payloads.                 *)
(***************************************************************************)
EXTENDS Integers

CONSTANTS
  Last,          \* the directories of the task are 1..Last, taken in this order
  MaxCrashes,    \* bound: how often the process ends
  MaxFaults,     \* bound: system calls that fail
  MaxStrangers,  \* bound: directories that take the place of another
  MaxRetries,    \* bound: how often the user retries a failed or stopped clean-up
  EarlyDelete    \* the delete may begin before the scan at start is done

ASSUME CleanupAssumption ==
  /\ Last \in Nat \ {0}
  /\ {MaxCrashes, MaxFaults, MaxStrangers, MaxRetries} \subseteq Nat
  /\ EarlyDelete \in BOOLEAN

VARIABLES
  original,   \* what stands at the path: 0 nothing, 1 what was there, 2 another one
  payload,    \* what stands at its payload path
  erased,     \* directories the clean-up deleted something of
  disk,       \* records published: [gen, rem, known]
  leftover,   \* generations whose .afcleanup.tmp is on disk
  folder,     \* the task's record directory exists
  make,       \* create_cleanup_task and the rest of the commit (local lane)
  clean,      \* retry_cleanup_task (clean-up lane)
  due,        \* the clean-up task in the operation manager
  scan,       \* discover_cleanup_tasks at start, and what it found
  up,         \* the process runs
  budget      \* what is left of the four bounds

vars == <<original, payload, erased, disk, leftover, folder, make, clean, due, scan, up, budget>>
files == <<original, payload, erased>>
records == <<disk, leftover, folder>>
app == <<due, scan, up>>

Item == 1..Last
Directory == 0..2

MakeSteps == {"idle", "inspect", "move", "open", "publish", "ordinary"}
CleanSteps == {"idle", "reconcile", "redo", "open", "publish", "sweep", "erase", "unlink"}

\* A thread at work on its copy of the record; `then` follows a write.
Idle == [pc |-> "idle", then |-> "idle", at |-> 1, gen |-> 0, rem |-> {},
         known |-> [i \in Item |-> 0], stop |-> FALSE]

\* discover_cleanup_tasks: the record with the highest number.
Latest == CHOOSE r \in disk : \A other \in disk : other.gen <= r.gen
Oldest == CHOOSE r \in disk : \A other \in disk : r.gen <= other.gen

Spend(kind) == budget[kind] > 0 /\ budget' = [budget EXCEPT ![kind] = @ - 1]

Init ==
  /\ original = [i \in Item |-> 1] /\ payload = [i \in Item |-> 0] /\ erased = {}
  /\ disk = {} /\ leftover = {} /\ folder = FALSE
  /\ make = Idle /\ clean = Idle /\ due = "none" /\ scan = "todo" /\ up = TRUE
  /\ budget = [crash |-> MaxCrashes, fault |-> MaxFaults,
               stranger |-> MaxStrangers, retry |-> MaxRetries]

-----------------------------------------------------------------------------
(* write_cleanup_record for a thread whose state is w: the temporary file is *)
(* created, written and synced, then renamed.                                *)

Write(w, next) == [w EXCEPT !.pc = "open", !.then = next]
Opened(w) == [w EXCEPT !.pc = "publish"]
Published(w) == [w EXCEPT !.pc = w.then, !.gen = @ + 1]

\* create_new refuses a file that exists; every later attempt meets it again.
OpenTemporary(w) ==
  /\ folder /\ w.gen + 1 \notin leftover
  /\ leftover' = leftover \cup {w.gen + 1}

PublishRecord(w) ==
  /\ disk' = {r \in disk : r.gen # w.gen + 1}
               \cup {[gen |-> w.gen + 1, rem |-> w.rem, known |-> w.known]}
  /\ leftover' = leftover \ {w.gen + 1}

\* What was created before the failure stays.
WriteFails(w) ==
  /\ \/ w.pc = "open" /\ (~folder \/ w.gen + 1 \in leftover) /\ UNCHANGED budget
     \/ w.pc \in {"open", "publish"} /\ Spend("fault")
  /\ UNCHANGED records

-----------------------------------------------------------------------------
(* Local lane: commit_permanent_delete_request_with_root.                    *)

\* The task directory is made and the first record is to be written.
StartDelete ==
  /\ up /\ make.pc = "idle" /\ ~folder
  /\ scan = "done" \/ EarlyDelete
  /\ \A i \in Item : original[i] = 1 /\ payload[i] = 0
  /\ folder' = TRUE
  /\ make' = Write(Idle, "inspect")
  /\ UNCHANGED <<files, disk, leftover, clean, app, budget>>

\* The error of create_cleanup_task: everything is deleted the ordinary way, and
\* no clean-up is asked for.
GiveUp(w) == [w EXCEPT !.pc = "ordinary", !.then = "idle", !.at = 1, !.rem = {}]

\* create_cleanup_task returned its record: what it moved is not deleted again.
Created(w) ==
  [w EXCEPT !.pc = "ordinary", !.then = "idle", !.at = 1,
            !.rem = {i \in @ : payload[i] # 0}]

MakeOpens ==
  /\ make.pc = "open" /\ OpenTemporary(make) /\ make' = Opened(make)
  /\ UNCHANGED <<files, disk, folder, clean, app, budget>>

MakePublishes ==
  /\ make.pc = "publish" /\ PublishRecord(make) /\ make' = Published(make)
  /\ UNCHANGED <<files, folder, clean, app, budget>>

MakeCannotWrite ==
  /\ WriteFails(make)
  /\ make' = GiveUp(make)
  /\ UNCHANGED <<files, clean, app>>

Recorded(w) == Write([w EXCEPT !.rem = @ \cup {w.at}, !.known[w.at] = original[w.at]], "move")

\* Mutant: the directory is moved before the record names it.
InspectAndGo ==
  /\ make.pc = "inspect" /\ make.at \in Item /\ ~make.stop /\ original[make.at] # 0
  /\ make' = [Recorded(make) EXCEPT !.pc = "move"]
  /\ UNCHANGED <<files, records, clean, app, budget>>

\* The identity is read and recorded, with the payload's path, before the rename.
Inspect ==
  /\ make.pc = "inspect" /\ make.at \in Item /\ ~make.stop /\ original[make.at] # 0
  /\ make' = Recorded(make)
  /\ UNCHANGED <<files, records, clean, app, budget>>

\* Nothing there any more, or the hidden directory cannot be made.
InspectFails ==
  /\ make.pc = "inspect" /\ make.at \in Item /\ ~make.stop
  /\ \/ original[make.at] = 0 /\ UNCHANGED budget
     \/ original[make.at] # 0 /\ Spend("fault")
  /\ make' = Write([make EXCEPT !.at = @ + 1], "inspect")
  /\ UNCHANGED <<files, records, clean, app>>

InspectStopped ==
  /\ make.pc = "inspect" /\ make.at \in Item /\ make.stop
  /\ make' = Write([make EXCEPT !.at = Last + 1], "inspect")
  /\ UNCHANGED <<files, records, clean, app, budget>>

InspectedAll ==
  /\ make.pc = "inspect" /\ make.at = Last + 1
  /\ make' = Created(make)
  /\ UNCHANGED <<files, records, clean, app, budget>>

\* Whatever stands at the path now is what the rename takes.  A directory that is
\* not the recorded one is left in the payload, with an error in the record.
Move ==
  /\ make.pc = "move" /\ original[make.at] # 0 /\ payload[make.at] = 0
  /\ payload' = [payload EXCEPT ![make.at] = original[make.at]]
  /\ original' = [original EXCEPT ![make.at] = 0]
  /\ make' = Write([make EXCEPT !.at = @ + 1], "inspect")
  /\ UNCHANGED <<erased, records, clean, app, budget>>

\* The directory is in use, or gone.
MoveRefused ==
  /\ make.pc = "move"
  /\ make' = Write([make EXCEPT !.rem = @ \ {make.at}, !.at = @ + 1], "inspect")
  /\ UNCHANGED <<files, records, clean, app, budget>>

\* permanently_delete of what was not moved: done, or refused and kept.
DeleteOrdinarily ==
  /\ make.pc = "ordinary" /\ make.at \in Item
  /\ \/ /\ ~make.stop /\ make.at \notin make.rem
        /\ original' = [original EXCEPT ![make.at] = 0]
     \/ UNCHANGED original
  /\ make' = [make EXCEPT !.at = @ + 1]
  /\ UNCHANGED <<payload, erased, records, clean, app, budget>>

\* PermanentDeleteCommitted: the window thread submits the clean-up of what the
\* record still names.
Commit ==
  /\ make.pc = "ordinary" /\ make.at = Last + 1
  /\ due' = IF make.rem # {} /\ due # "running" THEN "queued" ELSE due
  /\ make' = Idle
  /\ UNCHANGED <<files, records, clean, scan, up, budget>>

-----------------------------------------------------------------------------
(* Clean-up lane: execute_cleanup_request and retry_cleanup_task.            *)

\* The task's file is claimed and its latest record read.
Claim ==
  /\ due = "queued" /\ clean.pc = "idle" /\ disk # {}
  /\ clean' = [Idle EXCEPT !.pc = "reconcile", !.gen = Latest.gen, !.rem = Latest.rem,
                           !.known = Latest.known]
  /\ due' = "running"
  /\ UNCHANGED <<files, records, make, scan, up, budget>>

ClaimNothing ==
  /\ due = "queued" /\ clean.pc = "idle" /\ disk = {}
  /\ due' = "failed"
  /\ UNCHANGED <<files, records, make, clean, scan, up, budget>>

Passed(w) == [w EXCEPT !.at = @ + 1]

\* A payload is there, or the path holds a directory that is not the recorded one.
ReconcileKeeps ==
  /\ clean.pc = "reconcile" /\ clean.at \in Item
  /\ clean.at \in clean.rem =>
       \/ payload[clean.at] # 0
       \/ original[clean.at] \notin {0, clean.known[clean.at]}
  /\ clean' = Passed(clean)
  /\ UNCHANGED <<files, records, make, app, budget>>

\* The process ended between the record and the rename: the rename is done now.
ReconcileRedoes ==
  /\ clean.pc = "reconcile" /\ clean.at \in clean.rem
  /\ payload[clean.at] = 0 /\ original[clean.at] # 0
  /\ original[clean.at] = clean.known[clean.at]
  /\ clean' = [clean EXCEPT !.pc = "redo"]
  /\ UNCHANGED <<files, records, make, app, budget>>

\* Mutant: an item found nowhere is kept for a later attempt.
ReconcileKeepsLost ==
  /\ clean.pc = "reconcile" /\ clean.at \in clean.rem
  /\ payload[clean.at] = 0 /\ original[clean.at] = 0
  /\ clean' = Passed(clean)
  /\ UNCHANGED <<files, records, make, app, budget>>

ReconcileDrops ==
  /\ clean.pc = "reconcile" /\ clean.at \in clean.rem
  /\ payload[clean.at] = 0 /\ original[clean.at] = 0
  /\ clean' = Passed([clean EXCEPT !.rem = @ \ {clean.at}])
  /\ UNCHANGED <<files, records, make, app, budget>>

Redo ==
  /\ clean.pc = "redo"
  /\ \/ /\ original[clean.at] # 0 /\ payload[clean.at] = 0
        /\ payload' = [payload EXCEPT ![clean.at] = original[clean.at]]
        /\ original' = [original EXCEPT ![clean.at] = 0]
        /\ UNCHANGED budget
     \/ /\ UNCHANGED <<original, payload>>
        /\ IF original[clean.at] = 0 THEN UNCHANGED budget ELSE Spend("fault")
  /\ clean' = [Passed(clean) EXCEPT !.pc = "reconcile"]
  /\ UNCHANGED <<erased, records, make, app>>

Reconciled ==
  /\ clean.pc = "reconcile" /\ clean.at = Last + 1
  /\ clean' = Write([clean EXCEPT !.at = 1], "sweep")
  /\ UNCHANGED <<files, records, make, app, budget>>

CleanOpens ==
  /\ clean.pc = "open" /\ OpenTemporary(clean) /\ clean' = Opened(clean)
  /\ UNCHANGED <<files, disk, folder, make, app, budget>>

CleanPublishes ==
  /\ clean.pc = "publish" /\ clean.then # "idle"
  /\ PublishRecord(clean) /\ clean' = Published(clean)
  /\ UNCHANGED <<files, folder, make, app, budget>>

Ended(outcome) == clean' = Idle /\ due' = outcome

\* The record that ends a clean-up with something left.
CleanPublishesLast ==
  /\ clean.pc = "publish" /\ clean.then = "idle"
  /\ PublishRecord(clean) /\ Ended(IF clean.stop THEN "cancelled" ELSE "failed")
  /\ UNCHANGED <<files, folder, make, scan, up, budget>>

CleanCannotWrite ==
  /\ WriteFails(clean) /\ Ended("failed")
  /\ UNCHANGED <<files, make, scan, up>>

SweepSkips ==
  /\ clean.pc = "sweep" /\ clean.at \in Item \ clean.rem
  /\ clean' = Passed(clean)
  /\ UNCHANGED <<files, records, make, app, budget>>

\* Mutant: whatever is in the payload is deleted.
SweepBeginsAny ==
  /\ clean.pc = "sweep" /\ clean.at \in clean.rem /\ ~clean.stop
  /\ payload[clean.at] # 0
  /\ clean' = [clean EXCEPT !.pc = "erase"]
  /\ UNCHANGED <<files, records, make, app, budget>>

SweepBegins ==
  /\ clean.pc = "sweep" /\ clean.at \in clean.rem /\ ~clean.stop
  /\ payload[clean.at] # 0 /\ payload[clean.at] = clean.known[clean.at]
  /\ clean' = [clean EXCEPT !.pc = "erase"]
  /\ UNCHANGED <<files, records, make, app, budget>>

\* The payload is gone, or is not the recorded directory.
SweepRefuses ==
  /\ clean.pc = "sweep" /\ clean.at \in clean.rem /\ ~clean.stop
  /\ payload[clean.at] \in {0} \cup (Directory \ {clean.known[clean.at]})
  /\ clean' = Write(Passed(clean), "sweep")
  /\ UNCHANGED <<files, records, make, app, budget>>

SweepStopped ==
  /\ clean.pc = "sweep" /\ clean.at \in clean.rem /\ clean.stop
  /\ clean' = Write(clean, "idle")
  /\ UNCHANGED <<files, records, make, app, budget>>

\* remove_cleanup_entry deletes an entry of the directory, or the last of it.
Erase ==
  /\ clean.pc = "erase" /\ ~clean.stop
  /\ erased' = erased \cup {<<clean.at, payload[clean.at]>>}
  /\ UNCHANGED <<original, payload, clean, records, make, app, budget>>

EraseEnds ==
  /\ clean.pc = "erase" /\ ~clean.stop
  /\ erased' = erased \cup {<<clean.at, payload[clean.at]>>}
  /\ payload' = [payload EXCEPT ![clean.at] = 0]
  /\ clean' = Write(Passed([clean EXCEPT !.rem = @ \ {clean.at}]), "sweep")
  /\ UNCHANGED <<original, records, make, app, budget>>

EraseStopped ==
  /\ clean.pc = "erase" /\ clean.stop
  /\ clean' = Write(clean, "idle")
  /\ UNCHANGED <<files, records, make, app, budget>>

EraseFails ==
  /\ clean.pc = "erase" /\ ~clean.stop /\ Spend("fault")
  /\ clean' = Write(Passed(clean), "sweep")
  /\ UNCHANGED <<files, records, make, app>>

Swept ==
  /\ clean.pc = "sweep" /\ clean.at = Last + 1
  /\ clean' = IF clean.rem = {} THEN [clean EXCEPT !.pc = "unlink"] ELSE Write(clean, "idle")
  /\ UNCHANGED <<files, records, make, app, budget>>

\* Nothing is left: the records are removed in the order the directory lists them,
\* which NTFS does by name: the oldest first.
UnlinkRecord ==
  /\ clean.pc = "unlink" /\ disk # {} /\ disk' = disk \ {Oldest}
  /\ UNCHANGED <<files, leftover, folder, make, clean, app, budget>>

UnlinkFails ==
  /\ clean.pc = "unlink" /\ Spend("fault") /\ Ended("failed")
  /\ UNCHANGED <<files, records, make, scan, up>>

\* The task's directory is removed unless a temporary file is left in it.
UnlinkEnds ==
  /\ clean.pc = "unlink" /\ disk = {}
  /\ folder' = (leftover # {}) /\ Ended("done")
  /\ UNCHANGED <<files, disk, leftover, make, scan, up, budget>>

-----------------------------------------------------------------------------
(* The scan at start, the user, and the end of the process.                  *)

\* On a thread of its own.
Scan ==
  /\ up /\ scan = "todo"
  /\ scan' = IF disk = {} THEN "nothing" ELSE IF Latest.rem = {} THEN "empty" ELSE "left"
  /\ UNCHANGED <<files, records, make, clean, due, up, budget>>

\* recovered_cleanup_requests, on the window thread: what is left is queued.
Recover ==
  /\ scan \in {"nothing", "left"}
  /\ scan' = "done"
  /\ due' = IF scan = "left" /\ due # "running" THEN "queued" ELSE due
  /\ UNCHANGED <<files, records, make, clean, up, budget>>

\* discard_empty_cleanup_task; an error leaves the later records.
Discard ==
  /\ scan = "empty"
  /\ scan' = "done"
  /\ \/ disk' = {} /\ UNCHANGED budget
     \/ /\ \E first \in disk : disk' = {r \in disk : r.gen >= first.gen}
        /\ Spend("fault")
  /\ folder' = ~(disk' = {} /\ leftover = {})
  /\ UNCHANGED <<files, leftover, make, clean, due, up>>

Cancel ==
  /\ \/ make.pc # "idle" /\ make' = [make EXCEPT !.stop = TRUE] /\ UNCHANGED clean
     \/ clean.pc # "idle" /\ clean' = [clean EXCEPT !.stop = TRUE] /\ UNCHANGED make
  /\ UNCHANGED <<files, records, app, budget>>

Retry ==
  /\ due \in {"failed", "cancelled"} /\ Spend("retry")
  /\ due' = "queued"
  /\ UNCHANGED <<files, records, make, clean, scan, up>>

\* The user or another program takes a directory away, or puts another in the place
\* of one that was there or was moved.
Replace(i) ==
  /\ {original[i], payload[i]} \cap {2} = {} /\ <<i, 2>> \notin erased /\ Spend("stranger")
  /\ \E new \in {0, 2} : original' = [original EXCEPT ![i] = new]
  /\ UNCHANGED <<payload, erased, records, make, clean, app>>

Crash ==
  /\ up /\ Spend("crash")
  /\ up' = FALSE /\ make' = Idle /\ clean' = Idle /\ due' = "none" /\ scan' = "done"
  /\ UNCHANGED <<files, records>>

Restart ==
  /\ ~up /\ up' = TRUE /\ scan' = "todo"
  /\ UNCHANGED <<files, records, make, clean, due, budget>>

MakeStep ==
  \/ MakeOpens \/ MakePublishes \/ MakeCannotWrite
  \/ Inspect \/ InspectFails \/ InspectStopped \/ InspectedAll
  \/ Move \/ MoveRefused \/ DeleteOrdinarily \/ Commit

CleanStep ==
  \/ Claim \/ ClaimNothing
  \/ ReconcileKeeps \/ ReconcileRedoes \/ ReconcileDrops \/ Redo \/ Reconciled
  \/ CleanOpens \/ CleanPublishes \/ CleanPublishesLast \/ CleanCannotWrite
  \/ SweepSkips \/ SweepBegins \/ SweepRefuses \/ SweepStopped
  \/ EraseEnds \/ EraseStopped \/ EraseFails \/ Swept
  \/ UnlinkRecord \/ UnlinkFails \/ UnlinkEnds

ScanStep == Scan \/ Recover \/ Discard

Outside == Cancel \/ Retry \/ (\E i \in Item : Replace(i)) \/ Crash \/ Restart

Next == StartDelete \/ MakeStep \/ CleanStep \/ Erase \/ ScanStep \/ Outside

Spec == Init /\ [][Next]_vars

\* The threads run while the process does.  The user owes nothing, not even a start;
\* a directory has only so many entries, so that Erase does not go on for ever.
FairSpec == Spec /\ WF_vars(MakeStep) /\ WF_vars(CleanStep) /\ WF_vars(ScanStep)

-----------------------------------------------------------------------------
Worker(steps) ==
  [pc : steps, then : MakeSteps \cup CleanSteps, at : 1..(Last + 1), gen : Nat,
   rem : SUBSET Item, known : [Item -> Directory], stop : BOOLEAN]

TypeOK ==
  /\ original \in [Item -> Directory] /\ payload \in [Item -> Directory]
  /\ erased \in SUBSET (Item \X Directory)
  /\ disk \in SUBSET [gen : Nat, rem : SUBSET Item, known : [Item -> Directory]]
  /\ leftover \in SUBSET Nat /\ folder \in BOOLEAN
  /\ make \in Worker(MakeSteps) /\ clean \in Worker(CleanSteps)
  /\ due \in {"none", "queued", "running", "done", "failed", "cancelled"}
  /\ scan \in {"todo", "nothing", "empty", "left", "done"} /\ up \in BOOLEAN
  /\ budget \in [{"crash", "fault", "stranger", "retry"} -> Nat]

\* A directory moved out of its place is never lost sight of: the latest record names
\* it at every instant, so a start after a crash anywhere finds it.
PayloadTracked ==
  \A i \in Item : payload[i] # 0 => disk # {} /\ i \in Latest.rem

\* The clean-up deletes nothing of a directory other than the one whose identity was
\* recorded, whatever took its place in between (docs/foundation-plan.md:221: content
\* whose identity changed is never deleted automatically).
ErasesOnlyRecorded ==
  [][\A p \in erased' \ erased : disk # {} /\ Latest.known[p[1]] = p[2]]_vars

\* What the clean-up of a queued task may be kept from: the process ends again, the
\* user stops it, another directory is or was in the way, a call fails from now on.
Excused(faults) ==
  \/ ~up \/ due = "cancelled"
  \/ budget["stranger"] < MaxStrangers \/ budget["fault"] < faults

\* Once queued, the task is carried to its end, whichever step the process ended or
\* failed at before: every directory is released and the records are gone, unless a
\* temporary record was left behind.
ReleasedAfterQueued ==
  \A faults \in 0..MaxFaults :
    due = "queued" /\ budget["fault"] = faults /\ leftover = {} ~> disk = {} \/ Excused(faults)

\* docs/postmortem/postmortem-2026-09-11-permanent-delete-cleanup.md:38: after a restart
\* a valid clean-up task is recovered automatically.
RecoveredIsReleased ==
  due = "queued" ~> disk = {} \/ Excused(MaxFaults)
=============================================================================
