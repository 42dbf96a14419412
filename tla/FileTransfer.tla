----------------------------- MODULE FileTransfer -----------------------------
(***************************************************************************)
(* Copying and moving one file, or one directory of files, between local   *)
(* places: copy_path_with_execution and move_path_with_progress_inner of   *)
(* crates/platform-windows/src/fs/file_operations.rs with what they call,  *)
(* the scanner of file_operations/copy_scan.rs that lists a source for     *)
(* copying, and the chunks of windows/copy_file.rs.                        *)
(*                                                                         *)
(* The worker waits at every check_cancel in the token of PauseToken,      *)
(* which the user pauses, resumes and cancels.  Other programs add files   *)
(* to the source and take files from it; they leave the destination alone. *)
(* The answers to conflicts are given at once (OperationLanes has the wait *)
(* for them).  A directory holds files only: a nested one repeats the      *)
(* steps of the outer one.                                                 *)
(***************************************************************************)
EXTENDS PauseToken, Sequences, FiniteSets

CONSTANTS
  Name,          \* files of the source; a single file is transferred as one of them
  MaxFaults,     \* bound: file system calls that fail
  MaxChanges,    \* bound: files other programs add or take
  QueueCap       \* QUEUE_CAPACITY of the scanner's queue

ASSUME TransferAssumption ==
  /\ Name # {} /\ IsFiniteSet(Name)
  /\ Name \cap {"end", "error", "stopped"} = {}   \* the scanner's messages are not names
  /\ MaxFaults \in Nat /\ MaxChanges \in Nat /\ QueueCap \in Nat \ {0}

VARIABLES
  request,   \* what is asked, and what the worker cannot know: see Requests
  file,      \* per name, what is at the source, the destination and their siblings
  tree,      \* the directories themselves
  job,       \* the worker: where it is and what it has reported
  scan,      \* the scanner of a copy, and its queue
  spare      \* what is left of MaxFaults and MaxChanges; the files others have taken

transferVars == <<request, file, tree, job, scan, spare>>
allVars == <<vars, transferVars>>
disk == <<file, tree>>

None == "none"

\* src: "own" from the start, "late" if added since.  dst: what has the name at the
\* destination, "old" or a whole "new" copy.  kept: a new copy under a name of its own.
\* stg: a copy in the staged tree of replace_directory_safely.  tmp and bak: the
\* .asterfiles-copy and .asterfiles-backup siblings.
FileState ==
  [src : {None, "own", "late"}, dst : {None, "old", "new"}, kept : {None, "new"},
   stg : {None, "new"}, tmp : {None, "part", "full"}, bak : {None, "old"}]

\* dst: "file" if a file has the directory's name.
TreeState == [src : BOOLEAN, dst : {None, "old", "new", "file"}, stg : BOOLEAN, bak : BOOLEAN]

Requests == [kind : {"copy", "move"}, whole : BOOLEAN, across : BOOLEAN]

Outcome == {None, "ok", "cancelled", "error", "retained"}

Spend(kind) == spare[kind] > 0 /\ spare' = [spare EXCEPT ![kind] = @ - 1]
FaultIsSpent == Spend("fault")

Blank == [src |-> None, dst |-> None, kept |-> None, stg |-> None, tmp |-> None, bak |-> None]

FirstTrees(whole) ==
  [src : {whole}, dst : {None, "old", "file"}, stg : {FALSE}, bak : {FALSE}]

\* A whole directory, or one file of Name alone.
TransferInit ==
  /\ Init
  /\ request \in Requests
  /\ file \in [Name -> {[Blank EXCEPT !.src = s, !.dst = d] :
                          s \in {None, "own"}, d \in {None, "old"}}]
  /\ tree \in FirstTrees(request.whole)
  /\ IF request.whole
       THEN tree.dst # "old" => \A f \in Name : file[f].dst = None
       ELSE tree.dst = "old" /\ Cardinality({f \in Name : file[f].src = "own"}) = 1
  /\ job = [pc |-> "start", at |-> None, checked |-> FALSE, into |-> "dst", to |-> "dst",
            replace |-> FALSE, seen |-> {}, skipped |-> FALSE, gone |-> FALSE, outcome |-> None]
  /\ scan = [left |-> IF request.kind = "copy" /\ request.whole
                        THEN {f \in Name : file[f].src = "own"} ELSE {},
             state |-> IF request.kind = "copy" THEN "listing" ELSE "ended",
             queue |-> <<>>, open |-> TRUE]
  /\ spare = [fault |-> MaxFaults, change |-> MaxChanges, taken |-> {}]

Moving == request.kind = "move"

\* copy_directory removes each source it has copied, unless the copy is staged.
Removing == Moving /\ job.into # "stg"

-----------------------------------------------------------------------------
(* How the worker goes on and ends.                                         *)

Goto(next) == [job EXCEPT !.pc = next, !.checked = FALSE]

\* Mutant: the error is told as it is.
FailedPlain(error) == [job EXCEPT !.pc = "leave", !.checked = FALSE, !.outcome = error]

\* partial_directory_move_error: once a source is gone the error is told as a
\* destination committed and a source retained.
Failed(error) ==
  [job EXCEPT !.pc = "leave", !.checked = FALSE,
              !.outcome = IF request.whole /\ Removing /\ job.gone THEN "retained" ELSE error]

Succeeded == [job EXCEPT !.pc = "leave", !.checked = FALSE, !.outcome = "ok"]

\* After a file: the next of the directory, or the end.
After(j) ==
  [j EXCEPT !.pc = IF request.whole THEN "list" ELSE "leave", !.checked = FALSE,
            !.outcome = IF request.whole THEN None ELSE "ok"]

At(step) == job.pc = step /\ worker = "working" /\ UNCHANGED <<vars, request>>
Ready(step) == At(step) /\ job.checked

-----------------------------------------------------------------------------
(* The root.                                                                *)

StartFile ==
  /\ Ready("start") /\ ~request.whole
  /\ \E f \in Name :
       /\ file[f].src # None
       /\ job' = [Goto(IF Moving THEN "inner" ELSE "entry") EXCEPT !.at = f]
  /\ UNCHANGED <<disk, scan, spare>>

StartMissing ==
  /\ Ready("start") /\ ~request.whole /\ \A f \in Name : file[f].src = None
  /\ job' = Failed("error")
  /\ UNCHANGED <<disk, scan, spare>>

\* Nothing of that name at the destination and the same volume: one rename.
RenameTree(place) ==
  /\ file' = [f \in Name |-> IF file[f].src = None THEN file[f]
                             ELSE [file[f] EXCEPT ![place] = "new", !.src = None]]
  /\ tree' = [tree EXCEPT !.src = FALSE, !.dst = IF place = "dst" THEN "new" ELSE @]
  /\ job' = Succeeded

StartTree ==
  /\ Ready("start") /\ request.whole /\ tree.dst # "file"
  /\ IF Moving /\ ~request.across /\ tree.dst = None
       THEN RenameTree("dst")
       ELSE /\ tree' = [tree EXCEPT !.dst = IF @ = None THEN "new" ELSE @]
            /\ job' = Goto("list") /\ UNCHANGED file
  /\ UNCHANGED <<scan, spare>>

\* A file has the directory's name: the user is asked.
TreeSkipped ==
  /\ Ready("start") /\ request.whole /\ tree.dst = "file"
  /\ job' = [Goto("skipping") EXCEPT !.skipped = TRUE]
  /\ UNCHANGED <<disk, scan, spare>>

TreeKeptBoth ==
  /\ Ready("start") /\ request.whole /\ tree.dst = "file"
  /\ IF Moving /\ ~request.across
       THEN RenameTree("kept")
       ELSE job' = [Goto("list") EXCEPT !.into = "kept"] /\ UNCHANGED disk
  /\ UNCHANGED <<scan, spare>>

\* replace_directory_safely copies into a sibling, on the same volume too.
TreeReplaced ==
  /\ Ready("start") /\ request.whole /\ tree.dst = "file"
  /\ tree' = [tree EXCEPT !.stg = TRUE]
  /\ job' = [Goto("list") EXCEPT !.into = "stg"]
  /\ UNCHANGED <<file, scan, spare>>

-----------------------------------------------------------------------------
(* The files of the directory: listed by the scanner's queue for a copy, by  *)
(* the worker itself for a move.                                             *)

Merging == Moving /\ tree.dst = "old" /\ job.into = "dst"

Visit(f) ==
  [Goto(IF Merging THEN "inner" ELSE "entry") EXCEPT !.at = f, !.seen = @ \cup {f}]

ListMoved ==
  /\ Ready("list") /\ Moving
  /\ \E f \in Name \ job.seen : file[f].src # None /\ job' = Visit(f)
  /\ UNCHANGED <<disk, scan, spare>>

\* A file added since the listing began may be missed.
ListEnds ==
  /\ Ready("list") /\ Moving
  /\ \A f \in Name \ job.seen : file[f].src # "own"
  /\ job' = Goto("closing")
  /\ UNCHANGED <<disk, scan, spare>>

Receive ==
  /\ Ready("list") /\ ~Moving /\ scan.queue # <<>>
  /\ job' = LET entry == Head(scan.queue) IN
              CASE entry = "end" -> Goto("closing")
                [] entry = "error" -> Failed("error")
                [] entry = "stopped" -> Failed("cancelled")
                [] OTHER -> Visit(entry)
  /\ scan' = [scan EXCEPT !.queue = Tail(@)]
  /\ UNCHANGED <<disk, spare>>

\* report_skipped_progress: the skipped directory is listed to its end all the same,
\* by the queue for a copy; errors in it are passed over.
SkipListed ==
  /\ Ready("skipping")
  /\ IF Moving
       THEN job' = Succeeded /\ UNCHANGED scan
       ELSE /\ scan.queue # <<>>
            /\ job' = IF Head(scan.queue) = "end" THEN Succeeded ELSE Goto("skipping")
            /\ scan' = [scan EXCEPT !.queue = Tail(@)]
  /\ UNCHANGED <<disk, spare>>

\* recv_timeout: back to the wait of the token after 50 ms.
ReceiveTimesOut ==
  /\ \E step \in {"list", "skipping"} : Ready(step) /\ job' = Goto(step)
  /\ ~Moving /\ scan.queue = <<>>
  /\ UNCHANGED <<disk, scan, spare>>

\* copy_scan::scan only looks at the flag of the token; send blocks on a full queue
\* and fails once the worker has dropped it.
Send(entry, next) ==
  /\ scan.open => Len(scan.queue) < QueueCap
  /\ scan' = IF scan.open THEN [next EXCEPT !.queue = Append(@, entry)]
                          ELSE [scan EXCEPT !.state = "ended"]
  /\ UNCHANGED <<vars, request, disk, job, spare>>

ScanFile ==
  /\ scan.state = "listing" /\ ~cancelled
  /\ \E f \in scan.left :
       IF file[f].src = None
         THEN Send("error", [scan EXCEPT !.left = @ \ {f}])
         ELSE Send(f, [scan EXCEPT !.left = @ \ {f}])

\* A single file is only counted.
ScanEnds ==
  /\ scan.state = "listing" /\ scan.left = {}
  /\ IF request.whole
       THEN Send("end", [scan EXCEPT !.state = "ended"])
       ELSE scan' = [scan EXCEPT !.state = "ended"]
            /\ UNCHANGED <<vars, request, disk, job, spare>>

ScanCancelled ==
  /\ scan.state = "listing" /\ cancelled /\ scan.left # {}
  /\ Send("stopped", [scan EXCEPT !.state = "ended"])

-----------------------------------------------------------------------------
(* One file, at job.at.                                                     *)

Here == file[job.at]
Place(field, value) == file' = [file EXCEPT ![job.at][field] = value]

\* What has the name where the file is to go: nothing yet in a fresh directory.
Taken == job.into = "dst" /\ Here.dst # None

CopyTo(place, over) == [Goto("copy") EXCEPT !.to = place, !.replace = over]

Gone ==
  /\ \E step \in {"entry", "inner"} : Ready(step)
  /\ Here.src = None
  /\ job' = Failed("error")
  /\ UNCHANGED <<disk, scan, spare>>

\* copy_entry and resolve_destination.
EntryFree ==
  /\ Ready("entry") /\ Here.src # None /\ ~Taken
  /\ job' = CopyTo(job.into, FALSE)
  /\ UNCHANGED <<disk, scan, spare>>

\* The answer to the conflict; a moved file can be renamed to a name of its own.
Skip ==
  /\ \E step \in {"entry", "inner"} : Ready(step)
  /\ Here.src # None /\ Taken
  /\ job' = After([job EXCEPT !.skipped = TRUE])
  /\ UNCHANGED <<disk, scan, spare>>

Replace ==
  /\ \E step \in {"entry", "inner"} : Ready(step)
  /\ Here.src # None /\ Taken
  /\ job' = CopyTo("dst", TRUE)
  /\ UNCHANGED <<disk, scan, spare>>

KeepBoth ==
  /\ \E step \in {"entry", "inner"} : Ready(step)
  /\ Here.src # None /\ Taken
  /\ job.pc = "inner" => request.across
  /\ job' = CopyTo("kept", FALSE)
  /\ UNCHANGED <<disk, scan, spare>>

RenameFile(place) ==
  /\ file' = [file EXCEPT ![job.at][place] = "new", ![job.at].src = None]
  /\ job' = After([job EXCEPT !.gone = TRUE])

\* move_path_with_progress_inner: a rename on the volume, a copy across volumes.
InnerRenames ==
  /\ Ready("inner") /\ Here.src # None /\ ~request.across
  /\ RenameFile(IF Taken THEN "kept" ELSE "dst")
  /\ UNCHANGED <<tree, scan, spare>>

InnerFree ==
  /\ Ready("inner") /\ Here.src # None /\ ~Taken /\ request.across
  /\ job' = CopyTo("dst", FALSE)
  /\ UNCHANGED <<disk, scan, spare>>

\* copy_file: a chunk, and back to the wait of the token; the last chunk.
Chunk ==
  /\ Ready("copy") /\ Here.src # None
  /\ Place("tmp", "part") /\ job' = Goto("copy")
  /\ UNCHANGED <<tree, scan, spare>>

LastChunk ==
  /\ Ready("copy") /\ Here.src # None
  /\ Place("tmp", "full") /\ job' = Goto("publish")
  /\ UNCHANGED <<tree, scan, spare>>

\* The temporary file is removed when the copy fails, or is stopped.
CopyFails ==
  /\ At("copy")
  /\ IF Here.src = None THEN UNCHANGED spare ELSE FaultIsSpent
  /\ Place("tmp", None) /\ job' = Failed("error")
  /\ UNCHANGED <<tree, scan>>

Publish ==
  /\ At("publish") /\ ~job.replace
  /\ file' = [file EXCEPT ![job.at].tmp = None, ![job.at][job.to] = "new"]
  /\ job' = IF Removing THEN Goto("remove") ELSE After(job)
  /\ UNCHANGED <<tree, scan, spare>>

\* Mutant: the old file is deleted to make room.
SetAsideDeleting ==
  /\ At("publish") /\ job.replace
  /\ Place("dst", None) /\ job' = Goto("swap")
  /\ UNCHANGED <<tree, scan, spare>>

\* replace_with_temporary: the old file is moved aside, the new one takes its name,
\* the old one is deleted.
SetAside ==
  /\ At("publish") /\ job.replace
  /\ file' = [file EXCEPT ![job.at].dst = None, ![job.at].bak = "old"]
  /\ job' = Goto("swap")
  /\ UNCHANGED <<tree, scan, spare>>

Swap ==
  /\ At("swap")
  /\ file' = [file EXCEPT ![job.at].tmp = None, ![job.at].dst = "new"]
  /\ job' = Goto("discard")
  /\ UNCHANGED <<tree, scan, spare>>

Discard ==
  /\ At("discard")
  /\ Place("bak", None)
  /\ job' = IF Removing THEN Goto("remove") ELSE After(job)
  /\ UNCHANGED <<tree, scan, spare>>

PublishFails ==
  /\ At("publish") /\ FaultIsSpent
  /\ Place("tmp", None) /\ job' = Failed("error")
  /\ UNCHANGED <<tree, scan>>

\* The old file gets its name back.
SwapFails ==
  /\ At("swap") /\ FaultIsSpent
  /\ file' = [file EXCEPT ![job.at].tmp = None, ![job.at].bak = None, ![job.at].dst = "old"]
  /\ job' = Failed("error")
  /\ UNCHANGED <<tree, scan>>

DiscardFails ==
  /\ At("discard") /\ FaultIsSpent
  /\ job' = Failed("error")
  /\ UNCHANGED <<disk, scan>>

\* remove_source_after_committed_copy.
Remove ==
  /\ At("remove") /\ ~cancelled /\ Here.src # None
  /\ Place("src", None) /\ job' = After([job EXCEPT !.gone = TRUE])
  /\ UNCHANGED <<tree, scan, spare>>

RemoveFails ==
  /\ At("remove")
  /\ IF cancelled \/ Here.src = None THEN UNCHANGED spare ELSE FaultIsSpent
  /\ job' = Failed("retained")
  /\ UNCHANGED <<disk, scan>>

-----------------------------------------------------------------------------
(* The end of a directory.                                                  *)

Emptied == \A f \in Name : file[f].src = None

CloseCopy ==
  /\ At("closing") /\ ~Moving /\ job.into # "stg"
  /\ job' = Succeeded
  /\ UNCHANGED <<disk, scan, spare>>

\* remove_dir refuses a directory that is not empty: something was skipped, or added.
CloseMove ==
  /\ At("closing") /\ Removing
  /\ IF Emptied /\ (Merging \/ ~cancelled)
       THEN tree' = [tree EXCEPT !.src = FALSE] /\ job' = Succeeded
       ELSE /\ UNCHANGED tree
            /\ job' = IF Merging /\ job.skipped THEN Succeeded ELSE Failed("retained")
  /\ UNCHANGED <<file, scan, spare>>

CloseMoveFails ==
  /\ At("closing") /\ Removing /\ FaultIsSpent
  /\ job' = Failed("retained")
  /\ UNCHANGED <<disk, scan>>

\* The staged tree is complete: replace_with_temporary for directories.
StageSetAside ==
  /\ At("closing") /\ job.into = "stg"
  /\ tree' = [tree EXCEPT !.dst = None, !.bak = TRUE]
  /\ job' = Goto("stageSwap")
  /\ UNCHANGED <<file, scan, spare>>

StageSwap ==
  /\ At("stageSwap")
  /\ tree' = [tree EXCEPT !.dst = "new", !.stg = FALSE]
  /\ file' = [f \in Name |-> [file[f] EXCEPT !.dst = file[f].stg, !.stg = None]]
  /\ job' = Goto("stageDiscard")
  /\ UNCHANGED <<scan, spare>>

StageDiscard ==
  /\ At("stageDiscard")
  /\ tree' = [tree EXCEPT !.bak = FALSE]
  /\ job' = IF Moving THEN Goto("sweep") ELSE Succeeded
  /\ UNCHANGED <<file, scan, spare>>

\* The staged tree is left behind; so is the old file when it cannot be deleted.
StageFails ==
  /\ job.pc \in {"closing", "stageSwap", "stageDiscard"} /\ At(job.pc)
  /\ job.into = "stg" /\ FaultIsSpent
  /\ tree' = IF job.pc = "stageSwap" THEN [tree EXCEPT !.dst = "file", !.bak = FALSE] ELSE tree
  /\ job' = Failed("error")
  /\ UNCHANGED <<file, scan>>

\* The sources of what was staged are removed one by one, the directory last.
Sweep ==
  /\ At("sweep") /\ ~cancelled
  /\ \E f \in job.seen :
       /\ file[f].src # None
       /\ file' = [file EXCEPT ![f].src = None]
       /\ job' = [job EXCEPT !.seen = @ \ {f}]
  /\ UNCHANGED <<tree, scan, spare>>

SweepEnds ==
  /\ At("sweep") /\ ~cancelled /\ job.seen = {} /\ Emptied
  /\ tree' = [tree EXCEPT !.src = FALSE] /\ job' = Succeeded
  /\ UNCHANGED <<file, scan, spare>>

SweepFails ==
  /\ At("sweep")
  /\ IF \/ cancelled
        \/ \E f \in job.seen : file[f].src = None
        \/ job.seen = {} /\ ~Emptied
       THEN UNCHANGED spare ELSE FaultIsSpent
  /\ job' = Failed("retained")
  /\ UNCHANGED <<disk, scan>>

\* Mutant: the scanner is waited for while its queue is still held.
LeaveHolding ==
  /\ job.pc = "leave" /\ (worker = "ended" \/ worker = "working")
  /\ scan.state = "ended"
  /\ job' = [job EXCEPT !.pc = "ended"] /\ worker' = "ended"
  /\ UNCHANGED <<token, locked, notifying, pauses, request, disk, scan, spare>>

\* The queue is dropped first, so that a scanner blocked on it fails and can be joined.
Leave ==
  /\ job.pc = "leave" /\ (worker = "ended" \/ worker = "working")
  /\ IF scan.open
       THEN /\ scan' = [scan EXCEPT !.open = FALSE, !.queue = <<>>]
            /\ UNCHANGED <<job, worker>>
       ELSE /\ scan.state = "ended"
            /\ job' = [job EXCEPT !.pc = "ended"] /\ worker' = "ended"
            /\ UNCHANGED scan
  /\ UNCHANGED <<token, locked, notifying, pauses, request, disk, spare>>

-----------------------------------------------------------------------------
(* The wait in the token.                                                   *)

CheckPoints == {"start", "list", "skipping", "entry", "inner", "copy"}

Enter ==
  /\ EnterWait /\ job.pc \in CheckPoints /\ ~job.checked
  /\ UNCHANGED transferVars

CheckPasses ==
  /\ CheckCancel /\ worker' = "working"
  /\ job' = [job EXCEPT !.checked = TRUE]
  /\ UNCHANGED <<request, disk, scan, spare>>

\* A copy under way removes its temporary file.
CheckStops ==
  /\ CheckCancel /\ worker' = "ended"
  /\ job' = Failed("cancelled")
  /\ IF job.pc = "copy" THEN Place("tmp", None) ELSE UNCHANGED file
  /\ UNCHANGED <<request, tree, scan, spare>>

TokenStep ==
  /\ UiStep \/ TestAndPark \/ TestAndLeave \/ Sleep \/ SpuriousWake \/ Relock
  /\ job.pc # "ended"
  /\ UNCHANGED transferVars

-----------------------------------------------------------------------------
(* Other programs.                                                          *)

\* A new file in the source; the listing may or may not still meet it.
AddFile(f) ==
  /\ request.whole /\ tree.src /\ job.pc # "ended" /\ Spend("change")
  /\ file[f].src = None /\ f \notin job.seen /\ f \notin scan.left /\ "new" \notin {file[f].dst, file[f].kept}
  /\ file' = [file EXCEPT ![f].src = "late"]
  /\ \E met \in BOOLEAN :
       scan' = IF met /\ scan.state = "listing" THEN [scan EXCEPT !.left = @ \cup {f}] ELSE scan
  /\ UNCHANGED <<vars, request, tree, job>>

TakeFile(f) ==
  /\ job.pc # "ended" /\ file[f].src # None
  /\ spare.change > 0
  /\ spare' = [spare EXCEPT !.change = @ - 1, !.taken = @ \cup {f}]
  /\ file' = [file EXCEPT ![f].src = None]
  /\ UNCHANGED <<vars, request, tree, job, scan>>

-----------------------------------------------------------------------------
RootStep == StartFile \/ StartMissing \/ StartTree \/ TreeSkipped \/ TreeKeptBoth \/ TreeReplaced
ListStep == ListMoved \/ ListEnds \/ Receive \/ SkipListed \/ ReceiveTimesOut
FileStep ==
  \/ Gone \/ EntryFree \/ Skip \/ Replace \/ KeepBoth \/ InnerRenames \/ InnerFree
  \/ Chunk \/ LastChunk \/ CopyFails \/ Publish \/ SetAside \/ Swap \/ Discard
  \/ PublishFails \/ SwapFails \/ DiscardFails \/ Remove \/ RemoveFails
CloseStep ==
  \/ CloseCopy \/ CloseMove \/ CloseMoveFails
  \/ StageSetAside \/ StageSwap \/ StageDiscard \/ StageFails
  \/ Sweep \/ SweepEnds \/ SweepFails
ScanStep == ScanFile \/ ScanEnds \/ ScanCancelled
Others == \E f \in Name : AddFile(f) \/ TakeFile(f)

CallFails ==
  /\ job.pc \in {"start", "list", "skipping", "entry", "inner"} /\ Ready(job.pc) /\ FaultIsSpent
  /\ job' = Failed("error")
  /\ UNCHANGED <<disk, scan>>

TransferNext ==
  \/ RootStep \/ ListStep \/ FileStep \/ CloseStep \/ CallFails \/ Leave
  \/ Enter \/ CheckPasses \/ CheckStops \/ TokenStep \/ ScanStep \/ Others

TransferSpec == TransferInit /\ [][TransferNext]_allVars

\* The scanner runs, and the worker does once it has stopped waiting.
FairTransfer == TransferSpec /\ WF_allVars(ScanStep) /\ WF_allVars(Leave)

-----------------------------------------------------------------------------
TransferTypeOK ==
  /\ TypeOK
  /\ request \in Requests /\ file \in [Name -> FileState] /\ tree \in TreeState
  /\ job.outcome \in Outcome /\ job.into \in {"dst", "kept", "stg"} /\ job.seen \subseteq Name
  /\ Len(scan.queue) <= QueueCap

\* A whole copy of what was in the source, and of what had the name at the destination.
Kept(f) == file[f].src # None \/ "new" \in {file[f].dst, file[f].kept, file[f].stg}
OldKept(f) == file[f].dst = "old" \/ file[f].bak = "old"
OldTreeKept == tree.dst = "file" \/ tree.bak

\* Nothing is lost at any instant, wherever the process may end: a file of the source
\* is whole in one place or another, unless another program took it; what had its name
\* at the destination is there, or in its backup, until the new one has the name.
NothingLost ==
  [][/\ \A f \in Name : Kept(f) => Kept(f)' \/ f \in spare'.taken
     /\ \A f \in Name : OldKept(f) => OldKept(f)' \/ file'[f].dst = "new"
     /\ OldTreeKept => OldTreeKept' \/ tree'.dst = "new"]_allVars

Copied(f) == "new" \in {file[f].dst, file[f].kept}
Untouched(f) == file[f].src = None => ~Copied(f) \/ f \in spare.taken

\* What the transfer says is what it did.  Done: all that was there at the start and was
\* not skipped is at the destination, and for a move gone from the source, and no
\* temporary file is left.  Failed or cancelled: a move has taken nothing from the
\* source.  Source retained: something of the source is left.
OutcomeTrue ==
  job.pc = "ended" =>
    /\ job.outcome # None
    /\ job.outcome = "ok" =>
         /\ ~tree.stg /\ ~tree.bak
         /\ \A f \in Name : file[f].tmp = None /\ file[f].bak = None
         /\ ~job.skipped =>
              IF Moving THEN ~tree.src /\ \A f \in Name : file[f].src # "own"
                        ELSE \A f \in Name : file[f].src = "own" => Copied(f)
    /\ Moving /\ job.outcome \in {"error", "cancelled"} => \A f \in Name : Untouched(f)
    /\ job.outcome = "retained" =>
         Moving /\ (tree.src \/ spare.taken # {} \/ \E f \in Name : file[f].src # None)

\* While the task is shown as paused the files stand still.
StillWhilePaused ==
  [][acked /\ ~cancelled => UNCHANGED disk \/ spare'.change # spare.change]_allVars

\* The worker that has ended its work is not held by the scanner.
WorkerLeaves == job.pc = "leave" ~> job.pc = "ended"
=============================================================================
