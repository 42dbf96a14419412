-------------------------- MODULE FileTransferProofs --------------------------
(***************************************************************************)
(* What holds of a transfer for any files, faults, changes and pauses.     *)
(* It runs the token's protocol, so that what is proved of the token holds *)
(* in it; and nothing is lost by it, because the source stays until a      *)
(* whole copy has a name, and what had that name until it is in a backup;  *)
(* and the outcome it tells is true of what it has done.                   *)
(***************************************************************************)
EXTENDS FileTransfer, FiniteSetTheorems, TLAPS

-----------------------------------------------------------------------------
(* The pause token alone, for any number of pauses.                         *)

\* A sleeping thread is a paused one only because the mutex is held from the test of
\* the flag to the sleep: who holds it, and what the thread knows meanwhile.
TokenInv ==
  /\ locked <=> worker \in {"testing", "parking"}
  /\ worker = "parking" => paused
  /\ AckMeansStopped
  /\ SleepsOnlyWhilePaused

\* The inductive invariant.
LEMMA TokenInvInductive == Spec => []TokenInv
<1>1. Init => TokenInv
  BY DEF Init, TokenInv, AckMeansStopped, SleepsOnlyWhilePaused, Waiting
<1>2. TokenInv /\ [Next]_vars => TokenInv'
  <2> SUFFICES ASSUME TokenInv, [Next]_vars PROVE TokenInv'
    OBVIOUS
  <2> USE DEF TokenInv, AckMeansStopped, SleepsOnlyWhilePaused, Waiting, token
  <2>1. CASE Pause
    BY <2>1 DEF Pause
  <2>2. CASE Resume
    BY <2>2 DEF Resume, Notified
  <2>3. CASE Cancel
    BY <2>3 DEF Cancel
  <2>4. CASE NotifyCancel
    BY <2>4 DEF NotifyCancel, Notified
  <2>5. CASE EnterWait
    BY <2>5 DEF EnterWait
  <2>6. CASE TestAndPark
    BY <2>6 DEF TestAndPark
  <2>7. CASE TestAndLeave
    BY <2>7 DEF TestAndLeave
  <2>8. CASE Sleep
    BY <2>8 DEF Sleep
  <2>9. CASE SpuriousWake \/ Relock
    BY <2>9 DEF SpuriousWake, Relock
  <2>10. CASE CheckCancel \/ Complete
    BY <2>10 DEF CheckCancel, Complete
  <2>11. CASE UNCHANGED vars
    BY <2>11 DEF vars
  <2>12. QED
    BY <2>1, <2>2, <2>3, <2>4, <2>5, <2>6, <2>7, <2>8, <2>9, <2>10, <2>11
       DEF Next, UiStep, WorkerStep
<1>3. QED BY <1>1, <1>2, PTL DEF Spec

\* "Paused" is shown only while the thread that moves data is in the wait, and
\* it stays there until it is resumed or cancelled.
THEOREM AckIsHonest == Spec => []AckMeansStopped
<1>1. TokenInv => AckMeansStopped
  BY DEF TokenInv
<1>2. QED BY <1>1, TokenInvInductive, PTL

\* resume never leaves a thread asleep: only a pause that still stands does.
THEOREM NoLostResume == Spec => []SleepsOnlyWhilePaused
<1>1. TokenInv => SleepsOnlyWhilePaused
  BY DEF TokenInv
<1>2. QED BY <1>1, TokenInvInductive, PTL

\* The flags stay flags, the thread stays in its loop, and the user pauses at
\* most MaxPauses times.
THEOREM TokenTypes == Spec => []TypeOK
<1> DEFINE Flags == {cancelled, paused, acked, locked, notifying} \subseteq BOOLEAN
           Whereabouts == worker \in Waiting \cup {"working", "left", "ended"}
           Count == pauses \in 0..MaxPauses
<1>1. Init => Flags /\ Whereabouts /\ Count
  <2>1. Init => Flags /\ Whereabouts
    BY DEF Init
  <2>2. Init => pauses = 0
    BY DEF Init
  <2>3. QED BY <2>1, <2>2, MaxPausesAssumption
<1>2. Flags /\ Whereabouts /\ [Next]_vars => Flags' /\ Whereabouts'
  BY DEF Next, UiStep, WorkerStep, Pause, Resume, Cancel, NotifyCancel, Notified, EnterWait,
         TestAndPark, TestAndLeave, Sleep, SpuriousWake, Relock, CheckCancel, Complete,
         vars, token, Waiting
<1>3. Count /\ [Next]_vars => Count'
  <2>1. [Next]_vars => pauses' = pauses \/ (pauses < MaxPauses /\ pauses' = pauses + 1)
    BY DEF Next, UiStep, WorkerStep, Pause, Resume, Cancel, NotifyCancel, EnterWait,
           TestAndPark, TestAndLeave, Sleep, SpuriousWake, Relock, CheckCancel, Complete, vars
  <2>2. QED BY <2>1, MaxPausesAssumption
<1>4. Flags /\ Whereabouts /\ Count <=> TypeOK
  BY DEF TypeOK
<1> HIDE DEF Flags, Whereabouts, Count
<1>5. Init => TypeOK
  BY <1>1, <1>4
<1>6. TypeOK /\ [Next]_vars => TypeOK'
  <2>1. Flags' /\ Whereabouts' /\ Count' => TypeOK'
    BY DEF TypeOK, Flags, Whereabouts, Count
  <2>2. QED BY <1>2, <1>3, <1>4, <2>1
<1>7. QED BY <1>5, <1>6, PTL DEF Spec

-----------------------------------------------------------------------------
(* The transfer.                                                            *)

WorkSteps == RootStep \/ ListStep \/ FileStep \/ CloseStep \/ CallFails

\* A step of the worker is one between two waits.
LEMMA WorkIsWork == WorkSteps => worker = "working" /\ UNCHANGED vars
<1>1. RootStep => worker = "working" /\ UNCHANGED vars
  BY DEF RootStep, StartFile, StartMissing, StartTree, TreeSkipped, TreeKeptBoth, TreeReplaced,
         Ready, At
<1>2. ListStep => worker = "working" /\ UNCHANGED vars
  BY DEF ListStep, ListMoved, ListEnds, Receive, SkipListed, ReceiveTimesOut, Ready, At
<1>3. FileStep => worker = "working" /\ UNCHANGED vars
  BY DEF FileStep, Gone, EntryFree, Skip, Replace, KeepBoth, InnerRenames, InnerFree,
         Chunk, LastChunk, CopyFails, Publish, SetAside, Swap, Discard,
         PublishFails, SwapFails, DiscardFails, Remove, RemoveFails, Ready, At
<1>4. CloseStep => worker = "working" /\ UNCHANGED vars
  BY DEF CloseStep, CloseCopy, CloseMove, CloseMoveFails,
         StageSetAside, StageSwap, StageDiscard, StageFails, Sweep, SweepEnds, SweepFails,
         Ready, At
<1>5. CallFails => worker = "working" /\ UNCHANGED vars
  BY DEF CallFails, Ready, At
<1>6. QED BY <1>1, <1>2, <1>3, <1>4, <1>5 DEF WorkSteps

\* The scanner and other programs do not touch the token.
LEMMA OthersLeaveToken == ScanStep \/ Others => UNCHANGED vars
<1>1. ScanStep => UNCHANGED vars
  BY DEF ScanStep, ScanFile, ScanEnds, ScanCancelled, Send
<1>2. Others => UNCHANGED vars
  BY DEF Others, AddFile, TakeFile
<1>3. QED BY <1>1, <1>2

\* A transfer implements the pause token: every step of it is a step of the token's
\* protocol or leaves the token alone (the worker is the copying thread, and the end of
\* its work is Complete).
THEOREM TransferUsesToken == TransferSpec => Spec
<1>1. TransferInit => Init
  BY DEF TransferInit
<1>2. [TransferNext]_allVars => [Next]_vars
  <2> SUFFICES ASSUME [TransferNext]_allVars PROVE [Next]_vars
    OBVIOUS
  <2>1. CASE WorkSteps
    BY <2>1, WorkIsWork
  <2>2. CASE ScanStep \/ Others
    BY <2>2, OthersLeaveToken
  <2>3. CASE Leave
    BY <2>3 DEF Leave, Next, Complete, vars, token
  <2>4. CASE Enter
    BY <2>4 DEF Enter, Next, WorkerStep
  <2>5. CASE CheckPasses \/ CheckStops
    BY <2>5 DEF CheckPasses, CheckStops, Next, WorkerStep
  <2>6. CASE TokenStep
    BY <2>6 DEF TokenStep, Next, WorkerStep
  <2>7. CASE UNCHANGED allVars
    BY <2>7 DEF allVars
  <2>8. QED BY <2>1, <2>2, <2>3, <2>4, <2>5, <2>6, <2>7 DEF TransferNext, WorkSteps
<1>3. QED BY <1>1, <1>2, PTL DEF TransferSpec, Spec

-------------------------------------------------------------------------------
(* Types.  Each step changes few of the fields of job, so the record set is   *)
(* kept closed where the proofs do not need it.                               *)

Steps == {"start", "list", "skipping", "entry", "inner", "copy", "publish", "swap", "discard",
          "remove", "closing", "stageSwap", "stageDiscard", "sweep", "leave", "ended"}

JobState ==
  [pc : Steps, at : Name \cup {None}, checked : BOOLEAN, into : {"dst", "kept", "stg"},
   to : {"dst", "kept", "stg"}, replace : BOOLEAN, seen : SUBSET Name, skipped : BOOLEAN,
   gone : BOOLEAN, outcome : Outcome]

Entry == Name \cup {"end", "error", "stopped"}

ScanState ==
  [left : SUBSET Name, state : {"listing", "ended"}, queue : Seq(Entry), open : BOOLEAN]

SpareState == [fault : Nat, change : Nat, taken : SUBSET Name]

FileType  == file \in [Name -> FileState]
TreeType  == tree \in TreeState
JobType   == job \in JobState
ScanType  == scan \in ScanState
SpareType == spare \in SpareState

\* A field of one file of many.
LEMMA FieldSet ==
  ASSUME NEW f \in [Name -> FileState], NEW n \in Name,
         NEW field \in {"src", "dst", "kept", "stg", "tmp", "bak"}, NEW v,
         /\ field = "src" => v \in {None, "own", "late"}
         /\ field = "dst" => v \in {None, "old", "new"}
         /\ field \in {"kept", "stg"} => v \in {None, "new"}
         /\ field = "tmp" => v \in {None, "part", "full"}
         /\ field = "bak" => v \in {None, "old"}
  PROVE  [f EXCEPT ![n][field] = v] \in [Name -> FileState]
BY DEF FileState

LEMMA PlaceTyped ==
  ASSUME FileType, job.at \in Name, NEW v \in {None, "part", "full"}, Place("tmp", v)
  PROVE  FileType'
<1>1. [file EXCEPT ![job.at]["tmp"] = v] \in [Name -> FileState]
  BY FieldSet DEF FileType
<1>2. QED BY <1>1 DEF Place, FileType

LEMMA SpareSteps ==
  SpareType => /\ \A kind \in {"fault", "change"} : Spend(kind) => SpareType'
               /\ UNCHANGED spare => SpareType'
               /\ \A f \in Name : spare.change > 0
                     => [spare EXCEPT !.change = @ - 1, !.taken = @ \cup {f}] \in SpareState
<1> SUFFICES ASSUME SpareType
    PROVE /\ \A kind \in {"fault", "change"} : Spend(kind) => SpareType'
          /\ UNCHANGED spare => SpareType'
          /\ \A f \in Name : spare.change > 0
                => [spare EXCEPT !.change = @ - 1, !.taken = @ \cup {f}] \in SpareState
  OBVIOUS
<1>1. ASSUME NEW kind \in {"fault", "change"}, Spend(kind) PROVE SpareType'
  <2>1. CASE kind = "fault"
    BY <1>1, <2>1 DEF Spend, SpareType, SpareState
  <2>2. CASE kind = "change"
    BY <1>1, <2>2 DEF Spend, SpareType, SpareState
  <2>3. QED BY <2>1, <2>2
<1>2. UNCHANGED spare => SpareType'
  BY DEF SpareType
<1>3. ASSUME NEW f \in Name, spare.change > 0
      PROVE [spare EXCEPT !.change = @ - 1, !.taken = @ \cup {f}] \in SpareState
  <2>1. spare.change - 1 \in Nat /\ spare.taken \cup {f} \in SUBSET Name
    BY <1>3 DEF SpareType, SpareState
  <2>2. QED BY <1>3, <2>1 DEF SpareType, SpareState
<1>4. QED BY <1>1, <1>2, <1>3

LEMMA GotoTyped == JobType => \A next \in Steps : Goto(next) \in JobState
BY DEF JobType, JobState, Goto

LEMMA EndTyped ==
  JobType => /\ Succeeded \in JobState
             /\ \A error \in Outcome : Failed(error) \in JobState
<1> SUFFICES ASSUME JobType
    PROVE Succeeded \in JobState /\ \A error \in Outcome : Failed(error) \in JobState
  OBVIOUS
<1>1. Succeeded \in JobState
  BY DEF JobType, JobState, Succeeded, Outcome, Steps
<1>2. ASSUME NEW error \in Outcome PROVE Failed(error) \in JobState
  <2>1. "leave" \in Steps /\ "retained" \in Outcome
    BY DEF Steps, Outcome
  <2>2. \A step \in Steps, told \in Outcome :
          [job EXCEPT !.pc = step, !.checked = FALSE, !.outcome = told] \in JobState
    BY DEF JobType, JobState
  <2>3. QED BY <2>1, <2>2 DEF Failed
<1>3. QED BY <1>1, <1>2

LEMMA AfterTyped == \A j \in JobState : After(j) \in JobState
<1> SUFFICES ASSUME NEW j \in JobState PROVE After(j) \in JobState
  OBVIOUS
<1>1. \A step \in {"list", "leave"}, outcome \in {None, "ok"} :
        [j EXCEPT !.pc = step, !.checked = FALSE, !.outcome = outcome] \in JobState
  <2>1. {"list", "leave"} \subseteq Steps /\ {None, "ok"} \subseteq Outcome
    BY DEF Steps, Outcome
  <2>2. \A step \in Steps, outcome \in Outcome :
          [j EXCEPT !.pc = step, !.checked = FALSE, !.outcome = outcome] \in JobState
    BY DEF JobState
  <2>3. QED BY <2>1, <2>2
<1>2. QED BY <1>1 DEF After

LEMMA VisitTyped == JobType => \A f \in Name : Visit(f) \in JobState
<1> SUFFICES ASSUME JobType, NEW f \in Name PROVE Visit(f) \in JobState
  OBVIOUS
<1>1. Goto(IF Merging THEN "inner" ELSE "entry") \in JobState
  BY GotoTyped DEF Steps
<1>2. QED BY <1>1 DEF Visit, JobState

LEMMA CopyToTyped ==
  JobType => \A place \in {"dst", "kept", "stg"}, over \in BOOLEAN : CopyTo(place, over) \in JobState
<1> SUFFICES ASSUME JobType, NEW place \in {"dst", "kept", "stg"}, NEW over \in BOOLEAN
    PROVE CopyTo(place, over) \in JobState
  OBVIOUS
<1>1. Goto("copy") \in JobState
  BY GotoTyped DEF Steps
<1>2. QED BY <1>1 DEF CopyTo, JobState

LEMMA JobIsTyped ==
  JobType => /\ job.at \in Name \cup {None} /\ job.into \in {"dst", "kept", "stg"}
             /\ job.to \in {"dst", "kept", "stg"} /\ job.seen \subseteq Name
BY DEF JobType, JobState

LEMMA JobFlags ==
  JobType => /\ [job EXCEPT !.skipped = TRUE] \in JobState
             /\ [job EXCEPT !.gone = TRUE] \in JobState
             /\ [job EXCEPT !.checked = TRUE] \in JobState
             /\ \A f : [job EXCEPT !.seen = @ \ {f}] \in JobState
BY DEF JobType, JobState

\* What the steps keep of job.
Same(j) == /\ j.at = job.at /\ j.into = job.into /\ j.to = job.to
           /\ j.replace = job.replace /\ j.seen = job.seen

LEMMA GotoFields == JobType => \A next : Goto(next).pc = next /\ Same(Goto(next))
BY DEF JobType, JobState, Goto, Same

LEMMA EndFields ==
  JobType => /\ Succeeded.pc = "leave" /\ Same(Succeeded)
             /\ \A error : Failed(error).pc = "leave" /\ Same(Failed(error))
BY DEF JobType, JobState, Succeeded, Failed, Same

LEMMA AfterFields ==
  \A j \in JobState : /\ After(j).pc = IF request.whole THEN "list" ELSE "leave"
                      /\ Same(j) => Same(After(j))
BY DEF JobState, After, Same

LEMMA FlagFields ==
  JobType => /\ Same([job EXCEPT !.skipped = TRUE]) /\ Same([job EXCEPT !.gone = TRUE])
             /\ Same([job EXCEPT !.checked = TRUE])
             /\ [job EXCEPT !.checked = TRUE].pc = job.pc
BY DEF JobType, JobState, Same

LEMMA VisitFields ==
  JobType => \A f : /\ Visit(f).pc = IF Merging THEN "inner" ELSE "entry"
                    /\ Visit(f).at = f /\ Visit(f).seen = job.seen \cup {f}
                    /\ Visit(f).into = job.into
<1> SUFFICES ASSUME JobType, NEW f
    PROVE /\ Visit(f).pc = IF Merging THEN "inner" ELSE "entry"
          /\ Visit(f).at = f /\ Visit(f).seen = job.seen \cup {f}
          /\ Visit(f).into = job.into
  OBVIOUS
<1> DEFINE next == IF Merging THEN "inner" ELSE "entry"
<1>1. Goto(next) \in JobState
  BY GotoTyped DEF Steps
<1>2. Goto(next).pc = next /\ Same(Goto(next))
  BY GotoFields
<1> HIDE DEF next
<1>3. LET g == Goto(next) j == [g EXCEPT !.at = f, !.seen = @ \cup {f}]
      IN j.pc = g.pc /\ j.at = f /\ j.seen = g.seen \cup {f} /\ j.into = g.into
  BY <1>1 DEF JobState
<1>4. QED BY <1>2, <1>3 DEF Visit, Same, next

LEMMA CopyToFields ==
  JobType => \A place, over :
    /\ CopyTo(place, over).pc = "copy" /\ CopyTo(place, over).at = job.at
    /\ CopyTo(place, over).to = place /\ CopyTo(place, over).replace = over
    /\ CopyTo(place, over).seen = job.seen /\ CopyTo(place, over).into = job.into
<1> SUFFICES ASSUME JobType, NEW place, NEW over
    PROVE /\ CopyTo(place, over).pc = "copy" /\ CopyTo(place, over).at = job.at
          /\ CopyTo(place, over).to = place /\ CopyTo(place, over).replace = over
          /\ CopyTo(place, over).seen = job.seen /\ CopyTo(place, over).into = job.into
  OBVIOUS
<1>1. Goto("copy") \in JobState
  BY GotoTyped DEF Steps
<1>2. Goto("copy").pc = "copy" /\ Same(Goto("copy"))
  BY GotoFields
<1>3. QED BY <1>1, <1>2 DEF CopyTo, Same, JobState

Fields == {"src", "dst", "kept", "stg", "tmp", "bak"}

LEMMA FieldRead ==
  ASSUME NEW g \in [Name -> FileState], NEW n \in Name, NEW field \in Fields, NEW v
  PROVE  LET h == [g EXCEPT ![n][field] = v]
         IN /\ h[n][field] = v
            /\ \A other \in Fields \ {field} : h[n][other] = g[n][other]
            /\ \A m \in Name \ {n} : h[m] = g[m]
BY DEF FileState, Fields

-------------------------------------------------------------------------------
(* What the steps at a file assume of it.                                     *)

AtFile == {"entry", "inner", "copy", "publish", "swap", "discard", "remove"}

\* The file a worker is at is one of the files.
KnowsFile == job.pc \in AtFile => job.at \in Name

\* The source of a file that is being copied stays, unless another program takes it.
SourceStays ==
  job.pc \in {"copy", "publish", "swap", "discard"} =>
    file[job.at].src # None \/ job.at \in spare.taken

\* The new file has the name before the old one is deleted.
SwapDone == job.pc = "discard" => file[job.at].dst = "new"

\* A source is removed only after its copy has a name.
CopyDone == job.pc = "remove" => "new" \in {file[job.at].dst, file[job.at].kept, file[job.at].stg}

\* A staged tree: nothing has the names of its files before the trees are swapped; what
\* the worker has seen is in it, but for the file it is at.
Staging == job.into = "stg" /\ job.pc \notin {"leave", "ended"}
Swapped == {"stageDiscard", "sweep"}

StagedOnly ==
  Staging => /\ job.pc \notin {"inner", "swap", "discard", "remove"}
             /\ job.pc \in {"copy", "publish"} => job.to = "stg" /\ ~job.replace

FreshTree ==
  /\ job.pc = "start" => /\ job.into = "dst" /\ job.seen = {}
                         /\ tree.dst = "file" => \A f \in Name : file[f].dst = None
  /\ Staging /\ job.pc \notin Swapped => \A f \in Name : file[f].dst = None

SeenStaged ==
  Staging => \A f \in job.seen :
               \/ file[f].stg = "new" /\ job.pc \notin Swapped
               \/ file[f].dst = "new" /\ job.pc \in Swapped
               \/ f = job.at /\ job.pc \in {"entry", "copy", "publish"}

TreeDone ==
  /\ job.pc \in {"stageSwap", "stageDiscard", "sweep"} => job.into = "stg"
  /\ job.pc = "stageDiscard" => tree.dst = "new"

Types == FileType /\ TreeType /\ JobType /\ ScanType /\ SpareType /\ KnowsFile
Staged == StagedOnly /\ FreshTree /\ SeenStaged /\ TreeDone

TransferInv == Types /\ SourceStays /\ SwapDone /\ CopyDone /\ Staged

-------------------------------------------------------------------------------
(* The types are kept.                                                        *)

LEMMA RenameTreeTyped ==
  ASSUME FileType, TreeType, JobType, NEW place \in {"dst", "kept"}, RenameTree(place)
  PROVE  FileType' /\ TreeType' /\ JobType' /\ job'.pc = "leave"
<1>1. FileType'
  <2> DEFINE moved(f) == [file[f] EXCEPT ![place] = "new", !.src = None]
  <2>1. ASSUME NEW f \in Name PROVE moved(f) \in FileState
    <3>1. CASE place = "dst"
      BY <3>1 DEF FileType, FileState
    <3>2. CASE place = "kept"
      BY <3>2 DEF FileType, FileState
    <3>3. QED BY <3>1, <3>2
  <2>2. QED BY <2>1 DEF RenameTree, FileType
<1>2. TreeType'
  <2>1. /\ tree.dst \in {None, "old", "new", "file"} /\ "new" \in {None, "old", "new", "file"}
    BY DEF TreeType, TreeState
  <2>2. QED BY <2>1 DEF RenameTree, TreeType, TreeState
<1>3. JobType' /\ job'.pc = "leave"
  BY EndTyped, EndFields DEF RenameTree, JobType
<1>4. QED BY <1>1, <1>2, <1>3

LEMMA RootTypes == Types /\ RootStep => Types'
<1> SUFFICES ASSUME Types, RootStep PROVE Types'
  OBVIOUS
<1> USE DEF Types
<1>1. ScanType' /\ SpareType'
  BY DEF RootStep, StartFile, StartMissing, StartTree, TreeSkipped, TreeKeptBoth, TreeReplaced,
         ScanType, SpareType
<1>2. CASE StartFile
  <2>1. PICK f \in Name : job' = [Goto(IF Moving THEN "inner" ELSE "entry") EXCEPT !.at = f]
    BY <1>2 DEF StartFile
  <2>2. Goto(IF Moving THEN "inner" ELSE "entry") \in JobState
    BY GotoTyped DEF Steps
  <2>3. JobType' /\ job'.at = f
    BY <2>1, <2>2 DEF JobType, JobState
  <2>4. QED BY <1>1, <1>2, <2>3 DEF StartFile, disk, FileType, TreeType, KnowsFile
<1>3. CASE StartMissing
  BY <1>1, <1>3, EndTyped, EndFields
     DEF StartMissing, disk, FileType, TreeType, JobType, KnowsFile, Outcome, AtFile
<1>4. CASE StartTree
  <2>1. CASE RenameTree("dst")
    BY <1>1, <2>1, RenameTreeTyped DEF KnowsFile, AtFile
  <2>2. CASE ~RenameTree("dst")
    <3>1. /\ tree' = [tree EXCEPT !.dst = IF @ = None THEN "new" ELSE @]
          /\ job' = Goto("list") /\ UNCHANGED file
      BY <1>4, <2>2 DEF StartTree
    <3>2. TreeType'
      BY <3>1 DEF TreeType, TreeState
    <3>3. QED BY <1>1, <3>1, <3>2, GotoTyped, GotoFields DEF FileType, JobType, KnowsFile, AtFile, Steps
  <2>3. QED BY <2>1, <2>2
<1>5. CASE TreeSkipped
  <2>1. Goto("skipping") \in JobState /\ Goto("skipping").pc = "skipping"
    BY GotoTyped, GotoFields DEF Steps
  <2>2. JobType' /\ job'.pc = "skipping"
    BY <1>5, <2>1 DEF TreeSkipped, JobType, JobState
  <2>3. QED BY <1>1, <1>5, <2>2 DEF TreeSkipped, disk, FileType, TreeType, KnowsFile, AtFile
<1>6. CASE TreeKeptBoth
  <2>1. CASE RenameTree("kept")
    BY <1>1, <2>1, RenameTreeTyped DEF KnowsFile, AtFile
  <2>2. CASE ~RenameTree("kept")
    <3>1. Goto("list") \in JobState /\ Goto("list").pc = "list"
      BY GotoTyped, GotoFields DEF Steps
    <3>2. job' = [Goto("list") EXCEPT !.into = "kept"] /\ UNCHANGED disk
      BY <1>6, <2>2 DEF TreeKeptBoth
    <3>3. JobType' /\ job'.pc = "list"
      BY <3>1, <3>2 DEF JobType, JobState
    <3>4. QED BY <1>1, <3>2, <3>3 DEF disk, FileType, TreeType, KnowsFile, AtFile
  <2>3. QED BY <2>1, <2>2
<1>7. CASE TreeReplaced
  <2>1. Goto("list") \in JobState /\ Goto("list").pc = "list"
    BY GotoTyped, GotoFields DEF Steps
  <2>2. JobType' /\ job'.pc = "list"
    BY <1>7, <2>1 DEF TreeReplaced, JobType, JobState
  <2>3. TreeType'
    BY <1>7 DEF TreeReplaced, TreeType, TreeState
  <2>4. QED BY <1>1, <1>7, <2>2, <2>3 DEF TreeReplaced, FileType, KnowsFile, AtFile
<1>8. QED BY <1>2, <1>3, <1>4, <1>5, <1>6, <1>7 DEF RootStep

\* Taking an entry from the queue, and adding one.
LEMMA QueueTyped ==
  ASSUME ScanType, NEW entry \in Entry
  PROVE  /\ scan.queue # <<>> => /\ Head(scan.queue) \in Entry
                                 /\ [scan EXCEPT !.queue = Tail(@)] \in ScanState
         /\ \A s \in ScanState : [s EXCEPT !.queue = Append(@, entry)] \in ScanState
         /\ [scan EXCEPT !.state = "ended"] \in ScanState
         /\ \A f : [scan EXCEPT !.left = @ \ {f}] \in ScanState
<1>1. scan.queue # <<>> => Head(scan.queue) \in Entry /\ Tail(scan.queue) \in Seq(Entry)
  BY DEF ScanType, ScanState
<1>2. scan.queue # <<>> => [scan EXCEPT !.queue = Tail(@)] \in ScanState
  BY <1>1 DEF ScanType, ScanState
<1>3. ASSUME NEW s \in ScanState PROVE [s EXCEPT !.queue = Append(@, entry)] \in ScanState
  <2>1. Append(s.queue, entry) \in Seq(Entry)
    BY DEF ScanState
  <2>2. QED BY <2>1 DEF ScanState
<1>4. [scan EXCEPT !.state = "ended"] \in ScanState
  BY DEF ScanType, ScanState
<1>5. ASSUME NEW f PROVE [scan EXCEPT !.left = @ \ {f}] \in ScanState
  BY DEF ScanType, ScanState
<1>6. QED BY <1>1, <1>2, <1>3, <1>4, <1>5

LEMMA ListTypes == Types /\ ListStep => Types'
<1> SUFFICES ASSUME Types, ListStep PROVE Types'
  OBVIOUS
<1> USE DEF Types
<1>1. FileType' /\ TreeType' /\ SpareType'
  BY DEF ListStep, ListMoved, ListEnds, Receive, SkipListed, ReceiveTimesOut, disk,
         FileType, TreeType, SpareType
<1>2. CASE ListMoved
  <2>1. PICK f \in Name : job' = Visit(f)
    BY <1>2 DEF ListMoved
  <2>2. QED BY <1>1, <1>2, <2>1, VisitTyped, VisitFields DEF ListMoved, ScanType, JobType, KnowsFile
<1>3. CASE ListEnds
  BY <1>1, <1>3, GotoTyped, GotoFields DEF ListEnds, ScanType, JobType, KnowsFile, AtFile, Steps
<1>4. CASE Receive
  <2>1. Head(scan.queue) \in Entry /\ ScanType'
    BY <1>4, QueueTyped DEF Receive, ScanType, Entry
  <2>2. \/ job' \in {Goto("closing"), Failed("error"), Failed("cancelled")}
        \/ \E f \in Name : job' = Visit(f)
    BY <1>4, <2>1 DEF Receive, Entry
  <2>3. CASE job' \in {Goto("closing"), Failed("error"), Failed("cancelled")}
    BY <1>1, <2>1, <2>3, GotoTyped, GotoFields, EndTyped, EndFields
       DEF JobType, KnowsFile, AtFile, Steps, Outcome
  <2>4. CASE \E f \in Name : job' = Visit(f)
    BY <1>1, <2>1, <2>4, VisitTyped, VisitFields DEF JobType, KnowsFile
  <2>5. QED BY <2>2, <2>3, <2>4
<1>5. CASE SkipListed
  <2>1. ScanType'
    BY <1>5, QueueTyped DEF SkipListed, ScanType, Entry
  <2>2. QED BY <1>1, <1>5, <2>1, GotoTyped, GotoFields, EndTyped, EndFields
            DEF SkipListed, JobType, KnowsFile, AtFile, Steps
<1>6. CASE ReceiveTimesOut
  BY <1>1, <1>6, GotoTyped, GotoFields DEF ReceiveTimesOut, ScanType, JobType, KnowsFile, AtFile, Steps
<1>7. QED BY <1>2, <1>3, <1>4, <1>5, <1>6 DEF ListStep

LEMMA FileTypes == Types /\ FileStep => Types'
<1> SUFFICES ASSUME Types, FileStep PROVE Types'
  OBVIOUS
<1> USE DEF Types
<1>1. TreeType' /\ ScanType'
  BY DEF FileStep, Gone, EntryFree, Skip, Replace, KeepBoth, InnerRenames, InnerFree,
         Chunk, LastChunk, CopyFails, Publish, SetAside, Swap, Discard,
         PublishFails, SwapFails, DiscardFails, Remove, RemoveFails, disk, TreeType, ScanType
<1>2. SpareType'
  <2>1. UNCHANGED spare \/ Spend("fault")
    BY DEF FileStep, Gone, EntryFree, Skip, Replace, KeepBoth, InnerRenames, InnerFree,
           Chunk, LastChunk, CopyFails, Publish, SetAside, Swap, Discard,
           PublishFails, SwapFails, DiscardFails, Remove, RemoveFails, FaultIsSpent
  <2>2. QED BY <2>1, SpareSteps
<1>3. job.at \in Name
  BY DEF FileStep, Gone, EntryFree, Skip, Replace, KeepBoth, InnerRenames, InnerFree,
         Chunk, LastChunk, CopyFails, Publish, SetAside, Swap, Discard,
         PublishFails, SwapFails, DiscardFails, Remove, RemoveFails, Ready, At, KnowsFile, AtFile
<1>4. FileType'
  <2>1. CASE Gone \/ EntryFree \/ Skip \/ Replace \/ KeepBoth \/ InnerFree \/ DiscardFails
             \/ RemoveFails
    BY <2>1 DEF Gone, EntryFree, Skip, Replace, KeepBoth, InnerFree, DiscardFails, RemoveFails,
                disk, FileType
  <2>2. CASE InnerRenames
    <3>1. PICK place \in {"dst", "kept"} : RenameFile(place)
      BY <2>2 DEF InnerRenames
    <3>2. [file EXCEPT ![job.at][place] = "new"] \in [Name -> FileState]
      BY <1>3, FieldSet DEF FileType
    <3>3. QED BY <1>3, <3>1, <3>2, FieldSet DEF RenameFile, FileType
  <2>3. CASE Chunk \/ LastChunk \/ CopyFails \/ PublishFails
    <3>1. \E v \in {None, "part", "full"} : Place("tmp", v)
      BY <2>3 DEF Chunk, LastChunk, CopyFails, PublishFails
    <3>2. QED BY <1>3, <3>1, PlaceTyped
  <2>4. CASE Publish
    <3>1. [file EXCEPT ![job.at].tmp = None] \in [Name -> FileState]
      BY <1>3, FieldSet DEF FileType
    <3>2. job.to \in {"dst", "kept", "stg"}
      BY JobIsTyped
    <3>3. QED BY <1>3, <2>4, <3>1, <3>2, FieldSet DEF Publish, FileType
  <2>5. CASE SetAside
    <3>1. [file EXCEPT ![job.at].dst = None] \in [Name -> FileState]
      BY <1>3, FieldSet DEF FileType
    <3>2. QED BY <1>3, <2>5, <3>1, FieldSet DEF SetAside, FileType
  <2>6. CASE Swap
    <3>1. [file EXCEPT ![job.at].tmp = None] \in [Name -> FileState]
      BY <1>3, FieldSet DEF FileType
    <3>2. QED BY <1>3, <2>6, <3>1, FieldSet DEF Swap, FileType
  <2>7. CASE SwapFails
    <3>1. [file EXCEPT ![job.at].tmp = None] \in [Name -> FileState]
      BY <1>3, FieldSet DEF FileType
    <3>2. [file EXCEPT ![job.at].tmp = None, ![job.at].bak = None] \in [Name -> FileState]
      BY <1>3, <3>1, FieldSet
    <3>3. QED BY <1>3, <2>7, <3>2, FieldSet DEF SwapFails, FileType
  <2>8. CASE Discard \/ Remove
    BY SMTT(30), <1>3, <2>8, FieldSet DEF Discard, Remove, Place, FileType
  <2>9. QED BY <2>1, <2>2, <2>3, <2>4, <2>5, <2>6, <2>7, <2>8 DEF FileStep
<1>5. \/ job' \in {Goto("copy"), Goto("publish"), Goto("swap"), Goto("discard"), Goto("remove")}
      \/ job' \in {Failed("error"), Failed("retained")}
      \/ \E place \in {"dst", "kept", "stg"}, over \in BOOLEAN : job' = CopyTo(place, over)
      \/ job' \in {After(job), After([job EXCEPT !.skipped = TRUE]),
                   After([job EXCEPT !.gone = TRUE])}
  BY JobIsTyped DEF FileStep, Gone, EntryFree, Skip, Replace, KeepBoth, InnerRenames, InnerFree,
         Chunk, LastChunk, CopyFails, Publish, SetAside, Swap, Discard, RenameFile,
         PublishFails, SwapFails, DiscardFails, Remove, RemoveFails
<1>6. JobType' /\ KnowsFile'
  <2>1. CASE job' \in {Goto("copy"), Goto("publish"), Goto("swap"), Goto("discard"), Goto("remove")}
    BY <1>3, <2>1, GotoTyped, GotoFields DEF Same, Steps, JobType, KnowsFile
  <2>2. CASE job' \in {Failed("error"), Failed("retained")}
    BY <2>2, EndTyped, EndFields DEF Outcome, JobType, KnowsFile, AtFile
  <2>3. CASE \E place \in {"dst", "kept", "stg"}, over \in BOOLEAN : job' = CopyTo(place, over)
    BY <1>3, <2>3, CopyToTyped, CopyToFields DEF JobType, KnowsFile
  <2>4. CASE job' \in {After(job), After([job EXCEPT !.skipped = TRUE]),
                      After([job EXCEPT !.gone = TRUE])}
    <3>1. \A j \in JobState : After(j).pc \notin AtFile
      BY AfterFields DEF AtFile
    <3>2. QED BY <2>4, <3>1, AfterTyped, JobFlags DEF JobType, KnowsFile
  <2>5. QED BY <1>5, <2>1, <2>2, <2>3, <2>4
<1>7. QED BY <1>1, <1>2, <1>4, <1>6

LEMMA CloseTypes == Types /\ CloseStep => Types'
<1> SUFFICES ASSUME Types, CloseStep PROVE Types'
  OBVIOUS
<1> USE DEF Types
<1>1. ScanType'
  BY DEF CloseStep, CloseCopy, CloseMove, CloseMoveFails, StageSetAside, StageSwap,
         StageDiscard, StageFails, Sweep, SweepEnds, SweepFails, ScanType
<1>2. SpareType'
  <2>1. UNCHANGED spare \/ Spend("fault")
    BY DEF CloseStep, CloseCopy, CloseMove, CloseMoveFails, StageSetAside, StageSwap,
           StageDiscard, StageFails, Sweep, SweepEnds, SweepFails, FaultIsSpent
  <2>2. QED BY <2>1, SpareSteps
<1>3. TreeType'
  BY DEF CloseStep, CloseCopy, CloseMove, CloseMoveFails, StageSetAside, StageSwap,
         StageDiscard, StageFails, Sweep, SweepEnds, SweepFails, disk, TreeType, TreeState
<1>4. FileType'
  <2>1. CASE StageSwap
    <3>1. ASSUME NEW f \in Name
          PROVE [file[f] EXCEPT !.dst = file[f].stg, !.stg = None] \in FileState
      BY DEF FileType, FileState
    <3>2. QED BY <2>1, <3>1 DEF StageSwap, FileType
  <2>2. CASE Sweep
    <3>1. PICK f \in job.seen : file' = [file EXCEPT ![f].src = None]
      BY <2>2 DEF Sweep
    <3>2. f \in Name
      BY JobIsTyped
    <3>3. QED BY <3>1, <3>2, FieldSet DEF FileType
  <2>3. CASE ~(StageSwap \/ Sweep)
    BY <2>3 DEF CloseStep, CloseCopy, CloseMove, CloseMoveFails, StageSetAside,
         StageDiscard, StageFails, SweepEnds, SweepFails, disk, FileType
  <2>4. QED BY <2>1, <2>2, <2>3
<1>5. \/ job' \in {Goto("stageSwap"), Goto("stageDiscard"), Goto("sweep")}
      \/ job' \in {Succeeded, Failed("error"), Failed("retained")}
      \/ Sweep
  BY DEF CloseStep, CloseCopy, CloseMove, CloseMoveFails, StageSetAside, StageSwap,
         StageDiscard, StageFails, SweepEnds, SweepFails
<1>6. JobType' /\ KnowsFile'
  <2>1. CASE job' \in {Goto("stageSwap"), Goto("stageDiscard"), Goto("sweep")}
    BY <2>1, GotoTyped, GotoFields DEF Steps, JobType, KnowsFile, AtFile
  <2>2. CASE job' \in {Succeeded, Failed("error"), Failed("retained")}
    BY <2>2, EndTyped, EndFields DEF Outcome, JobType, KnowsFile, AtFile
  <2>3. CASE Sweep
    <3>1. JobType' /\ job'.pc = job.pc
      BY <2>3 DEF Sweep, JobType, JobState
    <3>2. job.pc = "sweep"
      BY <2>3 DEF Sweep, At
    <3>3. QED BY <3>1, <3>2 DEF KnowsFile, AtFile
  <2>4. QED BY <1>5, <2>1, <2>2, <2>3
<1>7. QED BY <1>1, <1>2, <1>3, <1>4, <1>6

LEMMA WaitTypes ==
  Types /\ (CallFails \/ Leave \/ Enter \/ CheckPasses \/ CheckStops \/ TokenStep) => Types'
<1> SUFFICES ASSUME Types,
                    CallFails \/ Leave \/ Enter \/ CheckPasses \/ CheckStops \/ TokenStep
    PROVE Types'
  OBVIOUS
<1> USE DEF Types
<1>1. CASE CallFails
  BY <1>1, SpareSteps, EndTyped, EndFields
     DEF CallFails, FaultIsSpent, disk, FileType, TreeType, ScanType, JobType, KnowsFile, AtFile, Outcome
<1>2. CASE Leave
  <2>1. ScanType'
    <3>1. <<>> \in Seq(Entry)
      OBVIOUS
    <3>2. [scan EXCEPT !.open = FALSE, !.queue = <<>>] \in ScanState
      BY <3>1 DEF ScanType, ScanState
    <3>3. QED BY <1>2, <3>2 DEF Leave, ScanType
  <2>2. JobType' /\ KnowsFile'
    BY <1>2 DEF Leave, JobType, JobState, Steps, KnowsFile, AtFile
  <2>3. QED BY <1>2, <2>1, <2>2 DEF Leave, disk, FileType, TreeType, SpareType
<1>3. CASE Enter \/ TokenStep
  BY <1>3 DEF Enter, TokenStep, transferVars, FileType, TreeType, ScanType, JobType, SpareType, KnowsFile
<1>4. CASE CheckPasses
  BY <1>4, JobFlags, FlagFields
     DEF CheckPasses, Same, disk, FileType, TreeType, ScanType, SpareType, JobType, KnowsFile
<1>5. CASE CheckStops
  <2>1. job.pc = "copy" => job.at \in Name
    BY DEF KnowsFile, AtFile
  <2>2. FileType'
    <3>1. CASE job.pc = "copy"
      BY <1>5, <2>1, <3>1, PlaceTyped DEF CheckStops
    <3>2. CASE job.pc # "copy"
      BY <1>5, <3>2 DEF CheckStops, FileType
    <3>3. QED BY <3>1, <3>2
  <2>3. QED BY <1>5, <2>2, EndTyped, EndFields
            DEF CheckStops, TreeType, ScanType, SpareType, JobType, KnowsFile, AtFile, Outcome
<1>6. QED BY <1>1, <1>2, <1>3, <1>4, <1>5

LEMMA OutsideTypes == Types /\ (ScanStep \/ Others) => Types'
<1> SUFFICES ASSUME Types, ScanStep \/ Others PROVE Types'
  OBVIOUS
<1> USE DEF Types
<1>1. CASE ScanStep
  <2>1. \/ \E entry \in Entry, next \in ScanState : Send(entry, next)
        \/ scan' = [scan EXCEPT !.state = "ended"] /\ UNCHANGED <<vars, request, disk, job, spare>>
    <3>1. CASE ScanFile
      <4>1. PICK f \in scan.left : \/ Send("error", [scan EXCEPT !.left = @ \ {f}])
                                  \/ Send(f, [scan EXCEPT !.left = @ \ {f}])
        BY <3>1 DEF ScanFile
      <4>2. f \in Entry /\ "error" \in Entry
        BY DEF ScanType, ScanState, Entry
      <4>3. [scan EXCEPT !.left = @ \ {f}] \in ScanState
        BY <4>2, QueueTyped
      <4>4. QED BY <4>1, <4>2, <4>3
    <3>2. CASE ScanEnds \/ ScanCancelled
      BY <3>2, QueueTyped DEF ScanEnds, ScanCancelled, Entry
    <3>3. QED BY <1>1, <3>1, <3>2 DEF ScanStep
  <2>2. ScanType' /\ UNCHANGED <<disk, job, spare>>
    BY <2>1, QueueTyped DEF Send, Entry, ScanType
  <2>3. QED BY <2>2 DEF disk, FileType, TreeType, JobType, SpareType, KnowsFile
<1>2. CASE Others
  <2>1. PICK f \in Name : AddFile(f) \/ TakeFile(f)
    BY <1>2 DEF Others
  <2>2. CASE AddFile(f)
    <3>1. FileType'
      BY <2>2, FieldSet DEF AddFile, FileType
    <3>2. ScanType'
      BY <2>2 DEF AddFile, ScanType, ScanState
    <3>3. QED BY <2>2, <3>1, <3>2, SpareSteps DEF AddFile, TreeType, JobType, KnowsFile
  <2>3. CASE TakeFile(f)
    <3>1. FileType'
      BY <2>3, FieldSet DEF TakeFile, FileType
    <3>2. SpareType'
      BY <2>3, SpareSteps DEF TakeFile, SpareType
    <3>3. QED BY <2>3, <3>1, <3>2 DEF TakeFile, TreeType, ScanType, JobType, KnowsFile
  <2>4. QED BY <2>1, <2>2, <2>3
<1>3. QED BY <1>1, <1>2

LEMMA TypesKept == Types /\ [TransferNext]_allVars => Types'
<1>1. Types /\ UNCHANGED allVars => Types'
  BY DEF Types, FileType, TreeType, JobType, ScanType, SpareType, KnowsFile, allVars, transferVars
<1>2. QED BY <1>1, RootTypes, ListTypes, FileTypes, CloseTypes, WaitTypes, OutsideTypes
          DEF TransferNext

LEMMA FirstTreeTyped == \A b \in BOOLEAN : FirstTrees(b) \subseteq TreeState
BY DEF FirstTrees, TreeState

LEMMA InitTypes == TransferInit => Types
<1> SUFFICES ASSUME TransferInit PROVE Types
  OBVIOUS
<1>1. FileType
  <2>1. \A x \in {None, "own"}, d \in {None, "old"} : [Blank EXCEPT !.src = x, !.dst = d] \in FileState
    BY DEF Blank, FileState
  <2>2. QED BY <2>1 DEF TransferInit, FileType
<1>2. TreeType
  <2>1. request.whole \in BOOLEAN
    BY DEF TransferInit, Requests
  <2>2. QED BY <2>1, FirstTreeTyped DEF TransferInit, TreeType
<1>3. JobType /\ KnowsFile
  BY DEF TransferInit, JobType, JobState, Steps, Outcome, KnowsFile, AtFile
<1>4. ScanType
  <2>1. <<>> \in Seq(Entry)
    OBVIOUS
  <2>2. QED BY <2>1 DEF TransferInit, ScanType, ScanState
<1>5. SpareType
  BY TransferAssumption DEF TransferInit, SpareType, SpareState
<1>6. QED BY <1>1, <1>2, <1>3, <1>4, <1>5 DEF Types

LEMMA TypesInductive == TransferSpec => []Types
BY InitTypes, TypesKept, PTL DEF TransferSpec

-------------------------------------------------------------------------------

\* While the task is shown as paused the transfer changes nothing on the disk: the
\* acknowledgement means that the worker is in the wait, and every step that changes a
\* file is one of a worker that is past it; only other programs do, at their own cost.
THEOREM PausedIsStill == TransferSpec => StillWhilePaused
<1> DEFINE Still == acked /\ ~cancelled => UNCHANGED disk \/ spare'.change # spare.change
<1>1. Types /\ TokenInv /\ [TransferNext]_allVars => Still
  <2> SUFFICES ASSUME Types, TokenInv, [TransferNext]_allVars, acked, ~cancelled
      PROVE UNCHANGED disk \/ spare'.change # spare.change
    OBVIOUS
  <2>1. worker \in Waiting
    BY DEF TokenInv, AckMeansStopped
  <2>2. ~WorkSteps /\ ~CheckStops
    BY <2>1, WorkIsWork DEF Waiting, CheckStops, CheckCancel
  <2>3. CASE Leave \/ Enter \/ CheckPasses \/ TokenStep \/ ScanStep \/ UNCHANGED allVars
    BY <2>3 DEF Leave, Enter, CheckPasses, TokenStep, transferVars, ScanStep, ScanFile, ScanEnds,
                ScanCancelled, Send, allVars, disk
  <2>4. CASE Others
    <3>1. spare \in SpareState
      BY DEF Types, SpareType
    <3>2. spare'.change = spare.change - 1 /\ spare.change \in Nat
      BY <2>4, <3>1 DEF Others, AddFile, TakeFile, Spend, SpareState
    <3>3. QED BY <3>2
  <2>5. QED BY <2>2, <2>3, <2>4 DEF TransferNext, WorkSteps
<1>2. QED BY <1>1, TypesInductive, TransferUsesToken, TokenInvInductive, PTL DEF TransferSpec, StillWhilePaused

-------------------------------------------------------------------------------
(* A step loses nothing, and keeps what the next ones assume.                 *)

Lossless ==
  /\ \A f \in Name : Kept(f) => Kept(f)' \/ f \in spare'.taken
  /\ \A f \in Name : OldKept(f) => OldKept(f)' \/ file'[f].dst = "new"
  /\ OldTreeKept => OldTreeKept' \/ tree'.dst = "new"

Copying == SourceStays /\ SwapDone /\ CopyDone

LEMMA StillLossless == UNCHANGED disk => Lossless
BY DEF Lossless, disk, Kept, OldKept, OldTreeKept

\* A step that changes one file.
LEMMA OneFileLossless ==
  ASSUME NEW f \in Name, \A m \in Name \ {f} : file'[m] = file[m], UNCHANGED tree,
         Kept(f) => Kept(f)' \/ f \in spare'.taken,
         OldKept(f) => OldKept(f)' \/ file'[f].dst = "new"
  PROVE  Lossless
BY DEF Lossless, Kept, OldKept, OldTreeKept

LEMMA OneChange ==
  ASSUME FileType, NEW f \in Name, NEW field \in Fields, NEW v,
         file' = [file EXCEPT ![f][field] = v]
  PROVE  /\ file'[f][field] = v
         /\ \A other \in Fields \ {field} : file'[f][other] = file[f][other]
         /\ \A m \in Name \ {f} : file'[m] = file[m]
BY FieldRead DEF FileType

\* A step of the worker that is at no file afterwards, and whose directory is not staged
\* or is done with, owes nothing.
LEMMA NothingOwed ==
  ASSUME job'.pc \notin AtFile \cup {"start", "stageSwap", "stageDiscard", "sweep"}, ~Staging'
  PROVE  Copying' /\ Staged'
BY DEF Copying, SourceStays, SwapDone, CopyDone, Staged, StagedOnly, FreshTree, SeenStaged,
       TreeDone, AtFile

LEMMA RootLossless == TransferInv /\ RootStep => Copying' /\ Staged' /\ Lossless
<1> SUFFICES ASSUME TransferInv, RootStep PROVE Copying' /\ Staged' /\ Lossless
  OBVIOUS
<1> USE DEF TransferInv, Types
<1>1. job.pc = "start" /\ job.into = "dst" /\ job.seen = {}
  BY DEF RootStep, StartFile, StartMissing, StartTree, TreeSkipped, TreeKeptBoth, TreeReplaced,
         Ready, At, Staged, FreshTree
<1>2. ASSUME NEW place \in {"dst", "kept"}, RenameTree(place), place = "dst" => tree.dst = None
      PROVE  Copying' /\ Staged' /\ Lossless
  <2>1. job'.pc = "leave"
    BY <1>2, RenameTreeTyped
  <2>2. Copying' /\ Staged'
    BY <2>1, NothingOwed DEF AtFile, Staging
  <2>3. ASSUME NEW f \in Name
        PROVE  /\ Kept(f) => Kept(f)'
               /\ OldKept(f) => OldKept(f)' \/ file'[f].dst = "new"
    <3>1. CASE file[f].src = None
      <4>1. file'[f] = file[f]
        BY <1>2, <3>1 DEF RenameTree
      <4>2. QED BY <4>1 DEF Kept, OldKept
    <3>2. CASE file[f].src # None
      <4>1. file'[f] = [file[f] EXCEPT ![place] = "new", !.src = None]
        BY <1>2, <3>2 DEF RenameTree
      <4>2. file[f] \in FileState
        BY DEF FileType
      <4>3. CASE place = "dst"
        BY <4>1, <4>2, <4>3 DEF Kept, OldKept, FileState
      <4>4. CASE place = "kept"
        BY <4>1, <4>2, <4>4 DEF Kept, OldKept, FileState
      <4>5. QED BY <4>3, <4>4
    <3>3. QED BY <3>1, <3>2
  <2>4. OldTreeKept => OldTreeKept' \/ tree'.dst = "new"
    BY <1>2 DEF RenameTree, OldTreeKept, TreeType, TreeState
  <2>5. QED BY <2>2, <2>3, <2>4 DEF Lossless
<1>3. CASE StartFile
  <2>1. PICK f \in Name : /\ file[f].src # None
                          /\ job' = [Goto(IF Moving THEN "inner" ELSE "entry") EXCEPT !.at = f]
    BY <1>3 DEF StartFile
  <2>2. Goto(IF Moving THEN "inner" ELSE "entry") \in JobState
    BY GotoTyped DEF Steps
  <2>3. job'.pc \in {"inner", "entry"} /\ job'.into = "dst"
    BY <1>1, <2>1, <2>2, GotoFields DEF JobState, Same
  <2>4. Copying' /\ Staged'
    BY <2>3 DEF Copying, SourceStays, SwapDone, CopyDone, Staged, StagedOnly, FreshTree, SeenStaged,
                TreeDone, Staging
  <2>5. QED BY <1>3, <2>4, StillLossless DEF StartFile
<1>4. CASE StartMissing
  BY <1>4, EndFields, NothingOwed, StillLossless DEF StartMissing, AtFile, Staging
<1>5. CASE StartTree
  <2>1. CASE RenameTree("dst") /\ tree.dst = None
    BY <1>2, <2>1
  <2>2. CASE ~(RenameTree("dst") /\ tree.dst = None)
    <3>1. /\ tree' = [tree EXCEPT !.dst = IF @ = None THEN "new" ELSE @]
          /\ job' = Goto("list") /\ UNCHANGED file
      BY <1>5, <2>2 DEF StartTree
    <3>2. job'.pc = "list" /\ job'.into = "dst"
      BY <1>1, <3>1, GotoFields DEF Same
    <3>3. Lossless
      BY <3>1 DEF Lossless, Kept, OldKept, OldTreeKept, TreeType, TreeState
    <3>4. QED BY <3>2, <3>3, NothingOwed DEF AtFile, Staging
  <2>3. QED BY <2>1, <2>2
<1>6. CASE TreeSkipped
  <2>1. Goto("skipping") \in JobState /\ Goto("skipping").pc = "skipping" /\ Goto("skipping").into = "dst"
    BY <1>1, GotoTyped, GotoFields DEF Steps, Same
  <2>2. job'.pc = "skipping" /\ job'.into = "dst"
    BY <1>6, <2>1 DEF TreeSkipped, JobState
  <2>3. QED BY <1>6, <2>2, NothingOwed, StillLossless DEF TreeSkipped, AtFile, Staging
<1>7. CASE TreeKeptBoth
  <2>1. CASE RenameTree("kept")
    BY <1>2, <2>1
  <2>2. CASE ~RenameTree("kept")
    <3>1. Goto("list") \in JobState /\ Goto("list").pc = "list"
      BY GotoTyped, GotoFields DEF Steps
    <3>2. job' = [Goto("list") EXCEPT !.into = "kept"] /\ UNCHANGED disk
      BY <1>7, <2>2 DEF TreeKeptBoth
    <3>3. job'.pc = "list" /\ job'.into = "kept"
      BY <3>1, <3>2 DEF JobState
    <3>4. QED BY <3>2, <3>3, NothingOwed, StillLossless DEF AtFile, Staging
  <2>3. QED BY <2>1, <2>2
<1>8. CASE TreeReplaced
  <2>1. Goto("list") \in JobState /\ Goto("list").pc = "list" /\ Goto("list").seen = {}
    BY <1>1, GotoTyped, GotoFields DEF Steps, Same
  <2>2. job'.pc = "list" /\ job'.into = "stg" /\ job'.seen = {}
    BY <1>8, <2>1 DEF TreeReplaced, JobState
  <2>3. \A f \in Name : file'[f].dst = None
    BY <1>1, <1>8 DEF TreeReplaced, Staged, FreshTree
  <2>4. Copying' /\ Staged'
    BY <2>2, <2>3 DEF Copying, SourceStays, SwapDone, CopyDone, Staged, StagedOnly, FreshTree,
                      SeenStaged, TreeDone, Staging, Swapped
  <2>5. Lossless
    BY <1>8 DEF TreeReplaced, Lossless, Kept, OldKept, OldTreeKept, TreeType, TreeState
  <2>6. QED BY <2>4, <2>5
<1>9. QED BY <1>3, <1>4, <1>5, <1>6, <1>7, <1>8 DEF RootStep

LEMMA ListLossless == TransferInv /\ ListStep => Copying' /\ Staged' /\ Lossless
<1> SUFFICES ASSUME TransferInv, ListStep PROVE Copying' /\ Staged' /\ Lossless
  OBVIOUS
<1> USE DEF TransferInv, Types
<1>1. Lossless /\ UNCHANGED disk /\ job.pc \in {"list", "skipping"}
  BY StillLossless DEF ListStep, ListMoved, ListEnds, Receive, SkipListed, ReceiveTimesOut, Ready, At
<1>2. \/ job' \in {Goto("closing"), Goto("list"), Goto("skipping")}
      \/ job'.pc = "leave"
      \/ \E f \in Name : job' = Visit(f)
  <2>1. CASE Receive
    <3>1. Head(scan.queue) \in Entry
      BY <2>1, QueueTyped DEF Receive, Entry
    <3>2. QED BY <2>1, <3>1, EndFields DEF Receive, Entry
  <2>2. CASE ~Receive
    BY <2>2, EndFields DEF ListStep, ListMoved, ListEnds, SkipListed, ReceiveTimesOut
  <2>3. QED BY <2>1, <2>2
<1>3. CASE job' \in {Goto("closing"), Goto("list"), Goto("skipping")}
  <2>1. job'.pc \in {"closing", "list", "skipping"} /\ job'.into = job.into /\ job'.seen = job.seen
    BY <1>3, GotoFields DEF Same
  <2>2. Copying'
    BY <2>1 DEF Copying, SourceStays, SwapDone, CopyDone
  <2>3. QED BY <1>1, <2>1, <2>2 DEF Staged, StagedOnly, FreshTree, SeenStaged, TreeDone, Staging, Swapped, disk
<1>4. CASE job'.pc = "leave"
  BY <1>1, <1>4, NothingOwed DEF AtFile, Staging
<1>5. CASE \E f \in Name : job' = Visit(f)
  <2>1. PICK f \in Name : job' = Visit(f)
    BY <1>5
  <2>2. /\ job'.pc = IF Merging THEN "inner" ELSE "entry"
        /\ job'.at = f /\ job'.seen = job.seen \cup {f} /\ job'.into = job.into
    BY <2>1, VisitFields
  <2>3. Staging' => job'.pc = "entry" /\ Staging
    BY <1>1, <2>2 DEF Staging, Merging
  <2>4. Copying'
    BY <2>2 DEF Copying, SourceStays, SwapDone, CopyDone
  <2>5. StagedOnly' /\ FreshTree' /\ TreeDone'
    BY <1>1, <2>2, <2>3 DEF Staged, StagedOnly, FreshTree, TreeDone, Swapped, disk
  <2>6. SeenStaged'
    BY <1>1, <2>2, <2>3 DEF Staged, SeenStaged, Swapped, disk
  <2>7. QED BY <1>1, <2>4, <2>5, <2>6 DEF Staged
<1>6. QED BY <1>2, <1>3, <1>4, <1>5

LEMMA FileLossless == TransferInv /\ FileStep => Copying' /\ Staged' /\ Lossless
<1> SUFFICES ASSUME TransferInv, FileStep PROVE Copying' /\ Staged' /\ Lossless
  OBVIOUS
<1> USE DEF TransferInv, Types
<1> DEFINE n == job.at
<1>1. /\ n \in Name /\ job.pc \in AtFile
      /\ UNCHANGED tree
  BY DEF FileStep, Gone, EntryFree, Skip, Replace, KeepBoth, InnerRenames, InnerFree,
         Chunk, LastChunk, CopyFails, Publish, SetAside, Swap, Discard,
         PublishFails, SwapFails, DiscardFails, Remove, RemoveFails, Ready, At, KnowsFile, AtFile, disk
<1>2. /\ file[n].src \in {None, "own", "late"} /\ job.into \in {"dst", "kept", "stg"}
      /\ job.to \in {"dst", "kept", "stg"}
  BY <1>1, JobIsTyped DEF FileType, FileState
\* The steps that end the transfer.
<1>3. ASSUME job'.pc = "leave" PROVE Copying' /\ Staged'
  BY <1>3, NothingOwed DEF AtFile, Staging
<1>4. ASSUME job'.pc = "list", Same(job'), ~Staging PROVE Copying' /\ Staged'
  <2>1. ~Staging'
    BY <1>1, <1>4 DEF Staging, Same, AtFile
  <2>2. QED BY <1>4, <2>1, NothingOwed DEF AtFile
<1>5. \A flag \in {job, [job EXCEPT !.skipped = TRUE], [job EXCEPT !.gone = TRUE]} :
        Same(After(flag)) /\ After(flag).pc \in {"list", "leave"}
  <2>1. \A j \in JobState : Same(j) => Same(After(j)) /\ After(j).pc \in {"list", "leave"}
    BY AfterFields
  <2>2. job \in JobState /\ Same(job)
    BY DEF JobType, Same
  <2>3. /\ [job EXCEPT !.skipped = TRUE] \in JobState /\ Same([job EXCEPT !.skipped = TRUE])
        /\ [job EXCEPT !.gone = TRUE] \in JobState /\ Same([job EXCEPT !.gone = TRUE])
    BY JobFlags, FlagFields
  <2>4. QED BY <2>1, <2>2, <2>3
\* The steps that leave the files alone.
<1>6. CASE Gone \/ DiscardFails \/ RemoveFails
  BY <1>3, <1>6, EndFields, StillLossless DEF Gone, DiscardFails, RemoveFails, disk
<1>7. CASE Skip
  BY <1>3, <1>4, <1>5, <1>7, StillLossless DEF Skip, Taken, Staging
<1>8. ASSUME UNCHANGED disk, file[n].src # None,
             NEW place \in {"dst", "kept", "stg"}, NEW over \in BOOLEAN, job' = CopyTo(place, over),
             job.pc \in {"entry", "inner"},
             Staging => job.pc = "entry" /\ place = "stg" /\ ~over
      PROVE  Copying' /\ Staged' /\ Lossless
  <2>1. /\ job'.pc = "copy" /\ job'.at = n /\ job'.to = place /\ job'.replace = over
        /\ job'.into = job.into /\ job'.seen = job.seen
    BY <1>8, CopyToFields
  <2>2. Copying'
    BY <1>8, <2>1 DEF Copying, SourceStays, SwapDone, CopyDone, disk
  <2>3. StagedOnly' /\ FreshTree' /\ TreeDone'
    BY <1>1, <1>8, <2>1 DEF Staged, StagedOnly, FreshTree, TreeDone, Staging, Swapped, disk, AtFile
  <2>4. SeenStaged'
    BY <1>1, <1>8, <2>1 DEF Staged, SeenStaged, Staging, Swapped, disk
  <2>5. QED BY <1>8, <2>2, <2>3, <2>4, StillLossless DEF Staged
<1>9. CASE EntryFree
  <2>1. /\ UNCHANGED disk /\ file[n].src # None /\ job' = CopyTo(job.into, FALSE) /\ job.pc = "entry"
    BY <1>9 DEF EntryFree, Ready, At, Here, disk
  <2>2. Staging => job.into = "stg"
    BY DEF Staging
  <2>3. QED BY <1>2, <1>8, <2>1, <2>2
<1>10. CASE Replace \/ KeepBoth
  <2>1. \E place \in {"dst", "kept"}, over \in BOOLEAN :
          UNCHANGED disk /\ file[n].src # None /\ job' = CopyTo(place, over)
    BY <1>10 DEF Replace, KeepBoth, Here, disk
  <2>2. job.pc \in {"entry", "inner"} /\ ~Staging
    BY <1>10 DEF Replace, KeepBoth, Ready, At, Taken, Staging
  <2>3. QED BY <1>8, <2>1, <2>2
<1>11. CASE InnerFree
  <2>1. UNCHANGED disk /\ file[n].src # None /\ job' = CopyTo("dst", FALSE) /\ job.pc = "inner"
    BY <1>11 DEF InnerFree, Ready, At, Here, disk
  <2>2. ~Staging
    BY <2>1 DEF Staged, StagedOnly
  <2>3. QED BY <1>8, <2>1, <2>2
\* The steps that change the file.
<1>12. CASE InnerRenames
  <2>1. PICK place \in {"dst", "kept"} : RenameFile(place)
    BY <1>12 DEF InnerRenames
  <2>2. job.pc = "inner" /\ ~Staging
    BY <1>12 DEF InnerRenames, Ready, At, Staged, StagedOnly
  <2>3. Copying' /\ Staged'
    BY <1>3, <1>4, <1>5, <2>1, <2>2 DEF RenameFile
  <2>4. /\ file'[n][place] = "new"
        /\ \A other \in Fields \ {place, "src"} : file'[n][other] = file[n][other]
        /\ \A m \in Name \ {n} : file'[m] = file[m]
    <3>1. /\ file'[n] = [file[n] EXCEPT ![place] = "new", !.src = None]
          /\ \A m \in Name \ {n} : file'[m] = file[m]
      BY <1>1, <2>1 DEF RenameFile, FileType
    <3>2. file[n] \in FileState
      BY <1>1 DEF FileType
    <3>3. CASE place = "dst"
      BY <3>1, <3>2, <3>3 DEF FileState, Fields
    <3>4. CASE place = "kept"
      BY <3>1, <3>2, <3>4 DEF FileState, Fields
    <3>5. QED BY <3>3, <3>4
  <2>5. QED BY <1>1, <2>3, <2>4, OneFileLossless DEF Kept, OldKept, Fields
<1>13. ASSUME NEW v \in {None, "part", "full"}, Place("tmp", v)
       PROVE  /\ Lossless
              /\ \A f \in Name, field \in Fields \ {"tmp"} : file'[f][field] = file[f][field]
  <2>1. /\ \A other \in Fields \ {"tmp"} : file'[n][other] = file[n][other]
        /\ \A m \in Name \ {n} : file'[m] = file[m]
    BY <1>1, <1>13, OneChange DEF Place, Fields
  <2>2. QED BY <1>1, <2>1, OneFileLossless DEF Kept, OldKept, Fields
<1>14. CASE CopyFails \/ PublishFails
  BY <1>3, <1>13, <1>14, EndFields DEF CopyFails, PublishFails
<1>15. CASE Chunk \/ LastChunk
  <2>1. /\ job.pc = "copy" /\ job'.pc \in {"copy", "publish"} /\ Same(job') /\ file[n].src # None
        /\ \E v \in {"part", "full"} : Place("tmp", v)
    <3>1. CASE Chunk
      BY <3>1, GotoFields DEF Chunk, Ready, At, Here
    <3>2. CASE LastChunk
      BY <3>2, GotoFields DEF LastChunk, Ready, At, Here
    <3>3. QED BY <1>15, <3>1, <3>2
  <2>2. /\ Lossless
        /\ \A f \in Name, field \in {"src", "dst", "stg"} : file'[f][field] = file[f][field]
    BY <1>13, <2>1 DEF Fields
  <2>3. /\ file'[n].src = file[n].src
        /\ \A f \in Name : file'[f].dst = file[f].dst /\ file'[f].stg = file[f].stg
    BY <1>1, <2>2
  <2>4. Copying'
    BY <2>1, <2>3 DEF Copying, SourceStays, SwapDone, CopyDone, Same
  <2>5. StagedOnly' /\ FreshTree' /\ TreeDone'
    BY <1>1, <2>1, <2>3 DEF Staged, StagedOnly, FreshTree, TreeDone, Staging, Swapped, Same
  <2>6. SeenStaged'
    <3> SUFFICES ASSUME Staging', NEW f \in job.seen
                 PROVE  \/ file'[f].stg = "new"
                        \/ f = job'.at /\ job'.pc \in {"entry", "copy", "publish"}
      BY <2>1 DEF SeenStaged, Same, Swapped
    <3>1. Staging /\ f \in Name
      BY <2>1, JobIsTyped DEF Staging, Same
    <3>2. QED BY <2>1, <2>3, <3>1 DEF Staged, SeenStaged, Same, Swapped
  <2>7. QED BY <2>2, <2>4, <2>5, <2>6 DEF Staged
<1>16. CASE Publish
  <2>1. /\ file'[n][job.to] = "new"
        /\ \A other \in Fields \ {job.to, "tmp"} : file'[n][other] = file[n][other]
        /\ \A m \in Name \ {n} : file'[m] = file[m]
    <3>1. CASE job.to = "dst"
      BY <1>1, <1>16, <3>1 DEF Publish, FileType, FileState, Fields
    <3>2. CASE job.to = "kept"
      BY <1>1, <1>16, <3>2 DEF Publish, FileType, FileState, Fields
    <3>3. CASE job.to = "stg"
      BY <1>1, <1>16, <3>3 DEF Publish, FileType, FileState, Fields
    <3>4. QED BY <1>2, <3>1, <3>2, <3>3
  <2>2. Lossless
    BY <1>1, <1>2, <2>1, OneFileLossless DEF Kept, OldKept, Fields
  <2>3. job.pc = "publish"
    BY <1>16 DEF Publish, At
  <2>4. CASE Removing
    <3>1. job'.pc = "remove" /\ Same(job') /\ ~Staging'
      BY <1>16, <2>4, GotoFields DEF Publish, Removing, Staging, Same
    <3>2. Copying'
      BY <1>2, <2>1, <3>1 DEF Copying, SourceStays, SwapDone, CopyDone, Same
    <3>3. QED BY <2>2, <3>1, <3>2 DEF Staged, StagedOnly, FreshTree, SeenStaged, TreeDone
  <2>5. CASE ~Removing
    <3>1. job'.pc \in {"list", "leave"} /\ Same(job')
      BY <1>5, <1>16, <2>5 DEF Publish
    <3>2. CASE job'.pc = "leave" \/ ~Staging
      BY <1>3, <1>4, <2>2, <3>1, <3>2
    <3>3. CASE job'.pc = "list" /\ Staging
      <4>1. job.to = "stg"
        BY <2>3, <3>3 DEF Staged, StagedOnly
      <4>2. \A f \in Name : file'[f].dst = file[f].dst
        BY <2>1, <4>1 DEF Fields
      <4>3. StagedOnly' /\ FreshTree' /\ TreeDone' /\ Copying'
        BY <2>3, <3>1, <3>3, <4>2 DEF Staged, StagedOnly, FreshTree, TreeDone, Staging, Swapped, Same,
                                     Copying, SourceStays, SwapDone, CopyDone
      <4>4. \A f \in job.seen : file'[f].stg = "new"
        <5> SUFFICES ASSUME NEW f \in job.seen PROVE file'[f].stg = "new"
          OBVIOUS
        <5>1. f \in Name /\ (f = n \/ file[f].stg = "new")
          BY <2>3, <3>3, JobIsTyped DEF Staged, SeenStaged, Swapped
        <5>2. QED BY <2>1, <4>1, <5>1 DEF Fields
      <4>5. SeenStaged'
        BY <3>1, <3>3, <4>4 DEF SeenStaged, Swapped, Same
      <4>6. QED BY <2>2, <4>3, <4>5 DEF Staged
    <3>4. QED BY <3>1, <3>2, <3>3
  <2>6. QED BY <2>4, <2>5
\* The steps of replace_with_temporary are not those of a staged tree.
<1>17. ASSUME job'.pc \in {"swap", "discard", "remove"}, Same(job'), ~Staging
       PROVE  Staged'
  BY <1>1, <1>17 DEF Staged, StagedOnly, FreshTree, SeenStaged, TreeDone, Staging, Same, AtFile
<1>18. job.pc \in {"copy", "publish", "swap"} => file[n].src # None \/ n \in spare.taken
  BY DEF SourceStays
<1>19. CASE SetAside
  <2>1. job.pc = "publish" /\ ~Staging /\ job'.pc = "swap" /\ Same(job') /\ UNCHANGED spare
    BY <1>19, GotoFields DEF SetAside, At, Staged, StagedOnly
  <2>2. /\ file'[n].bak = "old" /\ file'[n].src = file[n].src
        /\ \A m \in Name \ {n} : file'[m] = file[m]
    BY <1>1, <1>19 DEF SetAside, FileType, FileState
  <2>3. Copying'
    BY <1>18, <2>1, <2>2 DEF Copying, SourceStays, SwapDone, CopyDone, Same
  <2>4. Lossless
    BY <1>1, <1>18, <2>1, <2>2, OneFileLossless DEF Kept, OldKept
  <2>5. QED BY <1>17, <2>1, <2>3, <2>4
<1>20. CASE Swap
  <2>1. job.pc = "swap" /\ ~Staging /\ job'.pc = "discard" /\ Same(job') /\ UNCHANGED spare
    BY <1>20, GotoFields DEF Swap, At, Staged, StagedOnly
  <2>2. /\ file'[n].dst = "new" /\ file'[n].src = file[n].src
        /\ \A m \in Name \ {n} : file'[m] = file[m]
    BY <1>1, <1>20 DEF Swap, FileType, FileState
  <2>3. Copying'
    BY <1>18, <2>1, <2>2 DEF Copying, SourceStays, SwapDone, CopyDone, Same
  <2>4. Lossless
    BY <1>1, <2>2, OneFileLossless DEF Kept, OldKept
  <2>5. QED BY <1>17, <2>1, <2>3, <2>4
<1>21. CASE Discard
  <2>1. job.pc = "discard" /\ ~Staging /\ file[n].dst = "new"
    BY <1>21 DEF Discard, At, Staged, StagedOnly, SwapDone
  <2>2. /\ file'[n].dst = "new"
        /\ \A m \in Name \ {n} : file'[m] = file[m]
    BY <1>1, <1>21, <2>1, OneChange DEF Discard, Place, Fields
  <2>3. Lossless
    BY <1>1, <2>2, OneFileLossless DEF Kept, OldKept
  <2>4. CASE Removing
    <3>1. job'.pc = "remove" /\ Same(job')
      BY <1>21, <2>4, GotoFields DEF Discard
    <3>2. Copying'
      BY <2>2, <3>1 DEF Copying, SourceStays, SwapDone, CopyDone, Same
    <3>3. QED BY <1>17, <2>1, <2>3, <3>1, <3>2
  <2>5. CASE ~Removing
    BY <1>3, <1>4, <1>5, <1>21, <2>1, <2>3, <2>5 DEF Discard
  <2>6. QED BY <2>4, <2>5
<1>22. CASE SwapFails
  <2>1. job.pc = "swap" /\ job'.pc = "leave"
    BY <1>22, EndFields DEF SwapFails, At
  <2>2. spare'.taken = spare.taken
    BY <1>22 DEF SwapFails, FaultIsSpent, Spend, SpareType, SpareState
  <2>3. /\ file'[n].dst = "old" /\ file'[n].src = file[n].src
        /\ \A m \in Name \ {n} : file'[m] = file[m]
    BY <1>1, <1>22 DEF SwapFails, FileType, FileState
  <2>4. Lossless
    BY <1>1, <1>18, <2>1, <2>2, <2>3, OneFileLossless DEF Kept, OldKept
  <2>5. QED BY <1>3, <2>1, <2>4
<1>23. CASE Remove
  <2>1. job.pc = "remove" /\ ~Staging /\ "new" \in {file[n].dst, file[n].kept, file[n].stg}
    BY <1>23 DEF Remove, At, Staged, StagedOnly, CopyDone
  <2>2. /\ \A other \in Fields \ {"src"} : file'[n][other] = file[n][other]
        /\ \A m \in Name \ {n} : file'[m] = file[m]
    BY <1>1, <1>23, OneChange DEF Remove, Place, Fields
  <2>3. Lossless
    BY <1>1, <2>1, <2>2, OneFileLossless DEF Kept, OldKept, Fields
  <2>4. QED BY <1>3, <1>4, <1>5, <1>23, <2>1, <2>3 DEF Remove
<1>24. QED BY <1>6, <1>7, <1>9, <1>10, <1>11, <1>12, <1>14, <1>15, <1>16, <1>19, <1>20, <1>21,
              <1>22, <1>23 DEF FileStep

LEMMA CloseLossless == TransferInv /\ CloseStep => Copying' /\ Staged' /\ Lossless
<1> SUFFICES ASSUME TransferInv, CloseStep PROVE Copying' /\ Staged' /\ Lossless
  OBVIOUS
<1> USE DEF TransferInv, Types
\* The steps that end the transfer, or end the listing of a copy.
<1>1. ASSUME job'.pc = "leave" PROVE Copying' /\ Staged'
  BY <1>1, NothingOwed DEF AtFile, Staging
<1>2. ASSUME UNCHANGED file, OldTreeKept => OldTreeKept' \/ tree'.dst = "new"
      PROVE  Lossless
  BY <1>2 DEF Lossless, Kept, OldKept
<1>3. CASE CloseCopy \/ CloseMove \/ CloseMoveFails \/ SweepEnds \/ SweepFails
  <2>1. job'.pc = "leave"
    BY <1>3, EndFields DEF CloseCopy, CloseMove, CloseMoveFails, SweepEnds, SweepFails
  <2>2. UNCHANGED file /\ (OldTreeKept => OldTreeKept')
    BY <1>3 DEF CloseCopy, CloseMove, CloseMoveFails, SweepEnds, SweepFails, disk, OldTreeKept,
                TreeType, TreeState
  <2>3. QED BY <1>1, <1>2, <2>1, <2>2
<1>4. CASE StageFails
  <2>1. job'.pc = "leave"
    BY <1>4, EndFields DEF StageFails
  <2>2. UNCHANGED file /\ (OldTreeKept => OldTreeKept')
    BY <1>4 DEF StageFails, OldTreeKept, TreeType, TreeState
  <2>3. QED BY <1>1, <1>2, <2>1, <2>2
<1>5. CASE StageSetAside
  <2>1. job.pc = "closing" /\ Staging /\ job'.pc = "stageSwap" /\ Same(job') /\ UNCHANGED file
    BY <1>5, GotoFields DEF StageSetAside, At, Staging
  <2>2. tree'.bak
    BY <1>5 DEF StageSetAside, TreeType, TreeState
  <2>3. Lossless
    BY <1>2, <2>1, <2>2 DEF OldTreeKept
  <2>4. Copying' /\ StagedOnly' /\ FreshTree' /\ TreeDone'
    BY <2>1 DEF Copying, SourceStays, SwapDone, CopyDone, Staged, StagedOnly, FreshTree, TreeDone,
                Staging, Swapped, Same
  <2>5. SeenStaged'
    BY <2>1 DEF Staged, SeenStaged, Staging, Swapped, Same
  <2>6. QED BY <2>3, <2>4, <2>5 DEF Staged
<1>6. CASE StageSwap
  <2>1. job.pc = "stageSwap" /\ Staging /\ job'.pc = "stageDiscard" /\ Same(job') /\ tree'.dst = "new"
    BY <1>6, GotoFields DEF StageSwap, At, Staging, Staged, TreeDone, TreeType, TreeState
  <2>2. ASSUME NEW f \in Name
        PROVE  /\ file'[f].dst = file[f].stg /\ file'[f].src = file[f].src
               /\ file'[f].kept = file[f].kept /\ file'[f].bak = file[f].bak
    BY <1>6 DEF StageSwap, FileType, FileState
  <2>3. \A f \in Name : file[f].dst = None
    BY <2>1 DEF Staged, FreshTree, Swapped
  <2>4. Lossless
    <3>1. ASSUME NEW f \in Name
          PROVE  /\ Kept(f) => Kept(f)'
                 /\ OldKept(f) => OldKept(f)'
      <4>1. file[f].dst = None /\ None # "old" /\ None # "new"
        BY <2>3 DEF None
      <4>2. QED BY <2>2, <4>1 DEF Kept, OldKept
    <3>2. QED BY <2>1, <3>1 DEF Lossless
  <2>5. Copying' /\ StagedOnly' /\ FreshTree' /\ TreeDone'
    BY <2>1 DEF Copying, SourceStays, SwapDone, CopyDone, Staged, StagedOnly, FreshTree, TreeDone,
                Staging, Swapped, Same
  <2>6. \A f \in job.seen : f \in Name /\ file[f].stg = "new"
    BY <2>1, JobIsTyped DEF Staged, SeenStaged, Swapped
  <2>7. SeenStaged'
    BY <2>1, <2>2, <2>6 DEF SeenStaged, Swapped, Same
  <2>8. QED BY <2>4, <2>5, <2>7 DEF Staged
<1>7. CASE StageDiscard
  <2>1. /\ job.pc = "stageDiscard" /\ Staging /\ tree.dst = "new" /\ UNCHANGED file
        /\ \/ job'.pc = "leave"
           \/ job'.pc = "sweep" /\ Same(job')
    BY <1>7, GotoFields, EndFields DEF StageDiscard, At, Staging, Staged, TreeDone
  <2>2. tree'.dst = "new"
    BY <1>7, <2>1 DEF StageDiscard, TreeType, TreeState
  <2>3. Lossless
    BY <1>2, <2>1, <2>2
  <2>4. CASE job'.pc = "leave"
    BY <1>1, <2>3, <2>4
  <2>5. CASE job'.pc = "sweep" /\ Same(job')
    <3>1. Copying' /\ StagedOnly' /\ FreshTree' /\ TreeDone'
      BY <2>1, <2>5 DEF Copying, SourceStays, SwapDone, CopyDone, Staged, StagedOnly, FreshTree,
                        TreeDone, Staging, Swapped, Same
    <3>2. SeenStaged'
      BY <2>1, <2>5 DEF Staged, SeenStaged, Staging, Swapped, Same
    <3>3. QED BY <2>3, <3>1, <3>2 DEF Staged
  <2>6. QED BY <2>1, <2>4, <2>5
<1>8. CASE Sweep
  <2>1. PICK f \in job.seen : /\ file' = [file EXCEPT ![f].src = None]
                              /\ job' = [job EXCEPT !.seen = @ \ {f}]
    BY <1>8 DEF Sweep
  <2>2. job.pc = "sweep" /\ Staging /\ UNCHANGED tree
    BY <1>8 DEF Sweep, At, Staging, Staged, TreeDone
  <2>3. f \in Name /\ \A g \in job.seen : g \in Name /\ file[g].dst = "new"
    BY <2>2, JobIsTyped DEF Staged, SeenStaged, Swapped
  <2>4. /\ \A other \in Fields \ {"src"} : file'[f][other] = file[f][other]
        /\ \A m \in Name \ {f} : file'[m] = file[m]
    BY <2>1, <2>3, OneChange DEF Fields
  <2>5. Lossless
    BY <2>2, <2>3, <2>4, OneFileLossless DEF Kept, OldKept, Fields
  <2>6. job'.pc = "sweep" /\ job'.into = "stg" /\ job'.seen \subseteq job.seen
    BY <2>1, <2>2 DEF JobType, JobState, Staging
  <2>7. Copying' /\ StagedOnly' /\ FreshTree' /\ TreeDone'
    BY <2>6 DEF Copying, SourceStays, SwapDone, CopyDone, Staged, StagedOnly, FreshTree, TreeDone,
                Staging, Swapped
  <2>8. \A g \in Name : file'[g].dst = file[g].dst
    BY <2>3, <2>4 DEF Fields
  <2>9. SeenStaged'
    BY <2>3, <2>6, <2>8 DEF SeenStaged, Swapped
  <2>10. QED BY <2>5, <2>7, <2>9 DEF Staged
<1>9. QED BY <1>3, <1>4, <1>5, <1>6, <1>7, <1>8 DEF CloseStep

LEMMA WaitLossless ==
  TransferInv /\ (CallFails \/ Leave \/ Enter \/ CheckPasses \/ CheckStops \/ TokenStep)
    => Copying' /\ Staged' /\ Lossless
<1> SUFFICES ASSUME TransferInv,
                    CallFails \/ Leave \/ Enter \/ CheckPasses \/ CheckStops \/ TokenStep
    PROVE Copying' /\ Staged' /\ Lossless
  OBVIOUS
<1> USE DEF TransferInv, Types
<1>1. CASE CallFails
  BY <1>1, EndFields, NothingOwed, StillLossless DEF CallFails, AtFile, Staging, disk
<1>2. CASE Leave
  <2>1. job'.pc \in {"leave", "ended"}
    BY <1>2 DEF Leave, JobType, JobState
  <2>2. QED BY <1>2, <2>1, NothingOwed, StillLossless DEF Leave, AtFile, Staging, disk
<1>3. CASE Enter \/ CheckPasses \/ TokenStep
  <2>1. UNCHANGED <<file, tree, spare>> /\ job'.pc = job.pc /\ Same(job')
    BY <1>3, FlagFields DEF Enter, CheckPasses, TokenStep, transferVars, disk, Same
  <2>2. Copying'
    BY <2>1 DEF Copying, SourceStays, SwapDone, CopyDone, Same
  <2>3. Staged'
    BY <2>1 DEF Staged, StagedOnly, FreshTree, SeenStaged, TreeDone, Staging, Swapped, Same
  <2>4. QED BY <2>1, <2>2, <2>3, StillLossless DEF disk
<1>4. CASE CheckStops
  <2>1. job'.pc = "leave" /\ UNCHANGED tree
    BY <1>4, EndFields DEF CheckStops
  <2>2. Lossless
    <3>1. CASE job.pc = "copy"
      <4>1. job.at \in Name /\ Place("tmp", None)
        BY <1>4, <3>1 DEF CheckStops, KnowsFile, AtFile
      <4>2. /\ \A other \in Fields \ {"tmp"} : file'[job.at][other] = file[job.at][other]
            /\ \A m \in Name \ {job.at} : file'[m] = file[m]
        BY <4>1, OneChange DEF Place, Fields
      <4>3. QED BY <2>1, <4>1, <4>2, OneFileLossless DEF Kept, OldKept, Fields
    <3>2. CASE job.pc # "copy"
      BY <1>4, <2>1, <3>2, StillLossless DEF CheckStops, disk
    <3>3. QED BY <3>1, <3>2
  <2>3. QED BY <2>1, <2>2, NothingOwed DEF AtFile, Staging
<1>5. QED BY <1>1, <1>2, <1>3, <1>4

LEMMA OutsideLossless == TransferInv /\ (ScanStep \/ Others) => Copying' /\ Staged' /\ Lossless
<1> SUFFICES ASSUME TransferInv, ScanStep \/ Others PROVE Copying' /\ Staged' /\ Lossless
  OBVIOUS
<1> USE DEF TransferInv, Types
<1>1. CASE ScanStep
  <2>1. UNCHANGED <<file, tree, job, spare>>
    BY <1>1 DEF ScanStep, ScanFile, ScanEnds, ScanCancelled, Send, disk
  <2>2. Copying' /\ Staged'
    BY <2>1 DEF Copying, SourceStays, SwapDone, CopyDone, Staged, StagedOnly, FreshTree, SeenStaged,
                TreeDone, Staging
  <2>3. QED BY <2>1, <2>2, StillLossless DEF disk
<1>2. CASE Others
  <2>1. PICK f \in Name : AddFile(f) \/ TakeFile(f)
    BY <1>2 DEF Others
  <2>2. UNCHANGED <<tree, job>>
    BY <2>1 DEF AddFile, TakeFile
  <2>3. /\ \A other \in Fields \ {"src"} : file'[f][other] = file[f][other]
        /\ \A m \in Name \ {f} : file'[m] = file[m]
    <3>1. \E v : file' = [file EXCEPT ![f].src = v]
      BY <2>1 DEF AddFile, TakeFile
    <3>2. QED BY <3>1, OneChange DEF Fields
  <2>4. \/ file[f].src = None /\ file'[f].src = "late" /\ spare'.taken = spare.taken
        \/ file[f].src # None /\ f \in spare'.taken /\ spare.taken \subseteq spare'.taken
    <3>1. CASE AddFile(f)
      BY <3>1, OneChange DEF AddFile, Spend, SpareType, SpareState, FileType, FileState
    <3>2. CASE TakeFile(f)
      BY <3>2 DEF TakeFile, SpareType, SpareState
    <3>3. QED BY <2>1, <3>1, <3>2
  <2>5. Lossless
    BY <2>2, <2>3, <2>4, OneFileLossless DEF Kept, OldKept, Fields
  <2>6. \A g \in Name : file'[g].dst = file[g].dst /\ file'[g].stg = file[g].stg
                        /\ file'[g].kept = file[g].kept
    BY <2>3 DEF Fields
  <2>7. Copying'
    <3>1. SourceStays'
      <4>1. \A g \in Name : file[g].src # None \/ g \in spare.taken
                              => file'[g].src # None \/ g \in spare'.taken
        BY <2>3, <2>4
      <4>2. QED BY <2>2, <4>1 DEF SourceStays, KnowsFile, AtFile
    <3>2. QED BY <2>2, <2>6, <3>1 DEF Copying, SwapDone, CopyDone, KnowsFile, AtFile
  <2>8. Staged'
    BY <2>2, <2>6, JobIsTyped DEF Staged, StagedOnly, FreshTree, SeenStaged, TreeDone, Staging
  <2>9. QED BY <2>5, <2>7, <2>8
<1>3. QED BY <1>1, <1>2

LEMMA LosslessStep == TransferInv /\ [TransferNext]_allVars => TransferInv' /\ Lossless
<1>1. TransferInv /\ UNCHANGED allVars => TransferInv' /\ Lossless
  <2> SUFFICES ASSUME TransferInv, UNCHANGED allVars PROVE TransferInv' /\ Lossless
    OBVIOUS
  <2>1. UNCHANGED <<file, tree, job, spare>>
    BY DEF allVars, transferVars
  <2>2. (SourceStays /\ SwapDone /\ CopyDone /\ Staged)'
    BY <2>1 DEF TransferInv, SourceStays, SwapDone, CopyDone, Staged, StagedOnly, FreshTree,
                SeenStaged, TreeDone, Staging
  <2>3. QED BY <2>1, <2>2, TypesKept, StillLossless DEF TransferInv, disk
<1>2. TransferInv /\ TransferNext => Copying' /\ Staged' /\ Lossless
  BY RootLossless, ListLossless, FileLossless, CloseLossless, WaitLossless, OutsideLossless
     DEF TransferNext
<1>3. QED BY <1>1, <1>2, TypesKept DEF TransferInv, Copying

LEMMA InitLossless == TransferInit => TransferInv
<1> SUFFICES ASSUME TransferInit PROVE TransferInv
  OBVIOUS
<1>1. job.pc = "start" /\ job.into = "dst" /\ job.seen = {}
  BY DEF TransferInit
<1>2. tree.dst = "file" => \A f \in Name : file[f].dst = None
  BY DEF TransferInit
<1>3. Staged
  BY <1>1, <1>2 DEF Staged, StagedOnly, FreshTree, SeenStaged, TreeDone, Staging
<1>4. SourceStays /\ SwapDone /\ CopyDone
  BY <1>1 DEF SourceStays, SwapDone, CopyDone
<1>5. QED BY <1>3, <1>4, InitTypes DEF TransferInv

\* At every instant, wherever the process may end: a file of the source is whole in one
\* place or another unless another program took it, and what had its name at the
\* destination is there or in its backup until the new one has the name.
THEOREM TransferLosesNothing == TransferSpec => NothingLost
BY InitLossless, LosslessStep, PTL DEF TransferSpec, NothingLost, Lossless
-------------------------------------------------------------------------------
(* What the transfer says.  The outcome is told once, when the worker leaves; *)
(* until then the parts below relate what was done so far to the disk.        *)

Over == {"leave", "ended"}
Going == job.pc \notin Over

\* Only a check point is left waiting.
Waits == worker \notin {"working", "ended"} => job.pc \in CheckPoints

Verdict == job.outcome = None <=> Going

\* Where a step of the worker can be, and what the flags mean.
Places ==
  /\ job.pc \in {"list", "skipping", "closing", "stageSwap", "stageDiscard", "sweep"} => request.whole
  /\ ~request.whole => job.into = "dst" /\ ~tree.src
  /\ job.pc = "skipping" => job.skipped
  /\ job.pc \in {"start", "skipping"} => job.into = "dst"
  /\ job.pc = "start" => ~job.gone
  /\ job.pc \in {"inner", "sweep"} => Moving
  /\ job.pc = "remove" => Removing
  /\ job.pc \in {"copy", "publish"} /\ job.to = "stg" => job.into = "stg"
  /\ job.gone => Moving /\ job.into # "stg" /\ (request.whole \/ job.outcome = "ok")
  /\ job.outcome \in {"error", "cancelled"} => ~job.gone

\* The source directory goes last; the staged tree and the old file it replaces are
\* gone before the transfer is done.
Stages ==
  /\ request.whole /\ job.outcome # "ok" => tree.src
  /\ tree.stg => job.into = "stg" /\ job.pc \notin Swapped
  /\ tree.bak => job.into = "stg" /\ job.pc # "sweep"
  /\ job.outcome = "ok" => ~tree.stg /\ ~tree.bak

\* A single file is transferred alone.
Alone ==
  ~request.whole =>
    /\ \A f, g \in Name : file[f].src # None /\ file[g].src # None => f = g
    /\ job.pc \in AtFile => \A g \in Name \ {job.at} : file[g].src = None

\* Temporary files and backups are those of the file being copied, or left by a failure.
Temps ==
  \A f \in Name :
    /\ file[f].tmp # None => job.pc \in {"copy", "publish", "swap"} /\ f = job.at
    /\ file[f].bak # None => \/ job.pc \in {"swap", "discard"} /\ f = job.at
                             \/ job.outcome \notin {None, "ok"}

\* Until a source is removed, a file that has a new copy has its source.
Whole(f) == file[f].src = None =>
              "new" \notin {file[f].dst, file[f].kept, file[f].stg} \/ f \in spare.taken
Unmoved == Moving /\ ~job.gone /\ job.pc # "sweep" /\ job.outcome \in {None, "error", "cancelled"}
Intact == Unmoved => \A f \in Name : Whole(f)

\* A file to be copied is still to be listed, in the queue, at the worker or copied.
Arrived(f) ==
  /\ job.pc # "start"
  /\ IF job.into = "stg" /\ job.pc # "stageDiscard" THEN file[f].stg = "new" ELSE Copied(f)
AtWorker(f) == f = job.at /\ job.pc \in AtFile
InQueue(f) == \E i \in 1..Len(scan.queue) : scan.queue[i] = f
Copies == ~Moving /\ request.whole /\ ~job.skipped /\ Going
Listed ==
  Copies => \A f \in Name : file[f].src = "own" =>
              f \in scan.left \/ InQueue(f) \/ Arrived(f) \/ AtWorker(f)

\* The end is the last thing in the queue, and nothing is listed after it.
Exhausted == scan.state = "ended" /\ scan.left = {}
EndsLast ==
  \A i \in 1..Len(scan.queue) : scan.queue[i] = "end" => i = Len(scan.queue) /\ Exhausted
Drained ==
  ~Moving /\ job.pc \in {"closing", "stageSwap", "stageDiscard"} => scan.queue = <<>> /\ Exhausted

\* What is said at the end.
Finished ==
  job.outcome = "ok" /\ ~job.skipped =>
    IF Moving THEN ~tree.src /\ \A f \in Name : file[f].src # "own"
              ELSE \A f \in Name : file[f].src = "own" => Copied(f)
Remains ==
  job.outcome = "retained" =>
    Moving /\ (tree.src \/ spare.taken # {} \/ \E f \in Name : file[f].src # None)

Control == Waits /\ Verdict /\ Places /\ Stages
Disk == Alone /\ Temps /\ Intact
Listing == Listed /\ EndsLast /\ Drained
HonestInv == Control /\ Disk /\ Listing /\ Finished /\ Remains

\* What the operators that move the worker do to the flags and the outcome.
More(j) == j.outcome = job.outcome /\ j.skipped = job.skipped /\ j.gone = job.gone

LEMMA GotoMore == JobType => \A next : More(Goto(next))
BY DEF JobType, JobState, Goto, More

LEMMA EndMore ==
  JobType => /\ Succeeded.outcome = "ok" /\ Succeeded.skipped = job.skipped
             /\ Succeeded.gone = job.gone
             /\ \A error :
                  /\ Failed(error).outcome = IF request.whole /\ Removing /\ job.gone
                                               THEN "retained" ELSE error
                  /\ Failed(error).skipped = job.skipped /\ Failed(error).gone = job.gone
BY DEF JobType, JobState, Succeeded, Failed

LEMMA AfterMore ==
  \A j \in JobState : /\ After(j).outcome = IF request.whole THEN None ELSE "ok"
                      /\ After(j).skipped = j.skipped /\ After(j).gone = j.gone
BY DEF JobState, After

LEMMA FlagMore ==
  JobType => /\ [job EXCEPT !.skipped = TRUE].skipped /\ [job EXCEPT !.gone = TRUE].gone
             /\ [job EXCEPT !.skipped = TRUE].gone = job.gone
             /\ [job EXCEPT !.gone = TRUE].skipped = job.skipped
             /\ More([job EXCEPT !.checked = TRUE])
BY DEF JobType, JobState, More

LEMMA VisitMore == JobType => \A f : More(Visit(f))
<1> SUFFICES ASSUME JobType, NEW f PROVE More(Visit(f))
  OBVIOUS
<1> DEFINE next == IF Merging THEN "inner" ELSE "entry"
<1>1. Goto(next) \in JobState /\ More(Goto(next))
  BY GotoTyped, GotoMore DEF Steps
<1> HIDE DEF next
<1>2. QED BY <1>1 DEF Visit, More, JobState, next

LEMMA CopyToMore == JobType => \A place, over : More(CopyTo(place, over))
<1> SUFFICES ASSUME JobType, NEW place, NEW over PROVE More(CopyTo(place, over))
  OBVIOUS
<1>1. Goto("copy") \in JobState /\ More(Goto("copy"))
  BY GotoTyped, GotoMore DEF Steps
<1>2. QED BY <1>1 DEF CopyTo, More, JobState

\* A step that goes on without touching a file, at none that is half copied.
LEMMA QuietStep ==
  ASSUME HonestInv, Going, Going', job.pc \notin {"copy", "publish", "swap", "discard", "sweep"},
         UNCHANGED <<request, file>>, spare'.taken = spare.taken,
         job'.outcome = None, job'.gone = job.gone,
         ~request.whole /\ job'.pc \in AtFile =>
           \A g \in Name \ {job'.at} : file[g].src = None
  PROVE  Verdict' /\ Disk' /\ Finished' /\ Remains'
<1>1. job.outcome = None /\ Moving' = Moving
  BY DEF HonestInv, Control, Verdict, Moving
<1>2. Alone'
  BY DEF HonestInv, Disk, Alone
<1>3. Temps'
  BY <1>1 DEF HonestInv, Disk, Temps
<1>4. Intact'
  BY <1>1 DEF HonestInv, Disk, Intact, Unmoved, Whole
<1>5. QED BY <1>1, <1>2, <1>3, <1>4 DEF Verdict, Disk, Finished, Remains, None

\* A step that fails, having removed the temporary file there may have been.
LEMMA FailStep ==
  ASSUME HonestInv, JobType, Going, NEW error \in {"error", "cancelled", "retained"},
         job' = Failed(error), UNCHANGED request, spare'.taken = spare.taken,
         tree'.src = tree.src, tree'.stg => tree.stg, tree'.bak => tree.bak,
         worker' \in {"working", "ended"},
         \A f \in Name : /\ file'[f].src = file[f].src /\ file'[f].tmp = None
                         /\ "new" \in {file'[f].dst, file'[f].kept, file'[f].stg}
                              => "new" \in {file[f].dst, file[f].kept, file[f].stg},
         job.pc = "sweep" => error = "retained",
         error = "retained" =>
           Moving /\ (request.whole \/ spare.taken # {} \/ \E f \in Name : file[f].src # None)
  PROVE  Control' /\ Disk' /\ Listed' /\ Drained' /\ Finished' /\ Remains'
<1>1. /\ job'.pc = "leave" /\ job'.into = job.into /\ job'.gone = job.gone
      /\ job'.outcome = IF request.whole /\ Removing /\ job.gone THEN "retained" ELSE error
  BY EndFields, EndMore DEF Same
<1>2. /\ job.outcome = None /\ job'.outcome \in {"error", "cancelled", "retained"}
      /\ job'.outcome \in {"error", "cancelled"} => job'.outcome = error
      /\ Moving' = Moving
  BY <1>1 DEF HonestInv, Control, Verdict, Moving
<1>3. job.gone => request.whole /\ Removing
  BY <1>2 DEF HonestInv, Control, Places, Removing, None
<1>4. Control'
  BY <1>1, <1>2, <1>3 DEF HonestInv, Control, Waits, Verdict, Places, Stages, Going, Over, Swapped,
                          None, Removing
<1>5. Alone'
  BY <1>1 DEF HonestInv, Disk, Alone, AtFile
<1>6. Temps'
  BY <1>1, <1>2 DEF Temps, None
<1>7. Intact'
  <2> SUFFICES ASSUME Unmoved', NEW f \in Name PROVE Whole(f)'
    BY DEF Intact
  <2>1. Unmoved
    BY <1>1, <1>2 DEF Unmoved, None
  <2>2. Whole(f)
    BY <2>1 DEF HonestInv, Disk, Intact
  <2>3. QED BY <2>2 DEF Whole
<1>8. Listed' /\ Drained'
  BY <1>1 DEF Listed, Copies, Going, Over, Drained
<1>9. Remains'
  BY <1>1, <1>2, <1>3 DEF HonestInv, Control, Stages, Remains, Removing, None
<1>10. QED BY <1>2, <1>4, <1>5, <1>6, <1>7, <1>8, <1>9 DEF Disk, Finished

\* A step that ends well.
LEMMA DoneStep ==
  ASSUME HonestInv, job'.pc = "leave", job'.outcome = "ok", job'.into = job.into,
         job'.gone => Moving /\ job.into # "stg",
         UNCHANGED request, worker' = "working",
         ~tree'.stg, ~tree'.bak, tree'.src => tree.src,
         \A f \in Name : /\ file'[f].src # None => file[f].src # None
                         /\ file'[f].tmp = None /\ file'[f].bak = None,
         Finished'
  PROVE  Control' /\ Disk' /\ Listed' /\ Drained' /\ Finished' /\ Remains'
<1>1. Moving' = Moving
  BY DEF Moving
<1>2. Control'
  BY <1>1 DEF HonestInv, Control, Waits, Verdict, Places, Stages, Going, Over, Swapped, None
<1>3. Alone' /\ Temps'
  BY DEF HonestInv, Disk, Alone, AtFile, Temps
<1>4. Intact'
  BY DEF Intact, Unmoved, None
<1>5. QED BY <1>2, <1>3, <1>4 DEF Disk, Listed, Copies, Going, Over, Drained, Remains

\* The files of a step that keeps them.
LEMMA NoTemps ==
  ASSUME HonestInv, Going, job.pc \notin {"copy", "publish", "swap", "discard"}
  PROVE  \A f \in Name : file[f].tmp = None /\ file[f].bak = None
BY DEF HonestInv, Control, Verdict, Disk, Temps

LEMMA FaultTaken == SpareType /\ FaultIsSpent => spare'.taken = spare.taken
BY DEF SpareType, SpareState, FaultIsSpent, Spend

LEMMA WorkStays == WorkSteps => worker = "working" /\ worker' = "working" /\ UNCHANGED request
<1>1. RootStep => UNCHANGED request
  BY DEF RootStep, StartFile, StartMissing, StartTree, TreeSkipped, TreeKeptBoth, TreeReplaced,
         Ready, At
<1>2. ListStep => UNCHANGED request
  BY DEF ListStep, ListMoved, ListEnds, Receive, SkipListed, ReceiveTimesOut, Ready, At
<1>3. FileStep => UNCHANGED request
  BY DEF FileStep, Gone, EntryFree, Skip, Replace, KeepBoth, InnerRenames, InnerFree,
         Chunk, LastChunk, CopyFails, Publish, SetAside, Swap, Discard,
         PublishFails, SwapFails, DiscardFails, Remove, RemoveFails, Ready, At
<1>4. CloseStep => UNCHANGED request
  BY DEF CloseStep, CloseCopy, CloseMove, CloseMoveFails,
         StageSetAside, StageSwap, StageDiscard, StageFails, Sweep, SweepEnds, SweepFails,
         Ready, At
<1>5. CallFails => UNCHANGED request
  BY DEF CallFails, Ready, At
<1>6. QED BY <1>1, <1>2, <1>3, <1>4, <1>5, WorkIsWork DEF WorkSteps, vars

LEMMA StillQueue == EndsLast /\ UNCHANGED scan => EndsLast'
BY DEF EndsLast, Exhausted

\* A whole directory is renamed.
LEMMA RenamedHonest ==
  ASSUME TransferInv, HonestInv, job.pc = "start", request.whole, Moving,
         NEW place \in {"dst", "kept"}, RenameTree(place), worker' = "working",
         UNCHANGED <<request, scan>>
  PROVE  HonestInv'
<1> USE DEF TransferInv, Types
<1>1. /\ job' = Succeeded /\ tree'.src = FALSE /\ tree'.stg = tree.stg /\ tree'.bak = tree.bak
  BY DEF RenameTree, TreeType, TreeState
<1>2. /\ job'.pc = "leave" /\ job'.outcome = "ok" /\ job'.into = job.into /\ job'.gone = job.gone
      /\ job'.skipped = job.skipped
  BY <1>1, EndFields, EndMore DEF Same
<1>3. Going /\ job.into = "dst"
  BY DEF HonestInv, Control, Places, Going, Over
<1>4. ASSUME NEW f \in Name PROVE file'[f].src = None /\ file'[f].tmp = None /\ file'[f].bak = None
  <2>1. file[f] \in FileState /\ file[f].tmp = None /\ file[f].bak = None
    BY <1>3, NoTemps DEF FileType
  <2>2. CASE file[f].src = None
    BY <2>1, <2>2 DEF RenameTree
  <2>3. CASE file[f].src # None
    <3>1. file'[f] = [file[f] EXCEPT ![place] = "new", !.src = None]
      BY <2>3 DEF RenameTree
    <3>2. CASE place = "dst"
      BY <2>1, <3>1, <3>2 DEF FileState
    <3>3. CASE place = "kept"
      BY <2>1, <3>1, <3>3 DEF FileState
    <3>4. QED BY <3>2, <3>3
  <2>4. QED BY <2>2, <2>3
<1>5. ~tree.stg /\ ~tree.bak
  BY <1>3 DEF HonestInv, Control, Stages
<1>6. Finished'
  BY <1>1, <1>4 DEF Finished, Moving, None
<1>7. EndsLast'
  BY StillQueue DEF HonestInv, Listing
<1>8. QED BY <1>1, <1>2, <1>3, <1>4, <1>5, <1>6, <1>7, DoneStep
          DEF HonestInv, Control, Places, Listing, Moving

LEMMA RootHonest == TransferInv /\ HonestInv /\ RootStep => HonestInv'
<1> SUFFICES ASSUME TransferInv, HonestInv, RootStep PROVE HonestInv'
  OBVIOUS
<1> USE DEF TransferInv, Types
<1>1. /\ job.pc = "start" /\ job.into = "dst" /\ job.at \in Name \cup {None} /\ Going
      /\ UNCHANGED <<scan, spare>> /\ spare'.taken = spare.taken
  BY JobIsTyped DEF RootStep, StartFile, StartMissing, StartTree, TreeSkipped, TreeKeptBoth,
         TreeReplaced, Ready, At, Staged, FreshTree, Going, Over
<1>2. worker = "working" /\ worker' = "working" /\ UNCHANGED request /\ Moving' = Moving
  BY WorkStays DEF WorkSteps, Moving
<1>3. EndsLast'
  BY <1>1, StillQueue DEF HonestInv, Listing
<1>4. \A f \in Name : file[f].tmp = None /\ file[f].bak = None
  BY <1>1, NoTemps
<1>5. CASE StartFile
  <2>1. PICK f \in Name : /\ file[f].src # None
                          /\ job' = [Goto(IF Moving THEN "inner" ELSE "entry") EXCEPT !.at = f]
                          /\ ~request.whole /\ UNCHANGED disk
    BY <1>5 DEF StartFile
  <2> DEFINE next == IF Moving THEN "inner" ELSE "entry"
  <2>2. Goto(next) \in JobState /\ More(Goto(next)) /\ Same(Goto(next)) /\ Goto(next).pc = next
    BY GotoTyped, GotoMore, GotoFields DEF Steps
  <2> HIDE DEF next
  <2>3. job'.pc = next /\ job'.at = f /\ job'.into = "dst" /\ More(job')
    <3>1. job' = [Goto(next) EXCEPT !.at = f]
      BY <2>1 DEF next
    <3>2. QED BY <1>1, <2>2, <3>1 DEF JobState, More, Same
  <2>4. \A g \in Name \ {f} : file[g].src = None
    BY <2>1 DEF HonestInv, Disk, Alone
  <2>5. job'.pc \in {"entry", "inner"} /\ (job'.pc = "inner" => Moving) /\ Going'
    BY <2>3 DEF next, Going, Over
  <2>6. Verdict' /\ Disk' /\ Finished' /\ Remains'
    BY <1>1, <1>2, <2>1, <2>3, <2>4, <2>5, QuietStep DEF disk, More, HonestInv, Control, Verdict
  <2>7. Waits' /\ Places' /\ Stages'
    BY <1>1, <1>2, <2>1, <2>3, <2>5 DEF HonestInv, Control, Waits, Places, Stages, Swapped, disk, More,
                                      CheckPoints, Verdict, None
  <2>8. Listed' /\ Drained'
    BY <1>2, <2>1, <2>5 DEF Listed, Copies, Drained
  <2>9. QED BY <1>3, <2>6, <2>7, <2>8 DEF HonestInv, Control, Listing
<1>6. CASE StartMissing
  <2>1. job' = Failed("error") /\ UNCHANGED disk
    BY <1>6 DEF StartMissing
  <2>2. QED BY <1>1, <1>2, <1>3, <1>4, <2>1, FailStep DEF HonestInv, Listing, disk
\* The directory is gone through file by file.
<1>7. ASSUME job'.pc \in {"list", "skipping"}, job'.outcome = job.outcome, job'.gone = job.gone,
             request.whole, job'.skipped \/ (job'.pc = "list" /\ job'.skipped = job.skipped),
             job'.pc = "skipping" => job'.into = "dst",
             UNCHANGED file, tree'.src = tree.src, tree'.stg => job'.into = "stg", ~tree'.bak
      PROVE  HonestInv'
  <2>1. job.outcome = None /\ ~job.gone /\ Going'
    BY <1>1, <1>7 DEF HonestInv, Control, Verdict, Places, Going, Over
  <2>2. Verdict' /\ Disk' /\ Finished' /\ Remains'
    BY <1>1, <1>2, <1>7, <2>1, QuietStep
  <2>3. Waits' /\ Places' /\ Stages'
    BY <1>1, <1>2, <1>7, <2>1 DEF HonestInv, Control, Waits, Places, Stages, Swapped, None
  <2>4. Listed'
    <3> SUFFICES ASSUME Copies', NEW f \in Name, file'[f].src = "own"
        PROVE  f \in scan'.left \/ InQueue(f)'
      BY DEF Listed
    <3>1. Copies
      BY <1>1, <1>2, <1>7 DEF Copies
    <3>2. ~Arrived(f) /\ ~AtWorker(f)
      BY <1>1 DEF Arrived, AtWorker, AtFile
    <3>3. f \in scan.left \/ InQueue(f)
      BY <1>7, <3>1, <3>2 DEF HonestInv, Listing, Listed
    <3>4. QED BY <1>1, <3>3 DEF InQueue
  <2>5. Drained'
    BY <1>7 DEF Drained
  <2>6. QED BY <1>3, <2>2, <2>3, <2>4, <2>5 DEF HonestInv, Control, Listing
<1>8. ~tree.stg /\ ~tree.bak
  BY <1>1 DEF HonestInv, Control, Stages
<1>9. ASSUME NEW step \in {"list", "skipping"}
      PROVE  /\ Goto(step) \in JobState /\ Goto(step).pc = step /\ Goto(step).into = "dst"
             /\ More(Goto(step))
  BY <1>1, GotoTyped, GotoFields, GotoMore DEF Steps, Same
<1>10. CASE StartTree
  <2>1. CASE Moving /\ RenameTree("dst")
    BY <1>1, <1>2, <1>10, <2>1, RenamedHonest DEF StartTree
  <2>2. CASE ~(Moving /\ RenameTree("dst"))
    <3>1. /\ request.whole /\ tree' = [tree EXCEPT !.dst = IF @ = None THEN "new" ELSE @]
          /\ job' = Goto("list") /\ UNCHANGED file
      BY <1>10, <2>2 DEF StartTree
    <3>2. tree'.src = tree.src /\ tree'.stg = tree.stg /\ tree'.bak = tree.bak
      BY <3>1 DEF TreeType, TreeState
    <3>3. QED BY <1>7, <1>8, <1>9, <3>1, <3>2 DEF More
  <2>3. QED BY <2>1, <2>2
<1>11. CASE TreeSkipped
  <2>1. request.whole /\ job' = [Goto("skipping") EXCEPT !.skipped = TRUE] /\ UNCHANGED disk
    BY <1>11 DEF TreeSkipped
  <2>2. /\ job'.pc = "skipping" /\ job'.skipped /\ job'.into = "dst" /\ job'.outcome = job.outcome
        /\ job'.gone = job.gone
    BY <1>9, <2>1 DEF JobState, More
  <2>3. UNCHANGED <<file, tree>>
    BY <2>1 DEF disk
  <2>4. job'.skipped \/ (job'.pc = "list" /\ job'.skipped = job.skipped)
    BY <2>2
  <2>5. QED BY <1>7, <1>8, <2>1, <2>2, <2>3, <2>4
<1>12. CASE TreeKeptBoth
  <2>1. CASE Moving /\ RenameTree("kept")
    BY <1>1, <1>2, <1>12, <2>1, RenamedHonest DEF TreeKeptBoth
  <2>2. CASE ~(Moving /\ RenameTree("kept"))
    <3>1. request.whole /\ job' = [Goto("list") EXCEPT !.into = "kept"] /\ UNCHANGED disk
      BY <1>12, <2>2 DEF TreeKeptBoth
    <3>2. job'.pc = "list" /\ More(job')
      BY <1>9, <3>1 DEF JobState, More
    <3>3. QED BY <1>7, <1>8, <3>1, <3>2 DEF More, disk
  <2>3. QED BY <2>1, <2>2
<1>13. CASE TreeReplaced
  <2>1. /\ request.whole /\ job' = [Goto("list") EXCEPT !.into = "stg"] /\ UNCHANGED file
        /\ tree' = [tree EXCEPT !.stg = TRUE]
    BY <1>13 DEF TreeReplaced
  <2>2. job'.pc = "list" /\ job'.into = "stg" /\ More(job')
    BY <1>9, <2>1 DEF JobState, More
  <2>3. tree'.src = tree.src /\ tree'.bak = tree.bak
    BY <2>1 DEF TreeType, TreeState
  <2>4. QED BY <1>7, <1>8, <2>1, <2>2, <2>3 DEF More
<1>14. QED BY <1>5, <1>6, <1>10, <1>11, <1>12, <1>13 DEF RootStep

\* A message is taken from the queue.
LEMMA TakenFromQueue ==
  ASSUME ScanType, EndsLast, scan.queue # <<>>, scan' = [scan EXCEPT !.queue = Tail(@)]
  PROVE  /\ EndsLast' /\ scan'.left = scan.left
         /\ \A f : InQueue(f) => f = Head(scan.queue) \/ InQueue(f)'
         /\ Head(scan.queue) = "end" => scan'.queue = <<>> /\ Exhausted'
<1>1. scan.queue \in Seq(Entry) /\ scan'.queue = Tail(scan.queue)
      /\ scan'.left = scan.left /\ scan'.state = scan.state
  BY DEF ScanType, ScanState
<1>2. /\ Len(scan.queue) \in Nat \ {0} /\ Len(scan'.queue) = Len(scan.queue) - 1
      /\ Head(scan.queue) = scan.queue[1]
      /\ \A i \in 1..Len(scan'.queue) : scan'.queue[i] = scan.queue[i + 1]
  BY <1>1
<1>3. EndsLast'
  BY <1>1, <1>2 DEF EndsLast, Exhausted
<1>4. ASSUME NEW f, InQueue(f) PROVE f = Head(scan.queue) \/ InQueue(f)'
  <2>1. PICK i \in 1..Len(scan.queue) : scan.queue[i] = f
    BY <1>4 DEF InQueue
  <2>2. CASE i = 1
    BY <1>2, <2>1, <2>2
  <2>3. CASE i # 1
    <3>1. i - 1 \in 1..Len(scan'.queue) /\ scan'.queue[i - 1] = f
      BY <1>2, <2>1, <2>3
    <3>2. QED BY <3>1 DEF InQueue
  <2>4. QED BY <2>2, <2>3
<1>5. ASSUME Head(scan.queue) = "end" PROVE scan'.queue = <<>> /\ Exhausted'
  <2>1. 1 \in 1..Len(scan.queue) /\ scan.queue[1] = "end"
    BY <1>2, <1>5
  <2>2. 1 = Len(scan.queue) /\ Exhausted
    BY <2>1 DEF EndsLast
  <2>3. scan'.queue = <<>>
    BY <1>1, <1>2, <2>2
  <2>4. QED BY <1>1, <2>2, <2>3 DEF Exhausted
<1>6. QED BY <1>1, <1>3, <1>4, <1>5

LEMMA ListHonest == TransferInv /\ HonestInv /\ ListStep => HonestInv'
<1> SUFFICES ASSUME TransferInv, HonestInv, ListStep PROVE HonestInv'
  OBVIOUS
<1> USE DEF TransferInv, Types
<1>1. /\ job.pc \in {"list", "skipping"} /\ request.whole /\ Going
      /\ UNCHANGED <<file, tree, spare>> /\ spare'.taken = spare.taken
      /\ job.outcome = None /\ tree'.src = tree.src
  BY DEF ListStep, ListMoved, ListEnds, Receive, SkipListed, ReceiveTimesOut, Ready, At, disk,
         Going, Over, HonestInv, Control, Places, Verdict
<1>2. worker = "working" /\ worker' = "working" /\ UNCHANGED request /\ Moving' = Moving
  BY WorkStays DEF WorkSteps, Moving
<1>3. \A f \in Name : file[f].tmp = None /\ file[f].bak = None
  BY <1>1, NoTemps
<1> DEFINE Took == ~Moving /\ scan.queue # <<>> /\ scan' = [scan EXCEPT !.queue = Tail(@)]
<1>4. /\ UNCHANGED scan \/ Took
      /\ EndsLast' /\ scan'.left = scan.left
      /\ Took => /\ \A f : InQueue(f) => f = Head(scan.queue) \/ InQueue(f)'
                 /\ Head(scan.queue) = "end" => scan'.queue = <<>> /\ Exhausted'
  <2>1. UNCHANGED scan \/ Took
    BY DEF ListStep, ListMoved, ListEnds, Receive, SkipListed, ReceiveTimesOut
  <2>2. QED BY <2>1, TakenFromQueue, StillQueue DEF HonestInv, Listing
<1> HIDE DEF Took
<1>5. ASSUME NEW error \in {"error", "cancelled"}, job' = Failed(error) PROVE HonestInv'
  BY <1>1, <1>2, <1>3, <1>4, <1>5, FailStep DEF HonestInv, Listing
<1>6. ASSUME job.pc = "skipping", job' = Succeeded PROVE HonestInv'
  <2>1. /\ job'.pc = "leave" /\ job'.into = job.into /\ job'.outcome = "ok"
        /\ job'.skipped = job.skipped /\ job'.gone = job.gone
    BY <1>6, EndFields, EndMore DEF Same
  <2>2. job.skipped /\ job.into = "dst" /\ (job.gone => Moving)
    BY <1>6 DEF HonestInv, Control, Places
  <2>3. ~tree.stg /\ ~tree.bak
    BY <2>2 DEF HonestInv, Control, Stages
  <2>4. Finished'
    BY <2>1, <2>2 DEF Finished
  <2>5. QED BY <1>1, <1>2, <1>3, <1>4, <2>1, <2>2, <2>3, <2>4, DoneStep DEF HonestInv, Listing
\* The worker goes on to a file, or stays in the listing, or has come to its end.
<1>7. ASSUME Going', More(job'), job'.into = job.into,
             \/ job'.pc \in {"list", "skipping"} /\ job'.pc = job.pc
             \/ job'.pc \in {"entry", "inner", "closing"} /\ job.pc = "list",
             job'.pc = "inner" => Moving,
             ~Moving => \/ UNCHANGED scan /\ job'.pc \in {"list", "skipping"}
                        \/ /\ Took
                           /\ \/ job'.pc = "skipping"
                              \/ job'.pc = "entry" /\ job'.at = Head(scan.queue)
                              \/ job'.pc = "closing" /\ Head(scan.queue) = "end"
      PROVE  HonestInv'
  <2>1. Verdict' /\ Disk' /\ Finished' /\ Remains'
    BY <1>1, <1>2, <1>7, QuietStep DEF More
  <2>2. Waits' /\ Places' /\ Stages'
    BY <1>1, <1>2, <1>7 DEF HonestInv, Control, Waits, Places, Stages, Swapped, More
  <2>3. Listed'
    <3> SUFFICES ASSUME Copies', NEW f \in Name, file'[f].src = "own"
        PROVE  f \in scan'.left \/ InQueue(f)' \/ Arrived(f)' \/ AtWorker(f)'
      BY DEF Listed
    <3>1. Copies /\ job.pc = "list"
      BY <1>1, <1>2, <1>7 DEF Copies, More, HonestInv, Control, Places
    <3>2. f \in scan.left \/ InQueue(f) \/ Arrived(f)
      BY <1>1, <3>1 DEF HonestInv, Listing, Listed, AtWorker, AtFile
    <3>3. Arrived(f) => Arrived(f)'
      BY <1>1, <1>7 DEF Arrived, Copied
    <3>4. InQueue(f) => InQueue(f)' \/ AtWorker(f)'
      <4> HAVE InQueue(f)
      <4>1. CASE UNCHANGED scan
        BY <4>1 DEF InQueue
      <4>2. CASE ~UNCHANGED scan /\ Took /\ f = Head(scan.queue)
        <5>1. f # "end"
          BY TransferAssumption
        <5>2. job'.pc = "entry" /\ job'.at = f
          BY <1>7, <3>1, <4>2, <5>1 DEF Took
        <5>3. QED BY <5>2 DEF AtWorker, AtFile
      <4>3. CASE Took /\ f # Head(scan.queue)
        BY <1>4, <4>3
      <4>4. QED BY <1>4, <4>1, <4>2, <4>3
    <3>5. QED BY <1>4, <3>2, <3>3, <3>4
  <2>4. Drained'
    BY <1>2, <1>4, <1>7 DEF Drained
  <2>5. QED BY <1>4, <2>1, <2>2, <2>3, <2>4 DEF HonestInv, Control, Listing
<1>8. ASSUME NEW next \in {"list", "skipping", "closing"}
      PROVE  Goto(next).pc = next /\ Goto(next).into = job.into /\ More(Goto(next))
  BY GotoFields, GotoMore DEF Same
<1>9. ASSUME NEW f \in Name
      PROVE  /\ Visit(f).pc = IF Merging THEN "inner" ELSE "entry"
             /\ Visit(f).at = f /\ Visit(f).into = job.into /\ More(Visit(f))
  BY VisitFields, VisitMore
<1>10. CASE ListMoved
  <2>1. PICK f \in Name : job' = Visit(f) /\ job.pc = "list" /\ Moving
    BY <1>10 DEF ListMoved, Ready, At
  <2>2. job'.pc \in {"entry", "inner"} /\ Going'
    BY <1>9, <2>1 DEF Going, Over
  <2>3. QED BY <1>7, <1>9, <2>1, <2>2
<1>11. CASE ListEnds
  <2>1. job' = Goto("closing") /\ job.pc = "list" /\ Moving
    BY <1>11 DEF ListEnds, Ready, At
  <2>2. job'.pc = "closing" /\ Going'
    BY <1>8, <2>1 DEF Going, Over
  <2>3. QED BY <1>7, <1>8, <2>1, <2>2
<1>12. CASE Receive
  <2>1. /\ job.pc = "list" /\ Took /\ Head(scan.queue) \in Entry
    BY <1>12, QueueTyped DEF Receive, Ready, At, Entry, Took
  <2>2. \/ job' \in {Failed("error"), Failed("cancelled")}
        \/ Head(scan.queue) = "end" /\ job' = Goto("closing")
        \/ Head(scan.queue) \in Name /\ job' = Visit(Head(scan.queue))
    BY <1>12, <2>1 DEF Receive, Entry
  <2>3. CASE job' \in {Failed("error"), Failed("cancelled")}
    BY <1>5, <2>3
  <2>4. CASE Head(scan.queue) = "end" /\ job' = Goto("closing")
    <3>1. job'.pc = "closing" /\ Going'
      BY <1>8, <2>4 DEF Going, Over
    <3>2. QED BY <1>7, <1>8, <2>1, <2>4, <3>1
  <2>5. CASE Head(scan.queue) \in Name /\ job' = Visit(Head(scan.queue))
    <3>1. job'.pc = "entry" /\ Going'
      BY <1>9, <2>1, <2>5 DEF Merging, Going, Over, Took
    <3>2. QED BY <1>7, <1>9, <2>1, <2>5, <3>1
  <2>6. QED BY <2>2, <2>3, <2>4, <2>5
<1>13. CASE SkipListed
  <2>1. job.pc = "skipping" /\ job' \in {Succeeded, Goto("skipping")} /\ (~Moving => Took)
    BY <1>13 DEF SkipListed, Ready, At, Took
  <2>2. CASE job' = Goto("skipping")
    <3>1. job'.pc = "skipping" /\ Going'
      BY <1>8, <2>2 DEF Going, Over
    <3>2. QED BY <1>7, <1>8, <2>1, <2>2, <3>1
  <2>3. QED BY <1>6, <2>1, <2>2
<1>14. CASE ReceiveTimesOut
  <2>1. job' = Goto(job.pc) /\ UNCHANGED scan
    BY <1>14 DEF ReceiveTimesOut, Ready, At
  <2>2. job'.pc = job.pc /\ Going' /\ More(job') /\ job'.into = job.into
    BY <1>1, <1>8, <2>1 DEF Going, Over
  <2>3. QED BY <1>1, <1>7, <2>1, <2>2
<1>15. QED BY <1>10, <1>11, <1>12, <1>13, <1>14 DEF ListStep

\* A step at a file, after which the worker is still at it or goes on in the listing.
LEMMA FileGoesOn ==
  ASSUME TransferInv, HonestInv, NEW n \in Name, n = job.at, job.pc \in AtFile,
         job'.pc \notin Over, job'.outcome = None,
         UNCHANGED <<request, tree, scan>>, spare'.taken = spare.taken, worker' = "working",
         \A m \in Name \ {n} : file'[m] = file[m],
         file'[n].src \in {None, file[n].src},
         job'.into = job.into,
         \/ job'.pc = "list" /\ request.whole
         \/ job'.pc \in AtFile /\ job'.at = n,
         file'[n].tmp # None => job'.pc \in {"copy", "publish", "swap"},
         file'[n].bak # None => job'.pc \in {"swap", "discard"},
         job'.gone => job.gone \/ (Moving /\ job.into # "stg" /\ request.whole),
         ~job'.gone => ~job.gone /\ (Moving => Whole(n)'),
         job.skipped => job'.skipped,
         job'.pc = "list" /\ ~Moving /\ ~job'.skipped => Arrived(n)',
         job'.pc = "remove" => Removing,
         job'.pc = "inner" => Moving,
         job'.pc \in {"copy", "publish"} /\ job'.to = "stg" => job.into = "stg"
  PROVE  HonestInv'
<1> USE DEF TransferInv, Types
<1>1. /\ job.outcome = None /\ Moving' = Moving /\ Removing' = Removing /\ Going'
      /\ job'.pc \in AtFile \cup {"list"} /\ Going
  BY DEF KnowsFile, HonestInv, Control, Verdict, Moving, Removing, Going, Over, AtFile
<1>2. Control'
  <2>1. Waits' /\ Verdict'
    BY <1>1 DEF Waits, Verdict
  <2>2. Places'
    BY <1>1 DEF HonestInv, Control, Places, AtFile, None
  <2>3. Stages'
    BY <1>1 DEF HonestInv, Control, Stages, AtFile, Swapped, None
  <2>4. QED BY <2>1, <2>2, <2>3 DEF Control
<1>3. Alone'
  <2> SUFFICES ASSUME ~request.whole PROVE Alone'
    BY DEF Alone
  <2>1. /\ job'.at = n
        /\ \A f, g \in Name : file[f].src # None /\ file[g].src # None => f = g
        /\ \A g \in Name \ {n} : file[g].src = None
    BY DEF HonestInv, Disk, Alone, AtFile
  <2>2. \A f \in Name : file'[f].src # None => file[f].src # None
    OBVIOUS
  <2>3. QED BY <2>1, <2>2 DEF Alone
<1>4. Temps'
  <2> SUFFICES ASSUME NEW f \in Name
      PROVE  /\ file'[f].tmp # None => job'.pc \in {"copy", "publish", "swap"} /\ f = job'.at
             /\ file'[f].bak # None => job'.pc \in {"swap", "discard"} /\ f = job'.at
    BY DEF Temps
  <2>1. CASE f = n
    BY <2>1
  <2>2. CASE f # n
    BY <1>1, <2>2 DEF HonestInv, Disk, Temps
  <2>3. QED BY <2>1, <2>2
<1>5. Intact'
  <2> SUFFICES ASSUME Unmoved', NEW f \in Name PROVE Whole(f)'
    BY DEF Intact
  <2>1. ~job.gone /\ Moving /\ ~job'.gone
    BY <1>1 DEF Unmoved
  <2>2. Unmoved
    BY <1>1, <2>1 DEF Unmoved, AtFile
  <2>3. Whole(f)
    BY <2>2 DEF HonestInv, Disk, Intact
  <2>4. CASE f = n
    BY <2>1, <2>4
  <2>5. CASE f # n
    BY <2>3, <2>5 DEF Whole
  <2>6. QED BY <2>4, <2>5
<1>6. Listed'
  <2> SUFFICES ASSUME Copies', NEW f \in Name, file'[f].src = "own"
      PROVE  f \in scan'.left \/ InQueue(f)' \/ Arrived(f)' \/ AtWorker(f)'
    BY DEF Listed
  <2>1. Copies /\ ~job'.skipped /\ ~Moving
    BY <1>1 DEF Copies
  <2>2. CASE f = n
    BY <1>1, <2>1, <2>2 DEF AtWorker
  <2>3. CASE f # n
    <3>1. f \in scan.left \/ InQueue(f) \/ Arrived(f)
      BY <2>1, <2>3 DEF HonestInv, Listing, Listed, AtWorker
    <3>2. Arrived(f) => Arrived(f)'
      BY <1>1, <2>3 DEF Arrived, Copied, AtFile
    <3>3. InQueue(f) => InQueue(f)'
      BY DEF InQueue
    <3>4. QED BY <3>1, <3>2, <3>3
  <2>4. QED BY <2>2, <2>3
<1>7. EndsLast' /\ Drained'
  BY <1>1, StillQueue DEF HonestInv, Listing, Drained, AtFile
<1>8. Finished' /\ Remains'
  BY DEF Finished, Remains, None
<1>9. QED BY <1>2, <1>3, <1>4, <1>5, <1>6, <1>7, <1>8 DEF HonestInv, Disk, Listing

\* Temporary files and backups while the worker is at a file.
LEMMA OtherTemps ==
  ASSUME TransferInv, HonestInv, Going
  PROVE  \A f \in Name \ {job.at} : file[f].tmp = None /\ file[f].bak = None
BY DEF HonestInv, Control, Verdict, Disk, Temps

\* The file at the worker is copied: the listing goes on, or a single one is done.
LEMMA CopiedHonest ==
  ASSUME TransferInv, HonestInv, NEW n \in Name, n = job.at,
         job.pc \in {"publish", "discard"}, ~Removing, job' = After(job),
         UNCHANGED <<request, tree, scan>>, spare'.taken = spare.taken, worker' = "working",
         \A m \in Name \ {n} : file'[m] = file[m],
         file'[n].src = file[n].src,
         file'[n].tmp = None, file'[n].bak = None,
         IF job.into = "stg" THEN file'[n].stg = "new"
                             ELSE "new" \in {file'[n].dst, file'[n].kept}
  PROVE  HonestInv'
<1> USE DEF TransferInv, Types
<1>1. /\ job'.pc = (IF request.whole THEN "list" ELSE "leave") /\ job'.into = job.into
      /\ job'.outcome = (IF request.whole THEN None ELSE "ok")
      /\ job'.skipped = job.skipped /\ job'.gone = job.gone
  BY AfterFields, AfterMore DEF JobType, Same
<1>2. /\ Going /\ ~Moving' = ~Moving /\ job.pc \in AtFile
      /\ file[n].src # None \/ n \in spare.taken
  BY DEF KnowsFile, AtFile, Going, Over, Moving, SourceStays
<1>3. CASE request.whole
  <2>1. Whole(n)'
    BY <1>2 DEF Whole
  <2>2. ~Moving => Arrived(n)'
    BY <1>1, <1>3 DEF Arrived, Copied
  <2>3. QED BY <1>1, <1>2, <1>3, <2>1, <2>2, FileGoesOn DEF Over
<1>4. CASE ~request.whole
  <2>1. job.into = "dst" /\ ~Moving /\ ~job.gone /\ ~tree.stg /\ ~tree.bak
    BY <1>2, <1>4 DEF HonestInv, Control, Places, Stages, Removing, Verdict, None
  <2>2. Finished'
    <3> SUFFICES ASSUME NEW f \in Name, file'[f].src = "own" PROVE Copied(f)'
      BY <1>2, <2>1 DEF Finished
    <3>1. f = n
      BY <1>2, <1>4 DEF HonestInv, Disk, Alone, None
    <3>2. QED BY <2>1, <3>1 DEF Copied
  <2>3. \A f \in Name : /\ file'[f].src # None => file[f].src # None
                        /\ file'[f].tmp = None /\ file'[f].bak = None
    BY <1>2, OtherTemps
  <2>4. QED BY <1>1, <1>4, <2>1, <2>2, <2>3, DoneStep, StillQueue DEF HonestInv, Listing
<1>5. QED BY <1>3, <1>4

\* Its source is gone.
LEMMA GoneHonest ==
  ASSUME TransferInv, HonestInv, NEW n \in Name, n = job.at, job.pc \in {"inner", "remove"},
         job' = After([job EXCEPT !.gone = TRUE]),
         UNCHANGED <<request, tree, scan>>, spare'.taken = spare.taken, worker' = "working",
         \A m \in Name \ {n} : file'[m] = file[m],
         file'[n].src = None, file'[n].tmp = file[n].tmp,
         file'[n].bak = file[n].bak
  PROVE  HonestInv'
<1> USE DEF TransferInv, Types
<1> DEFINE j == [job EXCEPT !.gone = TRUE]
<1>1. /\ job'.pc = (IF request.whole THEN "list" ELSE "leave") /\ job'.into = job.into
      /\ job'.outcome = (IF request.whole THEN None ELSE "ok")
      /\ job'.skipped = job.skipped /\ job'.gone
  <2>1. j \in JobState /\ Same(j) /\ j.gone /\ j.skipped = job.skipped
    BY JobFlags, FlagFields, FlagMore
  <2> HIDE DEF j
  <2>2. job' = After(j)
    BY DEF j
  <2>3. QED BY <2>1, <2>2, AfterFields, AfterMore DEF Same
<1>2. /\ Going /\ job.pc \in AtFile /\ Moving
      /\ job.into # "stg" /\ file[n].tmp = None /\ file[n].bak = None
  <2>1. Going /\ job.pc \in AtFile
    BY DEF KnowsFile, AtFile, Going, Over
  <2>2. Moving /\ job.into # "stg"
    BY DEF HonestInv, Control, Places, Removing, Staged, StagedOnly, Staging
  <2>3. QED BY <2>1, <2>2, NoTemps
<1>3. CASE request.whole
  BY <1>1, <1>2, <1>3, FileGoesOn DEF Over
<1>4. CASE ~request.whole
  <2>1. ~tree.src /\ ~tree.stg /\ ~tree.bak
    BY <1>2, <1>4 DEF HonestInv, Control, Places, Stages
  <2>2. \A f \in Name : file'[f].src = None
    BY <1>2, <1>4 DEF HonestInv, Disk, Alone
  <2>3. Finished'
    BY <1>2, <2>1, <2>2 DEF Finished, Moving, None
  <2>4. \A f \in Name : file'[f].tmp = None /\ file'[f].bak = None
    BY <1>2, OtherTemps
  <2>5. QED BY <1>1, <1>2, <1>4, <2>1, <2>2, <2>3, <2>4, DoneStep, StillQueue DEF HonestInv, Listing
<1>5. QED BY <1>3, <1>4

LEMMA FileHonest == TransferInv /\ HonestInv /\ FileStep => HonestInv'
<1> SUFFICES ASSUME TransferInv, HonestInv, FileStep PROVE HonestInv'
  OBVIOUS
<1> USE DEF TransferInv, Types
<1>1. /\ job.at \in Name /\ job.pc \in AtFile /\ Going
      /\ UNCHANGED <<tree, scan>> /\ spare'.taken = spare.taken
  <2>1. UNCHANGED spare \/ FaultIsSpent
    BY DEF FileStep, Gone, EntryFree, Skip, Replace, KeepBoth, InnerRenames, InnerFree,
         Chunk, LastChunk, CopyFails, Publish, SetAside, Swap, Discard,
         PublishFails, SwapFails, DiscardFails, Remove, RemoveFails
  <2>2. QED BY <2>1, FaultTaken
        DEF FileStep, Gone, EntryFree, Skip, Replace, KeepBoth, InnerRenames, InnerFree,
         Chunk, LastChunk, CopyFails, Publish, SetAside, Swap, Discard,
         PublishFails, SwapFails, DiscardFails, Remove, RemoveFails, Ready, At, KnowsFile, AtFile, disk,
         Going, Over
<1>2. PICK n \in Name : n = job.at
  BY <1>1
<1>3. worker = "working" /\ worker' = "working" /\ UNCHANGED request /\ Moving' = Moving
  BY WorkStays DEF WorkSteps, Moving
<1>4. /\ job.outcome = None /\ EndsLast' /\ file[n] \in FileState
      /\ \A f \in Name \ {n} : file[f].tmp = None /\ file[f].bak = None
  BY <1>1, <1>2, StillQueue, OtherTemps DEF HonestInv, Control, Verdict, Listing, FileType
<1>5. file[n].src # None \/ n \in spare.taken \/ job.pc \in {"entry", "inner", "remove"}
  BY <1>1, <1>2 DEF SourceStays, AtFile
\* The steps that fail.
<1>6. ASSUME NEW error \in {"error", "retained"}, job' = Failed(error),
             \A f \in Name : /\ file'[f].src = file[f].src /\ file'[f].tmp = None
                             /\ "new" \in {file'[f].dst, file'[f].kept, file'[f].stg}
                                  => "new" \in {file[f].dst, file[f].kept, file[f].stg},
             error = "retained" => job.pc = "remove"
      PROVE  HonestInv'
  <2>1. job.pc # "sweep"
    BY <1>1 DEF AtFile
  <2>2. error = "retained" =>
          Moving /\ (request.whole \/ spare.taken # {} \/ \E f \in Name : file[f].src # None)
    <3> HAVE error = "retained"
    <3>1. Moving /\ ("new" \in {file[n].dst, file[n].kept, file[n].stg})
      BY <1>2, <1>6 DEF HonestInv, Control, Places, Removing, CopyDone
    <3>2. CASE ~request.whole
      <4>1. Unmoved
        BY <1>4, <1>6, <3>1, <3>2 DEF HonestInv, Control, Places, Unmoved, None
      <4>2. Whole(n)
        BY <4>1 DEF HonestInv, Disk, Intact
      <4>3. QED BY <3>1, <4>2 DEF Whole
    <3>3. QED BY <3>1, <3>2
  <2>3. QED BY <1>1, <1>3, <1>4, <1>6, <2>1, <2>2, FailStep DEF HonestInv, Listing
<1>7. ASSUME Place("tmp", None)
      PROVE  \A f \in Name : /\ file'[f].tmp = None
                             /\ \A field \in Fields \ {"tmp"} : file'[f][field] = file[f][field]
  <2>1. /\ file'[n].tmp = None
        /\ \A other \in Fields \ {"tmp"} : file'[n][other] = file[n][other]
        /\ \A m \in Name \ {n} : file'[m] = file[m]
    BY <1>2, <1>7, OneChange DEF Place, Fields
  <2>2. QED BY <1>4, <2>1
<1>8. CASE Gone
  <2>1. job' = Failed("error") /\ UNCHANGED file /\ job.pc \in {"entry", "inner"}
    BY <1>8 DEF Gone, Ready, At, disk
  <2>2. QED BY <1>1, <1>6, <2>1, NoTemps
<1>9. CASE CopyFails \/ PublishFails
  <2>1. job' = Failed("error") /\ Place("tmp", None)
    BY <1>9 DEF CopyFails, PublishFails
  <2>2. \A f \in Name : /\ file'[f].src = file[f].src /\ file'[f].tmp = None
                        /\ file'[f].dst = file[f].dst /\ file'[f].kept = file[f].kept
                        /\ file'[f].stg = file[f].stg
    BY <1>7, <2>1 DEF Fields
  <2>3. QED BY <1>6, <2>1, <2>2
<1>10. CASE SwapFails
  <2>1. /\ job' = Failed("error")
        /\ file' = [file EXCEPT ![n].tmp = None, ![n].bak = None, ![n].dst = "old"]
    BY <1>2, <1>10 DEF SwapFails
  <2>2. /\ file'[n].tmp = None /\ file'[n].dst = "old" /\ file'[n].src = file[n].src
        /\ file'[n].kept = file[n].kept /\ file'[n].stg = file[n].stg
        /\ \A m \in Name \ {n} : file'[m] = file[m]
    BY <1>4, <2>1 DEF FileType, FileState
  <2>3. ASSUME NEW f \in Name
        PROVE  /\ file'[f].src = file[f].src /\ file'[f].tmp = None
               /\ "new" \in {file'[f].dst, file'[f].kept, file'[f].stg}
                     => "new" \in {file[f].dst, file[f].kept, file[f].stg}
    <3>1. CASE f = n
      BY <2>2, <3>1
    <3>2. CASE f # n
      BY <1>4, <2>2, <3>2
    <3>3. QED BY <3>1, <3>2
  <2>4. QED BY <1>6, <2>1, <2>3
<1>11. CASE DiscardFails \/ RemoveFails
  <2>1. /\ UNCHANGED file /\ job.pc \in {"discard", "remove"}
        /\ \/ job' = Failed("error")
           \/ job' = Failed("retained") /\ job.pc = "remove"
    BY <1>11 DEF DiscardFails, RemoveFails, At, disk
  <2>2. \A f \in Name : file'[f].tmp = None
    BY <2>1 DEF HonestInv, Disk, Temps
  <2>3. QED BY <1>6, <2>1, <2>2
\* The steps that leave the file alone.
<1>12. ASSUME UNCHANGED file, job.pc \in {"entry", "inner"},
              NEW place \in {"dst", "kept", "stg"}, NEW over \in BOOLEAN, job' = CopyTo(place, over),
              place = "stg" => job.into = "stg", file[n].src # None
       PROVE  HonestInv'
  <2>1. /\ job'.pc = "copy" /\ job'.at = n /\ job'.to = place /\ job'.into = job.into /\ More(job')
    BY <1>2, <1>12, CopyToFields, CopyToMore
  <2>2. file[n].tmp = None /\ file[n].bak = None
    BY <1>1, <1>12, NoTemps
  <2>3. ~job'.gone => ~job.gone /\ (Moving => Whole(n)')
    BY <1>12, <2>1 DEF More, Whole
  <2>4. job'.pc \in AtFile /\ job'.pc \notin Over
    BY <2>1 DEF AtFile, Over
  <2>5. QED BY <1>1, <1>2, <1>3, <1>4, <1>12, <2>1, <2>2, <2>3, <2>4, FileGoesOn DEF More
<1>13. CASE EntryFree
  <2>1. UNCHANGED file /\ job.pc = "entry" /\ job' = CopyTo(job.into, FALSE) /\ file[n].src # None
    BY <1>2, <1>13 DEF EntryFree, Ready, At, Here, disk
  <2>2. job.into \in {"dst", "kept", "stg"}
    BY JobIsTyped
  <2>3. QED BY <1>12, <2>1, <2>2
<1>14. CASE Replace \/ KeepBoth \/ InnerFree
  <2>1. /\ UNCHANGED file /\ job.pc \in {"entry", "inner"} /\ file[n].src # None
        /\ \E place \in {"dst", "kept"}, over \in BOOLEAN : job' = CopyTo(place, over)
    BY <1>2, <1>14 DEF Replace, KeepBoth, InnerFree, Ready, At, Here, disk
  <2>2. QED BY <1>12, <2>1
<1>15. CASE Skip
  <2>1. /\ UNCHANGED file /\ job.pc \in {"entry", "inner"} /\ file[n].src # None
        /\ job' = After([job EXCEPT !.skipped = TRUE]) /\ job.into = "dst"
    BY <1>2, <1>15 DEF Skip, Ready, At, Here, disk, Taken
  <2> DEFINE j == [job EXCEPT !.skipped = TRUE]
  <2>2. j \in JobState /\ Same(j) /\ j.skipped /\ j.gone = job.gone
    BY JobFlags, FlagFields, FlagMore
  <2> HIDE DEF j
  <2>3. /\ job'.pc = (IF request.whole THEN "list" ELSE "leave") /\ job'.into = job.into
        /\ job'.outcome = (IF request.whole THEN None ELSE "ok")
        /\ job'.skipped /\ job'.gone = job.gone
    <3>1. job' = After(j)
      BY <2>1 DEF j
    <3>2. QED BY <2>2, <3>1, AfterFields, AfterMore DEF Same
  <2>4. \A f \in Name : file[f].tmp = None /\ file[f].bak = None
    BY <1>1, <2>1, NoTemps
  <2>5. CASE request.whole
    <3>1. ~job'.gone => ~job.gone /\ (Moving => Whole(n)')
      BY <2>1, <2>3 DEF Whole
    <3>2. job'.pc \notin Over
      BY <2>3, <2>5 DEF Over
    <3>3. QED BY <1>1, <1>2, <1>3, <1>4, <2>1, <2>3, <2>4, <2>5, <3>1, <3>2, FileGoesOn
  <2>6. CASE ~request.whole
    <3>1. ~tree.stg /\ ~tree.bak /\ ~job.gone
      BY <1>4, <2>1, <2>6 DEF HonestInv, Control, Stages, Places, None
    <3>2. Finished'
      BY <2>3 DEF Finished
    <3>3. QED BY <1>1, <1>3, <1>4, <2>1, <2>3, <2>4, <2>6, <3>1, <3>2, DoneStep DEF HonestInv, Listing
  <2>7. QED BY <2>5, <2>6
\* The steps that change it.
<1>16. CASE InnerRenames
  <2>1. PICK place \in {"dst", "kept"} : RenameFile(place) /\ job.pc = "inner"
    BY <1>16 DEF InnerRenames, Ready, At
  <2>2. /\ file'[n].src = None /\ file'[n].tmp = file[n].tmp /\ file'[n].bak = file[n].bak
        /\ \A m \in Name \ {n} : file'[m] = file[m]
    <3>1. /\ file'[n] = [file[n] EXCEPT ![place] = "new", !.src = None]
          /\ \A m \in Name \ {n} : file'[m] = file[m]
      BY <1>2, <2>1 DEF RenameFile, FileType
    <3>2. CASE place = "dst"
      BY <1>4, <3>1, <3>2 DEF FileState
    <3>3. CASE place = "kept"
      BY <1>4, <3>1, <3>3 DEF FileState
    <3>4. QED BY <3>2, <3>3
  <2>3. QED BY <1>1, <1>2, <1>3, <2>1, <2>2, GoneHonest DEF RenameFile
<1>17. CASE Remove
  <2>1. job' = After([job EXCEPT !.gone = TRUE]) /\ job.pc = "remove" /\ Place("src", None)
    BY <1>17 DEF Remove, At
  <2>2. /\ file'[n].src = None /\ file'[n].tmp = file[n].tmp /\ file'[n].bak = file[n].bak
        /\ \A m \in Name \ {n} : file'[m] = file[m]
    BY <1>2, <1>4, <2>1 DEF Place, FileType, FileState
  <2>3. QED BY <1>1, <1>2, <1>3, <2>1, <2>2, GoneHonest
<1>18. ASSUME job'.pc \in {"copy", "publish", "swap", "discard", "remove"}, Same(job'), More(job'),
              job'.pc = "remove" => Removing,
              job'.pc \in {"copy", "publish"} => job.pc = "copy",
              \A m \in Name \ {n} : file'[m] = file[m],
              file'[n].src = file[n].src,
              file'[n].tmp # None => job'.pc \in {"copy", "publish", "swap"},
              file'[n].bak # None => job'.pc \in {"swap", "discard"},
              job.pc \in {"copy", "publish", "swap", "discard"}
       PROVE  HonestInv'
  <2>1. /\ job'.at = n /\ job'.into = job.into /\ job'.to = job.to /\ job'.outcome = None
        /\ job'.gone = job.gone /\ job'.skipped = job.skipped
    BY <1>2, <1>4, <1>18 DEF Same, More
  <2>2. Whole(n)'
    BY <1>1, <1>5, <1>18 DEF Whole
  <2>3. job'.pc \in {"copy", "publish"} /\ job'.to = "stg" => job.into = "stg"
    BY <1>18, <2>1 DEF HonestInv, Control, Places
  <2>4. job'.pc \in AtFile /\ job'.pc \notin Over /\ job'.pc \notin {"list", "inner"}
    BY <1>18 DEF AtFile, Over
  <2>5. QED BY <1>1, <1>2, <1>3, <1>18, <2>1, <2>2, <2>3, <2>4, FileGoesOn
<1>19. ASSUME NEW next \in Steps PROVE Goto(next).pc = next /\ Same(Goto(next)) /\ More(Goto(next))
  BY GotoFields, GotoMore
<1>20. CASE Chunk \/ LastChunk
  <2>1. /\ job.pc = "copy" /\ \E v : Place("tmp", v)
        /\ job' = Goto("copy") \/ job' = Goto("publish")
    BY <1>20 DEF Chunk, LastChunk, Ready, At
  <2>2. job'.pc \in {"copy", "publish"} /\ Same(job') /\ More(job')
    BY <1>19, <2>1 DEF Steps
  <2>3. /\ file'[n].src = file[n].src /\ file'[n].bak = file[n].bak
        /\ \A m \in Name \ {n} : file'[m] = file[m]
    BY <1>2, <2>1, OneChange DEF Place, Fields
  <2>4. file[n].bak = None
    BY <1>2, <1>4, <2>1 DEF HonestInv, Disk, Temps, None
  <2>5. QED BY <1>18, <2>1, <2>2, <2>3, <2>4
<1>21. CASE Publish
  <2>1. job.pc = "publish" /\ file' = [file EXCEPT ![n].tmp = None, ![n][job.to] = "new"]
        /\ job' = IF Removing THEN Goto("remove") ELSE After(job)
    BY <1>2, <1>21 DEF Publish, At
  <2>2. /\ file'[n][job.to] = "new" /\ job.to \in {"dst", "kept", "stg"}
        /\ file'[n].src = file[n].src /\ file'[n].tmp = None /\ file'[n].bak = file[n].bak
        /\ \A m \in Name \ {n} : file'[m] = file[m]
    <3>1. job.to \in {"dst", "kept", "stg"}
      BY JobIsTyped
    <3>2. CASE job.to = "dst"
      BY <1>4, <2>1, <3>2 DEF FileType, FileState
    <3>3. CASE job.to = "kept"
      BY <1>4, <2>1, <3>3 DEF FileType, FileState
    <3>4. CASE job.to = "stg"
      BY <1>4, <2>1, <3>4 DEF FileType, FileState
    <3>5. QED BY <3>1, <3>2, <3>3, <3>4
  <2>3. file[n].bak = None
    BY <1>2, <1>4, <2>1 DEF HonestInv, Disk, Temps, None
  <2>4. job.to = "stg" <=> job.into = "stg"
    BY <1>1, <2>1 DEF HonestInv, Control, Places, Staged, StagedOnly, Staging, Going, Over
  <2>5. CASE Removing
    <3>1. job'.pc = "remove" /\ Same(job') /\ More(job')
      BY <1>19, <2>1, <2>5 DEF Steps
    <3>2. QED BY <1>18, <2>1, <2>2, <2>3, <2>5, <3>1
  <2>6. CASE ~Removing
    BY <1>1, <1>2, <1>3, <2>1, <2>2, <2>3, <2>4, <2>6, CopiedHonest
  <2>7. QED BY <2>5, <2>6
<1>22. CASE SetAside
  <2>1. job.pc = "publish" /\ job'.pc = "swap" /\ Same(job') /\ More(job')
    BY <1>19, <1>22 DEF SetAside, At, Steps
  <2>2. /\ file'[n].src = file[n].src
        /\ \A m \in Name \ {n} : file'[m] = file[m]
    BY <1>2, <1>4, <1>22 DEF SetAside, FileType, FileState
  <2>3. QED BY <1>18, <2>1, <2>2
<1>23. CASE Swap
  <2>1. job.pc = "swap" /\ job'.pc = "discard" /\ Same(job') /\ More(job')
    BY <1>19, <1>23 DEF Swap, At, Steps
  <2>2. /\ file'[n].src = file[n].src /\ file'[n].tmp = None
        /\ \A m \in Name \ {n} : file'[m] = file[m]
    BY <1>2, <1>4, <1>23 DEF Swap, FileType, FileState
  <2>3. QED BY <1>18, <2>1, <2>2
<1>24. CASE Discard
  <2>1. job.pc = "discard" /\ Place("bak", None)
        /\ job' = IF Removing THEN Goto("remove") ELSE After(job)
    BY <1>24 DEF Discard, At
  <2>2. /\ file'[n].bak = None /\ file'[n].src = file[n].src /\ file'[n].tmp = file[n].tmp
        /\ file'[n].dst = file[n].dst
        /\ \A m \in Name \ {n} : file'[m] = file[m]
    BY <1>2, <1>4, <2>1 DEF Place, FileType, FileState
  <2>3. file[n].tmp = None /\ file[n].dst = "new" /\ job.into # "stg"
    BY <1>1, <1>2, <2>1 DEF HonestInv, Disk, Temps, SwapDone, Staged, StagedOnly, Staging, Going, Over
  <2>4. CASE Removing
    <3>1. job'.pc = "remove" /\ Same(job') /\ More(job')
      BY <1>19, <2>1, <2>4 DEF Steps
    <3>2. QED BY <1>18, <2>1, <2>2, <2>3, <2>4, <3>1
  <2>5. CASE ~Removing
    BY <1>1, <1>2, <1>3, <2>1, <2>2, <2>3, <2>5, CopiedHonest
  <2>6. QED BY <2>4, <2>5
<1>25. QED BY <1>8, <1>9, <1>10, <1>11, <1>13, <1>14, <1>15, <1>16, <1>17, <1>20, <1>21, <1>22,
              <1>23, <1>24 DEF FileStep

LEMMA CloseHonest == TransferInv /\ HonestInv /\ CloseStep => HonestInv'
<1> SUFFICES ASSUME TransferInv, HonestInv, CloseStep PROVE HonestInv'
  OBVIOUS
<1> USE DEF TransferInv, Types
<1>1. /\ job.pc \in {"closing", "stageSwap", "stageDiscard", "sweep"} /\ request.whole /\ Going
      /\ job.outcome = None /\ UNCHANGED scan /\ spare'.taken = spare.taken
  <2>1. UNCHANGED spare \/ FaultIsSpent
    BY DEF CloseStep, CloseCopy, CloseMove, CloseMoveFails, StageSetAside, StageSwap,
           StageDiscard, StageFails, Sweep, SweepEnds, SweepFails
  <2>2. /\ job.pc \in {"closing", "stageSwap", "stageDiscard", "sweep"} /\ UNCHANGED scan
    BY DEF CloseStep, CloseCopy, CloseMove, CloseMoveFails, StageSetAside, StageSwap,
           StageDiscard, StageFails, Sweep, SweepEnds, SweepFails, At
  <2>3. QED BY <2>1, <2>2, FaultTaken DEF HonestInv, Control, Places, Verdict, Going, Over
<1>2. worker = "working" /\ worker' = "working" /\ UNCHANGED request /\ Moving' = Moving
  BY WorkStays DEF WorkSteps, Moving
<1>3. EndsLast' /\ \A f \in Name : file[f].tmp = None /\ file[f].bak = None
  BY <1>1, NoTemps, StillQueue DEF HonestInv, Listing
<1>4. ASSUME NEW next \in Steps PROVE Goto(next).pc = next /\ Same(Goto(next)) /\ More(Goto(next))
  BY GotoFields, GotoMore
\* The steps that fail.
<1>5. ASSUME NEW error \in {"error", "retained"}, job' = Failed(error), UNCHANGED file,
             tree'.src = tree.src, tree'.stg => tree.stg, tree'.bak => tree.bak,
             error = "retained" => Moving, job.pc = "sweep" => error = "retained"
      PROVE  HonestInv'
  BY <1>1, <1>2, <1>3, <1>5, FailStep DEF HonestInv, Listing
<1>6. CASE CloseMoveFails \/ SweepFails
  <2>1. job' = Failed("retained") /\ UNCHANGED <<file, tree>> /\ (Removing \/ job.pc = "sweep")
    BY <1>6 DEF CloseMoveFails, SweepFails, disk, At
  <2>2. Moving
    BY <2>1 DEF Removing, HonestInv, Control, Places
  <2>3. QED BY <1>5, <2>1, <2>2
<1>7. CASE StageFails
  <2>1. /\ job' = Failed("error") /\ UNCHANGED file
        /\ tree' = IF job.pc = "stageSwap" THEN [tree EXCEPT !.dst = "file", !.bak = FALSE] ELSE tree
        /\ job.pc # "sweep"
    BY <1>7 DEF StageFails
  <2>2. tree'.src = tree.src /\ tree'.stg = tree.stg /\ (tree'.bak => tree.bak)
    BY <2>1 DEF TreeType, TreeState
  <2>3. QED BY <1>5, <2>1, <2>2
\* The steps that end well.
<1>8. ASSUME job' = Succeeded, UNCHANGED file, tree'.src => tree.src, ~tree'.stg, ~tree'.bak,
             ~job.skipped => IF Moving THEN ~tree'.src /\ Emptied
                                       ELSE \A f \in Name : file[f].src = "own" => Copied(f)
      PROVE  HonestInv'
  <2>1. /\ job'.pc = "leave" /\ job'.outcome = "ok" /\ job'.into = job.into
        /\ job'.skipped = job.skipped /\ job'.gone = job.gone
    BY <1>8, EndFields, EndMore DEF Same
  <2>2. Finished'
    BY <1>2, <1>8, <2>1 DEF Finished, Emptied, Copied, None
  <2>3. job'.gone => Moving /\ job.into # "stg"
    BY <2>1 DEF HonestInv, Control, Places
  <2>4. QED BY <1>2, <1>3, <1>8, <2>1, <2>2, <2>3, DoneStep DEF HonestInv, Listing
\* All that was to be copied has been.
<1>9. ASSUME job.pc \in {"closing", "stageDiscard"}, job.into # "stg" \/ job.pc = "stageDiscard",
             ~Moving, ~job.skipped, NEW f \in Name, file[f].src = "own"
      PROVE  Copied(f)
  <2>1. Copies
    BY <1>1, <1>9 DEF Copies
  <2>2. scan.left = {} /\ scan.queue = <<>>
    BY <1>9 DEF HonestInv, Listing, Drained, Exhausted
  <2>3. ~AtWorker(f)
    BY <1>9 DEF AtWorker, AtFile
  <2>4. ~InQueue(f)
    BY <2>2 DEF InQueue
  <2>5. Arrived(f)
    BY <1>9, <2>1, <2>2, <2>3, <2>4 DEF HonestInv, Listing, Listed
  <2>6. QED BY <1>9, <2>5 DEF Arrived
<1>10. CASE CloseCopy
  <2>1. /\ job' = Succeeded /\ ~Moving /\ job.into # "stg" /\ job.pc = "closing"
        /\ UNCHANGED <<file, tree>>
    BY <1>10 DEF CloseCopy, At, disk
  <2>2. ~tree.stg /\ ~tree.bak
    BY <2>1 DEF HonestInv, Control, Stages
  <2>3. ~job.skipped => \A f \in Name : file[f].src = "own" => Copied(f)
    BY <1>9, <2>1
  <2>4. QED BY <1>8, <2>1, <2>2, <2>3
<1>11. CASE CloseMove
  <2>1. Moving /\ ~tree.stg /\ ~tree.bak /\ UNCHANGED file /\ job.pc = "closing"
    BY <1>11 DEF CloseMove, At, Removing, HonestInv, Control, Stages
  <2>2. CASE tree' = [tree EXCEPT !.src = FALSE] /\ job' = Succeeded /\ Emptied
    <3>1. ~tree'.src /\ ~tree'.stg /\ ~tree'.bak
      BY <2>1, <2>2 DEF TreeType, TreeState
    <3>2. QED BY <1>8, <2>1, <2>2, <3>1
  <2>3. CASE UNCHANGED tree /\ job.skipped /\ job' = Succeeded
    BY <1>8, <2>1, <2>3
  <2>4. CASE UNCHANGED tree /\ job' = Failed("retained")
    BY <1>5, <2>1, <2>4
  <2>5. QED BY <1>11, <2>2, <2>3, <2>4 DEF CloseMove
<1>12. CASE SweepEnds
  <2>1. /\ job.pc = "sweep" /\ Emptied /\ tree' = [tree EXCEPT !.src = FALSE] /\ job' = Succeeded
        /\ UNCHANGED file
    BY <1>12 DEF SweepEnds, At
  <2>2. Moving /\ ~tree.stg /\ ~tree.bak
    BY <2>1 DEF HonestInv, Control, Places, Stages, Swapped
  <2>3. ~tree'.src /\ ~tree'.stg /\ ~tree'.bak
    BY <2>1, <2>2 DEF TreeType, TreeState
  <2>4. QED BY <1>8, <2>1, <2>2, <2>3
\* The steps that go on.
<1>13. ASSUME job'.pc \in {"stageSwap", "stageDiscard", "sweep"}, More(job'), job'.into = job.into,
              job.pc # "sweep", job.into = "stg", job'.pc = "sweep" => Moving,
              tree'.src = tree.src,
              tree'.stg => tree.stg /\ job'.pc = "stageSwap",
              tree'.bak => job'.pc # "sweep",
              \A f \in Name : /\ file'[f].src = file[f].src
                              /\ file'[f].tmp = file[f].tmp /\ file'[f].bak = file[f].bak
                              /\ "new" \in {file'[f].dst, file'[f].kept, file'[f].stg}
                                   => "new" \in {file[f].dst, file[f].kept, file[f].stg},
              ~Moving => /\ job'.pc \in {"stageSwap", "stageDiscard"}
                         /\ \A f \in Name : Arrived(f) => Arrived(f)'
       PROVE  HonestInv'
  <2>1. /\ job'.outcome = None /\ job'.gone = job.gone /\ job'.skipped = job.skipped
        /\ Going' /\ ~job.gone /\ job'.pc \notin AtFile
    BY <1>1, <1>13 DEF More, Going, Over, AtFile, HonestInv, Control, Places
  <2>2. Waits' /\ Verdict' /\ Places' /\ Stages'
    BY <1>1, <1>2, <1>13, <2>1 DEF HonestInv, Control, Waits, Verdict, Places, Stages, Swapped, None
  <2>3. Alone' /\ Temps'
    BY <1>1, <1>2, <1>3, <1>13 DEF Alone, Temps
  <2>4. Intact'
    <3> SUFFICES ASSUME Unmoved', NEW f \in Name PROVE Whole(f)'
      BY DEF Intact
    <3>1. Unmoved
      BY <1>1, <1>2, <1>13, <2>1 DEF Unmoved
    <3>2. Whole(f)
      BY <3>1 DEF HonestInv, Disk, Intact
    <3>3. QED BY <1>1, <1>13, <3>2 DEF Whole
  <2>5. Listed'
    <3> SUFFICES ASSUME Copies', NEW f \in Name, file'[f].src = "own"
        PROVE  f \in scan'.left \/ InQueue(f)' \/ Arrived(f)' \/ AtWorker(f)'
      BY DEF Listed
    <3>1. Copies /\ ~Moving /\ file[f].src = "own"
      BY <1>1, <1>2, <1>13, <2>1 DEF Copies
    <3>2. ~AtWorker(f)
      BY <1>1 DEF AtWorker, AtFile
    <3>3. f \in scan.left \/ InQueue(f) \/ Arrived(f)
      BY <3>1, <3>2 DEF HonestInv, Listing, Listed
    <3>4. InQueue(f) => InQueue(f)'
      BY <1>1 DEF InQueue
    <3>5. QED BY <1>1, <1>13, <3>1, <3>3, <3>4
  <2>6. Drained'
    BY <1>1, <1>2, <1>13 DEF HonestInv, Listing, Drained, Exhausted
  <2>7. Finished' /\ Remains'
    BY <2>1 DEF Finished, Remains, None
  <2>8. QED BY <1>3, <2>2, <2>3, <2>4, <2>5, <2>6, <2>7 DEF HonestInv, Control, Disk, Listing
<1>14. CASE StageSetAside
  <2>1. /\ job.pc = "closing" /\ job.into = "stg" /\ job'.pc = "stageSwap" /\ Same(job') /\ More(job')
        /\ tree' = [tree EXCEPT !.dst = None, !.bak = TRUE] /\ UNCHANGED file
    BY <1>4, <1>14 DEF StageSetAside, At, Steps
  <2>2. tree'.src = tree.src /\ tree'.stg = tree.stg
    BY <2>1 DEF TreeType, TreeState
  <2>3. \A f \in Name : Arrived(f) => Arrived(f)'
    BY <2>1 DEF Arrived, Same
  <2>4. QED BY <1>13, <2>1, <2>2, <2>3 DEF Same
<1>15. CASE StageSwap
  <2>1. /\ job.pc = "stageSwap" /\ job'.pc = "stageDiscard" /\ Same(job') /\ More(job')
        /\ tree' = [tree EXCEPT !.dst = "new", !.stg = FALSE] /\ job.into = "stg"
    BY <1>4, <1>15 DEF StageSwap, At, Steps, Staged, TreeDone
  <2>2. tree'.src = tree.src /\ ~tree'.stg /\ tree'.bak = tree.bak
    BY <2>1 DEF TreeType, TreeState
  <2>3. ASSUME NEW f \in Name
        PROVE  /\ file'[f].src = file[f].src /\ file'[f].dst = file[f].stg /\ file'[f].stg = None
               /\ file'[f].kept = file[f].kept /\ file'[f].tmp = file[f].tmp
               /\ file'[f].bak = file[f].bak
    <3>1. file'[f] = [file[f] EXCEPT !.dst = file[f].stg, !.stg = None]
      BY <1>15 DEF StageSwap
    <3>2. file[f] \in FileState
      BY DEF FileType
    <3>3. QED BY <3>1, <3>2 DEF FileState
  <2>4. \A f \in Name : Arrived(f) => Arrived(f)'
    BY <2>1, <2>3 DEF Arrived, Copied, Same
  <2>5. \A f \in Name : "new" \in {file'[f].dst, file'[f].kept, file'[f].stg}
                          => "new" \in {file[f].dst, file[f].kept, file[f].stg}
    BY <2>3 DEF None
  <2>6. QED BY <1>13, <2>1, <2>2, <2>3, <2>4, <2>5 DEF Same
<1>16. CASE StageDiscard
  <2>1. /\ job.pc = "stageDiscard" /\ UNCHANGED file /\ tree' = [tree EXCEPT !.bak = FALSE]
        /\ job' = (IF Moving THEN Goto("sweep") ELSE Succeeded) /\ job.into = "stg" /\ ~tree.stg
    BY <1>16 DEF StageDiscard, At, Staged, TreeDone, HonestInv, Control, Stages, Swapped
  <2>2. tree'.src = tree.src /\ ~tree'.stg /\ ~tree'.bak
    BY <2>1 DEF TreeType, TreeState
  <2>3. CASE Moving
    <3>1. job'.pc = "sweep" /\ Same(job') /\ More(job')
      BY <1>4, <2>1, <2>3 DEF Steps
    <3>2. QED BY <1>13, <2>1, <2>2, <2>3, <3>1 DEF Same
  <2>4. CASE ~Moving
    <3>1. ~job.skipped => \A f \in Name : file[f].src = "own" => Copied(f)
      BY <1>9, <2>1, <2>4
    <3>2. QED BY <1>8, <2>1, <2>2, <2>4, <3>1
  <2>5. QED BY <2>3, <2>4
<1>17. CASE Sweep
  <2>1. PICK f \in job.seen : /\ file' = [file EXCEPT ![f].src = None]
                              /\ job' = [job EXCEPT !.seen = @ \ {f}] /\ UNCHANGED tree
    BY <1>17 DEF Sweep
  <2>2. job.pc = "sweep" /\ job'.pc = "sweep" /\ job'.into = job.into /\ More(job')
    BY <1>17, <2>1 DEF Sweep, At, JobType, JobState, More
  <2>3. f \in Name
    BY JobIsTyped
  <2>4. \A g \in Name : file'[g].tmp = file[g].tmp /\ file'[g].bak = file[g].bak
    BY <2>1, <2>3 DEF FileType, FileState
  <2>5. Control'
    BY <1>1, <1>2, <2>1, <2>2
       DEF HonestInv, Control, Waits, Verdict, Places, Stages, Swapped, More, Going
  <2>6. Disk'
    BY <1>1, <1>2, <1>3, <2>2, <2>4 DEF Disk, Alone, Temps, Intact, Unmoved
  <2>7. Listed' /\ Drained' /\ Finished' /\ Remains'
    <3>1. Moving' /\ job'.outcome = None
      BY <1>1, <1>2, <2>2 DEF HonestInv, Control, Places, More
    <3>2. QED BY <2>2, <3>1 DEF Listed, Copies, Drained, Finished, Remains, None
  <2>8. QED BY <1>3, <2>5, <2>6, <2>7 DEF HonestInv, Listing
<1>18. QED BY <1>6, <1>7, <1>10, <1>11, <1>12, <1>14, <1>15, <1>16, <1>17 DEF CloseStep

LEMMA WaitHonest ==
  TransferInv /\ HonestInv
    /\ (CallFails \/ Leave \/ Enter \/ CheckPasses \/ CheckStops \/ TokenStep) => HonestInv'
<1> SUFFICES ASSUME TransferInv, HonestInv,
                    CallFails \/ Leave \/ Enter \/ CheckPasses \/ CheckStops \/ TokenStep
    PROVE HonestInv'
  OBVIOUS
<1> USE DEF TransferInv, Types
<1>1. CASE CallFails
  <2>1. /\ job.pc \in {"start", "list", "skipping", "entry", "inner"} /\ job' = Failed("error")
        /\ UNCHANGED <<file, tree, scan>> /\ FaultIsSpent
    BY <1>1 DEF CallFails, disk
  <2>2. worker = "working" /\ worker' = "working" /\ UNCHANGED request
    BY <1>1, WorkStays DEF WorkSteps
  <2>3. Going /\ spare'.taken = spare.taken /\ \A f \in Name : file[f].tmp = None
    BY <2>1, FaultTaken, NoTemps DEF Going, Over
  <2>4. QED BY <2>1, <2>2, <2>3, FailStep, StillQueue DEF HonestInv, Listing
<1>2. CASE Leave
  <2>1. /\ job.pc = "leave" /\ job'.pc \in {"leave", "ended"} /\ Same(job') /\ More(job')
        /\ UNCHANGED <<request, file, tree, spare>> /\ worker' \in {"working", "ended"}
    BY <1>2 DEF Leave, disk, JobType, JobState, Same, More
  <2>2. Moving' = Moving /\ Removing' = Removing
    BY <2>1 DEF Moving, Removing, Same
  <2>3. Control'
    BY <2>1, <2>2
       DEF HonestInv, Control, Waits, Verdict, Places, Stages, Swapped, Going, Over, Same, More
  <2>4. Alone' /\ Temps'
    BY <2>1 DEF HonestInv, Disk, Alone, Temps, AtFile, Same, More
  <2>5. Intact'
    BY <2>1, <2>2 DEF HonestInv, Disk, Intact, Unmoved, Whole, More
  <2>6. EndsLast'
    <3>1. CASE UNCHANGED scan
      BY <3>1, StillQueue DEF HonestInv, Listing
    <3>2. CASE scan' = [scan EXCEPT !.open = FALSE, !.queue = <<>>]
      <4>1. scan'.queue = <<>>
        BY <3>2 DEF ScanType, ScanState
      <4>2. QED BY <4>1 DEF EndsLast
    <3>3. QED BY <1>2, <3>1, <3>2 DEF Leave
  <2>7. Listed' /\ Drained' /\ Finished' /\ Remains'
    BY <2>1, <2>2 DEF HonestInv, Listed, Copies, Going, Over, Drained, Finished, Remains, Copied, More
  <2>8. QED BY <2>3, <2>4, <2>5, <2>6, <2>7 DEF HonestInv, Disk, Listing
\* The worker waits at a check point only, and goes on from it as it came.
<1>3. CASE Enter \/ CheckPasses \/ TokenStep
  <2>1. /\ UNCHANGED <<request, file, tree, spare, scan>>
        /\ job'.pc = job.pc /\ Same(job') /\ More(job')
    BY <1>3, FlagFields, FlagMore DEF Enter, CheckPasses, TokenStep, transferVars, disk, Same, More
  <2>2. Waits'
    <3>1. CASE Enter \/ CheckPasses
      BY <2>1, <3>1 DEF Enter, CheckPasses, Waits
    <3>2. CASE TokenStep
      <4>1. worker' \notin {"working", "ended"} => worker \notin {"working", "ended"}
        BY <3>2 DEF TokenStep, UiStep, Pause, Resume, Cancel, NotifyCancel, Notified, TestAndPark,
                    TestAndLeave, Sleep, SpuriousWake, Relock
      <4>2. QED BY <2>1, <4>1 DEF HonestInv, Control, Waits
    <3>3. QED BY <1>3, <3>1, <3>2
  <2>3. Moving' = Moving /\ Removing' = Removing /\ Going' = Going
    BY <2>1 DEF Moving, Removing, Same, Going
  <2>4. Verdict' /\ Places' /\ Stages'
    BY <2>1, <2>3 DEF HonestInv, Control, Verdict, Places, Stages, Same, More
  <2>5. Disk'
    BY <2>1, <2>3 DEF HonestInv, Disk, Alone, Temps, Intact, Unmoved, Whole, Same, More
  <2>6. Listing'
    BY <2>1, <2>3, StillQueue
       DEF HonestInv, Listing, Listed, Copies, InQueue, Arrived, Copied, AtWorker, Drained, Exhausted,
           Same, More
  <2>7. Finished' /\ Remains'
    BY <2>1, <2>3 DEF HonestInv, Finished, Remains, Copied, More
  <2>8. QED BY <2>2, <2>4, <2>5, <2>6, <2>7 DEF HonestInv, Control
<1>4. CASE CheckStops
  <2>1. /\ worker = "left" /\ worker' = "ended" /\ job' = Failed("cancelled")
        /\ UNCHANGED <<request, tree, scan, spare>>
    BY <1>4 DEF CheckStops, CheckCancel
  <2>2. job.pc \in CheckPoints
    BY <2>1 DEF HonestInv, Control, Waits
  <2>3. Going /\ job.pc # "sweep"
    BY <2>2 DEF CheckPoints, Going, Over
  <2>4. \A f \in Name : /\ file'[f].src = file[f].src /\ file'[f].tmp = None
                        /\ file'[f].dst = file[f].dst /\ file'[f].kept = file[f].kept
                        /\ file'[f].stg = file[f].stg
    <3>1. CASE job.pc = "copy"
      <4>1. job.at \in Name /\ Place("tmp", None)
        BY <1>4, <3>1 DEF CheckStops, KnowsFile, AtFile
      <4>2. /\ file'[job.at].tmp = None
            /\ \A other \in Fields \ {"tmp"} : file'[job.at][other] = file[job.at][other]
            /\ \A m \in Name \ {job.at} : file'[m] = file[m]
        BY <4>1, OneChange DEF Place, Fields
      <4>3. \A m \in Name \ {job.at} : file[m].tmp = None
        BY <2>3, OtherTemps
      <4>4. QED BY <4>2, <4>3 DEF Fields
    <3>2. CASE job.pc # "copy"
      <4>1. UNCHANGED file
        BY <1>4, <3>2 DEF CheckStops
      <4>2. \A f \in Name : file[f].tmp = None
        BY <2>2, <2>3, <3>2, NoTemps DEF CheckPoints
      <4>3. QED BY <4>1, <4>2
    <3>3. QED BY <3>1, <3>2
  <2>5. QED BY <2>1, <2>3, <2>4, FailStep, StillQueue DEF HonestInv, Listing
<1>5. QED BY <1>1, <1>2, <1>3, <1>4

\* What the scanner sends comes last.
LEMMA SentListed ==
  ASSUME ScanType, scan.state = "listing", EndsLast, NEW entry \in Entry, NEW next \in ScanState,
         Send(entry, next), next.queue = scan.queue, next.left \subseteq scan.left,
         entry = "end" => next.state = "ended" /\ next.left = {}
  PROVE  /\ EndsLast' /\ (scan.left \subseteq scan'.left \/ scan'.left = next.left)
         /\ \A f : InQueue(f) => InQueue(f)'
         /\ scan'.left # scan.left => InQueue(entry)'
<1>1. CASE scan.open
  <2>1. scan' = [next EXCEPT !.queue = Append(@, entry)]
    BY <1>1 DEF Send
  <2>2. /\ scan'.queue = Append(scan.queue, entry) /\ scan'.left = next.left
        /\ scan'.state = next.state /\ scan.queue \in Seq(Entry)
    BY <2>1 DEF ScanType, ScanState
  <2>3. /\ Len(scan'.queue) = Len(scan.queue) + 1 /\ Len(scan.queue) \in Nat
        /\ scan'.queue[Len(scan'.queue)] = entry
        /\ \A i \in 1..Len(scan.queue) : scan'.queue[i] = scan.queue[i]
    BY <2>2
  <2>4. \A i \in 1..Len(scan.queue) : scan.queue[i] # "end"
    BY DEF EndsLast, Exhausted
  <2>5. EndsLast'
    BY <2>2, <2>3, <2>4 DEF EndsLast, Exhausted
  <2>6. \A f : InQueue(f) => InQueue(f)'
    BY <2>3 DEF InQueue
  <2>7. InQueue(entry)'
    BY <2>3 DEF InQueue
  <2>8. QED BY <2>2, <2>5, <2>6, <2>7
<1>2. CASE ~scan.open
  <2>1. scan' = [scan EXCEPT !.state = "ended"]
    BY <1>2 DEF Send
  <2>2. scan'.queue = scan.queue /\ scan'.left = scan.left
    BY <2>1 DEF ScanType, ScanState
  <2>3. EndsLast'
    BY <2>2 DEF EndsLast, Exhausted
  <2>4. QED BY <2>2, <2>3 DEF InQueue
<1>3. QED BY <1>1, <1>2

LEMMA ScanHonest == TransferInv /\ HonestInv /\ ScanStep => HonestInv'
<1> SUFFICES ASSUME TransferInv, HonestInv, ScanStep PROVE HonestInv'
  OBVIOUS
<1> USE DEF TransferInv, Types
<1>1. scan.state = "listing" /\ UNCHANGED <<worker, request, file, tree, job, spare>>
  BY DEF ScanStep, ScanFile, ScanEnds, ScanCancelled, Send, disk, vars
<1>2. scan \in ScanState
  BY DEF ScanType
<1>3. /\ EndsLast' /\ \A f : InQueue(f) => InQueue(f)'
      /\ \A f \in scan.left : f \in scan'.left \/ InQueue(f)' \/ file[f].src = None
  <2>1. CASE ScanFile
    <3>1. PICK f \in scan.left :
            IF file[f].src = None THEN Send("error", [scan EXCEPT !.left = @ \ {f}])
                                  ELSE Send(f, [scan EXCEPT !.left = @ \ {f}])
      BY <2>1 DEF ScanFile
    <3> DEFINE next == [scan EXCEPT !.left = @ \ {f}]
    <3>2. /\ next \in ScanState /\ next.queue = scan.queue /\ next.left = scan.left \ {f}
          /\ f \in Name
      BY <1>2 DEF ScanState
    <3> HIDE DEF next
    <3>3. f \in Entry /\ "error" \in Entry /\ f # "end"
      BY <3>2, TransferAssumption DEF Entry
    <3>4. CASE file[f].src = None
      <4>1. Send("error", next)
        BY <3>1, <3>4 DEF next
      <4>2. QED BY <1>1, <3>2, <3>3, <3>4, <4>1, SentListed DEF HonestInv, Listing
    <3>5. CASE file[f].src # None
      <4>1. Send(f, next)
        BY <3>1, <3>5 DEF next
      <4>2. QED BY <1>1, <3>2, <3>3, <4>1, SentListed DEF HonestInv, Listing
    <3>6. QED BY <3>4, <3>5
  <2>2. CASE ScanEnds /\ request.whole
    <3>1. Send("end", [scan EXCEPT !.state = "ended"]) /\ scan.left = {}
      BY <2>2 DEF ScanEnds
    <3> DEFINE next == [scan EXCEPT !.state = "ended"]
    <3>2. /\ next \in ScanState /\ next.queue = scan.queue /\ next.left = scan.left
          /\ next.state = "ended" /\ "end" \in Entry
      BY <1>2 DEF ScanState, Entry
    <3> HIDE DEF next
    <3>3. Send("end", next)
      BY <3>1 DEF next
    <3>4. QED BY <1>1, <3>1, <3>2, <3>3, SentListed DEF HonestInv, Listing
  <2>3. CASE ScanEnds /\ ~request.whole
    <3>1. scan' = [scan EXCEPT !.state = "ended"]
      BY <2>3 DEF ScanEnds
    <3>2. scan'.queue = scan.queue /\ scan'.left = scan.left
      BY <1>2, <3>1 DEF ScanState
    <3>3. QED BY <1>1, <3>2 DEF HonestInv, Listing, EndsLast, Exhausted, InQueue
  <2>4. CASE ScanCancelled
    <3>1. Send("stopped", [scan EXCEPT !.state = "ended"])
      BY <2>4 DEF ScanCancelled
    <3> DEFINE next == [scan EXCEPT !.state = "ended"]
    <3>2. next \in ScanState /\ next.queue = scan.queue /\ next.left = scan.left /\ "stopped" \in Entry
      BY <1>2 DEF ScanState, Entry
    <3> HIDE DEF next
    <3>3. Send("stopped", next)
      BY <3>1 DEF next
    <3>4. QED BY <1>1, <3>2, <3>3, SentListed DEF HonestInv, Listing
  <2>5. QED BY <2>1, <2>2, <2>3, <2>4 DEF ScanStep
<1>4. Control' /\ Disk' /\ Finished' /\ Remains'
  BY <1>1 DEF HonestInv, Control, Waits, Verdict, Places, Stages, Disk, Alone, Temps, Intact, Unmoved,
              Whole, Finished, Remains, Going, Moving, Removing, Copied
<1>5. Listed'
  BY <1>1, <1>3 DEF HonestInv, Listing, Listed, Copies, Going, Moving, Arrived, Copied, AtWorker, None
<1>6. Drained'
  BY <1>1 DEF HonestInv, Listing, Drained, Exhausted, Moving
<1>7. QED BY <1>3, <1>4, <1>5, <1>6 DEF HonestInv, Listing

LEMMA OthersHonest == TransferInv /\ HonestInv /\ Others => HonestInv'
<1> SUFFICES ASSUME TransferInv, HonestInv, Others PROVE HonestInv'
  OBVIOUS
<1> USE DEF TransferInv, Types
<1>1. PICK f \in Name : AddFile(f) \/ TakeFile(f)
  BY DEF Others
<1>2. UNCHANGED <<worker, request, tree, job>> /\ job.pc # "ended"
  BY <1>1 DEF AddFile, TakeFile, vars
<1>3. /\ \A other \in Fields \ {"src"} : file'[f][other] = file[f][other]
      /\ \A m \in Name \ {f} : file'[m] = file[m]
  <2>1. \E v : file' = [file EXCEPT ![f].src = v]
    BY <1>1 DEF AddFile, TakeFile
  <2>2. QED BY <2>1, OneChange DEF Fields
<1>4. \/ /\ file'[f].src = "late" /\ spare'.taken = spare.taken /\ tree.src /\ request.whole
      \/ /\ file[f].src # None /\ file'[f].src = None
         /\ f \in spare'.taken /\ spare.taken \subseteq spare'.taken
  <2>1. CASE AddFile(f)
    BY <2>1, OneChange DEF AddFile, Spend, SpareType, SpareState, FileType, FileState
  <2>2. CASE TakeFile(f)
    BY <2>2 DEF TakeFile, SpareType, SpareState, FileType, FileState
  <2>3. QED BY <1>1, <2>1, <2>2
<1>5. \A g \in Name : /\ file'[g].dst = file[g].dst /\ file'[g].kept = file[g].kept
                      /\ file'[g].stg = file[g].stg /\ file'[g].tmp = file[g].tmp
                      /\ file'[g].bak = file[g].bak
                      /\ file'[g].src = "own" => file[g].src = "own"
                      /\ file'[g].src = None => file[g].src = None \/ g \in spare'.taken
  BY <1>3, <1>4 DEF Fields, None
<1>6. /\ scan'.queue = scan.queue /\ scan'.state = scan.state /\ scan.left \subseteq scan'.left
      /\ scan.state = "ended" => scan'.left = scan.left
  BY <1>1 DEF AddFile, TakeFile, ScanType, ScanState
<1>7. Control'
  BY <1>2 DEF HonestInv, Control, Waits, Verdict, Places, Stages, Going, Moving, Removing
<1>8. Alone'
  BY <1>2, <1>3, <1>4 DEF HonestInv, Disk, Alone
<1>9. Temps' /\ Intact'
  <2>1. Temps'
    BY <1>2, <1>5 DEF HonestInv, Disk, Temps
  <2>2. Intact'
    BY <1>2, <1>4, <1>5 DEF HonestInv, Disk, Intact, Unmoved, Whole, Moving
  <2>3. QED BY <2>1, <2>2
<1>10. EndsLast' /\ Drained'
  BY <1>2, <1>6 DEF HonestInv, Listing, EndsLast, Drained, Exhausted, Moving
<1>11. Listed'
  BY <1>2, <1>5, <1>6 DEF HonestInv, Listing, Listed, Copies, Going, Moving, InQueue, Arrived, Copied,
                          AtWorker
<1>12. Finished'
  BY <1>2, <1>5 DEF HonestInv, Finished, Copied, Moving
<1>13. Remains'
  <2> SUFFICES ASSUME job.outcome = "retained"
      PROVE  Moving /\ (tree.src \/ spare'.taken # {} \/ \E g \in Name : file'[g].src # None)
    BY <1>2 DEF Remains, Moving
  <2>1. Moving /\ (tree.src \/ spare.taken # {} \/ \E g \in Name : file[g].src # None)
    BY DEF HonestInv, Remains
  <2>2. QED BY <1>4, <1>5, <2>1
<1>14. QED BY <1>7, <1>8, <1>9, <1>10, <1>11, <1>12, <1>13 DEF HonestInv, Disk, Listing

LEMMA HonestStep == TransferInv /\ HonestInv /\ [TransferNext]_allVars => HonestInv'
<1>1. HonestInv /\ UNCHANGED allVars => HonestInv'
  <2> SUFFICES ASSUME HonestInv, UNCHANGED allVars PROVE HonestInv'
    OBVIOUS
  <2>1. UNCHANGED <<worker, request, file, tree, job, scan, spare>>
    BY DEF allVars, vars, transferVars
  <2>2. QED BY <2>1 DEF HonestInv, Control, Waits, Verdict, Places, Stages, Disk, Alone, Temps, Intact,
                  Unmoved, Whole, Listing, Listed, Copies, Arrived, InQueue, AtWorker, EndsLast, Drained,
                  Exhausted, Finished, Remains, Going, Moving, Removing, Copied
<1>2. QED BY <1>1, RootHonest, ListHonest, FileHonest, CloseHonest, WaitHonest, ScanHonest, OthersHonest
          DEF TransferNext

LEMMA InitHonest == TransferInit => HonestInv
<1> SUFFICES ASSUME TransferInit PROVE HonestInv
  OBVIOUS
<1>1. /\ job.pc = "start" /\ job.into = "dst" /\ ~job.gone /\ job.outcome = None
      /\ worker = "working" /\ tree.src = request.whole /\ ~tree.stg /\ ~tree.bak
      /\ scan.queue = <<>>
  <2>1. worker = "working" /\ scan.queue = <<>>
    BY DEF TransferInit, Init
  <2>2. job.pc = "start" /\ job.into = "dst" /\ ~job.gone /\ job.outcome = None
    BY DEF TransferInit
  <2>3. tree \in FirstTrees(request.whole)
    BY DEF TransferInit
  <2>4. tree.src = request.whole /\ tree.stg = FALSE /\ tree.bak = FALSE
    BY <2>3 DEF FirstTrees
  <2>5. QED BY <2>1, <2>2, <2>4
<1>2. \A f \in Name : /\ file[f].tmp = None /\ file[f].bak = None /\ file[f].dst \in {None, "old"}
                      /\ file[f].kept = None /\ file[f].stg = None /\ file[f].src \in {None, "own"}
  <2> SUFFICES ASSUME NEW f \in Name
      PROVE  /\ file[f].tmp = None /\ file[f].bak = None /\ file[f].dst \in {None, "old"}
             /\ file[f].kept = None /\ file[f].stg = None /\ file[f].src \in {None, "own"}
    OBVIOUS
  <2>1. PICK s \in {None, "own"}, d \in {None, "old"} : file[f] = [Blank EXCEPT !.src = s, !.dst = d]
    BY DEF TransferInit
  <2>2. QED BY <2>1 DEF Blank
<1>3. Control
  BY <1>1 DEF Control, Waits, Verdict, Places, Stages, Going, Over, Swapped, None
<1>4. Alone
  <2> SUFFICES ASSUME ~request.whole, NEW f \in Name, NEW g \in Name,
                      file[f].src # None, file[g].src # None
      PROVE f = g
    BY <1>1 DEF Alone, AtFile
  <2> DEFINE Own == {n \in Name : file[n].src = "own"}
  <2>1. Cardinality(Own) = 1
    BY DEF TransferInit
  <2>2. IsFiniteSet(Own)
    BY TransferAssumption, FS_Subset
  <2>3. PICK n : Own = {n}
    BY <2>1, <2>2, FS_CardinalityType, FS_Singleton
  <2>4. f \in Own /\ g \in Own
    BY <1>2
  <2>5. QED BY <2>3, <2>4
<1>5. Temps /\ Intact
  BY <1>1, <1>2 DEF Temps, Intact, Whole, None
<1>6. Listed
  <2> SUFFICES ASSUME Copies, NEW f \in Name, file[f].src = "own" PROVE f \in scan.left
    BY DEF Listed
  <2>1. request.kind = "copy" /\ request.whole
    BY DEF Copies, Moving, TransferInit, Requests
  <2>2. QED BY <2>1 DEF TransferInit
<1>7. EndsLast /\ Drained
  BY <1>1 DEF EndsLast, Drained
<1>8. QED BY <1>1, <1>3, <1>4, <1>5, <1>6, <1>7 DEF HonestInv, Disk, Listing, Finished, Remains, None

\* What the transfer says is what it did, for any files, faults, changes and pauses.
THEOREM OutcomeIsTrue == TransferSpec => []OutcomeTrue
<1>1. HonestInv => OutcomeTrue
  <2> SUFFICES ASSUME HonestInv, job.pc = "ended" PROVE OutcomeTrue
    BY DEF OutcomeTrue
  <2>1. job.outcome # None
    BY DEF HonestInv, Control, Verdict, Going, Over
  <2>2. job.outcome = "ok" =>
          ~tree.stg /\ ~tree.bak /\ \A f \in Name : file[f].tmp = None /\ file[f].bak = None
    BY DEF HonestInv, Control, Stages, Disk, Temps
  <2>3. Moving /\ job.outcome \in {"error", "cancelled"} => \A f \in Name : Untouched(f)
    <3> SUFFICES ASSUME Moving, job.outcome \in {"error", "cancelled"}, NEW f \in Name
        PROVE Untouched(f)
      OBVIOUS
    <3>1. Unmoved
      BY DEF HonestInv, Control, Places, Unmoved
    <3>2. Whole(f)
      BY <3>1 DEF HonestInv, Disk, Intact
    <3>3. QED BY <3>2 DEF Whole, Untouched, Copied
  <2>4. QED BY <2>1, <2>2, <2>3 DEF OutcomeTrue, HonestInv, Finished, Remains
<1>2. TransferInv /\ HonestInv /\ [TransferNext]_allVars => TransferInv' /\ HonestInv'
  BY LosslessStep, HonestStep
<1>3. TransferInit => TransferInv
  BY InitLossless
<1>4. QED BY <1>1, <1>2, <1>3, InitHonest, PTL DEF TransferSpec
===============================================================================
