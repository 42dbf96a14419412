--------------------------- MODULE NetworkDownload ---------------------------
(***************************************************************************)
(* Download of one file from a network share, as                           *)
(* windows/network_copy/download.rs does it inside the copy helper: the    *)
(* copying thread asks for the version of the source, reads it stream by   *)
(* stream through threads of their own, writes the blocks it receives to a *)
(* new local file, and asks for the version again before it keeps the      *)
(* file.  A thread blocked in a call to the server cannot be stopped: it   *)
(* is abandoned with its read permit (read_control.rs), and another one    *)
(* continues where the writing stopped.                                    *)
(*                                                                         *)
(* A worker is named after the permit it holds.  A block is what one read  *)
(* returns; a version is one content of the source.                        *)
(***************************************************************************)
EXTENDS Integers, Sequences

CONSTANTS
  Sizes,         \* blocks in each data stream of the source
  Slots,         \* read permits
  MaxVersions,   \* bound: contents the source has
  MaxFaults,     \* bound: network errors and time-outs
  MaxPauses      \* bound: how often the user pauses

ASSUME SizesAssumption == Sizes \in Seq(Nat) /\ Sizes # <<>>
ASSUME BoundsAssumption ==
  Slots \in Nat \ {0} /\ MaxVersions \in Nat \ {0} /\ MaxFaults \in Nat /\ MaxPauses \in Nat

VARIABLES
  cancelled, paused, acked,   \* the token of the operation (see PauseToken)
  waiting,     \* how far the copying thread is in wait_if_paused; "no": not in it
  version,     \* the content of the source
  workers,     \* by permit: the query or read thread that holds it
  at,          \* where the copying thread is
  phase,       \* "before", "copying" or "after" the streams
  stream,      \* the stream being copied
  expected,    \* the version found first; 0: none yet
  current,     \* the worker whose channel the copying thread listens to; 0: none
  block,       \* the block about to be written
  data,        \* by stream: the blocks written to the destination
  pauses, faults

token == <<cancelled, paused, acked, waiting>>
copier == <<at, phase, stream, expected, current, block>>
vars == <<token, version, workers, copier, data, pauses, faults>>

Permits == 1..Slots
Streams == DOMAIN Sizes
Ended == {"copied", "failed", "cancelled"}

\* What a worker sends: a version, a block, "finished", or an error.
Letter(type, s, offset, v) == [type |-> type, stream |-> s, offset |-> offset, version |-> v]
NoLetter == Letter("none", 0, 0, 0)
Message(type) == Letter(type, 0, 0, 0)

Idle == [at |-> "idle", reads |-> FALSE, stream |-> 0, offset |-> 0, live |-> FALSE,
         holds |-> FALSE, letter |-> NoLetter, mail |-> NoLetter]

Init ==
  /\ cancelled = FALSE /\ paused = FALSE /\ acked = FALSE /\ waiting = "no"
  /\ version = 1
  /\ workers = [w \in Permits |-> Idle]
  /\ at = "acquire" /\ phase = "before" /\ stream = 1 /\ expected = 0
  /\ current = 0 /\ block = NoLetter
  /\ data = [s \in Streams |-> <<>>]
  /\ pauses = 0 /\ faults = 0

\* SourceVersion::same_content.
SameContent(a, b) == a = b

-----------------------------------------------------------------------------
(* The user, through the helper's monitor thread.  Pausing and resuming take *)
(* the mutex, which the copying thread keeps from its look at the flag until  *)
(* it sleeps ("parking"); cancelling does not.  A notification reaches a      *)
(* thread that sleeps, and no other.                                          *)

Notified == IF waiting = "asleep" THEN "woken" ELSE waiting

Pause ==
  /\ ~cancelled /\ ~paused /\ waiting # "parking" /\ pauses < MaxPauses
  /\ paused' = TRUE /\ acked' = FALSE /\ pauses' = pauses + 1
  /\ UNCHANGED <<cancelled, waiting, version, workers, copier, data, faults>>

\* Mutant: the acknowledgement outlives the pause.
ResumeKeepingAck ==
  /\ ~cancelled /\ paused /\ waiting # "parking"
  /\ paused' = FALSE /\ waiting' = Notified
  /\ UNCHANGED <<cancelled, acked, version, workers, copier, data, pauses, faults>>

Resume ==
  /\ ~cancelled /\ paused /\ waiting # "parking"
  /\ paused' = FALSE /\ acked' = FALSE /\ waiting' = Notified
  /\ UNCHANGED <<cancelled, version, workers, copier, data, pauses, faults>>

Cancel ==
  /\ ~cancelled
  /\ cancelled' = TRUE /\ waiting' = Notified
  /\ UNCHANGED <<paused, acked, version, workers, copier, data, pauses, faults>>

(* The server.  An open handle shares reading only.                        *)

SourceChanges ==
  /\ version < MaxVersions
  /\ \A w \in Permits : ~workers[w].holds
  /\ version' = version + 1
  /\ UNCHANGED <<token, workers, copier, data, pauses, faults>>

-----------------------------------------------------------------------------
(* Worker threads.                                                          *)

Works(w, r) ==
  /\ workers' = [workers EXCEPT ![w] = r]
  /\ UNCHANGED <<token, version, copier, data, pauses>>

\* The query thread of copy_query.
Answer(w) ==
  /\ workers[w].at = "open" /\ ~workers[w].reads
  /\ Works(w, [workers[w] EXCEPT !.at = "send", !.letter = Letter("version", 0, 0, version)])
  /\ UNCHANGED faults

\* Mutant: what is opened is not compared with the version found first.
OpenUnchecked(w) ==
  /\ workers[w].at = "open" /\ workers[w].reads
  /\ Works(w, [workers[w] EXCEPT !.at = "read", !.holds = TRUE])
  /\ UNCHANGED faults

\* Source::open; the thread may have been abandoned meanwhile.
Open(w) ==
  /\ workers[w].at = "open" /\ workers[w].reads
  /\ Works(w, IF SameContent(version, expected)
              THEN [workers[w] EXCEPT !.at = "read", !.holds = TRUE]
              ELSE [workers[w] EXCEPT !.at = "send", !.letter = Message("fatal")])
  /\ UNCHANGED faults

Read(w) ==
  /\ workers[w].at = "read" /\ workers[w].live /\ workers[w].holds
  /\ workers[w].offset < Sizes[workers[w].stream]
  /\ Works(w, [workers[w] EXCEPT !.at = "send", !.offset = @ + 1,
                 !.letter = Letter("block", workers[w].stream, workers[w].offset, version)])
  /\ UNCHANGED faults

\* validate, and the version behind the path, once all was read.
Validate(w) ==
  /\ workers[w].at = "read" /\ workers[w].live /\ workers[w].holds
  /\ workers[w].offset = Sizes[workers[w].stream]
  /\ Works(w, [workers[w] EXCEPT !.at = "send",
                 !.letter = Message(IF SameContent(version, expected) THEN "finished" ELSE "fatal")])
  /\ UNCHANGED faults

\* The server answers with an error, of a kind copy_query and copy_stream retry or not.
Fail(w, type) ==
  /\ workers[w].at \in {"open", "read"} /\ faults < MaxFaults
  /\ Works(w, [workers[w] EXCEPT !.at = "send", !.holds = FALSE, !.letter = Message(type)])
  /\ faults' = faults + 1

\* The server loses a handle: the source is no longer protected, the next read fails.
HandleLost(w) ==
  /\ workers[w].holds /\ faults < MaxFaults
  /\ Works(w, [workers[w] EXCEPT !.holds = FALSE])
  /\ faults' = faults + 1

ReadLost(w) ==
  /\ workers[w].at = "read" /\ ~workers[w].holds
  /\ Works(w, [workers[w] EXCEPT !.at = "send", !.letter = Message("retry")])
  /\ UNCHANGED faults

\* The channel holds one message.  After its last one the thread ends, which
\* closes its handle and returns its permit.
Send(w) ==
  /\ workers[w].at = "send" /\ workers[w].live /\ workers[w].mail = NoLetter
  /\ Works(w, IF workers[w].letter.type = "block"
              THEN [workers[w] EXCEPT !.at = "read", !.mail = workers[w].letter, !.letter = NoLetter]
              ELSE [workers[w] EXCEPT !.at = "ended", !.holds = FALSE,
                                      !.mail = workers[w].letter, !.letter = NoLetter])
  /\ UNCHANGED faults

\* Mutant: an abandoned thread keeps its permit.
LeaveKeepingPermit(w) ==
  /\ workers[w].at \in {"open", "read", "send"} /\ ~workers[w].live
  /\ Works(w, [workers[w] EXCEPT !.at = "ended", !.holds = FALSE])
  /\ UNCHANGED faults

\* An abandoned thread whose call returns.
Leave(w) ==
  /\ workers[w].at \in {"open", "read", "send"} /\ ~workers[w].live
  /\ Works(w, Idle)
  /\ UNCHANGED faults

-----------------------------------------------------------------------------
(* The copying thread.                                                      *)

\* The channel is dropped; a thread that still runs is abandoned.
Dropped ==
  [w \in Permits |->
    IF w # current THEN workers[w]
    ELSE IF workers[w].at = "ended" THEN Idle
    ELSE [workers[w] EXCEPT !.live = FALSE, !.mail = NoLetter]]

Goes(next) ==
  /\ at' = next /\ workers' = Dropped /\ current' = 0 /\ block' = NoLetter

\* Where the thread calls wait_if_paused; while it receives blocks it does not.
Waits == at \in {"acquire", "create", "keep"} \/ (at = "poll" /\ phase # "copying")

\* A wait that meets no pause is part of the step behind it.
Passes == ~paused /\ ~cancelled /\ waiting = "no"

Waiting(next) ==
  /\ waiting' = next
  /\ UNCHANGED <<cancelled, paused, version, workers, copier, data, pauses, faults>>

\* wait_if_paused acknowledges, and finds that it has to wait.
EnterWait ==
  /\ Waits /\ waiting = "no" /\ paused /\ ~cancelled
  /\ acked' = TRUE /\ Waiting("parking")

\* Condvar::wait releases the mutex and sleeps, with no time-out.
Sleep == waiting = "parking" /\ Waiting("asleep") /\ UNCHANGED acked

SpuriousWake == waiting = "asleep" /\ Waiting("woken") /\ UNCHANGED acked

\* while state.paused && !self.is_cancelled(), past the acknowledgement.
LookAgain ==
  /\ waiting = "woken" /\ ~cancelled
  /\ Waiting(IF paused THEN "parking" ELSE "no") /\ UNCHANGED acked

\* Mutant: asked only with a permit in hand.
StopAtWaitWithPermit ==
  /\ Waits /\ cancelled /\ waiting \in {"no", "woken"}
  /\ \E w \in Permits : workers[w].at = "idle"
  /\ acked' = (acked \/ (paused /\ waiting = "no")) /\ waiting' = "no"
  /\ Goes("cancelled")
  /\ UNCHANGED <<cancelled, paused, version, phase, stream, expected, data, pauses, faults>>

\* A cancelled wait ends at the look at the flag, the first or that of a thread that
\* was woken; the test that follows every wait ends the copy.
StopAtWait ==
  /\ Waits /\ cancelled /\ waiting \in {"no", "woken"}
  /\ acked' = (acked \/ (paused /\ waiting = "no")) /\ waiting' = "no"
  /\ Goes("cancelled")
  /\ UNCHANGED <<cancelled, paused, version, phase, stream, expected, data, pauses, faults>>

\* acquire_read_slot, and the thread that takes the permit along.
Acquire(w) ==
  /\ at = "acquire" /\ Passes
  /\ workers[w].at = "idle"
  /\ workers' = [workers EXCEPT ![w] =
       [Idle EXCEPT !.at = "open", !.live = TRUE, !.reads = (phase = "copying"),
                    !.stream = stream, !.offset = Len(data[stream])]]
  /\ current' = w /\ at' = "poll"
  /\ UNCHANGED <<token, version, phase, stream, expected, block, data, pauses, faults>>

\* One turn of the receiving loop: copy_query waits here, copy_stream gives up the reader.
PollQuery ==
  /\ at = "poll" /\ phase # "copying" /\ Passes
  /\ at' = "receive"
  /\ UNCHANGED <<token, version, workers, phase, stream, expected, current, block, data, pauses, faults>>

PollRead ==
  /\ at = "poll" /\ phase = "copying"
  /\ \/ cancelled /\ Goes("cancelled")
     \/ ~cancelled /\ paused /\ Goes("acquire")
     \/ ~cancelled /\ ~paused /\ at' = "receive" /\ UNCHANGED <<workers, current, block>>
  /\ UNCHANGED <<token, version, phase, stream, expected, data, pauses, faults>>

Mail == workers[current].mail

Elapse ==
  /\ at = "receive" /\ Mail = NoLetter
  /\ at' = "poll"
  /\ UNCHANGED <<token, version, workers, phase, stream, expected, current, block, data, pauses, faults>>

\* STALL_LIMIT without an answer.
Stall ==
  /\ at = "receive" /\ Mail = NoLetter /\ faults < MaxFaults
  /\ Goes("acquire") /\ faults' = faults + 1
  /\ UNCHANGED <<token, version, phase, stream, expected, data, pauses>>

ReceiveError ==
  /\ at = "receive" /\ Mail.type \in {"retry", "fatal"}
  /\ Goes(IF Mail.type = "retry" THEN "acquire"
          ELSE IF cancelled /\ phase # "copying" THEN "cancelled" ELSE "failed")
  /\ UNCHANGED <<token, version, phase, stream, expected, data, pauses, faults>>

ReceiveVersion ==
  /\ at = "receive" /\ Mail.type = "version"
  /\ \/ /\ phase = "before" /\ expected' = Mail.version /\ Goes("create")
     \/ /\ phase = "after" /\ UNCHANGED expected
        /\ Goes(IF SameContent(Mail.version, expected) THEN "keep" ELSE "failed")
  /\ UNCHANGED <<token, version, phase, stream, data, pauses, faults>>

\* Mutant: the reader and its channel live on through the pause.
ReceiveBlockKeeping ==
  /\ at = "receive" /\ Mail.type = "block"
  /\ \/ paused /\ at' = "acquire" /\ UNCHANGED <<workers, current, block>>
     \/ ~paused /\ cancelled /\ Goes("cancelled")
     \/ /\ ~paused /\ ~cancelled
        /\ at' = "write" /\ block' = Mail
        /\ workers' = [workers EXCEPT ![current].mail = NoLetter]
        /\ UNCHANGED current
  /\ UNCHANGED <<token, version, phase, stream, expected, data, pauses, faults>>

\* The token is read again before the block is used.
ReceiveBlock ==
  /\ at = "receive" /\ Mail.type = "block"
  /\ \/ paused /\ Goes("acquire")
     \/ ~paused /\ cancelled /\ Goes("cancelled")
     \/ /\ ~paused /\ ~cancelled
        /\ at' = "write" /\ block' = Mail
        /\ workers' = [workers EXCEPT ![current].mail = NoLetter]
        /\ UNCHANGED current
  /\ UNCHANGED <<token, version, phase, stream, expected, data, pauses, faults>>

Write ==
  /\ at = "write"
  /\ IF block.offset = Len(data[stream]) /\ Len(data[stream]) < Sizes[stream]
     THEN /\ data' = [data EXCEPT ![stream] = Append(@, block)]
          /\ at' = "poll" /\ block' = NoLetter
          /\ UNCHANGED <<workers, current>>
     ELSE Goes("failed") /\ UNCHANGED data
  /\ UNCHANGED <<token, version, phase, stream, expected, pauses, faults>>

\* Mutant: the last stream is left out.
ReceiveFinishedEarly ==
  /\ at = "receive" /\ Mail.type = "finished"
  /\ \/ Len(data[stream]) # Sizes[stream] /\ Goes("failed") /\ UNCHANGED <<phase, stream>>
     \/ /\ Len(data[stream]) = Sizes[stream] /\ Goes("acquire")
        /\ IF stream + 1 < Len(Sizes) THEN stream' = stream + 1 /\ UNCHANGED phase
           ELSE phase' = "after" /\ UNCHANGED stream
  /\ UNCHANGED <<token, version, expected, data, pauses, faults>>

\* The stream is whole: the next one, or the last look at the source.
ReceiveFinished ==
  /\ at = "receive" /\ Mail.type = "finished"
  /\ \/ Len(data[stream]) # Sizes[stream] /\ Goes("failed") /\ UNCHANGED <<phase, stream>>
     \/ /\ Len(data[stream]) = Sizes[stream] /\ Goes("acquire")
        /\ IF stream < Len(Sizes) THEN stream' = stream + 1 /\ UNCHANGED phase
           ELSE phase' = "after" /\ UNCHANGED stream
  /\ UNCHANGED <<token, version, expected, data, pauses, faults>>

\* The destination is created once the source was found, and kept once it was found unchanged.
Create ==
  /\ at = "create" /\ Passes
  /\ phase' = "copying" /\ Goes("acquire")
  /\ UNCHANGED <<token, version, stream, expected, data, pauses, faults>>

Keep ==
  /\ at = "keep" /\ Passes
  /\ Goes("copied")
  /\ UNCHANGED <<token, version, phase, stream, expected, data, pauses, faults>>

\* Creating, writing or finishing the local file fails.
LocalFails ==
  /\ at \in {"create", "write", "keep"} /\ waiting = "no" /\ faults < MaxFaults
  /\ Goes("failed") /\ faults' = faults + 1
  /\ UNCHANGED <<token, version, phase, stream, expected, data, pauses>>

UserStep == Pause \/ Resume \/ Cancel
WorkerStep(w) == Answer(w) \/ Open(w) \/ Read(w) \/ Validate(w) \/ ReadLost(w) \/ Send(w) \/ Leave(w)
Fault == Stall \/ LocalFails \/ \E w \in Permits : HandleLost(w) \/ \E type \in {"retry", "fatal"} : Fail(w, type)
CopierStep ==
  \/ EnterWait \/ Sleep \/ LookAgain \/ StopAtWait \/ (\E w \in Permits : Acquire(w)) \/ PollQuery \/ PollRead \/ Elapse
  \/ ReceiveError \/ ReceiveVersion \/ ReceiveBlock \/ ReceiveFinished \/ Write \/ Create \/ Keep

Next ==
  \/ UserStep \/ SourceChanges \/ Fault \/ SpuriousWake \/ CopierStep
  \/ \E w \in Permits : WorkerStep(w)

\* The copying thread runs, but owes nothing while it sleeps: only a notification ends
\* that.  A worker may stay in its call to the server for ever.
Spec == Init /\ [][Next]_vars
FairSpec == Spec /\ WF_vars(CopierStep)

-----------------------------------------------------------------------------
Letters == [type : {"none", "version", "block", "finished", "retry", "fatal"},
            stream : Nat, offset : Nat, version : 0..MaxVersions]

WorkerStates ==
  [at : {"idle", "open", "read", "send", "ended"}, reads : BOOLEAN, stream : Nat,
   offset : Nat, live : BOOLEAN, holds : BOOLEAN, letter : Letters, mail : Letters]

TypeOK ==
  /\ {cancelled, paused, acked} \subseteq BOOLEAN
  /\ waiting \in {"no", "parking", "asleep", "woken"}
  /\ version \in 1..MaxVersions /\ expected \in 0..MaxVersions
  /\ workers \in [Permits -> WorkerStates]
  /\ at \in Ended \cup {"acquire", "poll", "receive", "write", "create", "keep"}
  /\ phase \in {"before", "copying", "after"}
  /\ stream \in Streams /\ current \in 0..Slots /\ block \in Letters
  /\ data \in [Streams -> Seq(Letters)]
  /\ pauses \in 0..MaxPauses /\ faults \in 0..MaxFaults

\* The blocks of one version of a stream, in their order.
Content(v, s) == [i \in 1..Sizes[s] |-> Letter("block", s, i - 1, v)]

\* However often the reading is interrupted and taken up again, with abandoned
\* readers still about and a source that changes meanwhile, each stream of the
\* destination is a prefix of that stream in the version found first.
BlocksInPlace ==
  \A s \in Streams : /\ Len(data[s]) <= Sizes[s]
                     /\ \A i \in 1..Len(data[s]) : data[s][i] = Content(expected, s)[i]

\* "partial contents were not published": a file that is kept is whole, all its
\* streams from one version of the source.
CopiedIsWhole == at = "copied" => \A s \in Streams : data[s] = Content(expected, s)

\* "discards all old blocks before a paused task is acknowledged": while the task
\* shows paused no reader is left that could still hand in a block.
NothingInFlight ==
  acked /\ ~cancelled => \A w \in Permits : ~(workers[w].reads /\ workers[w].live)

\* An acknowledged pause stops the writing until it is resumed.
PausedWritesNothing == [][acked => data' = data]_vars

\* cancel() came between the look at the flag and the sleep: nobody wakes the thread.
WakeUpMissed == cancelled /\ waiting \in {"parking", "asleep"}

\* A cancellation that does not fall between a paused thread's look at the flag and its
\* sleep ends the copy, although calls to the server may never return.
CancelEnds == (cancelled /\ ~WakeUpMissed) ~> at \in Ended

\* If calls do return and a pause does not last for ever, the copy ends, whatever
\* permits its abandoned readers had taken, unless a cancellation was missed.  (Resuming
\* is strongly fair: a thread that wakes by itself takes the mutex again and again.)
Served == (\A w \in Permits : WF_vars(WorkerStep(w))) /\ SF_vars(Resume)
ServedCopyEnds == Served => <>(at \in Ended \/ WakeUpMissed)
=============================================================================
