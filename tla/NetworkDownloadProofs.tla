------------------------ MODULE NetworkDownloadProofs ------------------------
(***************************************************************************)
(* What the destination of a download may hold, for every file, every      *)
(* number of permits, faults, pauses and changes of the source.            *)
(***************************************************************************)
EXTENDS NetworkDownload, TLAPS

\* Only the worker listened to is alive, and it serves the phase the copy is in.
OneLiveWorker ==
  /\ current # 0 <=> at \in {"poll", "receive", "write"}
  /\ current # 0 => workers[current].live
  /\ \A w \in Permits : workers[w].live =>
       w = current /\ workers[w].reads = (phase = "copying")
  /\ \A w \in Permits : workers[w].at = "idle" => ~workers[w].live

\* A letter that carries a block carries one of the stream being copied, as expected.
Expected(l) == l.type = "block" => phase = "copying" /\ l = Letter("block", stream, l.offset, expected)

\* What a live reader has for the copy is of the version expected.
BlocksOfExpected ==
  /\ phase = "before" => \A w \in Permits : ~workers[w].reads
  /\ \A w \in Permits : workers[w].holds => workers[w].reads /\ version = expected
  /\ \A w \in Permits : workers[w].live =>
       /\ workers[w].stream = stream
       /\ Expected(workers[w].letter) /\ Expected(workers[w].mail)
  /\ at = "write" => block.type = "block" /\ Expected(block)

\* What the streams before the current one hold, and the phases of the copy.
StreamsDone ==
  /\ phase = "before" => \A s \in Streams : data[s] = <<>>
  /\ \A s \in Streams : s < stream => Len(data[s]) = Sizes[s]
  /\ phase = "after" => stream = Len(Sizes) /\ Len(data[stream]) = Sizes[stream]
  /\ at \in {"keep", "copied"} => phase = "after"
  /\ at = "create" => phase = "before"

AckAtWait == acked => paused /\ ((Waits /\ waiting # "no") \/ at \in Ended)

DownloadInv == TypeOK /\ OneLiveWorker /\ BlocksOfExpected /\ StreamsDone /\ AckAtWait /\ BlocksInPlace

-----------------------------------------------------------------------------
LEMMA LetterTypes ==
  /\ NoLetter \in Letters
  /\ \A type \in {"finished", "fatal", "retry"} : Message(type) \in Letters
  /\ \A s, o \in Nat, v \in 0..MaxVersions : \A type \in {"block", "version"} : Letter(type, s, o, v) \in Letters
  /\ Idle \in WorkerStates
BY BoundsAssumption DEF Letters, NoLetter, Message, Letter, Idle, WorkerStates

LEMMA DroppedTypes == TypeOK => Dropped \in [Permits -> WorkerStates]
BY LetterTypes DEF TypeOK, Dropped, WorkerStates

\* What a step of a worker leaves of its record, whichever step it is.
WorkerFacts(w, r) ==
  /\ r.live => workers[w].live /\ r.reads = workers[w].reads /\ r.stream = workers[w].stream
  /\ r.at = "idle" => ~r.live
  /\ r.reads => workers[w].reads
  /\ r.holds => r.reads /\ version = expected
  /\ r.live => Expected(r.letter) /\ Expected(r.mail)
  /\ workers[w].live => r.live

AnyWorkerStep(w) == WorkerStep(w) \/ HandleLost(w) \/ \E type \in {"retry", "fatal"} : Fail(w, type)

LEMMA WorkerChange ==
  ASSUME TypeOK, OneLiveWorker, BlocksOfExpected, NEW w \in Permits, AnyWorkerStep(w)
  PROVE  \E r \in WorkerStates : Works(w, r) /\ WorkerFacts(w, r)
<1> DEFINE W == workers[w]
<1>1. /\ W \in WorkerStates /\ version \in 0..MaxVersions
      /\ W.holds => W.reads /\ version = expected
      /\ W.live => W.stream = stream /\ Expected(W.letter) /\ Expected(W.mail)
      /\ W.at = "idle" => ~W.live
      /\ W.live => W.reads = (phase = "copying")
  BY BoundsAssumption DEF TypeOK, BlocksOfExpected, OneLiveWorker
<1>2. \A l \in Letters : l.type # "block" => Expected(l)
  BY DEF Expected
<1>3. /\ NoLetter.type # "block" /\ \A type \in {"finished", "fatal", "retry"} : Message(type).type = type
      /\ \A s, o, v \in Nat : Letter("version", s, o, v).type = "version"
  BY DEF NoLetter, Message, Letter
<1> HIDE DEF W
<1>4. CASE Answer(w)
  <2>1. Letter("version", 0, 0, version) \in Letters /\ Expected(Letter("version", 0, 0, version))
    BY <1>1, LetterTypes DEF Expected, Letter
  <2>2. [W EXCEPT !.at = "send", !.letter = Letter("version", 0, 0, version)] \in WorkerStates
    BY <1>1, <2>1 DEF WorkerStates
  <2>3. QED BY <1>1, <1>4, <2>1, <2>2 DEF Answer, WorkerFacts, WorkerStates, W
<1>5. CASE Open(w)
  <2>1. CASE SameContent(version, expected)
    <3>1. [W EXCEPT !.at = "read", !.holds = TRUE] \in WorkerStates
      BY <1>1 DEF WorkerStates
    <3>2. QED BY <1>1, <1>5, <2>1, <3>1 DEF Open, WorkerFacts, WorkerStates, W, SameContent
  <2>2. CASE ~SameContent(version, expected)
    <3>1. [W EXCEPT !.at = "send", !.letter = Message("fatal")] \in WorkerStates
      BY <1>1, LetterTypes DEF WorkerStates
    <3>2. QED BY <1>1, <1>2, <1>3, <1>5, <2>2, <3>1, LetterTypes DEF Open, WorkerFacts, WorkerStates, W
  <2>3. QED BY <2>1, <2>2
<1>6. CASE Read(w)
  <2>1. Letter("block", W.stream, W.offset, version) \in Letters /\ W.offset + 1 \in Nat
    BY <1>1, LetterTypes DEF WorkerStates
  <2>2. Expected(Letter("block", W.stream, W.offset, version))
    BY <1>1, <1>6 DEF Read, Expected, Letter, W
  <2>3. [W EXCEPT !.at = "send", !.offset = @ + 1,
           !.letter = Letter("block", W.stream, W.offset, version)] \in WorkerStates
    BY <1>1, <2>1 DEF WorkerStates
  <2>4. QED BY <1>1, <1>6, <2>2, <2>3 DEF Read, WorkerFacts, WorkerStates, W
<1>7. CASE Validate(w) \/ ReadLost(w) \/ \E type \in {"retry", "fatal"} : Fail(w, type)
  <2>1. PICK type \in {"finished", "fatal", "retry"}, h \in {W.holds, FALSE} :
          Works(w, [W EXCEPT !.at = "send", !.holds = h, !.letter = Message(type)])
    <3>1. W = [W EXCEPT !.holds = W.holds]
      BY <1>1 DEF WorkerStates
    <3>2. \A type : [W EXCEPT !.at = "send", !.letter = Message(type)]
                   = [W EXCEPT !.at = "send", !.holds = W.holds, !.letter = Message(type)]
      BY <1>1 DEF WorkerStates
    <3>3. QED BY <1>7, <3>2 DEF Validate, ReadLost, Fail, W
  <2>2. [W EXCEPT !.at = "send", !.holds = h, !.letter = Message(type)] \in WorkerStates
    BY <1>1, LetterTypes DEF WorkerStates
  <2>3. Expected(Message(type))
    BY <1>2, <1>3, LetterTypes
  <2>4. QED BY <1>1, <2>1, <2>2, <2>3 DEF WorkerFacts, WorkerStates, W
<1>8. CASE Send(w)
  <2>1. CASE W.letter.type = "block"
    <3>1. [W EXCEPT !.at = "read", !.mail = W.letter, !.letter = NoLetter] \in WorkerStates
      BY <1>1, LetterTypes DEF WorkerStates
    <3>2. QED BY <1>1, <1>2, <1>3, <1>8, <2>1, <3>1, LetterTypes DEF Send, WorkerFacts, WorkerStates, W
  <2>2. CASE W.letter.type # "block"
    <3>1. [W EXCEPT !.at = "ended", !.holds = FALSE, !.mail = W.letter, !.letter = NoLetter] \in WorkerStates
      BY <1>1, LetterTypes DEF WorkerStates
    <3>2. QED BY <1>1, <1>2, <1>3, <1>8, <2>2, <3>1, LetterTypes DEF Send, WorkerFacts, WorkerStates, W
  <2>3. QED BY <2>1, <2>2
<1>9. CASE Leave(w)
  BY <1>1, <1>9, LetterTypes DEF Leave, WorkerFacts, Idle, W
<1>10. CASE HandleLost(w)
  <2>1. [W EXCEPT !.holds = FALSE] \in WorkerStates
    BY <1>1 DEF WorkerStates
  <2>2. QED BY <1>1, <1>10, <2>1 DEF HandleLost, WorkerFacts, WorkerStates, W
<1>11. QED
  BY <1>4, <1>5, <1>6, <1>7, <1>8, <1>9, <1>10 DEF AnyWorkerStep, WorkerStep

LEMMA WorkerTypes ==
  ASSUME TypeOK, OneLiveWorker, BlocksOfExpected, NEW w \in Permits, AnyWorkerStep(w)
  PROVE  TypeOK'
<1>1. PICK r \in WorkerStates : Works(w, r)
  BY WorkerChange
<1>2. faults' \in 0..MaxFaults
  BY BoundsAssumption DEF TypeOK, AnyWorkerStep, WorkerStep, Answer, Open, Read, Validate, ReadLost,
     Send, Leave, HandleLost, Fail
<1>3. QED BY <1>1, <1>2 DEF Works, TypeOK, token, copier

\* Giving up on an answer, and the failures of the local file, are steps of this thread too.
AnyCopierStep == CopierStep \/ SpuriousWake \/ Stall \/ LocalFails

\* What it does inside wait_if_paused.
WaitStep == EnterWait \/ Sleep \/ LookAgain \/ SpuriousWake

LEMMA CopierTypes == TypeOK /\ OneLiveWorker /\ AnyCopierStep => TypeOK'
<1> SUFFICES ASSUME TypeOK, OneLiveWorker, AnyCopierStep PROVE TypeOK'
  OBVIOUS
<1> USE BoundsAssumption DEF TypeOK
<1>0. at = "receive" => current \in Permits /\ workers[current] \in WorkerStates /\ Mail \in Letters
  BY DEF OneLiveWorker, Permits, Mail, WorkerStates
<1>00. ASSUME NEW next \in Ended \cup {"acquire", "create", "keep"}, Goes(next)
      PROVE  /\ workers' \in [Permits -> WorkerStates] /\ current' \in 0..Slots
             /\ block' \in Letters /\ at' = next
  BY <1>00, DroppedTypes, LetterTypes DEF Goes
<1>1. CASE WaitStep \/ PollQuery \/ Elapse
  BY <1>1 DEF WaitStep, EnterWait, Sleep, LookAgain, SpuriousWake, Waiting, PollQuery, Elapse, token, copier
<1>2. CASE StopAtWait \/ PollRead \/ ReceiveError
  BY <1>2, DroppedTypes, LetterTypes DEF StopAtWait, PollRead, ReceiveError, Goes, token, Ended
<1>3. ASSUME NEW w \in Permits, Acquire(w) PROVE TypeOK'
  <2>1. stream \in Nat /\ Len(data[stream]) \in Nat
    BY SizesAssumption DEF Streams
  <2>2. [Idle EXCEPT !.at = "open", !.live = TRUE, !.reads = (phase = "copying"),
                     !.stream = stream, !.offset = Len(data[stream])] \in WorkerStates
    BY <2>1, LetterTypes DEF Idle, WorkerStates
  <2>3. QED BY <1>3, <2>2 DEF Acquire, token, Permits
<1>4. CASE ReceiveVersion
  <2>1. Mail.version \in 0..MaxVersions
    BY <1>0, <1>4 DEF ReceiveVersion, Letters
  <2>2. \E next \in {"create", "keep", "failed"} : Goes(next)
    BY <1>4 DEF ReceiveVersion
  <2>3. QED BY <1>00, <1>4, <2>1, <2>2 DEF ReceiveVersion, token, Ended
<1>5. CASE ReceiveBlock
  <2>1. [workers[current] EXCEPT !.mail = NoLetter] \in WorkerStates
    BY <1>0, <1>5, LetterTypes DEF ReceiveBlock, WorkerStates
  <2>2. CASE at' = "write"
    BY <1>0, <1>5, <2>1, <2>2 DEF ReceiveBlock, Goes, token
  <2>3. CASE at' # "write"
    BY <1>00, <1>5, <2>3 DEF ReceiveBlock, token, Ended
  <2>4. QED BY <2>2, <2>3
<1>6. CASE ReceiveFinished
  BY <1>6, DroppedTypes, LetterTypes, SizesAssumption DEF ReceiveFinished, Goes, token, Ended, Streams
<1>7. CASE Write
  <2>1. Append(data[stream], block) \in Seq(Letters)
    OBVIOUS
  <2>2. CASE at' = "poll"
    BY <1>7, <2>1, <2>2, LetterTypes DEF Write, Goes, token
  <2>3. CASE at' # "poll"
    BY <1>00, <1>7, <2>3 DEF Write, token, Ended
  <2>4. QED BY <2>2, <2>3
<1>8. CASE Create \/ Keep
  BY <1>8, DroppedTypes, LetterTypes DEF Create, Keep, Goes, token, Ended
<1>9. CASE Stall \/ LocalFails
  BY <1>00, <1>9 DEF Stall, LocalFails, token, Ended
<1>10. QED BY <1>1, <1>2, <1>3, <1>4, <1>5, <1>6, <1>7, <1>8, <1>9 DEF CopierStep, AnyCopierStep, WaitStep

LEMMA InitTypes == Init => TypeOK
<1> SUFFICES ASSUME Init PROVE TypeOK
  OBVIOUS
<1>1. 1 \in Streams
  BY SizesAssumption DEF Streams
<1>2. data \in [Streams -> Seq(Letters)]
  BY DEF Init
<1>3. workers \in [Permits -> WorkerStates]
  BY LetterTypes DEF Init
<1>4. version \in 1..MaxVersions /\ expected \in 0..MaxVersions /\ current \in 0..Slots
  BY BoundsAssumption DEF Init
<1>5. pauses \in 0..MaxPauses /\ faults \in 0..MaxFaults
  BY BoundsAssumption DEF Init
<1>6. QED BY <1>1, <1>2, <1>3, <1>4, <1>5, LetterTypes DEF Init, TypeOK

LEMMA UserTypes == TypeOK /\ (UserStep \/ SourceChanges) => TypeOK'
<1> USE BoundsAssumption DEF TypeOK, token, copier
<1>1. TypeOK /\ Pause => TypeOK'
  <2> SUFFICES ASSUME TypeOK, Pause PROVE TypeOK'
    OBVIOUS
  <2>1. pauses' \in 0..MaxPauses
    BY DEF Pause
  <2>2. {cancelled', paused', acked'} \subseteq BOOLEAN /\ waiting' = waiting
    BY DEF Pause
  <2>3. QED BY <2>1, <2>2 DEF Pause
<1>2. TypeOK /\ (Resume \/ Cancel) => TypeOK'
  BY DEF Resume, Cancel, Notified
<1>3. TypeOK /\ SourceChanges => TypeOK'
  BY DEF SourceChanges
<1>4. QED BY <1>1, <1>2, <1>3 DEF UserStep

-----------------------------------------------------------------------------
\* After the channel is dropped nobody is alive, and nobody holds more than before.
LEMMA DroppedFacts ==
  ASSUME TypeOK, OneLiveWorker, NEW w \in Permits
  PROVE  /\ ~Dropped[w].live
         /\ Dropped[w].reads => workers[w].reads
         /\ Dropped[w].holds => workers[w].holds /\ Dropped[w].reads = workers[w].reads
<1>1. Dropped[w] = IF w # current THEN workers[w]
                   ELSE IF workers[w].at = "ended" THEN Idle
                   ELSE [workers[w] EXCEPT !.live = FALSE, !.mail = NoLetter]
  BY DEF Dropped
<1>2. workers[w] \in WorkerStates
  BY DEF TypeOK
<1>3. CASE w # current
  BY <1>1, <1>3 DEF OneLiveWorker
<1>4. CASE w = current /\ workers[w].at = "ended"
  BY <1>1, <1>4 DEF Idle
<1>5. CASE w = current /\ workers[w].at # "ended"
  BY <1>1, <1>2, <1>5 DEF WorkerStates
<1>6. QED BY <1>3, <1>4, <1>5

LEMMA GoesOneLive ==
  ASSUME TypeOK, OneLiveWorker, NEW next, next \notin {"poll", "receive", "write"}, Goes(next)
  PROVE  OneLiveWorker'
<1>1. \A w \in Permits : ~workers'[w].live
  BY DroppedFacts DEF Goes
<1>2. QED BY <1>1 DEF Goes, OneLiveWorker

LEMMA WorkerOneLive ==
  ASSUME TypeOK, OneLiveWorker, BlocksOfExpected, NEW w \in Permits, AnyWorkerStep(w)
  PROVE  OneLiveWorker'
<1>1. PICK r \in WorkerStates : Works(w, r) /\ WorkerFacts(w, r)
  BY WorkerChange
<1>2. QED BY <1>1 DEF Works, WorkerFacts, OneLiveWorker, copier, TypeOK

LEMMA CopierOneLive == TypeOK /\ OneLiveWorker /\ AnyCopierStep => OneLiveWorker'
<1> SUFFICES ASSUME TypeOK, OneLiveWorker, AnyCopierStep PROVE OneLiveWorker'
  OBVIOUS
<1>1. CASE \E next \in Ended \cup {"acquire", "create", "keep"} : Goes(next)
  BY <1>1, GoesOneLive DEF Ended
<1>2. CASE WaitStep \/ PollQuery \/ Elapse
  BY <1>2 DEF WaitStep, EnterWait, Sleep, LookAgain, SpuriousWake, Waiting, PollQuery, Elapse, OneLiveWorker, copier
<1>3. ASSUME NEW w \in Permits, Acquire(w) PROVE OneLiveWorker'
  <2>1. current = 0 /\ w # 0 /\ \A v \in Permits : ~workers[v].live
    BY <1>3 DEF Acquire, OneLiveWorker, Permits
  <2>2. \A v \in Permits : v # w => workers'[v] = workers[v]
    BY <1>3 DEF Acquire, TypeOK
  <2>3. workers'[w].live /\ workers'[w].reads = (phase = "copying") /\ workers'[w].at = "open"
    BY <1>3 DEF Acquire, TypeOK, Idle
  <2>4. current' = w /\ at' = "poll" /\ phase' = phase
    BY <1>3 DEF Acquire
  <2>5. QED BY <2>1, <2>2, <2>3, <2>4 DEF OneLiveWorker
<1>4. CASE PollRead /\ at' = "receive"
  BY <1>4 DEF PollRead, Goes, OneLiveWorker
<1>5. CASE ReceiveBlock /\ at' = "write"
  <2>1. current \in Permits /\ workers[current] \in WorkerStates
    BY <1>5 DEF ReceiveBlock, OneLiveWorker, TypeOK, Permits
  <2>2. workers' = [workers EXCEPT ![current].mail = NoLetter] /\ current' = current /\ phase' = phase
    BY <1>5 DEF ReceiveBlock, Goes
  <2>3. \A v \in Permits : workers'[v].live = workers[v].live /\ workers'[v].reads = workers[v].reads
                           /\ workers'[v].at = workers[v].at
    BY <2>1, <2>2 DEF TypeOK, WorkerStates
  <2>4. QED BY <1>5, <2>1, <2>2, <2>3 DEF OneLiveWorker, ReceiveBlock
<1>6. CASE Write /\ at' = "poll"
  BY <1>6 DEF Write, Goes, OneLiveWorker
<1>7. QED
  BY <1>1, <1>2, <1>3, <1>4, <1>5, <1>6 DEF AnyCopierStep, CopierStep, WaitStep, StopAtWait, PollRead, ReceiveError,
     ReceiveVersion, ReceiveBlock, ReceiveFinished, Write, Create, Keep, Stall, LocalFails, Ended

-----------------------------------------------------------------------------
LEMMA WorkerBlocks ==
  ASSUME TypeOK, OneLiveWorker, BlocksOfExpected, NEW w \in Permits, AnyWorkerStep(w)
  PROVE  BlocksOfExpected'
<1>1. PICK r \in WorkerStates : Works(w, r) /\ WorkerFacts(w, r)
  BY WorkerChange
<1>2. \A l : Expected(l)' <=> Expected(l)
  BY <1>1 DEF Works, Expected, copier
<1>3. workers' = [workers EXCEPT ![w] = r] /\ version' = version /\ UNCHANGED copier
  BY <1>1 DEF Works
<1>4. \A v \in Permits : workers'[v] = IF v = w THEN r ELSE workers[v]
  BY <1>3 DEF TypeOK
<1>5. QED BY <1>1, <1>2, <1>3, <1>4 DEF WorkerFacts, BlocksOfExpected, copier, Expected

LEMMA GoesBlocks ==
  ASSUME TypeOK, OneLiveWorker, BlocksOfExpected, NEW next, next # "write", Goes(next),
         version' = version, phase' = "before" => phase = "before",
         expected' = expected \/ phase = "before"
  PROVE  BlocksOfExpected'
<1>1. \A w \in Permits : /\ ~workers'[w].live
                         /\ workers'[w].reads => workers[w].reads
                         /\ workers'[w].holds => workers[w].holds /\ workers'[w].reads = workers[w].reads
  BY DroppedFacts DEF Goes
<1>2. QED BY <1>1 DEF Goes, BlocksOfExpected

LEMMA CopierBlocks == TypeOK /\ OneLiveWorker /\ BlocksOfExpected /\ AnyCopierStep => BlocksOfExpected'
<1> SUFFICES ASSUME TypeOK, OneLiveWorker, BlocksOfExpected, AnyCopierStep PROVE BlocksOfExpected'
  OBVIOUS
<1>1. CASE \E next \in Ended \cup {"acquire", "create", "keep"} : Goes(next)
  <2>1. version' = version /\ (phase' = "before" => phase = "before") /\ (expected' = expected \/ phase = "before")
    BY DEF AnyCopierStep, CopierStep, WaitStep, EnterWait, Sleep, LookAgain, SpuriousWake, Waiting, PollQuery,
       Elapse, Acquire, StopAtWait, PollRead, ReceiveError,
       ReceiveVersion, ReceiveBlock, ReceiveFinished, Write, Create, Keep, Stall, LocalFails, copier
  <2>2. QED BY <1>1, <2>1, GoesBlocks DEF Ended
<1>2. CASE WaitStep \/ PollQuery \/ Elapse
  BY <1>2 DEF WaitStep, EnterWait, Sleep, LookAgain, SpuriousWake, Waiting, PollQuery, Elapse, BlocksOfExpected,
     Expected, copier
<1>3. ASSUME NEW w \in Permits, Acquire(w) PROVE BlocksOfExpected'
  <2>1. \A v \in Permits : v # w => workers'[v] = workers[v]
    BY <1>3 DEF Acquire, TypeOK
  <2>2. /\ workers'[w].reads = (phase = "copying") /\ ~workers'[w].holds /\ workers'[w].stream = stream
        /\ workers'[w].letter.type # "block" /\ workers'[w].mail.type # "block"
    BY <1>3 DEF Acquire, TypeOK, Idle, NoLetter, Letter
  <2>3. phase' = phase /\ stream' = stream /\ expected' = expected /\ version' = version /\ at' = "poll"
    BY <1>3 DEF Acquire
  <2>4. phase' = "before" => \A v \in Permits : ~workers'[v].reads
    BY <2>1, <2>2, <2>3 DEF BlocksOfExpected
  <2>5. \A v \in Permits : workers'[v].holds => workers'[v].reads /\ version' = expected'
    BY <2>1, <2>2, <2>3 DEF BlocksOfExpected
  <2>6. ASSUME NEW v \in Permits, workers'[v].live
        PROVE  /\ workers'[v].stream = stream'
               /\ Expected(workers[v].letter)' /\ Expected(workers[v].mail)'
    BY <2>1, <2>2, <2>3, <2>6 DEF BlocksOfExpected, Expected
  <2>7. QED BY <2>3, <2>4, <2>5, <2>6 DEF BlocksOfExpected
<1>4. CASE PollRead /\ at' = "receive"
  <2>1. UNCHANGED <<workers, phase, stream, expected, version>>
    BY <1>4 DEF PollRead, Goes
  <2>2. QED BY <1>4, <2>1 DEF BlocksOfExpected, Expected
<1>5. CASE ReceiveBlock /\ at' = "write"
  <2>1. current \in Permits /\ workers[current] \in WorkerStates /\ Expected(Mail)
    BY <1>5 DEF ReceiveBlock, OneLiveWorker, TypeOK, Permits, BlocksOfExpected, Mail
  <2>2. /\ workers' = [workers EXCEPT ![current].mail = NoLetter] /\ block' = Mail
        /\ UNCHANGED <<phase, stream, expected, version>>
    BY <1>5 DEF ReceiveBlock, Goes
  <2>3. \A v \in Permits : /\ workers'[v].live = workers[v].live /\ workers'[v].reads = workers[v].reads
                           /\ workers'[v].holds = workers[v].holds /\ workers'[v].stream = workers[v].stream
                           /\ workers'[v].letter = workers[v].letter
                           /\ workers'[v].mail \in {workers[v].mail, NoLetter}
    BY <2>1, <2>2 DEF TypeOK, WorkerStates
  <2>4. NoLetter.type # "block" /\ Mail.type = "block"
    BY <1>5 DEF NoLetter, Letter, ReceiveBlock
  <2>5. at' = "write" => block'.type = "block" /\ Expected(block)'
    BY <2>1, <2>2, <2>4 DEF Expected
  <2>6. /\ phase' = "before" => \A v \in Permits : ~workers'[v].reads
        /\ \A v \in Permits : workers'[v].holds => workers'[v].reads /\ version' = expected'
    BY <2>2, <2>3 DEF BlocksOfExpected
  <2>7. \A v \in Permits : workers'[v].live =>
          /\ workers'[v].stream = stream' /\ Expected(workers[v].letter)' /\ Expected(workers[v].mail)'
    BY <2>2, <2>3, <2>4 DEF BlocksOfExpected, Expected
  <2>8. QED BY <2>5, <2>6, <2>7 DEF BlocksOfExpected
<1>6. CASE Write /\ at' = "poll"
  BY <1>6 DEF Write, Goes, BlocksOfExpected, Expected
<1>7. QED
  BY <1>1, <1>2, <1>3, <1>4, <1>5, <1>6 DEF AnyCopierStep, CopierStep, WaitStep, StopAtWait, PollRead, ReceiveError,
     ReceiveVersion, ReceiveBlock, ReceiveFinished, Write, Create, Keep, Stall, LocalFails, Ended

-----------------------------------------------------------------------------
LEMMA StreamsDonePreserved ==
  ASSUME TypeOK, OneLiveWorker, BlocksOfExpected, StreamsDone, [Next]_vars
  PROVE  StreamsDone'
<1> USE DEF StreamsDone
<1>1. CASE UNCHANGED <<phase, stream, data, at>>
  BY <1>1, Zenon DEF Streams
<1>2. CASE ReceiveVersion
  BY <1>2 DEF ReceiveVersion, Goes
<1>3. CASE ReceiveFinished
  BY <1>3, SizesAssumption DEF ReceiveFinished, Goes, TypeOK, Streams
<1>4. CASE Write
  <2>1. phase = "copying" /\ phase' = phase /\ stream' = stream /\ at' \in {"poll", "failed"}
    BY <1>4 DEF Write, BlocksOfExpected, Expected, Goes
  <2>2. \A s \in Streams : s # stream => data'[s] = data[s]
    BY <1>4 DEF Write, TypeOK
  <2>3. stream \in Int /\ \A s \in Streams : s \in Int
    BY SizesAssumption DEF TypeOK, Streams
  <2>4. QED BY <2>1, <2>2, <2>3
<1>5. CASE Create \/ Keep
  BY <1>5 DEF Create, Keep, Goes
<1>6. CASE ~UNCHANGED <<phase, stream, data, at>> /\ UNCHANGED <<phase, stream, data>>
           /\ at' \in {"acquire", "poll", "receive", "write", "failed", "cancelled"}
  BY <1>6 DEF Streams
<1>7. QED
  BY <1>1, <1>2, <1>3, <1>4, <1>5, <1>6 DEF Next, vars, copier, UserStep, Pause, Resume, Cancel, SourceChanges, Fault,
     WorkerStep, Works, Answer, Open, Read, Validate, ReadLost, Send, Leave, HandleLost, Fail, CopierStep, Stall,
     LocalFails, WaitStep, EnterWait, Sleep, LookAgain, SpuriousWake, Waiting, StopAtWait, Acquire, PollQuery,
     PollRead, Elapse, ReceiveError, ReceiveBlock, Goes

LEMMA AckAtWaitPreserved ==
  ASSUME TypeOK, AckAtWait, [Next]_vars
  PROVE  AckAtWait'
<1> USE DEF AckAtWait, Waits, Ended
<1>1. CASE UNCHANGED <<acked, paused, waiting, at, phase>>
  BY <1>1
<1>2. CASE UserStep
  BY <1>2 DEF UserStep, Pause, Resume, Cancel, Notified, copier
<1>3. CASE Stall \/ LocalFails
  BY <1>3 DEF Stall, LocalFails, Goes, token
<1>4. CASE WaitStep
  BY <1>4 DEF WaitStep, EnterWait, Sleep, LookAgain, SpuriousWake, Waiting, copier
<1>5. CASE StopAtWait
  BY <1>5, Zenon DEF StopAtWait, Goes, TypeOK
<1>6. CASE CopierStep /\ ~WaitStep /\ ~StopAtWait
  <2>1. ~acked
    BY <1>6 DEF CopierStep, WaitStep, Acquire, PollQuery, PollRead, Elapse, ReceiveError, ReceiveVersion,
       ReceiveBlock, ReceiveFinished, Write, Create, Keep, Passes
  <2>2. acked' = acked
    BY <1>6 DEF CopierStep, WaitStep, Acquire, PollQuery, PollRead, Elapse, ReceiveError, ReceiveVersion,
       ReceiveBlock, ReceiveFinished, Write, Create, Keep, token
  <2>3. QED BY <2>1, <2>2
<1>7. QED
  BY <1>1, <1>2, <1>3, <1>4, <1>5, <1>6 DEF Next, vars, token, copier, SourceChanges, Fault, WaitStep, WorkerStep,
     Works, Answer, Open, Read, Validate, ReadLost, Send, Leave, HandleLost, Fail

LEMMA BlocksInPlacePreserved ==
  ASSUME TypeOK, OneLiveWorker, BlocksOfExpected, StreamsDone, BlocksInPlace, [Next]_vars
  PROVE  BlocksInPlace'
<1> USE DEF BlocksInPlace
<1>1. CASE UNCHANGED <<data, expected>>
  BY <1>1 DEF Streams
<1>2. CASE ReceiveVersion
  <2>1. data' = data /\ (expected' = expected \/ \A s \in Streams : data[s] = <<>>)
    BY <1>2 DEF ReceiveVersion, StreamsDone
  <2>2. \A s \in Streams : Sizes[s] \in Nat
    BY SizesAssumption DEF Streams
  <2>3. CASE expected' = expected
    BY <2>1, <2>3 DEF Streams
  <2>4. CASE \A s \in Streams : data[s] = <<>>
    BY <2>1, <2>2, <2>4 DEF Streams
  <2>5. QED BY <2>1, <2>3, <2>4
<1>3. CASE Write /\ data' # data
  <2> DEFINE n == Len(data[stream])
  <2>1. stream \in Streams /\ data[stream] \in Seq(Letters) /\ n \in Nat /\ block \in Letters
        /\ Sizes[stream] \in Nat
    BY SizesAssumption DEF TypeOK, Streams
  <2>2. block = Letter("block", stream, n, expected) /\ n < Sizes[stream] /\ expected' = expected
        /\ data' = [data EXCEPT ![stream] = Append(data[stream], block)]
    BY <1>3 DEF Write, BlocksOfExpected, Expected, Goes
  <2>3. \A s \in Streams : s # stream => data'[s] = data[s]
    BY <2>2 DEF TypeOK
  <2>4. data'[stream] = Append(data[stream], block)
    BY <2>1, <2>2 DEF TypeOK
  <2>5. Len(data'[stream]) = n + 1 /\ data'[stream][n + 1] = block
        /\ \A i \in 1..n : data'[stream][i] = data[stream][i]
    BY <2>1, <2>4
  <2>6. \A s \in Streams : \A i \in 1..Sizes[s] : Content(expected, s)[i] = Letter("block", s, i - 1, expected)
    BY DEF Content
  <2>7. ASSUME NEW i \in 1..(n + 1) PROVE data'[stream][i] = Content(expected, stream)[i]
    <3>1. CASE i \in 1..n
      BY <2>1, <2>5, <3>1
    <3>2. CASE i = n + 1
      <4>1. n + 1 \in 1..Sizes[stream] /\ (n + 1) - 1 = n
        BY <2>1, <2>2
      <4>2. QED BY <2>1, <2>2, <2>5, <2>6, <3>2, <4>1
    <3>3. QED BY <2>1, <3>1, <3>2
  <2>8. /\ Len(data'[stream]) <= Sizes[stream]
        /\ \A i \in 1..Len(data'[stream]) : data'[stream][i] = Content(expected, stream)[i]
    BY <2>1, <2>2, <2>5, <2>6, <2>7
  <2>9. \A s \in Streams : s # stream =>
          Len(data'[s]) <= Sizes[s] /\ \A i \in 1..Len(data'[s]) : data'[s][i] = Content(expected, s)[i]
    BY <2>3
  <2>10. QED BY <2>2, <2>8, <2>9 DEF Streams
<1>4. QED
  BY <1>1, <1>2, <1>3 DEF Next, vars, copier, UserStep, Pause, Resume, Cancel, SourceChanges, Fault, WorkerStep, Works,
     Answer, Open, Read, Validate, ReadLost, Send, Leave, HandleLost, Fail, CopierStep, Stall, LocalFails, WaitStep,
     EnterWait, Sleep, LookAgain, SpuriousWake, Waiting,
     StopAtWait, Acquire, PollQuery, PollRead, Elapse, ReceiveError, ReceiveBlock, ReceiveFinished, Write, Create, Keep

LEMMA DownloadInvInductive == Spec => []DownloadInv
<1>1. Init => DownloadInv
  <2> SUFFICES ASSUME Init PROVE DownloadInv
    OBVIOUS
  <2>1. TypeOK
    BY InitTypes
  <2>2. \A s \in Streams : data[s] = <<>> /\ Sizes[s] \in Nat
    <3>1. \A s \in Streams : data[s] = <<>>
      BY DEF Init
    <3>2. \A s \in Streams : Sizes[s] \in Nat
      BY SizesAssumption DEF Streams
    <3>3. QED BY <3>1, <3>2
  <2>3. \A w \in Permits : ~workers[w].live /\ ~workers[w].reads /\ ~workers[w].holds
    BY DEF Init, Idle
  <2>4. OneLiveWorker /\ BlocksOfExpected /\ AckAtWait
    BY <2>3 DEF Init, OneLiveWorker, BlocksOfExpected, AckAtWait
  <2>5. StreamsDone /\ BlocksInPlace
    BY <2>2, SizesAssumption DEF Init, StreamsDone, BlocksInPlace, Streams
  <2>6. QED BY <2>1, <2>4, <2>5 DEF DownloadInv
<1>2. DownloadInv /\ [Next]_vars => DownloadInv'
  <2> SUFFICES ASSUME DownloadInv, [Next]_vars PROVE DownloadInv'
    OBVIOUS
  <2> USE DEF DownloadInv
  <2>1. StreamsDone' /\ AckAtWait' /\ BlocksInPlace'
    BY StreamsDonePreserved, AckAtWaitPreserved, BlocksInPlacePreserved
  <2>2. CASE UNCHANGED vars
    BY <2>1, <2>2 DEF vars, token, copier, TypeOK, OneLiveWorker, BlocksOfExpected, Expected
  <2>3. CASE UserStep \/ SourceChanges
    <3>1. TypeOK'
      BY <2>3, UserTypes
    <3>2. UNCHANGED <<workers, copier>> /\ (version' = version \/ \A w \in Permits : ~workers[w].holds)
      BY <2>3 DEF UserStep, Pause, Resume, Cancel, SourceChanges
    <3>3. OneLiveWorker' /\ BlocksOfExpected'
      BY <3>2 DEF OneLiveWorker, BlocksOfExpected, Expected, copier
    <3>4. QED BY <2>1, <3>1, <3>3
  <2>4. CASE \E w \in Permits : AnyWorkerStep(w)
    BY <2>1, <2>4, WorkerTypes, WorkerOneLive, WorkerBlocks
  <2>5. CASE AnyCopierStep
    BY <2>1, <2>5, CopierTypes, CopierOneLive, CopierBlocks
  <2>6. QED
    BY <2>2, <2>3, <2>4, <2>5 DEF Next, Fault, AnyWorkerStep, AnyCopierStep
<1>3. QED BY <1>1, <1>2, PTL DEF Spec

\* Every block written is the next one of its stream, of the version of the source
\* found first, whatever readers were abandoned on the way.
THEOREM WrittenInPlace == Spec => []BlocksInPlace
<1>1. DownloadInv => BlocksInPlace
  BY DEF DownloadInv
<1>2. QED BY <1>1, DownloadInvInductive, PTL

\* A destination that is kept is the whole of one version of the source.
THEOREM KeptIsWhole == Spec => []CopiedIsWhole
<1>1. DownloadInv => CopiedIsWhole
  <2> SUFFICES ASSUME DownloadInv, at = "copied", NEW s \in Streams PROVE data[s] = Content(expected, s)
    BY DEF CopiedIsWhole
  <2>1. Len(data[s]) = Sizes[s] /\ data[s] \in Seq(Letters)
    BY SizesAssumption DEF DownloadInv, StreamsDone, TypeOK, Streams
  <2>2. \A i \in 1..Sizes[s] : data[s][i] = Content(expected, s)[i]
    BY <2>1 DEF DownloadInv, BlocksInPlace
  <2>3. DOMAIN data[s] = 1..Sizes[s] /\ data[s] = [i \in DOMAIN data[s] |-> data[s][i]]
    BY <2>1
  <2>4. Content(expected, s) = [i \in 1..Sizes[s] |-> Content(expected, s)[i]]
    BY DEF Content
  <2>5. QED BY <2>2, <2>3, <2>4
<1>2. QED BY <1>1, DownloadInvInductive, PTL

\* While the task shows paused no reader is left that could hand in a block.
THEOREM PauseDiscardsReaders == Spec => []NothingInFlight
<1>1. DownloadInv => NothingInFlight
  <2> SUFFICES ASSUME DownloadInv, acked, NEW w \in Permits, workers[w].live PROVE ~workers[w].reads
    BY DEF NothingInFlight
  <2>1. w = current /\ workers[w].reads = (phase = "copying") /\ current # 0
    BY BoundsAssumption DEF DownloadInv, OneLiveWorker, Permits
  <2>2. at \in {"poll", "receive", "write"}
    BY <2>1 DEF DownloadInv, OneLiveWorker
  <2>3. phase # "copying"
    BY <2>2 DEF DownloadInv, AckAtWait, Waits, Ended
  <2>4. QED BY <2>1, <2>3
<1>2. QED BY <1>1, DownloadInvInductive, PTL

\* No step writes to the destination under an acknowledged pause.
THEOREM PauseStopsWriting == Spec => PausedWritesNothing
<1>1. DownloadInv /\ [Next]_vars => [acked => data' = data]_vars
  <2> SUFFICES ASSUME DownloadInv, Next, acked PROVE data' = data
    OBVIOUS
  <2>1. at # "write"
    BY DEF DownloadInv, AckAtWait, Waits, Ended
  <2>2. QED
    BY <2>1 DEF Next, UserStep, Pause, Resume, Cancel, SourceChanges, Fault, WorkerStep, Works, Answer, Open, Read,
       Validate, ReadLost, Send, Leave, HandleLost, Fail, CopierStep, Stall, LocalFails, WaitStep, EnterWait, Sleep,
       LookAgain, SpuriousWake, Waiting, StopAtWait,
       Acquire, PollQuery, PollRead, Elapse, ReceiveError, ReceiveVersion, ReceiveBlock, ReceiveFinished, Write,
       Create, Keep
<1>2. QED BY <1>1, DownloadInvInductive, PTL DEF Spec, PausedWritesNothing
==============================================================================
