-------------------------- MODULE CleanupTaskProofs --------------------------
(***************************************************************************)
(* Theorems about the durable task of a permanent delete, for any number   *)
(* of directories, crashes, failures, strangers and retries.               *)
(***************************************************************************)
EXTENDS CleanupTask, TLAPS

\* The numbers of the records d are lo..hi, each once.
Span(d, lo, hi) ==
  /\ \A r \in d : r.gen \in lo..hi
  /\ \A n \in lo..hi : \E r \in d : r.gen = n
  /\ \A r, o \in d : r.gen = o.gen => r = o

Consecutive == \E lo, hi \in Nat : Span(disk, lo, hi)

\* Who may be at work: nobody before the scan at start has been answered, and one of
\* the two workers at a time.
Turns ==
  /\ ~up => scan = "done"
  /\ scan # "done" \/ ~up => make.pc = "idle" /\ clean.pc = "idle" /\ due = "none"
  /\ make.pc # "idle" => due \in {"none", "done"} /\ folder
  /\ clean.pc # "idle" => due = "running"
  /\ due \notin {"none", "done"} => folder
  /\ ~folder => disk = {}
  /\ scan = "left" => folder
  /\ scan = "empty" => \A i \in Item : payload[i] = 0

Making == make.pc \in {"inspect", "move", "open", "publish"}
Cleaning == clean.pc \notin {"idle", "unlink"}

\* What the deleting worker holds is what the latest record says, or is about to be
\* written; what it has moved is in it, and what is still to move has no payload.
MakeInStep ==
  /\ make.pc \in {"open", "publish"} => make.then \in {"inspect", "move"}
  /\ Making /\ disk # {} => Latest.gen = make.gen
  /\ Making => \A i \in Item : payload[i] # 0 => i \in make.rem /\ i < make.at
  /\ make.pc = "move" \/ (make.pc \in {"open", "publish"} /\ make.then = "move") =>
       make.at \in make.rem
  /\ make.pc \in {"inspect", "move"} => disk # {} /\ Latest.rem = make.rem

\* The same of the clean-up worker, which may forget only what has no payload.
CleanInStep ==
  /\ clean.pc \in {"open", "publish"} => clean.then \in {"sweep", "idle"}
  /\ Cleaning => /\ disk # {} /\ Latest.gen = clean.gen
                 /\ \A i \in Item : payload[i] # 0 => i \in clean.rem
  /\ clean.pc \in {"reconcile", "redo"} => clean.rem \subseteq Latest.rem
  /\ clean.pc \in {"redo", "erase"} => clean.at \in clean.rem
  /\ clean.pc \in {"sweep", "erase"} => Latest.rem = clean.rem /\ Latest.known = clean.known
  /\ clean.pc = "erase" => payload[clean.at] = clean.known[clean.at]
  /\ clean.pc = "unlink" => \A i \in Item : payload[i] = 0

CleanupInv == TypeOK /\ Consecutive /\ Turns /\ PayloadTracked /\ MakeInStep /\ CleanInStep

-----------------------------------------------------------------------------
(* Records.                                                                  *)

Record == [gen : Nat, rem : SUBSET Item, known : [Item -> Directory]]

\* The latest of consecutive records is the one with the highest number.
LEMMA LatestIs ==
  ASSUME disk \subseteq Record, NEW lo \in Nat, NEW hi \in Nat, Span(disk, lo, hi), disk # {}
  PROVE  /\ lo <= hi
         /\ Latest \in disk /\ Latest.gen = hi
         /\ \A r \in disk : r.gen = hi => r = Latest
<1>1. PICK s \in disk : TRUE
  OBVIOUS
<1>2. lo <= hi
  BY <1>1 DEF Span, Record
<1>3. PICK r \in disk : r.gen = hi
  BY <1>2 DEF Span
<1>4. \A o \in disk : o.gen <= r.gen
  BY <1>3 DEF Span, Record
<1>5. Latest \in disk /\ \A o \in disk : o.gen <= Latest.gen
  BY <1>4, <1>3 DEF Latest
<1>6. Latest.gen = hi
  BY <1>3, <1>5 DEF Span, Record
<1>7. QED
  BY <1>2, <1>5, <1>6 DEF Span

\* The same of the oldest.
LEMMA OldestIs ==
  ASSUME disk \subseteq Record, NEW lo \in Nat, NEW hi \in Nat, Span(disk, lo, hi), disk # {}
  PROVE  Oldest \in disk /\ Oldest.gen = lo
<1>1. lo <= hi
  BY LatestIs
<1>2. PICK r \in disk : r.gen = lo
  BY <1>1 DEF Span
<1>3. \A o \in disk : r.gen <= o.gen
  BY <1>2 DEF Span, Record
<1>4. Oldest \in disk /\ \A o \in disk : Oldest.gen <= o.gen
  BY <1>3, <1>2 DEF Oldest
<1>5. QED
  BY <1>2, <1>4 DEF Span, Record

LEMMA LatestIn ==
  ASSUME TypeOK, Consecutive, disk # {}
  PROVE  Latest \in disk /\ Latest \in Record /\ \A r \in disk : r.gen <= Latest.gen
<1>1. disk \subseteq Record
  BY DEF TypeOK, Record
<1>2. PICK lo, hi \in Nat : Span(disk, lo, hi)
  BY DEF Consecutive
<1>3. Latest \in disk /\ Latest.gen = hi
  BY <1>1, <1>2, LatestIs
<1>4. QED
  BY <1>1, <1>2, <1>3 DEF Span, Record

LEMMA SameLatest == UNCHANGED disk => Latest' = Latest /\ (Consecutive => Consecutive')
  BY DEF Latest, Consecutive, Span

\* A record written with the number after the latest becomes the latest.
LEMMA PublishBooks ==
  ASSUME TypeOK, Consecutive, NEW w,
         w.gen \in Nat, w.rem \in SUBSET Item, w.known \in [Item -> Directory],
         disk # {} => Latest.gen = w.gen, PublishRecord(w)
  PROVE  /\ Consecutive' /\ disk' # {} /\ disk' \in SUBSET Record
         /\ Latest' = [gen |-> w.gen + 1, rem |-> w.rem, known |-> w.known]
<1> DEFINE new == [gen |-> w.gen + 1, rem |-> w.rem, known |-> w.known]
<1>1. disk \subseteq Record /\ new \in Record /\ new.gen = w.gen + 1
  BY DEF TypeOK, Record
<1>2. disk' = {r \in disk : r.gen # new.gen} \cup {new}
  BY DEF PublishRecord
<1>3. new \in disk' /\ disk' \in SUBSET Record
  BY <1>1, <1>2
<1> HIDE DEF new
<1>4. \E lo, hi \in Nat : Span(disk', lo, hi) /\ hi = w.gen + 1
  <2>1. CASE disk = {}
    <3>1. disk' = {new}
      BY <1>2, <2>1
    <3>2. Span(disk', w.gen + 1, w.gen + 1)
      BY <3>1, <1>1 DEF Span
    <3>3. QED
      BY <3>2
  <2>2. CASE disk # {}
    <3>1. PICK lo, hi \in Nat : Span(disk, lo, hi)
      BY DEF Consecutive
    <3>2. hi = w.gen /\ lo <= hi
      BY <3>1, <2>2, <1>1, LatestIs
    <3>3. \A r \in disk : r.gen # new.gen
      BY <3>1, <3>2, <1>1 DEF Span, Record
    <3>4. disk' = disk \cup {new}
      BY <1>2, <3>3
    <3>5. Span(disk', lo, w.gen + 1)
      <4>1. \A r \in disk' : r.gen \in lo..(w.gen + 1)
        BY <3>1, <3>2, <3>4, <1>1 DEF Span, Record
      <4>2. \A n \in lo..(w.gen + 1) : \E r \in disk' : r.gen = n
        BY <3>1, <3>2, <3>4, <1>1 DEF Span
      <4>3. \A r, o \in disk' : r.gen = o.gen => r = o
        BY <3>1, <3>3, <3>4 DEF Span
      <4>4. QED
        BY <4>1, <4>2, <4>3 DEF Span
    <3>6. QED
      BY <3>5
  <2>3. QED
    BY <2>1, <2>2
<1>5. PICK lo, hi \in Nat : Span(disk', lo, hi) /\ hi = new.gen
  BY <1>4, <1>1
<1>6. \A o \in disk' : o.gen <= new.gen /\ (o.gen >= new.gen => o = new)
  BY <1>5, <1>3 DEF Span, Record
<1>7. Latest' \in disk' /\ \A o \in disk' : o.gen <= (Latest').gen
  BY <1>3, <1>6 DEF Latest
<1>8. Latest' = new
  BY <1>3, <1>6, <1>7 DEF Record
<1>9. Consecutive'
  BY <1>4 DEF Consecutive, Span
<1>10. QED
  BY <1>3, <1>8, <1>9 DEF new

\* Removing the oldest record, or all older than one, leaves consecutive ones.
LEMMA UnlinkBooks ==
  ASSUME TypeOK, Consecutive, disk # {}, disk' = disk \ {Oldest}
  PROVE  Consecutive' /\ disk' \in SUBSET Record
<1>1. disk \subseteq Record
  BY DEF TypeOK, Record
<1>2. PICK lo, hi \in Nat : Span(disk, lo, hi)
  BY DEF Consecutive
<1>3. Oldest \in disk /\ Oldest.gen = lo
  BY <1>1, <1>2, OldestIs
<1>4. \A r \in disk' : r.gen \in (lo + 1)..hi
  BY <1>1, <1>2, <1>3 DEF Span, Record
<1>5. \A n \in (lo + 1)..hi : \E r \in disk' : r.gen = n
  <2>1. TAKE n \in (lo + 1)..hi
  <2>2. PICK r \in disk : r.gen = n
    BY <1>2 DEF Span
  <2>3. QED
    BY <1>3, <2>2
<1>6. \A r, o \in disk' : r.gen = o.gen => r = o
  BY <1>2 DEF Span
<1>7. Span(disk', lo + 1, hi)
  BY <1>4, <1>5, <1>6 DEF Span
<1>8. QED
  BY <1>1, <1>7 DEF Consecutive, Span

LEMMA DiscardBooks ==
  ASSUME TypeOK, Consecutive,
         \/ disk' = {}
         \/ \E first \in disk : disk' = {r \in disk : r.gen >= first.gen}
  PROVE  Consecutive' /\ disk' \in SUBSET Record
<1>1. disk \subseteq Record
  BY DEF TypeOK, Record
<1>2. CASE disk' = {}
  <2>1. Span(disk', 1, 0)
    BY <1>2 DEF Span
  <2>2. QED
    BY <2>1, <1>2 DEF Consecutive, Span
<1>3. CASE \E first \in disk : disk' = {r \in disk : r.gen >= first.gen}
  <2>1. PICK first \in disk : disk' = {r \in disk : r.gen >= first.gen}
    BY <1>3
  <2>2. PICK lo, hi \in Nat : Span(disk, lo, hi)
    BY DEF Consecutive
  <2>3. first.gen \in lo..hi /\ first.gen \in Nat
    BY <1>1, <2>2 DEF Span, Record
  <2>4. Span(disk', first.gen, hi)
    BY <1>1, <2>1, <2>2, <2>3 DEF Span, Record
  <2>5. QED
    BY <1>1, <2>1, <2>3, <2>4 DEF Consecutive, Span
<1>4. QED
  BY <1>2, <1>3

-----------------------------------------------------------------------------
(* What the updates of a worker's state give.                                *)

LEMMA StepGives ==
  ASSUME NEW S, NEW w \in Worker(S), NEW p \in S
  PROVE  LET v == [w EXCEPT !.pc = p]
         IN /\ v \in Worker(S) /\ v.pc = p /\ v.then = w.then
            /\ v.at = w.at /\ v.gen = w.gen /\ v.rem = w.rem /\ v.known = w.known
  BY DEF Worker

LEMMA PassedGives ==
  ASSUME NEW S, NEW w \in Worker(S), w.at \in Item
  PROVE  LET v == Passed(w)
         IN /\ v \in Worker(S) /\ v.pc = w.pc /\ v.then = w.then
            /\ v.at = w.at + 1 /\ v.gen = w.gen /\ v.rem = w.rem /\ v.known = w.known
  BY CleanupAssumption DEF Worker, Passed, Item

LEMMA RemovedGives ==
  ASSUME NEW S, NEW w \in Worker(S)
  PROVE  LET v == [w EXCEPT !.rem = @ \ {w.at}]
         IN /\ v \in Worker(S) /\ v.pc = w.pc /\ v.then = w.then
            /\ v.at = w.at /\ v.gen = w.gen /\ v.rem = w.rem \ {w.at} /\ v.known = w.known
  BY DEF Worker

LEMMA WriteGives ==
  ASSUME NEW S, NEW w \in Worker(S), "open" \in S, NEW n \in MakeSteps \cup CleanSteps
  PROVE  LET v == Write(w, n)
         IN /\ v \in Worker(S) /\ v.pc = "open" /\ v.then = n
            /\ v.at = w.at /\ v.gen = w.gen /\ v.rem = w.rem /\ v.known = w.known
  BY DEF Write, Worker

LEMMA NextGives ==
  ASSUME NEW S, NEW w \in Worker(S), w.at \in Item, "open" \in S,
         NEW n \in MakeSteps \cup CleanSteps
  PROVE  LET v == Write(Passed(w), n)
         IN /\ v \in Worker(S) /\ v.pc = "open" /\ v.then = n
            /\ v.at = w.at + 1 /\ v.gen = w.gen /\ v.rem = w.rem /\ v.known = w.known
<1>1. PICK u \in Worker(S) : /\ u = Passed(w)
                            /\ u.at = w.at + 1 /\ u.gen = w.gen
                            /\ u.rem = w.rem /\ u.known = w.known
  BY PassedGives
<1>2. QED
  BY <1>1, WriteGives

LEMMA RemovedNextGives ==
  ASSUME NEW S, NEW w \in Worker(S), w.at \in Item, "open" \in S,
         NEW n \in MakeSteps \cup CleanSteps
  PROVE  LET v == Write(Passed([w EXCEPT !.rem = @ \ {w.at}]), n)
         IN /\ v \in Worker(S) /\ v.pc = "open" /\ v.then = n
            /\ v.at = w.at + 1 /\ v.gen = w.gen /\ v.rem = w.rem \ {w.at} /\ v.known = w.known
<1> DEFINE u == [w EXCEPT !.rem = @ \ {w.at}]
<1>1. u \in Worker(S) /\ u.at = w.at /\ u.gen = w.gen /\ u.rem = w.rem \ {w.at} /\ u.known = w.known
  BY RemovedGives
<1> HIDE DEF u
<1>2. LET v == Write(Passed(u), n)
      IN /\ v \in Worker(S) /\ v.pc = "open" /\ v.then = n
         /\ v.at = w.at + 1 /\ v.gen = w.gen /\ v.rem = w.rem \ {w.at} /\ v.known = w.known
  BY <1>1, NextGives
<1>3. QED
  BY <1>2 DEF u

LEMMA PublishedGives ==
  ASSUME NEW S, NEW w \in Worker(S), w.then \in S
  PROVE  LET v == Published(w)
         IN /\ v \in Worker(S) /\ v.pc = w.then /\ v.then = w.then
            /\ v.at = w.at /\ v.gen = w.gen + 1 /\ v.rem = w.rem /\ v.known = w.known
<1> DEFINE g == w.gen + 1
<1>1. g \in Nat
  BY DEF Worker
<1> HIDE DEF g
<1>2. PICK next \in S : next = w.then
  OBVIOUS
<1> DEFINE v == [w EXCEPT !.pc = next, !.gen = g]
<1>3. /\ v \in Worker(S) /\ v.pc = next /\ v.then = w.then
      /\ v.at = w.at /\ v.gen = g /\ v.rem = w.rem /\ v.known = w.known
  BY <1>1 DEF Worker
<1>4. Published(w) = v
  BY <1>2 DEF Published, g
<1>5. QED
  BY <1>2, <1>3, <1>4 DEF g

LEMMA StoppedGives ==
  ASSUME NEW S, NEW w \in Worker(S)
  PROVE  LET v == [w EXCEPT !.stop = TRUE]
         IN /\ v \in Worker(S) /\ v.pc = w.pc /\ v.then = w.then
            /\ v.at = w.at /\ v.gen = w.gen /\ v.rem = w.rem /\ v.known = w.known
  BY DEF Worker

LEMMA RecordedGives ==
  ASSUME NEW w \in Worker(MakeSteps), w.at \in Item, original[w.at] \in Directory
  PROVE  LET v == Recorded(w)
         IN /\ v \in Worker(MakeSteps) /\ v.pc = "open" /\ v.then = "move"
            /\ v.at = w.at /\ v.gen = w.gen /\ v.rem = w.rem \cup {w.at}
<1> DEFINE known == [w.known EXCEPT ![w.at] = original[w.at]]
           u == [w EXCEPT !.rem = @ \cup {w.at}, !.known = known]
<1>1. known \in [Item -> Directory]
  BY DEF Worker
<1>2. [w EXCEPT !.rem = @ \cup {w.at}, !.known[w.at] = original[w.at]] = u
  OBVIOUS
<1> HIDE DEF known
<1>3. /\ u \in Worker(MakeSteps)
      /\ u.at = w.at /\ u.gen = w.gen /\ u.rem = w.rem \cup {w.at}
  BY <1>1 DEF Worker
<1> HIDE DEF u
<1>4. Recorded(w) = Write(u, "move")
  BY <1>2 DEF Recorded
<1>5. QED
  BY <1>3, <1>4, WriteGives DEF MakeSteps, CleanSteps

LEMMA IdleGives ==
  /\ Idle \in Worker(MakeSteps) /\ Idle \in Worker(CleanSteps)
  /\ Idle.pc = "idle"
  BY CleanupAssumption DEF Idle, Worker, MakeSteps, CleanSteps, Item, Directory

LEMMA SpendGives ==
  ASSUME TypeOK, NEW k \in {"crash", "fault", "stranger", "retry"}, Spend(k)
  PROVE  budget' \in [{"crash", "fault", "stranger", "retry"} -> Nat]
  BY DEF TypeOK, Spend

LEMMA ToEndGives ==
  ASSUME NEW S, NEW w \in Worker(S)
  PROVE  LET v == [w EXCEPT !.at = Last + 1]
         IN /\ v \in Worker(S) /\ v.pc = w.pc /\ v.then = w.then
            /\ v.at = Last + 1 /\ v.gen = w.gen /\ v.rem = w.rem /\ v.known = w.known
<1> DEFINE end == Last + 1
<1>1. end \in 1..(Last + 1)
  BY CleanupAssumption
<1> HIDE DEF end
<1>2. LET v == [w EXCEPT !.at = end]
      IN /\ v \in Worker(S) /\ v.pc = w.pc /\ v.then = w.then
         /\ v.at = end /\ v.gen = w.gen /\ v.rem = w.rem /\ v.known = w.known
  BY <1>1 DEF Worker
<1>3. QED
  BY <1>2 DEF end

\* The deletion of what was not moved begins.
LEMMA OrdinaryGives ==
  ASSUME NEW w \in Worker(MakeSteps)
  PROVE  /\ GiveUp(w) \in Worker(MakeSteps) /\ GiveUp(w).pc = "ordinary"
         /\ Created(w) \in Worker(MakeSteps) /\ Created(w).pc = "ordinary"
<1> DEFINE Begun(rem) == [w EXCEPT !.pc = "ordinary", !.then = "idle", !.at = 1, !.rem = rem]
<1>1. ASSUME NEW rem \in SUBSET Item
      PROVE  Begun(rem) \in Worker(MakeSteps) /\ Begun(rem).pc = "ordinary"
  <2>1. 1 \in 1..(Last + 1)
    BY CleanupAssumption
  <2>2. PICK one \in 1..(Last + 1) : one = 1
    BY <2>1
  <2>3. [w EXCEPT !.pc = "ordinary", !.then = "idle", !.at = one, !.rem = rem] \in Worker(MakeSteps)
    BY DEF Worker, MakeSteps, CleanSteps
  <2>4. QED
    BY <2>2, <2>3 DEF Worker
<1>2. w.rem \in SUBSET Item
  BY DEF Worker
<1>3. GiveUp(w) = Begun({}) /\ Created(w) = Begun({i \in w.rem : payload[i] # 0})
  BY DEF GiveUp, Created
<1> HIDE DEF Begun
<1>4. QED
  BY <1>1, <1>2, <1>3

-----------------------------------------------------------------------------
(* The deleting worker.                                                      *)

LEMMA Places ==
  /\ {"idle", "inspect", "move", "open", "publish", "ordinary"} \subseteq MakeSteps
  /\ {"idle", "reconcile", "redo", "open", "publish", "sweep", "erase", "unlink"}
       \subseteq CleanSteps
  BY DEF MakeSteps, CleanSteps

LEMMA WorkersTyped ==
  CleanupInv => /\ make \in Worker(MakeSteps) /\ make.pc \in MakeSteps /\ make.rem \subseteq Item
                /\ make.at \in 1..(Last + 1) /\ make.gen \in Nat
                /\ make.known \in [Item -> Directory]
                /\ clean \in Worker(CleanSteps) /\ clean.pc \in CleanSteps
                /\ clean.rem \subseteq Item
                /\ clean.at \in 1..(Last + 1) /\ clean.gen \in Nat
                /\ clean.known \in [Item -> Directory]
  BY DEF CleanupInv, TypeOK, Worker

\* What the steps of the deleting worker leave alone.
LEMMA MakeFrame ==
  ASSUME CleanupInv, make.pc # "idle", UNCHANGED <<clean, due, scan, up, folder>>
  PROVE  Turns' /\ CleanInStep'
  BY DEF CleanupInv, Turns, CleanInStep, Cleaning

LEMMA MakeTyped ==
  ASSUME CleanupInv, make' \in Worker(MakeSteps), UNCHANGED <<files, records, clean, app>>,
         UNCHANGED budget \/ Spend("fault")
  PROVE  TypeOK'
<1>1. budget' \in [{"crash", "fault", "stranger", "retry"} -> Nat]
  BY SpendGives DEF CleanupInv, TypeOK
<1>2. QED
  BY <1>1 DEF CleanupInv, TypeOK, files, records, app

\* A step that only prepares the worker's next record.
LEMMA MakeOnly ==
  ASSUME CleanupInv, make.pc # "idle", make' \in Worker(MakeSteps),
         UNCHANGED <<files, records, clean, app>>, UNCHANGED budget \/ Spend("fault"),
         MakeInStep'
  PROVE  CleanupInv'
<1>1. TypeOK'
  BY MakeTyped
<1>2. Turns' /\ CleanInStep'
  BY MakeFrame DEF app, records
<1>3. Consecutive' /\ Latest' = Latest
  BY SameLatest DEF CleanupInv, records
<1>4. PayloadTracked'
  BY <1>3 DEF CleanupInv, PayloadTracked, files, records
<1>5. QED
  BY <1>1, <1>2, <1>3, <1>4 DEF CleanupInv

LEMMA MakeOpensKeeps == CleanupInv /\ MakeOpens => CleanupInv'
<1> SUFFICES ASSUME CleanupInv, MakeOpens PROVE CleanupInv'
  OBVIOUS
<1>1. /\ make' \in Worker(MakeSteps) /\ make'.pc = "publish" /\ make'.then = make.then
      /\ make'.at = make.at /\ make'.gen = make.gen /\ make'.rem = make.rem
  BY WorkersTyped, Places, StepGives DEF MakeOpens, Opened
<1>2. TypeOK'
  <2>1. leftover' \in SUBSET Nat
    <3>1. make.gen + 1 \in Nat
      BY WorkersTyped
    <3>2. leftover \in SUBSET Nat
      BY DEF CleanupInv, TypeOK
    <3>3. QED
      BY <3>1, <3>2 DEF MakeOpens, OpenTemporary
  <2>2. QED
    BY <1>1, <2>1 DEF MakeOpens, CleanupInv, TypeOK, files, app
<1>3. Turns' /\ CleanInStep'
  BY MakeFrame DEF MakeOpens, app
<1>4. Consecutive' /\ Latest' = Latest
  BY SameLatest DEF CleanupInv, MakeOpens
<1>5. PayloadTracked'
  BY <1>4 DEF CleanupInv, PayloadTracked, MakeOpens, files
<1>6. MakeInStep'
  BY <1>1, <1>4 DEF CleanupInv, MakeInStep, Making, MakeOpens, files
<1>7. QED
  BY <1>2, <1>3, <1>4, <1>5, <1>6 DEF CleanupInv

LEMMA MakePublishesKeeps == CleanupInv /\ MakePublishes => CleanupInv'
<1> SUFFICES ASSUME CleanupInv, MakePublishes PROVE CleanupInv'
  OBVIOUS
<1>1. make.then \in {"inspect", "move"} /\ (disk # {} => Latest.gen = make.gen)
  BY DEF CleanupInv, MakeInStep, Making, MakePublishes
<1>2. /\ make' \in Worker(MakeSteps) /\ make'.pc = make.then /\ make'.then = make.then
      /\ make'.at = make.at /\ make'.gen = make.gen + 1 /\ make'.rem = make.rem
  BY <1>1, WorkersTyped, Places, PublishedGives DEF MakePublishes
<1>3. /\ Consecutive' /\ disk' # {} /\ disk' \in SUBSET Record
      /\ Latest' = [gen |-> make.gen + 1, rem |-> make.rem, known |-> make.known]
  BY <1>1, WorkersTyped, PublishBooks DEF CleanupInv, MakePublishes
<1>4. (Latest').gen = make'.gen /\ (Latest').rem = make'.rem
  BY <1>2, <1>3
<1>5. TypeOK'
  BY <1>2, <1>3 DEF MakePublishes, PublishRecord, CleanupInv, TypeOK, Record, files, app
<1>6. Turns' /\ CleanInStep'
  BY MakeFrame DEF MakePublishes, app
<1>7. MakeInStep'
  BY <1>1, <1>2, <1>3, <1>4 DEF CleanupInv, MakeInStep, Making, MakePublishes, files
<1>8. PayloadTracked'
  BY <1>2, <1>3, <1>4 DEF CleanupInv, PayloadTracked, MakeInStep, Making, MakePublishes, files
<1>9. QED
  BY <1>3, <1>5, <1>6, <1>7, <1>8 DEF CleanupInv

LEMMA MakeCannotWriteKeeps == CleanupInv /\ MakeCannotWrite => CleanupInv'
<1> SUFFICES ASSUME CleanupInv, MakeCannotWrite PROVE CleanupInv'
  OBVIOUS
<1>1. make' \in Worker(MakeSteps) /\ make'.pc = "ordinary"
  BY WorkersTyped, OrdinaryGives DEF MakeCannotWrite
<1>2. MakeInStep'
  BY <1>1 DEF MakeInStep, Making
<1>3. QED
  BY <1>1, <1>2, MakeOnly DEF MakeCannotWrite, WriteFails

LEMMA InspectKeeps == CleanupInv /\ Inspect => CleanupInv'
<1> SUFFICES ASSUME CleanupInv, Inspect PROVE CleanupInv'
  OBVIOUS
<1>1. original[make.at] \in Directory
  BY DEF CleanupInv, TypeOK, Inspect
<1>2. /\ make' \in Worker(MakeSteps) /\ make'.pc = "open" /\ make'.then = "move"
      /\ make'.at = make.at /\ make'.gen = make.gen /\ make'.rem = make.rem \cup {make.at}
  BY <1>1, WorkersTyped, RecordedGives DEF Inspect
<1>3. Latest' = Latest
  BY SameLatest DEF Inspect, records
<1>4. MakeInStep'
  BY <1>2, <1>3 DEF CleanupInv, MakeInStep, Making, Inspect, files, records
<1>5. QED
  BY <1>2, <1>4, MakeOnly DEF Inspect

LEMMA InspectFailsKeeps == CleanupInv /\ InspectFails => CleanupInv'
<1> SUFFICES ASSUME CleanupInv, InspectFails PROVE CleanupInv'
  OBVIOUS
<1>1. make' = Write(Passed(make), "inspect")
  BY DEF InspectFails, Passed
<1>2. /\ make' \in Worker(MakeSteps) /\ make'.pc = "open" /\ make'.then = "inspect"
      /\ make'.at = make.at + 1 /\ make'.gen = make.gen /\ make'.rem = make.rem
  BY <1>1, WorkersTyped, Places, NextGives DEF InspectFails
<1>3. Latest' = Latest
  BY SameLatest DEF InspectFails, records
<1>4. MakeInStep'
  BY <1>2, <1>3, WorkersTyped DEF CleanupInv, MakeInStep, Making, InspectFails, Item, files, records
<1>5. QED
  BY <1>2, <1>4, MakeOnly DEF InspectFails

LEMMA InspectStoppedKeeps == CleanupInv /\ InspectStopped => CleanupInv'
<1> SUFFICES ASSUME CleanupInv, InspectStopped PROVE CleanupInv'
  OBVIOUS
<1>1. /\ make' \in Worker(MakeSteps) /\ make'.pc = "open" /\ make'.then = "inspect"
      /\ make'.at = Last + 1 /\ make'.gen = make.gen /\ make'.rem = make.rem
  <2> DEFINE u == [make EXCEPT !.at = Last + 1]
  <2>1. u \in Worker(MakeSteps) /\ u.at = Last + 1 /\ u.gen = make.gen /\ u.rem = make.rem
    BY WorkersTyped, ToEndGives
  <2>2. make' = Write(u, "inspect")
    BY DEF InspectStopped
  <2> HIDE DEF u
  <2>3. LET v == Write(u, "inspect")
        IN /\ v \in Worker(MakeSteps) /\ v.pc = "open" /\ v.then = "inspect"
           /\ v.at = u.at /\ v.gen = u.gen /\ v.rem = u.rem
    BY <2>1, Places, WriteGives
  <2>4. QED
    BY <2>1, <2>2, <2>3
<1>2. Latest' = Latest
  BY SameLatest DEF InspectStopped, records
<1>3. \A i \in Item : i < Last + 1
  BY CleanupAssumption DEF Item
<1>4. MakeInStep'
  BY <1>1, <1>2, <1>3 DEF CleanupInv, MakeInStep, Making, InspectStopped, files, records
<1>5. QED
  BY <1>1, <1>4, MakeOnly DEF InspectStopped

LEMMA InspectedAllKeeps == CleanupInv /\ InspectedAll => CleanupInv'
<1> SUFFICES ASSUME CleanupInv, InspectedAll PROVE CleanupInv'
  OBVIOUS
<1>1. make' \in Worker(MakeSteps) /\ make'.pc = "ordinary"
  BY WorkersTyped, OrdinaryGives DEF InspectedAll
<1>2. MakeInStep'
  BY <1>1 DEF MakeInStep, Making
<1>3. QED
  BY <1>1, <1>2, MakeOnly DEF InspectedAll

\* The latest record names the directory before it is moved.
LEMMA MoveKeeps == CleanupInv /\ Move => CleanupInv'
<1> SUFFICES ASSUME CleanupInv, Move PROVE CleanupInv'
  OBVIOUS
<1>1. make.at \in make.rem /\ make.at \in Item /\ disk # {} /\ Latest.rem = make.rem
  BY WorkersTyped DEF CleanupInv, MakeInStep, Move
<1>2. make' = Write(Passed(make), "inspect")
  BY DEF Move, Passed
<1>3. /\ make' \in Worker(MakeSteps) /\ make'.pc = "open" /\ make'.then = "inspect"
      /\ make'.at = make.at + 1 /\ make'.gen = make.gen /\ make'.rem = make.rem
  BY <1>1, <1>2, WorkersTyped, Places, NextGives
<1>4. Consecutive' /\ Latest' = Latest
  BY SameLatest DEF CleanupInv, Move, records
<1>5. \A i \in Item : i # make.at => payload'[i] = payload[i]
  BY DEF CleanupInv, TypeOK, Move
<1>6. TypeOK'
  <2>1. original[make.at] \in Directory /\ 0 \in Directory
    BY <1>1 DEF CleanupInv, TypeOK, Directory
  <2>2. original' \in [Item -> Directory] /\ payload' \in [Item -> Directory]
    BY <2>1 DEF CleanupInv, TypeOK, Move
  <2>3. QED
    BY <1>3, <2>2 DEF CleanupInv, TypeOK, Move, records, app
<1>7. Turns' /\ CleanInStep'
  BY MakeFrame DEF Move, app, records
<1>8. PayloadTracked'
  BY <1>1, <1>4, <1>5 DEF CleanupInv, PayloadTracked, Move, records
<1>9. MakeInStep'
  <2>1. \A i \in Item : payload'[i] # 0 => i \in make'.rem /\ i < make'.at
    BY <1>1, <1>3, <1>5 DEF CleanupInv, MakeInStep, Making, Move, Item
  <2>2. disk' # {} => (Latest').gen = make'.gen
    BY <1>3, <1>4 DEF CleanupInv, MakeInStep, Making, Move, records
  <2>3. QED
    BY <1>3, <2>1, <2>2 DEF MakeInStep, Making
<1>10. QED
  BY <1>4, <1>6, <1>7, <1>8, <1>9 DEF CleanupInv

LEMMA MoveRefusedKeeps == CleanupInv /\ MoveRefused => CleanupInv'
<1> SUFFICES ASSUME CleanupInv, MoveRefused PROVE CleanupInv'
  OBVIOUS
<1>1. make.at \in Item
  BY WorkersTyped DEF CleanupInv, MakeInStep, MoveRefused
<1>2. make' = Write(Passed([make EXCEPT !.rem = @ \ {make.at}]), "inspect")
  BY DEF MoveRefused, Passed
<1>3. /\ make' \in Worker(MakeSteps) /\ make'.pc = "open" /\ make'.then = "inspect"
      /\ make'.at = make.at + 1 /\ make'.gen = make.gen /\ make'.rem = make.rem \ {make.at}
  BY <1>1, <1>2, WorkersTyped, Places, RemovedNextGives
<1>4. Latest' = Latest
  BY SameLatest DEF MoveRefused, records
<1>5. MakeInStep'
  BY <1>1, <1>3, <1>4 DEF CleanupInv, MakeInStep, Making, MoveRefused, Item, files, records
<1>6. QED
  BY <1>3, <1>5, MakeOnly DEF MoveRefused

LEMMA DeleteOrdinarilyKeeps == CleanupInv /\ DeleteOrdinarily => CleanupInv'
<1> SUFFICES ASSUME CleanupInv, DeleteOrdinarily PROVE CleanupInv'
  OBVIOUS
<1>1. make' = Passed(make) /\ make.at \in Item
  BY DEF DeleteOrdinarily, Passed
<1>2. make' \in Worker(MakeSteps) /\ make'.pc = "ordinary"
  BY <1>1, WorkersTyped, PassedGives DEF DeleteOrdinarily
<1>3. Consecutive' /\ Latest' = Latest
  BY SameLatest DEF CleanupInv, DeleteOrdinarily, records
<1>4. TypeOK'
  <2>1. original' \in [Item -> Directory]
    BY DEF CleanupInv, TypeOK, DeleteOrdinarily, Directory
  <2>2. QED
    BY <1>2, <2>1 DEF CleanupInv, TypeOK, DeleteOrdinarily, records, app
<1>5. Turns' /\ CleanInStep'
  BY MakeFrame DEF DeleteOrdinarily, app, records
<1>6. PayloadTracked' /\ MakeInStep'
  BY <1>2, <1>3 DEF CleanupInv, PayloadTracked, MakeInStep, Making, DeleteOrdinarily, records
<1>7. QED
  BY <1>3, <1>4, <1>5, <1>6 DEF CleanupInv

LEMMA CommitKeeps == CleanupInv /\ Commit => CleanupInv'
<1> SUFFICES ASSUME CleanupInv, Commit PROVE CleanupInv'
  OBVIOUS
<1>1. make' \in Worker(MakeSteps) /\ make'.pc = "idle"
  BY IdleGives DEF Commit
<1>2. Consecutive' /\ Latest' = Latest
  BY SameLatest DEF CleanupInv, Commit, records
<1>3. TypeOK'
  BY <1>1 DEF CleanupInv, TypeOK, Commit, files, records
<1>4. Turns'
  BY <1>1 DEF CleanupInv, Turns, Commit, files, records
<1>5. PayloadTracked' /\ MakeInStep'
  BY <1>1, <1>2 DEF CleanupInv, PayloadTracked, MakeInStep, Making, Commit, files, records
<1>6. CleanInStep'
  BY DEF CleanupInv, Turns, CleanInStep, Cleaning, Commit
<1>7. QED
  BY <1>2, <1>3, <1>4, <1>5, <1>6 DEF CleanupInv

LEMMA MakeStepKeeps == CleanupInv /\ MakeStep => CleanupInv'
  BY MakeOpensKeeps, MakePublishesKeeps, MakeCannotWriteKeeps, InspectKeeps, InspectFailsKeeps,
     InspectStoppedKeeps, InspectedAllKeeps, MoveKeeps, MoveRefusedKeeps, DeleteOrdinarilyKeeps,
     CommitKeeps
     DEF MakeStep

-----------------------------------------------------------------------------
(* The clean-up worker.                                                      *)

LEMMA CleanFrame ==
  ASSUME CleanupInv, clean.pc # "idle", UNCHANGED <<make, scan, up, folder>>,
         disk' = disk \/ folder,
         \/ UNCHANGED due
         \/ clean'.pc = "idle" /\ due' \in {"done", "failed", "cancelled"}
  PROVE  Turns' /\ MakeInStep'
  BY DEF CleanupInv, Turns, MakeInStep, Making

\* A worker at work has its task's directory.
LEMMA CleanHasFolder == CleanupInv /\ clean.pc # "idle" => folder
  BY DEF CleanupInv, Turns

LEMMA CleanTyped ==
  ASSUME CleanupInv, clean' \in Worker(CleanSteps), UNCHANGED <<files, records, make, app>>,
         UNCHANGED budget \/ Spend("fault")
  PROVE  TypeOK'
<1>1. budget' \in [{"crash", "fault", "stranger", "retry"} -> Nat]
  BY SpendGives DEF CleanupInv, TypeOK
<1>2. QED
  BY <1>1 DEF CleanupInv, TypeOK, files, records, app

LEMMA CleanOnly ==
  ASSUME CleanupInv, clean.pc # "idle", clean' \in Worker(CleanSteps),
         UNCHANGED <<files, records, make, app>>, UNCHANGED budget \/ Spend("fault"),
         CleanInStep'
  PROVE  CleanupInv'
<1>1. TypeOK'
  BY CleanTyped
<1>2. Turns' /\ MakeInStep'
  BY CleanFrame DEF app, records
<1>3. Consecutive' /\ Latest' = Latest
  BY SameLatest DEF CleanupInv, records
<1>4. PayloadTracked'
  BY <1>3 DEF CleanupInv, PayloadTracked, files, records
<1>5. QED
  BY <1>1, <1>2, <1>3, <1>4 DEF CleanupInv

\* The worker gives the task back and leaves files and records as they are.
LEMMA EndKeeps ==
  ASSUME CleanupInv, clean.pc # "idle", Ended("failed"),
         UNCHANGED <<files, records, make, scan, up>>,
         UNCHANGED budget \/ Spend("fault")
  PROVE  CleanupInv'
<1>1. clean' \in Worker(CleanSteps) /\ clean'.pc = "idle" /\ due' = "failed"
  BY IdleGives DEF Ended
<1>2. budget' \in [{"crash", "fault", "stranger", "retry"} -> Nat]
  BY SpendGives DEF CleanupInv, TypeOK
<1>3. TypeOK'
  BY <1>1, <1>2 DEF CleanupInv, TypeOK, files, records
<1>4. Turns' /\ MakeInStep'
  BY <1>1, CleanFrame DEF records
<1>5. Consecutive' /\ Latest' = Latest
  BY SameLatest DEF CleanupInv, records
<1>6. PayloadTracked' /\ CleanInStep'
  BY <1>1, <1>5 DEF CleanupInv, PayloadTracked, CleanInStep, Cleaning, files, records
<1>7. QED
  BY <1>3, <1>4, <1>5, <1>6 DEF CleanupInv

\* The worker writes its record before it goes on, or ends.
LEMMA CleanWrites ==
  ASSUME CleanupInv, NEW n \in CleanSteps, clean' = Write(clean, n)
  PROVE  /\ clean' \in Worker(CleanSteps) /\ clean'.pc = "open" /\ clean'.then = n
         /\ clean'.at = clean.at /\ clean'.gen = clean.gen
         /\ clean'.rem = clean.rem /\ clean'.known = clean.known
<1>1. clean \in Worker(CleanSteps) /\ "open" \in CleanSteps /\ n \in MakeSteps \cup CleanSteps
  BY WorkersTyped, Places
<1>2. LET v == Write(clean, n)
      IN /\ v \in Worker(CleanSteps) /\ v.pc = "open" /\ v.then = n
         /\ v.at = clean.at /\ v.gen = clean.gen /\ v.rem = clean.rem /\ v.known = clean.known
  BY <1>1, WriteGives
<1>3. QED
  BY <1>2

LEMMA ClaimGives ==
  ASSUME NEW r \in Record
  PROVE  LET v == [Idle EXCEPT !.pc = "reconcile", !.gen = r.gen, !.rem = r.rem, !.known = r.known]
         IN /\ v \in Worker(CleanSteps) /\ v.pc = "reconcile"
            /\ v.gen = r.gen /\ v.rem = r.rem /\ v.known = r.known
<1>1. PICK g \in Nat, rem \in SUBSET Item, known \in [Item -> Directory] :
        g = r.gen /\ rem = r.rem /\ known = r.known
  BY DEF Record
<1>2. PICK w \in Worker(CleanSteps) : w = Idle
  BY IdleGives
<1>3. LET v == [w EXCEPT !.pc = "reconcile", !.gen = g, !.rem = rem, !.known = known]
      IN /\ v \in Worker(CleanSteps) /\ v.pc = "reconcile"
         /\ v.gen = g /\ v.rem = rem /\ v.known = known
  BY DEF Worker, CleanSteps
<1>4. QED
  BY <1>1, <1>2, <1>3

LEMMA ClaimKeeps == CleanupInv /\ Claim => CleanupInv'
<1> SUFFICES ASSUME CleanupInv, Claim PROVE CleanupInv'
  OBVIOUS
<1>1. Latest \in Record
  BY LatestIn DEF CleanupInv, Claim
<1>2. /\ clean' \in Worker(CleanSteps) /\ clean'.pc = "reconcile"
      /\ clean'.gen = Latest.gen /\ clean'.rem = Latest.rem /\ clean'.known = Latest.known
  BY <1>1, ClaimGives DEF Claim
<1>3. Consecutive' /\ Latest' = Latest
  BY SameLatest DEF CleanupInv, Claim, records
<1>4. TypeOK'
  BY <1>2 DEF CleanupInv, TypeOK, Claim, files, records
<1>5. Turns' /\ MakeInStep'
  BY DEF CleanupInv, Turns, MakeInStep, Making, Claim, files, records
<1>6. PayloadTracked' /\ CleanInStep'
  BY <1>2, <1>3 DEF CleanupInv, PayloadTracked, CleanInStep, Cleaning, Claim, files, records
<1>7. QED
  BY <1>3, <1>4, <1>5, <1>6 DEF CleanupInv

LEMMA ClaimNothingKeeps == CleanupInv /\ ClaimNothing => CleanupInv'
<1> SUFFICES ASSUME CleanupInv, ClaimNothing PROVE CleanupInv'
  OBVIOUS
<1>1. Consecutive' /\ Latest' = Latest
  BY SameLatest DEF CleanupInv, ClaimNothing, records
<1>2. TypeOK'
  BY DEF CleanupInv, TypeOK, ClaimNothing, files, records
<1>3. Turns' /\ MakeInStep'
  BY DEF CleanupInv, Turns, MakeInStep, Making, ClaimNothing, files, records
<1>4. PayloadTracked' /\ CleanInStep'
  BY <1>1 DEF CleanupInv, PayloadTracked, CleanInStep, Cleaning, ClaimNothing, files, records
<1>5. QED
  BY <1>1, <1>2, <1>3, <1>4 DEF CleanupInv

LEMMA ReconcileKeepsKeeps == CleanupInv /\ ReconcileKeeps => CleanupInv'
<1> SUFFICES ASSUME CleanupInv, ReconcileKeeps PROVE CleanupInv'
  OBVIOUS
<1>1. /\ clean' \in Worker(CleanSteps) /\ clean'.pc = "reconcile"
      /\ clean'.at = clean.at + 1 /\ clean'.gen = clean.gen /\ clean'.rem = clean.rem
      /\ clean'.known = clean.known
  BY WorkersTyped, PassedGives DEF ReconcileKeeps
<1>2. Latest' = Latest
  BY SameLatest DEF ReconcileKeeps, records
<1>3. CleanInStep'
  BY <1>1, <1>2 DEF CleanupInv, CleanInStep, Cleaning, ReconcileKeeps, files, records
<1>4. QED
  BY <1>1, <1>3, CleanOnly DEF ReconcileKeeps

LEMMA ReconcileRedoesKeeps == CleanupInv /\ ReconcileRedoes => CleanupInv'
<1> SUFFICES ASSUME CleanupInv, ReconcileRedoes PROVE CleanupInv'
  OBVIOUS
<1>1. /\ clean' \in Worker(CleanSteps) /\ clean'.pc = "redo"
      /\ clean'.at = clean.at /\ clean'.gen = clean.gen /\ clean'.rem = clean.rem
      /\ clean'.known = clean.known
  BY WorkersTyped, Places, StepGives DEF ReconcileRedoes
<1>2. Latest' = Latest
  BY SameLatest DEF ReconcileRedoes, records
<1>3. CleanInStep'
  BY <1>1, <1>2 DEF CleanupInv, CleanInStep, Cleaning, ReconcileRedoes, files, records
<1>4. QED
  BY <1>1, <1>3, CleanOnly DEF ReconcileRedoes

\* What is found nowhere may be forgotten.
LEMMA ReconcileDropsKeeps == CleanupInv /\ ReconcileDrops => CleanupInv'
<1> SUFFICES ASSUME CleanupInv, ReconcileDrops PROVE CleanupInv'
  OBVIOUS
<1>1. clean.at \in Item
  BY WorkersTyped DEF ReconcileDrops
<1> DEFINE u == [clean EXCEPT !.rem = @ \ {clean.at}]
<1>2. /\ u \in Worker(CleanSteps) /\ u.pc = "reconcile" /\ u.at = clean.at
      /\ u.gen = clean.gen /\ u.rem = clean.rem \ {clean.at} /\ u.known = clean.known
  BY WorkersTyped, RemovedGives DEF ReconcileDrops
<1>3. clean' = Passed(u)
  BY DEF ReconcileDrops
<1> HIDE DEF u
<1>4. /\ clean' \in Worker(CleanSteps) /\ clean'.pc = "reconcile"
      /\ clean'.gen = clean.gen /\ clean'.rem = clean.rem \ {clean.at}
  BY <1>1, <1>2, <1>3, PassedGives
<1>5. Latest' = Latest
  BY SameLatest DEF ReconcileDrops, records
<1>6. CleanInStep'
  BY <1>4, <1>5 DEF CleanupInv, CleanInStep, Cleaning, ReconcileDrops, files, records
<1>7. QED
  BY <1>4, <1>6, CleanOnly DEF ReconcileDrops

\* The rename done late is of a directory the record names.
LEMMA RedoKeeps == CleanupInv /\ Redo => CleanupInv'
<1> SUFFICES ASSUME CleanupInv, Redo PROVE CleanupInv'
  OBVIOUS
<1>1. clean.at \in clean.rem /\ clean.at \in Item /\ clean.rem \subseteq Latest.rem /\ disk # {}
  BY WorkersTyped DEF CleanupInv, CleanInStep, Cleaning, Redo
<1> DEFINE u == Passed(clean)
<1>2. /\ u \in Worker(CleanSteps) /\ u.then = clean.then
      /\ u.gen = clean.gen /\ u.rem = clean.rem /\ u.known = clean.known
  BY <1>1, WorkersTyped, PassedGives
<1>3. clean' = [u EXCEPT !.pc = "reconcile"]
  BY DEF Redo
<1> HIDE DEF u
<1>4. /\ clean' \in Worker(CleanSteps) /\ clean'.pc = "reconcile"
      /\ clean'.gen = clean.gen /\ clean'.rem = clean.rem
  BY <1>2, <1>3, Places, StepGives
<1>5. Consecutive' /\ Latest' = Latest
  BY SameLatest DEF CleanupInv, Redo, records
<1>6. original' \in [Item -> Directory] /\ payload' \in [Item -> Directory]
  <2>1. original[clean.at] \in Directory /\ 0 \in Directory
    BY <1>1 DEF CleanupInv, TypeOK, Directory
  <2>2. QED
    BY <2>1 DEF CleanupInv, TypeOK, Redo
<1>7. budget' \in [{"crash", "fault", "stranger", "retry"} -> Nat]
  BY SpendGives DEF CleanupInv, TypeOK, Redo
<1>8. TypeOK'
  BY <1>4, <1>6, <1>7 DEF CleanupInv, TypeOK, Redo, records, app
<1>9. Turns' /\ MakeInStep'
  BY CleanFrame DEF Redo, app, records
<1>10. \A i \in Item : i # clean.at => payload'[i] = payload[i]
  BY DEF CleanupInv, TypeOK, Redo
<1>11. PayloadTracked' /\ CleanInStep'
  BY <1>1, <1>4, <1>5, <1>10 DEF CleanupInv, PayloadTracked, CleanInStep, Cleaning, Redo, records
<1>12. QED
  BY <1>5, <1>8, <1>9, <1>11 DEF CleanupInv

LEMMA ReconciledKeeps == CleanupInv /\ Reconciled => CleanupInv'
<1> SUFFICES ASSUME CleanupInv, Reconciled PROVE CleanupInv'
  OBVIOUS
<1> DEFINE u == [clean EXCEPT !.at = 1]
<1>1. /\ u \in Worker(CleanSteps) /\ u.gen = clean.gen /\ u.rem = clean.rem
  <2>1. PICK one \in 1..(Last + 1) : one = 1
    BY CleanupAssumption
  <2>2. LET v == [clean EXCEPT !.at = one]
        IN v \in Worker(CleanSteps) /\ v.gen = clean.gen /\ v.rem = clean.rem
    BY WorkersTyped DEF Worker
  <2>3. QED
    BY <2>1, <2>2
<1>2. clean' = Write(u, "sweep")
  BY DEF Reconciled
<1> HIDE DEF u
<1>3. /\ clean' \in Worker(CleanSteps) /\ clean'.pc = "open" /\ clean'.then = "sweep"
      /\ clean'.gen = clean.gen /\ clean'.rem = clean.rem
  <2>1. LET v == Write(u, "sweep")
        IN /\ v \in Worker(CleanSteps) /\ v.pc = "open" /\ v.then = "sweep"
           /\ v.gen = u.gen /\ v.rem = u.rem
    BY <1>1, Places, WriteGives
  <2>2. QED
    BY <1>1, <1>2, <2>1
<1>4. Latest' = Latest
  BY SameLatest DEF Reconciled, records
<1>5. CleanInStep'
  BY <1>3, <1>4 DEF CleanupInv, CleanInStep, Cleaning, Reconciled, files, records
<1>6. QED
  BY <1>3, <1>5, CleanOnly DEF Reconciled

LEMMA CleanOpensKeeps == CleanupInv /\ CleanOpens => CleanupInv'
<1> SUFFICES ASSUME CleanupInv, CleanOpens PROVE CleanupInv'
  OBVIOUS
<1>1. /\ clean' \in Worker(CleanSteps) /\ clean'.pc = "publish" /\ clean'.then = clean.then
      /\ clean'.gen = clean.gen /\ clean'.rem = clean.rem
  BY WorkersTyped, Places, StepGives DEF CleanOpens, Opened
<1>2. TypeOK'
  <2>1. clean.gen + 1 \in Nat
    BY WorkersTyped
  <2>2. leftover \in SUBSET Nat
    BY DEF CleanupInv, TypeOK
  <2>3. leftover' \in SUBSET Nat
    BY <2>1, <2>2 DEF CleanOpens, OpenTemporary
  <2>4. QED
    BY <1>1, <2>3 DEF CleanOpens, CleanupInv, TypeOK, files, app
<1>3. Turns' /\ MakeInStep'
  BY CleanFrame DEF CleanOpens, app
<1>4. Consecutive' /\ Latest' = Latest
  BY SameLatest DEF CleanupInv, CleanOpens
<1>5. PayloadTracked' /\ CleanInStep'
  BY <1>1, <1>4 DEF CleanupInv, PayloadTracked, CleanInStep, Cleaning, CleanOpens, files
<1>6. QED
  BY <1>2, <1>3, <1>4, <1>5 DEF CleanupInv

\* What the two ways of publishing a record have in common.
LEMMA CleanRecord ==
  ASSUME CleanupInv, clean.pc = "publish", PublishRecord(clean), UNCHANGED files
  PROVE  /\ Consecutive' /\ disk' # {} /\ disk' \in SUBSET Record /\ leftover' \in SUBSET Nat
         /\ (Latest').gen = clean.gen + 1 /\ (Latest').rem = clean.rem
         /\ (Latest').known = clean.known
         /\ PayloadTracked'
<1>1. disk # {} => Latest.gen = clean.gen
  BY DEF CleanupInv, CleanInStep, Cleaning
<1>2. /\ Consecutive' /\ disk' # {} /\ disk' \in SUBSET Record
      /\ Latest' = [gen |-> clean.gen + 1, rem |-> clean.rem, known |-> clean.known]
  BY <1>1, WorkersTyped, PublishBooks DEF CleanupInv
<1>3. leftover' \in SUBSET Nat
  BY DEF CleanupInv, TypeOK, PublishRecord
<1>4. PayloadTracked'
  BY <1>2 DEF CleanupInv, CleanInStep, Cleaning, PayloadTracked, files
<1>5. QED
  BY <1>2, <1>3, <1>4

LEMMA CleanPublishesKeeps == CleanupInv /\ CleanPublishes => CleanupInv'
<1> SUFFICES ASSUME CleanupInv, CleanPublishes PROVE CleanupInv'
  OBVIOUS
<1>1. clean.then = "sweep"
  BY DEF CleanupInv, CleanInStep, CleanPublishes
<1>2. /\ clean' \in Worker(CleanSteps) /\ clean'.pc = "sweep" /\ clean'.gen = clean.gen + 1
      /\ clean'.rem = clean.rem /\ clean'.known = clean.known
  BY <1>1, WorkersTyped, Places, PublishedGives DEF CleanPublishes
<1>3. /\ Consecutive' /\ disk' # {} /\ disk' \in SUBSET Record /\ leftover' \in SUBSET Nat
      /\ (Latest').gen = clean.gen + 1 /\ (Latest').rem = clean.rem
      /\ (Latest').known = clean.known
      /\ PayloadTracked'
  BY CleanRecord DEF CleanPublishes
<1>4. TypeOK'
  BY <1>2, <1>3 DEF CleanPublishes, CleanupInv, TypeOK, Record, files, app
<1>5. Turns' /\ MakeInStep'
  BY CleanFrame, CleanHasFolder DEF CleanPublishes, app
<1>6. CleanInStep'
  BY <1>2, <1>3 DEF CleanupInv, CleanInStep, Cleaning, CleanPublishes, files
<1>7. QED
  BY <1>3, <1>4, <1>5, <1>6 DEF CleanupInv

LEMMA CleanPublishesLastKeeps == CleanupInv /\ CleanPublishesLast => CleanupInv'
<1> SUFFICES ASSUME CleanupInv, CleanPublishesLast PROVE CleanupInv'
  OBVIOUS
<1>1. clean' \in Worker(CleanSteps) /\ clean'.pc = "idle" /\ due' \in {"cancelled", "failed"}
  BY IdleGives DEF CleanPublishesLast, Ended
<1>2. /\ Consecutive' /\ disk' # {} /\ disk' \in SUBSET Record /\ leftover' \in SUBSET Nat
      /\ PayloadTracked'
  BY CleanRecord DEF CleanPublishesLast
<1>3. TypeOK'
  BY <1>1, <1>2 DEF CleanPublishesLast, CleanupInv, TypeOK, Record, files
<1>4. Turns' /\ MakeInStep'
  BY <1>1, CleanFrame, CleanHasFolder DEF CleanPublishesLast
<1>5. CleanInStep'
  BY <1>1 DEF CleanInStep, Cleaning
<1>6. QED
  BY <1>2, <1>3, <1>4, <1>5 DEF CleanupInv

LEMMA CleanCannotWriteKeeps == CleanupInv /\ CleanCannotWrite => CleanupInv'
  BY EndKeeps DEF CleanCannotWrite, WriteFails

LEMMA SweepSkipsKeeps == CleanupInv /\ SweepSkips => CleanupInv'
<1> SUFFICES ASSUME CleanupInv, SweepSkips PROVE CleanupInv'
  OBVIOUS
<1>1. /\ clean' \in Worker(CleanSteps) /\ clean'.pc = "sweep"
      /\ clean'.at = clean.at + 1 /\ clean'.gen = clean.gen /\ clean'.rem = clean.rem
      /\ clean'.known = clean.known
  BY WorkersTyped, PassedGives DEF SweepSkips
<1>2. Latest' = Latest
  BY SameLatest DEF SweepSkips, records
<1>3. CleanInStep'
  BY <1>1, <1>2 DEF CleanupInv, CleanInStep, Cleaning, SweepSkips, files, records
<1>4. QED
  BY <1>1, <1>3, CleanOnly DEF SweepSkips

LEMMA SweepBeginsKeeps == CleanupInv /\ SweepBegins => CleanupInv'
<1> SUFFICES ASSUME CleanupInv, SweepBegins PROVE CleanupInv'
  OBVIOUS
<1>1. /\ clean' \in Worker(CleanSteps) /\ clean'.pc = "erase"
      /\ clean'.at = clean.at /\ clean'.gen = clean.gen /\ clean'.rem = clean.rem
      /\ clean'.known = clean.known
  BY WorkersTyped, Places, StepGives DEF SweepBegins
<1>2. Latest' = Latest
  BY SameLatest DEF SweepBegins, records
<1>3. CleanInStep'
  BY <1>1, <1>2 DEF CleanupInv, CleanInStep, Cleaning, SweepBegins, files, records
<1>4. QED
  BY <1>1, <1>3, CleanOnly DEF SweepBegins

LEMMA SweepRefusesKeeps == CleanupInv /\ SweepRefuses => CleanupInv'
<1> SUFFICES ASSUME CleanupInv, SweepRefuses PROVE CleanupInv'
  OBVIOUS
<1>1. clean.at \in Item
  BY WorkersTyped DEF SweepRefuses
<1>2. /\ clean' \in Worker(CleanSteps) /\ clean'.pc = "open" /\ clean'.then = "sweep"
      /\ clean'.at = clean.at + 1 /\ clean'.gen = clean.gen /\ clean'.rem = clean.rem
      /\ clean'.known = clean.known
  BY <1>1, WorkersTyped, Places, NextGives DEF SweepRefuses
<1>3. Latest' = Latest
  BY SameLatest DEF SweepRefuses, records
<1>4. CleanInStep'
  BY <1>1, <1>2, <1>3 DEF CleanupInv, CleanInStep, Cleaning, SweepRefuses, files, records
<1>5. QED
  BY <1>2, <1>4, CleanOnly DEF SweepRefuses

LEMMA SweepStoppedKeeps == CleanupInv /\ SweepStopped => CleanupInv'
<1> SUFFICES ASSUME CleanupInv, SweepStopped PROVE CleanupInv'
  OBVIOUS
<1>1. /\ clean' \in Worker(CleanSteps) /\ clean'.pc = "open" /\ clean'.then = "idle"
      /\ clean'.at = clean.at /\ clean'.gen = clean.gen /\ clean'.rem = clean.rem
      /\ clean'.known = clean.known
  BY Places, CleanWrites DEF SweepStopped
<1>2. Latest' = Latest
  BY SameLatest DEF SweepStopped, records
<1>3. CleanInStep'
  BY <1>1, <1>2 DEF CleanupInv, CleanInStep, Cleaning, SweepStopped, files, records
<1>4. QED
  BY <1>1, <1>3, CleanOnly DEF SweepStopped

LEMMA EraseEndsKeeps == CleanupInv /\ EraseEnds => CleanupInv'
<1> SUFFICES ASSUME CleanupInv, EraseEnds PROVE CleanupInv'
  OBVIOUS
<1>1. clean.at \in Item
  BY WorkersTyped DEF CleanupInv, CleanInStep, EraseEnds
<1>2. /\ clean' \in Worker(CleanSteps) /\ clean'.pc = "open" /\ clean'.then = "sweep"
      /\ clean'.gen = clean.gen /\ clean'.rem = clean.rem \ {clean.at}
  BY <1>1, WorkersTyped, Places, RemovedNextGives DEF EraseEnds
<1>3. Consecutive' /\ Latest' = Latest
  BY SameLatest DEF CleanupInv, EraseEnds, records
<1>4. TypeOK'
  <2>1. payload' \in [Item -> Directory]
    <3>1. 0 \in Directory
      BY DEF Directory
    <3>2. QED
      BY <3>1 DEF CleanupInv, TypeOK, EraseEnds
  <2>2. erased' \in SUBSET (Item \X Directory)
    BY <1>1 DEF CleanupInv, TypeOK, EraseEnds
  <2>3. QED
    BY <1>2, <2>1, <2>2 DEF CleanupInv, TypeOK, EraseEnds, records, app
<1>5. Turns' /\ MakeInStep'
  BY CleanFrame DEF EraseEnds, app, records
<1>6. \A i \in Item : payload'[i] # 0 => i # clean.at /\ payload[i] # 0
  BY DEF CleanupInv, TypeOK, EraseEnds
<1>7. PayloadTracked' /\ CleanInStep'
  BY <1>2, <1>3, <1>6 DEF CleanupInv, PayloadTracked, CleanInStep, Cleaning, EraseEnds, records
<1>8. QED
  BY <1>3, <1>4, <1>5, <1>7 DEF CleanupInv

LEMMA EraseStoppedKeeps == CleanupInv /\ EraseStopped => CleanupInv'
<1> SUFFICES ASSUME CleanupInv, EraseStopped PROVE CleanupInv'
  OBVIOUS
<1>1. /\ clean' \in Worker(CleanSteps) /\ clean'.pc = "open" /\ clean'.then = "idle"
      /\ clean'.at = clean.at /\ clean'.gen = clean.gen /\ clean'.rem = clean.rem
      /\ clean'.known = clean.known
  BY Places, CleanWrites DEF EraseStopped
<1>2. Latest' = Latest
  BY SameLatest DEF EraseStopped, records
<1>3. CleanInStep'
  BY <1>1, <1>2 DEF CleanupInv, CleanInStep, Cleaning, EraseStopped, files, records
<1>4. QED
  BY <1>1, <1>3, CleanOnly DEF EraseStopped

LEMMA EraseFailsKeeps == CleanupInv /\ EraseFails => CleanupInv'
<1> SUFFICES ASSUME CleanupInv, EraseFails PROVE CleanupInv'
  OBVIOUS
<1>1. clean.at \in Item
  BY WorkersTyped DEF CleanupInv, CleanInStep, EraseFails
<1>2. /\ clean' \in Worker(CleanSteps) /\ clean'.pc = "open" /\ clean'.then = "sweep"
      /\ clean'.at = clean.at + 1 /\ clean'.gen = clean.gen /\ clean'.rem = clean.rem
      /\ clean'.known = clean.known
  BY <1>1, WorkersTyped, Places, NextGives DEF EraseFails
<1>3. Latest' = Latest
  BY SameLatest DEF EraseFails, records
<1>4. CleanInStep'
  BY <1>1, <1>2, <1>3 DEF CleanupInv, CleanInStep, Cleaning, EraseFails, files, records
<1>5. QED
  BY <1>2, <1>4, CleanOnly DEF EraseFails

\* Nothing is left to release when every directory has been taken off the record.
LEMMA SweptKeeps == CleanupInv /\ Swept => CleanupInv'
<1> SUFFICES ASSUME CleanupInv, Swept PROVE CleanupInv'
  OBVIOUS
<1>1. Latest' = Latest
  BY SameLatest DEF Swept, records
<1>2. CASE clean.rem = {}
  <2>1. clean' \in Worker(CleanSteps) /\ clean'.pc = "unlink"
    BY <1>2, WorkersTyped, Places, StepGives DEF Swept
  <2>2. CleanInStep'
    BY <1>2, <2>1 DEF CleanupInv, CleanInStep, Cleaning, Swept, files
  <2>3. QED
    BY <2>1, <2>2, CleanOnly DEF Swept
<1>3. CASE clean.rem # {}
  <2>1. /\ clean' \in Worker(CleanSteps) /\ clean'.pc = "open" /\ clean'.then = "idle"
        /\ clean'.gen = clean.gen /\ clean'.rem = clean.rem
    BY <1>3, Places, CleanWrites DEF Swept
  <2>2. CleanInStep'
    BY <1>1, <2>1 DEF CleanupInv, CleanInStep, Cleaning, Swept, files, records
  <2>3. QED
    BY <2>1, <2>2, CleanOnly DEF Swept
<1>4. QED
  BY <1>2, <1>3

LEMMA UnlinkRecordKeeps == CleanupInv /\ UnlinkRecord => CleanupInv'
<1> SUFFICES ASSUME CleanupInv, UnlinkRecord PROVE CleanupInv'
  OBVIOUS
<1>1. Consecutive' /\ disk' \in SUBSET Record
  BY UnlinkBooks DEF CleanupInv, UnlinkRecord
<1>2. TypeOK'
  BY <1>1 DEF CleanupInv, TypeOK, UnlinkRecord, Record, files, app
<1>3. Turns' /\ MakeInStep'
  BY CleanFrame, CleanHasFolder DEF UnlinkRecord, app
<1>4. PayloadTracked' /\ CleanInStep'
  BY DEF CleanupInv, PayloadTracked, CleanInStep, Cleaning, UnlinkRecord, files
<1>5. QED
  BY <1>1, <1>2, <1>3, <1>4 DEF CleanupInv

LEMMA UnlinkFailsKeeps == CleanupInv /\ UnlinkFails => CleanupInv'
  BY EndKeeps DEF UnlinkFails

LEMMA UnlinkEndsKeeps == CleanupInv /\ UnlinkEnds => CleanupInv'
<1> SUFFICES ASSUME CleanupInv, UnlinkEnds PROVE CleanupInv'
  OBVIOUS
<1>1. clean' \in Worker(CleanSteps) /\ clean'.pc = "idle" /\ due' = "done"
  BY IdleGives DEF UnlinkEnds, Ended
<1>2. Consecutive' /\ Latest' = Latest
  BY SameLatest DEF CleanupInv, UnlinkEnds
<1>3. TypeOK'
  BY <1>1 DEF CleanupInv, TypeOK, UnlinkEnds, files
<1>4. Turns' /\ MakeInStep'
  BY <1>1 DEF CleanupInv, Turns, MakeInStep, Making, UnlinkEnds
<1>5. PayloadTracked' /\ CleanInStep'
  BY <1>1, <1>2 DEF CleanupInv, PayloadTracked, CleanInStep, Cleaning, UnlinkEnds, files
<1>6. QED
  BY <1>2, <1>3, <1>4, <1>5 DEF CleanupInv

LEMMA CleanStepKeeps == CleanupInv /\ CleanStep => CleanupInv'
  BY ClaimKeeps, ClaimNothingKeeps, ReconcileKeepsKeeps, ReconcileRedoesKeeps, ReconcileDropsKeeps,
     RedoKeeps, ReconciledKeeps, CleanOpensKeeps, CleanPublishesKeeps, CleanPublishesLastKeeps,
     CleanCannotWriteKeeps, SweepSkipsKeeps, SweepBeginsKeeps, SweepRefusesKeeps, SweepStoppedKeeps,
     EraseEndsKeeps, EraseStoppedKeeps, EraseFailsKeeps, SweptKeeps, UnlinkRecordKeeps,
     UnlinkFailsKeeps, UnlinkEndsKeeps
     DEF CleanStep

-----------------------------------------------------------------------------
(* The start of a delete, the scan, the user and the end of the process.     *)

\* A delete starts with an empty record and nothing moved, once the scan at start is
\* done: a second instance's scan (EarlyDelete) would find that record.
LEMMA StartDeleteKeeps == CleanupInv /\ ~EarlyDelete /\ StartDelete => CleanupInv'
<1> SUFFICES ASSUME CleanupInv, ~EarlyDelete, StartDelete PROVE CleanupInv'
  OBVIOUS
<1>1. make' \in Worker(MakeSteps) /\ make'.pc = "open" /\ make'.then = "inspect"
  <2>1. LET v == Write(Idle, "inspect")
        IN v \in Worker(MakeSteps) /\ v.pc = "open" /\ v.then = "inspect"
    BY IdleGives, Places, WriteGives
  <2>2. QED
    BY <2>1 DEF StartDelete
<1>2. disk = {} /\ clean.pc = "idle" /\ scan = "done" /\ due \in {"none", "done"}
  BY DEF CleanupInv, Turns, StartDelete, TypeOK
<1>3. Consecutive' /\ Latest' = Latest
  BY SameLatest DEF CleanupInv, StartDelete
<1>4. TypeOK'
  BY <1>1 DEF CleanupInv, TypeOK, StartDelete, files, app
<1>5. Turns'
  BY <1>1, <1>2 DEF CleanupInv, Turns, StartDelete, files, app
<1>6. MakeInStep' /\ PayloadTracked'
  BY <1>1, <1>2 DEF MakeInStep, Making, PayloadTracked, StartDelete, files
<1>7. CleanInStep'
  BY <1>2 DEF CleanInStep, Cleaning, StartDelete
<1>8. QED
  BY <1>3, <1>4, <1>5, <1>6, <1>7 DEF CleanupInv

LEMMA EraseKeeps == CleanupInv /\ Erase => CleanupInv'
<1> SUFFICES ASSUME CleanupInv, Erase PROVE CleanupInv'
  OBVIOUS
<1>1. clean.at \in Item
  BY WorkersTyped DEF CleanupInv, CleanInStep, Erase
<1>2. erased' \in SUBSET (Item \X Directory)
  BY <1>1 DEF CleanupInv, TypeOK, Erase
<1>3. Consecutive' /\ Latest' = Latest
  BY SameLatest DEF CleanupInv, Erase, records
<1>4. TypeOK'
  BY <1>2 DEF CleanupInv, TypeOK, Erase, records, app
<1>5. Turns' /\ MakeInStep' /\ PayloadTracked' /\ CleanInStep'
  BY <1>3 DEF CleanupInv, Turns, MakeInStep, Making, PayloadTracked, CleanInStep, Cleaning,
     Erase, records, app
<1>6. QED
  BY <1>3, <1>4, <1>5 DEF CleanupInv

LEMMA ScanKeeps == CleanupInv /\ (Scan \/ Recover) => CleanupInv'
<1> SUFFICES ASSUME CleanupInv, Scan \/ Recover PROVE CleanupInv'
  OBVIOUS
<1>1. UNCHANGED <<files, records, make, clean, up, budget>>
  BY DEF Scan, Recover
<1>2. Consecutive' /\ Latest' = Latest
  BY <1>1, SameLatest DEF CleanupInv, records
<1>3. TypeOK'
  BY <1>1 DEF CleanupInv, TypeOK, Scan, Recover, files, records
<1>4. Turns'
  <2>1. CASE Scan
    BY <1>1, <2>1 DEF CleanupInv, Turns, PayloadTracked, Scan, files, records
  <2>2. CASE Recover
    BY <1>1, <2>2 DEF CleanupInv, Turns, Recover, files, records
  <2>3. QED
    BY <2>1, <2>2
<1>5. MakeInStep' /\ PayloadTracked' /\ CleanInStep'
  BY <1>1, <1>2 DEF CleanupInv, MakeInStep, Making, PayloadTracked, CleanInStep, Cleaning,
     files, records
<1>6. QED
  BY <1>2, <1>3, <1>4, <1>5 DEF CleanupInv

\* The records discarded at start have nothing left to say.
LEMMA DiscardKeeps == CleanupInv /\ Discard => CleanupInv'
<1> SUFFICES ASSUME CleanupInv, Discard PROVE CleanupInv'
  OBVIOUS
<1>1. Consecutive' /\ disk' \in SUBSET Record
  BY DiscardBooks DEF CleanupInv, Discard
<1>2. budget' \in [{"crash", "fault", "stranger", "retry"} -> Nat]
  BY SpendGives DEF CleanupInv, TypeOK, Discard
<1>3. TypeOK'
  BY <1>1, <1>2 DEF CleanupInv, TypeOK, Discard, Record, files
<1>4. make.pc = "idle" /\ clean.pc = "idle" /\ due = "none" /\ \A i \in Item : payload[i] = 0
  BY DEF CleanupInv, Turns, Discard
<1>5. Turns' /\ PayloadTracked'
  BY <1>4 DEF Turns, PayloadTracked, Discard, files
<1>6. MakeInStep' /\ CleanInStep'
  BY <1>4 DEF MakeInStep, Making, CleanInStep, Cleaning, Discard
<1>7. QED
  BY <1>1, <1>3, <1>5, <1>6 DEF CleanupInv

LEMMA CancelKeeps == CleanupInv /\ Cancel => CleanupInv'
<1> SUFFICES ASSUME CleanupInv, Cancel PROVE CleanupInv'
  OBVIOUS
<1>1. CASE make.pc # "idle" /\ make' = [make EXCEPT !.stop = TRUE] /\ UNCHANGED clean
  <2>1. /\ make' \in Worker(MakeSteps) /\ make'.pc = make.pc /\ make'.then = make.then
        /\ make'.at = make.at /\ make'.gen = make.gen /\ make'.rem = make.rem
    BY <1>1, WorkersTyped, StoppedGives
  <2>2. Latest' = Latest
    BY SameLatest DEF Cancel, records
  <2>3. MakeInStep'
    BY <2>1, <2>2 DEF CleanupInv, MakeInStep, Making, Cancel, files, records
  <2>4. QED
    BY <1>1, <2>1, <2>3, MakeOnly DEF Cancel
<1>2. CASE clean.pc # "idle" /\ clean' = [clean EXCEPT !.stop = TRUE] /\ UNCHANGED make
  <2>1. /\ clean' \in Worker(CleanSteps) /\ clean'.pc = clean.pc /\ clean'.then = clean.then
        /\ clean'.at = clean.at /\ clean'.gen = clean.gen
        /\ clean'.rem = clean.rem /\ clean'.known = clean.known
    BY <1>2, WorkersTyped, StoppedGives
  <2>2. Latest' = Latest
    BY SameLatest DEF Cancel, records
  <2>3. CleanInStep'
    BY <2>1, <2>2 DEF CleanupInv, CleanInStep, Cleaning, Cancel, files, records
  <2>4. QED
    BY <1>2, <2>1, <2>3, CleanOnly DEF Cancel
<1>3. QED
  BY <1>1, <1>2 DEF Cancel

\* A retry, another program's directory, the end of the process and its next start
\* leave records and payloads alone.
LEMMA OutsideKeeps ==
  CleanupInv /\ (Retry \/ (\E i \in Item : Replace(i)) \/ Crash \/ Restart) => CleanupInv'
<1> SUFFICES ASSUME CleanupInv, Retry \/ (\E i \in Item : Replace(i)) \/ Crash \/ Restart
             PROVE  CleanupInv'
  OBVIOUS
<1>1. UNCHANGED <<payload, erased, records>>
  BY DEF Retry, Replace, Crash, Restart, files
<1>2. Consecutive' /\ Latest' = Latest
  BY <1>1, SameLatest DEF CleanupInv, records
<1>3. PayloadTracked'
  BY <1>1, <1>2 DEF CleanupInv, PayloadTracked, records
<1>4. budget' \in [{"crash", "fault", "stranger", "retry"} -> Nat]
  BY SpendGives DEF CleanupInv, TypeOK, Retry, Replace, Crash, Restart
<1>5. CASE Retry
  <2>1. TypeOK'
    BY <1>1, <1>4, <1>5 DEF CleanupInv, TypeOK, Retry, files, records
  <2>2. Turns'
    BY <1>5 DEF CleanupInv, Turns, Retry, files, records
  <2>3. MakeInStep' /\ CleanInStep'
    BY <1>1, <1>2, <1>5 DEF CleanupInv, MakeInStep, Making, CleanInStep, Cleaning, Retry, records
  <2>4. QED
    BY <1>2, <1>3, <2>1, <2>2, <2>3 DEF CleanupInv
<1>6. CASE \E i \in Item : Replace(i)
  <2>1. original' \in [Item -> Directory]
    <3>1. {0, 2} \subseteq Directory
      BY DEF Directory
    <3>2. QED
      BY <1>6, <3>1 DEF CleanupInv, TypeOK, Replace
  <2>2. UNCHANGED <<make, clean, app>>
    BY <1>6 DEF Replace
  <2>3. TypeOK'
    BY <1>1, <1>4, <2>1, <2>2 DEF CleanupInv, TypeOK, records, app
  <2>4. Turns' /\ MakeInStep' /\ CleanInStep'
    BY <1>1, <1>2, <2>2 DEF CleanupInv, Turns, MakeInStep, Making, CleanInStep, Cleaning,
       records, app
  <2>5. QED
    BY <1>2, <1>3, <2>3, <2>4 DEF CleanupInv
<1>7. CASE Crash
  <2>1. /\ make' \in Worker(MakeSteps) /\ make'.pc = "idle"
        /\ clean' \in Worker(CleanSteps) /\ clean'.pc = "idle"
    BY <1>7, IdleGives DEF Crash
  <2>2. TypeOK'
    BY <1>1, <1>4, <1>7, <2>1 DEF CleanupInv, TypeOK, Crash, files, records
  <2>3. Turns' /\ MakeInStep' /\ CleanInStep'
    BY <1>1, <1>7, <2>1 DEF CleanupInv, Turns, MakeInStep, Making, CleanInStep, Cleaning,
       Crash, records
  <2>4. QED
    BY <1>2, <1>3, <2>2, <2>3 DEF CleanupInv
<1>8. CASE Restart
  <2>1. TypeOK'
    BY <1>1, <1>8 DEF CleanupInv, TypeOK, Restart, files, records
  <2>2. Turns' /\ MakeInStep' /\ CleanInStep'
    BY <1>1, <1>2, <1>8 DEF CleanupInv, Turns, MakeInStep, Making, CleanInStep, Cleaning,
       Restart, records
  <2>3. QED
    BY <1>2, <1>3, <2>1, <2>2 DEF CleanupInv
<1>9. QED
  BY <1>5, <1>6, <1>7, <1>8

LEMMA InitHolds == Init => CleanupInv
<1> SUFFICES ASSUME Init PROVE CleanupInv
  OBVIOUS
<1>1. TypeOK
  <2>1. 0 \in Directory /\ 1 \in Directory
    BY DEF Directory
  <2>2. budget \in [{"crash", "fault", "stranger", "retry"} -> Nat]
    BY CleanupAssumption DEF Init
  <2>3. QED
    BY <2>1, <2>2, IdleGives DEF Init, TypeOK
<1>2. Consecutive
  <2>1. Span(disk, 1, 0)
    BY DEF Init, Span
  <2>2. QED
    BY <2>1 DEF Consecutive
<1>3. make.pc = "idle" /\ clean.pc = "idle"
  BY IdleGives DEF Init
<1>4. Turns /\ PayloadTracked /\ MakeInStep /\ CleanInStep
  BY <1>3 DEF Init, Turns, PayloadTracked, MakeInStep, Making, CleanInStep, Cleaning
<1>5. QED
  BY <1>1, <1>2, <1>4 DEF CleanupInv

LEMMA Stutters == CleanupInv /\ UNCHANGED vars => CleanupInv'
  BY SameLatest DEF CleanupInv, TypeOK, Turns, PayloadTracked, MakeInStep, Making, CleanInStep,
     Cleaning, vars

LEMMA NextKeeps == CleanupInv /\ ~EarlyDelete /\ [Next]_vars => CleanupInv'
<1> SUFFICES ASSUME CleanupInv, ~EarlyDelete, [Next]_vars PROVE CleanupInv'
  OBVIOUS
<1>1. CASE StartDelete
  BY <1>1, StartDeleteKeeps
<1>2. CASE MakeStep
  BY <1>2, MakeStepKeeps
<1>3. CASE CleanStep
  BY <1>3, CleanStepKeeps
<1>4. CASE Erase
  BY <1>4, EraseKeeps
<1>5. CASE ScanStep
  BY <1>5, ScanKeeps, DiscardKeeps DEF ScanStep
<1>6. CASE Outside
  BY <1>6, CancelKeeps, OutsideKeeps DEF Outside
<1>7. CASE UNCHANGED vars
  BY <1>7, Stutters
<1>8. QED
  BY <1>1, <1>2, <1>3, <1>4, <1>5, <1>6, <1>7 DEF Next

-----------------------------------------------------------------------------
(* The theorems.                                                             *)

LEMMA CleanupInductive == ASSUME ~EarlyDelete PROVE Spec => []CleanupInv
<1>1. CleanupInv /\ [Next]_vars => CleanupInv'
  BY NextKeeps
<1>2. QED
  BY <1>1, InitHolds, PTL DEF Spec

\* A directory moved out of its place is named by the latest record at every instant
\* (create_cleanup_task, retry_cleanup_task): for any number of directories, ends of the
\* process, failing calls and retries, a start finds what is left to release.
THEOREM MovedIsTracked == ASSUME ~EarlyDelete PROVE Spec => []PayloadTracked
<1>1. CleanupInv => PayloadTracked
  BY DEF CleanupInv
<1>2. QED
  BY <1>1, CleanupInductive, PTL

\* retry_cleanup_task deletes nothing but the directory whose identity the latest record
\* holds, whatever took its place before or after it was moved.
THEOREM OnlyRecordedErased == ASSUME ~EarlyDelete PROVE Spec => ErasesOnlyRecorded
<1>1. CleanupInv /\ [Next]_vars =>
        [\A p \in erased' \ erased : disk # {} /\ Latest.known[p[1]] = p[2]]_vars
  <2> SUFFICES ASSUME CleanupInv, Next, NEW p \in erased' \ erased
               PROVE  disk # {} /\ Latest.known[p[1]] = p[2]
    BY DEF vars
  <2>1. Erase \/ EraseEnds
    BY DEF Next, StartDelete, ScanStep, Scan, Recover, Discard, Outside, Cancel, Retry, Replace,
       Crash, Restart, MakeStep, MakeOpens, MakePublishes, MakeCannotWrite, Inspect, InspectFails,
       InspectStopped, InspectedAll, Move, MoveRefused, DeleteOrdinarily, Commit, CleanStep, Claim,
       ClaimNothing, ReconcileKeeps, ReconcileRedoes, ReconcileDrops, Redo, Reconciled, CleanOpens,
       CleanPublishes, CleanPublishesLast, CleanCannotWrite, SweepSkips, SweepBegins, SweepRefuses,
       SweepStopped, EraseStopped, EraseFails, Swept, UnlinkRecord, UnlinkFails, UnlinkEnds, files
  <2>2. clean.pc = "erase" /\ p = <<clean.at, payload[clean.at]>>
    BY <2>1 DEF Erase, EraseEnds
  <2>3. disk # {} /\ Latest.known = clean.known /\ payload[clean.at] = clean.known[clean.at]
    BY <2>2 DEF CleanupInv, CleanInStep, Cleaning
  <2>4. QED
    BY <2>2, <2>3
<1>2. QED
  BY <1>1, CleanupInductive, PTL DEF Spec, ErasesOnlyRecorded
==============================================================================
