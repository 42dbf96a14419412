---------------------------- MODULE WatchRefresh -----------------------------
(* The tabs that list one local directory, the watcher that reports changes    *)
(* of it, the pump that turns notifications into refreshes, and the file       *)
(* operations of the program itself that work in the directory.               *)
(*                                                                            *)
(* The watcher is started by a timer and stops on an error.  Notifications    *)
(* pile up until the pump takes them; a notification waits while the tab loads,*)
(* while a refresh has just ended or while a rename runs, is left to the end  *)
(* of any other operation, and is else compared with the disk on a thread of  *)
(* its own before the tab is listed again.  A batch of TabNavigation is taken  *)
(* as read and applied in one step; a file is <<name, version>>.               *)
(* The window thread takes the actions that ask for ~Settling: between the end *)
(* of an operation and the listings that follow it, it does nothing else.      *)
EXTENDS Naturals, FiniteSets, FiniteSetsExt

CONSTANTS
  Tabs, Name,
  Present,        \* the files there are at first
  Ops,            \* the file operations
  NoWatch,        \* no pending notification, no probe, no job
  MaxChanges,     \* how many changes, failures, operations, searches and departures there are
  MaxRequests,    \* how many listings each tab asks for
  Hazards         \* what else happens: "error", "overflow", "leave", "search", "rename", "copy", "delete"

ASSUME BoundsAssumption ==
  /\ MaxChanges \in Nat \ {0} /\ MaxRequests \in Nat \ {0}
  /\ IsFiniteSet(Tabs) /\ IsFiniteSet(Name)

File         == Name \X (1..MaxChanges)    \* a name and the version it has
Notification == [observed : Nat, paths : SUBSET Name, uncertain : BOOLEAN]
Listing      == [todo : SUBSET Name, got : SUBSET File]
Sample       == [left : SUBSET Name, seen : SUBSET (Name \X (0..MaxChanges))]
Probe        == [watch : Notification, request : Nat, rows : SUBSET File, edition : Nat,
                 stage : {"sampling", "sampled", "queued", "delivered"}, changed : BOOLEAN,
                 retry : Notification \cup {NoWatch}, refreshed : BOOLEAN]

\* None is nothing else.
ASSUME NoWatchAssumption ==
  /\ NoWatch \notin Notification /\ NoWatch \notin Listing
  /\ NoWatch \notin Sample /\ NoWatch \notin Probe
  /\ NoWatch \notin {"Refresh", "BackgroundRefresh"}

VARIABLES
  disk,       \* the version of each name, 0 when absent
  changes,    \* how many there were; the number is the version of what is written
  watch,      \* the watcher: none, running, dead (its error is queued), failed
  notes,      \* what the watcher sent and the pump has not taken
  tab,        \* the tabs, as far as this directory goes
  job,        \* the directory request of each tab
  pending,    \* the notifications that wait, per tab
  probe,      \* the comparison in flight, per tab (in_flight, sampling_roots)
  sample,     \* the disk sample the probes share
  gate,       \* a refresh was started or ended a moment ago (RefreshGate)
  op,         \* the operations
  relist,     \* the listings the end of an operation still asks for, per tab
  deferred,   \* notifications left to the end of the operations
  blind       \* since a tab last asked for the directory something happened that
              \* nobody will tell it of: see Changed, Escape and Misfits

pumpVars == <<pending, probe, sample, gate>>
vars == <<disk, changes, watch, notes, tab, job, pending, probe, sample, gate, op, relist, deferred,
          blind>>

Busy == {"Loading", "Partial"}
Nothing == [paths |-> {}, uncertain |-> FALSE]
FilesOn(d) == {<<n, d[n]>> : n \in {m \in Name : d[m] # 0}}

Init ==
  /\ disk = [n \in Name |-> IF n \in Present THEN 1 ELSE 0]
  /\ changes = 1
  /\ watch = "none"
  /\ notes = Nothing
  /\ tab = [t \in Tabs |-> [latest |-> 0, asked |-> 0, kind |-> "Normal", load |-> "Complete",
                            page |-> "Directory", here |-> FALSE, rows |-> {}, edition |-> 0]]
  /\ job = [t \in Tabs |-> NoWatch]
  /\ pending = [t \in Tabs |-> NoWatch]
  /\ probe = [t \in Tabs |-> NoWatch]
  /\ sample = NoWatch
  /\ gate = [t \in Tabs |-> "open"]
  /\ op = [o \in Ops |-> [st |-> "none", kind |-> "Copy", from |-> NoWatch, to |-> NoWatch,
                        file |-> 0]]
  /\ relist = [t \in Tabs |-> NoWatch]
  /\ deferred = FALSE
  /\ blind = [t \in Tabs |-> FALSE]

-------------------------------------------------------------------------------
(* The disk and the watcher.                                                 *)

\* The watcher tells of a change, when it runs; nobody tells the tabs that show
\* the directory when it does not.
Told(note) ==
  IF watch = "running"
  THEN notes' = note /\ UNCHANGED blind
  ELSE blind' = [t \in Tabs |-> blind[t] \/ tab[t].here] /\ UNCHANGED notes

Changed(paths) == Told([notes EXCEPT !.paths = @ \cup paths])

\* One more of the things MaxChanges bounds.
Happens ==
  /\ changes < MaxChanges
  /\ changes' = changes + 1

\* Another program creates, rewrites or deletes a file; in a burst of changes
\* the notification only says that something changed.
External(n) ==
  /\ Happens
  /\ \/ disk' = [disk EXCEPT ![n] = changes + 1]
     \/ disk[n] # 0 /\ disk' = [disk EXCEPT ![n] = 0]
  /\ \/ Changed({n})
     \/ "overflow" \in Hazards /\ Told([notes EXCEPT !.uncertain = TRUE])
  /\ UNCHANGED <<watch, tab, job, pumpVars, op, relist, deferred>>

\* The watcher gives up; its error is an uncertain notification.
WatchError ==
  /\ "error" \in Hazards
  /\ watch = "running"
  /\ Happens
  /\ watch' = "dead"
  /\ notes' = [notes EXCEPT !.uncertain = TRUE]
  /\ UNCHANGED <<disk, tab, job, pumpVars, op, relist, deferred, blind>>

\* watched_roots: a tab with search results still counts by its location.
Watched == \E t \in Tabs : tab[t].here

\* The timer of start_directory_watchers.
WatchTimer ==
  /\ watch' = IF ~Watched THEN "none" ELSE IF watch \in {"none", "failed"} THEN "running" ELSE watch
  /\ watch' # watch
  /\ UNCHANGED <<disk, changes, notes, tab, job, pumpVars, op, relist, deferred, blind>>

-------------------------------------------------------------------------------
(* The tabs.                                                                 *)

\* The tabs of ts ask for the directory (begin_navigation); each drops the job
\* it had, and what no watcher saw no longer matters.
Listed(ts, kind) ==
  /\ tab' = [t \in Tabs |-> IF t \notin ts THEN tab[t]
                            ELSE [tab[t] EXCEPT !.latest = @ + 1, !.asked = @ + 1, !.kind = kind, !.load = "Loading",
                                                !.page = "Directory", !.here = TRUE]]
  /\ job' = [t \in Tabs |-> IF t \in ts THEN [todo |-> Name, got |-> {}] ELSE job[t]]
  /\ blind' = [t \in Tabs |-> blind[t] /\ t \notin ts]

MayList(t) == tab[t].asked < MaxRequests

\* The window thread is in the handler of an operation's end.
Settling == \E t \in Tabs : relist[t] # NoWatch

\* Coming to the directory, or F5.
Open(t) ==
  /\ ~Settling
  /\ MayList(t)
  /\ tab[t].here => tab[t].load \notin Busy
  /\ Listed({t}, IF tab[t].here THEN "Refresh" ELSE "Normal")
  /\ UNCHANGED <<disk, changes, watch, notes, pumpVars, op, relist, deferred>>

Leave(t) ==
  /\ ~Settling
  /\ "leave" \in Hazards
  /\ tab[t].here
  /\ Happens
  /\ tab' = [tab EXCEPT ![t] = [tab[t] EXCEPT !.latest = @ + 1, !.kind = "Normal", !.load = "Complete",
                                              !.page = "Directory", !.here = FALSE, !.rows = {}]]
  /\ job' = [job EXCEPT ![t] = NoWatch]
  /\ UNCHANGED <<disk, watch, notes, pumpVars, op, relist, deferred, blind>>

\* A search takes the page, and Escape gives it back as it was (Snapshot).
Search(t) ==
  /\ ~Settling
  /\ "search" \in Hazards
  /\ tab[t].here /\ tab[t].page = "Directory" /\ tab[t].load = "Complete"
  /\ Happens
  /\ tab' = [tab EXCEPT ![t].page = "Search", ![t].latest = @ + 1]
  /\ UNCHANGED <<disk, watch, notes, job, pumpVars, op, relist, deferred, blind>>

Escape(t) ==
  /\ ~Settling
  /\ tab[t].page = "Search"
  /\ tab' = [tab EXCEPT ![t].page = "Directory", ![t].latest = @ + 1]
  /\ blind' = [blind EXCEPT ![t] = TRUE]
  /\ UNCHANGED <<disk, changes, watch, notes, job, pumpVars, op, relist, deferred>>

\* The listing comes to a name.
ReadEntry(t) ==
  /\ job[t] # NoWatch
  /\ \E n \in job[t].todo :
       job' = [job EXCEPT ![t] = [todo |-> @.todo \ {n},
                                  got |-> @.got \cup (FilesOn(disk) \cap ({n} \X Nat))]]
  /\ UNCHANGED <<disk, changes, watch, notes, tab, pumpVars, op, relist, deferred, blind>>

FinishListing(t) ==
  /\ ~Settling
  /\ job[t] # NoWatch /\ job[t].todo = {}
  /\ tab' = [tab EXCEPT ![t].load = "Complete", ![t].kind = "Normal", ![t].rows = job[t].got]
  /\ job' = [job EXCEPT ![t] = NoWatch]
  /\ UNCHANGED <<disk, changes, watch, notes, pumpVars, op, relist, deferred, blind>>

-------------------------------------------------------------------------------
(* The pump.                                                                 *)

\* The operations that hold the directory (active_operation_directories).
Active == {o \in Ops : op[o].st \in {"running", "ended"}}
\* rename_is_active: a queued rename counts.
RenameIsActive ==
  \E o \in Ops : op[o].kind = "Rename" /\ op[o].st \in {"queued", "running", "ended"}

\* Mutant of Disposition: a tab that loads needs no notification, it lists anyway.
DispositionWhileLoading(t, w) ==
  IF tab[t].page # "Directory" \/ ~tab[t].here \/ tab[t].load \in Busy THEN "Drop"
  ELSE IF Active # {} THEN IF RenameIsActive THEN "Wait" ELSE "DeferredOperation"
  ELSE "Probe"

\* What to do with a notification now (disposition).
Disposition(t, w) ==
  IF \/ tab[t].page # "Directory"
     \/ ~tab[t].here
     \/ tab[t].latest # w.observed /\ tab[t].load \in Busy
          /\ tab[t].kind \notin {"Refresh", "BackgroundRefresh"}
  THEN "Drop"
  ELSE IF Active # {} THEN IF RenameIsActive THEN "Wait" ELSE "DeferredOperation"
  ELSE IF tab[t].load \in Busy THEN "Wait" ELSE "Probe"

MergePending(a, b) ==
  IF a = NoWatch THEN b ELSE IF b = NoWatch THEN a
  ELSE [observed |-> Max({a.observed, b.observed}), paths |-> a.paths \cup b.paths,
        uncertain |-> a.uncertain \/ b.uncertain]

Stage(t) == IF probe[t] = NoWatch THEN "none" ELSE probe[t].stage

\* RefreshGate::update: open when the page has changed, closed while the tab
\* loads, and open again some time after (REFRESH_IDLE_INTERVAL).
GateAfter(t, started) ==
  LET g == IF started THEN "closed" ELSE gate[t]
  IN IF tab[t].page # "Directory" \/ ~tab[t].here THEN {"open"}
     ELSE IF tab[t].load \in Busy THEN {g} ELSE {g, "open"}

\* What a turn of the pump takes: some of the notifications, and some of what came
\* back from the window (a delivery may come too late for it).
Turns == [paths : SUBSET notes.paths, uncertain : {FALSE, notes.uncertain},
          back : SUBSET {t \in Tabs : Stage(t) = "delivered"}]

\* coalesce: a batch of notifications that says nothing is none.
Says(turn) == turn.uncertain \/ turn.paths # {}

\* The batch is left to the operations as it is.
LeftToOperations(turn) == Says(turn) /\ Active # {} /\ ~RenameIsActive

Sent(t, turn) ==
  IF Says(turn) /\ ~LeftToOperations(turn) /\ tab[t].page = "Directory" /\ tab[t].here
  THEN [observed |-> tab[t].latest, paths |-> turn.paths, uncertain |-> turn.uncertain]
  ELSE NoWatch

\* All that waits for a tab now, and what is to be done with it.
Queued(t, turn) ==
  MergePending(MergePending(pending[t], IF t \in turn.back THEN probe[t].retry ELSE NoWatch),
               Sent(t, turn))
Judged(t, turn) ==
  IF Queued(t, turn) = NoWatch THEN "Nothing" ELSE Disposition(t, Queued(t, turn))

\* The tabs whose rows are compared next: one sample of the disk at a time.
Ready(turn, g) ==
  {t \in Tabs : /\ Judged(t, turn) = "Probe"
                /\ g[t] = "open"
                /\ Stage(t) = "none" \/ t \in turn.back
                /\ \A u \in Tabs : Stage(u) # "sampling"}

NewProbe(t, turn) ==
  [watch |-> Queued(t, turn), request |-> tab[t].latest, rows |-> tab[t].rows,
   edition |-> tab[t].edition, stage |-> "sampling", changed |-> FALSE,
   retry |-> NoWatch, refreshed |-> FALSE]

\* One turn of the pump: it hands the samples that are ready to the window; then,
\* under the lock, merges, judges and starts a sample.
Pump ==
  \E turn \in Turns, g \in [Tabs -> {"open", "closed"}] :
    /\ \A t \in Tabs : g[t] \in GateAfter(t, t \in turn.back /\ probe[t].refreshed)
    /\ gate' = g
    /\ notes' = [paths |-> notes.paths \ turn.paths, uncertain |-> notes.uncertain /\ ~turn.uncertain]
    /\ pending' = [t \in Tabs |->
         IF t \notin Ready(turn, g) /\ Judged(t, turn) \in {"Wait", "Probe"}
         THEN Queued(t, turn) ELSE NoWatch]
    /\ probe' = [t \in Tabs |->
         IF t \in Ready(turn, g) THEN NewProbe(t, turn)
         ELSE IF t \in turn.back THEN NoWatch
         ELSE IF Stage(t) = "sampled" THEN [probe[t] EXCEPT !.stage = "queued"]
         ELSE probe[t]]
    /\ sample' = IF Ready(turn, g) = {} THEN sample
                 ELSE [left |-> UNION {Queued(t, turn).paths : t \in Ready(turn, g)}, seen |-> {}]
    /\ deferred' = (\/ deferred \/ LeftToOperations(turn)
                    \/ \E t \in Tabs : Judged(t, turn) = "DeferredOperation")
    /\ watch' = IF turn.uncertain /\ watch = "dead" THEN "failed" ELSE watch
    /\ UNCHANGED <<disk, changes, tab, job, op, relist, blind>>

-------------------------------------------------------------------------------
(* The sample of the disk, on its own thread.                                *)

Sampling == {t \in Tabs : Stage(t) = "sampling"}

\* probe_is_current
StillNeeded(t) ==
  /\ Disposition(t, probe[t].watch) = "Probe"
  /\ tab[t].latest = probe[t].request

SamplePath ==
  /\ Sampling # {}
  /\ \E n \in sample.left :
       sample' = [left |-> sample.left \ {n},
                  seen |-> IF \E t \in Sampling : n \in probe[t].watch.paths /\ StillNeeded(t)
                           THEN sample.seen \cup {<<n, disk[n]>>} ELSE sample.seen]
  /\ UNCHANGED <<disk, changes, watch, notes, tab, job, pending, probe, gate, op, relist, deferred, blind>>

\* The rows of a name as the probe saw them; of two the last one counts.
Before(t, n) == {f \in probe[t].rows : f[1] = n}

\* probe_changes_with: a path that was not read has changed.
Differs(t, n) ==
  IF \E f \in sample.seen : f[1] = n
  THEN LET now == {f \in sample.seen : f[1] = n /\ f[2] # 0}
       IN IF Before(t, n) = {} THEN {now # {}}
          ELSE {now # {f} : f \in Before(t, n)}
  ELSE {TRUE}

SampleEnds ==
  /\ Sampling # {} /\ sample.left = {}
  /\ \E found \in [Sampling -> SUBSET Name] :
       /\ \A t \in Sampling, n \in Name :
            (n \in found[t]) \in (IF n \in probe[t].watch.paths THEN Differs(t, n) ELSE {FALSE})
       /\ probe' = [t \in Tabs |->
            IF t \in Sampling
            THEN [probe[t] EXCEPT !.stage = "sampled",
                                  !.changed = probe[t].watch.uncertain \/ found[t] # {}]
            ELSE probe[t]]
  /\ sample' = NoWatch
  /\ UNCHANGED <<disk, changes, watch, notes, tab, job, pending, gate, op, relist, deferred, blind>>

\* apply_probe_result, on the window thread, and the delivery back to the pump.
ApplyProbe(t) ==
  /\ ~Settling
  /\ Stage(t) = "queued"
  /\ LET p     == probe[t]
         d     == Disposition(t, p.watch)
         stale == tab[t].latest # p.request \/ tab[t].edition # p.edition
         retry == d = "Wait" \/ (d = "Probe" /\ stale)
         lists == d = "Probe" /\ ~stale /\ p.changed
     IN /\ deferred' = (deferred \/ d = "DeferredOperation")
        /\ IF lists
           THEN MayList(t) /\ Listed({t}, "BackgroundRefresh")
           ELSE UNCHANGED <<tab, job, blind>>
        /\ probe' = [probe EXCEPT ![t] =
             [p EXCEPT !.stage = "delivered", !.retry = IF retry THEN p.watch ELSE NoWatch,
                       !.refreshed = /\ p.changed /\ ~retry
                                     /\ tab'[t].latest # p.request
                                     /\ tab'[t].kind = "BackgroundRefresh"]]
  /\ UNCHANGED <<disk, changes, watch, notes, pending, sample, gate, op, relist>>

-------------------------------------------------------------------------------
(* File operations of the program in the directory.                          *)

\* The local lane runs one task at a time; a copy of this directory's files may
\* also run on the lane of a network share.
LocalLaneIsFree ==
  \A o \in Ops : op[o].st \in {"running", "ended"} => op[o].kind = "Copy"

\* A rename of a listed file is asked for on a complete page (actions::rename),
\* and waits when its lane is busy.
StartRename(o, t, from, to) ==
  /\ ~Settling
  /\ "rename" \in Hazards
  /\ op[o].st = "none"
  /\ tab[t].here /\ tab[t].page = "Directory" /\ tab[t].load = "Complete"
  /\ \E f \in tab[t].rows : f[1] = from
  /\ from # to
  /\ Happens
  /\ \E st \in {"queued", "running"} :
       /\ st = "running" => LocalLaneIsFree
       /\ op' = [op EXCEPT ![o] = [st |-> st, kind |-> "Rename", from |-> from, to |-> to, file |-> 0]]
  /\ UNCHANGED <<disk, watch, notes, tab, job, pumpVars, relist, deferred, blind>>

\* Its turn comes: the directory is registered.
Dequeue(o) ==
  /\ op[o].st = "queued" /\ LocalLaneIsFree
  /\ op' = [op EXCEPT ![o].st = "running"]
  /\ UNCHANGED <<disk, changes, watch, notes, tab, job, pumpVars, relist, deferred, blind>>

\* The worker renames when nothing has the new name, and fails else.
DoRename(o) ==
  /\ op[o].st = "running" /\ op[o].kind = "Rename"
  /\ IF disk[op[o].from] # 0 /\ disk[op[o].to] = 0
     THEN /\ disk' = [disk EXCEPT ![op[o].to] = disk[op[o].from], ![op[o].from] = 0]
          /\ Changed({op[o].from, op[o].to})
          /\ op' = [op EXCEPT ![o].st = "ended", ![o].file = disk[op[o].from]]
     ELSE /\ op' = [op EXCEPT ![o].st = "ended"]
          /\ UNCHANGED <<disk, notes, blind>>
  /\ UNCHANGED <<changes, watch, tab, job, pumpVars, relist, deferred>>

\* A copy into the directory or a permanent delete there begins to run.
StartWrite(o, kind, n) ==
  /\ op[o].st = "none"
  /\ \/ "copy" \in Hazards /\ kind = "Copy"
     \/ "delete" \in Hazards /\ kind = "Delete" /\ LocalLaneIsFree
  /\ Happens
  /\ op' = [op EXCEPT ![o] = [st |-> "running", kind |-> kind, from |-> NoWatch, to |-> n,
                              file |-> changes + 1]]
  /\ UNCHANGED <<disk, watch, notes, tab, job, pumpVars, relist, deferred, blind>>

\* The worker does it.
DoWrite(o) ==
  /\ op[o].st = "running" /\ op[o].kind # "Rename"
  /\ disk' = [disk EXCEPT ![op[o].to] = IF op[o].kind = "Copy" THEN op[o].file ELSE 0]
  /\ IF disk' = disk THEN UNCHANGED <<notes, blind>> ELSE Changed({op[o].to})
  /\ op' = [op EXCEPT ![o].st = "ended"]
  /\ UNCHANGED <<changes, watch, tab, job, pumpVars, relist, deferred>>

\* The rename shown in a complete listing that has the row (rename_loaded_entry).
RowsRenamed(rows, from, to) ==
  LET row == CHOOSE f \in rows : f[1] = from
  IN (rows \ {row}) \cup {<<to, row[2]>>}

\* The row is another file by now, or the new name is still listed.
Misfits(t, o) ==
  \/ <<op[o].from, op[o].file>> \notin tab[t].rows
  \/ \E f \in tab[t].rows : f[1] = op[o].to

Here == {t \in Tabs : tab[t].here}

\* finish_file_operation, under the lock: a rename that succeeded is shown in
\* place where it can be, everything else is to be listed again, and so is what
\* was left to the operation.  The source of a permanent delete is released
\* before its end, and what was left to it stays (SourceRemoved).
Finished(o) ==
  /\ ~Settling
  /\ op[o].st = "ended"
  /\ LET rename  == op[o].kind = "Rename" /\ op[o].file # 0
         at      == {t \in Here : tab[t].page = "Directory"}
         renamed == {t \in at : /\ rename /\ tab[t].load = "Complete"
                                /\ \E f \in tab[t].rows : f[1] = op[o].from}
         affected == ~rename \/ deferred
     IN /\ relist' = [t \in Tabs |-> IF affected THEN IF t \in Here THEN "BackgroundRefresh" ELSE NoWatch
                                    ELSE IF t \in at \ renamed THEN "Refresh" ELSE NoWatch]
        /\ tab' = [t \in Tabs |->
                    IF t \in renamed
                    THEN [tab[t] EXCEPT !.rows = RowsRenamed(@, op[o].from, op[o].to),
                                        !.edition = @ + 1]
                    ELSE tab[t]]
        /\ blind' = [t \in Tabs |-> blind[t] \/ (t \in renamed /\ Misfits(t, o))]
  /\ deferred' = (deferred /\ op[o].kind = "Delete")
  /\ op' = [op EXCEPT ![o].st = "done"]
  /\ UNCHANGED <<disk, changes, watch, notes, job, pumpVars>>

\* The listings that follow, on the same thread, the lock released meanwhile.
Relist ==
  /\ Settling
  /\ LET ts == {t \in Tabs : relist[t] # NoWatch}
     IN /\ \A t \in ts : MayList(t)
        /\ tab' = [t \in Tabs |->
             IF t \in ts THEN [tab[t] EXCEPT !.latest = @ + 1, !.asked = @ + 1, !.kind = relist[t], !.load = "Loading",
                                             !.page = "Directory"]
             ELSE tab[t]]
        /\ job' = [t \in Tabs |-> IF t \in ts THEN [todo |-> Name, got |-> {}] ELSE job[t]]
        /\ blind' = [t \in Tabs |-> blind[t] /\ t \notin ts]
  /\ relist' = [t \in Tabs |-> NoWatch]
  /\ UNCHANGED <<disk, changes, watch, notes, pumpVars, op, deferred>>

-------------------------------------------------------------------------------
Next ==
  \/ \E n \in Name : External(n)
  \/ WatchError \/ WatchTimer
  \/ \E t \in Tabs : Open(t) \/ Leave(t) \/ Search(t) \/ Escape(t) \/ ReadEntry(t) \/ FinishListing(t)
  \/ Pump \/ SamplePath \/ SampleEnds
  \/ \E t \in Tabs : ApplyProbe(t)
  \/ \E o \in Ops, t \in Tabs, from, to \in Name : StartRename(o, t, from, to)
  \/ \E o \in Ops, kind \in {"Copy", "Delete"}, n \in Name : StartWrite(o, kind, n)
  \/ \E o \in Ops : Dequeue(o) \/ DoRename(o) \/ DoWrite(o) \/ Finished(o)
  \/ Relist

Spec == Init /\ [][Next]_vars

-------------------------------------------------------------------------------
(* Properties.                                                               *)

\* What waits, is compared or tried again is a notification that says something,
\* of a request that was made.
Worded(t, w) == w = NoWatch \/ (w \in Notification /\ (w.uncertain \/ w.paths # {})
                                 /\ w.observed <= tab[t].latest)

\* The type invariant.
TypeOK ==
  /\ disk \in [Name -> 0..MaxChanges] /\ changes \in 1..(MaxChanges + 1)
  /\ watch \in {"none", "running", "dead", "failed"}
  /\ notes \in [paths : SUBSET Name, uncertain : BOOLEAN]
  /\ \A t \in Tabs :
       /\ tab[t].load \in {"Loading", "Complete"} /\ tab[t].page \in {"Directory", "Search"}
       /\ tab[t].kind \in {"Normal", "Refresh", "BackgroundRefresh"}
       /\ tab[t].rows \subseteq Name \X (1..MaxChanges)
       /\ job[t] # NoWatch => job[t].todo \subseteq Name /\ tab[t].load = "Loading"
       /\ Worded(t, pending[t])
       /\ probe[t] # NoWatch => /\ Stage(t) \in {"sampling", "sampled", "queued", "delivered"}
                                /\ Worded(t, probe[t].watch) /\ Worded(t, probe[t].retry)
       /\ relist[t] \in {NoWatch, "Refresh", "BackgroundRefresh"}
  /\ sample = NoWatch <=> Sampling = {}
  /\ deferred \in BOOLEAN /\ blind \in [Tabs -> BOOLEAN]

\* Nothing of a tab is on its way: it shows the directory, complete, and the
\* watcher, the pump, the samples and the operations have nothing to say.
Quiet(t) ==
  /\ tab[t].here /\ tab[t].page = "Directory" /\ tab[t].load = "Complete"
  /\ watch = "running" /\ notes = Nothing
  /\ pending[t] = NoWatch /\ probe[t] = NoWatch
  /\ Active = {} /\ relist[t] = NoWatch

\* A tab with nothing on its way shows what is on the disk.
QuietIsFresh == \A t \in Tabs : Quiet(t) /\ ~blind[t] => tab[t].rows = FilesOn(disk)
==============================================================================
