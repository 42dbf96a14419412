----------------------------- MODULE FolderSizes ------------------------------
(* Folder sizes of one tab: the FolderSizeScheduler, the callbacks of the     *)
(* window that feed it, and the two threads that carry its queries to         *)
(* Everything and back.  Every row is a folder; a row is an entry id, unique  *)
(* only within the request that listed it, the path <<place, name>>, and the  *)
(* size it shows.  The size of a folder is written as its path, so a wrong    *)
(* size can be told.  A listing is a set of rows, ordered by name wherever    *)
(* the code walks it; other orders only change which rows a window shows.     *)
EXTENDS Naturals, FiniteSets, Sequences, SequencesExt

CONSTANTS
  Place,          \* directories the tab can list
  Folders,        \* folders in each of them: their names are 1..Folders
  SubmitLimit,    \* FOLDER_SIZE_SUBMIT_LIMIT
  QueueCap,       \* FOLDER_SIZE_QUEUE_CAPACITY
  Unindexed,      \* names of the folders Everything has no size for
  Windows,        \* sets of positions that can be in view, with the prefetch
  MaxRequests,    \* bounds: page requests, movements of the viewport,
  MaxScrolls,     \*         clicks on a column header
  MaxSorts,
  Unknown, TimedOut   \* no size yet; TimedOut stands for every failure

ASSUME FoldersAssumption == Folders \in Nat \ {0}
ASSUME LimitAssumption   == SubmitLimit \in Nat \ {0} /\ QueueCap \in Nat \ {0}
ASSUME UnindexedAssumption == Unindexed \subseteq 1..Folders
ASSUME WindowsAssumption == Windows \subseteq SUBSET (1..Folders)
ASSUME BoundsAssumption  == {MaxRequests, MaxScrolls, MaxSorts} \subseteq Nat

VARIABLES
  tab,        \* the session, as far as sizes depend on it
  listing,    \* the directory worker: names not yet delivered, next entry id
  sched,      \* the FolderSizeScheduler
  requests,   \* mpsc channel to the search thread
  channel,    \* bounded channel to the folder worker
  batch,      \* queries the folder worker has drained
  events,     \* mpsc channel back to the window's timer
  spent       \* movements and clicks so far

vars == <<tab, listing, sched, requests, channel, batch, events, spent>>

Path     == Place \X (1..Folders)
Terminal == Path \cup {TimedOut}

\* No size yet is neither a size nor a failure.
ASSUME SizeAssumption == Unknown \notin Terminal

\* The answer of Everything (folder_size_state).
SizeOf(path) == IF path[2] \in Unindexed THEN TimedOut ELSE path

KeyOf(row) == [id |-> row.id, path |-> row.path]

\* The first k elements of a set of rows or keys, in listing order.
FirstOf(S, k) == {x \in S : Cardinality({y \in S : y.path[2] < x.path[2]}) < k}

\* The row at a position of a listing, as a set of at most one.
RowAt(rows, i) == FirstOf(rows, i) \ FirstOf(rows, i - 1)

\* Mutant: an answer is matched by the entry id alone.
AcceptsSizeById(row, key) == row.id = key.id

AcceptsSize(row, key) == row.id = key.id /\ row.path = key.path

-------------------------------------------------------------------------------
(* The scheduler.                                                            *)

Taken(s) == s.queued \cup s.inflight

Cancel(s, r) ==
  [request |-> r, gen |-> s.gen + 1, strategy |-> "VisibleRange", queued |-> {},
   inflight |-> {}, visible |-> {}, snapshot |-> {}, staged |-> <<>>]

Room(s) == IF Cardinality(Taken(s)) < SubmitLimit
           THEN SubmitLimit - Cardinality(Taken(s)) ELSE 0

\* next_visible_queries: a row in view is looked up by the position it had.
NextVisible(s, rows) ==
  IF s.strategy # "VisibleRange" THEN {}
  ELSE FirstOf({KeyOf(v) : v \in {w \in s.visible :
                   /\ \E row \in RowAt(rows, w.at) :
                        AcceptsSize(row, KeyOf(w)) /\ row.size = Unknown
                   /\ KeyOf(w) \notin Taken(s)}}, Room(s))

NextComplete(s) ==
  IF s.strategy # "CompleteForSort" THEN {}
  ELSE FirstOf((s.snapshot \ DOMAIN s.staged) \ Taken(s), Room(s))

\* visible_entry_queries, up to the queries it returns.
LookAt(s, r, rows, positions) ==
  LET c == IF s.request # r \/ s.strategy # "VisibleRange" THEN Cancel(s, r) ELSE s
  IN [c EXCEPT !.visible =
        UNION {{[id |-> row.id, path |-> row.path, at |-> i] : row \in RowAt(rows, i)} :
               i \in positions}]

\* begin_complete_sort, up to the queries it returns.
BeginCompleteSort(s, r, rows) ==
  LET known == {row \in rows : row.size # Unknown}
  IN [Cancel(s, r) EXCEPT !.strategy = "CompleteForSort",
        !.snapshot = {KeyOf(row) : row \in rows},
        !.staged   = [k \in {KeyOf(row) : row \in known} |->
                        (CHOOSE row \in known : KeyOf(row) = k).size]]

AcceptsQuery(s, q) ==
  s.request = q.request /\ s.gen = q.gen /\ s.strategy = q.strategy

\* Mutant: folders asked about count as answered.
ThroughWhenAsked(s, staged) ==
  Cardinality(DOMAIN staged \cup s.inflight) = Cardinality(s.snapshot)

\* A sort is through when every folder it has frozen has an answer.
Through(s, staged) == Cardinality(DOMAIN staged) = Cardinality(s.snapshot)

\* complete: what an answer does to the scheduler and to the rows.
Complete(s, q, size, rows) ==
  LET done   == [s EXCEPT !.inflight = @ \ {q.key}]
      staged == [k \in DOMAIN s.staged \cup {q.key} |->
                   IF k = q.key THEN size ELSE s.staged[k]]
      whole  == Through(done, staged)
  IN IF ~AcceptsQuery(s, q) \/ q.key \notin s.inflight
     THEN [sched |-> s, rows |-> rows, commit |-> "Ignored"]
     ELSE IF s.strategy = "VisibleRange"
     THEN [sched  |-> done,
           rows   |-> {IF AcceptsSize(row, q.key) THEN [row EXCEPT !.size = size] ELSE row :
                         row \in rows},
           commit |-> IF \E row \in rows : AcceptsSize(row, q.key)
                      THEN "Visible" ELSE "Ignored"]
     ELSE [sched  |-> [done EXCEPT !.staged = staged],
           rows   |-> IF ~whole THEN rows
                      ELSE {IF KeyOf(row) \in s.snapshot \cap DOMAIN staged
                            THEN [row EXCEPT !.size = staged[KeyOf(row)]] ELSE row :
                              row \in rows},
           commit |-> IF whole THEN "CompleteSort" ELSE "Staged"]

-------------------------------------------------------------------------------
(* The tab.                                                                  *)

Busy(t) == t.load \in {"Loading", "Partial"}

VisibleEntries(t) ==
  IF t.load = "Partial" /\ ~t.retain THEN t.pending ELSE t.entries

Accepts(t, r) == t.request = r /\ t.cancel # "fired"

AcceptsPage(t, r) == t.page = "Directory" /\ Accepts(t, r)

\* cancel_pending: the token is fired and stays where it is.
CancelPending(t) ==
  IF t.cancel = "none" THEN t
  ELSE IF t.page = "Directory" /\ Busy(t)
  THEN [t EXCEPT !.cancel = "fired", !.pending = {}, !.load = "Cancelled"]
  ELSE [t EXCEPT !.cancel = "fired"]

NoListing == [left |-> {}, next |-> 1]

Init ==
  /\ \E p \in Place :
       tab = [request |-> 1, cancel |-> "none", page |-> "Directory", place |-> p,
              goal |-> p, load |-> "Complete", retain |-> FALSE, pending |-> {},
              entries |-> {[id |-> n, path |-> <<p, n>>, size |-> Unknown] :
                             n \in 1..Folders},
              snapshot |-> {}, sort |-> [q \in Place |-> "Name"], field |-> "Name"]
  /\ listing = NoListing
  /\ sched = [request |-> 0, gen |-> 0, strategy |-> "VisibleRange", queued |-> {},
              inflight |-> {}, visible |-> {}, snapshot |-> {}, staged |-> <<>>]
  /\ requests = <<>> /\ channel = <<>> /\ batch = <<>> /\ events = <<>>
  /\ spent = [scrolls |-> 0, sorts |-> 0]

\* The keys as they are sent: each once, in listing order.
InListingOrder(keys) ==
  {ordered \in Bijection(1..Cardinality(keys), keys) :
     \A i, j \in DOMAIN ordered : i < j => ordered[i].path[2] <= ordered[j].path[2]}

\* submit_folder_size_queries and the tail of a size event: a query that the
\* page does not accept is not started, and stays queued.
Submit(t, s, keys) ==
  IF AcceptsPage(t, s.request)
  THEN /\ sched' = [s EXCEPT !.inflight = @ \cup keys]
       /\ \E ordered \in InListingOrder(keys) :
            requests' = requests \o
              [i \in DOMAIN ordered |->
                 [request |-> s.request, gen |-> s.gen, strategy |-> s.strategy,
                  key |-> ordered[i]]]
  ELSE /\ sched' = [s EXCEPT !.queued = @ \cup keys]
       /\ UNCHANGED requests

\* submit_visible_folder_sizes.  The window's positions are those of the rows
\* on the screen; the rows they are looked up in are tab.entries.
SubmitVisible(t, window) ==
  LET inView    == window \cap 1..Cardinality(VisibleEntries(t))
      wanted    == IF t.field = "Size" THEN t.entries
                   ELSE UNION {RowAt(t.entries, i) : i \in inView}
      unknown   == \E row \in wanted : row.size = Unknown
      looked    == LookAt(sched, t.request, t.entries, inView)
      beginning == BeginCompleteSort(sched, t.request, t.entries)
  IN IF ~unknown
     THEN sched' = [sched EXCEPT !.visible = {}] /\ UNCHANGED requests
     ELSE IF t.field = "Size"
     THEN Submit(t, beginning, NextComplete(beginning))
     ELSE Submit(t, looked, NextVisible(looked, t.entries))

-------------------------------------------------------------------------------
(* What the user and the directory worker do.                                *)

\* The viewport moves on a directory page.
Scroll(window) ==
  /\ tab.page = "Directory"
  /\ spent.scrolls < MaxScrolls
  /\ spent' = [spent EXCEPT !.scrolls = @ + 1]
  /\ SubmitVisible(tab, window)
  /\ UNCHANGED <<tab, listing, channel, batch, events>>

\* A click on a column header.
ChangeSort(field) ==
  /\ tab.page = "Directory"
  /\ spent.sorts < MaxSorts
  /\ spent' = [spent EXCEPT !.sorts = @ + 1]
  /\ tab' = [tab EXCEPT !.field = field,
                        !.sort[IF Busy(tab) THEN tab.goal ELSE tab.place] = field]
  /\ LET cancelled == Cancel(sched, tab.request)
         beginning == BeginCompleteSort(cancelled, tab.request, tab.entries)
     IN IF field = "Size"
        THEN Submit(tab, beginning, NextComplete(beginning))
        ELSE sched' = cancelled /\ UNCHANGED requests
  /\ UNCHANGED <<listing, channel, batch, events>>

\* submit_navigation: another directory, or the same one again; the watcher's
\* refresh keeps the rows on the screen while it loads.
Navigate(p, background) ==
  LET c == CancelPending(tab) IN
  /\ tab.request < MaxRequests
  /\ background => p = tab.place /\ tab.page = "Directory"
  /\ sched' = Cancel(sched, tab.request)
  /\ tab' = [c EXCEPT !.request = @ + 1, !.cancel = "live", !.page = "Directory",
                      !.goal = p, !.load = "Loading", !.pending = {}, !.snapshot = {},
                      !.retain = background /\ (c.load = "Complete" \/ c.retain)]
  /\ listing' = [left |-> 1..Folders, next |-> 1]
  /\ UNCHANGED <<requests, channel, batch, events, spent>>

\* Text in the address bar turns the page into a search; its rows have no
\* folder sizes.
Search ==
  LET c == CancelPending(tab) IN
  /\ tab.request < MaxRequests
  /\ tab' = [c EXCEPT !.request = @ + 1, !.cancel = "live", !.page = "Search",
                      !.snapshot = IF c.page = "Directory" THEN c.entries ELSE @,
                      !.entries = {}, !.pending = {}, !.retain = FALSE]
  /\ UNCHANGED <<listing, sched, requests, channel, batch, events, spent>>

\* Escape in the address bar: a search gives the directory's rows back, a load
\* is cancelled.
CancelAddressEdit ==
  LET c == CancelPending(tab) IN
  /\ tab' = IF tab.page = "Search"
            THEN [c EXCEPT !.request = @ + 1, !.page = "Directory",
                           !.entries = c.snapshot, !.snapshot = {}]
            ELSE c
  /\ tab.page = "Search" => tab.request < MaxRequests
  /\ UNCHANGED <<listing, sched, requests, channel, batch, events, spent>>

\* A batch of rows arrives, in whatever order the disk lists them.
Batch ==
  /\ AcceptsPage(tab, tab.request) /\ Busy(tab)
  /\ \E names \in (SUBSET listing.left) \ {{}} :
       LET IdOf(n) == listing.next + Cardinality({m \in names : m < n}) IN
       /\ tab' = [tab EXCEPT !.load = "Partial",
                    !.pending = @ \cup {[id |-> IdOf(n), path |-> <<tab.goal, n>>,
                                         size |-> Unknown] : n \in names}]
       /\ listing' = [left |-> listing.left \ names,
                      next |-> listing.next + Cardinality(names)]
  /\ UNCHANGED <<sched, requests, channel, batch, events, spent>>

\* The end of the listing: its rows become the entries, and if the tab is the
\* one on the screen the sizes in view are asked for.
Finish ==
  /\ AcceptsPage(tab, tab.request) /\ Busy(tab) /\ listing.left = {}
  /\ tab' = [tab EXCEPT !.load = "Complete", !.cancel = "none", !.place = tab.goal,
                        !.entries = tab.pending, !.pending = {},
                        !.field = tab.sort[tab.goal]]
  /\ \/ \E window \in Windows : SubmitVisible(tab', window)
     \/ UNCHANGED <<sched, requests>>
  /\ UNCHANGED <<listing, channel, batch, events, spent>>

-------------------------------------------------------------------------------
(* The threads.                                                              *)

\* Mutant: a query that finds the channel full is dropped.
ForwardOrDrop ==
  /\ requests # <<>>
  /\ requests' = Tail(requests)
  /\ channel' = IF Len(channel) < QueueCap THEN Append(channel, Head(requests)) ELSE channel
  /\ UNCHANGED <<tab, listing, sched, batch, events, spent>>

\* The search thread hands a query on, or answers it itself.
Forward ==
  /\ requests # <<>>
  /\ requests' = Tail(requests)
  /\ IF Len(channel) < QueueCap
     THEN channel' = Append(channel, Head(requests)) /\ UNCHANGED events
     ELSE /\ events' = Append(events, [query |-> Head(requests), size |-> TimedOut])
          /\ UNCHANGED channel
  /\ UNCHANGED <<tab, listing, sched, batch, spent>>

\* The folder worker drains its channel.
Collect ==
  /\ batch = <<>> /\ channel # <<>>
  /\ batch' = channel /\ channel' = <<>>
  /\ UNCHANGED <<tab, listing, sched, requests, events, spent>>

\* It looks at the tab once more before it asks Everything.  The answer waits
\* in events, so the time the question takes is the time until ApplyEvent.
Ask ==
  /\ batch # <<>>
  /\ batch' = Tail(batch)
  /\ LET q == Head(batch)
     IN IF AcceptsPage(tab, q.request) /\ AcceptsQuery(sched, q)
        THEN events' = Append(events, [query |-> q, size |-> SizeOf(q.key.path)])
        ELSE UNCHANGED events
  /\ UNCHANGED <<tab, listing, sched, requests, channel, spent>>

\* Mutant: a staged answer asks for nothing more.
RestAfterStaged(commit, s, rows) == IF commit = "Visible" THEN NextVisible(s, rows) ELSE {}

\* The queries that follow from an answer.
NextAfter(commit, s, rows) ==
  CASE commit = "Staged"  -> NextComplete(s)
    [] commit = "Visible" -> NextVisible(s, rows)
    [] OTHER              -> {}

\* The window's timer takes an event: apply_folder_size_event and the queries
\* that follow from it.
ApplyEvent ==
  /\ events # <<>>
  /\ LET e    == Head(events)
         done == IF AcceptsPage(tab, e.query.request)
                 THEN Complete(sched, e.query, e.size, tab.entries)
                 ELSE [sched |-> sched, rows |-> tab.entries, commit |-> "Ignored"]
     IN /\ tab' = [tab EXCEPT !.entries = done.rows]
        /\ Submit(tab, done.sched, NextAfter(done.commit, done.sched, done.rows))
  /\ events' = Tail(events)
  /\ UNCHANGED <<listing, channel, batch, spent>>

Gesture ==
  \/ \E window \in Windows : Scroll(window)
  \/ \E field \in {"Name", "Size"} : ChangeSort(field)
  \/ \E p \in Place, background \in BOOLEAN : Navigate(p, background)
  \/ Search \/ CancelAddressEdit

Load   == Batch \/ Finish
Worker == Collect \/ Ask
Next   == Gesture \/ Load \/ Forward \/ Worker \/ ApplyEvent

Spec     == Init /\ [][Next]_vars
FairSpec == Spec /\ WF_vars(Forward) /\ WF_vars(Worker) /\ WF_vars(ApplyEvent)

-------------------------------------------------------------------------------
(* Properties.                                                               *)

Row == [id : 1..Folders, path : Path, size : Terminal \cup {Unknown}]

TypeOK ==
  /\ {tab.entries, tab.pending, tab.snapshot} \subseteq SUBSET Row
  /\ tab.load \in {"Complete", "Loading", "Partial", "Cancelled"}
  /\ tab.cancel \in {"none", "live", "fired"}
  /\ Taken(sched) \subseteq [id : 1..Folders, path : Path]
  /\ Len(channel) <= QueueCap

\* However answers, scrolls, sorts and new listings interleave, no more folders are
\* asked about at a time than there are slots (next_visible_queries,
\* next_complete_queries): a listing names each folder once, so the first so many
\* of them are no more than that.
AskedWithinLimit == Cardinality(Taken(sched)) <= SubmitLimit

\* Whatever the answers overtake, a row shows the size of its own folder, or
\* a failure (accepts_folder_size; ids are used again by every request).
SizeIsOwn ==
  \A row \in tab.entries \cup tab.snapshot : row.size \in {Unknown, TimedOut, row.path}

\* Every query on its way, in the order of the stages.
OnTheWay ==
  requests \o channel \o batch \o [i \in DOMAIN events |-> events[i].query]

\* While the page is accepted, what the scheduler holds to be under way is
\* under way, once: a row drawn as being queried will be answered, and no
\* folder is asked about twice.  (A page that is not accepted any more: see
\* README, a search that was left.)
QueryingIsUnderWay ==
  LET live == {i \in DOMAIN OnTheWay : AcceptsQuery(sched, OnTheWay[i])} IN
  AcceptsPage(tab, sched.request) =>
    /\ sched.queued = {}
    /\ {OnTheWay[i].key : i \in live} = sched.inflight
    /\ \A i, j \in live : OnTheWay[i].key = OnTheWay[j].key => i = j

\* In a sort by size the sizes are kept back until the last one is there: a
\* step of a sort changes no size on the screen, or leaves none unknown of
\* those the sort has frozen.
SortCommitsWhole ==
  [][ /\ sched.strategy = "CompleteForSort" /\ sched'.gen = sched.gen
      /\ tab'.request = tab.request /\ tab'.load = tab.load
      => \/ tab'.entries = tab.entries
         \/ \A row \in tab'.entries : KeyOf(row) \in sched'.snapshot => row.size # Unknown ]_vars

\* Rows in view whose size is not known.
Unserved ==
  \E v \in sched.visible : \E row \in RowAt(tab.entries, v.at) :
    AcceptsSize(row, KeyOf(v)) /\ row.size = Unknown

\* The keys under way are rows of the listing.  After a scroll during a load
\* they may be rows of the listing before it, whose answers are ignored and
\* bring no further query.
Current == sched.inflight \subseteq {KeyOf(row) : row \in tab.entries}

Sorting == sched.strategy = "CompleteForSort" /\ DOMAIN sched.staged # sched.snapshot

Looking == sched.strategy = "VisibleRange" /\ Unserved /\ Current

Wanted == AcceptsPage(tab, sched.request) /\ (Sorting \/ Looking)

\* Under threads that run, rounds of queries follow each other until all the
\* rows in view, or all folders of a sort, have their size or a failure, as
\* long as the page stays and its rows are not replaced.
SizesArrive == Wanted /\ (Sorting \/ sched.inflight # {}) ~> ~Wanted
===============================================================================
