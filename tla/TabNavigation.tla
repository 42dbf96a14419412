---------------------------- MODULE TabNavigation ----------------------------
(* A tab, the workers that list directories for it and the event pump.  The   *)
(* window thread turns a click into a request of the tab (submit_*_navigation) *)
(* and applies the workers' events in the order of one bounded queue; a worker *)
(* sends a batch and waits until it was applied or its request is cancelled.  *)
(* Requests overtake each other: a late batch, a late finish, a search in     *)
(* between, Back from a place that failed.                                    *)
EXTENDS TabSession, FiniteSets

CONSTANTS
  PerPlace,       \* the files of a place are <<place, 1>> .. <<place, PerPlace>>
  MaxRequests,    \* how many requests a behaviour makes
  QueueCap,       \* room of the event queue (32 in the program)
  Fresh, Listed,  \* the places of a new tab, and of one that has listed its place
  Pasts,          \* the histories such a tab has, <<back, forward>>
  Gestures        \* the user's gestures a run looks at

ASSUME PerPlaceAssumption    == PerPlace \in Nat \ {0}
ASSUME MaxRequestsAssumption == MaxRequests \in Nat \ {0}
ASSUME QueueCapAssumption    == QueueCap \in Nat \ {0}

\* None is no place and no listing; a tab starts somewhere.
ASSUME PlacesAssumption ==
  /\ Home \notin Listable /\ NoPlace \notin Place /\ NoListing \notin Listing
  /\ Fresh \subseteq Place /\ Listed \subseteq Listable
  /\ Pasts \subseteq Seq(Place) \X Seq(Place)

VARIABLES
  tab,        \* the TabSession
  jobs,       \* what became of the directory request of each number
  events,     \* the queue from the workers to the window
  searches,   \* the requests Everything has not answered yet
  picked      \* the files the user picked on each page: what the selection means

vars == <<tab, jobs, events, searches, picked>>

Request == 1..MaxRequests
FileOfPlace(p) == {p} \X (1..PerPlace)

Picked == picked["Directory"] \cup picked["Search"]

NoJob   == [st |-> "none", place |-> NoPlace, todo |-> {}, next |-> 1]
Over(p) == [st |-> "done", place |-> p, todo |-> {}, next |-> 1]

\* Rows are numbered as they are sent, in the order of their names.
RowsOf(p, names, next) ==
  Sorted({[id |-> next + Cardinality({m \in names : m < n}), file |-> <<p, n>>] : n \in names})

\* A tab that has listed its place, with places behind and ahead of it.
Settled(p, past) ==
  LET rows == RowsOf(p, 1..PerPlace, 1)
  IN [NewTab(p) EXCEPT !.entries = rows, !.indices = IndicesOf(rows), !.load = "Complete",
                       !.back = past[1], !.forward = past[2]]

\* A new tab, or one some time later.
Init ==
  /\ tab \in {NewTab(p) : p \in Fresh} \cup {Settled(p, past) : p \in Listed, past \in Pasts}
  /\ jobs = [r \in Request |-> NoJob]
  /\ events = <<>>
  /\ searches = {}
  /\ picked = [page \in {"Directory", "Search"} |-> {}]

-------------------------------------------------------------------------------
(* The window's requests.                                                    *)

\* A place can be asked for while requests remain (the bound of the model).
MayAsk == tab.latest < MaxRequests

NewJob(p) == [st |-> "reading", place |-> p, todo |-> 1..PerPlace, next |-> 1]

\* Begin a request for a listable place and hand it to the workers; the network
\* queue may be full, and the request fails at once.
Submit(p, kind) ==
  /\ MayAsk
  /\ LET t == BeginNavigation(tab, p, kind) IN
     \/ /\ tab' = t
        /\ jobs' = [jobs EXCEPT ![t.latest] = NewJob(p)]
     \/ /\ p \in Unc
        /\ tab' = FailDirectoryNavigation(t, t.latest)
        /\ jobs' = [jobs EXCEPT ![t.latest] = Over(NoPlace)]
  /\ UNCHANGED <<events, searches, picked>>

GoHome(kind) ==
  /\ MayAsk
  /\ tab' = NavigateHome(tab, kind)
  /\ jobs' = [jobs EXCEPT ![tab'.latest] = Over(NoPlace)]
  /\ UNCHANGED <<events, searches, picked>>

\* submit_location_navigation: asking for the place already shown only ends the
\* address edit, which cancels what is loading; WebDAV and Home do not look.
SubmitLocation(p, kind) ==
  IF p = Home THEN GoHome(kind)
  ELSE IF kind = "Normal" /\ p \notin WebDav /\ VisibleLocation(tab) = p
  THEN /\ tab.latest < MaxRequests
       /\ tab' = CancelAddressEdit(tab)
       /\ jobs' = IF tab'.latest = tab.latest THEN jobs
                  ELSE [jobs EXCEPT ![tab'.latest] = Over(NoPlace)]
       /\ UNCHANGED <<events, searches, picked>>
  ELSE Submit(p, kind)

\* A folder of the list, a crumb, the side bar, Up.
Open(p) == "open" \in Gestures /\ SubmitLocation(p, "Normal")

\* The address bar (actions::navigate): the place shown is not asked for again
\* while it loads or is complete, and is refreshed when it failed.
OpenAddress(p) ==
  /\ "address" \in Gestures
  /\ p \in Local \cup Unc
  /\ IF VisibleLocation(tab) # p THEN SubmitLocation(p, "Normal")
     ELSE IF tab.load \notin Busy \cup {"Complete"} THEN SubmitLocation(p, "Refresh")
     ELSE /\ tab.page = "Search" /\ MayAsk
          /\ tab' = CancelAddressEdit(tab)
          /\ jobs' = [jobs EXCEPT ![tab'.latest] = Over(NoPlace)]
          /\ UNCHANGED <<events, searches, picked>>

\* F5 asks for the requested place, or for the current one.
Refresh ==
  /\ "refresh" \in Gestures
  /\ tab.load \notin Busy
  /\ SubmitLocation(IF tab.requested # NoPlace THEN tab.requested ELSE tab.current, "Refresh")

\* A file operation or a watcher changed the place shown (refresh_affected_tabs).
RefreshAffected ==
  /\ "changes" \in Gestures
  /\ VisibleLocation(tab) \in Local \cup Unc
  /\ SubmitLocation(VisibleLocation(tab), "BackgroundRefresh")

Back ==
  /\ "history" \in Gestures
  /\ IF CanRestore(tab)
     THEN /\ tab' = RestoreSuccessfulLocation(tab)
          /\ UNCHANGED <<jobs, events, searches, picked>>
     ELSE tab.back # <<>> /\ SubmitLocation(Last(tab.back), "Back")

Forward ==
  /\ "history" \in Gestures
  /\ tab.forward # <<>>
  /\ SubmitLocation(Last(tab.forward), "Forward")

\* The history menu: any place of either stack.
Jump ==
  /\ "history" \in Gestures
  /\ \/ \E i \in DOMAIN tab.back : SubmitLocation(tab.back[i], "Back")
     \/ \E i \in DOMAIN tab.forward : SubmitLocation(tab.forward[i], "Forward")

\* Escape in the address bar, with or without search results in the tab.
DismissSearch ==
  /\ "search" \in Gestures
  /\ tab.page = "Search" => MayAsk
  /\ tab' = CancelAddressEdit(tab)
  /\ tab' # tab
  /\ jobs' = IF tab'.latest = tab.latest THEN jobs
             ELSE [jobs EXCEPT ![tab'.latest] = Over(NoPlace)]
  /\ UNCHANGED <<events, searches, picked>>

\* The results of an earlier search may be on the directory page by now (Back from
\* a place that failed brings them there), and picks among them with them.
Search ==
  /\ "search" \in Gestures
  /\ MayAsk
  /\ VisibleLocation(tab) \notin WebDav
  /\ tab' = BeginSearch(tab)
  /\ picked' = [picked EXCEPT !["Directory"] = IF tab.page = "Directory" THEN Picked ELSE @,
                              !["Search"] = {}]
  /\ jobs' = [jobs EXCEPT ![tab'.latest] = Over(NoPlace)]
  /\ searches' = searches \cup {tab'.latest}
  /\ UNCHANGED events

\* The rows on the screen (install_directory_models): none for a failed place.
Shown(t) ==
  IF RetainsDirectoryView(t) THEN t.entries
  ELSE IF HasFailedLocation(t) THEN <<>>
  ELSE IF t.load \in Busy THEN t.pending ELSE t.entries

FilesOf(rows) == {rows[i].file : i \in DOMAIN rows}

\* A click on a row of the screen, with or without Control.
Select(i, toggle) ==
  /\ "select" \in Gestures
  /\ i \in DOMAIN Shown(tab)
  /\ LET row == Shown(tab)[i] IN
     /\ tab' = SelectEntry(tab, row.id, toggle)
     /\ picked' = [picked EXCEPT ![tab.page] =
                     IF ~toggle THEN {row.file}
                     ELSE IF row.id \in tab.selected THEN @ \ {row.file}
                     ELSE @ \cup {row.file}]
  /\ UNCHANGED <<jobs, events, searches>>

\* Control+A: the user means everything of the place, whatever it takes.
SelectEverything ==
  /\ "select" \in Gestures
  /\ tab' = SelectAll(tab)
  /\ picked' = [picked EXCEPT ![tab.page] = FilesOf(tab.entries) \cup FilesOf(Shown(tab))
                                              \cup FileOfPlace(VisibleLocation(tab))]
  /\ UNCHANGED <<jobs, events, searches>>

-------------------------------------------------------------------------------
(* The directory workers (run_directory_request, deliver_directory_batch).   *)

Fired(r) == r \in tab.fired

Room == Len(events) < QueueCap

Send(kind, r, rows) ==
  events' = Append(events, [kind |-> kind, request |-> r, rows |-> rows])

\* The listing yields some more of the directory, in any order.
Read(r) ==
  /\ jobs[r].st = "reading"
  /\ ~Fired(r)
  /\ Room
  /\ \E names \in (SUBSET jobs[r].todo) \ {{}} :
       /\ Send("Batch", r, RowsOf(jobs[r].place, names, jobs[r].next))
       /\ jobs' = [jobs EXCEPT ![r].todo = @ \ names,
                               ![r].next = @ + Cardinality(names),
                               ![r].st = "waiting"]
  /\ UNCHANGED <<tab, searches, picked>>

Finish(r) ==
  /\ jobs[r].st = "reading"
  /\ jobs[r].todo = {}
  /\ Room
  /\ \/ Send("Finished", r, <<>>)
     \/ jobs[r].place \in WebDav /\ Send("Incomplete", r, <<>>)
  /\ jobs' = [jobs EXCEPT ![r] = Over(jobs[r].place)]
  /\ UNCHANGED <<tab, searches, picked>>

Fail(r) ==
  /\ jobs[r].st = "reading"
  /\ ~Fired(r)
  /\ Room
  /\ Send("Failed", r, <<>>)
  /\ jobs' = [jobs EXCEPT ![r] = Over(jobs[r].place)]
  /\ UNCHANGED <<tab, searches, picked>>

\* A cancelled request stops between two batches or while it waits for one to
\* be applied; its last event is dropped when the queue is full.
Stop(r) ==
  /\ jobs[r].st \in {"reading", "waiting"}
  /\ Fired(r)
  /\ IF Room THEN Send("Cancelled", r, <<>>) ELSE UNCHANGED events
  /\ jobs' = [jobs EXCEPT ![r] = Over(jobs[r].place)]
  /\ UNCHANGED <<tab, searches, picked>>

-------------------------------------------------------------------------------
(* The event pump (apply_event): a batch is acknowledged whether or not the   *)
(* tab still wants it.                                                        *)

Applied(t, e) ==
  CASE e.kind = "Batch"      -> AcceptDirectoryBatch(t, e.request, e.rows)
    [] e.kind = "Finished"   -> FinishDirectoryNavigation(t, e.request, jobs[e.request].place)
    [] e.kind = "Incomplete" -> FinishRemoteDirectory(t, e.request, jobs[e.request].place, TRUE)
    [] e.kind = "Failed"     -> FailDirectoryNavigation(t, e.request)
    [] e.kind = "Cancelled"  -> CancelDirectoryNavigation(t, e.request)

Acknowledged(e) ==
  IF e.kind = "Batch" /\ jobs[e.request].st = "waiting"
  THEN [jobs EXCEPT ![e.request].st = "reading"] ELSE jobs

ApplyEvent ==
  /\ events # <<>>
  /\ tab' = Applied(tab, Head(events))
  /\ jobs' = Acknowledged(Head(events))
  /\ events' = Tail(events)
  /\ UNCHANGED <<searches, picked>>

\* Everything answers a search with rows from anywhere, or fails.
SearchAnswered(r) ==
  /\ r \in searches
  /\ searches' = searches \ {r}
  /\ IF ~AcceptsSearch(tab, r) THEN UNCHANGED tab
     ELSE \/ \E p \in Local \cup Unc :
               tab' = MergeSearchPage(tab, RowsOf(p, 1..PerPlace, 1), "Complete")
          \/ tab' = [tab EXCEPT !.search = "Failed"]
  /\ UNCHANGED <<jobs, events, picked>>

-------------------------------------------------------------------------------
Next ==
  \/ \E p \in Place : Open(p) \/ OpenAddress(p)
  \/ Refresh \/ RefreshAffected
  \/ Back \/ Forward \/ Jump
  \/ Search \/ DismissSearch
  \/ \E i \in 1..PerPlace, toggle \in BOOLEAN : Select(i, toggle)
  \/ SelectEverything
  \/ \E r \in Request : Read(r) \/ Finish(r) \/ Fail(r) \/ Stop(r)
  \/ ApplyEvent
  \/ \E r \in Request : SearchAnswered(r)

Spec == Init /\ [][Next]_vars

-------------------------------------------------------------------------------
(* Properties.                                                               *)

TypeOK ==
  /\ tab.latest \in 0..MaxRequests
  /\ tab.current \in Place /\ tab.requested \in Listable \cup {NoPlace}
  /\ tab.page \in {"Directory", "Search"}
  /\ tab.load \in {"Idle", "Complete"} \cup Busy \cup Stopped
  /\ FilesOf(tab.entries) \cup FilesOf(tab.pending) \subseteq Listable \X (1..PerPlace)
  /\ tab.cancel \in 0..tab.latest /\ tab.fired \subseteq 1..tab.latest
  /\ \A r \in Request : jobs[r].st \in {"none", "reading", "waiting", "done"}
  /\ Len(events) <= QueueCap

\* What a finished load commits is the whole listing of the place asked for, in
\* order and once each, with the index of exactly those rows.
CommitsWhole ==
  [][ (tab.load \in Busy /\ tab'.load = "Complete" /\ tab'.page = "Directory"
         /\ tab'.current # Home)
      => /\ tab'.current = tab.requested
         /\ [i \in DOMAIN tab'.entries |-> tab'.entries[i].file]
              = [i \in 1..PerPlace |-> <<tab'.current, i>>]
         /\ tab'.indices = IndicesOf(tab'.entries) ]_vars

\* A place left by opening another or by Back and Forward stays in the history,
\* with all that could be gone back to.
LeavingKeepsPlaces ==
  [][ (tab'.current # tab.current
         /\ ~(tab.load \in Busy /\ tab.kind \in {"Refresh", "BackgroundRefresh"}))
      => {tab.current} \cup ToSet(tab.back)
           \subseteq {tab'.current} \cup ToSet(tab'.back) \cup ToSet(tab'.forward) ]_vars

\* The selection of a complete listing stands for files the user picked.
SelectionIsPicked == tab.load = "Complete" => SelectedFiles(tab) \subseteq Picked

\* ... and of every page, also while it loads.
SelectionIsAlwaysPicked == SelectedFiles(tab) \subseteq Picked

\* A complete page of the directory shows files of its place.
DirectoryShowsItsPlace ==
  tab.page = "Directory" /\ tab.load = "Complete" =>
    FilesOf(tab.entries) \subseteq FileOfPlace(tab.current)

\* A load goes on or its end is on the way: the job still reads, or waits for a
\* batch that is in the queue, or its last event is.  Nothing else wakes a tab
\* that shows a folder loading.
LoadIsServed ==
  tab.load \in Busy =>
    LET queued == {events[i].kind : i \in {j \in DOMAIN events : events[j].request = tab.latest}}
    IN CASE jobs[tab.latest].st = "reading" -> TRUE
         [] jobs[tab.latest].st = "waiting" -> "Batch" \in queued
         [] OTHER -> queued \cap {"Finished", "Incomplete", "Failed"} # {}
==============================================================================
