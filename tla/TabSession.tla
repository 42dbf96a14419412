----------------------------- MODULE TabSession ------------------------------
(* One tab of the file manager: the pure operations of TabSession, the record *)
(* the window callbacks and the directory events act on.  A row is an entry of *)
(* a listing: its id, unique only within the request that produced it, and the *)
(* file it stands for, <<place, name>>.  Listings are sorted by name.          *)
EXTENDS Naturals, Sequences, SequencesExt

CONSTANTS
  Local, Unc, WebDav,   \* the places a tab can list, by how they are listed
  Home,                 \* the start page: it has no listing to load
  NoPlace, NoListing    \* None

Listable == Local \cup Unc \cup WebDav
Place    == Listable \cup {Home}

Busy    == {"Loading", "Partial"}
Stopped == {"Cancelled", "Failed"}     \* Failed: NotFound .. Disconnected too
Asking  == {"Searching", "Partial"}

Row     == [id : Nat, file : Listable \X Nat]
Listing == [entries : Seq(Row), selected : SUBSET Nat]

\* The session of a new tab at a place (new, new_at).
NewTab(p) ==
  [latest |-> 0, current |-> p, requested |-> NoPlace, page |-> "Directory",
   search |-> "Waiting", snapshot |-> NoListing, kind |-> "Normal", retain |-> FALSE,
   back |-> <<>>, forward |-> <<>>, entries |-> <<>>, pending |-> <<>>,
   indices |-> <<>>, load |-> IF p = Home THEN "Complete" ELSE "Idle",
   selected |-> {}, cancel |-> 0, fired |-> {}]

-------------------------------------------------------------------------------
(* What the window reads.                                                    *)

VisibleLocation(t) ==
  IF t.load \in Busy \cup Stopped /\ t.requested # NoPlace THEN t.requested ELSE t.current

RetainsDirectoryView(t) == t.retain /\ t.page = "Directory"

HasFailedLocation(t) == t.requested # NoPlace /\ t.load \in Stopped

VisibleEntries(t) ==
  IF t.load = "Partial" /\ ~RetainsDirectoryView(t) THEN t.pending ELSE t.entries

IndicesOf(rows) ==
  [id \in {rows[i].id : i \in DOMAIN rows} |-> CHOOSE i \in DOMAIN rows : rows[i].id = id]

\* The files an entry id stands for now (visible_entry): one, or none.
FileOf(t, id) ==
  {VisibleEntries(t)[i].file :
     i \in {j \in DOMAIN VisibleEntries(t) : id \in DOMAIN t.indices /\ t.indices[id] = j}}

\* What a command on the selection acts on (selected_paths_for_tab).
SelectedFiles(t) == UNION {FileOf(t, id) : id \in t.selected}

\* A request's token is an AtomicBool: fired holds the requests whose is set.
Accepts(t, r) == t.latest = r /\ t.cancel \notin t.fired

AcceptsDirectory(t, r) ==
  t.page = "Directory" /\ t.requested # NoPlace /\ t.load \in Busy /\ Accepts(t, r)

AcceptsSearch(t, r) == t.page = "Search" /\ Accepts(t, r)

-------------------------------------------------------------------------------
(* Listings.                                                                 *)

Reconcile(t) == [t EXCEPT !.selected = @ \cap DOMAIN t.indices]

ReplaceEntries(t, rows) ==
  Reconcile([t EXCEPT !.entries = rows, !.indices = IndicesOf(rows)])

DiscardPending(t) == [t EXCEPT !.pending = <<>>, !.indices = IndicesOf(t.entries)]

ByName(a, b) == a.file[2] < b.file[2]

\* A set of rows as a list in that order.
Sorted(rows) ==
  CHOOSE s \in [1..Cardinality(rows) -> rows] :
    IsInjective(s) /\ \A i, j \in DOMAIN s : i < j => ~ByName(s[j], s[i])

\* Mutant: a batch is always appended.
AppendPendingNoMerge(t, rows) ==
  LET merged == t.pending \o rows
  IN [t EXCEPT !.pending = merged,
               !.indices = IF RetainsDirectoryView(t) THEN @ ELSE IndicesOf(merged),
               !.load = "Partial"]

\* Rows that sort after all pending ones leave the old index entries in place;
\* a merge rebuilds the index.  A retained listing keeps its own index.
AppendPending(t, rows) ==
  LET fits    == t.pending = <<>> \/ ~ByName(rows[1], Last(t.pending))
      merged  == IF fits THEN t.pending \o rows ELSE Sorted(ToSet(t.pending) \cup ToSet(rows))
      added   == [id \in DOMAIN t.indices \cup DOMAIN IndicesOf(merged) |->
                    IF id \in {rows[i].id : i \in DOMAIN rows}
                    THEN IndicesOf(merged)[id] ELSE t.indices[id]]
      indices == IF RetainsDirectoryView(t) THEN t.indices
                 ELSE IF fits THEN added ELSE IndicesOf(merged)
  IN [t EXCEPT !.pending = merged, !.indices = indices, !.load = "Partial"]

CancelPending(t) ==
  LET f == [t EXCEPT !.fired = @ \cup {t.cancel}] IN
  IF t.cancel = 0 THEN t
  ELSE IF t.page = "Search" /\ t.search \in Asking THEN [f EXCEPT !.search = "Cancelled"]
  ELSE IF t.page = "Directory" /\ t.load \in Busy
  THEN LET kept == IF t.load = "Partial" /\ ~RetainsDirectoryView(t) THEN {} ELSE t.selected
       IN [Reconcile(DiscardPending([f EXCEPT !.selected = kept])) EXCEPT !.load = "Cancelled"]
  ELSE f

-------------------------------------------------------------------------------
(* Navigation.                                                               *)

\* Mutant: the new request keeps the token of the old one.
BeginNavigationOldToken(t, p, kind) ==
  LET c == CancelPending(t) IN
  [c EXCEPT !.latest = @ + 1, !.retain = FALSE,
            !.cancel = IF @ = 0 THEN c.latest + 1 ELSE @,
            !.requested = p, !.page = "Directory", !.snapshot = NoListing,
            !.kind = kind, !.load = "Loading", !.pending = <<>>]

BeginNavigation(t, p, kind) ==
  LET c == CancelPending(t) IN
  [c EXCEPT !.latest = @ + 1, !.cancel = c.latest + 1,
            !.retain = /\ kind = "BackgroundRefresh"
                       /\ c.load = "Complete" \/ c.retain
                       /\ c.page = "Directory"
                       /\ c.current = p
                       /\ p \in Local,
            !.requested = p, !.page = "Directory", !.snapshot = NoListing,
            !.kind = kind, !.load = "Loading", !.pending = <<>>]

\* Where a place stands last in a history, 0 when it does not.
LastIndex(s, p) ==
  LET at == {i \in DOMAIN s : s[i] = p}
  IN IF at = {} THEN 0 ELSE CHOOSE i \in at : \A j \in at : j <= i

\* Mutant: the place left is not kept.
TravelForgets(from, to, left, p) ==
  LET i == LastIndex(from, p)
  IN IF i = 0 THEN <<from, to>>
     ELSE <<SubSeq(from, 1, i - 1), to \o SubSeq(from, i + 1, Len(from))>>

\* Back and Forward: the stack travelled loses everything from the target on;
\* the other gains the place left, then what was travelled over.
Travel(from, to, left, p) ==
  LET i == LastIndex(from, p)
  IN IF i = 0 THEN <<from, to>>
     ELSE <<SubSeq(from, 1, i - 1), Append(to, left) \o SubSeq(from, i + 1, Len(from))>>

Histories(t, p) ==
  CASE t.kind = "Normal"  -> IF t.current = p THEN <<t.back, t.forward>>
                             ELSE <<Append(t.back, t.current), <<>>>>
    [] t.kind = "Back"    -> Travel(t.back, t.forward, t.current, p)
    [] t.kind = "Forward" -> <<Travel(t.forward, t.back, t.current, p)[2],
                               Travel(t.forward, t.back, t.current, p)[1]>>
    [] OTHER              -> <<t.back, t.forward>>

CommitLocation(t, p) ==
  [t EXCEPT !.back = Histories(t, p)[1], !.forward = Histories(t, p)[2],
            !.current = p, !.requested = NoPlace, !.kind = "Normal", !.selected = {}]

NavigateHome(t, kind) ==
  LET c == [CancelPending(t) EXCEPT !.latest = @ + 1, !.kind = kind, !.retain = FALSE]
      h == [CommitLocation(c, Home) EXCEPT !.page = "Directory", !.snapshot = NoListing,
                                           !.search = "Waiting", !.pending = <<>>]
  IN [ReplaceEntries(h, <<>>) EXCEPT !.load = "Complete", !.cancel = 0]

\* restore_successful_location: Back from a failed or cancelled place.
CanRestore(t) == HasFailedLocation(t) /\ t.current # NoPlace

RestoreSuccessfulLocation(t) ==
  [t EXCEPT !.forward = IF @ # <<>> /\ Last(@) = t.requested THEN @ ELSE Append(@, t.requested),
            !.requested = NoPlace, !.pending = <<>>, !.load = "Complete",
            !.kind = "Normal", !.cancel = 0]

-------------------------------------------------------------------------------
(* The results of a directory request.                                       *)

AcceptDirectoryBatch(t, r, rows) ==
  IF ~AcceptsDirectory(t, r) THEN t
  ELSE LET first == t.pending = <<>> /\ VisibleLocation(t) \in Unc
       IN AppendPending(IF first THEN [t EXCEPT !.selected = {}] ELSE t, rows)

\* Mutant: the selection is carried over by entry id.
ReselectedById(t, rows) == t.selected \cap {rows[i].id : i \in DOMAIN rows}

\* The rows of a retained listing that stand for files selected before.
Reselected(t, rows) ==
  {rows[i].id : i \in {j \in DOMAIN rows : rows[j].file \in SelectedFiles(t)}}

FinishDirectoryNavigation(t, r, p) ==
  IF ~AcceptsDirectory(t, r) \/ t.requested # p THEN t
  ELSE LET done == CommitLocation([ReplaceEntries(t, t.pending) EXCEPT
                                     !.pending = <<>>, !.load = "Complete", !.cancel = 0], p)
           keep == IF RetainsDirectoryView(t) THEN Reselected(t, t.pending)
                   ELSE IF t.load = "Partial" /\ p \in Unc
                   THEN t.selected \cap DOMAIN IndicesOf(t.pending)
                   ELSE {}
       IN [done EXCEPT !.selected = keep]

\* A WebDAV listing can end incomplete: committed, and marked failed.
FinishRemoteDirectory(t, r, p, incomplete) ==
  LET f == FinishDirectoryNavigation(t, r, p)
  IN IF f # t /\ incomplete THEN [f EXCEPT !.load = "Failed"] ELSE f

FailDirectoryNavigation(t, r) ==
  IF ~AcceptsDirectory(t, r) THEN t ELSE [CancelPending(t) EXCEPT !.load = "Failed"]

CancelDirectoryNavigation(t, r) ==
  IF t.page = "Directory" /\ t.latest = r /\ t.requested # NoPlace /\ t.load \in Busy
  THEN CancelPending(t) ELSE t

-------------------------------------------------------------------------------
(* Search results in the tab, and the address edit that ends them.           *)

\* The rows the directory page returns to when the search is dismissed.
Snapshot(t) == [entries |-> t.entries, selected |-> t.selected]

BeginSearch(t) ==
  LET c == CancelPending(t)
      b == [c EXCEPT !.latest = @ + 1, !.cancel = c.latest + 1,
                     !.snapshot = IF c.page = "Directory" THEN Snapshot(c) ELSE @,
                     !.page = "Search", !.retain = FALSE, !.search = "Searching",
                     !.pending = <<>>]
  IN [ReplaceEntries(b, <<>>) EXCEPT !.selected = {}]

\* The first page of results (merge_search_page into an empty list).
MergeSearchPage(t, rows, state) ==
  [t EXCEPT !.entries = rows, !.indices = IndicesOf(rows), !.search = state]

CancelAddressEdit(t) ==
  LET c == CancelPending(t)
      d == [c EXCEPT !.latest = IF t.page = "Search" THEN @ + 1 ELSE @,
                     !.page = "Directory", !.search = "Waiting", !.snapshot = NoListing]
  IN IF c.snapshot = NoListing THEN d
     ELSE [d EXCEPT !.entries = c.snapshot.entries, !.selected = c.snapshot.selected,
                    !.indices = IndicesOf(c.snapshot.entries)]

-------------------------------------------------------------------------------
(* The selection.                                                            *)

SelectEntry(t, id, toggle) ==
  IF id \notin DOMAIN t.indices THEN t
  ELSE [t EXCEPT !.selected = IF ~toggle THEN {id}
                              ELSE IF id \in @ THEN @ \ {id} ELSE @ \cup {id}]

\* select_all takes the committed rows, whatever is on the screen.
SelectAll(t) == [t EXCEPT !.selected = {t.entries[i].id : i \in DOMAIN t.entries}]
==============================================================================
