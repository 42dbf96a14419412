------------------------- MODULE TabNavigationProofs -------------------------
(***************************************************************************)
(* What holds of the tab, its workers and the event pump for any places,   *)
(* any number of files, requests and queue room.  The inductive invariant  *)
(* IInv has four parts.                                                    *)
(*                                                                         *)
(* Sound is about the tab alone: its token is the one of the request under *)
(* way and not set, the index is the one of the rows on the screen, no row *)
(* is listed twice, and the place travelled to is in the history.          *)
(*                                                                         *)
(* InPicks says which ids stand for files the user picked: the committed   *)
(* rows, the rows of a share while they arrive, and the rows a search has  *)
(* put away.  Local and WebDAV rows that arrive are left out, because      *)
(* there it is not so (SelectionIsAlwaysPicked fails).                     *)
(*                                                                         *)
(* Ordered says that requests, jobs and events are numbered as they are    *)
(* made: the next request has no job, no event and no search yet.          *)
(*                                                                         *)
(* InService is about the request under way: at most one event of it is in *)
(* the queue, and its rows, those in the queue and those still to be read  *)
(* are the whole place, once each.  So what is committed at the end is     *)
(* whole, and a load never hangs.                                          *)
(*                                                                         *)
(* An operation of the tab has one lemma that says what it leaves (...     *)
(* Gives) and one that it keeps Sound and InPicks (...Sound); an action    *)
(* has one lemma (...Step); CommitsNow and LeavesWell go with the step.    *)
(***************************************************************************)
EXTENDS TabNavigation, SequenceTheorems, FiniteSetTheorems, TLAPS

\* In the order of the names.
Ascending(rows) == \A i, j \in DOMAIN rows : i < j => rows[i].file[2] < rows[j].file[2]

\* No id and no file is listed twice.
Apart(rows) ==
  \A i, j \in DOMAIN rows : rows[i].id = rows[j].id \/ rows[i].file = rows[j].file => i = j

-----------------------------------------------------------------------------
(* Sorting.                                                                 *)

\* Rows that their names tell apart.
Named(rows) ==
  /\ IsFiniteSet(rows)
  /\ \A r \in rows : r.file[2] \in Nat
  /\ \A q, r \in rows : q.file[2] = r.file[2] => q = r

\* A finite set of rows of different names can be listed in order: the place of
\* a row is the number of those not after it.
LEMMA OrderExists ==
  ASSUME NEW rows, Named(rows)
  PROVE  \E s \in [1..Cardinality(rows) -> rows] :
           IsInjective(s) /\ \A i, j \in DOMAIN s : i < j => ~ByName(s[j], s[i])
<1> DEFINE n == Cardinality(rows)
           UpTo(r) == {q \in rows : q.file[2] <= r.file[2]}
           rank == [r \in rows |-> Cardinality(UpTo(r))]
<1>1. n \in Nat
  BY FS_CardinalityType DEF Named
<1>2. \A r \in rows : IsFiniteSet(UpTo(r)) /\ Cardinality(UpTo(r)) \in 1..n
  <2> TAKE r \in rows
  <2>1. UpTo(r) \in SUBSET rows /\ r \in UpTo(r)
    BY DEF Named
  <2>2. IsFiniteSet(UpTo(r)) /\ Cardinality(UpTo(r)) <= n
    BY <2>1, FS_Subset DEF Named
  <2>3. Cardinality(UpTo(r)) \in Nat /\ Cardinality(UpTo(r)) # 0
    BY <2>1, <2>2, FS_CardinalityType, FS_EmptySet
  <2>4. QED BY <2>2, <2>3, <1>1
<1>3. ASSUME NEW q \in rows, NEW r \in rows, q.file[2] < r.file[2]
      PROVE  Cardinality(UpTo(q)) < Cardinality(UpTo(r))
  <2>1. UpTo(q) \in SUBSET UpTo(r) /\ r \in UpTo(r) /\ r \notin UpTo(q)
    BY <1>3 DEF Named
  <2>2. Cardinality(UpTo(q)) <= Cardinality(UpTo(r)) /\ Cardinality(UpTo(q)) # Cardinality(UpTo(r))
    BY <2>1, <1>2, FS_Subset
  <2>3. QED BY <2>2, <1>2, <1>1
<1> HIDE DEF n, UpTo
<1>4. rank \in Injection(rows, 1..n)
  <2>1. rank \in [rows -> 1..n]
    BY <1>2
  <2>2. ASSUME NEW q \in rows, NEW r \in rows, rank[q] = rank[r] PROVE q = r
    <3>1. ~(q.file[2] < r.file[2]) /\ ~(r.file[2] < q.file[2])
      BY <2>2, <1>3, <1>2, <1>1
    <3>2. QED BY <3>1 DEF Named
  <2>3. QED BY <2>1, <2>2 DEF Injection, IsInjective
<1>5. rank \in Surjection(rows, 1..n)
  <2>1. IsFiniteSet(1..n) /\ Cardinality(1..n) = n
    BY <1>1, FS_Interval
  <2>2. QED BY <2>1, <1>4, FS_Injection DEF n
<1>6. \A i \in 1..n : \E r \in rows : rank[r] = i
  BY <1>5 DEF Surjection
<1>a. \A q, r \in rows : q.file[2] < r.file[2] => rank[q] < rank[r]
  BY <1>3
<1>b. \A r \in rows : rank[r] \in Nat
  BY <1>2, <1>1
<1> HIDE DEF rank
<1> DEFINE s == [i \in 1..n |-> CHOOSE r \in rows : rank[r] = i]
<1>7. \A i \in 1..n : s[i] \in rows /\ rank[s[i]] = i
  BY <1>6
<1> HIDE DEF s
<1>8. s \in [1..n -> rows]
  BY <1>7 DEF s
<1>9. IsInjective(s)
  BY <1>7, <1>8 DEF IsInjective
<1>10. ASSUME NEW i \in 1..n, NEW j \in 1..n, i < j PROVE ~ByName(s[j], s[i])
  BY <1>10, <1>7, <1>a, <1>1 DEF ByName
<1>11. QED BY <1>8, <1>9, <1>10 DEF n

LEMMA SortedSorts ==
  ASSUME NEW rows, Named(rows)
  PROVE  /\ Sorted(rows) \in [1..Cardinality(rows) -> rows]
         /\ IsInjective(Sorted(rows)) /\ Ascending(Sorted(rows))
         /\ Cardinality(rows) \in Nat
         /\ \A r \in rows : \E i \in 1..Cardinality(rows) : Sorted(rows)[i] = r
<1> DEFINE s == Sorted(rows)  n == Cardinality(rows)
<1>1. /\ s \in [1..n -> rows] /\ IsInjective(s)
      /\ \A i, j \in DOMAIN s : i < j => ~ByName(s[j], s[i])
  BY OrderExists DEF Sorted
<1>2. n \in Nat
  BY FS_CardinalityType DEF Named
<1> HIDE DEF s, n
<1>3. Ascending(s)
  <2> SUFFICES ASSUME NEW i \in 1..n, NEW j \in 1..n, i < j
               PROVE  s[i].file[2] < s[j].file[2]
    BY <1>1 DEF Ascending
  <2>1. s[i] \in rows /\ s[j] \in rows /\ s[i] # s[j]
    BY <1>1, <1>2 DEF IsInjective
  <2>2. s[i].file[2] \in Nat /\ s[j].file[2] \in Nat /\ s[i].file[2] # s[j].file[2]
    BY <2>1 DEF Named
  <2>3. QED BY <1>1, <2>2 DEF ByName
<1>4. s \in Injection(1..n, rows)
  BY <1>1 DEF Injection
<1>5. s \in Surjection(1..n, rows)
  <2>1. IsFiniteSet(1..n) /\ Cardinality(1..n) = n
    BY <1>2, FS_Interval
  <2>2. QED BY <2>1, <1>4, FS_Injection DEF n, Named
<1>6. QED BY <1>1, <1>2, <1>3, <1>5 DEF s, n, Surjection

-----------------------------------------------------------------------------
(* What a tab is.                                                           *)

Kinds     == {"Normal", "Refresh", "BackgroundRefresh", "Back", "Forward"}
Pages     == {"Directory", "Search"}
Loads     == {"Idle", "Complete"} \cup Busy \cup Stopped
Searches  == {"Waiting", "Searching", "Partial", "Complete", "Cancelled", "Failed"}
Requested == Listable \cup {NoPlace}
Places    == Seq(Place)
Files     == Listable \X (1..PerPlace)
FileRow   == [id : Nat, file : Files]
Rows      == Seq(FileRow)
Ids       == SUBSET Nat
Listings  == [entries : Rows, selected : Ids] \cup {NoListing}
Indices   == UNION {[D -> Nat] : D \in Ids}

Tab ==
  [latest : Nat, current : Place, requested : Requested, page : Pages, search : Searches,
   snapshot : Listings, kind : Kinds, retain : BOOLEAN, back : Places, forward : Places,
   entries : Rows, pending : Rows, indices : Indices, load : Loads, selected : Ids,
   cancel : Nat, fired : Ids]

LEMMA SomeTypes ==
  /\ {"Idle", "Complete", "Loading", "Partial", "Cancelled", "Failed"} = Loads
  /\ {"Normal", "Refresh", "BackgroundRefresh", "Back", "Forward"} = Kinds
  /\ {"Directory", "Search"} = Pages
  /\ {"Waiting", "Searching", "Partial", "Complete", "Cancelled", "Failed"} = Searches
  /\ <<>> \in Rows /\ {} \in Ids /\ 0 \in Nat /\ NoListing \in Listings /\ NoPlace \in Requested
  /\ Listable \subseteq Requested /\ Listable \subseteq Place /\ Home \in Place
  /\ NoPlace \notin Listable
BY PlacesAssumption DEF Loads, Kinds, Pages, Searches, Rows, Ids, Listings, Requested, Place, Busy, Stopped

LEMMA RowsAre ==
  ASSUME NEW rows \in Rows, NEW i \in DOMAIN rows
  PROVE  /\ rows[i].id \in Nat /\ rows[i].file \in Files /\ i \in Nat
         /\ rows[i].file[1] \in Listable /\ rows[i].file[2] \in 1..PerPlace /\ rows[i].file[2] \in Nat
         /\ rows[i].file = <<rows[i].file[1], rows[i].file[2]>>
<1>1. rows[i] \in FileRow /\ i \in Nat
  BY DEF Rows
<1>2. rows[i].id \in Nat /\ rows[i].file \in Files
  BY <1>1 DEF FileRow
<1>3. QED BY <1>1, <1>2, PerPlaceAssumption DEF Files

\* A listing kept aside is not the absence of one.
LEMMA ListingIsSome ==
  ASSUME NEW l \in [entries : Rows, selected : Ids]
  PROVE  l # NoListing
<1>1. Rows \subseteq Seq(Row)
  <2>1. FileRow \subseteq Row
    BY PerPlaceAssumption DEF Files, Row, FileRow
  <2>2. QED BY <2>1 DEF Rows
<1>2. l \in Listing
  BY <1>1 DEF Listing, Ids
<1>3. QED BY <1>2, PlacesAssumption

LEMMA IndicesType ==
  ASSUME NEW rows \in Rows
  PROVE  /\ IndicesOf(rows) \in Indices
         /\ DOMAIN IndicesOf(rows) = {rows[i].id : i \in DOMAIN rows}
<1> DEFINE D == {rows[i].id : i \in DOMAIN rows}
           at(id) == CHOOSE i \in DOMAIN rows : rows[i].id = id
<1>1. D \in Ids
  BY RowsAre DEF Ids
<1>2. \A id \in D : at(id) \in Nat
  BY DEF Rows
<1>3. IndicesOf(rows) \in [D -> Nat]
  BY <1>2 DEF IndicesOf
<1>4. QED BY <1>1, <1>3 DEF Indices, IndicesOf

\* Rows apart are found under their ids.
LEMMA IndexFinds ==
  ASSUME NEW rows \in Rows, Apart(rows), NEW i \in DOMAIN rows
  PROVE  IndicesOf(rows)[rows[i].id] = i
<1>1. (CHOOSE j \in DOMAIN rows : rows[j].id = rows[i].id) = i
  BY DEF Apart
<1>2. rows[i].id \in {rows[j].id : j \in DOMAIN rows}
  OBVIOUS
<1>3. QED BY <1>1, <1>2 DEF IndicesOf

-----------------------------------------------------------------------------
(* What each operation leaves in a tab.                                     *)

\* A load is under way in the directory page and can be told to stop.
Stops(t) == t.cancel # 0 /\ t.page = "Directory" /\ t.load \in Busy

\* What was asked for is given up.
GivesUp(t, c) ==
  /\ c \in Tab
  /\ c.latest = t.latest /\ c.current = t.current /\ c.requested = t.requested
  /\ c.page = t.page /\ c.snapshot = t.snapshot /\ c.kind = t.kind /\ c.retain = t.retain
  /\ c.back = t.back /\ c.forward = t.forward /\ c.entries = t.entries /\ c.cancel = t.cancel
  /\ t.cancel = 0 => c.fired = t.fired
  /\ t.cancel # 0 => c.fired = t.fired \cup {t.cancel}
  /\ Stops(t) => /\ c.load = "Cancelled" /\ c.pending = <<>> /\ c.indices = IndicesOf(t.entries)
                 /\ c.selected \subseteq t.selected
                 /\ t.load = "Partial" /\ ~t.retain => c.selected = {}
  /\ ~Stops(t) => /\ c.load = t.load /\ c.pending = t.pending
                  /\ c.indices = t.indices /\ c.selected = t.selected

LEMMA CancelPendingGives ==
  ASSUME NEW t \in Tab
  PROVE  GivesUp(t, CancelPending(t))
<1> DEFINE c == CancelPending(t)
           fi == t.fired \cup {t.cancel}
           f == [t EXCEPT !.fired = fi]
           kept == IF t.load = "Partial" /\ ~RetainsDirectoryView(t) THEN {} ELSE t.selected
           ix == IndicesOf(t.entries)
           sel == kept \cap DOMAIN ix
<1>0. fi \in Ids
  BY DEF Tab, Ids
<1>a. f = [t EXCEPT !.fired = @ \cup {t.cancel}]
  BY DEF Tab
<1>1. CASE t.cancel = 0
  BY <1>1 DEF CancelPending, Stops, GivesUp
<1>2. CASE t.cancel # 0 /\ ~Stops(t)
  <2>1. c = f \/ c = [f EXCEPT !.search = "Cancelled"]
    BY <1>2, <1>a DEF CancelPending, Stops
  <2>2. "Cancelled" \in Searches
    BY SomeTypes
  <2>3. GivesUp(t, f)
    <3> HIDE DEF fi
    <3>1. f \in Tab /\ f.fired = fi
      BY <1>0 DEF Tab
    <3>2. QED BY <1>2, <3>1 DEF GivesUp, Tab, fi
  <2> HIDE DEF f
  <2>4. GivesUp(t, [f EXCEPT !.search = "Cancelled"])
    <3> DEFINE g == [f EXCEPT !.search = "Cancelled"]
    <3>1. f \in Tab
      BY <2>3 DEF GivesUp
    <3>2. g \in Tab
      BY <3>1, <2>2 DEF Tab
    <3>3. QED BY <1>2, <2>3, <3>1, <3>2 DEF GivesUp, Tab
  <2>5. QED BY <2>1, <2>3, <2>4
<1>3. CASE Stops(t)
  <2>1. c = [Reconcile(DiscardPending([f EXCEPT !.selected = kept])) EXCEPT !.load = "Cancelled"]
    BY <1>3, <1>a DEF CancelPending, Stops
  <2>2. ix \in Indices
    BY IndicesType DEF Tab
  <2>3. kept \in Ids /\ sel \in Ids
    BY DEF Tab, Ids
  <2>4. t.load = "Partial" /\ ~t.retain => kept = {}
    BY <1>3 DEF Stops, RetainsDirectoryView
  <2>5. sel \subseteq kept /\ sel \subseteq t.selected
    OBVIOUS
  <2>6. "Cancelled" \in Loads /\ <<>> \in Rows
    BY SomeTypes
  <2>7. f \in Tab
    BY <1>0 DEF Tab
  <2>8. f.entries = t.entries
    BY DEF Tab
  <2> DEFINE g == [[[[f EXCEPT !.selected = kept] EXCEPT !.pending = <<>>, !.indices = ix]
                     EXCEPT !.selected = sel] EXCEPT !.load = "Cancelled"]
  <2> HIDE DEF kept
  <2>9. c = g
    BY <2>1, <2>7, <2>8 DEF Reconcile, DiscardPending, Tab
  <2> HIDE DEF c, ix, sel, fi
  <2>10. /\ g \in Tab /\ g.load = "Cancelled" /\ g.pending = <<>> /\ g.indices = ix
         /\ g.selected = sel /\ g.fired = fi
    BY <1>0, <2>2, <2>3, <2>6, <2>7 DEF Tab
  <2>11. /\ g.latest = t.latest /\ g.current = t.current /\ g.requested = t.requested
         /\ g.page = t.page /\ g.snapshot = t.snapshot /\ g.kind = t.kind /\ g.retain = t.retain
         /\ g.back = t.back /\ g.forward = t.forward /\ g.entries = t.entries /\ g.cancel = t.cancel
    BY DEF Tab
  <2> HIDE DEF g
  <2>12. GivesUp(t, g)
    BY <1>3, <2>4, <2>5, <2>10, <2>11 DEF GivesUp, Stops, ix, fi
  <2>13. QED BY <2>9, <2>12 DEF c
<1>4. QED BY <1>1, <1>2, <1>3

\* A new request at its start.
Begins(t, b, p, kind) ==
  /\ b \in Tab
  /\ b.latest = t.latest + 1 /\ b.cancel = b.latest /\ b.requested = p
  /\ b.page = "Directory" /\ b.snapshot = NoListing /\ b.kind = kind
  /\ b.load = "Loading" /\ b.pending = <<>>
  /\ b.current = t.current /\ b.back = t.back /\ b.forward = t.forward
  /\ b.entries = t.entries /\ b.fired \subseteq t.fired \cup ({t.cancel} \ {0})
  /\ Stops(t) => /\ b.indices = IndicesOf(t.entries) /\ b.selected \subseteq t.selected
                 /\ t.load = "Partial" /\ ~t.retain => b.selected = {}
  /\ ~Stops(t) => b.indices = t.indices /\ b.selected = t.selected

LEMMA BeginNavigationGives ==
  ASSUME NEW t \in Tab, NEW p \in Listable, NEW kind \in Kinds
  PROVE  Begins(t, BeginNavigation(t, p, kind), p, kind)
<1> DEFINE c == CancelPending(t)
           v == /\ kind = "BackgroundRefresh"
                /\ c.load = "Complete" \/ c.retain
                /\ c.page = "Directory"
                /\ c.current = p
                /\ p \in Local
           b == [c EXCEPT !.latest = @ + 1, !.cancel = c.latest + 1, !.retain = v,
                          !.requested = p, !.page = "Directory", !.snapshot = NoListing,
                          !.kind = kind, !.load = "Loading", !.pending = <<>>]
<1>1. b = BeginNavigation(t, p, kind)
  BY DEF BeginNavigation
<1>2. c \in Tab /\ GivesUp(t, c)
  BY CancelPendingGives DEF GivesUp
<1>3. v \in BOOLEAN
  OBVIOUS
<1>4. /\ p \in Requested /\ "Directory" \in Pages /\ NoListing \in Listings /\ "Loading" \in Loads
      /\ <<>> \in Rows
  BY SomeTypes
<1>a. c.latest + 1 \in Nat
  BY <1>2 DEF Tab
<1> HIDE DEF c, v
<1>5. b \in Tab
  BY <1>2, <1>3, <1>4, <1>a DEF Tab
<1>6. /\ b.latest = c.latest + 1 /\ b.cancel = c.latest + 1 /\ b.requested = p
      /\ b.page = "Directory" /\ b.snapshot = NoListing /\ b.kind = kind
      /\ b.load = "Loading" /\ b.pending = <<>>
      /\ b.current = c.current /\ b.back = c.back /\ b.forward = c.forward
      /\ b.entries = c.entries /\ b.fired = c.fired /\ b.indices = c.indices /\ b.selected = c.selected
  BY <1>2 DEF Tab
<1> HIDE DEF b
<1>7. Begins(t, b, p, kind)
  BY <1>2, <1>5, <1>6 DEF Begins, GivesUp
<1>8. QED BY <1>1, <1>7

-----------------------------------------------------------------------------
(* The histories.                                                           *)

\* A finite set of numbers has a largest one: as many as it has are not above it.
LEMMA LargestExists ==
  ASSUME NEW S \in SUBSET Nat, IsFiniteSet(S), S # {}
  PROVE  \E m \in S : \A k \in S : k <= m
<1> DEFINE rows == {[id |-> 0, file |-> <<0, k>>] : k \in S}
           f == [k \in S |-> [id |-> 0, file |-> <<0, k>>]]
<1>1. Named(rows) /\ rows # {}
  <2>1. f \in Surjection(S, rows)
    BY DEF Surjection
  <2>2. IsFiniteSet(rows)
    BY <2>1, FS_Surjection
  <2>3. \A r \in rows : r.file[2] \in S /\ r = [id |-> 0, file |-> <<0, r.file[2]>>]
    OBVIOUS
  <2>4. rows # {}
    OBVIOUS
  <2> HIDE DEF rows, f
  <2>5. QED BY <2>2, <2>3, <2>4 DEF Named
<1> DEFINE s == Sorted(rows)  n == Cardinality(rows)
<1>2. /\ s \in [1..n -> rows] /\ Ascending(s) /\ n \in Nat
      /\ \A r \in rows : \E i \in 1..n : s[i] = r
  BY <1>1, SortedSorts
<1> HIDE DEF s, n
<1>3. n \in 1..n
  BY <1>1, <1>2
<1>4. PICK m \in S : s[n] = [id |-> 0, file |-> <<0, m>>]
  BY <1>2, <1>3
<1>5. ASSUME NEW k \in S PROVE k <= m
  <2>1. PICK i \in 1..n : s[i] = [id |-> 0, file |-> <<0, k>>]
    BY <1>2
  <2>2. i = n \/ i < n
    BY <1>2
  <2>3. CASE i = n
    BY <2>1, <2>3, <1>4
  <2>4. CASE i < n
    BY <2>1, <2>4, <1>2, <1>3, <1>4 DEF Ascending
  <2>5. QED BY <2>2, <2>3, <2>4
<1>6. QED BY <1>5

LEMMA LastIndexFinds ==
  ASSUME NEW s \in Places, NEW p \in Place
  PROVE  /\ p \in ToSet(s) => LastIndex(s, p) \in DOMAIN s /\ s[LastIndex(s, p)] = p
         /\ p \notin ToSet(s) => LastIndex(s, p) = 0
<1> DEFINE at == {i \in DOMAIN s : s[i] = p}
<1>1. p \in ToSet(s) <=> at # {}
  BY DEF ToSet
<1>2. ASSUME at # {} PROVE \E i \in at : \A j \in at : j <= i
  <2>1. at \in SUBSET Nat /\ IsFiniteSet(at)
    BY FS_Interval, FS_Subset DEF Places
  <2>2. QED BY <1>2, <2>1, LargestExists
<1>3. at # {} => LastIndex(s, p) \in at
  BY <1>2 DEF LastIndex
<1>4. QED BY <1>1, <1>3 DEF LastIndex

LEMMA TravelGives ==
  ASSUME NEW from \in Places, NEW to \in Places, NEW left \in Place, NEW p \in Place
  PROVE  LET h == Travel(from, to, left, p) IN
         /\ h[1] \in Places /\ h[2] \in Places
         /\ p \in ToSet(from) =>
              {left} \cup ToSet(from) \subseteq {p} \cup ToSet(h[1]) \cup ToSet(h[2])
         /\ p \in ToSet(from) => {left} \cup ToSet(to) \subseteq ToSet(h[2])
         /\ p \notin ToSet(from) => h = <<from, to>>
<1> DEFINE i == LastIndex(from, p)
           before == SubSeq(from, 1, i - 1)
           after == SubSeq(from, i + 1, Len(from))
           gained == Append(to, left)
<1>1. CASE p \notin ToSet(from)
  BY <1>1, LastIndexFinds DEF Travel
<1>2. CASE p \in ToSet(from)
  <2>1. i \in 1..Len(from) /\ from[i] = p /\ i # 0
    BY <1>2, LastIndexFinds DEF Places
  <2>2. Travel(from, to, left, p) = <<before, gained \o after>>
    BY <2>1 DEF Travel
  <2>3. Len(from) \in Nat
    BY DEF Places
  <2>4. /\ before \in Seq(Place) /\ Len(before) = i - 1
        /\ \A k \in 1..(i - 1) : before[k] = from[k]
    BY <2>1, <2>3, SubSeqProperties DEF Places
  <2>5. /\ after \in Seq(Place) /\ Len(after) = Len(from) - i
        /\ \A k \in 1..(Len(from) - i) : after[k] = from[i + k]
    <3>1. CASE i = Len(from)
      BY <2>1, <2>3, <3>1, SubSeqProperties DEF Places
    <3>2. CASE i < Len(from)
      BY <2>1, <2>3, <3>2, SubSeqProperties DEF Places
    <3>3. QED BY <3>1, <3>2, <2>1, <2>3
  <2>6. /\ gained \in Seq(Place) /\ Len(gained) = Len(to) + 1 /\ Len(to) \in Nat
        /\ \A k \in 1..Len(to) : gained[k] = to[k]
        /\ gained[Len(to) + 1] = left
    BY DEF Places
  <2> HIDE DEF i, before, after, gained
  <2> DEFINE g == gained \o after
  <2>7. /\ g \in Seq(Place) /\ DOMAIN g = 1..(Len(gained) + Len(after))
        /\ \A k \in 1..Len(gained) : g[k] = gained[k]
        /\ \A k \in 1..Len(after) : g[Len(gained) + k] = after[k]
    <3>1. Len(gained) \in Nat /\ Len(after) \in Nat /\ gained \in Seq(Place) /\ after \in Seq(Place)
      BY <2>1, <2>3, <2>5, <2>6
    <3>2. /\ g \in Seq(Place) /\ Len(g) = Len(gained) + Len(after)
          /\ \A k \in 1..(Len(gained) + Len(after)) :
                g[k] = IF k <= Len(gained) THEN gained[k] ELSE after[k - Len(gained)]
      BY <3>1, ConcatProperties
    <3> HIDE DEF g
    <3>3. DOMAIN g = 1..(Len(gained) + Len(after))
      BY <3>1, <3>2
    <3>4. \A k \in 1..Len(gained) : g[k] = gained[k]
      BY <3>1, <3>2
    <3>5. ASSUME NEW k \in 1..Len(after) PROVE g[Len(gained) + k] = after[k]
      <4>1. /\ Len(gained) + k \in 1..(Len(gained) + Len(after))
            /\ ~(Len(gained) + k <= Len(gained)) /\ (Len(gained) + k) - Len(gained) = k
        BY <3>1
      <4>2. QED BY <3>2, <4>1
    <3>6. QED BY <3>2, <3>3, <3>4, <3>5
  <2> HIDE DEF g
  <2>8. \A k \in DOMAIN before : before[k] \in ToSet(before)
    BY DEF ToSet
  <2>9. \A k \in DOMAIN g : g[k] \in ToSet(g)
    BY DEF ToSet
  <2>10. left \in ToSet(g) /\ ToSet(to) \subseteq ToSet(g)
    <3>1. left = g[Len(to) + 1] /\ Len(to) + 1 \in DOMAIN g
      BY <2>6, <2>7, <2>5, <2>1, <2>3
    <3>2. \A k \in 1..Len(to) : to[k] = g[k] /\ k \in DOMAIN g
      BY <2>6, <2>7, <2>5, <2>1, <2>3
    <3>3. QED BY <3>1, <3>2, <2>9 DEF ToSet, Places
  <2>11. ASSUME NEW k \in 1..Len(from) PROVE from[k] \in {p} \cup ToSet(before) \cup ToSet(g)
    <3>1. CASE k < i
      BY <3>1, <2>1, <2>3, <2>4, <2>8
    <3>2. CASE k = i
      BY <3>2, <2>1
    <3>3. CASE k > i
      <4>1. k - i \in 1..Len(after) /\ i + (k - i) = k
        BY <3>3, <2>1, <2>3, <2>5
      <4>2. g[Len(gained) + (k - i)] = from[k] /\ Len(gained) + (k - i) \in DOMAIN g
        <5>1. g[Len(gained) + (k - i)] = after[k - i] /\ after[k - i] = from[i + (k - i)]
          BY <4>1, <2>7, <2>5
        <5>2. Len(gained) \in Nat /\ Len(after) \in Nat
          BY <2>1, <2>3, <2>5, <2>6
        <5>3. Len(gained) + (k - i) \in 1..(Len(gained) + Len(after))
          BY <4>1, <5>2
        <5>4. QED BY <4>1, <5>1, <5>3, <2>7
      <4>3. QED BY <4>2, <2>9
    <3>4. QED BY <3>1, <3>2, <3>3, <2>1, <2>3
  <2>12. ToSet(from) \subseteq {p} \cup ToSet(before) \cup ToSet(g)
    BY <2>11 DEF ToSet, Places
  <2>13. QED BY <1>2, <2>2, <2>4, <2>7, <2>10, <2>12 DEF Places, g
<1>3. QED BY <1>1, <1>2

IdsOf(rows)   == {rows[i].id : i \in DOMAIN rows}
NamesOf(rows) == {rows[i].file[2] : i \in DOMAIN rows}

\* The files that ids stand for in a list.
ChosenFrom(rows, ids) == {rows[i].file : i \in {j \in DOMAIN rows : rows[j].id \in ids}}

LEMMA AppendSet ==
  ASSUME NEW s \in Places, NEW p \in Place
  PROVE  Append(s, p) \in Places /\ ToSet(Append(s, p)) = ToSet(s) \cup {p}
<1>1. /\ Append(s, p) \in Seq(Place) /\ DOMAIN Append(s, p) = 1..(Len(s) + 1)
      /\ DOMAIN s = 1..Len(s) /\ Len(s) \in Nat
      /\ \A i \in 1..Len(s) : Append(s, p)[i] = s[i]
      /\ Append(s, p)[Len(s) + 1] = p
  BY DEF Places
<1>2. ToSet(Append(s, p)) \subseteq ToSet(s) \cup {p}
  BY <1>1 DEF ToSet
<1>3. \A i \in 1..Len(s) : i \in DOMAIN Append(s, p)
  BY <1>1
<1>4. Len(s) + 1 \in DOMAIN Append(s, p)
  BY <1>1
<1>5. ToSet(s) \cup {p} \subseteq ToSet(Append(s, p))
  BY <1>1, <1>3, <1>4 DEF ToSet
<1>6. QED BY <1>1, <1>2, <1>5 DEF Places

\* The place travelled to is one of the stack travelled.
Travels(t, p) ==
  \/ t.kind = "Normal"
  \/ t.kind = "Back" /\ p \in ToSet(t.back)
  \/ t.kind = "Forward" /\ p \in ToSet(t.forward)

LEMMA HistoriesKeep ==
  ASSUME NEW t \in Tab, NEW p \in Place
  PROVE  /\ Histories(t, p)[1] \in Places /\ Histories(t, p)[2] \in Places
         /\ Travels(t, p) =>
              {t.current} \cup ToSet(t.back)
                \subseteq {p} \cup ToSet(Histories(t, p)[1]) \cup ToSet(Histories(t, p)[2])
<1>1. t.back \in Places /\ t.forward \in Places /\ t.current \in Place /\ <<>> \in Places
  BY DEF Tab, Places
<1>2. CASE t.kind = "Normal"
  <2>1. CASE t.current = p
    BY <1>1, <1>2, <2>1 DEF Histories
  <2>2. CASE t.current # p
    <3>1. Histories(t, p)[1] = Append(t.back, t.current) /\ Histories(t, p)[2] = <<>>
      BY <1>2, <2>2 DEF Histories
    <3>2. QED BY <3>1, <1>1, AppendSet
  <2>3. QED BY <2>1, <2>2
<1>3. CASE t.kind = "Back"
  <2>1. Histories(t, p) = Travel(t.back, t.forward, t.current, p)
    BY <1>3 DEF Histories
  <2>2. QED BY <2>1, <1>1, <1>3, TravelGives DEF Travels
<1>4. CASE t.kind = "Forward"
  <2>1. /\ Histories(t, p)[1] = Travel(t.forward, t.back, t.current, p)[2]
        /\ Histories(t, p)[2] = Travel(t.forward, t.back, t.current, p)[1]
    BY <1>4 DEF Histories
  <2>2. QED BY <2>1, <1>1, <1>4, TravelGives DEF Travels
<1>5. CASE t.kind \notin {"Normal", "Back", "Forward"}
  BY <1>1, <1>5 DEF Histories, Travels
<1>6. QED BY <1>2, <1>3, <1>4, <1>5

\* Nothing that could be gone back to is lost.
Keeps(t, c) ==
  {t.current} \cup ToSet(t.back) \subseteq {c.current} \cup ToSet(c.back) \cup ToSet(c.forward)

\* The place asked for becomes the current one.
Commits(t, c, p) ==
  /\ c \in Tab
  /\ c.current = p /\ c.requested = NoPlace /\ c.kind = "Normal" /\ c.selected = {}
  /\ c.latest = t.latest /\ c.page = t.page /\ c.snapshot = t.snapshot /\ c.retain = t.retain
  /\ c.entries = t.entries /\ c.pending = t.pending /\ c.indices = t.indices
  /\ c.load = t.load /\ c.cancel = t.cancel /\ c.fired = t.fired
  /\ Travels(t, p) => Keeps(t, c)

LEMMA CommitLocationGives ==
  ASSUME NEW t \in Tab, NEW p \in Place
  PROVE  Commits(t, CommitLocation(t, p), p)
<1> DEFINE b == Histories(t, p)[1]  f == Histories(t, p)[2]
           c == [t EXCEPT !.back = b, !.forward = f, !.current = p, !.requested = NoPlace,
                          !.kind = "Normal", !.selected = {}]
<1>1. c = CommitLocation(t, p)
  BY DEF CommitLocation
<1>2. /\ b \in Places /\ f \in Places
      /\ Travels(t, p) => {t.current} \cup ToSet(t.back) \subseteq {p} \cup ToSet(b) \cup ToSet(f)
  BY HistoriesKeep
<1>3. NoPlace \in Requested /\ "Normal" \in Kinds /\ {} \in Ids
  BY SomeTypes
<1> HIDE DEF b, f
<1>4. c \in Tab
  BY <1>2, <1>3 DEF Tab
<1>5. /\ c.current = p /\ c.requested = NoPlace /\ c.kind = "Normal" /\ c.selected = {}
      /\ c.latest = t.latest /\ c.page = t.page /\ c.snapshot = t.snapshot /\ c.retain = t.retain
      /\ c.entries = t.entries /\ c.pending = t.pending /\ c.indices = t.indices
      /\ c.load = t.load /\ c.cancel = t.cancel /\ c.fired = t.fired /\ c.back = b /\ c.forward = f
  BY DEF Tab
<1> HIDE DEF c
<1>6. Commits(t, c, p)
  BY <1>2, <1>4, <1>5 DEF Commits, Keeps
<1>7. QED BY <1>1, <1>6

\* The rows shown are replaced, and what is selected is among them.
Replaces(t, c, rows) ==
  /\ c \in Tab
  /\ c.entries = rows /\ c.indices = IndicesOf(rows) /\ c.selected = t.selected \cap IdsOf(rows)
  /\ c.latest = t.latest /\ c.current = t.current /\ c.requested = t.requested
  /\ c.page = t.page /\ c.snapshot = t.snapshot /\ c.kind = t.kind /\ c.retain = t.retain
  /\ c.back = t.back /\ c.forward = t.forward /\ c.pending = t.pending
  /\ c.load = t.load /\ c.cancel = t.cancel /\ c.fired = t.fired

LEMMA ReplaceEntriesGives ==
  ASSUME NEW t \in Tab, NEW rows \in Rows
  PROVE  Replaces(t, ReplaceEntries(t, rows), rows)
<1> DEFINE ix == IndicesOf(rows)
           sel == t.selected \cap DOMAIN ix
           f == [t EXCEPT !.entries = rows, !.indices = ix]
           c == [f EXCEPT !.selected = sel]
<1>1. ix \in Indices /\ DOMAIN ix = IdsOf(rows)
  BY IndicesType DEF IdsOf
<1>2. sel \in Ids
  BY DEF Tab, Ids
<1>3. c = ReplaceEntries(t, rows)
  <2> HIDE DEF ix
  <2>1. f.indices = ix /\ f.selected = t.selected
    BY DEF Tab
  <2> HIDE DEF f
  <2>2. c = Reconcile(f)
    BY <2>1 DEF Reconcile
  <2>3. QED BY <2>2 DEF ReplaceEntries, ix, f
<1> HIDE DEF ix, sel
<1>4. c \in Tab
  BY <1>1, <1>2 DEF Tab
<1>5. /\ c.entries = rows /\ c.indices = ix /\ c.selected = sel
      /\ c.latest = t.latest /\ c.current = t.current /\ c.requested = t.requested
      /\ c.page = t.page /\ c.snapshot = t.snapshot /\ c.kind = t.kind /\ c.retain = t.retain
      /\ c.back = t.back /\ c.forward = t.forward /\ c.pending = t.pending
      /\ c.load = t.load /\ c.cancel = t.cancel /\ c.fired = t.fired
  BY DEF Tab
<1> HIDE DEF c
<1>6. Replaces(t, c, rows)
  BY <1>1, <1>4, <1>5 DEF Replaces, ix, sel
<1>7. QED BY <1>3, <1>6

\* The start page is shown, and nothing is loading.
ShowsHome(t, h) ==
  /\ h \in Tab
  /\ h.latest = t.latest + 1 /\ h.current = Home /\ h.requested = NoPlace
  /\ h.page = "Directory" /\ h.snapshot = NoListing /\ h.load = "Complete"
  /\ h.pending = <<>> /\ h.entries = <<>> /\ h.indices = IndicesOf(<<>>) /\ h.selected = {}
  /\ h.cancel = 0 /\ h.fired \subseteq t.fired \cup ({t.cancel} \ {0})

LEMMA NavigateHomeGives ==
  ASSUME NEW t \in Tab, NEW kind \in Kinds
  PROVE  /\ ShowsHome(t, NavigateHome(t, kind))
         /\ \/ kind = "Normal"
            \/ kind = "Back" /\ Home \in ToSet(t.back)
            \/ kind = "Forward" /\ Home \in ToSet(t.forward)
            => Keeps(t, NavigateHome(t, kind))
<1> DEFINE u == CancelPending(t)
           c == [u EXCEPT !.latest = @ + 1, !.kind = kind, !.retain = FALSE]
           m == CommitLocation(c, Home)
           h == [m EXCEPT !.page = "Directory", !.snapshot = NoListing,
                          !.search = "Waiting", !.pending = <<>>]
           e == ReplaceEntries(h, <<>>)
           n == [e EXCEPT !.load = "Complete", !.cancel = 0]
<1>1. n = NavigateHome(t, kind)
  BY DEF NavigateHome
<1>2. u \in Tab /\ GivesUp(t, u)
  BY CancelPendingGives DEF GivesUp
<1>3. /\ "Directory" \in Pages /\ NoListing \in Listings /\ "Waiting" \in Searches
      /\ <<>> \in Rows /\ "Complete" \in Loads /\ 0 \in Nat /\ Home \in Place
  BY SomeTypes
<1> HIDE DEF u
<1>4. u.latest + 1 \in Nat
  BY <1>2 DEF Tab
<1>5. /\ c \in Tab /\ c.latest = u.latest + 1 /\ c.kind = kind
      /\ c.back = u.back /\ c.forward = u.forward /\ c.current = u.current
      /\ c.fired = u.fired
  BY <1>2, <1>4 DEF Tab
<1> HIDE DEF c
<1>6. m \in Tab /\ Commits(c, m, Home)
  BY <1>3, <1>5, CommitLocationGives DEF Commits
<1> HIDE DEF m
<1>7. /\ h \in Tab /\ h.page = "Directory" /\ h.snapshot = NoListing /\ h.pending = <<>>
      /\ h.latest = m.latest /\ h.current = m.current /\ h.requested = m.requested
      /\ h.back = m.back /\ h.forward = m.forward /\ h.selected = m.selected /\ h.fired = m.fired
  BY <1>3, <1>6 DEF Tab
<1> HIDE DEF h
<1>8. e \in Tab /\ Replaces(h, e, <<>>)
  BY <1>3, <1>7, ReplaceEntriesGives DEF Replaces
<1> HIDE DEF e
<1>9. /\ n \in Tab /\ n.load = "Complete" /\ n.cancel = 0
      /\ n.page = e.page /\ n.snapshot = e.snapshot /\ n.pending = e.pending
      /\ n.entries = e.entries /\ n.indices = e.indices /\ n.selected = e.selected
      /\ n.latest = e.latest /\ n.current = e.current /\ n.requested = e.requested
      /\ n.back = e.back /\ n.forward = e.forward /\ n.fired = e.fired
  BY <1>3, <1>8 DEF Tab
<1> HIDE DEF n
<1>10. ShowsHome(t, n)
  <2>1. n.selected = {}
    BY <1>6, <1>7, <1>8, <1>9 DEF Commits, Replaces
  <2>2. n.fired \subseteq t.fired \cup ({t.cancel} \ {0})
    BY <1>2, <1>5, <1>6, <1>7, <1>8, <1>9 DEF GivesUp, Commits, Replaces
  <2>3. QED BY <1>2, <1>5, <1>6, <1>7, <1>8, <1>9, <2>1, <2>2 DEF GivesUp, Commits, Replaces, ShowsHome
<1>11. Travels(c, Home) => Keeps(t, n)
  BY <1>2, <1>5, <1>6, <1>7, <1>8, <1>9 DEF GivesUp, Commits, Replaces, Keeps
<1>12. QED BY <1>1, <1>2, <1>5, <1>10, <1>11 DEF Travels, GivesUp

\* Rows of one place in order, once each, numbered below next.
Numbered(p, rows, next) ==
  /\ Ascending(rows) /\ Apart(rows)
  /\ \A i \in DOMAIN rows : rows[i].file[1] = p /\ rows[i].id \in Nat /\ rows[i].id < next

LEMMA RowsOfGives ==
  ASSUME NEW p \in Listable, NEW names \in SUBSET (1..PerPlace), NEW next \in Nat
  PROVE  /\ Cardinality(names) \in Nat
         /\ RowsOf(p, names, next) \in Rows
         /\ Numbered(p, RowsOf(p, names, next), next + Cardinality(names))
         /\ \A i \in DOMAIN RowsOf(p, names, next) : next <= RowsOf(p, names, next)[i].id
         /\ NamesOf(RowsOf(p, names, next)) = names
<1> DEFINE below(n) == {m \in names : m < n}
           row == [n \in names |-> [id |-> next + Cardinality(below(n)), file |-> <<p, n>>]]
           R == {row[n] : n \in names}
           s == Sorted(R)
<1>0. R = {[id |-> next + Cardinality(below(n)), file |-> <<p, n>>] : n \in names}
  OBVIOUS
<1>a. s = RowsOf(p, names, next)
  BY <1>0 DEF RowsOf
<1>1. IsFiniteSet(names) /\ Cardinality(names) \in Nat /\ names \subseteq Nat
  <2>1. IsFiniteSet(1..PerPlace) /\ 1..PerPlace \subseteq Nat
    BY PerPlaceAssumption, FS_Interval
  <2>2. IsFiniteSet(names)
    BY <2>1, FS_Subset
  <2>3. QED BY <2>1, <2>2, FS_CardinalityType
<1>2. ASSUME NEW n \in names
      PROVE  /\ IsFiniteSet(below(n)) /\ Cardinality(below(n)) \in Nat
             /\ Cardinality(below(n)) < Cardinality(names)
  <2>1. below(n) \in SUBSET names /\ below(n) # names
    BY <1>1
  <2>2. IsFiniteSet(below(n)) /\ Cardinality(below(n)) <= Cardinality(names)
        /\ Cardinality(below(n)) # Cardinality(names)
    BY <1>1, <2>1, FS_Subset
  <2>3. Cardinality(below(n)) \in Nat
    BY <2>2, FS_CardinalityType
  <2>4. QED BY <1>1, <2>2, <2>3
<1>3. ASSUME NEW m \in names, NEW n \in names, m < n
      PROVE  Cardinality(below(m)) < Cardinality(below(n))
  <2>1. below(m) \in SUBSET below(n) /\ m \in below(n) /\ m \notin below(m)
    <3>1. \A k \in names : k < m => k < n
      BY <1>1, <1>3
    <3>2. m \in Nat /\ ~(m < m)
      BY <1>1
    <3>3. QED BY <1>3, <3>1, <3>2
  <2>2. Cardinality(below(m)) <= Cardinality(below(n)) /\ Cardinality(below(m)) # Cardinality(below(n))
    BY <1>2, <2>1, FS_Subset
  <2>3. QED BY <1>2, <2>2
<1> HIDE DEF below
<1>4. ASSUME NEW n \in names
      PROVE  /\ row[n] \in FileRow /\ row[n].file[1] = p /\ row[n].file[2] = n
             /\ row[n].id = next + Cardinality(below(n))
             /\ row[n].id \in Nat /\ next <= row[n].id /\ row[n].id < next + Cardinality(names)
  <2>1. row[n] = [id |-> next + Cardinality(below(n)), file |-> <<p, n>>]
    OBVIOUS
  <2>2. <<p, n>> \in Files /\ next + Cardinality(below(n)) \in Nat
    BY <1>2 DEF Files
  <2>3. row[n] \in FileRow
    BY <2>1, <2>2 DEF FileRow
  <2>4. QED BY <2>1, <2>3, <1>1, <1>2
<1> HIDE DEF row
<1>5. Named(R)
  <2> DEFINE f == [n \in names |-> row[n]]
  <2>1. f \in Surjection(names, R)
    BY DEF Surjection
  <2>2. IsFiniteSet(R)
    BY <2>1, <1>1, FS_Surjection
  <2>3. QED BY <2>2, <1>1, <1>4 DEF Named
<1>6. /\ s \in [1..Cardinality(R) -> R] /\ Ascending(s) /\ Cardinality(R) \in Nat
      /\ \A r \in R : \E i \in 1..Cardinality(R) : s[i] = r
  BY <1>5, SortedSorts
<1> HIDE DEF s
<1>7. \A i \in DOMAIN s : \E n \in names : s[i] = row[n]
  BY <1>6
<1>8. \A n \in names : \E i \in DOMAIN s : s[i] = row[n]
  BY <1>6
<1> HIDE DEF R
<1>9. s \in Rows
  <2>1. \A i \in 1..Cardinality(R) : s[i] \in FileRow
    BY <1>4, <1>6, <1>7
  <2>2. s \in [1..Cardinality(R) -> FileRow]
    BY <1>6, <2>1
  <2>3. QED BY <1>6, <2>2 DEF Rows
<1>10. Apart(s)
  <2> SUFFICES ASSUME NEW i \in DOMAIN s, NEW j \in DOMAIN s,
                      s[i].id = s[j].id \/ s[i].file = s[j].file
               PROVE  i = j
    BY DEF Apart
  <2>1. PICK m \in names : s[i] = row[m]
    BY <1>7
  <2>2. PICK n \in names : s[j] = row[n]
    BY <1>7
  <2>3. m = n
    <3>1. CASE s[i].file = s[j].file
      BY <3>1, <2>1, <2>2, <1>4
    <3>2. CASE s[i].id = s[j].id
      <4>1. Cardinality(below(m)) = Cardinality(below(n))
        BY <3>2, <2>1, <2>2, <1>4, <1>2
      <4>2. ~(m < n) /\ ~(n < m)
        BY <4>1, <1>3, <1>2
      <4>3. QED BY <4>2, <1>1
    <3>3. QED BY <3>1, <3>2
  <2>4. s[i].file[2] = s[j].file[2] /\ s[i].file[2] \in Nat
    BY <2>1, <2>2, <2>3, <1>4, <1>1
  <2>5. i \in Nat /\ j \in Nat
    BY <1>6
  <2>6. ~(i < j) /\ ~(j < i)
    BY <2>4, <1>6 DEF Ascending
  <2>7. QED BY <2>5, <2>6
<1>11. \A i \in DOMAIN s : /\ s[i].file[1] = p /\ s[i].id \in Nat
                           /\ s[i].id < next + Cardinality(names) /\ next <= s[i].id
  BY <1>4, <1>7
<1>12. NamesOf(s) = names
  <2>1. \A i \in DOMAIN s : s[i].file[2] \in names
    BY <1>4, <1>7
  <2>2. \A n \in names : \E i \in DOMAIN s : s[i].file[2] = n
    BY <1>4, <1>8
  <2>3. QED BY <2>1, <2>2 DEF NamesOf
<1>13. Numbered(p, s, next + Cardinality(names))
  BY <1>6, <1>10, <1>11 DEF Numbered
<1>14. QED BY <1>1, <1>9, <1>11, <1>12, <1>13, <1>a

-----------------------------------------------------------------------------
(* A batch joins the pending rows.                                          *)

\* Two lists of the same place that share no name and no id.
Joins(p, a, b, next) ==
  /\ Numbered(p, a, next) /\ Numbered(p, b, next)
  /\ IdsOf(a) \cap IdsOf(b) = {} /\ NamesOf(a) \cap NamesOf(b) = {}

\* The rows of both, in order.
Joined(p, a, b, c, next) ==
  /\ c \in Rows /\ Numbered(p, c, next)
  /\ IdsOf(c) = IdsOf(a) \cup IdsOf(b) /\ NamesOf(c) = NamesOf(a) \cup NamesOf(b)
  /\ \A i \in DOMAIN c : \/ \E j \in DOMAIN a : c[i] = a[j]
                         \/ \E j \in DOMAIN b : c[i] = b[j]

LEMMA ApartFrom ==
  ASSUME NEW c \in Rows, Ascending(c),
         \A i, j \in DOMAIN c : c[i].id = c[j].id => c[i].file[2] = c[j].file[2]
  PROVE  Apart(c)
<1> SUFFICES ASSUME NEW i \in DOMAIN c, NEW j \in DOMAIN c, c[i].id = c[j].id \/ c[i].file = c[j].file
             PROVE  i = j
  BY DEF Apart
<1>1. c[i].file[2] = c[j].file[2] /\ c[i].file[2] \in Nat /\ i \in Nat /\ j \in Nat
  BY RowsAre
<1>2. ~(i < j) /\ ~(j < i)
  BY <1>1 DEF Ascending
<1>3. QED BY <1>1, <1>2

\* What both lists' rows make, when it is in order.
LEMMA UnionJoins ==
  ASSUME NEW p, NEW next \in Nat, NEW a \in Rows, NEW b \in Rows, NEW c \in Rows,
         Joins(p, a, b, next), Ascending(c),
         \A i \in DOMAIN c : \/ \E j \in DOMAIN a : c[i] = a[j]
                             \/ \E j \in DOMAIN b : c[i] = b[j],
         \A j \in DOMAIN a : \E i \in DOMAIN c : c[i] = a[j],
         \A j \in DOMAIN b : \E i \in DOMAIN c : c[i] = b[j]
  PROVE  Joined(p, a, b, c, next)
<1>1. \A i \in DOMAIN c : c[i].file[1] = p /\ c[i].id \in Nat /\ c[i].id < next
  BY DEF Joins, Numbered
<1>2. IdsOf(c) = IdsOf(a) \cup IdsOf(b)
  BY DEF IdsOf
<1>3. NamesOf(c) = NamesOf(a) \cup NamesOf(b)
  BY DEF NamesOf
<1>4. ASSUME NEW i \in DOMAIN c, NEW j \in DOMAIN c, c[i].id = c[j].id
      PROVE  c[i].file[2] = c[j].file[2]
  <2>1. CASE \E k \in DOMAIN a, l \in DOMAIN a : c[i] = a[k] /\ c[j] = a[l]
    BY <2>1, <1>4 DEF Joins, Numbered, Apart
  <2>2. CASE \E k \in DOMAIN b, l \in DOMAIN b : c[i] = b[k] /\ c[j] = b[l]
    BY <2>2, <1>4 DEF Joins, Numbered, Apart
  <2>3. CASE \E k \in DOMAIN a, l \in DOMAIN b : c[i] = a[k] /\ c[j] = b[l]
    BY <2>3, <1>4 DEF Joins, IdsOf
  <2>4. CASE \E k \in DOMAIN b, l \in DOMAIN a : c[i] = b[k] /\ c[j] = a[l]
    BY <2>4, <1>4 DEF Joins, IdsOf
  <2>5. QED BY <2>1, <2>2, <2>3, <2>4
<1>5. Apart(c)
  BY <1>4, ApartFrom
<1>6. QED BY <1>1, <1>2, <1>3, <1>5 DEF Joined, Numbered

Fits(a, b) == a = <<>> \/ ~ByName(b[1], Last(a))

Merged(a, b) == IF Fits(a, b) THEN a \o b ELSE Sorted(ToSet(a) \cup ToSet(b))

LEMMA MergedJoins ==
  ASSUME NEW p, NEW next \in Nat, NEW a \in Rows, NEW b \in Rows, b # <<>>, Joins(p, a, b, next)
  PROVE  Joined(p, a, b, Merged(a, b), next)
<1>1. /\ Len(a) \in Nat /\ DOMAIN a = 1..Len(a) /\ Len(b) \in Nat /\ DOMAIN b = 1..Len(b)
      /\ Len(b) # 0
  BY DEF Rows
<1>2. CASE Fits(a, b)
  <2> DEFINE c == a \o b
  <2>1. /\ c \in Rows /\ Len(c) = Len(a) + Len(b)
        /\ \A k \in 1..(Len(a) + Len(b)) : c[k] = IF k <= Len(a) THEN a[k] ELSE b[k - Len(a)]
    BY ConcatProperties DEF Rows
  <2> HIDE DEF c
  <2>2. DOMAIN c = 1..(Len(a) + Len(b))
    BY <2>1 DEF Rows
  <2>3. \A j \in DOMAIN a : j \in DOMAIN c /\ c[j] = a[j]
    BY <1>1, <2>1, <2>2
  <2>4. ASSUME NEW j \in DOMAIN b PROVE Len(a) + j \in DOMAIN c /\ c[Len(a) + j] = b[j]
    <3>1. Len(a) + j \in 1..(Len(a) + Len(b)) /\ ~(Len(a) + j <= Len(a)) /\ (Len(a) + j) - Len(a) = j
      BY <1>1
    <3>2. QED BY <3>1, <2>1, <2>2
  <2>5. ASSUME NEW i \in DOMAIN c
        PROVE  \/ i \in DOMAIN a /\ c[i] = a[i]
               \/ i > Len(a) /\ i - Len(a) \in DOMAIN b /\ c[i] = b[i - Len(a)]
    BY <1>1, <2>1, <2>2
  <2>6. ASSUME NEW i \in DOMAIN a, NEW j \in DOMAIN b PROVE a[i].file[2] < b[j].file[2]
    <3>1. Last(a) = a[Len(a)] /\ Len(a) \in DOMAIN a /\ 1 \in DOMAIN b
      BY <1>1 DEF Last
    <3>2. a # <<>>
      BY <1>1
    <3>3. ~(b[1].file[2] < a[Len(a)].file[2])
      BY <1>2, <3>1, <3>2 DEF Fits, ByName
    <3>4. /\ a[i].file[2] \in Nat /\ a[Len(a)].file[2] \in Nat
          /\ b[1].file[2] \in Nat /\ b[j].file[2] \in Nat
      BY <3>1, RowsAre
    <3>5. a[i].file[2] <= a[Len(a)].file[2]
      <4>1. CASE i = Len(a)
        BY <4>1, <3>4
      <4>2. CASE i < Len(a)
        BY <4>2, <3>1, <3>4 DEF Joins, Numbered, Ascending
      <4>3. QED BY <4>1, <4>2, <1>1
    <3>6. b[1].file[2] <= b[j].file[2]
      <4>1. CASE j = 1
        BY <4>1, <3>4
      <4>2. CASE 1 < j
        BY <4>2, <3>1, <3>4 DEF Joins, Numbered, Ascending
      <4>3. QED BY <4>1, <4>2, <1>1
    <3>7. a[i].file[2] # b[j].file[2]
      BY DEF Joins, NamesOf
    <3>8. QED BY <3>3, <3>4, <3>5, <3>6, <3>7
  <2>7. Ascending(c)
    <3> SUFFICES ASSUME NEW i \in DOMAIN c, NEW j \in DOMAIN c, i < j
                 PROVE  c[i].file[2] < c[j].file[2]
      BY DEF Ascending
    <3>1. CASE i \in DOMAIN a /\ c[i] = a[i] /\ j \in DOMAIN a /\ c[j] = a[j]
      BY <3>1 DEF Joins, Numbered, Ascending
    <3>2. CASE i \in DOMAIN a /\ c[i] = a[i] /\ j - Len(a) \in DOMAIN b /\ c[j] = b[j - Len(a)]
      BY <3>2, <2>6
    <3>3. CASE /\ i - Len(a) \in DOMAIN b /\ c[i] = b[i - Len(a)]
               /\ j - Len(a) \in DOMAIN b /\ c[j] = b[j - Len(a)]
      <4>1. i - Len(a) < j - Len(a)
        BY <1>1, <2>2
      <4>2. QED BY <4>1, <3>3 DEF Joins, Numbered, Ascending
    <3>4. CASE i > Len(a) /\ j \in DOMAIN a
      BY <3>4, <1>1, <2>2
    <3>5. QED BY <3>1, <3>2, <3>3, <3>4, <2>5
  <2>8. Joined(p, a, b, c, next)
    BY <2>1, <2>3, <2>4, <2>5, <2>7, UnionJoins
  <2>9. QED BY <1>2, <2>8 DEF Merged, c
<1>3. CASE ~Fits(a, b)
  <2> DEFINE R == ToSet(a) \cup ToSet(b)
             c == Sorted(R)
  <2>1. /\ \A r \in R : (\E j \in DOMAIN a : r = a[j]) \/ (\E j \in DOMAIN b : r = b[j])
        /\ \A j \in DOMAIN a : a[j] \in R
        /\ \A j \in DOMAIN b : b[j] \in R
    BY DEF ToSet
  <2>2. IsFiniteSet(R)
    <3>1. ASSUME NEW s \in Rows PROVE IsFiniteSet(ToSet(s))
      <4> DEFINE f == [i \in 1..Len(s) |-> s[i]]
      <4>1. Len(s) \in Nat /\ DOMAIN s = 1..Len(s)
        BY DEF Rows
      <4>2. f \in Surjection(1..Len(s), ToSet(s))
        BY <4>1 DEF Surjection, ToSet
      <4>3. QED BY <4>1, <4>2, FS_Interval, FS_Surjection
    <3>2. QED BY <3>1, FS_Union
  <2> HIDE DEF R
  <2>3. Named(R)
    <3>1. \A r \in R : r.file[2] \in Nat /\ r \in FileRow
      BY <2>1, RowsAre DEF Rows
    <3>2. ASSUME NEW q \in R, NEW r \in R, q.file[2] = r.file[2] PROVE q = r
      <4>1. ASSUME NEW s \in Rows, Ascending(s), NEW k \in DOMAIN s, NEW l \in DOMAIN s,
                   s[k].file[2] = s[l].file[2]
            PROVE  s[k] = s[l]
        <5>1. k \in Nat /\ l \in Nat /\ s[k].file[2] \in Nat
          BY RowsAre
        <5>2. ~(k < l) /\ ~(l < k)
          BY <4>1, <5>1 DEF Ascending
        <5>3. QED BY <5>1, <5>2
      <4>2. CASE \E k \in DOMAIN a, l \in DOMAIN a : q = a[k] /\ r = a[l]
        BY <4>1, <4>2, <3>2 DEF Joins, Numbered
      <4>3. CASE \E k \in DOMAIN b, l \in DOMAIN b : q = b[k] /\ r = b[l]
        BY <4>1, <4>3, <3>2 DEF Joins, Numbered
      <4>4. CASE \E k \in DOMAIN a, l \in DOMAIN b : q = a[k] /\ r = b[l]
        BY <4>4, <3>2 DEF Joins, NamesOf
      <4>5. CASE \E k \in DOMAIN b, l \in DOMAIN a : q = b[k] /\ r = a[l]
        BY <4>5, <3>2 DEF Joins, NamesOf
      <4>6. QED BY <2>1, <4>2, <4>3, <4>4, <4>5
    <3>3. QED BY <2>2, <3>1, <3>2 DEF Named
  <2>4. /\ c \in [1..Cardinality(R) -> R] /\ Ascending(c) /\ Cardinality(R) \in Nat
        /\ \A r \in R : \E i \in 1..Cardinality(R) : c[i] = r
    BY <2>3, SortedSorts
  <2> HIDE DEF c
  <2>5. c \in Rows
    <3>1. \A r \in R : r \in FileRow
      BY <2>1 DEF Rows
    <3>2. c \in [1..Cardinality(R) -> FileRow]
      BY <2>4, <3>1
    <3>3. QED BY <2>4, <3>2 DEF Rows
  <2>6. Joined(p, a, b, c, next)
    <3>1. \A i \in DOMAIN c : \/ \E j \in DOMAIN a : c[i] = a[j]
                              \/ \E j \in DOMAIN b : c[i] = b[j]
      BY <2>1, <2>4
    <3>2. \A j \in DOMAIN a : \E i \in DOMAIN c : c[i] = a[j]
      BY <2>1, <2>4
    <3>3. \A j \in DOMAIN b : \E i \in DOMAIN c : c[i] = b[j]
      BY <2>1, <2>4
    <3>4. QED BY <2>4, <2>5, <3>1, <3>2, <3>3, UnionJoins
  <2>7. QED BY <1>3, <2>6 DEF Merged, c, R
<1>4. QED BY <1>2, <1>3

\* A directory is being listed for the tab.
Loading(t)      == t.load \in Busy
\* The rows on the screen are those of the request under way.
ShowsPending(t) == t.load = "Partial" /\ ~t.retain

\* What loads is listable, on its page, and its token is not set.
InRequest(t) ==
  /\ t.cancel <= t.latest /\ t.fired \subseteq 1..t.latest
  /\ Loading(t) => /\ t.page = "Directory" /\ t.requested \in Listable
                   /\ t.cancel = t.latest /\ t.latest # 0 /\ t.latest \notin t.fired

\* The index is the one of the rows on the screen; a search keeps the rows of the
\* directory page.
InLists(t) ==
  /\ Apart(t.entries)
  /\ t.load # "Partial" => t.pending = <<>>
  /\ ~ShowsPending(t) => t.indices = IndicesOf(t.entries)
  /\ ShowsPending(t) => IdsOf(t.pending) \subseteq DOMAIN t.indices
  /\ t.page = "Directory" => t.snapshot = NoListing
  /\ t.page = "Search" => /\ t.snapshot \in [entries : Rows, selected : Ids]
                          /\ Apart(t.snapshot.entries)

\* What is travelled to is in the history.
InHistory(t) ==
  Loading(t) => \/ t.kind \in {"Refresh", "BackgroundRefresh"}
                \/ Travels(t, t.requested)

Sound(t) == t \in Tab /\ InRequest(t) /\ InLists(t) /\ InHistory(t)

\* The picks of both pages.
AllOf(picks) == picks["Directory"] \cup picks["Search"]

\* The selection stands for picked files: in the committed rows, in the rows of a
\* share that arrive, in the rows put away by a search.  An unanswered search shows
\* nothing.
InPicks(t, picks, asked) ==
  /\ ~ShowsPending(t) => ChosenFrom(t.entries, t.selected) \subseteq AllOf(picks)
  /\ ShowsPending(t) /\ t.requested \in Unc =>
       /\ ChosenFrom(t.pending, t.selected) \subseteq AllOf(picks)
       /\ \/ t.selected \subseteq IdsOf(t.pending)
          \/ FileOfPlace(t.requested) \ FilesOf(t.pending) \subseteq AllOf(picks)
  /\ t.page = "Search" =>
       ChosenFrom(t.snapshot.entries, t.snapshot.selected) \subseteq picks["Directory"]
  /\ t.page = "Search" /\ t.latest \in asked => t.entries = <<>> /\ t.selected = {}

LEMMA ChosenGrows ==
  ASSUME NEW rows, NEW few, NEW many, few \subseteq many
  PROVE  ChosenFrom(rows, few) \subseteq ChosenFrom(rows, many)
BY DEF ChosenFrom

LEMMA NothingChosen ==
  /\ \A rows : ChosenFrom(rows, {}) = {}
  /\ \A ids : ChosenFrom(<<>>, ids) = {}
  /\ Apart(<<>>) /\ IdsOf(<<>>) = {}
BY DEF ChosenFrom, Apart, IdsOf

LEMMA NotBusy ==
  /\ "Loading" \in Busy /\ "Partial" \in Busy
  /\ \A l \in Busy : l = "Loading" \/ l = "Partial"
  /\ "Cancelled" \notin Busy /\ "Failed" \notin Busy /\ "Complete" \notin Busy /\ "Idle" \notin Busy
  /\ \A l \in Stopped : l \notin Busy /\ l # "Complete"
  /\ "Failed" \in Stopped /\ "Cancelled" \in Stopped
BY DEF Busy, Stopped

-----------------------------------------------------------------------------
(* Giving up.                                                               *)

LEMMA LoadingStops ==
  ASSUME NEW t, Sound(t), Loading(t)
  PROVE  Stops(t)
BY DEF Sound, InRequest, Stops, Loading

\* Nothing loads any more, and the committed rows are on the screen.
AtRest(c) == ~Loading(c) /\ c.pending = <<>> /\ c.indices = IndicesOf(c.entries)

LEMMA CancelPendingSound ==
  ASSUME NEW t, Sound(t), NEW picks, NEW asked, InPicks(t, picks, asked)
  PROVE  /\ Sound(CancelPending(t)) /\ InPicks(CancelPending(t), picks, asked)
         /\ AtRest(CancelPending(t)) /\ GivesUp(t, CancelPending(t))
         /\ CancelPending(t).load # "Complete" \/ ~Loading(t)
<1> DEFINE c == CancelPending(t)
<1>1. t \in Tab /\ c \in Tab /\ GivesUp(t, c)
  BY CancelPendingGives DEF Sound, GivesUp
<1>2. t.latest \in Nat /\ t.cancel \in Nat /\ c.latest = t.latest /\ c.cancel = t.cancel
  BY <1>1 DEF Tab, GivesUp
<1> HIDE DEF c
<1>3. AtRest(c)
  <2>1. CASE Stops(t)
    BY <2>1, <1>1, NotBusy DEF GivesUp, AtRest, Loading
  <2>2. CASE ~Stops(t)
    <3>1. ~Loading(t)
      BY <2>2, LoadingStops
    <3>2. t.load # "Partial"
      BY <3>1, NotBusy DEF Loading
    <3>3. QED BY <2>2, <3>1, <3>2, <1>1 DEF GivesUp, AtRest, Loading, Sound, InLists, ShowsPending
  <2>3. QED BY <2>1, <2>2
<1>4. InRequest(c)
  <2>1. c.fired \subseteq 1..t.latest
    <3>1. CASE t.cancel = 0
      BY <3>1, <1>1 DEF GivesUp, Sound, InRequest
    <3>2. CASE t.cancel # 0
      <4>1. t.cancel \in 1..t.latest
        BY <3>2, <1>2 DEF Sound, InRequest
      <4>2. QED BY <3>2, <4>1, <1>1 DEF GivesUp, Sound, InRequest
    <3>3. QED BY <3>1, <3>2
  <2>2. QED BY <2>1, <1>2, <1>3 DEF InRequest, AtRest, Sound
<1>5. ~ShowsPending(c)
  BY <1>3, NotBusy DEF AtRest, ShowsPending, Loading
<1>6. InLists(c)
  BY <1>1, <1>3, <1>5 DEF InLists, AtRest, GivesUp, Sound
<1>7. ChosenFrom(c.entries, c.selected) \subseteq AllOf(picks)
  <2>1. CASE ShowsPending(t)
    <3>1. Stops(t)
      BY <2>1, LoadingStops, NotBusy DEF ShowsPending, Loading
    <3>2. c.selected = {}
      BY <2>1, <3>1, <1>1 DEF ShowsPending, GivesUp
    <3>3. QED BY <3>2, NothingChosen
  <2>2. CASE ~ShowsPending(t)
    <3>1. c.entries = t.entries /\ c.selected \subseteq t.selected
      BY <1>1 DEF GivesUp
    <3>2. QED BY <2>2, <3>1, ChosenGrows DEF InPicks
  <2>3. QED BY <2>1, <2>2
<1>8. InPicks(c, picks, asked)
  <2>1. c.page = t.page /\ c.snapshot = t.snapshot /\ c.latest = t.latest /\ c.entries = t.entries
    BY <1>1 DEF GivesUp
  <2>2. c.selected \subseteq t.selected
    BY <1>1 DEF GivesUp
  <2>3. QED BY <1>5, <1>7, <2>1, <2>2 DEF InPicks
<1>9. Sound(c)
  BY <1>1, <1>3, <1>4, <1>6 DEF Sound, InHistory, AtRest
<1>10. c.load # "Complete" \/ ~Loading(t)
  BY <1>1, LoadingStops DEF GivesUp
<1>11. QED BY <1>1, <1>3, <1>8, <1>9, <1>10 DEF c

\* A tab at rest can be marked in any way that is not loading.
LEMMA MarkedSound ==
  ASSUME NEW c, Sound(c), AtRest(c), NEW picks, NEW asked, InPicks(c, picks, asked),
         NEW l \in Loads, l \notin Busy
  PROVE  /\ Sound([c EXCEPT !.load = l]) /\ InPicks([c EXCEPT !.load = l], picks, asked)
         /\ AtRest([c EXCEPT !.load = l])
<1> DEFINE d == [c EXCEPT !.load = l]
<1>1. /\ d \in Tab /\ d.load = l
      /\ d.latest = c.latest /\ d.current = c.current /\ d.requested = c.requested
      /\ d.page = c.page /\ d.snapshot = c.snapshot /\ d.kind = c.kind /\ d.retain = c.retain
      /\ d.back = c.back /\ d.forward = c.forward /\ d.entries = c.entries
      /\ d.pending = c.pending /\ d.indices = c.indices
      /\ d.selected = c.selected /\ d.cancel = c.cancel /\ d.fired = c.fired
  BY DEF Sound, Tab
<1> HIDE DEF d
<1>2. ~ShowsPending(d) /\ ~ShowsPending(c)
  BY <1>1, NotBusy DEF ShowsPending, AtRest, Loading
<1>3. AtRest(d)
  BY <1>1 DEF AtRest, Loading
<1>4. Sound(d)
  BY <1>1, <1>2, <1>3 DEF Sound, InRequest, InLists, InHistory, AtRest
<1>5. InPicks(d, picks, asked)
  BY <1>1, <1>2 DEF InPicks
<1>6. QED BY <1>3, <1>4, <1>5 DEF d

-----------------------------------------------------------------------------
(* Navigation.                                                              *)

LEMMA BeginNavigationSound ==
  ASSUME NEW t, Sound(t), NEW picks, NEW asked, InPicks(t, picks, asked),
         NEW p \in Listable, NEW kind \in Kinds,
         \/ kind \in {"Normal", "Refresh", "BackgroundRefresh"}
         \/ kind = "Back" /\ p \in ToSet(t.back)
         \/ kind = "Forward" /\ p \in ToSet(t.forward)
  PROVE  /\ Sound(BeginNavigation(t, p, kind)) /\ InPicks(BeginNavigation(t, p, kind), picks, asked)
         /\ Begins(t, BeginNavigation(t, p, kind), p, kind)
<1> DEFINE b == BeginNavigation(t, p, kind)
<1>1. t \in Tab /\ b \in Tab /\ Begins(t, b, p, kind)
  BY BeginNavigationGives DEF Sound, Begins
<1> HIDE DEF b
<1>2. t.latest \in Nat /\ t.cancel \in Nat /\ b.latest = t.latest + 1
  BY <1>1 DEF Tab, Begins
<1>3. InRequest(b)
  <2>1. t.cancel # 0 => t.cancel \in 1..t.latest
    BY <1>2 DEF Sound, InRequest
  <2>2. b.fired \subseteq 1..t.latest
    BY <2>1, <1>1 DEF Begins, Sound, InRequest
  <2>3. b.fired \subseteq 1..b.latest /\ b.latest \notin b.fired /\ b.latest # 0 /\ b.cancel = b.latest
    BY <2>2, <1>1, <1>2 DEF Begins
  <2>4. b.latest <= b.latest
    BY <1>2
  <2>5. QED BY <2>3, <2>4, <1>1 DEF InRequest, Begins
<1>4. ~ShowsPending(b)
  BY <1>1 DEF Begins, ShowsPending
<1>5. b.indices = IndicesOf(b.entries)
  <2>1. CASE Stops(t)
    BY <2>1, <1>1 DEF Begins
  <2>2. CASE ~Stops(t)
    <3>1. ~ShowsPending(t)
      BY <2>2, LoadingStops, NotBusy DEF Loading, ShowsPending
    <3>2. QED BY <2>2, <3>1, <1>1 DEF Begins, Sound, InLists
  <2>3. QED BY <2>1, <2>2
<1>6. InLists(b)
  BY <1>1, <1>4, <1>5 DEF InLists, Begins, Sound
<1>7. InHistory(b)
  <2>1. b.kind = kind /\ b.requested = p /\ b.back = t.back /\ b.forward = t.forward
    BY <1>1 DEF Begins
  <2>2. QED BY <2>1 DEF InHistory, Travels
<1>8. ChosenFrom(b.entries, b.selected) \subseteq AllOf(picks)
  <2>1. CASE ShowsPending(t)
    <3>1. Stops(t)
      BY <2>1, LoadingStops, NotBusy DEF ShowsPending, Loading
    <3>2. b.selected = {}
      BY <2>1, <3>1, <1>1 DEF ShowsPending, Begins
    <3>3. QED BY <3>2, NothingChosen
  <2>2. CASE ~ShowsPending(t)
    <3>1. b.entries = t.entries /\ b.selected \subseteq t.selected
      BY <1>1 DEF Begins
    <3>2. QED BY <2>2, <3>1, ChosenGrows DEF InPicks
  <2>3. QED BY <2>1, <2>2
<1>9. InPicks(b, picks, asked)
  BY <1>1, <1>4, <1>8 DEF InPicks, Begins
<1>10. QED BY <1>1, <1>3, <1>6, <1>7, <1>9 DEF Sound, b

\* A request that is still the latest and not cancelled fails.
LEMMA FailSound ==
  ASSUME NEW t, Sound(t), NEW picks, NEW asked, InPicks(t, picks, asked), NEW r
  PROVE  \/ FailDirectoryNavigation(t, r) = t /\ ~AcceptsDirectory(t, r)
         \/ /\ Sound(FailDirectoryNavigation(t, r))
            /\ InPicks(FailDirectoryNavigation(t, r), picks, asked)
            /\ AtRest(FailDirectoryNavigation(t, r)) /\ FailDirectoryNavigation(t, r).load = "Failed"
            /\ FailDirectoryNavigation(t, r).latest = t.latest
            /\ FailDirectoryNavigation(t, r).current = t.current
<1>1. CASE ~AcceptsDirectory(t, r)
  BY <1>1 DEF FailDirectoryNavigation
<1>2. CASE AcceptsDirectory(t, r)
  <2> DEFINE c == CancelPending(t)
             f == [c EXCEPT !.load = "Failed"]
  <2>1. f = FailDirectoryNavigation(t, r)
    BY <1>2 DEF FailDirectoryNavigation
  <2>2. Sound(c) /\ InPicks(c, picks, asked) /\ AtRest(c) /\ GivesUp(t, c)
    BY CancelPendingSound
  <2>3. "Failed" \in Loads /\ "Failed" \notin Busy
    BY SomeTypes, NotBusy
  <2> HIDE DEF c
  <2>4. Sound(f) /\ InPicks(f, picks, asked) /\ AtRest(f)
    BY <2>2, <2>3, MarkedSound
  <2>5. f.load = "Failed" /\ f.latest = c.latest /\ f.current = c.current
    BY <2>2 DEF Sound, Tab
  <2> HIDE DEF f
  <2>6. QED BY <2>1, <2>2, <2>4, <2>5 DEF GivesUp
<1>3. QED BY <1>1, <1>2

LEMMA CancelDirectorySound ==
  ASSUME NEW t, Sound(t), NEW picks, NEW asked, InPicks(t, picks, asked), NEW r
  PROVE  \/ CancelDirectoryNavigation(t, r) = t /\ (t.latest # r \/ ~Loading(t))
         \/ /\ Sound(CancelDirectoryNavigation(t, r))
            /\ InPicks(CancelDirectoryNavigation(t, r), picks, asked)
            /\ AtRest(CancelDirectoryNavigation(t, r))
            /\ CancelDirectoryNavigation(t, r).load # "Complete"
            /\ CancelDirectoryNavigation(t, r).latest = t.latest
            /\ CancelDirectoryNavigation(t, r).current = t.current
<1>1. CASE t.page = "Directory" /\ t.latest = r /\ t.requested # NoPlace /\ t.load \in Busy
  <2>1. CancelDirectoryNavigation(t, r) = CancelPending(t)
    BY <1>1 DEF CancelDirectoryNavigation
  <2> DEFINE c == CancelPending(t)
  <2>2. /\ Sound(c) /\ InPicks(c, picks, asked) /\ AtRest(c) /\ GivesUp(t, c)
        /\ c.load # "Complete" \/ ~Loading(t)
    BY CancelPendingSound
  <2> HIDE DEF c
  <2>3. c.latest = t.latest /\ c.current = t.current /\ c.load # "Complete"
    BY <2>2, <1>1 DEF GivesUp, Loading
  <2>4. QED BY <2>1, <2>2, <2>3 DEF c
<1>2. CASE ~(t.page = "Directory" /\ t.latest = r /\ t.requested # NoPlace /\ t.load \in Busy)
  <2>1. CancelDirectoryNavigation(t, r) = t
    BY <1>2 DEF CancelDirectoryNavigation
  <2>2. t.latest # r \/ ~Loading(t)
    BY <1>2, SomeTypes DEF Loading, Sound, InRequest
  <2>3. QED BY <2>1, <2>2
<1>3. QED BY <1>1, <1>2

LEMMA NavigateHomeSound ==
  ASSUME NEW t, Sound(t), NEW picks, NEW asked, NEW kind \in Kinds
  PROVE  /\ Sound(NavigateHome(t, kind)) /\ InPicks(NavigateHome(t, kind), picks, asked)
         /\ AtRest(NavigateHome(t, kind)) /\ ShowsHome(t, NavigateHome(t, kind))
<1> DEFINE h == NavigateHome(t, kind)
<1>1. t \in Tab /\ h \in Tab /\ ShowsHome(t, h)
  BY NavigateHomeGives DEF Sound, ShowsHome
<1> HIDE DEF h
<1>2. t.latest \in Nat /\ t.cancel \in Nat /\ h.latest = t.latest + 1
  BY <1>1 DEF Tab, ShowsHome
<1>3. AtRest(h) /\ ~ShowsPending(h)
  BY <1>1, NotBusy DEF ShowsHome, AtRest, Loading, ShowsPending
<1>4. InRequest(h)
  <2>1. t.cancel # 0 => t.cancel \in 1..t.latest
    BY <1>2 DEF Sound, InRequest
  <2>2. h.fired \subseteq 1..t.latest
    BY <2>1, <1>1 DEF ShowsHome, Sound, InRequest
  <2>3. h.fired \subseteq 1..h.latest /\ h.cancel = 0 /\ 0 <= h.latest
    BY <2>2, <1>1, <1>2 DEF ShowsHome
  <2>4. QED BY <2>3, <1>3 DEF InRequest, AtRest
<1>5. InLists(h)
  BY <1>1, <1>3, NothingChosen DEF InLists, ShowsHome
<1>6. InPicks(h, picks, asked)
  <2>1. ChosenFrom(h.entries, h.selected) = {}
    BY <1>1, NothingChosen DEF ShowsHome
  <2>2. QED BY <2>1, <1>1, <1>3 DEF InPicks, ShowsHome
<1>7. QED BY <1>1, <1>3, <1>4, <1>5, <1>6 DEF Sound, InHistory, AtRest, h

LEMMA RestoreSound ==
  ASSUME NEW t, Sound(t), NEW picks, NEW asked, InPicks(t, picks, asked), CanRestore(t)
  PROVE  /\ Sound(RestoreSuccessfulLocation(t)) /\ InPicks(RestoreSuccessfulLocation(t), picks, asked)
         /\ AtRest(RestoreSuccessfulLocation(t))
         /\ RestoreSuccessfulLocation(t).latest = t.latest
         /\ RestoreSuccessfulLocation(t).current = t.current
<1> DEFINE f == IF t.forward # <<>> /\ Last(t.forward) = t.requested THEN t.forward
                ELSE Append(t.forward, t.requested)
           d == [t EXCEPT !.forward = f, !.requested = NoPlace, !.pending = <<>>,
                          !.load = "Complete", !.kind = "Normal", !.cancel = 0]
<1>1. t \in Tab /\ t.load \in Stopped /\ t.requested # NoPlace
  BY DEF Sound, CanRestore, HasFailedLocation
<1>2. d = RestoreSuccessfulLocation(t)
  BY <1>1 DEF RestoreSuccessfulLocation, Tab
<1>3. f \in Places
  <2>1. t.requested \in Place /\ t.forward \in Places
    BY <1>1 DEF Tab, Requested, Place
  <2>2. QED BY <2>1, AppendSet
<1>4. NoPlace \in Requested /\ <<>> \in Rows /\ "Complete" \in Loads /\ "Normal" \in Kinds /\ 0 \in Nat
  BY SomeTypes
<1> HIDE DEF f
<1>5. /\ d \in Tab /\ d.load = "Complete" /\ d.pending = <<>> /\ d.cancel = 0
      /\ d.latest = t.latest /\ d.current = t.current /\ d.page = t.page /\ d.snapshot = t.snapshot
      /\ d.entries = t.entries /\ d.indices = t.indices /\ d.selected = t.selected /\ d.fired = t.fired
  BY <1>1, <1>3, <1>4 DEF Tab
<1> HIDE DEF d
<1>6. ~ShowsPending(d) /\ ~ShowsPending(t) /\ ~Loading(d)
  BY <1>1, <1>5, NotBusy DEF ShowsPending, Loading
<1>7. AtRest(d)
  BY <1>5, <1>6 DEF AtRest, Sound, InLists
<1>8. InRequest(d)
  <2>1. t.latest \in Nat
    BY <1>1 DEF Tab
  <2>2. QED BY <1>5, <1>6, <2>1 DEF InRequest, Sound
<1>9. Sound(d)
  BY <1>5, <1>6, <1>7, <1>8 DEF Sound, InLists, InHistory, AtRest
<1>10. InPicks(d, picks, asked)
  BY <1>5, <1>6 DEF InPicks
<1>11. QED BY <1>2, <1>5, <1>7, <1>9, <1>10

Picks == [Pages -> SUBSET (Place \X (1..PerPlace))]

\* All fields but the named ones are the same.
SameView(t, c) ==
  /\ c.latest = t.latest /\ c.current = t.current /\ c.requested = t.requested
  /\ c.page = t.page /\ c.snapshot = t.snapshot /\ c.kind = t.kind /\ c.retain = t.retain
  /\ c.back = t.back /\ c.forward = t.forward /\ c.entries = t.entries /\ c.pending = t.pending
  /\ c.indices = t.indices /\ c.load = t.load /\ c.cancel = t.cancel /\ c.fired = t.fired

LEMMA SameViewSound ==
  ASSUME NEW t, NEW c \in Tab, Sound(t), SameView(t, c)
  PROVE  Sound(c) /\ ShowsPending(c) = ShowsPending(t) /\ Loading(c) = Loading(t)
<1>1. ShowsPending(c) = ShowsPending(t) /\ Loading(c) = Loading(t)
  BY DEF SameView, ShowsPending, Loading
<1>2. InRequest(c)
  BY <1>1 DEF SameView, Sound, InRequest
<1>3. InLists(c)
  BY <1>1 DEF SameView, Sound, InLists
<1>4. InHistory(c)
  BY <1>1 DEF SameView, Sound, InHistory, Travels
<1>5. QED BY <1>1, <1>2, <1>3, <1>4 DEF Sound

-----------------------------------------------------------------------------
(* Search results in the tab.                                               *)

LEMMA BeginSearchSound ==
  ASSUME NEW t, Sound(t), NEW picks, NEW asked, InPicks(t, picks, asked),
         NEW picks2, NEW asked2,
         picks2["Directory"] = IF t.page = "Directory" THEN AllOf(picks) ELSE picks["Directory"]
  PROVE  /\ Sound(BeginSearch(t)) /\ InPicks(BeginSearch(t), picks2, asked2)
         /\ AtRest(BeginSearch(t)) /\ BeginSearch(t).page = "Search"
         /\ BeginSearch(t).latest = t.latest + 1 /\ BeginSearch(t).current = t.current
<1> DEFINE c == CancelPending(t)
           snap == IF c.page = "Directory" THEN Snapshot(c) ELSE c.snapshot
           b == [c EXCEPT !.latest = @ + 1, !.cancel = c.latest + 1, !.snapshot = snap,
                          !.page = "Search", !.retain = FALSE, !.search = "Searching",
                          !.pending = <<>>]
           e == ReplaceEntries(b, <<>>)
           s == [e EXCEPT !.selected = {}]
<1>1. t \in Tab /\ c \in Tab /\ Sound(c) /\ InPicks(c, picks, asked) /\ AtRest(c) /\ GivesUp(t, c)
  BY CancelPendingSound DEF Sound
<1>2. s = BeginSearch(t)
  <2> HIDE DEF c
  <2>1. b = [c EXCEPT !.latest = @ + 1, !.cancel = c.latest + 1,
                      !.snapshot = IF c.page = "Directory" THEN Snapshot(c) ELSE @,
                      !.page = "Search", !.retain = FALSE, !.search = "Searching",
                      !.pending = <<>>]
    BY <1>1 DEF Tab
  <2> HIDE DEF b
  <2>2. QED BY <2>1 DEF BeginSearch, c
<1> HIDE DEF c
<1>3. c.page \in Pages /\ c.latest \in Nat /\ c.cancel \in Nat /\ c.latest + 1 \in Nat
  BY <1>1 DEF Tab
<1>4. snap \in [entries : Rows, selected : Ids] /\ Apart(snap.entries)
      /\ ChosenFrom(snap.entries, snap.selected) \subseteq picks2["Directory"]
  <2>1. CASE c.page = "Directory"
    <3>1. snap = Snapshot(c)
      BY <2>1
    <3>2. /\ snap \in [entries : Rows, selected : Ids]
          /\ snap.entries = c.entries /\ snap.selected = c.selected
      BY <3>1, <1>1 DEF Snapshot, Tab
    <3>3. ~ShowsPending(c)
      BY <1>1, NotBusy DEF AtRest, ShowsPending, Loading
    <3>4. ChosenFrom(c.entries, c.selected) \subseteq AllOf(picks)
      BY <3>3, <1>1 DEF InPicks
    <3>5. picks2["Directory"] = AllOf(picks)
      BY <2>1, <1>1 DEF GivesUp
    <3>6. Apart(c.entries)
      BY <1>1 DEF Sound, InLists
    <3> HIDE DEF snap
    <3>7. QED BY <3>2, <3>4, <3>5, <3>6
  <2>2. CASE c.page = "Search"
    <3>1. snap = c.snapshot
      BY <2>2
    <3>2. picks2["Directory"] = picks["Directory"]
      BY <2>2, <1>1 DEF GivesUp
    <3>3. QED BY <3>1, <3>2, <2>2, <1>1 DEF Sound, InLists, InPicks
  <2>3. QED BY <1>3, <2>1, <2>2 DEF Pages
<1>5. snap \in Listings /\ "Search" \in Pages /\ "Searching" \in Searches /\ <<>> \in Rows /\ {} \in Ids
  BY <1>4, SomeTypes DEF Listings
<1> HIDE DEF snap
<1>6. /\ b \in Tab /\ b.latest = c.latest + 1 /\ b.cancel = c.latest + 1 /\ b.snapshot = snap
      /\ b.page = "Search" /\ b.pending = <<>> /\ b.current = c.current
      /\ b.load = c.load /\ b.fired = c.fired
  BY <1>1, <1>3, <1>5 DEF Tab
<1> HIDE DEF b
<1>7. e \in Tab /\ Replaces(b, e, <<>>)
  BY <1>5, <1>6, ReplaceEntriesGives DEF Replaces
<1> HIDE DEF e
<1>8. /\ s \in Tab /\ s.latest = c.latest + 1 /\ s.cancel = c.latest + 1 /\ s.snapshot = snap
      /\ s.page = "Search" /\ s.pending = <<>> /\ s.current = c.current
      /\ s.load = c.load /\ s.fired = c.fired /\ s.entries = <<>> /\ s.indices = IndicesOf(<<>>)
      /\ s.selected = {}
  BY <1>5, <1>6, <1>7 DEF Tab, Replaces
<1> HIDE DEF s
<1>9. AtRest(s)
  BY <1>1, <1>8 DEF AtRest, Loading
<1>10. ~ShowsPending(s)
  BY <1>9, NotBusy DEF AtRest, ShowsPending, Loading
<1>11. InRequest(s)
  <2>1. s.fired \subseteq 1..c.latest
    BY <1>1, <1>8 DEF Sound, InRequest
  <2>2. s.fired \subseteq 1..s.latest /\ s.cancel <= s.latest
    BY <2>1, <1>3, <1>8
  <2>3. QED BY <2>2, <1>9 DEF InRequest, AtRest
<1>12. InLists(s)
  BY <1>4, <1>8, <1>10, NothingChosen DEF InLists
<1>13. InPicks(s, picks2, asked2)
  <2>1. ChosenFrom(s.entries, s.selected) = {}
    BY <1>8, NothingChosen
  <2>2. QED BY <2>1, <1>4, <1>8, <1>10 DEF InPicks
<1>14. s.latest = t.latest + 1 /\ s.current = t.current
  BY <1>1, <1>8 DEF GivesUp
<1>15. QED BY <1>2, <1>8, <1>9, <1>11, <1>12, <1>13, <1>14 DEF Sound, InHistory, AtRest

\* Results reach the tab only while nothing is selected in it.
LEMMA MergeSearchPageSound ==
  ASSUME NEW t, Sound(t), NEW picks, NEW asked, InPicks(t, picks, asked),
         t.page = "Search", t.latest \in asked, NEW rows \in Rows, Apart(rows),
         NEW asked2, t.latest \notin asked2
  PROVE  /\ Sound(MergeSearchPage(t, rows, "Complete"))
         /\ InPicks(MergeSearchPage(t, rows, "Complete"), picks, asked2)
         /\ MergeSearchPage(t, rows, "Complete").latest = t.latest
         /\ MergeSearchPage(t, rows, "Complete").current = t.current
         /\ ~Loading(t) /\ ~Loading(MergeSearchPage(t, rows, "Complete"))
<1> DEFINE ix == IndicesOf(rows)
           m == [t EXCEPT !.entries = rows, !.indices = ix, !.search = "Complete"]
<1>1. m = MergeSearchPage(t, rows, "Complete")
  BY DEF MergeSearchPage
<1>2. t \in Tab /\ ix \in Indices /\ "Complete" \in Searches
  BY IndicesType, SomeTypes DEF Sound
<1>3. ~Loading(t) /\ ~ShowsPending(t)
  BY NotBusy DEF Sound, InRequest, Loading, ShowsPending
<1>4. t.selected = {}
  BY DEF InPicks
<1> HIDE DEF ix
<1>5. /\ m \in Tab /\ m.entries = rows /\ m.indices = ix
      /\ m.latest = t.latest /\ m.current = t.current /\ m.page = t.page /\ m.snapshot = t.snapshot
      /\ m.retain = t.retain /\ m.pending = t.pending /\ m.load = t.load
      /\ m.selected = t.selected /\ m.cancel = t.cancel /\ m.fired = t.fired
  BY <1>2 DEF Tab
<1> HIDE DEF m
<1>6. ~Loading(m) /\ ~ShowsPending(m)
  BY <1>3, <1>5 DEF Loading, ShowsPending
<1>7. InRequest(m)
  BY <1>5, <1>6 DEF Sound, InRequest
<1>8. InLists(m)
  BY <1>3, <1>5, <1>6 DEF Sound, InLists, ix
<1>9. InPicks(m, picks, asked2)
  <2>1. ChosenFrom(m.entries, m.selected) = {}
    BY <1>4, <1>5, NothingChosen
  <2>2. QED BY <2>1, <1>5, <1>6 DEF InPicks
<1>10. QED BY <1>1, <1>3, <1>5, <1>6, <1>7, <1>8, <1>9 DEF Sound, InHistory

LEMMA SearchFailedSound ==
  ASSUME NEW t, Sound(t), NEW picks, NEW asked, InPicks(t, picks, asked),
         NEW asked2, asked2 \subseteq asked
  PROVE  LET m == [t EXCEPT !.search = "Failed"] IN
         Sound(m) /\ InPicks(m, picks, asked2) /\ SameView(t, m)
<1> DEFINE m == [t EXCEPT !.search = "Failed"]
<1>1. m \in Tab
  BY SomeTypes DEF Sound, Tab
<1>2. SameView(t, m) /\ m.selected = t.selected
  BY DEF Sound, Tab, SameView
<1> HIDE DEF m
<1>3. Sound(m) /\ ShowsPending(m) = ShowsPending(t)
  BY <1>1, <1>2, SameViewSound
<1>4. InPicks(m, picks, asked2)
  BY <1>2, <1>3 DEF InPicks, SameView
<1>5. QED BY <1>2, <1>3, <1>4 DEF m

LEMMA CancelAddressEditSound ==
  ASSUME NEW t, Sound(t), NEW picks, NEW asked, InPicks(t, picks, asked)
  PROVE  /\ Sound(CancelAddressEdit(t)) /\ InPicks(CancelAddressEdit(t), picks, asked)
         /\ AtRest(CancelAddressEdit(t)) /\ CancelAddressEdit(t).current = t.current
         /\ CancelAddressEdit(t).latest = IF t.page = "Search" THEN t.latest + 1 ELSE t.latest
         /\ CancelAddressEdit(t).load # "Complete" \/ ~Loading(t)
<1> DEFINE c == CancelPending(t)
           n == IF t.page = "Search" THEN c.latest + 1 ELSE c.latest
           d == [c EXCEPT !.latest = n, !.page = "Directory", !.search = "Waiting", !.snapshot = NoListing]
           ix == IndicesOf(c.snapshot.entries)
           x == [d EXCEPT !.entries = c.snapshot.entries, !.selected = c.snapshot.selected, !.indices = ix]
<1>1. /\ t \in Tab /\ c \in Tab /\ Sound(c) /\ InPicks(c, picks, asked) /\ AtRest(c) /\ GivesUp(t, c)
      /\ c.load # "Complete" \/ ~Loading(t)
  BY CancelPendingSound DEF Sound
<1>2. CancelAddressEdit(t) = IF c.snapshot = NoListing THEN d ELSE x
  <2> HIDE DEF c
  <2>1. d = [c EXCEPT !.latest = IF t.page = "Search" THEN @ + 1 ELSE @,
                      !.page = "Directory", !.search = "Waiting", !.snapshot = NoListing]
    BY <1>1 DEF Tab
  <2> HIDE DEF d
  <2>2. QED BY <2>1 DEF CancelAddressEdit, c
<1> HIDE DEF c
<1>3. /\ c.latest \in Nat /\ c.cancel \in Nat /\ n \in Nat /\ c.latest <= n
      /\ c.page \in Pages /\ c.page = t.page /\ c.latest = t.latest /\ c.current = t.current
  BY <1>1 DEF Tab, GivesUp
<1>4. "Directory" \in Pages /\ "Waiting" \in Searches /\ NoListing \in Listings
  BY SomeTypes
<1>n. n = IF t.page = "Search" THEN t.latest + 1 ELSE t.latest
  BY <1>3
<1> HIDE DEF n
<1>5. /\ d \in Tab /\ d.latest = n /\ d.page = "Directory" /\ d.snapshot = NoListing
      /\ d.current = c.current /\ d.entries = c.entries /\ d.indices = c.indices
      /\ d.pending = c.pending /\ d.retain = c.retain
      /\ d.load = c.load /\ d.selected = c.selected /\ d.cancel = c.cancel /\ d.fired = c.fired
  BY <1>1, <1>3, <1>4 DEF Tab
<1> HIDE DEF d
<1>6. c.fired \subseteq 1..n /\ c.cancel <= n
  <2>1. c.fired \subseteq 1..c.latest /\ c.cancel <= c.latest
    BY <1>1 DEF Sound, InRequest
  <2>2. QED BY <2>1, <1>3
<1>7. ~Loading(c) /\ ~ShowsPending(c)
  BY <1>1, NotBusy DEF AtRest, Loading, ShowsPending
<1>8. CASE c.snapshot = NoListing
  <2>1. AtRest(d) /\ ~ShowsPending(d)
    BY <1>1, <1>5, <1>7 DEF AtRest, Loading, ShowsPending
  <2>2. Sound(d)
    BY <1>1, <1>5, <1>6, <2>1 DEF Sound, InRequest, InLists, InHistory, AtRest
  <2>3. InPicks(d, picks, asked)
    BY <1>1, <1>5, <1>7, <2>1 DEF InPicks
  <2>4. QED BY <1>1, <1>2, <1>3, <1>5, <1>n, <1>8, <2>1, <2>2, <2>3
<1>9. CASE c.snapshot # NoListing
  <2>1. c.page = "Search"
    BY <1>1, <1>3, <1>9 DEF Sound, InLists, Pages
  <2>2. /\ c.snapshot.entries \in Rows /\ c.snapshot.selected \in Ids /\ Apart(c.snapshot.entries)
        /\ ChosenFrom(c.snapshot.entries, c.snapshot.selected) \subseteq picks["Directory"]
    BY <2>1, <1>1 DEF Sound, InLists, InPicks
  <2>3. ix \in Indices
    BY <2>2, IndicesType
  <2> HIDE DEF ix
  <2>4. /\ x \in Tab /\ x.latest = n /\ x.page = "Directory" /\ x.snapshot = NoListing
        /\ x.current = c.current /\ x.entries = c.snapshot.entries /\ x.indices = ix
        /\ x.pending = c.pending /\ x.retain = c.retain
        /\ x.load = c.load /\ x.selected = c.snapshot.selected /\ x.cancel = c.cancel /\ x.fired = c.fired
    BY <1>5, <2>2, <2>3 DEF Tab
  <2> HIDE DEF x
  <2>5. AtRest(x) /\ ~ShowsPending(x)
    BY <1>1, <1>7, <2>4 DEF AtRest, Loading, ShowsPending, ix
  <2>6. Sound(x)
    BY <1>1, <1>6, <2>2, <2>4, <2>5 DEF Sound, InRequest, InLists, InHistory, AtRest
  <2>7. InPicks(x, picks, asked)
    <3>1. ChosenFrom(x.entries, x.selected) \subseteq AllOf(picks)
      BY <2>2, <2>4 DEF AllOf
    <3>2. QED BY <3>1, <2>4, <2>5 DEF InPicks
  <2>8. QED BY <1>1, <1>2, <1>3, <1>n, <1>9, <2>4, <2>5, <2>6, <2>7
<1>10. QED BY <1>8, <1>9

-----------------------------------------------------------------------------
(* The selection.                                                           *)

LEMMA ShownIs ==
  ASSUME NEW t, Sound(t), NEW i \in DOMAIN Shown(t)
  PROVE  \/ ~ShowsPending(t) /\ Shown(t) = t.entries
         \/ ShowsPending(t) /\ Shown(t) = t.pending
<1>1. CASE RetainsDirectoryView(t)
  BY <1>1 DEF RetainsDirectoryView, Shown, ShowsPending
<1>2. CASE ~RetainsDirectoryView(t)
  <2>1. ~HasFailedLocation(t)
    BY <1>2 DEF Shown
  <2>2. CASE t.load \in Busy
    <3>1. Shown(t) = t.pending
      BY <1>2, <2>1, <2>2 DEF Shown
    <3>2. t.load = "Partial"
      BY <3>1 DEF Sound, InLists
    <3>3. ~t.retain
      BY <1>2, <2>2 DEF RetainsDirectoryView, Sound, InRequest, Loading, Tab
    <3>4. QED BY <3>1, <3>2, <3>3 DEF ShowsPending
  <2>3. CASE t.load \notin Busy
    <3>1. Shown(t) = t.entries
      BY <1>2, <2>1, <2>3 DEF Shown
    <3>2. QED BY <2>3, <3>1, NotBusy DEF ShowsPending
  <2>4. QED BY <2>2, <2>3
<1>3. QED BY <1>1, <1>2

LEMMA PickOne ==
  ASSUME NEW rows, Apart(rows), NEW i \in DOMAIN rows, NEW ids, NEW all,
         ChosenFrom(rows, ids) \subseteq all
  PROVE  /\ ChosenFrom(rows, {rows[i].id}) \subseteq {rows[i].file}
         /\ ChosenFrom(rows, ids \ {rows[i].id}) \subseteq all \ {rows[i].file}
         /\ ChosenFrom(rows, ids \cup {rows[i].id}) \subseteq all \cup {rows[i].file}
BY DEF Apart, ChosenFrom

\* What a click does to the picks of the page.
PickedOn(t, row, toggle, had) ==
  IF ~toggle THEN {row.file}
  ELSE IF row.id \in t.selected THEN had \ {row.file} ELSE had \cup {row.file}

\* What it does to the selection.
ChosenNow(t, id, toggle) ==
  IF ~toggle THEN {id} ELSE IF id \in t.selected THEN t.selected \ {id} ELSE t.selected \cup {id}

LEMMA SelectedTab ==
  ASSUME NEW t \in Tab, NEW ids \in Ids
  PROVE  LET s == [t EXCEPT !.selected = ids] IN s \in Tab /\ s.selected = ids /\ SameView(t, s)
BY DEF Tab, SameView

LEMMA SelectEntrySound ==
  ASSUME NEW t, Sound(t), NEW picks \in Picks, NEW asked, InPicks(t, picks, asked),
         Loading(t) => Apart(t.pending),
         NEW i \in DOMAIN Shown(t), NEW toggle \in BOOLEAN
  PROVE  LET row == Shown(t)[i]
             s == SelectEntry(t, row.id, toggle)
             picks2 == [picks EXCEPT ![t.page] = PickedOn(t, row, toggle, @)]
         IN Sound(s) /\ InPicks(s, picks2, asked) /\ SameView(t, s) /\ picks2 \in Picks
<1> DEFINE rows == Shown(t)
           row == rows[i]
           ids == ChosenNow(t, row.id, toggle)
           own == PickedOn(t, row, toggle, picks[t.page])
           s == [t EXCEPT !.selected = ids]
           picks2 == [picks EXCEPT ![t.page] = own]
<1>1. /\ t \in Tab /\ t.page \in Pages /\ t.selected \in Ids
      /\ t.entries \in Rows /\ t.pending \in Rows
  BY DEF Sound, Tab
<1>2. \/ ~ShowsPending(t) /\ rows = t.entries
      \/ ShowsPending(t) /\ rows = t.pending
  BY ShownIs
<1> HIDE DEF rows
<1>3. rows \in Rows /\ i \in DOMAIN rows /\ Apart(rows)
  <2>1. CASE ~ShowsPending(t) /\ rows = t.entries
    BY <1>1, <2>1 DEF Sound, InLists, rows
  <2>2. CASE ShowsPending(t) /\ rows = t.pending
    BY <1>1, <2>2, NotBusy DEF ShowsPending, Loading, rows
  <2>3. QED BY <1>2, <2>1, <2>2
<1>4. row.id \in Nat /\ row.file \in Files
  BY <1>3, RowsAre
<1>5. row.id \in DOMAIN t.indices
  <2>1. row.id \in IdsOf(rows)
    BY <1>3 DEF IdsOf
  <2>2. CASE ~ShowsPending(t) /\ rows = t.entries
    <3>1. DOMAIN IndicesOf(t.entries) = IdsOf(t.entries)
      BY <1>1, IndicesType DEF IdsOf
    <3>2. t.indices = IndicesOf(t.entries)
      BY <2>2 DEF Sound, InLists
    <3> HIDE DEF row
    <3>3. QED BY <2>1, <2>2, <3>1, <3>2
  <2>3. CASE ShowsPending(t) /\ rows = t.pending
    BY <2>1, <2>3 DEF Sound, InLists
  <2>4. QED BY <1>2, <2>2, <2>3
<1>6. ids \in Ids
  BY <1>1, <1>4 DEF ChosenNow, Ids
<1>7. s = SelectEntry(t, row.id, toggle)
  <2> HIDE DEF row
  <2>1. ids = (IF ~toggle THEN {row.id}
               ELSE IF row.id \in t.selected THEN t.selected \ {row.id} ELSE t.selected \cup {row.id})
    BY DEF ChosenNow
  <2>2. [t EXCEPT !.selected = IF ~toggle THEN {row.id}
                              ELSE IF row.id \in @ THEN @ \ {row.id} ELSE @ \cup {row.id}]
         = [t EXCEPT !.selected = ids]
    BY <2>1, <1>1 DEF Tab
  <2>3. QED BY <2>2, <1>5 DEF SelectEntry
<1>8. s \in Tab /\ s.selected = ids /\ SameView(t, s)
  BY <1>1, <1>6, SelectedTab
<1> HIDE DEF s
<1>9. Sound(s) /\ ShowsPending(s) = ShowsPending(t)
  BY <1>8, SameViewSound
<1>10. /\ picks2 \in Picks /\ picks2[t.page] = own
       /\ \A page \in Pages : page # t.page => picks2[page] = picks[page]
  <2>1. row.file \in Place \X (1..PerPlace)
    BY <1>4 DEF Files, Place
  <2>2. own \in SUBSET (Place \X (1..PerPlace))
    BY <1>1, <2>1 DEF PickedOn, Picks
  <2> HIDE DEF own
  <2>3. QED BY <1>1, <2>2 DEF Picks
<1> HIDE DEF picks2
<1>11. "Directory" \in Pages /\ "Search" \in Pages /\ t.page \in {"Directory", "Search"}
  BY <1>1, SomeTypes DEF Pages
<1>12. /\ ~toggle => row.file \in AllOf(picks2)
       /\ toggle /\ row.id \in t.selected => AllOf(picks) \ {row.file} \subseteq AllOf(picks2)
       /\ toggle /\ row.id \notin t.selected => AllOf(picks) \cup {row.file} \subseteq AllOf(picks2)
  BY <1>10, <1>11 DEF AllOf, PickedOn
<1>13. ASSUME ChosenFrom(rows, t.selected) \subseteq AllOf(picks)
       PROVE  ChosenFrom(rows, ids) \subseteq AllOf(picks2)
  <2>1. /\ ChosenFrom(rows, {row.id}) \subseteq {row.file}
        /\ ChosenFrom(rows, t.selected \ {row.id}) \subseteq AllOf(picks) \ {row.file}
        /\ ChosenFrom(rows, t.selected \cup {row.id}) \subseteq AllOf(picks) \cup {row.file}
    BY <1>3, <1>13, PickOne
  <2> HIDE DEF row
  <2>2. QED BY <2>1, <1>12 DEF ChosenNow
<1>14. ASSUME ShowsPending(t), rows = t.pending,
              \/ t.selected \subseteq IdsOf(t.pending)
              \/ FileOfPlace(t.requested) \ FilesOf(t.pending) \subseteq AllOf(picks)
       PROVE  \/ ids \subseteq IdsOf(t.pending)
              \/ FileOfPlace(t.requested) \ FilesOf(t.pending) \subseteq AllOf(picks2)
  <2>1. row.id \in IdsOf(t.pending) /\ row.file \in FilesOf(t.pending)
    BY <1>3, <1>14 DEF IdsOf, FilesOf
  <2> HIDE DEF row
  <2>2. QED BY <2>1, <1>12, <1>14 DEF ChosenNow
<1>15. t.page = "Search" => picks2["Directory"] = picks["Directory"]
  BY <1>10, <1>11
<1>16. ~(t.page = "Search" /\ t.latest \in asked)
  <2> SUFFICES ASSUME t.page = "Search", t.latest \in asked PROVE FALSE
    OBVIOUS
  <2>1. t.entries = <<>>
    BY DEF InPicks
  <2>2. ~ShowsPending(t)
    BY NotBusy DEF Sound, InRequest, Loading, ShowsPending
  <2>3. QED BY <2>1, <2>2, <1>2, <1>3
<1>17. InPicks(s, picks2, asked)
  <2>1. CASE ~ShowsPending(t) /\ rows = t.entries
    <3>1. ChosenFrom(s.entries, s.selected) \subseteq AllOf(picks2)
      BY <1>8, <1>13, <2>1 DEF InPicks, SameView
    <3>2. QED BY <3>1, <2>1, <1>8, <1>9, <1>15, <1>16 DEF InPicks, SameView
  <2>2. CASE ShowsPending(t) /\ rows = t.pending
    <3>1. t.requested \in Unc =>
            /\ ChosenFrom(s.pending, s.selected) \subseteq AllOf(picks2)
            /\ \/ s.selected \subseteq IdsOf(s.pending)
               \/ FileOfPlace(s.requested) \ FilesOf(s.pending) \subseteq AllOf(picks2)
      BY <1>8, <1>13, <1>14, <2>2 DEF InPicks, SameView
    <3>2. QED BY <3>1, <2>2, <1>8, <1>9, <1>15, <1>16 DEF InPicks, SameView
  <2>3. QED BY <1>2, <2>1, <2>2
<1>18. QED BY <1>7, <1>8, <1>9, <1>10, <1>17 DEF rows, picks2

\* Control+A over any rows of the place.
LEMMA SelectAllSound ==
  ASSUME NEW t, Sound(t), NEW picks \in Picks, NEW asked, InPicks(t, picks, asked),
         NEW picks2 \in Picks,
         picks2 = [picks EXCEPT ![t.page] = FilesOf(t.entries) \cup FilesOf(Shown(t))
                                              \cup FileOfPlace(VisibleLocation(t))]
  PROVE  Sound(SelectAll(t)) /\ InPicks(SelectAll(t), picks2, asked) /\ SameView(t, SelectAll(t))
<1> DEFINE ids == {t.entries[i].id : i \in DOMAIN t.entries}
           s == [t EXCEPT !.selected = ids]
<1>1. s = SelectAll(t)
  BY DEF SelectAll
<1>2. t \in Tab /\ t.page \in Pages /\ t.entries \in Rows
  BY DEF Sound, Tab
<1>3. ids \in Ids
  BY <1>2, RowsAre DEF Ids
<1>4. ids = IdsOf(t.entries)
  BY DEF IdsOf
<1> HIDE DEF ids
<1>5. s \in Tab /\ s.selected = ids /\ SameView(t, s)
  BY <1>2, <1>3, SelectedTab
<1> HIDE DEF s
<1>6. Sound(s) /\ ShowsPending(s) = ShowsPending(t)
  BY <1>5, SameViewSound
<1>7. t.page \in {"Directory", "Search"} /\ "Directory" \in Pages /\ "Search" \in Pages
  BY <1>2, SomeTypes DEF Pages
<1>8. /\ FilesOf(t.entries) \subseteq AllOf(picks2) /\ FilesOf(Shown(t)) \subseteq AllOf(picks2)
      /\ FileOfPlace(VisibleLocation(t)) \subseteq AllOf(picks2)
      /\ t.page = "Search" => picks2["Directory"] = picks["Directory"]
  BY <1>7 DEF AllOf, Picks
<1>9. \A rows : ChosenFrom(rows, ids) \subseteq FilesOf(rows)
  BY DEF ChosenFrom, FilesOf
<1>10. ~ShowsPending(t) => ChosenFrom(t.entries, ids) \subseteq AllOf(picks2)
  BY <1>8, <1>9
<1>11. ASSUME ShowsPending(t)
       PROVE  /\ ChosenFrom(t.pending, ids) \subseteq AllOf(picks2)
              /\ FileOfPlace(t.requested) \subseteq AllOf(picks2)
  <2>1. t.load \in Busy /\ t.load # "Loading" /\ t.page = "Directory" /\ t.requested \in Listable
    BY <1>11, NotBusy DEF ShowsPending, Sound, InRequest, Loading
  <2>2. VisibleLocation(t) = t.requested
    BY <2>1, SomeTypes DEF VisibleLocation
  <2>3. Shown(t) = t.pending
    <3>1. ~RetainsDirectoryView(t)
      BY <1>11 DEF ShowsPending, RetainsDirectoryView
    <3>2. ~HasFailedLocation(t)
      BY <2>1, NotBusy DEF HasFailedLocation
    <3>3. QED BY <2>1, <3>1, <3>2 DEF Shown
  <2>4. QED BY <1>8, <1>9, <2>2, <2>3
<1>12. t.page = "Search" /\ t.latest \in asked => ids = {}
  BY <1>4, NothingChosen DEF InPicks
<1>13. InPicks(s, picks2, asked)
  BY <1>5, <1>6, <1>8, <1>10, <1>11, <1>12 DEF InPicks, SameView
<1>14. QED BY <1>1, <1>5, <1>6, <1>13

LEMMA AcceptsWhenLoading ==
  ASSUME NEW t, Sound(t), NEW r
  PROVE  AcceptsDirectory(t, r) <=> Loading(t) /\ t.latest = r
<1>1. AcceptsDirectory(t, r) => Loading(t) /\ t.latest = r
  BY DEF AcceptsDirectory, Accepts, Loading
<1>2. ASSUME Loading(t), t.latest = r PROVE AcceptsDirectory(t, r)
  <2>1. t.requested # NoPlace
    BY <1>2, SomeTypes DEF Sound, InRequest
  <2>2. QED BY <1>2, <2>1 DEF AcceptsDirectory, Accepts, Loading, Sound, InRequest
<1>3. QED BY <1>1, <1>2

LEMMA IndicesValues ==
  ASSUME NEW ix \in Indices
  PROVE  DOMAIN ix \in Ids /\ \A id \in DOMAIN ix : ix[id] \in Nat
BY DEF Indices

-----------------------------------------------------------------------------
(* A batch of the request under way.                                        *)

\* What a batch leaves: the rows of both, and an index that finds them.
Grows(t, c, rows, sel) ==
  /\ c \in Tab
  /\ c.pending = Merged(t.pending, rows) /\ c.load = "Partial" /\ c.selected = sel
  /\ t.retain => c.indices = t.indices
  /\ ~t.retain => IdsOf(c.pending) \subseteq DOMAIN c.indices
  /\ c.latest = t.latest /\ c.current = t.current /\ c.requested = t.requested
  /\ c.page = t.page /\ c.snapshot = t.snapshot /\ c.kind = t.kind /\ c.retain = t.retain
  /\ c.back = t.back /\ c.forward = t.forward /\ c.entries = t.entries
  /\ c.cancel = t.cancel /\ c.fired = t.fired

LEMMA AppendPendingGives ==
  ASSUME NEW t \in Tab, t.page = "Directory", NEW rows \in Rows, Merged(t.pending, rows) \in Rows,
         IdsOf(Merged(t.pending, rows)) = IdsOf(t.pending) \cup IdsOf(rows),
         t.retain \/ IdsOf(t.pending) \subseteq DOMAIN t.indices
  PROVE  Grows(t, AppendPending(t, rows), rows, t.selected)
<1> DEFINE fits == t.pending = <<>> \/ ~ByName(rows[1], Last(t.pending))
           merged == IF fits THEN t.pending \o rows ELSE Sorted(ToSet(t.pending) \cup ToSet(rows))
           D == DOMAIN t.indices \cup DOMAIN IndicesOf(merged)
           ofRows == {rows[i].id : i \in DOMAIN rows}
           added == [id \in D |-> IF id \in ofRows THEN IndicesOf(merged)[id] ELSE t.indices[id]]
           ix == IF RetainsDirectoryView(t) THEN t.indices
                 ELSE IF fits THEN added ELSE IndicesOf(merged)
           c == [t EXCEPT !.pending = merged, !.indices = ix, !.load = "Partial"]
<1>1. c = AppendPending(t, rows)
  BY DEF AppendPending
<1>2. merged = Merged(t.pending, rows)
  BY DEF Merged, Fits
<1> HIDE DEF merged, fits
<1>3. merged \in Rows /\ IdsOf(merged) = IdsOf(t.pending) \cup IdsOf(rows) /\ ofRows = IdsOf(rows)
  BY <1>2 DEF IdsOf
<1>4. IndicesOf(merged) \in Indices /\ DOMAIN IndicesOf(merged) = IdsOf(merged)
  BY <1>3, IndicesType DEF IdsOf
<1>5. t.indices \in Indices /\ t.retain \in BOOLEAN
  BY DEF Tab
<1>6. RetainsDirectoryView(t) <=> t.retain
  BY DEF RetainsDirectoryView
<1>7. ASSUME ~t.retain PROVE added \in Indices /\ IdsOf(merged) \subseteq DOMAIN added
  <2>1. D \in Ids
    BY <1>4, <1>5, IndicesValues DEF Ids
  <2>2. \A id \in D : added[id] \in Nat
    <3> TAKE id \in D
    <3>1. CASE id \in ofRows
      <4>1. id \in DOMAIN IndicesOf(merged)
        BY <3>1, <1>3, <1>4
      <4>2. QED BY <3>1, <4>1, <1>4, IndicesValues
    <3>2. CASE id \notin ofRows
      <4>1. id \in DOMAIN t.indices
        BY <3>2, <1>3, <1>4, <1>7
      <4>2. QED BY <3>2, <4>1, <1>5, IndicesValues
    <3>3. QED BY <3>1, <3>2
  <2>3. added \in [D -> Nat]
    BY <2>2
  <2>4. QED BY <2>1, <2>3, <1>4 DEF Indices
<1> HIDE DEF added
<1>8. /\ ix \in Indices
      /\ t.retain => ix = t.indices
      /\ ~t.retain => IdsOf(merged) \subseteq DOMAIN ix
  BY <1>4, <1>5, <1>6, <1>7
<1> HIDE DEF ix
<1>9. /\ c \in Tab /\ c.pending = merged /\ c.indices = ix /\ c.load = "Partial"
      /\ c.selected = t.selected
      /\ c.latest = t.latest /\ c.current = t.current /\ c.requested = t.requested
      /\ c.page = t.page /\ c.snapshot = t.snapshot /\ c.kind = t.kind /\ c.retain = t.retain
      /\ c.back = t.back /\ c.forward = t.forward /\ c.entries = t.entries
      /\ c.cancel = t.cancel /\ c.fired = t.fired
  BY <1>3, <1>8, SomeTypes DEF Tab
<1> HIDE DEF c
<1>10. Grows(t, c, rows, t.selected)
  BY <1>2, <1>8, <1>9 DEF Grows
<1>11. QED BY <1>1, <1>10

LEMMA FirstBatchDeselects ==
  ASSUME NEW t, Sound(t), Loading(t), NEW rows \in Rows, rows # <<>>, NEW next \in Nat,
         Joins(t.requested, t.pending, rows, next)
  PROVE  Grows(t, AcceptDirectoryBatch(t, t.latest, rows), rows,
               IF t.pending = <<>> /\ t.requested \in Unc THEN {} ELSE t.selected)
<1>1. t \in Tab /\ AcceptsDirectory(t, t.latest) /\ t.page = "Directory" /\ t.requested \in Listable
  BY AcceptsWhenLoading DEF Sound, InRequest
<1>2. VisibleLocation(t) = t.requested
  BY <1>1, SomeTypes DEF VisibleLocation, Loading
<1> DEFINE first == t.pending = <<>> /\ t.requested \in Unc
           u == [t EXCEPT !.selected = {}]
<1>3. AcceptDirectoryBatch(t, t.latest, rows) = AppendPending(IF first THEN u ELSE t, rows)
  BY <1>1, <1>2 DEF AcceptDirectoryBatch
<1>4. t.pending \in Rows /\ {} \in Ids
  BY <1>1, SomeTypes DEF Tab
<1>5. Joined(t.requested, t.pending, rows, Merged(t.pending, rows), next)
  BY <1>4, MergedJoins
<1>6. t.retain \/ IdsOf(t.pending) \subseteq DOMAIN t.indices
  <2>1. CASE t.load = "Partial"
    BY <2>1 DEF Sound, InLists, ShowsPending
  <2>2. CASE t.load # "Partial"
    BY <2>2, NothingChosen DEF Sound, InLists
  <2>3. QED BY <2>1, <2>2
<1>7. CASE ~first
  <2>1. Grows(t, AppendPending(t, rows), rows, t.selected)
    BY <1>1, <1>5, <1>6, AppendPendingGives DEF Joined
  <2>2. QED BY <1>3, <1>7, <2>1
<1>8. CASE first
  <2>1. u \in Tab /\ u.selected = {} /\ SameView(t, u)
    BY <1>1, <1>4, SelectedTab
  <2> HIDE DEF u
  <2>2. Grows(u, AppendPending(u, rows), rows, {})
    BY <1>1, <1>5, <1>6, <2>1, AppendPendingGives DEF Joined, SameView
  <2>3. Grows(t, AppendPending(u, rows), rows, {})
    BY <2>1, <2>2 DEF Grows, SameView
  <2>4. QED BY <1>3, <1>8, <2>3
<1>9. QED BY <1>7, <1>8

LEMMA BatchSound ==
  ASSUME NEW t, Sound(t), NEW picks, NEW asked, InPicks(t, picks, asked),
         Loading(t), NEW rows \in Rows, rows # <<>>, NEW next \in Nat,
         Joins(t.requested, t.pending, rows, next)
  PROVE  LET b == AcceptDirectoryBatch(t, t.latest, rows) IN
         /\ Sound(b) /\ InPicks(b, picks, asked) /\ b.load = "Partial"
         /\ b.latest = t.latest /\ b.current = t.current /\ b.requested = t.requested
         /\ Joined(t.requested, t.pending, rows, b.pending, next)
<1> DEFINE b == AcceptDirectoryBatch(t, t.latest, rows)
           sel == IF t.pending = <<>> /\ t.requested \in Unc THEN {} ELSE t.selected
<1>1. Grows(t, b, rows, sel)
  BY FirstBatchDeselects
<1> HIDE DEF b
<1>2. t \in Tab /\ b \in Tab /\ b.retain = t.retain /\ b.load = "Partial" /\ t.pending \in Rows
  BY <1>1 DEF Sound, Grows, Tab
<1>3. Joined(t.requested, t.pending, rows, b.pending, next)
  BY <1>1, <1>2, MergedJoins DEF Grows
<1>4. t.page = "Directory" /\ b.page = "Directory"
  BY <1>1 DEF Sound, InRequest, Grows
<1>5. InRequest(b)
  BY <1>1 DEF Grows, Sound, InRequest, Loading
<1>6. ShowsPending(b) = ~t.retain
  BY <1>2 DEF ShowsPending, Tab
<1>7. InLists(b)
  <2>1. t.retain => t.indices = IndicesOf(t.entries)
    BY DEF Sound, InLists, ShowsPending
  <2>2. QED BY <1>1, <1>4, <1>6, <2>1 DEF Grows, Sound, InLists
<1>8. InHistory(b)
  BY <1>1, <1>2 DEF Grows, Sound, InHistory, Travels, Loading
<1>9. sel \subseteq t.selected
  OBVIOUS
<1>10. ~ShowsPending(b) => ChosenFrom(b.entries, b.selected) \subseteq AllOf(picks)
  <2> SUFFICES ASSUME t.retain PROVE ChosenFrom(b.entries, b.selected) \subseteq AllOf(picks)
    BY <1>2, <1>6 DEF Tab
  <2>1. ~ShowsPending(t) /\ b.entries = t.entries /\ b.selected = sel
    BY <1>1 DEF ShowsPending, Grows
  <2>2. QED BY <1>9, <2>1, ChosenGrows DEF InPicks
<1>11. ASSUME ShowsPending(b), b.requested \in Unc
       PROVE  /\ ChosenFrom(b.pending, b.selected) \subseteq AllOf(picks)
              /\ \/ b.selected \subseteq IdsOf(b.pending)
                 \/ FileOfPlace(b.requested) \ FilesOf(b.pending) \subseteq AllOf(picks)
  <2>1. ~t.retain /\ t.requested \in Unc /\ b.selected = sel /\ b.requested = t.requested
    BY <1>1, <1>6, <1>11 DEF Grows
  <2>2. CASE t.pending = <<>>
    <3>1. b.selected = {}
      BY <2>1, <2>2
    <3>2. QED BY <3>1, NothingChosen
  <2>3. CASE t.pending # <<>>
    <3>1. ShowsPending(t) /\ b.selected = t.selected
      BY <2>1, <2>3 DEF Sound, InLists, ShowsPending
    <3>2. /\ ChosenFrom(t.pending, t.selected) \subseteq AllOf(picks)
          /\ \/ t.selected \subseteq IdsOf(t.pending)
             \/ FileOfPlace(t.requested) \ FilesOf(t.pending) \subseteq AllOf(picks)
      BY <2>1, <3>1 DEF InPicks
    <3>3. IdsOf(t.pending) \subseteq IdsOf(b.pending)
      BY <1>3 DEF Joined
    <3>4. FilesOf(t.pending) \subseteq FilesOf(b.pending)
      <4> SUFFICES ASSUME NEW j \in DOMAIN t.pending PROVE t.pending[j].file \in FilesOf(b.pending)
        BY DEF FilesOf
      <4>1. t.pending[j].file[2] \in NamesOf(b.pending)
        BY <1>3 DEF Joined, NamesOf
      <4>2. PICK i \in DOMAIN b.pending : b.pending[i].file[2] = t.pending[j].file[2]
        BY <4>1 DEF NamesOf
      <4>3. b.pending[i].file[1] = t.requested /\ t.pending[j].file[1] = t.requested
        BY <1>3 DEF Joined, Joins, Numbered
      <4>4. b.pending \in Rows
        BY <1>2 DEF Tab
      <4>5. /\ b.pending[i].file = <<b.pending[i].file[1], b.pending[i].file[2]>>
            /\ t.pending[j].file = <<t.pending[j].file[1], t.pending[j].file[2]>>
        BY <1>2, <4>4, RowsAre
      <4>6. b.pending[i].file = t.pending[j].file
        BY <4>2, <4>3, <4>5
      <4>7. QED BY <4>6 DEF FilesOf
    <3>5. ASSUME NEW i \in DOMAIN b.pending, b.pending[i].id \in t.selected
          PROVE  b.pending[i].file \in AllOf(picks)
      <4>1. CASE \E j \in DOMAIN t.pending : b.pending[i] = t.pending[j]
        BY <4>1, <3>2, <3>5 DEF ChosenFrom
      <4>2. CASE \E j \in DOMAIN rows : b.pending[i] = rows[j]
        <5>1. PICK j \in DOMAIN rows : b.pending[i] = rows[j]
          BY <4>2
        <5>2. rows[j].id \in IdsOf(rows) /\ rows[j].file[2] \in NamesOf(rows)
          BY DEF IdsOf, NamesOf
        <5>3. rows[j].id \notin IdsOf(t.pending) /\ rows[j].file[2] \notin NamesOf(t.pending)
          BY <5>2 DEF Joins
        <5>4. rows[j].file \notin FilesOf(t.pending)
          BY <5>3 DEF FilesOf, NamesOf
        <5>5. rows[j].file \in FileOfPlace(t.requested)
          <6>1. rows[j].file[1] = t.requested
            BY DEF Joins, Numbered
          <6>2. rows[j].file = <<rows[j].file[1], rows[j].file[2]>> /\ rows[j].file[2] \in 1..PerPlace
            BY RowsAre
          <6>3. QED BY <6>1, <6>2 DEF FileOfPlace
        <5>6. QED BY <5>1, <5>3, <5>4, <5>5, <3>2, <3>5
      <4>3. QED BY <4>1, <4>2, <1>3 DEF Joined
    <3>6. ChosenFrom(b.pending, b.selected) \subseteq AllOf(picks)
      BY <3>1, <3>5 DEF ChosenFrom
    <3>7. QED BY <2>1, <3>1, <3>2, <3>3, <3>4, <3>6
  <2>4. QED BY <2>2, <2>3
<1>12. InPicks(b, picks, asked)
  BY <1>4, <1>10, <1>11 DEF InPicks
<1>13. QED BY <1>1, <1>2, <1>3, <1>5, <1>7, <1>8, <1>12 DEF Sound, Grows, b

-----------------------------------------------------------------------------
(* The end of a load.                                                       *)

\* What a command acts on are the files of the selected rows.
LEMMA SelectedAreChosen ==
  ASSUME NEW t, Sound(t), ~ShowsPending(t), t.page = "Directory" \/ ~Loading(t)
  PROVE  SelectedFiles(t) \subseteq ChosenFrom(t.entries, t.selected)
<1>1. t \in Tab /\ t.entries \in Rows /\ t.indices = IndicesOf(t.entries)
  BY DEF Sound, Tab, InLists
<1>2. VisibleEntries(t) = t.entries
  BY NotBusy DEF VisibleEntries, RetainsDirectoryView, ShowsPending, Loading
<1>3. ASSUME NEW id \in t.selected, NEW f \in FileOf(t, id)
      PROVE  f \in ChosenFrom(t.entries, t.selected)
  <2>1. PICK i \in DOMAIN t.entries :
          id \in DOMAIN t.indices /\ t.indices[id] = i /\ f = t.entries[i].file
    BY <1>2, <1>3 DEF FileOf
  <2>2. PICK j \in DOMAIN t.entries : t.entries[j].id = id
    BY <1>1, <2>1, IndicesType
  <2>3. t.entries[i].id = id
    BY <1>1, <2>1, <2>2, IndexFinds DEF Sound, InLists
  <2>4. QED BY <2>1, <2>3 DEF ChosenFrom
<1>4. QED BY <1>3 DEF SelectedFiles

LEMMA FinishSound ==
  ASSUME NEW t, Sound(t), NEW picks, NEW asked, InPicks(t, picks, asked), Loading(t),
         Apart(t.pending)
  PROVE  LET f == FinishDirectoryNavigation(t, t.latest, t.requested) IN
         /\ Sound(f) /\ InPicks(f, picks, asked) /\ AtRest(f) /\ f # t
         /\ f.load = "Complete" /\ f.latest = t.latest /\ f.current = t.requested
         /\ f.entries = t.pending
         /\ t.kind \in {"Refresh", "BackgroundRefresh"} \/ Keeps(t, f)
<1> DEFINE p == t.requested
           e == ReplaceEntries(t, t.pending)
           d == [e EXCEPT !.pending = <<>>, !.load = "Complete", !.cancel = 0]
           done == CommitLocation(d, p)
           keep == IF RetainsDirectoryView(t) THEN Reselected(t, t.pending)
                   ELSE IF t.load = "Partial" /\ p \in Unc
                   THEN t.selected \cap DOMAIN IndicesOf(t.pending)
                   ELSE {}
           f == [done EXCEPT !.selected = keep]
<1>1. /\ t \in Tab /\ AcceptsDirectory(t, t.latest) /\ t.page = "Directory" /\ p \in Listable
      /\ p \in Place /\ t.pending \in Rows
  BY AcceptsWhenLoading, SomeTypes DEF Sound, InRequest, Tab
<1>2. f = FinishDirectoryNavigation(t, t.latest, p)
  BY <1>1 DEF FinishDirectoryNavigation
<1>3. keep \in Ids
  BY <1>1, RowsAre DEF Reselected, Tab, Ids
<1>4. ChosenFrom(t.pending, keep) \subseteq AllOf(picks)
  <2>1. CASE RetainsDirectoryView(t)
    <3>1. ~ShowsPending(t) /\ keep = Reselected(t, t.pending)
      BY <2>1 DEF RetainsDirectoryView, ShowsPending
    <3>2. SelectedFiles(t) \subseteq AllOf(picks)
      BY <1>1, <3>1, SelectedAreChosen DEF InPicks
    <3>3. ASSUME NEW i \in DOMAIN t.pending, t.pending[i].id \in keep
          PROVE  t.pending[i].file \in SelectedFiles(t)
      <4>1. PICK j \in DOMAIN t.pending :
              t.pending[j].file \in SelectedFiles(t) /\ t.pending[j].id = t.pending[i].id
        BY <3>1, <3>3 DEF Reselected
      <4>2. QED BY <4>1 DEF Apart
    <3>4. QED BY <3>2, <3>3 DEF ChosenFrom
  <2>2. CASE ~RetainsDirectoryView(t) /\ t.load = "Partial" /\ p \in Unc
    <3>1. ShowsPending(t)
      BY <1>1, <2>2 DEF RetainsDirectoryView, ShowsPending
    <3>2. keep \subseteq t.selected
      BY <2>2
    <3> HIDE DEF keep
    <3>3. QED BY <2>2, <3>1, <3>2, ChosenGrows DEF InPicks
  <2>3. CASE ~RetainsDirectoryView(t) /\ ~(t.load = "Partial" /\ p \in Unc)
    <3>1. keep = {}
      BY <2>3
    <3>2. QED BY <3>1, NothingChosen
  <2>4. QED BY <2>1, <2>2, <2>3
<1> HIDE DEF keep
<1>5. e \in Tab /\ Replaces(t, e, t.pending)
  BY <1>1, ReplaceEntriesGives DEF Replaces
<1> HIDE DEF e
<1>6. /\ d \in Tab /\ d.pending = <<>> /\ d.load = "Complete" /\ d.cancel = 0
      /\ d.latest = e.latest /\ d.current = e.current /\ d.page = e.page /\ d.snapshot = e.snapshot
      /\ d.kind = e.kind /\ d.back = e.back /\ d.forward = e.forward
      /\ d.entries = e.entries /\ d.indices = e.indices /\ d.fired = e.fired
  BY <1>5, SomeTypes DEF Tab
<1> HIDE DEF d
<1>7. done \in Tab /\ Commits(d, done, p)
  BY <1>1, <1>6, CommitLocationGives DEF Commits
<1> HIDE DEF done
<1>8. f \in Tab /\ f.selected = keep /\ SameView(done, f)
  BY <1>3, <1>7, SelectedTab
<1> HIDE DEF f
<1>9. /\ f.pending = <<>> /\ f.load = "Complete" /\ f.cancel = 0 /\ f.latest = t.latest
      /\ f.current = p /\ f.requested = NoPlace
      /\ f.page = t.page /\ f.snapshot = t.snapshot /\ f.entries = t.pending
      /\ f.indices = IndicesOf(t.pending) /\ f.fired = t.fired
  BY <1>5, <1>6, <1>7, <1>8 DEF Replaces, Commits, SameView
<1>10. ~ShowsPending(f) /\ ~Loading(f) /\ AtRest(f)
  BY <1>9, NotBusy DEF ShowsPending, Loading, AtRest
<1>11. Sound(f)
  <2>1. t.latest \in Nat
    BY <1>1 DEF Tab
  <2>2. InRequest(f)
    BY <1>9, <1>10, <2>1 DEF Sound, InRequest
  <2>3. InLists(f)
    BY <1>1, <1>9, <1>10 DEF Sound, InLists
  <2>4. QED BY <1>8, <1>10, <2>2, <2>3 DEF Sound, InHistory
<1>12. InPicks(f, picks, asked)
  BY <1>1, <1>4, <1>8, <1>9, <1>10 DEF InPicks
<1>13. f # t
  BY <1>9, NotBusy DEF Loading
<1>14. ASSUME t.kind \notin {"Refresh", "BackgroundRefresh"} PROVE Keeps(t, f)
  <2>1. Travels(t, p)
    BY <1>14 DEF Sound, InHistory
  <2>2. d.current = t.current /\ d.kind = t.kind /\ d.back = t.back /\ d.forward = t.forward
    BY <1>5, <1>6 DEF Replaces
  <2>3. Travels(d, p)
    BY <2>1, <2>2 DEF Travels
  <2>4. Keeps(d, done)
    BY <1>7, <2>3 DEF Commits
  <2>5. QED BY <1>8, <2>2, <2>4 DEF Keeps, SameView
<1>15. QED BY <1>2, <1>9, <1>10, <1>11, <1>12, <1>13, <1>14

\* Rows in order with the names 1..PerPlace are those of the place, one by one.
LEMMA WholeListing ==
  ASSUME NEW rows \in Rows, NEW p, NEW next, Numbered(p, rows, next), NamesOf(rows) = 1..PerPlace
  PROVE  [i \in DOMAIN rows |-> rows[i].file] = [i \in 1..PerPlace |-> <<p, i>>]
<1> DEFINE n == Len(rows)
           nm(i) == rows[i].file[2]
<1>1. n \in Nat /\ DOMAIN rows = 1..n /\ PerPlace \in Nat
  BY PerPlaceAssumption DEF Rows
<1>2. \A i \in 1..n : nm(i) \in 1..PerPlace /\ nm(i) \in Nat
  BY <1>1, RowsAre
<1>3. \A i, j \in 1..n : i < j => nm(i) < nm(j)
  BY <1>1 DEF Numbered, Ascending
<1>4. \A m \in 1..PerPlace : \E j \in 1..n : nm(j) = m
  BY <1>1 DEF NamesOf
<1> HIDE DEF n, nm
<1>5. ASSUME NEW i \in 1..n PROVE nm(i) = i
  <2> DEFINE f == [j \in 1..i |-> nm(j)]
  <2>1. \A j \in 1..i : j \in 1..n /\ nm(j) \in 1..nm(i)
    BY <1>1, <1>2, <1>3
  <2>2. \A m \in 1..nm(i) : \E j \in 1..i : nm(j) = m
    <3> TAKE m \in 1..nm(i)
    <3>1. PICK j \in 1..n : nm(j) = m
      BY <1>1, <1>2, <1>4
    <3>2. ~(i < j)
      BY <1>2, <1>3, <3>1
    <3>3. QED BY <3>1, <3>2, <1>1
  <2>3. f \in [1..i -> 1..nm(i)]
    BY <2>1
  <2>4. f \in Surjection(1..i, 1..nm(i))
    BY <2>2, <2>3 DEF Surjection
  <2>5. \A j, k \in 1..i : nm(j) = nm(k) => j = k
    BY <1>1, <1>2, <1>3, <2>1
  <2>6. f \in Injection(1..i, 1..nm(i))
    BY <2>3, <2>5 DEF Injection, IsInjective
  <2>7. i \in Nat /\ nm(i) \in Nat
    BY <1>1, <1>2
  <2>8. IsFiniteSet(1..i) /\ Cardinality(1..i) = i /\ Cardinality(1..nm(i)) = nm(i)
    BY <2>7, FS_Interval
  <2>9. Cardinality(1..nm(i)) = Cardinality(1..i)
    BY <2>4, <2>6, <2>8, FS_Surjection
  <2>10. QED BY <2>8, <2>9
<1>6. n = PerPlace
  <2>1. PerPlace \in 1..PerPlace
    BY PerPlaceAssumption
  <2>2. PICK j \in 1..n : nm(j) = PerPlace
    BY <2>1, <1>4
  <2>3. n \in 1..n /\ nm(n) = n /\ nm(j) = j
    BY <1>1, <1>5, <2>2
  <2>4. n <= PerPlace /\ j <= n
    BY <1>2, <2>3, <1>1
  <2>5. QED BY <1>1, <2>2, <2>3, <2>4
<1>7. ASSUME NEW i \in 1..PerPlace PROVE rows[i].file = <<p, i>>
  <2>1. i \in DOMAIN rows /\ nm(i) = i
    BY <1>1, <1>5, <1>6
  <2>2. rows[i].file = <<rows[i].file[1], rows[i].file[2]>> /\ rows[i].file[1] = p
    BY <2>1, RowsAre DEF Numbered
  <2>3. QED BY <2>1, <2>2 DEF nm
<1>8. DOMAIN rows = 1..PerPlace
  BY <1>1, <1>6
<1>9. QED BY <1>7, <1>8

-----------------------------------------------------------------------------
(* The workers and the queue.                                               *)

States == {"none", "reading", "waiting", "done"}
Ends   == {"Batch", "Finished", "Incomplete", "Failed", "Cancelled"}
Job    == [st : States, place : Requested, todo : SUBSET (1..PerPlace), next : Nat]
Event  == [kind : Ends, request : Request, rows : Rows]

\* The worker reads or waits for its batch to be applied.
AtWork(job) == job.st \in {"reading", "waiting"}

LEMMA JobsAre ==
  /\ NoJob \in Job /\ NoJob.st = "none"
  /\ \A p \in Listable : NewJob(p) \in Job
  /\ \A p \in Requested : Over(p) \in Job /\ ~AtWork(Over(p))
  /\ \A p \in Listable : /\ NewJob(p).st = "reading" /\ NewJob(p).place = p
                         /\ NewJob(p).todo = 1..PerPlace /\ NewJob(p).next = 1
  /\ \A p : Over(p).st = "done" /\ Over(p).place = p
<1>1. {} \in SUBSET (1..PerPlace) /\ 1..PerPlace \in SUBSET (1..PerPlace) /\ 1 \in Nat
  OBVIOUS
<1>2. NoPlace \in Requested /\ Listable \subseteq Requested
  BY SomeTypes
<1>3. "none" \in States /\ "reading" \in States /\ "done" \in States
  BY DEF States
<1>4. NoJob \in Job /\ NoJob.st = "none"
  BY <1>1, <1>2, <1>3 DEF NoJob, Job
<1>5. \A p \in Listable : NewJob(p) \in Job
  BY <1>1, <1>2, <1>3 DEF NewJob, Job
<1>6. \A p \in Requested : Over(p) \in Job /\ ~AtWork(Over(p))
  BY <1>1, <1>2, <1>3 DEF Over, Job, AtWork
<1>7. QED BY <1>4, <1>5, <1>6 DEF NewJob, Over

\* The queue has no event, or just e, of request r.
NoneAbout(evs, r) == \A i \in DOMAIN evs : evs[i].request # r
OneAbout(evs, r, e) ==
  \E i \in DOMAIN evs : /\ evs[i] = e /\ e.request = r
                        /\ \A j \in DOMAIN evs : evs[j].request = r => j = i

LEMMA AppendAbout ==
  ASSUME NEW evs \in Seq(Event), NEW e \in Event, NEW r
  PROVE  /\ Append(evs, e) \in Seq(Event) /\ Len(Append(evs, e)) = Len(evs) + 1
         /\ e.request # r /\ NoneAbout(evs, r) => NoneAbout(Append(evs, e), r)
         /\ e.request = r /\ NoneAbout(evs, r) => OneAbout(Append(evs, e), r, e)
         /\ \A d : e.request # r /\ OneAbout(evs, r, d) => OneAbout(Append(evs, e), r, d)
<1> DEFINE s == Append(evs, e)
<1>1. /\ s \in Seq(Event) /\ Len(s) = Len(evs) + 1 /\ Len(evs) \in Nat
      /\ DOMAIN evs = 1..Len(evs) /\ DOMAIN s = 1..(Len(evs) + 1)
      /\ \A i \in 1..Len(evs) : s[i] = evs[i]
      /\ s[Len(evs) + 1] = e
  BY AppendProperties
<1> HIDE DEF s
<1>2. \A i \in DOMAIN s : i \in DOMAIN evs \/ i = Len(evs) + 1
  BY <1>1
<1>3. \A i \in DOMAIN evs : i \in DOMAIN s /\ s[i] = evs[i]
  BY <1>1
<1>4. Len(evs) + 1 \in DOMAIN s
  BY <1>1
<1>5. e.request # r /\ NoneAbout(evs, r) => NoneAbout(s, r)
  BY <1>1, <1>2, <1>3 DEF NoneAbout
<1>6. ASSUME e.request = r, NoneAbout(evs, r) PROVE OneAbout(s, r, e)
  BY <1>1, <1>2, <1>3, <1>4, <1>6 DEF NoneAbout, OneAbout
<1>7. ASSUME NEW d, e.request # r, OneAbout(evs, r, d) PROVE OneAbout(s, r, d)
  BY <1>1, <1>2, <1>3, <1>7 DEF OneAbout
<1>8. QED BY <1>1, <1>5, <1>6, <1>7 DEF s

LEMMA TailAbout ==
  ASSUME NEW evs \in Seq(Event), evs # <<>>, NEW r
  PROVE  /\ Head(evs) \in Event /\ Tail(evs) \in Seq(Event) /\ Len(Tail(evs)) <= Len(evs)
         /\ \A i \in DOMAIN Tail(evs) : \E j \in DOMAIN evs : Tail(evs)[i] = evs[j]
         /\ Head(evs) = evs[1] /\ 1 \in DOMAIN evs
         /\ NoneAbout(evs, r) => Head(evs).request # r /\ NoneAbout(Tail(evs), r)
         /\ \A e : OneAbout(evs, r, e) =>
              IF Head(evs).request = r THEN Head(evs) = e /\ NoneAbout(Tail(evs), r)
              ELSE OneAbout(Tail(evs), r, e)
<1> DEFINE s == Tail(evs)  h == Head(evs)
<1>1. /\ h \in Event /\ s \in Seq(Event) /\ Len(s) = Len(evs) - 1 /\ Len(evs) \in Nat /\ Len(s) \in Nat
      /\ DOMAIN evs = 1..Len(evs) /\ DOMAIN s = 1..Len(s)
      /\ \A i \in 1..Len(s) : s[i] = evs[i + 1]
  BY HeadTailProperties
<1>2. h = evs[1] /\ 1 \in DOMAIN evs
  BY <1>1
<1> HIDE DEF s, h
<1>3. \A i \in DOMAIN s : i + 1 \in DOMAIN evs /\ s[i] = evs[i + 1] /\ i + 1 # 1 /\ i \in Nat
  BY <1>1
<1>4. \A j \in DOMAIN evs : j # 1 => j - 1 \in DOMAIN s /\ s[j - 1] = evs[j] /\ j \in Nat
  BY <1>1
<1>5. NoneAbout(evs, r) => h.request # r /\ NoneAbout(s, r)
  BY <1>2, <1>3 DEF NoneAbout
<1>6. ASSUME NEW e, OneAbout(evs, r, e)
      PROVE  IF h.request = r THEN h = e /\ NoneAbout(s, r) ELSE OneAbout(s, r, e)
  <2>1. PICK i \in DOMAIN evs : /\ evs[i] = e /\ e.request = r
                                /\ \A j \in DOMAIN evs : evs[j].request = r => j = i
    BY <1>6 DEF OneAbout
  <2>2. CASE h.request = r
    <3>1. i = 1 /\ h = e
      BY <1>2, <2>1, <2>2
    <3>2. NoneAbout(s, r)
      BY <1>3, <2>1, <3>1 DEF NoneAbout
    <3>3. QED BY <2>2, <3>1, <3>2
  <2>3. CASE h.request # r
    <3>1. i # 1
      BY <1>2, <2>1, <2>3
    <3>2. i - 1 \in DOMAIN s /\ s[i - 1] = e
      BY <3>1, <1>4, <2>1
    <3>3. ASSUME NEW j \in DOMAIN s, s[j].request = r PROVE j = i - 1
      BY <3>3, <1>3, <2>1
    <3>4. OneAbout(s, r, e)
      BY <2>1, <3>2, <3>3 DEF OneAbout
    <3>5. QED BY <2>3, <3>4
  <2>4. QED BY <2>2, <2>3
<1>7. QED BY <1>1, <1>2, <1>3, <1>5, <1>6 DEF s, h

\* Requests are numbered as they are made; a worker has a place to list.
Ordered(t, js, evs, asked) ==
  /\ js \in [Request -> Job] /\ evs \in Seq(Event) /\ Len(evs) <= QueueCap
  /\ t.latest <= MaxRequests
  /\ \A r \in Request : r > t.latest => js[r] = NoJob
  /\ \A r \in Request : AtWork(js[r]) => js[r].place \in Listable
  /\ \A i \in DOMAIN evs : evs[i].request <= t.latest
  /\ asked \subseteq 1..t.latest

LEMMA NextRequest ==
  ASSUME NEW t \in Tab, NEW t2 \in Tab, NEW js, NEW evs, NEW asked, Ordered(t, js, evs, asked),
         t.latest < MaxRequests, t2.latest = t.latest + 1,
         NEW job \in Job, AtWork(job) => job.place \in Listable,
         NEW asked2, asked2 \subseteq asked \cup {t2.latest}
  PROVE  /\ Ordered(t2, [js EXCEPT ![t2.latest] = job], evs, asked2)
         /\ NoneAbout(evs, t2.latest) /\ [js EXCEPT ![t2.latest] = job][t2.latest] = job
<1> DEFINE r == t2.latest
           js2 == [js EXCEPT ![r] = job]
<1>1. t.latest \in Nat /\ MaxRequests \in Nat /\ r \in Request /\ r = t.latest + 1
  BY MaxRequestsAssumption DEF Tab, Request
<1>2. js2 \in [Request -> Job] /\ js2[r] = job /\ \A q \in Request : q # r => js2[q] = js[q]
  BY <1>1 DEF Ordered
<1> HIDE DEF js2
<1>3. \A q \in Request : q > r => js2[q] = NoJob
  BY <1>1, <1>2 DEF Ordered, Request
<1>4. \A q \in Request : AtWork(js2[q]) => js2[q].place \in Listable
  BY <1>2 DEF Ordered
<1>5. \A i \in DOMAIN evs : evs[i].request <= r /\ evs[i].request # r
  <2> TAKE i \in DOMAIN evs
  <2>1. evs[i] \in Event
    BY DEF Ordered
  <2>2. evs[i].request \in Nat /\ evs[i].request <= t.latest
    BY <2>1 DEF Event, Request, Ordered
  <2>3. QED BY <2>2, <1>1
<1>6. asked2 \subseteq 1..r
  BY <1>1 DEF Ordered
<1>7. Ordered(t2, js2, evs, asked2)
  BY <1>1, <1>2, <1>3, <1>4, <1>5, <1>6 DEF Ordered, Request
<1>8. QED BY <1>2, <1>5, <1>7 DEF NoneAbout, js2

LEMMA WorkerStep ==
  ASSUME NEW t \in Tab, NEW js, NEW evs, NEW asked, Ordered(t, js, evs, asked),
         NEW r \in Request, js[r].st # "none", NEW job \in Job, AtWork(job) => job.place \in Listable
  PROVE  /\ Ordered(t, [js EXCEPT ![r] = job], evs, asked)
         /\ \A q \in Request : q # r => [js EXCEPT ![r] = job][q] = js[q]
         /\ [js EXCEPT ![r] = job][r] = job
         /\ r <= t.latest
         /\ \A e \in Event : e.request = r /\ Len(evs) < QueueCap =>
              Ordered(t, [js EXCEPT ![r] = job], Append(evs, e), asked)
<1> DEFINE js2 == [js EXCEPT ![r] = job]
<1>1. t.latest \in Nat /\ r \in Nat
  BY DEF Tab, Request
<1>2. js2 \in [Request -> Job] /\ js2[r] = job /\ \A q \in Request : q # r => js2[q] = js[q]
  BY DEF Ordered
<1>3. r <= t.latest
  <2>1. ~(r > t.latest)
    BY JobsAre DEF Ordered
  <2>2. QED BY <2>1, <1>1
<1> HIDE DEF js2
<1>4. \A q \in Request : q > t.latest => js2[q] = NoJob
  <2> SUFFICES ASSUME NEW q \in Request, q > t.latest PROVE js2[q] = NoJob
    OBVIOUS
  <2>1. q # r
    BY <1>1, <1>3
  <2>2. QED BY <2>1, <1>2 DEF Ordered
<1>5. \A q \in Request : AtWork(js2[q]) => js2[q].place \in Listable
  BY <1>2 DEF Ordered
<1>6. Ordered(t, js2, evs, asked)
  BY <1>2, <1>4, <1>5 DEF Ordered
<1>7. ASSUME NEW e \in Event, e.request = r, Len(evs) < QueueCap
      PROVE  Ordered(t, js2, Append(evs, e), asked)
  <2>1. evs \in Seq(Event)
    BY DEF Ordered
  <2>2. /\ Append(evs, e) \in Seq(Event) /\ Len(Append(evs, e)) = Len(evs) + 1 /\ Len(evs) \in Nat
        /\ DOMAIN Append(evs, e) = 1..(Len(evs) + 1) /\ DOMAIN evs = 1..Len(evs)
        /\ \A i \in 1..Len(evs) : Append(evs, e)[i] = evs[i]
        /\ Append(evs, e)[Len(evs) + 1] = e
    BY <2>1, AppendProperties
  <2>3. Len(Append(evs, e)) <= QueueCap
    BY <1>7, <2>2, QueueCapAssumption
  <2>4. \A i \in DOMAIN Append(evs, e) : Append(evs, e)[i].request <= t.latest
    <3> TAKE i \in DOMAIN Append(evs, e)
    <3>1. CASE i = Len(evs) + 1
      BY <3>1, <2>2, <1>3, <1>7
    <3>2. CASE i # Len(evs) + 1
      <4>1. i \in DOMAIN evs /\ Append(evs, e)[i] = evs[i]
        BY <3>2, <2>2
      <4>2. QED BY <4>1 DEF Ordered
    <3>3. QED BY <3>1, <3>2
  <2>5. QED BY <1>6, <2>2, <2>3, <2>4 DEF Ordered
<1>8. QED BY <1>2, <1>3, <1>6, <1>7 DEF js2

\* A load goes on, or its end is on the way: what has been sent and what is still
\* to be read make the whole place, each name once.
Served(t, job, evs) ==
  /\ job.place = t.requested
  /\ \/ /\ job.st = "reading" /\ NoneAbout(evs, t.latest)
        /\ Numbered(t.requested, t.pending, job.next)
        /\ NamesOf(t.pending) \cup job.todo = 1..PerPlace /\ NamesOf(t.pending) \cap job.todo = {}
     \/ /\ job.st = "waiting"
        /\ \E e \in Event :
             /\ OneAbout(evs, t.latest, e) /\ e.kind = "Batch" /\ e.rows # <<>>
             /\ Joins(t.requested, t.pending, e.rows, job.next)
             /\ NamesOf(t.pending) \cup NamesOf(e.rows) \cup job.todo = 1..PerPlace
             /\ (NamesOf(t.pending) \cup NamesOf(e.rows)) \cap job.todo = {}
     \/ /\ job.st = "done"
        /\ \E next \in Nat : Numbered(t.requested, t.pending, next)
        /\ \E e \in Event :
             /\ OneAbout(evs, t.latest, e)
             /\ \/ e.kind = "Failed"
                \/ e.kind \in {"Finished", "Incomplete"} /\ NamesOf(t.pending) = 1..PerPlace

InService == Loading(tab) => Served(tab, jobs[tab.latest], events)

\* The inductive invariant.
IInv ==
  /\ Sound(tab) /\ picked \in Picks /\ InPicks(tab, picked, searches)
  /\ Ordered(tab, jobs, events, searches)
  /\ InService

\* What a step may do to the place shown and to the rows.
LeavesWell ==
  (tab'.current # tab.current
     /\ ~(tab.load \in Busy /\ tab.kind \in {"Refresh", "BackgroundRefresh"}))
  => Keeps(tab, tab')

\* ... and what a step that ends a load commits.
CommitsNow ==
  (tab.load \in Busy /\ tab'.load = "Complete" /\ tab'.page = "Directory" /\ tab'.current # Home)
  => /\ tab'.current = tab.requested
     /\ [i \in DOMAIN tab'.entries |-> tab'.entries[i].file]
          = [i \in 1..PerPlace |-> <<tab'.current, i>>]
     /\ tab'.indices = IndicesOf(tab'.entries)

StepsWell == IInv' /\ LeavesWell /\ CommitsNow

LEMMA Basics ==
  ASSUME IInv
  PROVE  /\ tab \in Tab /\ tab.latest \in Nat /\ tab.current \in Place /\ tab.requested \in Requested
         /\ tab.page \in Pages /\ tab.back \in Places /\ tab.forward \in Places
         /\ tab.pending \in Rows /\ tab.entries \in Rows
         /\ events \in Seq(Event) /\ jobs \in [Request -> Job]
         /\ Loading(tab) => tab.latest \in Request /\ tab.requested \in Listable /\ tab.page = "Directory"
<1>1. tab \in Tab
  BY DEF IInv, Sound
<1>2. tab.latest \in Nat
  BY <1>1 DEF Tab
<1>3. Loading(tab) => tab.latest # 0 /\ tab.requested \in Listable /\ tab.page = "Directory"
  BY DEF IInv, Sound, InRequest
<1>4. tab.latest <= MaxRequests
  BY DEF IInv, Ordered
<1>5. QED BY <1>1, <1>2, <1>3, <1>4, MaxRequestsAssumption DEF Tab, IInv, Ordered, Request

\* A step that leaves nothing loading.
LEMMA QuietStep ==
  ASSUME IInv, Sound(tab'), InPicks(tab', picked', searches'), picked' \in Picks,
         Ordered(tab', jobs', events', searches'), ~Loading(tab'),
         tab'.load # "Complete" \/ ~Loading(tab) \/ tab'.current = Home,
         tab'.current = tab.current \/ Keeps(tab, tab')
  PROVE  StepsWell
<1>1. IInv'
  BY DEF IInv, InService
<1>2. LeavesWell
  BY DEF LeavesWell
<1>3. CommitsNow
  BY DEF CommitsNow, Loading
<1>4. QED BY <1>1, <1>2, <1>3 DEF StepsWell

\* A request that is no search.
LEMMA NextTask ==
  ASSUME NEW t \in Tab, NEW t2 \in Tab, NEW js, NEW evs, NEW asked, Ordered(t, js, evs, asked),
         t.latest < MaxRequests, t2.latest = t.latest + 1,
         NEW job \in Job, AtWork(job) => job.place \in Listable
  PROVE  /\ Ordered(t2, [js EXCEPT ![t2.latest] = job], evs, asked)
         /\ NoneAbout(evs, t2.latest) /\ [js EXCEPT ![t2.latest] = job][t2.latest] = job
<1>1. asked \subseteq asked \cup {t2.latest}
  OBVIOUS
<1>2. QED BY <1>1, NextRequest

\* A request no worker is given.
LEMMA NextOver ==
  ASSUME NEW t \in Tab, NEW t2 \in Tab, NEW js, NEW evs, NEW asked, Ordered(t, js, evs, asked),
         t.latest < MaxRequests, t2.latest = t.latest + 1
  PROVE  Ordered(t2, [js EXCEPT ![t2.latest] = Over(NoPlace)], evs, asked)
<1> DEFINE job == Over(NoPlace)
<1>1. job \in Job /\ ~AtWork(job)
  BY JobsAre, SomeTypes
<1> HIDE DEF job
<1>2. Ordered(t2, [js EXCEPT ![t2.latest] = job], evs, asked)
  BY <1>1, NextTask
<1>3. QED BY <1>2 DEF job

LEMMA AtRestIs ==
  ASSUME NEW t, AtRest(t)
  PROVE  ~Loading(t)
BY DEF AtRest

-----------------------------------------------------------------------------
(* The window's requests.                                                   *)

KindFits(p, kind) ==
  \/ kind \in {"Normal", "Refresh", "BackgroundRefresh"}
  \/ kind = "Back" /\ p \in ToSet(tab.back)
  \/ kind = "Forward" /\ p \in ToSet(tab.forward)

LEMMA SubmitStep ==
  ASSUME IInv, NEW p \in Listable, NEW kind \in Kinds, KindFits(p, kind), Submit(p, kind)
  PROVE  StepsWell
<1> DEFINE b == BeginNavigation(tab, p, kind)
<1>1. /\ tab \in Tab /\ Sound(tab) /\ InPicks(tab, picked, searches) /\ picked \in Picks
      /\ Ordered(tab, jobs, events, searches) /\ tab.latest < MaxRequests /\ tab.latest \in Nat
  BY Basics DEF IInv, Submit, MayAsk
<1>2. Sound(b) /\ InPicks(b, picked, searches) /\ Begins(tab, b, p, kind)
  BY <1>1, BeginNavigationSound DEF KindFits
<1>3. /\ UNCHANGED <<events, searches, picked>>
      /\ \/ tab' = b /\ jobs' = [jobs EXCEPT ![b.latest] = NewJob(p)]
         \/ /\ tab' = FailDirectoryNavigation(b, b.latest)
            /\ jobs' = [jobs EXCEPT ![b.latest] = Over(NoPlace)]
  BY DEF Submit
<1> HIDE DEF b
<1>4. /\ b \in Tab /\ b.latest = tab.latest + 1 /\ b.load = "Loading" /\ b.current = tab.current
      /\ b.requested = p /\ b.pending = <<>> /\ Loading(b)
  BY <1>2, NotBusy DEF Begins, Loading
<1>5. CASE tab' = b /\ jobs' = [jobs EXCEPT ![b.latest] = NewJob(p)]
  <2>1. NewJob(p) \in Job /\ NewJob(p).place = p
    BY JobsAre
  <2>2. /\ Ordered(b, jobs', events, searches) /\ NoneAbout(events, b.latest)
        /\ jobs'[b.latest] = NewJob(p)
    <3> DEFINE job == NewJob(p)
               js == [jobs EXCEPT ![b.latest] = job]
    <3>1. job \in Job /\ (AtWork(job) => job.place \in Listable)
      BY <2>1
    <3> HIDE DEF job
    <3>2. Ordered(b, js, events, searches) /\ NoneAbout(events, b.latest) /\ js[b.latest] = job
      BY <1>1, <1>4, <3>1, NextTask
    <3>3. jobs' = js
      BY <1>5 DEF job
    <3> HIDE DEF js
    <3>4. QED BY <3>2, <3>3 DEF job
  <2>3. Served(b, NewJob(p), events)
    <3>1. Numbered(p, <<>>, 1) /\ NamesOf(<<>>) = {}
      BY NothingChosen DEF Numbered, NamesOf, Ascending
    <3>2. /\ NewJob(p).st = "reading" /\ NewJob(p).place = p
          /\ NewJob(p).todo = 1..PerPlace /\ NewJob(p).next = 1
      BY JobsAre
    <3>3. QED BY <1>4, <2>2, <3>1, <3>2 DEF Served
  <2>4. IInv'
    BY <1>1, <1>2, <1>3, <1>5, <2>2, <2>3 DEF IInv, InService
  <2>5. LeavesWell /\ CommitsNow
    BY <1>4, <1>5 DEF LeavesWell, CommitsNow
  <2>6. QED BY <2>4, <2>5 DEF StepsWell
<1>6. CASE /\ tab' = FailDirectoryNavigation(b, b.latest)
           /\ jobs' = [jobs EXCEPT ![b.latest] = Over(NoPlace)]
  <2>1. AcceptsDirectory(b, b.latest)
    BY <1>2, <1>4, AcceptsWhenLoading
  <2>2. /\ Sound(tab') /\ InPicks(tab', picked, searches) /\ AtRest(tab')
        /\ tab'.load = "Failed" /\ tab'.latest = b.latest /\ tab'.current = b.current
    BY <1>2, <1>6, <2>1, FailSound
  <2>3. tab' \in Tab /\ tab'.latest = tab.latest + 1
    BY <1>4, <2>2 DEF Sound
  <2>4. Ordered(tab', jobs', events, searches)
    <3>1. jobs' = [jobs EXCEPT ![tab'.latest] = Over(NoPlace)]
      BY <1>6, <2>2
    <3>2. Ordered(tab', [jobs EXCEPT ![tab'.latest] = Over(NoPlace)], events, searches)
      BY <1>1, <2>3, NextOver
    <3>3. QED BY <3>1, <3>2
  <2>5. ~Loading(tab')
    BY <2>2, AtRestIs
  <2>6. QED BY <1>1, <1>3, <1>4, <2>2, <2>4, <2>5, QuietStep
<1>7. QED BY <1>3, <1>5, <1>6

LEMMA GoHomeStep ==
  ASSUME IInv, NEW kind \in Kinds, GoHome(kind),
         \/ kind = "Normal"
         \/ kind = "Back" /\ Home \in ToSet(tab.back)
         \/ kind = "Forward" /\ Home \in ToSet(tab.forward)
         \/ tab.current = Home
  PROVE  StepsWell
<1>1. /\ tab \in Tab /\ Sound(tab) /\ InPicks(tab, picked, searches) /\ picked \in Picks
      /\ Ordered(tab, jobs, events, searches) /\ tab.latest < MaxRequests /\ tab.latest \in Nat
  BY Basics DEF IInv, GoHome, MayAsk
<1>2. /\ tab' = NavigateHome(tab, kind) /\ jobs' = [jobs EXCEPT ![tab'.latest] = Over(NoPlace)]
      /\ UNCHANGED <<events, searches, picked>>
  BY DEF GoHome
<1>3. /\ Sound(tab') /\ InPicks(tab', picked, searches) /\ AtRest(tab') /\ ShowsHome(tab, tab')
  BY <1>1, <1>2, NavigateHomeSound
<1>4. tab'.current = Home /\ tab'.latest = tab.latest + 1 /\ tab' \in Tab
  BY <1>3 DEF ShowsHome
<1>5. Ordered(tab', [jobs EXCEPT ![tab'.latest] = Over(NoPlace)], events, searches)
  BY <1>1, <1>4, NextOver
<1>6. Ordered(tab', jobs', events, searches)
  BY <1>2, <1>5
<1>7. tab'.current = tab.current \/ Keeps(tab, tab')
  BY <1>1, <1>2, <1>4, NavigateHomeGives
<1>8. QED BY <1>1, <1>2, <1>3, <1>4, <1>6, <1>7, AtRestIs, QuietStep

\* The address edit ends, with the request under way or with the search.
LEMMA AddressEditStep ==
  ASSUME IInv, tab.page = "Search" => tab.latest < MaxRequests, tab' = CancelAddressEdit(tab),
         jobs' = IF tab'.latest = tab.latest THEN jobs
                 ELSE [jobs EXCEPT ![tab'.latest] = Over(NoPlace)],
         UNCHANGED <<events, searches, picked>>
  PROVE  StepsWell
<1>1. /\ tab \in Tab /\ Sound(tab) /\ InPicks(tab, picked, searches) /\ picked \in Picks
      /\ Ordered(tab, jobs, events, searches) /\ tab.latest \in Nat
  BY Basics DEF IInv
<1>2. /\ Sound(tab') /\ InPicks(tab', picked, searches) /\ AtRest(tab')
      /\ tab'.current = tab.current
      /\ tab'.latest = IF tab.page = "Search" THEN tab.latest + 1 ELSE tab.latest
      /\ tab'.load # "Complete" \/ ~Loading(tab)
  BY <1>1, CancelAddressEditSound
<1>3. tab' \in Tab
  BY <1>2 DEF Sound
<1>4. Ordered(tab', jobs', events, searches)
  <2>1. CASE tab.page = "Search"
    <3>1. tab'.latest = tab.latest + 1 /\ tab'.latest # tab.latest
      BY <1>1, <1>2, <2>1
    <3>2. jobs' = [jobs EXCEPT ![tab'.latest] = Over(NoPlace)]
      BY <3>1
    <3>3. Ordered(tab', [jobs EXCEPT ![tab'.latest] = Over(NoPlace)], events, searches)
      BY <1>1, <1>3, <2>1, <3>1, NextOver
    <3>4. QED BY <3>2, <3>3
  <2>2. CASE tab.page # "Search"
    <3>1. tab'.latest = tab.latest /\ jobs' = jobs
      BY <1>2, <2>2
    <3>2. QED BY <1>1, <3>1 DEF Ordered
  <2>3. QED BY <2>1, <2>2
<1>5. QED BY <1>1, <1>2, <1>4, AtRestIs, QuietStep

LEMMA SubmitLocationStep ==
  ASSUME IInv, NEW p \in Place, NEW kind \in Kinds, KindFits(p, kind),
         kind \in {"Refresh", "BackgroundRefresh"} => p # Home \/ tab.current = Home,
         SubmitLocation(p, kind)
  PROVE  StepsWell
<1>1. CASE p = Home
  <2>1. GoHome(kind)
    BY <1>1 DEF SubmitLocation
  <2>2. QED BY <1>1, <2>1, GoHomeStep DEF KindFits
<1>2. CASE p # Home /\ kind = "Normal" /\ p \notin WebDav /\ VisibleLocation(tab) = p
  BY <1>2, AddressEditStep DEF SubmitLocation
<1>3. CASE p # Home /\ ~(kind = "Normal" /\ p \notin WebDav /\ VisibleLocation(tab) = p)
  <2>1. p \in Listable /\ Submit(p, kind)
    BY <1>3 DEF SubmitLocation, Place
  <2>2. QED BY <2>1, SubmitStep
<1>4. QED BY <1>1, <1>2, <1>3

LEMMA OpenStep ==
  ASSUME IInv, NEW p \in Place, Open(p)
  PROVE  StepsWell
<1>1. "Normal" \in Kinds /\ KindFits(p, "Normal")
  BY SomeTypes DEF KindFits
<1>2. QED BY <1>1, SubmitLocationStep DEF Open

LEMMA OpenAddressStep ==
  ASSUME IInv, NEW p \in Place, OpenAddress(p)
  PROVE  StepsWell
<1>1. p \in Listable /\ p # Home
  BY PlacesAssumption DEF OpenAddress, Listable
<1>2. /\ "Normal" \in Kinds /\ KindFits(p, "Normal")
      /\ "Refresh" \in Kinds /\ KindFits(p, "Refresh")
  BY SomeTypes DEF KindFits
<1>3. CASE SubmitLocation(p, "Normal") \/ SubmitLocation(p, "Refresh")
  BY <1>1, <1>2, <1>3, SubmitLocationStep
<1>4. CASE /\ tab.page = "Search" /\ MayAsk
           /\ tab' = CancelAddressEdit(tab)
           /\ jobs' = [jobs EXCEPT ![tab'.latest] = Over(NoPlace)]
           /\ UNCHANGED <<events, searches, picked>>
  <2>1. tab.latest \in Nat /\ Sound(tab) /\ InPicks(tab, picked, searches)
    BY Basics DEF IInv
  <2>2. tab'.latest = tab.latest + 1
    BY <1>4, <2>1, CancelAddressEditSound
  <2>3. tab'.latest # tab.latest
    BY <2>1, <2>2
  <2>4. QED BY <1>4, <2>3, AddressEditStep DEF MayAsk
<1>5. QED BY <1>3, <1>4 DEF OpenAddress

LEMMA RefreshStep ==
  ASSUME IInv, Refresh
  PROVE  StepsWell
<1> DEFINE p == IF tab.requested # NoPlace THEN tab.requested ELSE tab.current
<1>1. p \in Place /\ (p # Home \/ tab.current = Home)
  BY Basics, PlacesAssumption DEF Requested, Place
<1>2. "Refresh" \in Kinds /\ KindFits(p, "Refresh")
  BY SomeTypes DEF KindFits
<1>3. SubmitLocation(p, "Refresh")
  BY DEF Refresh
<1> HIDE DEF p
<1>4. QED BY <1>1, <1>2, <1>3, SubmitLocationStep

LEMMA RefreshAffectedStep ==
  ASSUME IInv, RefreshAffected
  PROVE  StepsWell
<1> DEFINE p == VisibleLocation(tab)
<1>1. p \in Place /\ p # Home
  BY PlacesAssumption DEF RefreshAffected, Listable, Place
<1>2. "BackgroundRefresh" \in Kinds /\ KindFits(p, "BackgroundRefresh")
  BY SomeTypes DEF KindFits
<1>3. SubmitLocation(p, "BackgroundRefresh")
  BY DEF RefreshAffected
<1> HIDE DEF p
<1>4. QED BY <1>1, <1>2, <1>3, SubmitLocationStep

LEMMA InStack ==
  ASSUME NEW s \in Places
  PROVE  /\ s # <<>> => Last(s) \in ToSet(s)
         /\ \A i \in DOMAIN s : s[i] \in ToSet(s)
         /\ ToSet(s) \subseteq Place
<1>1. Len(s) \in Nat /\ DOMAIN s = 1..Len(s) /\ (s # <<>> => Len(s) # 0) /\ \A i \in DOMAIN s : s[i] \in Place
  BY DEF Places
<1>2. QED BY <1>1 DEF ToSet, Last

LEMMA BackStep ==
  ASSUME IInv, Back
  PROVE  StepsWell
<1>1. CASE CanRestore(tab)
  <2>1. tab' = RestoreSuccessfulLocation(tab) /\ UNCHANGED <<jobs, events, searches, picked>>
    BY <1>1 DEF Back
  <2>2. /\ Sound(tab') /\ InPicks(tab', picked, searches) /\ AtRest(tab')
        /\ tab'.latest = tab.latest /\ tab'.current = tab.current
    BY <1>1, <2>1, RestoreSound DEF IInv
  <2>3. ~Loading(tab)
    BY <1>1, NotBusy DEF CanRestore, HasFailedLocation, Loading
  <2>4. Ordered(tab', jobs, events, searches)
    BY <2>2 DEF IInv, Ordered
  <2>5. picked \in Picks
    BY DEF IInv
  <2>6. QED BY <2>1, <2>2, <2>3, <2>4, <2>5, AtRestIs, QuietStep
<1>2. CASE ~CanRestore(tab)
  <2>1. tab.back # <<>> /\ SubmitLocation(Last(tab.back), "Back")
    BY <1>2 DEF Back
  <2>2. Last(tab.back) \in ToSet(tab.back) /\ Last(tab.back) \in Place
    BY <2>1, Basics, InStack
  <2>3. "Back" \in Kinds /\ KindFits(Last(tab.back), "Back")
    BY <2>2, SomeTypes DEF KindFits
  <2>4. QED BY <2>1, <2>2, <2>3, SubmitLocationStep
<1>3. QED BY <1>1, <1>2

LEMMA ForwardStep ==
  ASSUME IInv, Forward
  PROVE  StepsWell
<1>1. tab.forward # <<>> /\ SubmitLocation(Last(tab.forward), "Forward")
  BY DEF Forward
<1>2. Last(tab.forward) \in ToSet(tab.forward) /\ Last(tab.forward) \in Place
  BY <1>1, Basics, InStack
<1>3. "Forward" \in Kinds /\ KindFits(Last(tab.forward), "Forward")
  BY <1>2, SomeTypes DEF KindFits
<1>4. QED BY <1>1, <1>2, <1>3, SubmitLocationStep

LEMMA JumpStep ==
  ASSUME IInv, Jump
  PROVE  StepsWell
<1>1. ASSUME NEW i \in DOMAIN tab.back, SubmitLocation(tab.back[i], "Back") PROVE StepsWell
  <2>1. tab.back[i] \in ToSet(tab.back) /\ tab.back[i] \in Place
    BY Basics, InStack
  <2>2. "Back" \in Kinds /\ KindFits(tab.back[i], "Back")
    BY <2>1, SomeTypes DEF KindFits
  <2>3. QED BY <1>1, <2>1, <2>2, SubmitLocationStep
<1>2. ASSUME NEW i \in DOMAIN tab.forward, SubmitLocation(tab.forward[i], "Forward") PROVE StepsWell
  <2>1. tab.forward[i] \in ToSet(tab.forward) /\ tab.forward[i] \in Place
    BY Basics, InStack
  <2>2. "Forward" \in Kinds /\ KindFits(tab.forward[i], "Forward")
    BY <2>1, SomeTypes DEF KindFits
  <2>3. QED BY <1>2, <2>1, <2>2, SubmitLocationStep
<1>3. QED BY <1>1, <1>2 DEF Jump

LEMMA DismissSearchStep ==
  ASSUME IInv, DismissSearch
  PROVE  StepsWell
BY AddressEditStep DEF DismissSearch, MayAsk

LEMMA SearchStep ==
  ASSUME IInv, Search
  PROVE  StepsWell
<1>1. /\ tab \in Tab /\ Sound(tab) /\ InPicks(tab, picked, searches) /\ picked \in Picks
      /\ Ordered(tab, jobs, events, searches) /\ tab.latest < MaxRequests /\ tab.latest \in Nat
  BY Basics DEF IInv, Search, MayAsk
<1> DEFINE dir == IF tab.page = "Directory" THEN Picked ELSE picked["Directory"]
<1>2. /\ tab' = BeginSearch(tab) /\ jobs' = [jobs EXCEPT ![tab'.latest] = Over(NoPlace)]
      /\ searches' = searches \cup {tab'.latest} /\ events' = events
      /\ picked' = [picked EXCEPT !["Directory"] = IF tab.page = "Directory" THEN Picked ELSE @,
                                  !["Search"] = {}]
  BY DEF Search
<1>3. picked' \in Picks /\ picked'["Directory"] = dir
  <2>1. "Directory" \in Pages /\ "Search" \in Pages /\ "Directory" # "Search"
    BY SomeTypes
  <2>2. dir \in SUBSET (Place \X (1..PerPlace))
    BY <1>1, <2>1 DEF Picks, Picked
  <2>3. picked' = [picked EXCEPT !["Directory"] = dir, !["Search"] = {}]
    BY <1>1, <1>2, <2>1 DEF Picks
  <2> HIDE DEF dir
  <2>4. QED BY <1>1, <2>1, <2>2, <2>3 DEF Picks
<1>4. dir = IF tab.page = "Directory" THEN AllOf(picked) ELSE picked["Directory"]
  BY DEF Picked, AllOf
<1> HIDE DEF dir
<1>5. /\ Sound(tab') /\ InPicks(tab', picked', searches') /\ AtRest(tab') /\ tab'.page = "Search"
      /\ tab'.latest = tab.latest + 1 /\ tab'.current = tab.current
  BY <1>1, <1>2, <1>3, <1>4, BeginSearchSound
<1>6. Over(NoPlace) \in Job /\ ~AtWork(Over(NoPlace)) /\ tab' \in Tab
  BY <1>5, JobsAre, SomeTypes DEF Sound
<1>7. Ordered(tab', jobs', events', searches')
  BY <1>1, <1>2, <1>5, <1>6, NextRequest
<1>8. CommitsNow
  BY <1>5 DEF CommitsNow
<1>9. IInv' /\ LeavesWell
  BY <1>3, <1>5, <1>7, AtRestIs DEF IInv, InService, LeavesWell
<1>10. QED BY <1>8, <1>9 DEF StepsWell

-----------------------------------------------------------------------------
(* The selection.                                                           *)

\* A step that changes only what is selected.
LEMMA SelectionStep ==
  ASSUME IInv, Sound(tab'), InPicks(tab', picked', searches'), picked' \in Picks,
         SameView(tab, tab'), UNCHANGED <<jobs, events, searches>>
  PROVE  StepsWell
<1>1. Ordered(tab', jobs', events', searches')
  BY DEF IInv, Ordered, SameView
<1>2. InService'
  BY DEF IInv, InService, Loading, SameView, Served
<1>3. LeavesWell /\ CommitsNow
  BY NotBusy DEF LeavesWell, CommitsNow, SameView
<1>4. QED BY <1>1, <1>2, <1>3 DEF StepsWell, IInv

LEMMA PendingApart ==
  ASSUME IInv, Loading(tab)
  PROVE  Apart(tab.pending)
BY DEF IInv, InService, Served, Joins, Numbered

LEMMA SelectStep ==
  ASSUME IInv, NEW i, NEW toggle \in BOOLEAN, Select(i, toggle)
  PROVE  StepsWell
<1> DEFINE row == Shown(tab)[i]
           picks2 == [picked EXCEPT ![tab.page] = PickedOn(tab, row, toggle, @)]
<1>1. /\ i \in DOMAIN Shown(tab) /\ tab' = SelectEntry(tab, row.id, toggle)
      /\ UNCHANGED <<jobs, events, searches>>
      /\ picked' = [picked EXCEPT ![tab.page] =
                      IF ~toggle THEN {row.file}
                      ELSE IF row.id \in tab.selected THEN @ \ {row.file}
                      ELSE @ \cup {row.file}]
  BY DEF Select
<1>2. picked' = picks2
  BY <1>1 DEF PickedOn
<1>3. Sound(tab) /\ picked \in Picks /\ InPicks(tab, picked, searches)
  BY DEF IInv
<1>4. Loading(tab) => Apart(tab.pending)
  BY PendingApart
<1>5. Sound(tab') /\ InPicks(tab', picks2, searches) /\ SameView(tab, tab') /\ picks2 \in Picks
  BY <1>1, <1>3, <1>4, SelectEntrySound
<1> HIDE DEF picks2
<1>6. QED BY <1>1, <1>2, <1>5, SelectionStep

LEMMA SelectEverythingStep ==
  ASSUME IInv, SelectEverything
  PROVE  StepsWell
<1> DEFINE files == FilesOf(tab.entries) \cup FilesOf(Shown(tab)) \cup FileOfPlace(VisibleLocation(tab))
<1>1. /\ tab' = SelectAll(tab) /\ UNCHANGED <<jobs, events, searches>>
      /\ picked' = [picked EXCEPT ![tab.page] = files]
  BY DEF SelectEverything
<1>2. /\ Sound(tab) /\ picked \in Picks /\ InPicks(tab, picked, searches)
      /\ tab.entries \in Rows /\ tab.pending \in Rows /\ tab.page \in Pages
  BY Basics DEF IInv
<1>3. ASSUME NEW rows \in Rows PROVE FilesOf(rows) \subseteq Place \X (1..PerPlace)
  BY RowsAre DEF FilesOf, Files, Place
<1>4. Shown(tab) \in Rows
  BY <1>2, SomeTypes DEF Shown
<1>5. VisibleLocation(tab) \in Place
  BY Basics DEF VisibleLocation, Requested, Place
<1>6. files \in SUBSET (Place \X (1..PerPlace))
  BY <1>2, <1>3, <1>4, <1>5 DEF FileOfPlace
<1>7. picked' \in Picks
  <2> HIDE DEF files
  <2>1. QED BY <1>1, <1>2, <1>6 DEF Picks
<1>8. Sound(tab') /\ InPicks(tab', picked', searches) /\ SameView(tab, tab')
  BY <1>1, <1>2, <1>7, SelectAllSound
<1> HIDE DEF files
<1>9. QED BY <1>1, <1>7, <1>8, SelectionStep

-----------------------------------------------------------------------------
(* The workers.                                                             *)

\* A step of a worker: its job moves on, and may say so.
LEMMA WorkStep ==
  ASSUME IInv, NEW r \in Request, jobs[r].st # "none", NEW job \in Job,
         AtWork(job) => job.place \in Listable,
         jobs' = [jobs EXCEPT ![r] = job], UNCHANGED <<tab, searches, picked>>,
         \/ events' = events
         \/ \E e \in Event : e.request = r /\ Room /\ events' = Append(events, e),
         Loading(tab) /\ r = tab.latest => Served(tab, job, events')
  PROVE  StepsWell
<1>1. /\ tab \in Tab /\ Ordered(tab, jobs, events, searches) /\ events \in Seq(Event)
      /\ Loading(tab) => tab.latest \in Request
  BY Basics DEF IInv
<1>2. Ordered(tab', jobs', events', searches')
  <2>1. CASE events' = events
    BY <1>1, <2>1, WorkerStep
  <2>2. ASSUME NEW e \in Event, e.request = r, Room, events' = Append(events, e)
        PROVE  Ordered(tab', jobs', events', searches')
    BY <1>1, <2>2, WorkerStep DEF Room
  <2>3. QED BY <2>1, <2>2
<1>3. InService'
  <2> SUFFICES ASSUME Loading(tab) PROVE Served(tab, jobs'[tab.latest], events')
    BY DEF InService
  <2>1. CASE r = tab.latest
    <3>1. jobs'[tab.latest] = job
      BY <1>1, <2>1, WorkerStep
    <3>2. QED BY <2>1, <3>1
  <2>2. CASE r # tab.latest
    <3>1. jobs'[tab.latest] = jobs[tab.latest]
      BY <1>1, <2>2, WorkerStep
    <3>2. Served(tab, jobs[tab.latest], events)
      BY DEF IInv, InService
    <3>3. /\ NoneAbout(events, tab.latest) => NoneAbout(events', tab.latest)
          /\ \A d : OneAbout(events, tab.latest, d) => OneAbout(events', tab.latest, d)
      <4>1. CASE events' = events
        BY <4>1
      <4>2. ASSUME NEW e \in Event, e.request = r, events' = Append(events, e)
            PROVE  /\ NoneAbout(events, tab.latest) => NoneAbout(events', tab.latest)
                   /\ \A d : OneAbout(events, tab.latest, d) => OneAbout(events', tab.latest, d)
        BY <1>1, <2>2, <4>2, AppendAbout
      <4>3. QED BY <4>1, <4>2
    <3>4. QED BY <3>1, <3>2, <3>3 DEF Served
  <2>3. QED BY <2>1, <2>2
<1>4. IInv'
  BY <1>2, <1>3 DEF IInv
<1>5. LeavesWell /\ CommitsNow
  BY NotBusy DEF LeavesWell, CommitsNow
<1>6. QED BY <1>4, <1>5 DEF StepsWell

LEMMA JobFields ==
  ASSUME IInv, NEW r \in Request
  PROVE  /\ jobs[r] \in Job /\ jobs[r].place \in Requested /\ jobs[r].todo \in SUBSET (1..PerPlace)
         /\ jobs[r].next \in Nat
         /\ AtWork(jobs[r]) => jobs[r].place \in Listable
<1>1. jobs[r] \in Job
  BY Basics
<1>2. QED BY <1>1 DEF Job, IInv, Ordered

\* The load under way is told that its listing is over.
LEMMA EndIsServed ==
  ASSUME IInv, NEW r \in Request, Loading(tab), r = tab.latest, jobs[r].st = "reading",
         NEW kind \in {"Finished", "Incomplete", "Failed"}, kind # "Failed" => jobs[r].todo = {},
         NEW e \in Event, e.kind = kind, e.request = r
  PROVE  Served(tab, Over(jobs[r].place), Append(events, e))
<1>1. Served(tab, jobs[r], events) /\ events \in Seq(Event)
  BY Basics DEF IInv, InService
<1>2. /\ jobs[r].place = tab.requested /\ NoneAbout(events, tab.latest)
      /\ Numbered(tab.requested, tab.pending, jobs[r].next) /\ jobs[r].next \in Nat
      /\ NamesOf(tab.pending) \cup jobs[r].todo = 1..PerPlace
  BY <1>1, JobFields DEF Served
<1>3. OneAbout(Append(events, e), tab.latest, e)
  BY <1>1, <1>2, AppendAbout
<1>4. Over(jobs[r].place).st = "done" /\ Over(jobs[r].place).place = tab.requested
  BY <1>2, JobsAre
<1>5. kind # "Failed" => NamesOf(tab.pending) = 1..PerPlace
  BY <1>2
<1>6. QED BY <1>2, <1>3, <1>4, <1>5 DEF Served

LEMMA EventIs ==
  ASSUME NEW kind \in Ends, NEW r \in Request, NEW rows \in Rows
  PROVE  LET e == [kind |-> kind, request |-> r, rows |-> rows] IN
         e \in Event /\ e.kind = kind /\ e.request = r /\ e.rows = rows
BY DEF Event

LEMMA FinishStep ==
  ASSUME IInv, NEW r \in Request, Finish(r)
  PROVE  StepsWell
<1>1. PICK kind \in {"Finished", "Incomplete"} : Send(kind, r, <<>>)
  BY DEF Finish
<1>2. /\ jobs[r].st = "reading" /\ jobs[r].todo = {} /\ Room /\ UNCHANGED <<tab, searches, picked>>
      /\ jobs' = [jobs EXCEPT ![r] = Over(jobs[r].place)]
  BY DEF Finish
<1> DEFINE e == [kind |-> kind, request |-> r, rows |-> <<>>]
           job == Over(jobs[r].place)
<1>3. e \in Event /\ e.kind = kind /\ e.request = r /\ events' = Append(events, e)
  BY <1>1, EventIs, SomeTypes DEF Send, Ends
<1>4. job \in Job /\ ~AtWork(job)
  BY JobFields, JobsAre
<1> HIDE DEF e
<1>5. Loading(tab) /\ r = tab.latest => Served(tab, job, events')
  BY <1>2, <1>3, EndIsServed
<1> HIDE DEF job
<1>6. jobs' = [jobs EXCEPT ![r] = job] /\ jobs[r].st # "none"
  BY <1>2 DEF job
<1>7. QED BY <1>2, <1>3, <1>4, <1>5, <1>6, WorkStep

LEMMA FailStep ==
  ASSUME IInv, NEW r \in Request, Fail(r)
  PROVE  StepsWell
<1>1. /\ jobs[r].st = "reading" /\ Send("Failed", r, <<>>) /\ Room /\ UNCHANGED <<tab, searches, picked>>
      /\ jobs' = [jobs EXCEPT ![r] = Over(jobs[r].place)]
  BY DEF Fail
<1> DEFINE e == [kind |-> "Failed", request |-> r, rows |-> <<>>]
           job == Over(jobs[r].place)
<1>3. e \in Event /\ e.kind = "Failed" /\ e.request = r /\ events' = Append(events, e)
  BY <1>1, EventIs, SomeTypes DEF Send, Ends
<1>4. job \in Job /\ ~AtWork(job)
  BY JobFields, JobsAre
<1> HIDE DEF e
<1>5. Loading(tab) /\ r = tab.latest => Served(tab, job, events')
  BY <1>1, <1>3, EndIsServed
<1> HIDE DEF job
<1>6. jobs' = [jobs EXCEPT ![r] = job] /\ jobs[r].st # "none"
  BY <1>1 DEF job
<1>7. QED BY <1>1, <1>3, <1>4, <1>5, <1>6, WorkStep

LEMMA StopStep ==
  ASSUME IInv, NEW r \in Request, Stop(r)
  PROVE  StepsWell
<1> DEFINE e == [kind |-> "Cancelled", request |-> r, rows |-> <<>>]
           job == Over(jobs[r].place)
<1>1. /\ jobs[r].st # "none" /\ Fired(r) /\ UNCHANGED <<tab, searches, picked>>
      /\ jobs' = [jobs EXCEPT ![r] = job]
      /\ (Room /\ events' = Append(events, e)) \/ events' = events
  BY DEF Stop, Send
<1>2. e \in Event /\ e.request = r
  BY EventIs, SomeTypes DEF Ends
<1>3. job \in Job /\ ~AtWork(job)
  BY JobFields, JobsAre
<1>4. ~(Loading(tab) /\ r = tab.latest)
  BY <1>1 DEF IInv, Sound, InRequest, Fired
<1> HIDE DEF e, job
<1>5. QED BY <1>1, <1>2, <1>3, <1>4, WorkStep

LEMMA ReadStep ==
  ASSUME IInv, NEW r \in Request, Read(r)
  PROVE  StepsWell
<1>1. jobs[r].st = "reading" /\ Room /\ UNCHANGED <<tab, searches, picked>>
  BY DEF Read
<1>2. PICK names \in (SUBSET jobs[r].todo) \ {{}} :
        /\ Send("Batch", r, RowsOf(jobs[r].place, names, jobs[r].next))
        /\ jobs' = [jobs EXCEPT ![r].todo = @ \ names, ![r].next = @ + Cardinality(names),
                                ![r].st = "waiting"]
  BY DEF Read
<1>3. /\ jobs[r] \in Job /\ jobs[r].place \in Listable /\ jobs[r].todo \in SUBSET (1..PerPlace)
      /\ jobs[r].next \in Nat /\ names \in SUBSET (1..PerPlace) /\ names # {}
      /\ names \subseteq jobs[r].todo /\ jobs \in [Request -> Job] /\ events \in Seq(Event)
  <2>1. AtWork(jobs[r])
    BY <1>1 DEF AtWork
  <2>2. /\ jobs[r] \in Job /\ jobs[r].place \in Listable /\ jobs[r].todo \in SUBSET (1..PerPlace)
        /\ jobs[r].next \in Nat
    BY <2>1, JobFields
  <2>3. jobs \in [Request -> Job] /\ events \in Seq(Event)
    BY Basics
  <2>4. names \subseteq jobs[r].todo /\ names # {}
    OBVIOUS
  <2>5. QED BY <2>2, <2>3, <2>4
<1> DEFINE rows == RowsOf(jobs[r].place, names, jobs[r].next)
           n == Cardinality(names)
           e == [kind |-> "Batch", request |-> r, rows |-> rows]
           job == [jobs[r] EXCEPT !.todo = @ \ names, !.next = @ + n, !.st = "waiting"]
<1>4. /\ n \in Nat /\ rows \in Rows /\ Numbered(jobs[r].place, rows, jobs[r].next + n)
      /\ \A i \in DOMAIN rows : jobs[r].next <= rows[i].id
      /\ NamesOf(rows) = names
  BY <1>3, RowsOfGives
<1>5. events' = Append(events, e)
  BY <1>2 DEF Send
<1>6. jobs' = [jobs EXCEPT ![r] = job]
  BY <1>2, <1>3
<1> HIDE DEF rows, n
<1>7. e \in Event /\ e.kind = "Batch" /\ e.request = r /\ e.rows = rows
  BY <1>4, EventIs DEF Ends
<1> HIDE DEF e
<1>8. /\ job \in Job /\ job.st = "waiting" /\ job.place = jobs[r].place
      /\ job.todo = jobs[r].todo \ names /\ job.next = jobs[r].next + n
  <2> DEFINE rest == jobs[r].todo \ names
             last == jobs[r].next + n
  <2>1. rest \in SUBSET (1..PerPlace) /\ last \in Nat /\ "waiting" \in States
    BY <1>3, <1>4 DEF States
  <2>2. job = [jobs[r] EXCEPT !.todo = rest, !.next = last, !.st = "waiting"]
    BY <1>3 DEF Job
  <2> HIDE DEF rest, last, job
  <2>3. /\ job \in Job /\ job.st = "waiting" /\ job.place = jobs[r].place
        /\ job.todo = rest /\ job.next = last
    BY <1>3, <2>1, <2>2 DEF Job
  <2>4. QED BY <2>3 DEF rest, last
<1> HIDE DEF job
<1>9. ASSUME Loading(tab), r = tab.latest PROVE Served(tab, job, events')
  <2>1. Served(tab, jobs[r], events) /\ tab.pending \in Rows
    BY <1>9, Basics DEF IInv, InService
  <2>2. /\ jobs[r].place = tab.requested /\ NoneAbout(events, tab.latest)
        /\ Numbered(tab.requested, tab.pending, jobs[r].next)
        /\ NamesOf(tab.pending) \cup jobs[r].todo = 1..PerPlace
        /\ NamesOf(tab.pending) \cap jobs[r].todo = {}
    BY <1>1, <2>1 DEF Served
  <2>3. OneAbout(events', tab.latest, e)
    BY <1>3, <1>5, <1>7, <1>9, <2>2, AppendAbout
  <2>4. rows # <<>>
    BY <1>3, <1>4 DEF NamesOf
  <2>5. Joins(tab.requested, tab.pending, rows, job.next)
    <3>1. Numbered(tab.requested, tab.pending, job.next)
      BY <1>3, <1>4, <1>8, <2>2 DEF Numbered
    <3>2. IdsOf(tab.pending) \cap IdsOf(rows) = {}
      <4> SUFFICES ASSUME NEW i \in DOMAIN tab.pending, NEW j \in DOMAIN rows,
                          tab.pending[i].id = rows[j].id
                   PROVE  FALSE
        BY DEF IdsOf
      <4>1. tab.pending[i].id < jobs[r].next /\ jobs[r].next <= rows[j].id /\ rows[j].id \in Nat
        BY <1>4, <2>2, RowsAre DEF Numbered
      <4>2. QED BY <4>1, <1>3
    <3>3. NamesOf(tab.pending) \cap NamesOf(rows) = {}
      BY <1>3, <1>4, <2>2
    <3>4. QED BY <3>1, <3>2, <3>3, <1>4, <1>8, <2>2 DEF Joins
  <2>6. /\ NamesOf(tab.pending) \cup NamesOf(rows) \cup job.todo = 1..PerPlace
        /\ (NamesOf(tab.pending) \cup NamesOf(rows)) \cap job.todo = {}
    BY <1>3, <1>4, <1>8, <2>2
  <2>7. job.place = tab.requested
    BY <1>8, <2>2
  <2>8. QED BY <1>7, <1>8, <2>3, <2>4, <2>5, <2>6, <2>7 DEF Served
<1>10. AtWork(job) => job.place \in Listable
  BY <1>3, <1>8
<1>11. jobs[r].st # "none"
  BY <1>1
<1>12. QED BY <1>1, <1>5, <1>6, <1>7, <1>8, <1>9, <1>10, <1>11, WorkStep

-----------------------------------------------------------------------------
(* The event pump.                                                          *)

\* What the pump makes of the job of a batch.
Resumed(job, e) == IF e.kind = "Batch" /\ job.st = "waiting" THEN [job EXCEPT !.st = "reading"] ELSE job

LEMMA PumpOrdered ==
  ASSUME IInv, events # <<>>, NEW e, e = Head(events)
  PROVE  /\ Ordered(tab, Acknowledged(e), Tail(events), searches)
         /\ e \in Event /\ e.request \in Request /\ e.kind \in Ends /\ e.rows \in Rows
         /\ Acknowledged(e)[e.request] = Resumed(jobs[e.request], e)
         /\ \A q \in Request : q # e.request => Acknowledged(e)[q] = jobs[q]
<1>1. /\ tab \in Tab /\ Ordered(tab, jobs, events, searches) /\ events \in Seq(Event)
      /\ jobs \in [Request -> Job]
  BY Basics DEF IInv
<1>2. /\ e \in Event /\ Tail(events) \in Seq(Event) /\ Len(Tail(events)) <= Len(events)
      /\ \A i \in DOMAIN Tail(events) : \E j \in DOMAIN events : Tail(events)[i] = events[j]
  BY <1>1, TailAbout
<1>3. e.request \in Request /\ e.kind \in Ends /\ e.rows \in Rows
  BY <1>2 DEF Event
<1> DEFINE r == e.request
           job == [jobs[r] EXCEPT !.st = "reading"]
<1>4. \A js : Ordered(tab, js, events, searches) => Ordered(tab, js, Tail(events), searches)
  <2>1. Len(Tail(events)) \in Nat /\ Len(events) \in Nat /\ QueueCap \in Nat
    BY <1>1, <1>2, QueueCapAssumption
  <2>2. Len(Tail(events)) <= QueueCap
    BY <1>1, <1>2, <2>1 DEF Ordered
  <2>3. QED BY <1>1, <1>2, <2>2 DEF Ordered
<1>5. CASE ~(e.kind = "Batch" /\ jobs[r].st = "waiting")
  <2>1. Acknowledged(e) = jobs
    BY <1>5 DEF Acknowledged
  <2>2. QED BY <1>1, <1>2, <1>3, <1>4, <1>5, <2>1 DEF Resumed
<1>6. CASE e.kind = "Batch" /\ jobs[r].st = "waiting"
  <2>1. Acknowledged(e) = [jobs EXCEPT ![r] = job]
    BY <1>1, <1>3, <1>6 DEF Acknowledged
  <2>2. jobs[r] \in Job /\ jobs[r].place \in Listable
    BY <1>3, <1>6, JobFields DEF AtWork
  <2>3. job \in Job /\ job.place \in Listable
    BY <2>2 DEF Job, States
  <2>4. Resumed(jobs[r], e) = job
    BY <1>6 DEF Resumed
  <2>5. jobs[r].st # "none"
    BY <1>6
  <2> HIDE DEF job
  <2>6. /\ Ordered(tab, [jobs EXCEPT ![r] = job], events, searches)
        /\ \A q \in Request : q # r => [jobs EXCEPT ![r] = job][q] = jobs[q]
        /\ [jobs EXCEPT ![r] = job][r] = job
    BY <1>1, <1>3, <2>3, <2>5, WorkerStep
  <2>7. QED BY <1>2, <1>3, <1>4, <2>1, <2>4, <2>6
<1>7. QED BY <1>5, <1>6

\* An event of a request that was overtaken changes nothing in the tab.
LEMMA StaleEvent ==
  ASSUME IInv, NEW e \in Event, ~(Loading(tab) /\ tab.latest = e.request)
  PROVE  Applied(tab, e) = tab
<1>1. ~AcceptsDirectory(tab, e.request)
  BY AcceptsWhenLoading DEF IInv
<1>2. e.kind \in Ends
  BY DEF Event
<1>3. ~(tab.latest = e.request /\ tab.load \in Busy)
  BY DEF Loading
<1>4. QED BY <1>1, <1>2, <1>3 DEF Applied, Ends, AcceptDirectoryBatch, FinishDirectoryNavigation,
             FinishRemoteDirectory, FailDirectoryNavigation, CancelDirectoryNavigation

LEMMA ApplyStale ==
  ASSUME IInv, ApplyEvent, ~(Loading(tab) /\ tab.latest = Head(events).request)
  PROVE  StepsWell
<1> DEFINE e == Head(events)
<1>1. /\ events # <<>> /\ jobs' = Acknowledged(e) /\ events' = Tail(events)
      /\ tab' = Applied(tab, e) /\ UNCHANGED <<searches, picked>>
  BY DEF ApplyEvent
<1>2. e \in Event /\ events \in Seq(Event)
  BY <1>1, Basics, TailAbout
<1>3. tab' = tab
  BY <1>1, <1>2, StaleEvent
<1>4. /\ Ordered(tab, jobs', events', searches)
      /\ \A q \in Request : q # e.request => jobs'[q] = jobs[q]
  BY <1>1, PumpOrdered
<1>5. InService'
  <2> SUFFICES ASSUME Loading(tab) PROVE Served(tab, jobs'[tab.latest], events')
    BY <1>3 DEF InService
  <2>1. tab.latest \in Request /\ e.request # tab.latest
    BY Basics
  <2>2. jobs'[tab.latest] = jobs[tab.latest]
    BY <1>4, <2>1
  <2>3. /\ NoneAbout(events, tab.latest) => NoneAbout(events', tab.latest)
        /\ \A d : OneAbout(events, tab.latest, d) => OneAbout(events', tab.latest, d)
    BY <1>1, <1>2, <2>1, TailAbout
  <2>4. Served(tab, jobs[tab.latest], events)
    BY DEF IInv, InService
  <2>5. QED BY <2>2, <2>3, <2>4 DEF Served
<1>6. IInv'
  BY <1>1, <1>3, <1>4, <1>5 DEF IInv
<1>7. LeavesWell /\ CommitsNow
  BY <1>3, NotBusy DEF LeavesWell, CommitsNow
<1>8. QED BY <1>6, <1>7 DEF StepsWell

\* The batch the request under way waits for.
LEMMA ApplyBatch ==
  ASSUME IInv, ApplyEvent, Loading(tab), tab.latest = Head(events).request,
         jobs[tab.latest].st = "waiting"
  PROVE  StepsWell
<1> DEFINE e == Head(events)
           job == jobs[tab.latest]
<1>1. /\ events # <<>> /\ jobs' = Acknowledged(e) /\ events' = Tail(events)
      /\ tab' = Applied(tab, e) /\ UNCHANGED <<searches, picked>>
  BY DEF ApplyEvent
<1>2. /\ Sound(tab) /\ InPicks(tab, picked, searches) /\ picked \in Picks /\ events \in Seq(Event)
      /\ Ordered(tab, jobs, events, searches)
      /\ tab.latest \in Request /\ tab.pending \in Rows /\ Served(tab, job, events)
  BY Basics DEF IInv, InService
<1>3. /\ Ordered(tab, jobs', events', searches) /\ e \in Event /\ e.rows \in Rows
      /\ jobs'[tab.latest] = Resumed(job, e)
  BY <1>1, PumpOrdered
<1>4. /\ job.place = tab.requested /\ e.kind = "Batch" /\ e.rows # <<>>
      /\ Joins(tab.requested, tab.pending, e.rows, job.next)
      /\ NamesOf(tab.pending) \cup NamesOf(e.rows) \cup job.todo = 1..PerPlace
      /\ (NamesOf(tab.pending) \cup NamesOf(e.rows)) \cap job.todo = {}
      /\ NoneAbout(events', tab.latest)
  <2>1. PICK d \in Event :
          /\ OneAbout(events, tab.latest, d) /\ d.kind = "Batch" /\ d.rows # <<>>
          /\ Joins(tab.requested, tab.pending, d.rows, job.next)
          /\ NamesOf(tab.pending) \cup NamesOf(d.rows) \cup job.todo = 1..PerPlace
          /\ (NamesOf(tab.pending) \cup NamesOf(d.rows)) \cap job.todo = {}
    BY <1>2 DEF Served
  <2>2. e = d /\ NoneAbout(Tail(events), tab.latest)
    BY <1>1, <1>2, <2>1, TailAbout
  <2>3. QED BY <1>1, <1>2, <2>1, <2>2 DEF Served
<1>5. job \in Job /\ job.next \in Nat
  BY <1>2, JobFields
<1> HIDE DEF e
<1>6. tab' = AcceptDirectoryBatch(tab, tab.latest, e.rows)
  BY <1>1, <1>4 DEF Applied, e
<1>7. /\ Sound(tab') /\ InPicks(tab', picked, searches) /\ tab'.load = "Partial"
      /\ tab'.latest = tab.latest /\ tab'.current = tab.current /\ tab'.requested = tab.requested
      /\ Joined(tab.requested, tab.pending, e.rows, tab'.pending, job.next)
  BY <1>2, <1>3, <1>4, <1>5, <1>6, BatchSound
<1>8. /\ jobs'[tab.latest].st = "reading" /\ jobs'[tab.latest].place = job.place
      /\ jobs'[tab.latest].todo = job.todo /\ jobs'[tab.latest].next = job.next
  <2>1. jobs'[tab.latest] = [job EXCEPT !.st = "reading"]
    BY <1>3, <1>4 DEF Resumed
  <2> HIDE DEF job
  <2>2. QED BY <1>5, <2>1 DEF Job
<1>9. Served(tab', jobs'[tab'.latest], events')
  <2>1. Numbered(tab.requested, tab'.pending, job.next)
        /\ NamesOf(tab'.pending) = NamesOf(tab.pending) \cup NamesOf(e.rows)
    BY <1>7 DEF Joined
  <2>2. QED BY <1>4, <1>7, <1>8, <2>1 DEF Served
<1>10. Ordered(tab', jobs', events', searches)
  BY <1>3, <1>7 DEF Ordered
<1>11. IInv'
  BY <1>1, <1>2, <1>7, <1>9, <1>10 DEF IInv, InService
<1>12. LeavesWell /\ CommitsNow
  BY <1>7 DEF LeavesWell, CommitsNow
<1>13. QED BY <1>11, <1>12 DEF StepsWell

\* The last event of the request under way.
LEMMA ApplyEnd ==
  ASSUME IInv, ApplyEvent, Loading(tab), tab.latest = Head(events).request,
         jobs[tab.latest].st = "done"
  PROVE  StepsWell
<1> DEFINE e == Head(events)
           job == jobs[tab.latest]
           f == FinishDirectoryNavigation(tab, tab.latest, tab.requested)
<1>1. /\ events # <<>> /\ jobs' = Acknowledged(e) /\ events' = Tail(events)
      /\ tab' = Applied(tab, e) /\ UNCHANGED <<searches, picked>>
  BY DEF ApplyEvent
<1>2. /\ Sound(tab) /\ InPicks(tab, picked, searches) /\ picked \in Picks /\ events \in Seq(Event)
      /\ tab.latest \in Request /\ tab.pending \in Rows /\ Served(tab, job, events)
  BY Basics DEF IInv, InService
<1>3. Ordered(tab, jobs', events', searches)
  BY <1>1, PumpOrdered
<1>4. /\ job.place = tab.requested
      /\ \E next \in Nat : Numbered(tab.requested, tab.pending, next)
      /\ \/ e.kind = "Failed"
         \/ e.kind \in {"Finished", "Incomplete"} /\ NamesOf(tab.pending) = 1..PerPlace
  <2>1. PICK d \in Event :
          /\ OneAbout(events, tab.latest, d)
          /\ \/ d.kind = "Failed"
             \/ d.kind \in {"Finished", "Incomplete"} /\ NamesOf(tab.pending) = 1..PerPlace
    BY <1>2 DEF Served
  <2>2. e = d
    BY <1>1, <1>2, <2>1, TailAbout
  <2>3. QED BY <1>2, <2>1, <2>2 DEF Served
<1>5. PICK next \in Nat : Numbered(tab.requested, tab.pending, next)
  BY <1>4
<1>6. Apart(tab.pending)
  BY <1>5 DEF Numbered
<1>7. CASE e.kind = "Failed"
  <2>1. tab' = FailDirectoryNavigation(tab, tab.latest)
    BY <1>1, <1>7 DEF Applied
  <2>2. AcceptsDirectory(tab, tab.latest)
    BY <1>2, AcceptsWhenLoading
  <2>3. /\ Sound(tab') /\ InPicks(tab', picked, searches) /\ AtRest(tab') /\ tab'.load = "Failed"
        /\ tab'.latest = tab.latest /\ tab'.current = tab.current
    BY <1>2, <2>1, <2>2, FailSound
  <2>4. Ordered(tab', jobs', events', searches)
    BY <1>3, <2>3 DEF Ordered
  <2>5. QED BY <1>1, <1>2, <2>3, <2>4, AtRestIs, QuietStep
<1>8. /\ Sound(f) /\ InPicks(f, picked, searches) /\ AtRest(f) /\ f # tab
      /\ f.load = "Complete" /\ f.latest = tab.latest /\ f.current = tab.requested
      /\ f.entries = tab.pending
      /\ tab.kind \in {"Refresh", "BackgroundRefresh"} \/ Keeps(tab, f)
  BY <1>2, <1>6, FinishSound
<1>9. CASE e.kind = "Finished"
  <2>1. tab' = f
    BY <1>1, <1>4, <1>9 DEF Applied
  <2> HIDE DEF f
  <2>2. Ordered(tab', jobs', events', searches)
    BY <1>3, <1>8, <2>1 DEF Ordered
  <2>3. IInv'
    BY <1>1, <1>2, <1>8, <2>1, <2>2, AtRestIs DEF IInv, InService
  <2>4. LeavesWell
    BY <1>8, <2>1 DEF LeavesWell, Loading
  <2>5. NamesOf(tab.pending) = 1..PerPlace
    BY <1>4, <1>9
  <2>6. [i \in DOMAIN tab.pending |-> tab.pending[i].file]
          = [i \in 1..PerPlace |-> <<tab.requested, i>>]
    BY <1>2, <1>5, <2>5, WholeListing
  <2>7. CommitsNow
    BY <1>8, <2>1, <2>6 DEF CommitsNow, AtRest
  <2>8. QED BY <2>3, <2>4, <2>7 DEF StepsWell
<1>10. CASE e.kind = "Incomplete"
  <2> DEFINE g == [f EXCEPT !.load = "Failed"]
  <2>1. tab' = g
    BY <1>1, <1>4, <1>8, <1>10 DEF Applied, FinishRemoteDirectory
  <2> HIDE DEF f
  <2>2. "Failed" \in Loads /\ "Failed" \notin Busy
    BY SomeTypes, NotBusy
  <2>3. Sound(g) /\ InPicks(g, picked, searches) /\ AtRest(g)
    BY <1>8, <2>2, MarkedSound
  <2>4. /\ g.load = "Failed" /\ g.latest = f.latest /\ g.current = f.current
        /\ g.back = f.back /\ g.forward = f.forward
    BY <1>8 DEF Sound, Tab
  <2> HIDE DEF g
  <2>5. Ordered(tab', jobs', events', searches)
    BY <1>3, <1>8, <2>1, <2>4 DEF Ordered
  <2>6. IInv'
    BY <1>1, <1>2, <2>1, <2>3, <2>5, AtRestIs DEF IInv, InService
  <2>7. LeavesWell
    BY <1>8, <2>1, <2>4 DEF LeavesWell, Loading, Keeps
  <2>8. CommitsNow
    BY <2>1, <2>4 DEF CommitsNow
  <2>9. QED BY <2>6, <2>7, <2>8 DEF StepsWell
<1>11. QED BY <1>4, <1>7, <1>9, <1>10

LEMMA ApplyEventStep ==
  ASSUME IInv, ApplyEvent
  PROVE  StepsWell
<1>1. ASSUME Loading(tab), tab.latest = Head(events).request
      PROVE  jobs[tab.latest].st \in {"waiting", "done"}
  <2>1. Served(tab, jobs[tab.latest], events) /\ events \in Seq(Event) /\ events # <<>>
    BY <1>1, Basics DEF IInv, InService, ApplyEvent
  <2>2. ~NoneAbout(events, tab.latest)
    BY <1>1, <2>1, TailAbout
  <2>3. QED BY <2>1, <2>2 DEF Served
<1>2. QED BY <1>1, ApplyStale, ApplyBatch, ApplyEnd

LEMMA SearchAnsweredStep ==
  ASSUME IInv, NEW r \in Request, SearchAnswered(r)
  PROVE  StepsWell
<1>1. /\ Sound(tab) /\ InPicks(tab, picked, searches) /\ picked \in Picks
      /\ Ordered(tab, jobs, events, searches)
  BY DEF IInv
<1>2. /\ r \in searches /\ searches' = searches \ {r} /\ UNCHANGED <<jobs, events, picked>>
  BY DEF SearchAnswered
<1>3. \A t : Ordered(t, jobs, events, searches) => Ordered(t, jobs, events, searches')
  BY <1>2 DEF Ordered
<1>4. CASE ~AcceptsSearch(tab, r)
  <2>1. tab' = tab
    BY <1>4 DEF SearchAnswered
  <2>2. InPicks(tab, picked, searches')
    BY <1>1, <1>2 DEF InPicks
  <2>3. IInv'
    BY <1>1, <1>2, <1>3, <2>1, <2>2 DEF IInv, InService
  <2>4. LeavesWell /\ CommitsNow
    BY <2>1, NotBusy DEF LeavesWell, CommitsNow
  <2>5. QED BY <2>3, <2>4 DEF StepsWell
<1>5. ASSUME AcceptsSearch(tab, r), NEW p \in Local \cup Unc,
             tab' = MergeSearchPage(tab, RowsOf(p, 1..PerPlace, 1), "Complete")
      PROVE  StepsWell
  <2> DEFINE rows == RowsOf(p, 1..PerPlace, 1)
  <2>1. tab.page = "Search" /\ tab.latest = r
    BY <1>5 DEF AcceptsSearch, Accepts
  <2>2. p \in Listable
    BY DEF Listable
  <2>3. rows \in Rows /\ Numbered(p, rows, 1 + Cardinality(1..PerPlace))
    BY <2>2, RowsOfGives
  <2>4. Apart(rows)
    BY <2>3 DEF Numbered
  <2> HIDE DEF rows
  <2>5. /\ Sound(tab') /\ InPicks(tab', picked, searches') /\ tab'.latest = tab.latest
        /\ tab'.current = tab.current /\ ~Loading(tab) /\ ~Loading(tab')
    BY <1>1, <1>2, <1>5, <2>1, <2>3, <2>4, MergeSearchPageSound DEF rows
  <2>6. Ordered(tab', jobs, events, searches')
    BY <1>1, <1>3, <2>5 DEF Ordered
  <2>7. QED BY <1>1, <1>2, <2>5, <2>6, QuietStep
<1>6. ASSUME AcceptsSearch(tab, r), tab' = [tab EXCEPT !.search = "Failed"] PROVE StepsWell
  <2>1. tab.page = "Search"
    BY <1>6 DEF AcceptsSearch
  <2>2. ~Loading(tab)
    BY <1>1, <2>1 DEF Sound, InRequest
  <2>3. Sound(tab') /\ InPicks(tab', picked, searches') /\ SameView(tab, tab')
    BY <1>1, <1>2, <1>6, SearchFailedSound
  <2>4. Ordered(tab', jobs, events, searches') /\ ~Loading(tab') /\ tab'.current = tab.current
    BY <1>1, <1>3, <2>2, <2>3 DEF Ordered, SameView, Loading
  <2>5. QED BY <1>1, <1>2, <2>2, <2>3, <2>4, QuietStep
<1>7. QED BY <1>4, <1>5, <1>6 DEF SearchAnswered

-----------------------------------------------------------------------------
(* The theorems.                                                            *)

LEMMA NewTabSound ==
  ASSUME NEW p \in Place
  PROVE  /\ NewTab(p) \in Tab /\ NewTab(p).load \notin Busy /\ NewTab(p).latest = 0
         /\ NewTab(p).cancel = 0 /\ NewTab(p).fired = {} /\ NewTab(p).entries = <<>>
         /\ NewTab(p).pending = <<>> /\ NewTab(p).indices = <<>> /\ NewTab(p).page = "Directory"
         /\ NewTab(p).snapshot = NoListing /\ NewTab(p).selected = {}
         /\ <<>> = IndicesOf(<<>>)
<1> DEFINE load == IF p = Home THEN "Complete" ELSE "Idle"
<1>1. load \in Loads /\ load \notin Busy
  BY SomeTypes, NotBusy
<1>2. <<>> = IndicesOf(<<>>)
  BY DEF IndicesOf
<1>3. <<>> \in Indices
  BY <1>2, IndicesType, SomeTypes
<1>4. <<>> \in Places /\ FALSE \in BOOLEAN
  BY DEF Places
<1>5. NewTab(p) =
        [latest |-> 0, current |-> p, requested |-> NoPlace, page |-> "Directory",
         search |-> "Waiting", snapshot |-> NoListing, kind |-> "Normal", retain |-> FALSE,
         back |-> <<>>, forward |-> <<>>, entries |-> <<>>, pending |-> <<>>,
         indices |-> <<>>, load |-> load, selected |-> {}, cancel |-> 0, fired |-> {}]
  BY DEF NewTab
<1> HIDE DEF load
<1>6. NewTab(p) \in Tab
  BY <1>1, <1>3, <1>4, <1>5, SomeTypes DEF Tab
<1>7. QED BY <1>1, <1>2, <1>5, <1>6

\* The facts a tab needs when nothing has been asked of it yet.
LEMMA UnaskedSound ==
  ASSUME NEW t \in Tab, t.load \notin Busy, t.latest = 0, t.cancel = 0, t.fired = {},
         t.pending = <<>>, t.indices = IndicesOf(t.entries), Apart(t.entries),
         t.page = "Directory", t.snapshot = NoListing, t.selected = {}, NEW picks, NEW asked
  PROVE  Sound(t) /\ InPicks(t, picks, asked)
<1>1. ~Loading(t) /\ ~ShowsPending(t)
  BY NotBusy DEF Loading, ShowsPending
<1>2. Sound(t)
  BY <1>1, SomeTypes DEF Sound, InRequest, InLists, InHistory
<1>3. InPicks(t, picks, asked)
  BY <1>1, NothingChosen, SomeTypes DEF InPicks
<1>4. QED BY <1>2, <1>3

LEMMA SettledSound ==
  ASSUME NEW p \in Listable, NEW past \in Places \X Places
  PROVE  LET t == Settled(p, past) IN
         /\ t \in Tab /\ t.load \notin Busy /\ t.latest = 0 /\ t.cancel = 0 /\ t.fired = {}
         /\ t.pending = <<>> /\ t.indices = IndicesOf(t.entries) /\ Apart(t.entries)
         /\ t.page = "Directory" /\ t.snapshot = NoListing /\ t.selected = {}
<1> DEFINE rows == RowsOf(p, 1..PerPlace, 1)
           b == past[1]  f == past[2]
           ix == IndicesOf(rows)
           n == NewTab(p)
           t == [n EXCEPT !.entries = rows, !.indices = ix, !.load = "Complete", !.back = b, !.forward = f]
<1>1. t = Settled(p, past)
  BY DEF Settled
<1>2. rows \in Rows /\ Numbered(p, rows, 1 + Cardinality(1..PerPlace))
  BY RowsOfGives
<1>3. Apart(rows)
  BY <1>2 DEF Numbered
<1>4. ix \in Indices
  BY <1>2, IndicesType
<1>5. b \in Places /\ f \in Places /\ p \in Place
  BY DEF Place
<1>6. /\ n \in Tab /\ n.latest = 0 /\ n.cancel = 0 /\ n.fired = {} /\ n.pending = <<>>
      /\ n.page = "Directory" /\ n.snapshot = NoListing /\ n.selected = {}
  BY <1>5, NewTabSound
<1>7. "Complete" \in Loads /\ "Complete" \notin Busy
  BY SomeTypes, NotBusy
<1> HIDE DEF rows, b, f, ix, n
<1>8. /\ t \in Tab /\ t.entries = rows /\ t.indices = ix /\ t.load = "Complete"
      /\ t.latest = n.latest /\ t.cancel = n.cancel /\ t.fired = n.fired /\ t.pending = n.pending
      /\ t.page = n.page /\ t.snapshot = n.snapshot /\ t.selected = n.selected
  BY <1>2, <1>4, <1>5, <1>6, <1>7 DEF Tab
<1> HIDE DEF t
<1>9. QED BY <1>1, <1>3, <1>6, <1>7, <1>8 DEF ix

LEMMA InitIInv ==
  ASSUME Init
  PROVE  IInv
<1>1. picked \in Picks
  BY SomeTypes DEF Init, Picks
<1>2. Sound(tab) /\ InPicks(tab, picked, searches) /\ tab.latest = 0 /\ ~Loading(tab)
  <2>1. ASSUME NEW p \in Fresh, tab = NewTab(p)
        PROVE  Sound(tab) /\ InPicks(tab, picked, searches) /\ tab.latest = 0 /\ ~Loading(tab)
    <3>1. p \in Place
      BY PlacesAssumption
    <3>2. QED BY <2>1, <3>1, NewTabSound, NothingChosen, UnaskedSound DEF Loading
  <2>2. ASSUME NEW p \in Listed, NEW past \in Pasts, tab = Settled(p, past)
        PROVE  Sound(tab) /\ InPicks(tab, picked, searches) /\ tab.latest = 0 /\ ~Loading(tab)
    <3>1. p \in Listable /\ past \in Places \X Places
      BY PlacesAssumption DEF Places
    <3>2. QED BY <2>2, <3>1, SettledSound, UnaskedSound DEF Loading
  <2>3. QED BY <2>1, <2>2 DEF Init
<1>3. Ordered(tab, jobs, events, searches)
  <2>1. jobs = [r \in Request |-> NoJob] /\ events = <<>> /\ searches = {}
    BY DEF Init
  <2>2. events \in Seq(Event) /\ Len(events) <= QueueCap /\ DOMAIN events = {}
    BY <2>1, QueueCapAssumption
  <2>3. NoJob \in Job /\ ~AtWork(NoJob)
    BY JobsAre DEF AtWork
  <2>4. QED BY <1>2, <2>1, <2>2, <2>3, MaxRequestsAssumption DEF Ordered
<1>4. QED BY <1>1, <1>2, <1>3 DEF IInv, InService

LEMMA NextStep ==
  ASSUME IInv, [Next]_vars
  PROVE  StepsWell
<1>1. ASSUME UNCHANGED vars PROVE StepsWell
  <2>1. IInv'
    BY <1>1 DEF vars, IInv, InService
  <2>2. LeavesWell /\ CommitsNow
    BY <1>1, NotBusy DEF vars, LeavesWell, CommitsNow
  <2>3. QED BY <2>1, <2>2 DEF StepsWell
<1>2. ASSUME NEW p \in Place, Open(p) PROVE StepsWell
  BY <1>2, OpenStep
<1>3. ASSUME NEW p \in Place, OpenAddress(p) PROVE StepsWell
  BY <1>3, OpenAddressStep
<1>4. CASE Refresh
  BY <1>4, RefreshStep
<1>5. CASE RefreshAffected
  BY <1>5, RefreshAffectedStep
<1>6. CASE Back
  BY <1>6, BackStep
<1>7. CASE Forward
  BY <1>7, ForwardStep
<1>8. CASE Jump
  BY <1>8, JumpStep
<1>9. CASE Search
  BY <1>9, SearchStep
<1>10. CASE DismissSearch
  BY <1>10, DismissSearchStep
<1>11. ASSUME NEW i \in 1..PerPlace, NEW toggle \in BOOLEAN, Select(i, toggle) PROVE StepsWell
  BY <1>11, SelectStep
<1>12. CASE SelectEverything
  BY <1>12, SelectEverythingStep
<1>13. ASSUME NEW r \in Request, Read(r) PROVE StepsWell
  BY <1>13, ReadStep
<1>14. ASSUME NEW r \in Request, Finish(r) PROVE StepsWell
  BY <1>14, FinishStep
<1>15. ASSUME NEW r \in Request, Fail(r) PROVE StepsWell
  BY <1>15, FailStep
<1>16. ASSUME NEW r \in Request, Stop(r) PROVE StepsWell
  BY <1>16, StopStep
<1>17. CASE ApplyEvent
  BY <1>17, ApplyEventStep
<1>18. ASSUME NEW r \in Request, SearchAnswered(r) PROVE StepsWell
  BY <1>18, SearchAnsweredStep
<1>19. QED BY <1>1, <1>2, <1>3, <1>4, <1>5, <1>6, <1>7, <1>8, <1>9, <1>10, <1>11, <1>12,
              <1>13, <1>14, <1>15, <1>16, <1>17, <1>18 DEF Next

\* The tab, its requests, the queue and the picks stay in step.
THEOREM Invariance == Spec => []IInv
<1>1. Init => IInv
  BY InitIInv
<1>2. IInv /\ [Next]_vars => IInv'
  BY NextStep DEF StepsWell
<1>3. QED BY <1>1, <1>2, PTL DEF Spec

\* Every field of a tab keeps its type, its rows are files of places, and the queue
\* its room.
THEOREM TypesHold == Spec => []TypeOK
<1>1. IInv => TypeOK
  <2> SUFFICES ASSUME IInv PROVE TypeOK
    OBVIOUS
  <2>1. /\ tab.latest \in Nat /\ tab.current \in Place /\ tab.requested \in Requested
        /\ tab.page \in Pages /\ tab.load \in Loads /\ tab.cancel \in Nat
        /\ tab.entries \in Rows /\ tab.pending \in Rows
    BY Basics DEF Tab
  <2>2. /\ tab.latest <= MaxRequests /\ Len(events) <= QueueCap
        /\ tab.cancel <= tab.latest /\ tab.fired \subseteq 1..tab.latest
    BY DEF IInv, Ordered, Sound, InRequest
  <2>3. tab.latest \in 0..MaxRequests /\ tab.cancel \in 0..tab.latest
    BY <2>1, <2>2, MaxRequestsAssumption
  <2>4. \A rows \in Rows : FilesOf(rows) \subseteq Listable \X (1..PerPlace)
    BY RowsAre DEF FilesOf, Files
  <2>5. \A r \in Request : jobs[r].st \in {"none", "reading", "waiting", "done"}
    BY JobFields DEF Job, States
  <2>6. QED BY <2>1, <2>2, <2>3, <2>4, <2>5 DEF TypeOK, Requested, Pages, Loads
<1>2. QED BY <1>1, Invariance, PTL

\* While a folder shows as loading, its worker still reads, or waits for a batch that
\* is in the queue, or its last event is in the queue.
THEOREM LoadsAreServed == Spec => []LoadIsServed
<1>1. IInv => LoadIsServed
  <2> SUFFICES ASSUME IInv, tab.load \in Busy
               PROVE  LET queued == {events[i].kind :
                                       i \in {j \in DOMAIN events : events[j].request = tab.latest}}
                      IN CASE jobs[tab.latest].st = "reading" -> TRUE
                           [] jobs[tab.latest].st = "waiting" -> "Batch" \in queued
                           [] OTHER -> queued \cap {"Finished", "Incomplete", "Failed"} # {}
    BY DEF LoadIsServed
  <2> DEFINE queued == {events[i].kind : i \in {j \in DOMAIN events : events[j].request = tab.latest}}
  <2>1. Served(tab, jobs[tab.latest], events)
    BY DEF IInv, InService, Loading
  <2>2. \A e \in Event : OneAbout(events, tab.latest, e) => e.kind \in queued
    BY DEF OneAbout
  <2> HIDE DEF queued
  <2>3. \/ jobs[tab.latest].st = "reading"
        \/ jobs[tab.latest].st = "waiting" /\ "Batch" \in queued
        \/ /\ jobs[tab.latest].st = "done"
           /\ \E k \in {"Finished", "Incomplete", "Failed"} : k \in queued
    BY <2>1, <2>2 DEF Served
  <2>4. CASE jobs[tab.latest].st = "reading"
    BY <2>4
  <2>5. CASE jobs[tab.latest].st = "waiting"
    BY <2>3, <2>5 DEF queued
  <2>6. CASE jobs[tab.latest].st = "done"
    BY <2>3, <2>6 DEF queued
  <2>7. QED BY <2>3, <2>4, <2>5, <2>6
<1>2. QED BY <1>1, Invariance, PTL

\* What a command takes from a complete listing are files the user picked, whatever
\* was loaded, searched, refreshed or gone back to in between.
THEOREM SelectionsArePicked == Spec => []SelectionIsPicked
<1>1. IInv => SelectionIsPicked
  <2> SUFFICES ASSUME IInv, tab.load = "Complete" PROVE SelectedFiles(tab) \subseteq Picked
    BY DEF SelectionIsPicked
  <2>1. Sound(tab) /\ ~ShowsPending(tab) /\ ~Loading(tab)
    BY NotBusy DEF IInv, ShowsPending, Loading
  <2>2. ChosenFrom(tab.entries, tab.selected) \subseteq Picked
    BY <2>1 DEF IInv, InPicks, AllOf, Picked
  <2>3. QED BY <2>1, <2>2, SelectedAreChosen
<1>2. QED BY <1>1, Invariance, PTL

\* A load that ends well commits every file of the place asked for, once and in order.
THEOREM CommitsAreWhole == Spec => CommitsWhole
<1>1. IInv /\ [Next]_vars => CommitsNow
  BY NextStep DEF StepsWell
<1>2. QED BY <1>1, Invariance, PTL DEF Spec, CommitsWhole, CommitsNow

\* Navigation loses no place that could be gone back to.
THEOREM PlacesAreKept == Spec => LeavingKeepsPlaces
<1>1. IInv /\ [Next]_vars => LeavesWell
  BY NextStep DEF StepsWell
<1>2. QED BY <1>1, Invariance, PTL DEF Spec, LeavingKeepsPlaces, LeavesWell, Keeps
=============================================================================
