-------------------------- MODULE FolderSizesProofs ---------------------------
(***************************************************************************)
(* Theorems about the folder sizes of a tab, for any number of folders,    *)
(* slots, requests, scrolls and sorts.  SizesInv follows a size from       *)
(* Everything to the row; SizesUnderWay, which rests on it, follows a      *)
(* query through the four stages and back.  InLimits, which rests on       *)
(* SizesInv, says that a listing names each folder once: the first so many *)
(* keys of one are then no more than the slots they are asked for.         *)
(***************************************************************************)
EXTENDS FolderSizes, FiniteSetTheorems, SequenceTheorems, TLAPS

Key  == [id : Nat, path : Path]
Seen == [id : Nat, path : Path, at : 1..Folders]

\* A row that shows no size but that of its own folder.
OwnRow == {row \in [id : Nat, path : Path, size : Terminal \cup {Unknown}] :
             row.size \in {Unknown, TimedOut, row.path}}

Rows(S) == S \subseteq OwnRow /\ IsFiniteSet(S)

TabState ==
  [request : Nat, cancel : {"none", "live", "fired"}, page : {"Directory", "Search"},
   place : Place, goal : Place, load : {"Complete", "Loading", "Partial", "Cancelled"},
   retain : BOOLEAN, pending : SUBSET OwnRow, entries : SUBSET OwnRow,
   snapshot : SUBSET OwnRow, sort : [Place -> {"Name", "Size"}], field : {"Name", "Size"}]

TabGood(t) == t \in TabState /\ Rows(t.entries) /\ Rows(t.pending) /\ Rows(t.snapshot)

Staging == UNION {[K -> Terminal] : K \in SUBSET Key}

SchedState ==
  [request : Nat, gen : Nat, strategy : {"VisibleRange", "CompleteForSort"},
   queued : SUBSET Key, inflight : SUBSET Key, visible : SUBSET Seen,
   snapshot : SUBSET Key, staged : Staging]

\* A sort asks for folders it has frozen and for no other, and keeps the answer of each
\* under its own key.
SchedGood(s) ==
  /\ s \in SchedState
  /\ IsFiniteSet(s.snapshot)
  /\ s.strategy = "CompleteForSort" => s.inflight \cup DOMAIN s.staged \subseteq s.snapshot
  /\ \A k \in DOMAIN s.staged : s.staged[k] \in {TimedOut, k.path}

ListingGood == listing \in [left : SUBSET (1..Folders), next : Nat]

\* An answer on its way is one about the folder it names.
AnswersOwn ==
  /\ Len(events) \in Nat
  /\ \A i \in 1..Len(events) : events[i].size \in {TimedOut, events[i].query.key.path}

SizesInv == TabGood(tab) /\ SchedGood(sched) /\ ListingGood /\ AnswersOwn

-------------------------------------------------------------------------------
(* The scheduler.                                                            *)

LEMMA NoStaging == <<>> \in Staging /\ DOMAIN <<>> = {}
<1>1. <<>> \in [{} -> Terminal] /\ DOMAIN <<>> = {}
  OBVIOUS
<1>2. QED
  BY <1>1 DEF Staging

\* cancel leaves nothing of the request before it.
LEMMA CancelGood ==
  ASSUME NEW s, SchedGood(s), NEW r \in Nat
  PROVE  SchedGood(Cancel(s, r)) /\ Cancel(s, r).strategy = "VisibleRange"
<1>1. Cancel(s, r) \in SchedState
  BY NoStaging DEF Cancel, SchedState, SchedGood
<1>2. IsFiniteSet(Cancel(s, r).snapshot)
  BY FS_EmptySet DEF Cancel
<1>3. QED
  BY <1>1, <1>2, NoStaging DEF Cancel, SchedGood

LEMMA KeysOfRows ==
  ASSUME NEW rows, Rows(rows)
  PROVE  {KeyOf(row) : row \in rows} \subseteq Key /\ IsFiniteSet({KeyOf(row) : row \in rows})
<1> DEFINE f == [row \in rows |-> KeyOf(row)]
           T == {KeyOf(row) : row \in rows}
<1>1. f \in Surjection(rows, T)
  BY DEF Surjection
<1>2. IsFiniteSet(T)
  BY <1>1, FS_Surjection DEF Rows
<1>3. T \subseteq Key
  BY DEF Rows, OwnRow, KeyOf, Key
<1>4. QED
  BY <1>2, <1>3

\* begin_complete_sort freezes the rows, and takes over only sizes that are known.
LEMMA BeginGood ==
  ASSUME NEW s, SchedGood(s), NEW r \in Nat, NEW rows, Rows(rows)
  PROVE  SchedGood(BeginCompleteSort(s, r, rows))
<1> DEFINE b     == BeginCompleteSort(s, r, rows)
           known == {row \in rows : row.size # Unknown}
           K     == {KeyOf(row) : row \in known}
           g     == [k \in K |-> (CHOOSE row \in known : KeyOf(row) = k).size]
           c     == Cancel(s, r)
<1>1. c \in SchedState /\ c.inflight = {}
  BY CancelGood DEF SchedGood, Cancel
<1>2. \A k \in K : g[k] \in {TimedOut, k.path} /\ g[k] \in Terminal
  <2> SUFFICES ASSUME NEW k \in K PROVE g[k] \in {TimedOut, k.path} /\ g[k] \in Terminal
    OBVIOUS
  <2> DEFINE w == CHOOSE row \in known : KeyOf(row) = k
  <2>1. w \in known /\ KeyOf(w) = k
    OBVIOUS
  <2>2. g[k] = w.size
    OBVIOUS
  <2> HIDE DEF w
  <2>3. w.size \in {TimedOut, w.path} /\ w.size \in Terminal /\ k.path = w.path
    BY <2>1 DEF Rows, OwnRow, KeyOf
  <2>4. QED
    BY <2>2, <2>3
<1>3. K \subseteq Key /\ K \subseteq {KeyOf(row) : row \in rows}
  BY KeysOfRows
<1>4. g \in Staging /\ DOMAIN g = K
  <2>1. DOMAIN g = K /\ g = [k \in K |-> g[k]]
    OBVIOUS
  <2> HIDE DEF g, K
  <2>2. g \in [K -> Terminal]
    BY <1>2, <2>1
  <2>3. QED
    BY <1>3, <2>1, <2>2 DEF Staging
<1>5. b = [c EXCEPT !.strategy = "CompleteForSort",
                    !.snapshot = {KeyOf(row) : row \in rows}, !.staged = g]
  BY DEF BeginCompleteSort
<1> HIDE DEF g, K, c, b
<1>6. b \in SchedState /\ b.snapshot = {KeyOf(row) : row \in rows} /\ b.staged = g
      /\ b.inflight = {}
  BY <1>1, <1>4, <1>5, KeysOfRows DEF SchedState
<1>7. QED
  BY <1>2, <1>3, <1>4, <1>6, KeysOfRows DEF SchedGood, b

\* visible_entry_queries gives up a sort and keeps the positions in view.
LEMMA LookGood ==
  ASSUME NEW s, SchedGood(s), NEW r \in Nat, NEW rows, Rows(rows),
         NEW positions \in SUBSET (1..Folders)
  PROVE  SchedGood(LookAt(s, r, rows, positions))
<1> DEFINE c == IF s.request # r \/ s.strategy # "VisibleRange" THEN Cancel(s, r) ELSE s
           v == UNION {{[id |-> row.id, path |-> row.path, at |-> i] :
                          row \in RowAt(rows, i)} : i \in positions}
<1>1. SchedGood(c)
  BY CancelGood
<1>2. \A i \in positions : RowAt(rows, i) \subseteq OwnRow
  BY DEF RowAt, FirstOf, Rows
<1>3. v \subseteq Seen
  BY <1>2 DEF Seen, OwnRow
<1>4. LookAt(s, r, rows, positions) = [c EXCEPT !.visible = v]
  BY DEF LookAt
<1> HIDE DEF c, v
<1>5. QED
  BY <1>1, <1>3, <1>4 DEF SchedGood, SchedState

\* What is asked for next are keys, and in a sort keys it has frozen.
LEMMA NextGood ==
  ASSUME NEW s, SchedGood(s), NEW rows
  PROVE  /\ NextVisible(s, rows) \subseteq Key
         /\ NextComplete(s) \subseteq Key
         /\ s.strategy = "CompleteForSort" =>
              NextVisible(s, rows) \cup NextComplete(s) \subseteq s.snapshot
<1>1. NextVisible(s, rows) \subseteq {KeyOf(v) : v \in s.visible}
  BY DEF NextVisible, FirstOf
<1>2. {KeyOf(v) : v \in s.visible} \subseteq Key
  BY DEF SchedGood, SchedState, Seen, KeyOf, Key
<1>3. NextComplete(s) \subseteq s.snapshot
  BY DEF NextComplete, FirstOf
<1>4. s.strategy = "CompleteForSort" => NextVisible(s, rows) = {}
  BY DEF NextVisible
<1>5. QED
  BY <1>1, <1>2, <1>3, <1>4 DEF SchedGood, SchedState

\* A submission only adds to what is asked for.
LEMMA SubmitKeeps ==
  ASSUME NEW t, NEW s, SchedGood(s), NEW keys \in SUBSET Key,
         s.strategy = "CompleteForSort" => keys \subseteq s.snapshot,
         Submit(t, s, keys)
  PROVE  SchedGood(sched') /\ sched'.snapshot = s.snapshot
<1>1. \/ sched' = [s EXCEPT !.inflight = @ \cup keys]
      \/ sched' = [s EXCEPT !.queued = @ \cup keys]
  BY DEF Submit
<1>2. QED
  BY <1>1 DEF SchedGood, SchedState

-------------------------------------------------------------------------------
(* An answer.                                                                *)

\* Rows that are changed one by one stay finitely many.
LEMMA RowsMapped ==
  ASSUME NEW rows, IsFiniteSet(rows), NEW f, DOMAIN f = rows
  PROVE  IsFiniteSet({f[row] : row \in rows})
<1>1. [row \in rows |-> f[row]] \in Surjection(rows, {f[row] : row \in rows})
  BY DEF Surjection
<1>2. QED
  BY <1>1, FS_Surjection

LEMMA StagingGrows ==
  ASSUME NEW st \in Staging, NEW key \in Key, NEW size \in Terminal
  PROVE  [k \in DOMAIN st \cup {key} |-> IF k = key THEN size ELSE st[k]] \in Staging
<1>1. PICK K \in SUBSET Key : st \in [K -> Terminal]
  BY DEF Staging
<1>2. [k \in DOMAIN st \cup {key} |-> IF k = key THEN size ELSE st[k]]
        \in [K \cup {key} -> Terminal]
  BY <1>1
<1>3. QED
  BY <1>2 DEF Staging

\* Under a sort the rows change only when none it has frozen stays unknown.
CommitsWhole(s, rows, new) ==
  s.strategy = "CompleteForSort" =>
    \/ new = rows
    \/ \A row \in new : KeyOf(row) \in s.snapshot => row.size # Unknown

\* complete: scheduler and rows stay right, and a sort changes rows only when none it has
\* frozen stays unknown.
LEMMA CompleteGood ==
  ASSUME NEW s, SchedGood(s), NEW q, NEW size, size \in {TimedOut, q.key.path},
         NEW rows, Rows(rows)
  PROVE  /\ SchedGood(Complete(s, q, size, rows).sched)
         /\ Rows(Complete(s, q, size, rows).rows)
         /\ Complete(s, q, size, rows).sched.snapshot = s.snapshot
         /\ CommitsWhole(s, rows, Complete(s, q, size, rows).rows)
<1> DEFINE result == Complete(s, q, size, rows)
           done   == [s EXCEPT !.inflight = @ \ {q.key}]
           staged == [k \in DOMAIN s.staged \cup {q.key} |->
                        IF k = q.key THEN size ELSE s.staged[k]]
           whole  == Through(done, staged)
<1>1. CASE ~AcceptsQuery(s, q) \/ q.key \notin s.inflight
  BY <1>1 DEF Complete, CommitsWhole
<1>2. CASE AcceptsQuery(s, q) /\ q.key \in s.inflight
  <2>1. q.key \in Key /\ size \in Terminal
    BY <1>2 DEF SchedGood, SchedState, Key, Terminal
  <2>2. done \in SchedState /\ done.snapshot = s.snapshot /\ SchedGood(done)
    BY DEF SchedGood, SchedState
  <2>3. CASE s.strategy = "VisibleRange"
    <3> DEFINE f == [row \in rows |-> IF AcceptsSize(row, q.key)
                                      THEN [row EXCEPT !.size = size] ELSE row]
    <3>1. result.sched = done /\ result.rows = {f[row] : row \in rows}
      BY <1>2, <2>3 DEF Complete
    <3>2. \A row \in rows : f[row] \in OwnRow
      BY <2>1 DEF Rows, OwnRow, AcceptsSize
    <3>3. DOMAIN f = rows
      OBVIOUS
    <3> HIDE DEF f, result, done
    <3>4. IsFiniteSet({f[row] : row \in rows})
      BY <3>3, RowsMapped DEF Rows
    <3>5. QED
      BY <2>2, <2>3, <3>1, <3>2, <3>4 DEF CommitsWhole, Rows, result
  <2>4. CASE s.strategy = "CompleteForSort"
    <3> DEFINE next == [done EXCEPT !.staged = staged]
               f    == [row \in rows |-> IF KeyOf(row) \in s.snapshot \cap DOMAIN staged
                                         THEN [row EXCEPT !.size = staged[KeyOf(row)]]
                                         ELSE row]
    <3>1. /\ result.sched = next
          /\ result.rows = IF whole THEN {f[row] : row \in rows} ELSE rows
      BY <1>2, <2>4 DEF Complete
    <3>2. staged \in Staging
      BY <2>1, StagingGrows DEF SchedGood, SchedState
    <3>3. DOMAIN staged \subseteq s.snapshot
      BY <1>2, <2>4 DEF SchedGood
    <3>4. \A k \in DOMAIN staged : staged[k] \in {TimedOut, k.path} /\ staged[k] \in Terminal
      <4>1. \A k \in DOMAIN s.staged : s.staged[k] \in {TimedOut, k.path} /\ s.staged[k] \in Terminal
        BY DEF SchedGood, SchedState, Staging
      <4>2. QED
        BY <2>1, <4>1
    <3> HIDE DEF staged
    <3>5. next \in SchedState /\ next.staged = staged /\ next.snapshot = s.snapshot
          /\ next.strategy = "CompleteForSort" /\ next.inflight \subseteq s.inflight
      BY <2>2, <2>4, <3>2 DEF SchedState, SchedGood
    <3>6. SchedGood(next)
      <4>1. s.inflight \subseteq s.snapshot
        BY <2>4 DEF SchedGood
      <4> HIDE DEF next
      <4>2. QED
        BY <3>3, <3>4, <3>5, <4>1 DEF SchedGood
    <3>7. \A row \in rows : f[row] \in OwnRow /\ KeyOf(f[row]) = KeyOf(row)
      <4> SUFFICES ASSUME NEW row \in rows
                   PROVE  f[row] \in OwnRow /\ KeyOf(f[row]) = KeyOf(row)
        OBVIOUS
      <4>1. row \in OwnRow
        BY DEF Rows
      <4>2. CASE KeyOf(row) \in s.snapshot \cap DOMAIN staged
        <5>1. staged[KeyOf(row)] \in {TimedOut, row.path} /\ staged[KeyOf(row)] \in Terminal
          BY <3>4, <4>2 DEF KeyOf
        <5>2. QED
          BY <4>1, <4>2, <5>1 DEF OwnRow, KeyOf
      <4>3. QED
        BY <4>1, <4>2
    <3>8. whole => \A row \in rows : KeyOf(row) \in s.snapshot => f[row].size # Unknown
      <4> SUFFICES ASSUME whole, NEW row \in rows, KeyOf(row) \in s.snapshot
                   PROVE  f[row].size # Unknown
        OBVIOUS
      <4>1. DOMAIN staged = s.snapshot
        BY <2>2, <3>3, FS_Subset DEF SchedGood, Through
      <4>2. f[row].size = staged[KeyOf(row)]
        BY <4>1 DEF Rows, OwnRow
      <4>3. staged[KeyOf(row)] \in Terminal
        BY <3>4, <4>1
      <4>4. QED
        BY <4>2, <4>3, SizeAssumption
    <3>9. DOMAIN f = rows
      OBVIOUS
    <3> HIDE DEF f, next, result, whole, done
    <3>10. IsFiniteSet({f[row] : row \in rows})
      BY <3>9, RowsMapped DEF Rows
    <3>11. Rows(result.rows)
      BY <3>1, <3>7, <3>10 DEF Rows
    <3>12. \/ result.rows = rows
           \/ \A row \in result.rows : KeyOf(row) \in s.snapshot => row.size # Unknown
      BY <3>1, <3>7, <3>8
    <3>13. QED
      BY <3>1, <3>5, <3>6, <3>11, <3>12 DEF CommitsWhole, result
  <2>5. QED
    BY <2>3, <2>4 DEF SchedGood, SchedState
<1>3. QED
  BY <1>1, <1>2

-------------------------------------------------------------------------------
(* The steps.                                                                *)

LEMMA InitHolds == Init => SizesInv
<1> SUFFICES ASSUME Init PROVE SizesInv
  OBVIOUS
<1>1. PICK p \in Place :
        tab = [request |-> 1, cancel |-> "none", page |-> "Directory", place |-> p,
               goal |-> p, load |-> "Complete", retain |-> FALSE, pending |-> {},
               entries |-> {[id |-> n, path |-> <<p, n>>, size |-> Unknown] : n \in 1..Folders},
               snapshot |-> {}, sort |-> [q \in Place |-> "Name"], field |-> "Name"]
  BY DEF Init
<1> DEFINE f == [n \in 1..Folders |-> [id |-> n, path |-> <<p, n>>, size |-> Unknown]]
           T == {f[n] : n \in 1..Folders}
<1>2. T \subseteq OwnRow
  BY FoldersAssumption DEF OwnRow, Path
<1>3. IsFiniteSet(T)
  <2>1. DOMAIN f = 1..Folders /\ IsFiniteSet(1..Folders)
    BY FoldersAssumption, FS_Interval
  <2> HIDE DEF f
  <2>2. QED
    BY <2>1, RowsMapped
<1>4. tab.entries = T
  BY <1>1
<1> HIDE DEF T
<1>5. TabGood(tab)
  BY <1>1, <1>2, <1>3, <1>4, FS_EmptySet DEF TabGood, TabState, Rows
<1>6. SchedGood(sched)
  BY NoStaging, FS_EmptySet DEF Init, SchedGood, SchedState
<1>7. ListingGood /\ AnswersOwn
  BY DEF Init, ListingGood, NoListing, AnswersOwn
<1>8. QED
  BY <1>5, <1>6, <1>7 DEF SizesInv

LEMMA CancelPendingGood ==
  ASSUME NEW t, TabGood(t)
  PROVE  /\ TabGood(CancelPending(t))
         /\ CancelPending(t).entries = t.entries
         /\ CancelPending(t).request = t.request
BY FS_EmptySet DEF TabGood, TabState, CancelPending, Rows

\* submit_visible_folder_sizes, on any good tab.
LEMMA SubmitVisibleKeeps ==
  ASSUME NEW t, TabGood(t), SchedGood(sched), NEW window \in Windows, SubmitVisible(t, window)
  PROVE  SchedGood(sched')
<1> DEFINE inView == window \cap 1..Cardinality(VisibleEntries(t))
           looked == LookAt(sched, t.request, t.entries, inView)
           beginning == BeginCompleteSort(sched, t.request, t.entries)
<1>1. inView \in SUBSET (1..Folders)
  BY WindowsAssumption
<1>2. t.request \in Nat /\ Rows(t.entries)
  BY DEF TabGood, TabState
<1> HIDE DEF inView
<1>3. SchedGood(looked) /\ SchedGood(beginning)
  BY <1>1, <1>2, LookGood, BeginGood
<1>4. \/ sched' = [sched EXCEPT !.visible = {}]
      \/ Submit(t, beginning, NextComplete(beginning))
      \/ Submit(t, looked, NextVisible(looked, t.entries))
  BY DEF SubmitVisible, inView
<1> HIDE DEF looked, beginning
<1>5. CASE sched' = [sched EXCEPT !.visible = {}]
  BY <1>5 DEF SchedGood, SchedState
<1>6. CASE Submit(t, beginning, NextComplete(beginning))
  BY <1>3, <1>6, NextGood, SubmitKeeps
<1>7. CASE Submit(t, looked, NextVisible(looked, t.entries))
  BY <1>3, <1>7, NextGood, SubmitKeeps
<1>8. QED
  BY <1>4, <1>5, <1>6, <1>7

LEMMA ScrollKeeps == ASSUME SizesInv, NEW window \in Windows, Scroll(window) PROVE SizesInv'
<1>1. SchedGood(sched')
  BY SubmitVisibleKeeps DEF Scroll, SizesInv
<1>2. QED
  BY <1>1 DEF Scroll, SizesInv, ListingGood, AnswersOwn

LEMMA ChangeSortKeeps ==
  ASSUME SizesInv, NEW field \in {"Name", "Size"}, ChangeSort(field) PROVE SizesInv'
<1> DEFINE cancelled == Cancel(sched, tab.request)
           beginning == BeginCompleteSort(cancelled, tab.request, tab.entries)
<1>1. tab.request \in Nat /\ Rows(tab.entries) /\ SchedGood(sched)
  BY DEF SizesInv, TabGood, TabState
<1>2. SchedGood(cancelled) /\ SchedGood(beginning)
  BY <1>1, CancelGood, BeginGood
<1>3. Submit(tab, beginning, NextComplete(beginning)) \/ sched' = cancelled
  BY DEF ChangeSort
<1> HIDE DEF cancelled, beginning
<1>4. SchedGood(sched')
  BY <1>2, <1>3, NextGood, SubmitKeeps
<1>5. TabGood(tab')
  BY DEF ChangeSort, SizesInv, TabGood, TabState
<1>6. QED
  BY <1>4, <1>5 DEF ChangeSort, SizesInv, ListingGood, AnswersOwn

LEMMA NavigateKeeps ==
  ASSUME SizesInv, NEW p \in Place, NEW background \in BOOLEAN, Navigate(p, background)
  PROVE  SizesInv'
<1>1. TabGood(CancelPending(tab)) /\ tab.request \in Nat
  BY CancelPendingGood DEF SizesInv, TabGood, TabState
<1>2. TabGood(tab')
  <2> DEFINE c == CancelPending(tab)
  <2>1. tab' = [c EXCEPT !.request = @ + 1, !.cancel = "live", !.page = "Directory",
                  !.goal = p, !.load = "Loading", !.pending = {}, !.snapshot = {},
                  !.retain = background /\ (c.load = "Complete" \/ c.retain)]
    BY DEF Navigate
  <2>2. TabGood(c)
    BY <1>1
  <2> HIDE DEF c
  <2>3. (background /\ (c.load = "Complete" \/ c.retain)) \in BOOLEAN
    OBVIOUS
  <2>4. tab' \in TabState
    <3>1. c \in TabState
      BY <2>2 DEF TabGood
    <3>2. c.request + 1 \in Nat /\ {} \in SUBSET OwnRow
      BY <3>1 DEF TabState
    <3>3. QED
      BY <2>1, <2>3, <3>1, <3>2 DEF TabState
  <2>5. tab'.entries = c.entries /\ tab'.pending = {} /\ tab'.snapshot = {}
    BY <2>1, <2>2 DEF TabGood, TabState
  <2>6. QED
    BY <2>2, <2>4, <2>5, FS_EmptySet DEF TabGood, Rows
<1>3. SchedGood(sched')
  BY <1>1, CancelGood DEF Navigate, SizesInv
<1>4. ListingGood'
  BY DEF Navigate, ListingGood
<1>5. QED
  BY <1>2, <1>3, <1>4 DEF Navigate, SizesInv, AnswersOwn

LEMMA SearchKeeps == ASSUME SizesInv, Search PROVE SizesInv'
<1> DEFINE c == CancelPending(tab)
<1>1. TabGood(c)
  BY CancelPendingGood DEF SizesInv
<1>2. tab' = [c EXCEPT !.request = @ + 1, !.cancel = "live", !.page = "Search",
                 !.snapshot = IF c.page = "Directory" THEN c.entries ELSE @,
                 !.entries = {}, !.pending = {}, !.retain = FALSE]
  BY DEF Search
<1> HIDE DEF c
<1>3. TabGood(tab')
  <2>1. tab' \in TabState
    <3>1. c \in TabState
      BY <1>1 DEF TabGood
    <3>2. /\ c.request + 1 \in Nat /\ {} \in SUBSET OwnRow
          /\ (IF c.page = "Directory" THEN c.entries ELSE c.snapshot) \in SUBSET OwnRow
      BY <3>1 DEF TabState
    <3>3. QED
      BY <1>2, <3>1, <3>2 DEF TabState
  <2>2. /\ tab'.entries = {} /\ tab'.pending = {}
        /\ tab'.snapshot \in {c.entries, c.snapshot}
    BY <1>1, <1>2 DEF TabGood, TabState
  <2>3. QED
    BY <1>1, <2>1, <2>2, FS_EmptySet DEF TabGood, Rows
<1>4. QED
  BY <1>3 DEF Search, SizesInv, ListingGood, AnswersOwn

LEMMA CancelAddressEditKeeps == ASSUME SizesInv, CancelAddressEdit PROVE SizesInv'
<1> DEFINE c == CancelPending(tab)
<1>1. TabGood(c)
  BY CancelPendingGood DEF SizesInv
<1>2. \/ tab' = c
      \/ tab' = [c EXCEPT !.request = @ + 1, !.page = "Directory",
                          !.entries = c.snapshot, !.snapshot = {}]
  BY DEF CancelAddressEdit
<1> HIDE DEF c
<1>3. TabGood(tab')
  <2>1. tab' \in TabState
    <3>1. c \in TabState
      BY <1>1 DEF TabGood
    <3>2. c.request + 1 \in Nat /\ {} \in SUBSET OwnRow /\ c.snapshot \in SUBSET OwnRow
      BY <3>1 DEF TabState
    <3>3. QED
      BY <1>2, <3>1, <3>2 DEF TabState
  <2>2. /\ tab'.entries \in {c.entries, c.snapshot} /\ tab'.pending = c.pending
        /\ tab'.snapshot \in {c.snapshot, {}}
    BY <1>1, <1>2 DEF TabGood, TabState
  <2>3. QED
    BY <1>1, <2>1, <2>2, FS_EmptySet DEF TabGood, Rows
<1>4. QED
  BY <1>3 DEF CancelAddressEdit, SizesInv, ListingGood, AnswersOwn

\* New rows have no size yet.
LEMMA BatchKeeps == ASSUME SizesInv, Batch PROVE SizesInv'
<1> DEFINE IdOf(names, n) == listing.next + Cardinality({m \in names : m < n})
<1>1. PICK names \in (SUBSET listing.left) \ {{}} :
        /\ tab' = [tab EXCEPT !.load = "Partial",
                     !.pending = @ \cup {[id |-> IdOf(names, n), path |-> <<tab.goal, n>>,
                                          size |-> Unknown] : n \in names}]
        /\ listing' = [left |-> listing.left \ names,
                       next |-> listing.next + Cardinality(names)]
  BY DEF Batch
<1>2. names \subseteq 1..Folders /\ IsFiniteSet(names)
  <2>1. names \in SUBSET (1..Folders)
    BY DEF SizesInv, ListingGood
  <2>2. IsFiniteSet(1..Folders)
    BY FS_Interval, FoldersAssumption
  <2>3. QED
    BY <2>1, <2>2, FS_Subset
<1>3. \A n \in names : IdOf(names, n) \in Nat
  <2>1. \A n \in names : Cardinality({m \in names : m < n}) \in Nat
    BY <1>2, FS_Subset, FS_CardinalityType
  <2>2. QED
    BY <2>1 DEF SizesInv, ListingGood
<1> DEFINE f == [n \in names |-> [id |-> IdOf(names, n), path |-> <<tab.goal, n>>,
                                  size |-> Unknown]]
           new == {f[n] : n \in names}
<1>4. new \subseteq OwnRow
  <2>1. tab.goal \in Place
    BY DEF SizesInv, TabGood, TabState
  <2> SUFFICES ASSUME NEW n \in names PROVE f[n] \in OwnRow
    OBVIOUS
  <2>2. IdOf(names, n) \in Nat /\ <<tab.goal, n>> \in Path
    BY <1>2, <1>3, <2>1 DEF Path
  <2>3. f[n] = [id |-> IdOf(names, n), path |-> <<tab.goal, n>>, size |-> Unknown]
    OBVIOUS
  <2> HIDE DEF f, IdOf
  <2>4. QED
    BY <2>2, <2>3 DEF OwnRow
<1>5. IsFiniteSet(new)
  <2>1. DOMAIN f = names
    OBVIOUS
  <2> HIDE DEF f
  <2>2. QED
    BY <1>2, <2>1, RowsMapped
<1>6. tab' = [tab EXCEPT !.load = "Partial", !.pending = @ \cup new]
  BY <1>1
<1> HIDE DEF new
<1>7. TabGood(tab')
  BY <1>4, <1>5, <1>6, FS_Union DEF SizesInv, TabGood, TabState, Rows
<1>8. ListingGood'
  BY <1>1, <1>2, FS_CardinalityType DEF SizesInv, ListingGood
<1>9. QED
  BY <1>7, <1>8 DEF Batch, SizesInv, AnswersOwn

LEMMA FinishKeeps == ASSUME SizesInv, Finish PROVE SizesInv'
<1>1. TabGood(tab')
  BY FS_EmptySet DEF Finish, SizesInv, TabGood, TabState, Rows
<1>2. SchedGood(sched')
  BY <1>1, SubmitVisibleKeeps DEF Finish, SizesInv
<1>3. QED
  BY <1>1, <1>2 DEF Finish, SizesInv, ListingGood, AnswersOwn

\* Everything's answer, or the refusal of a full channel, names its own folder.
LEMMA ThreadsKeep == ASSUME SizesInv, Forward \/ Worker PROVE SizesInv'
<1>1. AnswersOwn'
  <2>1. CASE Forward
    BY <2>1 DEF Forward, SizesInv, AnswersOwn
  <2>2. CASE Collect
    BY <2>2 DEF Collect, SizesInv, AnswersOwn
  <2>3. CASE Ask
    BY <2>3 DEF Ask, SizesInv, AnswersOwn, SizeOf
  <2>4. QED
    BY <2>1, <2>2, <2>3 DEF Worker
<1>2. UNCHANGED <<tab, sched, listing>>
  BY DEF Forward, Worker, Collect, Ask
<1>3. QED
  BY <1>1, <1>2 DEF SizesInv, ListingGood

\* What an event does, whether the page accepts it or not.
LEMMA ApplyEventKeeps ==
  ASSUME SizesInv, ApplyEvent
  PROVE  /\ SizesInv'
         /\ sched'.snapshot = sched.snapshot
         /\ CommitsWhole(sched, tab.entries, tab'.entries)
<1> DEFINE e    == Head(events)
           done == IF AcceptsPage(tab, e.query.request)
                   THEN Complete(sched, e.query, e.size, tab.entries)
                   ELSE [sched |-> sched, rows |-> tab.entries, commit |-> "Ignored"]
           next == NextAfter(done.commit, done.sched, done.rows)
<1>1. e.size \in {TimedOut, e.query.key.path}
  BY DEF ApplyEvent, SizesInv, AnswersOwn
<1>2. SchedGood(sched) /\ Rows(tab.entries)
  BY DEF SizesInv, TabGood
<1> HIDE DEF e
<1>3. /\ SchedGood(done.sched) /\ Rows(done.rows)
      /\ done.sched.snapshot = sched.snapshot
      /\ CommitsWhole(sched, tab.entries, done.rows)
  <2>1. CASE AcceptsPage(tab, e.query.request)
    <3>1. done = Complete(sched, e.query, e.size, tab.entries)
      BY <2>1
    <3> HIDE DEF done
    <3>2. QED
      BY <1>1, <1>2, <3>1, CompleteGood
  <2>2. CASE ~AcceptsPage(tab, e.query.request)
    BY <1>2, <2>2 DEF CommitsWhole
  <2>3. QED
    BY <2>1, <2>2
<1>4. tab' = [tab EXCEPT !.entries = done.rows] /\ Submit(tab, done.sched, next)
  BY DEF ApplyEvent, e
<1> HIDE DEF done
<1>5. /\ next \in SUBSET Key
      /\ done.sched.strategy = "CompleteForSort" => next \subseteq done.sched.snapshot
  BY <1>3, NextGood DEF NextAfter
<1> HIDE DEF next
<1>6. SchedGood(sched') /\ sched'.snapshot = done.sched.snapshot
  BY <1>3, <1>4, <1>5, SubmitKeeps
<1>7. TabGood(tab') /\ tab'.entries = done.rows
  BY <1>3, <1>4 DEF SizesInv, TabGood, TabState, Rows
<1>8. AnswersOwn'
  BY DEF ApplyEvent, SizesInv, AnswersOwn
<1>9. QED
  BY <1>3, <1>6, <1>7, <1>8 DEF ApplyEvent, SizesInv, ListingGood

LEMMA SizesInductive == Spec => []SizesInv
<1>1. SizesInv /\ [Next]_vars => SizesInv'
  <2> SUFFICES ASSUME SizesInv, [Next]_vars PROVE SizesInv'
    OBVIOUS
  <2>1. CASE Gesture
    BY <2>1, ScrollKeeps, ChangeSortKeeps, NavigateKeeps, SearchKeeps, CancelAddressEditKeeps
    DEF Gesture
  <2>2. CASE Load
    BY <2>2, BatchKeeps, FinishKeeps DEF Load
  <2>3. CASE Forward \/ Worker
    BY <2>3, ThreadsKeep
  <2>4. CASE ApplyEvent
    BY <2>4, ApplyEventKeeps
  <2>5. CASE UNCHANGED vars
    BY <2>5 DEF vars, SizesInv, ListingGood, AnswersOwn
  <2>6. QED
    BY <2>1, <2>2, <2>3, <2>4, <2>5 DEF Next
<1>2. QED
  BY <1>1, InitHolds, PTL DEF Spec

-------------------------------------------------------------------------------
\* A row shows the size of its own folder or a failure, whatever answers overtake
\* (accepts_folder_size), for any number of folders, requests and scrolls.
THEOREM SizesAreOwn == Spec => []SizeIsOwn
<1>1. SizesInv => SizeIsOwn
  BY DEF SizesInv, TabGood, Rows, OwnRow, SizeIsOwn
<1>2. QED
  BY <1>1, SizesInductive, PTL

\* complete under a sort by size: a step of the sort changes no size on the screen or
\* leaves none of the frozen ones unknown, for any number of folders and slots.
THEOREM SortsCommitWhole == Spec => SortCommitsWhole
<1> DEFINE Whole ==
      sched.strategy = "CompleteForSort" /\ sched'.gen = sched.gen
      /\ tab'.request = tab.request /\ tab'.load = tab.load
      => \/ tab'.entries = tab.entries
         \/ \A row \in tab'.entries : KeyOf(row) \in sched'.snapshot => row.size # Unknown
<1>1. SizesInv /\ [Next]_vars => [Whole]_vars
  <2> SUFFICES ASSUME SizesInv, Next, sched.strategy = "CompleteForSort",
                      tab'.request = tab.request, tab'.load = tab.load
               PROVE  \/ tab'.entries = tab.entries
                      \/ \A row \in tab'.entries :
                           KeyOf(row) \in sched'.snapshot => row.size # Unknown
    BY DEF vars
  <2>1. tab \in TabState /\ TabGood(tab) /\ TabGood(CancelPending(tab))
        /\ CancelPending(tab).entries = tab.entries
        /\ CancelPending(tab).request = tab.request
    BY CancelPendingGood DEF SizesInv, TabGood
  <2>2. CASE ApplyEvent
    BY <2>2, ApplyEventKeeps DEF CommitsWhole
  <2>3. CASE \E window \in Windows : Scroll(window)
    BY <2>3 DEF Scroll
  <2>4. CASE \E field \in {"Name", "Size"} : ChangeSort(field)
    BY <2>1, <2>4 DEF ChangeSort, TabState
  <2>5. CASE \E p \in Place, background \in BOOLEAN : Navigate(p, background)
    <3>1. tab'.request = CancelPending(tab).request + 1
      BY <2>1, <2>5 DEF Navigate, TabGood, TabState
    <3>2. QED
      BY <2>1, <3>1 DEF TabState
  <2>6. CASE Search
    <3>1. tab'.request = CancelPending(tab).request + 1
      BY <2>1, <2>6 DEF Search, TabGood, TabState
    <3>2. QED
      BY <2>1, <3>1 DEF TabState
  <2>7. CASE CancelAddressEdit
    <3>1. tab' = CancelPending(tab) \/ tab'.request = CancelPending(tab).request + 1
      BY <2>1, <2>7 DEF CancelAddressEdit, TabGood, TabState
    <3>2. QED
      BY <2>1, <3>1 DEF TabState
  <2>8. CASE Batch
    BY <2>1, <2>8 DEF Batch, TabState
  <2>9. CASE Finish
    BY <2>1, <2>9 DEF Finish, TabState, Busy
  <2>10. CASE Forward \/ Worker
    BY <2>10 DEF Forward, Worker, Collect, Ask
  <2>11. QED
    BY <2>2, <2>3, <2>4, <2>5, <2>6, <2>7, <2>8, <2>9, <2>10 DEF Next, Gesture, Load
<1>2. QED
  BY <1>1, SizesInductive, PTL DEF Spec, SortCommitsWhole

-------------------------------------------------------------------------------
(* The keys asked for on the way, generation by generation.                  *)

\* Where the queries of a generation are, and what they ask for.
LiveAt(way, g) == {i \in DOMAIN way : way[i].gen = g}
Asked(way, g)  == {way[i].key : i \in LiveAt(way, g)}
Own(q, g)      == IF q.gen = g THEN {q.key} ELSE {}

\* No folder is asked for twice.
Once(way, g) == \A i, j \in LiveAt(way, g) : way[i].key = way[j].key => i = j

\* The queries of a stage apart, together, and moved on.
LEMMA HeadTaken ==
  ASSUME NEW S, NEW way \in Seq(S), way # <<>>, NEW g, Once(way, g)
  PROVE  /\ Once(Tail(way), g)
         /\ Asked(way, g) = Own(Head(way), g) \cup Asked(Tail(way), g)
         /\ Own(Head(way), g) \cap Asked(Tail(way), g) = {}
<1> DEFINE rest == Tail(way)
<1>1. /\ Len(way) \in Nat /\ DOMAIN way = 1..Len(way) /\ Len(way) # 0
      /\ rest \in Seq(S) /\ Len(rest) = Len(way) - 1 /\ DOMAIN rest = 1..Len(rest)
      /\ \A i \in 1..Len(rest) : rest[i] = way[i + 1]
  BY HeadTailProperties, LenProperties, EmptySeq
<1>2. 1 \in DOMAIN way /\ Head(way) = way[1]
  BY <1>1
<1> HIDE DEF rest
<1>3. \A i \in DOMAIN rest : i \in Nat /\ i + 1 \in DOMAIN way /\ i + 1 # 1 /\ rest[i] = way[i + 1]
  BY <1>1
<1>4. \A i \in DOMAIN way : i # 1 => i - 1 \in DOMAIN rest /\ rest[i - 1] = way[i]
  <2> SUFFICES ASSUME NEW i \in DOMAIN way, i # 1
               PROVE  i - 1 \in DOMAIN rest /\ rest[i - 1] = way[i]
    OBVIOUS
  <2>1. i - 1 \in 1..Len(rest) /\ (i - 1) + 1 = i
    BY <1>1
  <2>2. QED
    BY <1>1, <2>1
<1>5. \A i \in LiveAt(rest, g) : i \in Nat /\ i + 1 \in LiveAt(way, g) /\ way[i + 1].key = rest[i].key
  BY <1>3 DEF LiveAt
<1>6. Once(rest, g)
  <2> SUFFICES ASSUME NEW i \in LiveAt(rest, g), NEW j \in LiveAt(rest, g),
                      rest[i].key = rest[j].key
               PROVE  i = j
    BY DEF Once
  <2>1. i + 1 = j + 1
    BY <1>5 DEF Once
  <2>2. QED
    BY <1>5, <2>1
<1>7. Asked(way, g) \subseteq Own(Head(way), g) \cup Asked(rest, g)
  <2> SUFFICES ASSUME NEW i \in DOMAIN way, way[i].gen = g
               PROVE  way[i].key \in Own(Head(way), g) \cup Asked(rest, g)
    BY DEF Asked, LiveAt
  <2>1. CASE i = 1
    BY <1>2, <2>1 DEF Own
  <2>2. CASE i # 1
    BY <1>4, <2>2 DEF Asked, LiveAt
  <2>3. QED
    BY <2>1, <2>2
<1>8. Own(Head(way), g) \cup Asked(rest, g) \subseteq Asked(way, g)
  BY <1>2, <1>5 DEF Asked, Own, LiveAt
<1>9. ASSUME way[1].gen = g, NEW i \in LiveAt(rest, g) PROVE rest[i].key # way[1].key
  <2>1. 1 \in LiveAt(way, g) /\ i + 1 \in LiveAt(way, g) /\ i + 1 # 1 /\ way[i + 1].key = rest[i].key
    BY <1>2, <1>3, <1>5, <1>9 DEF LiveAt
  <2>2. QED
    BY <2>1 DEF Once
<1>10. Own(Head(way), g) \cap Asked(rest, g) = {}
  BY <1>2, <1>9 DEF Own, Asked
<1>11. QED
  BY <1>6, <1>7, <1>8, <1>10 DEF rest

LEMMA StagesJoined ==
  ASSUME NEW S, NEW w1 \in Seq(S), NEW w2 \in Seq(S), NEW g
  PROVE  /\ Asked(w1 \o w2, g) = Asked(w1, g) \cup Asked(w2, g)
         /\ Once(w1, g) /\ Once(w2, g) /\ Asked(w1, g) \cap Asked(w2, g) = {} => Once(w1 \o w2, g)
<1> DEFINE all == w1 \o w2
           n1  == Len(w1)
           n2  == Len(w2)
<1>1. /\ n1 \in Nat /\ DOMAIN w1 = 1..n1 /\ n2 \in Nat /\ DOMAIN w2 = 1..n2
  BY LenProperties
<1>2. /\ all \in Seq(S) /\ Len(all) = n1 + n2
      /\ \A i \in 1..(n1 + n2) : all[i] = IF i <= n1 THEN w1[i] ELSE w2[i - n1]
  BY ConcatProperties
<1>3. DOMAIN all = 1..(n1 + n2)
  BY <1>2, LenProperties
<1> HIDE DEF all, n1, n2
<1>4. \A i \in DOMAIN w1 : i \in DOMAIN all /\ all[i] = w1[i]
  BY <1>1, <1>2, <1>3
<1>5. \A i \in DOMAIN w2 : i + n1 \in DOMAIN all /\ all[i + n1] = w2[i]
  <2> SUFFICES ASSUME NEW i \in DOMAIN w2
               PROVE  i + n1 \in DOMAIN all /\ all[i + n1] = w2[i]
    OBVIOUS
  <2>1. i + n1 \in 1..(n1 + n2) /\ ~(i + n1 <= n1) /\ (i + n1) - n1 = i
    BY <1>1
  <2>2. QED
    BY <1>2, <1>3, <2>1
<1>6. \A i \in DOMAIN all : \/ i \in DOMAIN w1 /\ all[i] = w1[i]
                            \/ i - n1 \in DOMAIN w2 /\ all[i] = w2[i - n1]
  <2> SUFFICES ASSUME NEW i \in 1..(n1 + n2)
               PROVE  \/ i \in DOMAIN w1 /\ all[i] = w1[i]
                      \/ i - n1 \in DOMAIN w2 /\ all[i] = w2[i - n1]
    BY <1>3
  <2>1. IF i <= n1 THEN i \in 1..n1 ELSE i - n1 \in 1..n2
    BY <1>1
  <2>2. QED
    BY <1>1, <1>2, <2>1
<1>7. Asked(all, g) \subseteq Asked(w1, g) \cup Asked(w2, g)
  BY <1>6 DEF Asked, LiveAt
<1>8. Asked(w1, g) \subseteq Asked(all, g) /\ Asked(w2, g) \subseteq Asked(all, g)
  BY <1>4, <1>5 DEF Asked, LiveAt
<1>9. ASSUME Once(w1, g), Once(w2, g), Asked(w1, g) \cap Asked(w2, g) = {}
      PROVE  Once(all, g)
  <2> SUFFICES ASSUME NEW i \in DOMAIN all, NEW j \in DOMAIN all, all[i].gen = g, all[j].gen = g,
                      all[i].key = all[j].key
               PROVE  i = j
    BY DEF Once, LiveAt
  <2>1. CASE i \in DOMAIN w1 /\ all[i] = w1[i] /\ j \in DOMAIN w1 /\ all[j] = w1[j]
    BY <1>9, <2>1 DEF Once, LiveAt
  <2>2. ASSUME NEW x \in DOMAIN w1, NEW y \in DOMAIN w2, w1[x].gen = g, w2[y].gen = g
        PROVE  w1[x].key # w2[y].key
    BY <1>9, <2>2 DEF Asked, LiveAt
  <2>3. CASE /\ i - n1 \in DOMAIN w2 /\ all[i] = w2[i - n1]
             /\ j - n1 \in DOMAIN w2 /\ all[j] = w2[j - n1]
    <3>1. i - n1 = j - n1
      BY <1>9, <2>3 DEF Once, LiveAt
    <3>2. i \in Nat /\ j \in Nat
      BY <1>1, <1>3
    <3>3. QED
      BY <1>1, <3>1, <3>2
  <2>4. QED
    BY <1>6, <2>1, <2>2, <2>3
<1>10. QED
  BY <1>7, <1>8, <1>9 DEF all

LEMMA QueryAdded ==
  ASSUME NEW S, NEW way \in Seq(S), NEW q \in S, NEW g
  PROVE  /\ Asked(Append(way, q), g) = Asked(way, g) \cup Own(q, g)
         /\ Once(way, g) /\ Own(q, g) \cap Asked(way, g) = {} => Once(Append(way, q), g)
<1>1. <<q>> \in Seq(S) /\ Append(way, q) = way \o <<q>>
  BY AppendIsConcat
<1>2. DOMAIN <<q>> = {1} /\ <<q>>[1] = q
  OBVIOUS
<1> DEFINE one == <<q>>
<1> HIDE DEF one
<1>3. Asked(one, g) = Own(q, g) /\ Once(one, g)
  BY <1>2 DEF Asked, Own, LiveAt, Once, one
<1>4. one \in Seq(S) /\ Append(way, q) = way \o one
  BY <1>1 DEF one
<1>5. /\ Asked(way \o one, g) = Asked(way, g) \cup Asked(one, g)
      /\ Once(way, g) /\ Once(one, g) /\ Asked(way, g) \cap Asked(one, g) = {}
         => Once(way \o one, g)
  BY <1>4, StagesJoined
<1>6. QED
  BY <1>3, <1>4, <1>5

\* Queries of other generations ask for nothing.
LEMMA OldAskNothing ==
  ASSUME NEW way, NEW g, \A i \in DOMAIN way : way[i].gen # g
  PROVE  Asked(way, g) = {} /\ Once(way, g)
BY DEF Asked, Once, LiveAt

-------------------------------------------------------------------------------
(* The four stages.                                                          *)

\* A query as the scheduler s may have sent it: what bears its generation is its
\* own.
QueryOf(s) ==
  {q \in [request : Nat, gen : Nat, strategy : {"VisibleRange", "CompleteForSort"}, key : Key] :
     q.gen <= s.gen /\ (q.gen = s.gen => q.request = s.request /\ q.strategy = s.strategy)}

AnswerTo(s) == {e \in [query : QueryOf(s), size : Terminal] : TRUE}

Queries(ev) == [i \in DOMAIN ev |-> ev[i].query]

Apart(w1, w2, g) == Asked(w1, g) \cap Asked(w2, g) = {}

\* In the four stages together, each of keys is asked for once.
Carries(w1, w2, w3, w4, g, keys) ==
  /\ Once(w1, g) /\ Once(w2, g) /\ Once(w3, g) /\ Once(w4, g)
  /\ Apart(w1, w2, g) /\ Apart(w1, w3, g) /\ Apart(w1, w4, g)
  /\ Apart(w2, w3, g) /\ Apart(w2, w4, g) /\ Apart(w3, w4, g)
  /\ keys = Asked(w1, g) \cup Asked(w2, g) \cup Asked(w3, g) \cup Asked(w4, g)

Sent(s, rq, ch, ba, ev) ==
  /\ rq \in Seq(QueryOf(s)) /\ ch \in Seq(QueryOf(s)) /\ ba \in Seq(QueryOf(s))
  /\ ev \in Seq(AnswerTo(s))

\* While the page is accepted, the stages carry what is under way, and nothing
\* waits to be sent.
Carried(t, s, rq, ch, ba, ev) ==
  AcceptsPage(t, s.request) =>
    s.queued = {} /\ Carries(rq, ch, ba, Queries(ev), s.gen, s.inflight)

UnderWay(t, s, rq, ch, ba, ev) ==
  /\ t.request \in Nat /\ s.request \in Nat /\ s.gen \in Nat /\ s.request <= t.request
  /\ Sent(s, rq, ch, ba, ev)
  /\ Carried(t, s, rq, ch, ba, ev)

\* What the answers name, stage by stage.
LEMMA QueriesOfAnswers ==
  ASSUME NEW s, NEW ev \in Seq(AnswerTo(s))
  PROVE  /\ Queries(ev) \in Seq(QueryOf(s))
         /\ \A e \in AnswerTo(s) : Queries(Append(ev, e)) = Append(Queries(ev), e.query)
         /\ ev # <<>> => /\ Queries(ev) # <<>> /\ Head(Queries(ev)) = Head(ev).query
                         /\ Queries(Tail(ev)) = Tail(Queries(ev))
                         /\ Head(ev) \in AnswerTo(s)
<1> DEFINE qs == Queries(ev)
<1>1. Len(ev) \in Nat /\ DOMAIN ev = 1..Len(ev) /\ \A i \in 1..Len(ev) : ev[i] \in AnswerTo(s)
  BY LenProperties, ElementOfSeq
<1>2. \A i \in 1..Len(ev) : ev[i].query \in QueryOf(s)
  BY <1>1 DEF AnswerTo
<1>3. qs \in Seq(QueryOf(s)) /\ Len(qs) = Len(ev) /\ \A i \in 1..Len(ev) : qs[i] = ev[i].query
  <2>1. qs \in [1..Len(ev) -> QueryOf(s)]
    BY <1>1, <1>2 DEF Queries
  <2>2. QED
    BY <1>1, <2>1, IsASeq DEF Queries
<1>4. ASSUME NEW e \in AnswerTo(s) PROVE Queries(Append(ev, e)) = Append(qs, e.query)
  <2> DEFINE ev2 == Append(ev, e)
             qs2 == Append(qs, e.query)
  <2>1. /\ ev2 \in Seq(AnswerTo(s)) /\ Len(ev2) = Len(ev) + 1
        /\ \A i \in 1..Len(ev) : ev2[i] = ev[i]
        /\ ev2[Len(ev) + 1] = e
    BY <1>4, AppendProperties
  <2>2. DOMAIN ev2 = 1..(Len(ev) + 1)
    BY <2>1, LenProperties
  <2>3. e.query \in QueryOf(s)
    BY <1>4 DEF AnswerTo
  <2>4. /\ qs2 \in Seq(QueryOf(s)) /\ Len(qs2) = Len(ev) + 1
        /\ \A i \in 1..Len(ev) : qs2[i] = qs[i]
        /\ qs2[Len(ev) + 1] = e.query
    <3> HIDE DEF qs
    <3>1. QED
      BY <1>3, <2>3, AppendProperties
  <2>5. DOMAIN qs2 = 1..(Len(ev) + 1) /\ qs2 = [i \in DOMAIN qs2 |-> qs2[i]]
    BY <2>4, LenProperties
  <2> HIDE DEF ev2, qs2, qs
  <2>6. \A i \in 1..(Len(ev) + 1) : qs2[i] = ev2[i].query
    <3> SUFFICES ASSUME NEW i \in 1..(Len(ev) + 1) PROVE qs2[i] = ev2[i].query
      OBVIOUS
    <3>1. i \in 1..Len(ev) \/ i = Len(ev) + 1
      BY <1>1
    <3>2. QED
      BY <1>3, <2>1, <2>4, <3>1
  <2>7. Queries(ev2) = qs2
    BY <2>2, <2>5, <2>6 DEF Queries
  <2>8. QED
    BY <2>7 DEF ev2, qs2
<1>5. ASSUME ev # <<>>
      PROVE  /\ qs # <<>> /\ Head(qs) = Head(ev).query
             /\ Queries(Tail(ev)) = Tail(qs)
             /\ Head(ev) \in AnswerTo(s)
  <2> DEFINE ev2 == Tail(ev)
             qs2 == Tail(qs)
  <2>1. Len(ev) # 0
    BY <1>5, EmptySeq
  <2>2. qs # <<>>
    <3> HIDE DEF qs
    <3>1. QED
      BY <1>3, <2>1, EmptySeq
  <2>3. /\ Head(ev) \in AnswerTo(s) /\ Head(ev) = ev[1] /\ Len(ev2) = Len(ev) - 1
        /\ ev2 \in Seq(AnswerTo(s))
        /\ \A i \in 1..Len(ev2) : ev2[i] = ev[i + 1]
    BY <1>5, HeadTailProperties
  <2>4. /\ Head(qs) = qs[1] /\ qs2 \in Seq(QueryOf(s)) /\ Len(qs2) = Len(ev) - 1
        /\ \A i \in 1..Len(qs2) : qs2[i] = qs[i + 1]
    <3> HIDE DEF qs
    <3>1. QED
      BY <1>3, <2>2, HeadTailProperties
  <2>5. /\ DOMAIN ev2 = 1..Len(ev2) /\ DOMAIN qs2 = 1..Len(qs2)
        /\ qs2 = [i \in DOMAIN qs2 |-> qs2[i]]
    BY <2>3, <2>4, LenProperties
  <2> HIDE DEF ev2, qs2, qs
  <2>6. \A i \in 1..Len(ev2) : qs2[i] = ev2[i].query
    <3> SUFFICES ASSUME NEW i \in 1..Len(ev2) PROVE qs2[i] = ev2[i].query
      OBVIOUS
    <3>1. i + 1 \in 1..Len(ev)
      BY <1>1, <2>3
    <3>2. QED
      BY <1>3, <2>3, <2>4, <3>1
  <2>7. Queries(ev2) = qs2
    BY <2>3, <2>4, <2>5, <2>6 DEF Queries
  <2>8. 1 \in 1..Len(ev)
    BY <1>1, <2>1
  <2>9. QED
    BY <1>3, <2>2, <2>3, <2>4, <2>7, <2>8 DEF ev2, qs2
<1>6. QED
  BY <1>3, <1>4, <1>5

\* Sequences over a smaller set are sequences over a larger one.
LEMMA SeqWidens ==
  ASSUME NEW S, NEW T, S \subseteq T, NEW way \in Seq(S)
  PROVE  way \in Seq(T)
<1>1. Len(way) \in Nat /\ way \in [1..Len(way) -> S]
  BY LenProperties
<1>2. way \in [1..Len(way) -> T]
  BY <1>1
<1>3. QED
  BY <1>1, <1>2, IsASeq

\* A scheduler of the same generation, request and strategy, or of a later one,
\* may have sent what there is.
LEMMA SentBefore ==
  ASSUME NEW s, NEW s2, NEW rq, NEW ch, NEW ba, NEW ev, Sent(s, rq, ch, ba, ev),
         s.gen \in Nat, s2.gen \in Nat,
         \/ s2.gen = s.gen /\ s2.request = s.request /\ s2.strategy = s.strategy
         \/ s2.gen > s.gen
  PROVE  Sent(s2, rq, ch, ba, ev)
<1>1. QueryOf(s) \subseteq QueryOf(s2)
  BY DEF QueryOf
<1>2. AnswerTo(s) \subseteq AnswerTo(s2)
  BY <1>1 DEF AnswerTo
<1>3. QED
  BY <1>1, <1>2, SeqWidens DEF Sent

\* After cancel, or the start of a sort, nothing is under way.
LEMMA RestartUnderWay ==
  ASSUME NEW t, NEW s, NEW rq, NEW ch, NEW ba, NEW ev, UnderWay(t, s, rq, ch, ba, ev),
         NEW s2, s2.gen = s.gen + 1, s2.request \in Nat, s2.request <= t.request,
         s2.queued = {}, s2.inflight = {}
  PROVE  UnderWay(t, s2, rq, ch, ba, ev)
<1>1. s.gen \in Nat /\ s2.gen \in Nat /\ s2.gen > s.gen /\ Sent(s, rq, ch, ba, ev)
  BY DEF UnderWay
<1>2. Sent(s2, rq, ch, ba, ev)
  BY <1>1, SentBefore
<1>3. ASSUME NEW way \in Seq(QueryOf(s)) PROVE Asked(way, s2.gen) = {} /\ Once(way, s2.gen)
  <2>1. \A i \in DOMAIN way : way[i] \in QueryOf(s)
    BY LenProperties, ElementOfSeq
  <2>2. \A i \in DOMAIN way : way[i].gen \in Nat /\ way[i].gen <= s.gen
    BY <2>1 DEF QueryOf
  <2>3. QED
    BY <1>1, <2>2, OldAskNothing
<1>4. Queries(ev) \in Seq(QueryOf(s))
  BY <1>1, QueriesOfAnswers DEF Sent
<1>5. Carries(rq, ch, ba, Queries(ev), s2.gen, {})
  BY <1>1, <1>3, <1>4 DEF Carries, Apart, Sent
<1>6. QED
  BY <1>1, <1>2, <1>5 DEF UnderWay, Carried

\* A page that is left stays left, and what else the scheduler keeps does not
\* matter.
LEMMA SameUnderWay ==
  ASSUME NEW t, NEW s, NEW rq, NEW ch, NEW ba, NEW ev, UnderWay(t, s, rq, ch, ba, ev),
         NEW t2, t2.request \in Nat, t2.request >= t.request,
         AcceptsPage(t2, s.request) => AcceptsPage(t, s.request),
         NEW s2, s2.gen = s.gen, s2.request = s.request, s2.strategy = s.strategy,
         s2.queued = s.queued, s2.inflight = s.inflight
  PROVE  UnderWay(t2, s2, rq, ch, ba, ev)
<1>1. Sent(s2, rq, ch, ba, ev)
  BY SentBefore DEF UnderWay
<1>2. s2.request <= t2.request
  BY DEF UnderWay
<1>3. QED
  BY <1>1, <1>2 DEF UnderWay, Carried

\* What a submission sends: a query for each key, once.
LEMMA SentInOrder ==
  ASSUME NEW s, SchedGood(s), NEW keys \in SUBSET Key, IsFiniteSet(keys),
         NEW ordered \in InListingOrder(keys), NEW new,
         new = [i \in DOMAIN ordered |->
                  [request |-> s.request, gen |-> s.gen, strategy |-> s.strategy,
                   key |-> ordered[i]]]
  PROVE  new \in Seq(QueryOf(s)) /\ Asked(new, s.gen) = keys /\ Once(new, s.gen)
<1> DEFINE n == Cardinality(keys)
<1>1. n \in Nat
  BY FS_CardinalityType
<1>2. /\ ordered \in [1..n -> keys]
      /\ \A k \in keys : \E i \in 1..n : ordered[i] = k
      /\ \A i, j \in 1..n : ordered[i] = ordered[j] => i = j
  BY DEF InListingOrder, Bijection, Injection, Surjection, IsInjective
<1> HIDE DEF n
<1>3. /\ s.request \in Nat /\ s.gen \in Nat /\ s.strategy \in {"VisibleRange", "CompleteForSort"}
  BY DEF SchedGood, SchedState
<1>4. \A i \in 1..n : new[i] \in QueryOf(s) /\ new[i].gen = s.gen /\ new[i].key = ordered[i]
  BY <1>2, <1>3 DEF QueryOf
<1>5. DOMAIN new = 1..n /\ new \in [1..n -> QueryOf(s)]
  BY <1>2, <1>4
<1>6. new \in Seq(QueryOf(s))
  BY <1>1, <1>5, IsASeq
<1>7. LiveAt(new, s.gen) = 1..n
  BY <1>4, <1>5 DEF LiveAt
<1>8. Asked(new, s.gen) = keys
  <2>1. Asked(new, s.gen) = {new[i].key : i \in 1..n}
    BY <1>7 DEF Asked
  <2>2. \A i \in 1..n : new[i].key = ordered[i] /\ ordered[i] \in keys
    BY <1>2, <1>4
  <2>3. keys \subseteq {new[i].key : i \in 1..n}
    BY <1>2, <2>2
  <2>4. {new[i].key : i \in 1..n} \subseteq keys
    BY <2>2
  <2>5. QED
    BY <2>1, <2>3, <2>4
<1>9. Once(new, s.gen)
  <2>1. \A i \in 1..n : new[i].key = ordered[i]
    BY <1>4
  <2>2. \A i, j \in 1..n : new[i].key = new[j].key => i = j
    BY <1>2, <2>1
  <2>3. QED
    BY <1>7, <2>2 DEF Once
<1>10. QED
  BY <1>6, <1>8, <1>9

\* A submission of keys that are not taken.
LEMMA SubmitUnderWay ==
  ASSUME NEW t, NEW s, SchedGood(s), NEW ch, NEW ba, NEW ev, UnderWay(t, s, requests, ch, ba, ev),
         NEW keys \in SUBSET Key, IsFiniteSet(keys), keys \cap Taken(s) = {},
         Submit(t, s, keys)
  PROVE  UnderWay(t, sched', requests', ch, ba, ev)
<1>1. CASE ~AcceptsPage(t, s.request)
  <2>1. sched' = [s EXCEPT !.queued = @ \cup keys] /\ requests' = requests
    BY <1>1 DEF Submit
  <2>2. sched'.gen = s.gen /\ sched'.request = s.request /\ sched'.strategy = s.strategy
    BY <2>1 DEF SchedGood, SchedState
  <2>3. Sent(sched', requests, ch, ba, ev)
    BY <2>2, SentBefore DEF UnderWay
  <2>4. QED
    BY <1>1, <2>1, <2>2, <2>3 DEF UnderWay, Carried
<1>2. CASE AcceptsPage(t, s.request)
  <2>1. /\ sched' = [s EXCEPT !.inflight = @ \cup keys]
        /\ \E ordered \in InListingOrder(keys) :
             requests' = requests \o
               [i \in DOMAIN ordered |->
                  [request |-> s.request, gen |-> s.gen, strategy |-> s.strategy,
                   key |-> ordered[i]]]
    BY <1>2 DEF Submit
  <2>2. PICK ordered \in InListingOrder(keys) :
          requests' = requests \o
            [i \in DOMAIN ordered |->
               [request |-> s.request, gen |-> s.gen, strategy |-> s.strategy,
                key |-> ordered[i]]]
    BY <2>1
  <2> DEFINE new == [i \in DOMAIN ordered |->
                       [request |-> s.request, gen |-> s.gen, strategy |-> s.strategy,
                        key |-> ordered[i]]]
             g   == s.gen
  <2>3. requests' = requests \o new
    BY <2>2
  <2>4. new \in Seq(QueryOf(s)) /\ Asked(new, g) = keys /\ Once(new, g)
    BY SentInOrder
  <2> HIDE DEF new
  <2>5. /\ sched'.gen = g /\ sched'.request = s.request /\ sched'.strategy = s.strategy
        /\ sched'.queued = s.queued /\ sched'.inflight = s.inflight \cup keys
    BY <2>1 DEF SchedGood, SchedState
  <2>6. requests \in Seq(QueryOf(s)) /\ Sent(s, requests, ch, ba, ev)
    BY DEF UnderWay, Sent
  <2>7. Sent(s, requests', ch, ba, ev)
    BY <2>3, <2>4, <2>6, ConcatProperties DEF Sent
  <2>8. Sent(sched', requests', ch, ba, ev)
    BY <2>5, <2>7, SentBefore DEF UnderWay
  <2>9. s.queued = {} /\ Carries(requests, ch, ba, Queries(ev), g, s.inflight)
    BY <1>2 DEF UnderWay, Carried
  <2>10. keys \cap s.inflight = {}
    BY DEF Taken
  <2>11. /\ Asked(requests', g) = Asked(requests, g) \cup keys
         /\ Once(requests, g) /\ Asked(requests, g) \cap keys = {} => Once(requests', g)
    BY <2>3, <2>4, <2>6, StagesJoined
  <2>12. Carries(requests', ch, ba, Queries(ev), g, s.inflight \cup keys)
    <3> HIDE DEF g
    <3>1. QED
      BY <2>9, <2>10, <2>11 DEF Carries, Apart
  <2>13. QED
    BY <2>5, <2>8, <2>9, <2>12 DEF UnderWay, Carried
<1>3. QED
  BY <1>1, <1>2

\* What is asked for next is not taken, and finite.
LEMMA NextIsNew ==
  ASSUME NEW s, SchedGood(s), NEW rows, Rows(rows)
  PROVE  /\ NextVisible(s, rows) \cap Taken(s) = {} /\ IsFiniteSet(NextVisible(s, rows))
         /\ NextComplete(s) \cap Taken(s) = {} /\ IsFiniteSet(NextComplete(s))
<1>1. NextVisible(s, rows) \subseteq {KeyOf(row) : row \in rows}
  <2> SUFFICES ASSUME NEW k \in NextVisible(s, rows) PROVE \E row \in rows : k = KeyOf(row)
    OBVIOUS
  <2>1. PICK w \in s.visible : k = KeyOf(w) /\ \E row \in RowAt(rows, w.at) : AcceptsSize(row, KeyOf(w))
    BY DEF NextVisible, FirstOf
  <2>2. PICK row \in RowAt(rows, w.at) : AcceptsSize(row, KeyOf(w))
    BY <2>1
  <2>3. row \in rows
    BY <2>2 DEF RowAt, FirstOf
  <2>4. k = KeyOf(row)
    BY <2>1, <2>2 DEF AcceptsSize, KeyOf
  <2>5. QED
    BY <2>3, <2>4
<1>2. NextVisible(s, rows) \cap Taken(s) = {}
  BY DEF NextVisible, FirstOf
<1>3. NextComplete(s) \subseteq s.snapshot /\ NextComplete(s) \cap Taken(s) = {}
  BY DEF NextComplete, FirstOf
<1>4. IsFiniteSet({KeyOf(row) : row \in rows}) /\ IsFiniteSet(s.snapshot)
  BY KeysOfRows DEF SchedGood
<1>5. QED
  BY <1>1, <1>2, <1>3, <1>4, FS_Subset

-------------------------------------------------------------------------------
(* The steps, and what is under way.                                         *)

SizesUnderWay == UnderWay(tab, sched, requests, channel, batch, events)

LEMMA SubmitVisibleUnderWay ==
  ASSUME NEW t, TabGood(t), SchedGood(sched), NEW window \in Windows, SubmitVisible(t, window),
         UnderWay(t, sched, requests, channel, batch, events)
  PROVE  UnderWay(t, sched', requests', channel, batch, events)
<1> DEFINE inView == window \cap 1..Cardinality(VisibleEntries(t))
           looked == LookAt(sched, t.request, t.entries, inView)
           beginning == BeginCompleteSort(sched, t.request, t.entries)
<1>1. inView \in SUBSET (1..Folders)
  BY WindowsAssumption
<1>2. t.request \in Nat /\ Rows(t.entries)
  BY DEF TabGood, TabState
<1> HIDE DEF inView
<1>3. SchedGood(looked) /\ SchedGood(beginning)
  BY <1>1, <1>2, LookGood, BeginGood
<1>4. UnderWay(t, beginning, requests, channel, batch, events)
  <2>1. /\ beginning.gen = sched.gen + 1 /\ beginning.request = t.request
        /\ beginning.queued = {} /\ beginning.inflight = {}
    BY DEF BeginCompleteSort, Cancel
  <2> HIDE DEF beginning
  <2>2. t.request <= t.request
    BY <1>2
  <2>3. QED
    BY <1>2, <2>1, <2>2, RestartUnderWay
<1>5. UnderWay(t, looked, requests, channel, batch, events)
  <2> DEFINE c == IF sched.request # t.request \/ sched.strategy # "VisibleRange"
                  THEN Cancel(sched, t.request) ELSE sched
  <2>1. UnderWay(t, c, requests, channel, batch, events)
    <3> DEFINE fresh == Cancel(sched, t.request)
    <3>1. /\ fresh.gen = sched.gen + 1 /\ fresh.request = t.request
          /\ fresh.queued = {} /\ fresh.inflight = {}
      BY DEF Cancel
    <3>2. t.request <= t.request
      BY <1>2
    <3>3. c = fresh \/ c = sched
      OBVIOUS
    <3> HIDE DEF fresh, c
    <3>4. UnderWay(t, fresh, requests, channel, batch, events)
      BY <1>2, <3>1, <3>2, RestartUnderWay
    <3>5. QED
      BY <3>3, <3>4
  <2>2. SchedGood(c)
    BY <1>2, CancelGood
  <2>3. \E v : looked = [c EXCEPT !.visible = v]
    BY DEF LookAt
  <2> HIDE DEF c, looked
  <2>4. /\ looked.gen = c.gen /\ looked.request = c.request /\ looked.strategy = c.strategy
        /\ looked.queued = c.queued /\ looked.inflight = c.inflight
    BY <2>2, <2>3 DEF SchedGood, SchedState
  <2>5. t.request >= t.request
    BY <1>2
  <2>6. QED
    BY <1>2, <2>1, <2>4, <2>5, SameUnderWay
<1>6. \/ sched' = [sched EXCEPT !.visible = {}] /\ requests' = requests
      \/ Submit(t, beginning, NextComplete(beginning))
      \/ Submit(t, looked, NextVisible(looked, t.entries))
  BY DEF SubmitVisible, inView
<1> HIDE DEF looked, beginning
<1>7. CASE sched' = [sched EXCEPT !.visible = {}] /\ requests' = requests
  <2>1. /\ sched'.gen = sched.gen /\ sched'.request = sched.request
        /\ sched'.strategy = sched.strategy
        /\ sched'.queued = sched.queued /\ sched'.inflight = sched.inflight
    BY <1>7 DEF SchedGood, SchedState
  <2>2. t.request >= t.request
    BY <1>2
  <2>3. QED
    BY <1>2, <1>7, <2>1, <2>2, SameUnderWay
<1>8. CASE Submit(t, beginning, NextComplete(beginning))
  BY <1>2, <1>3, <1>4, <1>8, NextGood, NextIsNew, SubmitUnderWay
<1>9. CASE Submit(t, looked, NextVisible(looked, t.entries))
  BY <1>2, <1>3, <1>5, <1>9, NextGood, NextIsNew, SubmitUnderWay
<1>10. QED
  BY <1>6, <1>7, <1>8, <1>9

\* An empty stage asks for nothing.
LEMMA EmptyAsksNothing == ASSUME NEW g PROVE Asked(<<>>, g) = {} /\ Once(<<>>, g)
<1>1. \A i \in DOMAIN <<>> : FALSE
  OBVIOUS
<1> DEFINE none == <<>>
<1> HIDE DEF none
<1>2. Asked(none, g) = {} /\ Once(none, g)
  BY <1>1, OldAskNothing DEF none
<1>3. QED
  BY <1>2 DEF none

\* Forward: a query goes to the folder worker, or comes back refused.
LEMMA ForwardUnderWay == ASSUME SizesUnderWay, Forward PROVE SizesUnderWay'
<1> DEFINE q == Head(requests)
           g == sched.gen
           answer == [query |-> q, size |-> TimedOut]
           asked == Queries(events)
<1>1. /\ Sent(sched, requests, channel, batch, events)
      /\ tab' = tab /\ sched' = sched /\ batch' = batch
      /\ requests # <<>> /\ requests' = Tail(requests)
  BY DEF SizesUnderWay, UnderWay, Forward
<1>2. q \in QueryOf(sched) /\ requests' \in Seq(QueryOf(sched))
  BY <1>1, HeadTailProperties DEF Sent
<1>3. answer \in AnswerTo(sched)
  BY <1>2 DEF AnswerTo, Terminal
<1>4. CASE channel' = Append(channel, q) /\ events' = events
  <2>1. Sent(sched, requests', channel', batch, events)
    BY <1>1, <1>2, <1>4, AppendProperties DEF Sent
  <2>2. ASSUME AcceptsPage(tab, sched.request)
        PROVE  sched.queued = {} /\ Carries(requests', channel', batch, asked, g, sched.inflight)
    <3>1. sched.queued = {} /\ Carries(requests, channel, batch, asked, g, sched.inflight)
      BY <2>2 DEF SizesUnderWay, UnderWay, Carried
    <3>2. /\ Once(requests', g) /\ Asked(requests, g) = Own(q, g) \cup Asked(requests', g)
          /\ Own(q, g) \cap Asked(requests', g) = {}
      BY <1>1, <3>1, HeadTaken DEF Carries, Sent
    <3>3. /\ Asked(channel', g) = Asked(channel, g) \cup Own(q, g)
          /\ Once(channel, g) /\ Own(q, g) \cap Asked(channel, g) = {} => Once(channel', g)
      BY <1>1, <1>2, <1>4, QueryAdded DEF Sent
    <3> HIDE DEF q, g, asked
    <3>4. QED
      BY <3>1, <3>2, <3>3 DEF Carries, Apart
  <2>3. QED
    BY <1>1, <1>4, <2>1, <2>2 DEF SizesUnderWay, UnderWay, Carried
<1>5. CASE channel' = channel /\ events' = Append(events, answer)
  <2>1. Sent(sched, requests', channel, batch, events')
    BY <1>1, <1>2, <1>3, <1>5, AppendProperties DEF Sent
  <2>2. Queries(events') = Append(asked, q) /\ asked \in Seq(QueryOf(sched))
    BY <1>1, <1>3, <1>5, QueriesOfAnswers DEF Sent
  <2>3. ASSUME AcceptsPage(tab, sched.request)
        PROVE  /\ sched.queued = {}
               /\ Carries(requests', channel, batch, Queries(events'), g, sched.inflight)
    <3>1. sched.queued = {} /\ Carries(requests, channel, batch, asked, g, sched.inflight)
      BY <2>3 DEF SizesUnderWay, UnderWay, Carried
    <3>2. /\ Once(requests', g) /\ Asked(requests, g) = Own(q, g) \cup Asked(requests', g)
          /\ Own(q, g) \cap Asked(requests', g) = {}
      BY <1>1, <3>1, HeadTaken DEF Carries, Sent
    <3>3. /\ Asked(Queries(events'), g) = Asked(asked, g) \cup Own(q, g)
          /\ Once(asked, g) /\ Own(q, g) \cap Asked(asked, g) = {} => Once(Queries(events'), g)
      BY <1>2, <2>2, QueryAdded
    <3> HIDE DEF q, g, asked
    <3>4. QED
      BY <3>1, <3>2, <3>3 DEF Carries, Apart
  <2>4. QED
    BY <1>1, <1>5, <2>1, <2>3 DEF SizesUnderWay, UnderWay, Carried
<1>6. QED
  BY <1>4, <1>5 DEF Forward

\* Collect: the worker drains its channel.
LEMMA CollectUnderWay == ASSUME SizesUnderWay, Collect PROVE SizesUnderWay'
<1>1. /\ Sent(sched, requests, channel, batch, events)
      /\ tab' = tab /\ sched' = sched /\ requests' = requests /\ events' = events
      /\ batch = <<>> /\ batch' = channel /\ channel' = <<>>
  BY DEF SizesUnderWay, UnderWay, Collect
<1>2. Sent(sched, requests, channel', batch', events)
  BY <1>1 DEF Sent
<1> DEFINE g == sched.gen
           asked == Queries(events)
<1>3. ASSUME AcceptsPage(tab, sched.request)
      PROVE  sched.queued = {} /\ Carries(requests, channel', batch', asked, g, sched.inflight)
  <2>1. sched.queued = {} /\ Carries(requests, channel, batch, asked, g, sched.inflight)
    BY <1>3 DEF SizesUnderWay, UnderWay, Carried
  <2>2. /\ Asked(batch, g) = {} /\ Asked(channel', g) = {} /\ Once(channel', g)
    BY <1>1, EmptyAsksNothing
  <2> HIDE DEF g, asked
  <2>3. QED
    BY <1>1, <2>1, <2>2 DEF Carries, Apart
<1>4. QED
  BY <1>1, <1>2, <1>3 DEF SizesUnderWay, UnderWay, Carried

\* Ask: a query is answered unless nobody waits for the answer.
LEMMA AskUnderWay == ASSUME SizesUnderWay, Ask PROVE SizesUnderWay'
<1> DEFINE q == Head(batch)
           g == sched.gen
           answer == [query |-> q, size |-> SizeOf(q.key.path)]
           asked == Queries(events)
<1>1. /\ Sent(sched, requests, channel, batch, events)
      /\ tab' = tab /\ sched' = sched /\ requests' = requests /\ channel' = channel
      /\ batch # <<>> /\ batch' = Tail(batch)
      /\ IF AcceptsPage(tab, q.request) /\ AcceptsQuery(sched, q)
         THEN events' = Append(events, answer) ELSE events' = events
  BY DEF SizesUnderWay, UnderWay, Ask
<1>2. q \in QueryOf(sched) /\ batch' \in Seq(QueryOf(sched))
  BY <1>1, HeadTailProperties DEF Sent
<1>3. answer \in AnswerTo(sched)
  <2>1. q.key \in Key
    BY <1>2 DEF QueryOf
  <2>2. SizeOf(q.key.path) \in Terminal
    BY <2>1 DEF Key, SizeOf, Terminal
  <2> HIDE DEF q
  <2>3. QED
    BY <1>2, <2>2 DEF AnswerTo
<1>4. ASSUME AcceptsPage(tab, sched.request)
      PROVE  /\ sched.queued = {}
             /\ Carries(requests, channel, batch, asked, g, sched.inflight)
             /\ Once(batch', g) /\ Asked(batch, g) = Own(q, g) \cup Asked(batch', g)
             /\ Own(q, g) \cap Asked(batch', g) = {}
  <2>1. sched.queued = {} /\ Carries(requests, channel, batch, asked, g, sched.inflight)
    BY <1>4 DEF SizesUnderWay, UnderWay, Carried
  <2>2. QED
    BY <1>1, <2>1, HeadTaken DEF Carries, Sent
<1>5. CASE AcceptsPage(tab, q.request) /\ AcceptsQuery(sched, q)
  <2>1. events' = Append(events, answer)
    BY <1>1, <1>5
  <2>2. Sent(sched, requests, channel, batch', events')
    BY <1>1, <1>2, <1>3, <2>1, AppendProperties DEF Sent
  <2>3. Queries(events') = Append(asked, q) /\ asked \in Seq(QueryOf(sched))
    BY <1>1, <1>3, <2>1, QueriesOfAnswers DEF Sent
  <2>4. /\ Asked(Queries(events'), g) = Asked(asked, g) \cup Own(q, g)
        /\ Once(asked, g) /\ Own(q, g) \cap Asked(asked, g) = {} => Once(Queries(events'), g)
    BY <1>2, <2>3, QueryAdded
  <2>5. ASSUME AcceptsPage(tab, sched.request)
        PROVE  /\ sched.queued = {}
               /\ Carries(requests, channel, batch', Queries(events'), g, sched.inflight)
    <3> HIDE DEF q, g, asked
    <3>1. QED
      BY <1>4, <2>4, <2>5 DEF Carries, Apart
  <2>6. QED
    BY <1>1, <2>2, <2>5 DEF SizesUnderWay, UnderWay, Carried
<1>6. CASE ~(AcceptsPage(tab, q.request) /\ AcceptsQuery(sched, q))
  <2>1. events' = events
    BY <1>1, <1>6
  <2>2. Sent(sched, requests, channel, batch', events)
    BY <1>1, <1>2 DEF Sent
  <2>3. ASSUME AcceptsPage(tab, sched.request)
        PROVE  /\ sched.queued = {}
               /\ Carries(requests, channel, batch', asked, g, sched.inflight)
    <3>1. q.gen # g
      BY <1>2, <1>6, <2>3 DEF QueryOf, AcceptsQuery
    <3>2. Own(q, g) = {}
      BY <3>1 DEF Own
    <3> HIDE DEF q, g, asked
    <3>3. QED
      BY <1>4, <2>3, <3>2 DEF Carries, Apart
  <2>4. QED
    BY <1>1, <2>1, <2>2, <2>3 DEF SizesUnderWay, UnderWay, Carried
<1>7. QED
  BY <1>5, <1>6

\* What complete does to what is under way.
Answered(s, q, s2) ==
  /\ s2.gen = s.gen /\ s2.request = s.request /\ s2.strategy = s.strategy
  /\ s2.queued = s.queued
  /\ s2.inflight = IF AcceptsQuery(s, q) /\ q.key \in s.inflight
                   THEN s.inflight \ {q.key} ELSE s.inflight

LEMMA CompleteAnswered ==
  ASSUME NEW s, SchedGood(s), NEW q, NEW size, NEW rows
  PROVE  Answered(s, q, Complete(s, q, size, rows).sched)
<1> DEFINE s2 == Complete(s, q, size, rows).sched
<1>1. CASE ~AcceptsQuery(s, q) \/ q.key \notin s.inflight
  BY <1>1 DEF Complete, Answered
<1>2. CASE AcceptsQuery(s, q) /\ q.key \in s.inflight
  <2>1. \/ s2 = [s EXCEPT !.inflight = @ \ {q.key}]
        \/ \E staged : s2 = [[s EXCEPT !.inflight = @ \ {q.key}] EXCEPT !.staged = staged]
    BY <1>2 DEF Complete
  <2> HIDE DEF s2
  <2>2. Answered(s, q, s2)
    BY <1>2, <2>1 DEF SchedGood, SchedState, Answered
  <2>3. QED
    BY <2>2 DEF s2
<1>3. QED
  BY <1>1, <1>2

\* The answer at the head is taken: what it answered is no longer under way.
LEMMA AnswerUnderWay ==
  ASSUME SizesInv, SizesUnderWay, events # <<>>, NEW s,
         s = (IF AcceptsPage(tab, Head(events).query.request)
              THEN Complete(sched, Head(events).query, Head(events).size, tab.entries).sched
              ELSE sched)
  PROVE  UnderWay(tab, s, requests, channel, batch, Tail(events))
<1> DEFINE e == Head(events)
           q == e.query
           g == sched.gen
           rest == Tail(events)
           asked == Queries(events)
<1>1. /\ Sent(sched, requests, channel, batch, events) /\ SchedGood(sched)
      /\ tab.request \in Nat /\ sched.request \in Nat /\ g \in Nat /\ sched.request <= tab.request
  BY DEF SizesUnderWay, UnderWay, SizesInv
<1>2. /\ e \in AnswerTo(sched) /\ rest \in Seq(AnswerTo(sched)) /\ asked # <<>>
      /\ asked \in Seq(QueryOf(sched)) /\ Head(asked) = q /\ Queries(rest) = Tail(asked)
  BY <1>1, HeadTailProperties, QueriesOfAnswers DEF Sent
<1>3. q \in QueryOf(sched)
  BY <1>2 DEF AnswerTo
<1>4. /\ s.gen = g /\ s.request = sched.request /\ s.strategy = sched.strategy
      /\ s.queued = sched.queued
      /\ s.inflight = IF AcceptsPage(tab, q.request) /\ AcceptsQuery(sched, q)
                         /\ q.key \in sched.inflight
                      THEN sched.inflight \ {q.key} ELSE sched.inflight
  <2>1. CASE AcceptsPage(tab, q.request)
    <3> DEFINE size == e.size
    <3>1. s = Complete(sched, q, size, tab.entries).sched
      BY <2>1
    <3> HIDE DEF q, size, g
    <3>2. Answered(sched, q, s)
      BY <1>1, <3>1, CompleteAnswered
    <3>3. QED
      BY <2>1, <3>2 DEF Answered, g
  <2>2. CASE ~AcceptsPage(tab, q.request)
    BY <2>2
  <2>3. QED
    BY <2>1, <2>2
<1>5. Sent(sched, requests, channel, batch, rest)
  BY <1>1, <1>2 DEF Sent
<1>6. Sent(s, requests, channel, batch, rest)
  BY <1>1, <1>4, <1>5, SentBefore
<1>7. ASSUME AcceptsPage(tab, s.request)
      PROVE  s.queued = {} /\ Carries(requests, channel, batch, Queries(rest), g, s.inflight)
  <2>1. AcceptsPage(tab, sched.request)
    BY <1>4, <1>7
  <2>2. sched.queued = {} /\ Carries(requests, channel, batch, asked, g, sched.inflight)
    BY <2>1 DEF SizesUnderWay, UnderWay, Carried
  <2>3. /\ Once(Queries(rest), g) /\ Asked(asked, g) = Own(q, g) \cup Asked(Queries(rest), g)
        /\ Own(q, g) \cap Asked(Queries(rest), g) = {}
    <3>1. Once(asked, g)
      BY <2>2 DEF Carries
    <3> HIDE DEF asked, g, q, rest
    <3>2. QED
      BY <1>2, <3>1, HeadTaken
  <2>4. Own(q, g) \subseteq sched.inflight
    BY <2>2, <2>3 DEF Carries
  <2>5. s.inflight = sched.inflight \ Own(q, g)
    <3>1. CASE q.gen = g
      <4>1. AcceptsPage(tab, q.request) /\ AcceptsQuery(sched, q)
        BY <1>3, <2>1, <3>1 DEF QueryOf, AcceptsQuery
      <4>2. QED
        BY <1>4, <2>4, <3>1, <4>1 DEF Own
    <3>2. CASE q.gen # g
      <4>1. ~AcceptsQuery(sched, q)
        BY <3>2 DEF AcceptsQuery
      <4>2. QED
        BY <1>4, <3>2, <4>1 DEF Own
    <3>3. QED
      BY <3>1, <3>2
  <2> DEFINE left == Queries(rest)
  <2> HIDE DEF q, g, rest, asked, left
  <2>6. /\ Once(left, g) /\ Asked(asked, g) = Own(q, g) \cup Asked(left, g)
        /\ Own(q, g) \cap Asked(left, g) = {}
    BY <2>3 DEF left
  <2>7. Apart(requests, left, g) /\ Apart(channel, left, g) /\ Apart(batch, left, g)
    BY <2>2, <2>6 DEF Carries, Apart
  <2>8. s.inflight = Asked(requests, g) \cup Asked(channel, g) \cup Asked(batch, g) \cup Asked(left, g)
    BY <2>2, <2>5, <2>6 DEF Carries, Apart
  <2>9. s.queued = {}
    BY <1>4, <2>2
  <2>10. QED
    BY <2>2, <2>6, <2>7, <2>8, <2>9 DEF Carries, left
<1>8. QED
  BY <1>1, <1>4, <1>6, <1>7 DEF UnderWay, Carried

\* ApplyEvent: the answer at the head, and the queries that follow from it.
LEMMA ApplyEventUnderWay == ASSUME SizesInv, SizesUnderWay, ApplyEvent PROVE SizesUnderWay'
<1> DEFINE e    == Head(events)
           done == IF AcceptsPage(tab, e.query.request)
                   THEN Complete(sched, e.query, e.size, tab.entries)
                   ELSE [sched |-> sched, rows |-> tab.entries, commit |-> "Ignored"]
           s    == done.sched
           next == NextAfter(done.commit, done.sched, done.rows)
<1>1. /\ events # <<>> /\ events' = Tail(events) /\ channel' = channel /\ batch' = batch
      /\ tab' = [tab EXCEPT !.entries = done.rows] /\ Submit(tab, s, next)
  BY DEF ApplyEvent
<1>2. s = IF AcceptsPage(tab, Head(events).query.request)
          THEN Complete(sched, Head(events).query, Head(events).size, tab.entries).sched
          ELSE sched
  OBVIOUS
<1>3. UnderWay(tab, s, requests, channel, batch, Tail(events))
  <2> HIDE DEF s
  <2>1. QED
    BY <1>1, <1>2, AnswerUnderWay
<1>4. SchedGood(s) /\ Rows(done.rows)
  <2>1. e.size \in {TimedOut, e.query.key.path}
    BY <1>1 DEF SizesInv, AnswersOwn
  <2>2. SchedGood(sched) /\ Rows(tab.entries)
    BY DEF SizesInv, TabGood
  <2> HIDE DEF e
  <2>3. CASE AcceptsPage(tab, e.query.request)
    <3>1. done = Complete(sched, e.query, e.size, tab.entries)
      BY <2>3
    <3> HIDE DEF done
    <3>2. QED
      BY <2>1, <2>2, <3>1, CompleteGood
  <2>4. CASE ~AcceptsPage(tab, e.query.request)
    BY <2>2, <2>4
  <2>5. QED
    BY <2>3, <2>4
<1> HIDE DEF done
<1>5. next \in SUBSET Key /\ IsFiniteSet(next) /\ next \cap Taken(s) = {}
  <2>1. next \in {NextComplete(s), NextVisible(s, done.rows), {}}
    BY DEF NextAfter
  <2> HIDE DEF next, s
  <2>2. QED
    BY <1>4, <2>1, NextGood, NextIsNew, FS_EmptySet
<1> HIDE DEF next, s
<1>6. UnderWay(tab, sched', requests', channel, batch, Tail(events))
  BY <1>1, <1>3, <1>4, <1>5, SubmitUnderWay
<1>7. /\ tab'.request = tab.request /\ tab.request \in Nat
      /\ tab'.page = tab.page /\ tab'.cancel = tab.cancel
  BY <1>1 DEF SizesInv, TabGood, TabState
<1>8. tab'.request >= tab.request /\ (AcceptsPage(tab', sched'.request) => AcceptsPage(tab, sched'.request))
  BY <1>7 DEF AcceptsPage, Accepts
<1> DEFINE t2 == tab'
           s2 == sched'
           rq2 == requests'
           rest == Tail(events)
<1> HIDE DEF t2, s2, rq2, rest
<1>9. UnderWay(t2, s2, rq2, channel, batch, rest)
  BY <1>6, <1>7, <1>8, SameUnderWay DEF t2, s2, rq2, rest
<1>10. QED
  BY <1>1, <1>9 DEF SizesUnderWay, t2, s2, rq2, rest

-------------------------------------------------------------------------------
(* Gestures and loading.                                                     *)

\* What a step does that sends nothing and keeps, or starts anew, the scheduler's
\* generation.
LEMMA QuietUnderWay ==
  ASSUME SizesInv, SizesUnderWay, UNCHANGED <<sched, requests, channel, batch, events>>,
         tab'.request \in Nat, tab'.request >= tab.request,
         AcceptsPage(tab', sched.request) => AcceptsPage(tab, sched.request)
  PROVE  SizesUnderWay'
BY SameUnderWay DEF SizesUnderWay

LEMMA ScrollUnderWay ==
  ASSUME SizesInv, SizesUnderWay, NEW window \in Windows, Scroll(window)
  PROVE  SizesUnderWay'
<1>1. UnderWay(tab, sched', requests', channel, batch, events)
  BY SubmitVisibleUnderWay DEF Scroll, SizesInv, SizesUnderWay
<1>2. QED
  BY <1>1 DEF Scroll, SizesUnderWay

LEMMA ChangeSortUnderWay ==
  ASSUME SizesInv, SizesUnderWay, NEW field \in {"Name", "Size"}, ChangeSort(field)
  PROVE  SizesUnderWay'
<1> DEFINE cancelled == Cancel(sched, tab.request)
           beginning == BeginCompleteSort(cancelled, tab.request, tab.entries)
<1>1. tab.request \in Nat /\ Rows(tab.entries) /\ SchedGood(sched) /\ tab.request <= tab.request
  BY DEF SizesInv, TabGood, TabState
<1>2. SchedGood(cancelled) /\ SchedGood(beginning)
  BY <1>1, CancelGood, BeginGood
<1>3. /\ cancelled.gen = sched.gen + 1 /\ cancelled.request = tab.request
      /\ cancelled.queued = {} /\ cancelled.inflight = {}
      /\ beginning.gen = cancelled.gen + 1 /\ beginning.request = tab.request
      /\ beginning.queued = {} /\ beginning.inflight = {}
  BY DEF Cancel, BeginCompleteSort
<1>4. /\ \/ Submit(tab, beginning, NextComplete(beginning))
         \/ sched' = cancelled /\ requests' = requests
      /\ channel' = channel /\ batch' = batch /\ events' = events
  BY DEF ChangeSort
<1> HIDE DEF cancelled, beginning
<1>5. UnderWay(tab, cancelled, requests, channel, batch, events)
  BY <1>1, <1>3, RestartUnderWay DEF SizesUnderWay
<1>6. UnderWay(tab, beginning, requests, channel, batch, events)
  BY <1>1, <1>3, <1>5, RestartUnderWay
<1>7. UnderWay(tab, sched', requests', channel, batch, events)
  <2>1. CASE sched' = cancelled /\ requests' = requests
    BY <1>5, <2>1
  <2>2. CASE Submit(tab, beginning, NextComplete(beginning))
    BY <1>1, <1>2, <1>6, <2>2, NextGood, NextIsNew, SubmitUnderWay
  <2>3. QED
    BY <1>4, <2>1, <2>2
<1>8. /\ tab'.request = tab.request /\ tab'.page = tab.page /\ tab'.cancel = tab.cancel
  BY DEF ChangeSort, SizesInv, TabGood, TabState
<1>9. tab'.request >= tab.request /\ (AcceptsPage(tab', sched'.request) => AcceptsPage(tab, sched'.request))
  BY <1>1, <1>8 DEF AcceptsPage, Accepts
<1> DEFINE t2 == tab'
           s2 == sched'
           rq2 == requests'
<1> HIDE DEF t2, s2, rq2
<1>10. UnderWay(t2, s2, rq2, channel, batch, events)
  BY <1>1, <1>7, <1>8, <1>9, SameUnderWay DEF t2, s2, rq2
<1>11. QED
  BY <1>4, <1>10 DEF SizesUnderWay, t2, s2, rq2

LEMMA NavigateUnderWay ==
  ASSUME SizesInv, SizesUnderWay, NEW p \in Place, NEW background \in BOOLEAN,
         Navigate(p, background)
  PROVE  SizesUnderWay'
<1> DEFINE fresh == Cancel(sched, tab.request)
           c     == CancelPending(tab)
<1>1. tab.request \in Nat /\ c.request = tab.request /\ TabGood(c)
  BY CancelPendingGood DEF SizesInv, TabGood, TabState
<1>2. /\ fresh.gen = sched.gen + 1 /\ fresh.request = tab.request
      /\ fresh.queued = {} /\ fresh.inflight = {}
  BY DEF Cancel
<1>3. sched' = fresh /\ UNCHANGED <<requests, channel, batch, events>>
  BY DEF Navigate
<1>4. tab'.request = tab.request + 1
  <2> HIDE DEF c
  <2>1. QED
    BY <1>1 DEF Navigate, TabGood, TabState, c
<1>5. tab.request <= tab.request /\ tab'.request \in Nat /\ tab'.request >= tab.request
      /\ ~AcceptsPage(tab', tab.request)
  BY <1>1, <1>4 DEF AcceptsPage, Accepts
<1> HIDE DEF fresh
<1>6. UnderWay(tab, fresh, requests, channel, batch, events)
  BY <1>1, <1>2, <1>5, RestartUnderWay DEF SizesUnderWay
<1> DEFINE t2 == tab'
<1> HIDE DEF t2
<1>7. UnderWay(t2, fresh, requests, channel, batch, events)
  BY <1>2, <1>5, <1>6, SameUnderWay DEF t2
<1>8. QED
  BY <1>3, <1>7 DEF SizesUnderWay, t2

LEMMA SearchUnderWay == ASSUME SizesInv, SizesUnderWay, Search PROVE SizesUnderWay'
<1>1. /\ tab.request \in Nat /\ CancelPending(tab).request = tab.request
      /\ TabGood(CancelPending(tab))
  BY CancelPendingGood DEF SizesInv, TabGood, TabState
<1>2. tab'.request = tab.request + 1 /\ tab'.page = "Search"
  BY <1>1 DEF Search, TabGood, TabState
<1>3. ~AcceptsPage(tab', sched.request)
  BY <1>2 DEF AcceptsPage
<1>4. QED
  BY <1>1, <1>2, <1>3, QuietUnderWay DEF Search

\* A search that is left had a request of its own, and a load that is cancelled
\* is accepted no more.
LEMMA CancelAddressEditUnderWay ==
  ASSUME SizesInv, SizesUnderWay, CancelAddressEdit PROVE SizesUnderWay'
<1> DEFINE c == CancelPending(tab)
<1>1. /\ tab.request \in Nat /\ c.request = tab.request /\ TabGood(c)
      /\ sched.request \in Nat /\ sched.request <= tab.request
  BY CancelPendingGood DEF SizesInv, TabGood, TabState, SizesUnderWay, UnderWay
<1>2. c.page = tab.page /\ (c.cancel # "fired" => tab.cancel = c.cancel)
  BY DEF CancelPending, SizesInv, TabGood, TabState
<1>3. CASE tab.page = "Search"
  <2>1. tab'.request = tab.request + 1
    <3>1. tab' = [c EXCEPT !.request = @ + 1, !.page = "Directory",
                           !.entries = c.snapshot, !.snapshot = {}]
      BY <1>3 DEF CancelAddressEdit
    <3> HIDE DEF c
    <3>2. QED
      BY <1>1, <3>1 DEF TabGood, TabState
  <2>2. ~AcceptsPage(tab', sched.request)
    BY <1>1, <2>1 DEF AcceptsPage, Accepts
  <2>3. QED
    BY <1>1, <2>1, <2>2, QuietUnderWay DEF CancelAddressEdit
<1>4. CASE tab.page # "Search"
  <2>1. tab' = c
    BY <1>4 DEF CancelAddressEdit
  <2> HIDE DEF c
  <2>2. AcceptsPage(tab', sched.request) => AcceptsPage(tab, sched.request)
    BY <1>1, <1>2, <2>1 DEF AcceptsPage, Accepts
  <2>3. tab'.request \in Nat /\ tab'.request >= tab.request
    BY <1>1, <2>1
  <2>4. QED
    BY <2>2, <2>3, QuietUnderWay DEF CancelAddressEdit
<1>5. QED
  BY <1>3, <1>4

LEMMA BatchUnderWay == ASSUME SizesInv, SizesUnderWay, Batch PROVE SizesUnderWay'
<1>1. \E new : tab' = [tab EXCEPT !.load = "Partial", !.pending = @ \cup new]
  BY DEF Batch
<1>2. /\ tab'.request = tab.request /\ tab'.page = tab.page /\ tab'.cancel = tab.cancel
      /\ tab.request \in Nat
  BY <1>1 DEF SizesInv, TabGood, TabState
<1>3. /\ tab'.request \in Nat /\ tab'.request >= tab.request
      /\ AcceptsPage(tab', sched.request) => AcceptsPage(tab, sched.request)
  BY <1>2 DEF AcceptsPage, Accepts
<1>4. QED
  BY <1>3, QuietUnderWay DEF Batch

\* The rows of a listing that ended are asked for under its own request.
LEMMA FinishUnderWay == ASSUME SizesInv, SizesUnderWay, Finish PROVE SizesUnderWay'
<1>1. TabGood(tab') /\ tab.request \in Nat
  BY FS_EmptySet DEF Finish, SizesInv, TabGood, TabState, Rows
<1>2. /\ tab'.request = tab.request /\ tab'.page = tab.page
      /\ AcceptsPage(tab, tab.request)
      /\ UNCHANGED <<channel, batch, events>>
  BY DEF Finish, SizesInv, TabGood, TabState
<1>3. /\ tab'.request \in Nat /\ tab'.request >= tab.request
      /\ AcceptsPage(tab', sched.request) => AcceptsPage(tab, sched.request)
  BY <1>1, <1>2 DEF AcceptsPage, Accepts
<1> DEFINE t2 == tab'
<1> HIDE DEF t2
<1>4. t2.request >= tab.request /\ UnderWay(t2, sched, requests, channel, batch, events)
  BY <1>3, SameUnderWay DEF SizesUnderWay, t2
<1>5. CASE UNCHANGED <<sched, requests>>
  BY <1>2, <1>4, <1>5 DEF SizesUnderWay, t2
<1>6. ASSUME NEW window \in Windows, SubmitVisible(tab', window) PROVE SizesUnderWay'
  <2>1. TabGood(t2) /\ SchedGood(sched) /\ SubmitVisible(t2, window)
    BY <1>1, <1>6 DEF t2, SizesInv
  <2>2. UnderWay(t2, sched', requests', channel, batch, events)
    BY <1>4, <2>1, SubmitVisibleUnderWay
  <2>3. QED
    BY <1>2, <2>2 DEF SizesUnderWay, t2
<1>7. QED
  BY <1>5, <1>6 DEF Finish

LEMMA InitUnderWay == Init => SizesUnderWay
<1> SUFFICES ASSUME Init PROVE SizesUnderWay
  OBVIOUS
<1>1. tab.request = 1 /\ sched.request = 0 /\ sched.gen = 0
  BY DEF Init
<1>2. Sent(sched, requests, channel, batch, events)
  BY EmptySeq DEF Init, Sent
<1>3. ~AcceptsPage(tab, sched.request)
  BY <1>1 DEF AcceptsPage, Accepts
<1>4. QED
  BY <1>1, <1>2, <1>3 DEF SizesUnderWay, UnderWay, Carried

LEMMA UnderWayStep == ASSUME SizesInv, SizesUnderWay, [Next]_vars PROVE SizesUnderWay'
<1>1. CASE Gesture
  BY <1>1, ScrollUnderWay, ChangeSortUnderWay, NavigateUnderWay, SearchUnderWay,
     CancelAddressEditUnderWay DEF Gesture
<1>2. CASE Load
  BY <1>2, BatchUnderWay, FinishUnderWay DEF Load
<1>3. CASE Forward
  BY <1>3, ForwardUnderWay
<1>4. CASE Worker
  BY <1>4, CollectUnderWay, AskUnderWay DEF Worker
<1>5. CASE ApplyEvent
  BY <1>5, ApplyEventUnderWay
<1>6. CASE UNCHANGED vars
  BY <1>6 DEF vars, SizesUnderWay
<1>7. QED
  BY <1>1, <1>2, <1>3, <1>4, <1>5, <1>6 DEF Next

\* While the page is accepted, what the scheduler holds to be under way is under
\* way, once: whatever scrolls, sorts, reloads, full channels and late answers
\* come between, a row drawn as being queried will be answered, and no folder is
\* asked about twice.
THEOREM QueriesAreUnderWay == Spec => []QueryingIsUnderWay
<1>1. ASSUME SizesUnderWay PROVE QueryingIsUnderWay
  <2> DEFINE g == sched.gen
             asked == Queries(events)
             w2 == requests \o channel
             w3 == w2 \o batch
             all == w3 \o asked
             live == {i \in DOMAIN OnTheWay : AcceptsQuery(sched, OnTheWay[i])}
  <2>1. Sent(sched, requests, channel, batch, events)
    BY <1>1 DEF SizesUnderWay, UnderWay
  <2>2. /\ requests \in Seq(QueryOf(sched)) /\ channel \in Seq(QueryOf(sched))
        /\ batch \in Seq(QueryOf(sched)) /\ asked \in Seq(QueryOf(sched))
    BY <2>1, QueriesOfAnswers DEF Sent
  <2>3. OnTheWay = all
    <3>1. OnTheWay = ((requests \o channel) \o batch) \o asked
      BY DEF OnTheWay, Queries
    <3>2. QED
      BY <3>1
  <2> HIDE DEF asked
  <2>4. w2 \in Seq(QueryOf(sched)) /\ w3 \in Seq(QueryOf(sched)) /\ all \in Seq(QueryOf(sched))
    <3>1. w2 \in Seq(QueryOf(sched))
      BY <2>2, ConcatProperties
    <3> HIDE DEF w2
    <3>2. w3 \in Seq(QueryOf(sched))
      BY <2>2, <3>1, ConcatProperties
    <3> HIDE DEF w3
    <3>3. all \in Seq(QueryOf(sched))
      BY <2>2, <3>2, ConcatProperties
    <3>4. QED
      BY <3>1, <3>2, <3>3
  <2> SUFFICES ASSUME AcceptsPage(tab, sched.request)
               PROVE  /\ sched.queued = {}
                      /\ {OnTheWay[i].key : i \in live} = sched.inflight
                      /\ \A i, j \in live : OnTheWay[i].key = OnTheWay[j].key => i = j
    BY DEF QueryingIsUnderWay
  <2>5. sched.queued = {} /\ Carries(requests, channel, batch, asked, g, sched.inflight)
    BY <1>1 DEF SizesUnderWay, UnderWay, Carried, asked
  <2>6. /\ Asked(w2, g) = Asked(requests, g) \cup Asked(channel, g)
        /\ Once(w2, g)
    BY <2>2, <2>5, StagesJoined DEF Carries, Apart
  <2>7. /\ Asked(w3, g) = Asked(requests, g) \cup Asked(channel, g) \cup Asked(batch, g)
        /\ Once(w3, g)
    <3>1. Once(batch, g) /\ Asked(w2, g) \cap Asked(batch, g) = {}
      BY <2>5, <2>6 DEF Carries, Apart
    <3> HIDE DEF w2
    <3>2. Asked(w3, g) = Asked(w2, g) \cup Asked(batch, g) /\ Once(w3, g)
      BY <2>2, <2>4, <2>6, <3>1, StagesJoined
    <3>3. QED
      BY <2>6, <3>2
  <2>8. Asked(all, g) = sched.inflight /\ Once(all, g)
    <3>1. Once(asked, g) /\ Asked(w3, g) \cap Asked(asked, g) = {}
      BY <2>5, <2>7 DEF Carries, Apart
    <3> HIDE DEF w3
    <3>2. Asked(all, g) = Asked(w3, g) \cup Asked(asked, g) /\ Once(all, g)
      BY <2>2, <2>4, <2>7, <3>1, StagesJoined
    <3>3. QED
      BY <2>5, <2>7, <3>2 DEF Carries
  <2> HIDE DEF all, g
  <2>9. live = LiveAt(all, g)
    <3>1. \A i \in DOMAIN all : all[i] \in QueryOf(sched)
      BY <2>4, LenProperties, ElementOfSeq
    <3>2. \A i \in DOMAIN all : AcceptsQuery(sched, all[i]) <=> all[i].gen = g
      BY <3>1 DEF QueryOf, AcceptsQuery, g
    <3>3. QED
      BY <2>3, <3>2 DEF LiveAt
  <2> HIDE DEF live
  <2>10. QED
    BY <2>3, <2>5, <2>8, <2>9 DEF Asked, Once
<1>2. QED
  BY <1>1, InitUnderWay, UnderWayStep, SizesInductive, PTL DEF Spec

-------------------------------------------------------------------------------
(* The limits.                                                               *)

KeysOf(rows)   == {KeyOf(row) : row \in rows}
Numbered(keys) == \A k \in keys : k.id \in 1..Folders

\* No name is there twice.
Named(keys)  == \A j, k \in keys : j.path[2] = k.path[2] => j = k
Listed(rows) == Numbered(KeysOf(rows)) /\ Named(KeysOf(rows))

WithinLimit(s) ==
  /\ Numbered(s.snapshot) /\ Named(s.snapshot)
  /\ Numbered(Taken(s)) /\ IsFiniteSet(Taken(s)) /\ Cardinality(Taken(s)) <= SubmitLimit

TabListed(t) == Listed(t.entries) /\ Listed(t.pending) /\ Listed(t.snapshot)

\* What is still to be listed has other names and other numbers.
ListingGoesOn(rows, l) ==
  /\ \A row \in rows : row.path[2] \notin l.left
  /\ l.next \in Nat \ {0} /\ l.next + Cardinality(l.left) <= Folders + 1

InLimits ==
  /\ TabListed(tab) /\ ListingGoesOn(tab.pending, listing)
  /\ WithinLimit(sched)
  /\ Len(channel) <= QueueCap

LEMMA NoRows == Listed({}) /\ Numbered({}) /\ Named({})
BY DEF Listed, KeysOf, Numbered, Named

LEMMA ListedRows ==
  ASSUME NEW rows
  PROVE  Listed(rows) <=> /\ \A row \in rows : row.id \in 1..Folders
                          /\ \A r, q \in rows : r.path[2] = q.path[2] => KeyOf(r) = KeyOf(q)
<1>1. \A row : KeyOf(row).id = row.id /\ KeyOf(row).path = row.path
  BY DEF KeyOf
<1>2. QED BY <1>1 DEF Listed, KeysOf, Numbered, Named

\* Of keys with names of their own, the first k are no more than k: each has its own
\* number of keys before it, less than k.
LEMMA FirstFew ==
  ASSUME NEW S, IsFiniteSet(S), S \subseteq Key, Named(S), NEW k \in Nat
  PROVE  /\ FirstOf(S, k) \subseteq S /\ IsFiniteSet(FirstOf(S, k))
         /\ Cardinality(FirstOf(S, k)) <= k
<1> DEFINE Below(x) == {y \in S : y.path[2] < x.path[2]}
           F    == FirstOf(S, k)
           rank == [x \in F |-> Cardinality(Below(x))]
<1>1. F = {x \in S : Cardinality(Below(x)) < k}
  BY DEF FirstOf
<1>2. F \subseteq S /\ IsFiniteSet(F)
  BY <1>1, FS_Subset
<1>3. \A x \in S : IsFiniteSet(Below(x)) /\ Cardinality(Below(x)) \in Nat
  BY FS_Subset, FS_CardinalityType
<1>4. ASSUME NEW x \in S, NEW y \in S, x.path[2] < y.path[2]
      PROVE  Cardinality(Below(x)) < Cardinality(Below(y))
  <2>1. Below(x) \subseteq Below(y) /\ x \in Below(y) /\ x \notin Below(x)
    BY <1>4 DEF Key, Path
  <2> HIDE DEF Below
  <2>2. Cardinality(Below(x)) <= Cardinality(Below(y)) /\ Cardinality(Below(x)) # Cardinality(Below(y))
    BY <1>3, <2>1, FS_Subset
  <2>3. QED BY <1>3, <2>2
<1>5. CASE k = 0
  <2>1. F = {}
    <3> HIDE DEF Below, F
    <3>1. QED BY <1>1, <1>3, <1>5
  <2>2. QED BY <1>2, <1>5, <2>1, FS_EmptySet
<1>6. CASE k # 0
  <2>1. rank \in [F -> 0..(k - 1)]
    <3> HIDE DEF Below, F
    <3>1. \A x \in F : Cardinality(Below(x)) \in 0..(k - 1)
      BY <1>1, <1>3
    <3>2. QED BY <3>1
  <2>2. \A x, y \in F : rank[x] = rank[y] => x = y
    <3> SUFFICES ASSUME NEW x \in F, NEW y \in F, rank[x] = rank[y] PROVE x = y
      OBVIOUS
    <3>1. x \in S /\ y \in S /\ Cardinality(Below(x)) = Cardinality(Below(y))
      BY <1>2
    <3>2. Cardinality(Below(x)) \in Nat
      BY <1>3, <3>1
    <3> HIDE DEF Below, F
    <3>3. ~(x.path[2] < y.path[2]) /\ ~(y.path[2] < x.path[2])
      BY <1>4, <3>1, <3>2
    <3>4. x.path[2] = y.path[2]
      BY <3>1, <3>3 DEF Key, Path
    <3>5. QED BY <3>1, <3>4 DEF Named
  <2> HIDE DEF rank, F
  <2>3. rank \in Injection(F, 0..(k - 1))
    BY <2>1, <2>2 DEF Injection, IsInjective
  <2>4. IsFiniteSet(0..(k - 1)) /\ Cardinality(0..(k - 1)) = k
    BY <1>6, FS_Interval
  <2>5. Cardinality(F) <= Cardinality(0..(k - 1))
    BY <2>3, <2>4, FS_Injection
  <2>6. QED BY <1>2, <2>4, <2>5 DEF F
<1>7. QED BY <1>5, <1>6

\* What is asked for next fits in the room there is.
LEMMA NextFits ==
  ASSUME NEW s, SchedGood(s), WithinLimit(s), NEW rows, Rows(rows), Listed(rows),
         NEW keys \in {NextVisible(s, rows), NextComplete(s), {}}
  PROVE  /\ Numbered(keys) /\ IsFiniteSet(keys)
         /\ Cardinality(keys) <= SubmitLimit - Cardinality(Taken(s))
<1>1. /\ SubmitLimit \in Nat /\ Cardinality(Taken(s)) \in Nat /\ Room(s) \in Nat
      /\ Room(s) = SubmitLimit - Cardinality(Taken(s))
  BY LimitAssumption, FS_CardinalityType DEF WithinLimit, Room
<1>2. IsFiniteSet({}) /\ Cardinality({}) = 0 /\ Numbered({})
  BY FS_EmptySet, NoRows
<1>3. CASE keys = {}
  BY <1>1, <1>2, <1>3
<1>4. CASE keys = NextVisible(s, rows) /\ s.strategy = "VisibleRange"
  <2> DEFINE S == {KeyOf(v) : v \in {w \in s.visible :
                     /\ \E row \in RowAt(rows, w.at) :
                          AcceptsSize(row, KeyOf(w)) /\ row.size = Unknown
                     /\ KeyOf(w) \notin Taken(s)}}
  <2>1. keys = FirstOf(S, Room(s))
    BY <1>4 DEF NextVisible
  <2>2. S \subseteq KeysOf(rows)
    <3> SUFFICES ASSUME NEW w \in s.visible, NEW row \in RowAt(rows, w.at), AcceptsSize(row, KeyOf(w))
                 PROVE  KeyOf(w) \in KeysOf(rows)
      OBVIOUS
    <3>1. row \in rows
      BY DEF RowAt, FirstOf
    <3>2. KeyOf(w) = KeyOf(row)
      BY DEF AcceptsSize, KeyOf
    <3>3. QED BY <3>1, <3>2 DEF KeysOf
  <2>3. KeysOf(rows) \subseteq Key /\ IsFiniteSet(KeysOf(rows))
    BY KeysOfRows DEF KeysOf
  <2> HIDE DEF S
  <2>4. IsFiniteSet(S) /\ S \subseteq Key /\ Named(S) /\ Numbered(S)
    BY <2>2, <2>3, FS_Subset DEF Listed, Named, Numbered
  <2>5. QED BY <1>1, <2>1, <2>4, FirstFew DEF Numbered
<1>5. CASE keys = NextComplete(s) /\ s.strategy = "CompleteForSort"
  <2> DEFINE S == (s.snapshot \ DOMAIN s.staged) \ Taken(s)
  <2>1. keys = FirstOf(S, Room(s))
    BY <1>5 DEF NextComplete
  <2>2. S \subseteq s.snapshot /\ s.snapshot \subseteq Key /\ IsFiniteSet(s.snapshot)
    BY DEF SchedGood, SchedState
  <2> HIDE DEF S
  <2>3. IsFiniteSet(S) /\ S \subseteq Key /\ Named(S) /\ Numbered(S)
    BY <2>2, FS_Subset DEF WithinLimit, Named, Numbered
  <2>4. QED BY <1>1, <2>1, <2>3, FirstFew DEF Numbered
<1>6. QED BY <1>3, <1>4, <1>5 DEF NextVisible, NextComplete

LEMMA SubmitWithin ==
  ASSUME NEW t, NEW s, SchedGood(s), WithinLimit(s), NEW keys, Numbered(keys), IsFiniteSet(keys),
         Cardinality(keys) <= SubmitLimit - Cardinality(Taken(s)), Submit(t, s, keys)
  PROVE  WithinLimit(sched')
<1>1. sched'.snapshot = s.snapshot /\ Taken(sched') = Taken(s) \cup keys
  BY DEF Submit, SchedGood, SchedState, Taken
<1>2. /\ IsFiniteSet(Taken(s)) /\ Cardinality(Taken(s)) \in Nat
      /\ Cardinality(keys) \in Nat /\ Cardinality(Taken(s) \cap keys) \in Nat
  BY FS_CardinalityType, FS_Intersection DEF WithinLimit
<1>3. /\ IsFiniteSet(Taken(s) \cup keys)
      /\ Cardinality(Taken(s) \cup keys) = Cardinality(Taken(s)) + Cardinality(keys) - Cardinality(Taken(s) \cap keys)
  BY <1>2, FS_Union
<1>4. Cardinality(Taken(s) \cup keys) <= SubmitLimit
  BY <1>2, <1>3, LimitAssumption
<1>5. Numbered(Taken(s) \cup keys)
  BY DEF WithinLimit, Numbered
<1>6. QED BY <1>1, <1>3, <1>4, <1>5 DEF WithinLimit

LEMMA CancelWithin ==
  ASSUME NEW s, NEW r
  PROVE  WithinLimit(Cancel(s, r))
<1>1. Taken(Cancel(s, r)) = {} /\ Cancel(s, r).snapshot = {}
  BY DEF Cancel, Taken
<1>2. QED BY <1>1, NoRows, FS_EmptySet, LimitAssumption DEF WithinLimit

LEMMA BeginWithin ==
  ASSUME NEW s, NEW r, NEW rows, Listed(rows)
  PROVE  WithinLimit(BeginCompleteSort(s, r, rows))
<1> DEFINE b == BeginCompleteSort(s, r, rows)
<1>1. Taken(b) = {} /\ b.snapshot = KeysOf(rows)
  BY DEF BeginCompleteSort, Cancel, Taken, KeysOf
<1> HIDE DEF b
<1>2. WithinLimit(b)
  BY <1>1, NoRows, FS_EmptySet, LimitAssumption DEF WithinLimit, Listed
<1>3. QED BY <1>2 DEF b

LEMMA LookWithin ==
  ASSUME NEW s, SchedGood(s), WithinLimit(s), NEW r, NEW rows, NEW positions
  PROVE  WithinLimit(LookAt(s, r, rows, positions))
<1> DEFINE c == IF s.request # r \/ s.strategy # "VisibleRange" THEN Cancel(s, r) ELSE s
           l == LookAt(s, r, rows, positions)
<1>1. WithinLimit(c)
  BY CancelWithin
<1>2. \A v : [c EXCEPT !.visible = v].queued = c.queued /\ [c EXCEPT !.visible = v].inflight = c.inflight
             /\ [c EXCEPT !.visible = v].snapshot = c.snapshot
  BY DEF SchedGood, SchedState, Cancel
<1>3. \E v : l = [c EXCEPT !.visible = v]
  BY DEF LookAt
<1> HIDE DEF c, l
<1>4. Taken(l) = Taken(c) /\ l.snapshot = c.snapshot
  BY <1>2, <1>3 DEF Taken
<1>5. WithinLimit(l)
  BY <1>1, <1>4 DEF WithinLimit
<1>6. QED BY <1>5 DEF l

LEMMA SubmitVisibleWithin ==
  ASSUME NEW t, TabGood(t), SchedGood(sched), WithinLimit(sched), Listed(t.entries),
         NEW window \in Windows, SubmitVisible(t, window)
  PROVE  WithinLimit(sched')
<1> DEFINE inView == window \cap 1..Cardinality(VisibleEntries(t))
           looked == LookAt(sched, t.request, t.entries, inView)
           beginning == BeginCompleteSort(sched, t.request, t.entries)
<1>1. inView \in SUBSET (1..Folders)
  BY WindowsAssumption
<1>2. t.request \in Nat /\ Rows(t.entries)
  BY DEF TabGood, TabState
<1> HIDE DEF inView
<1>3. SchedGood(looked) /\ SchedGood(beginning) /\ WithinLimit(looked) /\ WithinLimit(beginning)
  BY <1>1, <1>2, LookGood, BeginGood, LookWithin, BeginWithin
<1>4. \/ sched' = [sched EXCEPT !.visible = {}]
      \/ Submit(t, beginning, NextComplete(beginning))
      \/ Submit(t, looked, NextVisible(looked, t.entries))
  BY DEF SubmitVisible, inView
<1> HIDE DEF looked, beginning
<1>5. CASE sched' = [sched EXCEPT !.visible = {}]
  BY <1>5 DEF SchedGood, SchedState, WithinLimit, Taken
<1>6. CASE Submit(t, beginning, NextComplete(beginning))
  BY <1>2, <1>3, <1>6, NextFits, SubmitWithin
<1>7. CASE Submit(t, looked, NextVisible(looked, t.entries))
  BY <1>2, <1>3, <1>7, NextFits, SubmitWithin
<1>8. QED BY <1>4, <1>5, <1>6, <1>7

\* An answer takes its folder off what is asked for, and the rows keep their names.
LEMMA CompleteWithin ==
  ASSUME NEW s, SchedGood(s), WithinLimit(s), NEW q, NEW size, size \in {TimedOut, q.key.path},
         NEW rows, Rows(rows), Listed(rows)
  PROVE  /\ WithinLimit(Complete(s, q, size, rows).sched)
         /\ Listed(Complete(s, q, size, rows).rows)
<1> DEFINE result == Complete(s, q, size, rows)
           done   == [s EXCEPT !.inflight = @ \ {q.key}]
           staged == [k \in DOMAIN s.staged \cup {q.key} |->
                        IF k = q.key THEN size ELSE s.staged[k]]
           next   == [done EXCEPT !.staged = staged]
<1>1. /\ done.queued = s.queued /\ done.inflight = s.inflight \ {q.key} /\ done.snapshot = s.snapshot
      /\ next.queued = s.queued /\ next.inflight = s.inflight \ {q.key} /\ next.snapshot = s.snapshot
  BY DEF SchedGood, SchedState
<1>2. result.sched \in {s, done, next}
  BY DEF Complete
<1>3. \A new \in result.rows : \E row \in rows : new.id = row.id /\ new.path = row.path
  <2> DEFINE f(row) == IF AcceptsSize(row, q.key) THEN [row EXCEPT !.size = size] ELSE row
             g(row) == IF KeyOf(row) \in s.snapshot \cap DOMAIN staged
                       THEN [row EXCEPT !.size = staged[KeyOf(row)]] ELSE row
  <2>1. \/ result.rows = rows \/ result.rows = {f(row) : row \in rows}
        \/ result.rows = {g(row) : row \in rows}
    BY DEF Complete
  <2>2. \A row \in rows : row \in OwnRow
    BY DEF Rows
  <2>3. \A row \in rows : f(row).id = row.id /\ f(row).path = row.path
    BY <2>2 DEF OwnRow
  <2>4. \A row \in rows : g(row).id = row.id /\ g(row).path = row.path
    <3> HIDE DEF staged
    <3>1. QED BY <2>2 DEF OwnRow
  <2> HIDE DEF result, f, g
  <2>5. QED BY <2>1, <2>3, <2>4
<1> HIDE DEF result, done, next
<1>4. Taken(result.sched) \subseteq Taken(s) /\ result.sched.snapshot = s.snapshot
  BY <1>1, <1>2 DEF Taken
<1>5. IsFiniteSet(Taken(result.sched)) /\ Cardinality(Taken(result.sched)) <= Cardinality(Taken(s))
  BY <1>4, FS_Subset DEF WithinLimit
<1>6. Cardinality(Taken(result.sched)) \in Nat /\ Cardinality(Taken(s)) \in Nat
  BY <1>5, FS_CardinalityType DEF WithinLimit
<1>7. WithinLimit(result.sched)
  BY <1>4, <1>5, <1>6, LimitAssumption DEF WithinLimit, Numbered
<1>8. Listed(result.rows)
  <2>1. \A new \in result.rows : new.id \in 1..Folders
    BY <1>3, ListedRows
  <2>2. ASSUME NEW a \in result.rows, NEW b \in result.rows, a.path[2] = b.path[2]
        PROVE  KeyOf(a) = KeyOf(b)
    <3>1. PICK r \in rows : a.id = r.id /\ a.path = r.path
      BY <1>3
    <3>2. PICK p \in rows : b.id = p.id /\ b.path = p.path
      BY <1>3
    <3>3. KeyOf(r) = KeyOf(p)
      BY <2>2, <3>1, <3>2, ListedRows
    <3>4. QED BY <3>1, <3>2, <3>3 DEF KeyOf
  <2>3. QED BY <2>1, <2>2, ListedRows
<1>9. QED BY <1>7, <1>8 DEF result

LEMMA InitInLimits == Init => InLimits
<1> SUFFICES ASSUME Init PROVE InLimits
  OBVIOUS
<1>1. PICK p \in Place :
        tab = [request |-> 1, cancel |-> "none", page |-> "Directory", place |-> p,
               goal |-> p, load |-> "Complete", retain |-> FALSE, pending |-> {},
               entries |-> {[id |-> n, path |-> <<p, n>>, size |-> Unknown] : n \in 1..Folders},
               snapshot |-> {}, sort |-> [q \in Place |-> "Name"], field |-> "Name"]
  BY DEF Init
<1>2. Listed(tab.entries)
  <2>1. \A row \in tab.entries : \E n \in 1..Folders : row.id = n /\ row.path = <<p, n>>
    BY <1>1
  <2>2. QED BY <2>1, ListedRows DEF KeyOf
<1>3. TabListed(tab) /\ tab.pending = {}
  BY <1>1, <1>2, NoRows DEF TabListed
<1>4. ListingGoesOn(tab.pending, listing)
  BY <1>3, FS_EmptySet, FoldersAssumption DEF Init, NoListing, ListingGoesOn
<1>5. WithinLimit(sched)
  <2>1. Taken(sched) = {} /\ sched.snapshot = {}
    BY DEF Init, Taken
  <2>2. QED BY <2>1, NoRows, FS_EmptySet, LimitAssumption DEF WithinLimit
<1>6. Len(channel) <= QueueCap
  BY LimitAssumption DEF Init
<1>7. QED BY <1>3, <1>4, <1>5, <1>6 DEF InLimits

LEMMA CancelPendingListed ==
  ASSUME NEW t, TabGood(t), TabListed(t)
  PROVE  /\ TabListed(CancelPending(t)) /\ CancelPending(t).pending \in {t.pending, {}}
         /\ CancelPending(t) \in TabState
BY CancelPendingGood, NoRows DEF TabGood, TabState, CancelPending, TabListed

\* New rows have names and numbers of their own.
LEMMA BatchInLimits == ASSUME SizesInv, InLimits, Batch PROVE InLimits'
<1> DEFINE IdOf(names, n) == listing.next + Cardinality({m \in names : m < n})
<1>1. PICK names \in (SUBSET listing.left) \ {{}} :
        /\ tab' = [tab EXCEPT !.load = "Partial",
                     !.pending = @ \cup {[id |-> IdOf(names, n), path |-> <<tab.goal, n>>,
                                          size |-> Unknown] : n \in names}]
        /\ listing' = [left |-> listing.left \ names,
                       next |-> listing.next + Cardinality(names)]
  BY DEF Batch
<1> DEFINE new == {[id |-> IdOf(names, n), path |-> <<tab.goal, n>>, size |-> Unknown] : n \in names}
<1>2. /\ listing.left \subseteq 1..Folders /\ IsFiniteSet(listing.left) /\ names \subseteq listing.left
      /\ listing.next \in Nat \ {0} /\ Cardinality(listing.left) \in Nat
      /\ listing.next + Cardinality(listing.left) <= Folders + 1
  <2>1. listing.left \in SUBSET (1..Folders)
    BY DEF SizesInv, ListingGood
  <2>2. IsFiniteSet(1..Folders)
    BY FS_Interval, FoldersAssumption
  <2>3. IsFiniteSet(listing.left)
    BY <2>1, <2>2, FS_Subset
  <2>4. QED BY <1>1, <2>1, <2>3, FS_CardinalityType DEF InLimits, ListingGoesOn
<1>3. /\ IsFiniteSet(names) /\ Cardinality(names) \in Nat /\ Cardinality(names) <= Cardinality(listing.left)
      /\ Cardinality(listing.left \ names) = Cardinality(listing.left) - Cardinality(names)
  <2>1. IsFiniteSet(names) /\ Cardinality(names) <= Cardinality(listing.left)
    BY <1>2, FS_Subset
  <2>2. listing.left \cap names = names
    BY <1>2
  <2>3. Cardinality(listing.left \ names) = Cardinality(listing.left) - Cardinality(listing.left \cap names)
    BY <1>2, FS_Difference
  <2>4. QED BY <2>1, <2>2, <2>3, FS_CardinalityType
<1>4. \A n \in names : IdOf(names, n) \in 1..Folders
  <2> SUFFICES ASSUME NEW n \in names PROVE IdOf(names, n) \in 1..Folders
    OBVIOUS
  <2> DEFINE before == {m \in names : m < n}
  <2>1. before \subseteq names /\ n \notin before
    BY <1>2
  <2> HIDE DEF before
  <2>2. /\ IsFiniteSet(before) /\ Cardinality(before) <= Cardinality(names)
        /\ Cardinality(before) # Cardinality(names)
    BY <1>3, <2>1, FS_Subset
  <2>3. Cardinality(before) \in Nat
    BY <2>2, FS_CardinalityType
  <2>4. listing.next + Cardinality(before) \in 1..Folders
    BY <1>2, <1>3, <2>2, <2>3, FoldersAssumption
  <2>5. QED BY <2>4 DEF before
<1>5. \A row \in new : \E n \in names : row = [id |-> IdOf(names, n), path |-> <<tab.goal, n>>, size |-> Unknown]
  OBVIOUS
<1>6. /\ \A row \in new : row.id \in 1..Folders /\ row.path[2] \in names
      /\ \A r, q \in new : r.path[2] = q.path[2] => r = q
  <2> HIDE DEF IdOf, new
  <2>1. QED BY <1>4, <1>5
<1>7. tab' = [tab EXCEPT !.load = "Partial", !.pending = @ \cup new]
  BY <1>1
<1> HIDE DEF new, IdOf
<1>8. /\ tab'.pending = tab.pending \cup new /\ tab'.entries = tab.entries /\ tab'.snapshot = tab.snapshot
  BY <1>7 DEF SizesInv, TabGood, TabState
<1>9. Listed(tab.pending \cup new)
  <2>1. Listed(tab.pending) /\ \A row \in tab.pending : row.path[2] \notin names
    BY <1>2 DEF InLimits, TabListed, ListingGoesOn
  <2>2. \A row \in tab.pending : row.id \in 1..Folders
    BY <2>1, ListedRows
  <2>3. \A r, q \in tab.pending : r.path[2] = q.path[2] => KeyOf(r) = KeyOf(q)
    BY <2>1, ListedRows
  <2>4. \A r, q \in tab.pending \cup new : r.path[2] = q.path[2] => KeyOf(r) = KeyOf(q)
    BY <1>6, <2>1, <2>3
  <2>5. QED BY <1>6, <2>2, <2>4, ListedRows
<1>10. ListingGoesOn(tab.pending \cup new, listing')
  <2>1. listing'.left = listing.left \ names /\ listing'.next = listing.next + Cardinality(names)
    BY <1>1
  <2>2. \A row \in tab.pending \cup new : row.path[2] \notin listing'.left
    BY <1>6, <2>1 DEF InLimits, ListingGoesOn
  <2>3. QED BY <1>2, <1>3, <2>1, <2>2 DEF ListingGoesOn
<1>11. QED BY <1>8, <1>9, <1>10 DEF Batch, InLimits, TabListed

LEMMA ApplyEventInLimits == ASSUME SizesInv, InLimits, ApplyEvent PROVE InLimits'
<1> DEFINE e    == Head(events)
           done == IF AcceptsPage(tab, e.query.request)
                   THEN Complete(sched, e.query, e.size, tab.entries)
                   ELSE [sched |-> sched, rows |-> tab.entries, commit |-> "Ignored"]
           next == NextAfter(done.commit, done.sched, done.rows)
<1>1. e.size \in {TimedOut, e.query.key.path}
  BY DEF ApplyEvent, SizesInv, AnswersOwn
<1>2. SchedGood(sched) /\ Rows(tab.entries) /\ WithinLimit(sched) /\ Listed(tab.entries)
  BY DEF SizesInv, TabGood, InLimits, TabListed
<1> HIDE DEF e
<1>3. /\ SchedGood(done.sched) /\ Rows(done.rows) /\ WithinLimit(done.sched) /\ Listed(done.rows)
  <2>1. CASE AcceptsPage(tab, e.query.request)
    <3>1. done = Complete(sched, e.query, e.size, tab.entries)
      BY <2>1
    <3> HIDE DEF done
    <3>2. QED BY <1>1, <1>2, <3>1, CompleteGood, CompleteWithin
  <2>2. CASE ~AcceptsPage(tab, e.query.request)
    BY <1>2, <2>2
  <2>3. QED BY <2>1, <2>2
<1>4. tab' = [tab EXCEPT !.entries = done.rows] /\ Submit(tab, done.sched, next)
  BY DEF ApplyEvent, e
<1> HIDE DEF done
<1>5. next \in {NextVisible(done.sched, done.rows), NextComplete(done.sched), {}}
  BY DEF NextAfter
<1> HIDE DEF next
<1>6. WithinLimit(sched')
  BY <1>3, <1>4, <1>5, NextFits, SubmitWithin
<1>7. tab'.entries = done.rows /\ tab'.pending = tab.pending /\ tab'.snapshot = tab.snapshot
  BY <1>4 DEF SizesInv, TabGood, TabState
<1>8. QED BY <1>3, <1>6, <1>7 DEF ApplyEvent, InLimits, TabListed

LEMMA GestureInLimits == ASSUME SizesInv, InLimits, Gesture PROVE InLimits'
<1> DEFINE c == CancelPending(tab)
<1>1. /\ TabGood(tab) /\ SchedGood(sched) /\ Rows(tab.entries) /\ tab.request \in Nat
      /\ TabListed(tab) /\ Listed(tab.entries) /\ WithinLimit(sched) /\ ListingGoesOn(tab.pending, listing)
  BY DEF SizesInv, TabGood, TabState, InLimits, TabListed
<1>2. TabListed(c) /\ c.pending \in {tab.pending, {}} /\ c \in TabState
  BY <1>1, CancelPendingListed
<1>3. ListingGoesOn({}, listing)
  BY <1>1 DEF ListingGoesOn
<1> HIDE DEF c
<1>4. ASSUME NEW window \in Windows, Scroll(window) PROVE InLimits'
  BY <1>1, <1>4, SubmitVisibleWithin DEF Scroll, InLimits
<1>5. ASSUME NEW field \in {"Name", "Size"}, ChangeSort(field) PROVE InLimits'
  <2> DEFINE cancelled == Cancel(sched, tab.request)
             beginning == BeginCompleteSort(cancelled, tab.request, tab.entries)
  <2>1. SchedGood(beginning) /\ WithinLimit(beginning) /\ WithinLimit(cancelled)
    BY <1>1, CancelGood, BeginGood, CancelWithin, BeginWithin
  <2>2. Submit(tab, beginning, NextComplete(beginning)) \/ sched' = cancelled
    BY <1>5 DEF ChangeSort
  <2> HIDE DEF cancelled, beginning
  <2>3. WithinLimit(sched')
    BY <1>1, <2>1, <2>2, NextFits, SubmitWithin
  <2>4. tab'.entries = tab.entries /\ tab'.pending = tab.pending /\ tab'.snapshot = tab.snapshot
    BY <1>1, <1>5 DEF ChangeSort, TabGood, TabState
  <2>5. QED BY <1>1, <1>5, <2>3, <2>4 DEF ChangeSort, InLimits, TabListed
<1>6. ASSUME NEW p \in Place, NEW background \in BOOLEAN, Navigate(p, background) PROVE InLimits'
  <2>1. tab'.entries = c.entries /\ tab'.pending = {} /\ tab'.snapshot = {}
    BY <1>2, <1>6 DEF Navigate, TabState, c
  <2>2. ListingGoesOn({}, listing')
    <3>1. listing'.next = 1 /\ Cardinality(listing'.left) = Folders
      BY <1>6, FS_Interval, FoldersAssumption DEF Navigate
    <3>2. QED BY <3>1, FoldersAssumption DEF ListingGoesOn
  <2>3. WithinLimit(sched')
    BY <1>6, CancelWithin DEF Navigate
  <2>4. QED BY <1>2, <1>6, <2>1, <2>2, <2>3, NoRows DEF Navigate, InLimits, TabListed
<1>7. ASSUME Search PROVE InLimits'
  <2>1. tab'.entries = {} /\ tab'.pending = {} /\ tab'.snapshot \in {c.entries, c.snapshot}
    BY <1>2, <1>7 DEF Search, TabState, c
  <2>2. QED BY <1>1, <1>2, <1>3, <1>7, <2>1, NoRows DEF Search, InLimits, TabListed
<1>8. ASSUME CancelAddressEdit PROVE InLimits'
  <2>1. /\ tab'.entries \in {c.entries, c.snapshot} /\ tab'.pending = c.pending
        /\ tab'.snapshot \in {c.snapshot, {}}
    <3>1. tab' \in {c, [c EXCEPT !.request = c.request + 1, !.page = "Directory",
                                 !.entries = c.snapshot, !.snapshot = {}]}
      BY <1>8 DEF CancelAddressEdit, c
    <3>2. QED BY <1>2, <3>1 DEF TabState
  <2>2. QED BY <1>1, <1>2, <1>3, <1>8, <2>1, NoRows DEF CancelAddressEdit, InLimits, TabListed
<1>9. QED BY <1>4, <1>5, <1>6, <1>7, <1>8 DEF Gesture

LEMMA LimitsStep ==
  ASSUME SizesInv, SizesInv', SizesUnderWay, InLimits, [Next]_vars
  PROVE  InLimits'
<1>1. CASE Gesture
  BY <1>1, GestureInLimits
<1>2. CASE Batch
  BY <1>2, BatchInLimits
<1>3. CASE Finish
  <2>1. tab'.entries = tab.pending /\ tab'.pending = {} /\ tab'.snapshot = tab.snapshot
    BY <1>3 DEF Finish, SizesInv, TabGood, TabState
  <2>2. TabListed(tab') /\ TabGood(tab')
    BY <2>1, NoRows DEF InLimits, TabListed, SizesInv
  <2>3. WithinLimit(sched')
    BY <1>3, <2>2, SubmitVisibleWithin DEF Finish, InLimits, SizesInv, TabListed
  <2>4. ListingGoesOn(tab'.pending, listing')
    BY <1>3, <2>1 DEF Finish, InLimits, ListingGoesOn
  <2>5. QED BY <1>3, <2>2, <2>3, <2>4 DEF Finish, InLimits
<1>4. CASE Forward
  <2>1. Len(channel) \in Nat /\ \A q : Len(Append(channel, q)) = Len(channel) + 1
    BY LenProperties DEF SizesUnderWay, UnderWay, Sent
  <2>2. Len(channel') <= QueueCap
    BY <1>4, <2>1, LimitAssumption DEF Forward, InLimits
  <2>3. QED BY <1>4, <2>2 DEF Forward, InLimits
<1>5. CASE Worker
  BY <1>5, LimitAssumption DEF Worker, Collect, Ask, InLimits
<1>6. CASE ApplyEvent
  BY <1>6, ApplyEventInLimits
<1>7. CASE UNCHANGED vars
  BY <1>7 DEF vars, InLimits
<1>8. QED BY <1>1, <1>2, <1>3, <1>4, <1>5, <1>6, <1>7 DEF Next, Load

LEMMA LimitsHold == Spec => []InLimits
BY InitInLimits, LimitsStep, SizesInductive, InitUnderWay, UnderWayStep, InitHolds, PTL DEF Spec

\* Whatever overtakes what, never more folders are asked about at a time than there are
\* slots.
THEOREM LimitsAreKept == Spec => []AskedWithinLimit
<1>1. InLimits => AskedWithinLimit
  BY DEF InLimits, WithinLimit, AskedWithinLimit
<1>2. QED BY <1>1, LimitsHold, PTL

\* The types of the tab, the scheduler and the channel.
THEOREM TypesHold == Spec => []TypeOK
<1>1. SizesInv /\ InLimits => TypeOK
  <2> SUFFICES ASSUME SizesInv, InLimits PROVE TypeOK
    OBVIOUS
  <2>1. ASSUME NEW rows \in {tab.entries, tab.pending, tab.snapshot} PROVE rows \subseteq Row
    <3>1. Rows(rows) /\ Listed(rows)
      BY DEF SizesInv, TabGood, InLimits, TabListed
    <3>2. \A row \in rows : row.id \in 1..Folders /\ row \in OwnRow
      BY <3>1, ListedRows DEF Rows
    <3>3. QED BY <3>2 DEF OwnRow, Row
  <2>2. Taken(sched) \subseteq [id : 1..Folders, path : Path]
    <3>1. Taken(sched) \subseteq Key /\ Numbered(Taken(sched))
      BY DEF SizesInv, SchedGood, SchedState, Taken, InLimits, WithinLimit
    <3>2. QED BY <3>1 DEF Key, Numbered
  <2>3. /\ tab.load \in {"Complete", "Loading", "Partial", "Cancelled"}
        /\ tab.cancel \in {"none", "live", "fired"}
    BY DEF SizesInv, TabGood, TabState
  <2>4. QED BY <2>1, <2>2, <2>3 DEF TypeOK, InLimits
<1>2. QED BY <1>1, LimitsHold, SizesInductive, PTL

===============================================================================
