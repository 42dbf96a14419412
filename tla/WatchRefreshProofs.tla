------------------------- MODULE WatchRefreshProofs --------------------------
(***************************************************************************)
(* What holds of the watcher, the pump, the samples and the tabs for any   *)
(* tabs, names, operations and hazards: the pump loses no change.          *)
(*                                                                         *)
(* The inductive invariant is IInv.  Its heart is InView: every file that  *)
(* a tab on the screen shows wrongly is still to be read by its listing,   *)
(* or is Owed, which is to say Held (by a notification, what waits in the  *)
(* pump, a retry, a batch left to the operations or a listing that follows *)
(* one) or Probed (by a comparison that will find it, or has).             *)
(*                                                                         *)
(* InRename is about the one time rows change without a listing, a rename  *)
(* shown in place.  Both lean on Basis, which every step keeps by itself:  *)
(* the types; InOps, one local operation at a time and versions written    *)
(* once; InListing, the tab and its job agree and list a name once;        *)
(* InProbe, a probe has the rows of its request and its sample one version *)
(* of a name; InNotes, what waits is of a request that was made.           *)
(*                                                                         *)
(* A lemma ...Types is about the types of a step, ...Is says what a step   *)
(* does to one tab, ...View and ...Rename are the step's cases of InView   *)
(* and InRename.                                                           *)
(***************************************************************************)
EXTENDS WatchRefresh, TLAPS

-------------------------------------------------------------------------------
(* The types.                                                                *)

Kinds     == {"Normal", "Refresh", "BackgroundRefresh"}
LoadStates == {"Loading", "Complete"}
Pages     == {"Directory", "Search"}
Rows      == SUBSET File
TabState  == [latest : Nat, asked : Nat, kind : Kinds, load : LoadStates,
              page : Pages, here : BOOLEAN, rows : Rows, edition : Nat]
OpStages  == {"none", "queued", "running", "ended", "done"}
OpKinds   == {"Copy", "Rename", "Delete"}
Some(S)   == S \cup {NoWatch}
Versions  == 0..MaxChanges
OpState   == [st : OpStages, kind : OpKinds, from : Some(Name), to : Some(Name), file : Versions]
Relists   == {NoWatch, "Refresh", "BackgroundRefresh"}
Watches   == {"none", "running", "dead", "failed"}

\* An operation that was asked for knows its names.
InNames(o) ==
  op[o].st # "none" =>
    /\ op[o].to \in Name
    /\ op[o].kind = "Rename" => op[o].from \in Name /\ op[o].from # op[o].to

DiskTypes ==
  /\ disk \in [Name -> Versions] /\ changes \in 1..MaxChanges
  /\ watch \in Watches /\ notes \in [paths : SUBSET Name, uncertain : BOOLEAN]
TabTypes  == tab \in [Tabs -> TabState] /\ job \in [Tabs -> Some(Listing)]
PumpTypes ==
  /\ pending \in [Tabs -> Some(Notification)] /\ probe \in [Tabs -> Some(Probe)]
  /\ sample \in Some(Sample)
OpTypes   ==
  /\ op \in [Ops -> OpState] /\ (\A o \in Ops : InNames(o))
  /\ relist \in [Tabs -> Relists] /\ deferred \in BOOLEAN /\ blind \in [Tabs -> BOOLEAN]
Types     == DiskTypes /\ TabTypes /\ PumpTypes /\ OpTypes

LEMMA Constants ==
  /\ MaxChanges \in Nat /\ MaxChanges >= 1 /\ MaxRequests \in Nat
  /\ "Normal" \in Kinds /\ "Refresh" \in Kinds /\ "BackgroundRefresh" \in Kinds
  /\ "Loading" \in LoadStates /\ "Complete" \in LoadStates
  /\ "Directory" \in Pages /\ "Search" \in Pages /\ {} \in Rows
  /\ "none" \in OpStages /\ "queued" \in OpStages /\ "running" \in OpStages
  /\ "ended" \in OpStages /\ "done" \in OpStages
  /\ "Copy" \in OpKinds /\ "Rename" \in OpKinds /\ "Delete" \in OpKinds
  /\ 0 \in Versions /\ 1 \in Versions /\ NoWatch \in Some(Name)
BY BoundsAssumption DEF Kinds, LoadStates, Pages, Rows, OpStages, OpKinds, Versions, Some

\* What the first state has.
LEMMA InitTypes == Init => Types
<1> SUFFICES ASSUME Init PROVE Types
  OBVIOUS
<1>1. DiskTypes
  BY Constants DEF Init, DiskTypes, Watches, Nothing
<1>2. TabTypes
  <2>1. [latest |-> 0, asked |-> 0, kind |-> "Normal", load |-> "Complete",
         page |-> "Directory", here |-> FALSE, rows |-> {}, edition |-> 0] \in TabState
    BY Constants DEF TabState
  <2>2. QED BY <2>1 DEF Init, TabTypes, Some
<1>3. PumpTypes
  BY DEF Init, PumpTypes, Some
<1>4. OpTypes
  <2>1. [st |-> "none", kind |-> "Copy", from |-> NoWatch, to |-> NoWatch, file |-> 0] \in OpState
    BY Constants DEF OpState
  <2>2. op \in [Ops -> OpState] /\ \A o \in Ops : op[o].st = "none"
    BY <2>1 DEF Init
  <2>3. QED BY <2>2 DEF Init, OpTypes, Relists, InNames
<1>5. QED BY <1>1, <1>2, <1>3, <1>4 DEF Types

\* The types along the steps, family by family.
LEMMA ToldTypes ==
  ASSUME Types, NEW note \in [paths : SUBSET Name, uncertain : BOOLEAN], Told(note)
  PROVE  notes' \in [paths : SUBSET Name, uncertain : BOOLEAN] /\ blind' \in [Tabs -> BOOLEAN]
BY DEF Told, Types, DiskTypes, OpTypes, TabTypes, TabState

LEMMA ChangedTypes ==
  ASSUME Types, NEW paths \in SUBSET Name, Changed(paths)
  PROVE  notes' \in [paths : SUBSET Name, uncertain : BOOLEAN] /\ blind' \in [Tabs -> BOOLEAN]
<1>1. [notes EXCEPT !.paths = @ \cup paths] \in [paths : SUBSET Name, uncertain : BOOLEAN]
  BY DEF Types, DiskTypes
<1>2. QED BY <1>1, ToldTypes DEF Changed

LEMMA HappensTypes ==
  ASSUME Types, Happens
  PROVE  /\ changes' \in 1..MaxChanges /\ changes + 1 \in Versions /\ changes' = changes + 1
         /\ changes \in Nat
BY Constants DEF Happens, Types, DiskTypes, Versions

\* An operation one field or two of which changed, and its names did not.
LEMMA OpEdited ==
  ASSUME Types, NEW o \in Ops, NEW st \in OpStages \ {"none"}, NEW v \in Versions,
         op[o].st # "none",
         \/ op' = [op EXCEPT ![o].st = st]
         \/ op' = [op EXCEPT ![o].st = st, ![o].file = v]
  PROVE  op' \in [Ops -> OpState] /\ \A q \in Ops : InNames(q)'
<1> DEFINE s == op[o]
           x == [s EXCEPT !.st = st]
           y == [s EXCEPT !.st = st, !.file = v]
<1>1. s \in OpState /\ InNames(o) /\ op \in [Ops -> OpState]
  BY DEF Types, OpTypes
<1>2. /\ x \in OpState /\ x.to = s.to /\ x.from = s.from /\ x.kind = s.kind
      /\ y \in OpState /\ y.to = s.to /\ y.from = s.from /\ y.kind = s.kind
  <2> HIDE DEF s
  <2> QED BY <1>1 DEF OpState
<1>3. op' = [op EXCEPT ![o] = x] \/ op' = [op EXCEPT ![o] = y]
  <2>1. op' = [op EXCEPT ![o].st = st] => op' = [op EXCEPT ![o] = x]
    OBVIOUS
  <2>2. op' = [op EXCEPT ![o].st = st, ![o].file = v] => op' = [op EXCEPT ![o] = y]
    BY <1>1
  <2>3. QED BY <2>1, <2>2
<1>4. op' \in [Ops -> OpState]
  <2> HIDE DEF s, x, y
  <2> QED BY <1>1, <1>2, <1>3
<1>5. ASSUME NEW q \in Ops PROVE InNames(q)'
  <2> HIDE DEF x, y
  <2>1. CASE q = o
    BY <1>1, <1>2, <1>3, <2>1 DEF InNames
  <2>2. CASE q # o
    BY <1>1, <1>3, <2>2 DEF InNames, Types, OpTypes
  <2>3. QED BY <2>1, <2>2
<1>6. QED BY <1>4, <1>5

LEMMA DiskStepTypes ==
  ASSUME Types, \/ \E n \in Name : External(n)
                \/ WatchError \/ WatchTimer
  PROVE  Types'
<1>1. ASSUME NEW n \in Name, External(n) PROVE Types'
  <2>1. disk' \in [Name -> Versions]
    <3>1. \A v \in Versions : [disk EXCEPT ![n] = v] \in [Name -> Versions]
      BY DEF Types, DiskTypes
    <3>2. changes + 1 \in Versions /\ 0 \in Versions
      <4>1. Happens
        BY <1>1 DEF External
      <4>2. QED BY <4>1, HappensTypes, Constants
    <3>3. QED BY <1>1, <3>1, <3>2 DEF External
  <2>2. notes' \in [paths : SUBSET Name, uncertain : BOOLEAN] /\ blind' \in [Tabs -> BOOLEAN]
    <3>1. [notes EXCEPT !.uncertain = TRUE] \in [paths : SUBSET Name, uncertain : BOOLEAN]
      BY DEF Types, DiskTypes
    <3>2. {n} \in SUBSET Name
      OBVIOUS
    <3>3. QED BY <1>1, <3>1, <3>2, ToldTypes, ChangedTypes DEF External
  <2>3. changes' \in 1..MaxChanges
    BY <1>1, HappensTypes DEF External
  <2>4. UNCHANGED <<watch, tab, job, pending, probe, sample, op, relist, deferred>>
    BY <1>1 DEF External, pumpVars
  <2>5. QED BY <2>1, <2>2, <2>3, <2>4
            DEF Types, DiskTypes, TabTypes, PumpTypes, OpTypes, InNames
<1>2. CASE WatchError
  <2>1. changes' \in 1..MaxChanges
    BY <1>2, HappensTypes DEF WatchError
  <2>2. QED BY <1>2, <2>1 DEF WatchError, pumpVars, Types, DiskTypes, TabTypes, PumpTypes, OpTypes, InNames, Watches
<1>3. CASE WatchTimer
  BY <1>3 DEF WatchTimer, pumpVars, Types, DiskTypes, TabTypes, PumpTypes, OpTypes, InNames, Watches
<1>4. QED BY <1>1, <1>2, <1>3

LEMMA ListedTypes ==
  ASSUME Types, NEW ts \in SUBSET Tabs, NEW kind \in Kinds, Listed(ts, kind)
  PROVE  TabTypes' /\ blind' \in [Tabs -> BOOLEAN]
<1>1. \A t \in Tabs : [tab[t] EXCEPT !.latest = @ + 1, !.asked = @ + 1, !.kind = kind,
                          !.load = "Loading", !.page = "Directory", !.here = TRUE] \in TabState
  <2> TAKE t \in Tabs
  <2>1. tab[t] \in TabState /\ tab[t].latest + 1 \in Nat /\ tab[t].asked + 1 \in Nat
    BY DEF Types, TabTypes, TabState
  <2> DEFINE s == tab[t]
             a == tab[t].latest + 1
             b == tab[t].asked + 1
  <2> HIDE DEF s, a, b
  <2>2. [s EXCEPT !.latest = a, !.asked = b, !.kind = kind, !.load = "Loading",
                  !.page = "Directory", !.here = TRUE] \in TabState
    BY <2>1, Constants DEF s, a, b, TabState
  <2>3. QED BY <2>2 DEF s, a, b
<1>2. tab' \in [Tabs -> TabState]
  BY <1>1 DEF Listed, Types, TabTypes
<1>3. job' \in [Tabs -> Some(Listing)]
  BY DEF Listed, Types, TabTypes, Some, Listing
<1>4. blind' \in [Tabs -> BOOLEAN]
  BY DEF Listed, Types, OpTypes
<1>5. QED BY <1>2, <1>3, <1>4 DEF TabTypes

LEMMA TabStepTypes ==
  ASSUME Types, NEW t \in Tabs,
         Open(t) \/ Leave(t) \/ Search(t) \/ Escape(t) \/ ReadEntry(t) \/ FinishListing(t)
  PROVE  Types'
<1>1. CASE Open(t)
  <2>1. TabTypes' /\ blind' \in [Tabs -> BOOLEAN]
    BY <1>1, ListedTypes, Constants DEF Open
  <2>2. QED BY <1>1, <2>1 DEF Open, pumpVars, Types, DiskTypes, PumpTypes, OpTypes, InNames
<1>2. CASE Leave(t)
  <2>1. changes' \in 1..MaxChanges
    BY <1>2, HappensTypes DEF Leave
  <2>2. TabTypes'
    <3> DEFINE s == tab[t]
               a == tab[t].latest + 1
    <3>1. s \in TabState /\ a \in Nat
      BY DEF Types, TabTypes, TabState
    <3> HIDE DEF s, a
    <3>2. [s EXCEPT !.latest = a, !.kind = "Normal", !.load = "Complete", !.page = "Directory",
                    !.here = FALSE, !.rows = {}] \in TabState
      BY <3>1, Constants DEF TabState
    <3> DEFINE z == [s EXCEPT !.latest = a, !.kind = "Normal", !.load = "Complete",
                              !.page = "Directory", !.here = FALSE, !.rows = {}]
    <3>3. tab' \in [Tabs -> TabState]
      <4>0. tab' = [tab EXCEPT ![t] = z]
        BY <1>2 DEF Leave, s, a
      <4>1. z \in TabState /\ tab' = [tab EXCEPT ![t] = z]
        BY <3>2, <4>0
      <4> HIDE DEF z
      <4>2. QED BY <4>1 DEF Types, TabTypes
    <3>4. QED BY <1>2, <3>3 DEF Leave, Types, TabTypes, Some
  <2>3. QED BY <1>2, <2>1, <2>2 DEF Leave, pumpVars, Types, DiskTypes, PumpTypes, OpTypes, InNames
<1>3. CASE Search(t)
  <2>1. changes' \in 1..MaxChanges
    BY <1>3, HappensTypes DEF Search
  <2>2. TabTypes'
    BY <1>3 DEF Search, Types, TabTypes, TabState, Some, Kinds
  <2>3. QED BY <1>3, <2>1, <2>2 DEF Search, pumpVars, Types, DiskTypes, PumpTypes, OpTypes, InNames
<1>4. CASE Escape(t)
  <2>2. TabTypes'
    BY <1>4 DEF Escape, Types, TabTypes, TabState, Some, Kinds
  <2>3. QED BY <1>4, <2>2 DEF Escape, pumpVars, Types, DiskTypes, PumpTypes, OpTypes, InNames
<1>5. CASE ReadEntry(t)
  <2>1. FilesOn(disk) \subseteq File
    BY Constants DEF FilesOn, File, Types, DiskTypes, Versions
  <2>2. job[t] \in Listing
    BY <1>5 DEF ReadEntry, Types, TabTypes, Some
  <2>3. TabTypes'
    BY <1>5, <2>1, <2>2 DEF ReadEntry, Types, TabTypes, Some, Listing
  <2>4. QED BY <1>5, <2>3 DEF ReadEntry, pumpVars, Types, DiskTypes, PumpTypes, OpTypes, InNames
<1>6. CASE FinishListing(t)
  <2>1. job[t] \in Listing
    BY <1>6 DEF FinishListing, Types, TabTypes, Some
  <2>2. TabTypes'
    <3> DEFINE s == tab[t]
               r == job[t].got
    <3>1. s \in TabState /\ r \in Rows
      BY <2>1 DEF Types, TabTypes, Listing, Rows
    <3> HIDE DEF s, r
    <3>2. [s EXCEPT !.load = "Complete", !.kind = "Normal", !.rows = r] \in TabState
      BY <3>1, Constants DEF TabState
    <3>3. tab' = [tab EXCEPT ![t] = [s EXCEPT !.load = "Complete", !.kind = "Normal", !.rows = r]]
      BY <1>6 DEF FinishListing, s, r, Types, TabTypes
    <3> DEFINE z == [s EXCEPT !.load = "Complete", !.kind = "Normal", !.rows = r]
    <3>4. tab' \in [Tabs -> TabState]
      <4>1. z \in TabState /\ tab' = [tab EXCEPT ![t] = z]
        BY <3>2, <3>3
      <4> HIDE DEF z
      <4>2. QED BY <4>1 DEF Types, TabTypes
    <3>5. QED BY <1>6, <3>4 DEF FinishListing, Types, TabTypes, Some
  <2>3. QED BY <1>6, <2>2 DEF FinishListing, pumpVars, Types, DiskTypes, PumpTypes, OpTypes, InNames
<1>7. QED BY <1>1, <1>2, <1>3, <1>4, <1>5, <1>6

LEMMA OpStepTypes ==
  ASSUME Types, NEW o \in Ops,
         \/ \E t \in Tabs, from, to \in Name : StartRename(o, t, from, to)
         \/ \E kind \in {"Copy", "Delete"}, n \in Name : StartWrite(o, kind, n)
         \/ Dequeue(o) \/ DoRename(o) \/ DoWrite(o)
  PROVE  Types'
<1>0. "ended" \in OpStages \ {"none"}
  BY DEF OpStages
<1>1. ASSUME NEW t \in Tabs, NEW from \in Name, NEW to \in Name, StartRename(o, t, from, to)
      PROVE  Types'
  <2>1. changes' \in 1..MaxChanges /\ 0 \in Versions
    BY <1>1, HappensTypes, Constants DEF StartRename
  <2>2. OpTypes'
    <3>1. PICK st \in {"queued", "running"} :
            op' = [op EXCEPT ![o] = [st |-> st, kind |-> "Rename", from |-> from, to |-> to, file |-> 0]]
      BY <1>1 DEF StartRename
    <3>2. [st |-> st, kind |-> "Rename", from |-> from, to |-> to, file |-> 0] \in OpState
      <4>1. st \in OpStages /\ from \in Some(Name) /\ to \in Some(Name)
        BY DEF OpStages, Some
      <4>2. QED BY <4>1, Constants DEF OpState
    <3>3. op' \in [Ops -> OpState]
      BY <3>1, <3>2 DEF Types, OpTypes
    <3>4. \A q \in Ops : InNames(q)'
      BY <3>1, <1>1 DEF InNames, Types, OpTypes, StartRename
    <3>5. QED BY <1>1, <3>3, <3>4 DEF StartRename, Types, OpTypes
  <2>3. QED BY <1>1, <2>1, <2>2 DEF StartRename, pumpVars, Types, DiskTypes, TabTypes, PumpTypes
<1>2. ASSUME NEW kind \in {"Copy", "Delete"}, NEW n \in Name, StartWrite(o, kind, n) PROVE Types'
  <2>1. changes' \in 1..MaxChanges /\ changes + 1 \in Versions
    <3>1. Happens
      BY <1>2 DEF StartWrite
    <3>2. QED BY <3>1, HappensTypes
  <2>2. OpTypes'
    <3>1. op' = [op EXCEPT ![o] = [st |-> "running", kind |-> kind, from |-> NoWatch, to |-> n,
                                   file |-> changes + 1]]
      BY <1>2 DEF StartWrite
    <3>2. [st |-> "running", kind |-> kind, from |-> NoWatch, to |-> n, file |-> changes + 1] \in OpState
      <4> DEFINE v == changes + 1
      <4>1. v \in Versions /\ kind \in OpKinds /\ n \in Some(Name)
        BY <2>1 DEF OpKinds, Some
      <4> HIDE DEF v
      <4>2. [st |-> "running", kind |-> kind, from |-> NoWatch, to |-> n, file |-> v] \in OpState
        BY <4>1, Constants DEF OpState
      <4>3. QED BY <4>2 DEF v
    <3>3. op' \in [Ops -> OpState]
      BY <3>1, <3>2 DEF Types, OpTypes
    <3>4. \A q \in Ops : InNames(q)'
      BY <3>1, <1>2 DEF InNames, Types, OpTypes
    <3>5. QED BY <1>2, <3>3, <3>4 DEF StartWrite, Types, OpTypes
  <2>3. QED BY <1>2, <2>1, <2>2 DEF StartWrite, pumpVars, Types, DiskTypes, TabTypes, PumpTypes
<1>3. CASE Dequeue(o)
  <2>1. OpTypes'
    <3>1. op[o].st # "none" /\ op' = [op EXCEPT ![o].st = "running"]
      BY <1>3 DEF Dequeue
    <3>2. "running" \in OpStages \ {"none"}
      BY DEF OpStages
    <3>3. op' \in [Ops -> OpState] /\ \A q \in Ops : InNames(q)'
      BY <3>1, <3>2, OpEdited, Constants
    <3>4. QED BY <1>3, <3>3 DEF Dequeue, Types, OpTypes
  <2>2. QED BY <1>3, <2>1 DEF Dequeue, pumpVars, Types, DiskTypes, TabTypes, PumpTypes
<1>4. CASE DoRename(o)
  <2> DEFINE f == op[o].from
             d == op[o].to
  <2>1. f \in Name /\ d \in Name /\ op[o] \in OpState /\ op[o].st # "none"
    BY <1>4 DEF DoRename, Types, OpTypes, InNames
  <2>2. disk[f] \in Versions /\ 0 \in Versions
    BY <2>1, Constants DEF Types, DiskTypes
  <2>3. CASE disk[f] # 0 /\ disk[d] = 0
    <3>1. disk' = [disk EXCEPT ![d] = disk[f], ![f] = 0] /\ Changed({f, d})
          /\ op' = [op EXCEPT ![o].st = "ended", ![o].file = disk[f]]
      BY <1>4, <2>3 DEF DoRename
    <3>2. disk' \in [Name -> Versions]
      BY <3>1, <2>1, <2>2 DEF Types, DiskTypes
    <3>3. notes' \in [paths : SUBSET Name, uncertain : BOOLEAN] /\ blind' \in [Tabs -> BOOLEAN]
      BY <2>1, <3>1, ChangedTypes
    <3>4. op' \in [Ops -> OpState] /\ \A q \in Ops : InNames(q)'
      BY <3>1, <2>1, <2>2, <1>0, OpEdited
    <3>5. QED BY <1>4, <3>2, <3>3, <3>4
              DEF DoRename, pumpVars, Types, DiskTypes, TabTypes, PumpTypes, OpTypes
  <2>4. CASE ~(disk[f] # 0 /\ disk[d] = 0)
    <3>1. op' = [op EXCEPT ![o].st = "ended"] /\ UNCHANGED <<disk, notes, blind>>
      BY <1>4, <2>4 DEF DoRename
    <3>2. op' \in [Ops -> OpState] /\ \A q \in Ops : InNames(q)'
      BY <3>1, <2>1, <1>0, OpEdited, Constants
    <3>3. QED BY <1>4, <3>1, <3>2
              DEF DoRename, pumpVars, Types, DiskTypes, TabTypes, PumpTypes, OpTypes
  <2>5. QED BY <2>3, <2>4
<1>5. CASE DoWrite(o)
  <2>1. op[o].to \in Name /\ op[o] \in OpState /\ op[o].st # "none"
    BY <1>5 DEF DoWrite, Types, OpTypes, InNames
  <2>2. op[o].file \in Versions /\ 0 \in Versions
    BY <2>1, Constants DEF OpState
  <2>3. disk' \in [Name -> Versions]
    BY <1>5, <2>1, <2>2 DEF DoWrite, Types, DiskTypes
  <2>4. notes' \in [paths : SUBSET Name, uncertain : BOOLEAN] /\ blind' \in [Tabs -> BOOLEAN]
    <3>1. CASE disk' = disk
      BY <1>5, <3>1 DEF DoWrite, Types, DiskTypes, OpTypes
    <3>2. CASE disk' # disk
      BY <1>5, <2>1, <3>2, ChangedTypes DEF DoWrite
    <3>3. QED BY <3>1, <3>2
  <2>5. op' \in [Ops -> OpState] /\ \A q \in Ops : InNames(q)'
    BY <1>5, <2>1, <1>0, OpEdited, Constants DEF DoWrite
  <2>6. QED BY <1>5, <2>3, <2>4, <2>5
            DEF DoWrite, pumpVars, Types, DiskTypes, TabTypes, PumpTypes, OpTypes
<1>6. QED BY <1>1, <1>2, <1>3, <1>4, <1>5

-------------------------------------------------------------------------------
(* The types of a turn of the pump.                                          *)

LEMMA MaxOfTwo ==
  ASSUME NEW a \in Nat, NEW b \in Nat
  PROVE  /\ Max({a, b}) \in {a, b} /\ Max({a, b}) >= a /\ Max({a, b}) >= b
<1>1. PICK m \in {a, b} : \A y \in {a, b} : m >= y
  BY a \in Nat, b \in Nat
<1>2. QED BY <1>1 DEF Max

\* What merging gives.
LEMMA Merged ==
  ASSUME NEW a \in Some(Notification), NEW b \in Some(Notification)
  PROVE  /\ MergePending(a, b) \in Some(Notification)
         /\ a = NoWatch => MergePending(a, b) = b
         /\ b = NoWatch => MergePending(a, b) = a
         /\ a # NoWatch /\ b # NoWatch =>
              /\ MergePending(a, b) # NoWatch
              /\ MergePending(a, b).paths = a.paths \cup b.paths
              /\ MergePending(a, b).uncertain = (a.uncertain \/ b.uncertain)
              /\ MergePending(a, b).observed >= a.observed
              /\ MergePending(a, b).observed >= b.observed
              /\ MergePending(a, b).observed \in {a.observed, b.observed}
<1>1. CASE a = NoWatch \/ b = NoWatch
  BY <1>1 DEF MergePending
<1>2. CASE a # NoWatch /\ b # NoWatch
  <2> DEFINE m == Max({a.observed, b.observed})
  <2>1. a \in Notification /\ b \in Notification
    BY <1>2 DEF Some
  <2>2. a.observed \in Nat /\ b.observed \in Nat
    BY <2>1 DEF Notification
  <2>3. m \in {a.observed, b.observed} /\ m >= a.observed /\ m >= b.observed
    BY <2>2, MaxOfTwo
  <2>4. MergePending(a, b) = [observed |-> m, paths |-> a.paths \cup b.paths,
                              uncertain |-> a.uncertain \/ b.uncertain]
    BY <1>2 DEF MergePending
  <2> HIDE DEF m
  <2>5. MergePending(a, b) \in Notification
    BY <2>1, <2>2, <2>3, <2>4 DEF Notification
  <2>6. MergePending(a, b) # NoWatch /\ MergePending(a, b) \in Some(Notification)
    BY <2>5, NoWatchAssumption DEF Some
  <2>7. QED BY <1>2, <2>3, <2>4, <2>6
<1>3. QED BY <1>1, <1>2

\* What the parts of a turn are.
LEMMA TurnTypes ==
  ASSUME Types, NEW turn \in Turns
  PROVE  /\ turn.paths \subseteq notes.paths /\ turn.paths \subseteq Name
         /\ turn.uncertain \in BOOLEAN /\ (turn.uncertain => notes.uncertain)
         /\ turn.back \subseteq Tabs
         /\ \A t \in turn.back : Stage(t) = "delivered"
BY DEF Turns, Types, DiskTypes

LEMMA ProbeTypes ==
  ASSUME Types, NEW t \in Tabs, Stage(t) # "none"
  PROVE  probe[t] # NoWatch /\ probe[t] \in Probe /\ Stage(t) = probe[t].stage
BY DEF Stage, Types, PumpTypes, Some

LEMMA QueuedTypes ==
  ASSUME Types, NEW turn \in Turns, NEW t \in Tabs
  PROVE  /\ Sent(t, turn) \in Some(Notification)
         /\ (IF t \in turn.back THEN probe[t].retry ELSE NoWatch) \in Some(Notification)
         /\ Queued(t, turn) \in Some(Notification)
<1>1. Sent(t, turn) \in Some(Notification)
  <2>1. CASE Sent(t, turn) = NoWatch
    BY <2>1 DEF Some
  <2>2. CASE Sent(t, turn) # NoWatch
    <3>1. Sent(t, turn) = [observed |-> tab[t].latest, paths |-> turn.paths, uncertain |-> turn.uncertain]
      BY <2>2 DEF Sent
    <3>2. tab[t].latest \in Nat
      BY DEF Types, TabTypes, TabState
    <3>3. QED BY <3>1, <3>2, TurnTypes DEF Some, Notification
  <2>3. QED BY <2>1, <2>2
<1> DEFINE r == IF t \in turn.back THEN probe[t].retry ELSE NoWatch
<1>2. r \in Some(Notification)
  <2>1. CASE t \in turn.back
    <3>1. probe[t] \in Probe
      BY <2>1, TurnTypes, ProbeTypes
    <3>2. QED BY <2>1, <3>1 DEF Probe, Some
  <2>2. CASE t \notin turn.back
    BY <2>2 DEF Some
  <2>3. QED BY <2>1, <2>2
<1>3. pending[t] \in Some(Notification)
  BY DEF Types, PumpTypes
<1>4. MergePending(pending[t], r) \in Some(Notification)
  BY <1>2, <1>3, Merged
<1>5. MergePending(MergePending(pending[t], r), Sent(t, turn)) \in Some(Notification)
  BY <1>1, <1>4, Merged
<1>6. QED BY <1>1, <1>2, <1>5 DEF Queued

LEMMA ReadyIs ==
  ASSUME Types, NEW turn \in Turns, NEW g, NEW t \in Ready(turn, g)
  PROVE  /\ t \in Tabs /\ Queued(t, turn) # NoWatch /\ Queued(t, turn) \in Notification
         /\ Disposition(t, Queued(t, turn)) = "Probe"
         /\ Stage(t) = "none" \/ t \in turn.back
         /\ \A u \in Tabs : Stage(u) # "sampling"
<1>1. t \in Tabs /\ Judged(t, turn) = "Probe"
  BY DEF Ready
<1>2. Queued(t, turn) # NoWatch /\ Disposition(t, Queued(t, turn)) = "Probe"
  BY <1>1 DEF Judged
<1>3. QED BY <1>1, <1>2, QueuedTypes DEF Ready, Some

LEMMA PumpStepTypes ==
  ASSUME Types, Pump
  PROVE  Types'
<1>1. PICK turn \in Turns, g \in [Tabs -> {"open", "closed"}] :
    /\ notes' = [paths |-> notes.paths \ turn.paths, uncertain |-> notes.uncertain /\ ~turn.uncertain]
    /\ pending' = [t \in Tabs |->
         IF t \notin Ready(turn, g) /\ Judged(t, turn) \in {"Wait", "Probe"}
         THEN Queued(t, turn) ELSE NoWatch]
    /\ probe' = [t \in Tabs |->
         IF t \in Ready(turn, g) THEN NewProbe(t, turn)
         ELSE IF t \in turn.back THEN NoWatch
         ELSE IF Stage(t) = "sampled" THEN [probe[t] EXCEPT !.stage = "queued"]
         ELSE probe[t]]
    /\ sample' = IF Ready(turn, g) = {} THEN sample
                 ELSE [left |-> UNION {Queued(t, turn).paths : t \in Ready(turn, g)}, seen |-> {}]
    /\ deferred' = (\/ deferred \/ LeftToOperations(turn)
                    \/ \E t \in Tabs : Judged(t, turn) = "DeferredOperation")
    /\ watch' = IF turn.uncertain /\ watch = "dead" THEN "failed" ELSE watch
  BY DEF Pump
<1>2. DiskTypes'
  <2>1. UNCHANGED <<disk, changes>>
    BY DEF Pump
  <2>2. QED BY <1>1, <2>1 DEF Types, DiskTypes, Watches
<1>3. pending' \in [Tabs -> Some(Notification)]
  BY <1>1, QueuedTypes DEF Some
<1>4. ASSUME NEW t \in Tabs PROVE probe'[t] \in Some(Probe)
  <2>1. CASE t \in Ready(turn, g)
    <3>1. Queued(t, turn) \in Notification
      BY <2>1, ReadyIs
    <3>2. NewProbe(t, turn) \in Probe
      BY <3>1 DEF NewProbe, Probe, Some, Types, TabTypes, TabState, Rows
    <3>3. QED BY <1>1, <2>1, <3>2 DEF Some
  <2>2. CASE t \notin Ready(turn, g) /\ t \notin turn.back /\ Stage(t) = "sampled"
    <3>1. probe[t] \in Probe
      BY <2>2, ProbeTypes
    <3>2. [probe[t] EXCEPT !.stage = "queued"] \in Probe
      BY <3>1 DEF Probe
    <3>3. QED BY <1>1, <2>2, <3>2 DEF Some
  <2>3. CASE t \notin Ready(turn, g) /\ ~(t \notin turn.back /\ Stage(t) = "sampled")
    BY <1>1, <2>3 DEF Types, PumpTypes, Some
  <2>4. QED BY <2>1, <2>2, <2>3
<1>5. sample' \in Some(Sample)
  <2>1. CASE Ready(turn, g) = {}
    BY <1>1, <2>1 DEF Types, PumpTypes
  <2>2. CASE Ready(turn, g) # {}
    <3>1. UNION {Queued(t, turn).paths : t \in Ready(turn, g)} \subseteq Name
      BY ReadyIs DEF Notification
    <3>2. QED BY <1>1, <2>2, <3>1 DEF Some, Sample
  <2>3. QED BY <2>1, <2>2
<1>6. PumpTypes'
  <2>1. DOMAIN probe' = Tabs /\ probe' = [t \in Tabs |-> probe'[t]]
    BY <1>1
  <2>2. QED BY <1>3, <1>4, <1>5, <2>1 DEF PumpTypes
<1>7. TabTypes' /\ OpTypes'
  <2>1. UNCHANGED <<tab, job, op, relist, blind>>
    BY DEF Pump
  <2>2. deferred' \in BOOLEAN
    BY <1>1
  <2>3. QED BY <2>1, <2>2 DEF Types, TabTypes, OpTypes, InNames
<1>8. QED BY <1>2, <1>6, <1>7 DEF Types

-------------------------------------------------------------------------------
(* The types of samples, of their answers and of what an operation leaves.   *)

\* There is a sample of the disk as long as a probe takes one.
Paired == sample = NoWatch <=> Sampling = {}

LEMMA SampleStepTypes ==
  ASSUME Types, Paired, SamplePath \/ SampleEnds
  PROVE  Types'
<1>1. CASE SamplePath
  <2>1. PICK n \in sample.left :
          sample' = [left |-> sample.left \ {n},
                     seen |-> IF \E t \in Sampling : n \in probe[t].watch.paths /\ StillNeeded(t)
                              THEN sample.seen \cup {<<n, disk[n]>>} ELSE sample.seen]
    BY <1>1 DEF SamplePath
  <2>2. CASE sample \in Sample
    <3>1. n \in Name /\ disk[n] \in 0..MaxChanges
      BY <2>1, <2>2 DEF Sample, Types, DiskTypes, Versions
    <3>2. <<n, disk[n]>> \in Name \X (0..MaxChanges)
      BY <3>1
    <3>3. sample.seen \subseteq Name \X (0..MaxChanges) /\ sample.left \subseteq Name
      BY <2>2 DEF Sample
    <3>4. sample' \in Sample
      BY <2>1, <3>2, <3>3 DEF Sample
    <3>5. QED BY <1>1, <3>4 DEF SamplePath, Types, DiskTypes, TabTypes, PumpTypes, OpTypes, InNames, Some
  <2>3. CASE sample = NoWatch
    BY <1>1, <2>3 DEF SamplePath, Paired
  <2>4. QED BY <2>2, <2>3 DEF Types, PumpTypes, Some
<1>2. CASE SampleEnds
  <2>1. ASSUME NEW t \in Tabs PROVE probe'[t] \in Some(Probe)
    <3>1. CASE t \in Sampling
      <4>1. PICK b \in BOOLEAN : probe'[t] = [probe[t] EXCEPT !.stage = "sampled", !.changed = b]
        BY <1>2, <3>1 DEF SampleEnds
      <4>2. probe[t] \in Probe
        BY <3>1, ProbeTypes DEF Sampling
      <4>3. [probe[t] EXCEPT !.stage = "sampled", !.changed = b] \in Probe
        BY <4>2 DEF Probe
      <4>4. QED BY <4>1, <4>3 DEF Some
    <3>2. CASE t \notin Sampling
      BY <1>2, <3>2 DEF SampleEnds, Types, PumpTypes
    <3>3. QED BY <3>1, <3>2
  <2>2. \E f : probe' = [t \in Tabs |-> f[t]]
    <3>1. PICK found \in [Sampling -> SUBSET Name] : probe' = [t \in Tabs |->
            IF t \in Sampling
            THEN [probe[t] EXCEPT !.stage = "sampled",
                                  !.changed = probe[t].watch.uncertain \/ found[t] # {}]
            ELSE probe[t]]
      BY <1>2 DEF SampleEnds
    <3>2. probe' = [t \in Tabs |-> probe'[t]]
      BY <3>1
    <3>3. QED BY <3>2
  <2>3. probe' \in [Tabs -> Some(Probe)]
    BY <2>1, <2>2
  <2>4. QED BY <1>2, <2>3 DEF SampleEnds, Types, DiskTypes, TabTypes, PumpTypes, OpTypes, InNames, Some
<1>3. QED BY <1>1, <1>2

\* What the application of a probe does, by what it finds.
Stale(t)   == tab[t].latest # probe[t].request \/ tab[t].edition # probe[t].edition
Verdict(t) == Disposition(t, probe[t].watch)
Retries(t) == Verdict(t) = "Wait" \/ (Verdict(t) = "Probe" /\ Stale(t))
Lists(t)   == Verdict(t) = "Probe" /\ ~Stale(t) /\ probe[t].changed

LEMMA Applied ==
  ASSUME Types, NEW t \in Tabs, ApplyProbe(t)
  PROVE  /\ ~Settling /\ Stage(t) = "queued" /\ probe[t] \in Probe /\ probe[t] # NoWatch
         /\ deferred' = (deferred \/ Verdict(t) = "DeferredOperation")
         /\ IF Lists(t) THEN Listed({t}, "BackgroundRefresh") ELSE UNCHANGED <<tab, job, blind>>
         /\ \A u \in Tabs : u # t => probe'[u] = probe[u]
         /\ probe'[t] \in Probe /\ probe'[t] # NoWatch
         /\ probe'[t].stage = "delivered" /\ probe'[t].watch = probe[t].watch
         /\ probe'[t].retry = (IF Retries(t) THEN probe[t].watch ELSE NoWatch)
         /\ probe' \in [Tabs -> Some(Probe)]
         /\ UNCHANGED <<disk, changes, watch, notes, pending, sample, gate, op, relist>>
<1>1. Stage(t) = "queued"
  BY DEF ApplyProbe
<1>2. probe[t] \in Probe /\ probe[t] # NoWatch /\ probe \in [Tabs -> Some(Probe)]
  BY <1>1, ProbeTypes DEF Types, PumpTypes
<1> DEFINE p == probe[t]
           r == IF Retries(t) THEN p.watch ELSE NoWatch
           b == /\ p.changed /\ ~Retries(t) /\ tab'[t].latest # p.request
                /\ tab'[t].kind = "BackgroundRefresh"
           q == [p EXCEPT !.stage = "delivered", !.retry = r, !.refreshed = b]
<1>3. b \in BOOLEAN /\ r \in Some(Notification)
  BY <1>2 DEF Some, Probe
<1>4. probe' = [probe EXCEPT ![t] = q]
  BY DEF ApplyProbe, Retries, Verdict, Stale
<1>5. q \in Probe /\ q.stage = "delivered" /\ q.watch = p.watch /\ q.retry = r
  <2> HIDE DEF r, b, p
  <2>1. r \in Notification \cup {NoWatch}
    BY <1>3 DEF Some
  <2>2. p \in Probe
    BY <1>2 DEF p
  <2>3. QED BY <1>3, <2>1, <2>2 DEF Probe
<1>6. q \in Some(Probe) /\ q # NoWatch
  BY <1>5, NoWatchAssumption DEF Some
<1>7. /\ \A u \in Tabs : u # t => probe'[u] = probe[u]
      /\ probe'[t] = q /\ probe' \in [Tabs -> Some(Probe)]
  <2> HIDE DEF q
  <2> QED BY <1>2, <1>4, <1>6
<1>8. /\ ~Settling
      /\ deferred' = (deferred \/ Verdict(t) = "DeferredOperation")
      /\ IF Lists(t) THEN Listed({t}, "BackgroundRefresh") ELSE UNCHANGED <<tab, job, blind>>
      /\ UNCHANGED <<disk, changes, watch, notes, pending, sample, gate, op, relist>>
  BY DEF ApplyProbe, Lists, Verdict, Stale
<1> HIDE DEF q, b
<1>9. QED BY <1>1, <1>2, <1>5, <1>6, <1>7, <1>8

LEMMA ApplyProbeTypes ==
  ASSUME Types, NEW t \in Tabs, ApplyProbe(t)
  PROVE  Types'
<1>1. PumpTypes'
  BY Applied DEF Types, PumpTypes
<1>2. DiskTypes'
  BY Applied DEF Types, DiskTypes
<1>3. TabTypes' /\ blind' \in [Tabs -> BOOLEAN]
  <2>1. CASE Lists(t)
    BY <2>1, Applied, ListedTypes, Constants
  <2>2. CASE ~Lists(t)
    BY <2>2, Applied DEF Types, TabTypes, OpTypes
  <2>3. QED BY <2>1, <2>2
<1>4. OpTypes'
  <2>1. deferred' \in BOOLEAN /\ UNCHANGED <<op, relist>>
    BY Applied
  <2>2. QED BY <1>3, <2>1 DEF Types, OpTypes, InNames
<1>5. QED BY <1>1, <1>2, <1>3, <1>4 DEF Types

\* What the end of an operation does.
Succeeded(o) == op[o].kind = "Rename" /\ op[o].file # 0
Shows(o, t)  == /\ Succeeded(o) /\ tab[t].here /\ tab[t].page = "Directory" /\ tab[t].load = "Complete"
                /\ \E f \in tab[t].rows : f[1] = op[o].from
Affects(o)   == ~Succeeded(o) \/ deferred

LEMMA Ended ==
  ASSUME Types, NEW o \in Ops, Finished(o)
  PROVE  /\ ~Settling /\ op[o].st = "ended"
         /\ relist' = [t \in Tabs |-> IF Affects(o) THEN IF tab[t].here THEN "BackgroundRefresh" ELSE NoWatch
                                      ELSE IF tab[t].here /\ tab[t].page = "Directory" /\ ~Shows(o, t)
                                           THEN "Refresh" ELSE NoWatch]
         /\ tab' = [t \in Tabs |->
                    IF Shows(o, t)
                    THEN [tab[t] EXCEPT !.rows = RowsRenamed(tab[t].rows, op[o].from, op[o].to),
                                        !.edition = tab[t].edition + 1]
                    ELSE tab[t]]
         /\ blind' = [t \in Tabs |-> blind[t] \/ (Shows(o, t) /\ Misfits(t, o))]
         /\ deferred' = (deferred /\ op[o].kind = "Delete")
         /\ op' = [op EXCEPT ![o].st = "done"]
         /\ UNCHANGED <<disk, changes, watch, notes, job, pending, probe, sample, gate>>
<1>1. /\ ~Settling /\ op[o].st = "ended"
      /\ deferred' = (deferred /\ op[o].kind = "Delete")
      /\ op' = [op EXCEPT ![o].st = "done"]
      /\ UNCHANGED <<disk, changes, watch, notes, job, pending, probe, sample, gate>>
  BY DEF Finished, pumpVars
<1> DEFINE rename  == op[o].kind = "Rename" /\ op[o].file # 0
           at      == {t \in Here : tab[t].page = "Directory"}
           renamed == {t \in at : /\ rename /\ tab[t].load = "Complete"
                                  /\ \E f \in tab[t].rows : f[1] = op[o].from}
           affected == ~rename \/ deferred
<1>2. \A t \in Tabs : /\ t \in renamed <=> Shows(o, t)
                      /\ t \in at <=> tab[t].here /\ tab[t].page = "Directory"
                      /\ t \in Here <=> tab[t].here
  BY DEF Shows, Succeeded, Here
<1>3. affected <=> Affects(o)
  BY DEF Affects, Succeeded
<1>4. /\ relist' = [t \in Tabs |-> IF affected THEN IF t \in Here THEN "BackgroundRefresh" ELSE NoWatch
                                   ELSE IF t \in at \ renamed THEN "Refresh" ELSE NoWatch]
      /\ tab' = [t \in Tabs |->
                    IF t \in renamed
                    THEN [tab[t] EXCEPT !.rows = RowsRenamed(tab[t].rows, op[o].from, op[o].to),
                                        !.edition = tab[t].edition + 1]
                    ELSE tab[t]]
      /\ blind' = [t \in Tabs |-> blind[t] \/ (t \in renamed /\ Misfits(t, o))]
  BY DEF Finished
<1> HIDE DEF renamed, at, affected
<1>5. QED BY <1>1, <1>2, <1>3, <1>4

LEMMA RenamedRows ==
  ASSUME NEW rows \in Rows, NEW from \in Name, NEW to \in Name, \E f \in rows : f[1] = from
  PROVE  /\ RowsRenamed(rows, from, to) \in Rows
         /\ \E row \in rows : row[1] = from
               /\ RowsRenamed(rows, from, to) = (rows \ {row}) \cup {<<to, row[2]>>}
<1> DEFINE row == CHOOSE f \in rows : f[1] = from
<1>1. row \in rows /\ row[1] = from
  OBVIOUS
<1>2. RowsRenamed(rows, from, to) = (rows \ {row}) \cup {<<to, row[2]>>}
  BY DEF RowsRenamed
<1> HIDE DEF row
<1>3. row \in Name \X (1..MaxChanges)
  BY <1>1 DEF Rows, File
<1>4. <<to, row[2]>> \in File
  BY <1>3 DEF File
<1>5. QED BY <1>1, <1>2, <1>4 DEF Rows

LEMMA FinishedTypes ==
  ASSUME Types, NEW o \in Ops, Finished(o)
  PROVE  Types'
<1>1. op' \in [Ops -> OpState] /\ (\A q \in Ops : InNames(q)')
  <2>1. "done" \in OpStages \ {"none"}
    BY DEF OpStages
  <2>2. QED BY <2>1, Ended, OpEdited, Constants
<1>2. relist' \in [Tabs -> Relists] /\ deferred' \in BOOLEAN /\ blind' \in [Tabs -> BOOLEAN]
  BY Ended DEF Relists, Types, OpTypes
<1>3. tab' \in [Tabs -> TabState]
  <2>1. ASSUME NEW t \in Tabs, Shows(o, t)
        PROVE  [tab[t] EXCEPT !.rows = RowsRenamed(tab[t].rows, op[o].from, op[o].to),
                              !.edition = tab[t].edition + 1] \in TabState
    <3> DEFINE s == tab[t]
               r == RowsRenamed(tab[t].rows, op[o].from, op[o].to)
               e == tab[t].edition + 1
    <3>1. s \in TabState /\ e \in Nat /\ tab[t].rows \in Rows
      BY DEF Types, TabTypes, TabState
    <3>2. op[o].from \in Name /\ op[o].to \in Name
      BY <2>1, Ended DEF Shows, Succeeded, Types, OpTypes, InNames
    <3>3. r \in Rows
      BY <2>1, <3>1, <3>2, RenamedRows DEF Shows
    <3> HIDE DEF s, r, e
    <3>4. [s EXCEPT !.rows = r, !.edition = e] \in TabState
      BY <3>1, <3>3 DEF TabState
    <3>5. QED BY <3>4 DEF s, r, e
  <2>2. \A t \in Tabs : tab[t] \in TabState
    BY DEF Types, TabTypes
  <2> DEFINE e(t) == [tab[t] EXCEPT !.rows = RowsRenamed(tab[t].rows, op[o].from, op[o].to),
                                    !.edition = tab[t].edition + 1]
  <2>3. tab' = [t \in Tabs |-> IF Shows(o, t) THEN e(t) ELSE tab[t]]
    BY Ended
  <2>4. \A t \in Tabs : Shows(o, t) => e(t) \in TabState
    BY <2>1
  <2> HIDE DEF e
  <2>5. QED BY <2>2, <2>3, <2>4
<1>4. QED BY <1>1, <1>2, <1>3, Ended DEF Types, DiskTypes, TabTypes, PumpTypes, OpTypes

LEMMA RelistTypes ==
  ASSUME Types, Relist
  PROVE  Types'
<1>1. ASSUME NEW t \in Tabs PROVE tab'[t] \in TabState /\ job'[t] \in Some(Listing)
  <2> DEFINE s == tab[t]
             a == tab[t].latest + 1
             b == tab[t].asked + 1
             k == relist[t]
             z == [s EXCEPT !.latest = a, !.asked = b, !.kind = k, !.load = "Loading", !.page = "Directory"]
  <2>1. s \in TabState /\ a \in Nat /\ b \in Nat
    BY DEF Types, TabTypes, TabState
  <2>2. CASE relist[t] # NoWatch
    <3>1. k \in Kinds
      BY <2>2 DEF Types, OpTypes, Relists, Kinds
    <3>2. tab'[t] = z /\ job'[t] = [todo |-> Name, got |-> {}]
      BY <2>2 DEF Relist
    <3> HIDE DEF s, a, b, k
    <3>3. z \in TabState
      BY <2>1, <3>1, Constants DEF TabState
    <3> HIDE DEF z
    <3>4. [todo |-> Name, got |-> {}] \in Listing
      BY DEF Listing
    <3>5. QED BY <3>2, <3>3, <3>4 DEF Some
  <2>3. CASE relist[t] = NoWatch
    BY <2>3 DEF Relist, Types, TabTypes
  <2>4. QED BY <2>2, <2>3
<1>2. tab' = [t \in Tabs |-> tab'[t]] /\ job' = [t \in Tabs |-> job'[t]]
  BY DEF Relist
<1>3. TabTypes'
  BY <1>1, <1>2 DEF TabTypes
<1>4. OpTypes'
  BY DEF Relist, Types, OpTypes, InNames, Relists
<1>5. QED BY <1>3, <1>4 DEF Relist, pumpVars, Types, DiskTypes, PumpTypes

\* Every step keeps the types.
LEMMA NextTypes ==
  ASSUME Types, Paired, [Next]_vars
  PROVE  Types'
<1>1. CASE UNCHANGED vars
  BY <1>1 DEF vars, Types, DiskTypes, TabTypes, PumpTypes, OpTypes, InNames
<1>2. CASE \/ \E n \in Name : External(n)
           \/ WatchError \/ WatchTimer
  BY <1>2, DiskStepTypes
<1>3. CASE \E t \in Tabs : Open(t) \/ Leave(t) \/ Search(t) \/ Escape(t) \/ ReadEntry(t) \/ FinishListing(t)
  BY <1>3, TabStepTypes
<1>4. CASE Pump
  BY <1>4, PumpStepTypes
<1>5. CASE SamplePath \/ SampleEnds
  BY <1>5, SampleStepTypes
<1>6. CASE \E t \in Tabs : ApplyProbe(t)
  BY <1>6, ApplyProbeTypes
<1>7. CASE \/ \E o \in Ops, t \in Tabs, from, to \in Name : StartRename(o, t, from, to)
           \/ \E o \in Ops, kind \in {"Copy", "Delete"}, n \in Name : StartWrite(o, kind, n)
           \/ \E o \in Ops : Dequeue(o) \/ DoRename(o) \/ DoWrite(o)
  BY <1>7, OpStepTypes
<1>8. CASE \E o \in Ops : Finished(o)
  BY <1>8, FinishedTypes
<1>9. CASE Relist
  BY <1>9, RelistTypes
<1>10. QED BY <1>1, <1>2, <1>3, <1>4, <1>5, <1>6, <1>7, <1>8, <1>9 DEF Next

-------------------------------------------------------------------------------
(* The invariant.                                                            *)

\* A tab whose rows are on the screen and that nobody has left in the dark; one
\* that loads; the rows it has or will have.
Looks(t) == tab[t].here /\ tab[t].page = "Directory" /\ ~blind[t]
Loads(t) == tab[t].load = "Loading"
Known(t) == IF Loads(t) THEN job[t].got ELSE tab[t].rows

\* The rows of one name, and what they should be.
Of(rows, n)  == {f \in rows : f[1] = n}
OnDisk(n)    == IF disk[n] = 0 THEN {} ELSE {<<n, disk[n]>>}
Single(rows) == \A f, g \in rows : f[1] = g[1] => f = g

\* A notification that names n and that the tab will not drop.
Covers(w, n)   == w # NoWatch /\ (w.uncertain \/ n \in w.paths)
Kept(t, w)     == w.observed = tab[t].latest \/ ~Loads(t) \/ tab[t].kind \in {"Refresh", "BackgroundRefresh"}
Bears(t, w, n) == Covers(w, n) /\ Kept(t, w)

\* Something still to be judged will have t list n again: the watcher, the pump,
\* the operations or the listings that follow one.
Noted(n) == notes.uncertain \/ n \in notes.paths
Held(t, n) ==
  \/ Noted(n)
  \/ Bears(t, pending[t], n)
  \/ Stage(t) = "delivered" /\ Bears(t, probe[t].retry, n)
  \/ deferred /\ Active # {}
  \/ relist[t] # NoWatch

\* A comparison under way that is going to find, or has found, that t must list n:
\* n is still to be read, or was read as it now is, so that it differs from the
\* rows if these are wrong; or the tab has changed meanwhile and is tried again.
Finds(t, n) ==
  \/ /\ Stage(t) = "sampling"
     /\ \/ probe[t].watch.uncertain \/ n \in sample.left
        \/ Of(sample.seen, n) = {} \/ <<n, disk[n]>> \in sample.seen
  \/ /\ Stage(t) \in {"sampled", "queued"}
     /\ probe[t].changed \/ Stale(t)
Probed(t, n) == Bears(t, probe[t].watch, n) /\ Finds(t, n)
Owed(t, n)   == Held(t, n) \/ Probed(t, n)

\* What t shows of n is right, or is still to be read, or a listing is owed.
Shown(t, n) == \/ Loads(t) /\ n \in job[t].todo
               \/ Of(Known(t), n) = OnDisk(n)
               \/ Owed(t, n)
InView == \A t \in Tabs, n \in Name : Looks(t) => Shown(t, n)

\* A rename that has happened and has not been shown: the old name is another
\* file by now or none, and a tab that shows the file under its old name may show
\* it under the new one, unless it is owed a listing of that name.
Renamed(o) == op[o].st = "ended" /\ Succeeded(o)
Follows(o, t) == Looks(t) /\ <<op[o].from, op[o].file>> \in Known(t)
                   => disk[op[o].to] = op[o].file \/ Held(t, op[o].to)
InRename ==
  \A o \in Ops : Renamed(o) =>
     /\ disk[op[o].from] # op[o].file
     /\ \A t \in Tabs : Follows(o, t)

\* One operation at a time on the local lane; a version is written once.
AtWork(o) == op[o].st \in {"running", "ended"}
InLane == \A o, q \in Ops :
  AtWork(o) /\ AtWork(q) /\ op[o].kind # "Copy" /\ op[q].kind # "Copy" => o = q

Writes(o)  == op[o].st = "running" /\ op[o].kind # "Rename"
InVersions ==
  /\ \A o \in Ops : op[o].st = "queued" => op[o].kind = "Rename"
  /\ \A o \in Ops : op[o].kind = "Rename" /\ op[o].st \in {"queued", "running"} => op[o].file = 0
  /\ \A n \in Name : disk[n] <= changes
  /\ \A o \in Ops : op[o].file <= changes
  /\ \A o \in Ops : Writes(o) =>
        /\ op[o].file # 0
        /\ \A n \in Name : disk[n] # op[o].file
        /\ \A q \in Ops : op[q].file = op[o].file => q = o
InOps == InLane /\ InVersions

\* A tab that loads has a job, in its directory, and rows of one version each; a
\* listing is only asked again of a tab in the directory.
Sound(t) ==
  /\ Loads(t) <=> job[t] # NoWatch
  /\ Loads(t) => tab[t].here /\ tab[t].page = "Directory"
  /\ Loads(t) => Single(job[t].got) /\ (\A f \in job[t].got : f[1] \notin job[t].todo)
  /\ tab[t].here /\ ~Loads(t) /\ ~blind[t] => Single(tab[t].rows)
  /\ relist[t] # NoWatch => tab[t].here
InListing == \A t \in Tabs : Sound(t)

\* A sample read each name once; a probe has the rows of its request.
InSample == sample # NoWatch => Single(sample.seen) /\ (\A f \in sample.seen : f[1] \notin sample.left)
Compares(t) ==
  Stage(t) \in {"sampling", "sampled", "queued"} =>
       /\ probe[t].request <= tab[t].latest /\ probe[t].edition <= tab[t].edition
       /\ probe[t].request = tab[t].latest => ~Loads(t)
       /\ ~Stale(t) => probe[t].rows = tab[t].rows
InProbe == Paired /\ InSample /\ \A t \in Tabs : Compares(t)

\* What waits says something, of a request that was made.
Past(t, w) == w # NoWatch => w.observed <= tab[t].latest /\ (w.uncertain \/ w.paths # {})
InNotes ==
  \A t \in Tabs :
    /\ Past(t, pending[t])
    /\ probe[t] # NoWatch => Past(t, probe[t].watch) /\ Past(t, probe[t].retry)

IInv == /\ Types
        /\ InOps /\ InListing /\ InProbe /\ InNotes
        /\ InRename /\ InView

-------------------------------------------------------------------------------
(* The operations.                                                           *)

LEMMA VersionsAre ==
  ASSUME Types
  PROVE  /\ changes \in Nat /\ \A n \in Name : disk[n] \in Nat
         /\ \A o \in Ops : op[o].file \in Nat
         /\ op \in [Ops -> OpState] /\ disk \in [Name -> Versions]
<1>1. changes \in Nat /\ \A n \in Name : disk[n] \in Nat
  BY Constants DEF Types, DiskTypes, Versions
<1>2. \A o \in Ops : op[o].file \in Versions
  BY DEF Types, OpTypes, OpState
<1>3. QED BY <1>1, <1>2, Constants DEF Versions, Types, OpTypes, DiskTypes

LEMMA OpsKept ==
  ASSUME Types, InOps,
         \/ \E n \in Name : External(n)
         \/ \E o \in Ops, t \in Tabs, from, to \in Name : StartRename(o, t, from, to)
         \/ \E o \in Ops, kind \in {"Copy", "Delete"}, n \in Name : StartWrite(o, kind, n)
         \/ \E o \in Ops : Dequeue(o) \/ DoRename(o) \/ DoWrite(o) \/ Finished(o)
         \/ UNCHANGED <<op, disk>> /\ (changes' = changes \/ Happens)
  PROVE  InOps'
<1>0. /\ changes \in Nat /\ \A n \in Name : disk[n] \in Nat
      /\ \A o \in Ops : op[o].file \in Nat
      /\ op \in [Ops -> OpState] /\ disk \in [Name -> Versions]
  BY VersionsAre
<1>1. ASSUME NEW n \in Name, External(n) PROVE InOps'
  <2>1. changes' = changes + 1 /\ UNCHANGED op
    BY <1>1 DEF External, Happens
  <2>2. disk' = [disk EXCEPT ![n] = changes + 1] \/ disk' = [disk EXCEPT ![n] = 0]
    BY <1>1 DEF External
  <2>3. \A m \in Name : disk'[m] = disk[m] \/ disk'[m] = changes + 1 \/ disk'[m] = 0
    BY <2>2, <1>0
  <2>4. InLane'
    BY <2>1 DEF InOps, InLane, AtWork
  <2>5. InVersions'
    BY <1>0, <2>1, <2>3 DEF InOps, InVersions, Writes
  <2>6. QED BY <2>4, <2>5 DEF InOps
<1>2. ASSUME NEW o \in Ops, NEW t \in Tabs, NEW from \in Name, NEW to \in Name,
             StartRename(o, t, from, to)
      PROVE  InOps'
  <2>1. changes' = changes + 1 /\ UNCHANGED disk
    BY <1>2 DEF StartRename, Happens
  <2>2. PICK st \in {"queued", "running"} :
          /\ st = "running" => LocalLaneIsFree
          /\ op' = [op EXCEPT ![o] = [st |-> st, kind |-> "Rename", from |-> from, to |-> to, file |-> 0]]
    BY <1>2 DEF StartRename
  <2>3. /\ op'[o].st = st /\ op'[o].kind = "Rename" /\ op'[o].file = 0
        /\ \A q \in Ops : q # o => op'[q] = op[q]
    BY <2>2, <1>0
  <2>4. st = "running" => \A q \in Ops : AtWork(q) => op[q].kind = "Copy"
    BY <2>2 DEF LocalLaneIsFree, AtWork
  <2>5. InLane'
    BY <2>3, <2>4 DEF InOps, InLane, AtWork
  <2>6. InVersions'
    BY <1>0, <2>1, <2>3 DEF InOps, InVersions, Writes
  <2>7. QED BY <2>5, <2>6 DEF InOps
<1>3. ASSUME NEW o \in Ops, NEW kind \in {"Copy", "Delete"}, NEW n \in Name, StartWrite(o, kind, n)
      PROVE  InOps'
  <2>1. /\ changes' = changes + 1 /\ UNCHANGED disk
        /\ op' = [op EXCEPT ![o] = [st |-> "running", kind |-> kind, from |-> NoWatch, to |-> n,
                                    file |-> changes + 1]]
        /\ kind = "Delete" => LocalLaneIsFree
    BY <1>3 DEF StartWrite, Happens
  <2>3. /\ op'[o].st = "running" /\ op'[o].kind = kind /\ op'[o].file = changes + 1
        /\ \A q \in Ops : q # o => op'[q] = op[q]
    BY <2>1, <1>0
  <2>4. kind = "Delete" => \A q \in Ops : AtWork(q) => op[q].kind = "Copy"
    BY <2>1 DEF LocalLaneIsFree, AtWork
  <2>5. InLane'
    BY <2>3, <2>4 DEF InOps, InLane, AtWork
  <2>6. InVersions'
    BY <1>0, <2>1, <2>3 DEF InOps, InVersions, Writes
  <2>7. QED BY <2>5, <2>6 DEF InOps
<1>4. ASSUME NEW o \in Ops, Dequeue(o) PROVE InOps'
  <2>1. /\ op[o].st = "queued" /\ LocalLaneIsFree /\ UNCHANGED <<disk, changes>>
        /\ op' = [op EXCEPT ![o].st = "running"]
    BY <1>4 DEF Dequeue
  <2>2. /\ op'[o].st = "running" /\ op'[o].kind = op[o].kind /\ op'[o].file = op[o].file
        /\ \A q \in Ops : q # o => op'[q] = op[q]
    BY <2>1, <1>0 DEF OpState
  <2>3. op[o].kind = "Rename" /\ \A q \in Ops : AtWork(q) => op[q].kind = "Copy"
    BY <2>1 DEF InOps, InVersions, LocalLaneIsFree, AtWork
  <2>4. InLane'
    BY <2>2, <2>3 DEF InOps, InLane, AtWork
  <2>5. InVersions'
    BY <1>0, <2>1, <2>2, <2>3 DEF InOps, InVersions, Writes
  <2>6. QED BY <2>4, <2>5 DEF InOps
<1>5. ASSUME NEW o \in Ops, DoRename(o) PROVE InOps'
  <2>1. op[o].st = "running" /\ op[o].kind = "Rename" /\ changes' = changes
        /\ op[o].from \in Name /\ op[o].to \in Name
    BY <1>5 DEF DoRename, Types, OpTypes, InNames
  <2>2. /\ op'[o].st = "ended" /\ op'[o].kind = op[o].kind
        /\ op'[o].file = op[o].file \/ op'[o].file = disk[op[o].from]
        /\ \A q \in Ops : q # o => op'[q] = op[q]
    BY <1>5, <1>0 DEF DoRename, OpState
  <2>3. \A m \in Name : disk'[m] = disk[m] \/ disk'[m] = 0 \/ disk'[m] = disk[op[o].from]
    BY <1>5, <1>0, <2>1 DEF DoRename
  <2>4. InLane'
    BY <2>1, <2>2 DEF InOps, InLane, AtWork
  <2>5. InVersions'
    BY <1>0, <2>1, <2>2, <2>3 DEF InOps, InVersions, Writes
  <2>6. QED BY <2>4, <2>5 DEF InOps
<1>6. ASSUME NEW o \in Ops, DoWrite(o) PROVE InOps'
  <2>1. op[o].st = "running" /\ op[o].kind # "Rename" /\ changes' = changes /\ op[o].to \in Name
    BY <1>6 DEF DoWrite, Types, OpTypes, InNames
  <2>2. /\ op'[o].st = "ended" /\ op'[o].kind = op[o].kind /\ op'[o].file = op[o].file
        /\ \A q \in Ops : q # o => op'[q] = op[q]
    BY <1>6, <1>0 DEF DoWrite, OpState
  <2>3. \A m \in Name : disk'[m] = disk[m] \/ disk'[m] = 0 \/ disk'[m] = op[o].file
    BY <1>6, <1>0, <2>1 DEF DoWrite
  <2>4. InLane'
    BY <2>1, <2>2 DEF InOps, InLane, AtWork
  <2>5. InVersions'
    BY <1>0, <2>1, <2>2, <2>3 DEF InOps, InVersions, Writes
  <2>6. QED BY <2>4, <2>5 DEF InOps
<1>7. ASSUME NEW o \in Ops, Finished(o) PROVE InOps'
  <2>1. op' = [op EXCEPT ![o].st = "done"] /\ UNCHANGED <<disk, changes>>
    BY <1>7, Ended
  <2>2. /\ op'[o].st = "done" /\ op'[o].kind = op[o].kind /\ op'[o].file = op[o].file
        /\ \A q \in Ops : q # o => op'[q] = op[q]
    BY <2>1, <1>0 DEF OpState
  <2>4. InLane'
    BY <2>1, <2>2 DEF InOps, InLane, AtWork
  <2>5. InVersions'
    BY <1>0, <2>1, <2>2 DEF InOps, InVersions, Writes
  <2>6. QED BY <2>4, <2>5 DEF InOps
<1>8. CASE UNCHANGED <<op, disk>> /\ (changes' = changes \/ Happens)
  <2>1. changes' = changes \/ changes' = changes + 1
    BY <1>8 DEF Happens
  <2>2. InLane'
    BY <1>8 DEF InOps, InLane, AtWork
  <2>3. InVersions'
    BY <1>0, <1>8, <2>1 DEF InOps, InVersions, Writes
  <2>4. QED BY <2>2, <2>3 DEF InOps
<1>9. QED BY <1>1, <1>2, <1>3, <1>4, <1>5, <1>6, <1>7, <1>8

-------------------------------------------------------------------------------
(* The tabs.                                                                 *)

\* What a step does to a tab.
Idle(t) == tab'[t] = tab[t] /\ job'[t] = job[t] /\ blind'[t] = blind[t]
Asks(t) ==
  /\ tab'[t].latest = tab[t].latest + 1 /\ tab'[t].edition = tab[t].edition
  /\ tab'[t].load = "Loading" /\ tab'[t].page = "Directory" /\ tab'[t].here
  /\ job'[t] = [todo |-> Name, got |-> {}] /\ ~blind'[t]
Leaves(t) ==
  /\ tab'[t].latest = tab[t].latest + 1 /\ tab'[t].edition = tab[t].edition
  /\ tab'[t].load = "Complete" /\ ~tab'[t].here /\ job'[t] = NoWatch
Swaps(t) ==
  /\ tab'[t].latest = tab[t].latest + 1 /\ tab'[t].edition = tab[t].edition
  /\ ~Loads(t) /\ ~Loads(t)' /\ tab'[t].rows = tab[t].rows /\ tab'[t].here = tab[t].here
  /\ job'[t] = job[t]
  /\ blind'[t] \/ (tab'[t].page = "Search" /\ blind'[t] = blind[t])
Reads(t) ==
  /\ tab'[t] = tab[t] /\ blind'[t] = blind[t] /\ Loads(t)
  /\ \E n \in job[t].todo : job'[t] = [todo |-> job[t].todo \ {n},
                                       got |-> job[t].got \cup (FilesOn(disk) \cap ({n} \X Nat))]
Completes(t) ==
  /\ Loads(t) /\ job[t].todo = {} /\ tab'[t].load = "Complete" /\ tab'[t].rows = job[t].got
  /\ tab'[t].latest = tab[t].latest /\ tab'[t].edition = tab[t].edition
  /\ tab'[t].here = tab[t].here /\ tab'[t].page = tab[t].page
  /\ job'[t] = NoWatch /\ blind'[t] = blind[t]
Edits(t) ==
  /\ ~Loads(t) /\ tab'[t].latest = tab[t].latest /\ tab'[t].edition = tab[t].edition + 1
  /\ tab'[t].load = tab[t].load /\ tab'[t].here = tab[t].here /\ tab'[t].page = tab[t].page
  /\ tab'[t].kind = tab[t].kind /\ job'[t] = job[t]

\* The step of a tab that drops no number.
Onward(t) ==
  /\ tab'[t].latest \in Nat /\ tab'[t].edition \in Nat
  /\ tab'[t].latest >= tab[t].latest /\ tab'[t].edition >= tab[t].edition
  /\ tab'[t].latest = tab[t].latest =>
       /\ Loads(t)' => Loads(t)
       /\ tab'[t].edition = tab[t].edition => tab'[t].rows = tab[t].rows \/ Loads(t)

LEMMA TabIs ==
  ASSUME Types, NEW t \in Tabs
  PROVE  /\ tab[t] \in TabState /\ job[t] \in Some(Listing) /\ tab[t].latest \in Nat /\ tab[t].edition \in Nat
         /\ (~Loads(t) <=> tab[t].load = "Complete") /\ tab[t].page \in Pages /\ tab[t].here \in BOOLEAN
         /\ tab[t].rows \in Rows /\ tab[t].kind \in Kinds /\ blind[t] \in BOOLEAN
BY DEF Types, TabTypes, TabState, OpTypes, Loads, LoadStates

LEMMA Going ==
  ASSUME Types, NEW t \in Tabs,
         Idle(t) \/ Asks(t) \/ Leaves(t) \/ Swaps(t) \/ Reads(t) \/ Completes(t) \/ Edits(t)
  PROVE  Onward(t)
BY TabIs DEF Idle, Asks, Leaves, Swaps, Reads, Completes, Edits, Onward, Loads

LEMMA ListedIs ==
  ASSUME Types, NEW ts \in SUBSET Tabs, NEW kind \in Kinds, Listed(ts, kind)
  PROVE  \A t \in Tabs : IF t \in ts THEN Asks(t) /\ tab'[t].kind = kind ELSE Idle(t)
<1> TAKE t \in Tabs
<1> DEFINE s == tab[t]
           z == [s EXCEPT !.latest = s.latest + 1, !.asked = s.asked + 1, !.kind = kind, !.load = "Loading",
                          !.page = "Directory", !.here = TRUE]
<1>1. CASE t \in ts
  <2>1. tab'[t] = z /\ job'[t] = [todo |-> Name, got |-> {}] /\ blind'[t] = FALSE
    BY <1>1 DEF Listed
  <2>2. s \in TabState
    BY TabIs
  <2>3. /\ z.latest = s.latest + 1 /\ z.kind = kind /\ z.load = "Loading" /\ z.page = "Directory"
        /\ z.here = TRUE /\ z.edition = s.edition
    <3> HIDE DEF s
    <3> QED BY <2>2 DEF TabState
  <2> HIDE DEF z
  <2>4. QED BY <1>1, <2>1, <2>3 DEF Asks
<1>2. CASE t \notin ts
  BY <1>2 DEF Listed, Idle, Types, OpTypes
<1>3. QED BY <1>1, <1>2

LEMMA RelistIs ==
  ASSUME Types, InListing, Relist
  PROVE  \A t \in Tabs : IF relist[t] # NoWatch THEN Asks(t) ELSE Idle(t)
<1> TAKE t \in Tabs
<1> DEFINE s == tab[t]
           z == [s EXCEPT !.latest = s.latest + 1, !.asked = s.asked + 1, !.kind = relist[t],
                          !.load = "Loading", !.page = "Directory"]
<1>1. CASE relist[t] # NoWatch
  <2>1. tab'[t] = z /\ job'[t] = [todo |-> Name, got |-> {}] /\ blind'[t] = FALSE /\ s.here
    BY <1>1 DEF Relist, InListing, Sound
  <2>2. s \in TabState
    BY TabIs
  <2>3. /\ z.latest = s.latest + 1 /\ z.load = "Loading" /\ z.page = "Directory"
        /\ z.here = s.here /\ z.edition = s.edition
    <3> HIDE DEF s
    <3> QED BY <2>2 DEF TabState
  <2> HIDE DEF z
  <2>4. QED BY <1>1, <2>1, <2>3 DEF Asks
<1>2. CASE relist[t] = NoWatch
  BY <1>2 DEF Relist, Idle, Types, OpTypes
<1>3. QED BY <1>1, <1>2

LEMMA StepIs ==
  ASSUME Types, InListing, NEW t \in Tabs, NEW u \in Tabs
  PROVE  /\ Open(t) => IF u = t THEN Asks(u) ELSE Idle(u)
         /\ Leave(t) => IF u = t THEN Leaves(u) ELSE Idle(u)
         /\ Search(t) \/ Escape(t) => IF u = t THEN Swaps(u) ELSE Idle(u)
         /\ ReadEntry(t) => IF u = t THEN Reads(u) ELSE Idle(u)
         /\ FinishListing(t) => IF u = t THEN Completes(u) ELSE Idle(u)
<1>0. /\ tab \in [Tabs -> TabState] /\ job \in [Tabs -> Some(Listing)] /\ blind \in [Tabs -> BOOLEAN]
  BY DEF Types, TabTypes, OpTypes
<1>1. ASSUME Open(t) PROVE IF u = t THEN Asks(u) ELSE Idle(u)
  <2>1. \E kind \in Kinds : Listed({t}, kind)
    BY <1>1, Constants DEF Open
  <2>2. IF u \in {t} THEN Asks(u) ELSE Idle(u)
    BY <2>1, ListedIs
  <2>3. QED BY <2>2
<1>2. ASSUME Leave(t) PROVE IF u = t THEN Leaves(u) ELSE Idle(u)
  <2> DEFINE s == tab[t]
             z == [s EXCEPT !.latest = s.latest + 1, !.kind = "Normal", !.load = "Complete",
                            !.page = "Directory", !.here = FALSE, !.rows = {}]
  <2>1. tab' = [tab EXCEPT ![t] = z] /\ job' = [job EXCEPT ![t] = NoWatch] /\ blind' = blind
    BY <1>2 DEF Leave
  <2>2. z.latest = s.latest + 1 /\ z.load = "Complete" /\ z.here = FALSE /\ z.edition = s.edition
    <3>1. s \in TabState
      BY <1>0
    <3> HIDE DEF s
    <3>2. QED BY <3>1 DEF TabState
  <2> HIDE DEF z
  <2>3. CASE u = t
    <3>1. tab'[u] = z /\ job'[u] = NoWatch
      BY <1>0, <2>1, <2>3
    <3>2. QED BY <2>2, <2>3, <3>1 DEF Leaves
  <2>4. CASE u # t
    BY <1>0, <2>1, <2>4 DEF Idle
  <2>5. QED BY <2>3, <2>4
<1>3. ASSUME Search(t) PROVE IF u = t THEN Swaps(u) ELSE Idle(u)
  <2>1. /\ tab' = [tab EXCEPT ![t].page = "Search", ![t].latest = @ + 1] /\ tab[t].load = "Complete"
        /\ UNCHANGED <<job, blind>>
    BY <1>3 DEF Search
  <2>2. /\ tab'[t].page = "Search" /\ tab'[t].latest = tab[t].latest + 1 /\ tab'[t].load = tab[t].load
        /\ tab'[t].edition = tab[t].edition /\ tab'[t].rows = tab[t].rows /\ tab'[t].here = tab[t].here
        /\ u # t => tab'[u] = tab[u]
    BY <1>0, <2>1 DEF TabState
  <2>3. QED BY <2>1, <2>2 DEF Swaps, Idle, Loads
<1>4. ASSUME Escape(t) PROVE IF u = t THEN Swaps(u) ELSE Idle(u)
  <2>1. /\ tab' = [tab EXCEPT ![t].page = "Directory", ![t].latest = @ + 1] /\ tab[t].page = "Search"
        /\ UNCHANGED job /\ blind' = [blind EXCEPT ![t] = TRUE]
    BY <1>4 DEF Escape
  <2>2. /\ tab'[t].latest = tab[t].latest + 1 /\ tab'[t].load = tab[t].load
        /\ tab'[t].edition = tab[t].edition /\ tab'[t].rows = tab[t].rows /\ tab'[t].here = tab[t].here
        /\ u # t => tab'[u] = tab[u]
    BY <1>0, <2>1 DEF TabState
  <2>3. ~Loads(t)
    BY <2>1 DEF InListing, Sound
  <2>4. blind'[t] /\ (u # t => blind'[u] = blind[u])
    BY <1>0, <2>1
  <2>5. QED BY <2>1, <2>2, <2>3, <2>4 DEF Swaps, Idle, Loads
<1>5. ASSUME ReadEntry(t) PROVE IF u = t THEN Reads(u) ELSE Idle(u)
  <2>1. PICK n \in job[t].todo :
          job' = [job EXCEPT ![t] = [todo |-> job[t].todo \ {n},
                                     got |-> job[t].got \cup (FilesOn(disk) \cap ({n} \X Nat))]]
    BY <1>0, <1>5 DEF ReadEntry
  <2>2. UNCHANGED <<tab, blind>> /\ job[t] # NoWatch /\ Loads(t)
    BY <1>5 DEF ReadEntry, InListing, Sound
  <2>3. QED BY <1>0, <2>1, <2>2 DEF Reads, Idle
<1>6. ASSUME FinishListing(t) PROVE IF u = t THEN Completes(u) ELSE Idle(u)
  <2>1. /\ tab' = [tab EXCEPT ![t].load = "Complete", ![t].kind = "Normal", ![t].rows = job[t].got]
        /\ job' = [job EXCEPT ![t] = NoWatch] /\ UNCHANGED blind
        /\ job[t] # NoWatch /\ job[t].todo = {} /\ Loads(t)
    BY <1>6 DEF FinishListing, InListing, Sound
  <2>2. /\ tab'[t].latest = tab[t].latest /\ tab'[t].load = "Complete" /\ tab'[t].page = tab[t].page
        /\ tab'[t].edition = tab[t].edition /\ tab'[t].rows = job[t].got /\ tab'[t].here = tab[t].here
        /\ u # t => tab'[u] = tab[u]
    BY <1>0, <2>1 DEF TabState
  <2>3. job'[t] = NoWatch /\ (u # t => job'[u] = job[u])
    BY <1>0, <2>1
  <2>4. QED BY <2>1, <2>2, <2>3 DEF Completes, Idle
<1>7. QED BY <1>1, <1>2, <1>3, <1>4, <1>5, <1>6

LEMMA ShowsEdits ==
  ASSUME Types, NEW o \in Ops, Finished(o), NEW t \in Tabs
  PROVE  IF Shows(o, t)
         THEN /\ Edits(t) /\ tab'[t].rows = RowsRenamed(tab[t].rows, op[o].from, op[o].to)
              /\ blind'[t] = (blind[t] \/ Misfits(t, o))
         ELSE Idle(t)
<1> DEFINE s == tab[t]
           r == RowsRenamed(tab[t].rows, op[o].from, op[o].to)
           e == tab[t].edition + 1
           z == [s EXCEPT !.rows = r, !.edition = e]
<1>1. s \in TabState
  BY TabIs
<1>2. /\ z.latest = s.latest /\ z.edition = e /\ z.load = s.load /\ z.here = s.here
      /\ z.page = s.page /\ z.kind = s.kind /\ z.rows = r
  <2> HIDE DEF s, r, e
  <2> QED BY <1>1 DEF TabState
<1>3. /\ tab'[t] = (IF Shows(o, t) THEN z ELSE s)
      /\ blind'[t] = (blind[t] \/ (Shows(o, t) /\ Misfits(t, o))) /\ job' = job
  BY Ended
<1> HIDE DEF z
<1>4. CASE Shows(o, t)
  <2>1. ~Loads(t)
    BY <1>4 DEF Shows, Loads
  <2>2. tab'[t] = z /\ blind'[t] = (blind[t] \/ Misfits(t, o)) /\ job'[t] = job[t]
    BY <1>3, <1>4
  <2>3. QED BY <1>2, <1>4, <2>1, <2>2 DEF Edits
<1>5. CASE ~Shows(o, t)
  BY <1>3, <1>5, TabIs DEF Idle
<1>6. QED BY <1>4, <1>5

\* How a tab stays sound, whatever it does but show a rename.
LEMMA SoundStays ==
  ASSUME Types, NEW t \in Tabs, Sound(t),
         relist'[t] # NoWatch => tab'[t].here,
         Idle(t) \/ Asks(t) \/ Leaves(t) \/ Swaps(t) \/ Reads(t) \/ Completes(t)
  PROVE  Sound(t)'
<1>1. CASE Idle(t)
  BY <1>1 DEF Idle, Sound, Loads
<1>2. CASE Asks(t)
  <2>1. [todo |-> Name, got |-> {}] \in Listing
    BY DEF Listing
  <2>2. job'[t] # NoWatch
    BY <1>2, <2>1, NoWatchAssumption DEF Asks
  <2>3. QED BY <1>2, <2>2 DEF Asks, Sound, Loads, Single
<1>3. CASE Leaves(t)
  BY <1>3 DEF Leaves, Sound, Loads
<1>4. CASE Swaps(t)
  BY <1>4, TabIs DEF Swaps, Sound, Loads
<1>5. CASE Reads(t)
  <2>1. PICK n \in job[t].todo : job'[t] = [todo |-> job[t].todo \ {n},
                                       got |-> job[t].got \cup (FilesOn(disk) \cap ({n} \X Nat))]
    BY <1>5 DEF Reads
  <2>2. \A f \in FilesOn(disk) \cap ({n} \X Nat) : f = <<n, disk[n]>> /\ f[1] = n
    BY DEF FilesOn
  <2>3. job[t] # NoWatch /\ job[t] \in Listing /\ Loads(t) /\ Loads(t)'
    BY <1>5, TabIs DEF Reads, Sound, Some, Loads
  <2>4. FilesOn(disk) \cap ({n} \X Nat) \subseteq File
    BY Constants DEF FilesOn, File, Types, DiskTypes, Versions
  <2>5. job'[t] \in Listing
    BY <2>1, <2>3, <2>4 DEF Listing
  <2>6. job'[t] # NoWatch
    BY <2>5, NoWatchAssumption
  <2>7. /\ job'[t].todo = job[t].todo \ {n}
        /\ job'[t].got = job[t].got \cup (FilesOn(disk) \cap ({n} \X Nat))
    BY <2>1
  <2>8. Single(job[t].got) /\ (\A f \in job[t].got : f[1] \notin job[t].todo)
    BY <2>3 DEF Sound
  <2>9. Single(job'[t].got) /\ (\A f \in job'[t].got : f[1] \notin job'[t].todo)
    BY <2>2, <2>7, <2>8 DEF Single
  <2>10. QED BY <1>5, <2>3, <2>6, <2>9 DEF Reads, Sound, Loads, Single
<1>6. CASE Completes(t)
  BY <1>6 DEF Completes, Sound, Loads, Single
<1>7. QED BY <1>1, <1>2, <1>3, <1>4, <1>5, <1>6

\* A rename that is shown in place, where it fits.
LEMMA Fits ==
  ASSUME Types, NEW o \in Ops, Finished(o), NEW t \in Tabs, Shows(o, t), Sound(t), ~blind'[t]
  PROVE  /\ <<op[o].from, op[o].file>> \in tab[t].rows /\ ~Loads(t) /\ tab[t].here
         /\ tab[t].page = "Directory" /\ ~blind[t] /\ Single(tab[t].rows)
         /\ op[o].from \in Name /\ op[o].to \in Name /\ op[o].from # op[o].to
         /\ \A f \in tab[t].rows : f[1] # op[o].to
         /\ tab'[t].rows = (tab[t].rows \ {<<op[o].from, op[o].file>>}) \cup {<<op[o].to, op[o].file>>}
<1>1. /\ ~blind[t] /\ ~Misfits(t, o) /\ Edits(t)
      /\ tab'[t].rows = RowsRenamed(tab[t].rows, op[o].from, op[o].to)
  BY ShowsEdits, TabIs
<1>2. /\ <<op[o].from, op[o].file>> \in tab[t].rows
      /\ \A f \in tab[t].rows : f[1] # op[o].to
  BY <1>1 DEF Misfits
<1>3. /\ op[o].from \in Name /\ op[o].to \in Name /\ op[o].from # op[o].to
      /\ \E f \in tab[t].rows : f[1] = op[o].from
      /\ tab[t].here /\ tab[t].page = "Directory" /\ ~Loads(t)
  BY Ended DEF Shows, Succeeded, Types, OpTypes, InNames, Loads
<1>4. Single(tab[t].rows) /\ tab[t].rows \in Rows
  BY <1>1, <1>3, TabIs DEF Sound
<1>5. PICK row \in tab[t].rows : row[1] = op[o].from
               /\ RowsRenamed(tab[t].rows, op[o].from, op[o].to)
                    = (tab[t].rows \ {row}) \cup {<<op[o].to, row[2]>>}
  BY <1>3, <1>4, RenamedRows
<1>6. row = <<op[o].from, op[o].file>>
  BY <1>2, <1>4, <1>5 DEF Single
<1>7. QED BY <1>1, <1>2, <1>3, <1>4, <1>5, <1>6

LEMMA SoundEdits ==
  ASSUME Types, InListing, NEW o \in Ops, Finished(o), NEW t \in Tabs
  PROVE  Sound(t)' /\ Onward(t)
<1>1. relist'[t] # NoWatch => tab[t].here
  BY Ended
<1>2. CASE Shows(o, t)
  <2>1. Edits(t) /\ Onward(t)
    BY <1>2, ShowsEdits, Going
  <2>2. ~blind'[t] => Single(tab'[t].rows)
    <3>1. SUFFICES ASSUME ~blind'[t] PROVE Single(tab'[t].rows)
      OBVIOUS
    <3>2. /\ Single(tab[t].rows) /\ \A f \in tab[t].rows : f[1] # op[o].to
          /\ tab'[t].rows = (tab[t].rows \ {<<op[o].from, op[o].file>>}) \cup {<<op[o].to, op[o].file>>}
      BY <1>2, <3>1, Fits DEF InListing
    <3>3. QED BY <3>2 DEF Single
  <2>3. QED BY <1>1, <2>1, <2>2 DEF Edits, InListing, Sound, Loads, Single
<1>3. CASE ~Shows(o, t)
  <2>1. Idle(t)
    BY <1>3, ShowsEdits
  <2>2. relist'[t] # NoWatch => tab'[t].here
    BY <1>1, <2>1 DEF Idle
  <2>3. QED BY <2>1, <2>2, SoundStays, Going DEF InListing
<1>4. QED BY <1>2, <1>3

LEMMA ToldBlinds ==
  ASSUME Types, NEW note, Told(note), NEW t \in Tabs
  PROVE  blind'[t] = blind[t] \/ blind'[t]
BY DEF Told, Types, OpTypes

TabStep(t) == \/ Open(t) \/ Leave(t) \/ Search(t) \/ Escape(t) \/ ReadEntry(t) \/ FinishListing(t)
              \/ ApplyProbe(t)
Aside == \/ \E n \in Name : External(n)
         \/ WatchError \/ WatchTimer \/ Pump \/ SamplePath \/ SampleEnds
         \/ \E o \in Ops, t \in Tabs, from, to \in Name : StartRename(o, t, from, to)
         \/ \E o \in Ops, kind \in {"Copy", "Delete"}, n \in Name : StartWrite(o, kind, n)
         \/ \E o \in Ops : Dequeue(o) \/ DoRename(o) \/ DoWrite(o)
         \/ UNCHANGED vars

LEMMA AsideIs ==
  ASSUME Types, Aside
  PROVE  UNCHANGED <<tab, job, relist>> /\ (\A t \in Tabs : blind'[t] = blind[t] \/ blind'[t])
<1>1. ASSUME NEW n \in Name, External(n)
      PROVE  UNCHANGED <<tab, job, relist>> /\ \E note : Told(note)
  BY <1>1 DEF External, Changed
<1>2. ASSUME NEW o \in Ops, DoRename(o)
      PROVE  UNCHANGED <<tab, job, relist>> /\ (UNCHANGED blind \/ \E note : Told(note))
  BY <1>2 DEF DoRename, Changed
<1>3. ASSUME NEW o \in Ops, DoWrite(o)
      PROVE  UNCHANGED <<tab, job, relist>> /\ (UNCHANGED blind \/ \E note : Told(note))
  BY <1>3 DEF DoWrite, Changed
<1>4. CASE \/ WatchError \/ WatchTimer \/ Pump \/ SamplePath \/ SampleEnds
           \/ \E o \in Ops, t \in Tabs, from, to \in Name : StartRename(o, t, from, to)
           \/ \E o \in Ops, kind \in {"Copy", "Delete"}, n \in Name : StartWrite(o, kind, n)
           \/ \E o \in Ops : Dequeue(o)
           \/ UNCHANGED vars
  BY <1>4 DEF WatchError, WatchTimer, Pump, SamplePath, SampleEnds, StartRename, StartWrite, Dequeue, vars
<1>5. QED BY <1>1, <1>2, <1>3, <1>4, ToldBlinds DEF Aside

LEMMA SoundBlinded ==
  ASSUME Types, NEW t \in Tabs, Sound(t), tab'[t] = tab[t], job'[t] = job[t], relist'[t] = relist[t],
         blind'[t] = blind[t] \/ blind'[t]
  PROVE  Sound(t)' /\ Onward(t)
<1>1. Onward(t)
  BY TabIs DEF Onward, Loads
<1>2. QED BY <1>1 DEF Sound, Loads

LEMMA ListingGoes ==
  ASSUME Types, InListing, [Next]_vars
  PROVE  InListing' /\ (\A t \in Tabs : Onward(t))
<1>1. CASE Aside
  BY <1>1, AsideIs, SoundBlinded DEF InListing
<1>2. ASSUME NEW t \in Tabs, TabStep(t), NEW u \in Tabs PROVE Sound(u)' /\ Onward(u)
  <2>1. relist'[u] = relist[u]
    BY <1>2 DEF TabStep, Open, Leave, Search, Escape, ReadEntry, FinishListing, ApplyProbe
  <2>2. \/ Idle(u) \/ Asks(u) \/ (Leave(t) /\ Leaves(u)) \/ Swaps(u) \/ Reads(u) \/ Completes(u)
    <3>1. CASE ApplyProbe(t)
      <4>1. CASE Lists(t)
        <5>1. Listed({t}, "BackgroundRefresh")
          BY <3>1, <4>1, Applied
        <5>2. IF u \in {t} THEN Asks(u) ELSE Idle(u)
          BY <5>1, ListedIs, Constants
        <5>3. QED BY <5>2
      <4>2. CASE ~Lists(t)
        BY <3>1, <4>2, Applied DEF Idle
      <4>3. QED BY <4>1, <4>2
    <3>2. CASE ~ApplyProbe(t)
      BY <1>2, <3>2, StepIs DEF TabStep
    <3>3. QED BY <3>1, <3>2
  <2>3. relist'[u] # NoWatch => tab'[u].here
    <3>1. relist[u] # NoWatch => tab[u].here
      BY DEF InListing, Sound
    <3>2. CASE Leave(t)
      BY <2>1, <3>2 DEF Leave, Settling
    <3>3. QED BY <2>1, <2>2, <3>1, <3>2 DEF Idle, Asks, Swaps, Reads, Completes
  <2>4. QED BY <2>2, <2>3, SoundStays, Going DEF InListing
<1>3. ASSUME NEW o \in Ops, Finished(o), NEW t \in Tabs PROVE Sound(t)' /\ Onward(t)
  BY <1>3, SoundEdits
<1>4. ASSUME Relist, NEW t \in Tabs PROVE Sound(t)' /\ Onward(t)
  <2>1. relist'[t] = NoWatch
    BY <1>4 DEF Relist
  <2>2. Asks(t) \/ Idle(t)
    BY <1>4, RelistIs
  <2>3. QED BY <2>1, <2>2, SoundStays, Going DEF InListing
<1>5. \/ Aside \/ Relist \/ (\E t \in Tabs : TabStep(t)) \/ (\E o \in Ops : Finished(o))
  BY DEF Next, Aside, TabStep
<1>6. QED BY <1>1, <1>2, <1>3, <1>4, <1>5 DEF InListing

-------------------------------------------------------------------------------
(* The probes.                                                               *)

\* What a turn does.
Pumps(turn, g) ==
    /\ notes' = [paths |-> notes.paths \ turn.paths, uncertain |-> notes.uncertain /\ ~turn.uncertain]
    /\ pending' = [t \in Tabs |->
         IF t \notin Ready(turn, g) /\ Judged(t, turn) \in {"Wait", "Probe"}
         THEN Queued(t, turn) ELSE NoWatch]
    /\ probe' = [t \in Tabs |->
         IF t \in Ready(turn, g) THEN NewProbe(t, turn)
         ELSE IF t \in turn.back THEN NoWatch
         ELSE IF Stage(t) = "sampled" THEN [probe[t] EXCEPT !.stage = "queued"]
         ELSE probe[t]]
    /\ sample' = IF Ready(turn, g) = {} THEN sample
                 ELSE [left |-> UNION {Queued(t, turn).paths : t \in Ready(turn, g)}, seen |-> {}]
    /\ deferred' = (\/ deferred \/ LeftToOperations(turn)
                    \/ \E t \in Tabs : Judged(t, turn) = "DeferredOperation")
    /\ UNCHANGED <<disk, changes, tab, job, op, relist, blind>>

LEMMA PumpIs == Pump => \E turn \in Turns, g \in [Tabs -> {"open", "closed"}] : Pumps(turn, g)
BY DEF Pump, Pumps

LEMMA DispositionIs ==
  ASSUME Types, NEW t \in Tabs, NEW w
  PROVE  /\ Disposition(t, w) \in {"Drop", "Wait", "DeferredOperation", "Probe"}
         /\ Disposition(t, w) = "Probe" => ~Loads(t) /\ tab[t].here /\ tab[t].page = "Directory"
         /\ Disposition(t, w) = "DeferredOperation" => Active # {}
         /\ tab[t].here /\ tab[t].page = "Directory" /\ Kept(t, w) => Disposition(t, w) # "Drop"
BY TabIs DEF Disposition, Loads, Busy, Kept

\* A probe that goes on.
Passed(t) ==
  /\ probe'[t] # NoWatch /\ probe'[t].watch = probe[t].watch /\ probe'[t].request = probe[t].request
  /\ probe'[t].rows = probe[t].rows /\ probe'[t].edition = probe[t].edition
  /\ probe'[t].changed = probe[t].changed /\ probe'[t].retry = probe[t].retry
  /\ Stage(t)' = IF Stage(t) = "sampled" THEN "queued" ELSE Stage(t)

LEMMA ProbeAfter ==
  ASSUME Types, NEW turn \in Turns, NEW g, Pumps(turn, g), NEW t \in Tabs
  PROVE  \/ /\ t \in Ready(turn, g) /\ Stage(t) \in {"none", "delivered"}
            /\ Stage(t) = "delivered" => t \in turn.back
            /\ probe'[t] = NewProbe(t, turn) /\ probe'[t] # NoWatch /\ Stage(t)' = "sampling"
         \/ /\ t \notin Ready(turn, g) /\ Stage(t) \in {"none", "delivered"}
            /\ Stage(t) = "delivered" => t \in turn.back
            /\ probe'[t] = NoWatch /\ Stage(t)' = "none"
         \/ /\ t \notin Ready(turn, g) /\ t \notin turn.back
            /\ Stage(t) # "none" /\ Passed(t)
<1>0. Stage(t) \in {"none", "sampling", "sampled", "queued", "delivered"}
  BY ProbeTypes DEF Probe
<1>1. CASE t \in Ready(turn, g)
  <2>1. probe'[t] = NewProbe(t, turn)
    BY <1>1 DEF Pumps
  <2>2. Queued(t, turn) \in Notification /\ (Stage(t) = "none" \/ t \in turn.back)
    BY <1>1, ReadyIs
  <2>3. NewProbe(t, turn) \in Probe
    BY <2>2 DEF NewProbe, Probe, Some, Types, TabTypes, TabState, Rows
  <2>4. probe'[t] # NoWatch
    BY <2>1, <2>3, NoWatchAssumption
  <2>5. Stage(t)' = "sampling"
    BY <2>1, <2>4 DEF Stage, NewProbe
  <2>6. Stage(t) \in {"none", "delivered"} /\ (Stage(t) = "delivered" => t \in turn.back)
    BY <2>2, TurnTypes
  <2>7. QED BY <1>1, <2>1, <2>4, <2>5, <2>6
<1>2. CASE t \notin Ready(turn, g) /\ t \in turn.back
  BY <1>2, TurnTypes DEF Pumps, Stage
<1>3. CASE t \notin Ready(turn, g) /\ t \notin turn.back /\ Stage(t) = "none"
  <2>1. probe[t] = NoWatch
    <3>1. probe[t] # NoWatch => probe[t] \in Probe
      BY DEF Types, PumpTypes, Some
    <3>2. probe[t] \in Probe => probe[t].stage # "none"
      BY DEF Probe
    <3>3. QED BY <1>3, <3>1, <3>2 DEF Stage
  <2>2. probe'[t] = NoWatch
    BY <1>3, <2>1 DEF Pumps
  <2>3. QED BY <1>3, <2>2 DEF Stage
<1>4. CASE t \notin Ready(turn, g) /\ t \notin turn.back /\ Stage(t) = "sampled"
  <2>1. probe[t] \in Probe /\ probe[t] # NoWatch
    BY <1>4, ProbeTypes
  <2> DEFINE p == probe[t]
             q == [p EXCEPT !.stage = "queued"]
  <2>2. /\ q \in Probe /\ q.watch = p.watch /\ q.request = p.request /\ q.rows = p.rows
        /\ q.edition = p.edition /\ q.changed = p.changed /\ q.retry = p.retry /\ q.stage = "queued"
    <3> HIDE DEF p
    <3>1. p \in Probe
      BY <2>1 DEF p
    <3>2. QED BY <3>1 DEF Probe
  <2>3. probe'[t] = q
    BY <1>4 DEF Pumps
  <2> HIDE DEF q
  <2>4. probe'[t] # NoWatch
    BY <2>2, <2>3, NoWatchAssumption
  <2>5. QED BY <1>4, <2>2, <2>3, <2>4 DEF Passed, Stage
<1>5. CASE t \notin Ready(turn, g) /\ t \notin turn.back /\ Stage(t) \notin {"none", "sampled"}
  <2>1. probe'[t] = probe[t] /\ probe[t] # NoWatch
    BY <1>5, ProbeTypes DEF Pumps
  <2>2. QED BY <1>5, <2>1 DEF Passed, Stage
<1>6. QED BY <1>0, <1>1, <1>2, <1>3, <1>4, <1>5

LEMMA PumpProbes ==
  ASSUME Types, InProbe, Pump
  PROVE  InProbe'
<1>1. PICK turn \in Turns, g \in [Tabs -> {"open", "closed"}] : Pumps(turn, g)
  BY PumpIs
<1>2. ASSUME NEW t \in Tabs PROVE Compares(t)'
  <2>1. tab' = tab
    BY <1>1 DEF Pumps
  <2>2. CASE t \in Ready(turn, g) /\ probe'[t] = NewProbe(t, turn)
    <3>1. ~Loads(t)
      BY <2>2, ReadyIs, DispositionIs
    <3>2. /\ probe'[t].request = tab[t].latest /\ probe'[t].edition = tab[t].edition
          /\ probe'[t].rows = tab[t].rows
      BY <2>2 DEF NewProbe
    <3>3. QED BY <2>1, <3>1, <3>2, TabIs DEF Compares, Stale, Loads
  <2>3. CASE Passed(t)
    BY <2>1, <2>3 DEF Passed, Compares, InProbe, Stale, Loads
  <2>4. CASE Stage(t)' = "none"
    BY <2>4 DEF Compares
  <2>5. QED BY <1>1, <2>2, <2>3, <2>4, ProbeAfter
<1>3. CASE Ready(turn, g) = {}
  <2>1. sample' = sample
    BY <1>1, <1>3 DEF Pumps
  <2>2. \A t \in Tabs : Stage(t)' = "sampling" <=> Stage(t) = "sampling"
    BY <1>1, <1>3, ProbeAfter DEF Passed
  <2>3. Sampling' = Sampling
    BY <2>2 DEF Sampling
  <2>4. QED BY <1>2, <2>1, <2>3 DEF InProbe, Paired, InSample, Single
<1>4. CASE Ready(turn, g) # {}
  <2>1. sample' = [left |-> UNION {Queued(t, turn).paths : t \in Ready(turn, g)}, seen |-> {}]
    BY <1>1, <1>4 DEF Pumps
  <2>2. PICK t \in Ready(turn, g) : TRUE
    BY <1>4
  <2>3. t \in Tabs /\ Stage(t)' = "sampling"
    BY <1>1, <2>2, ReadyIs, ProbeAfter
  <2>4. Sampling' # {}
    BY <2>3 DEF Sampling
  <2>5. UNION {Queued(u, turn).paths : u \in Ready(turn, g)} \subseteq Name
    BY ReadyIs DEF Notification
  <2>6. sample' \in Sample
    BY <2>1, <2>5 DEF Sample
  <2>7. sample' # NoWatch
    BY <2>6, NoWatchAssumption
  <2>8. InSample'
    BY <2>1 DEF InSample, Single
  <2>9. QED BY <1>2, <2>4, <2>7, <2>8 DEF InProbe, Paired
<1>5. QED BY <1>3, <1>4

LEMMA ComparesOn ==
  ASSUME Types, NEW t \in Tabs, Compares(t), Onward(t), probe'[t] = probe[t]
  PROVE  Compares(t)'
<1>1. Stage(t)' = Stage(t)
  BY DEF Stage
<1>2. SUFFICES ASSUME Stage(t) \in {"sampling", "sampled", "queued"} PROVE Compares(t)'
  BY <1>1 DEF Compares
<1>3. probe[t].request \in Nat /\ probe[t].edition \in Nat
  BY <1>2, ProbeTypes DEF Probe
<1>4. QED BY <1>1, <1>2, <1>3, TabIs DEF Compares, Onward, Stale

LEMMA ProbeStays ==
  ASSUME Types, InProbe, \A t \in Tabs : Onward(t), UNCHANGED <<probe, sample>>
  PROVE  InProbe'
<1>1. \A t \in Tabs : Compares(t)'
  <2> TAKE t \in Tabs
  <2> QED BY ComparesOn DEF InProbe
<1>2. Sampling' = Sampling
  BY DEF Sampling, Stage
<1>3. QED BY <1>1, <1>2 DEF InProbe, Paired, InSample, Single

LEMMA SamplePathProbes ==
  ASSUME Types, InProbe, SamplePath
  PROVE  InProbe'
<1>1. PICK n \in sample.left :
        sample' = [left |-> sample.left \ {n},
                   seen |-> IF \E t \in Sampling : n \in probe[t].watch.paths /\ StillNeeded(t)
                            THEN sample.seen \cup {<<n, disk[n]>>} ELSE sample.seen]
  BY DEF SamplePath
<1>2. Sampling # {} /\ UNCHANGED <<tab, probe>>
  BY DEF SamplePath
<1>3. sample # NoWatch
  BY <1>2 DEF InProbe, Paired
<1>4. Single(sample.seen) /\ (\A f \in sample.seen : f[1] \notin sample.left)
  BY <1>3 DEF InProbe, InSample
<1>5. Types'
  BY SampleStepTypes DEF InProbe
<1>6. sample' # NoWatch
  <2>1. sample \in Sample
    BY <1>3 DEF Types, PumpTypes, Some
  <2>2. n \in Name /\ disk[n] \in 0..MaxChanges
    BY <1>1, <2>1 DEF Sample, Types, DiskTypes, Versions
  <2>3. sample' \in Sample
    BY <1>1, <2>1, <2>2 DEF Sample
  <2>4. QED BY <2>3, NoWatchAssumption
<1>7. sample'.seen = sample.seen \/ sample'.seen = sample.seen \cup {<<n, disk[n]>>}
  BY <1>1
<1>8. InSample'
  <2>1. Single(sample'.seen)
    BY <1>1, <1>4, <1>7 DEF Single
  <2>2. \A f \in sample'.seen : f[1] \notin sample'.left
    BY <1>1, <1>4, <1>7
  <2>3. QED BY <2>1, <2>2 DEF InSample, Single
<1>9. Sampling' = Sampling /\ \A t \in Tabs : Compares(t)'
  BY <1>2 DEF Sampling, Stage, InProbe, Compares, Stale, Loads
<1>10. QED BY <1>2, <1>6, <1>8, <1>9 DEF InProbe, Paired

\* What the end of a sample does.
LEMMA SampledIs ==
  ASSUME Types, InProbe, SampleEnds
  PROVE  /\ sample \in Sample /\ sample.left = {} /\ sample' = NoWatch
         /\ UNCHANGED <<disk, changes, watch, notes, tab, job, pending, gate, op, relist, deferred, blind>>
         /\ \E found \in [Sampling -> SUBSET Name] : \A t \in Tabs :
              IF Stage(t) = "sampling"
              THEN /\ \A n \in Name : (n \in found[t]) \in (IF n \in probe[t].watch.paths
                                                            THEN Differs(t, n) ELSE {FALSE})
                   /\ probe'[t] # NoWatch /\ Stage(t)' = "sampled"
                   /\ probe'[t].watch = probe[t].watch /\ probe'[t].request = probe[t].request
                   /\ probe'[t].rows = probe[t].rows /\ probe'[t].edition = probe[t].edition
                   /\ probe'[t].retry = probe[t].retry
                   /\ probe'[t].changed = (probe[t].watch.uncertain \/ found[t] # {})
              ELSE probe'[t] = probe[t] /\ Stage(t)' = Stage(t)
<1>1. /\ Sampling # {} /\ sample.left = {} /\ sample' = NoWatch
      /\ UNCHANGED <<disk, changes, watch, notes, tab, job, pending, gate, op, relist, deferred, blind>>
  BY DEF SampleEnds
<1>2. sample \in Sample
  BY <1>1 DEF InProbe, Paired, Types, PumpTypes, Some
<1>3. PICK found \in [Sampling -> SUBSET Name] :
       /\ \A t \in Sampling, n \in Name :
            (n \in found[t]) \in (IF n \in probe[t].watch.paths THEN Differs(t, n) ELSE {FALSE})
       /\ probe' = [t \in Tabs |->
            IF t \in Sampling
            THEN [probe[t] EXCEPT !.stage = "sampled",
                                  !.changed = probe[t].watch.uncertain \/ found[t] # {}]
            ELSE probe[t]]
  BY DEF SampleEnds
<1>4. ASSUME NEW t \in Tabs, Stage(t) = "sampling"
      PROVE  /\ probe'[t] # NoWatch /\ Stage(t)' = "sampled"
             /\ probe'[t].watch = probe[t].watch /\ probe'[t].request = probe[t].request
             /\ probe'[t].rows = probe[t].rows /\ probe'[t].edition = probe[t].edition
             /\ probe'[t].retry = probe[t].retry
             /\ probe'[t].changed = (probe[t].watch.uncertain \/ found[t] # {})
  <2> DEFINE p == probe[t]
             b == probe[t].watch.uncertain \/ found[t] # {}
             q == [p EXCEPT !.stage = "sampled", !.changed = b]
  <2>1. p \in Probe /\ b \in BOOLEAN
    BY <1>4, ProbeTypes
  <2>2. probe'[t] = q
    BY <1>3, <1>4 DEF Sampling
  <2>3. /\ q \in Probe /\ q.watch = p.watch /\ q.request = p.request /\ q.rows = p.rows
        /\ q.edition = p.edition /\ q.changed = b /\ q.retry = p.retry /\ q.stage = "sampled"
    <3> HIDE DEF p, b
    <3> QED BY <2>1 DEF Probe
  <2> HIDE DEF q
  <2>4. probe'[t] # NoWatch
    BY <2>2, <2>3, NoWatchAssumption
  <2>5. QED BY <2>2, <2>3, <2>4 DEF Stage
<1>5. ASSUME NEW t \in Tabs, Stage(t) # "sampling"
      PROVE  probe'[t] = probe[t] /\ Stage(t)' = Stage(t)
  BY <1>3, <1>5 DEF Sampling, Stage
<1>6. \A t \in Tabs : IF Stage(t) = "sampling"
              THEN /\ \A n \in Name : (n \in found[t]) \in (IF n \in probe[t].watch.paths
                                                            THEN Differs(t, n) ELSE {FALSE})
                   /\ probe'[t] # NoWatch /\ Stage(t)' = "sampled"
                   /\ probe'[t].watch = probe[t].watch /\ probe'[t].request = probe[t].request
                   /\ probe'[t].rows = probe[t].rows /\ probe'[t].edition = probe[t].edition
                   /\ probe'[t].retry = probe[t].retry
                   /\ probe'[t].changed = (probe[t].watch.uncertain \/ found[t] # {})
              ELSE probe'[t] = probe[t] /\ Stage(t)' = Stage(t)
  <2> TAKE t \in Tabs
  <2>1. CASE Stage(t) = "sampling"
    <3>1. \A n \in Name : (n \in found[t]) \in (IF n \in probe[t].watch.paths
                                                 THEN Differs(t, n) ELSE {FALSE})
      BY <1>3, <2>1 DEF Sampling
    <3>2. QED BY <1>4, <2>1, <3>1
  <2>2. CASE Stage(t) # "sampling"
    BY <1>5, <2>2
  <2>3. QED BY <2>1, <2>2
<1>7. QED BY <1>1, <1>2, <1>6

LEMMA SampleEndsProbes ==
  ASSUME Types, InProbe, SampleEnds
  PROVE  InProbe'
<1>1. tab' = tab /\ sample' = NoWatch
  BY SampledIs
<1>2. ASSUME NEW t \in Tabs PROVE Compares(t)' /\ Stage(t)' # "sampling"
  <2>1. CASE Stage(t) = "sampling"
    BY <1>1, <2>1, SampledIs DEF InProbe, Compares, Stale, Loads
  <2>2. CASE Stage(t) # "sampling"
    BY <1>1, <2>2, SampledIs DEF InProbe, Compares, Stale, Loads
  <2>3. QED BY <2>1, <2>2
<1>3. Sampling' = {}
  BY <1>2 DEF Sampling
<1>4. QED BY <1>1, <1>2, <1>3 DEF InProbe, Paired, InSample

LEMMA ApplyProbes ==
  ASSUME Types, InListing, InProbe, NEW t \in Tabs, ApplyProbe(t)
  PROVE  InProbe'
<1>1. sample' = sample /\ Stage(t) = "queued" /\ Stage(t)' = "delivered"
  BY Applied DEF Stage
<1>2. \A u \in Tabs : u # t => probe'[u] = probe[u] /\ Stage(u)' = Stage(u)
  BY Applied DEF Stage
<1>3. \A u \in Tabs : Onward(u)
  BY ListingGoes DEF Next
<1>4. ASSUME NEW u \in Tabs PROVE Compares(u)'
  <2>1. CASE u = t
    BY <1>1, <2>1 DEF Compares
  <2>2. CASE u # t
    BY <1>2, <1>3, <2>2, ComparesOn DEF InProbe
  <2>3. QED BY <2>1, <2>2
<1>5. Sampling' = Sampling
  BY <1>1, <1>2 DEF Sampling
<1>6. QED BY <1>1, <1>4, <1>5 DEF InProbe, Paired, InSample, Single

-------------------------------------------------------------------------------
(* The notifications.                                                        *)

LEMMA PastStays ==
  ASSUME Types, NEW t \in Tabs, Onward(t), NEW w \in Some(Notification), Past(t, w)
  PROVE  w # NoWatch => w.observed <= tab'[t].latest /\ (w.uncertain \/ w.paths # {})
<1>1. w # NoWatch => w.observed \in Nat
  BY DEF Some, Notification
<1>2. QED BY <1>1, TabIs DEF Past, Onward

\* The steps that leave notifications and probes alone.
PumpLess == \/ \E n \in Name : External(n)
            \/ WatchError \/ WatchTimer
            \/ \E t \in Tabs : Open(t) \/ Leave(t) \/ Search(t) \/ Escape(t) \/ ReadEntry(t) \/ FinishListing(t)
            \/ \E o \in Ops, t \in Tabs, from, to \in Name : StartRename(o, t, from, to)
            \/ \E o \in Ops, kind \in {"Copy", "Delete"}, n \in Name : StartWrite(o, kind, n)
            \/ \E o \in Ops : Dequeue(o) \/ DoRename(o) \/ DoWrite(o) \/ Finished(o)
            \/ Relist \/ UNCHANGED vars

LEMMA PumpLessIs == PumpLess => UNCHANGED <<pending, probe, sample>>
BY DEF PumpLess, External, WatchError, WatchTimer, Open, Leave, Search, Escape, ReadEntry, FinishListing,
       StartRename, StartWrite, Dequeue, DoRename, DoWrite, Finished, Relist, pumpVars, vars

LEMMA ByPump ==
  ASSUME [Next]_vars
  PROVE  PumpLess \/ Pump \/ SamplePath \/ SampleEnds \/ \E t \in Tabs : ApplyProbe(t)
BY DEF Next, PumpLess

LEMMA ProbeGoes ==
  ASSUME Types, InListing, InProbe, [Next]_vars
  PROVE  InProbe'
<1>1. CASE PumpLess
  <2>1. \A t \in Tabs : Onward(t)
    BY ListingGoes
  <2>2. UNCHANGED <<probe, sample>>
    BY <1>1, PumpLessIs
  <2>3. QED BY <2>1, <2>2, ProbeStays
<1>2. CASE Pump
  BY <1>2, PumpProbes
<1>3. CASE SamplePath
  BY <1>3, SamplePathProbes
<1>4. CASE SampleEnds
  BY <1>4, SampleEndsProbes
<1>5. CASE \E t \in Tabs : ApplyProbe(t)
  BY <1>5, ApplyProbes
<1>6. QED BY <1>1, <1>2, <1>3, <1>4, <1>5, ByPump

LEMMA MergedPast ==
  ASSUME NEW t \in Tabs, NEW a \in Some(Notification), NEW b \in Some(Notification),
         Past(t, a), Past(t, b)
  PROVE  MergePending(a, b) \in Some(Notification) /\ Past(t, MergePending(a, b))
<1> DEFINE m == MergePending(a, b)
<1>1. CASE a = NoWatch \/ b = NoWatch
  BY <1>1, Merged
<1>2. CASE a # NoWatch /\ b # NoWatch
  <2>1. /\ m \in Some(Notification)
        /\ m.paths = a.paths \cup b.paths /\ m.uncertain = (a.uncertain \/ b.uncertain)
        /\ m.observed \in {a.observed, b.observed}
    BY <1>2, Merged
  <2> HIDE DEF m
  <2>2. m.uncertain \/ m.paths # {}
    BY <1>2, <2>1 DEF Past
  <2>3. m.observed <= tab[t].latest
    BY <1>2, <2>1 DEF Past
  <2>4. QED BY <2>1, <2>2, <2>3 DEF Past, m
<1>3. QED BY <1>1, <1>2

LEMMA QueuedPast ==
  ASSUME Types, InNotes, NEW turn \in Turns, NEW t \in Tabs
  PROVE  Past(t, Queued(t, turn))
<1> DEFINE r == IF t \in turn.back THEN probe[t].retry ELSE NoWatch
           m == MergePending(pending[t], r)
           s == Sent(t, turn)
<1>1. s \in Some(Notification) /\ r \in Some(Notification) /\ pending[t] \in Some(Notification)
  BY QueuedTypes DEF Types, PumpTypes
<1>2. Past(t, s)
  BY TabIs DEF Sent, Past, Says
<1>3. Past(t, r)
  <2>1. CASE t \in turn.back
    <3>1. probe[t] # NoWatch
      BY <2>1, TurnTypes, ProbeTypes
    <3>2. QED BY <2>1, <3>1 DEF InNotes
  <2>2. CASE t \notin turn.back
    BY <2>2 DEF Past
  <2>3. QED BY <2>1, <2>2
<1>4. Past(t, pending[t])
  BY DEF InNotes
<1> HIDE DEF r, s
<1>5. m \in Some(Notification) /\ Past(t, m)
  BY <1>1, <1>3, <1>4, MergedPast
<1> HIDE DEF m
<1>6. Past(t, MergePending(m, s))
  BY <1>1, <1>2, <1>5, MergedPast
<1>7. QED BY <1>6 DEF Queued, m, r, s

LEMMA NotesGo ==
  ASSUME Types, InListing, InProbe, InNotes, [Next]_vars
  PROVE  InNotes'
<1>0. ASSUME NEW t \in Tabs
      PROVE  /\ pending[t] \in Some(Notification) /\ Past(t, pending[t])
             /\ probe[t] # NoWatch => /\ probe[t].watch \in Some(Notification) /\ Past(t, probe[t].watch)
                                      /\ probe[t].retry \in Some(Notification) /\ Past(t, probe[t].retry)
             /\ Onward(t)
  <2>1. probe[t] # NoWatch => probe[t] \in Probe
    BY DEF Types, PumpTypes, Some
  <2>2. probe[t] # NoWatch => probe[t].watch \in Some(Notification) /\ probe[t].retry \in Some(Notification)
    BY <2>1 DEF Probe, Some
  <2>3. QED BY <2>2, ListingGoes DEF InNotes, Types, PumpTypes
<1>1. ASSUME NEW t \in Tabs, NEW w \in Some(Notification), Past(t, w)
      PROVE  w # NoWatch => w.observed <= tab'[t].latest /\ (w.uncertain \/ w.paths # {})
  BY <1>0, <1>1, PastStays
<1>2. ASSUME NEW t \in Tabs, pending'[t] = pending[t],
             probe'[t] # NoWatch => /\ probe[t] # NoWatch /\ probe'[t].watch = probe[t].watch
                                    /\ \/ probe'[t].retry = probe[t].retry
                                       \/ probe'[t].retry \in {NoWatch, probe[t].watch}
      PROVE  Past(t, pending[t])' /\ (probe[t] # NoWatch => Past(t, probe[t].watch) /\ Past(t, probe[t].retry))'
  BY <1>0, <1>1, <1>2 DEF Past
<1>3. CASE PumpLess
  BY <1>2, <1>3, PumpLessIs DEF InNotes
<1>4. CASE SamplePath
  BY <1>2, <1>4 DEF SamplePath, InNotes
<1>5. CASE SampleEnds
  <2>1. pending' = pending
    BY <1>5, SampledIs
  <2>2. ASSUME NEW t \in Tabs
        PROVE  probe'[t] # NoWatch => /\ probe[t] # NoWatch /\ probe'[t].watch = probe[t].watch
                                      /\ probe'[t].retry = probe[t].retry
    <3>1. Stage(t) = "sampling" => probe[t] # NoWatch
      BY DEF Stage
    <3>2. QED BY <1>5, <3>1, SampledIs
  <2>3. QED BY <1>2, <2>1, <2>2 DEF InNotes
<1>6. ASSUME NEW u \in Tabs, ApplyProbe(u) PROVE InNotes'
  <2>1. pending' = pending
    BY <1>6, Applied
  <2>2. ASSUME NEW t \in Tabs
        PROVE  probe'[t] # NoWatch => /\ probe[t] # NoWatch /\ probe'[t].watch = probe[t].watch
                                      /\ \/ probe'[t].retry = probe[t].retry
                                         \/ probe'[t].retry \in {NoWatch, probe[t].watch}
    <3>1. CASE t = u
      BY <1>6, <3>1, Applied
    <3>2. CASE t # u
      BY <1>6, <3>2, Applied
    <3>3. QED BY <3>1, <3>2
  <2>3. QED BY <1>2, <2>1, <2>2 DEF InNotes
<1>7. CASE Pump
  <2>1. PICK turn \in Turns, g \in [Tabs -> {"open", "closed"}] : Pumps(turn, g)
    BY <1>7, PumpIs
  <2>2. tab' = tab
    BY <2>1 DEF Pumps
  <2>3. ASSUME NEW t \in Tabs
        PROVE  Past(t, pending[t])' /\ (probe[t] # NoWatch => Past(t, probe[t].watch) /\ Past(t, probe[t].retry))'
    <3>1. Past(t, Queued(t, turn))
      BY QueuedPast
    <3>2. pending'[t] \in {NoWatch, Queued(t, turn)}
      BY <2>1 DEF Pumps
    <3>3. CASE probe'[t] = NewProbe(t, turn)
      BY <2>2, <3>1, <3>2, <3>3 DEF Past, NewProbe
    <3>4. CASE probe'[t] = NoWatch
      BY <2>2, <3>1, <3>2, <3>4 DEF Past
    <3>5. CASE Passed(t) /\ Stage(t) # "none"
      BY <1>0, <2>2, <3>1, <3>2, <3>5, ProbeTypes DEF Past, Passed
    <3>6. QED BY <2>1, <3>3, <3>4, <3>5, ProbeAfter
  <2>4. QED BY <2>3 DEF InNotes
<1>8. QED BY <1>3, <1>4, <1>5, <1>6, <1>7, ByPump

\* What holds along every step whatever the tabs show: all of IInv but InView and
\* InRename, which lean on it.
Basis == Types /\ InOps /\ InListing /\ InProbe /\ InNotes

LEMMA OpsGo ==
  ASSUME Types, InOps, InListing, InProbe, [Next]_vars
  PROVE  InOps'
<1>1. CASE \/ \E n \in Name : External(n)
           \/ \E o \in Ops, t \in Tabs, from, to \in Name : StartRename(o, t, from, to)
           \/ \E o \in Ops, kind \in {"Copy", "Delete"}, n \in Name : StartWrite(o, kind, n)
           \/ \E o \in Ops : Dequeue(o) \/ DoRename(o) \/ DoWrite(o) \/ Finished(o)
  BY <1>1, OpsKept
<1>2. CASE \/ WatchError \/ WatchTimer \/ Pump \/ SamplePath \/ SampleEnds \/ Relist \/ UNCHANGED vars
           \/ \E t \in Tabs : \/ Open(t) \/ Leave(t) \/ Search(t) \/ Escape(t) \/ ReadEntry(t)
                              \/ FinishListing(t) \/ ApplyProbe(t)
  <2>1. UNCHANGED <<op, disk>> /\ (changes' = changes \/ Happens)
    BY <1>2 DEF WatchError, WatchTimer, Pump, SamplePath, SampleEnds, Relist, vars, Open, Leave, Search,
                Escape, ReadEntry, FinishListing, ApplyProbe
  <2>2. QED BY <2>1, OpsKept
<1>3. QED BY <1>1, <1>2 DEF Next

LEMMA BasisGoes ==
  ASSUME Basis, [Next]_vars
  PROVE  Basis'
<1>1. Types'
  BY NextTypes DEF Basis, InProbe
<1>2. QED BY <1>1, OpsGo, ListingGoes, ProbeGoes, NotesGo DEF Basis

-------------------------------------------------------------------------------
(* What a tab is owed.                                                       *)

\* Nothing that holds a listing of n for t goes.
Lasting(t, n) ==
  /\ Noted(n) => Noted(n)'
  /\ pending'[t] = pending[t] /\ probe'[t] = probe[t]
  /\ Loads(t)' => Loads(t) /\ tab'[t].latest = tab[t].latest /\ tab'[t].kind = tab[t].kind
  /\ deferred /\ Active # {} => deferred' /\ Active' # {}
  /\ relist[t] # NoWatch => relist'[t] # NoWatch

LEMMA HeldLasts ==
  ASSUME NEW t, NEW n, Lasting(t, n), Held(t, n)
  PROVE  Held(t, n)'
BY DEF Lasting, Held, Bears, Covers, Kept, Stage, Loads

LEMMA OwedLasts ==
  ASSUME Basis, NEW t \in Tabs, NEW n, Lasting(t, n), Onward(t), sample' = sample, disk'[n] = disk[n],
         Owed(t, n)
  PROVE  Owed(t, n)'
<1>1. CASE Held(t, n)
  BY <1>1, HeldLasts DEF Owed
<1>2. CASE Probed(t, n)
  <2>1. Stage(t)' = Stage(t) /\ probe'[t] = probe[t]
    BY DEF Lasting, Stage
  <2>2. Bears(t, probe[t].watch, n)'
    BY <1>2 DEF Probed, Bears, Covers, Kept, Loads, Lasting
  <2>3. Stage(t) \in {"sampled", "queued"} /\ Stale(t) => Stale(t)'
    <3>1. SUFFICES ASSUME Stage(t) \in {"sampled", "queued"}, Stale(t) PROVE Stale(t)'
      OBVIOUS
    <3>2. probe[t].request <= tab[t].latest /\ probe[t].edition <= tab[t].edition
      BY <3>1 DEF Basis, InProbe, Compares
    <3>3. probe[t].request \in Nat /\ probe[t].edition \in Nat
      BY <3>1, ProbeTypes DEF Probe, Basis
    <3>4. tab[t].latest \in Nat /\ tab[t].edition \in Nat
      BY TabIs DEF Basis
    <3>5. QED BY <2>1, <3>1, <3>2, <3>3, <3>4 DEF Stale, Onward
  <2>4. Finds(t, n)'
    BY <1>2, <2>1, <2>3 DEF Probed, Finds, Of
  <2>5. QED BY <2>2, <2>4 DEF Owed, Probed
<1>3. QED BY <1>1, <1>2 DEF Owed

\* How a view goes on that nothing happened to.
LEMMA ViewLasts ==
  ASSUME Basis, NEW t \in Tabs, NEW n \in Name, Idle(t), Lasting(t, n), sample' = sample,
         disk'[n] = disk[n], Looks(t) => Shown(t, n), Looks(t)'
  PROVE  Shown(t, n)'
<1>1. Looks(t) /\ Onward(t)
  BY Going DEF Idle, Looks, Basis
<1>2. Owed(t, n) => Owed(t, n)'
  BY <1>1, OwedLasts
<1>3. QED BY <1>1, <1>2 DEF Shown, Idle, Loads, Known, Of, OnDisk

LEMMA AskedIsShown ==
  ASSUME NEW t \in Tabs, NEW n \in Name, Asks(t)
  PROVE  Shown(t, n)'
BY DEF Asks, Shown, Loads

LEMMA ToldIsShown ==
  ASSUME NEW t \in Tabs, NEW n \in Name, Noted(n)' \/ relist'[t] # NoWatch
  PROVE  Held(t, n)' /\ Shown(t, n)'
BY DEF Shown, Owed, Held

-------------------------------------------------------------------------------
(* The disk.                                                                 *)

\* The steps of the files.
DiskStep == \/ \E n \in Name : External(n)
            \/ \E o \in Ops : DoRename(o) \/ DoWrite(o)

LEMMA ToldIs ==
  ASSUME Types, NEW note, Told(note), tab' = tab, NEW t \in Tabs, Looks(t)'
  PROVE  notes' = note /\ blind' = blind
BY DEF Told, Looks

LEMMA DiskIs ==
  ASSUME Basis, DiskStep, NEW t \in Tabs, NEW n \in Name, Looks(t)'
  PROVE  /\ Idle(t) /\ UNCHANGED <<pending, probe, sample, relist, deferred>> /\ Active' = Active
         /\ Noted(n) => Noted(n)'
         /\ disk'[n] = disk[n] \/ Noted(n)'
<1>0. Types /\ notes \in [paths : SUBSET Name, uncertain : BOOLEAN]
      /\ disk \in [Name -> Versions] /\ op \in [Ops -> OpState]
  BY DEF Basis, Types, DiskTypes, OpTypes
<1>1. ASSUME NEW m \in Name, External(m)
      PROVE  /\ UNCHANGED <<tab, job, pending, probe, sample, relist, deferred, op, blind>>
             /\ Noted(n) => Noted(n)'
             /\ disk'[n] = disk[n] \/ Noted(n)'
  <2>1. UNCHANGED <<tab, job, pending, probe, sample, relist, deferred, op>>
    BY <1>1 DEF External, pumpVars
  <2>2. Changed({m}) \/ Told([notes EXCEPT !.uncertain = TRUE])
    BY <1>1 DEF External
  <2>3. blind' = blind /\ (notes' = [notes EXCEPT !.paths = @ \cup {m}] \/ notes' = [notes EXCEPT !.uncertain = TRUE])
    BY <1>0, <2>1, <2>2, ToldIs DEF Changed
  <2>4. Noted(n) => Noted(n)'
    BY <1>0, <2>3 DEF Noted
  <2>5. n = m => Noted(n)'
    BY <1>0, <2>3 DEF Noted
  <2>6. n # m => disk'[n] = disk[n]
    BY <1>0, <1>1 DEF External
  <2>7. QED BY <2>1, <2>3, <2>4, <2>5, <2>6
<1>2. ASSUME NEW o \in Ops, DoRename(o)
      PROVE  /\ UNCHANGED <<tab, job, pending, probe, sample, relist, deferred, blind>>
             /\ Noted(n) => Noted(n)'
             /\ disk'[n] = disk[n] \/ Noted(n)'
             /\ op[o].st = "running" /\ op'[o].st = "ended" /\ \A q \in Ops : q # o => op'[q] = op[q]
  <2>1. /\ UNCHANGED <<tab, job, pending, probe, sample, relist, deferred>>
        /\ op[o].st = "running" /\ op'[o].st = "ended" /\ \A q \in Ops : q # o => op'[q] = op[q]
    BY <1>0, <1>2 DEF DoRename, pumpVars, OpState
  <2>2. CASE UNCHANGED <<disk, notes, blind>>
    BY <2>1, <2>2 DEF Noted
  <2>3. CASE /\ disk' = [disk EXCEPT ![op[o].to] = disk[op[o].from], ![op[o].from] = 0]
             /\ Changed({op[o].from, op[o].to})
    <3>1. blind' = blind /\ notes' = [notes EXCEPT !.paths = @ \cup {op[o].from, op[o].to}]
      BY <1>0, <2>1, <2>3, ToldIs DEF Changed
    <3>2. Noted(n) => Noted(n)'
      BY <1>0, <3>1 DEF Noted
    <3>3. n \in {op[o].from, op[o].to} => Noted(n)'
      BY <1>0, <3>1 DEF Noted
    <3>4. n \notin {op[o].from, op[o].to} => disk'[n] = disk[n]
      BY <1>0, <2>3
    <3>5. QED BY <2>1, <3>1, <3>2, <3>3, <3>4
  <2>4. QED BY <1>2, <2>2, <2>3 DEF DoRename
<1>3. ASSUME NEW o \in Ops, DoWrite(o)
      PROVE  /\ UNCHANGED <<tab, job, pending, probe, sample, relist, deferred, blind>>
             /\ Noted(n) => Noted(n)'
             /\ disk'[n] = disk[n] \/ Noted(n)'
             /\ op[o].st = "running" /\ op'[o].st = "ended" /\ \A q \in Ops : q # o => op'[q] = op[q]
  <2>1. /\ UNCHANGED <<tab, job, pending, probe, sample, relist, deferred>>
        /\ op[o].st = "running" /\ op'[o].st = "ended" /\ \A q \in Ops : q # o => op'[q] = op[q]
    BY <1>0, <1>3 DEF DoWrite, pumpVars, OpState
  <2>2. CASE disk' = disk
    BY <1>3, <2>1, <2>2 DEF Noted, DoWrite
  <2>3. CASE disk' # disk
    <3>1. Changed({op[o].to})
      BY <1>3, <2>3 DEF DoWrite
    <3>2. blind' = blind /\ notes' = [notes EXCEPT !.paths = @ \cup {op[o].to}]
      BY <1>0, <2>1, <3>1, ToldIs DEF Changed
    <3>3. Noted(n) => Noted(n)'
      BY <1>0, <3>2 DEF Noted
    <3>4. n = op[o].to => Noted(n)'
      BY <1>0, <3>2 DEF Noted
    <3>5. n # op[o].to => disk'[n] = disk[n]
      BY <1>0, <1>3 DEF DoWrite
    <3>6. QED BY <2>1, <3>2, <3>3, <3>4, <3>5
  <2>4. QED BY <2>2, <2>3
<1>4. ASSUME NEW o \in Ops, op[o].st = "running", op'[o].st = "ended", \A q \in Ops : q # o => op'[q] = op[q]
      PROVE  Active' = Active
  BY <1>4 DEF Active
<1>5. op' = op => Active' = Active
  BY DEF Active
<1>6. QED BY <1>1, <1>2, <1>3, <1>4, <1>5 DEF DiskStep, Idle

LEMMA DiskLasts ==
  ASSUME Basis, DiskStep, NEW t \in Tabs, NEW n \in Name, Looks(t)'
  PROVE  Lasting(t, n) /\ (Held(t, n) => Held(t, n)')
<1>1. Lasting(t, n)
  BY DiskIs DEF Lasting, Idle, Loads
<1>2. QED BY <1>1, HeldLasts

LEMMA DiskView ==
  ASSUME Basis, InView, DiskStep
  PROVE  InView'
<1> SUFFICES ASSUME NEW t \in Tabs, NEW n \in Name, Looks(t)' PROVE Shown(t, n)'
  BY DEF InView
<1>1. CASE Noted(n)'
  BY <1>1, ToldIsShown
<1>2. CASE disk'[n] = disk[n]
  BY <1>2, DiskIs, DiskLasts, ViewLasts DEF InView
<1>3. QED BY <1>1, <1>2, DiskIs

LEMMA DiskRename ==
  ASSUME Basis, InRename, DiskStep
  PROVE  InRename'
<1> SUFFICES ASSUME NEW o \in Ops, Renamed(o)'
             PROVE  /\ disk'[op'[o].from] # op'[o].file
                    /\ \A t \in Tabs : Follows(o, t)'
  BY DEF InRename
<1>0. /\ changes \in Nat /\ (\A n \in Name : disk[n] \in Nat) /\ (\A q \in Ops : op[q].file \in Nat)
      /\ op \in [Ops -> OpState] /\ disk \in [Name -> Versions]
      /\ (\A n \in Name : disk[n] <= changes) /\ (\A q \in Ops : op[q].file <= changes)
  BY VersionsAre DEF Basis, InOps, InVersions
<1>1. ASSUME NEW q \in Ops, DoRename(q), q = o
      PROVE  /\ disk'[op'[o].from] # op'[o].file
             /\ \A t \in Tabs : Follows(o, t)'
  <2>1. op[o].kind = "Rename" /\ op[o].st = "running" /\ op[o].from \in Name /\ op[o].to \in Name
        /\ op[o].from # op[o].to /\ op[o].file = 0
    BY <1>1 DEF DoRename, Basis, Types, OpTypes, InNames, InOps, InVersions
  <2>2. op'[o].file # 0
    BY DEF Renamed, Succeeded
  <2>3. CASE disk[op[o].from] # 0 /\ disk[op[o].to] = 0
    <3>1. /\ disk' = [disk EXCEPT ![op[o].to] = disk[op[o].from], ![op[o].from] = 0]
          /\ op' = [op EXCEPT ![o].st = "ended", ![o].file = disk[op[o].from]]
      BY <1>1, <2>3 DEF DoRename
    <3>2. op'[o].from = op[o].from /\ op'[o].to = op[o].to /\ op'[o].file = disk[op[o].from]
      BY <1>0, <3>1 DEF OpState
    <3>3. disk'[op[o].from] = 0 /\ disk'[op[o].to] = disk[op[o].from]
      BY <1>0, <2>1, <3>1
    <3>4. QED BY <2>2, <3>2, <3>3 DEF Follows
  <2>4. CASE ~(disk[op[o].from] # 0 /\ disk[op[o].to] = 0)
    <3>1. op' = [op EXCEPT ![o].st = "ended"]
      BY <1>1, <2>4 DEF DoRename
    <3>2. op'[o].file = op[o].file
      BY <1>0, <3>1 DEF OpState
    <3>3. QED BY <2>1, <2>2, <3>2
  <2>5. QED BY <2>3, <2>4
<1>2. ASSUME op'[o] = op[o],
             disk'[op[o].from] \in {disk[op[o].from], 0, changes + 1}
               \/ disk'[op[o].from] # op[o].file
      PROVE  /\ disk'[op'[o].from] # op'[o].file
             /\ \A t \in Tabs : Follows(o, t)'
  <2>1. Renamed(o) /\ op[o].from \in Name /\ op[o].to \in Name /\ op[o].file # 0
    BY <1>2 DEF Renamed, Succeeded, Basis, Types, OpTypes, InNames
  <2>2. disk[op[o].from] # op[o].file
    BY <2>1 DEF InRename
  <2>3. disk'[op'[o].from] # op'[o].file
    BY <1>0, <1>2, <2>1, <2>2
  <2>4. ASSUME NEW t \in Tabs, Looks(t)', <<op[o].from, op[o].file>> \in Known(t)'
        PROVE  disk'[op[o].to] = op[o].file \/ Held(t, op[o].to)'
    <3>0. PICK m \in Name : m = op[o].to
      BY <2>1
    <3>1. Idle(t) /\ (Held(t, m) => Held(t, m)') /\ (disk'[m] = disk[m] \/ Noted(m)')
      BY <2>4, DiskIs, DiskLasts
    <3>2. Looks(t) /\ <<op[o].from, op[o].file>> \in Known(t)
      BY <2>4, <3>1 DEF Idle, Looks, Known, Loads
    <3>3. Follows(o, t)
      BY <2>1 DEF InRename
    <3>4. Noted(m)' => Held(t, m)'
      BY DEF Held
    <3>5. disk'[m] = op[o].file \/ Held(t, m)'
      BY <2>4, <3>0, <3>1, <3>2, <3>3, <3>4 DEF Follows
    <3>6. m = op'[o].to
      BY <1>2, <3>0
    <3>7. Held(t, m)' => Held(t, op[o].to)'
      BY <3>6
    <3>8. QED BY <3>0, <3>5, <3>7
  <2>5. QED BY <1>2, <2>3, <2>4 DEF Follows
<1>3. ASSUME NEW q \in Ops, DoRename(q), q # o PROVE FALSE
  <2>1. op'[o] = op[o]
    BY <1>0, <1>3 DEF DoRename
  <2>2. AtWork(o) /\ op[o].kind # "Copy" /\ AtWork(q) /\ op[q].kind # "Copy"
    BY <1>3, <2>1 DEF Renamed, Succeeded, DoRename, AtWork
  <2>3. QED BY <1>3, <2>2 DEF Basis, InOps, InLane
<1>4. ASSUME NEW q \in Ops, DoWrite(q)
      PROVE  op'[o] = op[o] /\ (disk'[op[o].from] \in {disk[op[o].from], 0} \/ disk'[op[o].from] # op[o].file)
  <2>1. Writes(q) /\ op[q].to \in Name
    BY <1>4 DEF DoWrite, Writes, Basis, Types, OpTypes, InNames
  <2>2. q # o
    <3>1. op'[q].kind = op[q].kind
      BY <1>0, <1>4 DEF DoWrite, OpState
    <3>2. QED BY <2>1, <3>1 DEF Renamed, Succeeded, Writes
  <2>3. op'[o] = op[o]
    BY <1>0, <1>4, <2>2 DEF DoWrite
  <2>4. op[o].from \in Name /\ op[q].file # op[o].file
    BY <2>1, <2>2, <2>3 DEF Renamed, Succeeded, Basis, Types, OpTypes, InNames, InOps, InVersions
  <2>5. disk'[op[o].from] \in {disk[op[o].from], 0, op[q].file}
    BY <1>0, <1>4, <2>1, <2>4 DEF DoWrite
  <2>6. QED BY <2>3, <2>4, <2>5
<1>5. ASSUME NEW m \in Name, External(m)
      PROVE  op'[o] = op[o] /\ disk'[op[o].from] \in {disk[op[o].from], 0, changes + 1}
  <2>1. op' = op /\ (disk' = [disk EXCEPT ![m] = changes + 1] \/ disk' = [disk EXCEPT ![m] = 0])
    BY <1>5 DEF External
  <2>2. op[o].from \in Name
    BY <2>1 DEF Renamed, Succeeded, Basis, Types, OpTypes, InNames
  <2>3. QED BY <1>0, <2>1, <2>2
<1>6. QED BY <1>1, <1>2, <1>3, <1>4, <1>5 DEF DiskStep

-------------------------------------------------------------------------------
(* The watcher, the tabs and the start of operations.                        *)

PlainStep == \/ WatchError \/ WatchTimer
             \/ \E t \in Tabs : Open(t) \/ Leave(t) \/ Search(t) \/ Escape(t) \/ ReadEntry(t) \/ FinishListing(t)
             \/ \E o \in Ops, t \in Tabs, from, to \in Name : StartRename(o, t, from, to)
             \/ \E o \in Ops, kind \in {"Copy", "Delete"}, n \in Name : StartWrite(o, kind, n)
             \/ \E o \in Ops : Dequeue(o)
             \/ Relist \/ UNCHANGED vars

LEMMA PlainOps ==
  ASSUME Basis, PlainStep
  PROVE  /\ Active # {} => Active' # {}
         /\ \A o \in Ops : Renamed(o)' => op'[o] = op[o]
<1>0. op \in [Ops -> OpState]
  BY DEF Basis, Types, OpTypes
<1>1. ASSUME NEW o \in Ops, op[o].st \in {"none", "queued"}, op'[o].st \in {"queued", "running"},
             \A q \in Ops : q # o => op'[q] = op[q]
      PROVE  /\ Active # {} => Active' # {}
             /\ \A q \in Ops : Renamed(q)' => op'[q] = op[q]
  BY <1>1 DEF Active, Renamed
<1>2. op' = op => /\ Active # {} => Active' # {}
                  /\ \A q \in Ops : Renamed(q)' => op'[q] = op[q]
  BY DEF Active
<1>3. ASSUME NEW o \in Ops, NEW t \in Tabs, NEW from \in Name, NEW to \in Name,
             StartRename(o, t, from, to)
      PROVE  /\ op[o].st \in {"none", "queued"} /\ op'[o].st \in {"queued", "running"}
             /\ \A q \in Ops : q # o => op'[q] = op[q]
  BY <1>0, <1>3 DEF StartRename
<1>4. ASSUME NEW o \in Ops, NEW kind \in {"Copy", "Delete"}, NEW n \in Name, StartWrite(o, kind, n)
      PROVE  /\ op[o].st \in {"none", "queued"} /\ op'[o].st \in {"queued", "running"}
             /\ \A q \in Ops : q # o => op'[q] = op[q]
  BY <1>0, <1>4 DEF StartWrite
<1>5. ASSUME NEW o \in Ops, Dequeue(o)
      PROVE  /\ op[o].st \in {"none", "queued"} /\ op'[o].st \in {"queued", "running"}
             /\ \A q \in Ops : q # o => op'[q] = op[q]
  BY <1>0, <1>5 DEF Dequeue, OpState
<1>6. CASE \/ WatchError \/ WatchTimer \/ Relist \/ UNCHANGED vars
           \/ \E t \in Tabs : Open(t) \/ Leave(t) \/ Search(t) \/ Escape(t) \/ ReadEntry(t) \/ FinishListing(t)
  <2>1. op' = op
    BY <1>6 DEF WatchError, WatchTimer, Relist, vars, Open, Leave, Search, Escape, ReadEntry, FinishListing
  <2>2. QED BY <1>2, <2>1
<1>7. QED BY <1>1, <1>3, <1>4, <1>5, <1>6 DEF PlainStep

LEMMA PlainIs ==
  ASSUME Basis, PlainStep
  PROVE  /\ UNCHANGED <<disk, pending, probe, sample, deferred>>
         /\ \A n \in Name : Noted(n) => Noted(n)'
         /\ \A t \in Tabs : \/ Asks(t)
                            \/ /\ relist'[t] = relist[t]
                               /\ Idle(t) \/ Reads(t) \/ Completes(t) \/ Leaves(t) \/ Swaps(t)
<1>0. Types /\ InListing /\ notes \in [paths : SUBSET Name, uncertain : BOOLEAN]
  BY DEF Basis, Types, DiskTypes
<1>1. UNCHANGED <<disk, pending, probe, sample, deferred>>
  BY DEF PlainStep, WatchError, WatchTimer, Relist, vars, Open, Leave, Search, Escape, ReadEntry,
         FinishListing, StartRename, StartWrite, Dequeue, pumpVars
<1>2. notes' = notes \/ notes' = [notes EXCEPT !.uncertain = TRUE]
  BY DEF PlainStep, WatchError, WatchTimer, Relist, vars, Open, Leave, Search, Escape, ReadEntry,
         FinishListing, StartRename, StartWrite, Dequeue
<1>3. \A n \in Name : Noted(n) => Noted(n)'
  BY <1>0, <1>2 DEF Noted
<1>4. ASSUME NEW u \in Tabs, NEW t \in Tabs,
             Open(u) \/ Leave(u) \/ Search(u) \/ Escape(u) \/ ReadEntry(u) \/ FinishListing(u)
      PROVE  \/ Asks(t)
             \/ /\ relist'[t] = relist[t]
                /\ Idle(t) \/ Reads(t) \/ Completes(t) \/ Leaves(t) \/ Swaps(t)
  <2>1. relist' = relist
    BY <1>4 DEF Open, Leave, Search, Escape, ReadEntry, FinishListing
  <2>2. QED BY <1>0, <1>4, <2>1, StepIs
<1>5. ASSUME Relist, NEW t \in Tabs
      PROVE  Asks(t) \/ (relist'[t] = relist[t] /\ Idle(t))
  <2>1. relist'[t] = NoWatch
    BY <1>5 DEF Relist
  <2>2. QED BY <1>0, <1>5, <2>1, RelistIs
<1>6. CASE \/ WatchError \/ WatchTimer
           \/ \E o \in Ops, t \in Tabs, from, to \in Name : StartRename(o, t, from, to)
           \/ \E o \in Ops, kind \in {"Copy", "Delete"}, n \in Name : StartWrite(o, kind, n)
           \/ \E o \in Ops : Dequeue(o)
           \/ UNCHANGED vars
  <2>1. UNCHANGED <<tab, job, blind, relist>>
    BY <1>6 DEF WatchError, WatchTimer, vars, StartRename, StartWrite, Dequeue
  <2>2. QED BY <1>1, <1>3, <2>1 DEF Idle
<1>7. QED BY <1>1, <1>3, <1>4, <1>5, <1>6 DEF PlainStep

LEMMA PlainLasts ==
  ASSUME Basis, PlainStep, NEW t \in Tabs, NEW n \in Name, relist'[t] = relist[t],
         Idle(t) \/ Reads(t) \/ Completes(t)
  PROVE  Lasting(t, n)
<1>1. /\ Noted(n) => Noted(n)'
      /\ pending' = pending /\ probe' = probe /\ deferred' = deferred
      /\ Active # {} => Active' # {}
  BY PlainIs, PlainOps
<1>2. Loads(t)' => Loads(t) /\ tab'[t].latest = tab[t].latest /\ tab'[t].kind = tab[t].kind
  BY DEF Idle, Reads, Completes, Loads
<1>3. QED BY <1>1, <1>2 DEF Lasting

\* The listing has come to one more name.
LEMMA ReadIsShown ==
  ASSUME Basis, NEW t \in Tabs, NEW n \in Name, Reads(t), Lasting(t, n), sample' = sample,
         disk' = disk, Looks(t) => Shown(t, n), Looks(t)'
  PROVE  Shown(t, n)'
<1>1. Looks(t) /\ Onward(t) /\ Loads(t) /\ Loads(t)'
  BY Going DEF Reads, Looks, Basis, Loads
<1>2. Owed(t, n) => Owed(t, n)'
  BY <1>1, OwedLasts
<1>3. PICK m \in job[t].todo : job'[t] = [todo |-> job[t].todo \ {m},
                                       got |-> job[t].got \cup (FilesOn(disk) \cap ({m} \X Nat))]
  BY DEF Reads
<1>4. /\ Known(t) = job[t].got /\ Known(t)' = job'[t].got
      /\ \A f \in job[t].got : f[1] \notin job[t].todo
      /\ disk \in [Name -> Versions]
  BY <1>1 DEF Known, Basis, InListing, Sound, Types, DiskTypes
<1>5. m \in Name
  BY <1>1, <1>3, TabIs DEF Basis, InListing, Sound, Some, Listing
<1>6. FilesOn(disk) \cap ({m} \X Nat) = OnDisk(m)
  <2>1. disk[m] \in Nat
    BY <1>5, VersionsAre DEF Basis
  <2>2. CASE disk[m] = 0
    BY <2>2 DEF FilesOn, OnDisk
  <2>3. CASE disk[m] # 0
    <3>1. \A f \in FilesOn(disk) \cap ({m} \X Nat) : f = <<m, disk[m]>>
      BY DEF FilesOn
    <3>2. <<m, disk[m]>> \in FilesOn(disk) \cap ({m} \X Nat)
      BY <1>5, <2>1, <2>3 DEF FilesOn
    <3>3. QED BY <2>3, <3>1, <3>2 DEF OnDisk
  <2>4. QED BY <2>2, <2>3
<1>7. CASE n = m
  <2>1. Of(job[t].got, n) = {}
    BY <1>3, <1>4, <1>7 DEF Of
  <2>2. \A f \in OnDisk(m) : f[1] = m
    BY DEF OnDisk
  <2>3. Known(t)' = job[t].got \cup OnDisk(m)
    BY <1>3, <1>4, <1>6
  <2>4. Of(Known(t)', n) = OnDisk(n)
    BY <1>7, <2>1, <2>2, <2>3 DEF Of
  <2>5. OnDisk(n)' = OnDisk(n)
    BY DEF OnDisk
  <2>6. QED BY <2>4, <2>5 DEF Shown, Of
<1>8. CASE n # m
  <2>1. \A f \in OnDisk(m) : f[1] # n
    BY <1>8 DEF OnDisk
  <2>2. Known(t)' = job[t].got \cup OnDisk(m)
    BY <1>3, <1>4, <1>6
  <2>3. Of(Known(t)', n) = Of(Known(t), n)
    BY <1>4, <2>1, <2>2 DEF Of
  <2>4. OnDisk(n)' = OnDisk(n)
    BY DEF OnDisk
  <2>5. n \in job[t].todo => n \in job'[t].todo
    BY <1>3, <1>8
  <2>6. QED BY <1>1, <1>2, <2>3, <2>4, <2>5 DEF Shown, Of
<1>9. QED BY <1>7, <1>8

LEMMA CompletedIsShown ==
  ASSUME Basis, NEW t \in Tabs, NEW n \in Name, Completes(t), Lasting(t, n), sample' = sample,
         disk' = disk, Looks(t) => Shown(t, n), Looks(t)'
  PROVE  Shown(t, n)'
<1>1. Looks(t) /\ Onward(t) /\ Loads(t) /\ ~Loads(t)'
  BY Going DEF Completes, Looks, Basis, Loads
<1>2. Owed(t, n) => Owed(t, n)'
  BY <1>1, OwedLasts
<1>3. Known(t)' = Known(t) /\ job[t].todo = {}
  BY <1>1 DEF Completes, Known
<1>4. QED BY <1>1, <1>2, <1>3 DEF Shown, Of, OnDisk

LEMMA PlainView ==
  ASSUME Basis, InView, PlainStep
  PROVE  InView'
<1> SUFFICES ASSUME NEW t \in Tabs, NEW n \in Name, Looks(t)' PROVE Shown(t, n)'
  BY DEF InView
<1>1. disk' = disk /\ sample' = sample /\ (Looks(t) => Shown(t, n))
  BY PlainIs DEF InView
<1>2. CASE Asks(t)
  BY <1>2, AskedIsShown
<1>3. CASE relist'[t] = relist[t] /\ Idle(t)
  BY <1>1, <1>3, PlainLasts, ViewLasts
<1>4. CASE relist'[t] = relist[t] /\ Reads(t)
  BY <1>1, <1>4, PlainLasts, ReadIsShown
<1>5. CASE relist'[t] = relist[t] /\ Completes(t)
  BY <1>1, <1>5, PlainLasts, CompletedIsShown
<1>6. ~Leaves(t) /\ ~Swaps(t)
  BY TabIs DEF Looks, Leaves, Swaps
<1>7. QED BY <1>2, <1>3, <1>4, <1>5, <1>6, PlainIs

LEMMA PlainRename ==
  ASSUME Basis, InRename, PlainStep
  PROVE  InRename'
<1> SUFFICES ASSUME NEW o \in Ops, Renamed(o)'
             PROVE  /\ disk'[op'[o].from] # op'[o].file
                    /\ \A t \in Tabs : Follows(o, t)'
  BY DEF InRename
<1>1. op'[o] = op[o] /\ Renamed(o) /\ disk' = disk
  BY PlainOps, PlainIs DEF Renamed, Succeeded
<1>2. disk[op[o].from] # op[o].file /\ op[o].from \in Name /\ op[o].to \in Name /\ op[o].file # 0
  BY <1>1 DEF InRename, Renamed, Succeeded, Basis, Types, OpTypes, InNames
<1>3. ASSUME NEW t \in Tabs, Looks(t)', <<op[o].from, op[o].file>> \in Known(t)'
      PROVE  disk'[op[o].to] = op[o].file \/ Held(t, op[o].to)'
  <2>0. PICK m \in Name : m = op[o].to
    BY <1>2
  <2>1. ~Asks(t)
    BY <1>3 DEF Asks, Known, Loads
  <2>2. ~Leaves(t) /\ ~Swaps(t)
    BY <1>3, TabIs DEF Looks, Leaves, Swaps
  <2>3. relist'[t] = relist[t] /\ (Idle(t) \/ Reads(t) \/ Completes(t))
    BY <2>1, <2>2, PlainIs
  <2>4. Looks(t)
    BY <1>3, <2>3 DEF Idle, Reads, Completes, Looks
  <2>5. <<op[o].from, op[o].file>> \in Known(t)
    <3>1. CASE Idle(t) \/ Completes(t)
      BY <1>3, <3>1 DEF Idle, Completes, Known, Loads
    <3>2. CASE Reads(t)
      <4>1. PICK n \in job[t].todo : job'[t] = [todo |-> job[t].todo \ {n},
                                       got |-> job[t].got \cup (FilesOn(disk) \cap ({n} \X Nat))]
        BY <3>2 DEF Reads
      <4>2. Known(t)' = job'[t].got /\ Known(t) = job[t].got
        BY <3>2 DEF Reads, Known, Loads
      <4>3. <<op[o].from, op[o].file>> \notin FilesOn(disk)
        BY <1>2 DEF FilesOn
      <4>4. QED BY <1>3, <4>1, <4>2, <4>3
    <3>3. QED BY <2>3, <3>1, <3>2
  <2>6. disk[m] = op[o].file \/ Held(t, m)
    BY <1>1, <2>0, <2>4, <2>5 DEF InRename, Follows
  <2>7. Held(t, m) => Held(t, m)'
    BY <2>3, PlainLasts, HeldLasts
  <2>8. m = op'[o].to
    BY <1>1, <2>0
  <2>9. Held(t, m)' => Held(t, op[o].to)'
    BY <2>8
  <2>10. QED BY <1>1, <2>0, <2>6, <2>7, <2>9
<1>4. QED BY <1>1, <1>2, <1>3 DEF Follows

-------------------------------------------------------------------------------
(* The sample.                                                               *)

SampleStep == SamplePath \/ SampleEnds

LEMMA SampleKeeps ==
  ASSUME Basis, SampleStep, NEW t \in Tabs
  PROVE  /\ UNCHANGED <<disk, tab, job, blind, notes, pending, op, relist, deferred>>
         /\ Idle(t)
         /\ Stage(t) # "sampling" => probe'[t] = probe[t] /\ Stage(t)' = Stage(t)
         /\ Stage(t) = "sampling" => Stage(t)' \in {"sampling", "sampled"}
         /\ \A n \in Name : Held(t, n) => Held(t, n)'
<1>1. /\ UNCHANGED <<disk, tab, job, blind, notes, pending, op, relist, deferred>>
      /\ Stage(t) # "sampling" => probe'[t] = probe[t] /\ Stage(t)' = Stage(t)
      /\ Stage(t) = "sampling" => Stage(t)' \in {"sampling", "sampled"}
  <2>1. CASE SamplePath
    BY <2>1 DEF SamplePath, Stage
  <2>2. CASE SampleEnds
    BY <2>2, SampledIs DEF Basis
  <2>3. QED BY <2>1, <2>2 DEF SampleStep
<1>2. ASSUME NEW n \in Name, Held(t, n) PROVE Held(t, n)'
  <2>1. Noted(n) => Noted(n)'
    BY <1>1 DEF Noted
  <2>2. deferred /\ Active # {} => (deferred /\ Active # {})'
    BY <1>1 DEF Active
  <2>3. QED BY <1>1, <1>2, <2>1, <2>2 DEF Held, Bears, Covers, Kept, Loads
<1>3. QED BY <1>1, <1>2 DEF Idle

LEMMA SamplePathFinds ==
  ASSUME Basis, SamplePath, NEW t \in Tabs, NEW n \in Name, Probed(t, n)
  PROVE  Probed(t, n)'
<1>1. UNCHANGED <<disk, tab, probe>> /\ Sampling # {}
  BY DEF SamplePath
<1>2. PICK m \in sample.left :
        sample' = [left |-> sample.left \ {m},
                   seen |-> IF \E u \in Sampling : m \in probe[u].watch.paths /\ StillNeeded(u)
                            THEN sample.seen \cup {<<m, disk[m]>>} ELSE sample.seen]
  BY DEF SamplePath
<1>3. \A f \in sample.seen : f[1] \notin sample.left
  BY <1>1 DEF Basis, InProbe, Paired, InSample
<1>4. Bears(t, probe[t].watch, n)'
  BY <1>1 DEF Probed, Bears, Covers, Kept, Loads
<1>5. Stage(t)' = Stage(t) /\ Stale(t)' = Stale(t)
  BY <1>1 DEF Stage, Stale
<1>6. CASE Stage(t) = "sampling"
  <2>1. \/ probe[t].watch.uncertain \/ n \in sample.left
        \/ Of(sample.seen, n) = {} \/ <<n, disk[n]>> \in sample.seen
    BY <1>6 DEF Probed, Finds
  <2>2. sample'.left = sample.left \ {m}
        /\ (sample'.seen = sample.seen \/ sample'.seen = sample.seen \cup {<<m, disk[m]>>})
    BY <1>2
  <2>3. \/ n \in sample'.left \/ Of(sample'.seen, n) = {} \/ <<n, disk[n]>> \in sample'.seen
        \/ probe[t].watch.uncertain
    <3>1. CASE n = m
      <4>1. Of(sample.seen, n) = {}
        BY <1>2, <1>3, <3>1 DEF Of
      <4>2. QED BY <2>2, <3>1, <4>1
    <3>2. CASE n # m
      <4>1. Of(sample'.seen, n) = Of(sample.seen, n)
        BY <2>2, <3>2 DEF Of
      <4>2. QED BY <2>1, <2>2, <3>2, <4>1
    <3>3. QED BY <3>1, <3>2
  <2>4. Finds(t, n)'
    BY <1>1, <1>5, <1>6, <2>3 DEF Finds, Of
  <2>5. QED BY <1>4, <2>4 DEF Probed
<1>7. CASE Stage(t) # "sampling"
  <2>1. Finds(t, n)'
    BY <1>1, <1>5, <1>7 DEF Probed, Finds
  <2>2. QED BY <1>4, <2>1 DEF Probed
<1>8. QED BY <1>6, <1>7

\* A probe that took its sample has found what its rows lack.
LEMMA SampleFinds ==
  ASSUME Basis, SampleEnds, NEW t \in Tabs, NEW n \in Name, Looks(t), Probed(t, n),
         Of(Known(t), n) # OnDisk(n)
  PROVE  Probed(t, n)'
<1>1. /\ UNCHANGED <<disk, tab>> /\ sample \in Sample /\ sample.left = {}
  BY SampledIs DEF Basis
<1>2. CASE Stage(t) # "sampling"
  <2>1. probe'[t] = probe[t] /\ Stage(t)' = Stage(t)
    BY <1>2, SampledIs DEF Basis
  <2>2. QED BY <1>1, <1>2, <2>1 DEF Probed, Bears, Covers, Kept, Loads, Finds, Stale
<1>3. CASE Stage(t) = "sampling"
  <2>1. PICK found \in [Sampling -> SUBSET Name] :
               /\ \A m \in Name : (m \in found[t]) \in (IF m \in probe[t].watch.paths
                                                         THEN Differs(t, m) ELSE {FALSE})
               /\ probe'[t] # NoWatch /\ Stage(t)' = "sampled"
               /\ probe'[t].watch = probe[t].watch /\ probe'[t].request = probe[t].request
               /\ probe'[t].rows = probe[t].rows /\ probe'[t].edition = probe[t].edition
               /\ probe'[t].changed = (probe[t].watch.uncertain \/ found[t] # {})
    BY <1>3, SampledIs DEF Basis
  <2>2. Bears(t, probe[t].watch, n)'
    BY <1>1, <2>1 DEF Probed, Bears, Covers, Kept, Loads
  <2>3. Stale(t)' <=> Stale(t)
    BY <1>1, <2>1 DEF Stale
  <2>4. CASE Stale(t) \/ probe[t].watch.uncertain
    <3>1. Finds(t, n)'
      BY <2>1, <2>3, <2>4 DEF Finds
    <3>2. QED BY <2>2, <3>1 DEF Probed
  <2>5. CASE ~Stale(t) /\ ~probe[t].watch.uncertain
    <3>1. n \in probe[t].watch.paths
      BY <2>5 DEF Probed, Bears, Covers
    <3>2. ~Loads(t) /\ probe[t].rows = tab[t].rows
      BY <1>3, <2>5 DEF Basis, InProbe, Compares, Stale
    <3>3. Before(t, n) = Of(Known(t), n)
      BY <3>2 DEF Before, Of, Known
    <3>4. Single(tab[t].rows) /\ Single(sample.seen)
      <4>1. sample # NoWatch
        BY <1>1, NoWatchAssumption
      <4>2. QED BY <3>2, <4>1 DEF Looks, Basis, InListing, Sound, InProbe, InSample
    <3>5. Of(sample.seen, n) = {} \/ <<n, disk[n]>> \in sample.seen
      BY <1>1, <1>3, <2>5 DEF Probed, Finds
    <3>6. Differs(t, n) = {TRUE}
      <4>1. CASE Of(sample.seen, n) = {}
        <5>1. ~ \E f \in sample.seen : f[1] = n
          BY <4>1 DEF Of
        <5>2. QED BY <5>1 DEF Differs
      <4>2. CASE <<n, disk[n]>> \in sample.seen
        <5> DEFINE now == {f \in sample.seen : f[1] = n /\ f[2] # 0}
        <5>1. \A f \in sample.seen : f[1] = n => f = <<n, disk[n]>>
          BY <3>4, <4>2 DEF Single
        <5>2. now = OnDisk(n)
          <6>1. CASE disk[n] = 0
            BY <5>1, <6>1 DEF OnDisk
          <6>2. CASE disk[n] # 0
            BY <4>2, <5>1, <6>2 DEF OnDisk
          <6>3. QED BY <6>1, <6>2
        <5>3. Differs(t, n) = IF Before(t, n) = {} THEN {now # {}} ELSE {now # {f} : f \in Before(t, n)}
          BY <4>2 DEF Differs
        <5> HIDE DEF now
        <5>4. CASE Before(t, n) = {}
          <6>1. now # {}
            BY <3>3, <5>2, <5>4
          <6>2. QED BY <5>3, <5>4, <6>1
        <5>5. CASE Before(t, n) # {}
          <6>1. PICK f \in Before(t, n) : TRUE
            BY <5>5
          <6>2. Before(t, n) = {f}
            BY <3>2, <3>4, <6>1 DEF Before, Single
          <6>3. now # {f}
            BY <3>3, <5>2, <6>2
          <6>4. QED BY <5>3, <5>5, <6>2, <6>3
        <5>6. QED BY <5>4, <5>5
      <4>3. QED BY <3>5, <4>1, <4>2
    <3>7. n \in found[t]
      <4>1. (n \in found[t]) \in Differs(t, n)
        BY <2>1, <3>1
      <4>2. (n \in found[t]) \in {TRUE}
        BY <3>6, <4>1
      <4>3. (n \in found[t]) = TRUE
        BY <4>2
      <4>4. QED BY <4>3
    <3>8. probe'[t].changed
      BY <2>1, <3>7
    <3>9. Finds(t, n)'
      BY <2>1, <3>8 DEF Finds
    <3>10. QED BY <2>2, <3>9 DEF Probed
  <2>6. QED BY <2>4, <2>5
<1>4. QED BY <1>2, <1>3

LEMMA SampleView ==
  ASSUME Basis, InView, SampleStep
  PROVE  InView'
<1> SUFFICES ASSUME NEW t \in Tabs, NEW n \in Name, Looks(t)' PROVE Shown(t, n)'
  BY DEF InView
<1>1. Idle(t) /\ disk' = disk /\ (Held(t, n) => Held(t, n)')
  BY SampleKeeps
<1>2. Looks(t) /\ Shown(t, n)
  BY <1>1 DEF Idle, Looks, InView
<1>3. CASE (Loads(t) /\ n \in job[t].todo) \/ Of(Known(t), n) = OnDisk(n)
  BY <1>1, <1>3 DEF Idle, Shown, Loads, Known, Of, OnDisk
<1>4. CASE Held(t, n)
  BY <1>1, <1>4 DEF Shown, Owed
<1>5. CASE Probed(t, n) /\ Of(Known(t), n) # OnDisk(n)
  BY <1>2, <1>5, SamplePathFinds, SampleFinds DEF SampleStep, Shown, Owed
<1>6. QED BY <1>2, <1>3, <1>4, <1>5 DEF Shown, Owed

LEMMA SampleRename ==
  ASSUME Basis, InRename, SampleStep
  PROVE  InRename'
<1> SUFFICES ASSUME NEW o \in Ops, Renamed(o)'
             PROVE  /\ disk'[op'[o].from] # op'[o].file
                    /\ \A t \in Tabs : Follows(o, t)'
  BY DEF InRename
<1>1. op' = op /\ disk' = disk
  BY DEF SampleStep, SamplePath, SampleEnds
<1>2. Renamed(o) /\ op[o].to \in Name
  BY <1>1 DEF Renamed, Succeeded, Basis, Types, OpTypes, InNames
<1>3. PICK m \in Name : m = op[o].to /\ m = op'[o].to
  BY <1>1, <1>2
<1>4. ASSUME NEW t \in Tabs PROVE Follows(o, t)'
  <2>1. Idle(t) /\ (Held(t, m) => Held(t, m)')
    BY SampleKeeps
  <2>2. Looks(t)' = Looks(t) /\ Known(t)' = Known(t)
    BY <2>1 DEF Idle, Looks, Known, Loads
  <2>3. Follows(o, t)
    BY <1>2 DEF InRename
  <2>4. Held(t, m)' => Held(t, op[o].to)'
    BY <1>3
  <2>5. QED BY <1>1, <1>3, <2>1, <2>2, <2>3, <2>4 DEF Follows
<1>5. QED BY <1>1, <1>2, <1>4 DEF InRename

-------------------------------------------------------------------------------
(* The window's answer to a probe.                                           *)
LEMMA ApplyIs ==
  ASSUME Basis, NEW u \in Tabs, ApplyProbe(u), NEW t \in Tabs
  PROVE  /\ UNCHANGED <<disk, notes, pending, sample, op, relist>> /\ Active' = Active
         /\ deferred => deferred'
         /\ IF t = u /\ Lists(t) THEN Asks(t) ELSE Idle(t)
         /\ t # u => probe'[t] = probe[t]
<1>1. /\ UNCHANGED <<disk, notes, pending, sample, op, relist>>
      /\ deferred => deferred'
      /\ t # u => probe'[t] = probe[t]
      /\ IF Lists(u) THEN Listed({u}, "BackgroundRefresh") ELSE UNCHANGED <<tab, job, blind>>
  BY Applied DEF Basis
<1>2. IF t = u /\ Lists(t) THEN Asks(t) ELSE Idle(t)
  <2>1. CASE Lists(u)
    <3>1. IF t \in {u} THEN Asks(t) ELSE Idle(t)
      BY <1>1, <2>1, ListedIs, Constants DEF Basis
    <3>2. QED BY <2>1, <3>1
  <2>2. CASE ~Lists(u)
    BY <1>1, <2>2 DEF Idle
  <2>3. QED BY <2>1, <2>2
<1>3. Active' = Active
  BY <1>1 DEF Active
<1>4. QED BY <1>1, <1>2, <1>3

LEMMA ApplyHeld ==
  ASSUME Basis, NEW u \in Tabs, ApplyProbe(u), NEW t \in Tabs, Idle(t), NEW n \in Name, Held(t, n)
  PROVE  Held(t, n)'
<1>1. /\ UNCHANGED <<disk, notes, pending, op, relist>> /\ Active' = Active /\ (deferred => deferred')
      /\ t # u => probe'[t] = probe[t]
  BY ApplyIs
<1>2. CASE t # u
  BY <1>1, <1>2 DEF Held, Noted, Bears, Covers, Kept, Loads, Stage, Idle
<1>3. CASE t = u
  <2>1. Stage(t) = "queued"
    BY <1>3 DEF ApplyProbe
  <2>2. Stage(t) # "delivered"
    BY <2>1
  <2>3. QED BY <1>1, <2>2 DEF Held, Noted, Bears, Covers, Kept, Loads, Idle
<1>4. QED BY <1>2, <1>3

LEMMA ApplyView ==
  ASSUME Basis, InView, NEW u \in Tabs, ApplyProbe(u)
  PROVE  InView'
<1> SUFFICES ASSUME NEW t \in Tabs, NEW n \in Name, Looks(t)' PROVE Shown(t, n)'
  BY DEF InView
<1>1. CASE t = u /\ Lists(t)
  BY <1>1, ApplyIs, AskedIsShown
<1>2. CASE t # u
  <2>1. Lasting(t, n)
    BY <1>2, ApplyIs DEF Lasting, Idle, Noted, Loads
  <2>2. QED BY <1>2, <2>1, ApplyIs, ViewLasts DEF InView
<1>3. CASE t = u /\ ~Lists(t)
  <2>1. Idle(t) /\ disk' = disk /\ (Held(t, n) => Held(t, n)') /\ Active' = Active
    BY <1>3, ApplyIs, ApplyHeld
  <2>2. Looks(t) /\ Shown(t, n)
    BY <2>1 DEF Idle, Looks, InView
  <2>3. CASE (Loads(t) /\ n \in job[t].todo) \/ Of(Known(t), n) = OnDisk(n)
    BY <2>1, <2>3 DEF Idle, Shown, Loads, Known, Of, OnDisk
  <2>4. CASE Held(t, n)
    BY <2>1, <2>4 DEF Shown, Owed
  <2>5. CASE Probed(t, n)
    <3>1. /\ Stage(t) = "queued" /\ deferred' = (deferred \/ Verdict(t) = "DeferredOperation")
          /\ probe'[t] # NoWatch /\ probe'[t].stage = "delivered"
          /\ probe'[t].retry = (IF Retries(t) THEN probe[t].watch ELSE NoWatch)
      BY <1>3, Applied DEF Basis
    <3>2. probe[t].changed \/ Stale(t)
      BY <2>5, <3>1 DEF Probed, Finds
    <3>3. Bears(t, probe[t].watch, n)
      BY <2>5 DEF Probed
    <3>4. Verdict(t) \in {"Wait", "DeferredOperation", "Probe"}
          /\ (Verdict(t) = "DeferredOperation" => Active # {})
      BY <2>2, <3>3, DispositionIs DEF Basis, Verdict, Looks, Bears
    <3>5. CASE Verdict(t) = "DeferredOperation"
      BY <2>1, <3>1, <3>4, <3>5 DEF Shown, Owed, Held
    <3>6. CASE Verdict(t) # "DeferredOperation"
      <4>1. Retries(t)
        BY <1>3, <3>2, <3>4, <3>6 DEF Retries, Lists
      <4>2. probe'[t].retry = probe[t].watch /\ Stage(t)' = "delivered"
        BY <3>1, <4>1 DEF Stage
      <4>3. Bears(t, probe[t].retry, n)'
        BY <2>1, <3>3, <4>2 DEF Bears, Covers, Kept, Idle, Loads
      <4>4. QED BY <4>2, <4>3 DEF Shown, Owed, Held
    <3>7. QED BY <3>5, <3>6
  <2>6. QED BY <2>2, <2>3, <2>4, <2>5 DEF Shown, Owed
<1>4. QED BY <1>1, <1>2, <1>3

LEMMA ApplyRename ==
  ASSUME Basis, InRename, NEW u \in Tabs, ApplyProbe(u)
  PROVE  InRename'
<1> SUFFICES ASSUME NEW o \in Ops, Renamed(o)'
             PROVE  /\ disk'[op'[o].from] # op'[o].file
                    /\ \A t \in Tabs : Follows(o, t)'
  BY DEF InRename
<1>1. op' = op /\ disk' = disk
  BY DEF ApplyProbe
<1>2. Renamed(o) /\ op[o].to \in Name
  BY <1>1 DEF Renamed, Succeeded, Basis, Types, OpTypes, InNames
<1>3. PICK m \in Name : m = op[o].to /\ m = op'[o].to
  BY <1>1, <1>2
<1>4. ASSUME NEW t \in Tabs PROVE Follows(o, t)'
  <2>1. CASE Asks(t)
    BY <2>1 DEF Asks, Follows, Known, Loads
  <2>2. CASE Idle(t)
    <3>1. Held(t, m) => Held(t, m)'
      BY <2>2, ApplyHeld
    <3>2. Looks(t)' = Looks(t) /\ Known(t)' = Known(t)
      BY <2>2 DEF Idle, Looks, Known, Loads
    <3>3. Follows(o, t)
      BY <1>2 DEF InRename
    <3>4. Held(t, m)' => Held(t, op[o].to)'
      BY <1>3
    <3>5. QED BY <1>1, <1>3, <3>1, <3>2, <3>3, <3>4 DEF Follows
  <2>3. QED BY <2>1, <2>2, ApplyIs
<1>5. QED BY <1>1, <1>2, <1>4 DEF InRename

-------------------------------------------------------------------------------
(* The end of an operation.                                                  *)
LEMMA FinishedView ==
  ASSUME Basis, InView, InRename, NEW o \in Ops, Finished(o)
  PROVE  InView'
<1> SUFFICES ASSUME NEW t \in Tabs, NEW n \in Name, Looks(t)' PROVE Shown(t, n)'
  BY DEF InView
<1>1. /\ ~Settling /\ op[o].st = "ended"
      /\ deferred' = (deferred /\ op[o].kind = "Delete")
      /\ UNCHANGED <<disk, notes, job, pending, probe, sample>>
      /\ relist'[t] = IF Affects(o) THEN IF tab[t].here THEN "BackgroundRefresh" ELSE NoWatch
                      ELSE IF tab[t].here /\ tab[t].page = "Directory" /\ ~Shows(o, t)
                           THEN "Refresh" ELSE NoWatch
  BY Ended DEF Basis
<1>2. IF Shows(o, t) THEN Edits(t) /\ blind'[t] = (blind[t] \/ Misfits(t, o)) ELSE Idle(t)
  BY ShowsEdits DEF Basis
<1>3. tab[t].here /\ tab[t].page = "Directory"
  BY <1>2 DEF Edits, Idle, Looks
<1>4. CASE Affects(o) \/ ~Shows(o, t)
  BY <1>1, <1>3, <1>4, NoWatchAssumption, ToldIsShown
<1>5. CASE ~Affects(o) /\ Shows(o, t)
  <2>1. PICK from \in Name, to \in Name, file \in Versions :
              from = op[o].from /\ to = op[o].to /\ file = op[o].file
    BY <1>1, <1>5 DEF Affects, Succeeded, Basis, Types, OpTypes, InNames, OpState
  <2>2. /\ <<from, file>> \in tab[t].rows /\ ~Loads(t) /\ Looks(t) /\ Single(tab[t].rows)
        /\ from # to /\ \A f \in tab[t].rows : f[1] # to
        /\ tab'[t].rows = (tab[t].rows \ {<<from, file>>}) \cup {<<to, file>>}
    BY <1>2, <1>5, <2>1, Fits DEF Basis, InListing, Looks
  <2>3. ~deferred /\ Succeeded(o) /\ Renamed(o) /\ file # 0
    BY <1>1, <1>5, <2>1 DEF Affects, Succeeded, Renamed
  <2>4. ~Loads(t)' /\ relist[t] = NoWatch
    BY <1>1, <1>2, <1>5, <2>2 DEF Edits, Loads, Settling
  <2>5. Lasting(t, n)
    BY <1>1, <2>3, <2>4 DEF Lasting, Noted
  <2>6. Owed(t, n) => Owed(t, n)'
    <3>1. Onward(t)
      BY SoundEdits DEF Basis
    <3>2. QED BY <1>1, <2>5, <3>1, OwedLasts
  <2>7. Held(t, n) => Held(t, n)'
    BY <2>5, HeldLasts
  <2>8. OnDisk(n)' = OnDisk(n) /\ Known(t) = tab[t].rows /\ Known(t)' = tab'[t].rows
    BY <1>1, <2>2, <2>4 DEF OnDisk, Known
  <2>9. Of(Known(t), n) = OnDisk(n) \/ Owed(t, n)
    BY <2>2 DEF InView, Shown
  <2>10. CASE n \notin {from, to}
    <3>1. Of(Known(t)', n) = Of(Known(t), n)
      BY <2>2, <2>8, <2>10 DEF Of
    <3>2. QED BY <2>6, <2>8, <2>9, <3>1 DEF Shown, Of
  <2>11. CASE n = from
    <3>1. Of(Known(t)', n) = {}
      BY <2>2, <2>8, <2>11 DEF Of, Single
    <3>2. CASE disk[n] = 0
      BY <2>8, <3>1, <3>2 DEF Shown, Of, OnDisk
    <3>3. CASE disk[n] # 0
      <4>1. disk[n] # file
        BY <2>1, <2>3, <2>11 DEF InRename
      <4>2. <<from, file>> \in Of(Known(t), n)
        BY <2>2, <2>8, <2>11 DEF Of
      <4>3. <<from, file>> \notin OnDisk(n)
        BY <4>1 DEF OnDisk
      <4>4. Owed(t, n)
        BY <2>9, <4>2, <4>3
      <4>5. QED BY <2>6, <4>4 DEF Shown
    <3>4. QED BY <3>2, <3>3
  <2>12. CASE n = to
    <3>1. Of(Known(t)', n) = {<<n, file>>}
      BY <2>2, <2>8, <2>12 DEF Of
    <3>2. disk[n] = file \/ Held(t, n)
      BY <2>1, <2>2, <2>3, <2>8, <2>12 DEF InRename, Follows
    <3>3. disk[n] = file => OnDisk(n) = {<<n, file>>}
      BY <2>3 DEF OnDisk
    <3>4. QED BY <2>7, <2>8, <3>1, <3>2, <3>3 DEF Shown, Owed, Of
  <2>13. QED BY <2>10, <2>11, <2>12
<1>6. QED BY <1>4, <1>5

LEMMA FinishedRename ==
  ASSUME Basis, InRename, NEW q \in Ops, Finished(q)
  PROVE  InRename'
<1> SUFFICES ASSUME NEW o \in Ops, Renamed(o)'
             PROVE  /\ disk'[op'[o].from] # op'[o].file
                    /\ \A t \in Tabs : Follows(o, t)'
  BY DEF InRename
<1>1. op' = [op EXCEPT ![q].st = "done"] /\ op[q].st = "ended" /\ disk' = disk
      /\ relist' = [t \in Tabs |-> IF Affects(q) THEN IF tab[t].here THEN "BackgroundRefresh" ELSE NoWatch
                                   ELSE IF tab[t].here /\ tab[t].page = "Directory" /\ ~Shows(q, t)
                                        THEN "Refresh" ELSE NoWatch]
  BY Ended DEF Basis
<1>2. op'[q].st = "done" /\ \A p \in Ops : p # q => op'[p] = op[p]
  BY <1>1 DEF Basis, Types, OpTypes, OpState
<1>3. o # q /\ op'[o] = op[o] /\ Renamed(o)
  BY <1>2 DEF Renamed, Succeeded
<1>4. op[q].kind = "Copy"
  BY <1>1, <1>3 DEF Renamed, Succeeded, AtWork, Basis, InOps, InLane
<1>5. Affects(q)
  BY <1>4 DEF Affects, Succeeded
<1>6. ASSUME NEW t \in Tabs PROVE Follows(o, t)'
  <2>1. Looks(t)' => tab[t].here
    BY ShowsEdits DEF Looks, Edits, Idle, Basis
  <2>2. Looks(t)' => relist'[t] # NoWatch
    BY <1>1, <1>5, <2>1, NoWatchAssumption
  <2>3. QED BY <2>2 DEF Follows, Held
<1>7. QED BY <1>1, <1>3, <1>6 DEF InRename

-------------------------------------------------------------------------------
(* The pump.                                                                 *)
LEMMA MergedBears ==
  ASSUME Types, NEW t \in Tabs, NEW n, NEW a \in Some(Notification), NEW b \in Some(Notification),
         Past(t, a), Past(t, b), Bears(t, a, n) \/ Bears(t, b, n)
  PROVE  Bears(t, MergePending(a, b), n) /\ MergePending(a, b) \in Some(Notification)
         /\ Past(t, MergePending(a, b))
<1>1. CASE a = NoWatch \/ b = NoWatch
  BY <1>1, Merged DEF Bears, Covers
<1>2. CASE a # NoWatch /\ b # NoWatch
  <2> DEFINE m == MergePending(a, b)
  <2>1. /\ m # NoWatch /\ m \in Some(Notification)
        /\ m.paths = a.paths \cup b.paths /\ m.uncertain = (a.uncertain \/ b.uncertain)
        /\ m.observed >= a.observed /\ m.observed >= b.observed
        /\ m.observed \in {a.observed, b.observed}
    BY <1>2, Merged
  <2>2. a.observed \in Nat /\ b.observed \in Nat /\ tab[t].latest \in Nat
    BY <1>2, TabIs DEF Some, Notification
  <2>3. a.observed <= tab[t].latest /\ b.observed <= tab[t].latest
    BY <1>2 DEF Past
  <2> HIDE DEF m
  <2>4. (a.observed = tab[t].latest \/ b.observed = tab[t].latest) => m.observed = tab[t].latest
    BY <2>1, <2>2, <2>3
  <2>5. m.observed <= tab[t].latest
    BY <2>1, <2>3
  <2>6. Bears(t, m, n)
    BY <2>1, <2>4 DEF Bears, Covers, Kept
  <2>7. QED BY <2>1, <2>5, <2>6 DEF m, Past, Bears, Covers
<1>3. QED BY <1>1, <1>2

LEMMA QueuedBears ==
  ASSUME Basis, NEW turn \in Turns, NEW t \in Tabs, NEW n,
         \/ Bears(t, pending[t], n) \/ (t \in turn.back /\ Bears(t, probe[t].retry, n))
         \/ Bears(t, Sent(t, turn), n)
  PROVE  Bears(t, Queued(t, turn), n)
<1> DEFINE r == IF t \in turn.back THEN probe[t].retry ELSE NoWatch
           m == MergePending(pending[t], r)
           s == Sent(t, turn)
<1>1. s \in Some(Notification) /\ r \in Some(Notification) /\ pending[t] \in Some(Notification)
  BY QueuedTypes DEF Types, PumpTypes, Basis
<1>2. Past(t, s) /\ Past(t, pending[t])
  BY TabIs DEF Sent, Past, Says, Basis, InNotes
<1>3. Past(t, r)
  <2>1. CASE t \in turn.back
    <3>1. probe[t] # NoWatch
      BY <2>1, TurnTypes, ProbeTypes DEF Basis
    <3>2. QED BY <2>1, <3>1 DEF Basis, InNotes
  <2>2. CASE t \notin turn.back
    BY <2>2 DEF Past
  <2>3. QED BY <2>1, <2>2
<1>4. Bears(t, pending[t], n) \/ Bears(t, r, n) \/ Bears(t, s, n)
  OBVIOUS
<1> HIDE DEF r, s
<1>5. m \in Some(Notification) /\ Past(t, m)
  BY <1>1, <1>2, <1>3, MergedPast
<1>6. Bears(t, m, n) \/ Bears(t, s, n)
  BY <1>1, <1>2, <1>3, <1>4, MergedBears DEF Basis
<1> HIDE DEF m
<1>7. Bears(t, MergePending(m, s), n)
  BY <1>1, <1>2, <1>5, <1>6, MergedBears DEF Basis
<1>8. QED BY <1>7 DEF Queued, m, r, s

LEMMA PumpHeld ==
  ASSUME Basis, NEW turn \in Turns, NEW g, Pumps(turn, g), NEW t \in Tabs, NEW n \in Name,
         Looks(t), Held(t, n)
  PROVE  Held(t, n)' \/ (t \in Ready(turn, g) /\ Bears(t, Queued(t, turn), n))
<1>1. /\ notes' = [paths |-> notes.paths \ turn.paths, uncertain |-> notes.uncertain /\ ~turn.uncertain]
      /\ UNCHANGED <<disk, tab, job, op, relist, blind>>
      /\ pending'[t] = IF t \notin Ready(turn, g) /\ Judged(t, turn) \in {"Wait", "Probe"}
                       THEN Queued(t, turn) ELSE NoWatch
      /\ deferred' = (\/ deferred \/ LeftToOperations(turn)
                      \/ \E u \in Tabs : Judged(u, turn) = "DeferredOperation")
  BY DEF Pumps
<1>2. Active' = Active
  BY <1>1 DEF Active
<1>3. ASSUME Bears(t, Queued(t, turn), n)
      PROVE  Held(t, n)' \/ (t \in Ready(turn, g) /\ Bears(t, Queued(t, turn), n))
  <2>1. Judged(t, turn) = Disposition(t, Queued(t, turn))
    BY <1>3 DEF Judged, Bears, Covers
  <2>2. /\ Judged(t, turn) \in {"Wait", "DeferredOperation", "Probe"}
        /\ Judged(t, turn) = "DeferredOperation" => Active # {}
    BY <1>3, <2>1, DispositionIs DEF Looks, Bears, Basis
  <2>3. CASE Judged(t, turn) = "DeferredOperation"
    BY <1>1, <1>2, <2>2, <2>3 DEF Held
  <2>4. CASE Judged(t, turn) # "DeferredOperation" /\ t \notin Ready(turn, g)
    <3>1. pending'[t] = Queued(t, turn)
      BY <1>1, <2>2, <2>4
    <3>2. Bears(t, pending[t], n)'
      BY <1>1, <1>3, <3>1 DEF Bears, Covers, Kept, Loads
    <3>3. QED BY <3>2 DEF Held
  <2>5. QED BY <1>3, <2>3, <2>4
<1>4. CASE Noted(n)
  <2>1. CASE Noted(n)'
    BY <2>1 DEF Held
  <2>2. CASE ~Noted(n)'
    <3>1. turn.uncertain \/ n \in turn.paths
      BY <1>1, <1>4, <2>2 DEF Noted
    <3>2. Says(turn)
      BY <3>1 DEF Says
    <3>3. CASE LeftToOperations(turn)
      BY <1>1, <1>2, <3>3 DEF LeftToOperations, Held
    <3>4. CASE ~LeftToOperations(turn)
      <4>1. Sent(t, turn) = [observed |-> tab[t].latest, paths |-> turn.paths, uncertain |-> turn.uncertain]
        BY <3>2, <3>4 DEF Sent, Looks
      <4>2. Sent(t, turn) \in Notification
        BY <4>1, TurnTypes, TabIs DEF Notification, Basis
      <4>3. Bears(t, Sent(t, turn), n)
        BY <3>1, <4>1, <4>2, NoWatchAssumption DEF Bears, Covers, Kept
      <4>4. QED BY <1>3, <4>3, QueuedBears
    <3>5. QED BY <3>3, <3>4
  <2>3. QED BY <2>1, <2>2
<1>5. CASE Bears(t, pending[t], n)
  BY <1>3, <1>5, QueuedBears
<1>6. CASE Stage(t) = "delivered" /\ Bears(t, probe[t].retry, n)
  <2>1. CASE t \in turn.back
    BY <1>3, <1>6, <2>1, QueuedBears
  <2>2. CASE t \notin turn.back
    <3>1. Passed(t)
      BY <1>6, <2>2, ProbeAfter DEF Basis
    <3>2. QED BY <1>1, <1>6, <3>1 DEF Passed, Held, Bears, Covers, Kept, Loads
  <2>3. QED BY <2>1, <2>2
<1>7. CASE deferred /\ Active # {}
  BY <1>1, <1>2, <1>7 DEF Held
<1>8. CASE relist[t] # NoWatch
  BY <1>1, <1>8 DEF Held
<1>9. QED BY <1>4, <1>5, <1>6, <1>7, <1>8 DEF Held

LEMMA PumpView ==
  ASSUME Basis, InView, Pump
  PROVE  InView'
<1>1. PICK turn \in Turns, g \in [Tabs -> {"open", "closed"}] : Pumps(turn, g)
  BY PumpIs
<1> SUFFICES ASSUME NEW t \in Tabs, NEW n \in Name, Looks(t)' PROVE Shown(t, n)'
  BY DEF InView
<1>2. UNCHANGED <<disk, tab, job, op, relist, blind>>
      /\ sample' = IF Ready(turn, g) = {} THEN sample
                   ELSE [left |-> UNION {Queued(u, turn).paths : u \in Ready(turn, g)}, seen |-> {}]
  BY <1>1 DEF Pumps
<1>3. Looks(t) /\ Shown(t, n)
  BY <1>2 DEF Looks, InView
<1>4. CASE (Loads(t) /\ n \in job[t].todo) \/ Of(Known(t), n) = OnDisk(n)
  BY <1>2, <1>4 DEF Shown, Loads, Known, Of, OnDisk
<1>5. CASE Held(t, n)
  <2>1. CASE Held(t, n)'
    BY <2>1 DEF Shown, Owed
  <2>2. CASE t \in Ready(turn, g) /\ Bears(t, Queued(t, turn), n)
    <3>1. /\ probe'[t] = NewProbe(t, turn) /\ probe'[t] # NoWatch /\ Stage(t)' = "sampling"
      BY <1>1, <2>2, ProbeAfter DEF Basis
    <3>2. probe'[t].watch = Queued(t, turn)
      BY <3>1 DEF NewProbe
    <3>3. Bears(t, probe[t].watch, n)'
      BY <1>2, <2>2, <3>2 DEF Bears, Covers, Kept, Loads
    <3>4. probe'[t].watch.uncertain \/ n \in sample'.left
      BY <1>2, <2>2, <3>2 DEF Bears, Covers
    <3>5. Finds(t, n)'
      BY <3>1, <3>4 DEF Finds
    <3>6. QED BY <3>3, <3>5 DEF Shown, Owed, Probed
  <2>3. QED BY <1>1, <1>3, <1>5, <2>1, <2>2, PumpHeld
<1>6. CASE Probed(t, n)
  <2>1. Stage(t) \in {"sampling", "sampled", "queued"}
    BY <1>6 DEF Probed, Finds
  <2>2. Passed(t)
    BY <1>1, <2>1, ProbeAfter DEF Basis
  <2>3. Bears(t, probe[t].watch, n)'
    BY <1>2, <1>6, <2>2 DEF Passed, Probed, Bears, Covers, Kept, Loads
  <2>4. CASE Stage(t) = "sampling"
    <3>1. Ready(turn, g) = {}
      BY <2>4, ReadyIs DEF Basis
    <3>2. Finds(t, n)'
      BY <1>2, <1>6, <2>2, <2>4, <3>1 DEF Passed, Probed, Finds, Of
    <3>3. QED BY <2>3, <3>2 DEF Shown, Owed, Probed
  <2>5. CASE Stage(t) \in {"sampled", "queued"}
    <3>1. Finds(t, n)'
      BY <1>2, <1>6, <2>2, <2>5 DEF Passed, Probed, Finds, Stale
    <3>2. QED BY <2>3, <3>1 DEF Shown, Owed, Probed
  <2>6. QED BY <2>1, <2>4, <2>5
<1>7. QED BY <1>3, <1>4, <1>5, <1>6 DEF Shown, Owed

LEMMA PumpRename ==
  ASSUME Basis, InRename, Pump
  PROVE  InRename'
<1>0. PICK turn \in Turns, g \in [Tabs -> {"open", "closed"}] : Pumps(turn, g)
  BY PumpIs
<1> SUFFICES ASSUME NEW o \in Ops, Renamed(o)'
             PROVE  /\ disk'[op'[o].from] # op'[o].file
                    /\ \A t \in Tabs : Follows(o, t)'
  BY DEF InRename
<1>1. UNCHANGED <<op, disk, tab, job, blind>>
  BY <1>0 DEF Pumps
<1>2. Renamed(o) /\ op[o].to \in Name
  BY <1>1 DEF Renamed, Succeeded, Basis, Types, OpTypes, InNames
<1>3. PICK m \in Name : m = op[o].to /\ m = op'[o].to
  BY <1>1, <1>2
<1>4. Active # {}
  BY <1>2 DEF Active, Renamed
<1>5. ASSUME NEW t \in Tabs PROVE Follows(o, t)'
  <2>1. t \notin Ready(turn, g)
    <3>1. \A w : Disposition(t, w) # "Probe"
      BY <1>4 DEF Disposition
    <3>2. QED BY <3>1, ReadyIs DEF Basis
  <2>2. Looks(t)' = Looks(t) /\ Known(t)' = Known(t)
    BY <1>1 DEF Looks, Known, Loads
  <2>3. Looks(t) /\ Held(t, m) => Held(t, m)'
    BY <1>0, <2>1, PumpHeld
  <2>4. Follows(o, t)
    BY <1>2 DEF InRename
  <2>5. Held(t, m)' => Held(t, op[o].to)'
    BY <1>3
  <2>6. QED BY <1>1, <1>3, <2>2, <2>3, <2>4, <2>5 DEF Follows
<1>6. QED BY <1>1, <1>2, <1>5 DEF InRename

-------------------------------------------------------------------------------
(* The theorems.                                                             *)

LEMMA InitHolds == Init => IInv
<1> SUFFICES ASSUME Init PROVE IInv
  OBVIOUS
<1>1. Types
  BY InitTypes
<1>2. /\ \A t \in Tabs : /\ tab[t].here = FALSE /\ tab[t].load = "Complete" /\ job[t] = NoWatch
                         /\ pending[t] = NoWatch /\ probe[t] = NoWatch /\ relist[t] = NoWatch
      /\ \A o \in Ops : op[o].st = "none" /\ op[o].kind = "Copy" /\ op[o].file = 0
      /\ \A n \in Name : disk[n] \in {0, 1}
      /\ changes = 1 /\ sample = NoWatch
  BY DEF Init
<1>3. InOps
  BY <1>2 DEF InOps, InLane, InVersions, AtWork, Writes
<1>4. InListing
  BY <1>2 DEF InListing, Sound, Loads
<1>5. InProbe
  <2>1. \A t \in Tabs : Stage(t) = "none"
    BY <1>2 DEF Stage
  <2>2. Sampling = {}
    BY <2>1 DEF Sampling
  <2>3. QED BY <1>2, <2>1, <2>2 DEF InProbe, Paired, InSample, Compares
<1>6. InNotes
  BY <1>2 DEF InNotes, Past
<1>7. InRename
  BY <1>2 DEF InRename, Renamed
<1>8. InView
  BY <1>2 DEF InView, Looks
<1>9. QED BY <1>1, <1>3, <1>4, <1>5, <1>6, <1>7, <1>8 DEF IInv

LEMMA StepHolds ==
  ASSUME IInv, [Next]_vars
  PROVE  IInv'
<1>1. Basis /\ InRename /\ InView
  BY DEF IInv, Basis
<1>2. Basis'
  BY <1>1, BasisGoes
<1>3. InRename' /\ InView'
  <2>1. CASE DiskStep
    BY <1>1, <2>1, DiskView, DiskRename
  <2>2. CASE PlainStep
    BY <1>1, <2>2, PlainView, PlainRename
  <2>3. CASE SampleStep
    BY <1>1, <2>3, SampleView, SampleRename
  <2>4. CASE \E t \in Tabs : ApplyProbe(t)
    BY <1>1, <2>4, ApplyView, ApplyRename
  <2>5. CASE \E o \in Ops : Finished(o)
    BY <1>1, <2>5, FinishedView, FinishedRename
  <2>6. CASE Pump
    BY <1>1, <2>6, PumpView, PumpRename
  <2>7. QED BY <2>1, <2>2, <2>3, <2>4, <2>5, <2>6 DEF Next, DiskStep, PlainStep, SampleStep
<1>4. QED BY <1>2, <1>3 DEF IInv, Basis

\* Whatever the order of changes, notifications, listings, comparisons and
\* operations: a file that a tab on the screen shows wrongly is still to be read by
\* the listing under way, or some notification, comparison, deferred batch or
\* coming listing is bound to make the tab read it.
THEOREM Invariance == Spec => []IInv
BY InitHolds, StepHolds, PTL DEF Spec

\* Nothing on its way is nothing owed.
LEMMA QuietIsOwed ==
  ASSUME IInv, NEW t \in Tabs, Quiet(t), ~blind[t]
  PROVE  tab[t].rows = FilesOn(disk)
<1>1. /\ Looks(t) /\ ~Loads(t) /\ Stage(t) = "none" /\ relist[t] = NoWatch /\ Active = {}
      /\ pending[t] = NoWatch /\ notes.uncertain = FALSE /\ notes.paths = {}
  BY DEF Quiet, Looks, Loads, Stage, Nothing
<1>2. \A n \in Name : Of(tab[t].rows, n) = OnDisk(n)
  <2> TAKE n \in Name
  <2>1. ~Held(t, n) /\ ~Probed(t, n)
    BY <1>1 DEF Held, Noted, Bears, Covers, Probed, Finds
  <2>2. Shown(t, n)
    BY <1>1 DEF IInv, InView
  <2>3. QED BY <1>1, <2>1, <2>2 DEF Shown, Owed, Known
<1>3. \A f \in tab[t].rows : f[1] \in Name
  BY TabIs DEF IInv, Rows, File
<1>4. ASSUME NEW f \in tab[t].rows PROVE f \in FilesOn(disk)
  <2>1. f \in OnDisk(f[1]) /\ f[1] \in Name
    BY <1>2, <1>3 DEF Of
  <2>2. QED BY <2>1 DEF OnDisk, FilesOn
<1>5. ASSUME NEW f \in FilesOn(disk) PROVE f \in tab[t].rows
  <2>1. PICK n \in Name : f = <<n, disk[n]>> /\ disk[n] # 0
    BY DEF FilesOn
  <2>2. f \in OnDisk(n)
    BY <2>1 DEF OnDisk
  <2>3. QED BY <1>2, <2>2 DEF Of
<1>6. QED BY <1>4, <1>5

\* The pump loses no change: when nothing of a tab is on its way any more, its rows
\* are the files on the disk (QuietIsFresh), for any tabs, names, operations,
\* bounds and hazards.
THEOREM RowsAreFresh == Spec => []QuietIsFresh
<1>1. IInv => QuietIsFresh
  BY QuietIsOwed DEF QuietIsFresh
<1>2. QED BY <1>1, Invariance, PTL

LEMMA TypeHolds == IInv => TypeOK
<1> SUFFICES ASSUME IInv PROVE TypeOK
  OBVIOUS
<1>1. Types /\ InNotes /\ InListing /\ Paired
  BY DEF IInv, InProbe
<1>2. /\ disk \in [Name -> 0..MaxChanges] /\ changes \in 1..(MaxChanges + 1)
      /\ watch \in {"none", "running", "dead", "failed"}
      /\ notes \in [paths : SUBSET Name, uncertain : BOOLEAN]
      /\ deferred \in BOOLEAN /\ blind \in [Tabs -> BOOLEAN]
  BY <1>1, Constants DEF Types, DiskTypes, OpTypes, Versions, Watches
<1>3. ASSUME NEW t \in Tabs, NEW w \in Some(Notification), Past(t, w) PROVE Worded(t, w)
  BY <1>3 DEF Past, Worded, Some
<1>4. ASSUME NEW t \in Tabs
      PROVE  /\ tab[t].load \in {"Loading", "Complete"} /\ tab[t].page \in {"Directory", "Search"}
             /\ tab[t].kind \in {"Normal", "Refresh", "BackgroundRefresh"}
             /\ tab[t].rows \subseteq Name \X (1..MaxChanges)
             /\ job[t] # NoWatch => job[t].todo \subseteq Name /\ tab[t].load = "Loading"
             /\ relist[t] \in {NoWatch, "Refresh", "BackgroundRefresh"}
  <2>1. tab[t] \in TabState /\ job[t] \in Some(Listing) /\ relist[t] \in Relists
    BY <1>1 DEF Types, TabTypes, OpTypes
  <2>2. job[t] # NoWatch => job[t].todo \subseteq Name
    BY <2>1 DEF Some, Listing
  <2>3. job[t] # NoWatch => tab[t].load = "Loading"
    BY <1>1 DEF InListing, Sound, Loads
  <2>4. QED BY <2>1, <2>2, <2>3 DEF TabState, LoadStates, Pages, Kinds, Rows, File, Relists
<1>5. ASSUME NEW t \in Tabs
      PROVE  /\ Worded(t, pending[t])
             /\ probe[t] # NoWatch => /\ Stage(t) \in {"sampling", "sampled", "queued", "delivered"}
                                      /\ Worded(t, probe[t].watch) /\ Worded(t, probe[t].retry)
  <2>1. Worded(t, pending[t])
    BY <1>1, <1>3 DEF InNotes, Types, PumpTypes
  <2>2. SUFFICES ASSUME probe[t] # NoWatch
                 PROVE  /\ Stage(t) \in {"sampling", "sampled", "queued", "delivered"}
                        /\ Worded(t, probe[t].watch) /\ Worded(t, probe[t].retry)
    BY <2>1
  <2>3. probe[t] \in Probe
    BY <1>1, <2>2 DEF Types, PumpTypes, Some
  <2>4. /\ probe[t].watch \in Some(Notification) /\ probe[t].retry \in Some(Notification)
        /\ probe[t].stage \in {"sampling", "sampled", "queued", "delivered"}
    BY <2>3 DEF Probe, Some
  <2>5. Past(t, probe[t].watch) /\ Past(t, probe[t].retry)
    BY <1>1, <2>2 DEF InNotes
  <2>6. QED BY <1>3, <2>2, <2>4, <2>5 DEF Stage
<1>6. QED BY <1>1, <1>2, <1>4, <1>5 DEF TypeOK, Paired

\* The state is well typed, what waits says something of a request that was made,
\* and there is a sample as long as a probe takes one.
THEOREM TypesHold == Spec => []TypeOK
BY TypeHolds, Invariance, PTL
==============================================================================
