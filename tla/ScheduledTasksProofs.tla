------------------------- MODULE ScheduledTasksProofs -------------------------
(***************************************************************************)
(* The scheduled tasks, for any suggestions, pull requests, clicks,        *)
(* failures and crashes: no change is lost, and an open drawer stays.      *)
(*                                                                         *)
(* ChangesAreKept says nothing while a command is on its way.  What holds  *)
(* throughout is that, unless a save was not built from the latest list,   *)
(* at most one save is on its way and it carries what the user wants       *)
(* (Kept); that a page that shows no list has a read of its own on its way *)
(* (Pending); and that commands of earlier visits come first (InOrder), so *)
(* a page that shows a list has no save of an earlier visit ahead.         *)
(***************************************************************************)
EXTENDS ScheduledTasks, TLAPS, SequenceTheorems

Pages == [name : {"none", "scheduled", "pullrequests"},
          data : Lists \cup {None, PullRequests}, error : BOOLEAN,
          local : BOOLEAN, busy : BOOLEAN, rev : Nat]
Drawers == [at : {"shut", "open", "closing"}, timer : BOOLEAN,
            busy : BOOLEAN, mount : Nat]
Calls == [cmd : {"list_scheduled_tasks", "list_pull_requests", "save"},
          list : Lists \cup {None}, by : {"page", "card", "drawer"},
          visit : Nat, rev : Nat, mount : Nat]

WellFormed(c) == c.cmd = "save" =>
    c.list \in Lists /\ DOMAIN c.list # {} /\ c.by # "page"

Types ==
    /\ backend \in BOOLEAN /\ blind \in BOOLEAN
    /\ memory \in Lists /\ file \in Lists /\ stored \in Lists \cup {None}
    /\ page \in Pages /\ drawer \in Drawers /\ calls \in Seq(Calls)
    /\ uses \in 0 .. MaxUses /\ visits \in Nat /\ failures \in Nat
    /\ page.name = "scheduled" => page.data \in Lists \cup {None}
    /\ \A i \in DOMAIN calls : WellFormed(calls[i])

(* Each visit is of one page, which has the drawer.                        *)
PageOf(cmd) == IF cmd = "list_pull_requests" THEN "pullrequests"
               ELSE "scheduled"
InOrder ==
    /\ \A i \in DOMAIN calls :
          /\ calls[i].visit <= visits
          /\ Here(calls[i]) => page.name = PageOf(calls[i].cmd)
          /\ \A j \in DOMAIN calls : i < j => calls[i].visit <= calls[j].visit

(* The drawer belongs to the page of the tasks, and its timer shuts it only*)
(* when it is closing.                                                     *)
DrawerFits ==
    /\ drawer.at # "shut" => page.name = "scheduled"
    /\ drawer.timer => drawer.at # "open"
    /\ page.local => ~backend

(* A page without a list is about to get one.                              *)
Pending ==
    page.name = "scheduled" /\ page.data = None =>
        \E i \in DOMAIN calls :
            calls[i].cmd = "list_scheduled_tasks" /\ Active(calls[i])

IsSave(i) == calls[i].cmd = "save"

KeptBehind ==
    /\ Fill(file) = memory
    /\ \A i, j \in DOMAIN calls : IsSave(i) /\ IsSave(j) => i = j
    /\ (\A i \in DOMAIN calls : ~IsSave(i)) => Cards(memory) = wanted
    /\ \A i \in DOMAIN calls : IsSave(i) =>
          /\ Cards(calls[i].list) = wanted
          /\ Here(calls[i]) /\ calls[i].by = "card" => page.busy
    /\ page.name = "scheduled" /\ page.data # None =>
          /\ page.data = memory
          /\ \A i \in DOMAIN calls : IsSave(i) => Here(calls[i])
KeptHere ==
    /\ \A i \in DOMAIN calls : ~IsSave(i)
    /\ Cards(LocalList) = wanted
    /\ page.name = "scheduled" /\ page.data # None =>
          page.local /\ page.data = LocalList
Kept == ~blind => IF backend THEN KeptBehind ELSE KeptHere

Inv == Types /\ InOrder /\ DrawerFits /\ Pending /\ Kept
-----------------------------------------------------------------------------
(* Lists.                                                                  *)
LEMMA WithInLists ==
    ASSUME NEW l \in Lists, NEW id \in Tasks, NEW t \in Task
    PROVE  With(l, id, t) \in Lists /\ DOMAIN With(l, id, t) # {}
<1>1. PICK S \in SUBSET Tasks : l \in [S -> Task]
  BY DEF Lists
<1>2. With(l, id, t) \in [{id} \cup S -> Task]
  BY <1>1 DEF With
<1>3. {id} \cup S \in SUBSET Tasks
  OBVIOUS
<1> QED
  BY <1>2, <1>3 DEF Lists

LEMMA ToggledInLists ==
    ASSUME NEW l \in Lists, NEW id \in DOMAIN l
    PROVE  /\ [l EXCEPT ![id].on = ~@] \in Lists
           /\ DOMAIN [l EXCEPT ![id].on = ~@] = DOMAIN l
           /\ \A w \in DOMAIN l : w # id => [l EXCEPT ![id].on = ~@][w] = l[w]
<1>1. PICK S \in SUBSET Tasks : l \in [S -> Task]
  BY DEF Lists
<1>2. [l EXCEPT ![id].on = ~@] \in [S -> Task]
  <2>1. l[id] \in Task
    BY <1>1
  <2>2. [l[id] EXCEPT !.on = ~@] \in Task
    BY <2>1 DEF Task
  <2> QED
    BY <1>1, <2>2
<1> QED
  BY <1>1, <1>2 DEF Lists

LEMMA SeedInLists == Seed \in Lists /\ <<>> \in Lists
<1>1. Seed \in [Suggestions -> Task]
  BY DEF Seed, Task
<1>2. <<>> \in [{} -> Task]
  OBVIOUS
<1>3. Suggestions \in SUBSET Tasks /\ {} \in SUBSET Tasks
  BY DEF Tasks
<1> QED
  BY <1>1, <1>2, <1>3 DEF Lists

(* What the cards say of a list with one more task.                        *)
LEMMA CardsWith ==
    ASSUME NEW l, NEW id, NEW repeat \in Repeats
    PROVE  Cards(With(l, id, [on |-> TRUE, weekday |-> BuildSchedCron(repeat)]))
             = With(Cards(l), id, [on |-> TRUE, repeat |-> repeat])
<1>1. FormatSchedule(BuildSchedCron(repeat)) = repeat
  BY DEF FormatSchedule, BuildSchedCron, Repeats
<1> QED
  BY <1>1 DEF Cards, With

-----------------------------------------------------------------------------
(* Queues.  r is the queue q without its first d calls, with those of C,   *)
(* one at most, behind.                                                    *)
Moves(q, r, d, C) ==
    /\ r \in Seq(Calls) /\ d \in Nat
    /\ \A i \in DOMAIN r :
          \/ i + d \in DOMAIN q /\ r[i] = q[i + d]
          \/ r[i] \in C /\ \A j \in DOMAIN r : j <= i
    /\ \A i \in DOMAIN q : i > d => i - d \in DOMAIN r /\ r[i - d] = q[i]
    /\ \A c \in C : \E i \in DOMAIN r : r[i] = c

LEMMA Indices ==
    ASSUME NEW q \in Seq(Calls)
    PROVE  \A i \in DOMAIN q : i \in Nat /\ i > 0 /\ q[i] \in Calls
  OBVIOUS

LEMMA Staying ==
    ASSUME NEW q \in Seq(Calls)
    PROVE  Moves(q, q, 0, {})
  BY Indices DEF Moves

LEMMA Appending ==
    ASSUME NEW q \in Seq(Calls), NEW c \in Calls
    PROVE  Moves(q, Append(q, c), 0, {c})
<1> DEFINE r == Append(q, c)
<1>1. /\ r \in Seq(Calls) /\ Len(r) = Len(q) + 1
      /\ DOMAIN r = 1 .. Len(q) + 1 /\ DOMAIN q = 1 .. Len(q) /\ Len(q) \in Nat
      /\ r[Len(q) + 1] = c
      /\ \A i \in 1 .. Len(q) : r[i] = q[i]
  BY AppendProperties, LenProperties
<1> HIDE DEF r
<1>2. \A i \in DOMAIN r : i \in DOMAIN q \/ i = Len(q) + 1
  BY <1>1
<1>3. Len(q) + 1 \in DOMAIN r
  BY <1>1
<1>4. \A i \in DOMAIN q : i \in DOMAIN r /\ i - 0 = i /\ i + 0 = i
  BY <1>1
<1>5. Moves(q, r, 0, {c})
  BY <1>1, <1>2, <1>3, <1>4 DEF Moves
<1> QED
  BY <1>5 DEF r

LEMMA Serving ==
    ASSUME NEW q \in Seq(Calls), q # <<>>
    PROVE  /\ Moves(q, Tail(q), 1, {})
           /\ Head(q) = q[1] /\ 1 \in DOMAIN q /\ Head(q) \in Calls
<1>1. /\ Tail(q) \in Seq(Calls) /\ Len(q) \in Nat /\ Len(q) > 0
      /\ DOMAIN q = 1 .. Len(q) /\ DOMAIN Tail(q) = 1 .. Len(q) - 1
      /\ \A i \in 1 .. Len(q) - 1 : Tail(q)[i] = q[i + 1]
      /\ Head(q) = q[1]
  BY HeadTailProperties, LenProperties, EmptySeq
<1>2. Moves(q, Tail(q), 1, {})
  BY <1>1 DEF Moves
<1> QED
  BY <1>1, <1>2

LEMMA ServingOn ==
    ASSUME NEW q \in Seq(Calls), q # <<>>, NEW c \in Calls
    PROVE  Moves(q, Append(Tail(q), c), 1, {c})
<1>1. PICK t : t = Tail(q) /\ Moves(q, t, 1, {}) /\ t \in Seq(Calls)
  BY Serving DEF Moves
<1>2. PICK r : r = Append(t, c) /\ Moves(t, r, 0, {c})
  BY <1>1, Appending
<1>3. \A i \in DOMAIN r : \/ i + 1 \in DOMAIN q /\ r[i] = q[i + 1]
                          \/ r[i] \in {c} /\ \A j \in DOMAIN r : j <= i
  <2> TAKE i \in DOMAIN r
  <2>1. CASE i \in DOMAIN t /\ r[i] = t[i]
    BY <1>1, <2>1 DEF Moves
  <2>2. CASE ~(i \in DOMAIN t /\ r[i] = t[i])
    <3>1. i \in Nat
      BY <1>2, Indices DEF Moves
    <3>2. ~(i + 0 \in DOMAIN t /\ r[i] = t[i + 0])
      BY <2>2, <3>1
    <3> QED
      BY <1>2, <3>2 DEF Moves
  <2> QED
    BY <2>1, <2>2
<1>4. ASSUME NEW i \in DOMAIN q, i > 1
      PROVE  i - 1 \in DOMAIN r /\ r[i - 1] = q[i]
  <2>1. i - 1 \in DOMAIN t /\ t[i - 1] = q[i]
    BY <1>1, <1>4 DEF Moves
  <2>2. i - 1 > 0 /\ (i - 1) - 0 = i - 1 /\ i - 1 \in Nat
    BY <1>4, Indices
  <2> QED
    BY <1>2, <2>1, <2>2 DEF Moves
<1> QED
  BY <1>1, <1>2, <1>3, <1>4 DEF Moves
-----------------------------------------------------------------------------
(* What a queue that moves leaves in place.                                *)
LEMMA CallsFit ==
    ASSUME Types, NEW d, NEW C, Moves(calls, calls', d, C),
           \A c \in C : WellFormed(c)
    PROVE  /\ calls' \in Seq(Calls)
           /\ \A i \in DOMAIN calls' : WellFormed(calls'[i])
  BY DEF Moves, Types

LEMMA OrderMoves ==
    ASSUME Types, InOrder, NEW d \in {0, 1}, NEW C, Moves(calls, calls', d, C),
           visits' \in Nat, visits <= visits',
           visits' = visits => page'.name = page.name,
           \A c \in C : c.visit = visits' /\ page'.name = PageOf(c.cmd)
    PROVE  InOrder'
<1>1. \A i \in DOMAIN calls : i \in Nat /\ calls[i].visit \in Nat
  BY Indices DEF Types, Calls
<1>2. \A i \in DOMAIN calls' : i \in Nat /\ calls'[i].visit \in Nat
  BY Indices DEF Moves, Calls
<1>3. visits \in Nat
  BY DEF Types
<1>4. ASSUME NEW i \in DOMAIN calls'
      PROVE  /\ calls'[i].visit <= visits'
             /\ Here(calls[i])' => page'.name = PageOf(calls'[i].cmd)
  BY <1>1, <1>2, <1>3 DEF Moves, InOrder, Here
<1>5. ASSUME NEW i \in DOMAIN calls', NEW j \in DOMAIN calls', i < j
      PROVE  calls'[i].visit <= calls'[j].visit
  <2>1. i + d \in DOMAIN calls /\ calls'[i] = calls[i + d]
    BY <1>2, <1>5 DEF Moves
  <2>2. CASE j + d \in DOMAIN calls /\ calls'[j] = calls[j + d]
    <3>1. i + d < j + d
      BY <1>2, <1>5
    <3> QED
      BY <2>1, <2>2, <3>1 DEF InOrder
  <2>3. CASE calls'[j] \in C
    BY <1>4, <2>3
  <2> QED
    BY <2>2, <2>3 DEF Moves
<1> QED
  BY <1>4, <1>5 DEF InOrder

(* A page without a list still has its read on its way, or gets one.       *)
LEMMA PendingMoves ==
    ASSUME Types, Pending, NEW d \in {0, 1}, NEW C, Moves(calls, calls', d, C),
           visits' = visits, page'.name = page.name, page'.rev = page.rev,
           page'.data = None => page.data = None,
           d = 1 => ~(calls[1].cmd = "list_scheduled_tasks" /\ Active(calls[1]))
    PROVE  Pending'
<1> SUFFICES ASSUME page'.name = "scheduled", page'.data = None
             PROVE  \E i \in DOMAIN calls' :
                        /\ calls'[i].cmd = "list_scheduled_tasks"
                        /\ Active(calls[i])'
  BY DEF Pending
<1>1. PICK i \in DOMAIN calls :
          calls[i].cmd = "list_scheduled_tasks" /\ Active(calls[i])
  BY DEF Pending
<1>2. i \in Nat /\ i > 0
  BY Indices DEF Types
<1>3. i > d
  BY <1>1, <1>2
<1>4. i - d \in DOMAIN calls' /\ calls'[i - d] = calls[i]
  BY <1>3 DEF Moves
<1> QED
  BY <1>1, <1>4 DEF Active, Here

LEMMA PendingRead ==
    ASSUME NEW d, NEW C, Moves(calls, calls', d, C),
           page'.name = "scheduled" => \E c \in C :
               /\ c.cmd = "list_scheduled_tasks"
               /\ c.visit = visits' /\ c.rev = page'.rev
    PROVE  Pending'
  BY DEF Pending, Moves, Active, Here

(* A step that saves nothing and leaves the page's list or takes it away.  *)
LEMMA KeptMoves ==
    ASSUME Types, Kept, NEW d \in {0, 1}, NEW C, Moves(calls, calls', d, C),
           \A c \in C : c.cmd # "save",
           d = 1 => calls[1].cmd # "save",
           UNCHANGED <<backend, memory, file, stored, wanted, blind>>,
           visits' = visits => page'.busy = page.busy,
           \A i \in DOMAIN calls : calls[i].visit <= visits,
           visits' \in Nat, visits <= visits',
           (page'.name = "scheduled" /\ page'.data # None) =>
               /\ page.name = "scheduled" /\ page'.data = page.data
               /\ page'.local = page.local /\ visits' = visits
    PROVE  Kept'
<1>1. \A i \in DOMAIN calls : i \in Nat /\ i > 0
  BY Indices DEF Types
<1>2. ASSUME NEW i \in DOMAIN calls', IsSave(i)'
      PROVE  i + d \in DOMAIN calls /\ calls'[i] = calls[i + d] /\ IsSave(i + d)
  BY <1>2 DEF Moves, IsSave
<1>3. \A i \in DOMAIN calls' : i \in Nat
  BY Indices DEF Moves
<1>4. ASSUME NEW i \in DOMAIN calls, IsSave(i)
      PROVE  i - d \in DOMAIN calls' /\ IsSave(i - d)'
  <2>1. i > d
    BY <1>1, <1>4 DEF IsSave
  <2> QED
    BY <1>4, <2>1 DEF Moves, IsSave
<1>5. visits \in Nat /\ \A i \in DOMAIN calls : calls[i].visit \in Nat
  BY Indices DEF Types, Calls
<1>6. ASSUME KeptBehind PROVE KeptBehind'
  <2>1. ASSUME NEW i \in DOMAIN calls', NEW j \in DOMAIN calls',
               IsSave(i)', IsSave(j)'
        PROVE  i = j
    <3>1. i + d = j + d
      BY <1>2, <1>6, <2>1 DEF KeptBehind
    <3> QED
      BY <1>3, <3>1
  <2>2. (\A i \in DOMAIN calls' : ~IsSave(i)') => Cards(memory') = wanted'
    BY <1>4, <1>6 DEF KeptBehind
  <2>3. ASSUME NEW i \in DOMAIN calls', IsSave(i)'
        PROVE  /\ Cards(calls'[i].list) = wanted'
               /\ Here(calls[i])' /\ calls'[i].by = "card" => page'.busy
    BY <1>2, <1>5, <1>6, <2>3 DEF KeptBehind, Here
  <2>4. ASSUME page'.name = "scheduled", page'.data # None
        PROVE  /\ page'.data = memory'
               /\ \A i \in DOMAIN calls' : IsSave(i)' => Here(calls[i])'
    BY <1>2, <1>6, <2>4 DEF KeptBehind, Here
  <2>5. Fill(file)' = memory'
    BY <1>6 DEF KeptBehind, Fill
  <2> QED
    BY <2>1, <2>2, <2>3, <2>4, <2>5 DEF KeptBehind
<1>7. ASSUME KeptHere PROVE KeptHere'
  BY <1>2, <1>7 DEF KeptHere, LocalList
<1> QED
  BY <1>6, <1>7 DEF Kept
-----------------------------------------------------------------------------
(* The clicks.  What they have in common, and what is typed in it.         *)
Click == /\ uses \in 0 .. MaxUses - 1 /\ uses' = uses + 1
         /\ UNCHANGED <<backend, memory, file, failures>>

LEMMA ListCallTyped ==
    ASSUME NEW name, NEW visit \in Nat, NEW rev \in Nat
    PROVE  /\ ListCall(name, visit, rev) \in Calls
           /\ WellFormed(ListCall(name, visit, rev))
           /\ ListCall(name, visit, rev).cmd # "save"
           /\ ListCall(name, visit, rev).visit = visit
           /\ ListCall(name, visit, rev).rev = rev
           /\ name = "scheduled" =>
                  ListCall(name, visit, rev).cmd = "list_scheduled_tasks"
           /\ name \in {"scheduled", "pullrequests"} =>
                  PageOf(ListCall(name, visit, rev).cmd) = name
  BY DEF ListCall, Calls, WellFormed, PageOf

LEMMA VisitStep ==
    ASSUME Inv, Click, NEW name \in {"scheduled", "pullrequests"}, Visit(name)
    PROVE  Inv'
<1>1. PICK c \in Calls : /\ c = ListCall(name, visits + 1, 0)
                         /\ calls' = Append(calls, c)
  BY ListCallTyped DEF Inv, Types, Visit
<1>2. /\ c.cmd # "save" /\ c.visit = visits' /\ c.rev = 0 /\ WellFormed(c)
      /\ name = "scheduled" => c.cmd = "list_scheduled_tasks"
      /\ PageOf(c.cmd) = name
  BY <1>1, ListCallTyped DEF Inv, Types, Visit
<1>3. Moves(calls, calls', 0, {c})
  BY <1>1, Appending DEF Inv, Types
<1>4. /\ visits \in Nat /\ visits' = visits + 1
      /\ page' = Loading(name, 0) /\ drawer' = Shut
      /\ page'.name = name /\ page'.data = None /\ page'.rev = 0
      /\ ~page'.local
  BY DEF Inv, Types, Visit, Loading
<1>5. Types'
  <2>1. page' \in Pages /\ drawer' \in Drawers
    BY <1>4 DEF Loading, Shut, Pages, Drawers
  <2> QED
    BY <1>2, <1>3, <1>4, <2>1, CallsFit, TasksAssumption
       DEF Inv, Types, Click, Visit
<1>6. InOrder'
  BY <1>2, <1>3, <1>4, OrderMoves DEF Inv
<1>7. DrawerFits'
  BY <1>4 DEF DrawerFits, Shut
<1>8. Pending'
  BY <1>2, <1>3, <1>4, PendingRead
<1>9. Kept'
  BY <1>2, <1>3, <1>4, KeptMoves DEF Inv, InOrder, Click, Visit
<1> QED
  BY <1>5, <1>6, <1>7, <1>8, <1>9 DEF Inv

(* A page that refreshes has no list until its read is answered.           *)
LEMMA RefreshedPage ==
    ASSUME NEW p \in Pages
    PROVE  /\ Refreshed(p) \in Pages
           /\ Refreshed(p).name = p.name /\ Refreshed(p).data = None
           /\ Refreshed(p).rev = p.rev + 1
           /\ Refreshed(p).local = p.local /\ Refreshed(p).busy = p.busy
<1>1. PICK l : l = Loading(p.name, p.rev + 1)
  OBVIOUS
<1>2. l \in Pages /\ l.name = p.name /\ l.data = None /\ l.rev = p.rev + 1
  BY <1>1 DEF Loading, Pages
<1>3. Refreshed(p) = [l EXCEPT !.local = p.local, !.busy = p.busy]
  BY <1>1 DEF Refreshed
<1> QED
  BY <1>2, <1>3 DEF Pages

LEMMA RefreshStep ==
    ASSUME Inv, page.name \in {"scheduled", "pullrequests"}, NEW d \in {0, 1},
           Moves(calls, calls', d, {RefreshCall}),
           page'.name = page.name, page'.data = None, page'.rev = page.rev + 1,
           visits' = visits
    PROVE  /\ calls' \in Seq(Calls) /\ \A i \in DOMAIN calls' : WellFormed(calls'[i])
           /\ InOrder' /\ Pending'
           /\ RefreshCall.cmd # "save" /\ RefreshCall \in Calls
<1>1. page.rev + 1 \in Nat /\ visits \in Nat
  BY DEF Inv, Types, Pages
<1>2. PICK c : c = RefreshCall
  OBVIOUS
<1>3. /\ c \in Calls /\ c.cmd # "save" /\ c.visit = visits'
      /\ c.rev = page'.rev /\ WellFormed(c)
      /\ page.name = "scheduled" => c.cmd = "list_scheduled_tasks"
      /\ PageOf(c.cmd) = page.name
  BY <1>1, <1>2, ListCallTyped DEF RefreshCall
<1>4. Moves(calls, calls', d, {c})
  BY <1>2
<1>5. calls' \in Seq(Calls) /\ \A i \in DOMAIN calls' : WellFormed(calls'[i])
  BY <1>3, <1>4, CallsFit DEF Inv
<1>6. InOrder'
  BY <1>1, <1>3, <1>4, OrderMoves DEF Inv
<1>7. Pending'
  BY <1>3, <1>4, PendingRead
<1> QED
  BY <1>2, <1>3, <1>5, <1>6, <1>7

LEMMA RefreshCallTyped ==
    ASSUME Types
    PROVE  RefreshCall \in Calls /\ RefreshCall.cmd # "save"
  BY ListCallTyped DEF RefreshCall, Types, Pages

(* Recheck and the drawer's Close only refresh.                            *)
LEMMA OnlyRefreshes ==
    ASSUME Inv, Click, page.name \in {"scheduled", "pullrequests"},
           page' = Refreshed(page), calls' = Append(calls, RefreshCall),
           UNCHANGED <<stored, visits, wanted, blind>>,
           drawer' \in Drawers,
           drawer'.at # "shut" => page.name = "scheduled",
           drawer'.timer => drawer'.at # "open"
    PROVE  Inv'
<1>1. Moves(calls, calls', 0, {RefreshCall})
  BY RefreshCallTyped, Appending DEF Inv, Types
<1>2. /\ page' \in Pages /\ page'.name = page.name /\ page'.data = None
      /\ page'.rev = page.rev + 1 /\ page'.local = page.local
      /\ page'.busy = page.busy
  BY RefreshedPage DEF Inv, Types
<1>3. /\ calls' \in Seq(Calls) /\ \A i \in DOMAIN calls' : WellFormed(calls'[i])
      /\ InOrder' /\ Pending' /\ RefreshCall.cmd # "save"
  BY <1>1, <1>2, RefreshStep
<1>4. Types'
  BY <1>2, <1>3, TasksAssumption DEF Inv, Types, Click
<1>5. DrawerFits'
  BY <1>2 DEF Inv, DrawerFits, Click
<1>6. Kept'
  <2>1. visits \in Nat /\ visits <= visits'
    BY DEF Inv, Types
  <2>2. \A c \in {RefreshCall} : c.cmd # "save"
    BY <1>3
  <2> QED
    BY <1>1, <1>2, <2>1, <2>2, KeptMoves DEF Inv, InOrder, Click
<1> QED
  BY <1>3, <1>4, <1>5, <1>6 DEF Inv

LEMMA ClosingFits ==
    ASSUME Types
    PROVE  /\ Closing \in Drawers /\ Closing.at = "closing"
           /\ [Closing EXCEPT !.busy = TRUE] \in Drawers
           /\ [Closing EXCEPT !.busy = TRUE].at = "closing"
  BY DEF Types, Drawers, Closing

LEMMA RecheckStep == ASSUME Inv, Click, Recheck PROVE Inv'
  BY OnlyRefreshes DEF Recheck, Inv, Types, DrawerFits

LEMMA CloseDrawerStep == ASSUME Inv, Click, CloseDrawer PROVE Inv'
<1>1. page.name = "scheduled"
  BY DEF CloseDrawer, Inv, DrawerFits
<1> QED
  BY <1>1, ClosingFits, OnlyRefreshes DEF CloseDrawer, Inv

(* A step of the drawer alone.                                             *)
LEMMA DrawerStep ==
    ASSUME Inv, uses' \in 0 .. MaxUses, failures' = failures,
           UNCHANGED <<backend, memory, file, stored, page, calls, visits,
                       wanted, blind>>,
           drawer' \in Drawers,
           drawer'.at # "shut" => page.name = "scheduled",
           drawer'.timer => drawer'.at # "open"
    PROVE  Inv'
<1>1. Types'
  BY DEF Inv, Types
<1>2. InOrder'
  BY DEF Inv, InOrder, Here
<1>3. DrawerFits'
  BY DEF Inv, DrawerFits
<1>4. Pending'
  BY DEF Inv, Pending, Active, Here
<1>5. Kept'
  BY DEF Inv, Kept, KeptBehind, KeptHere, IsSave, Here, LocalList
<1> QED
  BY <1>1, <1>2, <1>3, <1>4, <1>5 DEF Inv

LEMMA OpenDrawerStep == ASSUME Inv, Click, OpenDrawer PROVE Inv'
<1>1. /\ drawer' \in Drawers /\ drawer'.at = "open" /\ ~drawer'.timer
  BY DEF OpenDrawer, Inv, Types, Drawers
<1>2. uses' \in 0 .. MaxUses
  BY TasksAssumption DEF Click
<1> QED
  BY <1>1, <1>2, DrawerStep DEF OpenDrawer, Click

LEMMA DrawerTimerStep == ASSUME Inv, DrawerTimer PROVE Inv'
<1>1. drawer' \in Drawers /\ drawer'.at = "shut" /\ ~drawer'.timer
  <2>1. PICK m : m = IF drawer.at = "shut" THEN drawer.mount
                     ELSE drawer.mount + 1
    OBVIOUS
  <2>2. m \in Nat
    BY <2>1 DEF Inv, Types, Drawers
  <2>3. drawer' = [Shut EXCEPT !.mount = m]
    BY <2>1 DEF DrawerTimer
  <2> QED
    BY <2>2, <2>3 DEF Shut, Drawers
<1> QED
  BY <1>1, DrawerStep DEF DrawerTimer, Inv, Types
-----------------------------------------------------------------------------
(* The clicks that change a list.                                          *)

Toggles(id, next) ==
    /\ next = [page.data EXCEPT ![id].on = ~@]
    /\ IF page.local
       THEN PersistLocal(next) /\ UNCHANGED calls
       ELSE /\ page' = [page EXCEPT !.busy = TRUE]
            /\ calls' = Append(calls, Call("save", next, "card"))
            /\ UNCHANGED stored
    /\ wanted' = [w \in DOMAIN wanted |->
                     IF w = id THEN Cards(next)[id] ELSE wanted[w]]

(* A card that saves: there is no other save, or this one is blind.        *)
LEMMA SaveToggleStep == ASSUME Inv, Click, SaveToggle PROVE Inv'
<1>0. PICK id \in DOMAIN page.data : \E next : Toggles(id, next)
  BY DEF SaveToggle, Toggles
<1>1. PICK next : Toggles(id, next)
  BY <1>0
<1> USE DEF Toggles
<1>2. /\ page.name = "scheduled" /\ page.data \in Lists /\ page.data # None
      /\ ~page.busy /\ visits' = visits /\ drawer' = drawer
  BY DEF SaveToggle, CardsEnabled, Inv, Types
<1>3. /\ next \in Lists /\ next # None /\ DOMAIN next # {}
      /\ Cards(page.data) = wanted => Cards(next) = wanted'
  <2>1. next \in Lists /\ DOMAIN next = DOMAIN page.data
        /\ \A w \in DOMAIN page.data : w # id => next[w] = page.data[w]
    BY <1>1, <1>2, ToggledInLists
  <2>2. Cards(next) = [w \in DOMAIN Cards(page.data) |->
            IF w = id THEN Cards(next)[id] ELSE Cards(page.data)[w]]
    BY <2>1 DEF Cards
  <2> QED
    BY <1>1, <2>1, <2>2, TasksAssumption
<1>4. ~blind' => ~blind /\ ~(\E i \in DOMAIN calls : IsSave(i) /\ calls[i].by = "drawer")
  BY DEF SaveToggle, Saves, IsSave
<1>5. uses' \in 0 .. MaxUses /\ blind' \in BOOLEAN
  BY TasksAssumption DEF Click, SaveToggle, Inv, Types
<1>6. DrawerFits'
  BY <1>1, <1>2 DEF Inv, Types, Pages, DrawerFits, Click, PersistLocal
<1>7. CASE page.local
  <2>1. /\ page' = [page EXCEPT !.data = next] /\ stored' = next
        /\ calls' = calls /\ ~backend
    BY <1>1, <1>7 DEF PersistLocal, Inv, DrawerFits
  <2>2. /\ page' \in Pages /\ page'.name = page.name /\ page'.data = next
        /\ page'.rev = page.rev /\ page'.local
    BY <1>3, <1>7, <2>1 DEF Inv, Types, Pages
  <2>3. Types'
    BY <1>2, <1>3, <1>5, <2>1, <2>2 DEF Inv, Types, Click
  <2>4. InOrder'
    BY <1>2, <2>1, <2>2 DEF Inv, InOrder, Here
  <2>5. Pending'
    BY <1>3, <2>2 DEF Pending
  <2>6. Kept'
    <3> SUFFICES ASSUME ~blind' PROVE KeptHere'
      BY <2>1 DEF Kept, Click
    <3>1. KeptHere
      BY <1>4, <2>1 DEF Inv, Kept
    <3>2. Cards(page.data) = wanted
      BY <1>2, <3>1 DEF KeptHere
    <3> QED
      BY <1>3, <2>1, <2>2, <3>1, <3>2 DEF KeptHere, LocalList, IsSave
  <2> QED
    BY <1>6, <2>3, <2>4, <2>5, <2>6 DEF Inv
<1>8. CASE ~page.local
  <2>1. PICK c : c = Call("save", next, "card")
    OBVIOUS
  <2>2. /\ c \in Calls /\ WellFormed(c) /\ c.cmd = "save" /\ c.visit = visits
        /\ c.list = next /\ c.by = "card"
    BY <1>3, <2>1 DEF Call, Calls, WellFormed, Inv, Types, Pages, Drawers
  <2>3. /\ calls' = Append(calls, c) /\ page' = [page EXCEPT !.busy = TRUE]
        /\ stored' = stored
    BY <1>1, <1>8, <2>1
  <2>4. Moves(calls, calls', 0, {c})
    BY <2>2, <2>3, Appending DEF Inv, Types
  <2>5. /\ page' \in Pages /\ page'.name = page.name /\ page'.data = page.data
        /\ page'.rev = page.rev /\ page'.busy /\ page'.local = page.local
    BY <2>3 DEF Inv, Types, Pages
  <2>6. Types'
    BY <1>2, <1>5, <2>2, <2>3, <2>4, <2>5, CallsFit DEF Inv, Types, Click
  <2>7. InOrder'
    BY <1>2, <2>2, <2>4, <2>5, OrderMoves DEF Inv, Types, PageOf
  <2>8. Pending'
    BY <1>2, <2>5 DEF Pending
  <2>9. Kept'
    <3> SUFFICES ASSUME ~blind' PROVE KeptBehind' /\ backend
      BY DEF Kept, Click
    <3>1. KeptBehind /\ backend
      BY <1>2, <1>4, <1>8 DEF Inv, Kept, KeptHere
    <3>2. \A i \in DOMAIN calls : ~IsSave(i)
      BY <1>2, <1>4, <3>1, Indices DEF KeptBehind, Inv, Types, WellFormed, IsSave, Calls
    <3>3. Cards(next) = wanted'
      BY <1>2, <1>3, <3>1, <3>2 DEF KeptBehind
    <3>4. \A i \in DOMAIN calls' : IsSave(i)' =>
              calls'[i] = c /\ \A j \in DOMAIN calls' : j <= i
      BY <2>4, <3>2 DEF Moves, IsSave
    <3>5. \A i \in DOMAIN calls' : i \in Nat
      BY <2>6, Indices DEF Types
    <3>6. \A i, j \in DOMAIN calls' : IsSave(i)' /\ IsSave(j)' => i = j
      BY <3>4, <3>5
    <3>7. \E i \in DOMAIN calls' : IsSave(i)'
      BY <2>2, <2>4 DEF Moves, IsSave
    <3>8. \A i \in DOMAIN calls' : IsSave(i)' =>
              /\ Cards(calls'[i].list) = wanted' /\ page'.busy
              /\ Here(calls[i])'
      BY <1>2, <2>2, <2>5, <3>3, <3>4 DEF Here
    <3>9. Fill(file)' = memory' /\ page'.data = memory'
      BY <1>2, <2>5, <3>1 DEF KeptBehind, Click, Fill
    <3> QED
      BY <3>1, <3>6, <3>7, <3>8, <3>9 DEF KeptBehind
  <2> QED
    BY <1>6, <2>6, <2>7, <2>8, <2>9 DEF Inv
<1> QED
  BY <1>7, <1>8
Creates(repeat, id, next) ==
    /\ id = uses + 1
    /\ next = With(Known, id, [on |-> TRUE, weekday |-> BuildSchedCron(repeat)])
    /\ IF page.local
       THEN /\ stored' = next
            /\ page' = Refreshed([page EXCEPT !.data = next])
            /\ drawer' = [Closing EXCEPT !.busy = TRUE]
            /\ calls' = Append(calls, RefreshCall)
       ELSE /\ drawer' = [drawer EXCEPT !.busy = TRUE]
            /\ calls' = Append(calls, Call("save", next, "drawer"))
            /\ UNCHANGED <<stored, page>>
    /\ wanted' = With(wanted, id, [on |-> TRUE, repeat |-> repeat])

(* Create: from the list the page shows, or blind.                         *)
LEMMA CreateTaskStep == ASSUME Inv, Click, CreateTask PROVE Inv'
<1>0. PICK repeat \in Repeats : \E id, next : Creates(repeat, id, next)
  BY DEF CreateTask, DrawerSelect, Creates
<1>1. PICK id, next : Creates(repeat, id, next)
  BY <1>0
<1> USE DEF Creates
<1>2. /\ page.name = "scheduled" /\ page.data \in Lists \cup {None}
      /\ visits' = visits /\ visits \in Nat
  BY DEF CreateTask, Inv, DrawerFits, Types
<1>3. /\ next \in Lists /\ next # None /\ DOMAIN next # {}
      /\ page.data # None /\ Cards(page.data) = wanted => Cards(next) = wanted'
  <2>1. Known \in Lists
    BY <1>2, SeedInLists DEF Known
  <2>2. id \in Tasks
    BY <1>1, TasksAssumption DEF Click, Tasks
  <2>3. [on |-> TRUE, weekday |-> BuildSchedCron(repeat)] \in Task
    BY DEF Task, BuildSchedCron, Repeats
  <2>4. next \in Lists /\ DOMAIN next # {}
    BY <1>1, <2>1, <2>2, <2>3, WithInLists
  <2>5. Cards(next) = With(Cards(Known), id, [on |-> TRUE, repeat |-> repeat])
    BY <1>1, CardsWith
  <2> QED
    BY <1>1, <2>4, <2>5, TasksAssumption DEF Known
<1>4. ~blind' => /\ ~blind /\ page.data # None
                 /\ ~(\E i \in DOMAIN calls : IsSave(i) /\ calls[i].by \in {"card", "drawer"})
  BY DEF CreateTask, Saves, IsSave
<1>5. uses' \in 0 .. MaxUses /\ blind' \in BOOLEAN
  BY TasksAssumption DEF Click, CreateTask, Inv, Types
<1>6. ~blind' => \A i \in DOMAIN calls : ~IsSave(i)
  BY <1>4, Indices DEF Inv, Types, WellFormed, IsSave, Calls
<1>7. CASE page.local
  <2>1. PICK p : p = [page EXCEPT !.data = next]
    OBVIOUS
  <2>2. /\ p \in Pages /\ p.name = page.name /\ p.rev = page.rev /\ p.local
    BY <1>3, <1>7, <2>1 DEF Inv, Types, Pages
  <2>3. /\ stored' = next /\ page' = Refreshed(p) /\ ~backend
        /\ drawer' = [Closing EXCEPT !.busy = TRUE]
        /\ calls' = Append(calls, RefreshCall)
    BY <1>1, <1>7, <2>1 DEF Inv, DrawerFits
  <2>4. /\ page' \in Pages /\ page'.name = page.name /\ page'.data = None
        /\ page'.rev = page.rev + 1
    BY <2>2, <2>3, RefreshedPage
  <2>5. Moves(calls, calls', 0, {RefreshCall})
    BY <2>3, RefreshCallTyped, Appending DEF Inv, Types
  <2>6. /\ calls' \in Seq(Calls) /\ \A i \in DOMAIN calls' : WellFormed(calls'[i])
        /\ InOrder' /\ Pending' /\ RefreshCall.cmd # "save"
    BY <1>2, <2>4, <2>5, RefreshStep
  <2>7. drawer' \in Drawers /\ drawer'.at = "closing"
    BY <2>3, ClosingFits DEF Inv
  <2>8. Types'
    BY <1>2, <1>3, <1>5, <2>3, <2>4, <2>6, <2>7 DEF Inv, Types, Click
  <2>9. DrawerFits'
    BY <1>2, <2>3, <2>4, <2>7 DEF DrawerFits, Click
  <2>10. Kept'
    <3> SUFFICES ASSUME ~blind' PROVE KeptHere'
      BY <2>3 DEF Kept, Click
    <3>1. KeptHere
      BY <1>4, <2>3 DEF Inv, Kept
    <3>2. Cards(page.data) = wanted
      BY <1>2, <1>4, <3>1 DEF KeptHere
    <3>3. \A i \in DOMAIN calls' : ~IsSave(i)'
      BY <1>6, <2>5, <2>6 DEF Moves, IsSave
    <3> QED
      BY <1>3, <1>4, <2>3, <2>4, <3>2, <3>3 DEF KeptHere, LocalList
  <2> QED
    BY <2>6, <2>8, <2>9, <2>10 DEF Inv
<1>8. CASE ~page.local
  <2>1. PICK c : c = Call("save", next, "drawer")
    OBVIOUS
  <2>2. /\ c \in Calls /\ WellFormed(c) /\ c.cmd = "save" /\ c.visit = visits
        /\ c.list = next /\ c.by = "drawer"
    BY <1>3, <2>1 DEF Call, Calls, WellFormed, Inv, Types, Pages, Drawers
  <2>3. /\ calls' = Append(calls, c) /\ page' = page /\ stored' = stored
        /\ drawer' = [drawer EXCEPT !.busy = TRUE]
    BY <1>1, <1>8, <2>1
  <2>4. Moves(calls, calls', 0, {c})
    BY <2>2, <2>3, Appending DEF Inv, Types
  <2>5. drawer' \in Drawers /\ drawer'.at = drawer.at /\ drawer'.timer = drawer.timer
    BY <2>3 DEF Inv, Types, Drawers
  <2>6. Types'
    BY <1>2, <1>5, <2>2, <2>3, <2>4, <2>5, CallsFit DEF Inv, Types, Click
  <2>7. InOrder'
    BY <1>2, <2>2, <2>3, <2>4, OrderMoves DEF Inv, PageOf
  <2>8. DrawerFits'
    BY <2>3, <2>5 DEF Inv, DrawerFits, Click
  <2>9. Pending'
    BY <1>2, <2>3, <2>4, PendingMoves DEF Inv
  <2>10. Kept'
    <3> SUFFICES ASSUME ~blind' PROVE KeptBehind' /\ backend
      BY DEF Kept, Click
    <3>1. KeptBehind /\ backend
      BY <1>2, <1>4, <1>8 DEF Inv, Kept, KeptHere
    <3>2. page.data = memory /\ Cards(next) = wanted'
      BY <1>2, <1>3, <1>4, <1>6, <3>1 DEF KeptBehind
    <3>3. \A i \in DOMAIN calls' : IsSave(i)' =>
              calls'[i] = c /\ \A j \in DOMAIN calls' : j <= i
      BY <1>6, <2>4 DEF Moves, IsSave
    <3>4. \A i \in DOMAIN calls' : i \in Nat
      BY <2>6, Indices DEF Types
    <3>5. \A i, j \in DOMAIN calls' : IsSave(i)' /\ IsSave(j)' => i = j
      BY <3>3, <3>4
    <3>6. \E i \in DOMAIN calls' : IsSave(i)'
      BY <2>2, <2>4 DEF Moves, IsSave
    <3>7. \A i \in DOMAIN calls' : IsSave(i)' =>
              /\ Cards(calls'[i].list) = wanted' /\ calls'[i].by # "card"
              /\ Here(calls[i])'
      BY <1>2, <2>2, <3>2, <3>3 DEF Here
    <3>8. Fill(file)' = memory' /\ page'.data = memory'
      BY <2>3, <3>1, <3>2 DEF KeptBehind, Click, Fill
    <3> QED
      BY <3>1, <3>5, <3>6, <3>7, <3>8 DEF KeptBehind
  <2> QED
    BY <2>6, <2>7, <2>8, <2>9, <2>10 DEF Inv
<1> QED
  BY <1>7, <1>8
-----------------------------------------------------------------------------
(* The answers.                                                            *)
Served == /\ calls # <<>>
          /\ UNCHANGED <<backend, uses, visits, wanted>>

(* A read that is answered: the page looks at it, or it is too late.       *)
LEMMA AnswerStep ==
    ASSUME Inv, Served, calls' = Tail(calls), calls[1].cmd # "save",
           UNCHANGED <<memory, file, drawer, failures, blind>>,
           page' \in Pages, page'.name = page.name, page'.rev = page.rev,
           page'.busy = page.busy, page'.local => ~backend,
           page.name = "scheduled" =>
               \/ /\ page' = page /\ stored' = stored
                  /\ ~(calls[1].cmd = "list_scheduled_tasks" /\ Active(calls[1]))
               \/ /\ Here(calls[1]) /\ page'.data \in Lists
                  /\ IF backend THEN page'.data = memory /\ stored' = stored
                     ELSE /\ page'.data = LocalList /\ stored' = LocalList
                          /\ page'.local,
           page.name # "scheduled" => stored' = stored
    PROVE  Inv'
<1>1. Moves(calls, calls', 1, {}) /\ 1 \in DOMAIN calls
  BY Serving DEF Inv, Types, Served
<1>2. Types'
  <2>1. stored' \in Lists \cup {None}
    BY SeedInLists DEF Inv, Types, LocalList
  <2>2. calls' \in Seq(Calls) /\ \A i \in DOMAIN calls' : WellFormed(calls'[i])
    BY <1>1, CallsFit DEF Inv
  <2> QED
    BY <2>1, <2>2 DEF Inv, Types, Served
<1>3. InOrder'
  BY <1>1, OrderMoves DEF Inv, Types, Served
<1>4. DrawerFits'
  BY DEF Inv, DrawerFits, Served
<1>5. CASE page.name # "scheduled"
  <2>1. Pending'
    BY <1>5 DEF Pending
  <2>2. Kept'
    BY <1>1, <1>5, KeptMoves DEF Inv, InOrder, Types, Served
  <2> QED
    BY <1>2, <1>3, <1>4, <2>1, <2>2 DEF Inv
<1>6. CASE /\ page' = page /\ stored' = stored
           /\ ~(calls[1].cmd = "list_scheduled_tasks" /\ Active(calls[1]))
  <2>1. Pending'
    BY <1>1, <1>6, PendingMoves DEF Inv, Served
  <2>2. Kept'
    BY <1>1, <1>6, KeptMoves DEF Inv, InOrder, Types, Served
  <2> QED
    BY <1>2, <1>3, <1>4, <2>1, <2>2 DEF Inv
<1>7. CASE /\ Here(calls[1]) /\ page'.data \in Lists
           /\ IF backend THEN page'.data = memory /\ stored' = stored
              ELSE /\ page'.data = LocalList /\ stored' = LocalList
                   /\ page'.local
  <2>1. Pending'
    BY <1>7, TasksAssumption DEF Pending
  <2>2. ASSUME NEW i \in DOMAIN calls', IsSave(i)'
        PROVE  /\ i + 1 \in DOMAIN calls /\ calls'[i] = calls[i + 1]
               /\ IsSave(i + 1) /\ i \in Nat
    BY <1>1, <2>2, Indices DEF Moves, IsSave
  <2>3. ASSUME NEW i \in DOMAIN calls, IsSave(i)
        PROVE  i - 1 \in DOMAIN calls' /\ IsSave(i - 1)'
    <3>1. i > 1
      BY <2>3, Indices DEF Inv, Types, IsSave
    <3> QED
      BY <1>1, <2>3, <3>1 DEF Moves, IsSave
  <2>4. ASSUME NEW i \in DOMAIN calls', IsSave(i)'
        PROVE  Here(calls[i])'
    <3>1. PICK j \in DOMAIN calls : j = i + 1 /\ calls'[i] = calls[j] /\ j > 1
      BY <1>2, <2>2, <2>4, Indices DEF Types
    <3>2. calls[j].visit <= visits /\ visits <= calls[j].visit
      BY <1>1, <1>7, <3>1 DEF Inv, InOrder, Here
    <3>3. calls[j].visit \in Nat /\ visits \in Nat
      BY Indices DEF Inv, Types, Calls
    <3> QED
      BY <3>1, <3>2, <3>3 DEF Here, Served
  <2>5. ASSUME KeptBehind, backend PROVE KeptBehind'
    <3>1. ASSUME NEW i \in DOMAIN calls', NEW j \in DOMAIN calls',
                 IsSave(i)', IsSave(j)'
          PROVE  i = j
      <4>1. i + 1 = j + 1 /\ i \in Nat /\ j \in Nat
        BY <2>2, <2>5, <3>1 DEF KeptBehind
      <4> QED
        BY <4>1
    <3>2. (\A i \in DOMAIN calls' : ~IsSave(i)') => Cards(memory') = wanted'
      BY <2>3, <2>5 DEF KeptBehind, Served
    <3>3. ASSUME NEW i \in DOMAIN calls', IsSave(i)'
          PROVE  /\ Cards(calls'[i].list) = wanted'
                 /\ Here(calls[i])' /\ calls'[i].by = "card" => page'.busy
      BY <2>2, <2>5, <3>3 DEF KeptBehind, Here, Served
    <3>4. Fill(file)' = memory' /\ page'.data = memory'
      BY <1>7, <2>5 DEF KeptBehind, Fill
    <3> QED
      BY <2>4, <3>1, <3>2, <3>3, <3>4 DEF KeptBehind
  <2>6. ASSUME KeptHere, ~backend PROVE KeptHere'
    <3>1. LocalList' = LocalList
      BY <1>7, <2>6, SeedInLists, TasksAssumption DEF LocalList, Inv, Types
    <3> QED
      BY <1>7, <2>2, <2>6, <3>1 DEF KeptHere, Served
  <2>7. Kept'
    BY <2>5, <2>6 DEF Inv, Kept, Served
  <2> QED
    BY <1>2, <1>3, <1>4, <2>1, <2>7 DEF Inv
<1> QED
  BY <1>5, <1>6, <1>7

LEMMA AnswerListStep ==
    ASSUME Inv, Served, NEW c, c = Head(calls), AnswerList(c)
    PROVE  Inv'
<1>1. c = calls[1] /\ 1 \in DOMAIN calls /\ c.cmd = "list_scheduled_tasks"
  BY Serving DEF Inv, Types, Served, AnswerList
<1>2. Here(c) => page.name = "scheduled"
  BY <1>1 DEF Inv, InOrder, PageOf
<1>3. CASE ~Active(c)
  <2>1. page' = page /\ stored' = stored
    BY <1>3 DEF AnswerList
  <2> QED
    BY <1>1, <1>3, <2>1, AnswerStep DEF AnswerList, Inv, Types, DrawerFits
<1>4. CASE Active(c) /\ backend
  <2>1. /\ page' = [page EXCEPT !.data = memory, !.local = FALSE]
        /\ stored' = stored
    BY <1>4 DEF AnswerList
  <2>2. /\ page' \in Pages /\ page'.name = page.name /\ page'.rev = page.rev
        /\ page'.busy = page.busy /\ ~page'.local /\ page'.data = memory
        /\ memory \in Lists
    BY <2>1 DEF Inv, Types, Pages
  <2> QED
    BY <1>1, <1>4, <2>1, <2>2, AnswerStep DEF AnswerList, Active
<1>5. CASE Active(c) /\ ~backend
  <2>1. LocalList \in Lists
    BY SeedInLists DEF LocalList, Inv, Types
  <2>2. /\ page' = [page EXCEPT !.data = LocalList, !.local = TRUE]
        /\ stored' = LocalList
    BY <1>5 DEF AnswerList
  <2>3. /\ page' \in Pages /\ page'.name = page.name /\ page'.rev = page.rev
        /\ page'.busy = page.busy /\ page'.local /\ page'.data = LocalList
    BY <2>1, <2>2 DEF Inv, Types, Pages
  <2>4. page.name = "scheduled"
    BY <1>2, <1>5 DEF Active
  <2> QED
    BY <1>1, <1>5, <2>1, <2>2, <2>3, <2>4, AnswerStep DEF AnswerList, Active
<1> QED
  BY <1>3, <1>4, <1>5

LEMMA AnswerPullRequestsStep ==
    ASSUME Inv, Served, NEW c, c = Head(calls), AnswerPullRequests(c)
    PROVE  Inv'
<1>1. c = calls[1] /\ 1 \in DOMAIN calls /\ c.cmd = "list_pull_requests"
  BY Serving DEF Inv, Types, Served, AnswerPullRequests
<1>2. Here(c) => page.name = "pullrequests"
  BY <1>1 DEF Inv, InOrder, PageOf
<1>3. /\ page' \in Pages /\ page'.name = page.name /\ page'.rev = page.rev
      /\ page'.busy = page.busy /\ page'.local = page.local
      /\ ~Active(c) => page' = page
  BY DEF AnswerPullRequests, Inv, Types, Pages
<1>4. page.name = "scheduled" => page' = page
  BY <1>2, <1>3 DEF Active
<1> QED
  BY <1>1, <1>3, <1>4, AnswerStep DEF AnswerPullRequests, Inv, DrawerFits
(* A save that is answered was the only one, or a blind one is known of.   *)
LEMMA SavedIsKept ==
    ASSUME Inv, Served, calls[1].cmd = "save", 1 \in DOMAIN calls,
           memory' = calls[1].list, file' = calls[1].list, blind' = blind,
           NEW C, Moves(calls, calls', 1, C), \A c \in C : c.cmd # "save",
           visits' = visits,
           (page'.name = "scheduled" /\ page'.data # None) =>
               page' = page /\ ~Here(calls[1])
    PROVE  Kept'
<1> SUFFICES ASSUME ~blind' PROVE KeptBehind' /\ backend
  BY DEF Kept, Served
<1>1. KeptBehind /\ backend /\ IsSave(1)
  BY DEF Inv, Kept, KeptHere, IsSave
<1>2. \A i \in DOMAIN calls' : ~IsSave(i)'
  <2> SUFFICES ASSUME NEW i \in DOMAIN calls', IsSave(i)' PROVE FALSE
    OBVIOUS
  <2>1. i + 1 \in DOMAIN calls /\ calls'[i] = calls[i + 1] /\ i \in Nat /\ i > 0
    BY Indices DEF Moves, IsSave
  <2>2. i + 1 = 1
    BY <1>1, <2>1 DEF KeptBehind, IsSave
  <2> QED
    BY <2>1, <2>2
<1>3. DOMAIN calls[1].list # {} /\ Cards(calls[1].list) = wanted
  BY <1>1 DEF KeptBehind, Inv, Types, WellFormed, IsSave
<1>4. Fill(file)' = memory'
  BY <1>3 DEF Fill
<1>5. ~(page'.name = "scheduled" /\ page'.data # None)
  BY <1>1 DEF KeptBehind
<1>6. Cards(memory') = wanted'
  BY <1>3 DEF Served
<1> QED
  BY <1>1, <1>2, <1>4, <1>5, <1>6 DEF KeptBehind

LEMMA DrawerGoesOn ==
    ASSUME Types, NEW d,
           d \in {drawer, Closing} \cup {[drawer EXCEPT !.busy = b] : b \in BOOLEAN},
           d = Closing => drawer.at # "shut"
    PROVE  /\ d \in Drawers /\ (d.at # "shut" => drawer.at # "shut")
           /\ (drawer.timer => drawer.at # "open") => (d.timer => d.at # "open")
           /\ drawer.at = "open" => d.at # "shut"
  BY DEF Types, Drawers, Closing

LEMMA Continuing ==
    ASSUME Inv, NEW c, NEW ok \in BOOLEAN, Continue(c, ok), c.mount \in Nat
    PROVE  /\ drawer' \in {drawer, Closing} \cup {[drawer EXCEPT !.busy = b] : b \in BOOLEAN}
           /\ drawer' = Closing => drawer.at # "shut"
<1>1. PICK b : b = (drawer.busy /\ c.mount # drawer.mount)
  OBVIOUS
<1>2. b \in BOOLEAN
  BY <1>1 DEF Inv, Types, Drawers
<1>3. \/ drawer' = drawer
      \/ drawer.at # "shut" /\ drawer' = Closing
      \/ drawer' = [drawer EXCEPT !.busy = b]
  <2>1. CASE ~Here(c) \/ c.by # "drawer"
    <3>1. drawer' = drawer
      BY <2>1 DEF Continue
    <3> QED
      BY <3>1
  <2>2. CASE ~(~Here(c) \/ c.by # "drawer") /\ ok
    <3>1. drawer' = IF drawer.at = "shut" THEN drawer ELSE Closing
      BY <2>2 DEF Continue
    <3> QED
      BY <3>1
  <2>3. CASE ~(~Here(c) \/ c.by # "drawer") /\ ~ok
    <3>1. drawer' = [drawer EXCEPT !.busy = drawer.busy /\ c.mount # drawer.mount]
      BY <2>3 DEF Continue
    <3> QED
      BY <1>1, <3>1
  <2> QED
    BY <2>1, <2>2, <2>3
<1>4. drawer = Closing => drawer.at # "shut"
  BY DEF Closing, Inv, Types, Drawers
<1>5. [drawer EXCEPT !.busy = b] = Closing => drawer.at # "shut"
  BY DEF Closing, Inv, Types, Drawers
<1> QED
  BY <1>2, <1>3, <1>4, <1>5

LEMMA AnswerSaveStep ==
    ASSUME Inv, Served, NEW c, c = Head(calls), AnswerSave(c)
    PROVE  Inv'
<1>1. /\ c = calls[1] /\ 1 \in DOMAIN calls /\ c.cmd = "save" /\ c \in Calls
      /\ c.list \in Lists /\ DOMAIN c.list # {} /\ c.mount \in Nat
      /\ Moves(calls, Tail(calls), 1, {})
  <2>1. /\ c = calls[1] /\ 1 \in DOMAIN calls /\ c.cmd = "save" /\ c \in Calls
        /\ Moves(calls, Tail(calls), 1, {})
    BY Serving DEF Inv, Types, Served, AnswerSave
  <2>2. WellFormed(c) /\ c.mount \in Nat
    BY <2>1 DEF Inv, Types, Calls
  <2> QED
    BY <2>1, <2>2 DEF WellFormed
<1>2. Here(c) => page.name = "scheduled"
  BY <1>1 DEF Inv, InOrder, PageOf
<1>3. PICK ok \in BOOLEAN :
          /\ Continue(c, ok)
          /\ ok => file' = c.list /\ blind' = blind /\ failures' = failures
          /\ ~ok => /\ blind' = TRUE /\ file' = file
                    /\ failures' = failures + 1
  BY DEF AnswerSave
<1>4. memory' = c.list /\ stored' = stored
  BY DEF AnswerSave
<1>5. /\ drawer' \in Drawers /\ (drawer'.at # "shut" => page.name = "scheduled")
      /\ drawer'.timer => drawer'.at # "open"
  BY <1>1, <1>3, Continuing, DrawerGoesOn DEF Inv, DrawerFits
<1>6. ASSUME page' \in Pages, page'.name = page.name, page'.local = page.local,
             page.name = "scheduled" => page'.data \in Lists \cup {None},
             calls' \in Seq(Calls), \A i \in DOMAIN calls' : WellFormed(calls'[i])
      PROVE  Types' /\ DrawerFits'
  <2>1. blind' \in BOOLEAN /\ failures' \in Nat /\ file' \in Lists
    <3>1. failures \in Nat /\ failures + 1 \in Nat /\ file \in Lists
          /\ blind \in BOOLEAN
      BY DEF Inv, Types
    <3>2. CASE ok
      BY <1>1, <1>3, <3>1, <3>2
    <3>3. CASE ~ok
      BY <1>3, <3>1, <3>3
    <3> QED
      BY <3>2, <3>3
  <2> QED
    BY <1>1, <1>4, <1>5, <1>6, <2>1 DEF Inv, Types, DrawerFits, Served
<1>7. CASE ~Here(c)
  <2>1. page' = page /\ calls' = Tail(calls)
    BY <1>3, <1>7 DEF Continue
  <2>2. Moves(calls, calls', 1, {})
    BY <1>1, <2>1
  <2>3. calls' \in Seq(Calls) /\ \A i \in DOMAIN calls' : WellFormed(calls'[i])
    BY <2>2, CallsFit DEF Inv
  <2>4. Types' /\ DrawerFits'
    BY <1>6, <2>1, <2>3 DEF Inv, Types
  <2>5. InOrder'
    BY <2>1, <2>2, OrderMoves DEF Inv, Types, Served
  <2>6. Pending'
    BY <1>1, <2>1, <2>2, PendingMoves DEF Inv, Served
  <2>7. Kept'
    BY <1>1, <1>3, <1>4, <1>7, <2>1, <2>2, SavedIsKept DEF Kept, Served
  <2> QED
    BY <2>4, <2>5, <2>6, <2>7 DEF Inv
<1>8. CASE Here(c) /\ ok
  <2>1. PICK p, b : p = Refreshed(page) /\ b = (p.busy /\ c.by # "card")
    OBVIOUS
  <2>2. /\ p \in Pages /\ p.name = page.name /\ p.data = None
        /\ p.rev = page.rev + 1 /\ p.local = page.local /\ b \in BOOLEAN
    BY <2>1, RefreshedPage DEF Inv, Types, Pages
  <2>3. page' = [p EXCEPT !.busy = b]
    BY <1>3, <1>8, <2>1 DEF Continue
  <2>4. calls' = Append(Tail(calls), RefreshCall)
    BY <1>3, <1>8 DEF Continue
  <2>5. /\ page' \in Pages /\ page'.name = page.name /\ page'.data = None
        /\ page'.rev = page.rev + 1 /\ page'.local = page.local
    BY <2>2, <2>3 DEF Pages
  <2>6. Moves(calls, calls', 1, {RefreshCall})
    BY <2>4, RefreshCallTyped, ServingOn DEF Inv, Types, Served
  <2>7. /\ calls' \in Seq(Calls) /\ \A i \in DOMAIN calls' : WellFormed(calls'[i])
        /\ InOrder' /\ Pending' /\ RefreshCall.cmd # "save"
    BY <1>2, <1>8, <2>5, <2>6, RefreshStep DEF Served
  <2>8. Types' /\ DrawerFits'
    BY <1>6, <2>5, <2>7
  <2>9. Kept'
    <3>1. \A x \in {RefreshCall} : x.cmd # "save"
      BY <2>7
    <3> QED
      BY <1>1, <1>3, <1>4, <1>8, <2>5, <2>6, <3>1, SavedIsKept DEF Served
  <2> QED
    BY <2>7, <2>8, <2>9 DEF Inv
<1>9. CASE Here(c) /\ ~ok
  <2>1. PICK b : b = (page.busy /\ c.by # "card")
    OBVIOUS
  <2>2. b \in BOOLEAN
    BY <2>1 DEF Inv, Types, Pages
  <2>3. page' = [page EXCEPT !.busy = b] /\ calls' = Tail(calls)
    BY <1>3, <1>9, <2>1 DEF Continue
  <2>4. /\ page' \in Pages /\ page'.name = page.name /\ page'.data = page.data
        /\ page'.rev = page.rev /\ page'.local = page.local
    BY <2>2, <2>3 DEF Inv, Types, Pages
  <2>5. Moves(calls, calls', 1, {})
    BY <1>1, <2>3
  <2>6. calls' \in Seq(Calls) /\ \A i \in DOMAIN calls' : WellFormed(calls'[i])
    BY <2>5, CallsFit DEF Inv
  <2>7. Types' /\ DrawerFits'
    BY <1>6, <2>4, <2>6 DEF Inv, Types
  <2>8. InOrder'
    BY <2>4, <2>5, OrderMoves DEF Inv, Types, Served
  <2>9. Pending'
    BY <1>1, <2>4, <2>5, PendingMoves DEF Inv, Served
  <2>10. Kept'
    BY <1>3, <1>9 DEF Kept
  <2> QED
    BY <2>7, <2>8, <2>9, <2>10 DEF Inv
<1> QED
  BY <1>7, <1>8, <1>9

LEMMA ServeStep == ASSUME Inv, Serve PROVE Inv'
<1>1. Served
  BY DEF Serve, Served
<1>2. PICK c : c = Head(calls)
  OBVIOUS
<1>3. AnswerList(c) \/ AnswerPullRequests(c) \/ AnswerSave(c)
  BY <1>2 DEF Serve
<1> QED
  BY <1>1, <1>2, <1>3, AnswerListStep, AnswerPullRequestsStep, AnswerSaveStep

-----------------------------------------------------------------------------
(* A crash loses no save that succeeded.                                   *)
LEMMA RestartStep == ASSUME Inv, Restart PROVE Inv'
<1>1. /\ calls' = <<>> /\ page' = NoPage /\ drawer' = Shut
      /\ memory' = Fill(file) /\ failures' = failures + 1
      /\ UNCHANGED <<backend, file, stored, uses, visits, wanted>>
  BY DEF Restart
<1>2. calls' \in Seq(Calls) /\ DOMAIN calls' = {}
  BY <1>1
<1>3. /\ page' \in Pages /\ page'.name = "none" /\ ~page'.local
      /\ drawer' \in Drawers /\ drawer'.at = "shut" /\ ~drawer'.timer
  BY <1>1 DEF NoPage, Loading, Shut, Pages, Drawers
<1>4. ~blind' => ~blind /\ \A i \in DOMAIN calls : ~IsSave(i)
  BY Indices DEF Restart, Saves, IsSave, Inv, Types, WellFormed, Calls
<1>5. blind' \in BOOLEAN /\ memory' \in Lists
  BY <1>1, SeedInLists DEF Restart, Inv, Types, Fill
<1>6. Types'
  BY <1>1, <1>2, <1>3, <1>5 DEF Inv, Types
<1>7. InOrder' /\ DrawerFits' /\ Pending'
  BY <1>2, <1>3 DEF InOrder, DrawerFits, Pending
<1>8. Kept'
  BY <1>1, <1>2, <1>3, <1>4
     DEF Inv, Kept, KeptBehind, KeptHere, LocalList, Fill
<1> QED
  BY <1>6, <1>7, <1>8 DEF Inv

LEMMA InvInit == Init => Inv
<1> SUFFICES ASSUME Init PROVE Inv
  OBVIOUS
<1>1. calls \in Seq(Calls) /\ DOMAIN calls = {}
  BY DEF Init
<1>2. /\ page \in Pages /\ page.name = "none" /\ ~page.local
      /\ drawer \in Drawers /\ drawer.at = "shut" /\ ~drawer.timer
  BY DEF Init, NoPage, Loading, Shut, Pages, Drawers
<1>3. memory = Seed /\ file = <<>> /\ Fill(file) = memory /\ LocalList = Seed
  BY DEF Init, Fill, LocalList
<1>4. Types
  <2>1. memory \in Lists /\ file \in Lists
    BY <1>3, SeedInLists
  <2>2. uses \in 0 .. MaxUses /\ visits \in Nat /\ failures \in Nat
    BY TasksAssumption DEF Init
  <2> QED
    BY <1>1, <1>2, <2>1, <2>2 DEF Init, Types
<1>5. InOrder /\ DrawerFits /\ Pending
  BY <1>1, <1>2 DEF InOrder, DrawerFits, Pending
<1>6. Kept
  BY <1>1, <1>2, <1>3 DEF Init, Kept, KeptBehind, KeptHere
<1> QED
  BY <1>4, <1>5, <1>6 DEF Inv

LEMMA InvStep == Inv /\ [Next]_vars => Inv'
<1> SUFFICES ASSUME Inv, [Next]_vars PROVE Inv'
  OBVIOUS
<1>1. CASE User
  <2>1. Click
    BY <1>1, TasksAssumption DEF User, Click, Inv, Types
  <2> QED
    BY <1>1, <2>1, VisitStep, RecheckStep, SaveToggleStep, OpenDrawerStep,
       CloseDrawerStep, CreateTaskStep DEF User
<1>2. CASE UNCHANGED vars
  BY <1>2, DrawerStep DEF vars, Inv, Types, DrawerFits
<1> QED
  BY <1>1, <1>2, DrawerTimerStep, ServeStep, RestartStep DEF Next

LEMMA Always == Spec => []Inv
  BY InvInit, InvStep, PTL DEF Spec

(* scheduled.rs replaces the whole list by what it is sent: still, unless  *)
(* the drawer saved a list that was not the latest, no change of a task is *)
(* lost, and the page shows them all.                                      *)
THEOREM ChangesStay == Spec => []ChangesAreKept
<1>1. Inv => ChangesAreKept
  <2> SUFFICES ASSUME Inv, calls = <<>>, ~blind
               PROVE  /\ Cards(IF backend THEN memory ELSE LocalList) = wanted
                      /\ page.name = "scheduled" => Cards(page.data) = wanted
    BY DEF ChangesAreKept
  <2>1. DOMAIN calls = {}
    OBVIOUS
  <2>2. page.name = "scheduled" => page.data # None
    BY <2>1 DEF Inv, Pending
  <2> QED
    BY <2>1, <2>2 DEF Inv, Kept, KeptBehind, KeptHere
<1> QED
  BY <1>1, Always, PTL

(* openDrawer cancels the timer of the drawer that is closing: a drawer    *)
(* that is open is not taken away while its page stays.                    *)
THEOREM OpenDrawerStays == Spec => OpenStays
<1> DEFINE Stays == (drawer.at = "open" /\ page'.name = "scheduled" /\ visits' = visits)
                       => drawer'.at # "shut"
<1>1. ASSUME Inv, [Next]_vars PROVE Stays \/ UNCHANGED vars
  <2> SUFFICES ASSUME drawer.at = "open", page'.name = "scheduled",
                      visits' = visits, Next
               PROVE  drawer'.at # "shut"
    BY <1>1
  <2>1. drawer \in Drawers /\ visits \in Nat /\ ~drawer.timer
    BY <1>1 DEF Inv, Types, DrawerFits
  <2>2. ~(\E name \in {"scheduled", "pullrequests"} : Visit(name))
    BY <2>1 DEF Visit
  <2>3. CASE Recheck \/ SaveToggle
    BY <2>3 DEF Recheck, SaveToggle
  <2>4. CASE OpenDrawer
    BY <2>1, <2>4 DEF OpenDrawer, Drawers
  <2>5. CASE CloseDrawer
    BY <1>1, <2>5, ClosingFits DEF CloseDrawer, Inv
  <2>6. CASE CreateTask
    <3>1. drawer' \in {[drawer EXCEPT !.busy = TRUE], [Closing EXCEPT !.busy = TRUE]}
      BY <2>6 DEF CreateTask
    <3> QED
      BY <1>1, <2>1, <3>1, ClosingFits DEF Drawers, Inv
  <2>7. CASE Serve
    <3>1. PICK c \in Calls : AnswerList(c) \/ AnswerPullRequests(c) \/ AnswerSave(c)
      BY <1>1, <2>7, Serving DEF Serve, Inv, Types
    <3>2. CASE AnswerSave(c)
      <4>1. PICK ok \in BOOLEAN : Continue(c, ok)
        BY <3>2 DEF AnswerSave
      <4>2. c.mount \in Nat
        BY DEF Calls
      <4> QED
        BY <1>1, <4>1, <4>2, Continuing, DrawerGoesOn DEF Inv
    <3> QED
      BY <3>1, <3>2 DEF AnswerList, AnswerPullRequests
  <2>8. ~DrawerTimer /\ ~Restart
    BY <2>1 DEF DrawerTimer, Restart, NoPage, Loading
  <2> QED
    BY <2>2, <2>3, <2>4, <2>5, <2>6, <2>7, <2>8 DEF Next, User
<1>2. Inv /\ [Next]_vars => [Stays]_vars
  BY <1>1
<1> HIDE DEF Stays
<1>3. Spec => [][Stays]_vars
  BY <1>2, Always, PTL DEF Spec
<1> QED
  BY <1>3 DEF OpenStays, Stays
=============================================================================
