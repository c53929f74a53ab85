---------------------------- MODULE ScheduledTasks ----------------------------
(***************************************************************************)
(* The scheduled tasks and pull requests of views/DiscoveryView.tsx: the   *)
(* list a page keeps (useBackendList), the drawer that adds a task, and    *)
(* the store behind them (src-tauri/src/commands/scheduled.rs).            *)
(*                                                                         *)
(* Both writers send the whole list, built from the list the page holds;   *)
(* the cards are disabled while one of them saves, the drawer is not.  The *)
(* drawer is taken away 220 ms after it starts to close, unless it is      *)
(* opened again, and keeps its fields and its busy flag until then.  In a  *)
(* browser without a backend the list lives in localStorage.               *)
(*                                                                         *)
(* Commands form one queue and are answered when they are served.  Search, *)
(* the menu that opens the drawer and what a task says are left out.       *)
(***************************************************************************)
EXTENDS Naturals, Sequences

CONSTANTS
    Suggestions,    (* default_scheduled_tasks                             *)
    PullRequests,   (* what list_pull_requests returns                     *)
    None,
    MaxUses,        (* bound: clicks                                       *)
    MaxFailures     (* bound: saves that fail, and crashes                 *)

Tasks == Suggestions \cup 1..MaxUses
Repeats == {"daily", "weekdays", "weekly"}

(* A task: whether it is enabled, and its cron, of which only the weekday  *)
(* field depends on more than the time.                                    *)
Task  == [on : BOOLEAN, weekday : {"5", "1-5", "*"}]
Lists == UNION {[S -> Task] : S \in SUBSET Tasks}

ASSUME TasksAssumption ==
    /\ None \notin Lists
    /\ MaxUses \in Nat /\ MaxFailures \in Nat

BuildSchedCron(repeat) ==
    CASE repeat = "weekly" -> "5" [] repeat = "weekdays" -> "1-5"
      [] repeat = "daily" -> "*"
FormatSchedule(weekday) ==
    CASE weekday = "5" -> "weekly" [] weekday = "1-5" -> "weekdays"
      [] weekday = "*" -> "daily"

(* The list with one more task, t under id.                                *)
With(list, id, t) ==
    [x \in {id} \cup DOMAIN list |-> IF x = id THEN t ELSE list[x]]

(* What the cards of a list say.                                           *)
Cards(list) == [t \in DOMAIN list |->
    [on |-> list[t].on, repeat |-> FormatSchedule(list[t].weekday)]]

VARIABLES
    backend,    (* whether there is one                                    *)
    memory,     (* InnerState.scheduled_tasks, by id                       *)
    file,       (* the same in shell-state.json                            *)
    stored,     (* the same in localStorage, or None                       *)
    page,       (* the mounted page and what it holds                      *)
    drawer,     (* ManualSchedDrawer and its timer                         *)
    calls,      (* commands under way, oldest first                        *)
    uses, visits, failures,
    wanted,     (* ghost: the tasks as the clicks meant them               *)
    blind       (* ghost: a save was not built from the latest list, or
                   failed                                                  *)

vars == <<backend, memory, file, stored, page, drawer, calls, uses, visits,
          failures, wanted, blind>>

Shut   == [at |-> "shut", timer |-> FALSE, busy |-> FALSE, mount |-> 0]
Loading(name, rev) == [name |-> name, data |-> None, error |-> FALSE,
                       local |-> FALSE, busy |-> FALSE, rev |-> rev]
NoPage == Loading("none", 0)

Call(cmd, list, by) == [cmd |-> cmd, list |-> list, by |-> by,
                        visit |-> visits, rev |-> page.rev,
                        mount |-> drawer.mount]
ListCall(name, visit, rev) ==
    [cmd |-> IF name = "scheduled" THEN "list_scheduled_tasks"
             ELSE "list_pull_requests",
     list |-> None, by |-> "page", visit |-> visit, rev |-> rev,
     mount |-> 0]

Seed == [s \in Suggestions |-> [on |-> TRUE, weekday |-> "*"]]
Fill(list) == IF DOMAIN list = {} THEN Seed ELSE list

Init ==
    /\ backend \in BOOLEAN
    /\ memory = Fill(<<>>) /\ file = <<>> /\ stored = None
    /\ page = NoPage /\ drawer = Shut /\ calls = <<>>
    /\ uses = 0 /\ visits = 0 /\ failures = 0
    /\ wanted = Cards(Seed) /\ blind = FALSE

-----------------------------------------------------------------------------
(* Pages.  A page starts to load when it is mounted and when it refreshes. *)
Visit(name) ==
    /\ page.name # name
    /\ visits' = visits + 1
    /\ page' = Loading(name, 0)
    /\ drawer' = Shut
    /\ calls' = Append(calls, ListCall(name, visits + 1, 0))
    /\ UNCHANGED <<stored, wanted, blind>>

Refreshed(p) == [Loading(p.name, p.rev + 1) EXCEPT !.local = p.local,
                                                   !.busy = p.busy]
RefreshCall == ListCall(page.name, visits, page.rev + 1)

(* "Check again" of the pull requests, when there are none or an error.    *)
Recheck ==
    /\ page.name = "pullrequests"
    /\ page.error \/ (page.data # None /\ page.data = <<>>)
    /\ page' = Refreshed(page)
    /\ calls' = Append(calls, RefreshCall)
    /\ UNCHANGED <<stored, drawer, visits, wanted, blind>>

PersistLocal(next) ==
    /\ page' = [page EXCEPT !.data = next]
    /\ stored' = next

(* The cards: disabled while one of them saves, absent while loading.      *)
MCardsEnabled == page.name = "scheduled" /\ page.data # None
CardsEnabled == page.name = "scheduled" /\ page.data # None /\ ~page.busy

Saves(by) == {i \in DOMAIN calls : calls[i].cmd = "save" /\ calls[i].by \in by}

(* saveToggle                                                              *)
SaveToggle ==
    /\ CardsEnabled
    /\ \E id \in DOMAIN page.data :
        LET next == [page.data EXCEPT ![id].on = ~@]
        IN  /\ IF page.local
               THEN PersistLocal(next) /\ UNCHANGED calls
               ELSE /\ page' = [page EXCEPT !.busy = TRUE]
                    /\ calls' = Append(calls, Call("save", next, "card"))
                    /\ UNCHANGED stored
            /\ wanted' = [w \in DOMAIN wanted |->
                             IF w = id THEN Cards(next)[id] ELSE wanted[w]]
    /\ blind' = (blind \/ Saves({"drawer"}) # {})
    /\ UNCHANGED <<drawer, visits>>

-----------------------------------------------------------------------------
(* The drawer.                                                             *)
MOpenDrawer ==
    /\ page.name = "scheduled"
    /\ drawer' = [drawer EXCEPT !.at = "open"]
    /\ UNCHANGED <<stored, page, calls, visits, wanted, blind>>
OpenDrawer ==
    /\ page.name = "scheduled"
    /\ drawer' = [drawer EXCEPT !.at = "open", !.timer = FALSE]
    /\ UNCHANGED <<stored, page, calls, visits, wanted, blind>>

Closing == [drawer EXCEPT !.at = "closing", !.timer = TRUE]

(* The drawer's Close button: onDone closes it and refreshes the list.     *)
CloseDrawer ==
    /\ drawer.at # "shut"
    /\ drawer' = Closing
    /\ page' = Refreshed(page)
    /\ calls' = Append(calls, RefreshCall)
    /\ UNCHANGED <<stored, visits, wanted, blind>>

(* The timer of closeDrawer: the drawer is unmounted.                      *)
DrawerTimer ==
    /\ drawer.timer
    /\ drawer' = [Shut EXCEPT !.mount = IF drawer.at = "shut" THEN drawer.mount
                                        ELSE drawer.mount + 1]
    /\ UNCHANGED <<backend, memory, file, stored, page, calls, uses, visits,
                   failures, wanted, blind>>

(* What the drawer's menu of intervals lets the user choose.               *)
DrawerSelect == Repeats

(* Create: the page's list, empty while it is not known, and a new task.   *)
Known == IF page.data = None THEN <<>> ELSE page.data

CreateTask ==
    /\ drawer.at # "shut" /\ ~drawer.busy
    /\ \E repeat \in DrawerSelect :
       LET id   == uses + 1
           next == With(Known, id,
                        [on |-> TRUE, weekday |-> BuildSchedCron(repeat)])
       IN  /\ IF page.local
              THEN /\ stored' = next
                   /\ page' = Refreshed([page EXCEPT !.data = next])
                   /\ drawer' = [Closing EXCEPT !.busy = TRUE]
                   /\ calls' = Append(calls, RefreshCall)
              ELSE /\ drawer' = [drawer EXCEPT !.busy = TRUE]
                   /\ calls' = Append(calls, Call("save", next, "drawer"))
                   /\ UNCHANGED <<stored, page>>
           /\ wanted' = With(wanted, id, [on |-> TRUE, repeat |-> repeat])
    /\ blind' = (blind \/ page.data = None \/ Saves({"card", "drawer"}) # {})
    /\ UNCHANGED visits

User ==
    /\ uses < MaxUses
    /\ uses' = uses + 1
    /\ \/ \E name \in {"scheduled", "pullrequests"} : Visit(name)
       \/ Recheck \/ SaveToggle \/ OpenDrawer \/ CloseDrawer \/ CreateTask
    /\ UNCHANGED <<backend, memory, file, failures>>

-----------------------------------------------------------------------------
(* Answers.                                                                *)
Here(c) == c.visit = visits
Active(c) == Here(c) /\ c.rev = page.rev

(* useBackendList: a late answer is dropped; without a backend the list is *)
(* the stored one, or the suggestions, which are then stored.              *)
LocalList == IF stored # None THEN stored ELSE Seed
AnswerList(c) ==
    /\ c.cmd = "list_scheduled_tasks"
    /\ IF ~Active(c) THEN UNCHANGED <<page, stored>>
       ELSE IF backend THEN /\ page' = [page EXCEPT !.data = memory, !.local = FALSE]
                            /\ UNCHANGED stored
       ELSE /\ page' = [page EXCEPT !.data = LocalList, !.local = TRUE]
            /\ stored' = LocalList
    /\ calls' = Tail(calls)
    /\ UNCHANGED <<memory, file, drawer, failures, blind>>

AnswerPullRequests(c) ==
    /\ c.cmd = "list_pull_requests"
    /\ page' = IF ~Active(c) THEN page
               ELSE IF backend THEN [page EXCEPT !.data = PullRequests]
               ELSE [page EXCEPT !.error = TRUE]
    /\ calls' = Tail(calls)
    /\ UNCHANGED <<memory, file, stored, drawer, failures, blind>>

(* save_scheduled_tasks: memory first, then the file, which may fail.  The *)
(* card's continuation refreshes or shows the error and ends its busy flag;*)
(* the drawer's closes the drawer, whichever one is open by then.  Neither *)
(* does anything once the page is gone.                                    *)
MContinue(c, ok) ==
    /\ page' = IF Here(c) /\ ok THEN [Refreshed(page) EXCEPT !.busy = @ /\ c.by # "card"] ELSE page
    /\ calls' = IF Here(c) /\ ok THEN Append(Tail(calls), RefreshCall) ELSE Tail(calls)
    /\ UNCHANGED drawer
Continue(c, ok) ==
    /\ page' = IF ~Here(c) THEN page
               ELSE [IF ok THEN Refreshed(page) ELSE page
                     EXCEPT !.busy = @ /\ c.by # "card"]
    /\ calls' = IF Here(c) /\ ok THEN Append(Tail(calls), RefreshCall)
                ELSE Tail(calls)
    /\ drawer' = IF ~Here(c) \/ c.by # "drawer" THEN drawer
                 ELSE IF ok THEN IF drawer.at = "shut" THEN drawer ELSE Closing
                 ELSE [drawer EXCEPT !.busy = @ /\ c.mount # drawer.mount]

AnswerSave(c) ==
    /\ c.cmd = "save"
    /\ memory' = c.list
    /\ \/ file' = c.list /\ Continue(c, TRUE) /\ UNCHANGED <<failures, blind>>
       \/ /\ failures < MaxFailures
          /\ failures' = failures + 1
          /\ blind' = TRUE
          /\ Continue(c, FALSE)
          /\ UNCHANGED file
    /\ UNCHANGED stored

Serve ==
    /\ calls # <<>>
    /\ LET c == Head(calls)
       IN  AnswerList(c) \/ AnswerPullRequests(c) \/ AnswerSave(c)
    /\ UNCHANGED <<backend, uses, visits, wanted>>

(* The program dies and is started again: load_or_default.                 *)
Restart ==
    /\ failures < MaxFailures
    /\ failures' = failures + 1
    /\ memory' = Fill(file)
    /\ page' = NoPage /\ drawer' = Shut /\ calls' = <<>>
    /\ blind' = (blind \/ Saves({"card", "drawer"}) # {})
    /\ UNCHANGED <<backend, file, stored, uses, visits, wanted>>

Next == User \/ DrawerTimer \/ Serve \/ Restart

(* The event loop runs timers, the main loop serves commands.              *)
Spec == Init /\ [][Next]_vars /\ WF_vars(Serve) /\ WF_vars(DrawerTimer)

-----------------------------------------------------------------------------

(* Unless the drawer saved a list that was not the latest, a task that was *)
(* added stays, a toggled one stays toggled, over reloads and restarts,    *)
(* and the page shows them: the cards' guard keeps toggles apart although  *)
(* each sends the whole list.                                              *)
ChangesAreKept ==
    (calls = <<>> /\ ~blind) =>
        /\ Cards(IF backend THEN memory ELSE LocalList) = wanted
        /\ page.name = "scheduled" => Cards(page.data) = wanted

(* openDrawer: a drawer that is open and not closing never disappears from *)
(* under the user, whatever timers earlier ones have left.                 *)
OpenStays ==
    [][(drawer.at = "open" /\ page'.name = "scheduled" /\ visits' = visits)
           => drawer'.at # "shut"]_vars

(* A list is loaded and cards are given back, unless the page is left.     *)
PageSettles == (page.data = None \/ page.busy)
                   ~> (page.name = "none" \/ page.error
                       \/ (page.data # None /\ ~page.busy))
=============================================================================
