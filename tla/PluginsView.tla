----------------------------- MODULE PluginsView -----------------------------
(***************************************************************************)
(* PluginsView, with its dialog and menus, of views/DiscoveryView.tsx, on  *)
(* top of the plugin market.                                               *)
(*                                                                         *)
(* runGuarded lets one operation run at a time, but its flag belongs to    *)
(* the mounted component: leaving the page and coming back gives a second  *)
(* component, with a flag and a list of its own, while the first one's     *)
(* operation and reloads go on and their results are dropped.              *)
(*                                                                         *)
(* Synchronous commands form a queue, as in SettingsSync; an answer is     *)
(* applied when its command is served.  The commands of one Promise.all    *)
(* are one call.  Left out: the tab and the search, which only hide        *)
(* entries, and notices.                                                   *)
(***************************************************************************)
EXTENDS PluginMarket

CONSTANTS
    MaxUses,        (* bound: clicks                                       *)
    MaxVisits,      (* bound: times the page is opened                     *)
    MaxFailures,    (* bound: file operations and clones that fail         *)
    MaxCrashes      (* bound: times the process dies                       *)

VARIABLES
    view,       (* the mounted component                                   *)
    calls,      (* synchronous commands under way, oldest first            *)
    adds,       (* plugin_marketplace_add calls under way                  *)
    uses, visits, failures, crashes,
    wanted,     (* ghost: the marketplaces, as the commands meant them     *)
    left,       (* ghost: a page was left while its operation was running  *)
    missed,     (* ghost: something changed that the page will not read    *)
    torn        (* ghost: plugins whose reinstallation was cut short, and
                   None when the personal catalogue was not rewritten      *)

bounds == <<uses, visits, failures, crashes>>
ghosts == <<wanted, left, missed, torn>>
vars == <<disk, view, calls, adds, bounds, ghosts>>

Fresh == [open |-> TRUE, busy |-> FALSE, loading |-> TRUE, installed |-> <<>>,
          markets |-> {}, catalog |-> {}, marked |-> {}, skills |-> {}]
Closed == [Fresh EXCEPT !.open = FALSE, !.loading = FALSE]

(* A call: its visit, whether a guarded operation waits for it, and how    *)
(* far its program has come.                                               *)
Call(cmd, arg, to, guarded) ==
    [cmd |-> cmd, arg |-> arg, to |-> to, guarded |-> guarded,
     visit |-> visits, step |-> 1]
Commands == {"install", "local", "uninstall", "toggle", "remove"}
Reads == {"lists", "catalog", "skills"}

Mine(c) == view.open /\ c.visit = visits

Init ==
    /\ MarketInit
    /\ view = Closed /\ calls = <<>> /\ adds = {}
    /\ uses = 0 /\ visits = 0 /\ failures = 0 /\ crashes = 0
    /\ wanted = markets /\ left = FALSE /\ missed = FALSE /\ torn = {}

-----------------------------------------------------------------------------
(* Opening the page reloads everything; so does the Refresh button.        *)
ReloadAll(guarded, visit) ==
    [Call("lists", None, None, guarded) EXCEPT !.visit = visit]

Visit ==
    /\ ~view.open /\ visits < MaxVisits
    /\ visits' = visits + 1
    /\ view' = Fresh
    /\ calls' = Append(calls, ReloadAll(FALSE, visits + 1))
    /\ missed' = TRUE
    /\ UNCHANGED <<disk, adds, uses, failures, crashes, wanted, left, torn>>

Leave ==
    /\ view.open
    /\ view' = Closed
    /\ left' = (left \/ view.busy)
    /\ UNCHANGED <<disk, calls, adds, bounds, wanted, missed, torn>>

Refresh ==
    /\ view' = [view EXCEPT !.loading = TRUE]
    /\ calls' = Append(calls, ReloadAll(FALSE, visits))
    /\ UNCHANGED adds

(* runGuarded: ignored while an operation of this page is running.         *)
MRunGuarded(c) ==
    /\ view' = [view EXCEPT !.busy = TRUE]
    /\ calls' = Append(calls, c)
    /\ UNCHANGED adds
RunGuarded(c) ==
    /\ ~view.busy
    /\ view' = [view EXCEPT !.busy = TRUE]
    /\ calls' = Append(calls, c)
    /\ UNCHANGED adds

(* What the directory lists: the entries of one scope, all or installed.   *)
Directory(scope, installedOnly) ==
    {id \in view.catalog :
        /\ (scope = "personal") = (id[1] = Local)
        /\ installedOnly => id \in DOMAIN view.installed}

Card(id) == \E scope \in {"public", "personal"}, only \in BOOLEAN :
                id \in Directory(scope, only)

(* A card's menu offers what the installed list says of the entry.         *)
CardInstall ==
    \E id \in Ids \ DOMAIN view.installed :
        Card(id) /\ RunGuarded(Call("install", id, None, TRUE))

CardUninstall ==
    \E id \in DOMAIN view.installed :
        Card(id) /\ RunGuarded(Call("uninstall", id, None, TRUE))

Toggle(id) == RunGuarded(Call("toggle", id, ~view.installed[id], TRUE))
CardToggle == \E id \in DOMAIN view.installed : Card(id) /\ Toggle(id)

(* The tiles of the installed strip.                                       *)
TileToggle == \E id \in DOMAIN view.installed : Toggle(id)

(* The marketplace dialog goes by what the catalogue says of the entry.    *)
DialogInstall ==
    \E id \in view.catalog \ view.marked :
        RunGuarded(Call("install", id, None, TRUE))

(* The folder dialog is modal, so nothing starts while it is open.         *)
AddLocal ==
    \E p \in Plugins : RunGuarded(Call("local", <<Local, p>>, None, TRUE))

DialogRemove ==
    \E n \in view.markets : RunGuarded(Call("remove", n, None, TRUE))

(* A typed source or the suggested one, which is offered even when it has  *)
(* been added: it is looked for among names that cannot contain a slash.   *)
DialogAdd ==
    /\ ~view.busy
    /\ \E s \in Sources :
        /\ view' = [view EXCEPT !.busy = TRUE]
        /\ adds' = adds \cup {[visit |-> visits, source |-> s,
                               at |-> "sent", read |-> <<>>]}
        /\ UNCHANGED calls

User ==
    /\ view.open /\ uses < MaxUses
    /\ uses' = uses + 1
    /\ \/ Refresh \/ CardInstall \/ CardUninstall \/ CardToggle \/ TileToggle
       \/ AddLocal \/ DialogInstall \/ DialogRemove \/ DialogAdd
    /\ UNCHANGED <<disk, visits, failures, crashes, ghosts>>

-----------------------------------------------------------------------------
(* The end of a guarded operation: a reload, or an error notice.           *)
MOpDone(c, others) ==
    /\ calls' = others
    /\ view' = IF Mine(c) THEN [view EXCEPT !.busy = FALSE] ELSE view
OpDone(c, others) ==
    /\ calls' = Append(others, ReloadAll(TRUE, c.visit))
    /\ view' = IF Mine(c) THEN [view EXCEPT !.loading = TRUE] ELSE view

OpFailed(c, others) ==
    /\ calls' = others
    /\ view' = IF Mine(c) THEN [view EXCEPT !.busy = FALSE] ELSE view

(* The reads of a reload; catalog asks for the markets lists returned.     *)
ServeLists(c) ==
    /\ c.cmd = "lists"
    /\ calls' = Append(Tail(calls), [c EXCEPT !.cmd = "catalog",
                                              !.arg = DOMAIN markets])
    /\ view' = IF Mine(c) THEN [view EXCEPT !.installed = Listed,
                                            !.markets = DOMAIN markets]
               ELSE view
    /\ missed' = (missed /\ ~Mine(c))

ServeCatalog(c) ==
    /\ c.cmd = "catalog"
    /\ calls' = Append(Tail(calls), [c EXCEPT !.cmd = "skills", !.arg = None])
    /\ view' = IF Mine(c)
               THEN [view EXCEPT !.catalog = UNION {Entries(n) : n \in c.arg},
                                 !.marked = DOMAIN installed]
               ELSE view
    /\ UNCHANGED missed

ServeSkills(c) ==
    /\ c.cmd = "skills"
    /\ calls' = Tail(calls)
    /\ view' = IF Mine(c) THEN [view EXCEPT !.skills = Skills,
                                            !.loading = FALSE,
                                            !.busy = @ /\ ~c.guarded]
               ELSE view
    /\ UNCHANGED missed

Serve ==
    /\ calls # <<>>
    /\ LET c == Head(calls) IN
           ServeLists(c) \/ ServeCatalog(c) \/ ServeSkills(c)
    /\ UNCHANGED <<disk, adds, bounds, wanted, left, torn>>

(* The plugin an operation under way may leave in pieces, if cut short.    *)
Torn(c) ==
    (IF c.cmd \in {"install", "local"} /\ c.step > 1
        /\ c.arg \in DOMAIN installed THEN {c.arg} ELSE {})
    \cup (IF c.cmd \in {"install", "local", "uninstall"} /\ c.step > 1
          THEN {None} ELSE {})

(* One step of the command at the head of the queue.                       *)
Refuse ==
    /\ calls # <<>>
    /\ LET c == Head(calls) IN
           /\ c.cmd \in Commands /\ c.step = 1 /\ Refused(c.cmd, c.arg)
           /\ OpFailed(c, Tail(calls))
    /\ missed' = TRUE
    /\ UNCHANGED <<disk, adds, bounds, wanted, left, torn>>

Perform ==
    /\ calls # <<>> /\ Head(calls).cmd \in Commands
    /\ LET c  == Head(calls)
           op == Program(c.cmd)[c.step]
       IN  /\ c.step = 1 => ~Refused(c.cmd, c.arg)
           /\ Do(op, c)
           /\ wanted' = IF op = "drop" THEN Without(wanted, c.arg) ELSE wanted
           /\ missed' = (missed \/ ~Mine(c))
           /\ torn' = CASE op = "copy" -> torn \ {c.arg}
                        [] op = "sync" -> torn \ {None}
                        [] OTHER -> torn
           /\ IF c.step = Len(Program(c.cmd)) THEN OpDone(c, Tail(calls))
              ELSE /\ calls' = [calls EXCEPT ![1].step = @ + 1,
                          ![1].to = IF op = "drop" THEN markets[c.arg] ELSE @]
                   /\ UNCHANGED view
    /\ UNCHANGED <<adds, bounds, left>>

PerformFails ==
    /\ calls # <<>> /\ Head(calls).cmd \in Commands
    /\ failures < MaxFailures
    /\ failures' = failures + 1
    /\ LET c == Head(calls) IN
           /\ c.step = 1 => ~Refused(c.cmd, c.arg)
           /\ Fail(Program(c.cmd)[c.step], c)
           /\ torn' = torn \cup Torn(c)
           /\ OpFailed(c, Tail(calls))
    /\ missed' = TRUE
    /\ UNCHANGED <<adds, uses, visits, crashes, wanted, left>>

-----------------------------------------------------------------------------
(* plugin_marketplace_add.                                                 *)
Becomes(a, at, read) == adds' = (adds \ {a}) \cup {[a EXCEPT !.at = at, !.read = read]}

AddStarts(a) ==
    /\ a.at = "sent"
    /\ IF a.source \in Cloned THEN RemoveClone(a.source) ELSE UNCHANGED disk
    /\ Becomes(a, IF a.source \in Cloned THEN "cloning" ELSE "found", <<>>)
    /\ missed' = (missed \/ ~Mine(a))
    /\ UNCHANGED <<view, calls, failures, wanted>>

AddCloned(a) ==
    /\ a.at = "cloning"
    /\ FinishClone(a.source)
    /\ Becomes(a, "found", <<>>)
    /\ missed' = (missed \/ ~Mine(a))
    /\ UNCHANGED <<view, calls, failures, wanted>>

(* The list is read here and written at the next step.                     *)
AddReads(a) ==
    /\ a.at = "found"
    /\ Becomes(a, "read", markets)
    /\ UNCHANGED <<disk, view, calls, failures, wanted, missed>>

AddSaves(a) ==
    /\ a.at = "read"
    /\ SaveAdded(a.source, a.read)
    /\ adds' = adds \ {a}
    /\ wanted' = With(wanted, NameOf[a.source], a.source)
    /\ missed' = (missed \/ ~Mine(a))
    /\ OpDone(a, calls)
    /\ UNCHANGED failures

(* The clone fails or times out, or the list cannot be written.            *)
AddFails(a) ==
    /\ a.at \in {"cloning", "read"} /\ failures < MaxFailures
    /\ failures' = failures + 1
    /\ adds' = adds \ {a}
    /\ missed' = TRUE
    /\ OpFailed(a, calls)
    /\ UNCHANGED <<disk, wanted>>

Add ==
    /\ \E a \in adds : AddStarts(a) \/ AddCloned(a) \/ AddReads(a)
                       \/ AddSaves(a) \/ AddFails(a)
    /\ UNCHANGED <<uses, visits, crashes, left, torn>>

(* The process dies; the files stay as they are.                           *)
Crash ==
    /\ crashes < MaxCrashes
    /\ crashes' = crashes + 1
    /\ view' = Closed /\ calls' = <<>> /\ adds' = {}
    /\ torn' = torn \cup (IF calls # <<>> THEN Torn(Head(calls)) ELSE {})
    /\ UNCHANGED <<disk, uses, visits, failures, wanted, left, missed>>

Next == Visit \/ Leave \/ User \/ Serve \/ Refuse \/ Perform \/ PerformFails
        \/ Add \/ Crash

Spec == Init /\ [][Next]_vars

-----------------------------------------------------------------------------

Operating(id) ==
    /\ calls # <<>>
    /\ Head(calls).cmd \in {"install", "local", "uninstall"}
    /\ Head(calls).arg = id /\ Head(calls).step > 1

(* market.rs: a plugin in the list has its files behind it, in whatever    *)
(* step a command fails or the process dies; only a reinstallation that is *)
(* cut short breaks what was there.                                        *)
FilesBehindRecords ==
    \A id \in DOMAIN installed \ torn : copies[id] = "whole" \/ Operating(id)

(* "Keep a personal marketplace catalog in sync": it lists the installed   *)
(* plugins, unless the command that should have written it was cut short.  *)
PersonalFollows ==
    (None \notin torn /\ ~\E id \in Ids : Operating(id))
        => personal = DOMAIN installed

(* plugin_marketplace_add holds no lock between reading the list and       *)
(* writing it; the page's guard is what keeps a removal or another add     *)
(* from being lost, as long as the page is not left meanwhile.             *)
NoLostMarket == ~left => markets = wanted

(* When nothing is under way the open page shows what the files hold,      *)
(* unless an operation failed or one of an earlier visit came in between.  *)
ShownIsCurrent ==
    (view.open /\ calls = <<>> /\ adds = {} /\ ~missed) =>
        /\ view.installed = Listed
        /\ view.markets = DOMAIN markets
        /\ view.catalog = UNION {Entries(n) : n \in DOMAIN markets}
        /\ view.skills = Skills
        /\ ~view.busy /\ ~view.loading

=============================================================================
