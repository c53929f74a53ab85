------------------------------- MODULE Router -------------------------------
(***************************************************************************)
(* The hash router (shell/useRoute.ts) and what it mounts (AppShell.tsx).  *)
(*                                                                         *)
(* Writing location.hash takes effect at once; the route the components    *)
(* read changes when the hashchange event fires, with whatever hash there  *)
(* is by then.  `tasks` holds those events, and the timers of the pages,   *)
(* in the order they were queued: the browser is assumed to run a page's   *)
(* own tasks in that order.  Back and forward change the hash as a         *)
(* navigation does.                                                        *)
(***************************************************************************)
EXTENDS Naturals, Sequences

CONSTANTS
    Discovery,  (* routes of DiscoveryView                                 *)
    Settings,   (* routes of SettingsShell                                 *)
    MaxTasks    (* bound: tasks queued at once                             *)

ASSUME RouterAssumption ==
    /\ "home" \notin Discovery \cup Settings
    /\ Discovery \cap Settings = {}

Routes == {"home"} \cup Discovery \cup Settings

VARIABLES
    hash,       (* the route in location.hash                              *)
    current,    (* the parsed route                                        *)
    tasks

routerVars == <<hash, current, tasks>>

(* installRouter: a deep link is read at the start.  No hash at all is the *)
(* home page; that writing #home over it raises an event changes nothing.  *)
RouterInit ==
    /\ hash \in Routes
    /\ current = hash
    /\ tasks = <<>>

(* What the shell mounts: settings hides the home page and the sidebar,    *)
(* and keeps them mounted; a discovery route unmounts the home page.       *)
Mounted(route) == route \notin Discovery
HomeMounted  == Mounted(current)
SettingsOpen == current \in Settings
HomeShown    == HomeMounted /\ ~SettingsOpen

HashChange == <<"hashchange">>

Navigate(route) ==
    /\ Len(tasks) < MaxTasks
    /\ hash' = route
    /\ tasks' = IF hash = route THEN tasks ELSE Append(tasks, HashChange)
    /\ UNCHANGED current

(* The window's back and forward buttons.                                  *)
Traverse == \E route \in Routes : hash # route /\ Navigate(route)

(* onChange: reads the hash as it is now, which a later navigation may     *)
(* have changed.                                                           *)
OnChange ==
    /\ tasks # <<>> /\ Head(tasks) = HashChange
    /\ current' = hash
    /\ tasks' = Tail(tasks)
    /\ UNCHANGED hash

(* The home page goes away with this step.                                 *)
HomeLeft == HomeMounted /\ ~Mounted(current')
=============================================================================
