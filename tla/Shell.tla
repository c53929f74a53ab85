-------------------------------- MODULE Shell --------------------------------
(***************************************************************************)
(* The application shell: the menus of the title bar (TitleBar.tsx), the   *)
(* composer (Composer.tsx, ComposerPopover.tsx), the sidebar               *)
(* (Dropdown.tsx, ContextMenu.tsx) and what they, the native menu and the  *)
(* keyboard dispatch (actions.ts, useShortcuts.ts), over Router and        *)
(* Approvals.                                                              *)
(*                                                                         *)
(* Each menu closes itself, by listeners of its own on the document: there *)
(* is no owner that knows which are open.  A click is a pointerdown, which *)
(* the open menus see first, and then the click of its target; a key       *)
(* activates a control without a pointerdown.                              *)
(*                                                                         *)
(* Of an action's effects only the route and what it does to the pending   *)
(* requests are kept: sessions are the subject of TurnStore and Composer,  *)
(* settings of SettingsSync.  Zoom, clipboard, window and external links   *)
(* are left out.                                                           *)
(***************************************************************************)
EXTENDS Approvals, Shortcuts

CONSTANTS
    TitleMenus, (* the menus of the title bar the user opens               *)
    Dropdowns,  (* those of the sidebar                                    *)
    Stored,     (* what list_shortcuts may answer                          *)
    Presses     (* keys the user presses                                   *)

ASSUME ShellAssumption == TitleMenus \subseteq MenuNames

Pills == {"permission", "model", "project"}

VARIABLES
    open,       (* what is open: title, pill, drops                        *)
    context,    (* a task's context menu: hidden, visible, or deleting the
                   task, which it stays visible for                        *)
    deletingRow,(* a task is being deleted by the button of its row: like
                   the other, told apart from none only                    *)
    by          (* ghost: the last input was a pointer or a key            *)

menuVars == <<open, context, deletingRow, by>>
vars == <<routerVars, approvalVars, menuVars>>

Closed == [title |-> None, pill |-> None, drops |-> {}]

Init == /\ RouterInit /\ ApprovalsInit
        /\ open = Closed /\ by = "pointer"
        /\ context = "hidden" /\ deletingRow = FALSE

-----------------------------------------------------------------------------
(* Where a pointer goes down: the title bar, a pill or its menu, a         *)
(* dropdown's button, its list, the label inside the button, elsewhere.    *)
Button(d) == <<"button", d>>
List(d)   == <<"list", d>>
Label(d)  == <<"label", d>>
Bar       == <<"bar", None>>
PillArea  == <<"pills", None>>
Elsewhere == <<"elsewhere", None>>

(* The listeners of the open menus.  A dropdown's compares the target with *)
(* the button itself, so the label inside the button is outside.           *)
MPointerDown(at) ==
    [title |-> IF at = Bar THEN open.title ELSE None,
     pill  |-> IF at \in {Bar, PillArea} THEN open.pill ELSE None,
     drops |-> {d \in open.drops : at \in {Button(d), List(d)}}]
PointerDown(at) ==
    [title |-> IF at = Bar THEN open.title ELSE None,
     pill  |-> IF at = PillArea THEN open.pill ELSE None,
     drops |-> {d \in open.drops : at \in {Button(d), List(d)}}]

(* What is open when a control at a place gets its click, from either      *)
(* device.                                                                 *)
Hit(at, device) ==
    /\ by' = device
    /\ device = "key" => at # Elsewhere
Before(at, device) == IF device = "pointer" THEN PointerDown(at) ELSE open

KeepMenus == UNCHANGED menuVars
KeepTasks == UNCHANGED <<context, deletingRow>>
KeepPlace == UNCHANGED <<routerVars, approvalVars>>
KeepCards == UNCHANGED approvalVars

Toggled(value, name) == IF value = name THEN None ELSE name

-----------------------------------------------------------------------------
(* Stepping to the next or the previous task loads it, unless its turn is  *)
(* live; without a task it does nothing.                                   *)
StepTask == \/ Navigate("home") /\ (Wipe \/ KeepCards)
            \/ KeepPlace

(* dispatchAction, by kind.  A new task resets the turn.                   *)
Dispatch(effect) ==
    CASE effect = "new-task"  -> Navigate("home") /\ Wipe
      [] effect = "step-task" -> StepTask
      [] effect = "settings"  -> (\E s \in Settings : Navigate(s)) /\ KeepCards
      [] effect = "home"      -> Navigate("home") /\ KeepCards
      [] OTHER                -> KeepPlace

(* What the menus do, what the keys do by the bindings of the menus or the *)
(* stored ones once they have been read, and what the native menu does.    *)
MenuEffects == [m \in MenuNames |-> {Effect(a) : a \in ActionsOf(m)}]
KeyEffects ==
    {Effect(a) : a \in UNION {Dispatched(Bindings(stored), press) :
                                stored \in Stored \cup {<<>>}, press \in Presses}}
NativeEffects == UNION {MenuEffects[m] : m \in MenuNames}

(* The title bar is always there.                                          *)
ToggleTitle(m, device) ==
    /\ Hit(Bar, device)
    /\ LET o == Before(Bar, device) IN
       open' = [o EXCEPT !.title = Toggled(@, m)]
    /\ KeepPlace /\ KeepTasks

(* run: closes the menu, then dispatches.                                  *)
PickItem(device) ==
    /\ open.title # None /\ Hit(Bar, device)
    /\ open' = [Before(Bar, device) EXCEPT !.title = None]
    /\ \E e \in MenuEffects[open.title] : Dispatch(e)
    /\ KeepTasks

(* The buttons of the window; the sidebar's next to them does as little.   *)
WindowButton(device) ==
    /\ Hit(Bar, device) /\ open' = Before(Bar, device)
    /\ Dispatch("other") /\ KeepTasks

(* A shortcut and the native menu dispatch with whatever is open.          *)
Shortcut == /\ by' = "key" /\ UNCHANGED open /\ KeepTasks
            /\ \E e \in KeyEffects : Dispatch(e)
NativeMenu == /\ by' = "key" /\ UNCHANGED open /\ KeepTasks
              /\ \E e \in NativeEffects : Dispatch(e)

-----------------------------------------------------------------------------
(* The composer's pills, while the home page is on screen.                 *)
ToggleMenu(p, device) ==
    /\ HomeShown /\ Hit(PillArea, device)
    /\ LET o == Before(PillArea, device) IN
       open' = [o EXCEPT !.pill = Toggled(@, p)]
    /\ KeepPlace /\ KeepTasks

InPill(p, device) == HomeShown /\ open.pill = p /\ Hit(PillArea, device)
                     /\ KeepTasks
ClosePill(device) == open' = [Before(PillArea, device) EXCEPT !.pill = None]
KeepPill(device)  == open' = Before(PillArea, device)
ToSettings        == (\E s \in Settings : Navigate(s)) /\ KeepCards

(* A mode, or the page that explains them.                                 *)
PickPermission(device) ==
    InPill("permission", device) /\ ClosePill(device) /\ (KeepPlace \/ ToSettings)

(* The slider, its reset and the heading of the list leave the panel open; *)
(* a model closes it, as does the way to the providers if there is none.   *)
PickModel(device) ==
    /\ InPill("model", device)
    /\ \/ KeepPill(device) /\ KeepPlace
       \/ ClosePill(device) /\ (KeepPlace \/ ToSettings)

(* A project, a new one, or none; the filter leaves the menu open.         *)
PickProject(device) ==
    /\ InPill("project", device) /\ KeepPlace
    /\ ClosePill(device) \/ KeepPill(device)

-----------------------------------------------------------------------------
(* The sidebar, which the settings hide.                                   *)
ToggleDrop(d, at, device) ==
    /\ ~SettingsOpen /\ Hit(at, device)
    /\ LET o == Before(at, device) IN
       open' = [o EXCEPT !.drops = IF d \in @ THEN @ \ {d} ELSE @ \cup {d}]
    /\ KeepPlace /\ KeepTasks

CommitDrop(d, device) ==
    /\ ~SettingsOpen /\ d \in open.drops /\ Hit(List(d), device)
    /\ open' = [Before(List(d), device) EXCEPT !.drops = @ \ {d}]
    /\ KeepPlace /\ KeepTasks

(* The sidebar's own buttons: search and notifications, the pages and a    *)
(* new task, the badge of the pending requests, the rows of the tasks, the *)
(* profile and help.  A project's row changes the settings alone.          *)
BrandButton == Dispatch("other") \/ Dispatch("settings")
NavItem     == \/ \E route \in Discovery : Navigate(route) /\ KeepCards
               \/ Navigate("home") /\ Wipe
Badge       == pending # {} /\ Navigate("home") /\ KeepCards
ProjectRow  == KeepPlace
TaskRow     == Navigate("home") /\ (Wipe \/ KeepCards)
FootButton  == (\E s \in Settings : Navigate(s)) /\ KeepCards

ClickSidebar ==
    /\ ~SettingsOpen /\ Hit(Elsewhere, "pointer")
    /\ open' = Before(Elsewhere, "pointer")
    /\ BrandButton \/ NavItem \/ Badge \/ ProjectRow \/ TaskRow \/ FootButton
    /\ KeepTasks

(* SettingsShell: back and close, and its tabs.                            *)
ClickSettings ==
    /\ SettingsOpen /\ Hit(Elsewhere, "pointer")
    /\ open' = Before(Elsewhere, "pointer")
    /\ (\E s \in Settings \cup {"home"} : Navigate(s)) /\ KeepCards
    /\ KeepTasks

-----------------------------------------------------------------------------
(* The context menu: nothing but a deletion hides it, and a deletion the   *)
(* user does not confirm does not either.  A second deletion while one is  *)
(* under way is not told apart.                                            *)
ShowContext ==
    /\ ~SettingsOpen /\ Hit(Elsewhere, "pointer")
    /\ open' = Before(Elsewhere, "pointer")
    /\ context' = IF context = "hidden" THEN "visible" ELSE context
    /\ KeepPlace /\ UNCHANGED deletingRow

DeleteSession ==
    /\ context # "hidden" /\ ~SettingsOpen /\ Hit(Elsewhere, "pointer")
    /\ open' = Before(Elsewhere, "pointer")
    /\ context' \in {"deleting", context}
    /\ KeepPlace /\ UNCHANGED deletingRow

(* Its answer: the turn is reset whichever task was deleted, unless the    *)
(* command failed.                                                         *)
SessionDeleted ==
    /\ context = "deleting" /\ context' = "hidden"
    /\ Wipe \/ KeepCards
    /\ UNCHANGED <<routerVars, open, deletingRow, by>>

(* The button of a row asks for the same confirmation.  Its answer resets  *)
(* the turn only if the task was the selected one at the click.            *)
DeleteRow ==
    /\ ~SettingsOpen /\ Hit(Elsewhere, "pointer")
    /\ open' = Before(Elsewhere, "pointer")
    /\ deletingRow' \in {TRUE, deletingRow}
    /\ KeepPlace /\ UNCHANGED context

RowDeleted ==
    /\ deletingRow /\ deletingRow' = FALSE
    /\ Wipe \/ KeepCards
    /\ UNCHANGED <<routerVars, open, context, by>>

-----------------------------------------------------------------------------
Escape == open # Closed /\ open' = Closed /\ by' = "key" /\ KeepPlace
          /\ KeepTasks
Blur   == open.pill # None /\ open' = [open EXCEPT !.pill = None] /\ KeepPlace
          /\ UNCHANGED by /\ KeepTasks

(* A click that hits no control, or one that opens nothing.                *)
ClickAway == /\ Hit(Elsewhere, "pointer") /\ open # Before(Elsewhere, "pointer")
             /\ open' = Before(Elsewhere, "pointer")
             /\ KeepPlace /\ KeepTasks

(* A route change takes the composer, with its menu, and the cards along.  *)
RouteChanged ==
    /\ OnChange
    /\ IF HomeLeft THEN open' = [open EXCEPT !.pill = None] /\ UnmountCards
                   ELSE UNCHANGED open /\ KeepCards
    /\ UNCHANGED by /\ KeepTasks

BackForward == Traverse /\ KeepCards /\ KeepMenus

Devices == {"pointer", "key"}

Clicks ==
    \E device \in Devices :
       \/ \E m \in TitleMenus : ToggleTitle(m, device)
       \/ PickItem(device) \/ WindowButton(device)
       \/ \E p \in Pills : ToggleMenu(p, device)
       \/ PickPermission(device) \/ PickModel(device) \/ PickProject(device)
       \/ \E d \in Dropdowns :
             \/ \E at \in {Button(d), Label(d)} : ToggleDrop(d, at, device)
             \/ CommitDrop(d, device)

(* The user's inputs, once there is a page.                                *)
Input ==
    \/ Clicks \/ ClickSidebar \/ ClickSettings \/ ClickAway \/ Escape \/ Blur
    \/ ShowContext \/ DeleteSession \/ DeleteRow \/ BackForward
    \/ Shortcut \/ NativeMenu

Next ==
    \/ appMounted /\ Input
    \/ SessionDeleted \/ RowDeleted \/ RouteChanged
    \/ ApprovalsNext /\ UNCHANGED <<routerVars, menuVars>>

Spec == Init /\ [][Next]_vars
-----------------------------------------------------------------------------
(* After a click of the pointer at most one of the menus that close        *)
(* themselves is open: each has its own idea of outside, and with the      *)
(* keyboard any number may have been opened before.                        *)
OneMenu ==
    by = "pointer" =>
       Cardinality(({open.title, open.pill} \ {None}) \cup open.drops) <= 1

(* A card on the list is for a request the server still waits for, unless  *)
(* the news of its end is on its way: requests are not listened for before *)
(* the channel of their end is settled.  That channel must have been bound.*)
NoGhostCard ==
    channels["resolved"] = "bound" =>
       \A r \in pending :
          \/ server[r].at = "waiting"
          \/ \E i \in 1..Len(events) : events[i] = <<"resolved", r>>

(* A card whose buttons are disabled has one answer of its own under way,  *)
(* and a card that can be used has none: whatever removal, failure and the *)
(* unmounting of the page do to the call, no card waits for a call that    *)
(* has returned, and none sends a second answer while its first is out.    *)
BusyCardsAnswer ==
    \A r \in Requests :
       LET own == {x \in replies : x.of = r /\ x.mine} IN
       IF card[r] = "busy" THEN \E x \in replies : own = {x} ELSE own = {}

-----------------------------------------------------------------------------
(* What the documentation and comments say, and the code does not do.      *)

(* decisions.ts: "The UI renders exactly those, so a decision we were not  *)
(* offered can never be sent", and the defaults are for a missing list     *)
(* only, "never when it is present-but-empty".  They are for a list        *)
(* without a decision the page knows, too.                                 *)
OnlyOffered ==
    \A x \in replies :
       LET offer == server[x.of].offer IN offer # None => x.decision \in offer

(* respond_server_request: it says that there is "no pending request" so   *)
(* that "a UI that shows an approval card learns the card is stale".  The  *)
(* card goes away on any answer, and nothing has been settled.             *)
AnsweredMeansSettled ==
    \A x \in replies : x.at = "answered" => server[x.of].at = "settled"
=============================================================================
