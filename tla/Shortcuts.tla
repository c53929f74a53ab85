------------------------------ MODULE Shortcuts ------------------------------
(***************************************************************************)
(* The menus of the title bar (shell/menuTree.ts), the bindings they stand *)
(* in for until list_shortcuts has answered (AppShell.tsx), how a key      *)
(* press is matched with a binding (useShortcuts.ts), and what the actions *)
(* do to the page (actions.ts).  Labels and separators are left out, and a *)
(* press is told by the event's key, its modifiers and whether a text      *)
(* field has the focus.  "grave" is the grave accent, which TLA+ strings   *)
(* cannot hold.                                                            *)
(***************************************************************************)
LOCAL INSTANCE Naturals
LOCAL INSTANCE Sequences
LOCAL INSTANCE SequencesExt

Item(action, keys) == [action |-> action, keys |-> keys]
Ctrl(key)          == <<"Ctrl", key>>
NoKeys             == <<>>

MenuTree ==
    [file |-> <<Item("new-task", Ctrl("N")),
                Item("new-projectless-task", <<"Ctrl", "Alt", "O">>),
                Item("open-folder", Ctrl("O")), Item("close", Ctrl("W")),
                Item("settings", Ctrl(",")), Item("logout", NoKeys),
                Item("exit", Ctrl("Q"))>>,
     edit |-> <<Item("undo", Ctrl("Z")), Item("redo", Ctrl("Y")),
                Item("cut", Ctrl("X")), Item("copy", Ctrl("C")),
                Item("paste", Ctrl("V")), Item("delete", <<"Del">>),
                Item("select-all", Ctrl("A"))>>,
     view |-> <<Item("toggle-sidebar", Ctrl("B")),
                Item("toggle-bottom-panel", Ctrl("J")),
                Item("toggle-file-tree", NoKeys),
                Item("open-terminal", Ctrl("grave")), Item("find", Ctrl("F")),
                Item("previous-task", NoKeys), Item("next-task", NoKeys),
                Item("zoom-in", Ctrl("=")), Item("zoom-out", Ctrl("-")),
                Item("actual-size", Ctrl("0")),
                Item("toggle-fullscreen", <<"F11">>)>>,
     help |-> <<Item("documentation", NoKeys), Item("whats-new", NoKeys),
                Item("keyboard-shortcuts", <<"Ctrl", "Shift", "/">>),
                Item("troubleshooting", NoKeys), Item("system-status", NoKeys),
                Item("send-feedback", NoKeys), Item("about", NoKeys)>>]

MenuNames == DOMAIN MenuTree
ActionsOf(menu) == {MenuTree[menu][n].action : n \in DOMAIN MenuTree[menu]}

(* normaliseBindings and menuFallbackBindings: what has no keys is no      *)
(* binding.  A stored list takes the place of the menus' unless it is      *)
(* empty then.                                                             *)
NormaliseBindings(list) == SelectSeq(list, LAMBDA b : b.keys # NoKeys)
MenuFallbackBindings ==
    NormaliseBindings(FlattenSeq(<<MenuTree.file, MenuTree.edit, MenuTree.view,
                                   MenuTree.help>>))
Bindings(stored) ==
    IF NormaliseBindings(stored) = <<>> THEN MenuFallbackBindings
    ELSE NormaliseBindings(stored)

-----------------------------------------------------------------------------
(* A press, by event.key: normalizeKey.                                    *)
Modifiers == <<"Ctrl", "Shift", "Alt", "Meta">>
Upper == [a |-> "A", b |-> "B", c |-> "C", f |-> "F", j |-> "J", n |-> "N",
          o |-> "O", q |-> "Q", v |-> "V", w |-> "W", x |-> "X", y |-> "Y",
          z |-> "Z"]
NormalizeMainKey(key) ==
    CASE key = " "         -> "Space"
      [] key = "Escape"    -> "Esc"
      [] key = "ArrowUp"   -> "Up"
      [] key = "ArrowDown" -> "Down"
      [] key = "ArrowLeft" -> "Left"
      [] key = "ArrowRight" -> "Right"
      [] key \in DOMAIN Upper -> Upper[key]
      [] OTHER             -> key
NormalizeKey(press) ==
    Append(SelectSeq(Modifiers, LAMBDA m : m \in press.mods),
           NormalizeMainKey(press.key))

(* A plain key typed into a field is text, and editing is the webview's.   *)
AlwaysAllowed == {"Escape", "Enter", "Tab"}
IsTyping(press) ==
    /\ press.typing /\ press.key \notin AlwaysAllowed
    /\ press.mods \cap {"Ctrl", "Alt", "Meta"} = {}
EditPassthrough == {"undo", "redo", "cut", "copy", "paste", "delete",
                    "select-all", "selectAll"}

(* The action of the first binding with the press's keys, if it is         *)
(* dispatched: the set of it, or none.                                     *)
Dispatched(bindings, press) ==
    LET n == SelectInSeq(bindings, LAMBDA b : b.keys = NormalizeKey(press))
    IN  IF IsTyping(press) \/ n = 0 THEN {}
        ELSE {bindings[n].action} \ EditPassthrough

(* What dispatchAction does to the route and the turn, by kind.            *)
Effect(action) ==
    CASE action \in {"new-task", "new-projectless-task"}  -> "new-task"
      [] action \in {"settings", "about", "keyboard-shortcuts", "logout",
                     "show-pet"}                          -> "settings"
      [] action \in {"previous-task", "next-task"}        -> "step-task"
      [] action = "open-terminal"                         -> "home"
      [] OTHER                                            -> "other"

(* findConflicts: the keys that stand for more than one binding.           *)
FindConflicts(bindings) ==
    {bindings[n].keys : n \in {m \in DOMAIN bindings :
         \E k \in DOMAIN bindings : k # m /\ bindings[k].keys = bindings[m].keys}}

(* The first match of a press is the only one in the menus' bindings.      *)
ASSUME MenuBindingsAreDistinct == FindConflicts(MenuFallbackBindings) = {}
=============================================================================
