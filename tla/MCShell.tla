------------------------------- MODULE MCShell -------------------------------
(* A small instance of Shell for TLC.                                      *)
EXTENDS Shell

(* An empty list, which the page takes like none at all, and one with a    *)
(* decision it does not know.                                              *)
MCOffers == {{}, {"accept", "later"}}

(* The user has moved a new task to Ctrl+J and left a command without keys.*)
MCStored == {<<[action |-> "new-task", keys |-> <<"Ctrl", "J">>],
               [action |-> "settings", keys |-> <<>>]>>}

(* Ctrl+J, a letter typed into a field, a paste and the settings.          *)
Press(mods, key, typing) == [mods |-> mods, key |-> key, typing |-> typing]
MCPresses == {Press({"Ctrl"}, "j", FALSE), Press({}, "n", TRUE),
              Press({"Ctrl"}, "v", TRUE), Press({"Ctrl"}, ",", TRUE)}

(* Menus and requests meet in the route alone, which the shortcuts and the *)
(* native menu change as menus do: once a request was made, of the menus   *)
(* only the pills, which are unmounted with the cards.                     *)
PillsWithCards ==
    \/ \A r \in Requests : server[r].at = "none"
    \/ open.title = None /\ open.drops = {}
=============================================================================
