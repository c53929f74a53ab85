----------------------------- MODULE PluginMarket -----------------------------
(***************************************************************************)
(* The plugin market, src-tauri/src/commands/market.rs: marketplaces.json, *)
(* installed.json and marketplace-personal.json, a directory per cloned    *)
(* marketplace and one per installed plugin.  Nothing is kept in memory    *)
(* and nothing is locked: every command reads the files it needs.          *)
(*                                                                         *)
(* A command is a program, a sequence of file operations; the process may  *)
(* die between any two of them and some may fail.  All commands run on the *)
(* main thread, one at a time, except plugin_marketplace_add, which is     *)
(* async: its operations interleave with those of the others.              *)
(*                                                                         *)
(* Abstracted: a source is what the user types (owner/repo, a Git URL, a   *)
(* folder); parse_source decides which directory it is cloned to and the   *)
(* catalogue in it names the marketplace.  A plugin's files are absent,    *)
(* partly there or whole.  write_json is atomic (temporary file, rename).  *)
(***************************************************************************)
EXTENDS Naturals, Sequences, Functions

CONSTANTS
    Sources,    (* what a marketplace can be added from                    *)
    Cloned,     (* those that are git repositories                         *)
    NameOf,     (* the name in a source's catalogue                        *)
    DirOf,      (* the directory a repository is cloned to                 *)
    Offers,     (* the plugins in a source's catalogue                     *)
    Kept,       (* those an earlier run of the program may have added      *)
    Local,      (* the marketplace of plugins added from a folder          *)
    None

Names   == {NameOf[s] : s \in Sources}
Dirs    == {DirOf[s] : s \in Cloned}
Plugins == UNION {Offers[s] : s \in Sources}
Ids     == (Names \cup {Local}) \X Plugins

ASSUME MarketAssumption ==
    /\ Cloned \subseteq Sources /\ Kept \subseteq Sources
    /\ None \notin Sources \cup Ids

VARIABLES
    clone,      (* what each directory under sources/ holds                *)
    markets,    (* marketplaces.json: the records, keyed by name           *)
    installed,  (* installed.json: enabled, keyed by id                    *)
    copies,     (* the directories under installed/                        *)
    personal    (* marketplace-personal.json                               *)

disk == <<clone, markets, installed, copies, personal>>

(* The files as earlier runs of the program may have left them: some       *)
(* sources added, some of their plugins installed.                         *)
MarketInit ==
    \E known \in SUBSET Kept :
        /\ \A s, r \in known : NameOf[s] = NameOf[r] => s = r
        /\ markets = [n \in {NameOf[s] : s \in known} |->
                         CHOOSE s \in known : NameOf[s] = n]
        /\ clone = [d \in Dirs |-> IF \E s \in known \cap Cloned : DirOf[s] = d
                        THEN CHOOSE s \in known \cap Cloned : DirOf[s] = d
                        ELSE None]
        /\ \E on \in SUBSET {i \in Ids : \E s \in known :
                            i[1] = NameOf[s] /\ i[2] \in Offers[s]} :
               /\ installed = [i \in on |-> TRUE]
               /\ copies = [i \in Ids |-> IF i \in on THEN "whole" ELSE "none"]
               /\ personal = on

-----------------------------------------------------------------------------
(* What is found behind a marketplace record: the catalogue in its folder. *)
Catalog(n) ==
    IF n \notin DOMAIN markets THEN None
    ELSE IF markets[n] \in Cloned THEN clone[DirOf[markets[n]]] ELSE markets[n]

(* plugin_marketplace_plugins; an error is an empty list to the UI.        *)
Entries(n) ==
    IF Catalog(n) = None THEN {} ELSE {n} \X Offers[Catalog(n)]

(* plugin_installed drops the records whose directory has vanished.        *)
Listed == Restrict(installed, {i \in DOMAIN installed : copies[i] # "none"})

(* plugin_skills: the skills of enabled plugins, found in their folders.   *)
Skills == {i \in DOMAIN installed : installed[i] /\ copies[i] # "none"}

-----------------------------------------------------------------------------
(* The synchronous commands: what they refuse and what they do.            *)
Refused(cmd, arg) ==
    CASE cmd = "install"   -> arg \notin Entries(arg[1])
      [] cmd = "local"     -> FALSE
      [] cmd = "uninstall" -> arg \notin DOMAIN installed
      [] cmd = "toggle"    -> arg \notin DOMAIN installed
      [] cmd = "remove"    -> arg \notin DOMAIN markets

MProgram(cmd) ==
    CASE cmd \in {"install", "local"} -> <<"clear", "record", "copy", "sync">>
      [] cmd = "uninstall" -> <<"clear", "forget", "sync">>
      [] cmd = "toggle" -> <<"flip">>
      [] cmd = "remove" -> <<"drop", "clean">>
Program(cmd) ==
    CASE cmd \in {"install", "local"} -> <<"clear", "copy", "record", "sync">>
      [] cmd = "uninstall" -> <<"forget", "clear", "sync">>
      [] cmd = "toggle" -> <<"flip">>
      [] cmd = "remove" -> <<"drop", "clean">>

With(f, x, v) == [y \in {x} \cup DOMAIN f |-> IF y = x THEN v ELSE f[y]]
Without(f, x) == Restrict(f, DOMAIN f \ {x})

(* remove_dir_all of an installed plugin                                   *)
Clear(id) ==
    /\ copies' = [copies EXCEPT ![id] = "none"]
    /\ UNCHANGED <<clone, markets, installed, personal>>

Copy(id, result) ==
    /\ copies' = [copies EXCEPT ![id] = result]
    /\ UNCHANGED <<clone, markets, installed, personal>>

Write(records) ==
    /\ installed' = records
    /\ UNCHANGED <<clone, markets, copies, personal>>

MSyncPersonal == UNCHANGED disk
SyncPersonal ==
    /\ personal' = DOMAIN installed
    /\ UNCHANGED <<clone, markets, installed, copies>>

SaveMarkets(records) ==
    /\ markets' = records
    /\ UNCHANGED <<clone, installed, copies, personal>>

(* After the record is gone its clone is removed; gone is what it was.     *)
Clean(gone) ==
    /\ clone' = IF gone \in Cloned THEN [clone EXCEPT ![DirOf[gone]] = None]
                ELSE clone
    /\ UNCHANGED <<markets, installed, copies, personal>>

(* One file operation of a command; toggle carries the new value.          *)
Do(op, c) ==
    CASE op = "clear"  -> Clear(c.arg)
      [] op = "copy"   -> Copy(c.arg, "whole")
      [] op = "record" -> Write(With(installed, c.arg, TRUE))
      [] op = "forget" -> Write(Without(installed, c.arg))
      [] op = "flip"   -> Write([installed EXCEPT ![c.arg] = c.to])
      [] op = "sync"   -> SyncPersonal
      [] op = "drop"   -> SaveMarkets(Without(markets, c.arg))
      [] op = "clean"  -> Clean(c.to)

(* A copy that fails leaves some of the files; a write leaves the old file;*)
(* errors of remove_dir_all are ignored.                                   *)
Fail(op, c) ==
    \/ op = "copy" /\ Copy(c.arg, "part")
    \/ op \in {"record", "forget", "flip", "sync", "drop"} /\ UNCHANGED disk

-----------------------------------------------------------------------------
(* plugin_marketplace_add, on a worker thread: git_clone removes the       *)
(* directory first, the clone may fail, and the records are read and       *)
(* written without anything that keeps the main thread out in between.     *)
RemoveClone(s) ==
    /\ clone' = [clone EXCEPT ![DirOf[s]] = None]
    /\ UNCHANGED <<markets, installed, copies, personal>>

FinishClone(s) ==
    /\ clone' = [clone EXCEPT ![DirOf[s]] = s]
    /\ UNCHANGED <<markets, installed, copies, personal>>

SaveAdded(s, read) == SaveMarkets(With(read, NameOf[s], s))
=============================================================================
