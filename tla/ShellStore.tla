------------------------------ MODULE ShellStore ------------------------------
(***************************************************************************)
(* The shell's own store, src-tauri/src/state.rs, and the commands that    *)
(* change its settings, providers and preferences (commands/settings.rs,   *)
(* kernel_config.rs): one struct in memory behind a mutex, one JSON file,  *)
(* and the kernel's provider, which is rebuilt from the struct.            *)
(*                                                                         *)
(* A command changes memory, writes a temporary file, renames it over the  *)
(* store's file, and only then, for settings and providers, rebuilds the   *)
(* provider.  Either file operation may fail, and the process may die      *)
(* before the rename.  The commands modelled here are synchronous: they    *)
(* run one after the other on the main thread.                             *)
(*                                                                         *)
(* Abstracted: a value is the number of the edit it comes from, 0 when it  *)
(* is empty, None when a key of the flattened map is absent.  `model`      *)
(* stands for every setting with a field of its own that the UI writes     *)
(* (model, approval policy, sandbox, language), `theme` for the two that   *)
(* no UI writes (theme, terminal_shell), `flag` for those in the flattened *)
(* `extra` map.  Of the preferences only the list of project folders is    *)
(* kept, the one section a mounted view writes.                            *)
(***************************************************************************)
EXTENDS Naturals, FiniteSets

CONSTANTS
    ProviderIds,
    MaxEdits,   (* bound: edits the user makes                             *)
    None

ASSUME ShellAssumption ==
    /\ None \notin ProviderIds
    /\ MaxEdits \in Nat

VARIABLES
    memory,     (* InnerState                                              *)
    disk,       (* the struct in shell-state.json, or None                 *)
    saving,     (* the command that has changed memory and not yet saved   *)
    slot        (* what the kernel's provider was built from               *)

Edits  == 0..MaxEdits
SidebarSetting == {"unset", "open", "closed"}

Settings == [provider : ProviderIds \cup {None}, model : Edits,
             theme : Edits, sidebar : SidebarSetting,
             project : Edits \cup {None}, flag : Edits \cup {None}]

(* A provider: whether it has an endpoint, a base URL in it, and a key.    *)
Provider == [known : BOOLEAN, url : BOOLEAN, key : Edits]

Memory == [settings : Settings, folders : SUBSET Edits,
           providers : [ProviderIds -> Provider]]

EmptySettings == [provider |-> None, model |-> 0, theme |-> 0,
                  sidebar |-> "unset", project |-> None, flag |-> None]
NoProvider == [known |-> FALSE, url |-> FALSE, key |-> 0]
EmptyMemory == [settings  |-> EmptySettings,
                folders   |-> {},
                providers |-> [p \in ProviderIds |-> NoProvider]]

(* No file is not a struct.                                                *)
ASSUME FileAssumption == None \notin Memory

-----------------------------------------------------------------------------
(* kernel::build_provider: what a configuration resolves to.               *)
Echo == [provider |-> None, model |-> 0, key |-> 0]
Build(m) ==
    LET p == m.settings.provider
    IN  IF p # None /\ m.settings.model # 0 /\ m.providers[p].url
        THEN [provider |-> p, model |-> m.settings.model,
              key |-> m.providers[p].key]
        ELSE Echo

(* load_or_default: a missing file gives the defaults.  Nothing is saved.  *)
Load(file) == IF file = None THEN EmptyMemory ELSE file

-----------------------------------------------------------------------------
(* What the commands that write do to the struct.                          *)
SaveSettings(m, new) ==
    [m EXCEPT !.settings =
        [new EXCEPT !.theme = IF @ = 0 THEN m.settings.theme ELSE @]]

MSaveProvider(m, new) ==
    [m EXCEPT !.providers[new.id] =
                  [known |-> TRUE, url |-> new.url, key |-> new.key],
              !.settings.model = IF new.model = 0 THEN @ ELSE new.model,
              !.settings.provider = new.id]
SaveProvider(m, new) ==
    [m EXCEPT !.providers[new.id] =
                  [known |-> TRUE, url |-> new.url,
                   key |-> IF new.key = 0 THEN @.key ELSE new.key],
              !.settings.model = IF new.model = 0 THEN @ ELSE new.model,
              !.settings.provider = new.id]

SavePreferences(m, folders) == [m EXCEPT !.folders = folders]

Rebuilds == {"save_settings", "save_provider"}
Writes   == Rebuilds \cup {"save_preferences"}

ASSUME CommandAssumption == None \notin Writes

Written(m, c) ==
    CASE c.cmd = "save_settings"    -> SaveSettings(m, c.arg)
      [] c.cmd = "save_provider"    -> SaveProvider(m, c.arg)
      [] c.cmd = "save_preferences" -> SavePreferences(m, c.arg)

(* list_providers: those with an entry in provider_endpoints.              *)
Listed(m) == {p \in ProviderIds : m.providers[p].known}

-----------------------------------------------------------------------------
StoreInit(file) ==
    /\ disk = file
    /\ memory = Load(file)
    /\ slot = Build(memory)
    /\ saving = None

(* A command takes the lock, changes memory and starts to save.            *)
Change(c) ==
    /\ saving = None
    /\ memory' = Written(memory, c)
    /\ saving' = c.cmd
    /\ UNCHANGED <<disk, slot>>

(* The temporary file has been renamed; settings and providers take effect.*)
MSaved ==
    /\ saving # None
    /\ disk' = memory
    /\ saving' = None
    /\ slot' = IF saving = "save_settings" THEN Build(memory) ELSE slot
    /\ UNCHANGED memory
Saved ==
    /\ saving # None
    /\ disk' = memory
    /\ saving' = None
    /\ slot' = IF saving \in Rebuilds THEN Build(memory) ELSE slot
    /\ UNCHANGED memory

(* Writing or renaming failed: the command returns before the rebuild.     *)
SaveFails ==
    /\ saving # None
    /\ saving' = None
    /\ UNCHANGED <<memory, disk, slot>>

(* The process has died and starts again: setup in lib.rs.                 *)
Restart ==
    /\ memory' = Load(disk)
    /\ slot' = Build(memory')
    /\ saving' = None
    /\ UNCHANGED disk
=============================================================================
