----------------------------- MODULE BrowserStore -----------------------------
(***************************************************************************)
(* The shell's store as `npm run dev:browser` has it: devbridge/           *)
(* shellState.ts and the commands of devbridge/commands.ts that use it.    *)
(*                                                                         *)
(* Every tab keeps one object in memory, read from localStorage when it is *)
(* first asked for; a command changes it in place and writes all of it.    *)
(* localStorage is shared by the tabs and may refuse a write, which is     *)
(* logged and forgotten.  A command runs to its end before the next task.  *)
(*                                                                         *)
(* Abstracted: a value is the number of the edit that wrote it, 0 when it  *)
(* is absent or as new.  `rows` stands for every list of things with an id *)
(* (pets, events, timelines, jobs, connectors, tasks), `prefs` for the     *)
(* preferences but the endpoints the stub keeps among them.  No client     *)
(* empties the list of tasks, which would come back filled.                *)
(***************************************************************************)
EXTENDS Naturals

CONSTANTS
    Tabs,
    Keys,           (* of the settings                                     *)
    Rows,           (* ids of the things in a list                         *)
    ProviderIds,
    Dotted,         (* those of them with a dot                            *)
    None,
    MaxEdits        (* bound: commands that write                          *)

ASSUME StoreAssumption ==
    /\ Dotted \subseteq ProviderIds
    /\ None \notin Tabs
    /\ MaxEdits \in Nat

VARIABLES
    cache,      (* cache[b]: the object of tab b, or None                  *)
    stored,     (* what localStorage has, or None                          *)
    edits,      (* writing commands so far                                 *)
    writer      (* ghost: the tab that wrote last, unless a write of any
                   tab has failed since it did                             *)

storeVars == <<cache, stored, edits, writer>>

Edits == 0..MaxEdits
Store == [settings  : [Keys -> Edits], prefs : Edits, rows : [Rows -> Edits],
          endpoints : SUBSET ProviderIds, secrets : SUBSET ProviderIds]

FreshState == [settings |-> [k \in Keys |-> 0], prefs |-> 0,
               rows |-> [r \in Rows |-> 0], endpoints |-> {}, secrets |-> {}]

StoreInit ==
    /\ cache = [b \in Tabs |-> None]
    /\ stored = None /\ edits = 0 /\ writer = None

-----------------------------------------------------------------------------
(* localStorage takes the whole object, or refuses.                        *)
MWrites(b, s) ==
    \/ stored' = [s EXCEPT !.secrets = {}] /\ writer' = b
    \/ UNCHANGED stored /\ writer' = None
Writes(b, s) ==
    \/ stored' = s /\ writer' = b
    \/ UNCHANGED stored /\ writer' = None

(* loadShellState: the first use in a tab reads, and writes a fresh state. *)
Touch(b) ==
    /\ cache[b] = None
    /\ IF stored # None
       THEN cache' = [cache EXCEPT ![b] = stored] /\ UNCHANGED <<stored, writer>>
       ELSE /\ cache' = [cache EXCEPT ![b] = FreshState]
            /\ Writes(b, FreshState)
    /\ UNCHANGED edits

(* save_settings merges, save_preferences and the savers of whole lists    *)
(* replace, the savers of one thing replace or add it, some add it under   *)
(* an id of its own, some change it if it is there, and some delete it.    *)
SaveSettings(s, given, e) ==
    [s EXCEPT !.settings = [k \in Keys |-> IF k \in given THEN e ELSE @[k]]]
SavePreferences(s, eps, e) == [s EXCEPT !.prefs = e, !.endpoints = eps]
SaveList(s, kept, e) ==
    [s EXCEPT !.rows = [r \in Rows |-> IF r \in kept THEN e ELSE 0]]
Upsert(s, r, e) == [s EXCEPT !.rows[r] = e]
Create(s, r, e) == IF s.rows[r] = 0 THEN [s EXCEPT !.rows[r] = e] ELSE s
Revise(s, r, e) == IF s.rows[r] # 0 THEN [s EXCEPT !.rows[r] = e] ELSE s
Delete(s, r)    == [s EXCEPT !.rows[r] = 0]

Written(s, e) ==
    {SaveSettings(s, given, e) : given \in SUBSET Keys} \cup
    {SavePreferences(s, eps, e) : eps \in {{}, s.endpoints}} \cup
    {SaveList(s, kept, e) : kept \in SUBSET Rows} \cup
    UNION {{Upsert(s, r, e), Create(s, r, e), Revise(s, r, e), Delete(s, r)} :
               r \in Rows}

Save(b) ==
    /\ \E s \in Written(cache[b], edits + 1) :
        cache' = [cache EXCEPT ![b] = s] /\ Writes(b, s)

(* save_provider: the key first, if there is one, then config/batchWrite,  *)
(* whose pattern only takes ids without a dot.                             *)
Keyed(s, p)    == [s EXCEPT !.secrets = @ \cup {p}]
Recorded(s, p) == [s EXCEPT !.endpoints = @ \cup ({p} \ Dotted)]

SaveProvider(b) ==
    \E p \in ProviderIds, keyed \in BOOLEAN :
        LET half == IF keyed THEN Keyed(cache[b], p) ELSE cache[b]
            full == Recorded(half, p)
        IN  /\ cache' = [cache EXCEPT ![b] = full]
            /\ \/ Writes(b, full)
               \/ keyed /\ stored' = half /\ writer' = None

(* save_mcp_server and config/value/write say ok and keep nothing, but the *)
(* batch writes the store.                                                 *)
SaveMcpServer(b) == Writes(b, cache[b]) /\ UNCHANGED cache

Command(b) ==
    /\ cache[b] # None
    /\ edits < MaxEdits
    /\ edits' = edits + 1
    /\ Save(b) \/ SaveProvider(b) \/ SaveMcpServer(b)

(* A tab is reloaded: its object is gone.                                  *)
ReloadStore(b) ==
    /\ cache' = [cache EXCEPT ![b] = None]
    /\ UNCHANGED <<stored, edits, writer>>

-----------------------------------------------------------------------------
StoreTypeOK ==
    /\ cache \in [Tabs -> Store \cup {None}]
    /\ stored \in Store \cup {None}
    /\ edits \in 0..MaxEdits
    /\ writer \in Tabs \cup {None}
=============================================================================
