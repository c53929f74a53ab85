----------------------------- MODULE SettingsSync -----------------------------
(***************************************************************************)
(* The UI's copies of the shell store and the calls that keep them         *)
(* together: appStore.ts (settings, providers, projects), AppShell.tsx     *)
(* (the collapsed sidebar) and AccountTab.tsx (the provider form).         *)
(*                                                                         *)
(* Every write sends a whole record built from the UI's copy; every read   *)
(* is merged into the copy when its answer arrives, whatever happened in   *)
(* between.  Calls of one window are posted in order, served by the main   *)
(* thread in order and answered in order, so they form one queue; the      *)
(* backend serves the first call that has not been served, the UI runs the *)
(* continuation of the first call once it is answered.  The three reads of *)
(* refreshAppState are posted together and nothing is served between them: *)
(* they are one call here.  probe_provider is async and touches no state:  *)
(* it only keeps the form busy.                                            *)
(*                                                                         *)
(* rpc_raw config/batchWrite, which saveSettings sends last, is answered   *)
(* "not wired" by the kernel and is left out.                              *)
(***************************************************************************)
EXTENDS ShellStore, Sequences, SequencesExt

CONSTANTS
    SessionFolders, (* projects that own a session                         *)
    MaxRestarts,    (* bound: crashes                                      *)
    MaxFailures     (* bound: saves that fail                              *)

(* Edit 1 is the last one of an earlier run; the catalogue of providers is *)
(* a list in the source and not empty.                                     *)
ASSUME SyncAssumption ==
    /\ ProviderIds # {} /\ MaxEdits \in Nat \ {0}
    /\ SessionFolders \subseteq Edits \ {0}
    /\ MaxRestarts \in Nat /\ MaxFailures \in Nat

VARIABLES
    ui,         (* AppState and the collapsed flag of AppShell             *)
    calls,      (* invokes whose continuation has not run, oldest first    *)
    form,       (* AccountTab: its form and its busy flag                  *)
    edits,      (* the number of the last edit                             *)
    restarts, failures,
    stale,      (* ghost: something the UI has not read may have changed   *)
    rebuilt     (* ghost: no save has failed since the provider was built  *)

store == <<memory, disk, saving, slot>>
vars == <<memory, disk, saving, slot, ui, calls, form, edits, restarts,
          failures, stale, rebuilt>>

Fields == {"provider", "model", "project", "flag"}
Agree  == \A f \in Fields : memory.settings[f] \in {ui.settings[f],
                  IF f \in {"project", "flag"} THEN None ELSE ui.settings[f]}

(* emptyState(): sidebarCollapsed is false, not absent.                    *)
FreshUI == [settings  |-> [EmptySettings EXCEPT !.sidebar = "open",
                                                 !.project = 0, !.flag = 0],
            collapsed |-> FALSE, known |-> {}, extra |-> {}, active |-> 0,
            loaded    |-> FALSE]

Projects(u) == SessionFolders \cup u.extra
SessionsOf(u) == IF u.loaded THEN SessionFolders ELSE {}

-----------------------------------------------------------------------------
(* A call: the command, its argument, its continuation, a parameter of the *)
(* continuation, and how far it has come.  `late` is a ghost: the UI's     *)
(* settings changed while the call was a read in flight.                   *)
Call(cmd, arg, then, with) ==
    [cmd |-> cmd, arg |-> arg, then |-> then, with |-> with,
     at |-> "sent", answer |-> None, late |-> FALSE]

Read(cmd, then, with) == Call(cmd, None, then, with)
Refresh == Read("refresh", "refresh", None)
Send(cs) == calls' = calls \o cs

Reads == {"refresh", "get_settings", "get_preferences"}

(* What follows an edit of the UI's settings: reads in flight are late.    *)
Overtaken == [i \in DOMAIN calls |->
                 [calls[i] EXCEPT !.late = @ \/ calls[i].cmd \in Reads]]

(* The record saveSettings, setActiveProject and addProject send: the UI's *)
(* settings; normalise_keys drops the second spelling of each key.         *)
Save(s) == Call("save_settings", [s EXCEPT !.theme = 0], "nothing", None)

-----------------------------------------------------------------------------
BootCalls == <<Refresh, Read("get_settings", "sidebar", None)>>
ClosedForm == [busy |-> "no", mount |-> 0]

Init ==
    /\ \E file \in {None,
                    [settings |-> [EmptySettings EXCEPT
                                      !.provider = CHOOSE p \in ProviderIds : TRUE,
                                      !.model = 1, !.theme = 1, !.project = 1,
                                      !.sidebar = "closed", !.flag = 1],
                     folders |-> {1},
                     providers |-> [p \in ProviderIds |->
                         IF p = CHOOSE q \in ProviderIds : TRUE
                         THEN [known |-> TRUE, url |-> TRUE, key |-> 1]
                         ELSE NoProvider]]} : StoreInit(file)
    /\ ui = FreshUI
    /\ calls = BootCalls
    /\ form = ClosedForm
    /\ edits = 1
    /\ restarts = 0 /\ failures = 0
    /\ stale = TRUE
    /\ rebuilt = TRUE

-----------------------------------------------------------------------------
(* What the user does.                                                     *)

(* saveSettings(patch): sidebar, home view and account tab.                *)
Edit(f, v) ==
    /\ LET next == [ui.settings EXCEPT ![f] = v]
       IN  /\ ui' = [ui EXCEPT !.settings = next]
           /\ calls' = Append(Overtaken, Save(next))
    /\ UNCHANGED <<store, form, restarts, failures, stale, rebuilt>>

ChangeModelOrFlag ==
    \E f \in {"model", "flag"} : Edit(f, edits + 1)

UseProvider ==
    \E p \in ui.known \ {ui.settings.provider} : Edit("provider", p)

(* setActiveProject, from the sidebar and the composer; 0 is no project.   *)
SetActiveProject ==
    /\ \E e \in {0} \cup SessionsOf(ui) \cup ui.extra :
           LET next == [ui.settings EXCEPT !.project = e]
           IN  /\ ui' = [ui EXCEPT !.settings = next, !.active = e]
               /\ calls' = Append(Overtaken, Save(next))
    /\ UNCHANGED <<store, form, restarts, failures, stale, rebuilt>>

(* addProject, once the folder picker has answered.                        *)
AddProject ==
    /\ LET next == [ui.settings EXCEPT !.project = edits + 1]
       IN  /\ ui' = [ui EXCEPT !.settings = next, !.active = edits + 1,
                               !.extra = @ \cup {edits + 1}]
           /\ calls' = Overtaken \o
                  <<Save(next), Read("get_preferences", "folder", edits + 1)>>
    /\ UNCHANGED <<store, form, restarts, failures, stale, rebuilt>>

(* AppShell.toggleSidebar: the write goes round the UI's settings.         *)
ToggleSidebar ==
    /\ ui' = [ui EXCEPT !.collapsed = ~@]
    /\ Send(<<Read("get_settings", "toggle",
                   IF ui.collapsed THEN "open" ELSE "closed")>>)
    /\ UNCHANGED <<store, form, restarts, failures, stale, rebuilt>>

(* The Refresh button, a deleted session, a picked project.                *)
RefreshAppState ==
    /\ Send(<<Refresh>>)
    /\ UNCHANGED <<store, ui, form, restarts, failures, stale, rebuilt>>

(* Leaving the tab unmounts it: a call that is still running then has no   *)
(* form to close and no flag to clear.                                     *)
LeaveTab ==
    /\ form' = [busy |-> "no", mount |-> form.mount + 1]
    /\ UNCHANGED <<store, ui, calls, restarts, failures, stale, rebuilt>>

(* The ways the form is filled in: nothing, or the URL with at most one of *)
(* a new key and a default model.                                          *)
Filled == {{}, {"url"}, {"url", "key"}, {"url", "model"}}

(* AccountTab.saveProvider; the form may leave the key and model empty.    *)
SubmitProvider ==
    /\ form.busy = "no"
    /\ \E p \in ProviderIds, filled \in Filled :
           Send(<<Call("save_provider",
                  [id |-> p, url |-> "url" \in filled,
                   key |-> IF "key" \in filled THEN edits + 1 ELSE 0,
                   model |-> IF "model" \in filled THEN edits + 1 ELSE 0],
                  "provider", form.mount)>>)
    /\ form' = [form EXCEPT !.busy = "save"]
    /\ stale' = TRUE
    /\ UNCHANGED <<store, ui, restarts, failures, rebuilt>>

Probe ==
    /\ form.busy = "no"
    /\ form' = [form EXCEPT !.busy = "probe"]
    /\ UNCHANGED <<store, ui, calls, restarts, failures, stale, rebuilt>>

ProbeAnswers ==
    /\ form.busy = "probe"
    /\ form' = [form EXCEPT !.busy = "no"]
    /\ UNCHANGED <<store, ui, calls, edits, restarts, failures, stale, rebuilt>>

(* `edits` numbers what the user does; MaxEdits bounds it.                 *)
User ==
    /\ edits < MaxEdits
    /\ edits' = edits + 1
    /\ \/ ChangeModelOrFlag \/ UseProvider \/ SetActiveProject \/ AddProject
       \/ ToggleSidebar \/ RefreshAppState \/ LeaveTab \/ SubmitProvider
       \/ Probe

-----------------------------------------------------------------------------
(* The backend.                                                            *)
Unserved == {i \in DOMAIN calls : calls[i].at \notin {"answered", "failed"}}
Next1 == CHOOSE i \in Unserved : \A j \in Unserved : i <= j

Answer(i, how, value) ==
    calls' = [calls EXCEPT ![i].at = how, ![i].answer = value]

Serve ==
    /\ saving = None /\ Unserved # {}
    /\ LET c == calls[Next1]
       IN  \/ /\ c.cmd = "refresh"
              /\ Answer(Next1, "answered", [settings |-> memory.settings,
                                            known |-> Listed(memory)])
              /\ UNCHANGED store
           \/ /\ c.cmd = "get_settings"
              /\ Answer(Next1, "answered", memory.settings)
              /\ UNCHANGED store
           \/ /\ c.cmd = "get_preferences"
              /\ Answer(Next1, "answered", memory.folders)
              /\ UNCHANGED store
           \/ /\ c.cmd \in Writes
              /\ Change(c)
              /\ Answer(Next1, "saving", None)
    /\ UNCHANGED <<ui, form, edits, restarts, failures, stale, rebuilt>>

SaveEnds ==
    /\ \/ /\ Saved
          /\ Answer(Next1, "answered", None)
          /\ rebuilt' = (rebuilt \/ saving \in Rebuilds)
          /\ UNCHANGED failures
       \/ /\ SaveFails
          /\ failures < MaxFailures
          /\ Answer(Next1, "failed", None)
          /\ failures' = failures + 1
          /\ rebuilt' = (rebuilt /\ saving \notin Rebuilds)
    /\ UNCHANGED <<ui, form, edits, restarts, stale>>

-----------------------------------------------------------------------------
(* Continuations.                                                          *)

(* refreshAppState: {...state.settings, ...normaliseSettings(raw)}.  Named *)
(* fields are always in the answer, those of `extra` only once written.    *)
MMerge(s, raw) == [s EXCEPT !.provider = raw.provider, !.flag = raw.flag,
                            !.project = raw.project]
Merge(s, raw) ==
    [s EXCEPT !.provider = raw.provider,
              !.model    = raw.model,
              !.sidebar  = IF raw.sidebar = "unset" THEN @ ELSE raw.sidebar,
              !.project  = IF raw.project = None THEN @ ELSE raw.project,
              !.flag     = IF raw.flag = None THEN @ ELSE raw.flag]

(* resolveActiveProjectId looks at the settings as they were before.       *)
ResolveActive(u) ==
    IF u.active \in Projects(u) THEN {u.active}
    ELSE IF u.settings.project \in Projects(u) THEN {u.settings.project}
    ELSE IF Projects(u) = {} THEN {0} ELSE Projects(u)

Rest == Tail(calls)

AfterRefresh(c) ==
    /\ c.then \in {"refresh", "close"}
    /\ \E a \in ResolveActive(ui) :
           ui' = [ui EXCEPT !.settings = Merge(@, c.answer.settings),
                            !.known = c.answer.known, !.active = a,
                            !.loaded = TRUE]
    /\ stale' = (c.late \/ \E i \in DOMAIN Rest : Rest[i].cmd \in Rebuilds)
    /\ calls' = Rest
    /\ form' = IF c.then = "close" /\ c.with = form.mount
               THEN [form EXCEPT !.busy = "no"] ELSE form

AfterSidebar(c) ==
    /\ c.then = "sidebar"
    /\ ui' = [ui EXCEPT !.collapsed = @ \/ c.answer.sidebar = "closed"]
    /\ calls' = Rest
    /\ UNCHANGED <<form, stale>>

AfterToggle(c) ==
    /\ c.then = "toggle"
    /\ calls' = Append(Rest, Call("save_settings",
                                  [c.answer EXCEPT !.sidebar = c.with],
                                  "nothing", None))
    /\ stale' = (stale \/ c.late
                 \/ \E i \in DOMAIN Rest : Rest[i].cmd \in Rebuilds)
    /\ UNCHANGED <<ui, form>>

(* addProject keeps a copy in the environments section of the preferences. *)
AfterFolder(c) ==
    /\ c.then = "folder"
    /\ calls' = IF c.with \in c.answer THEN Rest
                ELSE Append(Rest, Call("save_preferences",
                                       c.answer \cup {c.with}, "nothing", None))
    /\ UNCHANGED <<ui, form, stale>>

AfterProvider(c) ==
    /\ c.then = "provider"
    /\ IF c.at = "failed"
       THEN /\ calls' = Rest
            /\ form' = IF c.with = form.mount
                       THEN [form EXCEPT !.busy = "no"] ELSE form
       ELSE /\ calls' = Append(Rest, [Refresh EXCEPT !.then = "close",
                                                     !.with = c.with])
            /\ UNCHANGED form
    /\ stale' = TRUE
    /\ UNCHANGED ui

AfterWrite(c) ==
    /\ c.then = "nothing"
    /\ calls' = Rest
    /\ UNCHANGED <<ui, form, stale>>

Settle ==
    /\ calls # <<>>
    /\ Head(calls).at \in {"answered", "failed"}
    /\ LET c == Head(calls)
       IN  \/ AfterRefresh(c) \/ AfterSidebar(c) \/ AfterToggle(c)
           \/ AfterFolder(c) \/ AfterProvider(c) \/ AfterWrite(c)
    /\ UNCHANGED <<store, edits, restarts, failures, rebuilt>>

(* The process dies, with its window, and is started again.                *)
Crash ==
    /\ restarts < MaxRestarts
    /\ restarts' = restarts + 1
    /\ Restart
    /\ ui' = FreshUI
    /\ calls' = BootCalls
    /\ form' = ClosedForm
    /\ stale' = TRUE
    /\ rebuilt' = TRUE
    /\ UNCHANGED <<edits, failures>>

Next == User \/ ProbeAnswers \/ Serve \/ SaveEnds \/ Settle \/ Crash

Spec == Init /\ [][Next]_vars

-----------------------------------------------------------------------------

Quiet == saving = None /\ \A i \in DOMAIN calls : calls[i].cmd \in Reads

(* appStore.ts: unless a read was overtaken by a newer edit, or a write    *)
(* went round the UI's copy, what the UI shows is what the store holds once*)
(* no write is on its way: an edit of one setting never undoes another.    *)
SettingsAgree == (~stale /\ Quiet) => Agree /\ ui.known = Listed(memory)

(* A struct has every key, and the setting no UI writes, that another has. *)
Keeps(old, new) ==
    /\ old.settings.theme # 0 => new.settings.theme # 0
    /\ \A p \in ProviderIds :
          old.providers[p].key # 0 => new.providers[p].key # 0

(* settings.rs and kernel_config.rs: no command of the UI loses a secret   *)
(* or the settings no UI writes, in memory or in the file, whichever saves *)
(* fail.  Neither does a restart, but for what a command had not saved yet *)
(* or could not save: the file never holds less than it held.              *)
SecretsSurvive ==
    [][/\ Keeps(Load(disk), Load(disk'))
       /\ restarts' = restarts \/ (rebuilt /\ saving \notin Rebuilds)
             => Keeps(memory, memory')]_vars

(* The next turn uses the provider the store names: the kernel's provider  *)
(* lags behind the store only after a save that failed.                    *)
SlotFollowsStore == (saving = None /\ rebuilt) => slot = Build(memory)

(* AppShell.tsx "Restore the persisted sidebar state": when nothing is in  *)
(* flight the store holds the state the user has put the sidebar in.       *)
SidebarIsPersisted ==
    (~stale /\ calls = <<>>) =>
        (memory.settings.sidebar = "closed") = ui.collapsed

(* appStore.ts "keep a preferences copy so environments tab / restart can  *)
(* recover": once loaded, the project in the settings is among those shown.*)
ProjectIsRecovered ==
    (ui.loaded /\ calls = <<>>) =>
        memory.settings.project \in SessionsOf(ui) \cup ui.extra \cup {0, None}
=============================================================================
