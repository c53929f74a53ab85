-------------------------- MODULE SettingsSyncProofs --------------------------
(***************************************************************************)
(* The kernel's provider follows the store, the UI's copy follows it, and  *)
(* no command loses a secret: for any number of providers, edits, crashes  *)
(* and failing saves.                                                      *)
(*                                                                         *)
(* SlotFollowsStore says nothing while a command saves, so it is not       *)
(* inductive: the save of the preferences ends without building the        *)
(* provider.  What holds throughout is that the slot is current unless the *)
(* command that is saving will build it, which rests on the preferences    *)
(* being no input of Build; for that, an object must have its parts.       *)
(***************************************************************************)
EXTENDS SettingsSync, TLAPS, SequenceTheorems

HasParts(m) == {"settings", "providers"} \subseteq DOMAIN m

Whole   == HasParts(memory) /\ (disk # None => HasParts(disk))
Current == (rebuilt /\ saving \notin Rebuilds) => slot = Build(memory)
SlotInv == Whole /\ Current

LEMMA LoadIsWhole ==
    ASSUME NEW file, file # None => HasParts(file)
    PROVE  HasParts(Load(file))
BY DEF Load, HasParts, EmptyMemory

(* What the commands make of an object has the parts the object had.       *)
LEMMA WrittenIsWhole ==
    ASSUME NEW m, NEW c, HasParts(m), c.cmd \in Writes
    PROVE  HasParts(Written(m, c))
<1>1. CASE c.cmd = "save_settings"
  <2>1. Written(m, c) = SaveSettings(m, c.arg)
    BY <1>1 DEF Written
  <2> QED
    BY <2>1 DEF SaveSettings, HasParts
<1>2. CASE c.cmd = "save_provider"
  <2>1. Written(m, c) = SaveProvider(m, c.arg)
    BY <1>2 DEF Written
  <2>2. DOMAIN SaveProvider(m, c.arg) = DOMAIN m
    BY DEF SaveProvider
  <2> QED
    BY <2>1, <2>2 DEF HasParts
<1>3. CASE c.cmd = "save_preferences"
  <2>1. Written(m, c) = SavePreferences(m, c.arg)
    BY <1>3 DEF Written
  <2> QED
    BY <2>1 DEF SavePreferences, HasParts
<1> QED
  BY <1>1, <1>2, <1>3 DEF Writes, Rebuilds

(* build_provider does not read the preferences.                           *)
LEMMA PreferencesDoNotBuild ==
    ASSUME NEW m, NEW c, HasParts(m), c.cmd = "save_preferences"
    PROVE  Build(Written(m, c)) = Build(m)
<1>1. Written(m, c) = SavePreferences(m, c.arg)
  BY DEF Written
<1>2. /\ Written(m, c).settings = m.settings
      /\ Written(m, c).providers = m.providers
  BY <1>1 DEF SavePreferences, HasParts
<1> QED
  BY <1>2, Zenon DEF Build

LEMMA ChangeKeeps ==
    ASSUME SlotInv, NEW c, c.cmd \in Writes, Change(c), UNCHANGED rebuilt
    PROVE  SlotInv'
<1>1. /\ saving = None /\ saving' = c.cmd
      /\ memory' = Written(memory, c) /\ UNCHANGED <<disk, slot>>
  BY DEF Change
<1>2. Whole'
  BY <1>1, WrittenIsWhole DEF SlotInv, Whole
<1>3. ASSUME c.cmd \notin Rebuilds, rebuilt
      PROVE  slot = Build(Written(memory, c))
  <2>1. slot = Build(memory)
    BY <1>1, <1>3, CommandAssumption DEF SlotInv, Current, Writes
  <2>2. c.cmd = "save_preferences"
    BY <1>3 DEF Writes
  <2> QED
    BY <2>1, <2>2, PreferencesDoNotBuild DEF SlotInv, Whole
<1> QED
  BY <1>1, <1>2, <1>3 DEF SlotInv, Current

LEMMA SlotStep ==
    ASSUME SlotInv, [Next]_vars
    PROVE  SlotInv'
<1>1. CASE UNCHANGED <<store, rebuilt>>
  BY <1>1 DEF store, SlotInv, Whole, Current
<1>2. CASE User
  <2>1. UNCHANGED <<store, rebuilt>>
    BY <1>2 DEF User, ChangeModelOrFlag, UseProvider, Edit, SetActiveProject,
          AddProject, ToggleSidebar, RefreshAppState, LeaveTab,
          SubmitProvider, Probe
  <2> QED
    BY <1>1, <2>1
<1>3. CASE ProbeAnswers
  BY <1>1, <1>3 DEF ProbeAnswers
<1>4. CASE Serve
  <2>1. UNCHANGED <<store, rebuilt>> \/
        (UNCHANGED rebuilt /\ calls[Next1].cmd \in Writes /\ Change(calls[Next1]))
    BY <1>4 DEF Serve
  <2> QED
    BY <1>1, <2>1, ChangeKeeps
<1>5. CASE SaveEnds
  <2>1. CASE Saved /\ rebuilt' = (rebuilt \/ saving \in Rebuilds)
    BY <2>1, CommandAssumption DEF Saved, SlotInv, Whole, Current, Writes
  <2>2. CASE SaveFails /\ rebuilt' = (rebuilt /\ saving \notin Rebuilds)
    BY <2>2 DEF SaveFails, SlotInv, Whole, Current
  <2> QED
    BY <1>5, <2>1, <2>2 DEF SaveEnds
<1>6. CASE Settle
  BY <1>1, <1>6 DEF Settle
<1>7. CASE Crash
  <2>1. memory' = Load(disk) /\ slot' = Build(memory') /\ UNCHANGED disk
    BY <1>7 DEF Crash, Restart
  <2> QED
    BY <2>1, LoadIsWhole DEF SlotInv, Whole, Current
<1>8. CASE UNCHANGED vars
  BY <1>1, <1>8 DEF vars, store
<1> QED
  BY <1>2, <1>3, <1>4, <1>5, <1>6, <1>7, <1>8 DEF Next

(* kernel_config.rs and settings.rs: unless a save has failed since the    *)
(* kernel's provider was built, the next turn uses what the store names.   *)
THEOREM SlotFollows == Spec => []SlotFollowsStore
<1>1. Init => SlotInv
  <2> SUFFICES ASSUME Init PROVE SlotInv
    OBVIOUS
  <2>1. PICK file : StoreInit(file) /\ (file # None => HasParts(file))
    BY DEF Init, HasParts
  <2> QED
    BY <2>1, LoadIsWhole DEF StoreInit, SlotInv, Whole, Current
<1>2. SlotInv => SlotFollowsStore
  BY CommandAssumption DEF SlotInv, Current, SlotFollowsStore, Writes
<1> QED
  BY <1>1, <1>2, SlotStep, PTL DEF Spec

-----------------------------------------------------------------------------
(* The UI's copy and the secrets.                                          *)
(*                                                                         *)
(* SettingsAgree says nothing while a write is on its way, so it is not    *)
(* inductive.  What holds throughout is that the last settings on their way*)
(* to the store are those the UI shows (Shown), that a read answered       *)
(* before a write was served still holds what the store does (Fresh), and  *)
(* that calls are served first come first served (Ordered).                *)
Forms == [id : ProviderIds, url : BOOLEAN, key : Edits, model : Edits]
State == [settings : Settings, known : SUBSET ProviderIds]
Steps == {"refresh", "close", "sidebar", "toggle", "folder", "provider",
          "nothing"}
Arguments == {None} \cup Settings \cup Forms \cup SUBSET Edits
Answers   == {None} \cup Settings \cup State \cup SUBSET Edits
Calls == [cmd    : Reads \cup Writes,
          arg    : Arguments,
          then   : Steps,
          with   : {None, "open", "closed"} \cup Nat,
          at     : {"sent", "saving", "answered", "failed"},
          answer : Answers,
          late   : BOOLEAN]

(* What a command is called with, what it answers and who waits for it.    *)
WellFormed(c) ==
    /\ c.cmd = "save_settings" => c.arg \in Settings
    /\ c.cmd = "save_provider" => c.arg \in Forms
    /\ c.cmd = "save_preferences" => c.arg \in SUBSET Edits
    /\ c.cmd = "refresh" <=> c.then \in {"refresh", "close"}
    /\ c.cmd = "get_settings" <=> c.then \in {"sidebar", "toggle"}
    /\ c.cmd = "get_preferences" <=> c.then = "folder"
    /\ c.cmd = "save_provider" <=> c.then = "provider"
    /\ c.then = "toggle" => c.with \in {"open", "closed"}
    /\ c.then = "folder" => c.with \in Edits
    /\ c.cmd \in Reads => c.at \in {"sent", "answered"}
    /\ c.at = "answered" =>
          /\ c.cmd = "refresh" => c.answer \in State
          /\ c.cmd = "get_settings" => c.answer \in Settings
          /\ c.cmd = "get_preferences" => c.answer \in SUBSET Edits

Screen == [settings : Settings, collapsed : BOOLEAN,
           known : SUBSET ProviderIds, extra : SUBSET Edits, active : Edits,
           loaded : BOOLEAN]

Types ==
    /\ memory \in Memory /\ (disk # None => disk \in Memory)
    /\ saving \in Writes \cup {None}
    /\ ui \in Screen
    /\ calls \in Seq(Calls) /\ \A i \in DOMAIN calls : WellFormed(calls[i])
    /\ form \in [busy : {"no", "save", "probe"}, mount : Nat]
    /\ edits \in Nat
    /\ stale \in BOOLEAN

(* The calls up to k are done, the next one may be saving, the others wait.*)
Done(k) ==
    /\ k <= Len(calls)
    /\ \A i \in DOMAIN calls : i <= k <=> calls[i].at \in {"answered", "failed"}
    /\ \A i \in DOMAIN calls : i > k + 1 => calls[i].at = "sent"
    /\ saving = None => \A i \in DOMAIN calls : i > k => calls[i].at = "sent"
    /\ saving # None => /\ k < Len(calls) /\ calls[k + 1].at = "saving"
                        /\ calls[k + 1].cmd = saving
Ordered == \E k \in Nat : Done(k)

Same(a, b) == /\ a.provider = b.provider /\ a.model = b.model
              /\ a.project \in {b.project, None} /\ a.flag \in {b.flag, None}

Waiting(i) == calls[i].at = "sent" /\ calls[i].cmd \in Rebuilds

Fresh ==
    \A i \in DOMAIN calls :
        (calls[i].at = "answered" /\ \A j \in DOMAIN calls :
            j > i /\ calls[j].cmd \in Rebuilds => calls[j].at = "sent")
        => /\ calls[i].cmd = "refresh" =>
                /\ calls[i].answer.settings = memory.settings
                /\ calls[i].answer.known = Listed(memory)
           /\ calls[i].cmd = "get_settings" =>
                calls[i].answer = memory.settings

Shown ==
    ~stale =>
        /\ ui.known = Listed(memory)
        /\ \A i \in DOMAIN calls : Waiting(i) =>
              /\ calls[i].cmd = "save_settings"
              /\ (\A j \in DOMAIN calls : j > i => ~Waiting(j))
                    => Same(calls[i].arg, ui.settings)
        /\ (\A i \in DOMAIN calls : ~Waiting(i))
              => Same(memory.settings, ui.settings)

SyncInv == Types /\ Ordered /\ Fresh /\ Shown

(* r is the queue q without its first d calls, with calls posted behind;   *)
(* what is already there is left as it was, but for the ghost.             *)
Alike(a, b) == /\ a.cmd = b.cmd /\ a.arg = b.arg /\ a.then = b.then
               /\ a.with = b.with /\ a.at = b.at /\ a.answer = b.answer

Posted(c) == c \in Calls /\ c.at = "sent" /\ WellFormed(c)

Moves(q, r, d) ==
    /\ r \in Seq(Calls) /\ Len(r) >= Len(q) - d
    /\ \A i \in 1 .. (Len(q) - d) : Alike(r[i], q[i + d])
    /\ \A i \in DOMAIN r : i > Len(q) - d => Posted(r[i])

LEMMA MovesAppend ==
    ASSUME NEW q \in Seq(Calls), NEW r, NEW d \in {0, 1}, Moves(q, r, d),
           NEW c, Posted(c), Len(q) >= d
    PROVE  /\ Moves(q, Append(r, c), d)
           /\ Len(Append(r, c)) = Len(r) + 1
           /\ Append(r, c)[Len(r) + 1] = c
           /\ \A i \in DOMAIN r : Append(r, c)[i] = r[i]
<1>1. r \in Seq(Calls) /\ c \in Calls
  BY DEF Moves, Posted
<1>2. /\ Append(r, c) \in Seq(Calls)
      /\ Len(Append(r, c)) = Len(r) + 1
      /\ Append(r, c)[Len(r) + 1] = c
      /\ \A i \in 1 .. Len(r) : Append(r, c)[i] = r[i]
  BY <1>1
<1>3. \A i \in 1 .. (Len(q) - d) : Alike(Append(r, c)[i], q[i + d])
  BY <1>1, <1>2 DEF Moves
<1>4. \A i \in DOMAIN Append(r, c) : i > Len(q) - d => Posted(Append(r, c)[i])
  BY <1>1, <1>2 DEF Moves
<1>5. Len(Append(r, c)) >= Len(q) - d
  BY <1>1, <1>2 DEF Moves
<1> QED
  BY <1>1, <1>2, <1>3, <1>4, <1>5 DEF Moves

LEMMA MovesTail ==
    ASSUME NEW q \in Seq(Calls), q # <<>>
    PROVE  Moves(q, Tail(q), 1) /\ Len(Tail(q)) = Len(q) - 1 /\ Len(q) >= 1
BY DEF Moves, Alike

LEMMA MovesLate ==
    ASSUME calls \in Seq(Calls)
    PROVE  Moves(calls, Overtaken, 0) /\ Len(Overtaken) = Len(calls)
<1>1. ASSUME NEW c \in Calls, NEW b \in BOOLEAN
      PROVE  [c EXCEPT !.late = b] \in Calls /\ Alike([c EXCEPT !.late = b], c)
  BY DEF Calls, Alike
<1>2. \A i \in DOMAIN calls : Overtaken[i] \in Calls /\ Alike(Overtaken[i], calls[i])
  <2> SUFFICES ASSUME NEW i \in DOMAIN calls
               PROVE  Overtaken[i] \in Calls /\ Alike(Overtaken[i], calls[i])
    OBVIOUS
  <2>1. PICK b \in BOOLEAN : b = (calls[i].late \/ calls[i].cmd \in Reads)
    OBVIOUS
  <2>2. Overtaken[i] = [calls[i] EXCEPT !.late = b]
    BY <2>1, Zenon DEF Overtaken
  <2>3. calls[i] \in Calls
    OBVIOUS
  <2> QED
    BY <1>1, <2>2, <2>3
<1>3. DOMAIN Overtaken = 1 .. Len(calls)
  BY Zenon, LenProperties DEF Overtaken
<1>4. \A n \in Nat : \A f : (DOMAIN f = 1 .. n /\ \A i \in 1 .. n : f[i] \in Calls)
          /\ f = [i \in DOMAIN f |-> f[i]] => f \in Seq(Calls) /\ Len(f) = n
  OBVIOUS
<1>5. Overtaken \in Seq(Calls) /\ Len(Overtaken) = Len(calls)
  <2>1. Overtaken = [i \in DOMAIN Overtaken |-> Overtaken[i]]
    BY DEF Overtaken
  <2> QED
    BY <1>2, <1>3, <1>4, <2>1
<1> QED
  BY <1>2, <1>5 DEF Moves

LEMMA MovesNone ==
    ASSUME calls \in Seq(Calls)
    PROVE  Moves(calls, calls, 0)
BY DEF Moves, Alike

LEMMA PostOne ==
    ASSUME NEW q \in Seq(Calls), NEW c \in Calls
    PROVE  q \o <<c>> = Append(q, c)
OBVIOUS

LEMMA PostTwo ==
    ASSUME NEW q \in Seq(Calls), NEW c \in Calls, NEW e \in Calls
    PROVE  q \o <<c, e>> = Append(Append(q, c), e)
OBVIOUS

(* A queue that only moves stays in order, and its answers stay current.   *)
LEMMA QueueMoves ==
    ASSUME Types, Ordered, Fresh, NEW d \in {0, 1}, Moves(calls, calls', d),
           UNCHANGED <<memory, saving>>,
           d = 1 => calls # <<>> /\ calls[1].at \in {"answered", "failed"}
    PROVE  /\ calls' \in Seq(Calls) /\ \A i \in DOMAIN calls' : WellFormed(calls'[i])
           /\ Ordered' /\ Fresh'
<1>0. /\ calls \in Seq(Calls) /\ calls' \in Seq(Calls)
      /\ Len(calls') >= Len(calls) - d /\ Len(calls) >= d
  BY DEF Moves, Types
<1>1. \A i \in DOMAIN calls' :
          \/ i + d \in DOMAIN calls /\ Alike(calls'[i], calls[i + d])
          \/ i > Len(calls) - d /\ Posted(calls'[i])
  BY <1>0 DEF Moves
<1>2. \A i \in DOMAIN calls : i > d =>
          i - d \in DOMAIN calls' /\ Alike(calls'[i - d], calls[i])
  <2> SUFFICES ASSUME NEW i \in DOMAIN calls, i > d
               PROVE  i - d \in DOMAIN calls' /\ Alike(calls'[i - d], calls[i])
    OBVIOUS
  <2>1. i - d \in 1 .. (Len(calls) - d) /\ (i - d) + d = i
    BY <1>0
  <2> QED
    BY <1>0, <2>1 DEF Moves
<1>3. \A i \in DOMAIN calls' : WellFormed(calls'[i])
  <2> SUFFICES ASSUME NEW i \in DOMAIN calls' PROVE WellFormed(calls'[i])
    OBVIOUS
  <2>1. CASE i + d \in DOMAIN calls /\ Alike(calls'[i], calls[i + d])
    <3>1. WellFormed(calls[i + d])
      BY <2>1 DEF Types
    <3> QED
      BY <2>1, <3>1 DEF WellFormed, Alike
  <2>2. CASE Posted(calls'[i])
    BY <2>2 DEF Posted
  <2> QED
    BY <1>1, <2>1, <2>2
<1>4. Ordered'
  <2>1. PICK k \in Nat : Done(k)
    BY DEF Ordered
  <2>2. d = 1 => k >= 1
    BY <2>1, <1>0 DEF Done
  <2>3. Done(k - d)'
    <3>1. k - d <= Len(calls')
      BY <1>0, <2>1 DEF Done
    <3>2. ASSUME NEW i \in DOMAIN calls'
          PROVE  /\ i <= k - d <=> calls'[i].at \in {"answered", "failed"}
                 /\ i > k - d + 1 => calls'[i].at = "sent"
                 /\ saving = None /\ i > k - d => calls'[i].at = "sent"
      <4>1. CASE i + d \in DOMAIN calls /\ Alike(calls'[i], calls[i + d])
        BY <1>0, <2>1, <4>1 DEF Done, Alike
      <4>2. CASE i > Len(calls) - d /\ Posted(calls'[i])
        BY <1>0, <2>1, <4>2 DEF Done, Posted
      <4> QED
        BY <1>1, <4>1, <4>2
    <3>3. saving # None => /\ k - d < Len(calls') /\ calls'[k - d + 1].at = "saving"
                           /\ calls'[k - d + 1].cmd = saving
      <4> SUFFICES ASSUME saving # None
                   PROVE  /\ k - d < Len(calls') /\ calls'[k - d + 1].at = "saving"
                          /\ calls'[k - d + 1].cmd = saving
        OBVIOUS
      <4>1. k + 1 \in DOMAIN calls /\ k + 1 > d
        BY <1>0, <2>1, <2>2 DEF Done
      <4>2. (k + 1) - d \in DOMAIN calls' /\ Alike(calls'[(k + 1) - d], calls[k + 1])
        BY <1>2, <4>1
      <4> QED
        BY <1>0, <2>1, <4>1, <4>2 DEF Done, Alike
    <3> QED
      BY <3>1, <3>2, <3>3 DEF Done
  <2>4. k - d \in Nat
    BY <2>2
  <2> QED
    BY <2>3, <2>4 DEF Ordered
<1>5. Fresh'
  <2> SUFFICES ASSUME NEW i \in DOMAIN calls', calls'[i].at = "answered",
                      \A j \in DOMAIN calls' : j > i /\ calls'[j].cmd \in Rebuilds
                          => calls'[j].at = "sent"
               PROVE  /\ calls'[i].cmd = "refresh" =>
                           /\ calls'[i].answer.settings = memory.settings
                           /\ calls'[i].answer.known = Listed(memory)
                      /\ calls'[i].cmd = "get_settings" =>
                           calls'[i].answer = memory.settings
    BY DEF Fresh, Listed
  <2>1. i + d \in DOMAIN calls /\ Alike(calls'[i], calls[i + d])
    BY <1>1 DEF Posted
  <2>2. ASSUME NEW j \in DOMAIN calls, j > i + d, calls[j].cmd \in Rebuilds
        PROVE  calls[j].at = "sent"
    <3>1. j - d \in DOMAIN calls' /\ Alike(calls'[j - d], calls[j]) /\ j - d > i
      BY <1>0, <1>2, <2>2
    <3> QED
      BY <2>2, <3>1 DEF Alike
  <2> QED
    BY <2>1, <2>2 DEF Fresh, Alike
<1> QED
  BY <1>0, <1>3, <1>4, <1>5

(* A step that posts no write and leaves the UI's settings alone.          *)
LEMMA ShownMoves ==
    ASSUME Types, Shown, NEW d \in {0, 1}, Moves(calls, calls', d),
           UNCHANGED memory, ui'.settings = ui.settings, ui'.known = ui.known,
           ~stale' => ~stale,
           d = 1 => calls # <<>> /\ calls[1].at \in {"answered", "failed"},
           \A i \in DOMAIN calls' :
               i > Len(calls) - d => calls'[i].cmd \notin Rebuilds
    PROVE  Shown'
<1>0. /\ calls \in Seq(Calls) /\ calls' \in Seq(Calls)
      /\ Len(calls') >= Len(calls) - d /\ Len(calls) >= d
  BY DEF Moves, Types
<1>1. \A i \in DOMAIN calls' : Waiting(i)' =>
          i + d \in DOMAIN calls /\ Alike(calls'[i], calls[i + d]) /\ Waiting(i + d)
  <2> SUFFICES ASSUME NEW i \in DOMAIN calls', Waiting(i)'
               PROVE  i + d \in DOMAIN calls /\ Alike(calls'[i], calls[i + d])
                      /\ Waiting(i + d)
    OBVIOUS
  <2>1. calls'[i].cmd \in Rebuilds /\ calls'[i].at = "sent"
    BY DEF Waiting
  <2>2. i <= Len(calls) - d
    BY <1>0, <2>1
  <2>3. Alike(calls'[i], calls[i + d])
    BY <1>0, <2>2 DEF Moves
  <2> QED
    BY <1>0, <2>1, <2>2, <2>3 DEF Alike, Waiting
<1>2. \A i \in DOMAIN calls : Waiting(i) =>
          i > d /\ i - d \in DOMAIN calls' /\ Waiting(i - d)'
  <2> SUFFICES ASSUME NEW i \in DOMAIN calls, Waiting(i)
               PROVE  i > d /\ i - d \in DOMAIN calls' /\ Waiting(i - d)'
    OBVIOUS
  <2>1. i > d
    BY <1>0 DEF Waiting
  <2>2. i - d \in DOMAIN calls' /\ Alike(calls'[i - d], calls[(i - d) + d])
    BY <1>0, <2>1 DEF Moves
  <2> QED
    BY <1>0, <2>1, <2>2 DEF Waiting, Alike
<1> SUFFICES ASSUME ~stale' PROVE
        /\ ui.known = Listed(memory)
        /\ \A i \in DOMAIN calls' : Waiting(i)' =>
              /\ calls'[i].cmd = "save_settings"
              /\ (\A j \in DOMAIN calls' : j > i => ~Waiting(j)')
                    => Same(calls'[i].arg, ui.settings)
        /\ (\A i \in DOMAIN calls' : ~Waiting(i)')
              => Same(memory.settings, ui.settings)
  BY DEF Shown, Listed, Same
<1>3. ui.known = Listed(memory)
  BY DEF Shown
<1>4. ASSUME NEW i \in DOMAIN calls', Waiting(i)'
      PROVE  /\ calls'[i].cmd = "save_settings"
             /\ (\A j \in DOMAIN calls' : j > i => ~Waiting(j)')
                    => Same(calls'[i].arg, ui.settings)
  <2>1. i + d \in DOMAIN calls /\ Alike(calls'[i], calls[i + d]) /\ Waiting(i + d)
    BY <1>1, <1>4
  <2>2. calls[i + d].cmd = "save_settings"
    BY <2>1 DEF Shown
  <2>3. ASSUME \A j \in DOMAIN calls' : j > i => ~Waiting(j)'
        PROVE  Same(calls[i + d].arg, ui.settings)
    <3>1. \A j \in DOMAIN calls : j > i + d => ~Waiting(j)
      BY <1>0, <1>2, <2>3
    <3> QED
      BY <2>1, <3>1 DEF Shown
  <2> QED
    BY <2>1, <2>2, <2>3 DEF Alike
<1>5. ASSUME \A i \in DOMAIN calls' : ~Waiting(i)'
      PROVE  Same(memory.settings, ui.settings)
  <2>1. \A i \in DOMAIN calls : ~Waiting(i)
    BY <1>2, <1>5
  <2> QED
    BY <2>1 DEF Shown
<1> QED
  BY <1>3, <1>4, <1>5

-----------------------------------------------------------------------------
LEMMA EditKeeps ==
    ASSUME NEW s \in Settings, NEW e \in Edits, NEW p \in ProviderIds
    PROVE  /\ [s EXCEPT !.model = e] \in Settings
           /\ [s EXCEPT !.flag = e] \in Settings
           /\ [s EXCEPT !.project = e] \in Settings
           /\ [s EXCEPT !.theme = e] \in Settings
           /\ [s EXCEPT !.provider = p] \in Settings
BY DEF Settings

LEMMA ReadIsPosted ==
    ASSUME NEW with \in {None, "open", "closed"} \cup Nat
    PROVE  /\ Posted(Refresh) /\ Refresh.cmd \notin Rebuilds
           /\ with \in {"open", "closed"} =>
                Posted(Read("get_settings", "toggle", with))
           /\ with \in Edits => Posted(Read("get_preferences", "folder", with))
           /\ Posted([Refresh EXCEPT !.then = "close", !.with = with])
           /\ Posted(Read("get_settings", "sidebar", None))
<1> USE DEF Posted, Refresh, Read, Call, Calls, WellFormed, Reads, Writes,
            Rebuilds, Steps, Arguments, Answers
<1>1. /\ Posted(Refresh) /\ Refresh.cmd \notin Rebuilds
      /\ Posted(Read("get_settings", "sidebar", None))
  OBVIOUS
<1>2. with \in {"open", "closed"} => Posted(Read("get_settings", "toggle", with))
  OBVIOUS
<1>3. with \in Edits => Posted(Read("get_preferences", "folder", with))
  OBVIOUS
<1>4. Posted([Refresh EXCEPT !.then = "close", !.with = with])
  OBVIOUS
<1> QED
  BY <1>1, <1>2, <1>3, <1>4

LEMMA SaveIsPosted ==
    ASSUME NEW s \in Settings
    PROVE  /\ Posted(Call("save_settings", s, "nothing", None))
           /\ Posted(Save(s)) /\ Save(s).cmd = "save_settings"
           /\ Save(s).arg = [s EXCEPT !.theme = 0]
<1>1. [s EXCEPT !.theme = 0] \in Settings
  BY ShellAssumption DEF Settings, Edits
<1>2. \A a \in Settings : Posted(Call("save_settings", a, "nothing", None))
  BY DEF Posted, Call, Calls, WellFormed, Reads, Writes, Rebuilds, Steps,
     Arguments, Answers
<1> QED
  BY <1>1, <1>2 DEF Save, Call

LEMMA FormIsPosted ==
    ASSUME NEW a \in Forms, NEW m \in Nat
    PROVE  Posted(Call("save_provider", a, "provider", m))
BY DEF Posted, Call, Calls, WellFormed, Reads, Writes, Rebuilds, Steps,
     Arguments, Answers

LEMMA FoldersArePosted ==
    ASSUME NEW a \in SUBSET Edits
    PROVE  Posted(Call("save_preferences", a, "nothing", None))
BY DEF Posted, Call, Calls, WellFormed, Reads, Writes, Rebuilds, Steps,
     Arguments, Answers

(* An edit of the UI's settings posts what it shows, perhaps a read after. *)
LEMMA ShownEdit ==
    ASSUME Types, Shown, NEW next \in Settings,
           UNCHANGED <<memory, stale>>,
           ui'.settings = next, ui'.known = ui.known,
           Moves(calls, calls', 0),
           Len(calls) + 1 \in DOMAIN calls',
           calls'[Len(calls) + 1] = Save(next),
           \A i \in DOMAIN calls' :
               i > Len(calls) + 1 => calls'[i].cmd \notin Rebuilds
    PROVE  Shown'
<1>0. calls \in Seq(Calls) /\ calls' \in Seq(Calls) /\ Len(calls') >= Len(calls)
  BY DEF Moves, Types
<1>n. PICK n \in Nat : n = Len(calls) + 1
  BY <1>0
<1>1. /\ Waiting(n)' /\ calls'[n].cmd = "save_settings"
      /\ calls'[n].arg = [next EXCEPT !.theme = 0]
  BY <1>0, <1>n, SaveIsPosted DEF Waiting, Posted, Rebuilds
<1>2. Same(calls'[n].arg, next)
  BY <1>1 DEF Same, Settings
<1>3. \A i \in DOMAIN calls' : i > n => ~Waiting(i)'
  BY <1>n DEF Waiting
<1>4. \A i \in DOMAIN calls' : i < n => i \in DOMAIN calls /\ Alike(calls'[i], calls[i])
  BY <1>0, <1>n DEF Moves
<1> SUFFICES ASSUME ~stale' PROVE
        /\ ui'.known = Listed(memory)
        /\ \A i \in DOMAIN calls' : Waiting(i)' =>
              /\ calls'[i].cmd = "save_settings"
              /\ (\A j \in DOMAIN calls' : j > i => ~Waiting(j)')
                    => Same(calls'[i].arg, next)
        /\ (\A i \in DOMAIN calls' : ~Waiting(i)')
              => Same(memory.settings, next)
  BY DEF Shown, Listed, Same
<1>5. ui'.known = Listed(memory)
  BY DEF Shown
<1>6. ASSUME NEW i \in DOMAIN calls', Waiting(i)'
      PROVE  /\ calls'[i].cmd = "save_settings"
             /\ (\A j \in DOMAIN calls' : j > i => ~Waiting(j)')
                    => Same(calls'[i].arg, next)
  <2>1. CASE i < n
    <3>1. Waiting(i) /\ i \in DOMAIN calls /\ calls'[i].cmd = calls[i].cmd
      BY <1>4, <1>6, <2>1 DEF Waiting, Alike
    <3>2. calls'[i].cmd = "save_settings"
      BY <3>1 DEF Shown
    <3>3. n \in DOMAIN calls'
      BY <1>n
    <3> QED
      BY <1>1, <2>1, <3>2, <3>3
  <2>2. CASE i = n
    BY <1>1, <1>2, <2>2
  <2>3. CASE i > n
    BY <1>3, <1>6, <2>3
  <2> QED
    BY <1>0, <1>n, <2>1, <2>2, <2>3
<1>7. ~\A i \in DOMAIN calls' : ~Waiting(i)'
  BY <1>1, <1>n
<1> QED
  BY <1>5, <1>6, <1>7

(* The whole step of an edit, and of an action that posts no settings.     *)
LEMMA EditStep ==
    ASSUME SyncInv, NEW next \in Settings,
           UNCHANGED <<memory, disk, saving, form, stale>>, edits' \in Nat,
           ui' \in Screen, ui'.settings = next, ui'.known = ui.known,
           \/ calls' = Append(Overtaken, Save(next))
           \/ \E c : /\ Posted(c) /\ c.cmd \notin Rebuilds
                     /\ calls' = Append(Append(Overtaken, Save(next)), c)
    PROVE  SyncInv'
<1> USE DEF SyncInv
<1>1. calls \in Seq(Calls)
  BY DEF Types
<1>2. Posted(Save(next))
  BY SaveIsPosted
<1> DEFINE one == Append(Overtaken, Save(next))
<1>3. /\ Moves(calls, one, 0) /\ Len(one) = Len(calls) + 1
      /\ one[Len(calls) + 1] = Save(next)
  BY <1>1, <1>2, MovesLate, MovesAppend
<1> HIDE DEF one
<1>4. /\ Moves(calls, calls', 0) /\ Len(calls) + 1 \in DOMAIN calls'
      /\ calls'[Len(calls) + 1] = Save(next)
      /\ \A i \in DOMAIN calls' :
             i > Len(calls) + 1 => calls'[i].cmd \notin Rebuilds
  <2>1. CASE calls' = one
    BY <1>1, <1>3, <2>1 DEF Moves
  <2>2. CASE \E c : Posted(c) /\ c.cmd \notin Rebuilds /\ calls' = Append(one, c)
    <3>1. PICK c : Posted(c) /\ c.cmd \notin Rebuilds /\ calls' = Append(one, c)
      BY <2>2
    <3>2. /\ Moves(calls, Append(one, c), 0) /\ Len(Append(one, c)) = Len(one) + 1
          /\ Append(one, c)[Len(one) + 1] = c
          /\ \A i \in DOMAIN one : Append(one, c)[i] = one[i]
      BY <1>1, <1>3, <3>1, MovesAppend
    <3>3. one \in Seq(Calls) /\ calls' \in Seq(Calls)
      BY <1>3, <3>1, <3>2 DEF Moves
    <3> QED
      BY <1>1, <1>3, <3>1, <3>2, <3>3
  <2> QED
    BY <2>1, <2>2 DEF one
<1>5. /\ calls' \in Seq(Calls) /\ \A i \in DOMAIN calls' : WellFormed(calls'[i])
      /\ Ordered' /\ Fresh'
  BY <1>4, QueueMoves
<1>6. Shown'
  BY <1>4, ShownEdit
<1>7. Types'
  BY <1>5 DEF Types
<1> QED
  BY <1>5, <1>6, <1>7

LEMMA QuietStep ==
    ASSUME SyncInv, NEW d \in {0, 1}, Moves(calls, calls', d),
           UNCHANGED <<memory, disk, saving>>, edits' \in Nat,
           form' \in [busy : {"no", "save", "probe"}, mount : Nat],
           ui' \in Screen, ui'.settings = ui.settings, ui'.known = ui.known,
           stale' \in BOOLEAN, ~stale' => ~stale,
           d = 1 => calls # <<>> /\ calls[1].at \in {"answered", "failed"},
           stale' = TRUE \/ \A i \in DOMAIN calls' :
                                i > Len(calls) - d => calls'[i].cmd \notin Rebuilds
    PROVE  SyncInv'
<1> USE DEF SyncInv
<1>1. /\ calls' \in Seq(Calls) /\ \A i \in DOMAIN calls' : WellFormed(calls'[i])
      /\ Ordered' /\ Fresh'
  BY QueueMoves
<1>2. Shown'
  <2>1. CASE stale' = TRUE
    BY <2>1 DEF Shown
  <2>2. CASE stale' = FALSE
    BY <2>2, ShownMoves
  <2> QED
    BY <2>1, <2>2
<1>3. Types'
  BY <1>1 DEF Types
<1> QED
  BY <1>1, <1>2, <1>3

(* An action that posts one call or none behind the queue.                 *)
LEMMA PostStep ==
    ASSUME SyncInv, UNCHANGED <<memory, disk, saving>>, edits' \in Nat,
           form' \in [busy : {"no", "save", "probe"}, mount : Nat],
           ui' \in Screen, ui'.settings = ui.settings, ui'.known = ui.known,
           stale' \in BOOLEAN, ~stale' => ~stale,
           \/ calls' = calls
           \/ \E c : /\ Posted(c) /\ calls' = calls \o <<c>>
                     /\ stale' = TRUE \/ c.cmd \notin Rebuilds
    PROVE  SyncInv'
<1>1. calls \in Seq(Calls)
  BY DEF SyncInv, Types
<1>2. /\ Moves(calls, calls', 0)
      /\ stale' = TRUE \/ \A i \in DOMAIN calls' :
                       i > Len(calls) => calls'[i].cmd \notin Rebuilds
  <2>1. CASE calls' = calls
    BY <1>1, <2>1, MovesNone
  <2>2. CASE \E c : /\ Posted(c) /\ calls' = calls \o <<c>>
                    /\ stale' = TRUE \/ c.cmd \notin Rebuilds
    <3>1. PICK c : /\ Posted(c) /\ calls' = calls \o <<c>>
                   /\ stale' = TRUE \/ c.cmd \notin Rebuilds
      BY <2>2
    <3>2. calls' = Append(calls, c)
      BY <1>1, <3>1, PostOne DEF Posted
    <3>0. Moves(calls, calls, 0) /\ Len(calls) >= 0
      BY <1>1, MovesNone
    <3>3. /\ Moves(calls, Append(calls, c), 0)
          /\ Len(Append(calls, c)) = Len(calls) + 1
          /\ Append(calls, c)[Len(calls) + 1] = c
      BY <1>1, <3>0, <3>1, MovesAppend
    <3>4. \A i \in DOMAIN calls' : i > Len(calls) => calls'[i] = c
      BY <1>1, <3>2, <3>3 DEF Moves
    <3> QED
      BY <3>1, <3>2, <3>3, <3>4
  <2> QED
    BY <2>1, <2>2
<1>3. stale' = TRUE \/ \A i \in DOMAIN calls' :
                          i > Len(calls) - 0 => calls'[i].cmd \notin Rebuilds
  <2>1. Len(calls) - 0 = Len(calls)
    BY <1>1
  <2> QED
    BY <1>2, <2>1
<1>4. 0 \in {0, 1} /\ 0 # 1
  OBVIOUS
<1> QED
  BY <1>2, <1>3, <1>4, QuietStep, Zenon

-----------------------------------------------------------------------------
LEMMA UserStep ==
    ASSUME SyncInv, User
    PROVE  SyncInv'
<1> USE DEF SyncInv
<1>0. /\ edits + 1 \in Edits /\ edits + 1 \in Nat /\ edits' = edits + 1
      /\ ui \in Screen /\ ui.settings \in Settings /\ calls \in Seq(Calls)
      /\ ui.known \subseteq ProviderIds /\ stale \in BOOLEAN
      /\ form \in [busy : {"no", "save", "probe"}, mount : Nat]
  BY ShellAssumption DEF User, Types, Edits, Screen
<1>1. ASSUME NEW f, NEW v, Edit(f, v),
             [ui.settings EXCEPT ![f] = v] \in Settings
      PROVE  SyncInv'
  <2> DEFINE next == [ui.settings EXCEPT ![f] = v]
  <2>1. /\ ui' = [ui EXCEPT !.settings = next]
        /\ calls' = Append(Overtaken, Save(next))
        /\ UNCHANGED <<memory, disk, saving, form, stale>>
    BY <1>1 DEF Edit, store
  <2>2. next \in Settings
    BY <1>1
  <2> HIDE DEF next
  <2>3. ui' \in Screen /\ ui'.settings = next /\ ui'.known = ui.known
    BY <1>0, <2>1, <2>2 DEF Screen
  <2> QED
    BY <1>0, <2>1, <2>2, <2>3, EditStep
<1>2. CASE ChangeModelOrFlag
  <2>1. PICK f \in {"model", "flag"} : Edit(f, edits + 1)
    BY <1>2 DEF ChangeModelOrFlag
  <2>2. [ui.settings EXCEPT ![f] = edits + 1] \in Settings
    BY <1>0 DEF Settings
  <2> QED
    BY <1>1, <2>1, <2>2
<1>3. CASE UseProvider
  <2>1. PICK p \in ui.known : Edit("provider", p)
    BY <1>3 DEF UseProvider
  <2>2. [ui.settings EXCEPT !["provider"] = p] \in Settings
    BY <1>0 DEF Settings
  <2> QED
    BY <1>1, <2>1, <2>2
<1>4. CASE SetActiveProject
  <2>1. PICK e \in {0} \cup SessionsOf(ui) \cup ui.extra :
          LET next == [ui.settings EXCEPT !.project = e]
          IN  /\ ui' = [ui EXCEPT !.settings = next, !.active = e]
              /\ calls' = Append(Overtaken, Save(next))
    BY <1>4 DEF SetActiveProject
  <2>2. e \in Edits
    BY <1>0, ShellAssumption, SyncAssumption DEF SessionsOf, Edits, Screen
  <2> DEFINE next == [ui.settings EXCEPT !.project = e]
  <2>3. next \in Settings
    BY <1>0, <2>2, SyncAssumption, EditKeeps
  <2>4. /\ ui' = [ui EXCEPT !.settings = next, !.active = e]
        /\ calls' = Append(Overtaken, Save(next))
    BY <2>1
  <2> HIDE DEF next
  <2>5. ui' \in Screen /\ ui'.settings = next /\ ui'.known = ui.known
    BY <1>0, <2>2, <2>3, <2>4 DEF Screen
  <2>6. UNCHANGED <<memory, disk, saving, form, stale>>
    BY <1>4 DEF SetActiveProject, store
  <2> QED
    BY <1>0, <2>3, <2>4, <2>5, <2>6, EditStep
<1>5. CASE AddProject
  <2> DEFINE next == [ui.settings EXCEPT !.project = edits + 1]
             read == Read("get_preferences", "folder", edits + 1)
  <2>1. /\ ui' = [ui EXCEPT !.settings = next, !.active = edits + 1,
                            !.extra = @ \cup {edits + 1}]
        /\ calls' = Overtaken \o <<Save(next), read>>
        /\ UNCHANGED <<memory, disk, saving, form, stale>>
    BY <1>5 DEF AddProject, store
  <2>2. next \in Settings
    BY <1>0, SyncAssumption, EditKeeps
  <2>3. Posted(read) /\ read.cmd \notin Rebuilds
    BY <1>0, ReadIsPosted DEF Read, Call, Rebuilds
  <2> HIDE DEF next, read
  <2>4. ui' \in Screen /\ ui'.settings = next /\ ui'.known = ui.known
    BY <1>0, <2>1, <2>2 DEF Screen
  <2>5. Overtaken \in Seq(Calls) /\ Save(next) \in Calls /\ read \in Calls
    BY <1>0, <2>2, <2>3, MovesLate, SaveIsPosted DEF Moves, Posted
  <2>6. calls' = Append(Append(Overtaken, Save(next)), read)
    BY <2>1, <2>5, PostTwo
  <2> QED
    BY <1>0, <2>1, <2>2, <2>3, <2>4, <2>6, EditStep
<1>6. CASE ToggleSidebar
  <2>1. PICK w \in {"open", "closed"} :
            calls' = calls \o <<Read("get_settings", "toggle", w)>>
    BY <1>6, <1>0 DEF ToggleSidebar, Send, Screen
  <2>2. Posted(Read("get_settings", "toggle", w))
    BY ReadIsPosted
  <2>3. Read("get_settings", "toggle", w).cmd \notin Rebuilds
    BY DEF Read, Call, Rebuilds
  <2>4. /\ ui' = [ui EXCEPT !.collapsed = ~@]
        /\ UNCHANGED <<memory, disk, saving, form, stale>>
    BY <1>6 DEF ToggleSidebar, store
  <2>5. ui' \in Screen /\ ui'.settings = ui.settings /\ ui'.known = ui.known
    BY <1>0, <2>4 DEF Screen
  <2> QED
    BY <1>0, <2>1, <2>2, <2>3, <2>4, <2>5, PostStep
<1>7. CASE RefreshAppState
  <2>1. /\ calls' = calls \o <<Refresh>>
        /\ UNCHANGED <<ui, memory, disk, saving, form, stale>>
    BY <1>7 DEF RefreshAppState, Send, store
  <2> QED
    BY <1>0, <2>1, ReadIsPosted, PostStep
<1>8. CASE LeaveTab
  <2>1. /\ form' = [busy |-> "no", mount |-> form.mount + 1]
        /\ UNCHANGED <<ui, memory, disk, saving, calls, stale>>
    BY <1>8 DEF LeaveTab, store
  <2> QED
    BY <1>0, <2>1, PostStep
<1>9. CASE SubmitProvider
  <2>1. PICK p \in ProviderIds, filled \in Filled :
          calls' = calls \o <<Call("save_provider",
                  [id |-> p, url |-> "url" \in filled,
                   key |-> IF "key" \in filled THEN edits + 1 ELSE 0,
                   model |-> IF "model" \in filled THEN edits + 1 ELSE 0],
                  "provider", form.mount)>>
    BY <1>9 DEF SubmitProvider, Send
  <2> DEFINE a == [id |-> p, url |-> "url" \in filled,
                   key |-> IF "key" \in filled THEN edits + 1 ELSE 0,
                   model |-> IF "model" \in filled THEN edits + 1 ELSE 0]
  <2>2. a \in Forms
    BY <1>0, ShellAssumption DEF Forms, Edits
  <2> HIDE DEF a
  <2>3. Posted(Call("save_provider", a, "provider", form.mount))
    BY <1>0, <2>2, FormIsPosted
  <2>4. calls' = calls \o <<Call("save_provider", a, "provider", form.mount)>>
    BY <2>1 DEF a
  <2>5. /\ form' = [form EXCEPT !.busy = "save"] /\ stale' = TRUE
        /\ UNCHANGED <<ui, memory, disk, saving>>
    BY <1>9 DEF SubmitProvider, store
  <2> QED
    BY <1>0, <2>3, <2>4, <2>5, PostStep
<1>10. CASE Probe
  <2>1. /\ form' = [form EXCEPT !.busy = "probe"]
        /\ UNCHANGED <<ui, memory, disk, saving, calls, stale>>
    BY <1>10 DEF Probe, store
  <2> QED
    BY <1>0, <2>1, PostStep
<1> QED
  BY <1>2, <1>3, <1>4, <1>5, <1>6, <1>7, <1>8, <1>9, <1>10 DEF User

-----------------------------------------------------------------------------
(* The next call to serve is the first that is not done.                   *)
LEMMA FirstUnserved ==
    ASSUME calls \in Seq(Calls), NEW k \in Nat, Done(k), Unserved # {}
    PROVE  Next1 = k + 1 /\ k + 1 \in DOMAIN calls /\ k + 1 \in Unserved
<1>1. \A i \in DOMAIN calls : i \in Unserved <=> i > k
  BY DEF Done, Unserved
<1>2. PICK u \in Unserved : u \in DOMAIN calls
  BY DEF Unserved
<1>3. k + 1 \in DOMAIN calls /\ k + 1 \in Unserved
  BY <1>1, <1>2
<1>4. \A j \in Unserved : j \in DOMAIN calls /\ k + 1 <= j
  BY <1>1 DEF Unserved
<1>5. \A i \in Unserved : (\A j \in Unserved : i <= j) <=> i = k + 1
  BY <1>3, <1>4
<1>6. Next1 = CHOOSE i \in Unserved : i = k + 1
  BY <1>5 DEF Next1
<1> QED
  BY <1>3, <1>6

(* The call n gets an answer; nothing else in the queue changes.           *)
LEMMA Answered ==
    ASSUME calls \in Seq(Calls), NEW n \in DOMAIN calls,
           NEW how \in {"saving", "answered", "failed"}, NEW value,
           value \in Answers,
           Answer(n, how, value)
    PROVE  /\ calls' \in Seq(Calls) /\ DOMAIN calls' = DOMAIN calls
           /\ Len(calls') = Len(calls)
           /\ calls'[n].at = how /\ calls'[n].answer = value
           /\ \A i \in DOMAIN calls : i # n => calls'[i] = calls[i]
           /\ \A i \in DOMAIN calls :
                  /\ calls'[i].cmd = calls[i].cmd /\ calls'[i].arg = calls[i].arg
                  /\ calls'[i].then = calls[i].then
                  /\ calls'[i].with = calls[i].with
<1>1. PICK c \in Calls : c = calls[n]
  OBVIOUS
<1>2. PICK d : d = [c EXCEPT !.at = how, !.answer = value]
  OBVIOUS
<1>3. /\ d \in Calls /\ d.at = how /\ d.answer = value
      /\ d.cmd = c.cmd /\ d.arg = c.arg /\ d.then = c.then /\ d.with = c.with
  BY <1>2 DEF Calls
<1>4. calls' = [calls EXCEPT ![n] = d]
  BY <1>1, <1>2 DEF Answer
<1>5. /\ calls' \in Seq(Calls) /\ Len(calls') = Len(calls)
      /\ \A i \in DOMAIN calls : i # n => calls'[i] = calls[i]
      /\ calls'[n] = d
  BY <1>3, <1>4
<1> QED
  BY <1>1, <1>3, <1>5

LEMMA WrittenIsTyped ==
    ASSUME memory \in Memory, NEW c \in Calls, WellFormed(c), c.cmd \in Writes
    PROVE  /\ Written(memory, c) \in Memory
           /\ c.cmd = "save_settings" =>
                /\ Written(memory, c).settings =
                     [c.arg EXCEPT !.theme = IF c.arg.theme = 0
                          THEN memory.settings.theme ELSE c.arg.theme]
                /\ Written(memory, c).providers = memory.providers
           /\ c.cmd = "save_preferences" =>
                /\ Written(memory, c).settings = memory.settings
                /\ Written(memory, c).providers = memory.providers
           /\ c.cmd = "save_provider" =>
                /\ Written(memory, c).settings.theme = memory.settings.theme
                /\ \A p \in ProviderIds : memory.providers[p].key # 0
                       => Written(memory, c).providers[p].key # 0
<1>1. CASE c.cmd = "save_settings"
  <2>1. Written(memory, c) = SaveSettings(memory, c.arg) /\ c.arg \in Settings
    BY <1>1 DEF Written, WellFormed
  <2> DEFINE s == [c.arg EXCEPT !.theme = IF c.arg.theme = 0
                          THEN memory.settings.theme ELSE c.arg.theme]
  <2>2. s \in Settings
    BY <2>1 DEF Settings, Memory
  <2>3. Written(memory, c) = [memory EXCEPT !.settings = s]
    BY <2>1 DEF SaveSettings
  <2> HIDE DEF s
  <2>4. /\ [memory EXCEPT !.settings = s] \in Memory
        /\ [memory EXCEPT !.settings = s].settings = s
        /\ [memory EXCEPT !.settings = s].providers = memory.providers
    BY <2>2 DEF Memory
  <2> QED
    BY <1>1, <2>3, <2>4 DEF s
<1>2. CASE c.cmd = "save_preferences"
  <2>1. Written(memory, c) = [memory EXCEPT !.folders = c.arg]
        /\ c.arg \in SUBSET Edits
    BY <1>2 DEF Written, WellFormed, SavePreferences
  <2> QED
    BY <1>2, <2>1 DEF Memory
<1>3. CASE c.cmd = "save_provider"
  <2>1. Written(memory, c) = SaveProvider(memory, c.arg) /\ c.arg \in Forms
    BY <1>3 DEF Written, WellFormed
  <2>2. PICK new \in Forms : new = c.arg
    BY <2>1
  <2> DEFINE p == [known |-> TRUE, url |-> new.url,
                   key |-> IF new.key = 0 THEN memory.providers[new.id].key
                           ELSE new.key]
             ps == [memory.providers EXCEPT ![new.id] = p]
             s == [memory.settings EXCEPT
                     !.model = IF new.model = 0 THEN memory.settings.model
                               ELSE new.model,
                     !.provider = new.id]
  <2>3. new.id \in ProviderIds /\ p \in Provider
    BY DEF Forms, Provider, Memory
  <2>4. ps \in [ProviderIds -> Provider] /\ s \in Settings
    BY <2>3 DEF Memory, Settings, Forms
  <2>5. /\ s.theme = memory.settings.theme
        /\ \A q \in ProviderIds : memory.providers[q].key # 0 => ps[q].key # 0
    BY <2>3 DEF Memory, Settings
  <2>6. Written(memory, c) = [memory EXCEPT !.providers = ps, !.settings = s]
    BY <2>1, <2>2 DEF SaveProvider, Memory, Settings
  <2> HIDE DEF p, ps, s
  <2>7. /\ [memory EXCEPT !.providers = ps, !.settings = s] \in Memory
        /\ [memory EXCEPT !.providers = ps, !.settings = s].settings = s
        /\ [memory EXCEPT !.providers = ps, !.settings = s].providers = ps
    BY <2>4 DEF Memory
  <2> QED
    BY <1>3, <2>5, <2>6, <2>7
<1> QED
  BY <1>1, <1>2, <1>3 DEF Writes, Rebuilds

-----------------------------------------------------------------------------
LEMMA ListedFollows ==
    ASSUME NEW m, NEW n, m.providers = n.providers
    PROVE  Listed(m) = Listed(n)
BY DEF Listed

(* A read is answered with what the store holds.                           *)
LEMMA ReadServed ==
    ASSUME SyncInv, saving = None, Unserved # {},
           calls[Next1].cmd \in Reads, NEW value \in Answers,
           Answer(Next1, "answered", value),
           UNCHANGED <<memory, disk, saving, ui, form, edits, stale>>,
           calls[Next1].cmd = "refresh" =>
               /\ value \in State
               /\ value.settings = memory.settings
               /\ value.known = Listed(memory),
           calls[Next1].cmd = "get_settings" => value = memory.settings,
           calls[Next1].cmd = "get_preferences" => value \in SUBSET Edits
    PROVE  SyncInv'
<1> USE DEF SyncInv
<1>1. PICK k \in Nat : Done(k)
  BY DEF Ordered
<1>2. calls \in Seq(Calls) /\ memory.settings \in Settings
  BY DEF Types, Memory
<1>3. PICK n \in DOMAIN calls : n = Next1 /\ n = k + 1
  BY <1>1, <1>2, FirstUnserved
<1>4. /\ calls' \in Seq(Calls) /\ DOMAIN calls' = DOMAIN calls
      /\ Len(calls') = Len(calls)
      /\ calls'[n].at = "answered" /\ calls'[n].answer = value
      /\ \A i \in DOMAIN calls : i # n => calls'[i] = calls[i]
      /\ \A i \in DOMAIN calls :
             /\ calls'[i].cmd = calls[i].cmd /\ calls'[i].arg = calls[i].arg
             /\ calls'[i].then = calls[i].then
             /\ calls'[i].with = calls[i].with
  BY <1>2, <1>3, Answered
<1>5. \A i \in DOMAIN calls' : WellFormed(calls'[i])
  <2> SUFFICES ASSUME NEW i \in DOMAIN calls PROVE WellFormed(calls'[i])
    BY <1>4
  <2>1. WellFormed(calls[i])
    BY DEF Types
  <2>2. CASE i = n
    BY <1>2, <1>3, <1>4, <2>1, <2>2 DEF WellFormed
  <2>3. CASE i # n
    BY <1>4, <2>1, <2>3
  <2> QED
    BY <2>2, <2>3
<1>6. Done(k + 1)'
  BY <1>1, <1>2, <1>3, <1>4 DEF Done
<1>7. Fresh'
  <2> SUFFICES ASSUME NEW i \in DOMAIN calls, calls'[i].at = "answered",
                      \A j \in DOMAIN calls : j > i /\ calls'[j].cmd \in Rebuilds
                          => calls'[j].at = "sent"
               PROVE  /\ calls'[i].cmd = "refresh" =>
                           /\ calls'[i].answer.settings = memory.settings
                           /\ calls'[i].answer.known = Listed(memory)
                      /\ calls'[i].cmd = "get_settings" =>
                           calls'[i].answer = memory.settings
    BY <1>4 DEF Fresh, Listed
  <2>1. CASE i = n
    BY <1>3, <1>4, <2>1
  <2>2. CASE i # n
    <3>1. calls'[i] = calls[i]
      BY <1>4, <2>2
    <3>2. \A j \in DOMAIN calls : j > i /\ calls[j].cmd \in Rebuilds
                          => calls[j].at = "sent"
      BY <1>3, <1>4 DEF Reads, Rebuilds
    <3> QED
      BY <3>1, <3>2 DEF Fresh
  <2> QED
    BY <2>1, <2>2
<1>8. \A i \in DOMAIN calls : Waiting(i)' <=> Waiting(i)
  BY <1>3, <1>4 DEF Waiting, Reads, Rebuilds
<1>9. Shown'
  BY <1>4, <1>8 DEF Shown, Listed, Same
<1>10. Types'
  BY <1>4, <1>5 DEF Types
<1> QED
  BY <1>6, <1>7, <1>9, <1>10 DEF Ordered

(* A write changes the store; it is no longer on its way.                  *)
LEMMA WriteServed ==
    ASSUME SyncInv, Unserved # {},
           calls[Next1].cmd \in Writes, Change(calls[Next1]),
           Answer(Next1, "saving", None),
           UNCHANGED <<ui, form, edits, stale>>
    PROVE  SyncInv'
<1> USE DEF SyncInv
<1>1. PICK k \in Nat : Done(k)
  BY DEF Ordered
<1>2. calls \in Seq(Calls) /\ memory \in Memory
  BY DEF Types
<1>3. PICK n \in DOMAIN calls : n = Next1 /\ n = k + 1
  BY <1>1, <1>2, FirstUnserved
<1>4. /\ calls' \in Seq(Calls) /\ DOMAIN calls' = DOMAIN calls
      /\ Len(calls') = Len(calls)
      /\ calls'[n].at = "saving" /\ calls'[n].answer = None
      /\ \A i \in DOMAIN calls : i # n => calls'[i] = calls[i]
      /\ \A i \in DOMAIN calls :
             /\ calls'[i].cmd = calls[i].cmd /\ calls'[i].arg = calls[i].arg
             /\ calls'[i].then = calls[i].then
             /\ calls'[i].with = calls[i].with
  BY <1>2, <1>3, Answered DEF Answers
<1>5. /\ saving = None /\ saving' = calls[n].cmd /\ saving' # None
      /\ memory' = Written(memory, calls[n])
      /\ UNCHANGED disk /\ WellFormed(calls[n]) /\ calls[n] \in Calls
      /\ calls[n].cmd \in Writes
  BY <1>2, <1>3, CommandAssumption DEF Change, Types
<1>6. /\ memory' \in Memory
      /\ calls[n].cmd = "save_settings" =>
           /\ memory'.settings = [calls[n].arg EXCEPT !.theme =
                  IF calls[n].arg.theme = 0 THEN memory.settings.theme
                  ELSE calls[n].arg.theme]
           /\ memory'.providers = memory.providers
      /\ calls[n].cmd = "save_preferences" =>
           /\ memory'.settings = memory.settings
           /\ memory'.providers = memory.providers
  BY <1>2, <1>5, WrittenIsTyped
<1>7. \A i \in DOMAIN calls' : WellFormed(calls'[i])
  <2> SUFFICES ASSUME NEW i \in DOMAIN calls PROVE WellFormed(calls'[i])
    BY <1>4
  <2>1. WellFormed(calls[i])
    BY DEF Types
  <2>2. CASE i = n
    BY <1>4, <1>5, <2>1, <2>2 DEF WellFormed, Reads, Writes, Rebuilds
  <2>3. CASE i # n
    BY <1>4, <2>1, <2>3
  <2> QED
    BY <2>2, <2>3
<1>8. Done(k)'
  BY <1>1, <1>2, <1>3, <1>4, <1>5 DEF Done
<1>9. calls[n].at = "sent"
  BY <1>1, <1>3, <1>5 DEF Done
<1>10. Fresh'
  <2> SUFFICES ASSUME NEW i \in DOMAIN calls, calls'[i].at = "answered",
                      \A j \in DOMAIN calls : j > i /\ calls'[j].cmd \in Rebuilds
                          => calls'[j].at = "sent"
               PROVE  /\ calls'[i].cmd = "refresh" =>
                           /\ calls'[i].answer.settings = memory'.settings
                           /\ calls'[i].answer.known = Listed(memory')
                      /\ calls'[i].cmd = "get_settings" =>
                           calls'[i].answer = memory'.settings
    BY <1>4 DEF Fresh, Listed
  <2>1. i # n /\ calls'[i] = calls[i]
    BY <1>4
  <2>2. i < n
    BY <1>1, <1>2, <1>3, <2>1 DEF Done
  <2>3. calls[n].cmd = "save_preferences"
    BY <1>4, <1>5, <2>2 DEF Writes
  <2>4. \A j \in DOMAIN calls : j > i /\ calls[j].cmd \in Rebuilds
            => calls[j].at = "sent"
    BY <1>4, <1>9
  <2> QED
    BY <1>6, <2>1, <2>3, <2>4, ListedFollows DEF Fresh
<1>11. Shown'
  <2> SUFFICES ASSUME ~stale PROVE
        /\ ui.known = Listed(memory')
        /\ \A i \in DOMAIN calls : Waiting(i)' =>
              /\ calls'[i].cmd = "save_settings"
              /\ (\A j \in DOMAIN calls : j > i => ~Waiting(j)')
                    => Same(calls'[i].arg, ui.settings)
        /\ (\A i \in DOMAIN calls : ~Waiting(i)')
              => Same(memory'.settings, ui.settings)
    BY <1>4 DEF Shown, Listed, Same
  <2>1. \A i \in DOMAIN calls : Waiting(i)' <=> i # n /\ Waiting(i)
    BY <1>4 DEF Waiting
  <2>2. calls[n].cmd \in {"save_settings", "save_preferences"}
    BY <1>5, <1>9 DEF Shown, Waiting, Writes, Rebuilds
  <2>3. ui.known = Listed(memory')
    BY <1>6, <2>2, ListedFollows DEF Shown
  <2>4. \A i \in DOMAIN calls : Waiting(i) => i >= n
    BY <1>1, <1>2, <1>3 DEF Waiting, Done
  <2>5. ASSUME NEW i \in DOMAIN calls, Waiting(i)'
        PROVE  /\ calls'[i].cmd = "save_settings"
               /\ (\A j \in DOMAIN calls : j > i => ~Waiting(j)')
                    => Same(calls'[i].arg, ui.settings)
    <3>1. Waiting(i) /\ i # n /\ calls'[i] = calls[i] /\ i > n
      BY <1>2, <1>4, <2>1, <2>4, <2>5
    <3>2. (\A j \in DOMAIN calls : j > i => ~Waiting(j)') =>
             \A j \in DOMAIN calls : j > i => ~Waiting(j)
      BY <1>2, <2>1, <3>1
    <3> QED
      BY <3>1, <3>2 DEF Shown
  <2>6. ASSUME \A i \in DOMAIN calls : ~Waiting(i)'
        PROVE  Same(memory'.settings, ui.settings)
    <3>1. CASE calls[n].cmd = "save_preferences"
      <4>1. \A i \in DOMAIN calls : ~Waiting(i)
        BY <2>1, <2>6, <3>1 DEF Waiting, Rebuilds
      <4> QED
        BY <1>6, <3>1, <4>1 DEF Shown
    <3>2. CASE calls[n].cmd = "save_settings"
      <4>1. Waiting(n) /\ \A j \in DOMAIN calls : j > n => ~Waiting(j)
        BY <1>2, <1>9, <2>1, <2>6, <3>2 DEF Waiting, Rebuilds
      <4>2. Same(calls[n].arg, ui.settings)
        BY <4>1 DEF Shown
      <4>3. calls[n].arg \in Settings
        BY <1>5, <3>2 DEF WellFormed
      <4> QED
        BY <1>6, <3>2, <4>2, <4>3 DEF Same, Settings
    <3> QED
      BY <2>2, <3>1, <3>2
  <2> QED
    BY <2>3, <2>5, <2>6
<1>12. Types'
  BY <1>4, <1>5, <1>6, <1>7 DEF Types
<1> QED
  BY <1>8, <1>10, <1>11, <1>12 DEF Ordered

LEMMA ServeStep ==
    ASSUME SyncInv, Serve
    PROVE  SyncInv'
<1>0. saving = None /\ Unserved # {} /\ UNCHANGED <<ui, form, edits, stale>>
  BY DEF Serve
<1>1. memory \in Memory /\ memory.settings \in Settings
      /\ memory.folders \in SUBSET Edits
  BY DEF SyncInv, Types, Memory
<1>2. CASE /\ calls[Next1].cmd = "refresh"
           /\ Answer(Next1, "answered", [settings |-> memory.settings,
                                         known |-> Listed(memory)])
           /\ UNCHANGED store
  <2> DEFINE value == [settings |-> memory.settings, known |-> Listed(memory)]
  <2>1. /\ value \in State /\ value.settings = memory.settings
        /\ value.known = Listed(memory)
    BY <1>1 DEF State, Listed
  <2>2. Answer(Next1, "answered", value)
    BY <1>2
  <2> HIDE DEF value
  <2>3. value \in Answers
    BY <2>1 DEF Answers
  <2> QED
    BY <1>0, <1>2, <2>1, <2>2, <2>3, ReadServed DEF Reads, store
<1>3. CASE /\ calls[Next1].cmd = "get_settings"
           /\ Answer(Next1, "answered", memory.settings)
           /\ UNCHANGED store
  <2>1. memory.settings \in Answers
    BY <1>1 DEF Answers
  <2> QED
    BY <1>0, <1>3, <2>1, ReadServed DEF Reads, store
<1>4. CASE /\ calls[Next1].cmd = "get_preferences"
           /\ Answer(Next1, "answered", memory.folders)
           /\ UNCHANGED store
  <2>1. memory.folders \in Answers
    BY <1>1 DEF Answers
  <2> QED
    BY <1>0, <1>1, <1>4, <2>1, ReadServed DEF Reads, store
<1>5. CASE /\ calls[Next1].cmd \in Writes
           /\ Change(calls[Next1])
           /\ Answer(Next1, "saving", None)
  BY <1>0, <1>5, WriteServed
<1> QED
  BY <1>2, <1>3, <1>4, <1>5 DEF Serve

LEMMA SaveEndsStep ==
    ASSUME SyncInv, SaveEnds
    PROVE  SyncInv'
<1> USE DEF SyncInv
<1>0. /\ saving # None /\ saving' = None
      /\ UNCHANGED <<memory, ui, form, edits, stale>>
      /\ disk' \in {disk, memory}
      /\ \E how \in {"answered", "failed"} : Answer(Next1, how, None)
  BY DEF SaveEnds, Saved, SaveFails
<1>1. PICK k \in Nat : Done(k)
  BY DEF Ordered
<1>2. calls \in Seq(Calls)
  BY DEF Types
<1>3. Unserved # {}
  <2>1. k + 1 \in DOMAIN calls /\ calls[k + 1].at = "saving"
    BY <1>0, <1>1, <1>2 DEF Done
  <2> QED
    BY <2>1 DEF Unserved
<1>4. PICK n \in DOMAIN calls : n = Next1 /\ n = k + 1
  BY <1>1, <1>2, <1>3, FirstUnserved
<1>5. PICK how \in {"answered", "failed"} : Answer(n, how, None)
  BY <1>0, <1>4
<1>6. /\ calls' \in Seq(Calls) /\ DOMAIN calls' = DOMAIN calls
      /\ Len(calls') = Len(calls)
      /\ calls'[n].at = how /\ calls'[n].answer = None
      /\ \A i \in DOMAIN calls : i # n => calls'[i] = calls[i]
      /\ \A i \in DOMAIN calls :
             /\ calls'[i].cmd = calls[i].cmd /\ calls'[i].arg = calls[i].arg
             /\ calls'[i].then = calls[i].then
             /\ calls'[i].with = calls[i].with
  BY <1>2, <1>5, Answered DEF Answers
<1>7. calls[n].at = "saving" /\ calls[n].cmd \in Writes
  BY <1>0, <1>1, <1>4 DEF Done, Types
<1>8. \A i \in DOMAIN calls' : WellFormed(calls'[i])
  <2> SUFFICES ASSUME NEW i \in DOMAIN calls PROVE WellFormed(calls'[i])
    BY <1>6
  <2>1. WellFormed(calls[i])
    BY DEF Types
  <2>2. CASE i = n
    BY <1>6, <1>7, <2>1, <2>2 DEF WellFormed, Reads, Writes, Rebuilds
  <2>3. CASE i # n
    BY <1>6, <2>1, <2>3
  <2> QED
    BY <2>2, <2>3
<1>9. Done(k + 1)'
  <2>1. \A i \in DOMAIN calls : i > k + 1 => calls[i].at = "sent"
    BY <1>1 DEF Done
  <2>2. \A i \in DOMAIN calls :
            i <= k <=> calls[i].at \in {"answered", "failed"}
    BY <1>1 DEF Done
  <2>3. n <= Len(calls)
    BY <1>2
  <2> QED
    BY <1>0, <1>2, <1>4, <1>5, <1>6, <2>1, <2>2, <2>3, SMTT(30) DEF Done
<1>10. Fresh'
  <2> SUFFICES ASSUME NEW i \in DOMAIN calls, calls'[i].at = "answered",
                      \A j \in DOMAIN calls : j > i /\ calls'[j].cmd \in Rebuilds
                          => calls'[j].at = "sent"
               PROVE  /\ calls'[i].cmd = "refresh" =>
                           /\ calls'[i].answer.settings = memory.settings
                           /\ calls'[i].answer.known = Listed(memory)
                      /\ calls'[i].cmd = "get_settings" =>
                           calls'[i].answer = memory.settings
    BY <1>0, <1>6 DEF Fresh, Listed
  <2>1. CASE i = n
    BY <1>6, <1>7, <2>1 DEF Writes, Rebuilds
  <2>2. CASE i # n
    <3>1. calls'[i] = calls[i]
      BY <1>6, <2>2
    <3>2. \A j \in DOMAIN calls : j > i /\ calls[j].cmd \in Rebuilds
              => calls[j].at = "sent"
      BY <1>5, <1>6
    <3> QED
      BY <3>1, <3>2 DEF Fresh
  <2> QED
    BY <2>1, <2>2
<1>11. \A i \in DOMAIN calls : Waiting(i)' <=> Waiting(i)
  BY <1>5, <1>6, <1>7 DEF Waiting
<1>12. Shown'
  BY <1>0, <1>6, <1>11 DEF Shown, Listed, Same
<1>13. Types'
  BY <1>0, <1>6, <1>8 DEF Types
<1> QED
  BY <1>9, <1>10, <1>12, <1>13 DEF Ordered

-----------------------------------------------------------------------------
(* A refresh shows what the store held when it was answered, and nothing   *)
(* has changed the store since if no write is behind it.                   *)
LEMMA MergeShows ==
    ASSUME NEW s \in Settings, NEW raw \in Settings
    PROVE  Merge(s, raw) \in Settings /\ Same(raw, Merge(s, raw))
<1>1. Merge(s, raw) \in Settings
  <2> DEFINE a == IF raw.sidebar = "unset" THEN s.sidebar ELSE raw.sidebar
             b == IF raw.project = None THEN s.project ELSE raw.project
             d == IF raw.flag = None THEN s.flag ELSE raw.flag
  <2>1. /\ raw.provider \in ProviderIds \cup {None} /\ raw.model \in Edits
        /\ a \in SidebarSetting /\ b \in Edits \cup {None}
        /\ d \in Edits \cup {None}
    BY DEF Settings
  <2>2. Merge(s, raw) = [s EXCEPT !.provider = raw.provider,
                            !.model = raw.model, !.sidebar = a,
                            !.project = b, !.flag = d]
    BY DEF Merge
  <2> HIDE DEF a, b, d
  <2> QED
    BY <2>1, <2>2 DEF Settings
<1>2. /\ Merge(s, raw).provider = raw.provider
      /\ Merge(s, raw).model = raw.model
      /\ raw.project \in {Merge(s, raw).project, None}
      /\ raw.flag \in {Merge(s, raw).flag, None}
  BY DEF Merge, Settings
<1> QED
  BY <1>1, <1>2 DEF Same

LEMMA SettleStep ==
    ASSUME SyncInv, Settle
    PROVE  SyncInv'
<1> USE DEF SyncInv
<1> DEFINE c == calls[1]
<1>0. /\ calls \in Seq(Calls) /\ calls # <<>> /\ 1 \in DOMAIN calls
      /\ c = Head(calls) /\ c.at \in {"answered", "failed"}
      /\ c \in Calls /\ WellFormed(c)
      /\ UNCHANGED <<memory, disk, saving, edits>>
      /\ ui \in Screen /\ stale \in BOOLEAN
      /\ form \in [busy : {"no", "save", "probe"}, mount : Nat]
      /\ edits \in Nat /\ Len(calls) \in Nat
  BY DEF Settle, Types, store
<1>1. /\ Moves(calls, Rest, 1) /\ Len(Rest) = Len(calls) - 1
      /\ Len(calls) >= 1 /\ Rest \in Seq(Calls)
  BY <1>0, MovesTail DEF Rest, Moves
<1>2. \A i \in DOMAIN Rest : i + 1 \in DOMAIN calls /\ Alike(Rest[i], calls[i + 1])
  BY <1>0, <1>1 DEF Moves
(* Nothing behind the call is a write of settings: its answer is current.  *)
<1>3. ASSUME ~\E i \in DOMAIN Rest : Rest[i].cmd \in Rebuilds
      PROVE  /\ \A i \in DOMAIN calls : ~Waiting(i)
             /\ c.at = "answered" /\ c.cmd = "refresh" =>
                  /\ c.answer.settings = memory.settings
                  /\ c.answer.known = Listed(memory)
             /\ c.at = "answered" /\ c.cmd = "get_settings" =>
                  c.answer = memory.settings
  <2>1. \A i \in DOMAIN calls : i > 1 => calls[i].cmd \notin Rebuilds
    <3> SUFFICES ASSUME NEW i \in DOMAIN calls, i > 1
                 PROVE  calls[i].cmd \notin Rebuilds
      OBVIOUS
    <3>1. i - 1 \in 1 .. (Len(calls) - 1) /\ (i - 1) + 1 = i
      BY <1>0
    <3>2. i - 1 \in DOMAIN Rest /\ Alike(Rest[i - 1], calls[i])
      BY <1>0, <1>1, <3>1 DEF Moves
    <3> QED
      BY <1>3, <3>2 DEF Alike
  <2> QED
    BY <1>0, <2>1 DEF Waiting, Fresh
<1>4. /\ calls[1].at \in {"answered", "failed"}
      /\ Posted(Refresh) /\ Refresh.cmd \notin Rebuilds
  BY <1>0, ReadIsPosted
<1>5. CASE AfterRefresh(c)
  <2>1. /\ c.cmd = "refresh" /\ c.at = "answered" /\ c.answer \in State
        /\ c.answer.settings \in Settings
        /\ c.answer.known \in SUBSET ProviderIds
    BY <1>0, <1>5 DEF AfterRefresh, WellFormed, Reads, State
  <2>2. PICK a \in ResolveActive(ui) :
          ui' = [ui EXCEPT !.settings = Merge(ui.settings, c.answer.settings),
                           !.known = c.answer.known, !.active = a,
                           !.loaded = TRUE]
    BY <1>5 DEF AfterRefresh
  <2>3. a \in Edits
    <3>1. ui.active \in Edits /\ ui.extra \subseteq Edits
      BY <1>0 DEF Screen
    <3>2. Projects(ui) \subseteq Edits
      BY <3>1, SyncAssumption DEF Projects
    <3>3. 0 \in Edits
      BY ShellAssumption DEF Edits
    <3> QED
      BY <3>1, <3>2, <3>3 DEF ResolveActive
  <2> DEFINE s == Merge(ui.settings, c.answer.settings)
  <2>4. s \in Settings /\ Same(c.answer.settings, s)
    BY <1>0, <2>1, MergeShows DEF Screen
  <2> HIDE DEF s
  <2>5. ui' \in Screen /\ ui'.settings = s /\ ui'.known = c.answer.known
    BY <1>0, <2>1, <2>2, <2>3, <2>4 DEF Screen, s
  <2>6. /\ calls' = Rest
        /\ stale' = (c.late \/ \E i \in DOMAIN Rest : Rest[i].cmd \in Rebuilds)
        /\ form' \in {form, [form EXCEPT !.busy = "no"]}
    BY <1>5 DEF AfterRefresh
  <2>7. /\ calls' \in Seq(Calls) /\ \A i \in DOMAIN calls' : WellFormed(calls'[i])
        /\ Ordered' /\ Fresh'
    BY <1>0, <1>1, <1>4, <2>6, QueueMoves
  <2>8. Shown'
    <3> SUFFICES ASSUME ~stale' PROVE Shown'
      BY DEF Shown
    <3>1. ~\E i \in DOMAIN Rest : Rest[i].cmd \in Rebuilds
      BY <2>6
    <3>2. ui'.known = Listed(memory) /\ Same(memory.settings, s)
      BY <1>3, <2>1, <2>4, <2>5, <3>1
    <3>3. \A i \in DOMAIN calls' : ~Waiting(i)'
      BY <2>6, <3>1 DEF Waiting
    <3>4. memory' = memory
      BY <1>0
    <3> QED
      BY <2>5, <3>2, <3>3, <3>4 DEF Shown, Listed, Same
  <2>9. stale' \in BOOLEAN
    BY <2>6
  <2>10. form' \in [busy : {"no", "save", "probe"}, mount : Nat]
    BY <1>0, <2>6
  <2>11. Types'
    BY <1>0, <2>5, <2>7, <2>9, <2>10 DEF Types
  <2> QED
    BY <2>7, <2>8, <2>11
<1>6. CASE AfterSidebar(c)
  <2>1. c.answer \in Settings
    BY <1>0, <1>6 DEF AfterSidebar, WellFormed, Reads
  <2>2. ui' = [ui EXCEPT !.collapsed = ui.collapsed \/ c.answer.sidebar = "closed"]
        /\ calls' = Rest /\ UNCHANGED <<form, stale>>
    BY <1>6 DEF AfterSidebar
  <2>3. (ui.collapsed \/ c.answer.sidebar = "closed") \in BOOLEAN
    OBVIOUS
  <2>4. \A b \in BOOLEAN : [ui EXCEPT !.collapsed = b] \in Screen
          /\ [ui EXCEPT !.collapsed = b].settings = ui.settings
          /\ [ui EXCEPT !.collapsed = b].known = ui.known
    BY <1>0 DEF Screen
  <2>5. ui' \in Screen /\ ui'.settings = ui.settings /\ ui'.known = ui.known
    BY <2>2, <2>3, <2>4
  <2>6. \A i \in DOMAIN calls' : ~(i > Len(calls) - 1)
    BY <1>0, <1>1, <2>2
  <2> QED
    BY <1>0, <1>1, <1>4, <2>2, <2>5, <2>6, QuietStep
<1>7. CASE AfterToggle(c)
  <2>1. /\ c.cmd = "get_settings" /\ c.at = "answered" /\ c.answer \in Settings
        /\ c.with \in {"open", "closed"}
    BY <1>0, <1>7 DEF AfterToggle, WellFormed, Reads
  <2> DEFINE s == [c.answer EXCEPT !.sidebar = c.with]
             e == Call("save_settings", s, "nothing", None)
  <2>2. /\ calls' = Append(Rest, e) /\ UNCHANGED <<ui, form>>
        /\ stale' = (stale \/ c.late
                     \/ \E i \in DOMAIN Rest : Rest[i].cmd \in Rebuilds)
    BY <1>7 DEF AfterToggle
  <2>3. s \in Settings /\ Same(s, c.answer)
    BY <2>1 DEF Settings, SidebarSetting, Same
  <2>4. Posted(e) /\ e.arg = s /\ e.cmd = "save_settings"
    BY <2>3, SaveIsPosted DEF Call
  <2> HIDE DEF s, e
  <2>5. /\ Moves(calls, calls', 1) /\ Len(calls') = Len(calls)
        /\ calls'[Len(calls)] = e
        /\ \A i \in DOMAIN Rest : calls'[i] = Rest[i]
    <3>1. /\ Moves(calls, Append(Rest, e), 1)
          /\ Len(Append(Rest, e)) = Len(Rest) + 1
          /\ Append(Rest, e)[Len(Rest) + 1] = e
          /\ \A i \in DOMAIN Rest : Append(Rest, e)[i] = Rest[i]
      BY <1>0, <1>1, <2>4, MovesAppend
    <3>2. Len(Rest) + 1 = Len(calls)
      BY <1>0, <1>1
    <3> QED
      BY <2>2, <3>1, <3>2
  <2>6. /\ calls' \in Seq(Calls) /\ \A i \in DOMAIN calls' : WellFormed(calls'[i])
        /\ Ordered' /\ Fresh'
    BY <1>0, <1>4, <2>5, QueueMoves
  <2>7. Shown'
    <3> SUFFICES ASSUME ~stale' PROVE Shown'
      BY DEF Shown
    <3>1. ~stale /\ ~\E i \in DOMAIN Rest : Rest[i].cmd \in Rebuilds
      BY <2>2
    <3>2. /\ ui.known = Listed(memory) /\ Same(memory.settings, ui.settings)
          /\ c.answer = memory.settings
      BY <1>3, <2>1, <3>1 DEF Shown
    <3>3. Same(s, ui.settings)
      BY <2>3, <3>2 DEF Same
    <3>4. PICK n \in Nat : n = Len(calls) /\ n \in DOMAIN calls'
      BY <1>0, <1>1, <2>5, <2>6
    <3>5. \A i \in DOMAIN calls' : Waiting(i)' <=> i = n
      <4> SUFFICES ASSUME NEW i \in DOMAIN calls' PROVE Waiting(i)' <=> i = n
        OBVIOUS
      <4>1. CASE i = n
        BY <2>4, <2>5, <3>4, <4>1 DEF Waiting, Posted, Rebuilds
      <4>2. CASE i # n
        <5>1. i \in DOMAIN Rest
          BY <1>0, <1>1, <2>5, <2>6, <3>4, <4>2
        <5> QED
          BY <2>5, <3>1, <4>2, <5>1 DEF Waiting
      <4> QED
        BY <4>1, <4>2
    <3>6. calls'[n].cmd = "save_settings" /\ Same(calls'[n].arg, ui.settings)
      BY <2>4, <2>5, <3>3, <3>4
    <3>7. memory' = memory /\ ui' = ui
      BY <1>0, <2>2
    <3> QED
      BY <3>2, <3>4, <3>5, <3>6, <3>7 DEF Shown, Listed, Same
  <2>8. stale' \in BOOLEAN
    BY <2>2
  <2>9. Types'
    BY <1>0, <2>2, <2>6, <2>8 DEF Types
  <2> QED
    BY <2>6, <2>7, <2>9
<1>8. CASE AfterFolder(c)
  <2>1. c.answer \in SUBSET Edits /\ c.with \in Edits
    BY <1>0, <1>8 DEF AfterFolder, WellFormed, Reads
  <2> DEFINE e == Call("save_preferences", c.answer \cup {c.with}, "nothing", None)
  <2>2. Posted(e) /\ e.cmd \notin Rebuilds
    BY <2>1, FoldersArePosted DEF Call, Rebuilds
  <2>3. UNCHANGED <<ui, form, stale>> /\ calls' \in {Rest, Append(Rest, e)}
    BY <1>8 DEF AfterFolder
  <2> HIDE DEF e
  <2>4. /\ Moves(calls, Append(Rest, e), 1)
        /\ Len(Append(Rest, e)) = Len(Rest) + 1
        /\ Append(Rest, e)[Len(Rest) + 1] = e
    BY <1>0, <1>1, <2>2, MovesAppend
  <2>5. /\ Moves(calls, calls', 1)
        /\ \A i \in DOMAIN calls' :
               i > Len(calls) - 1 => calls'[i].cmd \notin Rebuilds
    <3>1. CASE calls' = Rest
      BY <1>0, <1>1, <3>1
    <3>2. CASE calls' = Append(Rest, e)
      <4>1. calls' \in Seq(Calls)
        BY <2>4, <3>2 DEF Moves
      <4>2. \A i \in DOMAIN calls' : i > Len(calls) - 1 => i = Len(Rest) + 1
        BY <1>0, <1>1, <2>4, <3>2, <4>1
      <4> QED
        BY <2>2, <2>4, <3>2, <4>2
    <3> QED
      BY <2>3, <3>1, <3>2
  <2> QED
    BY <1>0, <1>4, <2>3, <2>5, QuietStep
<1>9. CASE AfterProvider(c)
  <2>1. c.with \in {None, "open", "closed"} \cup Nat
    BY <1>0 DEF Calls
  <2> DEFINE e == [Refresh EXCEPT !.then = "close", !.with = c.with]
  <2>2. Posted(e)
    BY <2>1, ReadIsPosted
  <2>3. /\ ui' = ui /\ stale' = TRUE /\ calls' \in {Rest, Append(Rest, e)}
        /\ form' \in {form, [form EXCEPT !.busy = "no"]}
    BY <1>9 DEF AfterProvider
  <2> HIDE DEF e
  <2>4. Moves(calls, Append(Rest, e), 1)
    BY <1>0, <1>1, <2>2, MovesAppend
  <2>5. Moves(calls, calls', 1)
    BY <1>1, <2>3, <2>4
  <2>6. form' \in [busy : {"no", "save", "probe"}, mount : Nat]
    BY <1>0, <2>3
  <2> QED
    BY <1>0, <1>4, <2>3, <2>5, <2>6, QuietStep
<1>10. CASE AfterWrite(c)
  <2>1. calls' = Rest /\ UNCHANGED <<ui, form, stale>>
    BY <1>10 DEF AfterWrite
  <2>2. \A i \in DOMAIN calls' : ~(i > Len(calls) - 1)
    BY <1>0, <1>1, <2>1
  <2> QED
    BY <1>0, <1>1, <1>4, <2>1, <2>2, QuietStep
<1> QED
  BY <1>0, <1>5, <1>6, <1>7, <1>8, <1>9, <1>10 DEF Settle

-----------------------------------------------------------------------------
Booted == calls = BootCalls /\ saving = None
Waits  == /\ calls \in Seq(Calls) /\ \A i \in DOMAIN calls : WellFormed(calls[i])
          /\ Ordered /\ Fresh

LEMMA BootIsOrdered == Booted => Waits
<1> SUFFICES ASSUME Booted PROVE Waits
  OBVIOUS
<1> DEFINE a == Refresh
           b == Read("get_settings", "sidebar", None)
<1>1. Posted(a) /\ Posted(b)
  BY ReadIsPosted
<1>2. calls = <<a, b>>
  BY DEF Booted, BootCalls
<1> HIDE DEF a, b
<1>3. calls \in Seq(Calls) /\ \A i \in DOMAIN calls : Posted(calls[i])
  BY <1>1, <1>2 DEF Posted
<1>4. Done(0)
  BY <1>3 DEF Booted, Done, Posted
<1> QED
  BY <1>3, <1>4 DEF Waits, Ordered, Fresh, Posted

LEMMA FreshIsTyped == FreshUI \in Screen /\ EmptyMemory \in Memory
<1>0. 0 \in Edits
  BY ShellAssumption DEF Edits
<1>1. EmptySettings \in Settings
  BY <1>0 DEF EmptySettings, Settings, SidebarSetting
<1>2. [EmptySettings EXCEPT !.sidebar = "open", !.project = 0, !.flag = 0]
      \in Settings
  BY <1>0, <1>1 DEF Settings, SidebarSetting
<1>3. NoProvider \in Provider
  BY ShellAssumption DEF NoProvider, Provider, Edits
<1> QED
  BY <1>1, <1>2, <1>3, ShellAssumption
     DEF FreshUI, Screen, EmptyMemory, Memory, Edits

LEMMA SyncInit ==
    ASSUME Init
    PROVE  SyncInv
<1>1. /\ memory \in Memory /\ (disk # None => disk \in Memory)
      /\ saving = None
  <2> DEFINE p1 == CHOOSE p \in ProviderIds : TRUE
             s1 == [EmptySettings EXCEPT
                      !.provider = p1, !.model = 1, !.theme = 1, !.project = 1,
                      !.sidebar = "closed", !.flag = 1]
             ps == [p \in ProviderIds |->
                      IF p = p1 THEN [known |-> TRUE, url |-> TRUE, key |-> 1]
                      ELSE NoProvider]
             old == [settings |-> s1, folders |-> {1}, providers |-> ps]
  <2>1. p1 \in ProviderIds
    BY SyncAssumption
  <2>2. \E file \in {None, old} : StoreInit(file)
    BY DEF Init
  <2> HIDE DEF p1
  <2>3. 0 \in Edits /\ 1 \in Edits
    BY SyncAssumption DEF Edits
  <2>4. EmptySettings = [provider |-> None, model |-> 0, theme |-> 0,
                  sidebar |-> "unset", project |-> None, flag |-> None]
    BY DEF EmptySettings
  <2>5. s1 \in Settings
    BY <2>1, <2>3, <2>4 DEF Settings, SidebarSetting
  <2>6. ps \in [ProviderIds -> Provider]
    BY <2>3 DEF Provider, NoProvider
  <2> HIDE DEF s1, ps
  <2>7. old \in Memory
    BY <2>3, <2>5, <2>6 DEF Memory
  <2> HIDE DEF old
  <2>8. PICK file \in {None, old} : StoreInit(file)
    BY <2>2
  <2> QED
    BY <2>7, <2>8, FreshIsTyped DEF StoreInit, Load
<1>2. calls = BootCalls /\ ui = FreshUI /\ stale = TRUE /\ form = ClosedForm
      /\ edits = 1
  BY DEF Init
<1>3. Waits
  BY <1>1, <1>2, BootIsOrdered DEF Booted
<1>4. form \in [busy : {"no", "save", "probe"}, mount : Nat]
  BY <1>2 DEF ClosedForm
<1>5. Types
  <2>1. ui \in Screen /\ saving \in Writes \cup {None} /\ edits \in Nat
        /\ stale \in BOOLEAN
    BY <1>1, <1>2, FreshIsTyped
  <2> QED
    BY <1>1, <1>3, <1>4, <2>1 DEF Types, Waits
<1>6. Shown
  BY <1>2 DEF Shown
<1> QED
  BY <1>3, <1>5, <1>6 DEF SyncInv, Waits

LEMMA SyncStep ==
    ASSUME SyncInv, [Next]_vars
    PROVE  SyncInv'
<1> USE DEF SyncInv
<1>1. CASE ProbeAnswers
  <2>1. /\ form' = [form EXCEPT !.busy = "no"]
        /\ UNCHANGED <<ui, memory, disk, saving, calls, stale, edits>>
    BY <1>1 DEF ProbeAnswers, store
  <2> QED
    BY <2>1, PostStep DEF Types
<1>2. CASE Crash
  <2>1. /\ memory' = Load(disk) /\ saving' = None
        /\ UNCHANGED <<disk, edits>>
        /\ ui' = FreshUI /\ calls' = BootCalls
        /\ form' = ClosedForm /\ stale' = TRUE
    BY <1>2 DEF Crash, Restart
  <2>2. memory' \in Memory
    BY <2>1, FreshIsTyped DEF Load, Types
  <2>3. Booted' => Waits'
    BY BootIsOrdered, PTL
  <2>4. /\ calls' \in Seq(Calls) /\ \A i \in DOMAIN calls' : WellFormed(calls'[i])
        /\ Ordered' /\ Fresh'
    BY <2>1, <2>3 DEF Booted, Waits
  <2>5. Types'
    BY <2>1, <2>2, <2>4, FreshIsTyped DEF Types, ClosedForm
  <2>6. Shown'
    BY <2>1 DEF Shown
  <2> QED
    BY <2>4, <2>5, <2>6
<1>3. CASE UNCHANGED vars
  BY <1>3 DEF vars, store, Types, Ordered, Done, Fresh, Shown, Waiting, Listed,
     Same
<1> QED
  BY <1>1, <1>2, <1>3, UserStep, ServeStep, SaveEndsStep, SettleStep DEF Next

(* appStore.ts: an edit of one setting never undoes another.  Whatever     *)
(* edits, refreshes, failing saves and crashes come in between, once       *)
(* nothing is on its way the UI shows what the store holds.                *)
THEOREM SettingsStayTogether == Spec => []SettingsAgree
<1>1. SyncInv => SettingsAgree
  <2> SUFFICES ASSUME SyncInv, ~stale, Quiet
               PROVE  Agree /\ ui.known = Listed(memory)
    BY DEF SettingsAgree
  <2>1. \A i \in DOMAIN calls : ~Waiting(i)
    BY DEF Quiet, Waiting, Reads, Rebuilds
  <2>2. Same(memory.settings, ui.settings) /\ ui.known = Listed(memory)
    BY <2>1 DEF SyncInv, Shown
  <2> QED
    BY <2>2 DEF Same, Agree, Fields
<1> QED
  BY <1>1, SyncInit, SyncStep, PTL DEF Spec

-----------------------------------------------------------------------------
(* What the file holds, memory holds; and memory holds no more, unless it  *)
(* has what a command is about to save or could not save.                  *)
SavedInv ==
    /\ restarts \in Nat
    /\ Keeps(Load(disk), memory)
    /\ rebuilt /\ saving \notin Rebuilds => Keeps(memory, Load(disk))

LEMMA KeepsItself == ASSUME NEW m PROVE Keeps(m, m)
BY DEF Keeps

LEMMA KeepsOn ==
    ASSUME NEW a, NEW b, NEW c, Keeps(a, b), Keeps(b, c)
    PROVE  Keeps(a, c)
BY DEF Keeps

(* What a step does to memory and file: nothing, a command's change, its   *)
(* save, or a restart.                                                     *)
Untouched == /\ UNCHANGED <<memory, disk, restarts>>
             /\ rebuilt' /\ saving' \notin Rebuilds =>
                   rebuilt /\ saving \notin Rebuilds
Changes   == /\ UNCHANGED <<disk, rebuilt, restarts>> /\ saving = None
             /\ Keeps(memory, memory')
             /\ saving' \notin Rebuilds => Keeps(memory', memory)
Saves     == Load(disk') = memory /\ UNCHANGED <<memory, restarts>>
Restarts  == memory' = Load(disk) /\ UNCHANGED disk /\ restarts' = restarts + 1

LEMMA WriteChanges ==
    ASSUME SyncInv, Serve, calls[Next1].cmd \in Writes, Unserved # {},
           Change(calls[Next1])
    PROVE  Changes
<1>1. PICK k \in Nat : Done(k)
  BY DEF SyncInv, Ordered
<1>2. PICK c : c = calls[Next1] /\ c \in Calls /\ WellFormed(c)
  BY <1>1, FirstUnserved DEF SyncInv, Types
<1>3. memory \in Memory
  BY DEF SyncInv, Types
<1>4. /\ memory' = Written(memory, c) /\ saving' = c.cmd /\ c.cmd \in Writes
      /\ saving = None /\ UNCHANGED <<disk, rebuilt, restarts>>
  BY <1>2 DEF Serve, Change
<1>5. CASE c.cmd = "save_settings"
  <2>1. c.arg \in Settings
    BY <1>2, <1>5 DEF WellFormed
  <2>2. /\ memory.settings.theme # 0 => memory'.settings.theme # 0
        /\ memory'.providers = memory.providers
    BY <1>2, <1>3, <1>4, <1>5, <2>1, WrittenIsTyped DEF Settings
  <2> QED
    BY <1>4, <1>5, <2>2 DEF Changes, Keeps, Rebuilds
<1>6. CASE c.cmd = "save_provider"
  BY <1>2, <1>3, <1>4, <1>6, WrittenIsTyped DEF Changes, Keeps, Rebuilds
<1>7. CASE c.cmd = "save_preferences"
  BY <1>2, <1>3, <1>4, <1>7, WrittenIsTyped DEF Changes, Keeps
<1> QED
  BY <1>4, <1>5, <1>6, <1>7 DEF Writes, Rebuilds

LEMMA StoreMoves ==
    ASSUME SyncInv, [Next]_vars
    PROVE  Untouched \/ Changes \/ Saves \/ Restarts
<1>1. CASE User
  <2>1. UNCHANGED <<store, restarts, rebuilt>>
    BY <1>1 DEF User, ChangeModelOrFlag, UseProvider, Edit, SetActiveProject,
       AddProject, ToggleSidebar, RefreshAppState, LeaveTab, SubmitProvider, Probe
  <2> QED
    BY <2>1 DEF store, Untouched
<1>2. CASE ProbeAnswers \/ Settle \/ UNCHANGED vars
  BY <1>2 DEF ProbeAnswers, Settle, vars, store, Untouched
<1>3. CASE Serve
  <2>1. CASE UNCHANGED store
    BY <1>3, <2>1 DEF Serve, store, Untouched
  <2>2. CASE calls[Next1].cmd \in Writes /\ Unserved # {} /\ Change(calls[Next1])
    BY <1>3, <2>2, WriteChanges
  <2> QED
    BY <1>3, <2>1, <2>2 DEF Serve
<1>4. CASE SaveEnds
  <2>1. CASE Saved
    <3>1. memory \in Memory
      BY DEF SyncInv, Types
    <3> QED
      BY <1>4, <2>1, <3>1, FileAssumption DEF SaveEnds, Saved, Load, Saves
  <2>2. CASE SaveFails /\ rebuilt' = (rebuilt /\ saving \notin Rebuilds)
    BY <1>4, <2>2 DEF SaveEnds, SaveFails, Untouched
  <2> QED
    BY <1>4, <2>1, <2>2 DEF SaveEnds
<1>5. CASE Crash
  BY <1>5 DEF Crash, Restart, Restarts
<1> QED
  BY <1>1, <1>2, <1>3, <1>4, <1>5 DEF Next

LEMMA SavedInit == ASSUME Init PROVE SavedInv
<1>1. memory = Load(disk) /\ restarts \in Nat
  BY DEF Init, StoreInit
<1> QED
  BY <1>1, KeepsItself DEF SavedInv

LEMMA SavedStep == ASSUME SyncInv, SavedInv, [Next]_vars PROVE SavedInv'
<1>1. CASE Untouched
  BY <1>1 DEF Untouched, SavedInv
<1>2. CASE Changes
  <2>1. Keeps(Load(disk), memory')
    BY <1>2, KeepsOn DEF Changes, SavedInv
  <2>2. ASSUME rebuilt, saving' \notin Rebuilds PROVE Keeps(memory', Load(disk))
    <3>1. saving \notin Rebuilds
      BY <1>2, CommandAssumption DEF Changes, Writes
    <3> QED
      BY <1>2, <2>2, <3>1, KeepsOn DEF Changes, SavedInv
  <2> QED
    BY <1>2, <2>1, <2>2 DEF Changes, SavedInv
<1>3. CASE Saves
  BY <1>3, KeepsItself DEF Saves, SavedInv
<1>4. CASE Restarts
  BY <1>4, KeepsItself DEF Restarts, SavedInv
<1> QED
  BY <1>1, <1>2, <1>3, <1>4, StoreMoves

(* settings.rs, kernel_config.rs and state.rs: no command, failing save or *)
(* restart takes a key, or the settings no UI writes, out of the file, and *)
(* memory loses one only to a restart that finds it had not been saved.    *)
THEOREM SecretsAreKept == Spec => SecretsSurvive
<1> DEFINE Kept ==
        /\ Keeps(Load(disk), Load(disk'))
        /\ restarts' = restarts \/ (rebuilt /\ saving \notin Rebuilds)
              => Keeps(memory, memory')
<1>1. ASSUME SyncInv, SavedInv, [Next]_vars PROVE Kept
  <2>1. CASE Untouched
    BY <2>1, KeepsItself DEF Untouched
  <2>2. CASE Changes
    BY <2>2, KeepsItself DEF Changes
  <2>3. CASE Saves
    BY <1>1, <2>3, KeepsItself DEF Saves, SavedInv
  <2>4. CASE Restarts
    <3>1. restarts' # restarts
      BY <1>1, <2>4 DEF Restarts, SavedInv
    <3> QED
      BY <1>1, <2>4, <3>1, KeepsItself DEF Restarts, SavedInv
  <2> QED
    BY <1>1, <2>1, <2>2, <2>3, <2>4, StoreMoves
<1> QED
  BY <1>1, SyncInit, SyncStep, SavedInit, SavedStep, PTL DEF Spec, SecretsSurvive
=============================================================================
