----------------------------- MODULE TurnStream -----------------------------
(***************************************************************************)
(* The conversation as it is drawn: views/TurnStream.tsx (the header of a  *)
(* turn and its fold), blocks/registry.tsx (the rows, the groups of        *)
(* finished tools, and the panels that open and close), and the effect of  *)
(* HomeView.tsx that reloads the selected session.                         *)
(*                                                                         *)
(* TurnStore has the store behind it and the kernel that feeds it: here    *)
(* turns and items arrive in any order the reducer accepts, whichever      *)
(* session they belong to, and what is modelled is the local state of the  *)
(* components.  React keeps that state as long as a component stays at its *)
(* place under its key, and loses it otherwise.                            *)
(*                                                                         *)
(* A change of the store is rendered, and its effects run, before the next *)
(* task.  One message is being sent at a time, and the session opened for  *)
(* the first is opened by the send.  Wording, styles, times, warnings and  *)
(* the contents of items are left out: an item has something to unfold.    *)
(***************************************************************************)
EXTENDS Naturals, Sequences, FiniteSets, FiniteSetsExt, SequencesExt

CONSTANTS
    Threads, NoThread, Mock,
    Arriving,   (* the types, as the wire has them, and kinds of the items
                   that arrive                                             *)
    Histories,  (* what loaded sessions hold: the roles of their messages  *)
    Endings,    (* the statuses the wire gives items and turns at the end  *)
    MaxItems,   (* bound: items ever shown                                 *)
    MaxTurns,   (* bound: turns that begin                                 *)
    MaxClicks,  (* bound: folds and panels the user opens or closes        *)
    MaxMoves    (* bound: times the user picks a session or leaves         *)

ToolKinds == {"shell", "read", "other"}
Active   == {"in_progress", "inProgress", "running"}
Statuses == Active \cup {"completed", "done", "skipped", "failed", "denied",
                         "interrupted"}

ASSUME StreamAssumption ==
    /\ NoThread \notin Threads /\ Mock \notin Threads /\ NoThread # Mock
    /\ \A a \in Arriving : a[2] \in ToolKinds
    /\ Histories \subseteq Seq(STRING)
    /\ Endings \cap Active = {}
    /\ {MaxItems, MaxTurns, MaxClicks, MaxMoves} \subseteq Nat

VARIABLES
    selected,   (* activeSessionId                                         *)
    turn,       (* the turn store but for its items                        *)
    items,      (* the items, in arrival order                             *)
    loads,      (* sessions being loaded, oldest first                     *)
    sending,    (* the bubble of the message being sent, or 0              *)
    here,       (* whether the home view is mounted                        *)
    collapsed,  (* TurnStream: whether the turn is folded                  *)
    box,        (* what each mounted panel remembers, by its key           *)
    made, turns, clicks, moves,
    shut,       (* ghost: items whose panel the user shut after they ended *)
    owed        (* ghost: the last turn of the selected session failed or
                   was interrupted, and nothing has happened since         *)

ghosts == <<shut, owed>>
streamVars == <<selected, turn, items, loads, sending, here, collapsed, box,
                made, turns, clicks, moves, ghosts>>

-----------------------------------------------------------------------------
(* Items.  `kind` is what classifyTool makes of the tool or command.       *)
NewItem(id, type, kind, status) ==
    [id |-> id, type |-> type, kind |-> kind, status |-> status]

(* blockTypeOf: the block for a type on the wire.                          *)
BlockTypeOf(raw) ==
    CASE raw \in {"commandExecution", "command_execution"} -> "commandExecution"
      [] raw \in {"userMessage", "user_message"}           -> "user-message"
      [] raw \in {"fileChange", "file_change"}             -> "fileChange"
      [] raw \in {"agentMessage", "agent_message"}         -> "agentMessage"
      [] raw \in {"mcpToolCall", "mcp_tool_call"}          -> "mcp-tool-call"
      [] raw \in {"dynamicToolCall", "dynamic_tool_call"}  -> "dynamic-tool-call"
      [] raw \in {"contextCompaction", "context_compaction"} -> "context-compaction"
      [] raw \in {"subagentActivity", "subagent_activity"}   -> "subagent-activity"
      [] OTHER                                             -> raw
(* The block for a message of a history goes by its role.  A history       *)
(* without messages is shown as a bubble with the title of its session.    *)
HistoryBlock(role) == IF role = "user" THEN "user-message" ELSE "agentMessage"
Seeded(h) == IF h = <<>> THEN <<"user">> ELSE h

(* statusOf: a status the page does not know counts as completed.          *)
StatusOf(raw) == IF raw \in Statuses THEN raw ELSE "completed"

Running(i) == i.status \in Active
Ended(i)   == ~Running(i)
Bad(i)     == i.status \in {"failed", "denied"}

CardTypes == {"commandExecution", "exec"}
FileTypes == {"search", "read", "list_files"}
ToolTypes == CardTypes \cup FileTypes \cup
             {"mcp-tool-call", "mcpToolCall", "dynamic-tool-call",
              "dynamicToolCall", "install", "plugin", "update", "delete",
              "add", "automatic-approval-review", "subagent-activity"}
(* A finished tool that may share a row: isGroupableTool and not           *)
(* isActiveToolStatus.                                                     *)
Groupable(i) ==
    /\ i.type \in ToolTypes
    /\ ~Running(i) /\ ~Bad(i)

MNodes(its) ==
    [n \in 1..Len(its) |-> <<its[n]>>]
(* groupProcessItems: each node is the run of items it shows; a group is a *)
(* node of more than one.                                                  *)
RunEnd(its, i) ==
    Min({j \in i + 1..Len(its) + 1 :
             \/ j = Len(its) + 1
             \/ ~Groupable(its[j]) \/ its[j].kind # its[i].kind})
Nodes(its) ==
    LET from[i \in 1..Len(its) + 1] ==
            IF i > Len(its) THEN <<>>
            ELSE IF ~Groupable(its[i]) THEN <<<<its[i]>>>> \o from[i + 1]
            ELSE <<SubSeq(its, i, RunEnd(its, i) - 1)>> \o from[RunEnd(its, i)]
    IN  from[1]

IsGroup(node) == Len(node) > 1
IsUser(node)  == ~IsGroup(node) /\ node[1].type = "user-message"

-----------------------------------------------------------------------------
(* The header.  It is anchored above the first content after the last user *)
(* bubble; 0 stands for none.                                              *)
FirstAgentIdx(ns) ==
    LET boundary == Max({n \in DOMAIN ns : IsUser(ns[n])} \cup {0})
        after == {n \in DOMAIN ns : n > boundary /\ ~IsUser(ns[n])}
    IN  IF after = {} THEN 0 ELSE Min(after)

HeaderState(tn, ns) ==
    IF tn.active THEN IF FirstAgentIdx(ns) > 0 THEN "live" ELSE "thinking"
    ELSE IF tn.timed THEN "done" ELSE "none"

(* Whether the header says that the turn failed or was cancelled.          *)
Failed(tn) == ~tn.active /\ tn.status \in {"failed", "interrupted"}

Visible(ns, n) ==
    \/ ~collapsed \/ FirstAgentIdx(ns) = 0
    \/ n < FirstAgentIdx(ns) \/ IsUser(ns[n])

(* The rows drawn, 0 for the header, which is drawn whether or not the row *)
(* it stands above is folded away.                                         *)
Drawn(tn, ns) ==
    {n \in DOMAIN ns : Visible(ns, n)} \cup
    (IF HeaderState(tn, ns) # "none" THEN {0} ELSE {})

-----------------------------------------------------------------------------
(* The panels.  A command's card opens and closes with its status until    *)
(* the user decides; the others are open or shut.                          *)
ShellCard(i, v)   == \/ v = "open"
                     \/ v = "auto" /\ (Running(i) \/ Bad(i))
ProcLine(i)       == IF Bad(i) THEN "open" ELSE "shut"
FileOpBlock(v)    == v = "open"

Panel(i) == CASE i.type \in CardTypes -> "card"
              [] i.type \in FileTypes \cup {"fileChange", "patch"} -> "file"
              [] i.type \in ToolTypes -> "line"
              [] OTHER -> "plain"

Open(i, v) == CASE Panel(i) = "card" -> ShellCard(i, v)
                [] Panel(i) = "file" -> FileOpBlock(v)
                [] Panel(i) = "line" -> v = "open"

Mounts(i) == CASE Panel(i) = "card" -> "auto"
               [] Panel(i) = "file" -> "shut"
               [] Panel(i) = "line" -> ProcLine(i)

MSettles(i, v) == v
(* Their effects: when the item is found to have ended, at the mount or    *)
(* later, the card forgets the user's choice and the others are shut.      *)
Settles(i, v) ==
    IF Running(i) THEN v ELSE IF Panel(i) = "card" THEN "auto" ELSE "shut"

(* Keys of components: a row of its own, a group, and a row of a group.    *)
Row(id)      == <<"row", id, id>>
Group(id)    == <<"group", id, id>>
SubRow(g, id) == <<"sub", g, id>>

KeyOf(node, i) == IF IsGroup(node) THEN SubRow(node[1].id, i.id) ELSE Row(i.id)
Paneled(node)  == {n \in DOMAIN node : Panel(node[n]) # "plain"}
Keys(ns) ==
    {Group(ns[n][1].id) : n \in {m \in DOMAIN ns : IsGroup(ns[m])}} \cup
    UNION {{KeyOf(ns[n], ns[n][p]) : p \in Paneled(ns[n])} : n \in DOMAIN ns}

Place(its, id) == CHOOSE n \in DOMAIN its : its[n].id = id
ById(its, id) == its[Place(its, id)]

(* What the panels remember once `its` is drawn: ProcGroup keeps its flag, *)
(* a panel that stays runs its effect when the item ends or starts again,  *)
(* and one that is new mounts and runs it.                                 *)
Boxes(its) ==
    [k \in Keys(Nodes(its)) |->
        IF k[1] = "group" THEN IF k \in DOMAIN box THEN box[k] ELSE "shut"
        ELSE LET i == ById(its, k[3])
             IN  IF k \notin DOMAIN box THEN Settles(i, Mounts(i))
                 ELSE IF Running(i) = Running(ById(items, k[3])) THEN box[k]
                 ELSE Settles(i, box[k])]

-----------------------------------------------------------------------------
(* The store.  `timed` stands for durationMs, `started` for startedAt.     *)
EmptyTurn == [session |-> NoThread, active |-> FALSE, status |-> "none",
              timed |-> FALSE, started |-> FALSE]
Loading(t) == [EmptyTurn EXCEPT !.session = t]

(* HomeView's effect: after a change of what it depends on, the selected   *)
(* session is reloaded unless its turn is the active one; a reload empties *)
(* the store, which may be a change again.                                 *)
Deps(tn, s)  == <<s, tn.active, tn.session>>
Stale(tn, s) == s # NoThread /\ ~(tn.active /\ tn.session = s)
Reloads(before, tn, s) ==
    IF ~here' \/ Deps(tn, s) = before \/ ~Stale(tn, s) THEN 0
    ELSE IF Deps(tn, s) = Deps(Loading(s), s) THEN 1 ELSE 2

MFold(tn) == collapsed
(* A turn that begins is unfolded.                                         *)
Fold(tn) == collapsed /\ ~(tn.active /\ ~turn.active)

(* A task leaves the store at tn and its, s selected and `base` being      *)
(* loaded: that is drawn, and once more if it starts a reload.  An effect  *)
(* that is mounted runs whatever it depends on.                            *)
Render(tn, its, s, base) ==
    LET n == Reloads(IF here THEN Deps(turn, selected) ELSE <<>>, tn, s)
    IN  /\ turn' = IF n > 0 THEN Loading(s) ELSE tn
        /\ items' = IF n > 0 THEN <<>> ELSE its
        /\ selected' = s
        /\ loads' = base \o [m \in 1..n |-> s]
        /\ box' = IF here' THEN Boxes(items') ELSE <<>>
        /\ collapsed' = (here' /\ Fold(tn))
        /\ shut' = {id \in shut : \E m \in DOMAIN items' :
                                    items'[m].id = id /\ Ended(items'[m])}

Begun(tn, t) == [tn EXCEPT !.session = t, !.active = TRUE, !.started = TRUE]
Finished(tn, status) ==
    [tn EXCEPT !.active = FALSE, !.status = status, !.timed = tn.started]

(* Composer.send, to the selected session, a new one or the mock one:      *)
(* beginUserTurn.                                                          *)
Send ==
    /\ ~turn.active /\ sending = 0 /\ here
    /\ turns < MaxTurns /\ made < MaxItems
    /\ made' = made + 1 /\ turns' = turns + 1 /\ owed' = FALSE
    /\ here' = here
    /\ \E t \in Threads \cup {Mock} :
        /\ sending' \in IF t = Mock THEN {0} ELSE {made'}
        /\ t \in {Mock, selected} \/ selected = NoThread
        /\ Render(Begun(turn, IF t = Mock /\ selected # NoThread THEN selected
                              ELSE t),
                  Append(items, NewItem(made', "user-message", "other",
                                        "completed")),
                  IF t = Mock THEN selected ELSE t, loads)
    /\ UNCHANGED <<clicks, moves>>

(* No session could be opened for the message: a turn that never began is  *)
(* closed as failed.                                                       *)
NoSession ==
    /\ ~turn.active /\ sending = 0 /\ here /\ selected = NoThread
    /\ turns < MaxTurns /\ turns' = turns + 1
    /\ here' = here
    /\ Render(Finished(turn, "failed"), items, selected, loads)
    /\ UNCHANGED <<sending, made, clicks, moves, owed>>

(* discardItem: nothing, if a reload has emptied the store since.          *)
Discard(its, id) ==
    IF \E n \in DOMAIN its : its[n].id = id
    THEN RemoveAt(its, Place(its, id)) ELSE its

Accepted ==
    /\ sending # 0 /\ sending' = 0
    /\ UNCHANGED <<selected, turn, items, loads, here, collapsed, box, made,
                   turns, clicks, moves, ghosts>>

(* The send fails: its bubble is discarded and the turn closed as failed.  *)
Refused ==
    /\ sending # 0 /\ sending' = 0 /\ here' = here
    /\ owed' = (here /\ selected = turn.session /\ turn.active)
    /\ Render(Finished(turn, "failed"),
              Discard(items, sending), selected, loads)
    /\ UNCHANGED <<made, turns, clicks, moves>>

(* beginTurn, on turn/started.                                             *)
BeginTurn ==
    /\ turns < MaxTurns /\ turns' = turns + 1 /\ owed' = FALSE
    /\ here' = here
    /\ \E t \in Threads \cup {Mock} :
        LET switching == turn.session # NoThread /\ turn.session # t
        IN  Render([Begun(turn, t) EXCEPT !.status = "none", !.timed = FALSE],
                   IF switching THEN <<>> ELSE items, selected, loads)
    /\ UNCHANGED <<sending, made, clicks, moves>>

(* finishTurn, on turn/completed, of whichever turn.                       *)
FinishTurn ==
    /\ turns > 0 /\ here' = here
    /\ \E status \in Endings \ {"denied"} :
        /\ LET bad == StatusOf(status) # "completed" IN
           owed' = IF turn.active THEN here /\ selected = turn.session /\ bad
                   ELSE owed /\ bad
        /\ Render(Finished(turn, StatusOf(status)), items, selected, loads)
    /\ UNCHANGED <<sending, made, turns, clicks, moves>>

(* An item not seen before: upsertItem, and completeItem, which calls such *)
(* an item completed whatever its status.                                  *)
ItemArrives ==
    /\ made < MaxItems /\ made' = made + 1 /\ here' = here
    /\ \E a \in Arriving, status \in {"in_progress", "completed"} :
        Render(turn, Append(items, NewItem(made', BlockTypeOf(a[1]), a[2],
                                     status)),
               selected, loads)
    /\ UNCHANGED <<sending, turns, clicks, moves, owed>>

(* completeItem for an item seen before.                                   *)
CompleteItem ==
    /\ here' = here
    /\ \E n \in DOMAIN items, status \in Endings :
        /\ Running(items[n])
        /\ Render(turn, [items EXCEPT ![n].status = StatusOf(status)],
                  selected, loads)
    /\ UNCHANGED <<sending, made, turns, clicks, moves, owed>>

(* loadThreadFromSession returns: the store becomes the history, whatever  *)
(* it has become since, or the error alone is noted.                       *)
Loaded ==
    /\ here' = here
    /\ \E n \in DOMAIN loads :
        \/ /\ made' = made
           /\ Render(turn, items, selected, RemoveAt(loads, n))
        \/ \E h \in {Seeded(g) : g \in Histories} :
            /\ made + Len(h) <= MaxItems /\ made' = made + Len(h)
            /\ Render(Loading(loads[n]),
                      [m \in DOMAIN h |-> NewItem(made + m, HistoryBlock(h[m]),
                                                 "other", "completed")],
                      selected, RemoveAt(loads, n))
    /\ UNCHANGED <<sending, turns, clicks, moves, owed>>

-----------------------------------------------------------------------------
(* The user.  A row of the sidebar loads its session unless its turn is    *)
(* the active one, and selects it; "New task" resets the store; both lead  *)
(* to the home view.  "No project" selects nothing.                        *)
Moving == moves < MaxMoves /\ moves' = moves + 1 /\ owed' = FALSE

PickSession ==
    /\ Moving /\ here' = TRUE
    /\ \E t \in Threads :
        IF turn.active /\ turn.session = t
        THEN Render(turn, items, t, loads)
        ELSE Render(Loading(t), <<>>, t, Append(loads, t))
    /\ UNCHANGED <<sending, made, turns, clicks>>

NewTask ==
    /\ Moving /\ here' = TRUE
    /\ Render(EmptyTurn, <<>>, NoThread, loads)
    /\ UNCHANGED <<sending, made, turns, clicks>>

Projectless ==
    /\ Moving /\ here /\ here' = here
    /\ Render(turn, items, NoThread, loads)
    /\ UNCHANGED <<sending, made, turns, clicks>>

(* Another view takes the place of the home view, and the home view comes  *)
(* back: its components start afresh, and its effect runs.                 *)
Leave ==
    /\ Moving /\ here /\ here' = FALSE
    /\ Render(turn, items, selected, loads)
    /\ UNCHANGED <<sending, made, turns, clicks>>
Return ==
    /\ ~here /\ here' = TRUE
    /\ Render(turn, items, selected, loads)
    /\ UNCHANGED <<sending, made, turns, clicks, moves, owed>>

Clicking ==
    /\ clicks < MaxClicks /\ clicks' = clicks + 1 /\ here
    /\ UNCHANGED <<selected, turn, items, loads, sending, here, made, turns,
                   moves, owed>>

ToggleFold ==
    /\ Clicking
    /\ HeaderState(turn, Nodes(items)) = "done"
    /\ collapsed' = ~collapsed
    /\ UNCHANGED <<box, shut>>

(* A click on the head of a group, or on that of a panel in sight.         *)
ToggleGroup ==
    /\ Clicking
    /\ \E k \in DOMAIN box :
        /\ k[1] = "group"
        /\ box' = [box EXCEPT ![k] = IF @ = "open" THEN "shut" ELSE "open"]
    /\ UNCHANGED <<collapsed, shut>>

TogglePanel ==
    /\ Clicking
    /\ \E k \in DOMAIN box :
        LET i == ById(items, k[3])
        IN  /\ k[1] = "sub" => box[Group(k[2])] = "open"
            /\ k[1] # "group"
            /\ box' = [box EXCEPT ![k] = IF Open(i, @) THEN "shut" ELSE "open"]
            /\ shut' = IF Open(i, box[k]) /\ Ended(i) THEN shut \cup {i.id}
                       ELSE shut \ {i.id}
    /\ UNCHANGED collapsed

-----------------------------------------------------------------------------
StreamInit ==
    /\ selected = NoThread /\ turn = EmptyTurn /\ items = <<>> /\ loads = <<>>
    /\ sending = 0 /\ here = TRUE /\ collapsed = FALSE /\ box = <<>>
    /\ made = 0 /\ turns = 0 /\ clicks = 0 /\ moves = 0
    /\ shut = {} /\ owed = FALSE

StreamNext ==
    \/ Send \/ NoSession \/ Accepted \/ Refused \/ BeginTurn \/ FinishTurn
    \/ ItemArrives \/ CompleteItem \/ Loaded
    \/ PickSession \/ NewTask \/ Projectless \/ Leave \/ Return
    \/ ToggleFold \/ ToggleGroup \/ TogglePanel

StreamSpec == StreamInit /\ [][StreamNext]_streamVars

-----------------------------------------------------------------------------
(* groupProcessItems (registry.tsx:558-563): each item is drawn once and   *)
(* in its place, only finished tools of one kind share a row, and two of   *)
(* them never stand next to each other on rows of their own.               *)
NodesAreRuns ==
    LET ns == Nodes(items)
        together(i, j) == Groupable(i) /\ Groupable(j) /\ i.kind = j.kind
    IN  /\ FlattenSeq(ns) = items
        /\ \A n \in DOMAIN ns : IsGroup(ns[n]) =>
               \A p \in DOMAIN ns[n] : together(ns[n][1], ns[n][p])
        /\ \A n \in 1..Len(ns) - 1 :
               ~together(ns[n][Len(ns[n])], ns[n + 1][1])

(* registry.tsx:412, "an error must never hide behind a fold": the card of *)
(* a command that failed or was denied is open unless the user shut it     *)
(* after that, whatever the user did before and wherever it was mounted.   *)
ErrorsStayOpen ==
    \A k \in DOMAIN box :
        LET i == ById(items, k[3])
        IN  k[1] # "group" /\ Panel(i) = "card" /\ Bad(i) =>
                Open(i, box[k]) \/ i.id \in shut

(* TurnStream.tsx:110, "a fresh turn always starts unfolded": nothing of a *)
(* turn that is running is folded away, whatever was folded when it began  *)
(* and wherever the turn, a session or the view came from since.           *)
LiveTurnIsUnfolded ==
    turn.active /\ here => \A n \in DOMAIN Nodes(items) : Visible(Nodes(items), n)

(* TurnStream.tsx:128-132 says that a turn that failed or was interrupted  *)
(* is surfaced in its header: so it is until the user moves on or another  *)
(* turn begins.                                                            *)
FailureIsShown ==
    owed /\ here => 0 \in Drawn(turn, Nodes(items)) /\ Failed(turn)
=============================================================================
