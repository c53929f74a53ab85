------------------------------ MODULE TurnStore ------------------------------
(***************************************************************************)
(* The conversation on screen: the turn store of state/turnStore.ts, the   *)
(* reducer that feeds it (notificationReducer.ts, bridge/events.ts), and   *)
(* the views that drive it: the send of Composer.tsx, the reload effect of *)
(* HomeView.tsx, and the ways to pick, leave and delete a session.         *)
(*                                                                         *)
(* The kernel is TurnProtocol, what KernelTurns was shown to implement.    *)
(* Three things lie between the two and are not ordered with each other:   *)
(* notifications, which arrive one by one in the order they were emitted;  *)
(* the answer to each get_session; the answers to the composer's commands. *)
(*                                                                         *)
(* JavaScript runs one task at a time, so each action of the UI is one     *)
(* task.  Store changes that React learns of through useSyncExternalStore  *)
(* are rendered, and their effects run, before the next task (Render).     *)
(*                                                                         *)
(* Abstracted: a text is the number of deltas it is made of, and the order *)
(* of blocks on screen, their phase, timing and status, reasoning blocks,  *)
(* usage, warnings and error texts, which nothing below depends on, are    *)
(* left out.  The home view stays mounted, and a mock turn is not played.  *)
(***************************************************************************)
EXTENDS Naturals, Sequences, FiniteSets, Bags

CONSTANTS
    Threads, Turns, None,
    MaxChunks,  (* bound: text deltas one turn emits                       *)
    MaxSends,   (* bound: messages the user sends                          *)
    MaxMoves,   (* bound: times the user picks, leaves or deletes a session *)
    MaxLoads    (* bound: reloads under way at once                        *)

ASSUME UIAssumption ==
    /\ None \notin Threads \cup Turns
    /\ {MaxChunks, MaxSends, MaxMoves, MaxLoads} \subseteq Nat

VARIABLES
    of, said, floor, result,    (* the kernel: see TurnProtocol            *)
    life,       (* life[t]: the session store's view of thread t           *)
    events,     (* notifications on their way to the UI, oldest first      *)
    turn,       (* the turn store: bound session, active flag, items       *)
    selected,   (* activeSessionId of the app store                        *)
    loads,      (* the bag of loadThreadFromSession calls under way        *)
    send,       (* the composer's send                                     *)
    removal,    (* the delete_session call under way                       *)
    moves       (* how often the user has moved                            *)

kernelVars == <<of, said, floor, result>>
vars == <<kernelVars, life, events, turn, selected, loads, send, removal,
          moves>>

Kernel == INSTANCE TurnProtocol

-----------------------------------------------------------------------------
(* Items.  `slot` and `key` stand for the id: the user's message and the   *)
(* answer of a turn, the optimistic bubble of the n-th send, the bubble    *)
(* made from the title of an empty thread.  `thread` is where the item     *)
(* belongs and `block` what it is rendered as.                             *)
Item(slot, key, t, block, n) ==
    [slot |-> slot, key |-> key, thread |-> t, block |-> block, text |-> n]

Is(i, slot, key) == i.slot = slot /\ i.key = key
Without(items, slot, key) == {i \in items : ~Is(i, slot, key)}
Shown(items, slot, key)   == {i \in items : Is(i, slot, key)}
Bubble(n, t) == Item("bubble", n, t, "user-message", 0)

EmptyTurn == [session |-> None, active |-> FALSE, items |-> {}]
Loading(t) == [EmptyTurn EXCEPT !.session = t]

-----------------------------------------------------------------------------
(* What get_session and get_runtime_events answer: the messages of the     *)
(* thread's turns, and their answers as far as they were persisted, which  *)
(* is when the stream has ended (AnswerIsPersisted in KernelTurns).        *)
Deltas(u) == Cardinality({i \in DOMAIN said[u] : said[u][i] = "delta"})
Persisted(u) == IF result[u] # "none" \/ Kernel!Said(u, "item/completed")
                THEN Deltas(u) ELSE 0

(* Messages of get_session have an itemType and no role, so the loader     *)
(* takes those with a text for the agent's.  Timeline rows keep their type.*)
AsMessage == "agentMessage"
AsRow     == "user-message"

Transcript(t, block) ==
    LET begun == {u \in Turns : of[u] = t}
    IN  {Item("user", u, t, block, 0) : u \in begun} \cup
        {Item("answer", u, t, "agentMessage", Persisted(u)) :
             u \in {w \in begun : Persisted(w) > 0}}

-----------------------------------------------------------------------------
(* Render: React commits a task's changes to the stores, and the effect of *)
(* HomeView, which depends on the selection, the active flag and the bound *)
(* session, reloads the selected thread unless it is the one whose turn is *)
(* active.  Starting a reload changes the store, so there may be a second  *)
(* render and a second reload.                                             *)
Deps(tn, s) == <<s, tn.active, tn.session>>
MStale(tn, s) == s # None /\ ~tn.active
Stale(tn, s)  == s # None /\ ~(tn.active /\ tn.session = s)

Reloads(tn, s) ==
    IF Deps(tn, s) = Deps(turn, selected) \/ ~Stale(tn, s) THEN 0
    ELSE IF Deps(tn, s) = Deps(Loading(s), s) THEN 1 ELSE 2

Asked(t) == [of |-> t, at |-> "asked", items |-> {}]
Bagged(l, n) == IF n = 0 THEN EmptyBag ELSE [x \in {l} |-> n]

(* The task leaves the stores at tn and s, and `base` loads under way.     *)
Render(tn, s, base) ==
    LET n == Reloads(tn, s)
    IN  /\ turn' = IF n = 0 THEN tn ELSE Loading(s)
        /\ selected' = s
        /\ loads' = base (+) Bagged(Asked(s), n)
        /\ BagCardinality(loads') <= MaxLoads

-----------------------------------------------------------------------------
(* The kernel's steps.  Of its notifications those that touch the modelled *)
(* part of the store are put on their way; item/completed carries the text.*)
Relevant == {"turn/started", "item/started", "delta", "item/completed",
             "turn/completed"}
Unmodelled == {"reasoning", "warning"}

(* A final marker or an error comes first in what one step says.           *)
Heard(s) == IF s # <<>> /\ Head(s) \notin Relevant THEN Tail(s) ELSE s

KernelStep(u) ==
    /\ Kernel!Proceed(u)
    /\ \A k \in Unmodelled : ~Kernel!Said(u, k)'
    /\ Deltas(u)' <= MaxChunks
    /\ floor # u /\ result'[u] # result[u] => life[of[u]] = "deleted"
    /\ LET new == SubSeq(said'[u], Len(said[u]) + 1, Len(said'[u]))
           put(k) == [kind |-> k, turn |-> u, text |-> Deltas(u)]
       IN  events' = events \o [i \in DOMAIN Heard(new) |-> put(Heard(new)[i])]
    /\ UNCHANGED <<life, turn, selected, loads, send, removal, moves>>

(* get_session, and after it, when it had no messages, get_runtime_events. *)
Answered(l, items) ==
    [of |-> l.of, at |-> IF items = {} THEN "empty" ELSE "loaded",
     items |-> items]

ReadSession(l) ==
    /\ l.at = "asked"
    /\ loads' = (loads (-) SetToBag({l})) (+) SetToBag({
           IF life[l.of] = "open" THEN Answered(l, Transcript(l.of, AsMessage))
           ELSE [l EXCEPT !.at = "failed"]})
    /\ UNCHANGED <<kernelVars, life, events, turn, selected, send, removal,
                   moves>>

(* A thread without messages seeds a bubble with its title.                *)
Preview(t) == Item("preview", 0, t, "user-message", 0)

ReadTimeline(l) ==
    /\ l.at = "empty"
    /\ LET rows == IF life[l.of] = "open" THEN Transcript(l.of, AsRow) ELSE {}
           items == IF rows = {} THEN {Preview(l.of)} ELSE rows
       IN  loads' = (loads (-) SetToBag({l}))
                    (+) SetToBag({[l EXCEPT !.at = "loaded", !.items = items]})
    /\ UNCHANGED <<kernelVars, life, events, turn, selected, send, removal,
                   moves>>

-----------------------------------------------------------------------------
(* The UI's tasks.                                                         *)

(* The last commit of loadThreadFromSession replaces the store, whatever   *)
(* has happened to it since the load began.                                *)
Load(l) ==
    /\ l.at = "loaded"
    /\ Render([Loading(l.of) EXCEPT !.items = l.items], selected,
              loads (-) SetToBag({l}))
    /\ UNCHANGED <<kernelVars, life, events, send, removal, moves>>

(* get_session was refused: an error is shown, nothing is loaded.          *)
LoadFails(l) ==
    /\ l.at = "failed"
    /\ loads' = loads (-) SetToBag({l})
    /\ UNCHANGED <<kernelVars, life, events, turn, selected, send, removal,
                   moves>>

(* reduceNotification.  Only turn/started looks at the thread.             *)
Started(u) ==
    [session |-> of[u], active |-> TRUE,
     items |-> IF turn.session \in {None, of[u]} THEN turn.items ELSE {}]

Answers(u) == Shown(turn.items, "answer", u)
Text(u) == IF Answers(u) = {} THEN 0 ELSE (CHOOSE i \in Answers(u) : TRUE).text
Answer(u, n) ==
    [turn EXCEPT !.items = Without(@, "answer", u)
                           \cup {Item("answer", u, of[u], "agentMessage", n)}]

(* item/completed brings the full text, which replaces what is there.      *)
MCompleted(u, n) == IF Answers(u) = {} THEN Answer(u, n) ELSE turn
Completed(u, n)  == Answer(u, n)

Finished  == [turn EXCEPT !.active = FALSE]

Reduce(e) ==
    CASE e.kind = "turn/started"   -> Started(e.turn)
      [] e.kind = "item/started"   -> Answer(e.turn, Text(e.turn))
      [] e.kind = "delta"          -> Answer(e.turn, Text(e.turn) + 1)
      [] e.kind = "item/completed" -> Completed(e.turn, e.text)
      [] e.kind = "turn/completed" -> Finished

Notify ==
    /\ events # <<>>
    /\ events' = Tail(events)
    /\ Render(Reduce(Head(events)), selected, loads)
    /\ UNCHANGED <<kernelVars, life, send, removal, moves>>

(* The composer's send.  Without a selected session it opens one first;    *)
(* by the time that is answered the user may have gone elsewhere.          *)
MIdle == [send EXCEPT !.at = "idle"]
Idle  == [send EXCEPT !.at = "idle", !.to = None]
BeginUserTurn(t, n) ==
    [session |-> t, active |-> TRUE, items |-> turn.items \cup {Bubble(n, t)}]

Submit ==
    /\ ~turn.active
    /\ send.at = "idle"
    /\ send.n < MaxSends
    /\ \/ /\ selected = None
          /\ send' = [at |-> "opening", to |-> None, n |-> send.n + 1]
          /\ UNCHANGED <<turn, selected, loads>>
       \/ /\ selected # None
          /\ send' = [at |-> "sending", to |-> selected, n |-> send.n + 1]
          /\ Render(BeginUserTurn(selected, send.n + 1), selected, loads)
    /\ UNCHANGED <<kernelVars, life, events, removal, moves>>

(* new_session, in the kernel.                                             *)
OpenSession(t) ==
    /\ send.at = "opening"
    /\ life[t] = "absent"
    /\ life' = [life EXCEPT ![t] = "open"]
    /\ send' = [send EXCEPT !.at = "opened", !.to = t]
    /\ UNCHANGED <<kernelVars, events, turn, selected, loads, removal, moves>>

Opened ==
    /\ send.at = "opened"
    /\ send' = [send EXCEPT !.at = "sending"]
    /\ Render(BeginUserTurn(send.to, send.n), send.to, loads)
    /\ UNCHANGED <<kernelVars, life, events, removal, moves>>

(* send_message, in the kernel: accepted, or refused because the thread is *)
(* gone or still has a turn that is not decided.                           *)
Accepted(u) ==
    /\ send.at = "sending"
    /\ life[send.to] = "open"
    /\ Kernel!Accept(send.to, u)
    /\ send' = [send EXCEPT !.at = "accepted"]
    /\ UNCHANGED <<life, events, turn, selected, loads, removal, moves>>

Refused ==
    /\ send.at = "sending"
    /\ \/ life[send.to] = "deleted"
       \/ \E u \in Turns : of[u] = send.to /\ result[u] = "none"
    /\ send' = [send EXCEPT !.at = "refused"]
    /\ UNCHANGED <<kernelVars, life, events, turn, selected, loads, removal,
                   moves>>

Sent ==
    /\ send.at = "accepted"
    /\ send' = Idle
    /\ UNCHANGED <<kernelVars, life, events, turn, selected, loads, removal,
                   moves>>

(* Roll back the bubble and close the turn as failed.                      *)
MRolledBack == [turn EXCEPT !.items = Without(@, "bubble", send.n)]
RolledBack ==
    [turn EXCEPT !.active = FALSE, !.items = Without(@, "bubble", send.n)]
NotSent ==
    /\ send.at = "refused"
    /\ send' = Idle
    /\ Render(RolledBack, selected, loads)
    /\ UNCHANGED <<kernelVars, life, events, removal, moves>>

(* Moves.  The list of sessions may still show one that was just deleted.  *)
Move == moves < MaxMoves /\ moves' = moves + 1

(* A click in the sidebar reloads the session itself, and selecting it     *)
(* makes the effect reload it once more.                                   *)
Pick(t) ==
    /\ Move
    /\ life[t] # "absent"
    /\ IF turn.active /\ turn.session = t THEN Render(turn, t, loads)
       ELSE Render(Loading(t), t, loads (+) Bagged(Asked(t), 1))
    /\ UNCHANGED <<kernelVars, life, events, send, removal>>

NewTask ==
    /\ Move
    /\ Render(EmptyTurn, None, loads)
    /\ UNCHANGED <<kernelVars, life, events, send, removal>>

(* The project menu deselects the session but leaves the store as it is.   *)
Projectless ==
    /\ Move
    /\ Render(turn, None, loads)
    /\ UNCHANGED <<kernelVars, life, events, send, removal>>

(* delete_session, from the sidebar or from its context menu, which resets *)
(* the store whichever session it deleted.                                 *)
Delete(t, menu) ==
    /\ Move
    /\ removal = "none"
    /\ life[t] = "open"
    /\ life' = [life EXCEPT ![t] = "deleted"]
    /\ removal' = IF menu \/ selected = t THEN "reset" ELSE "keep"
    /\ UNCHANGED <<kernelVars, events, turn, selected, loads, send>>

Deleted ==
    /\ removal # "none"
    /\ removal' = "none"
    /\ IF removal = "reset" THEN Render(EmptyTurn, None, loads)
       ELSE UNCHANGED <<turn, selected, loads>>
    /\ UNCHANGED <<kernelVars, life, events, send, moves>>

-----------------------------------------------------------------------------
Init ==
    /\ Kernel!Init
    /\ life = [t \in Threads |-> "absent"]
    /\ events = <<>>
    /\ turn = EmptyTurn
    /\ selected = None
    /\ loads = EmptyBag
    /\ send = [at |-> "idle", to |-> None, n |-> 0]
    /\ removal = "none"
    /\ moves = 0

Reload(l) == ReadSession(l) \/ ReadTimeline(l) \/ Load(l) \/ LoadFails(l)

Sending ==
    \/ Submit \/ Opened \/ Refused \/ Sent \/ NotSent
    \/ \E t \in Threads : OpenSession(t)
    \/ \E u \in Turns : Accepted(u)

Moving ==
    \/ NewTask \/ Projectless \/ Deleted
    \/ \E t \in Threads : Pick(t) \/ \E menu \in BOOLEAN : Delete(t, menu)

Next ==
    \/ \E u \in Turns : KernelStep(u)
    \/ \E l \in BagToSet(loads) : Reload(l)
    \/ Notify \/ Sending \/ Moving

Spec == Init /\ [][Next]_vars

-----------------------------------------------------------------------------
(* Properties.                                                             *)

Items == [slot : {"user", "answer", "bubble", "preview"},
          key : Turns \cup 0..MaxSends, thread : Threads, text : Nat,
          block : {"user-message", "agentMessage"}]

TypeOK ==
    /\ life \in [Threads -> {"absent", "open", "deleted"}]
    /\ events \in Seq([kind : Relevant, turn : Turns, text : 0..MaxChunks])
    /\ turn.session \in Threads \cup {None} /\ turn.active \in BOOLEAN
    /\ turn.items \subseteq Items
    /\ selected \in Threads \cup {None}
    /\ IsABag(loads)
    /\ \A l \in BagToSet(loads) :
           /\ l.of \in Threads /\ l.items \subseteq Items
           /\ l.at \in {"asked", "empty", "loaded", "failed"}
    /\ send.at \in {"idle", "opening", "opened", "sending", "accepted",
                     "refused"}
    /\ send.to \in IF send.at \in {"idle", "opening"} THEN {None} ELSE Threads
    /\ removal \in {"none", "reset", "keep"}

(* Whatever arrives in whatever order, a turn of another thread that       *)
(* starts, or a reload of a session the user has left, the store ends each *)
(* task bound to the selected session.                                     *)
BoundToSelection == selected # None => turn.session = selected

Ahead(u) == \E i \in DOMAIN events :
                events[i].turn = u /\ events[i].kind = "turn/completed"
Unfinished(u) == ~Kernel!Said(u, "turn/completed") \/ Ahead(u)

(* "True between turn/started and turn/completed": the UI shows a running  *)
(* turn only when the session on screen has a turn whose end it has not    *)
(* been told, or a message on its way.  It is never stuck with a stop      *)
(* button that has nothing to stop.                                        *)
RunningIsReal ==
    turn.active =>
        \/ send.at \in {"sending", "refused"} /\ send.to = turn.session
        \/ \E u \in Turns : of[u] = turn.session /\ Unfinished(u)

(* However reloads and deltas cross, once a turn's item is complete the    *)
(* answer on screen is the whole answer, neither torn nor doubled.         *)
CompletedAnswerIsWhole ==
    \A i \in turn.items :
        /\ i.slot = "answer"
        /\ Kernel!Said(i.key, "item/completed")
        /\ \A k \in DOMAIN events : events[k].turn # i.key
        => i.text = Deltas(i.key)

-----------------------------------------------------------------------------
(* What comments say, and the code does not do.                            *)

(* loadThreadFromSession: "Start from a clean turn bound to this thread so *)
(* stale items never leak": what the store holds of a session it reloaded  *)
(* belongs to that session.                                                *)
ItemsNeverLeak ==
    turn.session # None /\ ~turn.active =>
        \A i \in turn.items : i.thread = turn.session

(* HomeView: the reload is skipped while a turn is live, because it "would *)
(* wipe that optimistic bubble".  As long as its message is on its way to  *)
(* the kernel, and the user stays on the session, the bubble stays.        *)
BubbleStays ==
    [][LET onItsWay == send.at = "sending" /\ selected = send.to
       IN  onItsWay /\ onItsWay' /\ Shown(turn.items, "bubble", send.n) # {}
           => Shown(turn'.items, "bubble", send.n) # {}]_vars

(* get_runtime_events: "live and replayed paths converge on the same       *)
(* rendering code": a message of the user is never rendered as the agent's.*)
MessageKeepsItsRole ==
    \A i \in turn.items : i.slot = "user" => i.block = "user-message"
=============================================================================
