------------------------------ MODULE Composer ------------------------------
(***************************************************************************)
(* The composer (views/Composer.tsx): what is typed and attached, prompts  *)
(* that other pages put into it, and how a message is sent, or played by   *)
(* the mock turn (state/mockTurn.ts).                                      *)
(*                                                                         *)
(* The composer's state dies with the home page, and what it awaits does   *)
(* not.  The selection, the turn store and the mock's timers are of the    *)
(* page as a whole.  What makes a turn active or not besides the composer, *)
(* reloads and the kernel's notifications, is the subject of TurnStore:    *)
(* here it may change at any time (Activity).                              *)
(*                                                                         *)
(* A text is the number of the draft it came from, 0 for none.  How the    *)
(* box grows, its keys and the settings of its menus are left out.         *)
(***************************************************************************)
EXTENDS Router, FiniteSets

CONSTANTS
    None,
    Sessions,   (* those there are, in the sidebar                         *)
    Paths,      (* files that can be attached                              *)
    MaxDrafts   (* bound: texts typed or put in the box                    *)

ASSUME ComposerAssumption == None \notin Sessions \cup 1..MaxDrafts

VARIABLES
    text, files,    (* what the box holds                                  *)
    sending,        (* the composer's flag                                 *)
    mockMode,
    dialog,         (* the file dialog: shut, or open for this composer or
                       one that is gone                                    *)
    sends,          (* calls of send under way                             *)
    selected,       (* activeSessionId                                     *)
    active,         (* turn.active                                         *)
    playing,        (* the mock's list of timers is not empty              *)
    scripts,        (* mock turns with timers yet to fire                  *)
    drafts,
    received,       (* ghost: what send_message was told                   *)
    moved           (* ghost: a navigation since a prompt was picked       *)

boxVars  == <<text, files, sending, mockMode, dialog>>
mockVars == <<playing, scripts>>
vars == <<routerVars, boxVars, sends, selected, active, mockVars, drafts,
          received, moved>>

Init ==
    /\ RouterInit
    /\ text = 0 /\ files = {} /\ sending = FALSE /\ mockMode = FALSE
    /\ dialog = "shut" /\ sends = {} /\ selected = None /\ active = FALSE
    /\ playing = FALSE /\ scripts = {} /\ drafts = 0
    /\ received = {} /\ moved = FALSE

KeepRoute == UNCHANGED <<routerVars, moved>>

-----------------------------------------------------------------------------
(* The box.                                                                *)
NewDraft == drafts < MaxDrafts /\ drafts' = drafts + 1

Type ==
    /\ HomeShown /\ NewDraft /\ text' = drafts'
    /\ KeepRoute
    /\ UNCHANGED <<files, sending, mockMode, dialog, sends, selected, active,
                   mockVars, received>>

(* A prompt card of the empty home page: the composer hears it at once.    *)
UsePrompt == ~active /\ Type

ToggleMock ==
    /\ HomeShown /\ mockMode' = ~mockMode
    /\ KeepRoute
    /\ UNCHANGED <<text, files, sending, dialog, sends, selected, active,
                   mockVars, drafts, received>>

AddAttachments ==
    /\ HomeShown /\ dialog = "shut" /\ dialog' = "mine"
    /\ KeepRoute
    /\ UNCHANGED <<text, files, sending, mockMode, sends, selected, active,
                   mockVars, drafts, received>>

(* Paths that are attached already are not added again.                    *)
Picked ==
    /\ dialog # "shut" /\ dialog' = "shut"
    /\ \E ps \in SUBSET Paths :
          files' = IF dialog = "mine" THEN files \cup ps ELSE files
    /\ KeepRoute
    /\ UNCHANGED <<text, sending, mockMode, sends, selected, active, mockVars,
                   drafts, received>>

Detach(p) ==
    /\ HomeShown /\ p \in files /\ files' = files \ {p}
    /\ KeepRoute
    /\ UNCHANGED <<text, sending, mockMode, dialog, sends, selected, active,
                   mockVars, drafts, received>>

-----------------------------------------------------------------------------
(* The mock turn.  Its timers are kept in one list, which the last of them *)
(* empties, 100 ms after the turn's end.                                   *)
CancelMock(a) == /\ playing' = FALSE
                 /\ scripts' = IF playing THEN {} ELSE scripts
                 /\ active' = (a /\ ~playing)

(* playMockTurn cancels the one before, and with it the turn that is       *)
(* active by now, which is the new one.                                    *)
Script == [nr |-> text, at |-> "lead"]
MPlayMock ==
    /\ playing' = TRUE /\ active' = TRUE
    /\ scripts' = scripts \cup {Script}
PlayMock ==
    /\ playing' = TRUE /\ active' = ~playing
    /\ scripts' = (IF playing THEN {} ELSE scripts) \cup {Script}

(* turn/started, turn/completed and the end of the list.                   *)
MockTimer(x) ==
    /\ LET next == CASE x.at = "lead" -> "turn" [] x.at = "turn" -> "tail"
                     [] x.at = "tail" -> "over"
       IN  /\ scripts' = (scripts \ {x}) \cup
                 (IF next = "over" THEN {} ELSE {[x EXCEPT !.at = next]})
           /\ playing' = (playing /\ next # "over")
           /\ active' = CASE next = "turn" -> TRUE [] next = "tail" -> FALSE
                          [] next = "over" -> active
    /\ KeepRoute
    /\ UNCHANGED <<boxVars, sends, selected, drafts, received>>

-----------------------------------------------------------------------------
(* send.                                                                   *)

(* While a turn is active the button stops it; whether the kernel's turn   *)
(* ends, and when, is up to the kernel.                                    *)
Stop ==
    /\ HomeShown /\ active
    /\ CancelMock(active)
    /\ KeepRoute
    /\ UNCHANGED <<boxVars, sends, selected, drafts, received>>

MMaySend == HomeShown /\ ~active /\ text # 0
MaySend == HomeShown /\ ~active /\ text # 0 /\ ~sending

SendMock ==
    /\ MaySend /\ mockMode
    /\ text' = 0 /\ files' = {}
    /\ PlayMock
    /\ KeepRoute
    /\ UNCHANGED <<sending, mockMode, dialog, sends, selected, drafts, received>>

(* A call of send: the message, where it goes (a session yet to be created *)
(* is None), where the user stood, and whether its composer is still there.*)
Message == [draft |-> text, files |-> files, to |-> selected,
            chosen |-> selected, nr |-> Cardinality(received \cup sends) + 1,
            mine |-> TRUE]

(* Into a session: the box is emptied and the turn shown before the call.  *)
Send ==
    /\ MaySend /\ ~mockMode /\ selected # None
    /\ sends' = sends \cup {[msg |-> Message, at |-> "sending"]}
    /\ text' = 0 /\ files' = {} /\ sending' = TRUE /\ active' = TRUE
    /\ KeepRoute
    /\ UNCHANGED <<mockMode, dialog, selected, mockVars, drafts, received>>

(* Without one: new_session first, and nothing else before its answer.     *)
SendNew ==
    /\ MaySend /\ ~mockMode /\ selected = None
    /\ sends' = sends \cup {[msg |-> Message, at |-> "creating"]}
    /\ sending' = TRUE
    /\ KeepRoute
    /\ UNCHANGED <<text, files, mockMode, dialog, selected, active, mockVars,
                   drafts, received>>

Becomes(x, at) == sends' = (sends \ {x}) \cup {[x EXCEPT !.at = at]}

(* new_session is answered: with an id, without one, or with an error.     *)
NewSession(x) ==
    /\ x.at = "creating"
    /\ \E at \in {"created", "no id", "failed"} : Becomes(x, at)
    /\ KeepRoute
    /\ UNCHANGED <<boxVars, selected, active, mockVars, drafts, received>>

(* The session is selected wherever the user has gone, and the box of the  *)
(* composer, if it is still there, emptied of whatever it holds.           *)
MCreated(x) ==
    /\ x.at = "created"
    /\ LET id == IF selected = None THEN x.msg.draft ELSE selected
       IN  /\ sends' = (sends \ {x}) \cup
                 {[msg |-> [x.msg EXCEPT !.to = id], at |-> "sending"]}
           /\ selected' = id
    /\ active' = TRUE
    /\ IF x.msg.mine THEN text' = 0 /\ files' = {} ELSE UNCHANGED <<text, files>>
    /\ KeepRoute
    /\ UNCHANGED <<sending, mockMode, dialog, mockVars, drafts, received>>
Created(x) ==
    /\ x.at = "created"
    /\ sends' = (sends \ {x}) \cup
          {[msg |-> [x.msg EXCEPT !.to = x.msg.draft], at |-> "sending"]}
    /\ selected' = x.msg.draft
    /\ active' = TRUE
    /\ IF x.msg.mine THEN text' = 0 /\ files' = {} ELSE UNCHANGED <<text, files>>
    /\ KeepRoute
    /\ UNCHANGED <<sending, mockMode, dialog, mockVars, drafts, received>>

(* send_message reaches the kernel, which takes it or refuses.             *)
SendMessage(x) ==
    /\ x.at = "sending"
    /\ \/ Becomes(x, "taken") /\ received' = received \cup {x.msg}
       \/ Becomes(x, "failed") /\ UNCHANGED received
    /\ KeepRoute
    /\ UNCHANGED <<boxVars, selected, active, mockVars, drafts>>

(* The end of the call.  A failure closes the turn that is active, even    *)
(* when the session was never created.                                     *)
MFinally(x) ==
    /\ x.at \in {"taken", "no id", "failed"}
    /\ sends' = sends \ {x}
    /\ sending' = (sending /\ (x.at = "failed" \/ ~x.msg.mine))
    /\ active' = (active /\ x.at # "failed")
    /\ KeepRoute
    /\ UNCHANGED <<text, files, mockMode, dialog, selected, mockVars, drafts,
                   received>>
Finally(x) ==
    /\ x.at \in {"taken", "no id", "failed"}
    /\ sends' = sends \ {x}
    /\ sending' = (sending /\ ~x.msg.mine)
    /\ active' = (active /\ x.at # "failed")
    /\ KeepRoute
    /\ UNCHANGED <<text, files, mockMode, dialog, selected, mockVars, drafts,
                   received>>

-----------------------------------------------------------------------------
(* The rest of the page.                                                   *)

(* A session of the sidebar, the task next to this one, a new task.        *)
Select(s) ==
    /\ s # selected
    /\ selected' = s /\ active' \in {active, FALSE}
    /\ Navigate("home") /\ moved' = TRUE
    /\ UNCHANGED <<boxVars, sends, mockVars, drafts, received>>

(* The project menu, or a deletion, whose answer comes when it comes.      *)
Deselect ==
    /\ selected # None /\ selected' = None
    /\ active' \in {active, FALSE}
    /\ KeepRoute
    /\ UNCHANGED <<boxVars, sends, mockVars, drafts, received>>

Activity ==
    /\ active' = ~active
    /\ KeepRoute
    /\ UNCHANGED <<boxVars, sends, selected, mockVars, drafts, received>>

KeepBox == UNCHANGED <<boxVars, sends, selected, active, mockVars, received>>

GoTo(route) == hash # route /\ Navigate(route) /\ moved' = TRUE /\ KeepBox
               /\ UNCHANGED drafts

(* A discovery page sends its prompt to a composer that is not there yet:  *)
(* it navigates, and dispatches from a timer.  Bound: one prompt at a time.*)
Prompts == {i \in 1..Len(tasks) : tasks[i] # HashChange}
MPickPrompt ==
    /\ ~HomeMounted /\ NewDraft /\ Prompts = {} /\ Len(tasks) + 1 < MaxTasks
    /\ hash' = "home" /\ UNCHANGED current
    /\ tasks' = Append(tasks, <<"prompt", drafts'>>) \o
                (IF hash = "home" THEN <<>> ELSE <<HashChange>>)
    /\ moved' = FALSE /\ KeepBox
PickPrompt ==
    /\ ~HomeMounted /\ NewDraft /\ Prompts = {} /\ Len(tasks) + 1 < MaxTasks
    /\ hash' = "home" /\ UNCHANGED current
    /\ tasks' = Append(IF hash = "home" THEN tasks ELSE Append(tasks, HashChange),
                       <<"prompt", drafts'>>)
    /\ moved' = FALSE /\ KeepBox

PromptTimer ==
    /\ tasks # <<>> /\ Head(tasks) # HashChange
    /\ text' = IF HomeMounted THEN Head(tasks)[2] ELSE text
    /\ tasks' = Tail(tasks) /\ UNCHANGED <<hash, current, moved>>
    /\ UNCHANGED <<files, sending, mockMode, dialog, sends, selected, active,
                   mockVars, drafts, received>>

(* The composer comes and goes with the home page.                         *)
Orphan(x) == [msg |-> [x.msg EXCEPT !.mine = FALSE], at |-> x.at]

RouteChanged ==
    /\ OnChange /\ UNCHANGED moved
    /\ IF HomeLeft
       THEN /\ text' = 0 /\ files' = {} /\ sending' = FALSE /\ mockMode' = FALSE
            /\ dialog' = IF dialog = "shut" THEN "shut" ELSE "orphan"
            /\ sends' = {Orphan(x) : x \in sends}
       ELSE UNCHANGED <<boxVars, sends>>
    /\ UNCHANGED <<selected, active, mockVars, drafts, received>>

-----------------------------------------------------------------------------
Box == Type \/ UsePrompt \/ ToggleMock \/ AddAttachments \/ Picked
       \/ \E p \in Paths : Detach(p)

Sending == Stop \/ SendMock \/ Send \/ SendNew

Answers == \E x \in sends :
    NewSession(x) \/ Created(x) \/ SendMessage(x) \/ Finally(x)

Next ==
    \/ Box \/ Sending \/ Answers
    \/ \E x \in scripts : MockTimer(x)
    \/ \E s \in Sessions \cup {None} : Select(s)
    \/ Deselect \/ Activity
    \/ \E route \in Routes : GoTo(route)
    \/ PickPrompt \/ PromptTimer \/ RouteChanged

Spec == Init /\ [][Next]_vars
-----------------------------------------------------------------------------
(* However often and fast the button is used, while a session is being     *)
(* created or after the page was left and entered again, a draft is sent   *)
(* at most once.                                                           *)
SentOnce == \A m, n \in received : m.draft = n.draft => m = n

(* A message goes to the session that was selected when it was sent, or to *)
(* the one created for it; what the user selects meanwhile does not count. *)
SentWhereShown ==
    \A m \in received : m.to = IF m.chosen = None THEN m.draft ELSE m.chosen

(* A prompt picked on another page is in the box once its timer has fired, *)
(* unless the user has gone elsewhere since: the composer must be mounted  *)
(* and listening by then.                                                  *)
PromptReachesComposer ==
    [][\A i \in {1} \cap Prompts :
          tasks' = Tail(tasks) /\ ~moved => text' = tasks[i][2]]_vars

(* The stop button can stop a mock turn as long as there is anything of it *)
(* to come: the list of timers is never emptied by another's end.          *)
MockIsStoppable == scripts # {} => playing

(* The composer is blocked only by a message of its own that is still on   *)
(* its way: no failure leaves it blocked, and no other composer's does.    *)
BlockedBySend == sending => \E x \in sends : x.msg.mine
=============================================================================
