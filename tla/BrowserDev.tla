------------------------------ MODULE BrowserDev ------------------------------
(***************************************************************************)
(* Browser development mode: devbridge/rpcClient.ts, which replays the     *)
(* kernel's commands in TypeScript, over BrowserStore.                     *)
(*                                                                         *)
(* Threads and turns live in a map of the tab, and die with it.  A turn is *)
(* played by timers, one piece of text each, through the event bus, whose  *)
(* handlers run at once.  Each tab has its own; one of them is modelled,   *)
(* `Home`, and of the others only what they do to the store.               *)
(*                                                                         *)
(* Titles, times, the order of thread/list and what a delta says are left  *)
(* out.  `heard` is what the handlers of the bus were told of a turn.      *)
(***************************************************************************)
EXTENDS BrowserStore, Sequences, FiniteSets

CONSTANTS
    Home,       (* the tab whose kernel is modelled                        *)
    Threads, Turns,
    MaxPieces,  (* bound: pieces of a message                              *)
    MaxReloads  (* bound: reloads of a tab                                 *)

ASSUME StubAssumption == Home \in Tabs /\ None \notin Threads

VARIABLES
    thread,     (* thread[t]: absent, open, archived, deleted              *)
    of,         (* of[u]: the thread whose turn u is, or None              *)
    status,     (* status[u]: none, running, completed, interrupted        *)
    pieces,     (* pieces[u]: what is left to play                         *)
    text,       (* text[u]: pieces in its agentText                        *)
    timers,     (* turns whose next step is due                            *)
    heard,      (* heard[u]                                                *)
    reloads,
    cut         (* ghost: turns another thread's interrupt has stopped     *)

kernelVars == <<thread, of, status, pieces, text, timers, heard, cut>>
vars == <<storeVars, kernelVars, reloads>>

KernelInit ==
    /\ thread = [t \in Threads |-> "absent"]
    /\ of = [u \in Turns |-> None]
    /\ status = [u \in Turns |-> "none"]
    /\ pieces = [u \in Turns |-> 0]
    /\ text = [u \in Turns |-> 0]
    /\ timers = {} /\ cut = {}
    /\ heard = [u \in Turns |-> <<>>]

Init == StoreInit /\ KernelInit /\ reloads = 0

Live(t)     == thread[t] \in {"open", "archived"}
TurnsOf(t)  == {u \in Turns : of[u] = t}
Running(t)  == {u \in TurnsOf(t) : status[u] = "running"}
Emit(u, ks) == heard' = [heard EXCEPT ![u] = @ \o ks]

(* thread/read: the messages of a thread, with an answer if there is any.  *)
Transcript(t) == [u \in TurnsOf(t) |-> [text |-> text[u], status |-> status[u]]]

-----------------------------------------------------------------------------
(* The threads.  Deleting one does not stop its turn.                      *)
ThreadStart(t) == thread[t] = "absent" /\ thread' = [thread EXCEPT ![t] = "open"]
ThreadDelete(t) == Live(t) /\ thread' = [thread EXCEPT ![t] = "deleted"]
ThreadArchive(t) ==
    /\ Live(t)
    /\ \E w \in {"archived", "open"} : thread' = [thread EXCEPT ![t] = w]

ThreadCommand ==
    /\ \E t \in Threads : ThreadStart(t) \/ ThreadDelete(t) \/ ThreadArchive(t)
    /\ UNCHANGED <<of, status, pieces, text, timers, heard, cut>>

(* turn/start: refused while the thread has a turn that runs.              *)
TurnStart(t, u) ==
    /\ Live(t) /\ Running(t) = {}
    /\ of[u] = None
    /\ of' = [of EXCEPT ![u] = t]
    /\ status' = [status EXCEPT ![u] = "running"]
    /\ \E n \in 1..MaxPieces : pieces' = [pieces EXCEPT ![u] = n]
    /\ Emit(u, <<"turn/started", "item/started">>)
    /\ timers' = timers \cup {u}
    /\ UNCHANGED <<thread, text, cut>>

(* step of playTurn: a piece and the next timer, or the end.  Its test for *)
(* an interrupted turn finds none: the interrupt has cleared the timer.    *)
PlayPiece(u) ==
    /\ pieces[u] > 0
    /\ pieces' = [pieces EXCEPT ![u] = @ - 1]
    /\ text' = [text EXCEPT ![u] = @ + 1]
    /\ Emit(u, <<"delta">>)
    /\ UNCHANGED <<status, timers>>

Ending == <<"final_answer", "item/completed", "thread/tokenUsage/updated",
            "warning", "turn/completed", "thread/status/changed">>
MPlayEnd(u) ==
    /\ pieces[u] = 0
    /\ Emit(u, Ending)
    /\ timers' = timers \ {u}
    /\ UNCHANGED <<pieces, text, status>>
PlayEnd(u) ==
    /\ pieces[u] = 0
    /\ status' = [status EXCEPT ![u] = "completed"]
    /\ Emit(u, Ending)
    /\ timers' = timers \ {u}
    /\ UNCHANGED <<pieces, text>>

MStep(u) ==
    /\ u \in timers
    /\ PlayPiece(u) \/ PlayEnd(u)
    /\ timers' = timers \ {u}
    /\ UNCHANGED <<thread, of, cut>>
Step(u) ==
    /\ u \in timers
    /\ PlayPiece(u) \/ PlayEnd(u)
    /\ UNCHANGED <<thread, of, cut>>

(* turn/interrupt: the thread's turn is over, and the timers of every turn *)
(* are cleared.                                                            *)
TurnInterrupt(t) ==
    /\ Live(t)
    /\ \E u \in Running(t) :
        /\ status' = [status EXCEPT ![u] = "interrupted"]
        /\ Emit(u, <<"turn/completed">>)
        /\ cut' = cut \cup (timers \ {u})
    /\ timers' = {}
    /\ UNCHANGED <<thread, of, pieces, text>>

KernelCommand ==
    \/ ThreadCommand
    \/ \E t \in Threads : TurnInterrupt(t) \/ \E u \in Turns : TurnStart(t, u)

-----------------------------------------------------------------------------
(* A tab is reloaded; its kernel starts anew.                              *)
Reload(b) ==
    /\ reloads < MaxReloads
    /\ reloads' = reloads + 1
    /\ ReloadStore(b)
    /\ IF b # Home THEN UNCHANGED kernelVars
       ELSE /\ thread' = [t \in Threads |-> "absent"]
            /\ of' = [u \in Turns |-> None]
            /\ status' = [u \in Turns |-> "none"]
            /\ pieces' = [u \in Turns |-> 0]
            /\ text' = [u \in Turns |-> 0]
            /\ heard' = [u \in Turns |-> <<>>]
            /\ timers' = {} /\ cut' = {}

StoreStep  == (\E b \in Tabs : Touch(b) \/ Command(b)) /\ UNCHANGED <<kernelVars, reloads>>
KernelStep == (KernelCommand \/ \E u \in Turns : Step(u)) /\ UNCHANGED <<storeVars, reloads>>

Next == StoreStep \/ KernelStep \/ \E b \in Tabs : Reload(b)

(* The browser runs every timer that is due.                               *)
Timer(u) == Step(u) /\ UNCHANGED <<storeVars, reloads>>
Spec == Init /\ [][Next]_vars /\ \A u \in Turns : WF_vars(Timer(u))

-----------------------------------------------------------------------------
(* saveShellState: what the last tab to write has in memory is what a      *)
(* reload finds, whichever command it ran, unless a write was refused.     *)
MemoryIsStored == writer # None /\ cache[writer] # None => stored = cache[writer]

(* What the bus was told of a turn is what thread/read answers: the same   *)
(* text, and an end, told once and after every piece, exactly when the turn*)
(* is over, whatever was deleted, archived or interrupted meanwhile.       *)
At(h, k)   == {i \in DOMAIN h : h[i] = k}
Told(u, k) == At(heard[u], k)
Over(s)    == s \in {"completed", "interrupted"}
ReplayMatchesEvents ==
    \A t \in Threads : Live(t) => \A u \in TurnsOf(t) :
        LET r == Transcript(t)[u]
        IN  /\ r.text = Cardinality(Told(u, "delta"))
            /\ Cardinality(Told(u, "turn/completed")) = IF Over(r.status) THEN 1 ELSE 0
            /\ \A i \in Told(u, "delta"), j \in Told(u, "turn/completed") : i < j

(* playTurn: a turn ends, unless its tab is reloaded or another thread's   *)
(* interrupt has taken its timer.                                          *)
TurnsEnd == \A u \in Turns :
    status[u] = "running" ~> (status[u] # "running" \/ u \in cut)
=============================================================================
