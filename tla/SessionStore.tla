---------------------------- MODULE SessionStore ----------------------------
(***************************************************************************)
(* The in-process session store: SessionManager of kernel/session.rs.      *)
(*                                                                         *)
(* Threads own turns.  A turn carries a status and the answer text that    *)
(* was persisted for it.  Every operation below holds the write lock of    *)
(* the `threads` map for its whole body, so each is one atomic step.       *)
(*                                                                         *)
(* What is abstracted: an answer is the number of text deltas it is made   *)
(* of, a user input is never looked at (every turn has exactly one), and   *)
(* titles, working directories, archive flags and timestamps, which no     *)
(* operation used by a running turn reads, are left out.                   *)
(***************************************************************************)
EXTENDS Naturals, FiniteSets

CONSTANTS
    Threads,    (* the thread ids that may ever be allocated              *)
    Turns,      (* the turn ids that may ever be allocated                *)
    None        (* "no turn", "no thread": Option::None                   *)

ASSUME StoreAssumption == None \notin Threads \cup Turns

VARIABLES
    thread,     (* thread[t]: not allocated yet, in the map, or removed   *)
    owner,      (* owner[u]: the thread turn u was begun on               *)
    status,     (* status[u]: Turn::status                                *)
    text        (* text[u]: Turn::agent_text                              *)

storeVars == <<thread, owner, status, text>>

ThreadState == {"absent", "open", "deleted"}
Terminal    == {"completed", "failed", "interrupted"}
TurnStatus  == {"pending", "running"} \cup Terminal

-----------------------------------------------------------------------------
(* Turns of a thread that is still in the map; those of a deleted thread   *)
(* went with it and no lookup finds them any more.                         *)
Begun(u)  == owner[u] # None
Stored(u) == Begun(u) /\ thread[owner[u]] = "open"
TurnsOf(t) == {u \in Turns : owner[u] = t}

(* Thread::active_turn.  The code searches from the newest turn backwards; *)
(* OneLiveTurnPerThread makes the order irrelevant.                        *)
ActiveTurns(t) == {u \in TurnsOf(t) : status[u] \notin Terminal}

(* What get_thread hands to the turn runner: for each turn of the thread   *)
(* its input and the answer persisted so far.                              *)
History(t) == {<<u, text[u]>> : u \in TurnsOf(t)}

StoreInit ==
    /\ thread = [t \in Threads |-> "absent"]
    /\ owner  = [u \in Turns |-> None]
    /\ status = [u \in Turns |-> "pending"]
    /\ text   = [u \in Turns |-> 0]

(* create_thread_in: ids come from a counter, so a deleted id never returns. *)
CreateThread(t) ==
    /\ thread[t] = "absent"
    /\ thread' = [thread EXCEPT ![t] = "open"]
    /\ UNCHANGED <<owner, status, text>>

(* delete_thread: nothing asks whether a turn of the thread is running.    *)
DeleteThread(t) ==
    /\ thread[t] = "open"
    /\ thread' = [thread EXCEPT ![t] = "deleted"]
    /\ UNCHANGED <<owner, status, text>>

(* begin_turn: the thread may have no turn that is not terminal.  The id   *)
(* comes from a counter, so it is fresh.                                   *)
MAccepts(t) == TRUE
Accepts(t)  == ActiveTurns(t) = {}
AddTurn(t, u) ==
    /\ ~Begun(u)
    /\ Accepts(t)
    /\ owner' = [owner EXCEPT ![u] = t]
    /\ UNCHANGED <<status, text>>

BeginTurn(t, u) ==
    /\ thread[t] = "open"
    /\ AddTurn(t, u)
    /\ UNCHANGED thread

(* update_turn as the runner calls it: `let _ =` drops ThreadNotFound, so  *)
(* on a deleted thread the write is lost and the runner carries on.        *)
SetStatus(u, s) ==
    status' = IF Stored(u) THEN [status EXCEPT ![u] = s] ELSE status
MForgetText(u, n) == UNCHANGED text
SetText(u, n) ==
    text' = IF Stored(u) THEN [text EXCEPT ![u] = n] ELSE text

StoreTypeOK ==
    /\ thread \in [Threads -> ThreadState]
    /\ owner  \in [Turns -> Threads \cup {None}]
    /\ status \in [Turns -> TurnStatus]
    /\ text   \in [Turns -> Nat]
=============================================================================
