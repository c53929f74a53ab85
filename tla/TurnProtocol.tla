---------------------------- MODULE TurnProtocol ----------------------------
(***************************************************************************)
(* What the kernel promises whoever listens to its notifications, with no  *)
(* word of tasks, locks, tokens or stores:                                 *)
(*                                                                         *)
(*  - a thread accepts a turn only when its earlier turns are decided;     *)
(*  - a turn announces itself once, streams only while it has the floor,   *)
(*    which one turn at a time has, is decided once, and ends once;        *)
(*  - nothing is streamed after the decision, and a turn decided as        *)
(*    completed has closed its item before.                                *)
(*                                                                         *)
(* KernelTurns implements it (ImplementsProtocol there).                   *)
(***************************************************************************)
EXTENDS Naturals, Sequences

CONSTANTS Threads, Turns, None

VARIABLES
    of,         (* of[u]: the thread that accepted turn u                  *)
    said,       (* said[u]: the notifications about turn u, oldest first   *)
    floor,      (* the turn that has the floor                             *)
    result      (* result[u]: the decision, "none" before it is taken      *)

protocolVars == <<of, said, floor, result>>

Results  == {"completed", "failed", "interrupted"}
Streamed == {"delta", "reasoning"}

Said(u, k) == \E i \in DOMAIN said[u] : said[u][i] = k
Say(u, s)  == said' = [said EXCEPT ![u] = @ \o s]

Init ==
    /\ of     = [u \in Turns |-> None]
    /\ said   = [u \in Turns |-> <<>>]
    /\ floor  = None
    /\ result = [u \in Turns |-> "none"]

Accept(t, u) ==
    /\ of[u] = None
    /\ \A w \in Turns : of[w] = t => result[w] # "none"
    /\ of' = [of EXCEPT ![u] = t]
    /\ UNCHANGED <<said, floor, result>>

Announce(u) ==
    /\ of[u] # None
    /\ said[u] = <<>>
    /\ Say(u, <<"turn/started", "item/started">>)
    /\ UNCHANGED <<of, floor, result>>

(* The thread is lost before the turn got the floor: it is over at once.   *)
Abandon(u) ==
    /\ said[u] # <<>>
    /\ floor # u
    /\ result[u] = "none"
    /\ result' = [result EXCEPT ![u] = "failed"]
    /\ Say(u, <<"error", "turn/completed">>)
    /\ UNCHANGED <<of, floor>>

TakeFloor(u) ==
    /\ floor = None
    /\ said[u] # <<>>
    /\ result[u] = "none"
    /\ floor' = u
    /\ UNCHANGED <<of, said, result>>

Stream(u, k) ==
    /\ floor = u
    /\ result[u] = "none"
    /\ ~Said(u, "item/completed")
    /\ Say(u, <<k>>)
    /\ UNCHANGED <<of, floor, result>>

(* Close the item, with a final marker if there was an answer and a        *)
(* warning if the answer came from a placeholder.                          *)
CloseItem(u, marked, warned) ==
    /\ floor = u
    /\ result[u] = "none"
    /\ ~Said(u, "item/completed")
    /\ marked = Said(u, "delta")
    /\ Say(u, (IF marked THEN <<"final_answer">> ELSE <<>>)
              \o <<"item/completed">>
              \o (IF warned THEN <<"warning">> ELSE <<>>))
    /\ UNCHANGED <<of, floor, result>>

Decide(u, r) ==
    /\ floor = u
    /\ result[u] = "none"
    /\ r = "completed" <=> Said(u, "item/completed")
    /\ result' = [result EXCEPT ![u] = r]
    /\ UNCHANGED <<of, said, floor>>

(* An interrupted turn closes its item only after the decision, a failed   *)
(* one gives the reason instead.                                           *)
Explain(u) ==
    /\ floor = u
    /\ ~Said(u, "turn/completed")
    /\ \/ /\ result[u] = "interrupted"
          /\ ~Said(u, "item/completed")
          /\ Say(u, <<"item/completed">>)
       \/ /\ result[u] = "failed"
          /\ ~Said(u, "error")
          /\ Say(u, <<"error">>)
    /\ UNCHANGED <<of, floor, result>>

End(u) ==
    /\ floor = u
    /\ result[u] # "none"
    /\ result[u] = "failed" => Said(u, "error")
    /\ result[u] # "failed" => Said(u, "item/completed")
    /\ ~Said(u, "turn/completed")
    /\ Say(u, <<"turn/completed">>)
    /\ UNCHANGED <<of, floor, result>>

LeaveFloor(u) ==
    /\ floor = u
    /\ Said(u, "turn/completed")
    /\ floor' = None
    /\ UNCHANGED <<of, said, result>>

(* What the kernel does about a turn it has accepted.                      *)
Proceed(u) ==
    \/ Announce(u) \/ Abandon(u) \/ TakeFloor(u)
    \/ \E k \in Streamed : Stream(u, k)
    \/ \E marked, warned \in BOOLEAN : CloseItem(u, marked, warned)
    \/ \E r \in Results : Decide(u, r)
    \/ Explain(u) \/ End(u) \/ LeaveFloor(u)

Next == \E u \in Turns : Proceed(u) \/ \E t \in Threads : Accept(t, u)

Spec == Init /\ [][Next]_protocolVars
=============================================================================
