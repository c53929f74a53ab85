------------------------------ MODULE Approvals ------------------------------
(***************************************************************************)
(* Server-to-client requests: bridge/events.ts, which listens for them,    *)
(* App.tsx and turnStore.ts, which keep the list of pending ones, and the  *)
(* cards of approvals/, which answer them.                                 *)
(*                                                                         *)
(* What raises the requests is not in the repository: it asks each once,   *)
(* settles it by itself, and then sends serverRequest/resolved.  The       *)
(* command that takes the user's answers is, and it passes none of them    *)
(* on.  Events reach the page in the order they were sent, and are lost    *)
(* while nobody listens.                                                   *)
(*                                                                         *)
(* A card's state lives in its component: it is lost when the home page is *)
(* left, while a reply it has sent goes on.  Left out: what the user has   *)
(* filled in a form, which is lost with the card.                          *)
(***************************************************************************)
EXTENDS Router, FiniteSets

CONSTANTS
    Requests,
    Kinds,      (* approval, input, form, unhandled, unknown: see Channel  *)
    Offers,     (* values of availableDecisions: None or a set             *)
    Decisions,  (* the decisions the page knows                            *)
    Defaults,   (* DEFAULT_DECISIONS                                       *)
    None,
    MaxReplies  (* bound: answers to a request                             *)

ASSUME ApprovalsAssumption ==
    /\ Defaults \subseteq Decisions
    /\ Kinds \subseteq {"approval", "input", "form", "unhandled", "unknown"}

(* Where the server sends a request, and where the page listens.           *)
Channel(kind) == IF kind \in {"input", "form"} THEN "user-input" ELSE "approval"
Channels == {"resolved"} \cup {Channel(kind) : kind \in Kinds}

VARIABLES
    channels,   (* channels[c]: unbound, bound, failed                     *)
    appMounted, (* App has subscribed its handlers                         *)
    server,     (* server[r]: kind, offer and standing of a request        *)
    events,     (* sent by the server, not delivered yet                   *)
    pending,    (* turn.pendingRequests                                    *)
    card,       (* card[r]: idle, busy, failed                             *)
    replies,    (* calls of respond_server_request under way               *)
    sent        (* sent[r]: how many there have been                       *)

approvalVars == <<channels, appMounted, server, events, pending, card,
                  replies, sent>>

NotAsked == [kind |-> None, offer |-> None, at |-> "none"]

ApprovalsInit ==
    /\ channels = [c \in Channels |-> "unbound"]
    /\ appMounted = FALSE
    /\ server = [r \in Requests |-> NotAsked]
    /\ events = <<>> /\ pending = {} /\ replies = {}
    /\ card = [r \in Requests |-> "idle"]
    /\ sent = [r \in Requests |-> 0]

-----------------------------------------------------------------------------
(* startEventBridge: every notification channel is settled before a        *)
(* request channel is bound; one that cannot be bound is skipped.  For a   *)
(* request channel that is the same as never getting to it.                *)
Binding(c, how) ==
    /\ channels[c] = "unbound"
    /\ channels' = [channels EXCEPT ![c] = how]
    /\ UNCHANGED <<appMounted, server, events, pending, card, replies, sent>>
MBind(c) == \E how \in {"bound", "failed"} : Binding(c, how)
Bind(c) ==
    IF c = "resolved" THEN \E how \in {"bound", "failed"} : Binding(c, how)
    ELSE channels["resolved"] # "unbound" /\ Binding(c, "bound")

(* The effects of App: all its handlers subscribe in one commit.           *)
MountApp ==
    /\ ~appMounted /\ appMounted' = TRUE
    /\ UNCHANGED <<channels, server, events, pending, card, replies, sent>>

Heard(c) == appMounted /\ channels[c] = "bound"

-----------------------------------------------------------------------------
(* The server.                                                             *)
Ask(r) ==
    /\ server[r].at = "none"
    /\ \E kind \in Kinds :
       \E offer \in IF kind = "approval" THEN Offers ELSE {None} :
          server' = [server EXCEPT ![r] =
                        [kind |-> kind, offer |-> offer, at |-> "waiting"]]
    /\ events' = Append(events, <<"ask", r>>)
    /\ UNCHANGED <<channels, appMounted, pending, card, replies, sent>>

Withdraw(r) ==
    /\ server[r].at = "waiting"
    /\ server' = [server EXCEPT ![r].at = "settled"]
    /\ events' = Append(events, <<"resolved", r>>)
    /\ UNCHANGED <<channels, appMounted, pending, card, replies, sent>>

-----------------------------------------------------------------------------
(* The list.  Cards are keyed by request, so a card that leaves the list   *)
(* or the screen is forgotten with its state, and what it awaits no longer *)
(* finds it.                                                               *)
Disowned(x, rs) == [x EXCEPT !.mine = @ /\ x.of \notin rs]
Disown(rs) == replies' = {Disowned(x, rs) : x \in replies}
Forget(rs) == card' = [r \in Requests |-> IF r \in rs THEN "idle" ELSE card[r]]

RemovePendingRequest(r) == pending' = pending \ {r} /\ Forget({r})

(* resetTurn, loadThreadFromSession and a switch of sessions empty it.     *)
Wipe ==
    /\ pending' = {} /\ Forget(Requests) /\ Disown(Requests)
    /\ UNCHANGED <<channels, appMounted, server, events, sent>>

(* The home page, and every card with it, is unmounted.                    *)
UnmountCards ==
    /\ Forget(Requests) /\ Disown(Requests)
    /\ UNCHANGED <<channels, appMounted, server, events, pending, sent>>

(* An event arrives: bindServerRequest and addPendingRequest, or the       *)
(* handler of serverRequest/resolved.                                      *)
Deliver ==
    /\ events # <<>> /\ events' = Tail(events)
    /\ LET r == Head(events)[2]
           kind == server[r].kind
       IN  CASE Head(events)[1] = "ask" /\ Heard(Channel(kind))
                /\ kind # "unknown" ->
                   /\ pending' = pending \cup {r}
                   /\ UNCHANGED <<card, replies>>
             [] Head(events)[1] = "resolved" /\ Heard("resolved") ->
                   RemovePendingRequest(r) /\ Disown({r})
             [] OTHER -> UNCHANGED <<pending, card, replies>>
    /\ UNCHANGED <<channels, appMounted, server, sent>>

-----------------------------------------------------------------------------
(* The cards.                                                              *)
DecisionsFor(offer) ==
    IF offer = None \/ offer \cap Decisions = {} THEN Defaults
    ELSE offer \cap Decisions

(* What a card lets the user send: an input card without questions and an  *)
(* unhandled request can only be declined.                                 *)
Answers(r) ==
    CASE server[r].kind = "approval" -> DecisionsFor(server[r].offer)
      [] server[r].kind = "form"     -> {"answers"}
      [] OTHER                       -> {"decline"}

Shown(r) == r \in pending /\ HomeShown

Respond(r) ==
    /\ Shown(r) /\ card[r] # "busy"
    /\ sent[r] < MaxReplies
    /\ card' = [card EXCEPT ![r] = "busy"]
    /\ sent' = [sent EXCEPT ![r] = @ + 1]
    /\ \E d \in Answers(r) :
          replies' = replies \cup {[of |-> r, nr |-> sent'[r], decision |-> d,
                                    at |-> "sent", mine |-> TRUE]}
    /\ UNCHANGED <<channels, appMounted, server, events, pending>>

(* The call.  The command answers "ok": false to every request and settles *)
(* none, and a card looks at no answer: for it the call has been answered, *)
(* or the bridge refused to carry it.                                      *)
Serve(x) ==
    /\ x.at = "sent"
    /\ \E how \in {"answered", "failed"} :
          replies' = (replies \ {x}) \cup {[x EXCEPT !.at = how]}
    /\ UNCHANGED <<channels, appMounted, server, events, pending, card, sent>>

(* The await returns.  The list is the store's, the rest the card's.       *)
Removed(x) == /\ x.at = "answered" /\ RemovePendingRequest(x.of)
              /\ replies' = {Disowned(y, {x.of}) : y \in replies \ {x}}
MSettle(x) ==
    /\ \/ Removed(x)
       \/ x.at = "failed" /\ replies' = replies \ {x} /\ UNCHANGED <<pending, card>>
    /\ UNCHANGED <<channels, appMounted, server, events, sent>>
Settle(x) ==
    /\ \/ Removed(x)
       \/ /\ x.at = "failed"
          /\ card' = IF x.mine THEN [card EXCEPT ![x.of] = "failed"] ELSE card
          /\ replies' = replies \ {x} /\ UNCHANGED pending
    /\ UNCHANGED <<channels, appMounted, server, events, sent>>

ApprovalsNext ==
    \/ \E c \in Channels : Bind(c)
    \/ MountApp \/ Deliver
    \/ \E r \in Requests : Ask(r) \/ Withdraw(r) \/ Respond(r)
    \/ \E x \in replies : Serve(x) \/ Settle(x)
=============================================================================
