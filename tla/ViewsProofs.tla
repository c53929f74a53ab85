------------------------------ MODULE ViewsProofs ------------------------------
(***************************************************************************)
(* The views: the cards and menus of Shell, and the conversation of        *)
(* TurnStream, which have no state in common.                              *)
(*                                                                         *)
(* Shell, for any number of requests, replies, menus and routes.  A card   *)
(* on the list without a request behind it would need the news of the end  *)
(* to have come before the request, or while nobody listened.  The events  *)
(* in the queue rule out the first (an "ask" is followed by its            *)
(* "resolved"), the order in which channels are bound the second: there is *)
(* no card before the page hears of the ends of requests.  A disabled card *)
(* has one answer of its own under way, since cards are forgotten together *)
(* with the answers they wait for (AnswersInv).  OneMenu speaks            *)
(* of the states after an input of the pointer; what makes it hold is that *)
(* a pointer shuts every menu but one at the place where it goes down,     *)
(* before anything there can open (MenusInv).                              *)
(*                                                                         *)
(* TurnStream, for any items, sessions, histories and clicks.  What the    *)
(* recursion in Nodes computes of a list is found from the end of the list *)
(* to its beginning: a suffix for which it would be wrong would have a     *)
(* longest proper suffix for which it is right (LeastElement stands for    *)
(* the induction).  Rows are therefore cut where RowEnd says (Cuts), which *)
(* makes them runs, gives back the items, and gives each item one row and  *)
(* so one panel; the last is what a click needs to change no other panel   *)
(* (PanelInv).                                                             *)
(***************************************************************************)
EXTENDS Shell, TurnStream, FiniteSetTheorems,
        SequenceTheorems, TLAPS

Standing == {"none", "waiting", "settled"}
Events   == {"ask", "resolved"} \X Requests
IsAsk(e)      == e[1] = "ask"
IsResolved(e) == e[1] = "resolved"

Replies ==
    [of : Requests, nr : Nat, decision : Decisions \cup {"answers", "decline"},
     at : {"sent", "answered", "failed"}, mine : BOOLEAN]

Typed ==
    /\ channels \in [Channels -> {"unbound", "bound", "failed"}]
    /\ server \in [Requests -> [kind : Kinds \cup {None},
                                offer : Offers \cup {None}, at : Standing]]
    /\ events \in Seq(Events)
    /\ pending \in SUBSET Requests
    /\ replies \in SUBSET Replies
    /\ sent \in [Requests -> Nat]

(* An event tells what has happened, and an end follows its beginning.     *)
EventsOrdered ==
    \A i \in DOMAIN events : LET e == events[i]  r == events[i][2] IN
        /\ IsResolved(e) => server[r].at = "settled"
        /\ IsAsk(e) => server[r].at # "none"
        /\ IsAsk(e) /\ server[r].at = "settled" =>
              \E j \in DOMAIN events : j > i /\ events[j] = <<"resolved", r>>

(* Nobody listens for requests before the end of one can be heard.         *)
EndsHeard ==
    /\ \A c \in Channels \ {"resolved"} :
          channels[c] = "bound" => channels["resolved"] # "unbound"
    /\ pending # {} => appMounted /\ channels["resolved"] # "unbound"

AskedOnly ==
    /\ \A r \in pending : server[r].at # "none"
    /\ \A x \in replies : server[x.of].at # "none"

(* A request that has been made is of a kind the server knows.             *)
KindsKnown == \A r \in Requests : server[r].at # "none" => server[r].kind \in Kinds

CardsInv == /\ Typed /\ EventsOrdered /\ EndsHeard /\ AskedOnly /\ KindsKnown
            /\ NoGhostCard

LEMMA CardsInitially == ASSUME ApprovalsInit PROVE CardsInv
BY DEF ApprovalsInit, NotAsked, CardsInv, Typed, EventsOrdered, EndsHeard,
       AskedOnly, KindsKnown, NoGhostCard, Standing, Events

-----------------------------------------------------------------------------
(* The steps of the approvals.                                             *)

(* Cards leave the list, and the replies that stay are as they were but    *)
(* for whose they are.                                                     *)
Shrinks ==
    /\ pending' \subseteq pending
    /\ \A y \in replies' : \E x \in replies :
          y.of = x.of /\ y.nr = x.nr /\ y.decision = x.decision /\ y.at = x.at
    /\ UNCHANGED <<channels, appMounted, server, sent>>

LEMMA ShrinkKeeps ==
    ASSUME CardsInv, Shrinks, Typed', UNCHANGED events
    PROVE  CardsInv'
<1>1. EventsOrdered' /\ EndsHeard' /\ KindsKnown'
  BY DEF CardsInv, Shrinks, EventsOrdered, EndsHeard, KindsKnown
<1>2. AskedOnly'
  BY DEF CardsInv, Shrinks, AskedOnly
<1>3. NoGhostCard'
  BY DEF CardsInv, Shrinks, NoGhostCard
<1> QED
  BY <1>1, <1>2, <1>3 DEF CardsInv

LEMMA DisownOK ==
    ASSUME NEW x \in Replies, NEW rs
    PROVE  LET y == Disowned(x, rs)
           IN  /\ y \in Replies /\ y.of = x.of /\ y.nr = x.nr
               /\ y.decision = x.decision /\ y.at = x.at
BY DEF Replies, Disowned

LEMMA WipeKeeps ==
    ASSUME CardsInv, Wipe \/ UnmountCards
    PROVE  CardsInv'
<1>1. /\ pending' \subseteq pending
      /\ replies' = {Disowned(x, Requests) : x \in replies}
      /\ UNCHANGED <<channels, appMounted, server, events, sent>>
  BY DEF Wipe, UnmountCards, Disown
<1>2. replies \subseteq Replies
  BY DEF CardsInv, Typed, Replies
<1>3. \A y \in replies' : \E x \in replies :
         /\ y \in Replies /\ y.of = x.of /\ y.nr = x.nr
         /\ y.decision = x.decision /\ y.at = x.at
  BY <1>1, <1>2, DisownOK
<1>4. Typed'
  BY <1>1, <1>3 DEF CardsInv, Typed, Replies
<1> QED
  BY <1>1, <1>3, <1>4, ShrinkKeeps DEF Shrinks

LEMMA BindKeeps ==
    ASSUME CardsInv, NEW c \in Channels, Bind(c)
    PROVE  CardsInv'
<1>1. PICK how \in {"bound", "failed"} :
          /\ Binding(c, how)
          /\ c # "resolved" => channels["resolved"] # "unbound"
  BY DEF Bind
<1>2. /\ channels[c] = "unbound" /\ channels' = [channels EXCEPT ![c] = how]
      /\ UNCHANGED <<appMounted, server, events, pending, replies, sent>>
  BY <1>1 DEF Binding
<1>3. Typed' /\ "resolved" \in Channels
  BY <1>2 DEF CardsInv, Typed, Channels
<1>4. EndsHeard'
  BY <1>1, <1>2, <1>3 DEF CardsInv, Typed, EndsHeard
<1>5. NoGhostCard'
  <2>1. CASE c = "resolved"
    BY <1>2, <2>1 DEF CardsInv, EndsHeard, NoGhostCard
  <2>2. CASE c # "resolved"
    BY <1>2, <1>3, <2>2 DEF CardsInv, Typed, NoGhostCard
  <2> QED
    BY <2>1, <2>2
<1> QED
  BY <1>2, <1>3, <1>4, <1>5 DEF CardsInv, EventsOrdered, AskedOnly, KindsKnown

LEMMA MountKeeps ==
    ASSUME CardsInv, MountApp
    PROVE  CardsInv'
BY DEF MountApp, CardsInv, Typed, EventsOrdered, EndsHeard, AskedOnly,
       KindsKnown, NoGhostCard

LEMMA EventAppended ==
    ASSUME Typed, NEW e \in Events, events' = Append(events, e)
    PROVE  /\ events' \in Seq(Events) /\ Len(events) \in Nat
           /\ DOMAIN events = 1..Len(events)
           /\ DOMAIN events' = 1..(Len(events) + 1)
           /\ Len(events') = Len(events) + 1
           /\ \A i \in DOMAIN events : /\ events[i][1] \in {"ask", "resolved"}
                                      /\ events[i][2] \in Requests
           /\ events'[Len(events) + 1] = e
           /\ \A i \in DOMAIN events : events'[i] = events[i]
BY DEF Typed, Events

LEMMA AskKeeps ==
    ASSUME CardsInv, NEW r \in Requests, Ask(r)
    PROVE  CardsInv'
<1>1. PICK kind \in Kinds, offer \in Offers \cup {None} :
          server' = [server EXCEPT ![r] =
                        [kind |-> kind, offer |-> offer, at |-> "waiting"]]
  BY DEF Ask
<1>2. /\ server[r].at = "none" /\ events' = Append(events, <<"ask", r>>)
      /\ UNCHANGED <<channels, appMounted, pending, replies, sent>>
  BY DEF Ask
<1>3. /\ server'[r] = [kind |-> kind, offer |-> offer, at |-> "waiting"]
      /\ \A s \in Requests \ {r} : server'[s] = server[s]
  BY <1>1 DEF CardsInv, Typed
<1>4. <<"ask", r>> \in Events
  BY DEF Events
<1>5. Typed'
  BY <1>1, <1>2, <1>4, EventAppended DEF CardsInv, Typed, Standing
<1>6. EventsOrdered'
  <2>1. ASSUME NEW i \in DOMAIN events
        PROVE  events[i][2] # r
    BY <1>2, <1>4, <2>1, EventAppended
       DEF CardsInv, EventsOrdered, IsAsk, IsResolved
  <2>2. ASSUME NEW i \in DOMAIN events, IsAsk(events[i]),
               server'[events[i][2]].at = "settled"
        PROVE  \E j \in DOMAIN events' :
                  j > i /\ events'[j] = <<"resolved", events[i][2]>>
    <3>1. events[i][2] \in Requests \ {r}
      BY <1>2, <1>4, <2>1, EventAppended DEF CardsInv
    <3>2. server[events[i][2]].at = "settled"
      BY <1>3, <2>2, <3>1
    <3>3. PICK j \in DOMAIN events : j > i /\ events[j] = <<"resolved", events[i][2]>>
      BY <2>2, <3>2 DEF CardsInv, EventsOrdered
    <3> QED
      BY <1>2, <1>4, <3>3, EventAppended, SMTT(20) DEF CardsInv
  <2>3. ASSUME NEW i \in DOMAIN events
        PROVE  /\ IsResolved(events[i]) => server'[events[i][2]].at = "settled"
               /\ IsAsk(events[i]) => server'[events[i][2]].at # "none"
    BY <1>2, <1>3, <1>4, <2>1, EventAppended DEF CardsInv, EventsOrdered
  <2>4. \A i \in DOMAIN events' :
           \/ i \in DOMAIN events /\ events'[i] = events[i]
           \/ events'[i] = <<"ask", r>>
    BY <1>2, <1>4, EventAppended DEF CardsInv
  <2> QED
    BY <1>3, <2>2, <2>3, <2>4 DEF EventsOrdered, IsAsk, IsResolved
<1>7. AskedOnly' /\ KindsKnown'
  <2>1. \A x \in replies : x.of \in Requests \ {r}
    BY <1>2 DEF CardsInv, Typed, Replies, AskedOnly
  <2>2. pending \subseteq Requests \ {r}
    BY <1>2 DEF CardsInv, Typed, AskedOnly
  <2>3. AskedOnly'
    BY <1>2, <1>3, <2>1, <2>2 DEF CardsInv, AskedOnly
  <2>4. KindsKnown'
    BY <1>3 DEF CardsInv, KindsKnown
  <2> QED
    BY <2>3, <2>4
<1>8. NoGhostCard'
  <2>1. ASSUME NEW s \in pending, server[s].at = "waiting"
        PROVE  server'[s].at = "waiting"
    <3>1. s \in Requests
      BY DEF CardsInv, Typed
    <3> QED
      BY <1>3, <2>1, <3>1
  <2>2. \A i \in 1..Len(events) : i \in 1..Len(events') /\ events'[i] = events[i]
    BY <1>2, <1>4, EventAppended DEF CardsInv
  <2> QED
    BY <1>2, <2>1, <2>2 DEF CardsInv, NoGhostCard
<1>9. EndsHeard'
  BY <1>2 DEF CardsInv, EndsHeard
<1> QED
  BY <1>5, <1>6, <1>7, <1>8, <1>9 DEF CardsInv

(* The server settles a request: everything but the replies.               *)
LEMMA WithdrawSettles ==
    ASSUME CardsInv, NEW r \in Requests, Withdraw(r)
    PROVE  /\ server' \in [Requests -> [kind : Kinds \cup {None},
                                offer : Offers \cup {None}, at : Standing]]
           /\ events' \in Seq(Events)
           /\ \A s \in Requests :
                 server[s].at # "none" => server'[s].at # "none"
           /\ EventsOrdered' /\ EndsHeard' /\ KindsKnown' /\ NoGhostCard'
<1>1. /\ server[r].at = "waiting"
      /\ server' = [server EXCEPT ![r].at = "settled"]
      /\ events' = Append(events, <<"resolved", r>>)
      /\ UNCHANGED <<channels, appMounted, pending, sent>>
  BY DEF Withdraw
<1>2. <<"resolved", r>> \in Events
  BY DEF Events
<1>3. server' \in [Requests -> [kind : Kinds \cup {None},
                                offer : Offers \cup {None}, at : Standing]]
  BY <1>1 DEF CardsInv, Typed, Standing
<1>4. /\ server'[r].at = "settled"
      /\ server'[r].kind = server[r].kind
      /\ \A s \in Requests \ {r} : server'[s] = server[s]
  BY <1>1 DEF CardsInv, Typed
<1>5. EventsOrdered'
  <2>1. ASSUME NEW i \in DOMAIN events, IsAsk(events[i]),
               server'[events[i][2]].at = "settled"
        PROVE  \E j \in DOMAIN events' :
                  j > i /\ events'[j] = <<"resolved", events[i][2]>>
    <3>1. CASE events[i][2] = r
      BY <1>1, <1>2, <3>1, EventAppended DEF CardsInv
    <3>2. CASE events[i][2] # r
      <4>1. server[events[i][2]].at = "settled"
        BY <1>1, <1>2, <1>4, <2>1, <3>2, EventAppended DEF CardsInv
      <4>2. PICK j \in DOMAIN events : j > i /\ events[j] = <<"resolved", events[i][2]>>
        BY <2>1, <4>1 DEF CardsInv, EventsOrdered
      <4>3. j \in DOMAIN events' /\ events'[j] = events[j]
        BY <1>1, <1>2, EventAppended DEF CardsInv
      <4> QED
        BY <4>2, <4>3
    <3> QED
      BY <3>1, <3>2
  <2>2. ASSUME NEW i \in DOMAIN events
        PROVE  /\ IsResolved(events[i]) => server'[events[i][2]].at = "settled"
               /\ IsAsk(events[i]) => server'[events[i][2]].at # "none"
    BY <1>1, <1>2, <1>4, EventAppended DEF CardsInv, EventsOrdered
  <2>3. \A i \in DOMAIN events' :
           \/ i \in DOMAIN events /\ events'[i] = events[i]
           \/ events'[i] = <<"resolved", r>>
    BY <1>1, <1>2, EventAppended DEF CardsInv
  <2> QED
    BY <1>4, <2>1, <2>2, <2>3 DEF EventsOrdered, IsAsk, IsResolved
<1>6. NoGhostCard'
  <2>1. \A i \in 1..Len(events) : i \in 1..Len(events') /\ events'[i] = events[i]
    BY <1>1, <1>2, EventAppended DEF CardsInv
  <2>2. \E i \in 1..Len(events') : events'[i] = <<"resolved", r>>
    BY <1>1, <1>2, EventAppended DEF CardsInv
  <2>3. \A s \in pending : s # r => server'[s] = server[s]
    BY <1>4 DEF CardsInv, Typed
  <2>4. channels' = channels /\ pending' = pending
    BY <1>1
  <2>5. ASSUME channels["resolved"] = "bound", NEW s \in pending, s # r
        PROVE  \/ server'[s].at = "waiting"
               \/ \E i \in 1..Len(events') : events'[i] = <<"resolved", s>>
    BY <2>1, <2>3, <2>5 DEF CardsInv, NoGhostCard
  <2> QED
    BY <2>2, <2>4, <2>5 DEF NoGhostCard
<1>7. EndsHeard' /\ KindsKnown'
  <2>1. EndsHeard'
    BY <1>1 DEF CardsInv, EndsHeard
  <2>2. \A s \in Requests : /\ server'[s].kind = server[s].kind
                            /\ server'[s].at # "none" => server[s].at # "none"
    BY <1>1, <1>4
  <2> QED
    BY <2>1, <2>2 DEF CardsInv, KindsKnown
<1>8. events' \in Seq(Events)
  BY <1>1, <1>2, EventAppended DEF CardsInv
<1> QED
  BY <1>3, <1>4, <1>5, <1>6, <1>7, <1>8

LEMMA WithdrawKeeps ==
    ASSUME CardsInv, NEW r \in Requests, Withdraw(r)
    PROVE  CardsInv'
<1>1. UNCHANGED <<channels, appMounted, pending, replies, sent>>
  BY DEF Withdraw
<1>2. Typed'
  BY <1>1, WithdrawSettles DEF CardsInv, Typed
<1>3. AskedOnly'
  <2>1. pending \subseteq Requests /\ \A x \in replies : x.of \in Requests
    BY DEF CardsInv, Typed, Replies
  <2> QED
    BY <1>1, <2>1, WithdrawSettles DEF CardsInv, AskedOnly
<1> QED
  BY <1>2, <1>3, WithdrawSettles DEF CardsInv

LEMMA DeliverKeeps ==
    ASSUME CardsInv, Deliver
    PROVE  CardsInv'
<1> DEFINE e == Head(events)
           r == e[2]
<1>1. /\ events # <<>> /\ events' = Tail(events)
      /\ UNCHANGED <<channels, appMounted, server, sent>>
  BY DEF Deliver
<1>2. /\ events \in Seq(Events) /\ DOMAIN events = 1..Len(events)
      /\ e = events[1] /\ 1 \in DOMAIN events
      /\ events' \in Seq(Events)
      /\ Len(events) \in Nat \ {0} /\ Len(events') = Len(events) - 1
      /\ DOMAIN events' = 1..Len(events')
      /\ \A i \in DOMAIN events' : i + 1 \in DOMAIN events /\ events'[i] = events[i + 1]
      /\ \A i \in DOMAIN events : i # 1 =>
            i - 1 \in DOMAIN events' /\ events'[i - 1] = events[i]
  BY <1>1 DEF CardsInv, Typed
<1>3. r \in Requests /\ e[1] \in {"ask", "resolved"} /\ e = <<e[1], r>>
  BY <1>2 DEF Events
<1>4. EventsOrdered'
  <2>1. ASSUME NEW i \in DOMAIN events', IsAsk(events'[i]),
               server[events'[i][2]].at = "settled"
        PROVE  \E j \in DOMAIN events' :
                  j > i /\ events'[j] = <<"resolved", events'[i][2]>>
    <3>1. PICK j \in DOMAIN events :
              j > i + 1 /\ events[j] = <<"resolved", events'[i][2]>>
      <4>1. i + 1 \in DOMAIN events /\ events'[i] = events[i + 1]
        BY <1>2
      <4> QED
        BY <2>1, <4>1 DEF CardsInv, EventsOrdered
    <3>2. j - 1 \in DOMAIN events' /\ j - 1 > i /\ events'[j - 1] = events[j]
      BY <1>2, <3>1
    <3> QED
      BY <3>1, <3>2
  <2>2. ASSUME NEW i \in DOMAIN events'
        PROVE  /\ IsResolved(events'[i]) => server[events'[i][2]].at = "settled"
               /\ IsAsk(events'[i]) => server[events'[i][2]].at # "none"
    BY <1>2 DEF CardsInv, EventsOrdered
  <2> QED
    BY <1>1, <2>1, <2>2 DEF EventsOrdered, IsAsk, IsResolved
<1>5. KindsKnown'
  BY <1>1 DEF CardsInv, KindsKnown
(* The news of any other request is still on its way.                      *)
<1>6. ASSUME NEW s \in Requests, NEW i \in 1..Len(events),
             events[i] = <<"resolved", s>>, e # <<"resolved", s>>
      PROVE  \E j \in 1..Len(events') : events'[j] = <<"resolved", s>>
  BY <1>2, <1>6
<1> HIDE DEF e, r
<1>7. CASE /\ e[1] = "ask" /\ Heard(Channel(server[r].kind))
           /\ pending' = pending \cup {r} /\ UNCHANGED replies
  <2>1. server[r].at # "none" /\ server[r].kind \in Kinds
    BY <1>2, <1>3, <1>7 DEF CardsInv, EventsOrdered, KindsKnown, IsAsk, r
  <2>2. appMounted /\ channels["resolved"] # "unbound"
    BY <1>7, <2>1 DEF CardsInv, EndsHeard, Heard, Channel, Channels
  <2>3. server[r].at = "settled" =>
            \E j \in 1..Len(events') : events'[j] = <<"resolved", r>>
    <3>1. ASSUME server[r].at = "settled"
          PROVE  \E j \in DOMAIN events : j > 1 /\ events[j] = <<"resolved", r>>
      BY <1>2, <1>7, <3>1 DEF CardsInv, EventsOrdered, IsAsk, r
    <3>2. ASSUME NEW j \in DOMAIN events, j > 1
          PROVE  j - 1 \in 1..Len(events') /\ events'[j - 1] = events[j]
      BY <1>2, <3>2
    <3> QED
      BY <3>1, <3>2
  <2>4. server[r].at \in Standing
    BY <1>3 DEF CardsInv, Typed
  <2>5. NoGhostCard'
    <3>1. ASSUME channels["resolved"] = "bound", NEW s \in pending,
                 server[s].at # "waiting"
          PROVE  \E j \in 1..Len(events') : events'[j] = <<"resolved", s>>
      <4>1. s \in Requests /\ e # <<"resolved", s>>
        BY <1>3, <1>7 DEF CardsInv, Typed
      <4> QED
        BY <1>6, <3>1, <4>1 DEF CardsInv, NoGhostCard
    <3> QED
      BY <1>1, <1>7, <2>1, <2>3, <2>4, <3>1 DEF NoGhostCard, Standing
  <2>6. Typed' /\ AskedOnly'
    BY <1>1, <1>2, <1>3, <1>7, <2>1 DEF CardsInv, Typed, AskedOnly
  <2>7. EndsHeard'
    BY <1>1, <1>7, <2>2 DEF CardsInv, EndsHeard
  <2> QED
    BY <1>4, <1>5, <2>5, <2>6, <2>7 DEF CardsInv
<1>8. CASE /\ e[1] = "resolved"
           /\ pending' = pending \ {r} /\ Disown({r})
  <2>1. \A y \in replies' : \E x \in replies :
           /\ y \in Replies /\ y.of = x.of /\ y.nr = x.nr
           /\ y.decision = x.decision /\ y.at = x.at
    BY <1>8, DisownOK DEF CardsInv, Typed, Disown
  <2>2. Typed'
    BY <1>1, <1>2, <1>8, <2>1 DEF CardsInv, Typed
  <2>3. AskedOnly' /\ EndsHeard'
    BY <1>1, <1>8, <2>1 DEF CardsInv, AskedOnly, EndsHeard
  <2>4. NoGhostCard'
    <3>1. ASSUME channels["resolved"] = "bound", NEW s \in pending \ {r},
                 server[s].at # "waiting"
          PROVE  \E j \in 1..Len(events') : events'[j] = <<"resolved", s>>
      <4>1. s \in Requests /\ e # <<"resolved", s>>
        BY <1>3 DEF CardsInv, Typed
      <4> QED
        BY <1>6, <3>1, <4>1 DEF CardsInv, NoGhostCard
    <3> QED
      BY <1>1, <1>8, <3>1 DEF NoGhostCard
  <2> QED
    BY <1>4, <1>5, <2>2, <2>3, <2>4 DEF CardsInv
<1>9. CASE /\ e[1] = "resolved" => ~Heard("resolved")
           /\ UNCHANGED <<pending, replies>>
  <2>1. NoGhostCard'
    <3>1. ASSUME channels["resolved"] = "bound", NEW s \in pending,
                 server[s].at # "waiting"
          PROVE  \E j \in 1..Len(events') : events'[j] = <<"resolved", s>>
      <4>1. e[1] # "resolved"
        BY <1>9, <3>1 DEF CardsInv, EndsHeard, Heard
      <4>2. s \in Requests /\ e # <<"resolved", s>>
        BY <4>1 DEF CardsInv, Typed
      <4> QED
        BY <1>6, <3>1, <4>2 DEF CardsInv, NoGhostCard
    <3> QED
      BY <1>1, <1>9, <3>1 DEF NoGhostCard
  <2>2. Typed' /\ AskedOnly' /\ EndsHeard'
    BY <1>1, <1>2, <1>9 DEF CardsInv, Typed, AskedOnly, EndsHeard
  <2> QED
    BY <1>4, <1>5, <2>1, <2>2 DEF CardsInv
<1> QED
  BY <1>3, <1>7, <1>8, <1>9 DEF Deliver, RemovePendingRequest, e, r

LEMMA RespondKeeps ==
    ASSUME CardsInv, NEW r \in Requests, Respond(r)
    PROVE  CardsInv'
<1>1. PICK d \in Answers(r) :
          replies' = replies \cup {[of |-> r, nr |-> sent'[r], decision |-> d,
                                    at |-> "sent", mine |-> TRUE]}
  BY DEF Respond
<1>2. /\ r \in pending /\ sent' = [sent EXCEPT ![r] = @ + 1]
      /\ UNCHANGED <<channels, appMounted, server, events, pending>>
  BY DEF Respond, Shown
<1>3. server[r].at # "none"
  BY <1>2 DEF CardsInv, AskedOnly
<1>4. d \in Decisions \cup {"answers", "decline"}
  BY <1>1, ApprovalsAssumption DEF Answers, DecisionsFor
<1>5. sent' \in [Requests -> Nat] /\ sent'[r] \in Nat
  BY <1>2 DEF CardsInv, Typed
<1>6. Typed'
  <2>1. [of |-> r, nr |-> sent'[r], decision |-> d, at |-> "sent", mine |-> TRUE]
            \in Replies
    BY <1>4, <1>5 DEF Replies
  <2>2. replies' \subseteq Replies
    BY <1>1, <2>1 DEF CardsInv, Typed
  <2> QED
    BY <1>2, <1>5, <2>2 DEF CardsInv, Typed
<1>7. AskedOnly'
  BY <1>1, <1>2, <1>3 DEF CardsInv, AskedOnly
<1> QED
  BY <1>2, <1>6, <1>7 DEF CardsInv, EventsOrdered, EndsHeard, KindsKnown,
        NoGhostCard

LEMMA ServeKeeps ==
    ASSUME CardsInv, NEW x \in replies, Serve(x)
    PROVE  CardsInv'
<1>1. PICK how \in {"answered", "failed"} :
          replies' = (replies \ {x}) \cup {[x EXCEPT !.at = how]}
  BY DEF Serve
<1>2. UNCHANGED <<channels, appMounted, server, events, pending, sent>>
  BY DEF Serve
<1>3. x \in Replies /\ server[x.of].at # "none"
  BY DEF CardsInv, Typed, AskedOnly
<1>4. [x EXCEPT !.at = how] \in Replies /\ [x EXCEPT !.at = how].of = x.of
  BY <1>3 DEF Replies
<1>5. Typed'
  BY <1>1, <1>2, <1>4 DEF CardsInv, Typed
<1>6. AskedOnly'
  BY <1>1, <1>2, <1>3, <1>4 DEF CardsInv, AskedOnly
<1> QED
  BY <1>2, <1>5, <1>6 DEF CardsInv, EventsOrdered, EndsHeard, KindsKnown,
        NoGhostCard

LEMMA SettleKeeps ==
    ASSUME CardsInv, NEW x \in replies, Settle(x)
    PROVE  CardsInv'
<1>1. UNCHANGED <<channels, appMounted, server, events, sent>>
  BY DEF Settle
<1>2. replies \subseteq Replies
  BY DEF CardsInv, Typed
<1>3. CASE /\ pending' = pending \ {x.of}
           /\ replies' = {Disowned(y, {x.of}) : y \in replies \ {x}}
  <2>1. \A y \in replies' : \E z \in replies :
           /\ y \in Replies /\ y.of = z.of /\ y.nr = z.nr
           /\ y.decision = z.decision /\ y.at = z.at
    BY <1>2, <1>3, DisownOK
  <2>2. Typed'
    BY <1>1, <1>3, <2>1 DEF CardsInv, Typed
  <2> QED
    BY <1>1, <1>3, <2>1, <2>2, ShrinkKeeps DEF Shrinks
<1>4. CASE replies' = replies \ {x} /\ UNCHANGED pending
  <2>1. Typed'
    BY <1>1, <1>4 DEF CardsInv, Typed
  <2> QED
    BY <1>1, <1>4, <2>1, ShrinkKeeps DEF Shrinks
<1> QED
  BY <1>3, <1>4 DEF Settle, Removed, RemovePendingRequest

LEMMA CardsStep ==
    ASSUME CardsInv, ApprovalsNext
    PROVE  CardsInv'
<1>1. ASSUME NEW c \in Channels, Bind(c) PROVE CardsInv'
  BY <1>1, BindKeeps
<1>2. ASSUME NEW r \in Requests, Ask(r) \/ Withdraw(r) \/ Respond(r) PROVE CardsInv'
  BY <1>2, AskKeeps, WithdrawKeeps, RespondKeeps
<1>3. ASSUME NEW x \in replies, Serve(x) \/ Settle(x) PROVE CardsInv'
  BY <1>3, ServeKeeps, SettleKeeps
<1> QED
  BY <1>1, <1>2, <1>3, MountKeeps, DeliverKeeps DEF ApprovalsNext

-----------------------------------------------------------------------------
(* What the shell does to the requests: nothing, or all of them at once.   *)
Emptied == Wipe \/ UnmountCards \/ UNCHANGED approvalVars

LEMMA DispatchOK == ASSUME NEW e, Dispatch(e) PROVE Emptied
<1>1. CASE e = "new-task"
  BY <1>1 DEF Dispatch, Emptied
<1>2. CASE e = "step-task"
  BY <1>2 DEF Dispatch, StepTask, KeepCards, KeepPlace, Emptied
<1>3. CASE e = "settings" \/ e = "home"
  BY <1>3 DEF Dispatch, KeepCards, Emptied
<1>4. CASE e \notin {"new-task", "step-task", "settings", "home"}
  BY <1>4 DEF Dispatch, KeepPlace, Emptied
<1> QED
  BY <1>1, <1>2, <1>3, <1>4

LEMMA ClicksOK == ASSUME Clicks PROVE Emptied
<1>1. ASSUME NEW device \in Devices, PickItem(device) \/ WindowButton(device)
      PROVE  Emptied
  BY <1>1, DispatchOK DEF PickItem, WindowButton
<1>2. ASSUME NEW device \in Devices,
             PickPermission(device) \/ PickModel(device) \/ PickProject(device)
      PROVE  Emptied
  BY <1>2 DEF PickPermission, PickModel, PickProject, ToSettings, KeepPlace,
              KeepCards, Emptied
<1>3. ASSUME NEW device \in Devices, NEW m \in TitleMenus, ToggleTitle(m, device)
      PROVE  Emptied
  BY <1>3 DEF ToggleTitle, KeepPlace, Emptied
<1>4. ASSUME NEW device \in Devices, NEW p \in Pills, ToggleMenu(p, device)
      PROVE  Emptied
  BY <1>4 DEF ToggleMenu, KeepPlace, Emptied
<1>5. ASSUME NEW device \in Devices, NEW d \in Dropdowns, NEW at,
             ToggleDrop(d, at, device) \/ CommitDrop(d, device)
      PROVE  Emptied
  BY <1>5 DEF ToggleDrop, CommitDrop, KeepPlace, Emptied
<1> QED
  BY <1>1, <1>2, <1>3, <1>4, <1>5 DEF Clicks

LEMMA InputOK == ASSUME Input PROVE Emptied
<1>1. CASE ClickSidebar
  <2>1. BrandButton \/ NavItem \/ Badge \/ ProjectRow \/ TaskRow \/ FootButton
    BY <1>1 DEF ClickSidebar
  <2> QED
    BY <2>1, DispatchOK DEF BrandButton, NavItem, Badge, ProjectRow, TaskRow,
                            FootButton, KeepCards, KeepPlace, Emptied
<1>2. CASE ClickSettings \/ ClickAway \/ Escape \/ Blur
  BY <1>2 DEF ClickSettings, ClickAway, Escape, Blur, KeepCards, KeepPlace, Emptied
<1>3. CASE ShowContext \/ DeleteSession \/ DeleteRow \/ BackForward
  BY <1>3 DEF ShowContext, DeleteSession, DeleteRow, BackForward, KeepCards, KeepPlace, Emptied
<1>4. CASE Shortcut \/ NativeMenu
  BY <1>4, DispatchOK DEF Shortcut, NativeMenu
<1> QED
  BY <1>1, <1>2, <1>3, <1>4, ClicksOK DEF Input

LEMMA NextOK == ASSUME Next PROVE Emptied \/ ApprovalsNext
BY InputOK DEF Next, SessionDeleted, RowDeleted, RouteChanged, KeepCards, Emptied

LEMMA CardsUnchanged == ASSUME CardsInv, UNCHANGED approvalVars PROVE CardsInv'
BY DEF approvalVars, CardsInv, Typed, EventsOrdered, EndsHeard, AskedOnly,
       KindsKnown, NoGhostCard

THEOREM CardsInvHolds == Spec => []CardsInv
<1>1. Init => CardsInv
  BY CardsInitially DEF Init
<1>2. CardsInv /\ [Next]_vars => CardsInv'
  BY NextOK, WipeKeeps, CardsUnchanged, CardsStep DEF Emptied, vars
<1> QED
  BY <1>1, <1>2, PTL DEF Spec

(* A card is on the list for a request the server still waits for, or its  *)
(* end is on the way: ApprovalHost shows no card that cannot be answered.  *)
THEOREM NoCardOutlivesItsRequest == Spec => []NoGhostCard
<1>1. CardsInv => NoGhostCard
  BY DEF CardsInv
<1> QED
  BY <1>1, CardsInvHolds, PTL

-----------------------------------------------------------------------------
(* A card and the answers that are its own.                                *)
Own(r) == {x \in replies : x.of = r /\ x.mine}

AnswersInv == /\ card \in [Requests -> {"idle", "busy", "failed"}]
              /\ BusyCardsAnswer

(* Cards are forgotten with what they had sent; the others keep theirs.    *)
LEMMA ForgetKeeps ==
    ASSUME CardsInv, AnswersInv, NEW left \in SUBSET replies, NEW rs,
           \A y \in replies : y.of \notin rs => y \in left,
           Forget(rs), replies' = {Disowned(y, rs) : y \in left}
    PROVE  AnswersInv'
<1>1. ASSUME NEW y \in replies
      PROVE  /\ Disowned(y, rs).of = y.of
             /\ y.of \in rs => Disowned(y, rs).mine = FALSE
             /\ y.of \notin rs => Disowned(y, rs) = y
  <2>1. PICK z \in Replies : z = y
    BY DEF CardsInv, Typed
  <2> QED
    BY <2>1 DEF Disowned, Replies
<1>2. /\ card' \in [Requests -> {"idle", "busy", "failed"}]
      /\ \A r \in Requests : card'[r] = IF r \in rs THEN "idle" ELSE card[r]
  BY DEF AnswersInv, Forget
<1>3. ASSUME NEW r \in Requests
      PROVE  Own(r)' = IF r \in rs THEN {} ELSE Own(r)
  <2>1. \A z : z \in Own(r)' <=> /\ \E y \in left : z = Disowned(y, rs)
                                 /\ z.of = r /\ z.mine
    BY DEF Own
  <2>2. CASE r \in rs
    <3>1. ASSUME NEW z \in Own(r)' PROVE FALSE
      <4>1. PICK y \in left : z = Disowned(y, rs)
        BY <2>1, <3>1
      <4>2. z.of = r /\ z.mine
        BY <2>1, <3>1
      <4>3. z.of = y.of /\ (y.of \in rs => z.mine = FALSE)
        BY <1>1, <4>1
      <4> QED
        BY <2>2, <4>2, <4>3
    <3> QED
      BY <2>2, <3>1
  <2>3. CASE r \notin rs
    <3>1. ASSUME NEW z \in Own(r)' PROVE z \in Own(r)
      <4>1. PICK y \in left : z = Disowned(y, rs)
        BY <2>1, <3>1
      <4>2. z.of = r /\ z.mine
        BY <2>1, <3>1
      <4>3. z = y
        BY <1>1, <2>3, <4>1, <4>2
      <4> QED
        BY <4>2, <4>3 DEF Own
    <3>2. ASSUME NEW z \in Own(r) PROVE z \in Own(r)'
      <4>1. z \in left /\ z.of = r /\ z.mine /\ z = Disowned(z, rs)
        BY <1>1, <2>3, <3>2 DEF Own
      <4> QED
        BY <2>1, <4>1
    <3> QED
      BY <2>3, <3>1, <3>2
  <2> QED
    BY <2>2, <2>3
<1>4. ASSUME NEW r \in Requests
      PROVE  IF card'[r] = "busy" THEN \E x \in replies' : Own(r)' = {x} ELSE Own(r)' = {}
  <2>1. CASE r \in rs
    BY <1>2, <1>3, <2>1
  <2>2. CASE r \notin rs
    <3>1. IF card[r] = "busy" THEN \E x \in replies : Own(r) = {x} ELSE Own(r) = {}
      BY DEF AnswersInv, BusyCardsAnswer, Own
    <3>2. Own(r)' \subseteq replies'
      BY DEF Own
    <3> QED
      BY <1>2, <1>3, <2>2, <3>1, <3>2
  <2> QED
    BY <2>1, <2>2
<1> QED
  BY <1>2, <1>4 DEF AnswersInv, BusyCardsAnswer, Own

LEMMA AnswersUnchanged ==
    ASSUME AnswersInv, UNCHANGED <<card, replies>>
    PROVE  AnswersInv'
BY DEF AnswersInv, BusyCardsAnswer

(* The reply that is sent is the first of its card, which was not busy.    *)
LEMMA RespondIsAlone ==
    ASSUME CardsInv, AnswersInv, NEW r \in Requests, Respond(r)
    PROVE  AnswersInv'
<1>1. PICK y : /\ y.of = r /\ y.mine
               /\ replies' = replies \cup {y}
  BY DEF Respond
<1>2. /\ card[r] # "busy" /\ card' = [card EXCEPT ![r] = "busy"]
  BY DEF Respond
<1>3. card'[r] = "busy" /\ \A q \in Requests \ {r} : card'[q] = card[q]
  BY <1>2 DEF AnswersInv
<1>4. Own(r)' = {y}
  BY <1>1, <1>2 DEF Own, AnswersInv, BusyCardsAnswer
<1>5. \A q \in Requests \ {r} : Own(q)' = Own(q)
  BY <1>1 DEF Own
<1>6. card' \in [Requests -> {"idle", "busy", "failed"}]
  BY <1>2 DEF AnswersInv
<1> QED
  BY <1>1, <1>3, <1>4, <1>5, <1>6 DEF AnswersInv, BusyCardsAnswer, Own

(* An answer that comes back is still the only one of its card.            *)
LEMMA ServeIsAlone ==
    ASSUME CardsInv, AnswersInv, NEW x \in replies, Serve(x)
    PROVE  AnswersInv'
<1>1. PICK how \in {"answered", "failed"} :
          replies' = (replies \ {x}) \cup {[x EXCEPT !.at = how]}
  BY DEF Serve
<1>2. PICK y : /\ y = [x EXCEPT !.at = how]
               /\ y.of = x.of /\ y.mine = x.mine
  <2>1. PICK z \in Replies : z = x
    BY DEF CardsInv, Typed
  <2>2. z.mine \in BOOLEAN /\ DOMAIN z = {"of", "nr", "decision", "at", "mine"}
    BY DEF Replies
  <2>3. [z EXCEPT !.at = how].mine = z.mine /\ [z EXCEPT !.at = how].of = z.of
    BY <2>2
  <2> QED
    BY <2>1, <2>3
<1>3. UNCHANGED card /\ replies' = (replies \ {x}) \cup {y}
  BY <1>1, <1>2 DEF Serve
<1>4. ASSUME NEW r \in Requests
      PROVE  IF card[r] = "busy" THEN \E z \in replies' : Own(r)' = {z} ELSE Own(r)' = {}
  <2>1. IF card[r] = "busy" THEN \E z \in replies : Own(r) = {z} ELSE Own(r) = {}
    BY DEF AnswersInv, BusyCardsAnswer, Own
  <2>2. CASE x \in Own(r)
    <3>1. y.of = r /\ y.mine
      BY <1>2, <2>2 DEF Own
    <3>2. Own(r) = {x} /\ card[r] = "busy"
      BY <2>1, <2>2
    <3>3. Own(r)' = {y}
      BY <1>3, <3>1, <3>2 DEF Own
    <3> QED
      BY <1>3, <3>2, <3>3
  <2>3. CASE x \notin Own(r)
    <3>1. Own(r)' = Own(r)
      BY <1>2, <1>3, <2>3 DEF Own
    <3> QED
      BY <2>1, <3>1 DEF Own
  <2> QED
    BY <2>2, <2>3
<1> QED
  BY <1>3, <1>4 DEF AnswersInv, BusyCardsAnswer, Own

(* A call that failed gives its card back, if that is still there.         *)
LEMMA SettleGivesBack ==
    ASSUME CardsInv, AnswersInv, NEW x \in replies, Settle(x)
    PROVE  AnswersInv'
<1>1. CASE Removed(x)
  BY <1>1, ForgetKeeps DEF Removed, RemovePendingRequest
<1>2. CASE /\ card' = IF x.mine THEN [card EXCEPT ![x.of] = "failed"] ELSE card
           /\ replies' = replies \ {x}
  <2>1. x.of \in Requests
    BY DEF CardsInv, Typed, Replies
  <2>2. /\ card' \in [Requests -> {"idle", "busy", "failed"}]
        /\ \A r \in Requests :
              card'[r] = IF x.mine /\ r = x.of THEN "failed" ELSE card[r]
    BY <1>2, <2>1 DEF AnswersInv
  <2>3. ASSUME NEW r \in Requests
        PROVE  IF card'[r] = "busy" THEN \E z \in replies' : Own(r)' = {z}
                                    ELSE Own(r)' = {}
    <3>1. IF card[r] = "busy" THEN \E z \in replies : Own(r) = {z} ELSE Own(r) = {}
      BY DEF AnswersInv, BusyCardsAnswer, Own
    <3>2. CASE x.mine /\ r = x.of
      <4>1. Own(r) = {x}
        BY <3>1, <3>2 DEF Own
      <4> QED
        BY <1>2, <2>2, <3>2, <4>1 DEF Own
    <3>3. CASE ~(x.mine /\ r = x.of)
      <4>1. Own(r)' = Own(r) /\ Own(r)' \subseteq replies'
        BY <1>2, <3>3 DEF Own
      <4> QED
        BY <2>2, <3>1, <3>3, <4>1
    <3> QED
      BY <3>2, <3>3
  <2> QED
    BY <2>2, <2>3 DEF AnswersInv, BusyCardsAnswer, Own
<1> QED
  BY <1>1, <1>2 DEF Settle

LEMMA AnswersStep ==
    ASSUME CardsInv, AnswersInv, ApprovalsNext
    PROVE  AnswersInv'
<1>1. ASSUME NEW c \in Channels, Bind(c) PROVE AnswersInv'
  BY <1>1, AnswersUnchanged DEF Bind, Binding
<1>2. CASE MountApp
  BY <1>2, AnswersUnchanged DEF MountApp
<1>3. CASE Deliver
  <2>1. CASE UNCHANGED <<card, replies>>
    BY <2>1, AnswersUnchanged
  <2>2. ASSUME NEW r, Forget({r}), Disown({r}) PROVE AnswersInv'
    BY <2>2, ForgetKeeps DEF Disown
  <2> QED
    BY <1>3, <2>1, <2>2 DEF Deliver, RemovePendingRequest
<1>4. ASSUME NEW r \in Requests, Ask(r) \/ Withdraw(r) PROVE AnswersInv'
  BY <1>4, AnswersUnchanged DEF Ask, Withdraw
<1> QED
  BY <1>1, <1>2, <1>3, <1>4, RespondIsAlone, ServeIsAlone, SettleGivesBack
     DEF ApprovalsNext

(* ApprovalCard, UserInputCard: busy goes with the call, whether that is   *)
(* answered or fails, the request is withdrawn or the page is left.        *)
THEOREM BusyCardsHaveAnAnswer == Spec => []BusyCardsAnswer
<1>1. Init => AnswersInv
  BY DEF Init, ApprovalsInit, AnswersInv, BusyCardsAnswer
<1>2. CardsInv /\ AnswersInv /\ [Next]_vars => AnswersInv'
  <2> SUFFICES ASSUME CardsInv, AnswersInv, [Next]_vars PROVE AnswersInv'
    OBVIOUS
  <2>1. CASE Wipe \/ UnmountCards
    BY <2>1, ForgetKeeps DEF Wipe, UnmountCards, Disown
  <2>2. CASE UNCHANGED approvalVars
    BY <2>2, AnswersUnchanged DEF approvalVars
  <2> QED
    BY <2>1, <2>2, NextOK, AnswersStep DEF Emptied, vars
<1>3. AnswersInv => BusyCardsAnswer
  BY DEF AnswersInv
<1> QED
  BY <1>1, <1>2, <1>3, CardsInvHolds, PTL DEF Spec

-----------------------------------------------------------------------------
(* The menus: what a pointer leaves open is open where it went down.       *)
IsOpen(o)   == o = [title |-> o.title, pill |-> o.pill, drops |-> o.drops]
Menus(o)    == ({o.title, o.pill} \ {None}) \cup o.drops
AtMostOne(o) == \E m : Menus(o) \subseteq {m}

MenusInv == IsOpen(open) /\ (by = "pointer" => AtMostOne(open))

(* The one that is left can be opened, closed or replaced at its place.    *)
LEMMA LeftOpen ==
    ASSUME NEW at
    PROVE  LET o == PointerDown(at)
           IN  /\ IsOpen(o) /\ AtMostOne(o)
               /\ at # Bar => o.title = None
               /\ at # PillArea => o.pill = None
               /\ \A d \in o.drops : at \in {Button(d), List(d)}
<1> DEFINE o == PointerDown(at)
<1>1. /\ IsOpen(o)
      /\ at # Bar => o.title = None
      /\ at # PillArea => o.pill = None
      /\ \A d \in o.drops : at \in {Button(d), List(d)}
  BY DEF PointerDown, IsOpen
<1>2. AtMostOne(o)
  <2>1. CASE at = Bar
    <3>1. o.pill = None /\ o.drops = {}
      BY <1>1, <2>1 DEF Bar, PillArea, Button, List
    <3> QED
      BY <3>1 DEF AtMostOne, Menus
  <2>2. CASE at = PillArea
    <3>1. o.title = None /\ o.drops = {}
      BY <1>1, <2>2 DEF Bar, PillArea, Button, List
    <3> QED
      BY <3>1 DEF AtMostOne, Menus
  <2>3. CASE at # Bar /\ at # PillArea
    <3>1. o.title = None /\ o.pill = None
      BY <1>1, <2>3
    <3>2. \A c, d \in o.drops : c = d
      BY <1>1 DEF Button, List
    <3>3. \E m : o.drops \subseteq {m}
      BY <3>2
    <3> QED
      BY <3>1, <3>3 DEF AtMostOne, Menus
  <2> QED
    BY <2>1, <2>2, <2>3
<1> QED
  BY <1>1, <1>2

LEMMA BeforeOK ==
    ASSUME MenusInv, NEW at, NEW device \in Devices
    PROVE  LET o == Before(at, device)
           IN  /\ IsOpen(o)
               /\ device = "pointer" =>
                     /\ AtMostOne(o)
                     /\ at # Bar => o.title = None
                     /\ at # PillArea => o.pill = None
                     /\ \A d \in o.drops : at \in {Button(d), List(d)}
BY LeftOpen DEF Before, MenusInv, Devices

LEMMA HitKeeps ==
    ASSUME MenusInv, NEW at, NEW device \in Devices, by' = device,
           open' = Before(at, device)
    PROVE  MenusInv'
BY BeforeOK DEF MenusInv

LEMMA TitleKeeps ==
    ASSUME MenusInv, NEW m, NEW device \in Devices, by' = device,
           open' = [Before(Bar, device) EXCEPT !.title = m]
    PROVE  MenusInv'
<1> DEFINE o == Before(Bar, device)
<1>1. /\ IsOpen(o)
      /\ device = "pointer" => o.pill = None /\ o.drops = {}
  BY BeforeOK DEF Bar, PillArea, Button, List
<1> HIDE DEF o
<1>2. open' = [o EXCEPT !.title = m]
  BY DEF o
<1>3. open' = [title |-> m, pill |-> o.pill, drops |-> o.drops]
  BY <1>1, <1>2 DEF IsOpen
<1>4. IsOpen(open')
  BY <1>3 DEF IsOpen
<1>5. device = "pointer" => Menus(open') \subseteq {m}
  BY <1>1, <1>3 DEF Menus
<1> QED
  BY <1>4, <1>5 DEF MenusInv, AtMostOne

LEMMA PillKeeps ==
    ASSUME MenusInv, NEW m, NEW device \in Devices, by' = device,
           open' = [Before(PillArea, device) EXCEPT !.pill = m]
    PROVE  MenusInv'
<1> DEFINE o == Before(PillArea, device)
<1>1. /\ IsOpen(o)
      /\ device = "pointer" => o.title = None /\ o.drops = {}
  BY BeforeOK DEF Bar, PillArea, Button, List
<1> HIDE DEF o
<1>2. open' = [o EXCEPT !.pill = m]
  BY DEF o
<1>3. open' = [title |-> o.title, pill |-> m, drops |-> o.drops]
  BY <1>1, <1>2 DEF IsOpen
<1>4. IsOpen(open')
  BY <1>3 DEF IsOpen
<1>5. device = "pointer" => Menus(open') \subseteq {m}
  BY <1>1, <1>3 DEF Menus
<1> QED
  BY <1>4, <1>5 DEF MenusInv, AtMostOne

LEMMA DropKeeps ==
    ASSUME MenusInv, NEW d, NEW at \in {Button(d), Label(d), List(d)},
           NEW device \in Devices, by' = device, NEW ds,
           open' = [Before(at, device) EXCEPT !.drops = ds],
           ds \subseteq Before(at, device).drops \cup {d}
    PROVE  MenusInv'
<1> DEFINE o == Before(at, device)
<1>1. /\ IsOpen(o)
      /\ device = "pointer" => /\ o.title = None /\ o.pill = None
                               /\ o.drops \subseteq {d}
  BY BeforeOK DEF Bar, PillArea, Button, List, Label
<1> HIDE DEF o
<1>2. open' = [o EXCEPT !.drops = ds] /\ ds \subseteq o.drops \cup {d}
  BY DEF o
<1>3. open' = [title |-> o.title, pill |-> o.pill, drops |-> ds]
  BY <1>1, <1>2 DEF IsOpen
<1>4. IsOpen(open')
  BY <1>3 DEF IsOpen
<1>5. device = "pointer" => Menus(open') \subseteq {d}
  BY <1>1, <1>2, <1>3 DEF Menus
<1> QED
  BY <1>4, <1>5 DEF MenusInv, AtMostOne

(* A menu is closed, and nothing is opened.                                *)
LEMMA CloseKeeps ==
    ASSUME MenusInv, by' \in {by, "key"},
           open' \in {open, Closed, [open EXCEPT !.pill = None]}
    PROVE  MenusInv'
<1>1. IsOpen(open) /\ (by = "pointer" => AtMostOne(open))
  BY DEF MenusInv
<1>2. CASE open' = open
  BY <1>1, <1>2 DEF MenusInv
<1>3. CASE open' = Closed
  BY <1>3 DEF MenusInv, Closed, IsOpen, AtMostOne, Menus
<1>4. CASE open' = [open EXCEPT !.pill = None]
  <2>1. open' = [title |-> open.title, pill |-> None, drops |-> open.drops]
    BY <1>1, <1>4 DEF IsOpen
  <2>2. IsOpen(open') /\ Menus(open') \subseteq Menus(open)
    BY <2>1 DEF IsOpen, Menus
  <2> QED
    BY <1>1, <2>2 DEF MenusInv, AtMostOne
<1> QED
  BY <1>2, <1>3, <1>4

LEMMA ClicksKeepMenus == ASSUME MenusInv, Clicks PROVE MenusInv'
<1> PICK device \in Devices :
       \/ \E m \in TitleMenus : ToggleTitle(m, device)
       \/ PickItem(device) \/ WindowButton(device)
       \/ \E p \in Pills : ToggleMenu(p, device)
       \/ PickPermission(device) \/ PickModel(device) \/ PickProject(device)
       \/ \E d \in Dropdowns :
             \/ \E at \in {Button(d), Label(d)} : ToggleDrop(d, at, device)
             \/ CommitDrop(d, device)
  BY DEF Clicks
<1>1. ASSUME NEW m \in TitleMenus, ToggleTitle(m, device) PROVE MenusInv'
  BY <1>1, TitleKeeps DEF ToggleTitle, Hit
<1>2. CASE PickItem(device)
  BY <1>2, TitleKeeps DEF PickItem, Hit
<1>3. CASE WindowButton(device)
  BY <1>3, HitKeeps DEF WindowButton, Hit
<1>4. ASSUME NEW p \in Pills, ToggleMenu(p, device) PROVE MenusInv'
  BY <1>4, PillKeeps DEF ToggleMenu, Hit
<1>5. CASE PickPermission(device) \/ PickModel(device) \/ PickProject(device)
  <2>1. by' = device /\ (ClosePill(device) \/ KeepPill(device))
    BY <1>5 DEF PickPermission, PickModel, PickProject, InPill, Hit
  <2> QED
    BY <2>1, PillKeeps, HitKeeps DEF ClosePill, KeepPill
<1>6. ASSUME NEW d \in Dropdowns, NEW at \in {Button(d), Label(d)},
             ToggleDrop(d, at, device)
      PROVE  MenusInv'
  <2> DEFINE o  == Before(at, device)
             ds == IF d \in o.drops THEN o.drops \ {d} ELSE o.drops \cup {d}
  <2>1. by' = device /\ open' = [o EXCEPT !.drops = ds]
    BY <1>6 DEF ToggleDrop, Hit
  <2>2. ds \subseteq o.drops \cup {d} /\ at \in {Button(d), Label(d), List(d)}
    OBVIOUS
  <2> QED
    BY <2>1, <2>2, DropKeeps
<1>7. ASSUME NEW d \in Dropdowns, CommitDrop(d, device) PROVE MenusInv'
  <2> DEFINE o  == Before(List(d), device)
             ds == o.drops \ {d}
  <2>1. by' = device /\ open' = [o EXCEPT !.drops = ds]
    BY <1>7 DEF CommitDrop, Hit
  <2>2. ds \subseteq o.drops \cup {d} /\ List(d) \in {Button(d), Label(d), List(d)}
    OBVIOUS
  <2> QED
    BY <2>1, <2>2, DropKeeps
<1> QED
  BY <1>1, <1>2, <1>3, <1>4, <1>5, <1>6, <1>7

LEMMA NextKeepsMenus == ASSUME MenusInv, Next PROVE MenusInv'
<1>1. CASE ClickSidebar \/ ClickSettings \/ ClickAway \/ ShowContext
          \/ DeleteSession \/ DeleteRow
  <2>1. by' = "pointer" /\ open' = Before(Elsewhere, "pointer")
    BY <1>1 DEF ClickSidebar, ClickSettings, ClickAway, ShowContext,
                DeleteSession, DeleteRow, Hit
  <2> QED
    BY <2>1, HitKeeps DEF Devices
<1>2. CASE Escape \/ Blur
  BY <1>2, CloseKeeps DEF Escape, Blur
<1>3. CASE Shortcut \/ NativeMenu \/ BackForward
  BY <1>3, CloseKeeps DEF Shortcut, NativeMenu, BackForward, KeepMenus, menuVars
<1>4. CASE SessionDeleted \/ RowDeleted \/ RouteChanged \/ UNCHANGED menuVars
  BY <1>4, CloseKeeps DEF SessionDeleted, RowDeleted, RouteChanged, menuVars
<1> QED
  BY <1>1, <1>2, <1>3, <1>4, ClicksKeepMenus DEF Next, Input

(* Each menu closes itself when a pointer goes down outside of it, so a    *)
(* pointer leaves at most one open, however many menus there are and       *)
(* whichever the keyboard had opened before.                               *)
THEOREM PointerLeavesOneMenu == Spec => []OneMenu
<1>1. Init => MenusInv
  BY DEF Init, Closed, MenusInv, IsOpen, AtMostOne, Menus
<1>2. MenusInv /\ [Next]_vars => MenusInv'
  <2>1. CASE Next
    BY <2>1, NextKeepsMenus
  <2>2. CASE UNCHANGED vars
    BY <2>2 DEF vars, menuVars, MenusInv
  <2> QED
    BY <2>1, <2>2
<1>3. MenusInv => OneMenu
  <2> SUFFICES ASSUME NEW m, Menus(open) \subseteq {m}
               PROVE  Cardinality(Menus(open)) <= 1
    BY DEF MenusInv, AtMostOne, OneMenu, Menus
  <2>1. IsFiniteSet({m}) /\ Cardinality({m}) = 1
    BY FS_Singleton
  <2>2. Cardinality(Menus(open)) <= Cardinality({m})
    BY <2>1, FS_Subset
  <2>3. Cardinality(Menus(open)) \in Nat
    BY <2>1, FS_Subset, FS_CardinalityType
  <2> QED
    BY <2>1, <2>2
<1> QED
  BY <1>1, <1>2, <1>3, PTL DEF Spec

-----------------------------------------------------------------------------
(* Every set of naturals has a least element: what an induction needs.     *)
WellFounded == INSTANCE WellFoundedInduction

LEMMA LeastElement ==
    ASSUME NEW S \in SUBSET Nat, S # {}
    PROVE  \E m \in S : \A k \in S : m <= k
<1> DEFINE R == WellFounded!OpToRel(<, Nat)
<1>1. WellFounded!IsWellFoundedOn(R, Nat)
  BY WellFounded!NatLessThanWellFounded, Zenon
<1>2. \A y, x \in Nat : y < x => <<y, x>> \in R
  BY DEF WellFounded!OpToRel
<1> HIDE DEF R
<1>3. \E m \in S : \A k \in S : ~(<<k, m>> \in R)
  <2>1. S \subseteq Nat
    OBVIOUS
  <2> QED
    BY ONLY <1>1, <2>1, S # {}, WellFounded!WFMin, Zenon
<1>4. PICK m \in S : \A k \in S : ~(<<k, m>> \in R)
  BY <1>3
<1>5. ASSUME NEW k \in S
      PROVE  m <= k
  <2>1. k \in Nat /\ m \in Nat /\ ~(k < m)
    BY <1>2, <1>4
  <2> QED
    BY <2>1
<1> QED
  BY <1>5

-----------------------------------------------------------------------------
(* groupProcessItems.                                                      *)

LEMMA RunEndBounds ==
    ASSUME NEW S, NEW its \in Seq(S), NEW i \in 1..Len(its)
    PROVE  LET e == RunEnd(its, i)
           IN  /\ e \in i + 1..Len(its) + 1
               /\ e = Len(its) + 1 \/ ~Groupable(its[e]) \/ its[e].kind # its[i].kind
               /\ \A j \in i + 1..e - 1 :
                     Groupable(its[j]) /\ its[j].kind = its[i].kind
<1> DEFINE Stop(j) == j = Len(its) + 1 \/ ~Groupable(its[j]) \/ its[j].kind # its[i].kind
           E == {j \in i + 1..Len(its) + 1 : Stop(j)}
<1>1. Len(its) \in Nat /\ i \in Nat /\ i <= Len(its)
  OBVIOUS
<1>2. E \in SUBSET Nat /\ Len(its) + 1 \in E
  BY <1>1
<1>3. RunEnd(its, i) = Min(E)
  BY DEF RunEnd
<1> HIDE DEF E
<1>4. \E m \in E : \A k \in E : m <= k
  BY <1>2, LeastElement
<1>5. Min(E) \in E /\ \A k \in E : Min(E) <= k
  BY <1>4 DEF Min
<1>6. ASSUME NEW j \in i + 1..Min(E) - 1
      PROVE  ~Stop(j)
  <2>1. Min(E) \in i + 1..Len(its) + 1
    BY <1>5 DEF E
  <2>2. j \in i + 1..Len(its) + 1 /\ j < Min(E)
    BY <1>1, <2>1
  <2>3. j \notin E
    BY <1>1, <1>5, <2>1, <2>2
  <2> QED
    BY <2>2, <2>3 DEF E
<1>7. Min(E) \in i + 1..Len(its) + 1 /\ Stop(Min(E))
  BY <1>5 DEF E
<1> QED
  BY <1>3, <1>6, <1>7

(* Where the row that begins with the i-th item ends.                      *)
RowEnd(its, i) == IF Groupable(its[i]) THEN RunEnd(its, i) ELSE i + 1
Rows(its, g, i) ==
    IF i > Len(its) THEN <<>>
    ELSE IF ~Groupable(its[i]) THEN <<<<its[i]>>>> \o g[i + 1]
    ELSE <<SubSeq(its, i, RunEnd(its, i) - 1)>> \o g[RunEnd(its, i)]

LEMMA NextBounds ==
    ASSUME NEW S, NEW its \in Seq(S), NEW i \in 1..Len(its)
    PROVE  /\ RowEnd(its, i) \in i + 1..Len(its) + 1
           /\ \A g : Rows(its, g, i) =
                 <<SubSeq(its, i, RowEnd(its, i) - 1)>> \o g[RowEnd(its, i)]
<1>1. Len(its) \in Nat /\ i \in Nat /\ i <= Len(its) /\ ~(i > Len(its))
  OBVIOUS
<1>2. CASE Groupable(its[i])
  BY <1>1, <1>2, RunEndBounds DEF RowEnd, Rows
<1>3. CASE ~Groupable(its[i])
  <2>1. RowEnd(its, i) = i + 1
    BY <1>3 DEF RowEnd
  <2>2. SubSeq(its, i, i + 1 - 1) = <<its[i]>>
    <3> DEFINE r == SubSeq(its, i, i)
    <3>1. r \in Seq(S) /\ Len(r) = 1 /\ r[1] = its[i]
      BY <1>1
    <3>2. i + 1 - 1 = i
      BY <1>1
    <3> HIDE DEF r
    <3>3. r = <<its[i]>>
      BY <3>1
    <3> QED
      BY <3>2, <3>3 DEF r
  <2> QED
    BY <1>1, <1>3, <2>1, <2>2 DEF Rows
<1> QED
  BY <1>2, <1>3

(* The recursion is a definition: there is a function it holds of.         *)
LEMMA RowsDefined ==
    ASSUME NEW S, NEW its \in Seq(S)
    PROVE  \E f : /\ f = [i \in 1..Len(its) + 1 |-> Rows(its, f, i)]
                  /\ Nodes(its) = f[1]
<1> DEFINE N == Len(its)
           From(k) == \E g : g = [i \in N + 1 - k..N + 1 |-> Rows(its, g, i)]
<1>1. N \in Nat
  OBVIOUS
<1> HIDE DEF N
<1>2. From(0)
  <2> DEFINE g == [i \in N + 1..N + 1 |-> <<>>]
  <2>1. \A i \in N + 1..N + 1 : Rows(its, g, i) = <<>>
    BY <1>1 DEF Rows, N
  <2>2. g = [i \in N + 1 - 0..N + 1 |-> Rows(its, g, i)]
    BY <1>1, <2>1
  <2> QED
    BY <2>2
<1>3. ASSUME NEW k \in 1..N, From(k - 1)
      PROVE  From(k)
  <2> DEFINE n == N + 1 - k
  <2>1. n \in 1..N /\ N + 1 - (k - 1) = n + 1
    BY <1>1
  <2> HIDE DEF n
  <2>2. PICK g : g = [i \in n + 1..N + 1 |-> Rows(its, g, i)]
    BY <1>3, <2>1
  <2> DEFINE h == [i \in n..N + 1 |-> IF i = n THEN Rows(its, g, n) ELSE g[i]]
  <2>3. \A i \in n + 1..N + 1 : h[i] = g[i] /\ g[i] = Rows(its, g, i)
    <3>1. \A i \in n + 1..N + 1 : i \in n..N + 1 /\ i # n
      BY <1>1, <2>1
    <3>2. \A i \in n + 1..N + 1 : g[i] = Rows(its, g, i)
      BY <2>2
    <3> QED
      BY <3>1, <3>2
  <2>4. h[n] = Rows(its, g, n)
    BY <1>1, <2>1
  <2>5. DOMAIN h = n..N + 1
    OBVIOUS
  <2>6. h = [i \in n..N + 1 |-> h[i]]
    OBVIOUS
  <2> HIDE DEF h
  <2>7. ASSUME NEW i \in n..N + 1
        PROVE  h[i] = Rows(its, h, i)
    <3>1. CASE i = N + 1
      BY <1>1, <2>1, <2>3, <3>1 DEF Rows, N
    <3>2. CASE i # N + 1
      <4>1. i \in 1..Len(its) /\ i + 1 \in n + 1..N + 1
        BY <1>1, <2>1, <3>2 DEF N
      <4>2. RowEnd(its, i) \in n + 1..N + 1
        <5>1. RowEnd(its, i) \in i + 1..Len(its) + 1
          BY <4>1, NextBounds
        <5> QED
          BY <1>1, <2>1, <5>1 DEF N
      <4>3. h[RowEnd(its, i)] = g[RowEnd(its, i)]
        BY <2>3, <4>2
      <4>4. Rows(its, h, i) = Rows(its, g, i)
        BY <4>1, <4>3, NextBounds
      <4>5. h[i] = Rows(its, g, i)
        BY <1>1, <2>1, <2>3, <2>4
      <4> QED
        BY <4>4, <4>5
    <3> QED
      BY <3>1, <3>2
  <2>8. h = [i \in n..N + 1 |-> Rows(its, h, i)]
    BY <2>5, <2>6, <2>7
  <2> QED
    BY <2>8 DEF n
<1>4. From(N)
  <2> SUFFICES ASSUME ~From(N)
               PROVE  FALSE
    OBVIOUS
  <2> DEFINE B == {k \in 0..N : ~From(k)}
  <2>1. B \in SUBSET Nat /\ N \in B
    BY <1>1
  <2>2. PICK m \in B : \A k \in B : m <= k
    BY <2>1, LeastElement
  <2>3. m # 0 /\ m \in 0..N
    BY <1>2, <2>2
  <2>4. m - 1 \in 0..N /\ ~(m <= m - 1)
    BY <1>1, <2>3
  <2>5. m - 1 \notin B
    BY <2>2, <2>4
  <2>6. From(m - 1)
    BY <2>4, <2>5
  <2>7. From(m)
    BY <1>1, <1>3, <2>3, <2>6
  <2> QED
    BY <2>2, <2>7
<1>5. \E g : g = [i \in 1..N + 1 |-> Rows(its, g, i)]
  <2>1. N + 1 - N = 1
    BY <1>1
  <2> QED
    BY <1>4, <2>1
<1> DEFINE f == CHOOSE g : g = [i \in 1..N + 1 |-> Rows(its, g, i)]
<1>6. f = [i \in 1..N + 1 |-> Rows(its, f, i)]
  BY <1>5
<1>7. Nodes(its) = f[1]
  BY DEF Nodes, Rows, N
<1> QED
  BY <1>6, <1>7 DEF N

(* Where the rows ns of the items from the i-th on begin: c[n] is the      *)
(* place of the first item of the n-th, each row ends where RowEnd says,    *)
(* and the last one with the last item.                                    *)
Cuts(S, its, i, ns, c) ==
    /\ ns \in Seq(Seq(S))
    /\ c \in [1..Len(ns) + 1 -> i..Len(its) + 1]
    /\ c[1] = i /\ c[Len(ns) + 1] = Len(its) + 1
    /\ \A n \in 1..Len(ns) :
           /\ c[n] <= Len(its) /\ c[n + 1] = RowEnd(its, c[n])
           /\ ns[n] = SubSeq(its, c[n], c[n + 1] - 1)
    /\ \A n \in 1..Len(ns) + 1 : \A m \in 1..n - 1 : c[m] < c[n]

LEMMA Prepend ==
    ASSUME NEW T, NEW x \in T, NEW s \in Seq(T)
    PROVE  /\ <<x>> \o s \in Seq(T) /\ Len(<<x>> \o s) = Len(s) + 1
           /\ (<<x>> \o s)[1] = x
           /\ \A n \in 2..Len(s) + 1 : (<<x>> \o s)[n] = s[n - 1]
<1> DEFINE h == <<x>>
<1>1. h \in Seq(T) /\ Len(h) = 1 /\ h[1] = x
  OBVIOUS
<1> HIDE DEF h
<1>2. Len(s) \in Nat
  OBVIOUS
<1>3. /\ h \o s \in Seq(T) /\ Len(h \o s) = Len(h) + Len(s)
      /\ \A n \in 1..Len(h) + Len(s) :
            (h \o s)[n] = IF n <= Len(h) THEN h[n] ELSE s[n - Len(h)]
  BY ONLY <1>1, s \in Seq(T), ConcatProperties, Zenon
<1>4. Len(h \o s) = Len(s) + 1
  BY <1>1, <1>2, <1>3
<1>5. (h \o s)[1] = x
  BY <1>1, <1>2, <1>3
<1>6. ASSUME NEW n \in 2..Len(s) + 1 PROVE (h \o s)[n] = s[n - 1]
  <2>1. n \in 1..Len(h) + Len(s) /\ ~(n <= Len(h)) /\ n - Len(h) = n - 1
    BY <1>1, <1>2
  <2> QED
    BY <1>3, <2>1
<1> QED
  BY <1>3, <1>4, <1>5, <1>6 DEF h

LEMMA CutsStep ==
    ASSUME NEW S, NEW its \in Seq(S), NEW i \in 1..Len(its), NEW ns, NEW c,
           Cuts(S, its, RowEnd(its, i), ns, c)
    PROVE  \E d : Cuts(S, its, i,
                       <<SubSeq(its, i, RowEnd(its, i) - 1)>> \o ns, d)
<1> DEFINE N == Len(its)
           e == RowEnd(its, i)
           row == SubSeq(its, i, e - 1)
           rows == <<row>> \o ns
           L == Len(ns)
           d == [n \in 1..L + 2 |-> IF n = 1 THEN i ELSE c[n - 1]]
<1>1. N \in Nat /\ i \in Nat /\ i <= N /\ 1 <= i
  OBVIOUS
<1>2. e \in i + 1..N + 1
  BY NextBounds
<1>3. row \in Seq(S)
  <2>1. \A j \in i..e - 1 : its[j] \in S
    BY <1>1, <1>2
  <2> QED
    BY <1>1, <1>2, <2>1
<1>4. ns \in Seq(Seq(S)) /\ L \in Nat
  BY DEF Cuts
<1>5. /\ c \in [1..L + 1 -> e..N + 1]
      /\ c[1] = e /\ c[L + 1] = N + 1
      /\ \A n \in 1..L :
            /\ c[n] <= N /\ c[n + 1] = RowEnd(its, c[n])
            /\ ns[n] = SubSeq(its, c[n], c[n + 1] - 1)
      /\ \A n \in 1..L + 1 : \A m \in 1..n - 1 : c[m] < c[n]
  BY DEF Cuts
<1> HIDE DEF row, e
<1>6. rows \in Seq(Seq(S)) /\ Len(rows) = L + 1 /\ rows[1] = row
      /\ \A n \in 2..L + 1 : rows[n] = ns[n - 1]
  <2>1. rows \in Seq(Seq(S)) /\ Len(rows) = Len(ns) + 1 /\ rows[1] = row
        /\ \A n \in 2..Len(ns) + 1 : rows[n] = ns[n - 1]
    BY ONLY <1>3, <1>4, Prepend
  <2> QED
    BY <2>1
<1> HIDE DEF rows, L, N
<1>7. DOMAIN d = 1..L + 2 /\ d[1] = i /\ \A n \in 2..L + 2 : d[n] = c[n - 1]
  BY <1>4
<1>8. d \in [1..L + 2 -> i..N + 1]
  <2>1. ASSUME NEW n \in 1..L + 2 PROVE d[n] \in i..N + 1
    <3>1. CASE n = 1
      BY <1>1, <1>7, <3>1
    <3>2. CASE n # 1
      <4>1. n \in 2..L + 2 /\ n - 1 \in 1..L + 1
        BY <1>4, <3>2
      <4>2. d[n] = c[n - 1] /\ c[n - 1] \in e..N + 1
        BY <1>5, <1>7, <4>1
      <4> QED
        BY <1>1, <1>2, <4>2
    <3> QED
      BY <3>1, <3>2
  <2> QED
    BY <2>1
<1> HIDE DEF d
<1>9. d[L + 2] = N + 1
  <2> DEFINE k == L + 2
  <2>1. k \in 2..L + 2 /\ k - 1 = L + 1
    BY <1>4
  <2> HIDE DEF k
  <2>2. d[k] = c[k - 1]
    BY <1>7, <2>1
  <2> QED
    BY <1>5, <2>1, <2>2 DEF k
<1>10. ASSUME NEW n \in 1..L + 1
       PROVE  /\ d[n] <= N /\ d[n + 1] = RowEnd(its, d[n])
              /\ rows[n] = SubSeq(its, d[n], d[n + 1] - 1)
  <2>1. CASE n = 1
    <3>1. d[2] = e
      <4>1. 2 \in 2..L + 2 /\ 2 - 1 = 1
        BY <1>4
      <4> QED
        BY <1>5, <1>7, <4>1
    <3>2. n + 1 = 2
      BY <2>1
    <3> QED
      BY <1>1, <1>6, <1>7, <2>1, <3>1, <3>2 DEF e, row
  <2>2. CASE n # 1
    <3>1. n \in 2..L + 1 /\ n \in 2..L + 2 /\ n + 1 \in 2..L + 2
          /\ n - 1 \in 1..L /\ n + 1 - 1 = n - 1 + 1
      BY <1>4, <2>2
    <3>2. d[n] = c[n - 1] /\ d[n + 1] = c[n - 1 + 1] /\ rows[n] = ns[n - 1]
      BY <1>6, <1>7, <3>1
    <3> QED
      BY <1>5, <3>1, <3>2
  <2> QED
    BY <2>1, <2>2
<1>11. ASSUME NEW n \in 1..L + 2, NEW m \in 1..n - 1
       PROVE  d[m] < d[n]
  <2>1. n \in 2..L + 2 /\ n - 1 \in 1..L + 1
    BY <1>4
  <2>2. d[n] = c[n - 1] /\ c[n - 1] \in e..N + 1
    BY <1>5, <1>7, <2>1
  <2>3. CASE m = 1
    BY <1>1, <1>2, <1>7, <2>2, <2>3
  <2>4. CASE m # 1
    <3>1. m \in 2..L + 2 /\ m - 1 \in 1..n - 1 - 1
      BY <1>4, <2>1, <2>4
    <3>2. d[m] = c[m - 1]
      BY <1>7, <3>1
    <3> QED
      BY <1>5, <2>1, <2>2, <3>1, <3>2
  <2> QED
    BY <2>3, <2>4
<1>12. L + 1 + 1 = L + 2
  BY <1>4
<1>13. Cuts(S, its, i, rows, d)
  BY <1>6, <1>7, <1>8, <1>9, <1>10, <1>11, <1>12 DEF Cuts, N
<1> QED
  BY <1>13 DEF rows, row, e

(* The rows of the conversation are cut so.                                *)
LEMMA NodesAreCut ==
    ASSUME NEW S, NEW its \in Seq(S)
    PROVE  \E c : Cuts(S, its, 1, Nodes(its), c)
<1> DEFINE N == Len(its)
<1>1. N \in Nat
  OBVIOUS
<1>2. PICK f : f = [i \in 1..N + 1 |-> Rows(its, f, i)] /\ Nodes(its) = f[1]
  BY RowsDefined
<1> DEFINE Cut(k) == \E c : Cuts(S, its, N + 1 - k, f[N + 1 - k], c)
           B == {k \in 0..N : ~Cut(k)}
<1>3. Cut(0)
  <2>1. N + 1 - 0 = N + 1 /\ N + 1 \in 1..N + 1 /\ N + 1 > N
    BY <1>1
  <2>2. f[N + 1] = <<>>
    BY <1>2, <2>1 DEF Rows
  <2> DEFINE none == <<>>
             c == [n \in 1..1 |-> N + 1]
  <2>3. none \in Seq(Seq(S)) /\ Len(none) = 0
    OBVIOUS
  <2> HIDE DEF none
  <2>4. Cuts(S, its, N + 1, none, c)
    BY <1>1, <2>3 DEF Cuts
  <2> QED
    BY <2>1, <2>2, <2>4 DEF none
<1>4. ASSUME NEW k \in 1..N, \A j \in 0..k - 1 : Cut(j)
      PROVE  Cut(k)
  <2> DEFINE i == N + 1 - k
             e == RowEnd(its, i)
  <2>1. i \in 1..N
    BY <1>1
  <2>2. /\ e \in i + 1..N + 1
        /\ Rows(its, f, i) = <<SubSeq(its, i, e - 1)>> \o f[e]
    BY <2>1, NextBounds
  <2>3. f[i] = Rows(its, f, i)
    BY <1>1, <1>2, <2>1
  <2>4. N + 1 - e \in 0..k - 1 /\ N + 1 - (N + 1 - e) = e
    <3>1. e \in i + 1..N + 1 /\ i \in 1..N /\ N + 1 - i = k
      BY <1>1, <2>1, <2>2
    <3> HIDE DEF e, i, N
    <3> QED
      BY <1>1, <3>1
  <2>5. PICK c : Cuts(S, its, e, f[e], c)
    BY <1>4, <2>4
  <2> HIDE DEF i
  <2>6. \E d : Cuts(S, its, i, <<SubSeq(its, i, e - 1)>> \o f[e], d)
    BY <2>1, <2>5, CutsStep
  <2> QED
    BY <2>2, <2>3, <2>6 DEF i
<1> HIDE DEF Cut
<1>5. B = {}
  <2> SUFFICES ASSUME B # {}
               PROVE  FALSE
    OBVIOUS
  <2>1. B \in SUBSET Nat
    BY <1>1
  <2>2. PICK m \in B : \A k \in B : m <= k
    BY <2>1, LeastElement
  <2>3. m \in 1..N
    BY <1>1, <1>3, <2>2
  <2>4. ASSUME NEW j \in 0..m - 1 PROVE Cut(j)
    <3>1. j \in 0..N /\ ~(m <= j)
      BY <1>1, <2>3
    <3> QED
      BY <2>2, <3>1
  <2> QED
    BY <1>4, <2>2, <2>3, <2>4
<1>6. Cut(N)
  BY <1>1, <1>5
<1>7. N + 1 - N = 1
  BY <1>1
<1> QED
  BY <1>2, <1>6, <1>7 DEF Cut

(* A row holds the items from its cut to the next, of which there is one   *)
(* at least.                                                               *)
LEMMA RowItems ==
    ASSUME NEW S, NEW its \in Seq(S), NEW ns, NEW c, Cuts(S, its, 1, ns, c),
           NEW n \in 1..Len(ns)
    PROVE  /\ c[n] \in 1..Len(its) /\ c[n + 1] \in c[n] + 1..Len(its) + 1
           /\ Len(ns[n]) = c[n + 1] - c[n] /\ DOMAIN ns[n] = 1..Len(ns[n])
           /\ \A p \in DOMAIN ns[n] :
                 /\ c[n] + p - 1 \in c[n]..c[n + 1] - 1
                 /\ ns[n][p] = its[c[n] + p - 1]
<1>1. Len(its) \in Nat /\ ns \in Seq(Seq(S)) /\ Len(ns) \in Nat
  BY DEF Cuts
<1>2. n \in 1..Len(ns) + 1
  BY <1>1
<1>3. c[n] \in 1..Len(its) + 1
  BY <1>2 DEF Cuts
<1>4. /\ c[n] <= Len(its) /\ c[n + 1] = RowEnd(its, c[n])
      /\ ns[n] = SubSeq(its, c[n], c[n + 1] - 1)
  BY DEF Cuts
<1>5. c[n] \in 1..Len(its)
  BY <1>1, <1>3, <1>4
<1>6. c[n + 1] \in c[n] + 1..Len(its) + 1
  BY <1>4, <1>5, NextBounds
<1> DEFINE a == c[n]
           b == c[n + 1]
<1>7. a \in Int /\ b \in Int /\ b - 1 \in Int /\ a <= b - 1
  BY <1>5, <1>6
<1>8. \A i \in a..b - 1 : its[i] \in S
  <2>1. a \in 1..Len(its) /\ b \in a + 1..Len(its) + 1
    BY <1>5, <1>6
  <2> HIDE DEF a, b
  <2>2. \A i \in a..b - 1 : i \in 1..Len(its)
    BY ONLY <1>1, <2>1
  <2> QED
    BY ONLY its \in Seq(S), <2>2
<1> HIDE DEF a, b
<1>9. /\ SubSeq(its, a, b - 1) \in Seq(S)
      /\ Len(SubSeq(its, a, b - 1)) = b - 1 - a + 1
      /\ \A i \in 1..b - 1 - a + 1 : SubSeq(its, a, b - 1)[i] = its[a + i - 1]
  BY <1>7, <1>8, SubSeqProperties
<1> DEFINE r == SubSeq(its, a, b - 1)
<1>10. DOMAIN r = 1..Len(r)
  BY <1>9, LenProperties
<1>11. Len(r) = b - a /\ \A i \in 1..b - a : r[i] = its[a + i - 1]
  <2>1. b - 1 - a + 1 = b - a
    BY <1>7
  <2> QED
    BY <1>9, <2>1
<1> HIDE DEF r
<1>12. \A p \in DOMAIN r : a + p - 1 \in a..b - 1 /\ r[p] = its[a + p - 1]
  BY <1>7, <1>10, <1>11
<1>13. ns[n] = r
  BY <1>4 DEF a, b, r
<1> QED
  BY <1>5, <1>6, <1>10, <1>11, <1>12, <1>13 DEF a, b

(* No item is on two rows, or twice on one.                                *)
LEMMA RowsApart ==
    ASSUME NEW S, NEW its \in Seq(S), NEW ns, NEW c, Cuts(S, its, 1, ns, c),
           NEW n \in 1..Len(ns), NEW m \in 1..Len(ns),
           NEW p \in DOMAIN ns[n], NEW q \in DOMAIN ns[m],
           c[n] + p - 1 = c[m] + q - 1
    PROVE  n = m /\ p = q
<1>1. Len(its) \in Nat /\ ns \in Seq(Seq(S)) /\ Len(ns) \in Nat
  <2>1. ns \in Seq(Seq(S))
    BY DEF Cuts
  <2> QED
    BY ONLY <2>1, its \in Seq(S)
<1> DEFINE R(k) == /\ c[k] \in 1..Len(its) /\ c[k + 1] \in c[k] + 1..Len(its) + 1
                   /\ Len(ns[k]) = c[k + 1] - c[k] /\ DOMAIN ns[k] = 1..Len(ns[k])
                   /\ \A r \in DOMAIN ns[k] :
                         /\ c[k] + r - 1 \in c[k]..c[k + 1] - 1
                         /\ ns[k][r] = its[c[k] + r - 1]
<1>2. ASSUME NEW k \in 1..Len(ns), NEW r \in DOMAIN ns[k]
      PROVE  /\ c[k] \in Int /\ c[k + 1] \in Int /\ r \in Int
             /\ c[k] <= c[k] + r - 1 /\ c[k] + r - 1 < c[k + 1]
  <2>1. R(k)
    BY ONLY its \in Seq(S), Cuts(S, its, 1, ns, c), k \in 1..Len(ns), RowItems
  <2> DEFINE a == c[k]
             b == c[k + 1]
             d == Len(ns[k])
  <2>2. a \in 1..Len(its) /\ b \in a + 1..Len(its) + 1 /\ d = b - a /\ r \in 1..d
    BY <2>1
  <2> HIDE DEF a, b, d
  <2>3. a \in Int /\ b \in Int /\ r \in Int /\ a <= a + r - 1 /\ a + r - 1 < b
    BY ONLY <1>1, <2>2
  <2> QED
    BY ONLY <2>3 DEF a, b
<1> DEFINE spot == c[n] + p - 1
<1>3. /\ c[n] \in Int /\ c[n + 1] \in Int /\ c[m] \in Int /\ c[m + 1] \in Int
      /\ p \in Int /\ q \in Int /\ spot \in Int
      /\ c[n] <= spot /\ spot < c[n + 1] /\ c[m] <= spot /\ spot < c[m + 1]
  <2>1. /\ c[n] \in Int /\ c[n + 1] \in Int /\ p \in Int
        /\ c[n] <= c[n] + p - 1 /\ c[n] + p - 1 < c[n + 1]
    BY ONLY <1>2, n \in 1..Len(ns), p \in DOMAIN ns[n], Zenon
  <2>2. /\ c[m] \in Int /\ c[m + 1] \in Int /\ q \in Int
        /\ c[m] <= c[m] + q - 1 /\ c[m] + q - 1 < c[m + 1]
    BY ONLY <1>2, m \in 1..Len(ns), q \in DOMAIN ns[m], Zenon
  <2> QED
    BY ONLY <2>1, <2>2, c[n] + p - 1 = c[m] + q - 1
<1> HIDE DEF R
<1>4. \A j, k \in 1..Len(ns) + 1 : j < k => c[j] < c[k]
  <2>1. \A k \in 1..Len(ns) + 1 : \A j \in 1..k - 1 : c[j] < c[k]
    BY DEF Cuts
  <2>2. \A j, k \in 1..Len(ns) + 1 : j < k => j \in 1..k - 1
    BY <1>1
  <2> QED
    BY <2>1, <2>2
<1>5. \A j, k \in 1..Len(ns) : j < k => c[j + 1] <= c[k]
  <2> SUFFICES ASSUME NEW j \in 1..Len(ns), NEW k \in 1..Len(ns), j < k
               PROVE  c[j + 1] <= c[k]
    OBVIOUS
  <2>1. j + 1 \in 1..Len(ns) + 1 /\ k \in 1..Len(ns) + 1
        /\ (j + 1 = k \/ j + 1 < k)
    BY ONLY <1>1, j \in 1..Len(ns), k \in 1..Len(ns), j < k
  <2>2. c \in [1..Len(ns) + 1 -> 1..Len(its) + 1]
    BY DEF Cuts
  <2> DEFINE W == 1..Len(ns) + 1
             V == 1..Len(its) + 1
             i == j + 1
  <2>3. V \in SUBSET Int /\ i \in W /\ k \in W /\ c \in [W -> V]
    BY ONLY <1>1, <2>1, <2>2
  <2> HIDE DEF V, W, i
  <2>4. c[i] \in Int /\ c[k] \in Int
    BY ONLY <2>3
  <2> QED
    BY ONLY <1>4, <2>1, <2>4 DEF i
<1>6. ~(n < m) /\ ~(m < n)
  <2>1. n < m => c[n + 1] <= c[m]
    BY ONLY <1>5, n \in 1..Len(ns), m \in 1..Len(ns)
  <2>2. m < n => c[m + 1] <= c[n]
    BY ONLY <1>5, n \in 1..Len(ns), m \in 1..Len(ns)
  <2> HIDE DEF spot
  <2> QED
    BY ONLY <1>3, <2>1, <2>2
<1>7. n = m
  BY ONLY <1>1, <1>6, n \in 1..Len(ns), m \in 1..Len(ns)
<1>8. p = q
  BY ONLY <1>3, <1>7, c[n] + p - 1 = c[m] + q - 1
<1> QED
  BY <1>7, <1>8

(* Put together again, the rows are the items.                             *)
LEMMA RowsFlatten ==
    ASSUME NEW S, NEW its \in Seq(S), NEW ns, NEW c, Cuts(S, its, 1, ns, c)
    PROVE  FlattenSeq(ns) = its
<1> DEFINE L == Len(ns)
           G(g, i) == IF i = 1 THEN ns[i] ELSE g[i - 1] \o ns[i]
           all == [i \in 1..L |-> SubSeq(its, 1, c[i + 1] - 1)]
           flat == CHOOSE g : g = [i \in 1..L |-> G(g, i)]
<1>1. Len(its) \in Nat /\ ns \in Seq(Seq(S)) /\ L \in Nat /\ c[1] = 1
      /\ c[L + 1] = Len(its) + 1
  BY DEF Cuts
<1>2. CASE L = 0
  <2>1. Len(its) = 0
    BY <1>1, <1>2
  <2>2. ns = <<>> /\ its = <<>>
    BY <1>1, <1>2, <2>1
  <2> QED
    BY <1>2, <2>2 DEF FlattenSeq
<1>3. CASE L # 0
  <2>1. FlattenSeq(ns) = flat[L]
    BY <1>3 DEF FlattenSeq
  <2>2. \A i \in 1..L : ns[i] = SubSeq(its, c[i], c[i + 1] - 1)
    BY DEF Cuts
  <2> HIDE DEF L
  <2>3. \A i \in 1..L : all[i] = SubSeq(its, 1, c[i + 1] - 1)
    OBVIOUS
  <2>4. ASSUME NEW i \in 1..L PROVE all[i] = G(all, i)
    <3>1. CASE i = 1
      BY <1>1, <2>2, <2>3, <3>1
    <3>2. CASE i # 1
      <4> DEFINE k == c[i] - 1
                 j == c[i + 1] - 1
      <4>1. c[i] \in 1..Len(its) /\ c[i + 1] \in c[i] + 1..Len(its) + 1
        BY RowItems DEF L
      <4>2. k \in 1 - 1..Len(its) /\ j \in k..Len(its) /\ k + 1 = c[i]
            /\ 1 \in 1..Len(its) + 1
        <5> DEFINE a == c[i]
                   b == c[i + 1]
                   l == Len(its)
        <5>1. a \in 1..l /\ b \in a + 1..l + 1 /\ l \in Nat
          BY <1>1, <4>1
        <5> HIDE DEF a, b, l
        <5>2. /\ a - 1 \in 1 - 1..l /\ b - 1 \in a - 1..l /\ a - 1 + 1 = a
              /\ 1 \in 1..l + 1
          BY ONLY <5>1
        <5> QED
          BY ONLY <5>2 DEF a, b, l
      <4>3. i - 1 \in 1..L /\ i - 1 + 1 = i
        BY <1>1, <3>2
      <4>4. all[i - 1] = SubSeq(its, 1, k)
        BY <2>3, <4>3
      <4>5. ns[i] = SubSeq(its, k + 1, j)
        BY <2>2, <4>2
      <4>6. all[i] = SubSeq(its, 1, j)
        BY <2>3
      <4> HIDE DEF all, k, j
      <4>7. SubSeq(its, 1, k) \o SubSeq(its, k + 1, j) = SubSeq(its, 1, j)
        BY <4>2, ConcatAdjacentSubSeq
      <4> QED
        BY <3>2, <4>4, <4>5, <4>6, <4>7
    <3> QED
      BY <3>1, <3>2
  <2>5. all = [i \in 1..L |-> G(all, i)]
    <3>1. all = [i \in 1..L |-> all[i]]
      OBVIOUS
    <3> HIDE DEF all
    <3> QED
      BY <2>4, <3>1
  <2> HIDE DEF all
  <2>6. flat = [i \in 1..L |-> G(flat, i)]
    BY <2>5
  <2> HIDE DEF flat
  <2>7. ASSUME NEW i \in 1..L, i = 1 \/ flat[i - 1] = all[i - 1]
        PROVE  flat[i] = all[i]
    <3>1. flat[i] = G(flat, i)
      BY <2>6
    <3> QED
      BY <2>4, <2>7, <3>1
  <2> HIDE DEF G
  <2> DEFINE B == {i \in 1..L : flat[i] # all[i]}
  <2>8. B = {}
    <3> SUFFICES ASSUME B # {}
                 PROVE  FALSE
      OBVIOUS
    <3>1. B \in SUBSET Nat
      BY <1>1
    <3>2. PICK m \in B : \A k \in B : m <= k
      BY <3>1, LeastElement
    <3>3. m \in 1..L /\ ~(m <= m - 1) /\ (m # 1 => m - 1 \in 1..L)
      BY <1>1, <3>2
    <3>4. m = 1 \/ flat[m - 1] = all[m - 1]
      BY <3>2, <3>3
    <3> QED
      BY <2>7, <3>2, <3>3, <3>4
  <2>9. L \in 1..L
    BY <1>1, <1>3
  <2>10. flat[L] = all[L]
    BY <2>8, <2>9
  <2>11. c[L + 1] - 1 = Len(its)
    BY <1>1
  <2>12. all[L] = SubSeq(its, 1, Len(its))
    BY <2>3, <2>9, <2>11
  <2> QED
    BY <2>1, <2>10, <2>12, SubSeqFull
<1> QED
  BY <1>2, <1>3

(* What NodesAreRuns says, of any items.                                   *)
Together(i, j) == Groupable(i) /\ Groupable(j) /\ i.kind = j.kind

LEMMA RowsAreRuns ==
    ASSUME NEW S, NEW its \in Seq(S)
    PROVE  LET ns == Nodes(its)
           IN  /\ FlattenSeq(ns) = its
               /\ \A n \in DOMAIN ns : IsGroup(ns[n]) =>
                      \A p \in DOMAIN ns[n] : Together(ns[n][1], ns[n][p])
               /\ \A n \in 1..Len(ns) - 1 :
                      ~Together(ns[n][Len(ns[n])], ns[n + 1][1])
<1> DEFINE ns == Nodes(its)
<1>1. PICK c : Cuts(S, its, 1, ns, c)
  BY NodesAreCut
<1> HIDE DEF ns
<1>2. Len(its) \in Nat /\ ns \in Seq(Seq(S)) /\ Len(ns) \in Nat
      /\ DOMAIN ns = 1..Len(ns)
  <2>1. ns \in Seq(Seq(S))
    BY <1>1 DEF Cuts
  <2> QED
    BY <2>1
<1>3. FlattenSeq(ns) = its
  BY <1>1, RowsFlatten
<1>4. ASSUME NEW n \in 1..Len(ns)
      PROVE  /\ c[n] \in 1..Len(its) /\ c[n + 1] \in c[n] + 1..Len(its) + 1
             /\ Len(ns[n]) = c[n + 1] - c[n] /\ DOMAIN ns[n] = 1..Len(ns[n])
             /\ \A p \in DOMAIN ns[n] :
                   /\ c[n] + p - 1 \in c[n]..c[n + 1] - 1
                   /\ ns[n][p] = its[c[n] + p - 1]
             /\ c[n + 1] = RowEnd(its, c[n])
  <2>1. c[n + 1] = RowEnd(its, c[n])
    BY <1>1 DEF Cuts
  <2> QED
    BY <1>1, <2>1, RowItems
(* From its first item on, the items of a row are together with the first. *)
<1>5. ASSUME NEW n \in 1..Len(ns), Groupable(its[c[n]]),
             NEW j \in c[n]..c[n + 1] - 1
      PROVE  Groupable(its[j]) /\ its[j].kind = its[c[n]].kind
  <2> DEFINE i == c[n]
             e == RunEnd(its, i)
  <2>1. i \in 1..Len(its) /\ c[n + 1] = e
    BY <1>4, <1>5 DEF RowEnd
  <2> HIDE DEF i
  <2>2. e \in i + 1..Len(its) + 1
        /\ \A k \in i + 1..e - 1 : Groupable(its[k]) /\ its[k].kind = its[i].kind
    BY <2>1, RunEndBounds
  <2> HIDE DEF e
  <2>3. j \in i..e - 1
    BY <2>1 DEF i
  <2>4. j = i \/ j \in i + 1..e - 1
    BY <1>2, <2>1, <2>2, <2>3
  <2> QED
    BY <1>5, <2>2, <2>4 DEF i
<1>6. ASSUME NEW n \in 1..Len(ns), Len(ns[n]) > 1, NEW p \in DOMAIN ns[n]
      PROVE  Together(ns[n][1], ns[n][p])
  <2> DEFINE i == c[n]
             e == c[n + 1]
  <2>1. i \in 1..Len(its) /\ e \in i + 1..Len(its) + 1 /\ e - i > 1
        /\ e = RowEnd(its, i)
    BY <1>4, <1>6
  <2>2. 1 \in DOMAIN ns[n]
    BY <1>4, <1>6
  <2>3. /\ i + p - 1 \in i..e - 1 /\ ns[n][p] = its[i + p - 1]
        /\ i + 1 - 1 \in i..e - 1 /\ ns[n][1] = its[i + 1 - 1]
    BY <1>4, <2>2
  <2> HIDE DEF i, e
  <2>4. Groupable(its[i])
    BY <1>2, <2>1 DEF RowEnd
  <2>5. i + 1 - 1 = i
    BY <2>1
  <2>6. Groupable(its[i + p - 1]) /\ its[i + p - 1].kind = its[i].kind
    BY <1>5, <2>3, <2>4 DEF i, e
  <2> QED
    BY <2>3, <2>4, <2>5, <2>6 DEF Together
<1>7. ASSUME NEW n \in 1..Len(ns) - 1
      PROVE  ~Together(ns[n][Len(ns[n])], ns[n + 1][1])
  <2> DEFINE i == c[n]
             e == c[n + 1]
  <2>1. n \in 1..Len(ns) /\ n + 1 \in 1..Len(ns)
    BY <1>2
  <2>2. /\ i \in 1..Len(its) /\ e \in i + 1..Len(its) + 1 /\ e = RowEnd(its, i)
        /\ Len(ns[n]) = e - i /\ DOMAIN ns[n] = 1..Len(ns[n])
    BY <1>4, <2>1
  <2>3. e \in 1..Len(its) /\ 1 \in DOMAIN ns[n + 1] /\ ns[n + 1][1] = its[e + 1 - 1]
    <3>1. /\ c[n + 1] \in 1..Len(its)
          /\ c[n + 1 + 1] \in c[n + 1] + 1..Len(its) + 1
          /\ Len(ns[n + 1]) = c[n + 1 + 1] - c[n + 1]
          /\ DOMAIN ns[n + 1] = 1..Len(ns[n + 1])
          /\ \A p \in DOMAIN ns[n + 1] : ns[n + 1][p] = its[c[n + 1] + p - 1]
      BY <1>4, <2>1
    <3>2. 1 \in DOMAIN ns[n + 1]
      <4> DEFINE a == c[n + 1]
                 b == c[n + 1 + 1]
                 l == Len(ns[n + 1])
      <4>1. a \in 1..Len(its) /\ b \in a + 1..Len(its) + 1 /\ l = b - a
            /\ DOMAIN ns[n + 1] = 1..l
        BY <3>1
      <4> HIDE DEF a, b, l
      <4>2. l \in Nat /\ l >= 1
        BY ONLY <1>2, <4>1
      <4> QED
        BY ONLY <4>1, <4>2
    <3> QED
      BY <3>1, <3>2
  <2>4. Len(ns[n]) \in DOMAIN ns[n]
    <3> DEFINE l == Len(ns[n])
    <3>1. l = e - i /\ DOMAIN ns[n] = 1..l
      BY <2>2
    <3> HIDE DEF i, e, l
    <3>2. l \in 1..l
      BY ONLY <1>2, <2>2, <3>1
    <3> QED
      BY ONLY <3>1, <3>2 DEF l
  <2>5. /\ i + Len(ns[n]) - 1 \in i..e - 1
        /\ ns[n][Len(ns[n])] = its[i + Len(ns[n]) - 1]
    BY <1>4, <2>1, <2>4
  <2> HIDE DEF i, e
  <2>6. i + Len(ns[n]) - 1 = e - 1 /\ e + 1 - 1 = e
    BY <2>2, <2>3
  <2>7. CASE Groupable(its[i])
    <3>1. its[e - 1].kind = its[i].kind
      BY <1>5, <2>1, <2>5, <2>6, <2>7 DEF i, e
    <3>2. e = RunEnd(its, i) /\ e # Len(its) + 1
      BY <1>2, <2>2, <2>3, <2>7 DEF RowEnd
    <3>3. LET g == RunEnd(its, i) IN
          g = Len(its) + 1 \/ ~Groupable(its[g]) \/ its[g].kind # its[i].kind
      BY ONLY its \in Seq(S), <2>2, RunEndBounds
    <3>4. ~Groupable(its[e]) \/ its[e].kind # its[i].kind
      BY <3>2, <3>3
    <3> QED
      BY <2>3, <2>5, <2>6, <3>1, <3>4 DEF Together
  <2>8. CASE ~Groupable(its[i])
    <3>1. e - 1 = i
      BY <2>2, <2>8 DEF RowEnd
    <3> QED
      BY <2>5, <2>6, <2>8, <3>1 DEF Together
  <2> QED
    BY <2>7, <2>8
<1> QED
  BY <1>2, <1>3, <1>6, <1>7 DEF ns, IsGroup

-----------------------------------------------------------------------------
(* The panels.  The types and the items there can be: what arrives, what   *)
(* histories hold, and bubbles.                                            *)
StreamTypes == {BlockTypeOf(a[1]) : a \in Arriving} \cup
               {"user-message", "agentMessage"}
StreamItems == [id: Nat, type: StreamTypes, kind: ToolKinds, status: Statuses]

(* Items out of the m that were made, and no two of them with one id.      *)
ItemsOK(its, m) ==
    /\ its \in Seq(StreamItems)
    /\ \A j \in DOMAIN its : its[j].id <= m
    /\ \A j, k \in DOMAIN its : its[j].id = its[k].id => j = k

LEMMA ByIdOf ==
    ASSUME NEW its, NEW m, ItemsOK(its, m), NEW j \in DOMAIN its
    PROVE  /\ \E n \in DOMAIN its : its[n].id = its[j].id
           /\ Place(its, its[j].id) = j
           /\ ById(its, its[j].id) = its[j]
<1>1. \A n \in DOMAIN its : its[n].id = its[j].id => n = j
  BY DEF ItemsOK
<1>2. Place(its, its[j].id) = j
  BY <1>1 DEF Place
<1> QED
  BY <1>2 DEF ById

(* A key names a row that is drawn: its third part is the id of an item,   *)
(* that of a group the id of the group's first.                            *)
LEMMA KeyRow ==
    ASSUME NEW ns, NEW k \in Keys(ns), \A n \in DOMAIN ns : 1 \in DOMAIN ns[n]
    PROVE  \E n \in DOMAIN ns : \E p \in DOMAIN ns[n] :
              /\ k[3] = ns[n][p].id
              /\ k[1] # "group" => k = KeyOf(ns[n], ns[n][p])
<1>1. CASE \E n \in DOMAIN ns : k = Group(ns[n][1].id)
  <2>1. PICK n \in DOMAIN ns : k = Group(ns[n][1].id)
    BY <1>1
  <2>2. k[3] = ns[n][1].id /\ k[1] = "group"
    BY <2>1 DEF Group
  <2> QED
    BY <2>2
<1>2. CASE \E n \in DOMAIN ns : \E p \in DOMAIN ns[n] : k = KeyOf(ns[n], ns[n][p])
  <2>1. PICK n \in DOMAIN ns : \E p \in DOMAIN ns[n] : k = KeyOf(ns[n], ns[n][p])
    BY <1>2
  <2>2. PICK p \in DOMAIN ns[n] : k = KeyOf(ns[n], ns[n][p])
    BY <2>1
  <2>3. k[3] = ns[n][p].id
    BY <2>2 DEF KeyOf, SubRow, Row
  <2> QED
    BY <2>2, <2>3
<1>3. \/ \E n \in DOMAIN ns : k = Group(ns[n][1].id)
      \/ \E n \in DOMAIN ns : \E p \in DOMAIN ns[n] : k = KeyOf(ns[n], ns[n][p])
  BY DEF Keys, Paneled
<1> QED
  BY <1>1, <1>2, <1>3

(* The items of the rows are the items, each at its place.                 *)
LEMMA RowPlaces ==
    ASSUME NEW S, NEW its \in Seq(S)
    PROVE  \E c :
              /\ Cuts(S, its, 1, Nodes(its), c)
              /\ DOMAIN Nodes(its) = 1..Len(Nodes(its))
              /\ \A n \in DOMAIN Nodes(its) :
                    /\ 1 \in DOMAIN Nodes(its)[n]
                    /\ \A p \in DOMAIN Nodes(its)[n] :
                          /\ c[n] + p - 1 \in DOMAIN its
                          /\ Nodes(its)[n][p] = its[c[n] + p - 1]
<1> DEFINE ns == Nodes(its)
<1>1. PICK c : Cuts(S, its, 1, ns, c)
  BY NodesAreCut
<1> HIDE DEF ns
<1>2. ns \in Seq(Seq(S))
  BY <1>1 DEF Cuts
<1>3. DOMAIN ns = 1..Len(ns) /\ Len(its) \in Nat
  BY <1>2
<1>4. ASSUME NEW n \in 1..Len(ns)
      PROVE  /\ 1 \in DOMAIN ns[n]
             /\ \A p \in DOMAIN ns[n] : /\ c[n] + p - 1 \in DOMAIN its
                                        /\ ns[n][p] = its[c[n] + p - 1]
  <2> DEFINE a == c[n]
             b == c[n + 1]
             r == ns[n]
  <2>1. /\ a \in 1..Len(its) /\ b \in a + 1..Len(its) + 1
        /\ Len(r) = b - a /\ DOMAIN r = 1..Len(r)
        /\ \A p \in DOMAIN r : a + p - 1 \in a..b - 1 /\ r[p] = its[a + p - 1]
    BY <1>1, RowItems
  <2> HIDE DEF a, b, r
  <2>2. 1 \in DOMAIN r
    BY ONLY <1>3, <2>1
  <2>3. DOMAIN its = 1..Len(its)
    OBVIOUS
  <2>4. \A p \in DOMAIN r : a + p - 1 \in 1..Len(its)
    BY ONLY <1>3, <2>1
  <2> QED
    BY ONLY <2>1, <2>2, <2>3, <2>4 DEF a, r
<1> QED
  BY <1>1, <1>3, <1>4 DEF ns

LEMMA KeyItem ==
    ASSUME NEW its \in Seq(StreamItems), NEW k \in Keys(Nodes(its))
    PROVE  \E j \in DOMAIN its : k[3] = its[j].id
<1> DEFINE ns == Nodes(its)
<1>1. PICK c : \A n \in DOMAIN ns :
                  /\ 1 \in DOMAIN ns[n]
                  /\ \A p \in DOMAIN ns[n] : /\ c[n] + p - 1 \in DOMAIN its
                                             /\ ns[n][p] = its[c[n] + p - 1]
  BY RowPlaces
<1> HIDE DEF ns
<1>2. k \in Keys(ns)
  BY DEF ns
<1>3. PICK n \in DOMAIN ns : \E p \in DOMAIN ns[n] : k[3] = ns[n][p].id
  BY <1>1, <1>2, KeyRow
<1>4. PICK p \in DOMAIN ns[n] : k[3] = ns[n][p].id
  BY <1>3
<1> QED
  BY <1>1, <1>4

(* Two panels are never of one item.                                       *)
LEMMA PanelsApart ==
    ASSUME NEW its, NEW m, ItemsOK(its, m),
           NEW k \in Keys(Nodes(its)), NEW l \in Keys(Nodes(its)),
           k[1] # "group", l[1] # "group", k[3] = l[3]
    PROVE  k = l
<1> DEFINE ns == Nodes(its)
<1>1. its \in Seq(StreamItems)
  BY DEF ItemsOK
<1>2. PICK c : /\ Cuts(StreamItems, its, 1, ns, c)
               /\ DOMAIN ns = 1..Len(ns)
               /\ \A n \in DOMAIN ns :
                     /\ 1 \in DOMAIN ns[n]
                     /\ \A p \in DOMAIN ns[n] : /\ c[n] + p - 1 \in DOMAIN its
                                                /\ ns[n][p] = its[c[n] + p - 1]
  BY <1>1, RowPlaces
<1> HIDE DEF ns
<1>3. k \in Keys(ns) /\ l \in Keys(ns)
  BY DEF ns
<1>4. PICK n \in DOMAIN ns : \E p \in DOMAIN ns[n] :
               k[3] = ns[n][p].id /\ k = KeyOf(ns[n], ns[n][p])
  BY <1>2, <1>3, KeyRow
<1>5. PICK p \in DOMAIN ns[n] : k[3] = ns[n][p].id /\ k = KeyOf(ns[n], ns[n][p])
  BY <1>4
<1>6. PICK o \in DOMAIN ns : \E q \in DOMAIN ns[o] :
               l[3] = ns[o][q].id /\ l = KeyOf(ns[o], ns[o][q])
  BY <1>2, <1>3, KeyRow
<1>7. PICK q \in DOMAIN ns[o] : l[3] = ns[o][q].id /\ l = KeyOf(ns[o], ns[o][q])
  BY <1>6
<1>8. its[c[n] + p - 1].id = its[c[o] + q - 1].id
  BY <1>2, <1>5, <1>7
<1>9. c[n] + p - 1 = c[o] + q - 1
  BY <1>2, <1>8 DEF ItemsOK
<1>10. n = o /\ p = q
  BY <1>1, <1>2, <1>9, RowsApart
<1> QED
  BY <1>5, <1>7, <1>10

(* ErrorsStayOpen, of the items, of what the panels remember and of what   *)
(* was shut.                                                               *)
ErrorsShown(its, bx, sh) ==
    \A k \in DOMAIN bx :
        LET i == ById(its, k[3])
        IN  k[1] # "group" /\ Panel(i) = "card" /\ Bad(i) =>
                Open(i, bx[k]) \/ i.id \in sh

(* An item that has ended stays as it is as long as it is there.           *)
Lasting(old, its) ==
    \A a \in DOMAIN old : \A b \in DOMAIN its :
        old[a].id = its[b].id /\ Ended(old[a]) => its[b] = old[a]

(* The inductive invariant of the panels: there are no others than those   *)
(* of the rows that are drawn.                                             *)
PanelInv ==
    /\ made \in Nat
    /\ ItemsOK(items, made)
    /\ DOMAIN box \subseteq Keys(Nodes(items))
    /\ ErrorsShown(items, box, shut)

(* What a panel remembers for the items that were drawn before, when other *)
(* items are drawn.                                                        *)
Kept(old, its, bx, k) ==
    LET i == ById(its, k[3])
    IN  IF k \notin DOMAIN bx THEN Settles(i, Mounts(i))
        ELSE IF Running(i) = Running(ById(old, k[3])) THEN bx[k]
        ELSE Settles(i, bx[k])

LEMMA ErrorsStillShown ==
    ASSUME NEW old, NEW m, ItemsOK(old, m),
           NEW its, NEW n, ItemsOK(its, n), Lasting(old, its),
           NEW bx, DOMAIN bx \subseteq Keys(Nodes(old)),
           NEW sh, ErrorsShown(old, bx, sh),
           NEW nb, DOMAIN nb = Keys(Nodes(its)),
           \A k \in DOMAIN nb : k[1] # "group" => nb[k] = Kept(old, its, bx, k),
           NEW ns, ns = {id \in sh : \E j \in DOMAIN its :
                                         its[j].id = id /\ Ended(its[j])}
    PROVE  ErrorsShown(its, nb, ns)
<1> SUFFICES ASSUME NEW k \in DOMAIN nb, k[1] # "group",
                    Panel(ById(its, k[3])) = "card", Bad(ById(its, k[3]))
             PROVE  \/ Open(ById(its, k[3]), nb[k])
                    \/ ById(its, k[3]).id \in ns
  BY DEF ErrorsShown
<1>1. old \in Seq(StreamItems) /\ its \in Seq(StreamItems)
  BY DEF ItemsOK
<1>2. PICK j \in DOMAIN its : k[3] = its[j].id
  BY <1>1, KeyItem
<1> DEFINE i == its[j]
<1>3. ById(its, k[3]) = i
  BY <1>2, ByIdOf
<1> HIDE DEF i
<1>4. Panel(i) = "card" /\ Bad(i)
  BY <1>3
<1>5. ~Running(i) /\ Ended(i)
  BY <1>4 DEF Bad, Ended, Running, Active
<1>6. \A v : v = "auto" \/ v = "open" => Open(i, v)
  BY <1>4 DEF Open, ShellCard
<1>7. nb[k] = Kept(old, its, bx, k)
  OBVIOUS
<1>8. \A v : Settles(i, v) = "auto"
  BY <1>4, <1>5 DEF Settles
<1>9. CASE k \notin DOMAIN bx
  <2>1. nb[k] = Settles(i, Mounts(i))
    BY <1>3, <1>7, <1>9 DEF Kept
  <2> QED
    BY <1>3, <1>6, <1>8, <2>1
<1>10. CASE k \in DOMAIN bx
  <2>1. PICK o \in DOMAIN old : k[3] = old[o].id
    BY <1>1, <1>10, KeyItem
  <2>2. ById(old, k[3]) = old[o]
    BY <2>1, ByIdOf
  <2>3. CASE Running(i) = Running(old[o])
    <3>1. nb[k] = bx[k]
      BY <1>3, <1>7, <1>10, <2>2, <2>3 DEF Kept
    <3>2. Ended(old[o])
      BY <1>5, <2>3 DEF Ended
    <3>3. old[o] = i
      BY <1>2, <2>1, <3>2 DEF Lasting, i
    <3>4. Open(i, bx[k]) \/ i.id \in sh
      BY <1>4, <1>10, <2>2, <3>3 DEF ErrorsShown
    <3>5. i.id \in sh => i.id \in ns
      BY <1>5 DEF i
    <3> QED
      BY <1>3, <3>1, <3>4, <3>5
  <2>4. CASE Running(i) # Running(old[o])
    <3>1. nb[k] = Settles(i, bx[k])
      BY <1>3, <1>7, <1>10, <2>2, <2>4 DEF Kept
    <3> QED
      BY <1>3, <1>6, <1>8, <3>1
  <2> QED
    BY <2>3, <2>4
<1> QED
  BY <1>9, <1>10

LEMMA NoItems ==
    ASSUME NEW m, NEW old
    PROVE  ItemsOK(<<>>, m) /\ Lasting(old, <<>>)
<1>1. <<>> \in Seq(StreamItems) /\ DOMAIN <<>> = {}
  OBVIOUS
<1> QED
  BY <1>1 DEF ItemsOK, Lasting

(* What is drawn again keeps the invariant, if the items are in order and  *)
(* those that had ended are as they were.                                  *)
LEMMA RenderKeepsPanels ==
    ASSUME PanelInv, made' \in Nat,
           NEW its, ItemsOK(its, made'), Lasting(items, its),
           NEW tn, NEW s, NEW base, Render(tn, its, s, base)
    PROVE  PanelInv'
<1>1. items' = its \/ items' = <<>>
  BY DEF Render
<1>2. box' = IF here' THEN Boxes(items') ELSE <<>>
  BY DEF Render
<1>3. shut' = {id \in shut : \E j \in DOMAIN items' :
                                items'[j].id = id /\ Ended(items'[j])}
  BY DEF Render
<1>4. PICK new : new = items'
  OBVIOUS
<1>5. ItemsOK(new, made') /\ Lasting(items, new)
  BY <1>1, <1>4, NoItems
<1>6. CASE here'
  <2>1. box' = Boxes(new)
    BY <1>2, <1>4, <1>6
  <2>2. DOMAIN box' = Keys(Nodes(new))
    BY <2>1 DEF Boxes
  <2>3. ASSUME NEW k \in DOMAIN box', k[1] # "group"
        PROVE  box'[k] = Kept(items, new, box, k)
    BY <2>1, <2>2, <2>3 DEF Boxes, Kept
  <2>4. ErrorsShown(new, box', shut')
    BY <1>3, <1>4, <1>5, <2>2, <2>3, ErrorsStillShown DEF PanelInv
  <2> QED
    BY <1>4, <1>5, <2>2, <2>4 DEF PanelInv
<1>7. CASE ~here'
  <2>1. box' = <<>> /\ DOMAIN <<>> = {}
    BY <1>2, <1>7
  <2> QED
    BY <1>4, <1>5, <2>1 DEF PanelInv, ErrorsShown
<1> QED
  BY <1>6, <1>7

LEMMA ItemIds ==
    ASSUME NEW its, NEW m, ItemsOK(its, m), NEW j \in DOMAIN its
    PROVE  its[j] \in StreamItems /\ its[j].id \in Nat /\ its[j].id <= m
<1>1. its \in Seq(StreamItems)
  BY DEF ItemsOK
<1>2. its[j] \in StreamItems
  BY <1>1
<1> QED
  BY <1>2 DEF ItemsOK, StreamItems

(* What the operations of the store leave of the items.                    *)
LEMMA ItemsStay ==
    ASSUME NEW its, NEW m \in Nat, ItemsOK(its, m), NEW n \in Nat, m <= n
    PROVE  ItemsOK(its, n) /\ Lasting(its, its)
<1>1. \A j \in DOMAIN its : its[j].id \in Nat /\ its[j].id <= m
  BY ItemIds
<1>2. \A j \in DOMAIN its : its[j].id <= n
  BY <1>1
<1>3. Lasting(its, its)
  BY DEF ItemsOK, Lasting
<1> QED
  BY <1>2, <1>3 DEF ItemsOK

LEMMA ItemAdded ==
    ASSUME NEW its, NEW m \in Nat, ItemsOK(its, m),
           NEW x \in StreamItems, x.id = m + 1
    PROVE  ItemsOK(Append(its, x), m + 1) /\ Lasting(its, Append(its, x))
<1> DEFINE new == Append(its, x)
<1>1. its \in Seq(StreamItems)
  BY DEF ItemsOK
<1>2. /\ new \in Seq(StreamItems) /\ DOMAIN new = 1..Len(its) + 1
      /\ DOMAIN its = 1..Len(its) /\ Len(its) \in Nat
      /\ new[Len(its) + 1] = x /\ \A j \in DOMAIN its : new[j] = its[j]
  BY <1>1
<1> HIDE DEF new
<1>3. \A j \in DOMAIN its : its[j].id \in Nat /\ its[j].id <= m /\ its[j].id # m + 1
  BY ItemIds
<1>4. \A j \in DOMAIN new : \/ j \in DOMAIN its /\ new[j] = its[j]
                            \/ j = Len(its) + 1 /\ new[j] = x
  BY <1>2
<1>5. \A j \in DOMAIN new : new[j].id <= m + 1
  BY <1>3, <1>4
<1>6. \A j, k \in DOMAIN new : new[j].id = new[k].id => j = k
  BY <1>3, <1>4 DEF ItemsOK
<1>7. Lasting(its, new)
  BY <1>3, <1>4 DEF ItemsOK, Lasting
<1> QED
  BY <1>2, <1>5, <1>6, <1>7 DEF ItemsOK, new

LEMMA ItemDiscarded ==
    ASSUME NEW its, NEW m \in Nat, ItemsOK(its, m), NEW id
    PROVE  ItemsOK(Discard(its, id), m) /\ Lasting(its, Discard(its, id))
<1>1. CASE ~\E n \in DOMAIN its : its[n].id = id
  BY <1>1, ItemsStay DEF Discard
<1>2. CASE \E n \in DOMAIN its : its[n].id = id
  <2> DEFINE L == Len(its)
             i == Place(its, id)
             l == SubSeq(its, 1, i - 1)
             r == SubSeq(its, i + 1, L)
             new == l \o r
  <2>1. its \in Seq(StreamItems) /\ L \in Nat /\ DOMAIN its = 1..L
        /\ \A j \in 1..L : its[j] \in StreamItems
    BY DEF ItemsOK
  <2>2. i \in 1..L
    BY <1>2, <2>1 DEF Place
  <2>3. Discard(its, id) = new
    BY <1>2 DEF Discard, RemoveAt
  <2> HIDE DEF i, L
  <2>4. l \in Seq(StreamItems) /\ Len(l) = i - 1 /\ \A j \in 1..i - 1 : l[j] = its[j]
    <3>1. 1 \in Int /\ i - 1 \in Int /\ \A j \in 1..i - 1 : its[j] \in StreamItems
      BY <2>1, <2>2
    <3>2. /\ l \in Seq(StreamItems)
          /\ Len(l) = IF 1 <= i - 1 THEN i - 1 - 1 + 1 ELSE 0
          /\ \A j \in 1..i - 1 - 1 + 1 : l[j] = its[1 + j - 1]
      BY <3>1, SubSeqProperties
    <3> HIDE DEF l
    <3> QED
      BY <2>1, <2>2, <3>2
  <2>5. r \in Seq(StreamItems) /\ Len(r) = L - i
        /\ \A j \in 1..L - i : r[j] = its[i + j]
    <3>1. i + 1 \in Int /\ L \in Int /\ \A j \in i + 1..L : its[j] \in StreamItems
      BY <2>1, <2>2
    <3>2. /\ r \in Seq(StreamItems)
          /\ Len(r) = IF i + 1 <= L THEN L - (i + 1) + 1 ELSE 0
          /\ \A j \in 1..L - (i + 1) + 1 : r[j] = its[i + 1 + j - 1]
      BY <3>1, SubSeqProperties
    <3> HIDE DEF r
    <3> QED
      <4>1. \A j \in 1..L - i : j \in 1..L - (i + 1) + 1 /\ i + 1 + j - 1 = i + j
        BY <2>1, <2>2
      <4>2. Len(r) = L - i
        BY <2>1, <2>2, <3>2
      <4> QED
        BY <3>2, <4>1, <4>2
  <2> HIDE DEF l, r
  <2>6. /\ new \in Seq(StreamItems) /\ Len(new) = Len(l) + Len(r)
        /\ \A j \in 1..Len(l) + Len(r) :
              new[j] = IF j <= Len(l) THEN l[j] ELSE r[j - Len(l)]
    BY <2>4, <2>5, ConcatProperties
  <2>7. DOMAIN new = 1..L - 1
    <3>1. Len(l) + Len(r) = L - 1
      BY <2>1, <2>2, <2>4, <2>5
    <3> QED
      BY <2>6, <3>1, LenProperties
  <2> HIDE DEF new
  <2> DEFINE From(j) == IF j < i THEN j ELSE j + 1
  <2>8. ASSUME NEW j \in DOMAIN new
        PROVE  new[j] = its[From(j)] /\ From(j) \in DOMAIN its /\ j \in Int
    <3>1. j \in 1..L - 1 /\ j \in 1..Len(l) + Len(r)
      BY <2>1, <2>2, <2>4, <2>5, <2>7
    <3>2. CASE j < i
      <4>1. j \in 1..i - 1 /\ j <= Len(l) /\ j \in 1..L
        BY <2>1, <2>2, <2>4, <3>1, <3>2
      <4> QED
        BY <2>1, <2>4, <2>6, <3>1, <3>2, <4>1
    <3>3. CASE ~(j < i)
      <4>1. /\ ~(j <= Len(l)) /\ j - Len(l) \in 1..L - i
            /\ i + (j - Len(l)) = j + 1 /\ j + 1 \in 1..L
        BY <2>1, <2>2, <2>4, <3>1, <3>3
      <4>2. new[j] = r[j - Len(l)] /\ r[j - Len(l)] = its[j + 1]
        BY <2>5, <2>6, <3>1, <4>1
      <4> QED
        BY <2>1, <3>1, <3>3, <4>1, <4>2
    <3> QED
      BY <3>2, <3>3
  <2>9. ASSUME NEW j \in DOMAIN new, NEW k \in DOMAIN new, From(j) = From(k)
        PROVE  j = k
    <3>1. j \in Int /\ k \in Int /\ i \in Int
      BY <2>2, <2>8
    <3> QED
      BY ONLY <2>9, <3>1
  <2>10. \A j, k \in DOMAIN new : new[j].id = new[k].id => j = k
    BY <2>8, <2>9 DEF ItemsOK
  <2>11. \A j \in DOMAIN new : new[j].id <= m
    BY <2>8 DEF ItemsOK
  <2>12. Lasting(its, new)
    BY <2>8 DEF ItemsOK, Lasting
  <2> QED
    BY <2>3, <2>6, <2>10, <2>11, <2>12 DEF ItemsOK
<1> QED
  BY <1>1, <1>2

LEMMA ItemEnded ==
    ASSUME NEW its, NEW m \in Nat, ItemsOK(its, m), NEW st \in Statuses,
           NEW n \in DOMAIN its, Running(its[n])
    PROVE  /\ ItemsOK([its EXCEPT ![n].status = st], m)
           /\ Lasting(its, [its EXCEPT ![n].status = st])
<1> DEFINE x == [its[n] EXCEPT !.status = st]
           new == [its EXCEPT ![n] = x]
<1>1. its \in Seq(StreamItems)
  BY DEF ItemsOK
<1>2. its[n] \in StreamItems
  BY <1>1
<1>3. x \in StreamItems /\ x.id = its[n].id
  BY <1>2 DEF StreamItems
<1> HIDE DEF x
<1>4. new \in Seq(StreamItems) /\ DOMAIN new = DOMAIN its
      /\ \A j \in DOMAIN its : new[j] = IF j = n THEN x ELSE its[j]
  BY <1>1, <1>3
<1>5. [its EXCEPT ![n].status = st] = new
  BY DEF x
<1> HIDE DEF new
<1>6. \A j \in DOMAIN its : new[j].id = its[j].id
  BY <1>3, <1>4
<1>7. ItemsOK(new, m)
  BY <1>4, <1>6 DEF ItemsOK
<1>8. Lasting(its, new)
  BY <1>4, <1>6 DEF ItemsOK, Lasting, Ended
<1> QED
  BY <1>5, <1>7, <1>8

LEMMA SeededIsSequence ==
    ASSUME NEW h \in {Seeded(g) : g \in Histories}
    PROVE  Len(h) \in Nat /\ DOMAIN h = 1..Len(h)
<1>1. PICK g \in Histories : h = Seeded(g)
  OBVIOUS
<1>2. g \in Seq(STRING)
  BY StreamAssumption
<1>3. CASE g = <<>>
  BY <1>1, <1>3 DEF Seeded
<1>4. CASE g # <<>>
  BY <1>1, <1>2, <1>4 DEF Seeded
<1> QED
  BY <1>3, <1>4

LEMMA HistoryShown ==
    ASSUME NEW its, NEW m \in Nat, ItemsOK(its, m),
           NEW h \in {Seeded(g) : g \in Histories},
           NEW new, new = [j \in DOMAIN h |-> NewItem(m + j, HistoryBlock(h[j]),
                                                     "other", "completed")]
    PROVE  ItemsOK(new, m + Len(h)) /\ Lasting(its, new)
<1>1. DOMAIN h = 1..Len(h) /\ Len(h) \in Nat
  BY SeededIsSequence
<1>2. ASSUME NEW j \in 1..Len(h)
      PROVE  new[j] \in StreamItems /\ new[j].id = m + j
  <2>1. HistoryBlock(h[j]) \in StreamTypes
    BY DEF HistoryBlock, StreamTypes
  <2>2. new[j] = NewItem(m + j, HistoryBlock(h[j]), "other", "completed")
    BY <1>1
  <2> QED
    BY <1>1, <2>1, <2>2 DEF NewItem, StreamItems, ToolKinds, Statuses
<1>3. DOMAIN new = 1..Len(h)
  BY <1>1
<1>4. new \in Seq(StreamItems)
  BY <1>1, <1>2, <1>3
<1>5. \A j \in DOMAIN its : its[j].id \in Nat /\ its[j].id <= m
  BY ItemIds
<1>6. ItemsOK(new, m + Len(h))
  BY <1>1, <1>2, <1>3, <1>4 DEF ItemsOK
<1>7. Lasting(its, new)
  BY <1>2, <1>3, <1>5 DEF Lasting
<1> QED
  BY <1>6, <1>7

-----------------------------------------------------------------------------
LEMMA PanelInit == StreamInit => PanelInv
<1> SUFFICES ASSUME StreamInit PROVE PanelInv
  OBVIOUS
<1>1. made \in Nat /\ ItemsOK(items, made)
  BY NoItems DEF StreamInit
<1>2. box = <<>> /\ DOMAIN <<>> = {}
  BY DEF StreamInit
<1> QED
  BY <1>1, <1>2 DEF PanelInv, ErrorsShown

(* A step that draws the same items again.                                 *)
LEMMA SameItems ==
    ASSUME PanelInv, made' = made,
           NEW tn, NEW s, NEW base, Render(tn, items, s, base)
    PROVE  PanelInv'
<1>1. made \in Nat /\ ItemsOK(items, made) /\ made' \in Nat /\ made <= made
  BY DEF PanelInv
<1>2. ItemsOK(items, made') /\ Lasting(items, items)
  BY <1>1, ItemsStay
<1> QED
  BY <1>1, <1>2, RenderKeepsPanels

(* A step that draws nothing at first.                                     *)
LEMMA ItemsGone ==
    ASSUME PanelInv, made' = made,
           NEW tn, NEW s, NEW base, Render(tn, <<>>, s, base)
    PROVE  PanelInv'
<1>1. made' \in Nat /\ ItemsOK(<<>>, made') /\ Lasting(items, <<>>)
  BY NoItems DEF PanelInv
<1> QED
  BY <1>1, RenderKeepsPanels

(* A step that adds an item.                                               *)
LEMMA OneMoreItem ==
    ASSUME PanelInv, made' = made + 1,
           NEW type \in StreamTypes, NEW kind \in ToolKinds, NEW st \in Statuses,
           NEW tn, NEW s, NEW base,
           Render(tn, Append(items, NewItem(made', type, kind, st)), s, base)
    PROVE  PanelInv'
<1> DEFINE x == NewItem(made + 1, type, kind, st)
<1>1. made \in Nat /\ ItemsOK(items, made) /\ made' \in Nat
  BY DEF PanelInv
<1>2. x \in StreamItems /\ x.id = made + 1
  BY <1>1 DEF NewItem, StreamItems
<1>3. NewItem(made', type, kind, st) = x
  OBVIOUS
<1> HIDE DEF x
<1>4. ItemsOK(Append(items, x), made') /\ Lasting(items, Append(items, x))
  BY <1>1, <1>2, ItemAdded
<1>5. Render(tn, Append(items, x), s, base)
  BY <1>3
<1> QED
  BY <1>1, <1>4, <1>5, RenderKeepsPanels

LEMMA StatusKnown == \A raw : StatusOf(raw) \in Statuses
  BY DEF StatusOf, Statuses

LEMMA SendKeepsPanels == PanelInv /\ Send => PanelInv'
<1> SUFFICES ASSUME PanelInv, Send PROVE PanelInv'
  OBVIOUS
<1>1. made' = made + 1
  BY DEF Send
<1>2. \E tn, s, base : Render(tn, Append(items, NewItem(made', "user-message",
                                          "other", "completed")), s, base)
  BY DEF Send
<1>3. "user-message" \in StreamTypes /\ "other" \in ToolKinds
      /\ "completed" \in Statuses
  BY DEF StreamTypes, ToolKinds, Statuses
<1> QED
  BY <1>1, <1>2, <1>3, OneMoreItem

LEMMA ArrivesKeepsPanels == PanelInv /\ ItemArrives => PanelInv'
<1> SUFFICES ASSUME PanelInv, ItemArrives PROVE PanelInv'
  OBVIOUS
<1>1. made' = made + 1
  BY DEF ItemArrives
<1>2. PICK a \in Arriving : \E status \in {"in_progress", "completed"} :
        Render(turn, Append(items, NewItem(made', BlockTypeOf(a[1]), a[2],
                                     status)), selected, loads)
  BY DEF ItemArrives
<1>3. PICK status \in {"in_progress", "completed"} :
        Render(turn, Append(items, NewItem(made', BlockTypeOf(a[1]), a[2],
                                     status)), selected, loads)
  BY <1>2
<1>4. BlockTypeOf(a[1]) \in StreamTypes /\ a[2] \in ToolKinds
      /\ status \in Statuses
  BY StreamAssumption DEF StreamTypes, Statuses, Active
<1> QED
  BY <1>1, <1>3, <1>4, OneMoreItem

LEMMA RefusedKeepsPanels == PanelInv /\ Refused => PanelInv'
<1> SUFFICES ASSUME PanelInv, Refused PROVE PanelInv'
  OBVIOUS
<1>1. made \in Nat /\ ItemsOK(items, made) /\ made' = made
  BY DEF PanelInv, Refused
<1> DEFINE new == Discard(items, sending)
<1>2. ItemsOK(new, made) /\ Lasting(items, new)
  BY <1>1, ItemDiscarded
<1>3. \E tn, s, base : Render(tn, new, s, base)
  BY DEF Refused
<1> HIDE DEF new
<1> QED
  BY <1>1, <1>2, <1>3, RenderKeepsPanels

LEMMA CompleteKeepsPanels == PanelInv /\ CompleteItem => PanelInv'
<1> SUFFICES ASSUME PanelInv, CompleteItem PROVE PanelInv'
  OBVIOUS
<1>1. made \in Nat /\ ItemsOK(items, made) /\ made' = made
  BY DEF PanelInv, CompleteItem
<1>2. PICK n \in DOMAIN items : \E status \in Endings :
        /\ Running(items[n])
        /\ Render(turn, [items EXCEPT ![n].status = StatusOf(status)],
                  selected, loads)
  BY DEF CompleteItem
<1>3. PICK status \in Endings :
        /\ Running(items[n])
        /\ Render(turn, [items EXCEPT ![n].status = StatusOf(status)],
                  selected, loads)
  BY <1>2
<1> DEFINE st == StatusOf(status)
           new == [items EXCEPT ![n].status = st]
<1>4. st \in Statuses
  BY StatusKnown
<1> HIDE DEF st
<1>5. ItemsOK(new, made) /\ Lasting(items, new)
  BY <1>1, <1>3, <1>4, ItemEnded
<1>6. Render(turn, new, selected, loads)
  BY <1>3 DEF st
<1> HIDE DEF new
<1> QED
  BY <1>1, <1>5, <1>6, RenderKeepsPanels

LEMMA LoadedKeepsPanels == PanelInv /\ Loaded => PanelInv'
<1> SUFFICES ASSUME PanelInv, Loaded PROVE PanelInv'
  OBVIOUS
<1>1. made \in Nat /\ ItemsOK(items, made)
  BY DEF PanelInv
<1>2. PICK n \in DOMAIN loads :
        \/ /\ made' = made
           /\ Render(turn, items, selected, RemoveAt(loads, n))
        \/ \E h \in {Seeded(g) : g \in Histories} :
            /\ made + Len(h) <= MaxItems /\ made' = made + Len(h)
            /\ Render(Loading(loads[n]),
                      [m \in DOMAIN h |-> NewItem(made + m, HistoryBlock(h[m]),
                                                 "other", "completed")],
                      selected, RemoveAt(loads, n))
  BY DEF Loaded
<1>3. CASE made' = made /\ Render(turn, items, selected, RemoveAt(loads, n))
  BY <1>3, SameItems
<1>4. ASSUME NEW h \in {Seeded(g) : g \in Histories}, made' = made + Len(h),
             Render(Loading(loads[n]),
                    [m \in DOMAIN h |-> NewItem(made + m, HistoryBlock(h[m]),
                                               "other", "completed")],
                    selected, RemoveAt(loads, n))
      PROVE  PanelInv'
  <2> DEFINE new == [m \in DOMAIN h |-> NewItem(made + m, HistoryBlock(h[m]),
                                               "other", "completed")]
  <2>1. ItemsOK(new, made + Len(h)) /\ Lasting(items, new)
    BY <1>1, HistoryShown
  <2>2. made' \in Nat
    BY <1>1, <1>4, SeededIsSequence
  <2>3. Render(Loading(loads[n]), new, selected, RemoveAt(loads, n))
    BY <1>4
  <2> HIDE DEF new
  <2> QED
    BY <1>4, <2>1, <2>2, <2>3, RenderKeepsPanels
<1> QED
  BY <1>2, <1>3, <1>4

(* Steps of the store and of the user after which nothing is new.          *)
LEMMA OthersKeepPanels ==
    /\ PanelInv /\ NoSession => PanelInv'
    /\ PanelInv /\ BeginTurn => PanelInv'
    /\ PanelInv /\ FinishTurn => PanelInv'
    /\ PanelInv /\ PickSession => PanelInv'
    /\ PanelInv /\ NewTask => PanelInv'
    /\ PanelInv /\ Projectless => PanelInv'
    /\ PanelInv /\ Leave => PanelInv'
    /\ PanelInv /\ Return => PanelInv'
<1>1. ASSUME PanelInv, NoSession PROVE PanelInv'
  BY <1>1, SameItems DEF NoSession
<1>2. ASSUME PanelInv, BeginTurn PROVE PanelInv'
  <2>1. made' = made
    BY <1>2 DEF BeginTurn
  <2>2. \/ \E tn, s, base : Render(tn, items, s, base)
        \/ \E tn, s, base : Render(tn, <<>>, s, base)
    BY <1>2 DEF BeginTurn
  <2> QED
    BY <1>2, <2>1, <2>2, SameItems, ItemsGone
<1>3. ASSUME PanelInv, FinishTurn PROVE PanelInv'
  BY <1>3, SameItems DEF FinishTurn
<1>4. ASSUME PanelInv, PickSession PROVE PanelInv'
  <2>1. made' = made
    BY <1>4 DEF PickSession
  <2>2. \/ \E tn, s, base : Render(tn, items, s, base)
        \/ \E tn, s, base : Render(tn, <<>>, s, base)
    BY <1>4 DEF PickSession
  <2> QED
    BY <1>4, <2>1, <2>2, SameItems, ItemsGone
<1>5. ASSUME PanelInv, NewTask PROVE PanelInv'
  BY <1>5, ItemsGone DEF NewTask
<1>6. ASSUME PanelInv, Projectless PROVE PanelInv'
  BY <1>6, SameItems DEF Projectless
<1>7. ASSUME PanelInv, Leave PROVE PanelInv'
  BY <1>7, SameItems DEF Leave
<1>8. ASSUME PanelInv, Return PROVE PanelInv'
  BY <1>8, SameItems DEF Return
<1> QED
  BY <1>1, <1>2, <1>3, <1>4, <1>5, <1>6, <1>7, <1>8

(* A click on a group changes no panel of an item.                         *)
LEMMA GroupKeepsPanels == PanelInv /\ ToggleGroup => PanelInv'
<1> SUFFICES ASSUME PanelInv, ToggleGroup PROVE PanelInv'
  OBVIOUS
<1>1. items' = items /\ made' = made /\ shut' = shut
  BY DEF ToggleGroup, Clicking
<1>2. PICK k \in DOMAIN box :
         k[1] = "group"
         /\ box' = [box EXCEPT ![k] = IF @ = "open" THEN "shut" ELSE "open"]
  BY DEF ToggleGroup
<1>3. DOMAIN box' = DOMAIN box
      /\ \A l \in DOMAIN box : l[1] # "group" => box'[l] = box[l]
  BY <1>2
<1> QED
  BY <1>1, <1>3 DEF PanelInv, ErrorsShown

(* A click on a panel changes that panel, and no other is of its item.     *)
LEMMA PanelKeepsPanels == PanelInv /\ TogglePanel => PanelInv'
<1> SUFFICES ASSUME PanelInv, TogglePanel PROVE PanelInv'
  OBVIOUS
<1>1. items' = items /\ made' = made
  BY DEF TogglePanel, Clicking
<1>2. PICK k \in DOMAIN box :
        LET i == ById(items, k[3])
        IN  /\ k[1] # "group"
            /\ box' = [box EXCEPT ![k] = IF Open(i, @) THEN "shut" ELSE "open"]
            /\ shut' = IF Open(i, box[k]) /\ Ended(i) THEN shut \cup {i.id}
                       ELSE shut \ {i.id}
  BY DEF TogglePanel
<1>3. PICK its : its = items
  OBVIOUS
<1>4. ItemsOK(its, made) /\ its \in Seq(StreamItems)
  BY <1>3 DEF PanelInv, ItemsOK
<1>5. DOMAIN box \subseteq Keys(Nodes(its))
  BY <1>3 DEF PanelInv
<1>6. PICK j \in DOMAIN its : k[3] = its[j].id
  BY <1>4, <1>5, KeyItem
<1> DEFINE i == its[j]
<1>7. ById(its, k[3]) = i
  BY <1>4, <1>6, ByIdOf
<1> HIDE DEF i
<1>8. /\ box' = [box EXCEPT ![k] = IF Open(i, @) THEN "shut" ELSE "open"]
      /\ shut' = IF Open(i, box[k]) /\ Ended(i) THEN shut \cup {i.id}
                 ELSE shut \ {i.id}
  BY <1>2, <1>3, <1>7
<1>9. DOMAIN box' = DOMAIN box
  BY <1>8
<1>10. ASSUME NEW l \in DOMAIN box, l[1] # "group",
              Panel(ById(its, l[3])) = "card", Bad(ById(its, l[3]))
       PROVE  Open(ById(its, l[3]), box'[l]) \/ ById(its, l[3]).id \in shut'
  <2>1. CASE l = k
    <3>1. Panel(i) = "card" /\ Bad(i)
      BY <1>7, <1>10, <2>1
    <3>2. Ended(i)
      BY <3>1 DEF Bad, Ended, Running, Active
    <3>3. Open(i, "open")
      BY <3>1 DEF Open, ShellCard
    <3>4. CASE Open(i, box[k])
      BY <1>7, <1>8, <2>1, <3>2, <3>4
    <3>5. CASE ~Open(i, box[k])
      BY <1>7, <1>8, <2>1, <3>3, <3>5
    <3> QED
      BY <3>4, <3>5
  <2>2. CASE l # k
    <3>1. box'[l] = box[l]
      BY <1>8, <2>2
    <3>2. PICK o \in DOMAIN its : l[3] = its[o].id
      BY <1>4, <1>5, KeyItem
    <3>3. ById(its, l[3]) = its[o]
      BY <1>4, <3>2, ByIdOf
    <3>4. l[3] # k[3]
      BY <1>2, <1>4, <1>5, <1>10, <2>2, PanelsApart
    <3>5. its[o].id # i.id
      BY <1>6, <3>2, <3>4 DEF i
    <3>6. Open(its[o], box[l]) \/ its[o].id \in shut
      BY <1>3, <1>10, <3>3 DEF PanelInv, ErrorsShown
    <3>7. its[o].id \in shut => its[o].id \in shut'
      BY <1>8, <3>5
    <3> QED
      BY <3>1, <3>3, <3>6, <3>7
  <2> QED
    BY <2>1, <2>2
<1>11. ErrorsShown(its, box', shut')
  BY <1>9, <1>10 DEF ErrorsShown
<1> QED
  BY <1>1, <1>3, <1>5, <1>9, <1>11 DEF PanelInv

LEMMA PanelStep == PanelInv /\ [StreamNext]_streamVars => PanelInv'
<1> SUFFICES ASSUME PanelInv, [StreamNext]_streamVars PROVE PanelInv'
  OBVIOUS
<1>1. CASE UNCHANGED <<items, box, made, shut>>
  BY <1>1 DEF PanelInv
<1>2. CASE Accepted
  BY <1>1, <1>2 DEF Accepted, ghosts
<1>3. CASE ToggleFold
  BY <1>1, <1>3 DEF ToggleFold, Clicking
<1>4. CASE UNCHANGED streamVars
  BY <1>1, <1>4 DEF streamVars, ghosts
<1> QED
  BY <1>2, <1>3, <1>4, SendKeepsPanels, ArrivesKeepsPanels, RefusedKeepsPanels,
     CompleteKeepsPanels, LoadedKeepsPanels, OthersKeepPanels,
     GroupKeepsPanels, PanelKeepsPanels DEF StreamNext

(* The panels are those of the rows that are drawn, in every behaviour.    *)
LEMMA PanelsAreDrawn == StreamSpec => []PanelInv
<1> QED
  BY PanelInit, PanelStep, PTL DEF StreamSpec

(* groupProcessItems: each item is drawn once and in its place, and the    *)
(* rows are the longest runs of finished tools of a kind.                  *)
THEOREM RowsStayRuns == StreamSpec => []NodesAreRuns
<1>1. PanelInv => NodesAreRuns
  <2> SUFFICES ASSUME PanelInv PROVE NodesAreRuns
    OBVIOUS
  <2>1. PICK its : its = items
    OBVIOUS
  <2>2. its \in Seq(StreamItems)
    BY <2>1 DEF PanelInv, ItemsOK
  <2> QED
    BY <2>1, <2>2, RowsAreRuns DEF NodesAreRuns, Together
<1> QED
  BY <1>1, PanelsAreDrawn, PTL

(* The card of a command that failed or was denied is open unless the user *)
(* shut it after that, whatever was clicked, folded, left or reloaded.     *)
THEOREM ErrorsAlwaysOpen == StreamSpec => []ErrorsStayOpen
<1>1. PanelInv => ErrorsStayOpen
  BY DEF PanelInv, ErrorsShown, ErrorsStayOpen
<1> QED
  BY <1>1, PanelsAreDrawn, PTL

-----------------------------------------------------------------------------
(* The fold.  What is folded is a turn that does not run, in view.         *)
FoldInv == collapsed => here /\ ~turn.active

LEMMA FoldRender ==
    ASSUME FoldInv, NEW tn, NEW its, NEW s, NEW base, Render(tn, its, s, base)
    PROVE  FoldInv'
<1>1. collapsed' = (here' /\ Fold(tn)) /\ (turn' = Loading(s) \/ turn' = tn)
  BY DEF Render
<1>2. ~Loading(s).active
  BY DEF Loading, EmptyTurn
<1>3. Fold(tn) => ~tn.active
  BY DEF Fold, FoldInv
<1> QED
  BY <1>1, <1>2, <1>3 DEF FoldInv

LEMMA FoldStep == FoldInv /\ [StreamNext]_streamVars => FoldInv'
<1> SUFFICES ASSUME FoldInv, [StreamNext]_streamVars PROVE FoldInv'
  OBVIOUS
<1>1. CASE \E tn, its, s, base : Render(tn, its, s, base)
  BY <1>1, FoldRender
<1>2. CASE UNCHANGED <<collapsed, here, turn>>
  BY <1>2 DEF FoldInv
<1>3. CASE ToggleFold
  <2>1. here' = here /\ turn' = turn /\ here
    BY <1>3 DEF ToggleFold, Clicking
  <2>2. ~turn.active
    BY <1>3 DEF ToggleFold, HeaderState
  <2> QED
    BY <2>1, <2>2 DEF FoldInv
<1>4. ASSUME StreamNext PROVE \/ \E tn, its, s, base : Render(tn, its, s, base)
                              \/ UNCHANGED <<collapsed, here, turn>>
                              \/ ToggleFold
  <2>1. CASE Send
    BY <2>1 DEF Send
  <2>2. CASE NoSession \/ FinishTurn \/ Projectless \/ Leave \/ Return \/ NewTask
    BY <2>2 DEF NoSession, FinishTurn, Projectless, Leave, Return, NewTask
  <2>3. CASE Refused
    BY <2>3 DEF Refused
  <2>4. CASE BeginTurn
    BY <2>4 DEF BeginTurn
  <2>5. CASE ItemArrives
    BY <2>5 DEF ItemArrives
  <2>6. CASE CompleteItem
    BY <2>6 DEF CompleteItem
  <2>7. CASE Loaded
    BY <2>7 DEF Loaded
  <2>8. CASE PickSession
    BY <2>8 DEF PickSession
  <2>9. CASE Accepted
    BY <2>9 DEF Accepted
  <2>10. CASE ToggleGroup \/ TogglePanel
    BY <2>10 DEF ToggleGroup, TogglePanel, Clicking
  <2> QED
    BY <1>4, <2>1, <2>2, <2>3, <2>4, <2>5, <2>6, <2>7, <2>8, <2>9, <2>10
    DEF StreamNext
<1>5. CASE UNCHANGED streamVars
  BY <1>2, <1>5 DEF streamVars
<1> QED
  BY <1>1, <1>2, <1>3, <1>4, <1>5

(* Nothing of a turn that is running is folded away.                       *)
THEOREM LiveTurnStaysUnfolded == StreamSpec => []LiveTurnIsUnfolded
<1>1. StreamInit => FoldInv
  BY DEF StreamInit, FoldInv
<1>2. FoldInv => LiveTurnIsUnfolded
  BY DEF FoldInv, LiveTurnIsUnfolded, Visible
<1> QED
  BY <1>1, <1>2, FoldStep, PTL DEF StreamSpec
=============================================================================
