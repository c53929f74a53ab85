--------------------------- MODULE TurnStoreProofs ---------------------------
(***************************************************************************)
(* What TurnStore promises, for every number of sessions, turns, reloads   *)
(* and moves.                                                              *)
(*                                                                         *)
(* BoundToSelection is inductive by itself: only Render changes the store  *)
(* or the selection, and a task that leaves the store unbound has changed  *)
(* what the effect of HomeView depends on, which then reloads.             *)
(*                                                                         *)
(* The other invariants need to know what is on its way to the store.      *)
(* IInv is made of four parts:                                             *)
(*   Types    the variables, and that only a turn a thread has accepted    *)
(*            says anything;                                               *)
(*   Queue    whatever opens a turn or an item comes before what closes    *)
(*            it, and item/completed carries the whole answer;             *)
(*   Live     a turn that is shown as running is bound to a session, and   *)
(*            RunningIsReal;                                               *)
(*   Content  an answer on screen is whole, or its completion is on its    *)
(*            way, and an answer a reload brings is final and whole.       *)
(***************************************************************************)
EXTENDS TurnStore, TLAPS, SequenceTheorems, FiniteSetTheorems

(* A rendered task leaves the store bound to the selection.                *)
LEMMA RenderBinds ==
    ASSUME BoundToSelection, NEW tn, NEW s, NEW base, Render(tn, s, base)
    PROVE  BoundToSelection'
<1>1. CASE Reloads(tn, s) = 0
  <2>1. turn' = tn /\ selected' = s
    BY <1>1 DEF Render
  <2>2. CASE ~Stale(tn, s)
    BY <2>1, <2>2 DEF Stale, BoundToSelection
  <2>3. CASE Deps(tn, s) = Deps(turn, selected)
    <3>1. s = selected /\ tn.session = turn.session
      BY <2>3 DEF Deps
    <3> QED
      BY <2>1, <3>1 DEF BoundToSelection
  <2> QED
    BY <1>1, <2>2, <2>3 DEF Reloads
<1>2. CASE Reloads(tn, s) # 0
  <2>1. turn' = Loading(s) /\ selected' = s
    BY <1>2 DEF Render
  <2> QED
    BY <2>1 DEF BoundToSelection, Loading, EmptyTurn
<1> QED
  BY <1>1, <1>2

(* One step per kind of action: most leave the store and the selection     *)
(* alone, the tasks of the UI render.                                      *)
LEMMA BoundStep ==
    ASSUME BoundToSelection, [Next]_vars
    PROVE  BoundToSelection'
<1> DEFINE Alone == UNCHANGED <<turn, selected>>
           Task  == \E tn, s, base : Render(tn, s, base)
<1>1. Alone => BoundToSelection'
  BY DEF BoundToSelection
<1>2. Task => BoundToSelection'
  BY RenderBinds
<1>3. CASE UNCHANGED vars
  BY <1>1, <1>3 DEF vars
<1>4. ASSUME NEW u \in Turns, KernelStep(u)
      PROVE  Alone
  BY <1>4 DEF KernelStep
<1>5. ASSUME NEW l \in BagToSet(loads), Reload(l)
      PROVE  Alone \/ Task
  BY <1>5 DEF Reload, ReadSession, ReadTimeline, Load, LoadFails
<1>6. CASE Notify
  <2>1. Task
    BY <1>6 DEF Notify
  <2> QED
    BY <2>1, <1>2
<1>7. ASSUME Sending
      PROVE  Alone \/ Task
  BY <1>7 DEF Sending, Submit, OpenSession, Opened, Accepted, Refused, Sent,
              NotSent
<1>8. ASSUME Moving
      PROVE  Alone \/ Task
  BY <1>8 DEF Moving, Pick, NewTask, Projectless, Delete, Deleted
<1> QED
  BY <1>1, <1>2, <1>3, <1>4, <1>5, <1>6, <1>7, <1>8 DEF Next

(* Whatever arrives in whatever order, the store ends each task bound to   *)
(* the selected session: nothing the user sees as the selected session's   *)
(* conversation is kept under another one's id.                            *)
THEOREM BoundAlways == Spec => []BoundToSelection
<1>1. Init => BoundToSelection
  BY DEF Init, BoundToSelection
<1>2. BoundToSelection /\ [Next]_vars => BoundToSelection'
  BY BoundStep
<1> QED
  BY <1>1, <1>2, PTL DEF Spec

-----------------------------------------------------------------------------
(* The kernel, as the UI hears it.                                         *)

Notes == Relevant \cup Unmodelled \cup {"final_answer", "error"}

Protocol ==
    /\ of \in [Turns -> Threads \cup {None}]
    /\ said \in [Turns -> Seq(Notes)]
    /\ floor \in Turns \cup {None}
    /\ result \in [Turns -> Kernel!Results \cup {"none"}]
    /\ \A u \in Turns : /\ Deltas(u) \in 0 .. MaxChunks
                        /\ said[u] # <<>> => of[u] \in Threads
                        /\ floor = u => said[u] # <<>>

(* The answer of a turn does not grow any more.                            *)
Final(u) == result[u] # "none" \/ Kernel!Said(u, "item/completed")

(* What closes the item or the turn a notification belongs to.             *)
Opening   == {"turn/started", "item/started", "delta"}
Closes(k) == IF k = "turn/started" THEN "turn/completed" ELSE "item/completed"

Wave(u, s) == [i \in DOMAIN s |-> [kind |-> s[i], turn |-> u, text |-> Deltas(u)]]

Holds(s, k) == \E i \in DOMAIN s : s[i] = k

News(u, s) ==
    /\ events' = events \o Wave(u, s)
    /\ s # <<>> => of[u] \in Threads
    /\ \A k \in Relevant : Kernel!Said(u, k)' <=> Kernel!Said(u, k) \/ Holds(s, k)
    /\ \A k \in Opening : Holds(s, k) => ~Kernel!Said(u, Closes(k))'
    /\ Deltas(u)' # Deltas(u) => ~Holds(s, "item/completed") /\ ~Final(u)
    /\ Final(u) => Final(u)'
    /\ \A w \in Turns \ {u} : said'[w] = said[w] /\ result'[w] = result[w]

(* The deltas of a turn can be counted.                                    *)
LEMMA DeltasBound ==
    ASSUME NEW s \in Seq(Notes)
    PROVE  Cardinality({i \in DOMAIN s : s[i] = "delta"}) \in Nat
<1>1. DOMAIN s = 1 .. Len(s) /\ Len(s) \in Nat
  OBVIOUS
<1>2. IsFiniteSet(1 .. Len(s))
  BY <1>1, FS_Interval
<1>3. {i \in DOMAIN s : s[i] = "delta"} \in SUBSET (1 .. Len(s))
  BY <1>1
<1> QED
  BY <1>2, <1>3, FS_Subset, FS_CardinalityType

(* What a step of the kernel says, in terms of what it emits.              *)
LEMMA SayFacts ==
    ASSUME Protocol, NEW u \in Turns, NEW s \in Seq(Notes),
           said' = [said EXCEPT ![u] = @ \o s]
    PROVE  /\ said' \in [Turns -> Seq(Notes)]
           /\ said'[u] = said[u] \o s
           /\ \A k : Kernel!Said(u, k)' <=> Kernel!Said(u, k) \/ Holds(s, k)
           /\ \A w \in Turns \ {u} : said'[w] = said[w]
           /\ ~Holds(s, "delta") => Deltas(u)' = Deltas(u)
           /\ SubSeq(said'[u], Len(said[u]) + 1, Len(said'[u])) = s
<1> DEFINE a == said[u]
<1>1. a \in Seq(Notes) /\ said'[u] = a \o s
  BY DEF Protocol
<1>2. /\ a \o s \in Seq(Notes)
      /\ Len(a \o s) = Len(a) + Len(s)
      /\ \A i \in 1 .. Len(a) + Len(s) :
             (a \o s)[i] = IF i <= Len(a) THEN a[i] ELSE s[i - Len(a)]
      /\ DOMAIN a = 1 .. Len(a) /\ DOMAIN s = 1 .. Len(s)
      /\ DOMAIN (a \o s) = 1 .. Len(a) + Len(s)
      /\ Len(a) \in Nat /\ Len(s) \in Nat
  BY <1>1, ConcatProperties, LenProperties
<1>3. said' \in [Turns -> Seq(Notes)]
  BY <1>1, <1>2 DEF Protocol
<1> HIDE DEF a
<1>4. ASSUME NEW k
      PROVE  Kernel!Said(u, k)' <=> Kernel!Said(u, k) \/ Holds(s, k)
  <2>1. Kernel!Said(u, k)' <=> Holds(a \o s, k)
    BY <1>1 DEF Kernel!Said, Holds
  <2>2. Kernel!Said(u, k) <=> Holds(a, k)
    BY DEF Kernel!Said, Holds, a
  <2>3. Holds(a \o s, k) => Holds(a, k) \/ Holds(s, k)
    BY <1>2 DEF Holds
  <2>4. Holds(a, k) => Holds(a \o s, k)
    BY <1>2 DEF Holds
  <2>5. Holds(s, k) => Holds(a \o s, k)
    <3> SUFFICES ASSUME NEW j \in DOMAIN s, s[j] = k
                 PROVE  Holds(a \o s, k)
      BY DEF Holds
    <3>1. Len(a) + j \in 1 .. Len(a) + Len(s) /\ (a \o s)[Len(a) + j] = k
      BY <1>2
    <3> QED
      BY <1>2, <3>1 DEF Holds
  <2> QED
    BY <2>1, <2>2, <2>3, <2>4, <2>5
<1>5. ASSUME ~Holds(s, "delta")
      PROVE  Deltas(u)' = Deltas(u)
  <2>1. {i \in DOMAIN (a \o s) : (a \o s)[i] = "delta"}
        = {i \in DOMAIN a : a[i] = "delta"}
    BY <1>2, <1>5 DEF Holds
  <2> QED
    BY <1>1, <2>1 DEF Deltas, a
<1>6. SubSeq(a \o s, Len(a) + 1, Len(a \o s)) = s
  <2>1. CASE s = <<>>
    BY <1>1, <1>2, <2>1, SubSeqEmpty
  <2>2. CASE s # <<>>
    <3>1. Len(s) >= 1 /\ Len(s) \in Nat
      BY <1>2, <2>2, EmptySeq
    <3>2. SubSeq(a \o s, Len(a) + 1, Len(a) + Len(s))
          = SubSeq(s, Len(a) + 1 - Len(a), Len(a) + Len(s) - Len(a))
      BY <1>1, <1>2, <3>1, SubSeqOfConcat2
    <3>3. Len(a) + 1 - Len(a) = 1 /\ Len(a) + Len(s) - Len(a) = Len(s)
      BY <1>2
    <3>4. SubSeq(s, 1, Len(s)) = s
      BY SubSeqFull
    <3> QED
      BY <1>2, <3>2, <3>3, <3>4
  <2> QED
    BY <2>1, <2>2
<1>7. \A w \in Turns \ {u} : said'[w] = said[w]
  BY DEF Protocol
<1> QED
  BY <1>1, <1>3, <1>4, <1>5, <1>6, <1>7 DEF a

(* A step of the kernel puts on their way the notifications the UI hears.  *)
LEMMA KernelEvents ==
    ASSUME Protocol, NEW u \in Turns, KernelStep(u), NEW s \in Seq(Notes),
           said' = [said EXCEPT ![u] = @ \o s]
    PROVE  events' = events \o Wave(u, Heard(s))
<1>1. SubSeq(said'[u], Len(said[u]) + 1, Len(said'[u])) = s
  BY SayFacts
<1> QED
  BY <1>1 DEF KernelStep, Wave

(* Every other step says what `s` lists, and changes no other turn.        *)
LEMMA NewsOf ==
    ASSUME Protocol, NEW u \in Turns, KernelStep(u), NEW s \in Seq(Notes),
           Kernel!Say(u, s), NEW h \in Seq(Relevant), h = Heard(s),
           \A k \in Relevant : Holds(s, k) <=> Holds(h, k),
           h # <<>> => of[u] \in Threads,
           \A k \in Opening : Holds(h, k) => ~Kernel!Said(u, Closes(k))',
           Final(u) => Final(u)' /\ ~Holds(s, "delta"),
           ~Holds(s, "delta") \/ ~Holds(s, "item/completed"),
           \A w \in Turns \ {u} : result'[w] = result[w]
    PROVE  News(u, h)
<1>1. said' = [said EXCEPT ![u] = @ \o s]
  BY DEF Kernel!Say
<1>2. events' = events \o Wave(u, h)
  BY <1>1, KernelEvents
<1> DEFINE Grows == \A k : Kernel!Said(u, k)'
                              <=> Kernel!Said(u, k) \/ Holds(s, k)
<1>3. /\ Grows
      /\ \A w \in Turns \ {u} : said'[w] = said[w]
      /\ ~Holds(s, "delta") => Deltas(u)' = Deltas(u)
  BY <1>1, SayFacts
<1>4. "item/completed" \in Relevant
  BY DEF Relevant
<1>5. Deltas(u)' # Deltas(u) => ~Holds(h, "item/completed") /\ ~Final(u)
  BY <1>3, <1>4
<1>6. \A k \in Relevant : Kernel!Said(u, k)' <=> Kernel!Said(u, k) \/ Holds(h, k)
  BY <1>3
<1> QED
  BY <1>2, <1>3, <1>5, <1>6 DEF News

(* What short sequences hold.                                              *)
LEMMA HoldsOne == \A a, k : Holds(<<a>>, k) <=> k = a
<1>1. \A a : DOMAIN <<a>> = {1} /\ <<a>>[1] = a
  OBVIOUS
<1> QED
  BY <1>1 DEF Holds

(* and of two notifications,                                               *)
LEMMA HoldsTwo == \A a, b, k : Holds(<<a, b>>, k) <=> k = a \/ k = b
<1>1. \A a, b : /\ DOMAIN <<a, b>> = {1, 2}
                /\ <<a, b>>[1] = a /\ <<a, b>>[2] = b
  OBVIOUS
<1> QED
  BY <1>1 DEF Holds

(* and of none.                                                            *)
LEMMA HoldsNone == \A k : ~Holds(<<>>, k)
<1>1. DOMAIN <<>> = {}
  OBVIOUS
<1> QED
  BY <1>1 DEF Holds

(* What the UI hears of the sequences the kernel says.                     *)
LEMMA HeardOf ==
    /\ Heard(<<>>) = <<>>
    /\ \A k \in Relevant : Heard(<<k>>) = <<k>>
    /\ \A k, w : k \in Relevant => Heard(<<k, w>>) = <<k, w>>
    /\ \A k : k \notin Relevant => Heard(<<k>>) = <<>>
    /\ \A k, w : k \notin Relevant => Heard(<<k, w>>) = <<w>>
<1>1. \A k, w : /\ <<k>> # <<>> /\ Head(<<k>>) = k /\ Tail(<<k>>) = <<>>
                /\ <<k, w>> # <<>> /\ Head(<<k, w>>) = k
                /\ Tail(<<k, w>>) = <<w>>
  OBVIOUS
<1> QED
  BY <1>1 DEF Heard

(* Two notifications in a row.                                             *)
LEMMA Joined ==
    ASSUME NEW k \in Notes, NEW w \in Notes
    PROVE  <<k>> \o <<w>> = <<k, w>>
<1>1. /\ <<k>> \in Seq(Notes) /\ <<w>> \in Seq(Notes) /\ <<k, w>> \in Seq(Notes)
      /\ Len(<<k>>) = 1 /\ Len(<<w>>) = 1 /\ Len(<<k, w>>) = 2
      /\ <<k>>[1] = k /\ <<w>>[1] = w /\ <<k, w>>[1] = k /\ <<k, w>>[2] = w
  OBVIOUS
<1>2. /\ <<k>> \o <<w>> \in Seq(Notes) /\ Len(<<k>> \o <<w>>) = 2
      /\ (<<k>> \o <<w>>)[1] = k /\ (<<k>> \o <<w>>)[2] = w
  BY <1>1, ConcatProperties
<1> DEFINE a == <<k>> \o <<w>>
           b == <<k, w>>
<1> HIDE DEF a, b
<1>3. a \in Seq(Notes) /\ b \in Seq(Notes) /\ Len(a) = 2 /\ Len(b) = 2
  BY <1>1, <1>2 DEF a, b
<1>4. \A i \in 1 .. 2 : a[i] = b[i]
  BY <1>1, <1>2 DEF a, b
<1>5. a = b
  BY <1>3, <1>4, SeqEqual
<1> QED
  BY <1>5 DEF a, b

(* Every step of the kernel is such news, one case per action.             *)
LEMMA KernelNews ==
    ASSUME Protocol, NEW u \in Turns, KernelStep(u)
    PROVE  \E h \in Seq(Relevant) : News(u, h)
<1> USE HoldsOne, HoldsTwo, HoldsNone
<1> DEFINE Says(s, h) ==
        /\ s \in Seq(Notes)
        /\ h \in Seq(Relevant) /\ h = Heard(s)
        /\ \A k \in Relevant : Holds(s, k) <=> Holds(h, k)
        /\ ~Holds(s, "delta") \/ ~Holds(s, "item/completed")
<1>1. /\ Says(<<>>, <<>>)
      /\ Says(<<"turn/started", "item/started">>,
              <<"turn/started", "item/started">>)
      /\ Says(<<"error", "turn/completed">>, <<"turn/completed">>)
      /\ Says(<<"delta">>, <<"delta">>)
      /\ Says(<<"item/completed">>, <<"item/completed">>)
      /\ Says(<<"final_answer", "item/completed">>, <<"item/completed">>)
      /\ Says(<<"error">>, <<>>)
      /\ Says(<<"turn/completed">>, <<"turn/completed">>)
  BY HeardOf DEF Relevant, Notes, Unmodelled
<1> HIDE DEF Says
<1>2. ASSUME NEW s, NEW h, Says(s, h), Kernel!Say(u, s),
             h # <<>> => of[u] \in Threads,
             \A k \in Opening : Holds(h, k) => ~Kernel!Said(u, Closes(k))',
             Final(u) => Final(u)' /\ ~Holds(s, "delta"),
             \A w \in Turns \ {u} : result'[w] = result[w]
      PROVE  \E x \in Seq(Relevant) : News(u, x)
  BY <1>2, NewsOf DEF Says
<1>3. ASSUME NEW s \in Seq(Notes), Kernel!Say(u, s)
      PROVE  \A k : Kernel!Said(u, k)' <=> Kernel!Said(u, k) \/ Holds(s, k)
  BY <1>3, SayFacts DEF Kernel!Say
<1>4. CASE Kernel!Announce(u)
  <2> DEFINE s == <<"turn/started", "item/started">>
  <2>1. Says(s, s) /\ Kernel!Say(u, s) /\ result' = result /\ of[u] \in Threads
    BY <1>1, <1>4 DEF Kernel!Announce, Protocol
  <2>2. \A k : ~Kernel!Said(u, k)
    <3>1. said[u] = <<>>
      BY <1>4 DEF Kernel!Announce
    <3> QED
      BY <3>1 DEF Kernel!Said
  <2>3. \A k \in Opening : ~Kernel!Said(u, Closes(k))'
    <3>1. s \in Seq(Notes)
      BY <2>1 DEF Says
    <3>2. \A k : Kernel!Said(u, k)' <=> Holds(s, k)
      BY <1>3, <2>1, <2>2, <3>1
    <3>3. \A k \in Opening : Closes(k) \in {"turn/completed", "item/completed"}
      BY DEF Closes, Opening
    <3> QED
      BY <3>2, <3>3
  <2>4. Final(u) => Final(u)'
    BY <2>1, <2>2 DEF Final
  <2> HIDE DEF s
  <2>5. ~Holds(s, "delta")
    BY DEF s
  <2> QED
    BY <1>2, <2>1, <2>3, <2>4, <2>5
<1>5. CASE Kernel!Abandon(u)
  <2> DEFINE s == <<"error", "turn/completed">>
             h == <<"turn/completed">>
  <2>1. /\ Says(s, h) /\ Kernel!Say(u, s) /\ of[u] \in Threads
        /\ \A w \in Turns \ {u} : result'[w] = result[w]
        /\ Final(u)'
    BY <1>1, <1>5 DEF Kernel!Abandon, Protocol, Final
  <2>2. \A k \in Opening : ~Holds(h, k)
    BY DEF Opening
  <2>3. ~Holds(s, "delta")
    OBVIOUS
  <2> HIDE DEF s, h
  <2> QED
    BY <1>2, <2>1, <2>2, <2>3
<1>6. ASSUME UNCHANGED said, \A w \in Turns \ {u} : result'[w] = result[w],
             Final(u) => Final(u)'
      PROVE  \E x \in Seq(Relevant) : News(u, x)
  <2>1. Says(<<>>, <<>>)
    BY <1>1
  <2>2. Kernel!Say(u, <<>>)
    <3>1. \A s \in Seq(Notes) : s \o <<>> = s
      BY ConcatEmptySeq
    <3> QED
      BY <1>6, <3>1 DEF Protocol, Kernel!Say
  <2> QED
    BY <1>2, <1>6, <2>1, <2>2
<1>7. CASE Kernel!TakeFloor(u) \/ Kernel!LeaveFloor(u)
  BY <1>6, <1>7 DEF Kernel!TakeFloor, Kernel!LeaveFloor, Final, Kernel!Said
<1>8. ASSUME NEW r \in Kernel!Results, Kernel!Decide(u, r)
      PROVE  \E x \in Seq(Relevant) : News(u, x)
  BY <1>6, <1>8 DEF Kernel!Decide, Kernel!Results, Final, Protocol
<1>9. ASSUME NEW k \in Kernel!Streamed, Kernel!Stream(u, k)
      PROVE  \E x \in Seq(Relevant) : News(u, x)
  <2>1. CASE k = "reasoning"
    <3>1. <<k>> \in Seq(Notes) /\ Kernel!Say(u, <<k>>)
      BY <1>9, <2>1 DEF Kernel!Stream, Notes, Unmodelled
    <3>2. Kernel!Said(u, "reasoning")'
      BY <1>3, <2>1, <3>1
    <3> QED
      BY <3>2 DEF KernelStep, Unmodelled
  <2>2. CASE k = "delta"
    <3> DEFINE s == <<"delta">>
    <3>1. Says(s, s) /\ Kernel!Say(u, s) /\ result' = result /\ of[u] \in Threads
      BY <1>1, <1>9, <2>2 DEF Kernel!Stream, Protocol
    <3>2. ~Kernel!Said(u, "item/completed") /\ ~Final(u)
      BY <1>9 DEF Kernel!Stream, Final
    <3>3. \A j \in Opening : Holds(s, j) => ~Kernel!Said(u, Closes(j))'
      BY <1>3, <3>1, <3>2 DEF Says, Closes, Opening
    <3> HIDE DEF s
    <3> QED
      BY <1>2, <3>1, <3>2, <3>3
  <2> QED
    BY <1>9, <2>1, <2>2 DEF Kernel!Streamed
<1>10. ASSUME NEW s, NEW h, Says(s, h), Kernel!Say(u, s), result' = result,
              floor = u, h \in {<<>>, <<"item/completed">>, <<"turn/completed">>},
              ~Holds(s, "delta")
       PROVE  \E x \in Seq(Relevant) : News(u, x)
  <2>1. of[u] \in Threads
    BY <1>10 DEF Protocol
  <2>2. \A k \in Opening : ~Holds(h, k)
    BY <1>10 DEF Opening
  <2>3. Final(u) => Final(u)'
    BY <1>3, <1>10 DEF Final, Says
  <2> QED
    BY <1>2, <1>10, <2>1, <2>2, <2>3
<1>11. ASSUME NEW marked \in BOOLEAN, NEW warned \in BOOLEAN,
              Kernel!CloseItem(u, marked, warned)
       PROVE  \E x \in Seq(Relevant) : News(u, x)
  <2>1. CASE warned
    <3> DEFINE a == IF marked THEN <<"final_answer">> ELSE <<>>
               b == a \o <<"item/completed">>
               s == b \o <<"warning">>
    <3>0. {"final_answer", "item/completed", "warning"} \subseteq Notes
      BY DEF Notes, Relevant, Unmodelled
    <3>1. /\ a \in Seq(Notes) /\ <<"item/completed">> \in Seq(Notes)
          /\ <<"warning">> \in Seq(Notes) /\ Len(<<"warning">>) = 1
          /\ <<"warning">>[1] = "warning"
      BY <3>0
    <3>2. b \in Seq(Notes)
      BY <3>1, ConcatProperties
    <3> HIDE DEF b
    <3>3. s \in Seq(Notes) /\ Holds(s, "warning")
      <4>1. /\ s \in Seq(Notes) /\ Len(s) = Len(b) + 1 /\ Len(b) \in Nat
            /\ \A i \in 1 .. Len(b) + 1 : s[i] =
                   IF i <= Len(b) THEN b[i] ELSE <<"warning">>[i - Len(b)]
        BY <3>1, <3>2, ConcatProperties, LenProperties
      <4>2. Len(b) + 1 \in DOMAIN s /\ s[Len(b) + 1] = "warning"
        BY <3>1, <4>1
      <4> QED
        BY <4>1, <4>2 DEF Holds
    <3>4. Kernel!Say(u, s)
      BY <1>11, <2>1 DEF Kernel!CloseItem, b
    <3>5. Kernel!Said(u, "warning")'
      BY <1>3, <3>3, <3>4
    <3> QED
      BY <3>5 DEF KernelStep, Unmodelled
  <2>2. CASE ~warned /\ marked
    <3>1. <<"final_answer">> \o <<"item/completed">> \o <<>>
          = <<"final_answer", "item/completed">>
      <4>1. \A k, w \in Notes : <<k>> \o <<w>> = <<k, w>>
        BY Joined
      <4>2. <<"final_answer", "item/completed">> \in Seq(Notes)
        BY DEF Notes, Relevant
      <4>3. {"final_answer", "item/completed"} \subseteq Notes
        BY DEF Notes, Relevant
      <4> QED
        BY <4>1, <4>2, <4>3, ConcatEmptySeq
    <3>2. /\ Kernel!Say(u, <<"final_answer", "item/completed">>)
          /\ result' = result /\ floor = u
      BY <1>11, <2>2, <3>1 DEF Kernel!CloseItem
    <3> QED
      BY <1>1, <1>10, <3>2
  <2>3. CASE ~warned /\ ~marked
    <3>1. <<>> \o <<"item/completed">> \o <<>> = <<"item/completed">>
      <4>1. <<"item/completed">> \in Seq(Notes)
        BY DEF Notes, Relevant
      <4> QED
        BY <4>1, ConcatEmptySeq
    <3>2. /\ Kernel!Say(u, <<"item/completed">>)
          /\ result' = result /\ floor = u
      BY <1>11, <2>3, <3>1 DEF Kernel!CloseItem
    <3> QED
      BY <1>1, <1>10, <3>2
  <2> QED
    BY <2>1, <2>2, <2>3
<1>12. CASE Kernel!Explain(u)
  BY <1>1, <1>10, <1>12 DEF Kernel!Explain
<1>13. CASE Kernel!End(u)
  BY <1>1, <1>10, <1>13 DEF Kernel!End
<1> QED
  BY <1>4, <1>5, <1>7, <1>8, <1>9, <1>11, <1>12, <1>13
     DEF KernelStep, Kernel!Proceed

(* Whatever a step of the kernel emits, the types of its variables stay.   *)
LEMMA ProtocolKept ==
    ASSUME Protocol, NEW u \in Turns, NEW s \in Seq(Notes), Kernel!Say(u, s),
           s # <<>> => of[u] \in Threads, Deltas(u)' <= MaxChunks, of' = of,
           result' \in [Turns -> Kernel!Results \cup {"none"}],
           \/ floor' = floor
           \/ floor' = None
           \/ floor' = u /\ said[u] # <<>>
    PROVE  Protocol'
<1>1. /\ said' \in [Turns -> Seq(Notes)]
      /\ said'[u] = said[u] \o s
      /\ \A w \in Turns \ {u} : said'[w] = said[w]
  BY SayFacts DEF Kernel!Say
<1>2. said[u] \in Seq(Notes) /\ said'[u] \in Seq(Notes)
  BY <1>1 DEF Protocol
<1>3. said[u] # <<>> => said'[u] # <<>>
  BY <1>1, <1>2, ConcatEqualIffEmpty, ConcatProperties, EmptySeq
<1>4. said'[u] # <<>> => of[u] \in Threads
  <2>1. s = <<>> => said'[u] = said[u]
    BY <1>1, <1>2, ConcatEmptySeq
  <2> QED
    BY <2>1 DEF Protocol
<1>5. \A w \in Turns : Deltas(w)' \in 0 .. MaxChunks
  <2>1. Deltas(u)' \in Nat
    BY <1>2, DeltasBound DEF Deltas
  <2>2. MaxChunks \in Nat
    BY UIAssumption
  <2>3. Deltas(u)' \in 0 .. MaxChunks
    BY <2>1, <2>2
  <2>4. \A w \in Turns \ {u} : Deltas(w)' = Deltas(w)
    BY <1>1 DEF Deltas
  <2> QED
    BY <2>3, <2>4 DEF Protocol
<1>6. floor' \in Turns \cup {None}
  BY DEF Protocol
<1>7. \A w \in Turns : floor' = w => said'[w] # <<>>
  <2>1. None \notin Turns
    BY UIAssumption
  <2> QED
    BY <1>1, <1>3, <2>1 DEF Protocol
<1>8. \A w \in Turns : said'[w] # <<>> => of'[w] \in Threads
  BY <1>1, <1>4 DEF Protocol
<1> QED
  BY <1>1, <1>5, <1>6, <1>7, <1>8 DEF Protocol

(* Every step of the kernel keeps the types, one case per action.          *)
LEMMA ProtocolKernel ==
    ASSUME Protocol, NEW u \in Turns, KernelStep(u)
    PROVE  Protocol'
<1>1. Deltas(u)' <= MaxChunks
  BY DEF KernelStep
<1>2. /\ Relevant \subseteq Notes /\ Unmodelled \subseteq Notes
      /\ {"final_answer", "error"} \subseteq Notes
      /\ Kernel!Streamed \subseteq Notes
  BY DEF Notes, Relevant, Unmodelled, Kernel!Streamed
<1>3. \A k \in Notes : <<k>> \in Seq(Notes)
  OBVIOUS
<1>4. {"turn/started", "item/started", "item/completed", "turn/completed"} \subseteq Relevant
  BY DEF Relevant
<1>5. /\ <<"turn/started", "item/started">> \in Seq(Notes)
      /\ <<"error", "turn/completed">> \in Seq(Notes)
  BY <1>2, <1>4
<1>6. floor = u => said[u] # <<>> /\ of[u] \in Threads
  BY DEF Protocol
<1>7. CASE Kernel!Announce(u)
  <2>1. of[u] \in Threads
    BY <1>7 DEF Kernel!Announce, Protocol
  <2> QED
    BY <1>1, <1>5, <1>7, <2>1, ProtocolKept DEF Kernel!Announce, Protocol
<1>8. CASE Kernel!Abandon(u)
  <2>1. result' \in [Turns -> Kernel!Results \cup {"none"}] /\ of[u] \in Threads
    BY <1>8 DEF Kernel!Abandon, Protocol, Kernel!Results
  <2> QED
    BY <1>1, <1>5, <1>8, <2>1, ProtocolKept DEF Kernel!Abandon
<1>9. ASSUME UNCHANGED <<of, said>>,
             result' \in [Turns -> Kernel!Results \cup {"none"}],
             \/ floor' = floor
             \/ floor' = None
             \/ floor' = u /\ said[u] # <<>>
      PROVE  Protocol'
  <2>1. Kernel!Say(u, <<>>)
    <3>1. \A s \in Seq(Notes) : s \o <<>> = s
      BY ConcatEmptySeq
    <3> QED
      BY <1>9, <3>1 DEF Protocol, Kernel!Say
  <2>2. <<>> \in Seq(Notes)
    OBVIOUS
  <2> QED
    BY <1>1, <1>9, <2>1, <2>2, ProtocolKept
<1>10. CASE Kernel!TakeFloor(u) \/ Kernel!LeaveFloor(u)
  BY <1>9, <1>10 DEF Kernel!TakeFloor, Kernel!LeaveFloor, Protocol
<1>11. ASSUME NEW r \in Kernel!Results, Kernel!Decide(u, r)
       PROVE  Protocol'
  BY <1>9, <1>11 DEF Kernel!Decide, Protocol
<1>12. ASSUME NEW s \in Seq(Notes), Kernel!Say(u, s), floor = u,
              UNCHANGED <<of, floor, result>>
       PROVE  Protocol'
  BY <1>1, <1>6, <1>12, ProtocolKept DEF Protocol
<1>13. ASSUME NEW k \in Kernel!Streamed, Kernel!Stream(u, k)
       PROVE  Protocol'
  BY <1>2, <1>3, <1>12, <1>13 DEF Kernel!Stream
<1>14. ASSUME NEW marked \in BOOLEAN, NEW warned \in BOOLEAN,
              Kernel!CloseItem(u, marked, warned)
       PROVE  Protocol'
  <2> DEFINE a == IF marked THEN <<"final_answer">> ELSE <<>>
             b == <<"item/completed">>
             c == IF warned THEN <<"warning">> ELSE <<>>
  <2>1. {"final_answer", "item/completed", "warning"} \subseteq Notes
    BY DEF Notes, Relevant, Unmodelled
  <2>2. a \in Seq(Notes) /\ b \in Seq(Notes) /\ c \in Seq(Notes)
    BY <1>3, <2>1
  <2> HIDE DEF a, b, c
  <2>3. a \o b \o c \in Seq(Notes)
    BY <2>2, ConcatProperties
  <2>4. Kernel!Say(u, a \o b \o c) /\ floor = u /\ UNCHANGED <<of, floor, result>>
    BY <1>14 DEF Kernel!CloseItem, a, b, c
  <2> QED
    BY <1>12, <2>3, <2>4
<1>15. CASE Kernel!Explain(u) \/ Kernel!End(u)
  BY <1>2, <1>3, <1>4, <1>12, <1>15 DEF Kernel!Explain, Kernel!End
<1> QED
  BY <1>7, <1>8, <1>10, <1>11, <1>13, <1>14, <1>15
     DEF KernelStep, Kernel!Proceed

(* A message is accepted: only the new turn's thread is written.           *)
LEMMA ProtocolAccept ==
    ASSUME Protocol, NEW u \in Turns, NEW t \in Threads, Kernel!Accept(t, u)
    PROVE  Protocol'
<1>1. \A w \in Turns : Deltas(w)' = Deltas(w)
  BY DEF Kernel!Accept, Deltas
<1> QED
  BY <1>1 DEF Kernel!Accept, Protocol

-----------------------------------------------------------------------------

(* The reloads under way, with one taken out and others put in.            *)
LEMMA BagFacts ==
    ASSUME NEW B, IsABag(B), NEW l, NEW x, NEW n \in Nat
    PROVE  /\ IsABag(B (-) SetToBag({l}))
           /\ BagToSet(B (-) SetToBag({l})) \subseteq BagToSet(B)
           /\ IsABag(B (+) SetToBag({x}))
           /\ BagToSet(B (+) SetToBag({x})) = BagToSet(B) \cup {x}
           /\ IsABag(B (+) Bagged(x, n))
           /\ BagToSet(B (+) Bagged(x, n))
              = IF n = 0 THEN BagToSet(B) ELSE BagToSet(B) \cup {x}
<1>1. /\ IsABag(B (-) SetToBag({l}))
      /\ BagToSet(B (-) SetToBag({l})) \subseteq BagToSet(B)
  BY DEF IsABag, BagToSet, SetToBag, (-)
<1>2. ASSUME NEW m \in Nat, m # 0
      PROVE  /\ IsABag(B (+) [y \in {x} |-> m])
             /\ BagToSet(B (+) [y \in {x} |-> m]) = BagToSet(B) \cup {x}
  BY <1>2 DEF IsABag, BagToSet, (+)
<1>3. /\ IsABag(B (+) SetToBag({x}))
      /\ BagToSet(B (+) SetToBag({x})) = BagToSet(B) \cup {x}
  BY DEF SetToBag, IsABag, BagToSet, (+)
<1>4. CASE n = 0
  <2>1. Bagged(x, n) = EmptyBag /\ DOMAIN EmptyBag = {}
    BY <1>4 DEF Bagged, EmptyBag, SetToBag
  <2>2. IsABag(B (+) EmptyBag) /\ BagToSet(B (+) EmptyBag) = BagToSet(B)
    BY <2>1 DEF IsABag, BagToSet, (+)
  <2> QED
    BY <1>1, <1>3, <1>4, <2>1, <2>2
<1>5. CASE n # 0
  <2>1. Bagged(x, n) = [y \in {x} |-> n]
    BY <1>5 DEF Bagged
  <2> QED
    BY <1>1, <1>2, <1>3, <1>5, <2>1
<1> QED
  BY <1>4, <1>5

(* What a rendered task leaves behind.                                     *)
LEMMA RenderFacts ==
    ASSUME NEW tn, NEW s, NEW base, IsABag(base), Render(tn, s, base)
    PROVE  /\ selected' = s
           /\ turn' = tn \/ (turn' = Loading(s) /\ s # None)
           /\ IsABag(loads')
           /\ \A l \in BagToSet(loads') :
                  l \in BagToSet(base) \/ (l = Asked(s) /\ s # None)
<1> DEFINE n == Reloads(tn, s)
<1>1. n \in Nat /\ (n # 0 => s # None)
  BY DEF Reloads, Stale
<1>2. /\ selected' = s
      /\ turn' = IF n = 0 THEN tn ELSE Loading(s)
      /\ loads' = base (+) Bagged(Asked(s), n)
  BY DEF Render
<1> HIDE DEF n
<1>3. /\ IsABag(loads')
      /\ BagToSet(loads') = IF n = 0 THEN BagToSet(base)
                            ELSE BagToSet(base) \cup {Asked(s)}
  BY <1>1, <1>2, BagFacts
<1> QED
  BY <1>1, <1>2, <1>3

-----------------------------------------------------------------------------
(* Types, with the records spelt out.                                      *)

Notifications == [kind : Relevant, turn : Turns, text : 0 .. MaxChunks]
Turn  == [session : Threads \cup {None}, active : BOOLEAN, items : SUBSET Items]
Loads == [of : Threads, at : {"asked", "empty", "loaded", "failed"},
          items : SUBSET Items]
Sends == [at : {"idle", "opening", "opened", "sending", "accepted", "refused"},
          to : Threads \cup {None}, n : 0 .. MaxSends]

Types ==
    /\ Protocol
    /\ life \in [Threads -> {"absent", "open", "deleted"}]
    /\ events \in Seq(Notifications)
    /\ \A i \in DOMAIN events : of[events[i].turn] \in Threads
    /\ turn \in Turn
    /\ selected \in Threads \cup {None}
    /\ IsABag(loads)
    /\ \A l \in BagToSet(loads) : l \in Loads
    /\ send \in Sends
    /\ send.to \in IF send.at \in {"idle", "opening"} THEN {None} ELSE Threads
    /\ removal \in {"none", "reset", "keep"}

(* The records spelt out are those of the type invariant.                  *)
LEMMA TypesTypeOK == Types => TypeOK
  BY DEF Types, TypeOK, Notifications, Turn, Loads, Sends

(* The types hold at first.                                                *)
LEMMA TypesInit == Init => Types
<1> SUFFICES ASSUME Init PROVE Types
  OBVIOUS
<1>1. Protocol
  <2>1. \A u \in Turns : said[u] = <<>> /\ result[u] = "none"
    BY DEF Init, Kernel!Init
  <2>2. \A u \in Turns : Deltas(u) = 0
    <3>1. \A u \in Turns : {i \in DOMAIN said[u] : said[u][i] = "delta"} = {}
      BY <2>1
    <3> QED
      BY <3>1, FS_EmptySet DEF Deltas
  <2>3. MaxChunks \in Nat /\ None \notin Turns
    BY UIAssumption
  <2> QED
    BY <2>1, <2>2, <2>3 DEF Init, Kernel!Init, Protocol
<1>2. IsABag(loads) /\ BagToSet(loads) = {}
  BY DEF Init, EmptyBag, SetToBag, BagToSet, IsABag
<1>3. events = <<>> /\ DOMAIN events = {}
  BY DEF Init
<1>4. send \in Sends
  BY UIAssumption DEF Init, Sends
<1>5. turn \in Turn
  BY DEF Init, EmptyTurn, Turn
<1> QED
  BY <1>1, <1>2, <1>3, <1>4, <1>5 DEF Init, Types

(* The items a reload may bring.                                           *)
LEMMA TranscriptTyped ==
    ASSUME Types, NEW t \in Threads, NEW block \in {"user-message", "agentMessage"}
    PROVE  /\ Transcript(t, block) \subseteq Items
           /\ Preview(t) \in Items
           /\ \A i \in Transcript(t, block) : i.slot = "answer" =>
                  i.key \in Turns /\ Final(i.key) /\ i.text = Deltas(i.key)
<1>1. \A u \in Turns : Deltas(u) \in Nat
  BY UIAssumption DEF Types, Protocol
<1>2. \A u \in Turns : /\ Persisted(u) \in Nat
                       /\ Persisted(u) > 0 => Final(u) /\ Persisted(u) = Deltas(u)
  BY <1>1 DEF Persisted, Final
<1>3. ASSUME NEW i \in Transcript(t, block)
      PROVE  /\ i \in Items
             /\ i.slot = "answer" =>
                    i.key \in Turns /\ Final(i.key) /\ i.text = Deltas(i.key)
  <2>1. CASE \E u \in Turns : i = Item("user", u, t, block, 0)
    BY <2>1 DEF Item, Items
  <2>2. CASE \E u \in Turns : Persisted(u) > 0 /\
                 i = Item("answer", u, t, "agentMessage", Persisted(u))
    BY <1>2, <2>2 DEF Item, Items
  <2> QED
    BY <1>3, <2>1, <2>2 DEF Transcript
<1>4. 0 \in 0 .. MaxSends
  BY UIAssumption
<1> QED
  BY <1>3, <1>4 DEF Preview, Item, Items

(* A notification leaves a well-formed turn, and touches one answer.       *)
LEMMA ReduceTyped ==
    ASSUME Types, NEW e \in Notifications, of[e.turn] \in Threads
    PROVE  Reduce(e) \in Turn
<1> DEFINE u == e.turn
<1>1. u \in Turns /\ of[u] \in Threads /\ e.text \in Nat /\ e.kind \in Relevant
  BY UIAssumption DEF Notifications
<1>2. Text(u) \in Nat
  <2>1. CASE Answers(u) = {}
    BY <2>1 DEF Text
  <2>2. CASE Answers(u) # {}
    <3>1. (CHOOSE i \in Answers(u) : TRUE) \in Answers(u)
      BY <2>2
    <3>2. Answers(u) \subseteq Items
      BY DEF Answers, Shown, Types, Turn
    <3> QED
      BY <2>2, <3>1, <3>2 DEF Text, Items
  <2> QED
    BY <2>1, <2>2
<1>3. \A n \in Nat : Answer(u, n) \in Turn
  <2> SUFFICES ASSUME NEW n \in Nat PROVE Answer(u, n) \in Turn
    OBVIOUS
  <2>1. Item("answer", u, of[u], "agentMessage", n) \in Items
    BY <1>1 DEF Item, Items
  <2>2. Without(turn.items, "answer", u) \subseteq Items
    BY DEF Without, Types, Turn
  <2> QED
    BY <2>1, <2>2 DEF Answer, Types, Turn
<1>4. Started(u) \in Turn
  BY <1>1 DEF Started, Types, Turn
<1>5. Finished \in Turn
  BY DEF Finished, Types, Turn
<1>6. Text(u) + 1 \in Nat
  BY <1>2
<1> HIDE DEF u
<1>7. /\ e.kind = "turn/started" => Reduce(e) = Started(u)
      /\ e.kind = "item/started" => Reduce(e) = Answer(u, Text(u))
      /\ e.kind = "delta" => Reduce(e) = Answer(u, Text(u) + 1)
      /\ e.kind = "item/completed" => Reduce(e) = Answer(u, e.text)
      /\ e.kind = "turn/completed" => Reduce(e) = Finished
  BY DEF Reduce, u, Completed
<1> QED
  BY <1>1, <1>2, <1>3, <1>4, <1>5, <1>6, <1>7 DEF Relevant

ScreenTyped ==
    /\ turn \in Turn
    /\ selected \in Threads \cup {None}
    /\ IsABag(loads)
    /\ \A l \in BagToSet(loads) : l \in Loads

(* A task that renders a well-formed turn leaves the screen well-formed.   *)
LEMMA RenderTyped ==
    ASSUME NEW tn \in Turn, NEW s \in Threads \cup {None}, NEW base,
           IsABag(base), \A l \in BagToSet(base) : l \in Loads,
           Render(tn, s, base)
    PROVE  ScreenTyped'
<1>1. s # None => Loading(s) \in Turn /\ Asked(s) \in Loads
  BY DEF Loading, EmptyTurn, Asked, Turn, Loads
<1> QED
  BY <1>1, RenderFacts DEF ScreenTyped

(* What a step of the kernel says is put at the end of the queue.          *)
LEMMA QueueGrows ==
    ASSUME Types, NEW u \in Turns, NEW h \in Seq(Relevant), News(u, h)
    PROVE  /\ events' \in Seq(Notifications)
           /\ DOMAIN events' = 1 .. Len(events) + Len(h)
           /\ DOMAIN events = 1 .. Len(events) /\ DOMAIN h = 1 .. Len(h)
           /\ Len(events) \in Nat /\ Len(h) \in Nat
           /\ \A i \in DOMAIN events : events'[i] = events[i]
           /\ \A j \in DOMAIN h : events'[Len(events) + j]
                  = [kind |-> h[j], turn |-> u, text |-> Deltas(u)]
           /\ \A i \in DOMAIN events' : i \in DOMAIN events
                  \/ \E j \in DOMAIN h : i = Len(events) + j
<1>1. Wave(u, h) \in Seq(Notifications) /\ Len(Wave(u, h)) = Len(h)
  <2>1. Deltas(u) \in 0 .. MaxChunks
    BY DEF Types, Protocol
  <2>2. h \in [1 .. Len(h) -> Relevant] /\ Len(h) \in Nat
    BY LenProperties
  <2>3. Wave(u, h) \in [1 .. Len(h) -> Notifications]
    BY <2>1, <2>2 DEF Wave, Notifications
  <2> QED
    BY <2>2, <2>3
<1>2. events' = events \o Wave(u, h) /\ events \in Seq(Notifications)
  BY DEF News, Types
<1>3. /\ events' = events \o Wave(u, h) /\ events' \in Seq(Notifications)
      /\ Len(events') = Len(events) + Len(h)
      /\ \A i \in 1 .. Len(events) + Len(h) : events'[i] =
            IF i <= Len(events) THEN events[i] ELSE Wave(u, h)[i - Len(events)]
  <2> DEFINE w == Wave(u, h)
  <2>1. w \in Seq(Notifications) /\ Len(w) = Len(h)
    BY <1>1
  <2> HIDE DEF w
  <2>2. /\ events \o w \in Seq(Notifications)
        /\ Len(events \o w) = Len(events) + Len(w)
        /\ \A i \in 1 .. Len(events) + Len(w) : (events \o w)[i] =
              IF i <= Len(events) THEN events[i] ELSE w[i - Len(events)]
    BY <1>2, <2>1, ConcatProperties
  <2>3. events' = events \o w
    BY <1>2 DEF w
  <2>4. /\ events' \in Seq(Notifications)
        /\ Len(events') = Len(events) + Len(h)
        /\ \A i \in 1 .. Len(events) + Len(h) : events'[i] =
              IF i <= Len(events) THEN events[i] ELSE w[i - Len(events)]
    BY <2>1, <2>2, <2>3
  <2> QED
    BY <1>2, <2>4 DEF w
<1>4. /\ DOMAIN events = 1 .. Len(events) /\ DOMAIN h = 1 .. Len(h)
      /\ Len(events) \in Nat /\ Len(h) \in Nat
  BY <1>2, LenProperties
<1>5. DOMAIN events' = 1 .. Len(events) + Len(h)
  BY <1>3, <1>4, LenProperties
<1>6. ASSUME NEW j \in DOMAIN h
      PROVE  events'[Len(events) + j]
             = [kind |-> h[j], turn |-> u, text |-> Deltas(u)]
  <2>1. /\ Len(events) + j \in 1 .. Len(events) + Len(h)
        /\ ~(Len(events) + j <= Len(events))
        /\ Len(events) + j - Len(events) = j
    BY <1>4
  <2>2. events'[Len(events) + j] = Wave(u, h)[j]
    BY <1>3, <2>1
  <2> QED
    BY <2>2 DEF Wave
<1>7. \A i \in DOMAIN events : events'[i] = events[i]
  BY <1>3, <1>4
<1>8. ASSUME NEW i \in DOMAIN events', i \notin DOMAIN events
      PROVE  \E j \in DOMAIN h : i = Len(events) + j
  <2>1. i - Len(events) \in DOMAIN h /\ i = Len(events) + (i - Len(events))
    BY <1>4, <1>5, <1>8
  <2> QED
    BY <2>1
<1> QED
  BY <1>3, <1>4, <1>5, <1>6, <1>7, <1>8

(* The kernel emits well-formed notifications, of accepted turns.          *)
LEMMA TypesKernel ==
    ASSUME Types, NEW u \in Turns, KernelStep(u)
    PROVE  Types'
<1>1. Protocol'
  BY ProtocolKernel DEF Types
<1>2. PICK h \in Seq(Relevant) : News(u, h)
  BY KernelNews DEF Types
<1>4. /\ events' \in Seq(Notifications)
      /\ \A i \in DOMAIN events : events'[i] = events[i]
      /\ \A j \in DOMAIN h : events'[Len(events) + j].turn = u
      /\ \A i \in DOMAIN events' : i \in DOMAIN events
             \/ \E j \in DOMAIN h : i = Len(events) + j
  <2>1. \A j \in DOMAIN h : events'[Len(events) + j]
                               = [kind |-> h[j], turn |-> u, text |-> Deltas(u)]
    BY <1>2, QueueGrows
  <2>2. /\ events' \in Seq(Notifications)
        /\ \A i \in DOMAIN events : events'[i] = events[i]
        /\ \A i \in DOMAIN events' : i \in DOMAIN events
               \/ \E j \in DOMAIN h : i = Len(events) + j
    BY <1>2, QueueGrows
  <2>3. ASSUME NEW j \in DOMAIN h
        PROVE  events'[Len(events) + j].turn = u
    <3>1. events'[Len(events) + j] = [kind |-> h[j], turn |-> u, text |-> Deltas(u)]
      BY <2>1
    <3> HIDE DEF Deltas
    <3> QED
      BY <3>1
  <2> QED
    BY <2>2, <2>3
<1>5. of' = of
  BY DEF KernelStep, Kernel!Proceed, Kernel!Announce, Kernel!Abandon,
         Kernel!TakeFloor, Kernel!Stream, Kernel!CloseItem, Kernel!Decide,
         Kernel!Explain, Kernel!End, Kernel!LeaveFloor
<1>6. \A i \in DOMAIN events' : of[events'[i].turn] \in Threads
  <2> SUFFICES ASSUME NEW i \in DOMAIN events'
               PROVE  of[events'[i].turn] \in Threads
    OBVIOUS
  <2>1. CASE i \in DOMAIN events
    BY <1>4, <2>1 DEF Types
  <2>2. CASE \E j \in DOMAIN h : i = Len(events) + j
    <3>1. events'[i].turn = u /\ h # <<>>
      BY <1>4, <2>2
    <3> QED
      BY <1>2, <3>1 DEF News
  <2> QED
    BY <1>4, <2>1, <2>2
<1>7. UNCHANGED <<life, turn, selected, loads, send, removal>>
  BY DEF KernelStep
<1> QED
  BY <1>1, <1>4, <1>5, <1>6, <1>7 DEF Types

(* What the other steps leave of the kernel and the queue.                 *)
KernelAlone == UNCHANGED <<kernelVars, events>>

(* A task of the UI need only keep the variables of the UI well-formed.    *)
LEMMA TypesUI ==
    ASSUME Types, KernelAlone, ScreenTyped',
           life' \in [Threads -> {"absent", "open", "deleted"}],
           send' \in Sends,
           send'.to \in IF send'.at \in {"idle", "opening"} THEN {None} ELSE Threads,
           removal' \in {"none", "reset", "keep"}
    PROVE  Types'
<1>1. Protocol'
  BY DEF KernelAlone, kernelVars, Types, Protocol, Deltas
<1>2. /\ events' \in Seq(Notifications)
      /\ \A i \in DOMAIN events' : of'[events'[i].turn] \in Threads
  BY DEF KernelAlone, kernelVars, Types
<1> QED
  BY <1>1, <1>2 DEF Types, ScreenTyped

(* The steps of a reload keep the types.                                   *)
LEMMA TypesReload ==
    ASSUME Types, NEW l \in BagToSet(loads), Reload(l)
    PROVE  Types'
<1> USE DEF Types
<1>1. l \in Loads
  OBVIOUS
<1>2. /\ IsABag(loads (-) SetToBag({l}))
      /\ \A x \in BagToSet(loads (-) SetToBag({l})) : x \in Loads
  BY BagFacts
<1>3. ASSUME NEW x \in Loads, UNCHANGED <<turn, selected>>,
             loads' = (loads (-) SetToBag({l})) (+) SetToBag({x})
      PROVE  ScreenTyped'
  <2> DEFINE b == loads (-) SetToBag({l})
  <2>1. IsABag(b) /\ \A y \in BagToSet(b) : y \in Loads
    BY <1>2
  <2> HIDE DEF b
  <2>2. IsABag(b (+) SetToBag({x}))
        /\ BagToSet(b (+) SetToBag({x})) = BagToSet(b) \cup {x}
    BY <2>1, BagFacts
  <2> QED
    BY <1>3, <2>1, <2>2 DEF ScreenTyped, b
<1>4. CASE ReadSession(l)
  <2>1. \A items \in SUBSET Items : Answered(l, items) \in Loads
    BY <1>1 DEF Answered, Loads
  <2>2. l.of \in Threads /\ Transcript(l.of, AsMessage) \subseteq Items
    BY <1>1, TranscriptTyped DEF Loads, AsMessage
  <2>3. [l EXCEPT !.at = "failed"] \in Loads
    BY <1>1 DEF Loads
  <2>4. ScreenTyped'
    BY <1>3, <1>4, <2>1, <2>2, <2>3 DEF ReadSession
  <2> QED
    BY <1>4, <2>4, TypesUI DEF ReadSession, KernelAlone
<1>5. CASE ReadTimeline(l)
  <2>1. l.of \in Threads
    BY <1>1 DEF Loads
  <2>2. Transcript(l.of, AsRow) \subseteq Items /\ Preview(l.of) \in Items
    BY <2>1, TranscriptTyped DEF AsRow
  <2>3. \A items \in SUBSET Items :
            [l EXCEPT !.at = "loaded", !.items = items] \in Loads
    BY <1>1 DEF Loads
  <2>4. ScreenTyped'
    BY <1>3, <1>5, <2>2, <2>3 DEF ReadTimeline
  <2> QED
    BY <1>5, <2>4, TypesUI DEF ReadTimeline, KernelAlone
<1>6. CASE Load(l)
  <2>1. [Loading(l.of) EXCEPT !.items = l.items] \in Turn
    BY <1>1 DEF Loading, EmptyTurn, Turn, Loads
  <2>2. ScreenTyped'
    BY <1>2, <1>6, <2>1, RenderTyped DEF Load
  <2> QED
    BY <1>6, <2>2, TypesUI DEF Load, KernelAlone
<1>7. CASE LoadFails(l)
  <2>1. ScreenTyped'
    BY <1>2, <1>7 DEF LoadFails, ScreenTyped
  <2> QED
    BY <1>7, <2>1, TypesUI DEF LoadFails, KernelAlone
<1> QED
  BY <1>4, <1>5, <1>6, <1>7 DEF Reload

(* Reducing a notification keeps the types.                                *)
LEMMA TypesNotify ==
    ASSUME Types, Notify
    PROVE  Types'
<1>1. /\ events # <<>> /\ events' = Tail(events)
      /\ Render(Reduce(Head(events)), selected, loads)
      /\ UNCHANGED <<kernelVars, life, send, removal>>
  BY DEF Notify
<1>2. /\ Head(events) \in Notifications /\ Head(events) = events[1]
      /\ 1 \in DOMAIN events
      /\ Tail(events) \in Seq(Notifications)
      /\ \A i \in DOMAIN Tail(events) :
             i + 1 \in DOMAIN events /\ Tail(events)[i] = events[i + 1]
  BY <1>1 DEF Types
<1>3. of[Head(events).turn] \in Threads
  BY <1>2 DEF Types
<1>4. ScreenTyped'
  <2>1. Reduce(Head(events)) \in Turn
    BY <1>2, <1>3, ReduceTyped
  <2> QED
    BY <1>1, <2>1, RenderTyped DEF Types
<1>5. Protocol'
  BY <1>1 DEF kernelVars, Types, Protocol, Deltas
<1>6. \A i \in DOMAIN events' : of'[events'[i].turn] \in Threads
  BY <1>1, <1>2 DEF Types, kernelVars
<1> QED
  BY <1>1, <1>2, <1>4, <1>5, <1>6 DEF Types, ScreenTyped

(* The steps of a send keep the types.                                     *)
LEMMA TypesSending ==
    ASSUME Types, Sending
    PROVE  Types'
<1> USE DEF Types
<1>1. send.n \in 0 .. MaxSends /\ MaxSends \in Nat
  BY UIAssumption DEF Sends
<1>2. ASSUME UNCHANGED <<turn, selected, loads>>
      PROVE  ScreenTyped'
  BY <1>2 DEF ScreenTyped
<1>3. \A t \in Threads, n \in 0 .. MaxSends : BeginUserTurn(t, n) \in Turn
  BY DEF BeginUserTurn, Turn, Bubble, Item, Items
<1>4. Idle \in Sends /\ Idle.at = "idle" /\ Idle.to = None
  BY DEF Idle, Sends
<1>5. CASE Submit
  <2>1. CASE /\ selected = None
             /\ send' = [at |-> "opening", to |-> None, n |-> send.n + 1]
             /\ UNCHANGED <<turn, selected, loads>>
    <3>1. send' \in Sends
      BY <1>1, <1>5, <2>1 DEF Submit, Sends
    <3> QED
      BY <1>2, <1>5, <2>1, <3>1, TypesUI DEF Submit, KernelAlone
  <2>2. CASE /\ selected # None
             /\ send' = [at |-> "sending", to |-> selected, n |-> send.n + 1]
             /\ Render(BeginUserTurn(selected, send.n + 1), selected, loads)
    <3>1. send.n + 1 \in 0 .. MaxSends
      BY <1>1, <1>5 DEF Submit
    <3>2. selected \in Threads
      BY <2>2
    <3>3. send' \in Sends
      BY <2>2, <3>1, <3>2 DEF Sends
    <3>4. ScreenTyped'
      BY <1>3, <2>2, <3>1, <3>2, RenderTyped
    <3> QED
      BY <1>5, <2>2, <3>2, <3>3, <3>4, TypesUI DEF Submit, KernelAlone
  <2> QED
    BY <1>5, <2>1, <2>2 DEF Submit
<1>6. ASSUME NEW t \in Threads, OpenSession(t) PROVE Types'
  <2>1. ScreenTyped'
    BY <1>2, <1>6 DEF OpenSession
  <2>2. send' \in Sends /\ send'.at = "opened" /\ send'.to = t
    BY <1>6 DEF OpenSession, Sends
  <2> QED
    BY <1>6, <2>1, <2>2, TypesUI DEF OpenSession, KernelAlone
<1>7. CASE Opened
  <2>1. send.to \in Threads
    BY <1>7 DEF Opened
  <2>2. ScreenTyped'
    BY <1>1, <1>3, <1>7, <2>1, RenderTyped DEF Opened
  <2>3. send' \in Sends /\ send'.at = "sending" /\ send'.to = send.to
    BY <1>7 DEF Opened, Sends
  <2> QED
    BY <1>7, <2>1, <2>2, <2>3, TypesUI DEF Opened, KernelAlone
<1>8. ASSUME NEW u \in Turns, Accepted(u) PROVE Types'
  <2>1. send.to \in Threads /\ Kernel!Accept(send.to, u) /\ of[u] = None
    BY <1>8 DEF Accepted, Kernel!Accept
  <2>2. Protocol'
    BY <2>1, ProtocolAccept
  <2>3. \A i \in DOMAIN events : of'[events[i].turn] \in Threads
    <3>1. \A w \in Turns : of[w] \in Threads => of'[w] = of[w]
      BY <2>1, UIAssumption DEF Kernel!Accept, Protocol
    <3>2. \A i \in DOMAIN events : events[i].turn \in Turns
      <4>1. \A i \in DOMAIN events : events[i] \in Notifications
        BY LenProperties
      <4> QED
        BY <4>1 DEF Notifications
    <3> QED
      BY <3>1, <3>2
  <2>4. send' \in Sends /\ send'.at = "accepted" /\ send'.to = send.to
    BY <1>8 DEF Accepted, Sends
  <2>5. UNCHANGED <<life, events, turn, selected, loads, removal>>
    BY <1>8 DEF Accepted
  <2> QED
    BY <2>1, <2>2, <2>3, <2>4, <2>5
<1>9. CASE Refused
  <2>1. ScreenTyped'
    BY <1>2, <1>9 DEF Refused
  <2>2. send' \in Sends /\ send'.at = "refused" /\ send'.to \in Threads
    BY <1>9 DEF Refused, Sends
  <2> QED
    BY <1>9, <2>1, <2>2, TypesUI DEF Refused, KernelAlone
<1>10. CASE Sent
  <2>1. ScreenTyped'
    BY <1>2, <1>10 DEF Sent
  <2> QED
    BY <1>4, <1>10, <2>1, TypesUI DEF Sent, KernelAlone
<1>11. CASE NotSent
  <2>1. RolledBack \in Turn
    BY DEF RolledBack, Turn, Without
  <2>2. ScreenTyped'
    BY <1>11, <2>1, RenderTyped DEF NotSent
  <2> QED
    BY <1>4, <1>11, <2>2, TypesUI DEF NotSent, KernelAlone
<1> QED
  BY <1>5, <1>6, <1>7, <1>8, <1>9, <1>10, <1>11 DEF Sending

(* Picking, leaving and deleting sessions keeps the types.                 *)
LEMMA TypesMoving ==
    ASSUME Types, Moving
    PROVE  Types'
<1> USE DEF Types
<1>1. EmptyTurn \in Turn
  BY DEF EmptyTurn, Turn
<1>2. ASSUME KernelAlone, UNCHANGED <<life, send>>, ScreenTyped',
             removal' \in {"none", "reset", "keep"}
      PROVE  Types'
  BY <1>2, TypesUI
<1>3. ASSUME NEW t \in Threads, Pick(t) PROVE Types'
  <2>1. CASE Render(turn, t, loads)
    <3>1. ScreenTyped'
      BY <2>1, RenderTyped
    <3> QED
      BY <1>2, <1>3, <3>1 DEF Pick, KernelAlone
  <2>2. CASE Render(Loading(t), t, loads (+) Bagged(Asked(t), 1))
    <3>1. Loading(t) \in Turn /\ Asked(t) \in Loads
      BY DEF Loading, EmptyTurn, Turn, Asked, Loads
    <3> DEFINE b == loads (+) Bagged(Asked(t), 1)
    <3>2. IsABag(b) /\ BagToSet(b) = BagToSet(loads) \cup {Asked(t)}
      <4>1. /\ IsABag(b)
            /\ BagToSet(b) = IF 1 = 0 THEN BagToSet(loads)
                             ELSE BagToSet(loads) \cup {Asked(t)}
        BY BagFacts, 1 \in Nat
      <4> QED
        BY <4>1
    <3> HIDE DEF b
    <3>3. ScreenTyped'
      BY <2>2, <3>1, <3>2, RenderTyped DEF b
    <3> QED
      BY <1>2, <1>3, <3>3 DEF Pick, KernelAlone
  <2> QED
    BY <1>3, <2>1, <2>2 DEF Pick
<1>4. CASE NewTask
  <2>1. ScreenTyped'
    BY <1>1, <1>4, RenderTyped DEF NewTask
  <2> QED
    BY <1>2, <1>4, <2>1 DEF NewTask, KernelAlone
<1>5. CASE Projectless
  <2>1. ScreenTyped'
    BY <1>5, RenderTyped DEF Projectless
  <2> QED
    BY <1>2, <1>5, <2>1 DEF Projectless, KernelAlone
<1>6. ASSUME NEW t \in Threads, NEW menu \in BOOLEAN, Delete(t, menu) PROVE Types'
  <2>1. ScreenTyped'
    BY <1>6 DEF Delete, ScreenTyped
  <2> QED
    BY <1>6, <2>1, TypesUI DEF Delete, KernelAlone
<1>7. CASE Deleted
  <2>1. ScreenTyped'
    BY <1>1, <1>7, RenderTyped DEF Deleted, ScreenTyped
  <2> QED
    BY <1>2, <1>7, <2>1 DEF Deleted, KernelAlone
<1> QED
  BY <1>3, <1>4, <1>5, <1>6, <1>7 DEF Moving

(* So every step keeps the types.                                          *)
LEMMA TypesStep == Types /\ [Next]_vars => Types'
<1> SUFFICES ASSUME Types, [Next]_vars PROVE Types'
  OBVIOUS
<1>1. CASE UNCHANGED vars
  <2>1. ScreenTyped'
    BY <1>1 DEF vars, Types, ScreenTyped
  <2> QED
    BY <1>1, <2>1, TypesUI DEF vars, Types, KernelAlone
<1> QED
  BY <1>1, TypesKernel, TypesReload, TypesNotify, TypesSending, TypesMoving DEF Next

-----------------------------------------------------------------------------
(* The queue of notifications.                                             *)

Announces(i, u, k) == events[i].turn = u /\ events[i].kind = k

(* A notification that opens something comes before the one that closes it *)
(* and what an item's completion carries is the whole answer.              *)
Queue ==
    \A i \in DOMAIN events, u \in Turns :
        /\ \A k \in Opening :
               Announces(i, u, k) /\ Kernel!Said(u, Closes(k)) =>
                   \E j \in DOMAIN events : i < j /\ Announces(j, u, Closes(k))
        /\ Announces(i, u, "item/completed") =>
               Kernel!Said(u, "item/completed") /\ events[i].text = Deltas(u)

(* No task of the UI but Notify touches the queue or what was said.        *)
LEMMA QuietSteps ==
    ASSUME (\E l \in BagToSet(loads) : Reload(l)) \/ Sending \/ Moving \/ UNCHANGED vars
    PROVE  UNCHANGED <<events, said, result>>
<1>1. ASSUME NEW l \in BagToSet(loads), Reload(l)
      PROVE  UNCHANGED <<events, said, result>>
  <2>1. ReadSession(l) => UNCHANGED <<kernelVars, events>>
    BY DEF ReadSession
  <2>2. ReadTimeline(l) => UNCHANGED <<kernelVars, events>>
    BY DEF ReadTimeline
  <2>3. Load(l) \/ LoadFails(l) => UNCHANGED <<kernelVars, events>>
    BY DEF Load, LoadFails
  <2> QED
    BY <1>1, <2>1, <2>2, <2>3 DEF Reload, kernelVars
<1>2. CASE Sending
  BY <1>2 DEF Sending, Submit, OpenSession, Opened, Accepted, Kernel!Accept,
              Refused, Sent, NotSent, kernelVars
<1>3. CASE Moving
  BY <1>3 DEF Moving, Pick, NewTask, Projectless, Delete, Deleted, kernelVars
<1>4. CASE UNCHANGED vars
  BY <1>4 DEF vars, kernelVars
<1> QED
  BY <1>1, <1>2, <1>3, <1>4

(* The notifications on their way are well-formed.                         *)
LEMMA QueueTyped ==
    ASSUME Types
    PROVE  \A i \in DOMAIN events :
               /\ events[i] \in Notifications
               /\ events[i].turn \in Turns /\ events[i].kind \in Relevant
<1>1. \A i \in DOMAIN events : events[i] \in Notifications
  BY LenProperties DEF Types
<1> QED
  BY <1>1 DEF Notifications

(* Once an answer is final, a step of the kernel leaves it as it is.       *)
LEMMA FinalStays ==
    ASSUME NEW u \in Turns, NEW h \in Seq(Relevant), News(u, h), NEW w \in Turns
    PROVE  /\ Final(w) => Final(w)' /\ Deltas(w)' = Deltas(w)
           /\ w # u => \A k : Kernel!Said(w, k)' <=> Kernel!Said(w, k)
           /\ \A k \in Relevant : Kernel!Said(w, k) => Kernel!Said(w, k)'
<1>1. CASE w = u
  BY <1>1 DEF News
<1>2. CASE w # u
  BY <1>2 DEF News, Final, Deltas, Kernel!Said
<1> QED
  BY <1>1, <1>2

(* What a step of the kernel adds to the queue is in order.                *)
LEMMA QueueKernel ==
    ASSUME Types, Queue, NEW u \in Turns, NEW h \in Seq(Relevant), News(u, h)
    PROVE  Queue'
<1>0. PICK n \in Nat : n = Len(events)
  BY LenProperties DEF Types
<1>1. /\ DOMAIN events' = 1 .. n + Len(h)
      /\ DOMAIN events = 1 .. n /\ DOMAIN h = 1 .. Len(h)
      /\ n \in Nat /\ Len(h) \in Nat
      /\ \A i \in DOMAIN events' : i \in DOMAIN events
             \/ \E j \in DOMAIN h : i = n + j
  BY <1>0, QueueGrows
<1>2. \A i \in DOMAIN events : events'[i] = events[i]
  BY QueueGrows
<1>3. ASSUME NEW j \in DOMAIN h
      PROVE  /\ events'[n + j].text = Deltas(u)
             /\ \A k : \A w \in Turns : Announces(n + j, w, k)' <=> w = u /\ k = h[j]
  <2>1. events'[n + j] = [kind |-> h[j], turn |-> u, text |-> Deltas(u)]
    BY <1>0, QueueGrows
  <2>2. /\ events'[n + j].kind = h[j] /\ events'[n + j].turn = u
        /\ events'[n + j].text = Deltas(u)
    BY <2>1
  <2> QED
    BY <2>2 DEF Announces
<1>4. \A i \in DOMAIN events : \A k : \A w \in Turns :
          Announces(i, w, k)' <=> Announces(i, w, k)
  BY <1>2 DEF Announces
<1>5. \A k \in Opening : k \in Relevant /\ Closes(k) \in Relevant
  BY DEF Opening, Closes, Relevant
<1>6. "item/completed" \in Relevant
  BY DEF Relevant
<1>7. ASSUME NEW i \in DOMAIN events', NEW w \in Turns, NEW k \in Opening,
             Announces(i, w, k)', Kernel!Said(w, Closes(k))'
      PROVE  \E j \in DOMAIN events' : i < j /\ Announces(j, w, Closes(k))'
  <2>1. CASE i \in DOMAIN events /\ Kernel!Said(w, Closes(k))
    <3>1. PICK j \in DOMAIN events : i < j /\ Announces(j, w, Closes(k))
      BY <1>4, <1>7, <2>1 DEF Queue
    <3>2. j \in DOMAIN events' /\ Announces(j, w, Closes(k))'
      BY <1>1, <1>4, <3>1
    <3> QED
      BY <3>1, <3>2
  <2>2. CASE i \in DOMAIN events /\ ~Kernel!Said(w, Closes(k))
    <3>1. w = u
      BY <1>7, <2>2, FinalStays
    <3>2. Holds(h, Closes(k))
      BY <1>5, <1>7, <2>2, <3>1 DEF News
    <3>3. PICK j \in DOMAIN h : h[j] = Closes(k)
      BY <3>2 DEF Holds
    <3>4. n + j \in DOMAIN events' /\ i < n + j
      BY <1>1, <2>2
    <3>5. Announces(n + j, w, Closes(k))'
      BY <1>3, <3>1, <3>3
    <3> QED
      BY <3>4, <3>5
  <2>3. ASSUME NEW j \in DOMAIN h, i = n + j PROVE FALSE
    <3>1. w = u /\ k = h[j]
      BY <1>3, <1>7, <2>3
    <3>2. Holds(h, k)
      BY <3>1 DEF Holds
    <3> QED
      BY <1>7, <3>1, <3>2 DEF News
  <2> QED
    BY <1>1, <2>1, <2>2, <2>3
<1>8. ASSUME NEW i \in DOMAIN events', NEW w \in Turns,
             Announces(i, w, "item/completed")'
      PROVE  Kernel!Said(w, "item/completed")' /\ events'[i].text = Deltas(w)'
  <2>1. CASE i \in DOMAIN events
    <3>1. Kernel!Said(w, "item/completed") /\ events[i].text = Deltas(w)
      BY <1>4, <1>8, <2>1 DEF Queue
    <3>2. Final(w)
      BY <3>1 DEF Final
    <3> QED
      BY <1>2, <1>6, <2>1, <3>1, <3>2, FinalStays
  <2>2. ASSUME NEW j \in DOMAIN h, i = n + j
        PROVE  Kernel!Said(w, "item/completed")' /\ events'[i].text = Deltas(w)'
    <3>1. w = u /\ h[j] = "item/completed" /\ events'[i].text = Deltas(u)
      BY <1>3, <1>8, <2>2
    <3>2. Holds(h, "item/completed")
      BY <3>1 DEF Holds
    <3>3. Kernel!Said(u, "item/completed")' /\ Deltas(u)' = Deltas(u)
      BY <1>6, <3>2 DEF News
    <3> QED
      BY <3>1, <3>3
  <2> QED
    BY <1>1, <2>1, <2>2
<1> QED
  BY <1>7, <1>8 DEF Queue

(* Notify takes the oldest notification off the queue.                     *)
LEMMA QueueShrinks ==
    ASSUME Types, Notify
    PROVE  /\ UNCHANGED <<said, result>>
           /\ 1 \in DOMAIN events /\ Head(events) = events[1]
           /\ \A i \in DOMAIN events' : i + 1 \in DOMAIN events
           /\ \A j \in DOMAIN events : j > 1 => j - 1 \in DOMAIN events'
           /\ \A i \in DOMAIN events' : events'[i] = events[i + 1]
           /\ \A j \in DOMAIN events : j > 1 => events'[j - 1] = events[j]
<1>1. /\ events' = Tail(events) /\ events # <<>> /\ events \in Seq(Notifications)
      /\ UNCHANGED <<said, result>>
  BY DEF Notify, Types, kernelVars
<1>2. /\ DOMAIN events = 1 .. Len(events) /\ Len(events) \in Nat
      /\ Head(events) = events[1] /\ Len(events) > 0
      /\ DOMAIN events' = 1 .. Len(events) - 1
      /\ \A i \in DOMAIN events' : events'[i] = events[i + 1]
  BY <1>1, HeadTailProperties, LenProperties, EmptySeq
<1>3. ASSUME NEW j \in DOMAIN events, j > 1
      PROVE  j - 1 \in DOMAIN events' /\ (j - 1) + 1 = j
  BY <1>2, <1>3
<1> QED
  BY <1>1, <1>2, <1>3

(* Taking it off leaves the rest in order.                                 *)
LEMMA QueueNotify ==
    ASSUME Types, Queue, Notify
    PROVE  Queue'
<1>1. \A w \in Turns :
          /\ \A k : Kernel!Said(w, k)' <=> Kernel!Said(w, k)
          /\ Deltas(w)' = Deltas(w)
  BY QueueShrinks DEF Kernel!Said, Deltas
<1>2. \A i \in DOMAIN events' :
          /\ i + 1 \in DOMAIN events /\ i \in Nat
          /\ \A k : \A w \in Turns :
                 Announces(i, w, k)' <=> Announces(i + 1, w, k)
  <2>1. DOMAIN events' = 1 .. Len(events')
    BY LenProperties DEF Notify, Types
  <2> QED
    BY <2>1, QueueShrinks DEF Announces
<1>3. ASSUME NEW i \in DOMAIN events', NEW w \in Turns, NEW k,
             NEW j \in DOMAIN events, i + 1 < j, Announces(j, w, k)
      PROVE  \E x \in DOMAIN events' : i < x /\ Announces(x, w, k)'
  <2>1. j \in Nat /\ i \in Nat
    BY <1>2, LenProperties DEF Types
  <2>2. j > 1 /\ i < j - 1
    BY <1>3, <2>1
  <2>3. j - 1 \in DOMAIN events' /\ events'[j - 1] = events[j]
    BY <2>2, QueueShrinks
  <2>4. Announces(j - 1, w, k)'
    BY <1>3, <2>3 DEF Announces
  <2> QED
    BY <2>2, <2>3, <2>4
<1>4. ASSUME NEW i \in DOMAIN events', NEW w \in Turns
      PROVE  /\ \A k \in Opening :
                    Announces(i, w, k)' /\ Kernel!Said(w, Closes(k))' =>
                    \E j \in DOMAIN events' : i < j /\ Announces(j, w, Closes(k))'
             /\ Announces(i, w, "item/completed")' =>
                    /\ Kernel!Said(w, "item/completed")'
                    /\ events'[i].text = Deltas(w)'
  <2>1. ASSUME NEW k \in Opening, Announces(i, w, k)', Kernel!Said(w, Closes(k))'
        PROVE  \E j \in DOMAIN events' : i < j /\ Announces(j, w, Closes(k))'
    <3>1. PICK j \in DOMAIN events : i + 1 < j /\ Announces(j, w, Closes(k))
      BY <1>1, <1>2, <2>1 DEF Queue
    <3> QED
      BY <1>3, <3>1
  <2>2. events'[i].text = events[i + 1].text
    BY QueueShrinks
  <2>3. Announces(i, w, "item/completed")' =>
            /\ Kernel!Said(w, "item/completed")'
            /\ events'[i].text = Deltas(w)'
    <3>1. ASSUME Announces(i, w, "item/completed")'
          PROVE  /\ Kernel!Said(w, "item/completed")
                 /\ events[i + 1].text = Deltas(w)
      BY <1>2, <3>1 DEF Queue
    <3>2. Deltas(w)' = Deltas(w)
      BY <1>1
    <3>3. Kernel!Said(w, "item/completed")' <=> Kernel!Said(w, "item/completed")
      BY <1>1
    <3> QED
      BY <2>2, <3>1, <3>2, <3>3
  <2> QED
    BY <2>1, <2>3
<1> QED
  BY <1>4 DEF Queue

(* So every step keeps the queue in order.                                 *)
LEMMA QueueStep ==
    ASSUME Types, Queue, [Next]_vars
    PROVE  Queue'
<1>1. ASSUME NEW u \in Turns, KernelStep(u) PROVE Queue'
  BY <1>1, KernelNews, QueueKernel DEF Types
<1>2. CASE UNCHANGED <<events, said, result>>
  BY <1>2 DEF Queue, Announces, Kernel!Said, Deltas
<1> QED
  BY <1>1, <1>2, QuietSteps, QueueNotify DEF Next

-----------------------------------------------------------------------------
(* A running turn is real.                                                 *)

Live == (turn.active => turn.session \in Threads) /\ RunningIsReal

(* A turn's end stays ahead of the UI until the UI is told of it.          *)
LEMMA UnfinishedStays ==
    ASSUME Types, Queue, NEW w \in Turns, Unfinished(w)
    PROVE  /\ \A u \in Turns : KernelStep(u) => Unfinished(w)'
           /\ UNCHANGED <<events, said>> => Unfinished(w)'
           /\ Notify /\ ~Announces(1, w, "turn/completed") => Unfinished(w)'
<1>1. Unfinished(w) <=> \/ ~Kernel!Said(w, "turn/completed")
                        \/ \E i \in DOMAIN events : Announces(i, w, "turn/completed")
  BY DEF Unfinished, Ahead, Announces
<1>2. Unfinished(w)' <=> \/ ~Kernel!Said(w, "turn/completed")'
                         \/ \E i \in DOMAIN events' : Announces(i, w, "turn/completed")'
  BY DEF Unfinished, Ahead, Announces
<1>3. ASSUME NEW u \in Turns, KernelStep(u) PROVE Unfinished(w)'
  <2>1. PICK h \in Seq(Relevant) : News(u, h)
    BY <1>3, KernelNews DEF Types
  <2>2. "turn/completed" \in Relevant
    BY DEF Relevant
  <2>3. CASE Kernel!Said(w, "turn/completed")
    <3>1. PICK i \in DOMAIN events : Announces(i, w, "turn/completed")
      BY <1>1, <2>3
    <3>2. i \in DOMAIN events' /\ events'[i] = events[i]
      BY <2>1, QueueGrows
    <3>3. Announces(i, w, "turn/completed")'
      BY <3>1, <3>2 DEF Announces
    <3> QED
      BY <1>2, <3>2, <3>3
  <2>4. CASE ~Kernel!Said(w, "turn/completed") /\ Kernel!Said(w, "turn/completed")'
    <3>1. w = u
      BY <2>1, <2>4, FinalStays
    <3>2. Holds(h, "turn/completed")
      BY <2>1, <2>2, <2>4, <3>1 DEF News
    <3>3. PICK j \in DOMAIN h : h[j] = "turn/completed"
      BY <3>2 DEF Holds
    <3>4. PICK n \in Nat : n = Len(events)
      BY LenProperties DEF Types
    <3>5. n + j \in DOMAIN events'
      BY <2>1, <3>4, QueueGrows
    <3>6. events'[n + j] = [kind |-> h[j], turn |-> u, text |-> Deltas(u)]
      BY <2>1, <3>4, QueueGrows
    <3>7. events'[n + j].kind = "turn/completed" /\ events'[n + j].turn = w
      BY <3>1, <3>3, <3>6
    <3> QED
      BY <1>2, <3>5, <3>7 DEF Announces
  <2> QED
    BY <1>2, <2>3, <2>4
<1>4. ASSUME UNCHANGED <<events, said>> PROVE Unfinished(w)'
  BY <1>4 DEF Unfinished, Ahead, Kernel!Said
<1>5. ASSUME Notify, ~Announces(1, w, "turn/completed") PROVE Unfinished(w)'
  <2>1. CASE ~Kernel!Said(w, "turn/completed")
    BY <1>2, <1>5, <2>1, QueueShrinks DEF Kernel!Said
  <2>2. CASE Kernel!Said(w, "turn/completed")
    <3>1. PICK i \in DOMAIN events : Announces(i, w, "turn/completed")
      BY <1>1, <2>2
    <3>2. i > 1
      BY <1>5, <3>1, LenProperties DEF Types
    <3>3. i - 1 \in DOMAIN events' /\ events'[i - 1] = events[i]
      BY <1>5, <3>2, QueueShrinks
    <3>4. Announces(i - 1, w, "turn/completed")'
      BY <3>1, <3>3 DEF Announces
    <3> QED
      BY <1>2, <3>3, <3>4
  <2> QED
    BY <2>1, <2>2
<1> QED
  BY <1>3, <1>4, <1>5

(* After a rendered task a turn is running only if the task left it so.    *)
LEMMA RenderRuns ==
    ASSUME NEW tn, NEW s, NEW base, IsABag(base), Render(tn, s, base), turn'.active
    PROVE  turn' = tn
<1>1. ~Loading(s).active
  BY DEF Loading, EmptyTurn
<1> QED
  BY <1>1, RenderFacts

(* A task that leaves the message under way alone, and a turn that runs    *)
(* only if it ran before, bound to the same session.                       *)
LEMMA LiveKept ==
    ASSUME Types, Queue, Live, of' = of,
           \/ send'.at = send.at /\ send'.to = send.to
           \/ send.at \notin {"sending", "refused"},
           \A w \in Turns : Unfinished(w) => Unfinished(w)',
           turn'.active => turn.active /\ turn'.session = turn.session
    PROVE  Live'
  BY DEF Live, RunningIsReal

(* No step of the kernel makes a running turn unreal.                      *)
LEMMA LiveKernel ==
    ASSUME Types, Queue, Live, NEW u \in Turns, KernelStep(u)
    PROVE  Live'
<1>1. of' = of
  BY DEF KernelStep, Kernel!Proceed, Kernel!Announce, Kernel!Abandon,
         Kernel!TakeFloor, Kernel!Stream, Kernel!CloseItem, Kernel!Decide,
         Kernel!Explain, Kernel!End, Kernel!LeaveFloor
<1>2. UNCHANGED <<turn, send>>
  BY DEF KernelStep
<1> QED
  BY <1>1, <1>2, UnfinishedStays, LiveKept

(* A reload shows no turn as running.                                      *)
LEMMA LiveReload ==
    ASSUME Types, Queue, Live, NEW l \in BagToSet(loads), Reload(l)
    PROVE  Live'
<1>1. UNCHANGED <<of, said, events, send>>
  BY DEF Reload, ReadSession, ReadTimeline, Load, LoadFails, kernelVars
<1>2. turn'.active => turn.active /\ turn'.session = turn.session
  <2>1. CASE Load(l)
    <3>1. IsABag(loads (-) SetToBag({l}))
      BY BagFacts DEF Types
    <3>2. turn'.active => turn' = [Loading(l.of) EXCEPT !.items = l.items]
      BY <2>1, <3>1, RenderRuns DEF Load
    <3> QED
      BY <3>2 DEF Loading, EmptyTurn
  <2>2. CASE ReadSession(l) \/ ReadTimeline(l) \/ LoadFails(l)
    BY <2>2 DEF ReadSession, ReadTimeline, LoadFails
  <2> QED
    BY <2>1, <2>2 DEF Reload
<1> QED
  BY <1>1, <1>2, UnfinishedStays, LiveKept

(* A turn that starts has its end ahead, and one that ends stops running.  *)
LEMMA LiveNotify ==
    ASSUME Types, Queue, Live, Notify
    PROVE  Live'
<1> DEFINE e == Head(events)
<1>1. /\ e = events[1] /\ 1 \in DOMAIN events /\ e \in Notifications
      /\ e.turn \in Turns /\ e.kind \in Relevant /\ of[e.turn] \in Threads
  BY QueueShrinks, QueueTyped DEF Types
<1>2. UNCHANGED <<of, said, send>>
  BY DEF Notify, kernelVars
<1>3. turn'.active => turn' = Reduce(e)
  BY RenderRuns DEF Notify, Types
<1> HIDE DEF e
<1>4. CASE e.kind = "turn/completed"
  <2>1. ~Reduce(e).active
    BY <1>4 DEF Reduce, Finished, Types, Turn
  <2> QED
    BY <1>3, <2>1 DEF Live, RunningIsReal
<1>5. CASE e.kind = "turn/started"
  <2>1. PICK u \in Turns : u = e.turn /\ of[u] \in Threads
    BY <1>1
  <2>2. Unfinished(u)'
    <3>1. CASE ~Kernel!Said(u, "turn/completed")
      BY <1>2, <3>1 DEF Unfinished, Kernel!Said
    <3>2. CASE Kernel!Said(u, "turn/completed")
      <4>1. Announces(1, u, "turn/started")
        BY <1>1, <1>5, <2>1 DEF Announces
      <4>2. /\ "turn/started" \in Opening
            /\ Closes("turn/started") = "turn/completed"
        BY DEF Opening, Closes
      <4>3. PICK j \in DOMAIN events : 1 < j /\ Announces(j, u, "turn/completed")
        BY <1>1, <3>2, <4>1, <4>2 DEF Queue
      <4>4. j - 1 \in DOMAIN events' /\ events'[j - 1] = events[j]
        BY <4>3, QueueShrinks, LenProperties DEF Types
      <4> QED
        BY <4>3, <4>4 DEF Unfinished, Ahead, Announces
    <3> QED
      BY <3>1, <3>2
  <2>3. Reduce(e) = Started(u)
    BY <1>5, <2>1 DEF Reduce
  <2>4. turn'.active => turn'.session = of'[u] /\ of'[u] \in Threads
    BY <1>2, <1>3, <2>1, <2>3 DEF Started
  <2> QED
    BY <2>2, <2>4 DEF Live, RunningIsReal
<1>6. CASE e.kind \in {"item/started", "delta", "item/completed"}
  <2>1. /\ Reduce(e).active = turn.active
        /\ Reduce(e).session = turn.session
    BY <1>6 DEF Reduce, Completed, Answer, Types, Turn
  <2>2. \A w \in Turns : ~Announces(1, w, "turn/completed")
    BY <1>1, <1>6 DEF Announces
  <2>3. turn'.active => turn.active /\ turn'.session = turn.session
    BY <1>3, <2>1
  <2> QED
    BY <1>2, <2>2, <2>3, UnfinishedStays, LiveKept
<1> QED
  BY <1>1, <1>4, <1>5, <1>6 DEF Relevant

(* A message under way becomes a turn of its session, or is rolled back.   *)
LEMMA LiveSending ==
    ASSUME Types, Queue, Live, Sending
    PROVE  Live'
<1>1. UNCHANGED <<events, said>> /\ \A w \in Turns : Unfinished(w) => Unfinished(w)'
  BY QuietSteps, UnfinishedStays
<1>2. \A tn, s : Render(tn, s, loads) /\ turn'.active => turn' = tn
  BY RenderRuns DEF Types
<1>3. \A t, n : /\ BeginUserTurn(t, n).active
                /\ BeginUserTurn(t, n).session = t
  BY DEF BeginUserTurn
<1>4. CASE Submit
  <2>1. ~turn.active /\ send.at = "idle" /\ of' = of
    BY <1>4 DEF Submit, kernelVars
  <2>2. CASE UNCHANGED turn
    BY <2>1, <2>2 DEF Live, RunningIsReal
  <2>3. CASE /\ selected # None
             /\ send' = [at |-> "sending", to |-> selected, n |-> send.n + 1]
             /\ Render(BeginUserTurn(selected, send.n + 1), selected, loads)
    <3>1. turn'.active => turn'.session = selected /\ selected \in Threads
      BY <1>2, <1>3, <2>3 DEF Types
    <3>2. send'.at = "sending" /\ send'.to = selected
      BY <2>3
    <3> QED
      BY <3>1, <3>2 DEF Live, RunningIsReal
  <2> QED
    BY <1>4, <2>2, <2>3 DEF Submit
<1>5. ASSUME NEW t \in Threads, OpenSession(t) PROVE Live'
  <2>1. of' = of /\ turn' = turn /\ send.at = "opening"
    BY <1>5 DEF OpenSession, kernelVars
  <2> QED
    BY <1>1, <2>1, LiveKept
<1>6. CASE Opened
  <2>1. send'.at = "sending" /\ send'.to = send.to /\ send.to \in Threads
    BY <1>6 DEF Opened, Types, Sends
  <2>2. turn'.active => turn'.session = send.to
    BY <1>2, <1>3, <1>6 DEF Opened
  <2> QED
    BY <2>1, <2>2 DEF Live, RunningIsReal
<1>7. ASSUME NEW u \in Turns, Accepted(u) PROVE Live'
  <2>1. /\ turn' = turn /\ send.to \in Threads
        /\ of[u] = None /\ of' = [of EXCEPT ![u] = send.to]
    BY <1>7 DEF Accepted, Kernel!Accept, Types
  <2>2. of'[u] = send.to /\ \A w \in Turns : of[w] \in Threads => of'[w] = of[w]
    BY <2>1, UIAssumption DEF Types, Protocol
  <2>3. Unfinished(u)
    <3>1. said[u] = <<>>
      BY <2>1, UIAssumption DEF Types, Protocol
    <3> QED
      BY <3>1 DEF Unfinished, Kernel!Said
  <2> QED
    BY <1>1, <2>1, <2>2, <2>3 DEF Live, RunningIsReal
<1>8. CASE Refused
  <2>1. /\ of' = of /\ turn' = turn /\ send.at = "sending"
        /\ send'.at = "refused" /\ send'.to = send.to
    BY <1>8 DEF Refused, kernelVars, Types, Sends
  <2> QED
    BY <1>1, <2>1 DEF Live, RunningIsReal
<1>9. CASE Sent
  <2>1. of' = of /\ turn' = turn /\ send.at = "accepted"
    BY <1>9 DEF Sent, kernelVars
  <2> QED
    BY <1>1, <2>1, LiveKept
<1>10. CASE NotSent
  <2>1. ~RolledBack.active
    BY DEF RolledBack, Types, Turn
  <2> QED
    BY <1>2, <1>10, <2>1 DEF NotSent, Live, RunningIsReal
<1> QED
  BY <1>4, <1>5, <1>6, <1>7, <1>8, <1>9, <1>10 DEF Sending

(* Moving leaves a running turn as it is, or drops it.                     *)
LEMMA LiveMoving ==
    ASSUME Types, Queue, Live, Moving
    PROVE  Live'
<1>1. UNCHANGED <<events, said, of, send>>
      /\ \A w \in Turns : Unfinished(w) => Unfinished(w)'
  <2>1. UNCHANGED <<events, said, of, send>>
    BY DEF Moving, Pick, NewTask, Projectless, Delete, Deleted, kernelVars
  <2> QED
    BY <2>1, UnfinishedStays
<1>2. turn'.active => turn' = turn
  <2>1. ~EmptyTurn.active /\ \A t : ~Loading(t).active
    BY DEF EmptyTurn, Loading
  <2>2. \A tn, s : Render(tn, s, loads) /\ turn'.active => turn' = tn
    BY RenderRuns DEF Types
  <2>3. ASSUME NEW t \in Threads, Pick(t) PROVE turn'.active => turn' = turn
    <3>1. IsABag(loads (+) Bagged(Asked(t), 1))
      BY BagFacts, 1 \in Nat DEF Types
    <3>2. Render(Loading(t), t, loads (+) Bagged(Asked(t), 1)) =>
              ~turn'.active
      BY <2>1, <3>1, RenderRuns
    <3> QED
      BY <2>2, <2>3, <3>2 DEF Pick
  <2> QED
    BY <2>1, <2>2, <2>3 DEF Moving, NewTask, Projectless, Delete, Deleted
<1> QED
  BY <1>1, <1>2, LiveKept

(* So a running turn stays real.                                           *)
LEMMA LiveStep ==
    ASSUME Types, Queue, Live, [Next]_vars
    PROVE  Live'
<1>1. CASE UNCHANGED vars
  <2>1. UNCHANGED <<events, said, of, send, turn>>
    BY <1>1 DEF vars, kernelVars
  <2> QED
    BY <2>1, UnfinishedStays, LiveKept
<1> QED
  BY <1>1, LiveKernel, LiveReload, LiveNotify, LiveSending, LiveMoving DEF Next

-----------------------------------------------------------------------------
(* The text of an answer.                                                  *)

ToComplete(u) == \E j \in DOMAIN events : Announces(j, u, "item/completed")

(* An answer on screen, and one a reload brings.                           *)
Sound(i) == i.slot = "answer" =>
    /\ i.key \in Turns
    /\ Kernel!Said(i.key, "item/completed") =>
           i.text = Deltas(i.key) \/ ToComplete(i.key)
Whole(i) == i.slot = "answer" =>
    i.key \in Turns /\ Final(i.key) /\ i.text = Deltas(i.key)

Content ==
    /\ \A i \in turn.items : Sound(i)
    /\ \A l \in BagToSet(loads) : \A i \in l.items : Whole(i)

(* What a reload brings stays whole: the answer was final when it was      *)
(* read.                                                                   *)
LEMMA WholeStays ==
    ASSUME Types, NEW i, Whole(i), Notify \/ \E u \in Turns : KernelStep(u)
    PROVE  Whole(i)'
<1>1. ASSUME UNCHANGED <<said, result>> PROVE Whole(i)'
  BY <1>1 DEF Whole, Final, Deltas, Kernel!Said
<1>2. ASSUME NEW u \in Turns, KernelStep(u) PROVE Whole(i)'
  <2>1. PICK h \in Seq(Relevant) : News(u, h)
    BY <1>2, KernelNews DEF Types
  <2>2. \A w \in Turns : Final(w) => Final(w)' /\ Deltas(w)' = Deltas(w)
    BY <2>1, FinalStays
  <2> QED
    BY <2>2 DEF Whole
<1>3. CASE Notify
  BY <1>1, <1>3, QueueShrinks
<1> QED
  BY <1>2, <1>3

(* An answer on screen stays sound until its completion is reduced.        *)
LEMMA SoundStays ==
    ASSUME Types, Queue, NEW i, Sound(i),
           \/ \E u \in Turns : KernelStep(u)
           \/ Notify /\ ~Announces(1, i.key, "item/completed")
    PROVE  Sound(i)'
<1> SUFFICES ASSUME i.slot = "answer" PROVE Sound(i)'
  BY DEF Sound
<1> DEFINE w == i.key
<1>1. w \in Turns
  BY DEF Sound
<1> HIDE DEF w
<1>2. Sound(i) <=> (Kernel!Said(w, "item/completed") =>
                        i.text = Deltas(w) \/ ToComplete(w))
  BY <1>1 DEF Sound, w
<1>3. Sound(i)' <=> (Kernel!Said(w, "item/completed")' =>
                        i.text = Deltas(w)' \/ ToComplete(w)')
  BY <1>1 DEF Sound, w
<1>5. ASSUME NEW u \in Turns, KernelStep(u) PROVE Sound(i)'
  <2>1. PICK h \in Seq(Relevant) : News(u, h)
    BY <1>5, KernelNews DEF Types
  <2>2. "item/completed" \in Relevant
    BY DEF Relevant
  <2>3. CASE Kernel!Said(w, "item/completed")
    <3>1. Final(w)
      BY <2>3 DEF Final
    <3>2. Deltas(w)' = Deltas(w)
      BY <1>1, <2>1, <3>1, FinalStays
    <3>3. ToComplete(w) => ToComplete(w)'
      <4> SUFFICES ASSUME NEW j \in DOMAIN events, Announces(j, w, "item/completed")
                   PROVE  ToComplete(w)'
        BY DEF ToComplete
      <4>1. j \in DOMAIN events' /\ events'[j] = events[j]
        BY <2>1, QueueGrows
      <4>2. Announces(j, w, "item/completed")'
        BY <4>1 DEF Announces
      <4> QED
        BY <4>1, <4>2 DEF ToComplete
    <3> QED
      BY <1>2, <1>3, <2>3, <3>2, <3>3
  <2>4. CASE /\ ~Kernel!Said(w, "item/completed")
             /\ Kernel!Said(w, "item/completed")'
    <3>1. w = u
      BY <1>1, <2>1, <2>4, FinalStays
    <3>2. Holds(h, "item/completed")
      BY <2>1, <2>2, <2>4, <3>1 DEF News
    <3>3. PICK j \in DOMAIN h : h[j] = "item/completed"
      BY <3>2 DEF Holds
    <3>4. PICK n \in Nat : n = Len(events)
      BY LenProperties DEF Types
    <3>5. n + j \in DOMAIN events'
      BY <2>1, <3>4, QueueGrows
    <3>6. events'[n + j] = [kind |-> h[j], turn |-> u, text |-> Deltas(u)]
      BY <2>1, <3>4, QueueGrows
    <3>7. events'[n + j].kind = "item/completed" /\ events'[n + j].turn = w
      BY <3>1, <3>3, <3>6
    <3> QED
      BY <1>3, <3>5, <3>7 DEF ToComplete, Announces
  <2> QED
    BY <1>3, <2>3, <2>4
<1>6. ASSUME Notify, ~Announces(1, i.key, "item/completed") PROVE Sound(i)'
  <2>1. UNCHANGED said
    BY <1>6, QueueShrinks
  <2>2. ToComplete(w) => ToComplete(w)'
    <3> SUFFICES ASSUME NEW j \in DOMAIN events, Announces(j, w, "item/completed")
                 PROVE  ToComplete(w)'
      BY DEF ToComplete
    <3>1. j > 1
      BY <1>6, LenProperties DEF Types, w
    <3>2. j - 1 \in DOMAIN events' /\ events'[j - 1] = events[j]
      BY <1>6, <3>1, QueueShrinks
    <3>3. Announces(j - 1, w, "item/completed")'
      BY <3>2 DEF Announces
    <3> QED
      BY <3>2, <3>3 DEF ToComplete
  <2>3. /\ Kernel!Said(w, "item/completed")' <=> Kernel!Said(w, "item/completed")
        /\ Deltas(w)' = Deltas(w)
    BY <2>1 DEF Kernel!Said, Deltas
  <2> QED
    BY <1>2, <1>3, <2>2, <2>3
<1> QED
  BY <1>5, <1>6

(* A rendered task shows what the task left, and asks for empty reloads.   *)
LEMMA ContentRender ==
    ASSUME NEW tn, NEW s, NEW base, IsABag(base), Render(tn, s, base),
           \A i \in tn.items : Sound(i)',
           \A l \in BagToSet(base) : \A i \in l.items : Whole(i)'
    PROVE  Content'
<1>1. \A i \in turn'.items : Sound(i)'
  <2>1. Loading(s).items = {}
    BY DEF Loading, EmptyTurn
  <2> QED
    BY <2>1, RenderFacts
<1>2. \A l \in BagToSet(loads') : \A i \in l.items : Whole(i)'
  <2>1. Asked(s).items = {}
    BY DEF Asked
  <2> QED
    BY <2>1, RenderFacts
<1> QED
  BY <1>1, <1>2 DEF Content, BagToSet

(* The steps of a reload bring whole answers, and show them.               *)
LEMMA ContentReload ==
    ASSUME Types, Queue, Content, NEW l \in BagToSet(loads), Reload(l)
    PROVE  Content'
<1> DEFINE base == loads (-) SetToBag({l})
<1>1. UNCHANGED <<events, said, result>>
  BY QuietSteps
<1>2. \A i : (Sound(i) => Sound(i)') /\ (Whole(i) => Whole(i)')
  BY <1>1 DEF Sound, Whole, Final, Kernel!Said, Deltas, ToComplete, Announces
<1>3. IsABag(base) /\ BagToSet(base) \subseteq BagToSet(loads)
  BY BagFacts DEF Types
<1>4. \A x \in BagToSet(base) : \A i \in x.items : Whole(i)'
  BY <1>2, <1>3 DEF Content
<1>5. \A i \in turn.items : Sound(i)'
  BY <1>2 DEF Content
<1>6. l \in Loads /\ l.of \in Threads
  BY DEF Types, Loads
<1>7. ASSUME NEW x, loads' = base (+) SetToBag({x}), turn' = turn,
             \A i \in x.items : Whole(i)
      PROVE  Content'
  <2> HIDE DEF base
  <2>1. BagToSet(base (+) SetToBag({x})) = BagToSet(base) \cup {x}
    BY <1>3, BagFacts
  <2> QED
    BY <1>2, <1>4, <1>5, <1>7, <2>1 DEF Content, BagToSet
<1>8. CASE ReadSession(l)
  <2>1. \A i \in Transcript(l.of, AsMessage) : Whole(i)
    BY <1>6, TranscriptTyped DEF AsMessage, Whole
  <2>2. Answered(l, Transcript(l.of, AsMessage)).items = Transcript(l.of, AsMessage)
    BY DEF Answered
  <2>3. [l EXCEPT !.at = "failed"].items = l.items
    BY <1>6 DEF Loads
  <2>4. \A i \in l.items : Whole(i)
    BY DEF Content
  <2>5. turn' = turn
    BY <1>8 DEF ReadSession
  <2>6. \/ loads' = base (+) SetToBag({Answered(l, Transcript(l.of, AsMessage))})
        \/ loads' = base (+) SetToBag({[l EXCEPT !.at = "failed"]})
    BY <1>8 DEF ReadSession
  <2> HIDE DEF base
  <2> QED
    BY <1>7, <2>1, <2>2, <2>3, <2>4, <2>5, <2>6
<1>9. CASE ReadTimeline(l)
  <2>1. \A i \in Transcript(l.of, AsRow) : Whole(i)
    BY <1>6, TranscriptTyped DEF AsRow, Whole
  <2>2. Whole(Preview(l.of))
    BY DEF Whole, Preview, Item
  <2>3. \A items : [l EXCEPT !.at = "loaded", !.items = items].items = items
    BY <1>6 DEF Loads
  <2>4. turn' = turn
    BY <1>9 DEF ReadTimeline
  <2> DEFINE rows == IF life[l.of] = "open" THEN Transcript(l.of, AsRow) ELSE {}
             items == IF rows = {} THEN {Preview(l.of)} ELSE rows
  <2>5. /\ loads' = base (+) SetToBag({[l EXCEPT !.at = "loaded", !.items = items]})
        /\ \A i \in items : Whole(i)
    BY <1>9, <2>1, <2>2 DEF ReadTimeline
  <2> HIDE DEF base, items
  <2> QED
    BY <1>7, <2>3, <2>4, <2>5
<1>10. CASE Load(l)
  <2>1. \A i \in l.items : Sound(i)'
    <3>1. \A i \in l.items : Whole(i)'
      BY <1>2 DEF Content
    <3> QED
      BY <3>1 DEF Whole, Sound
  <2>2. [Loading(l.of) EXCEPT !.items = l.items].items = l.items
    BY DEF Loading, EmptyTurn
  <2> HIDE DEF base
  <2> QED
    BY <1>3, <1>4, <1>10, <2>1, <2>2, ContentRender DEF Load, base
<1>11. CASE LoadFails(l)
  BY <1>4, <1>5, <1>11 DEF LoadFails, Content, BagToSet
<1> QED
  BY <1>8, <1>9, <1>10, <1>11 DEF Reload

(* Reducing a notification leaves each answer sound: a delta that doubles  *)
(* what a reload brought has the item's completion behind it.              *)
LEMMA ContentNotify ==
    ASSUME Types, Queue, Content, Notify
    PROVE  Content'
<1>1. /\ Head(events) = events[1] /\ 1 \in DOMAIN events
      /\ events[1] \in Notifications
  BY QueueShrinks, QueueTyped
<1>2. PICK e \in Notifications : e = Head(events)
  BY <1>1
<1>3. PICK u \in Turns : u = e.turn
  BY DEF Notifications
<1>4. \A l \in BagToSet(loads) : \A i \in l.items : Whole(i)'
  BY WholeStays DEF Content
<1>5. \A i \in Reduce(e).items : Sound(i)'
  <2>1. \A k : \A w \in Turns : Announces(1, w, k) <=> w = u /\ k = e.kind
    BY <1>1, <1>2, <1>3 DEF Announces
  <2>2. \A k : \A w \in Turns : Kernel!Said(w, k)' <=> Kernel!Said(w, k)
    BY QueueShrinks DEF Kernel!Said
  <2>3. \A w \in Turns : Deltas(w)' = Deltas(w)
    BY QueueShrinks DEF Deltas
  <2>4. ASSUME NEW i \in turn.items,
               e.kind = "item/completed" => ~Is(i, "answer", u)
        PROVE  Sound(i)'
    <3>1. Sound(i)
      BY DEF Content
    <3>2. CASE i.slot # "answer"
      BY <3>2 DEF Sound
    <3>3. CASE i.slot = "answer"
      <4>1. i.key \in Turns
        BY <3>1, <3>3 DEF Sound
      <4>2. ~Announces(1, i.key, "item/completed")
        BY <2>1, <2>4, <3>3, <4>1 DEF Is
      <4> QED
        BY <3>1, <4>2, SoundStays
    <3> QED
      BY <3>2, <3>3
  <2>5. PICK t : t = of[u]
    OBVIOUS
  <2>6. ASSUME NEW n, Reduce(e) = Answer(u, n),
               Kernel!Said(u, "item/completed") => n = Deltas(u) \/ ToComplete(u)'
        PROVE  \A i \in Reduce(e).items : Sound(i)'
    <3> DEFINE new == Item("answer", u, t, "agentMessage", n)
    <3>1. Reduce(e).items = Without(turn.items, "answer", u) \cup {new}
      BY <2>5, <2>6 DEF Answer, Types, Turn
    <3>2. \A i \in Without(turn.items, "answer", u) : Sound(i)'
      BY <2>4 DEF Without
    <3>3. new.slot = "answer" /\ new.key = u /\ new.text = n
      BY DEF Item
    <3> HIDE DEF new
    <3>4. Sound(new)'
      BY <2>2, <2>3, <2>6, <3>3 DEF Sound
    <3> QED
      BY <3>1, <3>2, <3>4
  <2>7. ASSUME e.kind \in {"item/started", "delta"}, Kernel!Said(u, "item/completed")
        PROVE  ToComplete(u)'
    <3>1. e.kind \in Opening /\ Closes(e.kind) = "item/completed"
      BY <2>7 DEF Opening, Closes
    <3>2. PICK j \in DOMAIN events : 1 < j /\ Announces(j, u, "item/completed")
      BY <1>1, <2>1, <2>7, <3>1 DEF Queue
    <3>3. j - 1 \in DOMAIN events' /\ events'[j - 1] = events[j]
      BY <3>2, QueueShrinks, LenProperties DEF Types
    <3>4. Announces(j - 1, u, "item/completed")'
      BY <3>2, <3>3 DEF Announces
    <3> QED
      BY <3>3, <3>4 DEF ToComplete
  <2>8. CASE e.kind = "item/started"
    BY <1>3, <2>6, <2>7, <2>8 DEF Reduce
  <2>9. CASE e.kind = "delta"
    BY <1>3, <2>6, <2>7, <2>9 DEF Reduce
  <2>10. CASE e.kind = "item/completed"
    <3>1. e.text = Deltas(u)
      BY <1>1, <1>2, <2>1, <2>10 DEF Queue
    <3>2. Reduce(e) = Answer(u, e.text)
      BY <1>3, <2>10 DEF Reduce, Completed
    <3> QED
      BY <2>6, <3>1, <3>2
  <2>11. CASE e.kind \in {"turn/started", "turn/completed"}
    <3>1. Reduce(e).items \subseteq turn.items
      BY <2>11 DEF Reduce, Started, Finished, Types, Turn
    <3> QED
      BY <2>4, <2>11, <3>1
  <2>12. e.kind \in Relevant
    BY DEF Notifications
  <2> QED
    BY <2>8, <2>9, <2>10, <2>11, <2>12 DEF Relevant
<1> QED
  BY <1>2, <1>4, <1>5, ContentRender DEF Notify, Types

(* A send adds and removes bubbles, never an answer.                       *)
LEMMA ContentSending ==
    ASSUME Types, Queue, Content, Sending
    PROVE  Content'
<1>1. UNCHANGED <<events, said, result>>
  BY QuietSteps
<1>2. \A i : (Sound(i) => Sound(i)') /\ (Whole(i) => Whole(i)')
  BY <1>1 DEF Sound, Whole, Final, Kernel!Said, Deltas, ToComplete, Announces
<1>3. /\ \A l \in BagToSet(loads) : \A i \in l.items : Whole(i)'
      /\ \A i \in turn.items : Sound(i)'
  BY <1>2 DEF Content
<1>4. CASE UNCHANGED <<turn, loads>>
  BY <1>3, <1>4 DEF Content, BagToSet
<1>5. ASSUME NEW tn, NEW s, Render(tn, s, loads),
             \A i \in tn.items : i \in turn.items \/ i.slot = "bubble"
      PROVE  Content'
  <2>1. \A i \in tn.items : Sound(i)'
    BY <1>3, <1>5 DEF Sound
  <2> QED
    BY <1>3, <1>5, <2>1, ContentRender DEF Types
<1>6. \A t, n : \A i \in BeginUserTurn(t, n).items : i \in turn.items \/ i.slot = "bubble"
  BY DEF BeginUserTurn, Bubble, Item
<1>7. RolledBack.items \subseteq turn.items
  BY DEF RolledBack, Without, Types, Turn
<1> QED
  BY <1>4, <1>5, <1>6, <1>7
     DEF Sending, Submit, OpenSession, Opened, Accepted, Refused, Sent, NotSent

(* Moving shows nothing, or what was shown.                                *)
LEMMA ContentMoving ==
    ASSUME Types, Queue, Content, Moving
    PROVE  Content'
<1>1. UNCHANGED <<events, said, result>>
  BY QuietSteps
<1>2. \A i : (Sound(i) => Sound(i)') /\ (Whole(i) => Whole(i)')
  BY <1>1 DEF Sound, Whole, Final, Kernel!Said, Deltas, ToComplete, Announces
<1>3. /\ \A l \in BagToSet(loads) : \A i \in l.items : Whole(i)'
      /\ \A i \in turn.items : Sound(i)'
  BY <1>2 DEF Content
<1>4. CASE UNCHANGED <<turn, loads>>
  BY <1>3, <1>4 DEF Content, BagToSet
<1>5. ASSUME NEW tn, NEW s, Render(tn, s, loads), tn.items \subseteq turn.items
      PROVE  Content'
  BY <1>3, <1>5, ContentRender DEF Types
<1>6. EmptyTurn.items = {} /\ \A t : Loading(t).items = {}
  BY DEF EmptyTurn, Loading
<1>7. ASSUME NEW t \in Threads, Pick(t) PROVE Content'
  <2>1. CASE Render(turn, t, loads)
    BY <1>5, <2>1
  <2>2. CASE Render(Loading(t), t, loads (+) Bagged(Asked(t), 1))
    <3> DEFINE b == loads (+) Bagged(Asked(t), 1)
    <3>1. /\ IsABag(b)
          /\ BagToSet(b) = IF 1 = 0 THEN BagToSet(loads)
                           ELSE BagToSet(loads) \cup {Asked(t)}
      BY BagFacts, 1 \in Nat DEF Types
    <3> HIDE DEF b
    <3>2. Asked(t).items = {}
      BY DEF Asked
    <3>3. \A l \in BagToSet(b) : \A i \in l.items : Whole(i)'
      BY <1>3, <3>1, <3>2
    <3> QED
      BY <1>6, <2>2, <3>1, <3>3, ContentRender DEF b
  <2> QED
    BY <1>7, <2>1, <2>2 DEF Pick
<1> QED
  BY <1>4, <1>5, <1>6, <1>7 DEF Moving, NewTask, Projectless, Delete, Deleted

(* So every step keeps the answers sound.                                  *)
LEMMA ContentStep ==
    ASSUME Types, Queue, Content, [Next]_vars
    PROVE  Content'
<1>1. ASSUME NEW u \in Turns, KernelStep(u) PROVE Content'
  <2>1. UNCHANGED <<turn, loads>>
    BY <1>1 DEF KernelStep
  <2> QED
    BY <1>1, <2>1, WholeStays, SoundStays DEF Content, BagToSet
<1>2. CASE UNCHANGED vars
  BY <1>2 DEF vars, kernelVars, Content, Sound, Whole, Final, Kernel!Said,
              Deltas, ToComplete, Announces, BagToSet
<1> QED
  BY <1>1, <1>2, ContentReload, ContentNotify, ContentSending, ContentMoving
     DEF Next

-----------------------------------------------------------------------------
IInv == Types /\ Queue /\ Live /\ Content

(* The inductive invariant holds at first,                                 *)
LEMMA IInvInit == Init => IInv
<1> SUFFICES ASSUME Init PROVE IInv
  OBVIOUS
<1>1. Types
  BY TypesInit
<1>2. Queue
  BY DEF Init, Queue
<1>3. Live
  BY DEF Init, Live, RunningIsReal, EmptyTurn
<1>4. Content
  BY DEF Init, Content, EmptyTurn, EmptyBag, SetToBag, BagToSet
<1> QED
  BY <1>1, <1>2, <1>3, <1>4 DEF IInv

(* every step keeps it,                                                    *)
LEMMA IInvStep == IInv /\ [Next]_vars => IInv'
  BY TypesStep, QueueStep, LiveStep, ContentStep DEF IInv

(* and so it always holds.                                                 *)
LEMMA IInvAlways == Spec => []IInv
  BY IInvInit, IInvStep, PTL DEF Spec

(* The variables of the UI, the queue and the reloads under way have their *)
(* types, whatever crosses.                                                *)
THEOREM TypesCorrect == Spec => []TypeOK
<1>1. IInv => TypeOK
  BY TypesTypeOK DEF IInv
<1> QED
  BY <1>1, IInvAlways, PTL

(* The stop button always has something to stop: a turn shown as running   *)
(* is a message under way, or a turn of the session on screen whose end    *)
(* the UI has not been told.                                               *)
THEOREM RunningTurnsAreReal == Spec => []RunningIsReal
<1>1. IInv => RunningIsReal
  BY DEF IInv, Live
<1> QED
  BY <1>1, IInvAlways, PTL

(* However reloads and deltas cross, an answer whose item is complete and  *)
(* of which nothing is on its way is shown whole, neither torn nor         *)
(* doubled.                                                                *)
THEOREM CompletedAnswersAreWhole == Spec => []CompletedAnswerIsWhole
<1>1. IInv => CompletedAnswerIsWhole
  BY DEF IInv, Content, Sound, ToComplete, Announces, CompletedAnswerIsWhole
<1> QED
  BY <1>1, IInvAlways, PTL
=============================================================================
