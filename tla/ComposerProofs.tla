---------------------------- MODULE ComposerProofs ----------------------------
(***************************************************************************)
(* What the composer sends, for any number of drafts, files, sessions and  *)
(* navigations.                                                            *)
(*                                                                         *)
(* SentOnce speaks of what was received; why it holds is in the box, the   *)
(* calls under way and the prompts on their way.  A draft that is still in *)
(* the box can be on its way only as the message of this composer, before  *)
(* its session is selected, and then `sending` disables the button         *)
(* (BoxIsFree); when the page is left, the box goes with it.               *)
(***************************************************************************)
EXTENDS Composer, TLAPS

Pending == {"creating", "created", "sending"}
Stages  == Pending \cup {"no id", "failed", "taken"}

(* A call of send is a record, and knows where its message goes.           *)
Target(m)  == IF m.chosen = None THEN m.draft ELSE m.chosen
IsMsg(m)   == m = [draft |-> m.draft, files |-> m.files, to |-> m.to,
                   chosen |-> m.chosen, nr |-> m.nr, mine |-> m.mine]
IsSend(x)  == /\ x = [msg |-> x.msg, at |-> x.at] /\ IsMsg(x.msg)
              /\ x.at \in Stages
              /\ x.at \in {"creating", "created"} => x.msg.chosen = None
              /\ x.at = "sending" => x.msg.to = Target(x.msg)
SendsOK    == \A x \in sends : IsSend(x)

(* A composer has at most one call, and is blocked exactly while it has.   *)
OneCall ==
    /\ \A x, y \in sends : x.msg.mine /\ y.msg.mine => x = y
    /\ \A x \in sends : x.msg.mine => sending

(* Drafts are numbered as they come, and a prompt on its way is new.       *)
Tasks == {HashChange} \cup ({"prompt"} \X Nat)
Fresh(k) == /\ k # text
            /\ \A x \in sends : k # x.msg.draft
            /\ \A m \in received : k # m.draft
Numbered ==
    /\ drafts \in Nat /\ text \in 0..drafts
    /\ \A x \in sends : x.msg.draft \in 1..drafts
    /\ \A m \in received : m.draft \in 1..drafts
    /\ tasks \in Seq(Tasks)
    /\ \A i, j \in Prompts : i = j
    /\ \A i \in Prompts : tasks[i][2] \in 1..drafts /\ Fresh(tasks[i][2])

Unreceived == \A x \in sends : x.at \in Pending =>
    /\ \A m \in received : m.draft # x.msg.draft
    /\ \A y \in sends : y.at \in Pending /\ y.msg.draft = x.msg.draft => x = y

BoxIsFree == text # 0 =>
    /\ \A m \in received : m.draft # text
    /\ \A x \in sends : x.at \in Pending /\ x.msg.draft = text =>
           x.msg.mine /\ x.at \in {"creating", "created"}

(* At most one mock turn plays, and its timers are in the list.            *)
OneScript == (\A x, y \in scripts : x = y) /\ (playing <=> scripts # {})

(* A change of the hash that the components do not know of yet has its     *)
(* event queued; a prompt on its way to a composer that is not there yet   *)
(* is behind the event that mounts it.                                     *)
Awaited == current = hash \/ \E j \in DOMAIN tasks : tasks[j] = HashChange
Led == ~moved => \A i \in Prompts :
    /\ hash = "home"
    /\ HomeMounted \/ \E j \in DOMAIN tasks : j < i /\ tasks[j] = HashChange
OnItsWay == Awaited /\ Led

Inv == /\ SendsOK /\ OneCall /\ Numbered /\ Unreceived /\ BoxIsFree
       /\ BlockedBySend /\ SentWhereShown /\ SentOnce

-----------------------------------------------------------------------------
(* The queue of tasks.                                                     *)

LEMMA HashAppended ==
    ASSUME NEW ts \in Seq(Tasks), tasks = ts, tasks' = Append(ts, HashChange)
    PROVE  /\ tasks' \in Seq(Tasks) /\ Prompts' = Prompts
           /\ \A i \in Prompts : tasks'[i] = tasks[i]
BY DEF Prompts, Tasks

LEMMA TaskTaken ==
    ASSUME tasks \in Seq(Tasks), tasks # <<>>, tasks' = Tail(tasks)
    PROVE  /\ tasks' \in Seq(Tasks)
           /\ \A i \in Prompts' : i + 1 \in Prompts /\ tasks'[i] = tasks[i + 1]
<1>1. /\ tasks' \in Seq(Tasks) /\ Len(tasks') = Len(tasks) - 1
      /\ \A i \in 1..Len(tasks') : tasks'[i] = tasks[i + 1]
  OBVIOUS
<1> QED
  BY <1>1 DEF Prompts

(* The steps that only navigate.                                           *)
LEMMA NavigateKeeps ==
    ASSUME Inv, NEW route, Navigate(route),
           UNCHANGED <<text, sending, sends, drafts, received>>
    PROVE  Inv'
<1>1. tasks' = tasks \/ tasks' = Append(tasks, HashChange)
  BY DEF Navigate
<1>2. tasks \in Seq(Tasks)
  BY DEF Inv, Numbered
<1>3. /\ tasks' \in Seq(Tasks) /\ Prompts' = Prompts
      /\ \A i \in Prompts : tasks'[i] = tasks[i]
  BY <1>1, <1>2, HashAppended DEF Prompts
<1>4. Numbered'
  BY <1>3 DEF Inv, Numbered, Fresh
<1> QED
  BY <1>4 DEF Inv, SendsOK, OneCall, Unreceived, BoxIsFree, BlockedBySend,
        SentWhereShown, SentOnce

-----------------------------------------------------------------------------
(* The box.                                                                *)

LEMMA TypeKeeps ==
    ASSUME Inv, Type
    PROVE  Inv'
<1>1. /\ text' = drafts + 1 /\ drafts' = drafts + 1
      /\ UNCHANGED <<sending, sends, received, tasks>>
  BY DEF Type, NewDraft, KeepRoute, routerVars
<1>2. Numbered'
  BY <1>1 DEF Inv, Numbered, Fresh, Prompts
<1>3. BoxIsFree'
  BY <1>1 DEF Inv, Numbered, BoxIsFree
<1> QED
  BY <1>1, <1>2, <1>3 DEF Inv, SendsOK, OneCall, Unreceived, BlockedBySend,
        SentWhereShown, SentOnce

(* The box is emptied and nothing is sent.                                 *)
LEMMA EmptiedKeeps ==
    ASSUME Inv, text' = 0,
           UNCHANGED <<sending, sends, received, drafts, tasks>>
    PROVE  Inv'
<1>1. Numbered'
  BY DEF Inv, Numbered, Fresh, Prompts
<1> QED
  BY <1>1 DEF Inv, SendsOK, OneCall, Unreceived, BoxIsFree, BlockedBySend,
        SentWhereShown, SentOnce

-----------------------------------------------------------------------------
(* send.                                                                   *)

(* The button is enabled: no call of this composer, and the draft in the   *)
(* box is neither received nor on its way.                                 *)
LEMMA MayStart ==
    ASSUME Inv, MaySend
    PROVE  /\ text \in 1..drafts
           /\ \A x \in sends : ~x.msg.mine
           /\ \A x \in sends : x.at \in Pending => x.msg.draft # text
           /\ \A m \in received : m.draft # text
BY DEF Inv, MaySend, OneCall, BoxIsFree, Numbered

(* Send and SendNew add a call of this composer.                           *)
LEMMA StartKeeps ==
    ASSUME Inv, MaySend, NEW at \in {"creating", "sending"},
           at = "creating" <=> selected = None,
           sends' = sends \cup {[msg |-> Message, at |-> at]}, sending' = TRUE,
           text' = IF at = "creating" THEN text ELSE 0,
           UNCHANGED <<received, drafts, tasks>>
    PROVE  Inv'
<1> DEFINE n == [msg |-> Message, at |-> at]
<1>1. /\ n.msg.draft = text /\ n.msg.mine = TRUE /\ n.at = at /\ IsSend(n)
      /\ sends' = sends \cup {n}
  BY DEF Message, IsSend, IsMsg, Target, Stages, Pending
<1> HIDE DEF n
<1>2. SendsOK'
  BY <1>1 DEF Inv, SendsOK
<1>3. OneCall' /\ BlockedBySend'
  BY <1>1, MayStart DEF OneCall, BlockedBySend
<1>4. Numbered'
  BY <1>1, MayStart DEF Inv, Numbered, Fresh, Prompts
<1>5. Unreceived'
  BY <1>1, MayStart DEF Inv, Unreceived
<1>6. BoxIsFree'
  BY <1>1, MayStart DEF BoxIsFree
<1> QED
  BY <1>2, <1>3, <1>4, <1>5, <1>6 DEF Inv, SentWhereShown, SentOnce

(* What a call becomes: the same message of the same composer.             *)
Follows(n, x) ==
    /\ IsSend(n) /\ n.msg.draft = x.msg.draft /\ n.msg.mine = x.msg.mine
    /\ n.at \in Pending => x.at \in Pending
    /\ sends' = (sends \ {x}) \cup {n}

LEMMA FollowsKeeps ==
    ASSUME Inv, NEW x \in sends, NEW n, Follows(n, x), UNCHANGED sending,
           \/ UNCHANGED received
           \/ /\ received' = received \cup {x.msg}
              /\ x.at \in Pending /\ n.at \notin Pending
    PROVE  SendsOK' /\ OneCall' /\ BlockedBySend' /\ Unreceived'
<1>1. SendsOK'
  BY DEF Inv, SendsOK, Follows
<1>2. OneCall' /\ BlockedBySend'
  BY DEF Inv, OneCall, BlockedBySend, Follows
<1>3. Unreceived'
  BY DEF Inv, Unreceived, Follows
<1> QED
  BY <1>1, <1>2, <1>3

LEMMA BecomesFollows ==
    ASSUME SendsOK, NEW x \in sends, NEW at \in Stages, Becomes(x, at),
           at \in {"creating", "created"} => x.at \in {"creating", "created"},
           at # "sending"
    PROVE  LET n == [x EXCEPT !.at = at]
           IN  Follows(n, x) /\ n.at = at /\ n.msg = x.msg
<1> DEFINE n == [x EXCEPT !.at = at]
<1>1. IsSend(x)
  BY DEF SendsOK
<1>2. n.msg = x.msg /\ n.at = at /\ n = [msg |-> n.msg, at |-> n.at]
  BY <1>1 DEF IsSend
<1>3. sends' = (sends \ {x}) \cup {n}
  BY DEF Becomes
<1> HIDE DEF n
<1>4. Follows(n, x)
  BY <1>1, <1>2, <1>3 DEF Follows, IsSend, Pending, Stages
<1> QED
  BY <1>2, <1>4 DEF n

(* Nothing new is numbered by a step of a call.                            *)
LEMMA NumberedKeeps ==
    ASSUME Numbered, text' \in {text, 0}, UNCHANGED <<drafts, tasks>>,
           \A y \in sends' : \E z \in sends : y.msg.draft = z.msg.draft,
           \A m \in received' : m \in received \/ \E z \in sends : m = z.msg
    PROVE  Numbered'
<1>1. Prompts' = Prompts
  BY DEF Prompts
<1> QED
  BY <1>1 DEF Numbered, Fresh

LEMMA NewSessionKeeps ==
    ASSUME Inv, NEW x \in sends, NewSession(x)
    PROVE  Inv'
<1>1. PICK at \in {"created", "no id", "failed"} : Becomes(x, at)
  BY DEF NewSession
<1>2. /\ x.at = "creating"
      /\ UNCHANGED <<text, sending, received, drafts, tasks>>
  BY DEF NewSession, KeepRoute, routerVars, boxVars
<1> DEFINE n == [x EXCEPT !.at = at]
<1>3. Follows(n, x) /\ n.at = at
  BY <1>1, <1>2, BecomesFollows DEF Inv, Stages, Pending
<1> HIDE DEF n
<1>4. SendsOK' /\ OneCall' /\ BlockedBySend' /\ Unreceived'
  BY <1>2, <1>3, FollowsKeeps
<1>5. Numbered'
  BY <1>2, <1>3, NumberedKeeps DEF Inv, Follows
<1>6. BoxIsFree'
  BY <1>2, <1>3 DEF Inv, BoxIsFree, Follows, Pending
<1> QED
  BY <1>2, <1>4, <1>5, <1>6 DEF Inv, SentWhereShown, SentOnce

LEMMA SendMessageKeeps ==
    ASSUME Inv, NEW x \in sends, SendMessage(x)
    PROVE  Inv'
<1>1. /\ x.at = "sending"
      /\ UNCHANGED <<text, sending, drafts, tasks>>
  BY DEF SendMessage, KeepRoute, routerVars, boxVars
<1>2. x.msg.to = Target(x.msg)
  BY <1>1 DEF Inv, SendsOK, IsSend
<1>3. PICK at \in {"taken", "failed"} :
          /\ Becomes(x, at)
          /\ received' = IF at = "taken" THEN received \cup {x.msg} ELSE received
  BY DEF SendMessage
<1> DEFINE n == [x EXCEPT !.at = at]
<1>4. Follows(n, x) /\ n.at = at
  BY <1>3, BecomesFollows DEF Inv, Stages, Pending
<1> HIDE DEF n
<1>5. SendsOK' /\ OneCall' /\ BlockedBySend' /\ Unreceived'
  BY <1>1, <1>3, <1>4, FollowsKeeps DEF Pending
<1>6. Numbered'
  <2>1. \A y \in sends' : \E z \in sends : y.msg.draft = z.msg.draft
    BY <1>4 DEF Follows
  <2>2. \A m \in received' : m \in received \/ m = x.msg
    BY <1>3
  <2>3. Prompts' = Prompts
    BY <1>1 DEF Prompts
  <2> QED
    BY <1>1, <2>1, <2>2, <2>3 DEF Inv, Numbered, Fresh
<1>7. BoxIsFree'
  BY <1>1, <1>3, <1>4 DEF Inv, BoxIsFree, Follows, Pending
<1>8. SentWhereShown'
  BY <1>2, <1>3 DEF Inv, SentWhereShown, Target
<1>9. SentOnce'
  BY <1>1, <1>3 DEF Inv, SentOnce, Unreceived, Pending
<1> QED
  BY <1>5, <1>6, <1>7, <1>8, <1>9 DEF Inv

LEMMA CreatedKeeps ==
    ASSUME Inv, NEW x \in sends, Created(x)
    PROVE  Inv'
<1> DEFINE n == [msg |-> [x.msg EXCEPT !.to = x.msg.draft], at |-> "sending"]
<1>1. /\ x.at = "created" /\ sends' = (sends \ {x}) \cup {n}
      /\ UNCHANGED <<sending, received, drafts, tasks>>
      /\ text' = IF x.msg.mine THEN 0 ELSE text
  BY DEF Created, KeepRoute, routerVars
<1>2. IsSend(x) /\ x.msg.chosen = None
  BY <1>1 DEF Inv, SendsOK, IsSend
<1>3. n = [at |-> "sending",
           msg |-> [draft |-> x.msg.draft, files |-> x.msg.files,
                    to |-> x.msg.draft, chosen |-> x.msg.chosen,
                    nr |-> x.msg.nr, mine |-> x.msg.mine]]
  <2> DEFINE m == [x.msg EXCEPT !.to = x.msg.draft]
  <2>1. m = [draft |-> x.msg.draft, files |-> x.msg.files,
             to |-> x.msg.draft, chosen |-> x.msg.chosen,
             nr |-> x.msg.nr, mine |-> x.msg.mine]
    BY <1>2 DEF IsSend, IsMsg
  <2> QED
    BY <2>1
<1> HIDE DEF n
<1>4. Follows(n, x) /\ n.at = "sending"
  BY <1>1, <1>2, <1>3 DEF Follows, IsSend, IsMsg, Target, Stages, Pending
<1>5. SendsOK' /\ OneCall' /\ BlockedBySend' /\ Unreceived'
  BY <1>1, <1>4, FollowsKeeps
<1>6. Numbered'
  BY <1>1, <1>4 DEF Inv, Numbered, Fresh, Prompts, Follows
<1>7. BoxIsFree'
  BY <1>1, <1>4 DEF Inv, BoxIsFree, Follows, Pending
<1> QED
  BY <1>1, <1>5, <1>6, <1>7 DEF Inv, SentWhereShown, SentOnce

LEMMA FinallyKeeps ==
    ASSUME Inv, NEW x \in sends, Finally(x)
    PROVE  Inv'
<1>1. /\ sends' = sends \ {x} /\ sending' = (sending /\ ~x.msg.mine)
      /\ UNCHANGED <<text, received, drafts, tasks>>
  BY DEF Finally, KeepRoute, routerVars
<1>2. OneCall' /\ BlockedBySend'
  BY <1>1 DEF Inv, OneCall, BlockedBySend
<1>3. Numbered'
  BY <1>1 DEF Inv, Numbered, Fresh, Prompts
<1> QED
  BY <1>1, <1>2, <1>3 DEF Inv, SendsOK, Unreceived, BoxIsFree, SentWhereShown,
        SentOnce

-----------------------------------------------------------------------------
(* Prompts, and the end of the home page.                                  *)

LEMMA PickPromptKeeps ==
    ASSUME Inv, PickPrompt
    PROVE  Inv'
<1> DEFINE ts == IF hash = "home" THEN tasks ELSE Append(tasks, HashChange)
           p  == <<"prompt", drafts + 1>>
<1>1. /\ tasks' = Append(ts, p) /\ drafts' = drafts + 1 /\ Prompts = {}
      /\ UNCHANGED <<text, sending, sends, received>>
  BY DEF PickPrompt, NewDraft, KeepBox, boxVars
<1>2. tasks \in Seq(Tasks) /\ \A i \in 1..Len(tasks) : tasks[i] = HashChange
  BY <1>1 DEF Inv, Numbered, Prompts
<1>3. ts \in Seq(Tasks) /\ \A i \in 1..Len(ts) : ts[i] = HashChange
  <2>1. CASE ts = tasks
    BY <1>2, <2>1
  <2>2. CASE ts = Append(tasks, HashChange)
    BY <1>2, <2>2 DEF Tasks
  <2> QED
    BY <2>1, <2>2
<1>4. p \in Tasks /\ p[2] = drafts + 1 /\ drafts + 1 \in Nat
  BY DEF Tasks, Inv, Numbered
<1> HIDE DEF ts, p
<1>5. /\ tasks' \in Seq(Tasks) /\ Len(tasks') = Len(ts) + 1
      /\ tasks'[Len(ts) + 1] = p
      /\ \A i \in 1..Len(ts) : tasks'[i] = HashChange
  BY <1>1, <1>3, <1>4
<1>6. Prompts' \subseteq {Len(ts) + 1} /\ Len(ts) \in Nat
  BY <1>3, <1>5 DEF Prompts
<1>7. Numbered'
  BY <1>1, <1>4, <1>5, <1>6 DEF Inv, Numbered, Fresh
<1> QED
  BY <1>1, <1>7 DEF Inv, SendsOK, OneCall, Unreceived, BoxIsFree,
        BlockedBySend, SentWhereShown, SentOnce

LEMMA PromptTimerKeeps ==
    ASSUME Inv, PromptTimer
    PROVE  Inv'
<1>1. /\ tasks # <<>> /\ Head(tasks) # HashChange /\ tasks' = Tail(tasks)
      /\ text' = IF HomeMounted THEN Head(tasks)[2] ELSE text
      /\ UNCHANGED <<sending, sends, received, drafts>>
  BY DEF PromptTimer
<1>2. tasks \in Seq(Tasks)
  BY DEF Inv, Numbered
<1>3. 1 \in Prompts /\ Head(tasks) = tasks[1]
  BY <1>1, <1>2 DEF Prompts
<1>4. Prompts' = {} /\ tasks' \in Seq(Tasks)
  <2>1. ASSUME NEW i \in Prompts'
        PROVE  FALSE
    <3>1. i + 1 \in Prompts /\ i \in 1..Len(tasks')
      BY <1>1, <1>2, <2>1, TaskTaken DEF Prompts
    <3>2. i + 1 = 1
      BY <1>3, <3>1 DEF Inv, Numbered
    <3> QED
      BY <3>1, <3>2
  <2> QED
    BY <1>1, <1>2, <2>1, TaskTaken
<1>5. text' = text \/ (text' \in 1..drafts /\ Fresh(text'))
  BY <1>1, <1>3 DEF Inv, Numbered
<1>6. Numbered'
  BY <1>1, <1>4, <1>5 DEF Inv, Numbered
<1>7. BoxIsFree'
  BY <1>1, <1>5 DEF Inv, BoxIsFree, Fresh
<1> QED
  BY <1>1, <1>6, <1>7 DEF Inv, SendsOK, OneCall, Unreceived, BlockedBySend,
        SentWhereShown, SentOnce

(* The composer is gone: what it sends goes on without it.                 *)
LEMMA OrphanOK ==
    ASSUME NEW x, IsSend(x)
    PROVE  /\ IsSend(Orphan(x)) /\ Orphan(x).at = x.at
           /\ Orphan(x).msg.draft = x.msg.draft /\ Orphan(x).msg.mine = FALSE
<1> DEFINE v == x.msg
           m == [v EXCEPT !.mine = FALSE]
<1>1. v = [draft |-> v.draft, files |-> v.files, to |-> v.to,
           chosen |-> v.chosen, nr |-> v.nr, mine |-> v.mine]
  BY DEF IsSend, IsMsg
<1> HIDE DEF v
<1>2. m = [draft |-> v.draft, files |-> v.files, to |-> v.to,
           chosen |-> v.chosen, nr |-> v.nr, mine |-> FALSE]
  <2>1. DOMAIN v = {"draft", "files", "to", "chosen", "nr", "mine"}
    BY <1>1
  <2>2. DOMAIN m = {"draft", "files", "to", "chosen", "nr", "mine"}
    BY <2>1
  <2>3. /\ m.draft = v.draft /\ m.files = v.files /\ m.to = v.to
        /\ m.chosen = v.chosen /\ m.nr = v.nr /\ m.mine = FALSE
    BY <2>1
  <2>4. m = [k \in DOMAIN m |-> m[k]]
    OBVIOUS
  <2> HIDE DEF m
  <2> QED
    BY <2>2, <2>3, <2>4
<1>3. Orphan(x) = [msg |-> m, at |-> x.at]
  BY DEF Orphan, v
<1> HIDE DEF m
<1>4. /\ Orphan(x).msg = m /\ Orphan(x).at = x.at
      /\ Orphan(x) = [msg |-> Orphan(x).msg, at |-> Orphan(x).at]
  BY <1>3
<1>5. /\ m.draft = v.draft /\ m.to = v.to /\ m.chosen = v.chosen
      /\ m.mine = FALSE /\ IsMsg(m)
  BY <1>2 DEF IsMsg
<1> QED
  BY <1>4, <1>5 DEF IsSend, Target, v

LEMMA RouteChangedKeeps ==
    ASSUME Inv, RouteChanged
    PROVE  Inv'
<1>1. /\ tasks # <<>> /\ tasks' = Tail(tasks) /\ UNCHANGED <<received, drafts>>
  BY DEF RouteChanged, OnChange
<1>2. /\ tasks' \in Seq(Tasks)
      /\ \A i \in Prompts' : i + 1 \in Prompts /\ tasks'[i] = tasks[i + 1]
  BY <1>1, TaskTaken DEF Inv, Numbered
<1>3. \A i, j \in Prompts' : i = j
  <2>1. \A i, j \in Prompts' : i + 1 = j + 1
    BY <1>2 DEF Inv, Numbered
  <2>2. \A i \in Prompts' : i \in Nat
    BY DEF Prompts
  <2> QED
    BY <2>1, <2>2
<1>4. \A i \in Prompts' : tasks'[i][2] \in 1..drafts /\ Fresh(tasks'[i][2])
  BY <1>2 DEF Inv, Numbered
<1>5. CASE UNCHANGED <<text, sending, sends>>
  <2>1. Numbered'
    BY <1>1, <1>2, <1>3, <1>4, <1>5 DEF Inv, Numbered, Fresh
  <2> QED
    BY <1>1, <1>5, <2>1 DEF Inv, SendsOK, OneCall, Unreceived, BoxIsFree,
          BlockedBySend, SentWhereShown, SentOnce
<1>6. CASE /\ text' = 0 /\ sending' = FALSE
           /\ sends' = {Orphan(x) : x \in sends}
  <2>1. \A x \in sends : /\ IsSend(Orphan(x)) /\ Orphan(x).at = x.at
                         /\ Orphan(x).msg.draft = x.msg.draft
                         /\ Orphan(x).msg.mine = FALSE
    BY OrphanOK DEF Inv, SendsOK
  <2>2. SendsOK' /\ OneCall' /\ BlockedBySend'
    BY <1>6, <2>1 DEF SendsOK, OneCall, BlockedBySend
  <2>3. \A y \in sends' : \E x \in sends :
           y = Orphan(x) /\ y.at = x.at /\ y.msg.draft = x.msg.draft
    BY <1>6, <2>1
  <2>4. Unreceived'
    <3>1. \A x \in sends : x.at \in Pending =>
              \A m \in received : m.draft # x.msg.draft
      BY DEF Inv, Unreceived
    <3>2. \A x, z \in sends :
              (x.at \in Pending /\ z.at \in Pending
                   /\ z.msg.draft = x.msg.draft) => x = z
      BY DEF Inv, Unreceived
    <3>3. ASSUME NEW y \in sends', y.at \in Pending
          PROVE  /\ \A m \in received : m.draft # y.msg.draft
                 /\ \A z \in sends' :
                      z.at \in Pending /\ z.msg.draft = y.msg.draft => y = z
      <4>1. PICK x \in sends :
                y = Orphan(x) /\ y.at = x.at /\ y.msg.draft = x.msg.draft
        BY <2>3
      <4>2. ASSUME NEW z \in sends', z.at \in Pending,
                   z.msg.draft = y.msg.draft
            PROVE  y = z
        <5>1. PICK w \in sends :
                  z = Orphan(w) /\ z.at = w.at /\ z.msg.draft = w.msg.draft
          BY <2>3
        <5>2. x = w
          BY <3>2, <3>3, <4>1, <4>2, <5>1
        <5> QED
          BY <4>1, <5>1, <5>2
      <4> QED
        BY <3>1, <3>3, <4>1, <4>2
    <3> QED
      BY <1>1, <3>3 DEF Unreceived
  <2>5. Numbered'
    <3>1. \A y \in sends' : y.msg.draft \in 1..drafts
      BY <2>3 DEF Inv, Numbered
    <3>2. \A k \in 1..drafts : Fresh(k) =>
              /\ k # 0
              /\ \A y \in sends' : k # y.msg.draft
              /\ \A m \in received : k # m.draft
      BY <2>3 DEF Fresh, Inv, Numbered
    <3>3. \A i \in Prompts' : Fresh(tasks[i][2])'
      BY <1>1, <1>4, <1>6, <3>2 DEF Fresh
    <3>4. drafts' \in Nat /\ text' \in 0..drafts'
      BY <1>1, <1>6 DEF Inv, Numbered
    <3>5. \A m \in received' : m.draft \in 1..drafts'
      BY <1>1 DEF Inv, Numbered
    <3>6. \A y \in sends' : y.msg.draft \in 1..drafts'
      BY <1>1, <3>1
    <3>7. \A i \in Prompts' :
              tasks'[i][2] \in 1..drafts' /\ Fresh(tasks[i][2])'
      BY <1>1, <1>4, <3>3
    <3> QED
      BY <1>2, <1>3, <3>4, <3>5, <3>6, <3>7, Zenon DEF Numbered
  <2> QED
    BY <1>1, <1>6, <2>2, <2>4, <2>5 DEF Inv, BoxIsFree, SentWhereShown, SentOnce
<1> QED
  BY <1>5, <1>6 DEF RouteChanged, boxVars

-----------------------------------------------------------------------------
(* Every step.                                                             *)

LEMMA InvInitially == ASSUME Init PROVE Inv
BY DEF Init, RouterInit, Inv, SendsOK, OneCall, Numbered, Prompts, Fresh, Tasks,
       Unreceived, BoxIsFree, BlockedBySend, SentWhereShown, SentOnce

LEMMA StayKeeps ==
    ASSUME Inv, UNCHANGED <<text, sending, sends, received, drafts, tasks>>
    PROVE  Inv'
BY DEF Inv, SendsOK, OneCall, Numbered, Prompts, Fresh, Unreceived, BoxIsFree,
       BlockedBySend, SentWhereShown, SentOnce

LEMMA InvStep ==
    ASSUME Inv, [Next]_vars
    PROVE  Inv'
<1> DEFINE Stay == UNCHANGED <<text, sending, sends, received, drafts, tasks>>
<1>1. CASE Box
  <2>1. CASE Type \/ UsePrompt
    BY <2>1, TypeKeeps DEF UsePrompt
  <2>2. CASE ToggleMock \/ AddAttachments \/ Picked \/ \E p \in Paths : Detach(p)
    <3>1. Stay
      BY <2>2 DEF ToggleMock, AddAttachments, Picked, Detach, KeepRoute, routerVars
    <3> QED
      BY <3>1, StayKeeps
  <2> QED
    BY <1>1, <2>1, <2>2 DEF Box
<1>2. CASE Stop
  BY <1>2, StayKeeps DEF Stop, KeepRoute, routerVars, boxVars
<1>3. CASE SendMock
  BY <1>3, EmptiedKeeps DEF SendMock, KeepRoute, routerVars
<1>4. CASE Send
  BY <1>4, StartKeeps DEF Send, KeepRoute, routerVars
<1>5. CASE SendNew
  BY <1>5, StartKeeps DEF SendNew, KeepRoute, routerVars
<1>6. CASE Answers
  BY <1>6, NewSessionKeeps, CreatedKeeps, SendMessageKeeps, FinallyKeeps
     DEF Answers
<1>7. ASSUME NEW x \in scripts, MockTimer(x)
      PROVE  Inv'
  BY <1>7, StayKeeps DEF MockTimer, KeepRoute, routerVars, boxVars
<1>8. ASSUME NEW s, Select(s)
      PROVE  Inv'
  BY <1>8, NavigateKeeps DEF Select, boxVars
<1>9. CASE Deselect \/ Activity
  BY <1>9, StayKeeps DEF Deselect, Activity, KeepRoute, routerVars, boxVars
<1>10. ASSUME NEW route, GoTo(route)
       PROVE  Inv'
  BY <1>10, NavigateKeeps DEF GoTo, KeepBox, boxVars
<1>11. CASE PickPrompt \/ PromptTimer \/ RouteChanged
  BY <1>11, PickPromptKeeps, PromptTimerKeeps, RouteChangedKeeps
<1>12. CASE UNCHANGED vars
  BY <1>12, StayKeeps DEF vars, routerVars, boxVars
<1> QED
  BY <1>1, <1>2, <1>3, <1>4, <1>5, <1>6, <1>7, <1>8, <1>9, <1>10, <1>11, <1>12
     DEF Next, Sending

(* Composer.tsx: the inductive invariant of this module.                   *)
THEOREM InvHolds == Spec => []Inv
<1>1. Init => Inv
  BY InvInitially
<1> QED
  BY <1>1, InvStep, PTL DEF Spec

(* Composer.tsx send: a draft is sent at most once, however often the      *)
(* button is used, and wherever the user goes while it is on its way.      *)
THEOREM DraftIsSentOnce == Spec => []SentOnce
<1>1. Inv => SentOnce
  BY DEF Inv
<1> QED
  BY <1>1, InvHolds, PTL

(* Composer.tsx send: a message goes to the session that was selected, or  *)
(* to the one created for it.                                              *)
THEOREM MessageGoesWhereShown == Spec => []SentWhereShown
<1>1. Inv => SentWhereShown
  BY DEF Inv
<1> QED
  BY <1>1, InvHolds, PTL

(* Composer.tsx: `sending` is set only while a message of this composer is *)
(* on its way.                                                             *)
THEOREM ComposerIsFreed == Spec => []BlockedBySend
<1>1. Inv => BlockedBySend
  BY DEF Inv
<1> QED
  BY <1>1, InvHolds, PTL

-----------------------------------------------------------------------------
(* The mock turn.                                                          *)

LEMMA ScriptStep ==
    ASSUME OneScript, [Next]_vars
    PROVE  OneScript'
<1>1. CASE UNCHANGED mockVars
  BY <1>1 DEF mockVars, OneScript
<1>2. CASE Stop
  BY <1>2 DEF Stop, CancelMock, OneScript
<1>3. CASE SendMock
  BY <1>3 DEF SendMock, PlayMock, OneScript
<1>4. ASSUME NEW x \in scripts, MockTimer(x)
      PROVE  OneScript'
  <2> DEFINE next == CASE x.at = "lead" -> "turn" [] x.at = "turn" -> "tail"
                       [] x.at = "tail" -> "over"
  <2>1. /\ scripts' = (scripts \ {x}) \cup
               (IF next = "over" THEN {} ELSE {[x EXCEPT !.at = next]})
        /\ playing' = (playing /\ next # "over")
    BY <1>4 DEF MockTimer
  <2> HIDE DEF next
  <2>2. scripts = {x} /\ playing
    BY DEF OneScript
  <2> QED
    BY <2>1, <2>2 DEF OneScript
<1>5. CASE Box
  BY <1>1, <1>5 DEF Box, Type, UsePrompt, ToggleMock, AddAttachments, Picked, Detach
<1>6. CASE Send \/ SendNew
  BY <1>1, <1>6 DEF Send, SendNew
<1>7. CASE Answers
  BY <1>1, <1>7 DEF Answers, NewSession, Created, SendMessage, Finally
<1>8. CASE \/ \E s \in Sessions \cup {None} : Select(s)
           \/ Deselect \/ Activity
           \/ \E route \in Routes : GoTo(route)
           \/ PickPrompt \/ PromptTimer \/ RouteChanged
  BY <1>1, <1>8 DEF Select, Deselect, Activity, GoTo, PickPrompt, PromptTimer,
        RouteChanged, KeepBox
<1>9. CASE UNCHANGED vars
  BY <1>1, <1>9 DEF vars
<1> QED
  BY <1>2, <1>3, <1>4, <1>5, <1>6, <1>7, <1>8, <1>9 DEF Next, Sending

(* mockTurn.ts: the list of timers is empty only when no timer is left, so *)
(* the stop button can always stop what is playing.                        *)
THEOREM MockCanBeStopped == Spec => []MockIsStoppable
<1>1. Init => OneScript
  BY DEF Init, OneScript
<1>2. OneScript => MockIsStoppable
  BY DEF OneScript, MockIsStoppable
<1> QED
  BY <1>1, <1>2, ScriptStep, PTL DEF Spec

-----------------------------------------------------------------------------
(* A prompt's way into the box.                                            *)

LEMMA SameRouteKeeps ==
    ASSUME OnItsWay, UNCHANGED <<routerVars, moved>>
    PROVE  OnItsWay'
BY DEF OnItsWay, Awaited, Led, Prompts, HomeMounted, routerVars

(* Where the user goes, the hash says so, and its event is queued.         *)
LEMMA AwayKeeps ==
    ASSUME Numbered, OnItsWay, NEW route, Navigate(route), moved'
    PROVE  OnItsWay'
<1>1. Led'
  BY DEF Led
<1>2. tasks \in Seq(Tasks) /\ HashChange \in Tasks
  BY DEF Numbered, Tasks
<1>3. CASE hash = route
  BY <1>1, <1>3 DEF Navigate, OnItsWay, Awaited
<1>4. CASE hash # route
  <2>1. tasks' = Append(tasks, HashChange)
    BY <1>4 DEF Navigate
  <2>2. Len(tasks) + 1 \in DOMAIN tasks' /\ tasks'[Len(tasks) + 1] = HashChange
    BY <1>2, <2>1
  <2> QED
    BY <1>1, <2>2 DEF OnItsWay, Awaited
<1> QED
  BY <1>3, <1>4

(* The event that mounts the home page is queued before the prompt: by     *)
(* this navigation, or by an earlier one that has not been heard of yet.   *)
LEMMA PickedIsLed ==
    ASSUME Numbered, OnItsWay, PickPrompt
    PROVE  OnItsWay'
<1> DEFINE ts == IF hash = "home" THEN tasks ELSE Append(tasks, HashChange)
           p  == <<"prompt", drafts + 1>>
<1>1. /\ tasks' = Append(ts, p) /\ hash' = "home" /\ Prompts = {}
      /\ current' = current /\ ~HomeMounted
  BY DEF PickPrompt, NewDraft
<1>2. tasks \in Seq(Tasks) /\ HashChange \in Tasks /\ p \in Tasks
  BY DEF Numbered, Tasks
<1>3. current # "home"
  BY <1>1, RouterAssumption DEF HomeMounted, Mounted
<1>4. /\ ts \in Seq(Tasks) /\ \A i \in 1..Len(ts) : ts[i] = HashChange
      /\ \E j \in 1..Len(ts) : ts[j] = HashChange
  <2>1. \A i \in 1..Len(tasks) : tasks[i] = HashChange
    BY <1>1, <1>2 DEF Prompts
  <2>2. CASE hash = "home"
    <3>1. ts = tasks
      BY <2>2
    <3>2. \E j \in DOMAIN tasks : tasks[j] = HashChange
      BY <1>3, <2>2 DEF OnItsWay, Awaited
    <3> QED
      BY <1>2, <2>1, <3>1, <3>2
  <2>3. CASE hash # "home"
    <3>1. ts = Append(tasks, HashChange)
      BY <2>3
    <3>2. Len(tasks) + 1 \in 1..Len(ts) /\ ts[Len(tasks) + 1] = HashChange
      BY <1>2, <3>1
    <3> QED
      BY <1>2, <2>1, <3>1, <3>2
  <2> QED
    BY <2>2, <2>3
<1> HIDE DEF ts, p
<1>5. /\ tasks' \in Seq(Tasks) /\ Len(tasks') = Len(ts) + 1 /\ Len(ts) \in Nat
      /\ \A i \in 1..Len(ts) : tasks'[i] = HashChange
  BY <1>1, <1>2, <1>4
<1>6. PICK j \in 1..Len(ts) : ts[j] = HashChange
  BY <1>4
<1>7. j \in DOMAIN tasks' /\ tasks'[j] = HashChange
  BY <1>5
<1>8. \A i \in Prompts' : j < i
  <2>1. \A i \in Prompts' : i = Len(ts) + 1
    BY <1>5 DEF Prompts
  <2> QED
    BY <1>5, <2>1
<1>9. Awaited'
  BY <1>7 DEF Awaited
<1>10. Led'
  BY <1>1, <1>7, <1>8 DEF Led
<1> QED
  BY <1>9, <1>10 DEF OnItsWay

(* What was queued comes nearer with every task that is run.               *)
LEMMA TaskRunKeeps ==
    ASSUME Numbered, OnItsWay, PromptTimer \/ RouteChanged
    PROVE  OnItsWay'
<1>1. tasks \in Seq(Tasks) /\ tasks # <<>> /\ tasks' = Tail(tasks)
  BY DEF Numbered, PromptTimer, RouteChanged, OnChange
<1>2. hash' = hash /\ moved' = moved
  BY DEF PromptTimer, RouteChanged, OnChange
<1>3. \A i \in Prompts' : i + 1 \in Prompts /\ i \in Nat \ {0}
  BY <1>1, TaskTaken DEF Prompts
<1>4. \A j \in DOMAIN tasks : tasks[j] = HashChange =>
          j = 1 \/ (j - 1 \in DOMAIN tasks' /\ tasks'[j - 1] = HashChange)
  BY <1>1
<1>5. CASE PromptTimer
  <2>1. tasks[1] # HashChange /\ current' = current
    BY <1>1, <1>5 DEF PromptTimer
  <2>2. \A j \in DOMAIN tasks : tasks[j] = HashChange =>
            j - 1 \in DOMAIN tasks' /\ tasks'[j - 1] = HashChange
    BY <1>4, <2>1
  <2>3. Awaited'
    BY <1>2, <2>1, <2>2 DEF OnItsWay, Awaited
  <2>4. Prompts' = {}
    <3>1. 1 \in Prompts
      BY <1>1, <2>1 DEF Prompts
    <3>2. \A i \in Prompts' : i + 1 = 1
      BY <1>3, <3>1 DEF Numbered
    <3> QED
      BY <1>3, <3>2
  <2> QED
    BY <2>3, <2>4 DEF OnItsWay, Led
<1>6. CASE RouteChanged
  <2>1. current' = hash
    BY <1>6 DEF RouteChanged, OnChange
  <2>2. Awaited'
    BY <1>2, <2>1 DEF Awaited
  <2>3. ASSUME ~moved', NEW i \in Prompts'
        PROVE  hash' = "home" /\ HomeMounted'
    <3>1. hash = "home"
      BY <1>2, <1>3, <2>3 DEF OnItsWay, Led
    <3>2. "home" \notin Discovery
      BY RouterAssumption
    <3> QED
      BY <1>2, <2>1, <3>1, <3>2 DEF HomeMounted, Mounted
  <2>4. Led'
    BY <2>3 DEF Led
  <2> QED
    BY <2>2, <2>4 DEF OnItsWay
<1> QED
  BY <1>5, <1>6

LEMMA OnItsWayStep ==
    ASSUME Inv, OnItsWay, [Next]_vars
    PROVE  OnItsWay'
<1> USE DEF KeepRoute
<1>1. Numbered
  BY DEF Inv
<1>2. CASE Box
  BY <1>2, SameRouteKeeps
     DEF Box, Type, UsePrompt, ToggleMock, AddAttachments, Picked, Detach
<1>3. CASE Sending
  BY <1>3, SameRouteKeeps DEF Sending, Stop, SendMock, Send, SendNew
<1>4. CASE Answers
  BY <1>4, SameRouteKeeps DEF Answers, NewSession, Created, SendMessage, Finally
<1>5. CASE (\E x \in scripts : MockTimer(x)) \/ Deselect \/ Activity
  BY <1>5, SameRouteKeeps DEF MockTimer, Deselect, Activity
<1>6. ASSUME NEW s \in Sessions \cup {None}, Select(s)
      PROVE  OnItsWay'
  BY <1>1, <1>6, AwayKeeps DEF Select
<1>7. ASSUME NEW route \in Routes, GoTo(route)
      PROVE  OnItsWay'
  BY <1>1, <1>7, AwayKeeps DEF GoTo
<1>8. CASE PickPrompt
  BY <1>1, <1>8, PickedIsLed
<1>9. CASE PromptTimer \/ RouteChanged
  BY <1>1, <1>9, TaskRunKeeps
<1>10. CASE UNCHANGED vars
  BY <1>10, SameRouteKeeps DEF vars
<1> QED
  BY <1>2, <1>3, <1>4, <1>5, <1>6, <1>7, <1>8, <1>9, <1>10 DEF Next

(* Only its timer takes a prompt off the queue, and it finds the composer. *)
LEMMA PromptIsHeard ==
    ASSUME Inv, OnItsWay, Next
    PROVE  \A i \in {1} \cap Prompts :
               tasks' = Tail(tasks) /\ ~moved => text' = tasks[i][2]
<1> SUFFICES ASSUME 1 \in Prompts, tasks' = Tail(tasks), ~moved
             PROVE  text' = tasks[1][2]
  OBVIOUS
<1>1. /\ tasks \in Seq(Tasks) /\ tasks # <<>> /\ tasks[1] # HashChange
      /\ Head(tasks) = tasks[1]
  BY DEF Inv, Numbered, Prompts
<1>2. Len(tasks') < Len(tasks)
  BY <1>1
<1>3. HomeMounted
  BY DEF OnItsWay, Led, Prompts
<1>4. tasks' # tasks
  BY <1>2, <1>1
<1>5. ASSUME NEW route, Navigate(route)
      PROVE  FALSE
  <2>1. tasks' = Append(tasks, HashChange)
    BY <1>4, <1>5 DEF Navigate
  <2>2. Len(tasks') = Len(tasks) + 1
    BY <1>1, <2>1
  <2> QED
    BY <1>1, <1>2, <2>2
<1>6. PromptTimer
  <2> USE DEF KeepRoute, routerVars
  <2>1. ~Box
    BY <1>4 DEF Box, Type, UsePrompt, ToggleMock, AddAttachments, Picked, Detach
  <2>2. ~Sending
    BY <1>4 DEF Sending, Stop, SendMock, Send, SendNew
  <2>3. ~Answers
    BY <1>4 DEF Answers, NewSession, Created, SendMessage, Finally
  <2>4. ~((\E x \in scripts : MockTimer(x)) \/ Deselect \/ Activity)
    BY <1>4 DEF MockTimer, Deselect, Activity
  <2>5. ~\E s \in Sessions \cup {None} : Select(s)
    BY <1>5 DEF Select
  <2>6. ~\E route \in Routes : GoTo(route)
    BY <1>5 DEF GoTo
  <2>7. ~PickPrompt
    BY <1>3 DEF PickPrompt
  <2>8. ~RouteChanged
    BY <1>1 DEF RouteChanged, OnChange
  <2> QED
    BY <2>1, <2>2, <2>3, <2>4, <2>5, <2>6, <2>7, <2>8 DEF Next
<1> QED
  BY <1>1, <1>3, <1>6 DEF PromptTimer

(* Composer.tsx codex:use-prompt (DiscoveryView.tsx): a prompt picked on a *)
(* discovery page is in the box once its timer has fired, because the      *)
(* event that mounts the composer was queued before the timer, unless the  *)
(* user has gone elsewhere since.                                          *)
THEOREM PromptsAreHeard == Spec => PromptReachesComposer
<1>1. Init => OnItsWay
  BY DEF Init, RouterInit, OnItsWay, Awaited, Led, Prompts
<1>2. Inv /\ OnItsWay /\ [Next]_vars => OnItsWay'
  BY OnItsWayStep
<1>3. Inv /\ OnItsWay /\ [Next]_vars =>
        [\A i \in {1} \cap Prompts :
            tasks' = Tail(tasks) /\ ~moved => text' = tasks[i][2]]_vars
  BY PromptIsHeard
<1> QED
  BY <1>1, <1>2, <1>3, InvHolds, PTL DEF Spec, PromptReachesComposer
=============================================================================
