------------------------- MODULE KernelTurnsProofs -------------------------
(***************************************************************************)
(* Proofs about KernelTurns, for any sets of threads, turns, callers and   *)
(* providers and any bound on chunks.                                      *)
(*                                                                         *)
(* The invariants TLC checks are not inductive by themselves: whether a    *)
(* thread may take a turn is decided by the statuses in the store, whether *)
(* a task may write there by where the task is.  TaskAndStore ties the two *)
(* together; with it the conjunction IInv below is inductive.              *)
(*                                                                         *)
(* The second half is about what the kernel tells the UI: how the          *)
(* notifications emitted for a turn relate to its stored answer and to     *)
(* newer turns, that they follow from where its task is (LogShape), that   *)
(* the counters agree with the ends of turns, and that the kernel          *)
(* implements TurnProtocol.                                                *)
(***************************************************************************)
EXTENDS KernelTurns, SequenceTheorems, FiniteSetTheorems, TLAPS

Decided == {"settled", "ending", "removing", "dropping", "done"}

(* A turn is in the store exactly when it has a task; its thread has been  *)
(* created; and its status is terminal exactly from Settle on, unless the  *)
(* thread was deleted and the status with it.                              *)
TaskAndStore ==
    \A u \in Turns :
        /\ Begun(u) <=> ~At(u, "idle")
        /\ Begun(u) => thread[owner[u]] # "absent"
        /\ task[u].at \in Undecided \cup {"idle"} => status[u] \notin Terminal
        /\ task[u].at \in Decided /\ Stored(u) => status[u] \in Terminal
        /\ task[u].at \in {"persisting", "closing", "settling"} \cup Decided
               => task[u].fate \in Terminal

IInv ==
    /\ TypeOK
    /\ TaskAndStore
    /\ OneLiveTurnPerThread
    /\ OneTurnPastTheGate
    /\ HistoryIsCurrent

-----------------------------------------------------------------------------
(* Types.                                                                  *)

LEMMA TypeInit == Init => TypeOK
  BY KernelAssumption DEF Init, StoreInit, NewTask, Locals, IdleCall, TypeOK,
         StoreTypeOK,
     ThreadState, TurnStatus, Terminal, Places, Live, PastGate, Streaming,
     Outcomes, Counted

(* Emitting a few more notifications keeps the logs well typed.            *)
LEMMA EmitType ==
  ASSUME TypeOK, NEW u \in Turns, NEW s \in Seq(Events), Emit(u, s)
  PROVE  log' \in [Turns -> Seq(Events)]
<1>1. log[u] \in Seq(Events)
  BY DEF TypeOK
<1>2. log[u] \o s \in Seq(Events)
  BY <1>1, ConcatProperties
<1> QED
  BY <1>2 DEF Emit, TypeOK

LEMMA HistoryType ==
  ASSUME TypeOK, NEW t
  PROVE  History(t) \in SUBSET (Turns \X Nat)
  BY DEF TypeOK, StoreTypeOK, History, TurnsOf

LEMMA BumpType ==
  ASSUME TypeOK, NEW c \in Counted, Bump(c)
  PROVE  counters' \in [Counted -> Nat]
  BY DEF TypeOK, Bump

(* A task that moves, its other variables unchanged.                       *)
LEMMA GotoType ==
  ASSUME TypeOK, NEW u \in Turns, NEW from, NEW to \in Places, Goto(u, from, to)
  PROVE  task' \in [Turns -> Locals]
<1>1. task \in [Turns -> Locals] /\ task' = [task EXCEPT ![u].at = to]
  BY DEF TypeOK, Goto
<1>2. [task[u] EXCEPT !.at = to] \in Locals
  BY <1>1 DEF Locals
<1> QED
  BY <1>1, <1>2

LEMMA RecordType ==
  ASSUME TypeOK, NEW u \in Turns, NEW r \in Locals,
         task' = [task EXCEPT ![u] = r]
  PROVE  task' \in [Turns -> Locals]
  BY DEF TypeOK

LEMMA LocalsExcept ==
  ASSUME NEW r \in Locals, NEW p \in Places
  PROVE  /\ \A f \in Outcomes : [r EXCEPT !.at = p, !.fate = f] \in Locals
         /\ \A h \in SUBSET (Turns \X Nat) :
               [r EXCEPT !.at = p, !.hist = h] \in Locals
         /\ \A q \in Providers : [r EXCEPT !.at = p, !.prov = q] \in Locals
         /\ [r EXCEPT !.acc = @ + 1] \in Locals
<1>1. ASSUME NEW f \in Outcomes PROVE [r EXCEPT !.at = p, !.fate = f] \in Locals
  BY DEF Locals
<1>2. ASSUME NEW h \in SUBSET (Turns \X Nat)
      PROVE  [r EXCEPT !.at = p, !.hist = h] \in Locals
  BY DEF Locals
<1>3. ASSUME NEW q \in Providers
      PROVE  [r EXCEPT !.at = p, !.prov = q] \in Locals
  BY DEF Locals
<1>4. [r EXCEPT !.acc = @ + 1] \in Locals
  BY DEF Locals
<1> QED
  BY <1>1, <1>2, <1>3, <1>4

LEMMA SetStatusType ==
  ASSUME TypeOK, NEW u \in Turns, NEW s \in TurnStatus, SetStatus(u, s)
  PROVE  status' \in [Turns -> TurnStatus]
  BY DEF TypeOK, StoreTypeOK, SetStatus
LEMMA TypeStep == TypeOK /\ TaskAndStore /\ [Next]_vars => TypeOK'
<1> SUFFICES ASSUME TypeOK, TaskAndStore, [Next]_vars PROVE TypeOK'
  OBVIOUS
<1> USE KernelAssumption, StoreAssumption DEF tokenVars, drivers, storeVars
<1>1. ASSUME NEW t \in Threads, NewSession(t) PROVE TypeOK'
  BY <1>1 DEF NewSession, CreateThread, ThreadState, TypeOK, StoreTypeOK
<1>2. ASSUME NEW t \in Threads, DeleteSession(t) PROVE TypeOK'
  BY <1>2 DEF DeleteSession, DeleteThread, ThreadState, TypeOK, StoreTypeOK
<1>3. ASSUME NEW p \in Providers, SetProvider(p) PROVE TypeOK'
  BY <1>3 DEF SetProvider, TypeOK, StoreTypeOK
<1>4. ASSUME NEW t \in Threads, NEW u \in Turns, SendMessage(t, u) PROVE TypeOK'
  BY <1>4, GotoType DEF SendMessage, BeginTurn, AddTurn, TypeOK, StoreTypeOK,
         Places, Live, PastGate, Streaming
<1>5. ASSUME NEW t \in Threads, NEW u \in Turns, Selftest(t, u) PROVE TypeOK'
  BY <1>5, GotoType DEF Selftest, AddTurn, ThreadState, TypeOK, StoreTypeOK,
         Places, Live, PastGate, Streaming
<1>6. ASSUME NEW u \in Turns, Register(u) PROVE TypeOK'
  BY <1>6, GotoType, BumpType DEF Register, TypeOK, StoreTypeOK, Places, Live,
         PastGate, Streaming, Counted, Terminal
<1>7. ASSUME NEW u \in Turns, Announce(u) PROVE TypeOK'
  <2>1. task' \in [Turns -> Locals]
    BY <1>7, GotoType DEF Announce, Places, Live, PastGate, Streaming
  <2>2. <<"turn/started", "item/started">> \in Seq(Events)
    BY DEF Events, Deltas
  <2>3. log' \in [Turns -> Seq(Events)]
    BY <1>7, <2>2, EmitType DEF Announce
  <2> QED
    BY <1>7, <2>1, <2>2, <2>3, SetStatusType DEF Announce, TypeOK,
           StoreTypeOK, TurnStatus
<1>8. ASSUME NEW u \in Turns, ReadHistory(u) PROVE TypeOK'
  <2>1. [task[u] EXCEPT !.at = "queued", !.hist = History(owner[u])] \in Locals
    BY <1>8, LocalsExcept, HistoryType DEF ReadHistory, TypeOK, Places, Live,
           PastGate, Streaming, Outcomes, Terminal
  <2>2. task' \in [Turns -> Locals]
    BY <1>8, <2>1, RecordType DEF ReadHistory, TypeOK
  <2> QED
    BY <1>8, <2>1, <2>2 DEF ReadHistory, TypeOK, StoreTypeOK
<1>9. ASSUME NEW u \in Turns, LoseThread(u) PROVE TypeOK'
  <2>1. [task[u] EXCEPT !.at = "done", !.fate = "failed"] \in Locals
    BY <1>9, LocalsExcept DEF LoseThread, TypeOK, Places, Live, PastGate,
           Streaming, Outcomes, Terminal
  <2>2. task' \in [Turns -> Locals]
    BY <1>9, <2>1, RecordType DEF LoseThread, TypeOK
  <2>3. Failure \in Seq(Events)
    BY DEF Events, Deltas, Failure
  <2>4. log' \in [Turns -> Seq(Events)]
    BY <1>9, <2>3, EmitType DEF LoseThread
  <2> QED
    BY <1>9, <2>1, <2>2, <2>3, <2>4, BumpType DEF LoseThread, TypeOK,
           StoreTypeOK, Counted, Terminal
<1>10. ASSUME NEW u \in Turns, EnterGate(u) PROVE TypeOK'
  <2>1. [task[u] EXCEPT !.at = "parked", !.prov = provider] \in Locals
    BY <1>10, LocalsExcept DEF EnterGate, TypeOK, Places, Live, PastGate,
           Streaming, Outcomes, Terminal
  <2>2. task' \in [Turns -> Locals]
    BY <1>10, <2>1, RecordType DEF EnterGate, TypeOK
  <2> QED
    BY <1>10, <2>1, <2>2 DEF EnterGate, TypeOK, StoreTypeOK
<1>11. ASSUME NEW u \in Turns, Cancel(u) PROVE TypeOK'
  <2>1. [task[u] EXCEPT !.at = "persisting", !.fate = "interrupted"] \in Locals
    BY <1>11, LocalsExcept DEF Cancel, TypeOK, Places, Live, PastGate,
           Streaming, Outcomes, Terminal
  <2>2. task' \in [Turns -> Locals]
    BY <1>11, <2>1, RecordType DEF Cancel, TypeOK
  <2> QED
    BY <1>11, <2>1, <2>2 DEF Cancel, TypeOK, StoreTypeOK
<1>12. ASSUME NEW u \in Turns, Poll(u) PROVE TypeOK'
  <2>1. task' \in [Turns -> Locals]
    BY <1>12, GotoType DEF Poll, Places, Live, PastGate, Streaming
  <2> QED
    BY <1>12, <2>1 DEF Poll, TypeOK, StoreTypeOK
<1>13. ASSUME NEW u \in Turns, NEW k \in Deltas, OnDelta(u, k) PROVE TypeOK'
  <2>1. [task[u] EXCEPT !.acc = @ + 1] \in Locals
    BY <1>13, LocalsExcept DEF OnDelta, TypeOK, Places, Live, PastGate,
           Streaming, Outcomes, Terminal
  <2>2. task' \in [Turns -> Locals]
    BY <1>13, <2>1, RecordType DEF OnDelta, TypeOK
  <2>3. <<k>> \in Seq(Events)
    BY DEF Events, Deltas
  <2>4. log' \in [Turns -> Seq(Events)]
    BY <1>13, <2>3, EmitType DEF OnDelta
  <2> QED
    BY <1>13, <2>1, <2>2, <2>3, <2>4 DEF OnDelta, TypeOK, StoreTypeOK
<1>14. ASSUME NEW u \in Turns, Yield(u) PROVE TypeOK'
  <2>1. task' \in [Turns -> Locals]
    BY <1>14, GotoType DEF Yield, Suspend, Places, Live, PastGate, Streaming
  <2> QED
    BY <1>14, <2>1 DEF Yield, Suspend, TypeOK, StoreTypeOK
<1>15. ASSUME NEW u \in Turns, Hang(u) PROVE TypeOK'
  <2>1. task' \in [Turns -> Locals]
    BY <1>15, GotoType DEF Hang, Suspend, Places, Live, PastGate, Streaming
  <2> QED
    BY <1>15, <2>1 DEF Hang, Suspend, TypeOK, StoreTypeOK
<1>16. ASSUME NEW u \in Turns, NEW ok \in BOOLEAN, EndStream(u, ok)
       PROVE  TypeOK'
  <2>1. [task[u] EXCEPT !.at = "persisting", !.fate = Verdict(ok)] \in Locals
    BY <1>16, LocalsExcept DEF EndStream, TypeOK, Places, Live, PastGate,
           Streaming, Outcomes, Terminal, Verdict
  <2>2. task' \in [Turns -> Locals]
    BY <1>16, <2>1, RecordType DEF EndStream, TypeOK
  <2> QED
    BY <1>16, <2>1, <2>2 DEF EndStream, TypeOK, StoreTypeOK
<1>17. ASSUME NEW u \in Turns, Persist(u) PROVE TypeOK'
  <2>1. task' \in [Turns -> Locals]
    BY <1>17, GotoType DEF Persist, SetText, Places, Live, PastGate, Streaming
  <2>2. text' \in [Turns -> Nat]
    BY <1>17 DEF Persist, SetText, TypeOK, StoreTypeOK, Locals
  <2> QED
    BY <1>17, <2>1, <2>2 DEF Persist, SetText, TypeOK, StoreTypeOK
<1>18. ASSUME NEW u \in Turns, Close(u) PROVE TypeOK'
  <2>1. task' \in [Turns -> Locals]
    BY <1>18, GotoType DEF Close, Places, Live, PastGate, Streaming
  <2>2. When(task[u].acc > 0, "final_answer") \o <<"item/completed">>
          \o When(Disclose(u), "warning") \in Seq(Events)
    <3>1. \A b \in BOOLEAN, e \in Events : When(b, e) \in Seq(Events)
      BY DEF When
    <3>2. <<"item/completed">> \in Seq(Events)
      BY DEF Events
    <3>3. When(task[u].acc > 0, "final_answer") \in Seq(Events)
      BY <3>1 DEF Events, When
    <3>4. When(Disclose(u), "warning") \in Seq(Events)
      BY <3>1 DEF Events, When
    <3> QED
      BY <3>2, <3>3, <3>4, ConcatProperties
  <2>3. log' \in [Turns -> Seq(Events)]
    BY <1>18, <2>2, EmitType DEF Close
  <2> QED
    BY <1>18, <2>1, <2>2, <2>3 DEF Close, TypeOK, StoreTypeOK
<1>19. ASSUME NEW u \in Turns, Settle(u) PROVE TypeOK'
  <2>1. task' \in [Turns -> Locals]
    BY <1>19, GotoType DEF Settle, Places, Live, PastGate, Streaming
  <2>2. status' \in [Turns -> TurnStatus]
    <3>1. task[u].fate \in TurnStatus
      BY <1>19 DEF Settle, Goto, At, TaskAndStore, TurnStatus, Terminal, Decided
    <3> QED
      BY <1>19, <3>1, SetStatusType DEF Settle
  <2> QED
    BY <1>19, <2>1, <2>2 DEF Settle, TypeOK, StoreTypeOK
<1>20. ASSUME NEW u \in Turns, Count(u) PROVE TypeOK'
  <2>1. task' \in [Turns -> Locals]
    BY <1>20, GotoType DEF Count, Places, Live, PastGate, Streaming
  <2>2. Explanation(u) \in Seq(Events)
    <3>1. /\ <<"item/completed">> \in Seq(Events)
          /\ <<"error">> \in Seq(Events)
          /\ << >> \in Seq(Events)
      BY DEF Events
    <3> QED
      BY <3>1 DEF Explanation
  <2>3. log' \in [Turns -> Seq(Events)]
    BY <1>20, <2>2, EmitType DEF Count
  <2>4. counters' \in [Counted -> Nat]
    <3>1. task[u].fate \in Counted
      BY <1>20 DEF Count, Goto, At, TaskAndStore, Counted, Terminal, Decided
    <3> QED
      BY <1>20, <3>1, BumpType DEF Count
  <2> QED
    BY <1>20, <2>1, <2>2, <2>3, <2>4 DEF Count, TypeOK, StoreTypeOK
<1>21. ASSUME NEW u \in Turns, EndTurn(u) PROVE TypeOK'
  <2>1. task' \in [Turns -> Locals]
    BY <1>21, GotoType DEF EndTurn, Places, Live, PastGate, Streaming
  <2>2. <<"turn/completed">> \in Seq(Events)
    BY DEF Events, Deltas
  <2>3. log' \in [Turns -> Seq(Events)]
    BY <1>21, <2>2, EmitType DEF EndTurn
  <2> QED
    BY <1>21, <2>1, <2>2, <2>3 DEF EndTurn, TypeOK, StoreTypeOK
<1>22. ASSUME NEW u \in Turns, LockTokens(u) PROVE TypeOK'
  <2>1. task' \in [Turns -> Locals]
    BY <1>22, GotoType DEF LockTokens, Places, Live, PastGate, Streaming
  <2> QED
    BY <1>22, <2>1 DEF LockTokens, TypeOK, StoreTypeOK
<1>23. ASSUME NEW u \in Turns, DropToken(u) PROVE TypeOK'
  <2>1. [NewTask("done") EXCEPT !.fate = task[u].fate] \in Locals
    <3>1. NewTask("done") \in Locals
      BY DEF NewTask, Locals, Places, Outcomes
    <3>2. task[u].fate \in Outcomes
      BY DEF TypeOK, Locals
    <3> QED
      BY <3>1, <3>2 DEF Locals
  <2>2. task' \in [Turns -> Locals]
    BY <1>23, <2>1, RecordType DEF DropToken, TypeOK
  <2> QED
    BY <1>23, <2>1, <2>2 DEF DropToken, Remaining, GateLeft, TypeOK, StoreTypeOK
<1>24. ASSUME NEW c \in Callers, NEW t \in Threads, NEW u \in Turns,
              InterruptThread(c, t, u)
       PROVE  TypeOK'
  BY <1>24 DEF InterruptThread, TypeOK, StoreTypeOK
<1>25. ASSUME NEW c \in Callers, NEW u \in Turns, InterruptTurn(c, u)
       PROVE  TypeOK'
  BY <1>25 DEF InterruptTurn, TypeOK, StoreTypeOK
<1>26. ASSUME NEW c \in Callers, LockCall(c) PROVE TypeOK'
  <2>1. call' \in [Callers -> [at : {"idle", "locking", "locked"},
                              target : Turns \cup {None}]]
    <3> DEFINE Calls == [at : {"idle", "locking", "locked"},
                         target : Turns \cup {None}]
    <3>1. call \in [Callers -> Calls] /\ call' = [call EXCEPT ![c].at = "locked"]
      BY <1>26 DEF LockCall, TypeOK
    <3>2. [call[c] EXCEPT !.at = "locked"] \in Calls
      <4>1. call[c] \in Calls
        BY <3>1
      <4> QED
        BY <4>1
    <3> HIDE DEF Calls
    <3>3. call' \in [Callers -> Calls]
      BY <3>1, <3>2
    <3> QED
      BY <3>3 DEF Calls
  <2> QED
    BY <1>26, <2>1 DEF LockCall, TypeOK, StoreTypeOK
<1>27. ASSUME NEW c \in Callers, Answer(c) PROVE TypeOK'
  BY <1>27 DEF Answer, IdleCall, TypeOK, StoreTypeOK
<1>28. CASE UNCHANGED vars
  BY <1>28 DEF vars, TypeOK, StoreTypeOK
<1> QED
  BY <1>1, <1>2, <1>3, <1>4, <1>5, <1>6, <1>7, <1>8, <1>9, <1>10, <1>11,
     <1>12, <1>13, <1>14, <1>15, <1>16, <1>17, <1>18, <1>19, <1>20, <1>21,
     <1>22, <1>23, <1>24, <1>25, <1>26, <1>27, <1>28
     DEF Next, Command, Prompt, Waits, Whim, Chunk, StreamEnds, CallStep

-----------------------------------------------------------------------------
(* The inductive invariant.                                                *)

LEMMA OnDeltaMoves ==
  ASSUME TypeOK, NEW u \in Turns, NEW k \in Deltas, OnDelta(u, k)
  PROVE  \A w \in Turns : /\ task'[w].at = task[w].at
                          /\ task'[w].fate = task[w].fate
  BY DEF OnDelta, TypeOK, Locals

LEMMA TaskAndStoreStep ==
  ASSUME TypeOK, TaskAndStore, TypeOK', [Next]_vars
  PROVE  TaskAndStore'
<1> USE KernelAssumption, StoreAssumption DEF tokenVars, drivers, storeVars,
            TaskAndStore, Begun, Stored, At, Undecided, Decided, Streaming,
            Terminal, TypeOK, Locals, StoreTypeOK, ThreadState
<1>1. ASSUME NEW t \in Threads, NewSession(t) PROVE TaskAndStore'
  BY <1>1 DEF NewSession, CreateThread
<1>2. ASSUME NEW t \in Threads, DeleteSession(t) PROVE TaskAndStore'
  BY <1>2 DEF DeleteSession, DeleteThread
<1>3. ASSUME NEW p \in Providers, SetProvider(p) PROVE TaskAndStore'
  BY <1>3 DEF SetProvider
<1>4. ASSUME NEW t \in Threads, NEW u \in Turns, SendMessage(t, u)
      PROVE  TaskAndStore'
  BY <1>4 DEF SendMessage, BeginTurn, AddTurn, Accepts, ActiveTurns, TurnsOf,
         Goto
<1>5. ASSUME NEW t \in Threads, NEW u \in Turns, Selftest(t, u)
      PROVE  TaskAndStore'
  BY <1>5 DEF Selftest, AddTurn, Accepts, ActiveTurns, TurnsOf, Goto
<1>6. ASSUME NEW u \in Turns, Register(u) PROVE TaskAndStore'
  BY <1>6 DEF Register, Goto
<1>7. ASSUME NEW u \in Turns, Announce(u) PROVE TaskAndStore'
  BY <1>7 DEF Announce, Goto, SetStatus
<1>8. ASSUME NEW u \in Turns, ReadHistory(u) PROVE TaskAndStore'
  BY <1>8 DEF ReadHistory
<1>9. ASSUME NEW u \in Turns, LoseThread(u) PROVE TaskAndStore'
  BY <1>9 DEF LoseThread
<1>10. ASSUME NEW u \in Turns, EnterGate(u) PROVE TaskAndStore'
  BY <1>10 DEF EnterGate, GateFree
<1>11. ASSUME NEW u \in Turns, Cancel(u) PROVE TaskAndStore'
  BY <1>11 DEF Cancel, CancelWakes
<1>12. ASSUME NEW u \in Turns, Poll(u) PROVE TaskAndStore'
  BY <1>12 DEF Poll, Goto
<1>13. ASSUME NEW u \in Turns, NEW k \in Deltas, OnDelta(u, k)
       PROVE  TaskAndStore'
  BY <1>13, OnDeltaMoves DEF OnDelta
<1>14. ASSUME NEW u \in Turns, Yield(u) PROVE TaskAndStore'
  BY <1>14 DEF Yield, Suspend, Goto
<1>15. ASSUME NEW u \in Turns, Hang(u) PROVE TaskAndStore'
  BY <1>15 DEF Hang, Suspend, Goto
<1>16. ASSUME NEW u \in Turns, NEW ok \in BOOLEAN, EndStream(u, ok)
       PROVE  TaskAndStore'
  BY <1>16 DEF EndStream, Verdict
<1>17. ASSUME NEW u \in Turns, Persist(u) PROVE TaskAndStore'
  BY <1>17 DEF Persist, Goto, SetText
<1>18. ASSUME NEW u \in Turns, Close(u) PROVE TaskAndStore'
  BY <1>18 DEF Close, Goto
<1>19. ASSUME NEW u \in Turns, Settle(u) PROVE TaskAndStore'
  BY <1>19 DEF Settle, Goto, SetStatus
<1>20. ASSUME NEW u \in Turns, Count(u) PROVE TaskAndStore'
  BY <1>20 DEF Count, Goto
<1>21. ASSUME NEW u \in Turns, EndTurn(u) PROVE TaskAndStore'
  BY <1>21 DEF EndTurn, Goto
<1>22. ASSUME NEW u \in Turns, LockTokens(u) PROVE TaskAndStore'
  BY <1>22 DEF LockTokens, Goto
<1>23. ASSUME NEW u \in Turns, DropToken(u) PROVE TaskAndStore'
  BY <1>23 DEF DropToken, NewTask, GateLeft
<1>24. ASSUME NEW c \in Callers, CallStep(c) PROVE TaskAndStore'
  BY <1>24 DEF CallStep, InterruptThread, InterruptTurn, LockCall, Answer
<1>25. CASE UNCHANGED vars
  BY <1>25 DEF vars
<1> HIDE DEF TaskAndStore, Begun, Stored, At, Undecided, Decided, Streaming,
             Terminal, TypeOK, Locals, StoreTypeOK, ThreadState
<1> QED
  BY <1>1, <1>2, <1>3, <1>4, <1>5, <1>6, <1>7, <1>8, <1>9, <1>10, <1>11,
     <1>12, <1>13, <1>14, <1>15, <1>16, <1>17, <1>18, <1>19, <1>20, <1>21,
     <1>22, <1>23, <1>24, <1>25
     DEF Next, Command, Prompt, Waits, Whim, Chunk, StreamEnds

LEMMA OneLiveStep ==
  ASSUME TypeOK, TaskAndStore, OneLiveTurnPerThread, TypeOK', [Next]_vars
  PROVE  OneLiveTurnPerThread'
<1> USE KernelAssumption, StoreAssumption DEF tokenVars, drivers, storeVars,
            OneLiveTurnPerThread, TaskAndStore, Begun, Stored, At, Undecided,
            Terminal, TypeOK, StoreTypeOK
<1>1. ASSUME NEW t \in Threads, NewSession(t) PROVE OneLiveTurnPerThread'
  BY <1>1 DEF NewSession, CreateThread
<1>2. ASSUME NEW t \in Threads, DeleteSession(t) PROVE OneLiveTurnPerThread'
  BY <1>2 DEF DeleteSession, DeleteThread
<1>3. ASSUME NEW p \in Providers, SetProvider(p) PROVE OneLiveTurnPerThread'
  BY <1>3 DEF SetProvider
<1>4. ASSUME NEW t \in Threads, NEW u \in Turns, SendMessage(t, u)
      PROVE  OneLiveTurnPerThread'
  BY <1>4 DEF SendMessage, BeginTurn, AddTurn, Accepts, ActiveTurns, TurnsOf,
         Goto
<1>5. ASSUME NEW t \in Threads, NEW u \in Turns, Selftest(t, u)
      PROVE  OneLiveTurnPerThread'
  BY <1>5 DEF Selftest, AddTurn, Accepts, ActiveTurns, TurnsOf, Goto
<1>6. ASSUME NEW u \in Turns, Register(u) PROVE OneLiveTurnPerThread'
  BY <1>6 DEF Register, Goto
<1>7. ASSUME NEW u \in Turns, Announce(u) PROVE OneLiveTurnPerThread'
  BY <1>7 DEF Announce, Goto, SetStatus
<1>8. ASSUME NEW u \in Turns, ReadHistory(u) PROVE OneLiveTurnPerThread'
  BY <1>8 DEF ReadHistory
<1>9. ASSUME NEW u \in Turns, LoseThread(u) PROVE OneLiveTurnPerThread'
  BY <1>9 DEF LoseThread
<1>10. ASSUME NEW u \in Turns, EnterGate(u) PROVE OneLiveTurnPerThread'
  BY <1>10 DEF EnterGate, GateFree
<1>11. ASSUME NEW u \in Turns, Cancel(u) PROVE OneLiveTurnPerThread'
  BY <1>11 DEF Cancel, CancelWakes
<1>12. ASSUME NEW u \in Turns, Poll(u) PROVE OneLiveTurnPerThread'
  BY <1>12 DEF Poll, Goto
<1>13. ASSUME NEW u \in Turns, NEW k \in Deltas, OnDelta(u, k)
       PROVE  OneLiveTurnPerThread'
  BY <1>13 DEF OnDelta
<1>14. ASSUME NEW u \in Turns, Yield(u) PROVE OneLiveTurnPerThread'
  BY <1>14 DEF Yield, Suspend, Goto
<1>15. ASSUME NEW u \in Turns, Hang(u) PROVE OneLiveTurnPerThread'
  BY <1>15 DEF Hang, Suspend, Goto
<1>16. ASSUME NEW u \in Turns, NEW ok \in BOOLEAN, EndStream(u, ok)
       PROVE  OneLiveTurnPerThread'
  BY <1>16 DEF EndStream, Verdict
<1>17. ASSUME NEW u \in Turns, Persist(u) PROVE OneLiveTurnPerThread'
  BY <1>17 DEF Persist, Goto, SetText
<1>18. ASSUME NEW u \in Turns, Close(u) PROVE OneLiveTurnPerThread'
  BY <1>18 DEF Close, Goto
<1>19. ASSUME NEW u \in Turns, Settle(u) PROVE OneLiveTurnPerThread'
  BY <1>19 DEF Settle, Goto, SetStatus
<1>20. ASSUME NEW u \in Turns, Count(u) PROVE OneLiveTurnPerThread'
  BY <1>20 DEF Count, Goto
<1>21. ASSUME NEW u \in Turns, EndTurn(u) PROVE OneLiveTurnPerThread'
  BY <1>21 DEF EndTurn, Goto
<1>22. ASSUME NEW u \in Turns, LockTokens(u) PROVE OneLiveTurnPerThread'
  BY <1>22 DEF LockTokens, Goto
<1>23. ASSUME NEW u \in Turns, DropToken(u) PROVE OneLiveTurnPerThread'
  BY <1>23 DEF DropToken, NewTask, GateLeft
<1>24. ASSUME NEW c \in Callers, CallStep(c) PROVE OneLiveTurnPerThread'
  BY <1>24 DEF CallStep, InterruptThread, InterruptTurn, LockCall, Answer
<1>25. CASE UNCHANGED vars
  BY <1>25 DEF vars
<1> HIDE DEF OneLiveTurnPerThread, TaskAndStore, Begun, Stored, At, Undecided,
             Terminal, TypeOK, StoreTypeOK
<1> QED
  BY <1>1, <1>2, <1>3, <1>4, <1>5, <1>6, <1>7, <1>8, <1>9, <1>10, <1>11,
     <1>12, <1>13, <1>14, <1>15, <1>16, <1>17, <1>18, <1>19, <1>20, <1>21,
     <1>22, <1>23, <1>24, <1>25
     DEF Next, Command, Prompt, Waits, Whim, Chunk, StreamEnds

LEMMA GateStep ==
  ASSUME TypeOK, OneTurnPastTheGate, TypeOK', [Next]_vars
  PROVE  OneTurnPastTheGate'
<1> USE KernelAssumption, StoreAssumption DEF tokenVars, drivers, storeVars,
            OneTurnPastTheGate, At, PastGate, Streaming, TypeOK, Locals
<1>1. ASSUME NEW t \in Threads, NewSession(t) PROVE OneTurnPastTheGate'
  BY <1>1 DEF NewSession, CreateThread
<1>2. ASSUME NEW t \in Threads, DeleteSession(t) PROVE OneTurnPastTheGate'
  BY <1>2 DEF DeleteSession, DeleteThread
<1>3. ASSUME NEW p \in Providers, SetProvider(p) PROVE OneTurnPastTheGate'
  BY <1>3 DEF SetProvider
<1>4. ASSUME NEW t \in Threads, NEW u \in Turns, SendMessage(t, u)
      PROVE  OneTurnPastTheGate'
  BY <1>4 DEF SendMessage, BeginTurn, AddTurn, Accepts, ActiveTurns, TurnsOf,
         Goto
<1>5. ASSUME NEW t \in Threads, NEW u \in Turns, Selftest(t, u)
      PROVE  OneTurnPastTheGate'
  BY <1>5 DEF Selftest, AddTurn, Accepts, ActiveTurns, TurnsOf, Goto
<1>6. ASSUME NEW u \in Turns, Register(u) PROVE OneTurnPastTheGate'
  BY <1>6 DEF Register, Goto
<1>7. ASSUME NEW u \in Turns, Announce(u) PROVE OneTurnPastTheGate'
  BY <1>7 DEF Announce, Goto, SetStatus
<1>8. ASSUME NEW u \in Turns, ReadHistory(u) PROVE OneTurnPastTheGate'
  BY <1>8 DEF ReadHistory
<1>9. ASSUME NEW u \in Turns, LoseThread(u) PROVE OneTurnPastTheGate'
  BY <1>9 DEF LoseThread
<1>10. ASSUME NEW u \in Turns, EnterGate(u) PROVE OneTurnPastTheGate'
  BY <1>10 DEF EnterGate, GateFree
<1>11. ASSUME NEW u \in Turns, Cancel(u) PROVE OneTurnPastTheGate'
  BY <1>11 DEF Cancel, CancelWakes
<1>12. ASSUME NEW u \in Turns, Poll(u) PROVE OneTurnPastTheGate'
  BY <1>12 DEF Poll, Goto
<1>13. ASSUME NEW u \in Turns, NEW k \in Deltas, OnDelta(u, k)
       PROVE  OneTurnPastTheGate'
  BY <1>13 DEF OnDelta
<1>14. ASSUME NEW u \in Turns, Yield(u) PROVE OneTurnPastTheGate'
  BY <1>14 DEF Yield, Suspend, Goto
<1>15. ASSUME NEW u \in Turns, Hang(u) PROVE OneTurnPastTheGate'
  BY <1>15 DEF Hang, Suspend, Goto
<1>16. ASSUME NEW u \in Turns, NEW ok \in BOOLEAN, EndStream(u, ok)
       PROVE  OneTurnPastTheGate'
  BY <1>16 DEF EndStream, Verdict
<1>17. ASSUME NEW u \in Turns, Persist(u) PROVE OneTurnPastTheGate'
  BY <1>17 DEF Persist, Goto, SetText
<1>18. ASSUME NEW u \in Turns, Close(u) PROVE OneTurnPastTheGate'
  BY <1>18 DEF Close, Goto
<1>19. ASSUME NEW u \in Turns, Settle(u) PROVE OneTurnPastTheGate'
  BY <1>19 DEF Settle, Goto, SetStatus
<1>20. ASSUME NEW u \in Turns, Count(u) PROVE OneTurnPastTheGate'
  BY <1>20 DEF Count, Goto
<1>21. ASSUME NEW u \in Turns, EndTurn(u) PROVE OneTurnPastTheGate'
  BY <1>21 DEF EndTurn, Goto
<1>22. ASSUME NEW u \in Turns, LockTokens(u) PROVE OneTurnPastTheGate'
  BY <1>22 DEF LockTokens, Goto
<1>23. ASSUME NEW u \in Turns, DropToken(u) PROVE OneTurnPastTheGate'
  BY <1>23 DEF DropToken, NewTask, GateLeft
<1>24. ASSUME NEW c \in Callers, CallStep(c) PROVE OneTurnPastTheGate'
  BY <1>24 DEF CallStep, InterruptThread, InterruptTurn, LockCall, Answer
<1>25. CASE UNCHANGED vars
  BY <1>25 DEF vars
<1> HIDE DEF OneTurnPastTheGate, At, PastGate, Streaming, TypeOK, Locals
<1> QED
  BY <1>1, <1>2, <1>3, <1>4, <1>5, <1>6, <1>7, <1>8, <1>9, <1>10, <1>11,
     <1>12, <1>13, <1>14, <1>15, <1>16, <1>17, <1>18, <1>19, <1>20, <1>21,
     <1>22, <1>23, <1>24, <1>25
     DEF Next, Command, Prompt, Waits, Whim, Chunk, StreamEnds

LEMMA HistoryStep ==
  ASSUME TypeOK, TaskAndStore, OneLiveTurnPerThread, HistoryIsCurrent, TypeOK',
         [Next]_vars
  PROVE  HistoryIsCurrent'
<1> USE KernelAssumption, StoreAssumption DEF tokenVars, drivers, storeVars,
            HistoryIsCurrent, OneLiveTurnPerThread, TaskAndStore, History,
            TurnsOf, Begun, Stored, At, Undecided, Streaming, Terminal,
            TypeOK, StoreTypeOK
<1>1. ASSUME NEW t \in Threads, NewSession(t) PROVE HistoryIsCurrent'
  BY <1>1 DEF NewSession, CreateThread
<1>2. ASSUME NEW t \in Threads, DeleteSession(t) PROVE HistoryIsCurrent'
  BY <1>2 DEF DeleteSession, DeleteThread
<1>3. ASSUME NEW p \in Providers, SetProvider(p) PROVE HistoryIsCurrent'
  BY <1>3 DEF SetProvider
<1>4. ASSUME NEW t \in Threads, NEW u \in Turns, SendMessage(t, u)
      PROVE  HistoryIsCurrent'
  BY <1>4 DEF SendMessage, BeginTurn, AddTurn, Accepts, ActiveTurns, TurnsOf,
         Goto
<1>5. ASSUME NEW t \in Threads, NEW u \in Turns, Selftest(t, u)
      PROVE  HistoryIsCurrent'
  BY <1>5 DEF Selftest, AddTurn, Accepts, ActiveTurns, TurnsOf, Goto
<1>6. ASSUME NEW u \in Turns, Register(u) PROVE HistoryIsCurrent'
  BY <1>6 DEF Register, Goto
<1>7. ASSUME NEW u \in Turns, Announce(u) PROVE HistoryIsCurrent'
  BY <1>7 DEF Announce, Goto, SetStatus
<1>8. ASSUME NEW u \in Turns, ReadHistory(u) PROVE HistoryIsCurrent'
  BY <1>8 DEF ReadHistory
<1>9. ASSUME NEW u \in Turns, LoseThread(u) PROVE HistoryIsCurrent'
  BY <1>9 DEF LoseThread
<1>10. ASSUME NEW u \in Turns, EnterGate(u) PROVE HistoryIsCurrent'
  BY <1>10 DEF EnterGate, GateFree
<1>11. ASSUME NEW u \in Turns, Cancel(u) PROVE HistoryIsCurrent'
  BY <1>11 DEF Cancel, CancelWakes
<1>12. ASSUME NEW u \in Turns, Poll(u) PROVE HistoryIsCurrent'
  BY <1>12 DEF Poll, Goto
<1>13. ASSUME NEW u \in Turns, NEW k \in Deltas, OnDelta(u, k)
       PROVE  HistoryIsCurrent'
  BY <1>13 DEF OnDelta
<1>14. ASSUME NEW u \in Turns, Yield(u) PROVE HistoryIsCurrent'
  BY <1>14 DEF Yield, Suspend, Goto
<1>15. ASSUME NEW u \in Turns, Hang(u) PROVE HistoryIsCurrent'
  BY <1>15 DEF Hang, Suspend, Goto
<1>16. ASSUME NEW u \in Turns, NEW ok \in BOOLEAN, EndStream(u, ok)
       PROVE  HistoryIsCurrent'
  BY <1>16 DEF EndStream, Verdict
<1>17. ASSUME NEW u \in Turns, Persist(u) PROVE HistoryIsCurrent'
  BY <1>17 DEF Persist, Goto, SetText
<1>18. ASSUME NEW u \in Turns, Close(u) PROVE HistoryIsCurrent'
  BY <1>18 DEF Close, Goto
<1>19. ASSUME NEW u \in Turns, Settle(u) PROVE HistoryIsCurrent'
  BY <1>19 DEF Settle, Goto, SetStatus
<1>20. ASSUME NEW u \in Turns, Count(u) PROVE HistoryIsCurrent'
  BY <1>20 DEF Count, Goto
<1>21. ASSUME NEW u \in Turns, EndTurn(u) PROVE HistoryIsCurrent'
  BY <1>21 DEF EndTurn, Goto
<1>22. ASSUME NEW u \in Turns, LockTokens(u) PROVE HistoryIsCurrent'
  BY <1>22 DEF LockTokens, Goto
<1>23. ASSUME NEW u \in Turns, DropToken(u) PROVE HistoryIsCurrent'
  BY <1>23 DEF DropToken, NewTask, GateLeft
<1>24. ASSUME NEW c \in Callers, CallStep(c) PROVE HistoryIsCurrent'
  BY <1>24 DEF CallStep, InterruptThread, InterruptTurn, LockCall, Answer
<1>25. CASE UNCHANGED vars
  BY <1>25 DEF vars
<1> HIDE DEF HistoryIsCurrent, OneLiveTurnPerThread, TaskAndStore, History,
             TurnsOf, Begun, Stored, At, Undecided, Streaming, Terminal,
             TypeOK, StoreTypeOK
<1> QED
  BY <1>1, <1>2, <1>3, <1>4, <1>5, <1>6, <1>7, <1>8, <1>9, <1>10, <1>11,
     <1>12, <1>13, <1>14, <1>15, <1>16, <1>17, <1>18, <1>19, <1>20, <1>21,
     <1>22, <1>23, <1>24, <1>25
     DEF Next, Command, Prompt, Waits, Whim, Chunk, StreamEnds

LEMMA IInvInit == Init => IInv
<1> SUFFICES ASSUME Init PROVE IInv
  OBVIOUS
<1> USE StoreAssumption, KernelAssumption
<1>1. TypeOK
  BY TypeInit
<1>2. TaskAndStore
  BY DEF Init, StoreInit, NewTask, TaskAndStore, Begun, At, Stored, Decided,
     Undecided, Streaming, Terminal
<1>3. OneLiveTurnPerThread
  BY DEF Init, StoreInit, OneLiveTurnPerThread, Begun
<1>4. OneTurnPastTheGate
  BY DEF Init, NewTask, OneTurnPastTheGate, PastGate, Streaming
<1>5. HistoryIsCurrent
  BY DEF Init, NewTask, HistoryIsCurrent, Streaming
<1> QED
  BY <1>1, <1>2, <1>3, <1>4, <1>5 DEF IInv

LEMMA IInvStep == IInv /\ [Next]_vars => IInv'
<1> SUFFICES ASSUME IInv, [Next]_vars PROVE IInv'
  OBVIOUS
<1>1. TypeOK'
  BY TypeStep DEF IInv
<1> QED
  BY <1>1, TaskAndStoreStep, OneLiveStep, GateStep, HistoryStep DEF IInv

LEMMA Invariant == Spec => []IInv
  BY IInvInit, IInvStep, PTL DEF Spec

-----------------------------------------------------------------------------
(* The results.                                                            *)

(* Every reachable state is well typed: in particular no turn ever has the *)
(* status "none", so a task that settles has decided how its turn ended.   *)
THEOREM TypeCorrect == Spec => []TypeOK
<1>1. IInv => TypeOK
  BY DEF IInv
<1> QED
  BY <1>1, Invariant, PTL

(* begin_turn keeps its promise although delete_session, kernel_selftest   *)
(* and the tasks of other turns interleave with it.                        *)
THEOREM Exclusive == Spec => []OneLiveTurnPerThread
<1>1. IInv => OneLiveTurnPerThread
  BY DEF IInv
<1> QED
  BY <1>1, Invariant, PTL

(* provider_gate serialises the streams of all threads.                    *)
THEOREM GateMutex == Spec => []OneTurnPastTheGate
<1>1. IInv => OneTurnPastTheGate
  BY DEF IInv
<1> QED
  BY <1>1, Invariant, PTL

(* The history read before the wait for the gate is still the conversation *)
(* when the provider gets it.                                              *)
THEOREM HistoryStaysCurrent == Spec => []HistoryIsCurrent
<1>1. IInv => HistoryIsCurrent
  BY DEF IInv
<1> QED
  BY <1>1, Invariant, PTL

-----------------------------------------------------------------------------
(* Appending to a log notifications of other kinds than k, or one of kind  *)
(* k.                                                                      *)
LEMMA AppendSilent ==
  ASSUME NEW q \in Seq(Events), NEW s \in Seq(Events), NEW k,
         \A j \in 1 .. Len(s) : s[j] # k
  PROVE  {i \in DOMAIN (q \o s) : (q \o s)[i] = k} = {i \in DOMAIN q : q[i] = k}
<1>1. /\ q \o s \in Seq(Events)
      /\ Len(q \o s) = Len(q) + Len(s)
      /\ \A i \in 1 .. Len(q) + Len(s) :
            (q \o s)[i] = IF i <= Len(q) THEN q[i] ELSE s[i - Len(q)]
  BY ConcatProperties
<1>2. /\ DOMAIN q = 1 .. Len(q) /\ Len(q) \in Nat /\ Len(s) \in Nat
      /\ DOMAIN (q \o s) = 1 .. Len(q) + Len(s)
  BY <1>1, LenProperties
<1>3. \A i \in 1 .. Len(q) + Len(s) :
         ~(i <= Len(q)) => i - Len(q) \in 1 .. Len(s)
  BY <1>2
<1> QED
  BY <1>1, <1>2, <1>3

LEMMA AppendOne ==
  ASSUME NEW q \in Seq(Events), NEW k \in Events
  PROVE  Cardinality({i \in DOMAIN (q \o <<k>>) : (q \o <<k>>)[i] = k})
           = Cardinality({i \in DOMAIN q : q[i] = k}) + 1
<1> DEFINE old == {i \in DOMAIN q : q[i] = k}
           new == {i \in DOMAIN (q \o <<k>>) : (q \o <<k>>)[i] = k}
<1>1. /\ <<k>> \in Seq(Events) /\ Len(<<k>>) = 1 /\ <<k>>[1] = k
  OBVIOUS
<1>2. /\ q \o <<k>> \in Seq(Events)
      /\ Len(q \o <<k>>) = Len(q) + 1
      /\ \A i \in 1 .. Len(q) + 1 :
            (q \o <<k>>)[i] = IF i <= Len(q) THEN q[i] ELSE <<k>>[i - Len(q)]
  BY <1>1, ConcatProperties
<1>3. /\ DOMAIN q = 1 .. Len(q) /\ Len(q) \in Nat
      /\ DOMAIN (q \o <<k>>) = 1 .. Len(q) + 1
  BY <1>2, LenProperties
<1>4. new = old \cup {Len(q) + 1} /\ Len(q) + 1 \notin old
  <2>1. \A i \in 1 .. Len(q) + 1 : i <= Len(q) \/ i = Len(q) + 1
    BY <1>3
  <2>2. (q \o <<k>>)[Len(q) + 1] = k
    BY <1>1, <1>2, <1>3
  <2> QED
    BY <1>2, <1>3, <2>1, <2>2
<1>5. IsFiniteSet(old)
  <2>1. IsFiniteSet(1 .. Len(q))
    BY <1>3, FS_Interval
  <2> QED
    BY <1>3, <2>1, FS_Subset
<1> HIDE DEF old, new
<1>6. Cardinality(new) = Cardinality(old) + 1
  BY <1>4, <1>5, FS_AddElement
<1> QED
  BY <1>6 DEF old, new

(* The same, of a step that emits s for turn u.                            *)
LEMMA EmitSilent ==
  ASSUME TypeOK, NEW u \in Turns, NEW s \in Seq(Events), Emit(u, s), NEW k,
         \A j \in 1 .. Len(s) : s[j] # k
  PROVE  \A w \in Turns : Emitted(w, k)' = Emitted(w, k)
<1>1. \A w \in Turns : log'[w] = IF w = u THEN log[u] \o s ELSE log[w]
  BY DEF TypeOK, Emit
<1>2. log[u] \in Seq(Events)
  BY DEF TypeOK
<1>3. {i \in DOMAIN (log[u] \o s) : (log[u] \o s)[i] = k}
         = {i \in DOMAIN log[u] : log[u][i] = k}
  BY <1>2, AppendSilent
<1>4. TAKE w \in Turns
<1>5. CASE w = u
  BY <1>1, <1>3, <1>5 DEF Emitted
<1>6. CASE w # u
  BY <1>1, <1>6 DEF Emitted
<1> QED
  BY <1>5, <1>6

LEMMA EmitOne ==
  ASSUME TypeOK, NEW u \in Turns, NEW k \in Events, Emit(u, <<k>>)
  PROVE  Emitted(u, k)' = Emitted(u, k) + 1
<1>1. log'[u] = log[u] \o <<k>>
  BY DEF TypeOK, Emit
<1>2. log[u] \in Seq(Events)
  BY DEF TypeOK
<1>3. Cardinality({i \in DOMAIN (log[u] \o <<k>>) : (log[u] \o <<k>>)[i] = k})
      = Cardinality({i \in DOMAIN log[u] : log[u][i] = k}) + 1
  <2>1. PICK q \in Seq(Events) : q = log[u]
    BY <1>2
  <2>2. Cardinality({i \in DOMAIN (q \o <<k>>) : (q \o <<k>>)[i] = k})
        = Cardinality({i \in DOMAIN q : q[i] = k}) + 1
    BY AppendOne
  <2> QED
    BY <2>1, <2>2
<1> QED
  BY <1>1, <1>3 DEF Emitted

LEMMA EmitOther ==
  ASSUME TypeOK, NEW u \in Turns, NEW s, Emit(u, s), NEW k,
         NEW w \in Turns, w # u
  PROVE  Emitted(w, k)' = Emitted(w, k)
  BY DEF TypeOK, Emit, Emitted

(* One notification says nothing of another kind.                          *)
LEMMA OneOther ==
  ASSUME NEW e \in Events
  PROVE  /\ <<e>> \in Seq(Events)
         /\ \A k : k # e => \A j \in 1 .. Len(<<e>>) : <<e>>[j] # k
<1>1. <<e>> \in Seq(Events)
  OBVIOUS
<1>2. ASSUME NEW a PROVE Len(<<a>>) = 1 /\ <<a>>[1] = a
  BY SMTT(30)
<1> QED
  BY <1>1, <1>2

(* The answer of a turn grows only while its stream is polled, and is      *)
(* marked final only when it closes.                                       *)
LEMMA SilentStep ==
  ASSUME TypeOK, [Next]_vars, NEW k \in Deltas \cup {"final_answer"},
         NEW w \in Turns, ~OnDelta(w, k), k = "final_answer" => ~Close(w)
  PROVE  Emitted(w, k)' = Emitted(w, k)
<1> USE DEF Deltas
<1>1. ASSUME NEW u \in Turns, Announce(u) PROVE Emitted(w, k)' = Emitted(w, k)
  <2> DEFINE s == <<"turn/started", "item/started">>
  <2>1. s \in Seq(Events) /\ \A j \in 1 .. Len(s) : s[j] # k
    BY DEF Events
  <2> QED
    BY <1>1, <2>1, EmitSilent DEF Announce
<1>2. ASSUME NEW u \in Turns, LoseThread(u) PROVE Emitted(w, k)' = Emitted(w, k)
  <2>1. Failure \in Seq(Events) /\ \A j \in 1 .. Len(Failure) : Failure[j] # k
    BY DEF Events, Failure
  <2> QED
    BY <1>2, <2>1, EmitSilent DEF LoseThread
<1>3. ASSUME NEW u \in Turns, NEW j \in Deltas, OnDelta(u, j)
      PROVE  Emitted(w, k)' = Emitted(w, k)
  <2>1. CASE u # w
    BY <1>3, <2>1, EmitOther DEF OnDelta
  <2>2. CASE u = w
    <3>1. <<j>> \in Seq(Events) /\ \A i \in 1 .. Len(<<j>>) : <<j>>[i] # k
      BY <1>3, <2>2 DEF Events
    <3> QED
      BY <1>3, <3>1, EmitSilent DEF OnDelta
  <2> QED
    BY <2>1, <2>2
<1>4. ASSUME NEW u \in Turns, Close(u) PROVE Emitted(w, k)' = Emitted(w, k)
  <2>1. CASE u # w
    BY <1>4, <2>1, EmitOther DEF Close
  <2>2. CASE u = w
    <3>1. k \in {"delta", "reasoning"}
      BY <1>4, <2>2
    <3> DEFINE a == When(task[u].acc > 0, "final_answer")
               b == <<"item/completed">>
               c == When(Disclose(u), "warning")
    <3>2. a \in Seq(Events) /\ \A j \in 1 .. Len(a) : a[j] # k
      <4>1. CASE task[u].acc > 0
        <5>1. a = <<"final_answer">> /\ "final_answer" \in Events /\ "final_answer" # k
          BY <3>1, <4>1 DEF When, Events
        <5>2. /\ <<"final_answer">> \in Seq(Events)
              /\ \A j \in 1 .. Len(<<"final_answer">>) : <<"final_answer">>[j] # k
          BY <3>1, <5>1, OneOther
        <5> QED
          BY <5>1, <5>2
      <4>2. CASE ~(task[u].acc > 0)
        BY <4>2 DEF When
      <4> QED
        BY <4>1, <4>2
    <3>3. b \in Seq(Events) /\ \A j \in 1 .. Len(b) : b[j] # k
      BY <3>1 DEF Events
    <3>4. c \in Seq(Events) /\ \A j \in 1 .. Len(c) : c[j] # k
      <4>1. CASE Disclose(u)
        <5>1. c = <<"warning">> /\ "warning" \in Events /\ "warning" # k
          BY <3>1, <4>1 DEF When, Events
        <5>2. /\ <<"warning">> \in Seq(Events)
              /\ \A j \in 1 .. Len(<<"warning">>) : <<"warning">>[j] # k
          BY <3>1, <5>1, OneOther
        <5> QED
          BY <5>1, <5>2
      <4>2. CASE ~Disclose(u)
        BY <4>2 DEF When
      <4> QED
        BY <4>1, <4>2
    <3>5. Emit(u, a \o b \o c)
      BY <1>4 DEF Close
    <3> HIDE DEF a, b, c
    <3>6. a \o b \in Seq(Events) /\ \A j \in 1 .. Len(a \o b) : (a \o b)[j] # k
      BY <3>2, <3>3, ConcatProperties, LenProperties
    <3>7. /\ a \o b \o c \in Seq(Events)
          /\ \A j \in 1 .. Len(a \o b \o c) : (a \o b \o c)[j] # k
      BY <3>6, <3>4, ConcatProperties, LenProperties
    <3> QED
      BY <3>5, <3>7, EmitSilent
  <2> QED
    BY <2>1, <2>2
<1>5. ASSUME NEW u \in Turns, Count(u) PROVE Emitted(w, k)' = Emitted(w, k)
  <2>1. /\ Explanation(u) \in Seq(Events)
        /\ \A j \in 1 .. Len(Explanation(u)) : Explanation(u)[j] # k
    <3>1. CASE task[u].fate = "interrupted"
      BY <3>1 DEF Explanation, Events
    <3>2. CASE task[u].fate = "failed"
      BY <3>2 DEF Explanation, Events
    <3>3. CASE task[u].fate \notin {"interrupted", "failed"}
      BY <3>3 DEF Explanation, Events
    <3> QED
      BY <3>1, <3>2, <3>3
  <2> QED
    BY <1>5, <2>1, EmitSilent DEF Count
<1>6. ASSUME NEW u \in Turns, EndTurn(u) PROVE Emitted(w, k)' = Emitted(w, k)
  <2> DEFINE s == <<"turn/completed">>
  <2>1. s \in Seq(Events) /\ \A j \in 1 .. Len(s) : s[j] # k
    BY DEF Events
  <2> QED
    BY <1>6, <2>1, EmitSilent DEF EndTurn
<1>7. CASE UNCHANGED log
  BY <1>7 DEF Emitted
<1> QED
  BY <1>1, <1>2, <1>3, <1>4, <1>5, <1>6, <1>7
     DEF Next, vars, Command, Prompt, Waits, Whim, Chunk, StreamEnds, CallStep,
         NewSession, DeleteSession, SetProvider, SendMessage, Selftest,
         Register, ReadHistory, EnterGate, Cancel, Poll, Yield, Hang, Suspend,
         EndStream, Persist, Settle, LockTokens, DropToken, InterruptThread, InterruptTurn,
         LockCall, Answer

-----------------------------------------------------------------------------
(* While a newer turn of its thread is under way, an old turn is silent:   *)
(* whoever streams or closes has a live status in the store, so begin_turn *)
(* has not let a second turn in.                                           *)
THEOREM OldTurnsAreSilent == Spec => OldTurnIsSilent
<1> DEFINE Silent ==
      \A u, w \in Turns :
          /\ u # w /\ Begun(u) /\ owner[u] = owner[w]
          /\ status[w] \notin Terminal
          => \A k \in Deltas \cup {"final_answer"} :
                 Emitted(u, k)' = Emitted(u, k)
<1>1. IInv /\ [Next]_vars => Silent
  <2> SUFFICES ASSUME IInv, [Next]_vars,
                      NEW u \in Turns, NEW w \in Turns,
                      u # w, Begun(u), owner[u] = owner[w],
                      status[w] \notin Terminal,
                      NEW k \in Deltas \cup {"final_answer"}
               PROVE  Emitted(u, k)' = Emitted(u, k)
    OBVIOUS
  <2>1. status[u] \in Terminal
    BY DEF IInv, OneLiveTurnPerThread, Begun
  <2>2. ~At(u, "polling") /\ ~At(u, "closing")
    BY <2>1 DEF IInv, TaskAndStore, Undecided, Streaming, At
  <2>3. ~OnDelta(u, k) /\ ~Close(u)
    BY <2>2 DEF OnDelta, Close, Goto
  <2> QED
    BY <2>3, SilentStep DEF IInv
<1>2. IInv /\ [Next]_vars => [Silent]_vars
  BY <1>1
<1> QED
  BY <1>2, Invariant, PTL DEF Spec, OldTurnIsSilent

-----------------------------------------------------------------------------
(* The store keeps what the UI was sent: `accumulated` counts the deltas   *)
(* on the way, and Persist copies it before the status becomes terminal.   *)

Written == {"closing", "settling"} \cup Decided

AnswerCounted ==
    \A u \in Turns :
        /\ ~At(u, "done") => task[u].acc = Emitted(u, "delta")
        /\ task[u].at \in Written /\ Stored(u) => text[u] = Emitted(u, "delta")

LEMMA AnswerCountedInit == Init => AnswerCounted
<1> SUFFICES ASSUME Init, NEW u \in Turns
             PROVE  /\ task[u].acc = Emitted(u, "delta")
                    /\ ~(task[u].at \in Written)
  BY DEF AnswerCounted
<1>1. {i \in DOMAIN << >> : << >>[i] = "delta"} = {}
  OBVIOUS
<1>2. Emitted(u, "delta") = 0
  BY <1>1, FS_EmptySet DEF Init, Emitted
<1> QED
  BY <1>2 DEF Init, NewTask, Written, Decided

LEMMA AnswerCountedStep ==
  IInv /\ AnswerCounted /\ [Next]_vars => AnswerCounted'
<1> SUFFICES ASSUME IInv, AnswerCounted, [Next]_vars PROVE AnswerCounted'
  OBVIOUS
<1> USE StoreAssumption DEF IInv, tokenVars, drivers, storeVars,
            AnswerCounted, At, Written, Decided, Stored, Begun, TypeOK,
            Locals, StoreTypeOK
<1>1. CASE \E u \in Turns : OnDelta(u, "delta")
  <2>1. PICK u \in Turns : OnDelta(u, "delta")
    BY <1>1
  <2>2. Emitted(u, "delta")' = Emitted(u, "delta") + 1
    BY <2>1, EmitOne DEF OnDelta, Events, Deltas
  <2>3. \A w \in Turns : w # u => Emitted(w, "delta")' = Emitted(w, "delta")
    <3>1. Emit(u, <<"delta">>)
      BY <2>1 DEF OnDelta
    <3> QED
      BY <3>1, EmitOther
  <2>4. task' = [task EXCEPT ![u].acc = @ + 1] /\ At(u, "polling")
    BY <2>1 DEF OnDelta
  <2> QED
    BY <2>1, <2>2, <2>3, <2>4 DEF OnDelta
<1>2. CASE ~ \E u \in Turns : OnDelta(u, "delta")
  <2>1. \A w \in Turns : Emitted(w, "delta")' = Emitted(w, "delta")
    BY <1>2, SilentStep DEF Deltas
  <2>2. ASSUME NEW t \in Threads, NewSession(t) PROVE AnswerCounted'
    BY <2>2, <2>1 DEF NewSession, CreateThread, TaskAndStore
  <2>3. ASSUME NEW t \in Threads, DeleteSession(t) PROVE AnswerCounted'
    BY <2>3, <2>1 DEF DeleteSession, DeleteThread
  <2>4. ASSUME NEW t \in Threads, NEW u \in Turns, SendMessage(t, u)
        PROVE  AnswerCounted'
    BY <2>4, <2>1 DEF SendMessage, BeginTurn, AddTurn, Goto
  <2>5. ASSUME NEW t \in Threads, NEW u \in Turns, Selftest(t, u)
        PROVE  AnswerCounted'
    BY <2>5, <2>1 DEF Selftest, AddTurn, Goto, TaskAndStore
  <2>6. ASSUME NEW u \in Turns, Register(u) PROVE AnswerCounted'
    BY <2>6, <2>1 DEF Register, Goto
  <2>7. ASSUME NEW u \in Turns, Announce(u) PROVE AnswerCounted'
    BY <2>7, <2>1 DEF Announce, Goto
  <2>8. ASSUME NEW u \in Turns, ReadHistory(u) PROVE AnswerCounted'
    BY <2>8, <2>1 DEF ReadHistory
  <2>9. ASSUME NEW u \in Turns, LoseThread(u) PROVE AnswerCounted'
    BY <2>9, <2>1 DEF LoseThread
  <2>10. ASSUME NEW u \in Turns, EnterGate(u) PROVE AnswerCounted'
    BY <2>10, <2>1 DEF EnterGate
  <2>11. ASSUME NEW u \in Turns, Cancel(u) PROVE AnswerCounted'
    BY <2>11, <2>1 DEF Cancel, CancelWakes
  <2>12. ASSUME NEW u \in Turns, Poll(u) PROVE AnswerCounted'
    BY <2>12, <2>1 DEF Poll, Goto
  <2>13. ASSUME NEW u \in Turns, Yield(u) PROVE AnswerCounted'
    BY <2>13, <2>1 DEF Yield, Suspend, Goto
  <2>14. ASSUME NEW u \in Turns, Hang(u) PROVE AnswerCounted'
    BY <2>14, <2>1 DEF Hang, Suspend, Goto
  <2>15. ASSUME NEW u \in Turns, NEW ok \in BOOLEAN, EndStream(u, ok)
         PROVE  AnswerCounted'
    BY <2>15, <2>1 DEF EndStream
  <2>16. ASSUME NEW u \in Turns, Persist(u) PROVE AnswerCounted'
    BY <2>16, <2>1 DEF Persist, Goto, SetText
  <2>17. ASSUME NEW u \in Turns, Close(u) PROVE AnswerCounted'
    BY <2>17, <2>1 DEF Close, Goto
  <2>18. ASSUME NEW u \in Turns, Settle(u) PROVE AnswerCounted'
    BY <2>18, <2>1 DEF Settle, Goto
  <2>19. ASSUME NEW u \in Turns, Count(u) PROVE AnswerCounted'
    BY <2>19, <2>1 DEF Count, Goto
  <2>20. ASSUME NEW u \in Turns, EndTurn(u) PROVE AnswerCounted'
    BY <2>20, <2>1 DEF EndTurn, Goto
  <2>21. ASSUME NEW u \in Turns, LockTokens(u) PROVE AnswerCounted'
    BY <2>21, <2>1 DEF LockTokens, Goto
  <2>22. ASSUME NEW u \in Turns, DropToken(u) PROVE AnswerCounted'
    BY <2>22, <2>1 DEF DropToken, NewTask
  <2>23. CASE UNCHANGED <<storeVars, task>>
    BY <2>23, <2>1
  <2>24. ASSUME NEW u \in Turns, NEW k \in Deltas, OnDelta(u, k)
         PROVE  AnswerCounted'
    BY <1>2, <2>24, <2>23 DEF OnDelta
  <2> QED
    BY <2>2, <2>3, <2>4, <2>5, <2>6, <2>7, <2>8, <2>9, <2>10, <2>11, <2>12,
       <2>13, <2>14, <2>15, <2>16, <2>17, <2>18, <2>19, <2>20, <2>21, <2>22,
       <2>23, <2>24
       DEF Next, vars, Command, Prompt, Waits, Whim, Chunk, StreamEnds,
           CallStep, SetProvider, InterruptThread, InterruptTurn, LockCall, Answer
<1> QED
  BY <1>1, <1>2

(* "thread/read is coherent even for an interrupted or failed turn": the   *)
(* answer of a turn whose status is terminal is the deltas the UI got.     *)
THEOREM AnswersArePersisted == Spec => []AnswerIsPersisted
<1>1. IInv /\ AnswerCounted => AnswerIsPersisted
  <2> SUFFICES ASSUME IInv, AnswerCounted, NEW u \in Turns,
                      Stored(u), status[u] \in Terminal
               PROVE  text[u] = Emitted(u, "delta")
    BY DEF AnswerIsPersisted
  <2>1. task[u].at \in Places /\ task[u].at \notin Undecided \cup {"idle"}
    BY DEF IInv, TypeOK, Locals, TaskAndStore
  <2>2. task[u].at \in Written
    BY <2>1 DEF Places, Live, PastGate, Undecided, Streaming, Written, Decided
  <2> QED
    BY <2>2 DEF AnswerCounted
<1> QED
  BY <1>1, Invariant, AnswerCountedInit, AnswerCountedStep, PTL DEF Spec

-----------------------------------------------------------------------------
(* What has been said about a turn follows from where its task is.         *)

Has(s, k)  == \E i \in DOMAIN s : s[i] = k
Says(u, k) == Has(log[u], k)

Quiet == {"idle", "begun", "spawned"}
Over  == {"removing", "dropping", "done"}

(* A turn is announced on its way to the gate, its end is the last thing   *)
(* said of it, and whether its item or an error has been reported before   *)
(* the end depends on its fate alone.                                      *)
Shape(u) ==
    /\ task[u].at \in Quiet <=> log[u] = <<>>
    /\ Says(u, "turn/completed") <=> task[u].at \in Over
    /\ task[u].at \in Over => Emitted(u, "turn/completed") = 1
    /\ Says(u, "error") => task[u].at \in {"ending"} \cup Over
    /\ At(u, "ending") => (Says(u, "error") <=> task[u].fate = "failed")
    /\ Says(u, "item/completed") =>
          task[u].at \in {"settling", "settled", "ending"} \cup Over
    /\ task[u].at \in {"settling", "settled"} =>
          (Says(u, "item/completed") <=> task[u].fate = "completed")
    /\ At(u, "ending") =>
          (Says(u, "item/completed") <=> task[u].fate # "failed")
    /\ At(u, "closing") => task[u].fate = "completed"

LogShape == \A u \in Turns : Shape(u)

(* Which kinds of notification a sequence holds.                           *)
LEMMA HasNone == \A k : ~Has(<<>>, k)
  BY DEF Has

LEMMA HasOne == \A e, k : Has(<<e>>, k) <=> k = e
<1> SUFFICES ASSUME NEW e, NEW k PROVE Has(<<e>>, k) <=> k = e
  OBVIOUS
<1>1. DOMAIN <<e>> = {1} /\ <<e>>[1] = e
  OBVIOUS
<1> QED
  BY <1>1 DEF Has

LEMMA HasTwo == \A e, f, k : Has(<<e, f>>, k) <=> k = e \/ k = f
<1> SUFFICES ASSUME NEW e, NEW f, NEW k PROVE Has(<<e, f>>, k) <=> k = e \/ k = f
  OBVIOUS
<1>1. DOMAIN <<e, f>> = {1, 2} /\ <<e, f>>[1] = e /\ <<e, f>>[2] = f
  OBVIOUS
<1> QED
  BY <1>1 DEF Has

LEMMA EventSeqs ==
  /\ <<>> \in Seq(Events)
  /\ \A e \in Events : <<e>> \in Seq(Events) /\ <<e>> # <<>>
  /\ \A e, f \in Events : <<e, f>> \in Seq(Events) /\ <<e, f>> # <<>>
  OBVIOUS

LEMMA HasConcat ==
  ASSUME NEW q \in Seq(Events), NEW s \in Seq(Events), NEW k
  PROVE  Has(q \o s, k) <=> Has(q, k) \/ Has(s, k)
<1>1. /\ Len(q \o s) = Len(q) + Len(s)
      /\ \A i \in 1 .. Len(q) + Len(s) :
            (q \o s)[i] = IF i <= Len(q) THEN q[i] ELSE s[i - Len(q)]
      /\ q \o s \in Seq(Events)
  BY ConcatProperties
<1>2. /\ DOMAIN q = 1 .. Len(q) /\ Len(q) \in Nat
      /\ DOMAIN s = 1 .. Len(s) /\ Len(s) \in Nat
      /\ DOMAIN (q \o s) = 1 .. Len(q) + Len(s)
  BY <1>1, LenProperties
<1>3. ASSUME NEW j \in 1 .. Len(s), s[j] = k
      PROVE  Has(q \o s, k)
  <2>1. Len(q) + j \in DOMAIN (q \o s) /\ (q \o s)[Len(q) + j] = k
    BY <1>1, <1>2, <1>3
  <2> QED
    BY <2>1 DEF Has
<1>4. Has(q, k) => Has(q \o s, k)
  BY <1>1, <1>2 DEF Has
<1>5. ASSUME NEW i \in 1 .. Len(q) + Len(s), (q \o s)[i] = k
      PROVE  Has(q, k) \/ Has(s, k)
  <2>1. CASE i <= Len(q)
    BY <1>1, <1>2, <1>5, <2>1 DEF Has
  <2>2. CASE ~(i <= Len(q))
    <3>1. i - Len(q) \in DOMAIN s /\ s[i - Len(q)] = k
      BY <1>1, <1>2, <1>5, <2>2
    <3> QED
      BY <3>1 DEF Has
  <2> QED
    BY <2>1, <2>2
<1> QED
  BY <1>2, <1>3, <1>4, <1>5 DEF Has

(* What is said after some more notifications s of turn u.                 *)
LEMMA SaysMore ==
  ASSUME TypeOK, NEW u \in Turns, NEW s \in Seq(Events), Emit(u, s)
  PROVE  /\ \A w \in Turns \ {u} : log'[w] = log[w]
         /\ \A k : Says(u, k)' <=> Says(u, k) \/ Has(s, k)
         /\ log'[u] = <<>> <=> log[u] = <<>> /\ s = <<>>
<1>1. log[u] \in Seq(Events)
  BY DEF TypeOK
<1>2. log'[u] = log[u] \o s /\ \A w \in Turns \ {u} : log'[w] = log[w]
  BY DEF TypeOK, Emit
<1>3. \A k : Says(u, k)' <=> Says(u, k) \/ Has(s, k)
  BY <1>1, <1>2, HasConcat DEF Says
<1>4. log'[u] = <<>> <=> log[u] = <<>> /\ s = <<>>
  BY <1>1, <1>2, ConcatProperties, LenProperties, EmptySeq
<1> QED
  BY <1>2, <1>3, <1>4

(* Nothing was said of kind k exactly when none was counted.               *)
LEMMA SaysCounts ==
  ASSUME TypeOK, NEW u \in Turns, NEW k
  PROVE  /\ Emitted(u, k) \in Nat
         /\ Says(u, k) <=> Emitted(u, k) # 0
<1> DEFINE S == {i \in DOMAIN log[u] : log[u][i] = k}
<1>1. IsFiniteSet(S)
  <2>1. DOMAIN log[u] = 1 .. Len(log[u]) /\ Len(log[u]) \in Nat
    BY LenProperties DEF TypeOK
  <2>2. IsFiniteSet(DOMAIN log[u])
    BY <2>1, FS_Interval
  <2> QED
    BY <2>2, FS_Subset
<1>2. S = {} <=> Cardinality(S) = 0
  BY <1>1, FS_EmptySet
<1>3. Cardinality(S) \in Nat
  BY <1>1, FS_CardinalityType
<1> QED
  BY <1>2, <1>3 DEF Says, Has, Emitted

(* The first notification of its kind.                                     *)
LEMMA EmitFirst ==
  ASSUME TypeOK, NEW u \in Turns, NEW k \in Events, Emit(u, <<k>>), ~Says(u, k)
  PROVE  Emitted(u, k)' = 1
<1>1. Emitted(u, k) = 0
  BY SaysCounts
<1> QED
  BY <1>1, EmitOne

(* A step of u that says nothing, and leaves the other tasks alone.        *)
LEMMA ShapeFrame ==
  ASSUME LogShape, NEW u \in Turns, Shape(u)',
         \A w \in Turns \ {u} : /\ log'[w] = log[w]
                                /\ task'[w].at = task[w].at
                                /\ task'[w].fate = task[w].fate
  PROVE  LogShape'
<1>1. ASSUME NEW w \in Turns \ {u} PROVE Shape(w)'
  <2>1. Shape(w) /\ log'[w] = log[w]
    BY DEF LogShape
  <2>2. /\ \A k : Says(w, k)' <=> Says(w, k)
        /\ \A k : Emitted(w, k)' = Emitted(w, k)
    BY <2>1 DEF Says, Has, Emitted
  <2> QED
    BY <2>1, <2>2 DEF Shape, At
<1> QED
  BY <1>1 DEF LogShape

(* A step of u that says nothing.                                          *)
LEMMA Silence ==
  ASSUME LogShape, NEW u \in Turns, UNCHANGED log
  PROVE  /\ Shape(u)
         /\ \A k : Says(u, k)' <=> Says(u, k)
         /\ \A k : Emitted(u, k)' = Emitted(u, k)
  BY DEF LogShape, Says, Has, Emitted

LEMMA LogShapeInit == Init => LogShape
<1> SUFFICES ASSUME Init, NEW u \in Turns PROVE Shape(u)
  BY DEF LogShape
<1>1. log[u] = <<>> /\ At(u, "idle")
  BY DEF Init, NewTask, At
<1>2. \A k : ~Says(u, k)
  BY <1>1 DEF Says, Has
<1> QED
  BY <1>1, <1>2 DEF Shape, At, Quiet, Over

(* What Close and Count say.                                               *)
LEMMA ClosingSaid ==
  ASSUME NEW u
  PROVE  LET s == When(task[u].acc > 0, "final_answer") \o <<"item/completed">>
                  \o When(Disclose(u), "warning")
         IN  /\ s \in Seq(Events)
             /\ Has(s, "item/completed")
             /\ ~Has(s, "error") /\ ~Has(s, "turn/completed")
<1> DEFINE a == When(task[u].acc > 0, "final_answer")
           b == <<"item/completed">>
           c == When(Disclose(u), "warning")
<1>1. /\ a \in Seq(Events) /\ b \in Seq(Events) /\ c \in Seq(Events)
      /\ a \o b \in Seq(Events) /\ a \o b \o c \in Seq(Events)
  <2>1. a = <<>> \/ a = <<"final_answer">>
    BY DEF When
  <2>2. c = <<>> \/ c = <<"warning">>
    BY DEF When
  <2>3. {"final_answer", "item/completed", "warning"} \subseteq Events
    BY DEF Events
  <2>4. a \in Seq(Events) /\ b \in Seq(Events) /\ c \in Seq(Events)
    BY <2>1, <2>2, <2>3, EventSeqs
  <2> QED
    BY <2>4, ConcatProperties
<1>2. ASSUME NEW k, k \in {"item/completed", "error", "turn/completed"}
      PROVE  ~Has(a, k) /\ ~Has(c, k)
  BY <1>2, HasNone, HasOne DEF When
<1>3. \A k : Has(b, k) <=> k = "item/completed"
  BY HasOne
<1> HIDE DEF a, b, c
<1>4. \A k : Has(a \o b \o c, k) <=> Has(a, k) \/ Has(b, k) \/ Has(c, k)
  BY <1>1, HasConcat
<1>5. /\ a \o b \o c \in Seq(Events)
      /\ Has(a \o b \o c, "item/completed")
      /\ ~Has(a \o b \o c, "error") /\ ~Has(a \o b \o c, "turn/completed")
  BY <1>1, <1>2, <1>3, <1>4
<1> QED
  BY <1>5 DEF a, b, c

LEMMA ExplanationSaid ==
  ASSUME NEW u, task[u].fate \in Terminal
  PROVE  /\ Explanation(u) \in Seq(Events)
         /\ \A k : Has(Explanation(u), k) <=>
                      \/ task[u].fate = "interrupted" /\ k = "item/completed"
                      \/ task[u].fate = "failed" /\ k = "error"
<1>0. {"item/completed", "error"} \subseteq Events
  BY DEF Events
<1>1. CASE task[u].fate = "interrupted"
  BY <1>0, <1>1, HasOne, EventSeqs DEF Explanation
<1>2. CASE task[u].fate = "failed"
  BY <1>0, <1>2, HasOne, EventSeqs DEF Explanation
<1>3. CASE task[u].fate = "completed"
  BY <1>3, HasNone, EventSeqs DEF Explanation
<1> QED
  BY <1>1, <1>2, <1>3 DEF Terminal

LEMMA LogShapeStep ==
  ASSUME IInv, LogShape, [Next]_vars
  PROVE  LogShape'
<1> USE DEF tokenVars, drivers, storeVars, At, Quiet, Over
<1>0. TypeOK
  BY DEF IInv
<1> DEFINE Alone(u) == \A w \in Turns \ {u} : /\ log'[w] = log[w]
                                             /\ task'[w].at = task[w].at
                                             /\ task'[w].fate = task[w].fate
<1> DEFINE Moves(u) ==
      \/ task[u].at \in Quiet /\ task'[u].at \in Quiet
      \/ /\ task[u].at \in {"reading", "queued"} \cup Streaming
         /\ task'[u].at \in {"queued", "persisting"} \cup Streaming
      \/ /\ At(u, "persisting") /\ task'[u].fate = task[u].fate
         /\ task'[u].at = IF task[u].fate = "completed" THEN "closing"
                         ELSE "settling"
      \/ /\ At(u, "settling") /\ task'[u].at = "settled"
         /\ task'[u].fate = task[u].fate
      \/ task[u].at \in Over /\ task'[u].at \in Over
<1>1. ASSUME NEW u \in Turns, UNCHANGED log, Alone(u), Moves(u)
      PROVE  LogShape'
  <2>1. Shape(u)'
    BY <1>1, Silence DEF Shape, Streaming
  <2> QED
    BY <1>1, <2>1, ShapeFrame
<1>2. ASSUME NEW u \in Turns, Announce(u) PROVE LogShape'
  <2> DEFINE s == <<"turn/started", "item/started">>
  <2>1. /\ s \in Seq(Events) /\ s # <<>>
        /\ \A k : Has(s, k) <=> k = "turn/started" \/ k = "item/started"
    <3>1. {"turn/started", "item/started"} \subseteq Events
      BY DEF Events
    <3> QED
      BY <3>1, HasTwo, EventSeqs
  <2>2. Emit(u, s) /\ At(u, "spawned") /\ task' = [task EXCEPT ![u].at = "reading"]
    BY <1>2 DEF Announce, Goto
  <2> HIDE DEF s
  <2>3. /\ \A w \in Turns \ {u} : log'[w] = log[w]
        /\ \A k : Says(u, k)' <=> Says(u, k) \/ Has(s, k)
        /\ log'[u] # <<>>
    BY <1>0, <2>1, <2>2, SaysMore
  <2>4. /\ Says(u, "turn/completed")' <=> Says(u, "turn/completed")
        /\ Says(u, "error")' <=> Says(u, "error")
        /\ Says(u, "item/completed")' <=> Says(u, "item/completed")
    BY <2>1, <2>3
  <2>5. Alone(u) /\ task'[u].at = "reading"
    BY <1>0, <2>2, <2>3 DEF TypeOK, Locals
  <2>6. Shape(u)'
    BY <2>2, <2>3, <2>4, <2>5 DEF Shape, LogShape
  <2> QED
    BY <2>5, <2>6, ShapeFrame
<1>3. ASSUME NEW u \in Turns, LoseThread(u) PROVE LogShape'
  <2>1. /\ Failure \in Seq(Events) /\ Failure # <<>>
        /\ \A k : Has(Failure, k) <=> k = "error" \/ k = "turn/completed"
    <3>1. {"error", "turn/completed"} \subseteq Events
      BY DEF Events
    <3> QED
      BY <3>1, HasTwo, EventSeqs DEF Failure
  <2>2. Emit(u, Failure) /\ At(u, "reading")
        /\ task' = [task EXCEPT ![u] = [@ EXCEPT !.at = "done", !.fate = "failed"]]
    BY <1>3 DEF LoseThread
  <2>3. /\ \A w \in Turns \ {u} : log'[w] = log[w]
        /\ \A k : Says(u, k)' <=> Says(u, k) \/ Has(Failure, k)
        /\ log'[u] # <<>>
    BY <1>0, <2>1, <2>2, SaysMore
  <2>4. /\ Says(u, "turn/completed")'
        /\ Says(u, "item/completed")' <=> Says(u, "item/completed")
    BY <2>1, <2>3
  <2>5. Emitted(u, "turn/completed")' = 1
    <3> DEFINE q == log[u] \o <<"error">>
               k == "turn/completed"
    <3>1. log[u] \in Seq(Events) /\ "error" \in Events /\ k \in Events
      BY <1>0 DEF TypeOK, Events
    <3>2. /\ <<"error">> \in Seq(Events) /\ <<k>> \in Seq(Events)
          /\ \A j \in 1 .. Len(<<"error">>) : <<"error">>[j] # k
      BY <3>1
    <3>3. q \in Seq(Events)
      BY <3>1, <3>2, ConcatProperties
    <3>4. {i \in DOMAIN q : q[i] = k} = {i \in DOMAIN log[u] : log[u][i] = k}
      BY <3>1, <3>2, AppendSilent
    <3>5. Cardinality({i \in DOMAIN log[u] : log[u][i] = k}) = 0
      <4>1. ~Says(u, k)
        BY <2>2 DEF LogShape, Shape
      <4> QED
        BY <1>0, <4>1, SaysCounts DEF Emitted
    <3>6. log'[u] = q \o <<k>>
      <4>1. log'[u] = log[u] \o Failure
        BY <1>0, <2>2 DEF Emit, TypeOK
      <4>2. Failure = <<"error">> \o <<k>>
        BY DEF Failure
      <4> QED
        BY <3>1, <3>2, <4>1, <4>2, ConcatAssociative
    <3> DEFINE C(s) == Cardinality({i \in DOMAIN s : s[i] = k})
    <3>7. C(q \o <<k>>) = C(q) + 1
      BY <3>1, <3>3, AppendOne
    <3>8. C(q) = 0
      BY <3>4, <3>5
    <3>9. Emitted(u, k)' = C(q \o <<k>>)
      BY <3>6 DEF Emitted
    <3> HIDE DEF q, k, C
    <3>10. Emitted(u, k)' = 1
      BY <3>7, <3>8, <3>9
    <3> QED
      BY <3>10 DEF k
  <2>6. Alone(u) /\ task'[u].at = "done"
    BY <1>0, <2>2, <2>3 DEF TypeOK, Locals
  <2>7. Shape(u)'
    BY <2>2, <2>3, <2>4, <2>5, <2>6 DEF Shape, LogShape
  <2> QED
    BY <2>6, <2>7, ShapeFrame
<1>4. ASSUME NEW u \in Turns, NEW k \in Deltas, OnDelta(u, k) PROVE LogShape'
  <2>1. <<k>> \in Seq(Events) /\ <<k>> # <<>> /\ \A e : Has(<<k>>, e) <=> e = k
    <3>1. k \in Events
      BY DEF Events
    <3> QED
      BY <3>1, HasOne, EventSeqs
  <2>2. Emit(u, <<k>>) /\ At(u, "polling")
    BY <1>4 DEF OnDelta
  <2>3. \A w \in Turns : task'[w].at = task[w].at /\ task'[w].fate = task[w].fate
    BY <1>0, <1>4, OnDeltaMoves
  <2>4. /\ \A w \in Turns \ {u} : log'[w] = log[w]
        /\ \A e : Says(u, e)' <=> Says(u, e) \/ e = k
        /\ log'[u] # <<>>
    BY <1>0, <2>1, <2>2, SaysMore
  <2>5. Shape(u)'
    BY <2>2, <2>3, <2>4 DEF Shape, LogShape, Deltas
  <2> QED
    BY <2>3, <2>4, <2>5, ShapeFrame
<1>5. ASSUME NEW u \in Turns, Close(u) PROVE LogShape'
  <2> DEFINE a == When(task[u].acc > 0, "final_answer")
             b == <<"item/completed">>
             c == When(Disclose(u), "warning")
             s == a \o b \o c
  <2>1. /\ s \in Seq(Events)
        /\ Has(s, "item/completed")
        /\ ~Has(s, "error") /\ ~Has(s, "turn/completed")
    BY ClosingSaid
  <2>2. Emit(u, s) /\ At(u, "closing") /\ task' = [task EXCEPT ![u].at = "settling"]
    BY <1>5 DEF Close, Goto
  <2> HIDE DEF s
  <2>3. /\ \A w \in Turns \ {u} : log'[w] = log[w]
        /\ \A k : Says(u, k)' <=> Says(u, k) \/ Has(s, k)
        /\ log'[u] = <<>> <=> log[u] = <<>> /\ s = <<>>
    BY <1>0, <2>1, <2>2, SaysMore
  <2>4. /\ Says(u, "item/completed")'
        /\ Says(u, "error")' <=> Says(u, "error")
        /\ Says(u, "turn/completed")' <=> Says(u, "turn/completed")
    BY <2>1, <2>3
  <2>5. Alone(u) /\ task'[u].at = "settling" /\ task'[u].fate = task[u].fate
    BY <1>0, <2>2, <2>3 DEF TypeOK, Locals
  <2>6. Shape(u)'
    BY <2>2, <2>3, <2>4, <2>5 DEF Shape, LogShape
  <2> QED
    BY <2>5, <2>6, ShapeFrame
<1>6. ASSUME NEW u \in Turns, Count(u) PROVE LogShape'
  <2> DEFINE s == Explanation(u)
  <2>1. Emit(u, s) /\ At(u, "settled") /\ task' = [task EXCEPT ![u].at = "ending"]
    BY <1>6 DEF Count, Goto
  <2>2. task[u].fate \in Terminal
    BY <2>1 DEF IInv, TaskAndStore, Decided
  <2>3. /\ s \in Seq(Events)
        /\ \A k : Has(s, k) <=>
                     \/ task[u].fate = "interrupted" /\ k = "item/completed"
                     \/ task[u].fate = "failed" /\ k = "error"
    BY ExplanationSaid, <2>2
  <2> HIDE DEF s
  <2>4. /\ \A w \in Turns \ {u} : log'[w] = log[w]
        /\ \A k : Says(u, k)' <=> Says(u, k) \/ Has(s, k)
        /\ log'[u] = <<>> <=> log[u] = <<>> /\ s = <<>>
    BY <1>0, <2>1, <2>3, SaysMore
  <2>5. /\ Says(u, "item/completed")' <=>
              Says(u, "item/completed") \/ task[u].fate = "interrupted"
        /\ Says(u, "error")' <=> Says(u, "error") \/ task[u].fate = "failed"
        /\ Says(u, "turn/completed")' <=> Says(u, "turn/completed")
    BY <2>3, <2>4
  <2>6. Alone(u) /\ task'[u].at = "ending" /\ task'[u].fate = task[u].fate
    BY <1>0, <2>1, <2>4 DEF TypeOK, Locals
  <2>7. Shape(u)'
    BY <2>1, <2>2, <2>4, <2>5, <2>6 DEF Shape, LogShape, Terminal
  <2> QED
    BY <2>6, <2>7, ShapeFrame
<1>7. ASSUME NEW u \in Turns, EndTurn(u) PROVE LogShape'
  <2> DEFINE e == "turn/completed"
  <2>1. Emit(u, <<e>>) /\ At(u, "ending") /\ task' = [task EXCEPT ![u].at = "removing"]
    BY <1>7 DEF EndTurn, Goto
  <2>2. /\ <<e>> \in Seq(Events) /\ <<e>> # <<>> /\ e \in Events
        /\ \A k : Has(<<e>>, k) <=> k = e
    <3>1. e \in Events
      BY DEF Events
    <3> QED
      BY <3>1, HasOne, EventSeqs
  <2>3. /\ \A w \in Turns \ {u} : log'[w] = log[w]
        /\ \A k : Says(u, k)' <=> Says(u, k) \/ k = e
        /\ log'[u] # <<>>
    BY <1>0, <2>1, <2>2, SaysMore
  <2>4. Emitted(u, e)' = 1
    BY <1>0, <2>1, <2>2, EmitFirst DEF LogShape, Shape
  <2>5. Alone(u) /\ task'[u].at = "removing" /\ task'[u].fate = task[u].fate
    BY <1>0, <2>1, <2>3 DEF TypeOK, Locals
  <2>6. Shape(u)'
    BY <2>1, <2>3, <2>4, <2>5 DEF Shape, LogShape
  <2> QED
    BY <2>5, <2>6, ShapeFrame
<1>8. ASSUME NEW u \in Turns, Prompt(u) \/ Waits(u) \/ Hang(u) PROVE LogShape'
  <2> USE <1>0 DEF TypeOK, Locals, Goto, Streaming
  <2> DEFINE Silent == UNCHANGED log /\ Alone(u) /\ Moves(u)
  <2>1. ASSUME Register(u) PROVE Silent
    BY <2>1 DEF Register
  <2>2. ASSUME ReadHistory(u) PROVE Silent
    BY <2>2 DEF ReadHistory
  <2>3. ASSUME EnterGate(u) PROVE Silent
    BY <2>3 DEF EnterGate
  <2>4. ASSUME Cancel(u) PROVE Silent
    BY <2>4 DEF Cancel, CancelWakes
  <2>5. ASSUME Poll(u) PROVE Silent
    BY <2>5 DEF Poll
  <2>6. ASSUME Yield(u) \/ Hang(u) PROVE Silent
    BY <2>6 DEF Yield, Hang, Suspend
  <2>7. ASSUME StreamEnds(u) PROVE Silent
    BY <2>7 DEF StreamEnds, EndStream
  <2>8. ASSUME Persist(u) PROVE Silent
    BY <2>8 DEF Persist
  <2>9. ASSUME Settle(u) PROVE Silent
    BY <2>9 DEF Settle
  <2>10. ASSUME LockTokens(u) PROVE Silent
    BY <2>10 DEF LockTokens
  <2>11. ASSUME DropToken(u) PROVE Silent
    BY <2>11 DEF DropToken, NewTask
  <2>12. Silent => LogShape'
    BY <1>1
  <2> HIDE DEF Silent
  <2> QED
    BY <1>2, <1>3, <1>5, <1>6, <1>7, <1>8, <2>1, <2>2, <2>3, <2>4, <2>5, <2>6,
       <2>7, <2>8, <2>9, <2>10, <2>11, <2>12 DEF Prompt, Waits
<1>9. ASSUME NEW t \in Threads, NEW u \in Turns, SendMessage(t, u) \/ Selftest(t, u)
      PROVE  LogShape'
  <2>1. UNCHANGED log /\ Alone(u) /\ Moves(u)
    BY <1>0, <1>9 DEF SendMessage, Selftest, Goto, TypeOK, Locals
  <2> QED
    BY <1>1, <2>1
<1>10. CASE UNCHANGED <<task, log>>
  <2>1. \A u \in Turns : Shape(u)'
    BY <1>10, Silence DEF Shape
  <2> QED
    BY <2>1 DEF LogShape
<1> QED
  BY <1>4, <1>8, <1>9, <1>10
     DEF Next, vars, Command, Whim, Chunk, CallStep, NewSession, DeleteSession,
         SetProvider, InterruptThread, InterruptTurn, LockCall, Answer

LEMMA ShapeInvariant == Spec => [](IInv /\ LogShape)
  BY Invariant, LogShapeInit, LogShapeStep, PTL DEF Spec

(* A task that has ended has freed its thread for the next turn, and said  *)
(* so to the UI exactly once, whichever way it left run_turn.              *)
THEOREM EndsAreAnnounced == Spec => []EndedTurnIsAnnounced
<1>1. IInv /\ LogShape => EndedTurnIsAnnounced
  BY DEF IInv, TaskAndStore, Decided, LogShape, Shape, Over, At,
         EndedTurnIsAnnounced
<1> QED
  BY <1>1, ShapeInvariant, PTL
-----------------------------------------------------------------------------
(* The counters add up.  There may be infinitely many turns: at any time   *)
(* finitely many have been spawned and not been counted.                   *)

Uncounted == {u \in Turns : task[u].at \in Live \ {"ending", "removing", "dropping"}}

Balance ==
    /\ IsFiniteSet(Uncounted)
    /\ counters["started"] =
           counters["completed"] + counters["failed"] + counters["interrupted"]
           + Cardinality(Uncounted)

LEMMA BalanceInit == Init => Balance
<1> SUFFICES ASSUME Init PROVE Balance
  OBVIOUS
<1>1. Uncounted = {}
  BY DEF Init, NewTask, Uncounted, Live, PastGate, Streaming
<1>2. \A c \in Counted : counters[c] = 0
  BY DEF Init
<1> QED
  BY <1>1, <1>2, FS_EmptySet DEF Balance, Counted, Terminal

(* A turn starts, or one is counted.                                       *)
LEMMA BalanceStarts ==
  ASSUME TypeOK, Balance, Bump("started"), NEW u, u \notin Uncounted,
         Uncounted' = Uncounted \cup {u}
  PROVE  Balance'
<1>1. /\ IsFiniteSet(Uncounted')
      /\ Cardinality(Uncounted') = Cardinality(Uncounted) + 1
  BY FS_AddElement DEF Balance
<1>2. Cardinality(Uncounted) \in Nat
  BY FS_CardinalityType DEF Balance
<1>3. counters \in [Counted -> Nat]
  BY DEF TypeOK
<1> QED
  BY <1>1, <1>2, <1>3 DEF Balance, Bump, Counted, Terminal

LEMMA BalanceCounts ==
  ASSUME TypeOK, Balance, NEW c \in Terminal, Bump(c), NEW u \in Uncounted,
         Uncounted' = Uncounted \ {u}
  PROVE  Balance'
<1>1. /\ IsFiniteSet(Uncounted')
      /\ Cardinality(Uncounted') = Cardinality(Uncounted) - 1
  BY FS_RemoveElement DEF Balance
<1>2. Cardinality(Uncounted) \in Nat
  BY FS_CardinalityType DEF Balance
<1>3. counters \in [Counted -> Nat]
  BY DEF TypeOK
<1> QED
  BY <1>1, <1>2, <1>3 DEF Balance, Bump, Counted, Terminal

LEMMA BalanceStep ==
  ASSUME IInv, Balance, [Next]_vars
  PROVE  Balance'
<1> USE DEF tokenVars, drivers, storeVars, At, Goto
<1>0. TypeOK
  BY DEF IInv
<1> DEFINE Neutral == Uncounted' = Uncounted /\ UNCHANGED counters
<1>1. ASSUME Neutral PROVE Balance'
  BY <1>1 DEF Balance
<1>2. ASSUME NEW u \in Turns, Register(u) PROVE Balance'
  <2>1. u \notin Uncounted /\ Uncounted' = Uncounted \cup {u} /\ Bump("started")
    BY <1>0, <1>2 DEF Register, Uncounted, Live, PastGate, Streaming, TypeOK,
           Locals
  <2> QED
    BY <1>0, <2>1, BalanceStarts
<1>3. ASSUME NEW u \in Turns, LoseThread(u) PROVE Balance'
  <2>1. u \in Uncounted /\ Uncounted' = Uncounted \ {u} /\ Bump("failed")
    BY <1>0, <1>3 DEF LoseThread, Uncounted, Live, PastGate, Streaming, TypeOK,
           Locals
  <2> QED
    BY <1>0, <2>1, BalanceCounts DEF Terminal
<1>4. ASSUME NEW u \in Turns, Count(u) PROVE Balance'
  <2>1. u \in Uncounted /\ Uncounted' = Uncounted \ {u} /\ Bump(task[u].fate)
    BY <1>0, <1>4 DEF Count, Uncounted, Live, PastGate, Streaming, TypeOK, Locals
  <2>2. task[u].fate \in Terminal
    BY <1>4 DEF Count, IInv, TaskAndStore, Decided
  <2> QED
    BY <1>0, <2>1, <2>2, BalanceCounts
<1>5. ASSUME NEW u \in Turns, NEW k \in Deltas, OnDelta(u, k) PROVE Balance'
  <2>1. \A w \in Turns : task'[w].at = task[w].at
    BY <1>0, <1>5, OnDeltaMoves
  <2>2. Neutral
    BY <1>5, <2>1 DEF OnDelta, Uncounted
  <2> QED
    BY <1>1, <2>2
<1>6. ASSUME NEW u \in Turns, Prompt(u) \/ Waits(u) \/ Hang(u) PROVE Balance'
  <2> USE <1>0 DEF TypeOK, Locals, Uncounted, Live, PastGate, Streaming
  <2>1. ASSUME Announce(u) PROVE Neutral
    BY <2>1 DEF Announce
  <2>2. ASSUME ReadHistory(u) PROVE Neutral
    BY <2>2 DEF ReadHistory
  <2>3. ASSUME EnterGate(u) PROVE Neutral
    BY <2>3 DEF EnterGate
  <2>4. ASSUME Cancel(u) PROVE Neutral
    BY <2>4 DEF Cancel, CancelWakes
  <2>5. ASSUME Poll(u) PROVE Neutral
    BY <2>5 DEF Poll
  <2>6. ASSUME Yield(u) PROVE Neutral
    BY <2>6 DEF Yield, Suspend
  <2>14. ASSUME Hang(u) PROVE Neutral
    BY <2>14 DEF Hang, Suspend
  <2>7. ASSUME StreamEnds(u) PROVE Neutral
    BY <2>7 DEF StreamEnds, EndStream
  <2>8. ASSUME Persist(u) PROVE Neutral
    BY <2>8 DEF Persist
  <2>9. ASSUME Close(u) PROVE Neutral
    BY <2>9 DEF Close
  <2>10. ASSUME Settle(u) PROVE Neutral
    BY <2>10 DEF Settle
  <2>11. ASSUME EndTurn(u) PROVE Neutral
    BY <2>11 DEF EndTurn
  <2>12. ASSUME LockTokens(u) PROVE Neutral
    BY <2>12 DEF LockTokens
  <2>13. ASSUME DropToken(u) PROVE Neutral
    BY <2>13 DEF DropToken, NewTask
  <2> HIDE DEF Neutral
  <2> QED
    BY <1>1, <1>2, <1>3, <1>4, <1>6, <2>1, <2>2, <2>3, <2>4, <2>5, <2>6, <2>7,
       <2>8, <2>9, <2>10, <2>11, <2>12, <2>13, <2>14 DEF Prompt, Waits
<1>7. ASSUME NEW t \in Threads, NEW u \in Turns, SendMessage(t, u) \/ Selftest(t, u)
      PROVE  Balance'
  <2>1. task' = [task EXCEPT ![u].at = "begun"] /\ At(u, "idle")
        /\ UNCHANGED counters
    BY <1>7 DEF SendMessage, Selftest
  <2>2. Neutral
    BY <1>0, <2>1 DEF TypeOK, Locals, Uncounted, Live, PastGate, Streaming
  <2> QED
    BY <1>1, <2>2
<1>8. CASE UNCHANGED <<task, counters>>
  <2>1. Neutral
    BY <1>8 DEF Uncounted
  <2> QED
    BY <1>1, <2>1
<1> QED
  BY <1>5, <1>6, <1>7, <1>8
     DEF Next, vars, Command, Whim, Chunk, CallStep, NewSession, DeleteSession,
         SetProvider, InterruptThread, InterruptTurn, LockCall, Answer

(* Every turn that was started is counted as completed, failed or          *)
(* interrupted exactly once, or its task has yet to do so.                 *)
THEOREM CountersAddUp == Spec => []CountersBalance
<1>1. Balance => CountersBalance
  BY DEF Balance, CountersBalance, Uncounted
<1> QED
  BY <1>1, Invariant, BalanceInit, BalanceStep, PTL DEF Spec
-----------------------------------------------------------------------------
(* The kernel implements TurnProtocol.                                     *)

(* What the refinement takes for the decision about turn u.                *)
Decision ==
    [u \in Turns |-> IF task[u].at \in Undecided \cup {"idle"} THEN "none"
                     ELSE task[u].fate]

LEMMA ProtocolInit == Init => Protocol!Init
<1> SUFFICES ASSUME Init PROVE Protocol!Init
  OBVIOUS
<1>1. owner = [u \in Turns |-> None] /\ log = [u \in Turns |-> <<>>] /\ gate = None
  BY DEF Init, StoreInit
<1>2. Decision = [u \in Turns |-> "none"]
  BY DEF Init, NewTask, Decision
<1> QED
  BY <1>1, <1>2 DEF Protocol!Init, Decision

LEMMA SaidIsSays == \A u, k : Protocol!Said(u, k) <=> Says(u, k)
  BY DEF Protocol!Said, Says, Has

(* A turn is decided, or undecided, as long as its task stays on its side  *)
(* of Settle with the same fate.                                           *)
LEMMA DecisionKept ==
  ASSUME NEW u \in Turns, \A w \in Turns \ {u} : task'[w] = task[w],
         \/ /\ task[u].at \in Undecided \cup {"idle"}
            /\ task'[u].at \in Undecided \cup {"idle"}
         \/ /\ task[u].at \notin Undecided \cup {"idle"}
            /\ task'[u].at \notin Undecided \cup {"idle"}
            /\ task'[u].fate = task[u].fate
  PROVE  Decision' = Decision
  BY DEF Decision

(* The floor is the gate, a turn takes it when its task enters the gate    *)
(* and is decided when its task settles; the end of the stream, the write  *)
(* of the answer and everything about tokens are invisible.                *)
LEMMA ProtocolStep ==
  ASSUME IInv, LogShape, AnswerCounted, [Next]_vars
  PROVE  [Protocol!Next]_(Protocol!protocolVars)
<1> USE DEF tokenVars, drivers, storeVars, At, Goto
<1>0. TypeOK
  BY DEF IInv
<1> DEFINE Stutters == UNCHANGED <<owner, log, gate>> /\ Decision' = Decision
           Refines  == [Protocol!Next]_(Protocol!protocolVars)
<1>1. ASSUME Stutters PROVE Refines
  BY <1>1 DEF Protocol!protocolVars, Decision
<1>2. ASSUME NEW u \in Turns, Protocol!Proceed(u) PROVE Refines
  BY <1>2 DEF Protocol!Next
<1>3. ASSUME NEW t \in Threads, NEW u \in Turns, SendMessage(t, u) \/ Selftest(t, u)
      PROVE  Refines
  <2>1. /\ owner[u] = None /\ Accepts(t)
        /\ owner' = [owner EXCEPT ![u] = t]
        /\ UNCHANGED <<log, gate>>
        /\ At(u, "idle") /\ task' = [task EXCEPT ![u].at = "begun"]
    BY <1>3 DEF SendMessage, Selftest, BeginTurn, AddTurn, Begun
  <2>2. Decision' = Decision
    BY <1>0, <2>1, DecisionKept DEF Undecided, TypeOK, Locals
  <2>3. ASSUME NEW w \in Turns, owner[w] = t PROVE Decision[w] # "none"
    <3>1. status[w] \in Terminal
      BY <2>1, <2>3 DEF Accepts, ActiveTurns, TurnsOf
    <3>2. task[w].at \notin Undecided \cup {"idle"}
      BY <3>1 DEF IInv, TaskAndStore
    <3>3. task[w].at \in Decided
      BY <1>0, <3>2 DEF TypeOK, Locals, Places, Live, PastGate, Undecided, Decided
    <3>4. task[w].fate \in Terminal
      BY <3>3 DEF IInv, TaskAndStore
    <3> QED
      BY <3>2, <3>4 DEF Decision, Terminal
  <2>4. Protocol!Accept(t, u)
    BY <2>1, <2>2, <2>3 DEF Protocol!Accept, Decision
  <2> QED
    BY <2>4 DEF Protocol!Next
<1>4. ASSUME NEW u \in Turns, Announce(u) PROVE Refines
  <2>1. /\ At(u, "spawned") /\ task' = [task EXCEPT ![u].at = "reading"]
        /\ Emit(u, <<"turn/started", "item/started">>) /\ UNCHANGED <<owner, gate>>
    BY <1>4 DEF Announce
  <2>2. log[u] = <<>> /\ owner[u] # None
    BY <2>1 DEF LogShape, Shape, Quiet, IInv, TaskAndStore, Begun
  <2>3. Decision' = Decision
    BY <1>0, <2>1, DecisionKept DEF Undecided, TypeOK, Locals
  <2>4. Protocol!Announce(u)
    BY <2>1, <2>2, <2>3 DEF Protocol!Announce, Protocol!Say, Emit, Decision
  <2> QED
    BY <1>2, <2>4 DEF Protocol!Proceed
<1>5. ASSUME NEW u \in Turns, LoseThread(u) PROVE Refines
  <2>1. /\ At(u, "reading") /\ Emit(u, Failure) /\ UNCHANGED <<owner, gate>>
        /\ task' = [task EXCEPT ![u] = [@ EXCEPT !.at = "done", !.fate = "failed"]]
    BY <1>5 DEF LoseThread
  <2>2. log[u] # <<>> /\ gate # u
    BY <2>1 DEF LogShape, Shape, Quiet, IInv, OneTurnPastTheGate, PastGate, Streaming
  <2>3. Decision[u] = "none" /\ Decision' = [Decision EXCEPT ![u] = "failed"]
    <3>1. /\ task'[u].at = "done" /\ task'[u].fate = "failed"
          /\ \A w \in Turns \ {u} : task'[w] = task[w]
      BY <1>0, <2>1 DEF TypeOK, Locals
    <3>2. Decision[u] = "none"
      BY <2>1 DEF Decision, Undecided
    <3>3. Decision'[u] = "failed"
      BY <3>1 DEF Decision, Undecided, Streaming
    <3>4. \A w \in Turns \ {u} : Decision'[w] = Decision[w]
      BY <3>1 DEF Decision
    <3> QED
      BY <3>2, <3>3, <3>4 DEF Decision
  <2>4. Protocol!Abandon(u)
    BY <2>1, <2>2, <2>3 DEF Protocol!Abandon, Protocol!Say, Emit, Failure, Decision
  <2> QED
    BY <1>2, <2>4 DEF Protocol!Proceed
<1>6. ASSUME NEW u \in Turns, EnterGate(u) PROVE Refines
  <2>1. /\ At(u, "queued") /\ gate = None /\ gate' = u /\ UNCHANGED <<owner, log>>
        /\ task' = [task EXCEPT ![u] = [@ EXCEPT !.at = "parked",
                                                 !.prov = provider]]
    BY <1>6 DEF EnterGate, GateFree
  <2>2. log[u] # <<>>
    BY <2>1 DEF LogShape, Shape, Quiet
  <2>3. Decision[u] = "none" /\ Decision' = Decision
    BY <1>0, <2>1, DecisionKept DEF Undecided, Streaming, TypeOK, Locals, Decision
  <2>4. Protocol!TakeFloor(u)
    BY <2>1, <2>2, <2>3 DEF Protocol!TakeFloor, Decision
  <2> QED
    BY <1>2, <2>4 DEF Protocol!Proceed
<1>7. ASSUME NEW u \in Turns, NEW k \in Deltas, OnDelta(u, k) PROVE Refines
  <2>1. At(u, "polling") /\ Emit(u, <<k>>) /\ UNCHANGED <<owner, gate>>
    BY <1>7 DEF OnDelta
  <2>2. gate = u /\ ~Says(u, "item/completed")
    BY <2>1 DEF LogShape, Shape, Over, IInv, OneTurnPastTheGate, PastGate, Streaming
  <2>3. Decision[u] = "none" /\ Decision' = Decision
    <3>1. \A w \in Turns : task'[w].at = task[w].at /\ task'[w].fate = task[w].fate
      BY <1>0, <1>7, OnDeltaMoves
    <3> QED
      BY <2>1, <3>1 DEF Decision, Undecided, Streaming
  <2>4. Protocol!Stream(u, k) /\ k \in Protocol!Streamed
    BY <2>1, <2>2, <2>3, SaidIsSays
       DEF Protocol!Stream, Protocol!Say, Protocol!Streamed, Emit, Decision, Deltas
  <2> QED
    BY <1>2, <2>4 DEF Protocol!Proceed
<1>8. ASSUME NEW u \in Turns, Close(u) PROVE Refines
  <2> DEFINE m == task[u].acc > 0
  <2>1. /\ At(u, "closing") /\ task' = [task EXCEPT ![u].at = "settling"]
        /\ UNCHANGED <<owner, gate>>
        /\ Emit(u, When(m, "final_answer") \o <<"item/completed">>
                   \o When(Disclose(u), "warning"))
    BY <1>8 DEF Close
  <2>2. gate = u /\ ~Says(u, "item/completed")
    BY <2>1 DEF LogShape, Shape, Over, IInv, OneTurnPastTheGate, PastGate, Streaming
  <2>3. Decision[u] = "none" /\ Decision' = Decision
    BY <1>0, <2>1, DecisionKept DEF Undecided, Streaming, TypeOK, Locals, Decision
  <2>4. m <=> Protocol!Said(u, "delta")
    <3>1. task[u].acc = Emitted(u, "delta")
      BY <2>1 DEF AnswerCounted
    <3>2. m <=> Says(u, "delta")
      BY <1>0, <3>1, SaysCounts
    <3> QED
      BY <3>2, SaidIsSays
  <2>5. Protocol!CloseItem(u, Protocol!Said(u, "delta"), Disclose(u))
    BY <2>1, <2>2, <2>3, <2>4, SaidIsSays
       DEF Protocol!CloseItem, Protocol!Say, Emit, When, Decision
  <2>6. Protocol!Said(u, "delta") \in BOOLEAN /\ Disclose(u) \in BOOLEAN
    BY DEF Disclose, Protocol!Said
  <2> QED
    BY <1>2, <2>5, <2>6 DEF Protocol!Proceed
<1>9. ASSUME NEW u \in Turns, Settle(u) PROVE Refines
  <2>1. /\ At(u, "settling") /\ task' = [task EXCEPT ![u].at = "settled"]
        /\ UNCHANGED <<owner, log, gate>>
    BY <1>9 DEF Settle
  <2>2. gate = u /\ (task[u].fate = "completed" <=> Says(u, "item/completed"))
    BY <2>1 DEF LogShape, Shape, Over, IInv, OneTurnPastTheGate, PastGate, Streaming
  <2>3. Decision[u] = "none" /\ Decision' = [Decision EXCEPT ![u] = task[u].fate]
    <3>1. /\ task'[u].at = "settled" /\ task'[u].fate = task[u].fate
          /\ \A w \in Turns \ {u} : task'[w] = task[w]
      BY <1>0, <2>1 DEF TypeOK, Locals
    <3>2. Decision[u] = "none"
      BY <2>1 DEF Decision, Undecided
    <3>3. Decision'[u] = task[u].fate
      BY <3>1 DEF Decision, Undecided, Streaming
    <3>4. \A w \in Turns \ {u} : Decision'[w] = Decision[w]
      BY <3>1 DEF Decision
    <3> QED
      BY <3>2, <3>3, <3>4 DEF Decision
  <2>4. PICK r \in Protocol!Results : task[u].fate = r
    BY <2>1 DEF IInv, TaskAndStore, Terminal, Protocol!Results
  <2>5. Protocol!Decide(u, r)
    BY <2>1, <2>2, <2>3, <2>4, SaidIsSays DEF Protocol!Decide, Decision
  <2>6. Protocol!Proceed(u)
    BY <2>5 DEF Protocol!Proceed
  <2> QED
    BY <1>2, <2>6
<1>10. ASSUME NEW u \in Turns, Count(u) PROVE Refines
  <2>1. /\ At(u, "settled") /\ task' = [task EXCEPT ![u].at = "ending"]
        /\ UNCHANGED <<owner, gate>> /\ Emit(u, Explanation(u))
    BY <1>10 DEF Count
  <2>2. /\ gate = u /\ ~Says(u, "turn/completed") /\ ~Says(u, "error")
        /\ task[u].fate = "completed" <=> Says(u, "item/completed")
    BY <2>1 DEF LogShape, Shape, Over, IInv, OneTurnPastTheGate, PastGate, Streaming
  <2>3. Decision[u] = task[u].fate /\ Decision' = Decision
    BY <1>0, <2>1, DecisionKept DEF Undecided, Streaming, TypeOK, Locals, Decision
  <2>4. CASE task[u].fate = "completed"
    <3>1. Emit(u, <<>>)
      BY <2>1, <2>4 DEF Explanation
    <3>2. log' = log
      <4>1. log[u] \in Seq(Events) /\ log[u] \o <<>> = log[u]
        BY <1>0, ConcatEmptySeq DEF TypeOK
      <4> QED
        BY <1>0, <3>1, <4>1 DEF Emit, TypeOK
    <3> QED
      BY <1>1, <2>1, <2>3, <3>2
  <2>5. CASE task[u].fate # "completed"
    <3>1. task[u].fate \in {"interrupted", "failed"}
      BY <2>1, <2>5 DEF IInv, TaskAndStore, Decided, Terminal
    <3>2. Protocol!Explain(u)
      BY <2>1, <2>2, <2>3, <3>1, SaidIsSays
         DEF Protocol!Explain, Protocol!Say, Emit, Explanation, Decision
    <3> QED
      BY <1>2, <3>2 DEF Protocol!Proceed
  <2> QED
    BY <2>4, <2>5
<1>11. ASSUME NEW u \in Turns, EndTurn(u) PROVE Refines
  <2>1. /\ At(u, "ending") /\ task' = [task EXCEPT ![u].at = "removing"]
        /\ UNCHANGED <<owner, gate>> /\ Emit(u, <<"turn/completed">>)
    BY <1>11 DEF EndTurn
  <2>2. /\ gate = u /\ ~Says(u, "turn/completed")
        /\ Says(u, "error") <=> task[u].fate = "failed"
        /\ Says(u, "item/completed") <=> task[u].fate # "failed"
    BY <2>1 DEF LogShape, Shape, Over, IInv, OneTurnPastTheGate, PastGate, Streaming
  <2>3. Decision[u] = task[u].fate /\ Decision' = Decision
    BY <1>0, <2>1, DecisionKept DEF Undecided, Streaming, TypeOK, Locals, Decision
  <2>4. task[u].fate # "none"
    BY <2>1 DEF IInv, TaskAndStore, Decided, Terminal
  <2>5. Protocol!End(u)
    BY <2>1, <2>2, <2>3, <2>4, SaidIsSays
       DEF Protocol!End, Protocol!Say, Emit, Decision
  <2> QED
    BY <1>2, <2>5 DEF Protocol!Proceed
<1>12. ASSUME NEW u \in Turns, DropToken(u) PROVE Refines
  <2>1. /\ At(u, "dropping") /\ UNCHANGED <<owner, log>> /\ gate' = None
        /\ task' = [task EXCEPT ![u] = [NewTask("done") EXCEPT
                                       !.fate = task[u].fate]]
    BY <1>12 DEF DropToken, GateLeft
  <2>2. gate = u /\ Says(u, "turn/completed")
    BY <2>1 DEF LogShape, Shape, Over, IInv, OneTurnPastTheGate, PastGate, Streaming
  <2>3. Decision' = Decision
    BY <1>0, <2>1, DecisionKept DEF Undecided, Streaming, TypeOK, Locals, NewTask
  <2>4. Protocol!LeaveFloor(u)
    BY <2>1, <2>2, <2>3, SaidIsSays DEF Protocol!LeaveFloor, Decision
  <2> QED
    BY <1>2, <2>4 DEF Protocol!Proceed
<1>13. ASSUME NEW u \in Turns, Prompt(u) \/ Waits(u) \/ Hang(u) PROVE Refines
  <2> USE <1>0, DecisionKept DEF TypeOK, Locals, Undecided, Streaming
  <2>1. ASSUME Register(u) PROVE Stutters
    BY <2>1 DEF Register
  <2>2. ASSUME ReadHistory(u) PROVE Stutters
    BY <2>2 DEF ReadHistory
  <2>3. ASSUME Cancel(u) PROVE Stutters
    BY <2>3 DEF Cancel, CancelWakes
  <2>4. ASSUME Poll(u) PROVE Stutters
    BY <2>4 DEF Poll
  <2>5. ASSUME Yield(u) PROVE Stutters
    BY <2>5 DEF Yield, Suspend
  <2>6. ASSUME Hang(u) PROVE Stutters
    BY <2>6 DEF Hang, Suspend
  <2>7. ASSUME StreamEnds(u) PROVE Stutters
    BY <2>7 DEF StreamEnds, EndStream
  <2>8. ASSUME Persist(u) PROVE Stutters
    BY <2>8 DEF Persist
  <2>9. ASSUME LockTokens(u) PROVE Stutters
    <3>1. /\ At(u, "removing") /\ task' = [task EXCEPT ![u].at = "dropping"]
          /\ UNCHANGED <<owner, log, gate>>
      BY <2>9 DEF LockTokens
    <3>2. task[u].at \notin Undecided \cup {"idle"}
      BY <3>1
    <3>3. /\ task'[u].at = "dropping" /\ task'[u].fate = task[u].fate
          /\ \A w \in Turns \ {u} : task'[w] = task[w]
      BY <3>1
    <3>4. task'[u].at \notin Undecided \cup {"idle"}
      BY <3>3
    <3>5. Decision' = Decision
      BY <3>2, <3>3, <3>4, DecisionKept
    <3> QED
      BY <3>1, <3>5
  <2> HIDE DEF Stutters, Refines
  <2> QED
    BY <1>1, <1>4, <1>5, <1>6, <1>8, <1>9, <1>10, <1>11, <1>12, <1>13, <2>1,
       <2>2, <2>3, <2>4, <2>5, <2>6, <2>7, <2>8, <2>9 DEF Prompt, Waits
<1>14. CASE UNCHANGED <<owner, log, gate, task>>
  <2>1. Stutters
    BY <1>14 DEF Decision
  <2> QED
    BY <1>1, <2>1
<1> HIDE DEF Refines
<1> QED
  BY <1>3, <1>7, <1>13, <1>14
     DEF Refines, Next, vars, Command, Whim, Chunk, CallStep, NewSession, CreateThread,
         DeleteSession, DeleteThread, SetProvider, InterruptThread,
         InterruptTurn, LockCall, Answer

(* The kernel keeps the protocol its listeners rely on: no interleaving of *)
(* turns, interrupts, deletions and provider changes makes it accept a     *)
(* turn too early, stream without the floor or after the decision, or end  *)
(* a turn twice or without its explanation.                                *)
THEOREM KernelImplementsProtocol == Spec => ImplementsProtocol
<1>1. Spec => [](IInv /\ LogShape /\ AnswerCounted)
  BY ShapeInvariant, AnswerCountedInit, AnswerCountedStep, PTL DEF Spec
<1>2. IInv /\ LogShape /\ AnswerCounted /\ [Next]_vars
         => [Protocol!Next]_(Protocol!protocolVars)
  BY ProtocolStep
<1> QED
  BY <1>1, <1>2, ProtocolInit, PTL DEF Spec, ImplementsProtocol, Protocol!Spec
=============================================================================
