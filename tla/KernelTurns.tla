----------------------------- MODULE KernelTurns -----------------------------
(***************************************************************************)
(* Turn execution in the kernel: KernelState of kernel/state.rs together   *)
(* with the commands of commands/kernel.rs that drive it.                  *)
(*                                                                         *)
(* Actors:                                                                 *)
(*  - the main thread, which runs the synchronous commands one at a time   *)
(*    (new_session, delete_session, send_message, saving a provider);      *)
(*  - kernel_selftest, an async command that spawns a turn from a worker;  *)
(*  - one detached task per turn, run_turn, stepping through task[u].at;   *)
(*  - Callers: interrupt_session invocations, async, on worker threads.    *)
(*                                                                         *)
(* They share the session store, the map `running` of cancellation tokens  *)
(* behind an async mutex, the provider gate, the provider slot, and the    *)
(* counters.  Every step below is code that runs between two points where  *)
(* another actor can interfere with what the step reads or writes.         *)
(*                                                                         *)
(* Definitions whose name starts with M are plausible mistakes, used only  *)
(* to show that the properties notice them.                                *)
(***************************************************************************)
EXTENDS SessionStore, Sequences

CONSTANTS
    Providers,      (* the model backends that may be configured           *)
    Placeholders,   (* those with is_placeholder() = true (EchoProvider)   *)
    Callers,        (* concurrent interrupt_session invocations            *)
    MaxChunks       (* bound: deltas (text or reasoning) one turn emits    *)

ASSUME KernelAssumption ==
    /\ Placeholders \subseteq Providers
    /\ Providers # {}
    /\ None \notin Providers \cup Callers
    /\ Turns \cap Callers = {}
    /\ MaxChunks \in Nat

VARIABLES
    task,       (* run_turn of turn u: where it is, and its local variables *)
    log,        (* the notifications emitted for turn u, oldest first      *)
    tokens,     (* keys of `running`                                       *)
    cancelled,  (* turns whose CancellationToken was cancelled             *)
    tokenLock,  (* who holds the mutex around `running`                    *)
    gate,       (* who holds provider_gate                                 *)
    provider,   (* the provider slot                                       *)
    counters,   (* Counters                                                *)
    main,       (* the turn the main thread is in the middle of spawning   *)
    call        (* the interrupt_session invocations                       *)

tokenVars == <<tokens, cancelled, tokenLock>>
drivers == <<main, call>>
vars == <<storeVars, task, log, tokenVars, gate, provider, counters, drivers>>

-----------------------------------------------------------------------------
(* Where a task is, in program order.  "idle": the turn does not exist.    *)
Streaming == {"parked", "polling", "hung"}
PastGate  == Streaming \cup {"persisting", "closing", "settling", "settled",
                             "ending", "removing", "dropping"}
Live      == {"spawned", "reading", "queued"} \cup PastGate
Undecided == {"begun", "spawned", "reading", "queued"} \cup Streaming
             \cup {"persisting", "closing", "settling"}
Places    == {"idle", "begun", "done"} \cup Live

Deltas    == {"delta", "reasoning"}
Events    == Deltas \cup {"turn/started", "item/started", "final_answer",
              "item/completed", "warning", "error", "turn/completed"}
Outcomes  == {"none"} \cup Terminal
Counted   == {"started"} \cup Terminal

(* `acc` is `accumulated`, `hist` the history given to the provider,       *)
(* `prov` the provider snapshot, `fate` the branch taken after the stream. *)
NewTask(at) ==
    [at |-> at, acc |-> 0, fate |-> "none", hist |-> {}, prov |-> None]

At(u, place) == task[u].at = place
Goto(u, from, to) == At(u, from) /\ task' = [task EXCEPT ![u].at = to]
Emit(u, s) == log' = [log EXCEPT ![u] = @ \o s]
When(b, e) == IF b THEN <<e>> ELSE <<>>
MBump(c) == counters' = IF c = "interrupted" THEN counters
                        ELSE [counters EXCEPT ![c] = @ + 1]
Bump(c)  == counters' = [counters EXCEPT ![c] = @ + 1]

(* How many of the notifications of u are of kind k.                       *)
Emitted(u, k) == Cardinality({i \in DOMAIN log[u] : log[u][i] = k})

IdleCall == [at |-> "idle", target |-> None]

Init ==
    /\ StoreInit
    /\ task = [u \in Turns |-> NewTask("idle")]
    /\ log  = [u \in Turns |-> <<>>]
    /\ tokens = {}
    /\ cancelled = {}
    /\ tokenLock = None
    /\ gate = None
    /\ provider \in Providers
    /\ counters = [c \in Counted |-> 0]
    /\ main = None
    /\ call = [c \in Callers |-> IdleCall]

-----------------------------------------------------------------------------
(* Commands on the main thread.  They run one after the other: none starts *)
(* while another is half way through, which is what `main` records.        *)

NewSession(t) ==
    /\ main = None
    /\ CreateThread(t)
    /\ UNCHANGED <<task, log, tokenVars, gate, provider, counters, drivers>>

DeleteSession(t) ==
    /\ main = None
    /\ DeleteThread(t)
    /\ UNCHANGED <<task, log, tokenVars, gate, provider, counters, drivers>>

(* Saving a provider or a setting rebuilds the provider and swaps the slot. *)
SetProvider(p) ==
    /\ main = None
    /\ p # provider
    /\ provider' = p
    /\ UNCHANGED <<storeVars, task, log, tokenVars, gate, counters, drivers>>

(* send_message up to and including begin_turn.                            *)
SendMessage(t, u) ==
    /\ main = None
    /\ BeginTurn(t, u)
    /\ Goto(u, "idle", "begun")
    /\ main' = u
    /\ UNCHANGED <<log, tokenVars, gate, provider, counters, call>>

(* kernel_selftest creates a thread of its own and begins a turn on it,    *)
(* from a worker thread and so without excluding the main thread.  Another *)
(* command that gets in between removes the thread or begins a turn on it; *)
(* the selftest then returns an error, and all it did was a new session.   *)
Selftest(t, u) ==
    /\ thread[t] = "absent"
    /\ thread' = [thread EXCEPT ![t] = "open"]
    /\ AddTurn(t, u)
    /\ Goto(u, "idle", "begun")
    /\ UNCHANGED <<log, tokenVars, gate, provider, counters, drivers>>

(* The rest of spawn_turn.  try_lock: when somebody holds the mutex the    *)
(* token is not registered, and the turn is spawned all the same.          *)
Register(u) ==
    /\ Goto(u, "begun", "spawned")
    /\ tokens' = IF tokenLock = None THEN tokens \cup {u} ELSE tokens
    /\ Bump("started")
    /\ main' = IF main = u THEN None ELSE main
    /\ UNCHANGED <<storeVars, log, cancelled, tokenLock, gate, provider,
                   call>>

-----------------------------------------------------------------------------
(* The task: run_turn.                                                     *)

(* Steps 1 and 2: mark running, announce the turn, open the agent item.    *)
Announce(u) ==
    /\ Goto(u, "spawned", "reading")
    /\ SetStatus(u, "running")
    /\ Emit(u, <<"turn/started", "item/started">>)
    /\ UNCHANGED <<thread, owner, text, tokenVars, gate, provider, counters,
                   drivers>>

(* Step 3: build the history, then ask for the gate.                       *)
ReadHistory(u) ==
    /\ At(u, "reading")
    /\ Stored(u)
    /\ task' = [task EXCEPT ![u] = [@ EXCEPT !.at = "queued",
                                             !.hist = History(owner[u])]]
    /\ UNCHANGED <<storeVars, log, tokenVars, gate, provider, counters,
                   drivers>>

(* Step 3 on a thread deleted meanwhile: fail_turn, whose status write is  *)
(* lost, and a return that leaves the token in `running`.                  *)
MFailure == <<"error">>
Failure  == <<"error", "turn/completed">>
LoseThread(u) ==
    /\ At(u, "reading")
    /\ ~Stored(u)
    /\ task' = [task EXCEPT ![u] = [@ EXCEPT !.at = "done", !.fate = "failed"]]
    /\ Bump("failed")
    /\ Emit(u, Failure)
    /\ UNCHANGED <<storeVars, tokenVars, gate, provider, drivers>>

(* Step 4: the gate is granted; only then is the provider looked up.       *)
MGateFree == TRUE
GateFree  == gate = None
EnterGate(u) ==
    /\ At(u, "queued")
    /\ GateFree
    /\ gate' = u
    /\ task' = [task EXCEPT ![u] = [@ EXCEPT !.at = "parked",
                                             !.prov = provider]]
    /\ UNCHANGED <<storeVars, log, tokenVars, provider, counters, drivers>>

(* The biased select!, polled.  Cancellation is looked at first; only when *)
(* it is not signalled is the provider's stream polled.                    *)
MCancelWakes == {"parked"}
CancelWakes  == {"parked", "hung"}
Cancel(u) ==
    /\ task[u].at \in CancelWakes
    /\ u \in cancelled
    /\ task' = [task EXCEPT ![u] = [@ EXCEPT !.at = "persisting",
                                             !.fate = "interrupted"]]
    /\ UNCHANGED <<storeVars, log, tokenVars, gate, provider, counters,
                   drivers>>

Poll(u) ==
    /\ Goto(u, "parked", "polling")
    /\ u \notin cancelled
    /\ UNCHANGED <<storeVars, log, tokenVars, gate, provider, counters,
                   drivers>>

(* Within one poll the stream may call on_chunk any number of times, even  *)
(* while another thread cancels the token.                                 *)
OnDelta(u, k) ==
    /\ At(u, "polling")
    /\ Emitted(u, "delta") + Emitted(u, "reasoning") < MaxChunks
    /\ task' = IF k = "delta" THEN [task EXCEPT ![u].acc = @ + 1] ELSE task
    /\ Emit(u, <<k>>)
    /\ UNCHANGED <<storeVars, tokenVars, gate, provider, counters, drivers>>

(* The poll returns Pending: with a wake-up to come, or with none, as when *)
(* a server keeps a connection open and never sends again (HttpProvider    *)
(* sets no overall timeout).                                               *)
Suspend(u, at) ==
    /\ Goto(u, "polling", at)
    /\ UNCHANGED <<storeVars, log, tokenVars, gate, provider, counters,
                   drivers>>
Yield(u) == Suspend(u, "parked")
Hang(u)  == Suspend(u, "hung")

(* The stream returned.  The turn fails if it returned Err or delivered an *)
(* error chunk on the way: provider_error is only looked at now.           *)
MVerdict(ok) == IF ok THEN "none" ELSE "failed"
Verdict(ok)  == IF ok THEN "completed" ELSE "failed"
EndStream(u, ok) ==
    /\ At(u, "polling")
    /\ task' = [task EXCEPT ![u] = [@ EXCEPT !.at = "persisting",
                                             !.fate = Verdict(ok)]]
    /\ UNCHANGED <<storeVars, log, tokenVars, gate, provider, counters,
                   drivers>>

(* Step 5: persist what was produced, whatever became of the turn.         *)
Persist(u) ==
    /\ Goto(u, "persisting", IF task[u].fate = "completed" THEN "closing"
                             ELSE "settling")
    /\ SetText(u, task[u].acc)
    /\ UNCHANGED <<thread, owner, status, log, tokenVars, gate, provider,
                   counters, drivers>>

(* Steps 6 and 7: settle the block, disclose a placeholder.  (The token    *)
(* usage sent in between carries data only.)                               *)
Disclose(u)  == task[u].prov \in Placeholders
Close(u) ==
    /\ Goto(u, "closing", "settling")
    /\ Emit(u, When(task[u].acc > 0, "final_answer") \o <<"item/completed">>
               \o When(Disclose(u), "warning"))
    /\ UNCHANGED <<storeVars, tokenVars, gate, provider, counters, drivers>>

(* The status becomes terminal: from here on the thread takes a new turn.  *)
Settle(u) ==
    /\ Goto(u, "settling", "settled")
    /\ SetStatus(u, task[u].fate)
    /\ UNCHANGED <<thread, owner, text, log, tokenVars, gate, provider,
                   counters, drivers>>

(* Count the outcome.  An interrupted turn completes its item only now, a  *)
(* failed one never does: it reports the error instead.                    *)
MExplanation(u) ==
    CASE task[u].fate = "interrupted" -> <<"item/completed">>
      [] task[u].fate = "failed"      -> <<"error">>
      [] OTHER                        -> <<"final_answer">>
Explanation(u) ==
    CASE task[u].fate = "interrupted" -> <<"item/completed">>
      [] task[u].fate = "failed"      -> <<"error">>
      [] OTHER                        -> <<>>
Count(u) ==
    /\ Goto(u, "settled", "ending")
    /\ Bump(task[u].fate)
    /\ Emit(u, Explanation(u))
    /\ UNCHANGED <<storeVars, tokenVars, gate, provider, drivers>>

EndTurn(u) ==
    /\ Goto(u, "ending", "removing")
    /\ Emit(u, <<"turn/completed">>)
    /\ UNCHANGED <<storeVars, tokenVars, gate, provider, counters, drivers>>

(* running.lock().await, then remove; returning drops both guards and the  *)
(* local variables (the fate is kept for the properties to refer to).      *)
LockTokens(u) ==
    /\ Goto(u, "removing", "dropping")
    /\ tokenLock = None
    /\ tokenLock' = u
    /\ UNCHANGED <<storeVars, log, tokens, cancelled, gate, provider,
                   counters, drivers>>

Remaining(u)  == tokens \ {u}
MGateLeft == gate
GateLeft  == None
DropToken(u) ==
    /\ At(u, "dropping")
    /\ tokens' = Remaining(u)
    /\ tokenLock' = None
    /\ gate' = GateLeft
    /\ task' = [task EXCEPT ![u] = [NewTask("done") EXCEPT
                                   !.fate = task[u].fate]]
    /\ UNCHANGED <<storeVars, log, cancelled, provider, counters, drivers>>

-----------------------------------------------------------------------------
(* interrupt_session.  A caller names a thread, and possibly a turn.       *)

(* The target is resolved before the mutex is asked for.  With only a      *)
(* session id it is the thread's active turn; a deleted thread is an error *)
(* and a thread with no active turn answers false, neither leaving a trace.*)
InterruptThread(c, t, u) ==
    /\ call[c].at = "idle"
    /\ thread[t] = "open"
    /\ u \in ActiveTurns(t)
    /\ call' = [call EXCEPT ![c] = [at |-> "locking", target |-> u]]
    /\ UNCHANGED <<storeVars, task, log, tokenVars, gate, provider, counters,
                   main>>

(* With a turn id the thread is not looked at.                             *)
InterruptTurn(c, u) ==
    /\ call[c].at = "idle"
    /\ Begun(u)
    /\ call' = [call EXCEPT ![c] = [at |-> "locking", target |-> u]]
    /\ UNCHANGED <<storeVars, task, log, tokenVars, gate, provider, counters,
                   main>>

LockCall(c) ==
    /\ call[c].at = "locking"
    /\ tokenLock = None
    /\ tokenLock' = c
    /\ call' = [call EXCEPT ![c].at = "locked"]
    /\ UNCHANGED <<storeVars, task, log, tokens, cancelled, gate, provider,
                   counters, main>>

(* Answers true and cancels iff the target still has a token.              *)
Answer(c) ==
    /\ call[c].at = "locked"
    /\ cancelled' = cancelled \cup ({call[c].target} \cap tokens)
    /\ tokenLock' = None
    /\ call' = [call EXCEPT ![c] = IdleCall]
    /\ UNCHANGED <<storeVars, task, log, tokens, gate, provider, counters,
                   main>>

-----------------------------------------------------------------------------
Chunk(u) == \E k \in Deltas : OnDelta(u, k)

StreamEnds(u) == \E ok \in BOOLEAN : EndStream(u, ok)

(* The steps a task takes as soon as it is scheduled ...                   *)
Prompt(u) ==
    \/ Register(u) \/ Announce(u) \/ ReadHistory(u) \/ LoseThread(u)
    \/ Cancel(u)   \/ Poll(u)     \/ Yield(u)       \/ Persist(u)
    \/ Close(u)    \/ Settle(u)   \/ Count(u)       \/ EndTurn(u)
    \/ DropToken(u)
(* ... those that wait for a mutex or for the end of the stream ...        *)
Waits(u) == EnterGate(u) \/ LockTokens(u) \/ StreamEnds(u)
(* ... and those nothing obliges a provider to take.                       *)
Whim(u)  == Chunk(u) \/ Hang(u)

CallStep(c) ==
    \/ \E t \in Threads, u \in Turns : InterruptThread(c, t, u)
    \/ \E u \in Turns : InterruptTurn(c, u)
    \/ LockCall(c)
    \/ Answer(c)

Command ==
    \/ \E t \in Threads : NewSession(t) \/ DeleteSession(t)
    \/ \E p \in Providers : SetProvider(p)
    \/ \E t \in Threads, u \in Turns : SendMessage(t, u) \/ Selftest(t, u)

Next ==
    \/ Command
    \/ \E u \in Turns : Prompt(u) \/ Waits(u) \/ Whim(u)
    \/ \E c \in Callers : CallStep(c)

Spec == Init /\ [][Next]_vars

(* Tokio keeps running a task that is ready and grants both mutexes in     *)
(* FIFO order, so a task that waits for one is not overtaken for ever.  A  *)
(* stream that does not hang ends: an answer is finite.  Commands, new     *)
(* interrupts, chunks and hanging are under no fairness.                   *)
FairSpec ==
    /\ Spec
    /\ \A u \in Turns : WF_vars(Prompt(u)) /\ SF_vars(Waits(u))
    /\ \A c \in Callers : SF_vars(LockCall(c) \/ Answer(c))

-----------------------------------------------------------------------------
(* Properties.                                                             *)

Locals == [at : Places, acc : Nat, fate : Outcomes,
           hist : SUBSET (Turns \X Nat), prov : Providers \cup {None}]

TypeOK ==
    /\ StoreTypeOK
    /\ task \in [Turns -> Locals]
    /\ log \in [Turns -> Seq(Events)]
    /\ tokens \subseteq Turns
    /\ cancelled \subseteq Turns
    /\ tokenLock \in Turns \cup Callers \cup {None}
    /\ gate \in Turns \cup {None}
    /\ provider \in Providers
    /\ counters \in [Counted -> Nat]
    /\ main \in Turns \cup {None}
    /\ call \in [Callers -> [at : {"idle", "locking", "locked"},
                             target : Turns \cup {None}]]

(* "At most one running turn per thread, enforced by begin_turn": a thread *)
(* never has two turns whose status is not terminal.                       *)
OneLiveTurnPerThread ==
    \A u, w \in Turns :
        /\ owner[u] = owner[w] /\ Begun(u)
        /\ status[u] \notin Terminal /\ status[w] \notin Terminal
        => u = w

(* "Holding the provider gate across the stream so two turns cannot        *)
(* interleave output": of all threads together at most one turn is past    *)
(* the gate and not yet done, and it is the one that holds it.             *)
OneTurnPastTheGate ==
    \A u \in Turns : task[u].at \in PastGate <=> gate = u

(* The history is read before the wait for the gate, and that wait may be  *)
(* long.  What the provider is given is nevertheless the conversation as   *)
(* it stands: no turn of the thread changes between the read and the end   *)
(* of the stream, unless the thread is deleted.                            *)
HistoryIsCurrent ==
    \A u \in Turns :
        task[u].at \in {"queued"} \cup Streaming /\ Stored(u)
        => task[u].hist = History(owner[u])

(* "Persist whatever we produced, so thread/read is coherent even for an   *)
(* interrupted or failed turn": once a turn's status is terminal its       *)
(* stored answer is exactly the text deltas the UI was sent.               *)
AnswerIsPersisted ==
    \A u \in Turns :
        Stored(u) /\ status[u] \in Terminal => text[u] = Emitted(u, "delta")

(* Started turns are the completed, failed and interrupted ones and those  *)
(* whose task has not yet counted its outcome: no outcome is counted twice *)
(* or lost, whichever branch the task left run_turn by.                    *)
CountersBalance ==
    counters["started"] =
        counters["completed"] + counters["failed"] + counters["interrupted"]
        + Cardinality({u \in Turns : task[u].at \in
              Live \ {"ending", "removing", "dropping"}})

(* A task that has ended has freed its thread for the next turn, and said  *)
(* so to the UI exactly once.                                              *)
EndedTurnIsAnnounced ==
    \A u \in Turns :
        At(u, "done") =>
            /\ Emitted(u, "turn/completed") = 1
            /\ Stored(u) => status[u] \in Terminal

(* "This is what keeps deltas from interleaving into a single agent        *)
(* block": while a newer turn of its thread is under way, an old turn,     *)
(* whose task may still be finishing, emits no delta.                      *)
OldTurnIsSilent ==
    [][\A u, w \in Turns :
          /\ u # w /\ Begun(u) /\ owner[u] = owner[w]
          /\ status[w] \notin Terminal
          => \A k \in Deltas \cup {"final_answer"} :
                 Emitted(u, k)' = Emitted(u, k)]_vars

(* Every turn that was begun comes to an end, however turns queue up at    *)
(* the gate, are interrupted, or lose their thread: the only thing that    *)
(* holds one back is a stream that hangs and was not cancelled.            *)
EveryTurnEnds ==
    \A u \in Turns :
        (At(u, "begun") \/ task[u].at \in Live)
            ~> (\/ At(u, "done")
                \/ \E w \in Turns : At(w, "hung") /\ w \notin cancelled)

(* An interrupt reaches a stream that hangs: it is dropped and the turn    *)
(* ends although its provider never wakes up again.                        *)
InterruptStopsStream ==
    \A u \in Turns : (At(u, "hung") /\ u \in cancelled) ~> At(u, "done")

(* The kernel keeps the protocol its listeners rely on.  A turn is decided *)
(* when its status is, or would be had its thread not been deleted.        *)
Protocol == INSTANCE TurnProtocol WITH
    of     <- owner,
    said   <- log,
    floor  <- gate,
    result <- [u \in Turns |-> IF task[u].at \in Undecided \cup {"idle"}
                             THEN "none" ELSE task[u].fate]
ImplementsProtocol == Protocol!Spec

-----------------------------------------------------------------------------
(* What the documentation and comments say, and the code does not do.      *)

(* docs/ARCHITECTURE.md 2.3: an interrupt "takes effect at once and does   *)
(* not wait for the provider to return".                                   *)
InterruptTakesEffect ==
    \A u \in Turns : (task[u].at \in Live /\ u \in cancelled) ~> At(u, "done")

(* interrupt: "Returns true when a turn was actually cancelled."  It does  *)
(* so whenever it cancels a token.                                         *)
CancelledMeansInterrupted ==
    \A u \in Turns :
        u \in cancelled /\ At(u, "done") => task[u].fate = "interrupted"

(* spawn_turn: a contended try_lock means that the turn "has already" been *)
(* rejected, so every spawned turn has its cancellation token.             *)
LiveTurnIsInterruptible ==
    \A u \in Turns : task[u].at \in Live => u \in tokens
=============================================================================
