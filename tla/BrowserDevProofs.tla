--------------------------- MODULE BrowserDevProofs ---------------------------
(***************************************************************************)
(* The store of the browser development backend is well typed, a reload    *)
(* finds what the last tab to write has in memory, and what is played of a *)
(* turn is what is answered when its thread is read: for any number of     *)
(* tabs, keys, rows, providers, threads, turns and pieces.                 *)
(*                                                                         *)
(* MemoryIsStored is inductive once the objects are known to be functions  *)
(* of the tabs: every command of a tab changes its object and writes, or   *)
(* has its write refused; a tab that reads the store takes all of it.      *)
(* ReplayMatchesEvents is inductive once a turn with a timer is known to   *)
(* run and one that was never started to have no end (Playing).            *)
(***************************************************************************)
EXTENDS BrowserDev, FiniteSetTheorems, TLAPS

StoreInv == StoreTypeOK /\ MemoryIsStored

LEMMA StoreInitially == ASSUME StoreInit PROVE StoreInv
<1>1. None \notin Tabs
  BY StoreAssumption
<1> QED
  BY <1>1, StoreAssumption DEF StoreInit, StoreInv, StoreTypeOK, MemoryIsStored

(* What the commands that write make of an object is an object.            *)
LEMMA WrittenTyped ==
    ASSUME NEW s \in Store, NEW e \in Edits, NEW w \in Written(s, e)
    PROVE  w \in Store
<1>1. ASSUME NEW given \in SUBSET Keys
      PROVE  SaveSettings(s, given, e) \in Store
  BY <1>1 DEF SaveSettings, Store
<1>2. ASSUME NEW eps \in {{}, s.endpoints}
      PROVE  SavePreferences(s, eps, e) \in Store
  BY <1>2 DEF SavePreferences, Store
<1>3. ASSUME NEW kept \in SUBSET Rows
      PROVE  SaveList(s, kept, e) \in Store
  BY <1>3, StoreAssumption DEF SaveList, Store, Edits
<1>4. ASSUME NEW r \in Rows
      PROVE  /\ Upsert(s, r, e) \in Store /\ Create(s, r, e) \in Store
             /\ Revise(s, r, e) \in Store /\ Delete(s, r) \in Store
  <2>1. Upsert(s, r, e) \in Store
    BY <1>4 DEF Upsert, Store
  <2>2. Delete(s, r) \in Store
    BY <1>4, StoreAssumption DEF Delete, Store, Edits
  <2> QED
    BY <2>1, <2>2 DEF Upsert, Create, Revise
<1> QED
  BY <1>1, <1>2, <1>3, <1>4 DEF Written

(* localStorage takes an object or refuses it: either way the ghost and    *)
(* the stored object agree.                                                *)
LEMMA WritesKeep ==
    ASSUME StoreInv, NEW b \in Tabs, NEW s \in Store, Writes(b, s),
           cache' = [cache EXCEPT ![b] = s], edits' \in 0..MaxEdits
    PROVE  StoreInv'
<1>1. cache' \in [Tabs -> Store \cup {None}] /\ cache'[b] = s
  BY DEF StoreInv, StoreTypeOK
<1>2. CASE stored' = s /\ writer' = b
  BY <1>1, <1>2 DEF StoreInv, StoreTypeOK, MemoryIsStored
<1>3. CASE UNCHANGED stored /\ writer' = None
  BY <1>1, <1>3 DEF StoreInv, StoreTypeOK, MemoryIsStored
<1> QED
  BY <1>2, <1>3 DEF Writes

LEMMA TouchKeeps ==
    ASSUME StoreInv, NEW b \in Tabs, Touch(b)
    PROVE  StoreInv'
<1>1. edits' \in 0..MaxEdits
  BY DEF Touch, StoreInv, StoreTypeOK
<1>2. CASE stored # None
  <2>1. /\ cache' = [cache EXCEPT ![b] = stored]
        /\ UNCHANGED <<stored, writer>>
    BY <1>2 DEF Touch
  <2>2. stored \in Store
    BY <1>2 DEF StoreInv, StoreTypeOK
  <2>3. StoreTypeOK'
    BY <1>1, <2>1, <2>2 DEF StoreInv, StoreTypeOK
  <2>4. writer # None => writer \in Tabs
    BY DEF StoreInv, StoreTypeOK
  <2> QED
    BY <2>1, <2>3, <2>4 DEF StoreInv, StoreTypeOK, MemoryIsStored
<1>3. CASE stored = None
  <2>1. FreshState \in Store
    BY StoreAssumption DEF FreshState, Store, Edits
  <2> QED
    BY <1>1, <1>3, <2>1, WritesKeep DEF Touch
<1> QED
  BY <1>2, <1>3

LEMMA CommandKeeps ==
    ASSUME StoreInv, NEW b \in Tabs, Command(b)
    PROVE  StoreInv'
<1>1. cache[b] \in Store /\ edits + 1 \in Edits /\ edits' \in 0..MaxEdits
  BY StoreAssumption DEF Command, StoreInv, StoreTypeOK, Edits
<1>2. CASE Save(b)
  BY <1>1, <1>2, WrittenTyped, WritesKeep DEF Save
<1>3. CASE SaveProvider(b)
  <2>1. PICK p \in ProviderIds, keyed \in BOOLEAN :
          LET half == IF keyed THEN Keyed(cache[b], p) ELSE cache[b]
              full == Recorded(half, p)
          IN  /\ cache' = [cache EXCEPT ![b] = full]
              /\ \/ Writes(b, full)
                 \/ keyed /\ stored' = half /\ writer' = None
    BY <1>3, Zenon DEF SaveProvider
  <2> DEFINE half == IF keyed THEN Keyed(cache[b], p) ELSE cache[b]
             full == Recorded(half, p)
  <2>2. half \in Store
    BY <1>1 DEF Keyed, Store
  <2>3. full \in Store
    BY <2>2 DEF Recorded, Store
  <2>4. CASE Writes(b, full)
    BY <1>1, <2>1, <2>3, <2>4, WritesKeep
  <2>5. CASE stored' = half /\ writer' = None
    BY <1>1, <2>1, <2>2, <2>3, <2>5 DEF StoreInv, StoreTypeOK, MemoryIsStored
  <2> QED
    BY <2>1, <2>4, <2>5
<1>4. CASE SaveMcpServer(b)
  <2>1. cache' = [cache EXCEPT ![b] = cache[b]] /\ Writes(b, cache[b])
    BY <1>4 DEF SaveMcpServer, StoreInv, StoreTypeOK
  <2> QED
    BY <1>1, <2>1, WritesKeep
<1> QED
  BY <1>2, <1>3, <1>4 DEF Command

LEMMA ReloadKeeps ==
    ASSUME StoreInv, NEW b \in Tabs, ReloadStore(b)
    PROVE  StoreInv'
BY DEF ReloadStore, StoreInv, StoreTypeOK, MemoryIsStored

LEMMA StoreStepKeeps ==
    ASSUME StoreInv, [Next]_vars
    PROVE  StoreInv'
<1>1. CASE UNCHANGED storeVars
  BY <1>1 DEF storeVars, StoreInv, StoreTypeOK, MemoryIsStored
<1>2. CASE StoreStep
  BY <1>2, TouchKeeps, CommandKeeps DEF StoreStep
<1>3. CASE KernelStep
  BY <1>1, <1>3 DEF KernelStep
<1>4. ASSUME NEW b \in Tabs, Reload(b)
      PROVE  StoreInv'
  BY <1>4, ReloadKeeps DEF Reload
<1>5. CASE UNCHANGED vars
  BY <1>1, <1>5 DEF vars
<1> QED
  BY <1>2, <1>3, <1>4, <1>5 DEF Next

(* shellState.ts: every object in memory or in localStorage is a whole     *)
(* store, whichever commands ran in whichever tab.                         *)
THEOREM StoreIsTyped == Spec => []StoreTypeOK
<1>1. Init => StoreInv
  BY StoreInitially DEF Init
<1> QED
  BY <1>1, StoreStepKeeps, PTL DEF Spec, StoreInv

(* saveShellState: unless a write was refused, the tab that wrote last     *)
(* would read back what it has in memory.                                  *)
THEOREM MemoryStays == Spec => []MemoryIsStored
<1>1. Init => StoreInv
  BY StoreInitially DEF Init
<1> QED
  BY <1>1, StoreStepKeeps, PTL DEF Spec, StoreInv

-----------------------------------------------------------------------------
(* What the bus was told.  A turn that has a timer still runs, so no piece *)
(* of it can come after its end; a turn that has not been started has not  *)
(* ended.                                                                  *)
Statuses == {"none", "running", "completed", "interrupted"}

Kinds == {"turn/started", "item/started", "delta", "final_answer",
          "item/completed", "thread/tokenUsage/updated", "warning",
          "turn/completed", "thread/status/changed"}

KernelTypeOK ==
    /\ of \in [Turns -> Threads \cup {None}]
    /\ status \in [Turns -> Statuses]
    /\ text \in [Turns -> Nat]
    /\ heard \in [Turns -> Seq(Kinds)]
    /\ timers \subseteq Turns

Ends(u) == IF Over(status[u]) THEN 1 ELSE 0
Replayed(u) ==
    /\ text[u] = Cardinality(Told(u, "delta"))
    /\ Cardinality(Told(u, "turn/completed")) = Ends(u)
    /\ \A i \in Told(u, "delta"), j \in Told(u, "turn/completed") : i < j

Playing == /\ \A u \in Turns : of[u] = None => status[u] = "none"
           /\ \A u \in timers : status[u] = "running"

KernelInv == KernelTypeOK /\ Playing /\ \A u \in Turns : Replayed(u)

LEMMA NothingTold ==
    ASSUME NEW k
    PROVE  At(<<>>, k) = {} /\ Cardinality(At(<<>>, k)) = 0
<1>1. At(<<>>, k) = {}
  BY DEF At
<1> QED
  BY <1>1, FS_EmptySet

LEMMA AtIsFinite ==
    ASSUME NEW h \in Seq(Kinds), NEW k
    PROVE  IsFiniteSet(At(h, k))
<1>1. At(h, k) \subseteq 1..Len(h) /\ Len(h) \in Nat
  BY DEF At
<1>2. IsFiniteSet(1..Len(h))
  BY <1>1, FS_Interval
<1> QED
  BY <1>1, <1>2, FS_Subset

(* A message of a kind that is not sent does not count.                    *)
LEMMA NotTold ==
    ASSUME NEW h \in Seq(Kinds), NEW ks \in Seq(Kinds), NEW k,
           \A j \in DOMAIN ks : ks[j] # k
    PROVE  At(h \o ks, k) = At(h, k)
<1> DEFINE g == h \o ks
<1>1. /\ DOMAIN g = 1..Len(h) + Len(ks) /\ Len(h) \in Nat /\ Len(ks) \in Nat
      /\ DOMAIN h = 1..Len(h) /\ DOMAIN ks = 1..Len(ks)
      /\ \A i \in 1..Len(h) + Len(ks) :
            g[i] = IF i <= Len(h) THEN h[i] ELSE ks[i - Len(h)]
  OBVIOUS
<1> HIDE DEF g
<1>2. ASSUME NEW i \in DOMAIN g, g[i] = k
      PROVE  i <= Len(h)
  <2> SUFFICES ASSUME i > Len(h)
               PROVE  FALSE
    BY <1>1, <1>2
  <2>1. i - Len(h) \in 1..Len(ks) /\ g[i] = ks[i - Len(h)]
    BY <1>1, <1>2
  <2> QED
    BY <1>1, <1>2, <2>1
<1>3. At(g, k) = At(h, k)
  BY <1>1, <1>2 DEF At
<1> QED
  BY <1>3 DEF g

(* One that is sent once counts once, and comes last.                      *)
LEMMA ToldOnce ==
    ASSUME NEW h \in Seq(Kinds), NEW ks \in Seq(Kinds), NEW k,
           NEW n \in DOMAIN ks, \A j \in DOMAIN ks : ks[j] = k <=> j = n
    PROVE  /\ At(h \o ks, k) = At(h, k) \cup {Len(h) + n}
           /\ Cardinality(At(h \o ks, k)) = Cardinality(At(h, k)) + 1
<1> DEFINE g == h \o ks
           m == Len(h) + n
<1>1. /\ DOMAIN g = 1..Len(h) + Len(ks) /\ Len(h) \in Nat /\ Len(ks) \in Nat
      /\ DOMAIN h = 1..Len(h) /\ DOMAIN ks = 1..Len(ks)
      /\ \A i \in 1..Len(h) + Len(ks) :
            g[i] = IF i <= Len(h) THEN h[i] ELSE ks[i - Len(h)]
  OBVIOUS
<1> HIDE DEF g
<1>2. \A i \in DOMAIN g : g[i] = k <=> ((i \in DOMAIN h /\ h[i] = k) \/ i = m)
  <2> SUFFICES ASSUME NEW i \in DOMAIN g
               PROVE  g[i] = k <=> ((i \in DOMAIN h /\ h[i] = k) \/ i = m)
    OBVIOUS
  <2>1. n \in 1..Len(ks)
    BY <1>1
  <2>2. CASE i <= Len(h)
    BY <1>1, <2>1, <2>2
  <2>3. CASE i > Len(h)
    <3>1. i - Len(h) \in 1..Len(ks) /\ g[i] = ks[i - Len(h)]
      BY <1>1, <2>3
    <3>2. g[i] = k <=> i - Len(h) = n
      BY <1>1, <3>1
    <3> QED
      BY <1>1, <2>1, <2>3, <3>2
  <2> QED
    BY <1>1, <2>2, <2>3
<1>3. m \in DOMAIN g
  BY <1>1
<1>4. DOMAIN h \subseteq DOMAIN g
  BY <1>1
<1>5. At(g, k) = At(h, k) \cup {m}
  <2> HIDE DEF m
  <2> QED
    BY <1>2, <1>3, <1>4 DEF At
<1>6. \A i \in At(h, k) : i < m
  BY <1>1 DEF At
<1>7. m \notin At(h, k) /\ m \in Nat
  BY <1>1, <1>6
<1>8. Cardinality(At(g, k)) = Cardinality(At(h, k)) + 1
  <2> HIDE DEF m
  <2> QED
    BY <1>5, <1>7, AtIsFinite, FS_AddElement
<1> QED
  BY <1>5, <1>8 DEF g

LEMMA SameKept ==
    ASSUME NEW u \in Turns, Replayed(u), heard'[u] = heard[u],
           text'[u] = text[u], Ends(u)' = Ends(u)
    PROVE  Replayed(u)'
BY DEF Replayed, Told

LEMMA EmitTyped ==
    ASSUME KernelTypeOK, NEW u \in Turns, NEW ks \in Seq(Kinds), Emit(u, ks)
    PROVE  /\ heard' \in [Turns -> Seq(Kinds)]
           /\ heard'[u] = heard[u] \o ks
           /\ \A v \in Turns : v # u => heard'[v] = heard[v]
<1>1. heard[u] \in Seq(Kinds)
  BY DEF KernelTypeOK
<1>2. heard[u] \o ks \in Seq(Kinds)
  BY <1>1
<1> QED
  BY <1>2 DEF KernelTypeOK, Emit

(* The end of a turn, among whatever else is told with it.                 *)
LEMMA EndKept ==
    ASSUME KernelTypeOK, NEW u \in Turns, Replayed(u), ~Over(status[u]),
           NEW ks \in Seq(Kinds), heard'[u] = heard[u] \o ks,
           NEW n \in DOMAIN ks,
           \A j \in DOMAIN ks : ks[j] = "turn/completed" <=> j = n,
           \A j \in DOMAIN ks : ks[j] # "delta",
           Over(status'[u]), text'[u] = text[u]
    PROVE  Replayed(u)'
<1>1. heard[u] \in Seq(Kinds)
  BY DEF KernelTypeOK
<1>2. At(heard'[u], "delta") = At(heard[u], "delta")
  BY <1>1, NotTold
<1>3. /\ Cardinality(At(heard'[u], "turn/completed"))
            = Cardinality(At(heard[u], "turn/completed")) + 1
      /\ At(heard'[u], "turn/completed")
            = At(heard[u], "turn/completed") \cup {Len(heard[u]) + n}
      /\ \A i \in At(heard[u], "delta") : i < Len(heard[u]) + n
  <2> DEFINE h == heard[u]
  <2>1. h \in Seq(Kinds)
    BY <1>1
  <2> HIDE DEF h
  <2>2. /\ At(h \o ks, "turn/completed")
              = At(h, "turn/completed") \cup {Len(h) + n}
        /\ Cardinality(At(h \o ks, "turn/completed"))
              = Cardinality(At(h, "turn/completed")) + 1
    <3> DEFINE k == "turn/completed"
    <3>1. \A j \in DOMAIN ks : ks[j] = k <=> j = n
      OBVIOUS
    <3> HIDE DEF k
    <3>2. /\ At(h \o ks, k) = At(h, k) \cup {Len(h) + n}
          /\ Cardinality(At(h \o ks, k)) = Cardinality(At(h, k)) + 1
      BY ONLY <2>1, <3>1, ks \in Seq(Kinds), n \in DOMAIN ks, ToldOnce,
         SMTT(20)
    <3> QED
      BY <3>2 DEF k
  <2>3. \A i \in At(h, "delta") : i < Len(h) + n
    <3>1. DOMAIN h = 1..Len(h) /\ Len(h) \in Nat /\ n \in 1..Len(ks)
      BY <2>1
    <3> QED
      BY <3>1 DEF At
  <2> QED
    BY <2>2, <2>3 DEF h
<1>4. Cardinality(At(heard[u], "turn/completed")) = 0
  BY DEF Replayed, Told, Ends
<1>5. At(heard[u], "turn/completed") = {}
  BY <1>1, <1>4, AtIsFinite, FS_EmptySet
<1>6. Ends(u)' = 1
  BY DEF Ends
<1>7. text'[u] = Cardinality(At(heard'[u], "delta"))
  BY <1>2 DEF Replayed, Told
<1>8. Cardinality(At(heard'[u], "turn/completed")) = Ends(u)'
  BY <1>3, <1>4, <1>6
<1>9. \A i \in At(heard'[u], "delta"), j \in At(heard'[u], "turn/completed") : i < j
  BY <1>2, <1>3, <1>5
<1> QED
  BY <1>7, <1>8, <1>9 DEF Replayed, Told

LEMMA StartKept ==
    ASSUME KernelInv, NEW t \in Threads, NEW u \in Turns, TurnStart(t, u)
    PROVE  KernelInv'
<1> DEFINE ks == <<"turn/started", "item/started">>
<1>1. /\ of[u] = None /\ of' = [of EXCEPT ![u] = t] /\ Emit(u, ks)
      /\ status' = [status EXCEPT ![u] = "running"]
      /\ timers' = timers \cup {u} /\ text' = text
  BY DEF TurnStart
<1>2. /\ ks \in Seq(Kinds)
      /\ \A j \in DOMAIN ks : ks[j] # "delta" /\ ks[j] # "turn/completed"
  <2>1. ks \in Seq(Kinds)
    BY DEF Kinds
  <2>2. DOMAIN ks = 1..2
    OBVIOUS
  <2>3. ks[1] = "turn/started" /\ ks[2] = "item/started"
    OBVIOUS
  <2> QED
    BY <2>1, <2>2, <2>3
<1> HIDE DEF ks
<1>3. KernelTypeOK'
  BY <1>1, <1>2, EmitTyped DEF KernelInv, KernelTypeOK, Statuses
<1>4. Playing'
  BY <1>1, StubAssumption DEF KernelInv, KernelTypeOK, Playing
<1>5. ASSUME NEW v \in Turns, v # u
      PROVE  Replayed(v)'
  BY <1>1, <1>2, <1>5, EmitTyped, SameKept DEF KernelInv, KernelTypeOK, Ends
<1>6. Replayed(u)'
  <2>1. heard[u] \in Seq(Kinds) /\ heard'[u] = heard[u] \o ks
    BY <1>1, <1>2, EmitTyped DEF KernelInv, KernelTypeOK
  <2>2. /\ At(heard'[u], "delta") = At(heard[u], "delta")
        /\ At(heard'[u], "turn/completed") = At(heard[u], "turn/completed")
    BY <1>2, <2>1, NotTold
  <2>3. Ends(u)' = Ends(u)
    BY <1>1 DEF KernelInv, KernelTypeOK, Playing, Ends, Over
  <2> QED
    BY <1>1, <2>2, <2>3 DEF KernelInv, Replayed, Told
<1> QED
  BY <1>3, <1>4, <1>5, <1>6 DEF KernelInv

LEMMA PieceKept ==
    ASSUME KernelInv, NEW u \in Turns, Step(u), PlayPiece(u)
    PROVE  KernelInv'
<1> DEFINE ks == <<"delta">>
<1>1. /\ u \in timers /\ text' = [text EXCEPT ![u] = @ + 1] /\ Emit(u, ks)
      /\ UNCHANGED <<of, status, timers>>
  BY DEF Step, PlayPiece
<1>2. /\ ks \in Seq(Kinds) /\ 1 \in DOMAIN ks
      /\ \A j \in DOMAIN ks : ks[j] = "delta" <=> j = 1
      /\ \A j \in DOMAIN ks : ks[j] # "turn/completed"
  BY DEF Kinds
<1> HIDE DEF ks
<1>3. KernelTypeOK'
  BY <1>1, <1>2, EmitTyped DEF KernelInv, KernelTypeOK
<1>4. Playing'
  BY <1>1 DEF KernelInv, Playing
<1>5. ASSUME NEW v \in Turns, v # u
      PROVE  Replayed(v)'
  BY <1>1, <1>2, <1>5, EmitTyped, SameKept DEF KernelInv, KernelTypeOK, Ends
<1>6. Replayed(u)'
  <2>1. heard[u] \in Seq(Kinds) /\ heard'[u] = heard[u] \o ks
    BY <1>1, <1>2, EmitTyped DEF KernelInv, KernelTypeOK
  <2>2. Cardinality(At(heard'[u], "delta")) = Cardinality(At(heard[u], "delta")) + 1
    <3> DEFINE h == heard[u]
    <3>1. h \in Seq(Kinds)
      BY <2>1
    <3> HIDE DEF h
    <3>2. Cardinality(At(h \o ks, "delta")) = Cardinality(At(h, "delta")) + 1
      BY <1>2, <3>1, ToldOnce
    <3> QED
      BY <2>1, <3>2 DEF h
  <2>3. At(heard'[u], "turn/completed") = At(heard[u], "turn/completed")
    BY <1>2, <2>1, NotTold
  <2>4. Ends(u) = 0 /\ Ends(u)' = Ends(u)
    BY <1>1 DEF KernelInv, Playing, Ends, Over
  <2>5. Cardinality(At(heard[u], "turn/completed")) = 0
    BY <2>4 DEF KernelInv, Replayed, Told
  <2>6. At(heard[u], "turn/completed") = {}
    BY <2>1, <2>5, AtIsFinite, FS_EmptySet
  <2>7. text'[u] = text[u] + 1
    BY <1>1 DEF KernelInv, KernelTypeOK
  <2> QED
    BY <2>2, <2>3, <2>4, <2>5, <2>6, <2>7 DEF KernelInv, Replayed, Told
<1> QED
  BY <1>3, <1>4, <1>5, <1>6 DEF KernelInv

(* The turn u is over and no step of it is due.                            *)
LEMMA OverKept ==
    ASSUME KernelInv, NEW u \in Turns, status[u] = "running",
           NEW over \in {"completed", "interrupted"},
           status' = [status EXCEPT ![u] = over],
           NEW ks \in Seq(Kinds), Emit(u, ks), NEW n \in DOMAIN ks,
           \A j \in DOMAIN ks : ks[j] = "turn/completed" <=> j = n,
           \A j \in DOMAIN ks : ks[j] # "delta",
           timers' \subseteq timers \ {u}, UNCHANGED <<of, text>>
    PROVE  KernelInv'
<1>1. KernelTypeOK'
  BY EmitTyped DEF KernelInv, KernelTypeOK, Statuses
<1>2. Playing'
  BY DEF KernelInv, KernelTypeOK, Playing
<1>3. ASSUME NEW v \in Turns, v # u
      PROVE  Replayed(v)'
  BY <1>3, EmitTyped, SameKept DEF KernelInv, KernelTypeOK, Ends
<1>4. Replayed(u)'
  BY EmitTyped, EndKept DEF KernelInv, KernelTypeOK, Over
<1> QED
  BY <1>1, <1>2, <1>3, <1>4 DEF KernelInv

LEMMA KernelStepKeeps ==
    ASSUME KernelInv, [Next]_vars
    PROVE  KernelInv'
<1>1. CASE UNCHANGED <<of, status, text, heard, timers>>
  BY <1>1 DEF KernelInv, KernelTypeOK, Playing, Replayed, Told, Ends
<1>2. CASE ThreadCommand
  BY <1>1, <1>2 DEF ThreadCommand
<1>3. ASSUME NEW t \in Threads, NEW u \in Turns, TurnStart(t, u)
      PROVE  KernelInv'
  BY <1>3, StartKept
<1>4. ASSUME NEW t \in Threads, TurnInterrupt(t)
      PROVE  KernelInv'
  <2> DEFINE ks == <<"turn/completed">>
  <2>1. PICK u \in Running(t) :
            /\ status' = [status EXCEPT ![u] = "interrupted"]
            /\ Emit(u, ks)
    BY <1>4 DEF TurnInterrupt
  <2>2. u \in Turns /\ status[u] = "running"
    BY DEF Running, TurnsOf
  <2>3. timers' = {} /\ UNCHANGED <<of, text>>
    BY <1>4 DEF TurnInterrupt
  <2>4. /\ ks \in Seq(Kinds) /\ 1 \in DOMAIN ks
        /\ \A j \in DOMAIN ks : ks[j] = "turn/completed" <=> j = 1
        /\ \A j \in DOMAIN ks : ks[j] # "delta"
    BY DEF Kinds
  <2> HIDE DEF ks
  <2> QED
    BY <2>1, <2>2, <2>3, <2>4, OverKept
<1>5. ASSUME NEW u \in Turns, Step(u)
      PROVE  KernelInv'
  <2>1. CASE PlayEnd(u)
    <3>1. status[u] = "running"
      BY <1>5 DEF Step, KernelInv, Playing
    <3>2. /\ status' = [status EXCEPT ![u] = "completed"] /\ Emit(u, Ending)
          /\ timers' = timers \ {u} /\ UNCHANGED <<of, text>>
      BY <1>5, <2>1 DEF Step, PlayEnd
    <3>3. /\ Ending \in Seq(Kinds) /\ 5 \in DOMAIN Ending
          /\ \A j \in DOMAIN Ending : Ending[j] = "turn/completed" <=> j = 5
          /\ \A j \in DOMAIN Ending : Ending[j] # "delta"
      <4>1. Ending \in Seq(Kinds) /\ DOMAIN Ending = 1..6
        BY DEF Ending, Kinds
      <4>2. /\ Ending[1] = "final_answer" /\ Ending[2] = "item/completed"
            /\ Ending[3] = "thread/tokenUsage/updated"
            /\ Ending[4] = "warning" /\ Ending[5] = "turn/completed"
            /\ Ending[6] = "thread/status/changed"
        BY DEF Ending
      <4> QED
        BY <4>1, <4>2
    <3> QED
      BY <3>1, <3>2, <3>3, OverKept
  <2> QED
    BY <1>5, <2>1, PieceKept DEF Step
<1>6. ASSUME NEW b \in Tabs, Reload(b)
      PROVE  KernelInv'
  <2>1. CASE b = Home
    <3>1. /\ of' = [u \in Turns |-> None] /\ status' = [u \in Turns |-> "none"]
          /\ text' = [u \in Turns |-> 0] /\ heard' = [u \in Turns |-> <<>>]
          /\ timers' = {}
      BY <1>6, <2>1 DEF Reload
    <3>2. KernelTypeOK' /\ Playing'
      BY <3>1 DEF KernelTypeOK, Statuses, Playing
    <3>3. ASSUME NEW u \in Turns
          PROVE  Replayed(u)'
      <4>1. heard'[u] = <<>> /\ text'[u] = 0 /\ status'[u] = "none"
        BY <3>1
      <4>2. Ends(u)' = 0
        BY <4>1 DEF Ends, Over
      <4> QED
        BY <4>1, <4>2, NothingTold DEF Replayed, Told
    <3> QED
      BY <3>2, <3>3 DEF KernelInv
  <2>2. CASE b # Home
    BY <1>1, <1>6, <2>2 DEF Reload, kernelVars
  <2> QED
    BY <2>1, <2>2
<1>7. CASE StoreStep
  BY <1>1, <1>7 DEF StoreStep, kernelVars
<1>8. CASE UNCHANGED vars
  BY <1>1, <1>8 DEF vars, kernelVars
<1> QED
  BY <1>2, <1>3, <1>4, <1>5, <1>6, <1>7, <1>8 DEF Next, KernelStep, KernelCommand

(* rpcClient.ts playTurn and turn/interrupt: what thread/read answers of a *)
(* turn is what the bus was told of it, however threads were deleted,      *)
(* archived and interrupted and the tab reloaded meanwhile.                *)
THEOREM ReplayIsFaithful == Spec => []ReplayMatchesEvents
<1>1. ASSUME Init
      PROVE  KernelInv
  <2>1. KernelTypeOK /\ Playing
    BY <1>1 DEF Init, KernelInit, KernelTypeOK, Statuses, Playing
  <2>2. ASSUME NEW u \in Turns
        PROVE  Replayed(u)
    <3>1. heard[u] = <<>> /\ text[u] = 0 /\ Ends(u) = 0
      BY <1>1 DEF Init, KernelInit, Ends, Over
    <3> QED
      BY <3>1, NothingTold DEF Replayed, Told
  <2> QED
    BY <2>1, <2>2 DEF KernelInv
<1>2. KernelInv => ReplayMatchesEvents
  BY DEF KernelInv, ReplayMatchesEvents, Replayed, TurnsOf, Transcript, Ends
<1> QED
  BY <1>1, <1>2, KernelStepKeeps, PTL DEF Spec
=============================================================================
