--------------------------- MODULE PluginsViewProofs ---------------------------
(***************************************************************************)
(* The plugin page and the plugin market, for any sources, plugins, visits,*)
(* failures and crashes.                                                   *)
(*                                                                         *)
(* The four properties rest on three things that are true in between.      *)
(* Only the command at the head of the queue has taken a step, so what a   *)
(* half done installation has copied or forgotten stays so until its next  *)
(* step (Files).  While no page is left during an operation, the guard of  *)
(* the page lets one operation of all, queued or adding, be under way      *)
(* (Solo).  And a page that shows something old still has an operation or  *)
(* a read of its own under way that will lead to a newer look (Current).   *)
(***************************************************************************)
EXTENDS PluginsView, TLAPS, SequenceTheorems

-----------------------------------------------------------------------------
(* Types.                                                                  *)
Books   == UNION {[S -> Sources] : S \in SUBSET Names}
Records == UNION {[S -> BOOLEAN] : S \in SUBSET Ids}

Pages == [open : BOOLEAN, busy : BOOLEAN, loading : BOOLEAN,
          installed : Records, markets : SUBSET Names, catalog : SUBSET Ids,
          marked : SUBSET Ids, skills : SUBSET Ids]

Arguments == {None} \cup Names \cup Ids \cup SUBSET Names
Values    == {None} \cup BOOLEAN \cup Sources
Calls == [cmd : Commands \cup Reads, arg : Arguments, to : Values,
          guarded : BOOLEAN, visit : Nat, step : 1 .. 4]
Adds  == [visit : Nat, source : Sources,
          at : {"sent", "cloning", "found", "read"}, read : Books]

OnPlugin == {"install", "local", "uninstall", "toggle"}
Length(cmd) == CASE cmd \in {"install", "local"} -> 4
                 [] cmd = "uninstall" -> 3
                 [] cmd = "remove" -> 2
                 [] OTHER -> 1

WellFormed(c) ==
    /\ c.cmd \in OnPlugin => c.arg \in Ids
    /\ c.cmd = "remove" => c.arg \in Names
    /\ c.cmd = "catalog" => c.arg \in SUBSET Names
    /\ c.cmd = "toggle" => c.to \in BOOLEAN
    /\ c.cmd \in Commands => c.guarded
    /\ c.step <= Length(c.cmd)

DiskTypes ==
    /\ clone \in [Dirs -> Sources \cup {None}]
    /\ markets \in Books
    /\ installed \in Records
    /\ copies \in [Ids -> {"none", "part", "whole"}]

QueueTypes ==
    /\ calls \in Seq(Calls) /\ \A i \in DOMAIN calls : WellFormed(calls[i])
    /\ \A i \in DOMAIN calls : i > 1 => calls[i].step = 1

Types ==
    /\ DiskTypes
    /\ view \in Pages
    /\ QueueTypes
    /\ adds \subseteq Adds
    /\ visits \in Nat /\ left \in BOOLEAN /\ missed \in BOOLEAN

-----------------------------------------------------------------------------
(* The files behind the records.                                           *)
Files ==
    /\ FilesBehindRecords
    /\ calls # <<>> =>
        /\ Head(calls).cmd \in {"install", "local"} /\ Head(calls).step > 2
              => copies[Head(calls).arg] = "whole"
        /\ Head(calls).cmd = "uninstall" /\ Head(calls).step > 1
              => Head(calls).arg \notin DOMAIN installed

(* One operation at a time.                                                *)
Solo ==
    ~left =>
        /\ markets = wanted
        /\ \A a \in adds : Mine(a) /\ view.busy
                           /\ (a.at = "read" => a.read = markets)
        /\ \A a, b \in adds : a = b
        /\ \A i \in DOMAIN calls : calls[i].guarded =>
              Mine(calls[i]) /\ view.busy /\ adds = {}
        /\ \A i, j \in DOMAIN calls :
              calls[i].guarded /\ calls[j].guarded => i = j

(* What the page of visit v still has in the queue q.                      *)
Has(q, v, what) == \E i \in DOMAIN q : q[i].cmd \in what /\ q[i].visit = v
Awaits(q, v)    == \E i \in DOMAIN q : q[i].guarded /\ q[i].visit = v
LastCatalog(q, v, i) ==
    /\ q[i].cmd = "catalog" /\ q[i].visit = v
    /\ \A j \in DOMAIN q : j > i => ~(q[j].cmd = "catalog" /\ q[j].visit = v)

Followed ==
    view.open =>
        /\ view.busy => \/ Awaits(calls, visits)
                        \/ \E a \in adds : a.visit = visits
        /\ view.loading => Has(calls, visits, Reads)

(* What it shows, once each read has no other of its kind behind it.       *)
Settled ==
    /\ view.open /\ ~missed
    /\ ~Has(calls, visits, Commands) /\ \A a \in adds : a.visit # visits

Catalogue == UNION {Entries(n) : n \in DOMAIN markets}

Current ==
    Settled =>
        /\ ~Has(calls, visits, {"lists"}) =>
              /\ view.installed = Listed /\ view.markets = DOMAIN markets
              /\ \A i \in DOMAIN calls :
                    LastCatalog(calls, visits, i) => calls[i].arg = DOMAIN markets
        /\ ~Has(calls, visits, {"lists", "catalog"}) => view.catalog = Catalogue
        /\ ~Has(calls, visits, Reads) => view.skills = Skills

IndInv == Types /\ Files /\ PersonalFollows /\ Solo /\ Followed /\ Current

-----------------------------------------------------------------------------
(* What the operators of the market make.                                  *)
LEMMA BookFacts ==
    ASSUME NEW m
    PROVE  m \in Books <=> m \in [DOMAIN m -> Sources] /\ DOMAIN m \subseteq Names
BY DEF Books

LEMMA RecordFacts ==
    ASSUME NEW r
    PROVE  r \in Records <=> r \in [DOMAIN r -> BOOLEAN] /\ DOMAIN r \subseteq Ids
BY DEF Records

LEMMA EmptyBook == <<>> \in Books /\ <<>> \in Records /\ DOMAIN <<>> = {}
<1>1. \A S : <<>> \in [{} -> S]
  OBVIOUS
<1>2. {} \in SUBSET Names /\ {} \in SUBSET Ids
  OBVIOUS
<1>3. DOMAIN <<>> = {}
  OBVIOUS
<1> QED
  BY <1>1, <1>2, <1>3 DEF Books, Records

LEMMA WithoutFacts ==
    ASSUME NEW f, NEW x
    PROVE  /\ DOMAIN Without(f, x) = DOMAIN f \ {x}
           /\ \A y \in DOMAIN f \ {x} : Without(f, x)[y] = f[y]
           /\ Without(f, x) = [y \in DOMAIN f \ {x} |-> f[y]]
BY DEF Without, Restrict

LEMMA WithoutTyped ==
    ASSUME NEW x
    PROVE  /\ \A m \in Books : Without(m, x) \in Books
           /\ \A r \in Records : Without(r, x) \in Records
<1>1. ASSUME NEW m \in Books PROVE Without(m, x) \in Books
  <2>1. PICK g : g = Without(m, x) /\ g = [y \in DOMAIN m \ {x} |-> m[y]]
    BY WithoutFacts
  <2>2. m \in [DOMAIN m -> Sources] /\ DOMAIN m \subseteq Names
    BY BookFacts
  <2>3. DOMAIN g = DOMAIN m \ {x}
    BY <2>1
  <2>4. g \in [DOMAIN g -> Sources] /\ DOMAIN g \subseteq Names
    BY <2>1, <2>2, <2>3
  <2> QED
    BY <2>1, <2>4, BookFacts
<1>2. ASSUME NEW r \in Records PROVE Without(r, x) \in Records
  <2>1. PICK g : g = Without(r, x) /\ g = [y \in DOMAIN r \ {x} |-> r[y]]
    BY WithoutFacts
  <2>2. r \in [DOMAIN r -> BOOLEAN] /\ DOMAIN r \subseteq Ids
    BY RecordFacts
  <2>3. DOMAIN g = DOMAIN r \ {x}
    BY <2>1
  <2>4. g \in [DOMAIN g -> BOOLEAN] /\ DOMAIN g \subseteq Ids
    BY <2>1, <2>2, <2>3
  <2> QED
    BY <2>1, <2>4, RecordFacts
<1> QED
  BY <1>1, <1>2

LEMMA WithTyped ==
    /\ \A m \in Books, s \in Sources : With(m, NameOf[s], s) \in Books
    /\ \A r \in Records, id \in Ids : With(r, id, TRUE) \in Records
<1>1. ASSUME NEW m \in Books, NEW s \in Sources
      PROVE  With(m, NameOf[s], s) \in Books
  <2>1. NameOf[s] \in Names
    BY DEF Names
  <2>2. PICK g : /\ g = With(m, NameOf[s], s)
                 /\ g = [y \in {NameOf[s]} \cup DOMAIN m |->
                            IF y = NameOf[s] THEN s ELSE m[y]]
    BY DEF With
  <2>3. DOMAIN g = {NameOf[s]} \cup DOMAIN m
    BY <2>2
  <2>4. m \in [DOMAIN m -> Sources] /\ DOMAIN m \subseteq Names
    BY BookFacts
  <2>5. g \in [DOMAIN g -> Sources] /\ DOMAIN g \subseteq Names
    BY <2>1, <2>2, <2>3, <2>4
  <2> QED
    BY <2>2, <2>5, BookFacts
<1>2. ASSUME NEW r \in Records, NEW id \in Ids
      PROVE  With(r, id, TRUE) \in Records
  <2>1. PICK g : /\ g = With(r, id, TRUE)
                 /\ g = [y \in {id} \cup DOMAIN r |->
                            IF y = id THEN TRUE ELSE r[y]]
    BY DEF With
  <2>2. DOMAIN g = {id} \cup DOMAIN r
    BY <2>1
  <2>3. r \in [DOMAIN r -> BOOLEAN] /\ DOMAIN r \subseteq Ids
    BY RecordFacts
  <2>4. g \in [DOMAIN g -> BOOLEAN] /\ DOMAIN g \subseteq Ids
    BY <2>1, <2>2, <2>3
  <2> QED
    BY <2>1, <2>4, RecordFacts
<1> QED
  BY <1>1, <1>2

LEMMA CatalogTyped ==
    ASSUME DiskTypes, NEW n \in Names
    PROVE  Entries(n) \subseteq Ids
<1>1. CASE Catalog(n) = None
  BY <1>1 DEF Entries
<1>2. CASE Catalog(n) # None
  <2>1. n \in DOMAIN markets /\ markets[n] \in Sources
    BY <1>2, BookFacts DEF Catalog, DiskTypes
  <2>2. Catalog(n) \in Sources
    <3>1. CASE markets[n] \in Cloned
      <4>1. DirOf[markets[n]] \in Dirs
        BY <3>1 DEF Dirs
      <4>2. Catalog(n) = clone[DirOf[markets[n]]]
        BY <2>1, <3>1 DEF Catalog
      <4> QED
        BY <1>2, <4>1, <4>2 DEF DiskTypes
    <3>2. CASE markets[n] \notin Cloned
      BY <2>1, <3>2 DEF Catalog
    <3> QED
      BY <3>1, <3>2
  <2>3. Offers[Catalog(n)] \subseteq Plugins
    BY <2>2 DEF Plugins
  <2>4. Entries(n) = {n} \X Offers[Catalog(n)]
    BY <1>2 DEF Entries
  <2> QED
    BY <2>3, <2>4 DEF Ids
<1> QED
  BY <1>1, <1>2

LEMMA ListedTyped ==
    ASSUME DiskTypes
    PROVE  Listed \in Records /\ Skills \subseteq Ids
           /\ DOMAIN markets \subseteq Names /\ DOMAIN installed \subseteq Ids
<1>1. installed \in [DOMAIN installed -> BOOLEAN] /\ DOMAIN installed \subseteq Ids
  BY RecordFacts DEF DiskTypes
<1>2. Listed = [i \in {i \in DOMAIN installed : copies[i] # "none"} |-> installed[i]]
  BY DEF Listed, Restrict
<1>3. Listed \in Records
  BY <1>1, <1>2, RecordFacts
<1> QED
  BY <1>1, <1>3, BookFacts DEF DiskTypes, Skills

-----------------------------------------------------------------------------
(* The programs, step by step.                                             *)
LEMMA ProgramSteps ==
    ASSUME NEW c \in Calls, WellFormed(c), c.cmd \in Commands,
           NEW op, op = Program(c.cmd)[c.step]
    PROVE  /\ c.cmd \in {"install", "local"} =>
                \/ c.step = 1 /\ op = "clear"
                \/ c.step = 2 /\ op = "copy"
                \/ c.step = 3 /\ op = "record"
                \/ c.step = 4 /\ op = "sync"
           /\ c.cmd = "uninstall" =>
                \/ c.step = 1 /\ op = "forget"
                \/ c.step = 2 /\ op = "clear"
                \/ c.step = 3 /\ op = "sync"
           /\ c.cmd = "toggle" => c.step = 1 /\ op = "flip"
           /\ c.cmd = "remove" =>
                \/ c.step = 1 /\ op = "drop"
                \/ c.step = 2 /\ op = "clean"
           /\ Len(Program(c.cmd)) = Length(c.cmd)
<1>0. c.step \in 1 .. 4 /\ c.step <= Length(c.cmd)
  BY DEF Calls, WellFormed
<1>t. /\ \A a : Len(<<a>>) = 1 /\ <<a>>[1] = a
      /\ \A a, b : Len(<<a, b>>) = 2 /\ <<a, b>>[1] = a /\ <<a, b>>[2] = b
      /\ \A a, b, d : /\ Len(<<a, b, d>>) = 3 /\ <<a, b, d>>[1] = a
                      /\ <<a, b, d>>[2] = b /\ <<a, b, d>>[3] = d
      /\ \A a, b, d, e : /\ Len(<<a, b, d, e>>) = 4
                         /\ <<a, b, d, e>>[1] = a /\ <<a, b, d, e>>[2] = b
                         /\ <<a, b, d, e>>[3] = d /\ <<a, b, d, e>>[4] = e
  OBVIOUS
<1>1. CASE c.cmd \in {"install", "local"}
  <2>1. Program(c.cmd) = <<"clear", "copy", "record", "sync">>
        /\ Length(c.cmd) = 4
    BY <1>1 DEF Program, Length
  <2> QED
    BY <1>0, <1>t, <1>1, <2>1
<1>2. CASE c.cmd = "uninstall"
  <2>1. Program(c.cmd) = <<"forget", "clear", "sync">> /\ Length(c.cmd) = 3
    BY <1>2 DEF Program, Length
  <2>2. c.step = 1 \/ c.step = 2 \/ c.step = 3
    BY <1>0, <2>1
  <2>3. PICK p : p = Program(c.cmd)
    OBVIOUS
  <2>4. p[1] = "forget" /\ p[2] = "clear" /\ p[3] = "sync" /\ Len(p) = 3
    BY <1>t, <2>1, <2>3
  <2> QED
    BY <1>2, <2>1, <2>2, <2>3, <2>4
<1>3. CASE c.cmd = "toggle"
  <2>1. Program(c.cmd) = <<"flip">> /\ Length(c.cmd) = 1
    BY <1>3 DEF Program, Length
  <2> QED
    BY <1>0, <1>t, <1>3, <2>1
<1>4. CASE c.cmd = "remove"
  <2>1. Program(c.cmd) = <<"drop", "clean">> /\ Length(c.cmd) = 2
    BY <1>4 DEF Program, Length
  <2>2. c.step = 1 \/ c.step = 2
    BY <1>0, <2>1
  <2>3. PICK p : p = Program(c.cmd)
    OBVIOUS
  <2>4. p[1] = "drop" /\ p[2] = "clean" /\ Len(p) = 2
    BY <1>t, <2>1, <2>3
  <2> QED
    BY <1>4, <2>1, <2>2, <2>3, <2>4
<1> QED
  BY <1>1, <1>2, <1>3, <1>4 DEF Commands

(* What one file operation does.                                           *)
DoesClear(c)  == /\ copies' = [copies EXCEPT ![c.arg] = "none"]
                 /\ UNCHANGED <<clone, markets, installed, personal>>
DoesCopy(c)   == /\ copies' = [copies EXCEPT ![c.arg] = "whole"]
                 /\ UNCHANGED <<clone, markets, installed, personal>>
DoesRecord(c) == /\ installed' = With(installed, c.arg, TRUE)
                 /\ UNCHANGED <<clone, markets, copies, personal>>
DoesForget(c) == /\ installed' = Without(installed, c.arg)
                 /\ UNCHANGED <<clone, markets, copies, personal>>
DoesFlip(c)   == /\ installed' = [installed EXCEPT ![c.arg] = c.to]
                 /\ UNCHANGED <<clone, markets, copies, personal>>
DoesSync      == /\ personal' = DOMAIN installed
                 /\ UNCHANGED <<clone, markets, installed, copies>>
DoesDrop(c)   == /\ markets' = Without(markets, c.arg)
                 /\ UNCHANGED <<clone, installed, copies, personal>>
DoesClean     == /\ \/ UNCHANGED clone
                    \/ \E d : clone' = [clone EXCEPT ![d] = None]
                 /\ UNCHANGED <<markets, installed, copies, personal>>

LEMMA DoEffects ==
    ASSUME NEW op, NEW c, Do(op, c)
    PROVE  /\ op = "clear" => DoesClear(c)
           /\ op = "copy" => DoesCopy(c)
           /\ op = "record" => DoesRecord(c)
           /\ op = "forget" => DoesForget(c)
           /\ op = "flip" => DoesFlip(c)
           /\ op = "sync" => DoesSync
           /\ op = "drop" => DoesDrop(c)
           /\ op = "clean" => DoesClean
<1>1. CASE op = "clear"
  BY <1>1 DEF Do, Clear, DoesClear
<1>2. CASE op = "copy"
  BY <1>2 DEF Do, Copy, DoesCopy
<1>3. CASE op = "record"
  BY <1>3 DEF Do, Write, DoesRecord
<1>4. CASE op = "forget"
  BY <1>4 DEF Do, Write, DoesForget
<1>5. CASE op = "flip"
  BY <1>5 DEF Do, Write, DoesFlip
<1>6. CASE op = "sync"
  BY <1>6 DEF Do, SyncPersonal, DoesSync
<1>7. CASE op = "drop"
  BY <1>7 DEF Do, SaveMarkets, DoesDrop
<1>8. CASE op = "clean"
  BY <1>8 DEF Do, Clean, DoesClean
<1> QED
  BY <1>1, <1>2, <1>3, <1>4, <1>5, <1>6, <1>7, <1>8

LEMMA DoTyped ==
    ASSUME DiskTypes, NEW c \in Calls, WellFormed(c), c.cmd \in Commands,
           NEW op, op = Program(c.cmd)[c.step], Do(op, c)
    PROVE  DiskTypes'
<1>0. /\ c.cmd \in {"install", "local"} =>
           op \in {"clear", "copy", "record", "sync"} /\ c.arg \in Ids
      /\ c.cmd = "uninstall" => op \in {"forget", "clear", "sync"} /\ c.arg \in Ids
      /\ c.cmd = "toggle" => op = "flip" /\ c.to \in BOOLEAN
      /\ c.cmd = "remove" => op \in {"drop", "clean"}
  BY ProgramSteps DEF WellFormed, OnPlugin
<1>1. CASE op = "clear"
  BY <1>0, <1>1, DoEffects DEF DoesClear, DiskTypes, Commands
<1>2. CASE op = "copy"
  BY <1>0, <1>2, DoEffects DEF DoesCopy, DiskTypes, Commands
<1>3. CASE op = "record"
  <2>1. DoesRecord(c) /\ c.arg \in Ids
    BY <1>0, <1>3, DoEffects DEF Commands
  <2> QED
    BY <2>1, WithTyped DEF DoesRecord, DiskTypes
<1>4. CASE op = "forget"
  BY <1>4, DoEffects, WithoutTyped DEF DoesForget, DiskTypes
<1>5. CASE op = "flip"
  <2>1. DoesFlip(c) /\ c.to \in BOOLEAN
    BY <1>0, <1>5, DoEffects DEF Commands
  <2>2. [installed EXCEPT ![c.arg] = c.to] \in Records
    BY <2>1, RecordFacts DEF DiskTypes
  <2> QED
    BY <2>1, <2>2 DEF DoesFlip, DiskTypes
<1>6. CASE op = "sync"
  BY <1>6, DoEffects DEF DoesSync, DiskTypes
<1>7. CASE op = "drop"
  BY <1>7, DoEffects, WithoutTyped DEF DoesDrop, DiskTypes
<1>8. CASE op = "clean"
  BY <1>8, DoEffects DEF DoesClean, DiskTypes
<1> QED
  BY <1>0, <1>1, <1>2, <1>3, <1>4, <1>5, <1>6, <1>7, <1>8 DEF Commands

-----------------------------------------------------------------------------
(* The queue r is q without its first d calls, with n more behind: none,   *)
(* or the call e.                                                          *)
Moves(q, r, d, n, e) ==
    /\ r \in Seq(Calls) /\ Len(r) = Len(q) - d + n
    /\ \A i \in 1 .. (Len(q) - d) : r[i] = q[i + d]
    /\ n = 1 => r[Len(q) - d + 1] = e

LEMMA Posting ==
    ASSUME NEW q \in Seq(Calls), NEW e \in Calls
    PROVE  /\ Moves(q, Append(q, e), 0, 1, e)
           /\ Moves(q, q, 0, 0, e)
           /\ q # <<>> => /\ Moves(q, Tail(q), 1, 0, e)
                          /\ Moves(q, Append(Tail(q), e), 1, 1, e)
                          /\ Head(q) = q[1] /\ Len(q) >= 1
<1>1. Moves(q, Append(q, e), 0, 1, e)
  BY DEF Moves
<1>2. Moves(q, q, 0, 0, e)
  BY DEF Moves
<1>3. ASSUME q # <<>>
      PROVE  /\ Moves(q, Tail(q), 1, 0, e)
             /\ Moves(q, Append(Tail(q), e), 1, 1, e)
             /\ Head(q) = q[1] /\ Len(q) >= 1
  <2>1. PICK t \in Seq(Calls) : t = Tail(q) /\ Len(t) = Len(q) - 1
                                /\ \A i \in 1 .. Len(t) : t[i] = q[i + 1]
    BY <1>3, HeadTailProperties
  <2>2. Len(q) >= 1
    BY <1>3
  <2>3. Moves(q, t, 1, 0, e)
    BY <2>1, <2>2 DEF Moves
  <2>4. /\ Append(t, e) \in Seq(Calls) /\ Len(Append(t, e)) = Len(t) + 1
        /\ \A i \in 1 .. Len(t) : Append(t, e)[i] = t[i]
        /\ Append(t, e)[Len(t) + 1] = e
    BY <2>1
  <2>5. Moves(q, Append(t, e), 1, 1, e)
    BY <2>1, <2>2, <2>4 DEF Moves
  <2> QED
    BY <1>3, <2>1, <2>2, <2>3, <2>5
<1> QED
  BY <1>1, <1>2, <1>3

(* Where the calls of r come from and where those of q go.                 *)
LEMMA MoveFacts ==
    ASSUME NEW q \in Seq(Calls), NEW d \in {0, 1}, NEW n \in {0, 1}, NEW e,
           NEW r, Moves(q, r, d, n, e), d = 1 => q # <<>>
    PROVE  /\ r \in Seq(Calls)
           /\ \A i \in DOMAIN r : \/ i + d \in DOMAIN q /\ r[i] = q[i + d]
                                  \/ n = 1 /\ i = Len(r) /\ r[i] = e
           /\ \A i \in DOMAIN q : i > d => i - d \in DOMAIN r /\ r[i - d] = q[i]
           /\ n = 1 => /\ Len(r) \in DOMAIN r /\ r[Len(r)] = e
                       /\ \A i \in DOMAIN q : i - d < Len(r)
<1>1. Len(q) \in Nat /\ Len(r) \in Nat /\ r \in Seq(Calls) /\ d <= Len(q)
  BY DEF Moves
<1>2. \A i \in DOMAIN r : \/ i + d \in DOMAIN q /\ r[i] = q[i + d]
                          \/ n = 1 /\ i = Len(r) /\ r[i] = e
  BY <1>1 DEF Moves
<1>3. ASSUME NEW i \in DOMAIN q, i > d
      PROVE  i - d \in DOMAIN r /\ r[i - d] = q[i]
  <2>1. i - d \in 1 .. (Len(q) - d) /\ (i - d) + d = i
    BY <1>1, <1>3
  <2> QED
    BY <1>1, <2>1 DEF Moves
<1>4. ASSUME n = 1
      PROVE  /\ Len(r) \in DOMAIN r /\ r[Len(r)] = e
             /\ \A i \in DOMAIN q : i - d < Len(r)
  <2>1. Len(r) = Len(q) - d + 1 /\ r[Len(q) - d + 1] = e
    BY <1>4 DEF Moves
  <2> QED
    BY <1>1, <2>1
<1> QED
  BY <1>1, <1>2, <1>3, <1>4

(* Calls as they are posted.                                               *)
Posted(c) == c \in Calls /\ WellFormed(c) /\ c.step = 1
Operation(c) == /\ Posted(c) /\ c.cmd \in Commands /\ c.guarded = TRUE
                /\ c.visit = visits
Reload(c, guarded, visit) ==
    Posted(c) /\ c.cmd = "lists" /\ c.guarded = guarded /\ c.visit = visit

LEMMA ReloadPosted ==
    ASSUME NEW guarded \in BOOLEAN, NEW visit \in Nat
    PROVE  Reload(ReloadAll(guarded, visit), guarded, visit)
<1>1. ReloadAll(guarded, visit) =
          [cmd |-> "lists", arg |-> None, to |-> None, guarded |-> guarded,
           visit |-> visit, step |-> 1]
  BY DEF ReloadAll, Call
<1> QED
  BY <1>1 DEF Reload, Posted, Calls, WellFormed, Commands, Reads, OnPlugin,
     Arguments, Values, Length

LEMMA OperationPosted ==
    ASSUME visits \in Nat
    PROVE  /\ \A cmd \in {"install", "local", "uninstall"}, id \in Ids :
                  Operation(Call(cmd, id, None, TRUE))
           /\ \A id \in Ids, to \in BOOLEAN :
                  Operation(Call("toggle", id, to, TRUE))
           /\ \A n \in Names : Operation(Call("remove", n, None, TRUE))
<1> USE DEF Operation, Posted, Call, Calls, WellFormed, Commands, Reads,
            OnPlugin, Arguments, Values, Length
<1>1. \A cmd \in {"install", "local", "uninstall"}, id \in Ids :
          Operation(Call(cmd, id, None, TRUE))
  OBVIOUS
<1>2. \A id \in Ids, to \in BOOLEAN : Operation(Call("toggle", id, to, TRUE))
  OBVIOUS
<1>3. \A n \in Names : Operation(Call("remove", n, None, TRUE))
  OBVIOUS
<1> QED
  BY <1>1, <1>2, <1>3

LEMMA UserCases ==
    ASSUME Types, User
    PROVE  \/ Refresh
           \/ \E c : Operation(c) /\ RunGuarded(c)
           \/ DialogAdd
<1>0. /\ visits \in Nat /\ view \in Pages
      /\ view.installed \in [DOMAIN view.installed -> BOOLEAN]
      /\ DOMAIN view.installed \subseteq Ids
      /\ view.catalog \subseteq Ids /\ view.markets \subseteq Names
  BY RecordFacts DEF Types, Pages
<1>1. CASE CardInstall
  BY <1>0, <1>1, OperationPosted DEF CardInstall
<1>2. CASE CardUninstall
  BY <1>0, <1>2, OperationPosted DEF CardUninstall
<1>3. CASE CardToggle \/ TileToggle
  <2>1. PICK id \in DOMAIN view.installed : Toggle(id)
    BY <1>3 DEF CardToggle, TileToggle
  <2>2. id \in Ids /\ (~view.installed[id]) \in BOOLEAN
    BY <1>0
  <2> QED
    BY <1>0, <2>1, <2>2, OperationPosted DEF Toggle
<1>4. CASE AddLocal
  <2>1. PICK p \in Plugins : RunGuarded(Call("local", <<Local, p>>, None, TRUE))
    BY <1>4 DEF AddLocal
  <2>2. <<Local, p>> \in Ids
    BY DEF Ids
  <2> QED
    BY <1>0, <2>1, <2>2, OperationPosted
<1>5. CASE DialogInstall
  BY <1>0, <1>5, OperationPosted DEF DialogInstall
<1>6. CASE DialogRemove
  BY <1>0, <1>6, OperationPosted DEF DialogRemove
<1> QED
  BY <1>1, <1>2, <1>3, <1>4, <1>5, <1>6 DEF User

LEMMA ServedPosted ==
    ASSUME DiskTypes, NEW c \in Calls, WellFormed(c), NEW e
    PROVE  /\ c.cmd = "lists" /\ e = [c EXCEPT !.cmd = "catalog",
                                              !.arg = DOMAIN markets]
              => /\ Posted(e) /\ e.cmd = "catalog" /\ e.arg = DOMAIN markets
                 /\ e.guarded = c.guarded /\ e.visit = c.visit
           /\ c.cmd = "catalog" /\ e = [c EXCEPT !.cmd = "skills", !.arg = None]
              => /\ Posted(e) /\ e.cmd = "skills"
                 /\ e.guarded = c.guarded /\ e.visit = c.visit
<1>0. DOMAIN markets \in SUBSET Names
  BY ListedTyped
<1>1. ASSUME c.cmd = "lists",
             e = [c EXCEPT !.cmd = "catalog", !.arg = DOMAIN markets]
      PROVE  /\ Posted(e) /\ e.cmd = "catalog" /\ e.arg = DOMAIN markets
             /\ e.guarded = c.guarded /\ e.visit = c.visit
  <2>1. c.step = 1
    BY <1>1 DEF WellFormed, Length, Calls
  <2>2. e \in Calls /\ e.cmd = "catalog" /\ e.arg = DOMAIN markets /\ e.step = 1
        /\ e.guarded = c.guarded /\ e.visit = c.visit
    BY <1>0, <1>1, <2>1 DEF Calls, Arguments, Reads
  <2>3. WellFormed(e)
    BY <1>0, <2>2 DEF WellFormed, OnPlugin, Commands, Length
  <2> QED
    BY <2>2, <2>3 DEF Posted
<1>2. ASSUME c.cmd = "catalog", e = [c EXCEPT !.cmd = "skills", !.arg = None]
      PROVE  /\ Posted(e) /\ e.cmd = "skills"
             /\ e.guarded = c.guarded /\ e.visit = c.visit
  <2>1. c.step = 1
    BY <1>2 DEF WellFormed, Length, Calls
  <2>2. e \in Calls /\ e.cmd = "skills" /\ e.step = 1
        /\ e.guarded = c.guarded /\ e.visit = c.visit
    BY <1>2, <2>1 DEF Calls, Arguments, Reads
  <2>3. WellFormed(e)
    BY <2>2 DEF WellFormed, OnPlugin, Commands, Length
  <2> QED
    BY <2>2, <2>3 DEF Posted
<1> QED
  BY <1>1, <1>2

LEMMA HeadTyped ==
    ASSUME QueueTypes, calls # <<>>
    PROVE  /\ 1 \in DOMAIN calls /\ Head(calls) = calls[1]
           /\ calls[1] \in Calls /\ WellFormed(calls[1])
BY DEF QueueTypes

LEMMA QueueMoves ==
    ASSUME QueueTypes, NEW d \in {0, 1}, NEW n \in {0, 1}, NEW e,
           Moves(calls, calls', d, n, e), n = 1 => Posted(e),
           d = 1 => calls # <<>>
    PROVE  QueueTypes'
<1>1. calls' \in Seq(Calls)
  BY DEF Moves
<1>2. \A i \in DOMAIN calls' :
          \/ i + d \in DOMAIN calls /\ calls'[i] = calls[i + d]
          \/ n = 1 /\ i = Len(calls') /\ calls'[i] = e
  BY MoveFacts DEF QueueTypes
<1> QED
  BY <1>1, <1>2 DEF QueueTypes, Posted

LEMMA QueuePosts ==
    ASSUME QueueTypes, NEW e, Posted(e), calls' = Append(calls, e)
    PROVE  QueueTypes' /\ Moves(calls, calls', 0, 1, e)
<1>1. Moves(calls, calls', 0, 1, e)
  BY Posting DEF QueueTypes, Posted
<1>2. 0 \in {0, 1} /\ 1 \in {0, 1} /\ 0 # 1
  OBVIOUS
<1> QED
  BY <1>1, <1>2, QueueMoves

(* The next read of a reload goes to the back of the queue.                *)
NextRead(c, e, cmd) ==
    /\ Posted(e) /\ e.cmd = cmd /\ e.guarded = c.guarded /\ e.visit = c.visit
    /\ Moves(calls, calls', 1, 1, e)

LEMMA ServeShape ==
    ASSUME Types, Serve, NEW c, c = Head(calls)
    PROVE  /\ ServeLists(c) => \E e : NextRead(c, e, "catalog")
                                      /\ e.arg = DOMAIN markets
           /\ ServeCatalog(c) => \E e : NextRead(c, e, "skills")
           /\ ServeSkills(c) => Moves(calls, calls', 1, 0, c)
<1>0. /\ DiskTypes /\ QueueTypes /\ calls \in Seq(Calls) /\ calls # <<>>
      /\ c \in Calls /\ WellFormed(c)
  <2>1. DiskTypes /\ QueueTypes /\ calls # <<>>
    BY DEF Types, Serve
  <2> QED
    BY <2>1, HeadTyped DEF QueueTypes
<1>1. ASSUME ServeLists(c)
      PROVE  \E e : NextRead(c, e, "catalog") /\ e.arg = DOMAIN markets
  <2>1. PICK e : e = [c EXCEPT !.cmd = "catalog", !.arg = DOMAIN markets]
    BY ZenonT(30)
  <2>2. /\ Posted(e) /\ e.cmd = "catalog" /\ e.arg = DOMAIN markets
        /\ e.guarded = c.guarded /\ e.visit = c.visit
    <3>1. c.cmd = "lists"
      BY <1>1 DEF ServeLists
    <3> QED
      BY <1>0, <2>1, <3>1, ServedPosted, ZenonT(30)
  <2>3. Moves(calls, calls', 1, 1, e)
    BY <1>0, <1>1, <2>1, <2>2, Posting DEF ServeLists, Posted
  <2> QED
    BY <2>2, <2>3 DEF NextRead
<1>2. ASSUME ServeCatalog(c)
      PROVE  \E e : NextRead(c, e, "skills")
  <2>1. PICK e : e = [c EXCEPT !.cmd = "skills", !.arg = None]
    BY ZenonT(30)
  <2>2. /\ Posted(e) /\ e.cmd = "skills"
        /\ e.guarded = c.guarded /\ e.visit = c.visit
    <3>1. c.cmd = "catalog"
      BY <1>2 DEF ServeCatalog
    <3> QED
      BY <1>0, <2>1, <3>1, ServedPosted, ZenonT(30)
  <2>3. Moves(calls, calls', 1, 1, e)
    BY <1>0, <1>2, <2>1, <2>2, Posting DEF ServeCatalog, Posted
  <2> QED
    BY <2>2, <2>3 DEF NextRead
<1>3. ASSUME ServeSkills(c)
      PROVE  Moves(calls, calls', 1, 0, c)
  BY <1>0, <1>3, Posting DEF ServeSkills
<1> QED
  BY <1>1, <1>2, <1>3

(* A command that has taken a step and has more to do.                     *)
Advanced(c, next) ==
    /\ next \in Calls /\ next.cmd = c.cmd /\ next.arg = c.arg
    /\ next.guarded = c.guarded /\ next.visit = c.visit
    /\ next.step = c.step + 1
    /\ calls' \in Seq(Calls) /\ Len(calls') = Len(calls)
    /\ calls'[1] = next
    /\ \A i \in DOMAIN calls : i # 1 => calls'[i] = calls[i]

(* The step of a command: its effects on the disk and on the queue.        *)
LEMMA PerformShape ==
    ASSUME Types, Perform
    PROVE  \E c, op :
             /\ calls # <<>> /\ c = calls[1] /\ c = Head(calls)
             /\ c \in Calls /\ WellFormed(c) /\ c.cmd \in Commands
             /\ op = Program(c.cmd)[c.step] /\ Do(op, c)
             /\ c.step = 1 => ~Refused(c.cmd, c.arg)
             /\ wanted' = IF op = "drop" THEN Without(wanted, c.arg) ELSE wanted
             /\ missed' = (missed \/ ~Mine(c))
             /\ torn' = CASE op = "copy" -> torn \ {c.arg}
                          [] op = "sync" -> torn \ {None}
                          [] OTHER -> torn
             /\ \/ /\ c.step = Length(c.cmd)
                   /\ \E e : Reload(e, TRUE, c.visit)
                             /\ Moves(calls, calls', 1, 1, e)
                   /\ view' = IF Mine(c) THEN [view EXCEPT !.loading = TRUE]
                              ELSE view
                \/ /\ c.step < Length(c.cmd)
                   /\ \E next : Advanced(c, next)
                   /\ UNCHANGED view
<1>0. QueueTypes /\ calls \in Seq(Calls) /\ DiskTypes
  BY DEF Types, QueueTypes
<1>1. calls # <<>> /\ Head(calls).cmd \in Commands
  BY DEF Perform
<1>2. PICK c : c = Head(calls)
  OBVIOUS
<1>3. PICK op : op = Program(c.cmd)[c.step]
  OBVIOUS
<1>4. /\ c = calls[1] /\ c \in Calls /\ WellFormed(c) /\ c.cmd \in Commands
      /\ 1 \in DOMAIN calls
  BY <1>0, <1>1, <1>2, HeadTyped
<1>5. /\ c.step = 1 => ~Refused(c.cmd, c.arg)
      /\ Do(op, c)
      /\ wanted' = IF op = "drop" THEN Without(wanted, c.arg) ELSE wanted
      /\ missed' = (missed \/ ~Mine(c))
      /\ torn' = CASE op = "copy" -> torn \ {c.arg}
                   [] op = "sync" -> torn \ {None}
                   [] OTHER -> torn
      /\ IF c.step = Len(Program(c.cmd)) THEN OpDone(c, Tail(calls))
         ELSE /\ calls' = [calls EXCEPT ![1].step = @ + 1,
                     ![1].to = IF op = "drop" THEN markets[c.arg] ELSE @]
              /\ UNCHANGED view
  BY <1>2, <1>3, Zenon DEF Perform
<1>6. Len(Program(c.cmd)) = Length(c.cmd) /\ c.step \in 1 .. 4
      /\ c.step <= Length(c.cmd) /\ Length(c.cmd) \in 1 .. 4
  BY <1>3, <1>4, ProgramSteps DEF WellFormed, Calls, Length
<1>7. CASE c.step = Length(c.cmd)
  <2>1. OpDone(c, Tail(calls))
    BY <1>5, <1>6, <1>7
  <2>2. c.visit \in Nat
    BY <1>4 DEF Calls
  <2>3. PICK e : e = ReloadAll(TRUE, c.visit) /\ Reload(e, TRUE, c.visit)
    BY <2>2, ReloadPosted
  <2>4. Moves(calls, calls', 1, 1, e)
    BY <1>0, <1>1, <2>1, <2>3, Posting DEF OpDone, Reload, Posted
  <2>5. view' = IF Mine(c) THEN [view EXCEPT !.loading = TRUE] ELSE view
    BY <2>1 DEF OpDone
  <2> QED
    BY <1>1, <1>2, <1>3, <1>4, <1>5, <1>7, <2>3, <2>4, <2>5
<1>8. CASE c.step # Length(c.cmd)
  <2>1. /\ calls' = [calls EXCEPT ![1].step = @ + 1,
                ![1].to = IF op = "drop" THEN markets[c.arg] ELSE @]
        /\ UNCHANGED view
    BY <1>5, <1>6, <1>8
  <2>2. PICK to : to = IF op = "drop" THEN markets[c.arg] ELSE c.to
    OBVIOUS
  <2>3. to \in Values
    <3>1. CASE op # "drop"
      BY <1>4, <2>2, <3>1 DEF Calls
    <3>2. CASE op = "drop"
      <4>1. c.cmd = "remove" /\ c.step = 1
        BY <1>3, <1>4, <3>2, ProgramSteps DEF Commands
      <4>2. c.arg \in DOMAIN markets
        BY <1>5, <4>1 DEF Refused
      <4>3. markets[c.arg] \in Sources
        BY <1>0, <4>2, BookFacts DEF DiskTypes
      <4> QED
        BY <2>2, <3>2, <4>3 DEF Values
    <3> QED
      BY <3>1, <3>2
  <2>4. PICK next : next = [c EXCEPT !.step = c.step + 1, !.to = to]
    OBVIOUS
  <2>5. c.step + 1 \in 1 .. 4
    BY <1>6, <1>8
  <2>6. /\ next \in Calls /\ next.cmd = c.cmd /\ next.arg = c.arg
        /\ next.guarded = c.guarded /\ next.visit = c.visit
        /\ next.step = c.step + 1
    BY <1>4, <2>3, <2>4, <2>5 DEF Calls
  <2>7. calls' = [calls EXCEPT ![1] = next]
    BY <1>4, <2>1, <2>2, <2>4
  <2>8. Advanced(c, next)
    BY <1>0, <1>4, <2>6, <2>7 DEF Advanced
  <2>9. c.step < Length(c.cmd)
    BY <1>6, <1>8
  <2> QED
    BY <1>1, <1>2, <1>3, <1>4, <1>5, <2>1, <2>8, <2>9
<1> QED
  BY <1>7, <1>8

-----------------------------------------------------------------------------
LEMMA FailTyped ==
    ASSUME DiskTypes, NEW op, NEW c, c.arg \in Arguments, Fail(op, c)
    PROVE  DiskTypes' /\ UNCHANGED <<clone, markets, installed, personal>>
           /\ (op # "copy" => UNCHANGED copies)
           /\ (op = "copy" => \/ UNCHANGED copies
                              \/ copies' = [copies EXCEPT ![c.arg] = "part"])
BY DEF Fail, Copy, disk, DiskTypes

LEMMA AddShape ==
    ASSUME Types, Add
    PROVE  \E a \in adds :
             /\ a \in Adds
             /\ UNCHANGED <<installed, copies, personal, visits, left, torn>>
             /\ \/ AddStarts(a) /\ UNCHANGED <<view, calls, wanted, markets>>
                \/ AddCloned(a) /\ UNCHANGED <<view, calls, wanted, markets>>
                \/ AddReads(a) /\ UNCHANGED <<view, calls, wanted, markets, clone>>
                \/ AddSaves(a) /\ UNCHANGED clone
                \/ AddFails(a) /\ UNCHANGED <<wanted, markets, clone, calls>>
<1>1. PICK a \in adds : AddStarts(a) \/ AddCloned(a) \/ AddReads(a)
                        \/ AddSaves(a) \/ AddFails(a)
  BY DEF Add
<1>2. a \in Adds /\ UNCHANGED <<visits, left, torn>>
  BY DEF Types, Add
<1> QED
  BY <1>1, <1>2 DEF AddStarts, AddCloned, AddReads, AddSaves, AddFails,
     RemoveClone, FinishClone, SaveAdded, SaveMarkets, OpFailed, disk

LEMMA AddsTyped ==
    ASSUME NEW a \in Adds, NEW at \in {"sent", "cloning", "found", "read"},
           NEW read \in Books
    PROVE  [a EXCEPT !.at = at, !.read = read] \in Adds
BY DEF Adds

LEMMA TypesStep ==
    ASSUME Types, [Next]_vars
    PROVE  Types'
<1> USE DEF Types
<1>0. QueueTypes /\ calls \in Seq(Calls) /\ visits \in Nat /\ view \in Pages
  BY DEF QueueTypes
<1>p. ASSUME NEW b \in BOOLEAN
      PROVE  /\ [view EXCEPT !.busy = b] \in Pages
             /\ [view EXCEPT !.loading = b] \in Pages
  BY DEF Pages
<1>1. CASE Visit
  <2>1. visits + 1 \in Nat /\ FALSE \in BOOLEAN
    BY <1>0
  <2>2. PICK e : e = ReloadAll(FALSE, visits + 1) /\ Reload(e, FALSE, visits + 1)
    BY <2>1, ReloadPosted
  <2>3. QueueTypes'
    BY <1>0, <1>1, <2>2, QueuePosts DEF Visit, Reload
  <2>4. Fresh \in Pages
    BY EmptyBook DEF Fresh, Pages
  <2> QED
    BY <1>1, <2>3, <2>4 DEF Visit, disk, DiskTypes
<1>2. CASE Leave
  <2>1. Closed \in Pages
    BY EmptyBook DEF Closed, Fresh, Pages
  <2>2. (left \/ view.busy) \in BOOLEAN
    OBVIOUS
  <2> QED
    BY <1>2, <2>1, <2>2 DEF Leave, disk, bounds, DiskTypes, QueueTypes
<1>3. CASE User
  <2>0. UNCHANGED <<disk, visits, ghosts>>
    BY <1>3 DEF User
  <2>1. CASE Refresh
    <3>1. PICK e : e = ReloadAll(FALSE, visits) /\ Reload(e, FALSE, visits)
      BY <1>0, ReloadPosted
    <3>3. QueueTypes'
      BY <1>0, <2>1, <3>1, QueuePosts DEF Refresh, Reload
    <3> QED
      BY <1>p, <2>0, <2>1, <3>3 DEF Refresh, disk, ghosts, DiskTypes
  <2>2. CASE \E c : Operation(c) /\ RunGuarded(c)
    <3>1. PICK e : Operation(e) /\ RunGuarded(e)
      BY <2>2
    <3>3. QueueTypes'
      BY <1>0, <3>1, QueuePosts DEF RunGuarded, Operation
    <3> QED
      BY <1>p, <2>0, <3>1, <3>3 DEF RunGuarded, disk, ghosts, DiskTypes
  <2>3. CASE DialogAdd
    <3>1. PICK s \in Sources : adds' = adds \cup {[visit |-> visits,
              source |-> s, at |-> "sent", read |-> <<>>]}
      BY <2>3 DEF DialogAdd
    <3>2. [visit |-> visits, source |-> s, at |-> "sent", read |-> <<>>] \in Adds
      BY <1>0, EmptyBook DEF Adds
    <3>3. view' \in Pages /\ UNCHANGED calls
      BY <1>p, <2>3 DEF DialogAdd
    <3> QED
      BY <2>0, <3>1, <3>2, <3>3 DEF disk, ghosts, DiskTypes, QueueTypes
  <2> QED
    BY <1>3, <2>1, <2>2, <2>3, UserCases
<1>4. CASE Serve
  <2>0. calls # <<>> /\ UNCHANGED <<disk, adds, visits, left>>
    BY <1>4 DEF Serve, bounds
  <2>1. PICK c : c = Head(calls) /\ c = calls[1] /\ c \in Calls /\ WellFormed(c)
    BY <1>0, <2>0, HeadTyped
  <2>2. CASE ServeLists(c)
    <3>1. PICK e : NextRead(c, e, "catalog")
      BY <1>4, <2>1, <2>2, ServeShape
    <3>2. Posted(e)
      BY <3>1 DEF NextRead
    <3>3. QueueTypes'
      BY <1>0, <2>0, <3>1, QueueMoves DEF NextRead
    <3>4. view' \in Pages
      BY <2>2, ListedTyped DEF ServeLists, Pages
    <3>5. missed' \in BOOLEAN
      BY <2>2 DEF ServeLists
    <3> QED
      BY <2>0, <3>3, <3>4, <3>5 DEF disk, DiskTypes
  <2>3. CASE ServeCatalog(c)
    <3>1. PICK e : NextRead(c, e, "skills")
      BY <1>4, <2>1, <2>3, ServeShape
    <3>2. Posted(e)
      BY <3>1 DEF NextRead
    <3>3. QueueTypes'
      BY <1>0, <2>0, <3>1, QueueMoves DEF NextRead
    <3>4. c.arg \in SUBSET Names
      BY <2>1, <2>3 DEF ServeCatalog, WellFormed
    <3>5. UNION {Entries(n) : n \in c.arg} \in SUBSET Ids
      BY <3>4, CatalogTyped
    <3>6. view' \in Pages
      BY <2>3, <3>5, ListedTyped DEF ServeCatalog, Pages
    <3> QED
      BY <2>0, <2>3, <3>3, <3>6 DEF disk, DiskTypes, ServeCatalog
  <2>4. CASE ServeSkills(c)
    <3>1. Moves(calls, calls', 1, 0, c)
      BY <1>4, <2>1, <2>4, ServeShape
    <3>2. QueueTypes'
      BY <1>0, <2>0, <3>1, QueueMoves
    <3>3. PICK b \in BOOLEAN : b = (view.busy /\ ~c.guarded)
      OBVIOUS
    <3>4. view' \in {view, [view EXCEPT !.skills = Skills, !.loading = FALSE,
                                        !.busy = b]}
      BY <2>4, <3>3 DEF ServeSkills
    <3>5. view' \in Pages
      BY <3>4, ListedTyped DEF Pages
    <3> QED
      BY <2>0, <2>4, <3>2, <3>5 DEF disk, DiskTypes, ServeSkills
  <2> QED
    BY <1>4, <2>1, <2>2, <2>3, <2>4 DEF Serve
<1>5. CASE Refuse \/ PerformFails
  <2>0. /\ calls # <<>> /\ UNCHANGED <<adds, visits, left>> /\ missed' = TRUE
        /\ OpFailed(Head(calls), Tail(calls))
    BY <1>5 DEF Refuse, PerformFails, bounds
  <2>1. Head(calls) \in Calls
    BY <1>0, <2>0, HeadTyped
  <2>2. QueueTypes'
    BY <1>0, <2>0, <2>1, Posting, QueueMoves DEF OpFailed
  <2>3. view' \in Pages
    BY <1>p, <2>0 DEF OpFailed
  <2>4. DiskTypes'
    <3>1. CASE Refuse
      BY <3>1 DEF Refuse, disk, DiskTypes
    <3>2. CASE PerformFails
      <4>1. \E op : Fail(op, Head(calls))
        BY <3>2 DEF PerformFails
      <4> QED
        BY <2>1, <4>1, FailTyped DEF Calls
    <3> QED
      BY <1>5, <3>1, <3>2
  <2> QED
    BY <2>0, <2>2, <2>3, <2>4
<1>6. CASE Perform
  <2>0. UNCHANGED <<adds, visits, left>>
    BY <1>6 DEF Perform, bounds
  <2>1. PICK c, op :
             /\ calls # <<>> /\ c = calls[1] /\ c \in Calls /\ WellFormed(c)
             /\ c.cmd \in Commands
             /\ op = Program(c.cmd)[c.step] /\ Do(op, c)
             /\ missed' = (missed \/ ~Mine(c))
             /\ \/ /\ \E e : Reload(e, TRUE, c.visit)
                             /\ Moves(calls, calls', 1, 1, e)
                   /\ view' = IF Mine(c) THEN [view EXCEPT !.loading = TRUE]
                              ELSE view
                \/ /\ c.step < Length(c.cmd)
                   /\ \E next : Advanced(c, next)
                   /\ UNCHANGED view
    BY <1>6, PerformShape
  <2>2. DiskTypes'
    BY <2>1, DoTyped
  <2>3. missed' \in BOOLEAN
    BY <2>1
  <2>4. view' \in Pages
    BY <1>p, <2>1
  <2>5. QueueTypes'
    <3>1. CASE \E e : Reload(e, TRUE, c.visit) /\ Moves(calls, calls', 1, 1, e)
      BY <1>0, <2>1, <3>1, QueueMoves DEF Reload
    <3>2. CASE c.step < Length(c.cmd) /\ \E next : Advanced(c, next)
      <4>1. PICK next : Advanced(c, next)
        BY <3>2
      <4>2. c.step \in 1 .. 4 /\ Length(c.cmd) \in 1 .. 4
        BY <2>1 DEF Calls, Length
      <4>3. next.step <= Length(next.cmd)
        BY <3>2, <4>1, <4>2 DEF Advanced
      <4>4. WellFormed(next)
        <5>1. next.cmd = "toggle" => FALSE
          BY <3>2, <4>1, <4>2 DEF Advanced, Length
        <5> QED
          BY <2>1, <4>1, <4>3, <5>1 DEF WellFormed, Advanced
      <4> QED
        BY <1>0, <4>1, <4>4 DEF Advanced, QueueTypes
    <3> QED
      BY <2>1, <3>1, <3>2
  <2> QED
    BY <2>0, <2>2, <2>3, <2>4, <2>5
<1>7. CASE Add
  <2>1. PICK a \in adds :
             /\ a \in Adds
             /\ UNCHANGED <<installed, copies, personal, visits, left, torn>>
             /\ \/ AddStarts(a) /\ UNCHANGED <<view, calls, wanted, markets>>
                \/ AddCloned(a) /\ UNCHANGED <<view, calls, wanted, markets>>
                \/ AddReads(a) /\ UNCHANGED <<view, calls, wanted, markets, clone>>
                \/ AddSaves(a) /\ UNCHANGED clone
                \/ AddFails(a) /\ UNCHANGED <<wanted, markets, clone, calls>>
    BY <1>7, AddShape
  <2>2. a.source \in Sources /\ a.visit \in Nat /\ a.read \in Books
    BY <2>1 DEF Adds
  <2>3. CASE AddStarts(a) /\ UNCHANGED <<view, calls, wanted, markets>>
    <3>1. clone' \in [Dirs -> Sources \cup {None}]
      BY <2>3 DEF AddStarts, RemoveClone, disk, DiskTypes
    <3>2. PICK at \in {"cloning", "found"} : Becomes(a, at, <<>>)
      BY <2>3 DEF AddStarts
    <3>3. adds' \subseteq Adds
      <4>1. [a EXCEPT !.at = at, !.read = <<>>] \in Adds
        BY <2>1, <3>2, AddsTyped, EmptyBook
      <4> QED
        BY <3>2, <4>1 DEF Becomes
    <3>4. missed' \in BOOLEAN
      BY <2>3 DEF AddStarts
    <3> QED
      BY <2>1, <2>3, <3>1, <3>3, <3>4 DEF DiskTypes, QueueTypes
  <2>4. CASE AddCloned(a) /\ UNCHANGED <<view, calls, wanted, markets>>
    <3>1. clone' \in [Dirs -> Sources \cup {None}]
      BY <2>2, <2>4 DEF AddCloned, FinishClone, DiskTypes
    <3>2. adds' \subseteq Adds
      BY <2>1, <2>4, AddsTyped, EmptyBook DEF AddCloned, Becomes
    <3>3. missed' \in BOOLEAN
      BY <2>4 DEF AddCloned
    <3> QED
      BY <2>1, <2>4, <3>1, <3>2, <3>3 DEF DiskTypes, QueueTypes
  <2>5. CASE AddReads(a) /\ UNCHANGED <<view, calls, wanted, markets, clone>>
    <3>1. markets \in Books
      BY DEF DiskTypes
    <3>2. adds' \subseteq Adds
      BY <2>1, <2>5, <3>1, AddsTyped DEF AddReads, Becomes
    <3> QED
      BY <2>1, <2>5, <3>2 DEF DiskTypes, QueueTypes, AddReads
  <2>6. CASE AddSaves(a) /\ UNCHANGED clone
    <3>1. markets' = With(a.read, NameOf[a.source], a.source)
          /\ adds' = adds \ {a} /\ missed' = (missed \/ ~Mine(a))
          /\ OpDone(a, calls)
      BY <2>6 DEF AddSaves, SaveAdded, SaveMarkets
    <3>2. markets' \in Books
      BY <2>2, <3>1, WithTyped
    <3>3. PICK e : e = ReloadAll(TRUE, a.visit) /\ Reload(e, TRUE, a.visit)
      BY <2>2, ReloadPosted
    <3>4. QueueTypes'
      BY <1>0, <3>1, <3>3, QueuePosts DEF OpDone, Reload
    <3>5. view' \in Pages
      BY <1>p, <3>1 DEF OpDone
    <3>6. missed' \in BOOLEAN
      BY <3>1
    <3> QED
      BY <2>1, <2>6, <3>1, <3>2, <3>4, <3>5, <3>6 DEF DiskTypes
  <2>7. CASE AddFails(a) /\ UNCHANGED <<wanted, markets, clone, calls>>
    <3>1. adds' = adds \ {a} /\ missed' = TRUE /\ OpFailed(a, calls)
      BY <2>7 DEF AddFails
    <3>2. view' \in Pages
      BY <1>p, <3>1 DEF OpFailed
    <3> QED
      BY <2>1, <2>7, <3>1, <3>2 DEF DiskTypes, QueueTypes
  <2> QED
    BY <2>1, <2>3, <2>4, <2>5, <2>6, <2>7
<1>8. CASE Crash
  <2>1. Closed \in Pages
    BY EmptyBook DEF Closed, Fresh, Pages
  <2> QED
    BY <1>8, <2>1 DEF Crash, disk, DiskTypes, QueueTypes
<1>9. CASE UNCHANGED vars
  BY <1>9 DEF vars, disk, bounds, ghosts, DiskTypes, QueueTypes
<1> QED
  BY <1>1, <1>2, <1>3, <1>4, <1>5, <1>6, <1>7, <1>8, <1>9 DEF Next

-----------------------------------------------------------------------------
(* The files.  Under way is an operation that has taken a step.            *)
Rewrites == {"install", "local", "uninstall"}
UnderWay(c) == c.cmd \in Rewrites /\ c.step > 1

LEMMA OperatingIs ==
    ASSUME QueueTypes
    PROVE  /\ \A id : Operating(id) <=>
                  calls # <<>> /\ UnderWay(Head(calls)) /\ Head(calls).arg = id
           /\ \A id : Operating(id) => id \in Ids
<1>1. \A id : Operating(id) <=>
          calls # <<>> /\ UnderWay(Head(calls)) /\ Head(calls).arg = id
  BY DEF Operating, UnderWay, Rewrites
<1>2. ASSUME NEW id, Operating(id) PROVE id \in Ids
  BY <1>2, HeadTyped DEF Operating, WellFormed, OnPlugin
<1> QED
  BY <1>1, <1>2

(* Steps that leave the installed plugins, and who is under way, alone.    *)
LEMMA CalmStep ==
    ASSUME QueueTypes, QueueTypes', Files, PersonalFollows,
           UNCHANGED <<installed, copies, personal, torn>>,
           calls # <<>> /\ UnderWay(Head(calls)) =>
               calls' # <<>> /\ Head(calls') = Head(calls),
           calls' # <<>> /\ UnderWay(Head(calls')) =>
               calls # <<>> /\ Head(calls') = Head(calls)
    PROVE  Files' /\ PersonalFollows'
<1>1. \A id : Operating(id)' <=> Operating(id)
  BY DEF Operating, UnderWay, Rewrites
<1>2. FilesBehindRecords'
  BY <1>1 DEF Files, FilesBehindRecords
<1>3. ASSUME calls' # <<>>,
             Head(calls').cmd \in {"install", "local"} /\ Head(calls').step > 2
      PROVE  copies[Head(calls').arg] = "whole"
  <2>1. Head(calls').step > 1
    <3>1. Head(calls') \in Calls
      BY <1>3 DEF QueueTypes
    <3>2. Head(calls').step \in Nat
      BY <3>1 DEF Calls
    <3> QED
      BY <1>3, <3>2
  <2>2. UnderWay(Head(calls'))
    BY <1>3, <2>1 DEF UnderWay, Rewrites
  <2> QED
    BY <1>3, <2>2 DEF Files
<1>4. ASSUME calls' # <<>>,
             Head(calls').cmd = "uninstall" /\ Head(calls').step > 1
      PROVE  Head(calls').arg \notin DOMAIN installed
  BY <1>4 DEF Files, UnderWay, Rewrites
<1>5. Files'
  BY <1>2, <1>3, <1>4 DEF Files
<1>6. PersonalFollows'
  BY <1>1 DEF PersonalFollows
<1> QED
  BY <1>5, <1>6

(* How the head of the queue moves.                                        *)
LEMMA HeadMoves ==
    ASSUME QueueTypes, QueueTypes', NEW n \in {0, 1}, NEW e
    PROVE  /\ Moves(calls, calls', 0, n, e) /\ (n = 1 => e.step = 1) =>
                /\ calls # <<>> => calls' # <<>> /\ Head(calls') = Head(calls)
                /\ calls = <<>> /\ calls' # <<>> => Head(calls').step = 1
           /\ Moves(calls, calls', 1, n, e) /\ (n = 1 => e.step = 1)
              /\ calls # <<>> /\ calls' # <<>> => Head(calls').step = 1
<1>0. /\ calls \in Seq(Calls) /\ calls' \in Seq(Calls)
      /\ calls # <<>> => Head(calls) = calls[1] /\ Len(calls) >= 1
      /\ calls' # <<>> => Head(calls') = calls'[1] /\ 1 \in DOMAIN calls'
      /\ Len(calls') >= 1 => calls' # <<>>
  BY DEF QueueTypes
<1>1. ASSUME Moves(calls, calls', 0, n, e), n = 1 => e.step = 1
      PROVE  /\ calls # <<>> => calls' # <<>> /\ Head(calls') = Head(calls)
             /\ calls = <<>> /\ calls' # <<>> => Head(calls').step = 1
  <2>1. CASE calls # <<>>
    BY <1>0, <1>1, <2>1 DEF Moves
  <2>2. CASE calls = <<>>
    <3>1. Len(calls) = 0
      BY <2>2
    <3> QED
      BY <1>0, <1>1, <2>2, <3>1 DEF Moves
  <2> QED
    BY <2>1, <2>2
<1>2. ASSUME Moves(calls, calls', 1, n, e), n = 1 => e.step = 1,
             calls # <<>>, calls' # <<>>
      PROVE  Head(calls').step = 1
  <2>1. \/ 1 + 1 \in DOMAIN calls /\ calls'[1] = calls[1 + 1]
        \/ n = 1 /\ calls'[1] = e
    BY <1>0, <1>2, MoveFacts
  <2> QED
    BY <1>0, <1>2, <2>1 DEF QueueTypes
<1> QED
  BY <1>1, <1>2

LEMMA FilesPerform ==
    ASSUME Types, Types', Files, PersonalFollows, Perform
    PROVE  Files' /\ PersonalFollows'
<1>0. /\ QueueTypes /\ QueueTypes' /\ calls \in Seq(Calls) /\ calls' \in Seq(Calls)
      /\ copies \in [Ids -> {"none", "part", "whole"}]
      /\ DOMAIN installed \subseteq Ids /\ None \notin Ids
  BY ListedTyped, MarketAssumption DEF Types, QueueTypes, DiskTypes
<1>1. PICK c, op :
             /\ calls # <<>> /\ c = calls[1] /\ c = Head(calls)
             /\ c \in Calls /\ WellFormed(c) /\ c.cmd \in Commands
             /\ op = Program(c.cmd)[c.step] /\ Do(op, c)
             /\ torn' = CASE op = "copy" -> torn \ {c.arg}
                          [] op = "sync" -> torn \ {None}
                          [] OTHER -> torn
             /\ \/ /\ c.step = Length(c.cmd)
                   /\ \E e : Reload(e, TRUE, c.visit)
                             /\ Moves(calls, calls', 1, 1, e)
                \/ /\ c.step < Length(c.cmd)
                   /\ \E next : Advanced(c, next)
  BY <1>0, PerformShape
<1>2. /\ c.step \in 1 .. 4 /\ Len(calls) >= 1 /\ Length(c.cmd) \in 1 .. 4
      /\ c.cmd \in {"install", "local"} => Length(c.cmd) = 4
      /\ c.cmd = "uninstall" => Length(c.cmd) = 3
      /\ c.cmd = "toggle" => Length(c.cmd) = 1
      /\ c.cmd = "remove" => Length(c.cmd) = 2
      /\ c.cmd \in Rewrites => c.arg \in Ids
  BY <1>0, <1>1 DEF Calls, Length, WellFormed, OnPlugin, Rewrites
(* Another step is left, or the next call has taken none.                  *)
<1>3. ASSUME c.step < Length(c.cmd)
      PROVE  /\ calls' # <<>> /\ Head(calls').cmd = c.cmd
             /\ Head(calls').arg = c.arg /\ Head(calls').step = c.step + 1
  <2>0. c.step # Length(c.cmd)
    BY <1>2, <1>3
  <2>1. PICK next : Advanced(c, next)
    BY <1>1, <2>0, Zenon
  <2>2. calls' # <<>> /\ Head(calls') = next
    BY <1>0, <1>2, <2>1 DEF Advanced
  <2> QED
    BY <2>1, <2>2 DEF Advanced
<1>4. ASSUME c.step = Length(c.cmd), calls' # <<>>
      PROVE  Head(calls').step = 1
  <2>0. ~(c.step < Length(c.cmd))
    BY <1>2, <1>4
  <2>1. PICK e : Reload(e, TRUE, c.visit) /\ Moves(calls, calls', 1, 1, e)
    BY <1>1, <2>0, Zenon
  <2> QED
    BY <1>0, <1>1, <1>4, <2>1, HeadMoves DEF Reload, Posted
<1>5. \A id : Operating(id) <=> UnderWay(c) /\ c.arg = id
  BY <1>0, <1>1, OperatingIs
<1>6. \A id : Operating(id)' <=>
          calls' # <<>> /\ UnderWay(Head(calls')) /\ Head(calls').arg = id
  BY DEF Operating, UnderWay, Rewrites
<1>7. CASE c.cmd = "remove"
  <2>1. op \in {"drop", "clean"}
    BY <1>1, <1>7, ProgramSteps
  <2>2. UNCHANGED <<installed, copies, personal, torn>>
    BY <1>1, <2>1, DoEffects DEF DoesDrop, DoesClean
  <2>3. ~UnderWay(c) /\ (calls' # <<>> => ~UnderWay(Head(calls')))
    <3>1. CASE c.step = Length(c.cmd)
      BY <1>4, <1>7, <3>1 DEF UnderWay, Rewrites
    <3>2. CASE c.step < Length(c.cmd)
      BY <1>3, <1>7, <3>2 DEF UnderWay, Rewrites
    <3> QED
      BY <1>1, <3>1, <3>2
  <2> QED
    BY <1>0, <1>1, <2>2, <2>3, CalmStep
<1>8. CASE c.cmd = "toggle"
  <2>1. op = "flip" /\ c.step = 1
    BY <1>1, <1>8, ProgramSteps
  <2>2. /\ DOMAIN installed' = DOMAIN installed
        /\ UNCHANGED <<copies, personal, torn>>
    BY <1>1, <2>1, DoEffects DEF DoesFlip
  <2>3. ~UnderWay(c) /\ (calls' # <<>> => ~UnderWay(Head(calls')))
        /\ (calls' # <<>> => Head(calls').step = 1)
    BY <1>2, <1>4, <1>8, <2>1 DEF UnderWay, Rewrites
  <2>4. FilesBehindRecords'
    BY <1>5, <2>2, <2>3 DEF Files, FilesBehindRecords
  <2>5. PersonalFollows'
    BY <1>5, <2>2, <2>3 DEF PersonalFollows
  <2> QED
    BY <2>3, <2>4, <2>5 DEF Files
(* The installation and the removal of a plugin, step by step.             *)
<1>9. ASSUME c.cmd \in Rewrites, c.step < Length(c.cmd)
      PROVE  /\ \A id : Operating(id)' <=> c.arg = id
             /\ PersonalFollows'
  <2>1. \A id : Operating(id)' <=> c.arg = id
    BY <1>2, <1>3, <1>6, <1>9 DEF UnderWay
  <2>2. \E id \in Ids : Operating(id)'
    BY <1>2, <1>9, <2>1
  <2> QED
    BY <2>1, <2>2 DEF PersonalFollows
<1>10. ASSUME c.cmd \in Rewrites, c.step = Length(c.cmd)
       PROVE  Files' /\ PersonalFollows'
  <2>1. op = "sync" /\ c.step > 2
    BY <1>1, <1>2, <1>10, ProgramSteps DEF Rewrites
  <2>2. /\ personal' = DOMAIN installed /\ UNCHANGED <<installed, copies>>
        /\ torn' = torn \ {None}
    BY <1>1, <2>1, DoEffects DEF DoesSync
  <2>3. \A id : ~Operating(id)'
    BY <1>4, <1>6, <1>10 DEF UnderWay
  <2>4. ASSUME NEW id \in DOMAIN installed, id \notin torn
        PROVE  copies[id] = "whole"
    <3>1. CASE c.cmd \in {"install", "local"}
      BY <1>1, <1>5, <2>1, <2>4, <3>1 DEF Files, FilesBehindRecords
    <3>2. CASE c.cmd = "uninstall"
      <4>1. c.step > 1
        BY <1>2, <2>1
      <4>2. c.arg \notin DOMAIN installed
        BY <1>1, <3>2, <4>1 DEF Files
      <4> QED
        BY <1>5, <2>4, <4>2 DEF Files, FilesBehindRecords
    <3> QED
      BY <1>10, <3>1, <3>2 DEF Rewrites
  <2>5. FilesBehindRecords'
    BY <1>0, <2>2, <2>4 DEF FilesBehindRecords
  <2>6. Files'
    BY <1>4, <1>10, <2>5 DEF Files
  <2>7. PersonalFollows'
    BY <2>2 DEF PersonalFollows
  <2> QED
    BY <2>6, <2>7
<1>11. ASSUME c.cmd \in {"install", "local"}, c.step = 1
       PROVE  Files'
  <2>1. DoesClear(c) /\ torn' = torn
    BY <1>1, <1>11, ProgramSteps, DoEffects
  <2>2. c.step < Length(c.cmd) /\ c.cmd \in Rewrites /\ ~UnderWay(c)
    BY <1>2, <1>11 DEF Rewrites, UnderWay
  <2>3. FilesBehindRecords'
    BY <1>0, <1>5, <1>9, <2>1, <2>2 DEF DoesClear, Files, FilesBehindRecords
  <2> QED
    BY <1>3, <1>11, <2>2, <2>3 DEF Files
<1>12. ASSUME c.cmd \in {"install", "local"}, c.step = 2
       PROVE  Files'
  <2>1. DoesCopy(c) /\ torn' = torn \ {c.arg}
    BY <1>1, <1>12, ProgramSteps, DoEffects
  <2>2. c.step < Length(c.cmd) /\ c.cmd \in Rewrites
    BY <1>2, <1>12 DEF Rewrites
  <2>3. copies'[c.arg] = "whole"
        /\ \A id \in Ids : id # c.arg => copies'[id] = copies[id]
    BY <1>0, <1>2, <2>1, <2>2 DEF DoesCopy
  <2>4. FilesBehindRecords'
    BY <1>0, <1>5, <1>9, <2>1, <2>2, <2>3
       DEF DoesCopy, Files, FilesBehindRecords
  <2> QED
    BY <1>3, <1>12, <2>2, <2>3, <2>4 DEF Files
<1>13. ASSUME c.cmd \in {"install", "local"}, c.step = 3
       PROVE  Files'
  <2>1. DoesRecord(c) /\ torn' = torn
    BY <1>1, <1>13, ProgramSteps, DoEffects
  <2>2. c.step < Length(c.cmd) /\ c.cmd \in Rewrites
    BY <1>2, <1>13 DEF Rewrites
  <2>3. copies[c.arg] = "whole"
    BY <1>1, <1>13 DEF Files
  <2>4. DOMAIN installed' = {c.arg} \cup DOMAIN installed /\ UNCHANGED copies
    BY <2>1 DEF DoesRecord, With
  <2>5. FilesBehindRecords'
    BY <1>5, <1>9, <2>1, <2>2, <2>3, <2>4 DEF Files, FilesBehindRecords
  <2> QED
    BY <1>3, <1>13, <2>2, <2>3, <2>4, <2>5 DEF Files
<1>14. ASSUME c.cmd = "uninstall", c.step = 1
       PROVE  Files'
  <2>1. DoesForget(c) /\ torn' = torn
    BY <1>1, <1>14, ProgramSteps, DoEffects
  <2>2. c.step < Length(c.cmd) /\ c.cmd \in Rewrites /\ ~UnderWay(c)
    BY <1>2, <1>14 DEF Rewrites, UnderWay
  <2>3. DOMAIN installed' = DOMAIN installed \ {c.arg} /\ UNCHANGED copies
    BY <2>1, WithoutFacts DEF DoesForget
  <2>4. FilesBehindRecords'
    BY <1>5, <2>1, <2>2, <2>3 DEF Files, FilesBehindRecords
  <2> QED
    BY <1>3, <1>14, <2>2, <2>3, <2>4 DEF Files
<1>15. ASSUME c.cmd = "uninstall", c.step = 2
       PROVE  Files'
  <2>1. DoesClear(c) /\ torn' = torn
    BY <1>1, <1>15, ProgramSteps, DoEffects
  <2>2. c.step < Length(c.cmd) /\ c.cmd \in Rewrites
    BY <1>2, <1>15 DEF Rewrites
  <2>3. c.arg \notin DOMAIN installed
    BY <1>1, <1>15 DEF Files
  <2>4. FilesBehindRecords'
    BY <1>0, <1>5, <1>9, <2>1, <2>2, <2>3 DEF DoesClear, Files, FilesBehindRecords
  <2> QED
    BY <1>3, <1>15, <2>1, <2>2, <2>3, <2>4 DEF Files, DoesClear
<1>16. CASE c.cmd \in Rewrites
  <2>1. CASE c.step = Length(c.cmd)
    BY <1>10, <1>16, <2>1
  <2>2. CASE c.step < Length(c.cmd)
    <3>1. PersonalFollows'
      BY <1>9, <1>16, <2>2
    <3>2. \/ c.cmd \in {"install", "local"} /\ c.step \in {1, 2, 3}
          \/ c.cmd = "uninstall" /\ c.step \in {1, 2}
      BY <1>2, <1>16, <2>2 DEF Rewrites
    <3> QED
      BY <1>11, <1>12, <1>13, <1>14, <1>15, <3>1, <3>2
  <2> QED
    BY <1>1, <2>1, <2>2
<1> QED
  BY <1>1, <1>7, <1>8, <1>16 DEF Commands, Rewrites

LEMMA FilesFail ==
    ASSUME Types, Types', Files, PersonalFollows, PerformFails
    PROVE  Files' /\ PersonalFollows'
<1>0. /\ QueueTypes /\ QueueTypes' /\ calls \in Seq(Calls) /\ calls # <<>>
      /\ copies \in [Ids -> {"none", "part", "whole"}]
      /\ DOMAIN installed \subseteq Ids /\ None \notin Ids
  BY ListedTyped, MarketAssumption
     DEF Types, QueueTypes, DiskTypes, PerformFails
<1>1. PICK c : c = Head(calls) /\ c \in Calls /\ WellFormed(c)
  BY <1>0, HeadTyped
<1>2. PICK op : op = Program(c.cmd)[c.step]
  OBVIOUS
<1>3. /\ c.cmd \in Commands /\ Fail(op, c) /\ torn' = torn \cup Torn(c)
      /\ OpFailed(c, Tail(calls))
  BY <1>1, <1>2 DEF PerformFails
<1>4. calls' # <<>> => Head(calls').step = 1
  <2>1. Moves(calls, calls', 1, 0, c)
    BY <1>0, <1>1, <1>3, Posting DEF OpFailed
  <2>2. 0 \in {0, 1} /\ 0 # 1
    OBVIOUS
  <2> QED
    BY <1>0, <2>1, <2>2, HeadMoves
<1>5. \A id : ~Operating(id)'
  BY <1>4 DEF Operating
<1>6. /\ UNCHANGED <<installed, personal>>
      /\ op # "copy" => UNCHANGED copies
      /\ op = "copy" => \/ UNCHANGED copies
                        \/ copies' = [copies EXCEPT ![c.arg] = "part"]
  BY <1>1, <1>3, FailTyped DEF Types, Calls
<1>7. \A id : Operating(id) <=> UnderWay(c) /\ c.arg = id
  BY <1>0, <1>1, OperatingIs
(* What the failure leaves in pieces is torn: the plugin when it is in the *)
(* list and its copy has begun, the personal catalogue in any case.        *)
<1>8. UnderWay(c) => None \in torn'
  BY <1>3 DEF UnderWay, Rewrites, Torn
<1>9. op = "copy" => c.cmd \in {"install", "local"} /\ c.step = 2
  BY <1>1, <1>2, <1>3, ProgramSteps DEF Commands
<1>10. c.cmd \in {"install", "local"} /\ c.step > 1 /\ c.arg \in DOMAIN installed
           => c.arg \in torn'
  BY <1>3 DEF Torn
<1>11. FilesBehindRecords'
  <2>1. SUFFICES ASSUME NEW id \in DOMAIN installed, id \notin torn'
                 PROVE  copies'[id] = "whole"
    BY <1>6 DEF FilesBehindRecords
  <2>2. ~(UnderWay(c) /\ c.arg = id)
    <3>1. CASE c.cmd = "uninstall" /\ c.step > 1
      BY <1>0, <1>1, <2>1, <3>1 DEF Files
    <3>2. CASE c.cmd \in {"install", "local"}
      BY <1>10, <2>1, <3>2 DEF UnderWay
    <3> QED
      BY <3>1, <3>2 DEF UnderWay, Rewrites
  <2>3. copies[id] = "whole"
    BY <1>3, <1>7, <2>1, <2>2 DEF Files, FilesBehindRecords
  <2>4. op = "copy" => c.arg # id
    BY <1>9, <1>10, <2>1
  <2> QED
    BY <1>0, <1>6, <2>1, <2>3, <2>4
<1>12. Files'
  BY <1>4, <1>11 DEF Files
<1>13. PersonalFollows'
  <2>1. CASE UnderWay(c)
    BY <1>8, <2>1 DEF PersonalFollows
  <2>2. CASE ~UnderWay(c)
    BY <1>3, <1>6, <1>7, <2>2 DEF PersonalFollows
  <2> QED
    BY <2>1, <2>2
<1> QED
  BY <1>12, <1>13

LEMMA FilesCrash ==
    ASSUME Types, Files, PersonalFollows, Crash
    PROVE  Files' /\ PersonalFollows'
<1>0. QueueTypes /\ UNCHANGED <<installed, copies, personal>> /\ calls' = <<>>
      /\ torn' = torn \cup (IF calls # <<>> THEN Torn(Head(calls)) ELSE {})
  BY DEF Types, Crash, disk
<1>1. \A id : ~Operating(id)'
  BY <1>0 DEF Operating
<1>2. CASE calls = <<>> \/ ~UnderWay(Head(calls))
  BY <1>0, <1>1, <1>2 DEF Files, FilesBehindRecords, PersonalFollows, Operating,
     UnderWay, Rewrites
<1>3. CASE calls # <<>> /\ UnderWay(Head(calls))
  <2>1. PICK c : c = Head(calls)
    OBVIOUS
  <2>2. /\ None \in torn'
        /\ c.cmd \in {"install", "local"} /\ c.arg \in DOMAIN installed
              => c.arg \in torn'
    BY <1>0, <1>3, <2>1 DEF UnderWay, Rewrites, Torn
  <2>3. c.cmd = "uninstall" => c.arg \notin DOMAIN installed
    BY <1>3, <2>1 DEF Files, UnderWay
  <2>4. \A id : Operating(id) => c.arg = id
    BY <2>1 DEF Operating
  <2>5. FilesBehindRecords'
    BY <1>0, <1>3, <2>1, <2>2, <2>3, <2>4
       DEF Files, FilesBehindRecords, UnderWay, Rewrites
  <2> QED
    BY <1>0, <2>2, <2>5 DEF Files, PersonalFollows
<1> QED
  BY <1>2, <1>3

LEMMA FilesStep ==
    ASSUME Types, Types', Files, PersonalFollows, [Next]_vars
    PROVE  Files' /\ PersonalFollows'
<1>0. /\ QueueTypes /\ QueueTypes' /\ calls \in Seq(Calls) /\ visits \in Nat
      /\ 0 \in {0, 1} /\ 1 \in {0, 1} /\ 0 # 1
  BY DEF Types, QueueTypes
(* A queue that stays or grows keeps its head.                             *)
<1>a. ASSUME UNCHANGED <<installed, copies, personal, torn>>,
             \/ UNCHANGED calls
             \/ \E e : Posted(e) /\ Moves(calls, calls', 0, 1, e)
      PROVE  Files' /\ PersonalFollows'
  <2>1. CASE UNCHANGED calls
    BY <1>0, <1>a, <2>1, CalmStep
  <2>2. CASE \E e : Posted(e) /\ Moves(calls, calls', 0, 1, e)
    <3>1. /\ calls # <<>> => calls' # <<>> /\ Head(calls') = Head(calls)
          /\ calls = <<>> /\ calls' # <<>> => Head(calls').step = 1
      BY <1>0, <2>2, HeadMoves DEF Posted
    <3>2. calls' # <<>> /\ UnderWay(Head(calls')) => calls # <<>>
      BY <3>1 DEF UnderWay
    <3> QED
      BY <1>0, <1>a, <3>1, <3>2, CalmStep
  <2> QED
    BY <1>a, <2>1, <2>2
(* A queue that loses a head that has taken no step is calm as well.       *)
<1>b. ASSUME UNCHANGED <<installed, copies, personal, torn>>, calls # <<>>,
             ~UnderWay(Head(calls)),
             \/ \E e : Moves(calls, calls', 1, 0, e)
             \/ \E e : Posted(e) /\ Moves(calls, calls', 1, 1, e)
      PROVE  Files' /\ PersonalFollows'
  <2>1. calls' # <<>> => Head(calls').step = 1
    BY <1>0, <1>b, HeadMoves DEF Posted
  <2>2. calls' # <<>> => ~UnderWay(Head(calls'))
    BY <2>1 DEF UnderWay
  <2> QED
    BY <1>0, <1>b, <2>2, CalmStep
<1>1. CASE Visit
  <2>1. visits + 1 \in Nat /\ FALSE \in BOOLEAN
    BY <1>0
  <2>2. PICK e : e = ReloadAll(FALSE, visits + 1) /\ Reload(e, FALSE, visits + 1)
    BY <2>1, ReloadPosted
  <2>3. Posted(e) /\ Moves(calls, calls', 0, 1, e)
    BY <1>0, <1>1, <2>2, QueuePosts DEF Visit, Reload
  <2> QED
    BY <1>1, <1>a, <2>3 DEF Visit, disk
<1>2. CASE Leave
  BY <1>2, <1>a DEF Leave, disk
<1>3. CASE User
  <2>0. UNCHANGED <<installed, copies, personal, torn>>
    BY <1>3 DEF User, disk, ghosts
  <2>1. CASE Refresh
    <3>1. PICK e : e = ReloadAll(FALSE, visits) /\ Reload(e, FALSE, visits)
      BY <1>0, ReloadPosted
    <3>2. Posted(e) /\ Moves(calls, calls', 0, 1, e)
      BY <1>0, <2>1, <3>1, QueuePosts DEF Refresh, Reload
    <3> QED
      BY <1>a, <2>0, <3>2
  <2>2. CASE \E c : Operation(c) /\ RunGuarded(c)
    <3>1. PICK e : Operation(e) /\ RunGuarded(e)
      BY <2>2
    <3>2. Posted(e) /\ Moves(calls, calls', 0, 1, e)
      BY <1>0, <3>1, QueuePosts DEF RunGuarded, Operation
    <3> QED
      BY <1>a, <2>0, <3>2
  <2>3. CASE DialogAdd
    BY <1>a, <2>0, <2>3 DEF DialogAdd
  <2> QED
    BY <1>3, <2>1, <2>2, <2>3, UserCases
<1>4. CASE Serve
  <2>0. calls # <<>> /\ UNCHANGED <<installed, copies, personal, torn>>
    BY <1>4 DEF Serve, disk
  <2>1. PICK c : c = Head(calls) /\ c \in Calls /\ WellFormed(c)
    BY <1>0, <2>0, HeadTyped
  <2>2. CASE ServeLists(c)
    <3>1. PICK e : NextRead(c, e, "catalog")
      BY <1>4, <2>1, <2>2, ServeShape
    <3>2. Posted(e)
      BY <3>1 DEF NextRead
    <3>3. Moves(calls, calls', 1, 1, e)
      BY <3>1 DEF NextRead
    <3>4. ~UnderWay(c)
      BY <2>2 DEF ServeLists, UnderWay, Rewrites
    <3> QED
      BY <1>b, <2>0, <2>1, <3>2, <3>3, <3>4
  <2>3. CASE ServeCatalog(c)
    <3>1. PICK e : NextRead(c, e, "skills")
      BY <1>4, <2>1, <2>3, ServeShape
    <3>2. Posted(e)
      BY <3>1 DEF NextRead
    <3>3. Moves(calls, calls', 1, 1, e)
      BY <3>1 DEF NextRead
    <3>4. ~UnderWay(c)
      BY <2>3 DEF ServeCatalog, UnderWay, Rewrites
    <3> QED
      BY <1>b, <2>0, <2>1, <3>2, <3>3, <3>4
  <2>4. CASE ServeSkills(c)
    <3>1. Moves(calls, calls', 1, 0, c)
      BY <1>4, <2>1, <2>4, ServeShape
    <3>2. ~UnderWay(c)
      BY <2>4 DEF ServeSkills, UnderWay, Rewrites
    <3> QED
      BY <1>b, <2>0, <2>1, <3>1, <3>2
  <2> QED
    BY <1>4, <2>1, <2>2, <2>3, <2>4 DEF Serve
<1>5. CASE Refuse
  <2>0. calls # <<>> /\ UNCHANGED <<installed, copies, personal, torn>>
    BY <1>5 DEF Refuse, disk
  <2>1. PICK c : c = Head(calls) /\ c \in Calls /\ c.step = 1
    BY <1>0, <1>5, <2>0, HeadTyped DEF Refuse
  <2>2. OpFailed(c, Tail(calls))
    BY <1>5, <2>1 DEF Refuse
  <2>3. Moves(calls, calls', 1, 0, c)
    BY <1>0, <2>0, <2>1, <2>2, Posting DEF OpFailed
  <2> QED
    BY <1>b, <2>0, <2>1, <2>3 DEF UnderWay
<1>6. CASE Perform
  BY <1>6, FilesPerform
<1>7. CASE PerformFails
  BY <1>7, FilesFail
<1>8. CASE Add
  <2>1. PICK a \in adds :
             /\ a \in Adds
             /\ UNCHANGED <<installed, copies, personal, visits, left, torn>>
             /\ UNCHANGED calls \/ AddSaves(a)
    BY <1>8, AddShape
  <2>2. CASE UNCHANGED calls
    BY <1>a, <2>1, <2>2
  <2>3. CASE AddSaves(a)
    <3>1. a.visit \in Nat /\ TRUE \in BOOLEAN
      BY <2>1 DEF Adds
    <3>2. PICK e : e = ReloadAll(TRUE, a.visit) /\ Reload(e, TRUE, a.visit)
      BY <3>1, ReloadPosted
    <3>3. Posted(e) /\ Moves(calls, calls', 0, 1, e)
      BY <1>0, <2>3, <3>2, QueuePosts DEF AddSaves, OpDone, Reload
    <3> QED
      BY <1>a, <2>1, <3>3
  <2> QED
    BY <2>1, <2>2, <2>3
<1>9. CASE Crash
  BY <1>9, FilesCrash
<1>10. CASE UNCHANGED vars
  BY <1>10, <1>a DEF vars, disk, ghosts
<1> QED
  BY <1>1, <1>2, <1>3, <1>4, <1>5, <1>6, <1>7, <1>8, <1>9, <1>10 DEF Next

-----------------------------------------------------------------------------
(* One operation at a time.                                                *)
GuardedOnce(q) ==
    \A i, j \in DOMAIN q : q[i].guarded /\ q[j].guarded => i = j
Unguarded(q, d) == \A i \in DOMAIN q : i > d => ~q[i].guarded

LEMMA GuardedMoves ==
    ASSUME NEW q \in Seq(Calls), NEW d \in {0, 1}, NEW n \in {0, 1}, NEW e,
           NEW r, Moves(q, r, d, n, e), d = 1 => q # <<>>
    PROVE  /\ GuardedOnce(q) /\ ~(n = 1 /\ e.guarded) =>
                /\ GuardedOnce(r)
                /\ \A i \in DOMAIN r : r[i].guarded =>
                      \E k \in DOMAIN q : q[k].guarded /\ r[i] = q[k]
           /\ Unguarded(q, d) /\ ~(n = 1 /\ e.guarded) => Unguarded(r, 0)
           /\ Unguarded(q, d) =>
                /\ GuardedOnce(r)
                /\ \A i \in DOMAIN r : r[i].guarded => r[i] = e
<1>1. \A i \in DOMAIN r : \/ i + d \in DOMAIN q /\ r[i] = q[i + d]
                          \/ n = 1 /\ i = Len(r) /\ r[i] = e
  BY MoveFacts
<1>2. \A i \in DOMAIN r : i \in Nat /\ i + d > d /\ i > 0
  BY DEF Moves
<1>3. \A i, j \in DOMAIN r : i + d = j + d => i = j
  BY DEF Moves
<1>4. ASSUME GuardedOnce(q), ~(n = 1 /\ e.guarded)
      PROVE  /\ GuardedOnce(r)
             /\ \A i \in DOMAIN r : r[i].guarded =>
                   \E k \in DOMAIN q : q[k].guarded /\ r[i] = q[k]
  <2>1. \A i \in DOMAIN r : r[i].guarded => i + d \in DOMAIN q /\ r[i] = q[i + d]
    BY <1>1, <1>4
  <2>2. GuardedOnce(r)
    BY <1>3, <1>4, <2>1 DEF GuardedOnce
  <2> QED
    BY <2>1, <2>2
<1>5. ASSUME Unguarded(q, d), ~(n = 1 /\ e.guarded)
      PROVE  Unguarded(r, 0)
  BY <1>1, <1>2, <1>5 DEF Unguarded
<1>6. ASSUME Unguarded(q, d)
      PROVE  /\ GuardedOnce(r)
             /\ \A i \in DOMAIN r : r[i].guarded => r[i] = e
  <2>1. \A i \in DOMAIN r : r[i].guarded => n = 1 /\ i = Len(r) /\ r[i] = e
    BY <1>1, <1>2, <1>6 DEF Unguarded
  <2> QED
    BY <2>1 DEF GuardedOnce
<1> QED
  BY <1>4, <1>5, <1>6

LEMMA SoloFacts ==
    ASSUME QueueTypes, Solo, ~left
    PROVE  /\ markets = wanted /\ GuardedOnce(calls)
           /\ \A a \in adds : /\ view.open /\ a.visit = visits /\ view.busy
                              /\ Unguarded(calls, 0)
                              /\ adds = {a}
                              /\ a.at = "read" => a.read = markets
           /\ \A i \in DOMAIN calls : calls[i].guarded =>
                 /\ view.open /\ calls[i].visit = visits /\ view.busy
                 /\ adds = {}
           /\ calls # <<>> /\ calls[1].guarded => Unguarded(calls, 1)
           /\ ~view.open \/ ~view.busy => adds = {} /\ Unguarded(calls, 0)
<1>1. 1 \in DOMAIN calls \/ calls = <<>>
  BY DEF QueueTypes
<1>2. \A i \in DOMAIN calls : i \in Nat
  BY DEF QueueTypes
<1> QED
  BY <1>1, <1>2 DEF Solo, GuardedOnce, Unguarded, Mine

(* What makes the invariant true again.                                    *)
LEMMA SoloAgain ==
    ASSUME QueueTypes',
           ~left' =>
             /\ markets' = wanted' /\ GuardedOnce(calls')
             /\ \A a, b \in adds' : a = b
             /\ \A a \in adds' :
                   /\ view'.open /\ a.visit = visits' /\ view'.busy
                   /\ Unguarded(calls', 0)
                   /\ a.at = "read" => a.read = markets'
             /\ \A i \in DOMAIN calls' : calls'[i].guarded =>
                   /\ view'.open /\ calls'[i].visit = visits' /\ view'.busy
    PROVE  Solo'
<1>1. \A i \in DOMAIN calls' : i > 0
  BY DEF QueueTypes
<1> QED
  BY <1>1 DEF Solo, GuardedOnce, Unguarded, Mine

LEMMA SoloStep ==
    ASSUME Types, Types', Solo, [Next]_vars
    PROVE  Solo'
<1>0. /\ QueueTypes /\ QueueTypes' /\ calls \in Seq(Calls) /\ visits \in Nat
      /\ view \in Pages /\ left \in BOOLEAN
      /\ 0 \in {0, 1} /\ 1 \in {0, 1} /\ 0 # 1
  BY DEF Types, QueueTypes
<1>1. CASE Visit
  <2>1. visits + 1 \in Nat /\ FALSE \in BOOLEAN
    BY <1>0
  <2>2. PICK e : e = ReloadAll(FALSE, visits + 1) /\ Reload(e, FALSE, visits + 1)
    BY <2>1, ReloadPosted
  <2>3. Moves(calls, calls', 0, 1, e) /\ ~e.guarded
    BY <1>0, <1>1, <2>2, QueuePosts DEF Visit, Reload
  <2>4. ASSUME ~left
        PROVE  adds = {} /\ Unguarded(calls', 0) /\ GuardedOnce(calls')
               /\ \A i \in DOMAIN calls' : ~calls'[i].guarded
    <3>1. adds = {} /\ Unguarded(calls, 0)
      BY <1>0, <1>1, <2>4, SoloFacts DEF Visit
    <3>2. /\ GuardedOnce(calls') /\ Unguarded(calls', 0)
          /\ \A i \in DOMAIN calls' : calls'[i].guarded => calls'[i] = e
      BY <1>0, <2>3, <3>1, GuardedMoves
    <3> QED
      BY <2>3, <3>1, <3>2
  <2>5. UNCHANGED <<left, markets, wanted, adds>>
    BY <1>1 DEF Visit, disk
  <2>6. ~left => markets = wanted
    BY <1>0, SoloFacts
  <2> QED
    BY <1>0, <2>4, <2>5, <2>6, SoloAgain
<1>2. CASE Leave
  <2>1. UNCHANGED <<markets, wanted, adds, calls, visits>>
        /\ left' = (left \/ view.busy)
    BY <1>2 DEF Leave, disk, bounds
  <2>2. ASSUME ~left'
        PROVE  /\ markets = wanted /\ GuardedOnce(calls) /\ adds = {}
               /\ \A i \in DOMAIN calls : ~calls[i].guarded
    <3>1. ~left /\ ~view.busy
      BY <2>1, <2>2
    <3>2. \A i \in DOMAIN calls : i > 0
      BY <1>0
    <3> QED
      BY <1>0, <3>1, <3>2, SoloFacts DEF Unguarded
  <2> QED
    BY <1>0, <2>1, <2>2, SoloAgain
<1>3. CASE User
  <2>0. UNCHANGED <<markets, wanted, left, visits>> /\ view.open
    BY <1>3 DEF User, disk, ghosts
  <2>1. CASE Refresh
    <3>1. PICK e : e = ReloadAll(FALSE, visits) /\ Reload(e, FALSE, visits)
      BY <1>0, ReloadPosted
    <3>2. Moves(calls, calls', 0, 1, e) /\ ~e.guarded
      BY <1>0, <2>1, <3>1, QueuePosts DEF Refresh, Reload
    <3>3. UNCHANGED adds /\ view'.open = view.open /\ view'.busy = view.busy
      BY <1>0, <2>1 DEF Refresh, Pages
    <3>4. SUFFICES ASSUME ~left PROVE Solo'
      BY <1>0, <2>0, SoloAgain
    <3>5. /\ GuardedOnce(calls')
          /\ \A i \in DOMAIN calls' : calls'[i].guarded =>
                view.open /\ calls'[i].visit = visits /\ view.busy
      BY <1>0, <3>2, <3>4, SoloFacts, GuardedMoves
    <3>6. Unguarded(calls, 0) => Unguarded(calls', 0)
      BY <1>0, <3>2, GuardedMoves
    <3> QED
      BY <1>0, <2>0, <3>3, <3>4, <3>5, <3>6, SoloFacts, SoloAgain
  <2>2. CASE \E c : Operation(c) /\ RunGuarded(c)
    <3>1. PICK e : Operation(e) /\ RunGuarded(e)
      BY <2>2
    <3>2. Moves(calls, calls', 0, 1, e) /\ e.visit = visits
      BY <1>0, <3>1, QueuePosts DEF RunGuarded, Operation
    <3>3. /\ UNCHANGED adds /\ view'.open = view.open /\ view'.busy
          /\ ~view.busy
      BY <1>0, <3>1 DEF RunGuarded, Pages
    <3>4. SUFFICES ASSUME ~left PROVE Solo'
      BY <1>0, <2>0, SoloAgain
    <3>5. adds = {} /\ Unguarded(calls, 0) /\ markets = wanted
      BY <1>0, <3>3, <3>4, SoloFacts
    <3>6. /\ GuardedOnce(calls')
          /\ \A i \in DOMAIN calls' : calls'[i].guarded => calls'[i] = e
      BY <1>0, <3>2, <3>5, GuardedMoves
    <3> QED
      BY <1>0, <2>0, <3>2, <3>3, <3>5, <3>6, SoloAgain
  <2>3. CASE DialogAdd
    <3>1. PICK s \in Sources : adds' = adds \cup {[visit |-> visits,
              source |-> s, at |-> "sent", read |-> <<>>]}
      BY <2>3 DEF DialogAdd
    <3>2. /\ UNCHANGED calls /\ view'.open = view.open /\ view'.busy
          /\ ~view.busy
      BY <1>0, <2>3 DEF DialogAdd, Pages
    <3>3. SUFFICES ASSUME ~left PROVE Solo'
      BY <1>0, <2>0, SoloAgain
    <3>4. /\ adds = {} /\ Unguarded(calls, 0) /\ markets = wanted
          /\ GuardedOnce(calls)
      BY <1>0, <3>2, <3>3, SoloFacts
    <3>5. PICK a : a = [visit |-> visits, source |-> s, at |-> "sent",
                        read |-> <<>>]
      OBVIOUS
    <3>6. adds' = {a} /\ a.visit = visits /\ a.at # "read"
      BY <3>1, <3>4, <3>5
    <3>7. \A i \in DOMAIN calls : ~calls[i].guarded
      BY <1>0, <3>4 DEF Unguarded
    <3> QED
      BY <1>0, <2>0, <3>2, <3>4, <3>6, <3>7, SoloAgain
  <2> QED
    BY <1>3, <2>1, <2>2, <2>3, UserCases
<1>4. CASE Serve
  <2>0. calls # <<>> /\ UNCHANGED <<markets, wanted, adds, visits, left>>
    BY <1>4 DEF Serve, disk, bounds
  <2>1. PICK c : c = Head(calls) /\ c = calls[1] /\ c \in Calls /\ WellFormed(c)
                 /\ 1 \in DOMAIN calls
    BY <1>0, <2>0, HeadTyped
  <2>2. SUFFICES ASSUME ~left PROVE Solo'
    BY <1>0, <2>0, SoloAgain
(* The next read of a reload takes the place of the last one.              *)
  <2>a. ASSUME NEW e, Moves(calls, calls', 1, 1, e),
               e.guarded = c.guarded, e.visit = c.visit,
               view'.open = view.open, view'.busy = view.busy
        PROVE  Solo'
    <3>1. CASE c.guarded
      <4>1. Unguarded(calls, 1) /\ adds = {} /\ view.open /\ view.busy
            /\ c.visit = visits /\ markets = wanted
        BY <1>0, <2>0, <2>1, <2>2, <3>1, SoloFacts
      <4>2. /\ GuardedOnce(calls')
            /\ \A i \in DOMAIN calls' : calls'[i].guarded => calls'[i] = e
        BY <1>0, <2>0, <2>a, <4>1, GuardedMoves
      <4> QED
        BY <1>0, <2>0, <2>a, <4>1, <4>2, SoloAgain
    <3>2. CASE ~c.guarded
      <4>1. /\ GuardedOnce(calls')
            /\ \A i \in DOMAIN calls' : calls'[i].guarded =>
                  \E k \in DOMAIN calls : calls[k].guarded /\ calls'[i] = calls[k]
        BY <1>0, <2>0, <2>2, <2>a, <3>2, SoloFacts, GuardedMoves
      <4>2. Unguarded(calls, 0) => Unguarded(calls', 0)
        <5>1. Unguarded(calls, 0) => Unguarded(calls, 1)
          BY <1>0 DEF Unguarded
        <5> QED
          BY <1>0, <2>0, <2>a, <3>2, <5>1, GuardedMoves
      <4>3. \A i \in DOMAIN calls' : calls'[i].guarded =>
                view.open /\ calls'[i].visit = visits /\ view.busy
        BY <1>0, <2>2, <4>1, SoloFacts
      <4> QED
        BY <1>0, <2>0, <2>2, <2>a, <4>1, <4>2, <4>3, SoloFacts, SoloAgain
    <3> QED
      BY <3>1, <3>2
  <2>3. CASE ServeLists(c)
    <3>1. PICK e : NextRead(c, e, "catalog")
      BY <1>4, <2>1, <2>3, ServeShape
    <3>2. Posted(e) /\ e.guarded = c.guarded /\ e.visit = c.visit
      BY <3>1 DEF NextRead
    <3>3. Moves(calls, calls', 1, 1, e)
      BY <3>1 DEF NextRead
    <3>4. view'.open = view.open /\ view'.busy = view.busy
      BY <1>0, <2>3 DEF ServeLists, Pages
    <3> QED
      BY <2>a, <3>2, <3>3, <3>4
  <2>4. CASE ServeCatalog(c)
    <3>1. PICK e : NextRead(c, e, "skills")
      BY <1>4, <2>1, <2>4, ServeShape
    <3>2. Posted(e) /\ e.guarded = c.guarded /\ e.visit = c.visit
      BY <3>1 DEF NextRead
    <3>3. Moves(calls, calls', 1, 1, e)
      BY <3>1 DEF NextRead
    <3>4. view'.open = view.open /\ view'.busy = view.busy
      BY <1>0, <2>4 DEF ServeCatalog, Pages
    <3> QED
      BY <2>a, <3>2, <3>3, <3>4
  <2>5. CASE ServeSkills(c)
    <3>1. Moves(calls, calls', 1, 0, c)
      BY <1>4, <2>1, <2>5, ServeShape
    <3>2. view'.open = view.open
          /\ (~c.guarded => view'.busy = view.busy)
      BY <1>0, <2>5 DEF ServeSkills, Pages
    <3>3. CASE c.guarded
      <4>1. Unguarded(calls, 1) /\ adds = {} /\ markets = wanted
        BY <1>0, <2>0, <2>1, <2>2, <3>3, SoloFacts
      <4>2. GuardedOnce(calls') /\ Unguarded(calls', 0)
        BY <1>0, <2>0, <3>1, <4>1, GuardedMoves
      <4>3. \A i \in DOMAIN calls' : ~calls'[i].guarded
        BY <1>0, <4>2 DEF Unguarded, QueueTypes
      <4> QED
        BY <1>0, <2>0, <4>1, <4>2, <4>3, SoloAgain
    <3>4. CASE ~c.guarded
      <4>1. /\ GuardedOnce(calls')
            /\ \A i \in DOMAIN calls' : calls'[i].guarded =>
                  \E k \in DOMAIN calls : calls[k].guarded /\ calls'[i] = calls[k]
        BY <1>0, <2>0, <2>2, <3>1, SoloFacts, GuardedMoves
      <4>2. Unguarded(calls, 0) => Unguarded(calls', 0)
        <5>1. Unguarded(calls, 0) => Unguarded(calls, 1)
          BY <1>0 DEF Unguarded
        <5> QED
          BY <1>0, <2>0, <3>1, <5>1, GuardedMoves
      <4>3. \A i \in DOMAIN calls' : calls'[i].guarded =>
                view.open /\ calls'[i].visit = visits /\ view.busy
        BY <1>0, <2>2, <4>1, SoloFacts
      <4> QED
        BY <1>0, <2>0, <2>2, <3>2, <3>4, <4>1, <4>2, <4>3, SoloFacts, SoloAgain
    <3> QED
      BY <3>3, <3>4
  <2> QED
    BY <1>4, <2>1, <2>3, <2>4, <2>5 DEF Serve
(* A command that ends without a reload leaves nothing guarded.            *)
<1>5. CASE Refuse \/ PerformFails
  <2>0. /\ calls # <<>> /\ UNCHANGED <<adds, visits, left, wanted>>
        /\ OpFailed(Head(calls), Tail(calls)) /\ Head(calls).cmd \in Commands
    BY <1>5 DEF Refuse, PerformFails, bounds
  <2>1. PICK c : c = Head(calls) /\ c = calls[1] /\ c \in Calls /\ WellFormed(c)
    BY <1>0, <2>0, HeadTyped
  <2>2. UNCHANGED markets
    <3>1. CASE Refuse
      BY <3>1 DEF Refuse, disk
    <3>2. CASE PerformFails
      <4>1. \E op : Fail(op, c)
        BY <2>1, <3>2 DEF PerformFails
      <4> QED
        BY <2>1, <4>1, FailTyped DEF Calls, Types
    <3> QED
      BY <1>5, <3>1, <3>2
  <2>3. Moves(calls, calls', 1, 0, c)
    BY <1>0, <2>0, <2>1, Posting DEF OpFailed
  <2>4. SUFFICES ASSUME ~left PROVE Solo'
    BY <1>0, <2>0, SoloAgain
  <2>5. c.guarded
    BY <2>0, <2>1 DEF WellFormed
  <2>6. Unguarded(calls, 1) /\ adds = {} /\ markets = wanted
    BY <1>0, <2>0, <2>1, <2>4, <2>5, SoloFacts, HeadTyped
  <2>7. GuardedOnce(calls') /\ Unguarded(calls', 0)
    BY <1>0, <2>0, <2>3, <2>6, GuardedMoves
  <2>8. \A i \in DOMAIN calls' : ~calls'[i].guarded
    BY <1>0, <2>7 DEF Unguarded, QueueTypes
  <2> QED
    BY <1>0, <2>0, <2>2, <2>6, <2>7, <2>8, SoloAgain
<1>6. CASE Perform
  <2>0. UNCHANGED <<adds, visits, left>>
    BY <1>6 DEF Perform, bounds
  <2>1. PICK c, op :
             /\ calls # <<>> /\ c = calls[1] /\ c \in Calls /\ WellFormed(c)
             /\ c.cmd \in Commands
             /\ op = Program(c.cmd)[c.step] /\ Do(op, c)
             /\ wanted' = IF op = "drop" THEN Without(wanted, c.arg) ELSE wanted
             /\ \/ /\ \E e : Reload(e, TRUE, c.visit)
                             /\ Moves(calls, calls', 1, 1, e)
                   /\ view' = IF Mine(c) THEN [view EXCEPT !.loading = TRUE]
                              ELSE view
                \/ /\ \E next : Advanced(c, next)
                   /\ UNCHANGED view
    BY <1>6, PerformShape
  <2>2. SUFFICES ASSUME ~left PROVE Solo'
    BY <1>0, <2>0, SoloAgain
  <2>3. c.guarded
    BY <2>1 DEF WellFormed
  <2>4. /\ Unguarded(calls, 1) /\ adds = {} /\ markets = wanted
        /\ view.open /\ view.busy /\ c.visit = visits
    BY <1>0, <2>1, <2>2, <2>3, SoloFacts, HeadTyped
  <2>5. markets' = wanted'
    <3>1. CASE op = "drop"
      BY <2>1, <2>4, <3>1, DoEffects DEF DoesDrop
    <3>2. CASE op # "drop"
      <4>1. op \in {"clear", "copy", "record", "sync", "forget", "flip", "clean"}
        BY <2>1, <3>2, ProgramSteps DEF Commands
      <4>2. UNCHANGED markets
        BY <2>1, <4>1, DoEffects DEF DoesClear, DoesCopy, DoesRecord, DoesSync,
           DoesForget, DoesFlip, DoesClean
      <4> QED
        BY <2>1, <2>4, <3>2, <4>2
    <3> QED
      BY <3>1, <3>2
  <2>6. view'.open = view.open /\ view'.busy = view.busy
    BY <1>0, <2>1 DEF Pages
  <2>7. CASE \E e : Reload(e, TRUE, c.visit) /\ Moves(calls, calls', 1, 1, e)
    <3>1. PICK e : Reload(e, TRUE, c.visit) /\ Moves(calls, calls', 1, 1, e)
      BY <2>7
    <3>2. /\ GuardedOnce(calls')
          /\ \A i \in DOMAIN calls' : calls'[i].guarded => calls'[i] = e
      BY <1>0, <2>1, <2>4, <3>1, GuardedMoves
    <3> QED
      BY <1>0, <2>0, <2>4, <2>5, <2>6, <3>1, <3>2, SoloAgain DEF Reload
  <2>8. CASE \E next : Advanced(c, next)
    <3>1. PICK next : Advanced(c, next)
      BY <2>8
    <3>2. \A i \in DOMAIN calls' : /\ i \in DOMAIN calls
                                   /\ calls'[i].guarded = calls[i].guarded
                                   /\ calls'[i].visit = calls[i].visit
      BY <1>0, <2>1, <3>1 DEF Advanced
    <3>3. GuardedOnce(calls) /\ \A i \in DOMAIN calls : calls[i].guarded =>
                                    calls[i].visit = visits
      BY <1>0, <2>2, SoloFacts
    <3>4. GuardedOnce(calls')
      BY <3>2, <3>3 DEF GuardedOnce
    <3> QED
      BY <1>0, <2>0, <2>4, <2>5, <2>6, <3>2, <3>3, <3>4, SoloAgain
  <2> QED
    BY <2>1, <2>7, <2>8
<1>7. CASE Add
  <2>1. PICK a \in adds :
             /\ a \in Adds
             /\ UNCHANGED <<installed, copies, personal, visits, left, torn>>
             /\ \/ AddStarts(a) /\ UNCHANGED <<view, calls, wanted, markets>>
                \/ AddCloned(a) /\ UNCHANGED <<view, calls, wanted, markets>>
                \/ AddReads(a) /\ UNCHANGED <<view, calls, wanted, markets, clone>>
                \/ AddSaves(a) /\ UNCHANGED clone
                \/ AddFails(a) /\ UNCHANGED <<wanted, markets, clone, calls>>
    BY <1>7, AddShape
  <2>2. SUFFICES ASSUME ~left PROVE Solo'
    BY <1>0, <2>1, SoloAgain
  <2>3. /\ markets = wanted /\ GuardedOnce(calls) /\ Unguarded(calls, 0)
        /\ view.open /\ a.visit = visits /\ view.busy /\ adds = {a}
        /\ a.at = "read" => a.read = markets
    BY <1>0, <2>1, <2>2, SoloFacts
  <2>4. \A i \in DOMAIN calls : ~calls[i].guarded
    BY <1>0, <2>3 DEF Unguarded
(* The add goes on: it stays the only one, with the list as it is now.     *)
  <2>5. ASSUME UNCHANGED <<view, calls, wanted, markets>>,
               NEW at \in {"sent", "cloning", "found", "read"},
               NEW read, Becomes(a, at, read), at = "read" => read = markets
        PROVE  Solo'
    <3>1. PICK b : b = [a EXCEPT !.at = at, !.read = read]
      OBVIOUS
    <3>2. adds' = {b} /\ b.visit = a.visit /\ b.at = at /\ b.read = read
      BY <2>1, <2>3, <2>5, <3>1 DEF Becomes, Adds
    <3> QED
      BY <1>0, <2>1, <2>3, <2>4, <2>5, <3>2, SoloAgain
  <2>6. CASE AddStarts(a) /\ UNCHANGED <<view, calls, wanted, markets>>
    <3>1. \E at \in {"cloning", "found"} : Becomes(a, at, <<>>)
      BY <2>6 DEF AddStarts
    <3> QED
      BY <2>5, <2>6, <3>1
  <2>7. CASE AddCloned(a) /\ UNCHANGED <<view, calls, wanted, markets>>
    BY <2>5, <2>7 DEF AddCloned
  <2>8. CASE AddReads(a) /\ UNCHANGED <<view, calls, wanted, markets, clone>>
    BY <2>5, <2>8 DEF AddReads
(* What it writes is the list as it is now, with one name more.            *)
  <2>9. CASE AddSaves(a) /\ UNCHANGED clone
    <3>1. /\ markets' = With(a.read, NameOf[a.source], a.source)
          /\ wanted' = With(wanted, NameOf[a.source], a.source)
          /\ adds' = adds \ {a} /\ a.at = "read" /\ OpDone(a, calls)
      BY <2>9 DEF AddSaves, SaveAdded, SaveMarkets
    <3>2. markets' = wanted' /\ adds' = {}
      BY <2>3, <3>1
    <3>3. a.visit \in Nat /\ TRUE \in BOOLEAN
      BY <2>1 DEF Adds
    <3>4. PICK e : e = ReloadAll(TRUE, a.visit) /\ Reload(e, TRUE, a.visit)
      BY <3>3, ReloadPosted
    <3>5. Moves(calls, calls', 0, 1, e) /\ e.visit = visits
      BY <1>0, <2>3, <3>1, <3>4, QueuePosts DEF OpDone, Reload
    <3>6. /\ GuardedOnce(calls')
          /\ \A i \in DOMAIN calls' : calls'[i].guarded => calls'[i] = e
      BY <1>0, <2>3, <3>5, GuardedMoves
    <3>7. view'.open = view.open /\ view'.busy = view.busy
      BY <1>0, <3>1 DEF OpDone, Pages
    <3> QED
      BY <1>0, <2>1, <2>3, <3>2, <3>5, <3>6, <3>7, SoloAgain
  <2>10. CASE AddFails(a) /\ UNCHANGED <<wanted, markets, clone, calls>>
    <3>1. adds' = {}
      BY <2>3, <2>10 DEF AddFails
    <3> QED
      BY <1>0, <2>3, <2>4, <2>10, <3>1, SoloAgain
  <2> QED
    BY <2>1, <2>6, <2>7, <2>8, <2>9, <2>10
<1>8. CASE Crash
  <2>1. calls' = <<>> /\ adds' = {} /\ UNCHANGED <<markets, wanted, left>>
    BY <1>8 DEF Crash, disk
  <2>2. ~left => markets = wanted
    BY <1>0, SoloFacts
  <2>3. DOMAIN calls' = {}
    BY <2>1
  <2> QED
    BY <1>0, <2>1, <2>2, <2>3, SoloAgain DEF GuardedOnce
<1>9. CASE UNCHANGED vars
  <2>1. UNCHANGED <<left, markets, wanted, adds, calls, view, visits>>
    BY <1>9 DEF vars, disk, bounds, ghosts
  <2> QED
    BY <2>1 DEF Solo, Mine
<1> QED
  BY <1>1, <1>2, <1>3, <1>4, <1>5, <1>6, <1>7, <1>8, <1>9 DEF Next

-----------------------------------------------------------------------------
(* What the page waits for and what it shows.                              *)
LEMMA HasMoves ==
    ASSUME NEW q \in Seq(Calls), NEW d \in {0, 1}, NEW n \in {0, 1}, NEW e,
           NEW r, Moves(q, r, d, n, e), d = 1 => q # <<>>, NEW v
    PROVE  /\ \A what : Has(r, v, what) =>
                  Has(q, v, what) \/ (n = 1 /\ e.cmd \in what /\ e.visit = v)
           /\ \A what : n = 1 /\ e.cmd \in what /\ e.visit = v => Has(r, v, what)
           /\ \A what : Has(q, v, what)
                        /\ ~(d = 1 /\ q[1].cmd \in what /\ q[1].visit = v)
                  => Has(r, v, what)
           /\ Awaits(q, v) /\ ~(d = 1 /\ q[1].guarded /\ q[1].visit = v)
                  => Awaits(r, v)
           /\ n = 1 /\ e.guarded /\ e.visit = v => Awaits(r, v)
<1>1. /\ \A i \in DOMAIN r : \/ i + d \in DOMAIN q /\ r[i] = q[i + d]
                             \/ n = 1 /\ i = Len(r) /\ r[i] = e
      /\ \A i \in DOMAIN q : i > d => i - d \in DOMAIN r /\ r[i - d] = q[i]
      /\ n = 1 => Len(r) \in DOMAIN r /\ r[Len(r)] = e
  BY MoveFacts
<1>2. \A i \in DOMAIN q : i > d \/ (d = 1 /\ i = 1)
  <2>1. \A i \in DOMAIN q : i \in Nat /\ i >= 1
    OBVIOUS
  <2> QED
    BY <2>1
<1>3. ASSUME NEW what, Has(r, v, what)
      PROVE  Has(q, v, what) \/ (n = 1 /\ e.cmd \in what /\ e.visit = v)
  BY <1>1, <1>3 DEF Has
<1>4. ASSUME NEW what, n = 1, e.cmd \in what, e.visit = v
      PROVE  Has(r, v, what)
  BY <1>1, <1>4 DEF Has
<1>5. ASSUME NEW what, Has(q, v, what),
             ~(d = 1 /\ q[1].cmd \in what /\ q[1].visit = v)
      PROVE  Has(r, v, what)
  BY <1>1, <1>2, <1>5 DEF Has
<1>6. ASSUME Awaits(q, v), ~(d = 1 /\ q[1].guarded /\ q[1].visit = v)
      PROVE  Awaits(r, v)
  BY <1>1, <1>2, <1>6 DEF Awaits
<1>7. ASSUME n = 1, e.guarded, e.visit = v
      PROVE  Awaits(r, v)
  BY <1>1, <1>7 DEF Awaits
<1> QED
  BY <1>3, <1>4, <1>5, <1>6, <1>7

(* The last catalog call of the page, in the queue as it has moved.        *)
LEMMA CatalogKept ==
    ASSUME NEW q \in Seq(Calls), NEW d \in {0, 1}, NEW n \in {0, 1}, NEW e,
           NEW r, Moves(q, r, d, n, e), d = 1 => q # <<>>, NEW v,
           n = 0 \/ e.cmd # "catalog" \/ e.visit # v
    PROVE  \A i \in DOMAIN r : LastCatalog(r, v, i) =>
               \E k \in DOMAIN q : LastCatalog(q, v, k) /\ r[i] = q[k]
<1>1. /\ \A i \in DOMAIN r : \/ i + d \in DOMAIN q /\ r[i] = q[i + d]
                             \/ n = 1 /\ i = Len(r) /\ r[i] = e
      /\ \A i \in DOMAIN q : i > d => i - d \in DOMAIN r /\ r[i - d] = q[i]
  BY MoveFacts
<1>2. SUFFICES ASSUME NEW i \in DOMAIN r, LastCatalog(r, v, i)
               PROVE  \E k \in DOMAIN q : LastCatalog(q, v, k) /\ r[i] = q[k]
  OBVIOUS
<1>3. i + d \in DOMAIN q /\ r[i] = q[i + d]
  BY <1>1, <1>2 DEF LastCatalog
<1>4. ASSUME NEW j \in DOMAIN q, j > i + d
      PROVE  ~(q[j].cmd = "catalog" /\ q[j].visit = v)
  <2>1. i \in Nat /\ j \in Nat /\ j > d /\ j - d > i
    BY <1>4 DEF Moves
  <2>2. j - d \in DOMAIN r /\ r[j - d] = q[j]
    BY <1>1, <2>1
  <2> QED
    BY <1>2, <2>1, <2>2 DEF LastCatalog
<1> QED
  BY <1>2, <1>3, <1>4 DEF LastCatalog

LEMMA CatalogMoves ==
    ASSUME NEW q \in Seq(Calls), NEW d \in {0, 1}, NEW n \in {0, 1}, NEW e,
           NEW r, Moves(q, r, d, n, e), d = 1 => q # <<>>, NEW v
    PROVE  /\ n = 1 /\ e.cmd = "catalog" /\ e.visit = v =>
                \A i \in DOMAIN r : LastCatalog(r, v, i) => r[i] = e
           /\ d = 1 /\ q[1].cmd = "catalog" /\ q[1].visit = v
              /\ ~Has(r, v, {"catalog"}) => LastCatalog(q, v, 1)
<1>1. /\ \A i \in DOMAIN q : i > d => i - d \in DOMAIN r /\ r[i - d] = q[i]
      /\ n = 1 => Len(r) \in DOMAIN r /\ r[Len(r)] = e
  BY MoveFacts
<1>2. r \in Seq(Calls)
  BY DEF Moves
<1>3. ASSUME n = 1, e.cmd = "catalog", e.visit = v,
             NEW i \in DOMAIN r, LastCatalog(r, v, i)
      PROVE  r[i] = e
  <2>1. Len(r) \in DOMAIN r /\ r[Len(r)] = e /\ (i = Len(r) \/ i < Len(r))
    BY <1>1, <1>2, <1>3
  <2> QED
    BY <1>3, <2>1 DEF LastCatalog
<1>4. ASSUME d = 1, q[1].cmd = "catalog", q[1].visit = v,
             ~Has(r, v, {"catalog"})
      PROVE  LastCatalog(q, v, 1)
  BY <1>1, <1>4 DEF Has, LastCatalog
<1> QED
  BY <1>3, <1>4

LEMMA FollowedStep ==
    ASSUME Types, Types', Followed, [Next]_vars
    PROVE  Followed'
<1>0. /\ QueueTypes /\ QueueTypes' /\ calls \in Seq(Calls) /\ visits \in Nat
      /\ view \in Pages /\ 0 \in {0, 1} /\ 1 \in {0, 1} /\ 0 # 1
  BY DEF Types, QueueTypes
<1>1. CASE Visit
  <2>1. visits + 1 \in Nat /\ FALSE \in BOOLEAN
    BY <1>0
  <2>2. PICK e : e = ReloadAll(FALSE, visits + 1) /\ Reload(e, FALSE, visits + 1)
    BY <2>1, ReloadPosted
  <2>3. Moves(calls, calls', 0, 1, e) /\ e.cmd \in Reads /\ e.visit = visits'
    BY <1>0, <1>1, <2>2, QueuePosts DEF Visit, Reload, Reads
  <2>4. Has(calls', visits', Reads)
    BY <1>0, <2>3, HasMoves
  <2> QED
    BY <1>1, <2>4 DEF Followed, Visit, Fresh
<1>2. CASE Leave \/ Crash
  BY <1>2 DEF Leave, Crash, Closed, Fresh, Followed
<1>3. CASE User
  <2>0. UNCHANGED visits /\ view.open
    BY <1>3 DEF User
  <2>1. CASE Refresh
    <3>1. PICK e : e = ReloadAll(FALSE, visits) /\ Reload(e, FALSE, visits)
      BY <1>0, ReloadPosted
    <3>2. Moves(calls, calls', 0, 1, e) /\ e.cmd \in Reads /\ e.visit = visits
      BY <1>0, <2>1, <3>1, QueuePosts DEF Refresh, Reload, Reads
    <3>3. Has(calls', visits, Reads) /\ (Awaits(calls, visits) => Awaits(calls', visits))
      BY <1>0, <3>2, HasMoves
    <3>4. UNCHANGED adds /\ view'.busy = view.busy
      BY <1>0, <2>1 DEF Refresh, Pages
    <3> QED
      BY <2>0, <3>3, <3>4 DEF Followed
  <2>2. CASE \E c : Operation(c) /\ RunGuarded(c)
    <3>1. PICK e : Operation(e) /\ RunGuarded(e)
      BY <2>2
    <3>2. Moves(calls, calls', 0, 1, e) /\ e.visit = visits /\ e.guarded
      BY <1>0, <3>1, QueuePosts DEF RunGuarded, Operation
    <3>3. /\ Has(calls, visits, Reads) => Has(calls', visits, Reads)
          /\ Awaits(calls', visits)
      BY <1>0, <3>2, HasMoves
    <3>4. view'.loading = view.loading
      BY <1>0, <3>1 DEF RunGuarded, Pages
    <3> QED
      BY <2>0, <3>3, <3>4 DEF Followed
  <2>3. CASE DialogAdd
    <3>1. PICK s \in Sources : adds' = adds \cup {[visit |-> visits,
              source |-> s, at |-> "sent", read |-> <<>>]}
      BY <2>3 DEF DialogAdd
    <3>2. \E a \in adds' : a.visit = visits
      <4>1. PICK a : a = [visit |-> visits, source |-> s, at |-> "sent",
                          read |-> <<>>]
        OBVIOUS
      <4> QED
        BY <3>1, <4>1
    <3>3. UNCHANGED calls /\ view'.loading = view.loading
      BY <1>0, <2>3 DEF DialogAdd, Pages
    <3> QED
      BY <2>0, <3>2, <3>3 DEF Followed
  <2> QED
    BY <1>3, <2>1, <2>2, <2>3, UserCases
<1>4. CASE Serve
  <2>0. calls # <<>> /\ UNCHANGED <<adds, visits>>
    BY <1>4 DEF Serve, bounds
  <2>1. PICK c : c = Head(calls) /\ c = calls[1] /\ c \in Calls /\ WellFormed(c)
    BY <1>0, <2>0, HeadTyped
(* The next read of a reload is waited for in place of the last one.       *)
  <2>a. ASSUME NEW e, Moves(calls, calls', 1, 1, e), e.cmd \in Reads,
               e.guarded = c.guarded, e.visit = c.visit,
               view'.open = view.open, view'.busy = view.busy,
               view'.loading = view.loading
        PROVE  Followed'
    <3>1. /\ Has(calls, visits, Reads) => Has(calls', visits, Reads)
          /\ Awaits(calls, visits) => Awaits(calls', visits)
      BY <1>0, <2>0, <2>1, <2>a, HasMoves
    <3> QED
      BY <2>0, <2>a, <3>1 DEF Followed
  <2>2. CASE ServeLists(c)
    <3>1. PICK e : NextRead(c, e, "catalog")
      BY <1>4, <2>1, <2>2, ServeShape
    <3>2. Posted(e) /\ e.guarded = c.guarded /\ e.visit = c.visit /\ e.cmd \in Reads
      BY <3>1 DEF NextRead, Reads
    <3>3. Moves(calls, calls', 1, 1, e)
      BY <3>1 DEF NextRead
    <3>4. view'.open = view.open /\ view'.busy = view.busy
          /\ view'.loading = view.loading
      BY <1>0, <2>2, SMTT(20) DEF ServeLists, Pages
    <3> QED
      BY <2>a, <3>2, <3>3, <3>4, Zenon
  <2>3. CASE ServeCatalog(c)
    <3>1. PICK e : NextRead(c, e, "skills")
      BY <1>4, <2>1, <2>3, ServeShape
    <3>2. Posted(e) /\ e.guarded = c.guarded /\ e.visit = c.visit /\ e.cmd \in Reads
      BY <3>1 DEF NextRead, Reads
    <3>3. Moves(calls, calls', 1, 1, e)
      BY <3>1 DEF NextRead
    <3>4. view'.open = view.open /\ view'.busy = view.busy
          /\ view'.loading = view.loading
      BY <1>0, <2>3, SMTT(20) DEF ServeCatalog, Pages
    <3> QED
      BY <2>a, <3>2, <3>3, <3>4, Zenon
  <2>4. CASE ServeSkills(c)
    <3>1. Moves(calls, calls', 1, 0, c)
      BY <1>4, <2>1, <2>4, ServeShape
    <3>2. CASE Mine(c)
      <4>1. view'.loading = FALSE /\ (view'.busy => view.busy /\ ~c.guarded)
        BY <1>0, <2>4, <3>2 DEF ServeSkills, Pages
      <4>2. ~c.guarded /\ Awaits(calls, visits) => Awaits(calls', visits)
        BY <1>0, <2>0, <2>1, <3>1, HasMoves
      <4> QED
        BY <2>0, <3>2, <4>1, <4>2 DEF Followed, Mine
    <3>3. CASE ~Mine(c)
      <4>1. UNCHANGED view
        BY <2>4, <3>3 DEF ServeSkills
      <4>2. ASSUME view.open
            PROVE  /\ Has(calls, visits, Reads) => Has(calls', visits, Reads)
                   /\ Awaits(calls, visits) => Awaits(calls', visits)
        BY <1>0, <2>0, <2>1, <3>1, <3>3, <4>2, HasMoves DEF Mine
      <4> QED
        BY <2>0, <4>1, <4>2 DEF Followed
    <3> QED
      BY <3>2, <3>3
  <2> QED
    BY <1>4, <2>1, <2>2, <2>3, <2>4 DEF Serve
<1>5. CASE Refuse \/ PerformFails
  <2>0. /\ calls # <<>> /\ UNCHANGED <<adds, visits>>
        /\ OpFailed(Head(calls), Tail(calls)) /\ Head(calls).cmd \in Commands
    BY <1>5 DEF Refuse, PerformFails, bounds
  <2>1. PICK c : c = Head(calls) /\ c = calls[1] /\ c \in Calls
    BY <1>0, <2>0, HeadTyped
  <2>2. Moves(calls, calls', 1, 0, c)
    BY <1>0, <2>0, <2>1, Posting DEF OpFailed
  <2>3. Has(calls, visits, Reads) => Has(calls', visits, Reads)
    <3>1. c.cmd \notin Reads
      BY <2>0, <2>1 DEF Commands, Reads
    <3> QED
      BY <1>0, <2>0, <2>1, <2>2, <3>1, HasMoves
  <2>4. CASE Mine(c)
    <3>1. view'.busy = FALSE /\ view'.loading = view.loading
      BY <1>0, <2>0, <2>1, <2>4 DEF OpFailed, Pages
    <3> QED
      BY <2>0, <2>3, <2>4, <3>1 DEF Followed, Mine
  <2>5. CASE ~Mine(c)
    <3>1. UNCHANGED view
      BY <2>0, <2>1, <2>5 DEF OpFailed
    <3>2. view.open /\ Awaits(calls, visits) => Awaits(calls', visits)
      BY <1>0, <2>0, <2>1, <2>2, <2>5, HasMoves DEF Mine
    <3> QED
      BY <2>0, <2>3, <3>1, <3>2 DEF Followed
  <2> QED
    BY <2>4, <2>5
<1>6. CASE Perform
  <2>0. UNCHANGED <<adds, visits>>
    BY <1>6 DEF Perform, bounds
  <2>1. PICK c :
             /\ calls # <<>> /\ c = calls[1] /\ c \in Calls /\ WellFormed(c)
             /\ c.cmd \in Commands
             /\ \/ /\ \E e : Reload(e, TRUE, c.visit)
                             /\ Moves(calls, calls', 1, 1, e)
                   /\ view' = IF Mine(c) THEN [view EXCEPT !.loading = TRUE]
                              ELSE view
                \/ /\ \E next : Advanced(c, next)
                   /\ UNCHANGED view
    BY <1>6, PerformShape
  <2>2. CASE /\ \E e : Reload(e, TRUE, c.visit) /\ Moves(calls, calls', 1, 1, e)
             /\ view' = IF Mine(c) THEN [view EXCEPT !.loading = TRUE] ELSE view
    <3>1. PICK e : Reload(e, TRUE, c.visit) /\ Moves(calls, calls', 1, 1, e)
      BY <2>2
    <3>2. e.guarded /\ e.cmd \in Reads /\ e.visit = c.visit
      BY <3>1 DEF Reload, Reads
    <3>3. c.cmd \notin Reads
      BY <2>1 DEF Commands, Reads
    <3>4. /\ Has(calls, visits, Reads) => Has(calls', visits, Reads)
          /\ c.visit = visits => /\ Has(calls', visits, Reads)
                                 /\ Awaits(calls', visits)
          /\ Awaits(calls, visits) => Awaits(calls', visits)
      <4>1. Has(calls, visits, Reads) => Has(calls', visits, Reads)
        BY <1>0, <2>1, <3>1, <3>3, HasMoves
      <4>2. ASSUME c.visit = visits
            PROVE  Has(calls', visits, Reads) /\ Awaits(calls', visits)
        BY <1>0, <2>1, <3>1, <3>2, <4>2, HasMoves
      <4>3. c.visit # visits /\ Awaits(calls, visits) => Awaits(calls', visits)
        BY <1>0, <2>1, <3>1, HasMoves
      <4> QED
        BY <4>1, <4>2, <4>3
    <3>5. /\ view'.open = view.open /\ view'.busy = view.busy
          /\ ~Mine(c) => view'.loading = view.loading
      BY <1>0, <2>2 DEF Pages
    <3> QED
      BY <2>0, <3>4, <3>5 DEF Followed, Mine
  <2>3. CASE (\E next : Advanced(c, next)) /\ UNCHANGED view
    <3>1. PICK next : Advanced(c, next)
      BY <2>3
    <3>2. \A i \in DOMAIN calls : /\ i \in DOMAIN calls'
                                  /\ calls'[i].guarded = calls[i].guarded
                                  /\ calls'[i].visit = calls[i].visit
                                  /\ calls'[i].cmd = calls[i].cmd
      BY <1>0, <2>1, <3>1 DEF Advanced
    <3>3. /\ Has(calls, visits, Reads) => Has(calls', visits, Reads)
          /\ Awaits(calls, visits) => Awaits(calls', visits)
      BY <3>2 DEF Has, Awaits
    <3> QED
      BY <2>0, <2>3, <3>3 DEF Followed
  <2> QED
    BY <2>1, <2>2, <2>3
<1>7. CASE Add
  <2>1. PICK a \in adds :
             /\ a \in Adds
             /\ UNCHANGED <<installed, copies, personal, visits, left, torn>>
             /\ \/ AddStarts(a) /\ UNCHANGED <<view, calls, wanted, markets>>
                \/ AddCloned(a) /\ UNCHANGED <<view, calls, wanted, markets>>
                \/ AddReads(a) /\ UNCHANGED <<view, calls, wanted, markets, clone>>
                \/ AddSaves(a) /\ UNCHANGED clone
                \/ AddFails(a) /\ UNCHANGED <<wanted, markets, clone, calls>>
    BY <1>7, AddShape
  <2>2. ASSUME UNCHANGED <<view, calls>>,
               NEW at \in {"sent", "cloning", "found", "read"},
               NEW read, Becomes(a, at, read)
        PROVE  Followed'
    <3>1. (\E b \in adds : b.visit = visits) => \E b \in adds' : b.visit = visits
      <4>1. PICK b : b = [a EXCEPT !.at = at, !.read = read]
        OBVIOUS
      <4>2. b.visit = a.visit
        BY <2>1, <4>1 DEF Adds
      <4> QED
        BY <2>2, <4>1, <4>2 DEF Becomes
    <3> QED
      BY <2>1, <2>2, <3>1 DEF Followed
  <2>3. CASE AddStarts(a) /\ UNCHANGED <<view, calls, wanted, markets>>
    <3>1. \E at \in {"cloning", "found"} : Becomes(a, at, <<>>)
      BY <2>3 DEF AddStarts
    <3> QED
      BY <2>2, <2>3, <3>1
  <2>4. CASE AddCloned(a) /\ UNCHANGED <<view, calls, wanted, markets>>
    BY <2>2, <2>4 DEF AddCloned
  <2>5. CASE AddReads(a) /\ UNCHANGED <<view, calls, wanted, markets, clone>>
    BY <2>2, <2>5 DEF AddReads
  <2>6. CASE AddSaves(a) /\ UNCHANGED clone
    <3>1. adds' = adds \ {a} /\ OpDone(a, calls)
      BY <2>6 DEF AddSaves
    <3>2. a.visit \in Nat /\ TRUE \in BOOLEAN
      BY <2>1 DEF Adds
    <3>3. PICK e : e = ReloadAll(TRUE, a.visit) /\ Reload(e, TRUE, a.visit)
      BY <3>2, ReloadPosted
    <3>4. /\ Moves(calls, calls', 0, 1, e) /\ e.visit = a.visit
          /\ e.guarded /\ e.cmd \in Reads
      BY <1>0, <3>1, <3>3, QueuePosts DEF OpDone, Reload, Reads
    <3>5. /\ Has(calls, visits, Reads) => Has(calls', visits, Reads)
          /\ a.visit = visits => /\ Has(calls', visits, Reads)
                                 /\ Awaits(calls', visits)
          /\ Awaits(calls, visits) => Awaits(calls', visits)
      <4>1. /\ Has(calls, visits, Reads) => Has(calls', visits, Reads)
            /\ Awaits(calls, visits) => Awaits(calls', visits)
        BY <1>0, <3>4, HasMoves
      <4>2. ASSUME a.visit = visits
            PROVE  Has(calls', visits, Reads) /\ Awaits(calls', visits)
        BY <1>0, <3>4, <4>2, HasMoves
      <4> QED
        BY <4>1, <4>2
    <3>6. /\ view'.open = view.open /\ view'.busy = view.busy
          /\ ~Mine(a) => view'.loading = view.loading
      BY <1>0, <3>1 DEF OpDone, Pages
    <3> QED
      BY <2>1, <3>1, <3>5, <3>6 DEF Followed, Mine
  <2>7. CASE AddFails(a) /\ UNCHANGED <<wanted, markets, clone, calls>>
    <3>1. adds' = adds \ {a} /\ OpFailed(a, calls)
      BY <2>7 DEF AddFails
    <3>2. CASE Mine(a)
      <4>1. view'.busy = FALSE /\ view'.loading = view.loading
        BY <1>0, <3>1, <3>2 DEF OpFailed, Pages
      <4> QED
        BY <2>1, <2>7, <3>2, <4>1 DEF Followed, Mine
    <3>3. CASE ~Mine(a)
      BY <2>1, <2>7, <3>1, <3>3 DEF OpFailed, Followed, Mine
    <3> QED
      BY <3>2, <3>3
  <2> QED
    BY <2>1, <2>3, <2>4, <2>5, <2>6, <2>7
<1>8. CASE UNCHANGED vars
  BY <1>8 DEF vars, disk, bounds, ghosts, Followed
<1> QED
  BY <1>1, <1>2, <1>3, <1>4, <1>5, <1>6, <1>7, <1>8 DEF Next

LEMMA SameLook ==
    UNCHANGED <<clone, markets, installed, copies>> =>
        Listed' = Listed /\ Skills' = Skills /\ Catalogue' = Catalogue
<1> SUFFICES ASSUME UNCHANGED <<clone, markets, installed, copies>>
             PROVE  Listed' = Listed /\ Skills' = Skills /\ Catalogue' = Catalogue
  OBVIOUS
<1>1. Listed' = Listed /\ Skills' = Skills
  BY DEF Listed, Skills
<1>2. \A n : Entries(n)' = Entries(n)
  BY DEF Entries, Catalog
<1>3. Catalogue' = Catalogue
  BY <1>2 DEF Catalogue
<1> QED
  BY <1>1, <1>3

(* A reload that is asked for anew settles nothing yet.                    *)
LEMMA CurrentAsked ==
    Has(calls', visits', {"lists"}) => Current'
<1> SUFFICES ASSUME Has(calls', visits', {"lists"})
             PROVE  Current'
  OBVIOUS
<1>1. \A what : {"lists"} \subseteq what => Has(calls', visits', what)
  BY DEF Has
<1>2. /\ Has(calls', visits', {"lists", "catalog"})
      /\ Has(calls', visits', Reads)
  BY <1>1 DEF Reads
<1> QED
  BY <1>2 DEF Current

(* A step that takes from the queue what the page does not wait for.       *)
Same == /\ UNCHANGED <<clone, markets, installed, copies, visits, missed>>
        /\ view'.open = view.open
        /\ \A a \in adds : a.visit = visits => \E b \in adds' : b.visit = visits

LEMMA CurrentSame ==
    ASSUME Current, Same,
           view'.installed = view.installed, view'.markets = view.markets,
           view'.catalog = view.catalog, view'.skills = view.skills,
           \A what : Has(calls, visits, what) => Has(calls', visits, what),
           \A i \in DOMAIN calls' : LastCatalog(calls', visits, i) =>
               \E k \in DOMAIN calls : /\ LastCatalog(calls, visits, k)
                                       /\ calls'[i].arg = calls[k].arg
    PROVE  Current'
<1>1. Listed' = Listed /\ Skills' = Skills /\ Catalogue' = Catalogue
  BY SameLook DEF Same
<1>2. SUFFICES ASSUME Settled'
               PROVE  /\ ~Has(calls', visits, {"lists"}) =>
                            /\ view'.installed = Listed'
                            /\ view'.markets = DOMAIN markets
                            /\ \A i \in DOMAIN calls' :
                                  LastCatalog(calls', visits, i) =>
                                      calls'[i].arg = DOMAIN markets
                      /\ ~Has(calls', visits, {"lists", "catalog"}) =>
                            view'.catalog = Catalogue'
                      /\ ~Has(calls', visits, Reads) => view'.skills = Skills'
  BY DEF Same, Current
<1>3. Settled
  BY <1>2 DEF Settled, Same
<1>4. CASE ~Has(calls', visits, {"lists"})
  <2>1. /\ view.installed = Listed /\ view.markets = DOMAIN markets
        /\ \A i \in DOMAIN calls :
              LastCatalog(calls, visits, i) => calls[i].arg = DOMAIN markets
    BY <1>3, <1>4 DEF Current
  <2>2. ~Has(calls', visits, {"lists", "catalog"}) => view.catalog = Catalogue
    BY <1>3 DEF Current
  <2>3. ~Has(calls', visits, Reads) => view.skills = Skills
    BY <1>3 DEF Current
  <2> QED
    BY <1>1, <2>1, <2>2, <2>3
<1>5. CASE Has(calls', visits, {"lists"})
  <2>1. ~Has(calls', visits, {"lists", "catalog"}) => view.catalog = Catalogue
    BY <1>3 DEF Current
  <2>2. ~Has(calls', visits, Reads) => view.skills = Skills
    BY <1>3 DEF Current
  <2> QED
    BY <1>1, <1>5, <2>1, <2>2
<1> QED
  BY <1>4, <1>5

(* The reads of the page itself, one after the other.                      *)
LEMMA CurrentServe ==
    ASSUME Types, Types', Current, Serve
    PROVE  Current'
<1>0. /\ QueueTypes /\ QueueTypes' /\ calls \in Seq(Calls)
      /\ view \in Pages /\ 0 \in {0, 1} /\ 1 \in {0, 1} /\ 0 # 1
      /\ calls # <<>> /\ missed \in BOOLEAN
  BY DEF Types, QueueTypes, Serve
<1>1. PICK c : c = Head(calls) /\ c = calls[1] /\ c \in Calls /\ WellFormed(c)
               /\ 1 \in DOMAIN calls
  BY <1>0, HeadTyped
<1>2. UNCHANGED <<clone, markets, installed, copies, adds, visits>>
  BY DEF Serve, disk, bounds
<1>3. Listed' = Listed /\ Skills' = Skills /\ Catalogue' = Catalogue
  BY <1>2, SameLook
<1>4. CASE ServeLists(c)
  <2>1. PICK e : NextRead(c, e, "catalog") /\ e.arg = DOMAIN markets
    BY <1>1, <1>4, ServeShape
  <2>2. /\ Posted(e) /\ e.visit = c.visit /\ e.cmd = "catalog"
        /\ e.arg = DOMAIN markets
    BY <2>1 DEF NextRead
  <2>3. Moves(calls, calls', 1, 1, e)
    BY <2>1 DEF NextRead
  <2>4. CASE Mine(c)
    <3>1. view'.installed = Listed /\ view'.markets = DOMAIN markets
      BY <1>0, <1>4, <2>4 DEF ServeLists, Pages
    <3>2. e.visit = visits
      BY <2>2, <2>4 DEF Mine
    <3>3. \A i \in DOMAIN calls' : LastCatalog(calls', visits, i) => calls'[i] = e
      BY <1>0, <2>2, <2>3, <3>2, CatalogMoves
    <3>4. \A what : "catalog" \in what => Has(calls', visits, what)
      BY <1>0, <2>2, <2>3, <3>2, HasMoves
    <3>5. Has(calls', visits, {"lists", "catalog"}) /\ Has(calls', visits, Reads)
      BY <3>4 DEF Reads
    <3> QED
      BY <1>2, <1>3, <2>2, <3>1, <3>3, <3>5 DEF Current
  <2>5. CASE ~Mine(c)
    <3>1. UNCHANGED <<view, missed>>
      BY <1>0, <1>4, <2>5 DEF ServeLists
    <3>2. CASE view.open
      <4>1. c.visit # visits /\ e.visit # visits
        BY <2>2, <2>5, <3>2 DEF Mine
      <4>2. \A what : Has(calls, visits, what) => Has(calls', visits, what)
        BY <1>0, <1>1, <2>3, <4>1, HasMoves
      <4>3. \A i \in DOMAIN calls' : LastCatalog(calls', visits, i) =>
                \E k \in DOMAIN calls : LastCatalog(calls, visits, k)
                                        /\ calls'[i] = calls[k]
        BY <1>0, <2>3, <4>1, CatalogKept
      <4> QED
        BY <1>2, <3>1, <4>2, <4>3, CurrentSame DEF Same
    <3>3. CASE ~view.open
      BY <3>1, <3>3 DEF Current, Settled
    <3> QED
      BY <3>2, <3>3
  <2> QED
    BY <2>4, <2>5
<1>5. CASE ServeCatalog(c)
  <2>1. PICK e : NextRead(c, e, "skills")
    BY <1>1, <1>5, ServeShape
  <2>2. Posted(e) /\ e.visit = c.visit /\ e.cmd = "skills"
    BY <2>1 DEF NextRead
  <2>3. Moves(calls, calls', 1, 1, e)
    BY <2>1 DEF NextRead
  <2>4. \A i \in DOMAIN calls' : LastCatalog(calls', visits, i) =>
            \E k \in DOMAIN calls : LastCatalog(calls, visits, k)
                                    /\ calls'[i] = calls[k]
    BY <1>0, <2>2, <2>3, CatalogKept
  <2>5. missed' = missed /\ c.cmd = "catalog"
    BY <1>5 DEF ServeCatalog
  <2>6. CASE Mine(c)
    <3>1. /\ view'.installed = view.installed /\ view'.markets = view.markets
          /\ view'.catalog = UNION {Entries(n) : n \in c.arg}
          /\ view'.open = view.open
      BY <1>0, <1>5, <2>6 DEF ServeCatalog, Pages
    <3>2. e.visit = visits /\ c.visit = visits
      BY <2>2, <2>6 DEF Mine
    <3>3. Has(calls', visits, Reads)
      <4>1. e.cmd \in Reads /\ e.visit = visits
        BY <2>2, <3>2 DEF Reads
      <4> QED
        BY <1>0, <2>3, <4>1, HasMoves
    <3>4. \A what : "catalog" \notin what /\ Has(calls, visits, what)
                       => Has(calls', visits, what)
      BY <1>0, <1>1, <2>3, <2>5, HasMoves, SMTT(20)
    <3>5. Settled' => Settled
      <4>1. Has(calls, visits, Commands) => Has(calls', visits, Commands)
        BY <3>4 DEF Commands
      <4> QED
        BY <1>2, <2>5, <3>1, <4>1 DEF Settled
    <3>6. ASSUME Settled', ~Has(calls', visits, {"lists"})
          PROVE  /\ view.installed = Listed /\ view.markets = DOMAIN markets
                 /\ \A k \in DOMAIN calls : LastCatalog(calls, visits, k) =>
                        calls[k].arg = DOMAIN markets
      <4>1. ~Has(calls, visits, {"lists"})
        BY <3>4, <3>6
      <4> QED
        BY <3>5, <3>6, <4>1 DEF Current
    <3>7. ASSUME Settled', ~Has(calls', visits, {"lists", "catalog"})
          PROVE  view'.catalog = Catalogue
      <4>1. ~Has(calls', visits, {"lists"}) /\ ~Has(calls', visits, {"catalog"})
        BY <3>7 DEF Has
      <4>2. LastCatalog(calls, visits, 1)
        BY <1>0, <1>1, <2>3, <2>5, <3>2, <4>1, CatalogMoves
      <4>3. c.arg = DOMAIN markets
        BY <1>1, <3>6, <3>7, <4>1, <4>2
      <4> QED
        BY <3>1, <4>3 DEF Catalogue
    <3> QED
      BY <1>2, <1>3, <2>4, <3>1, <3>3, <3>6, <3>7 DEF Current
  <2>7. CASE ~Mine(c)
    <3>1. UNCHANGED <<view, missed>>
      BY <1>5, <2>7 DEF ServeCatalog
    <3>2. CASE view.open
      <4>1. c.visit # visits
        BY <2>7, <3>2 DEF Mine
      <4>2. \A what : Has(calls, visits, what) => Has(calls', visits, what)
        BY <1>0, <1>1, <2>3, <4>1, HasMoves
      <4> QED
        BY <1>2, <2>4, <3>1, <4>2, CurrentSame DEF Same
    <3>3. CASE ~view.open
      BY <3>1, <3>3 DEF Current, Settled
    <3> QED
      BY <3>2, <3>3
  <2> QED
    BY <2>6, <2>7
<1>6. CASE ServeSkills(c)
  <2>1. Moves(calls, calls', 1, 0, c)
    BY <1>1, <1>6, ServeShape
  <2>2. missed' = missed /\ c.cmd = "skills"
    BY <1>6 DEF ServeSkills
  <2>3. \A i \in DOMAIN calls' : LastCatalog(calls', visits, i) =>
            \E k \in DOMAIN calls : LastCatalog(calls, visits, k)
                                    /\ calls'[i] = calls[k]
    BY <1>0, <2>1, CatalogKept
  <2>4. CASE Mine(c)
    <3>1. /\ view'.installed = view.installed /\ view'.markets = view.markets
          /\ view'.catalog = view.catalog /\ view'.skills = Skills
          /\ view'.open = view.open
      BY <1>0, <1>6, <2>4 DEF ServeSkills, Pages
    <3>2. \A what : "skills" \notin what /\ Has(calls, visits, what)
                       => Has(calls', visits, what)
      BY <1>0, <1>1, <2>1, <2>2, HasMoves
    <3>3. /\ Has(calls, visits, Commands) => Has(calls', visits, Commands)
          /\ Has(calls, visits, {"lists"}) => Has(calls', visits, {"lists"})
          /\ Has(calls, visits, {"lists", "catalog"})
                => Has(calls', visits, {"lists", "catalog"})
      BY <3>2 DEF Commands
    <3>4. Settled' => Settled
      BY <1>2, <2>2, <3>1, <3>3 DEF Settled
    <3>5. ASSUME Settled', ~Has(calls', visits, {"lists"})
          PROVE  /\ view.installed = Listed /\ view.markets = DOMAIN markets
                 /\ \A k \in DOMAIN calls : LastCatalog(calls, visits, k) =>
                        calls[k].arg = DOMAIN markets
      BY <3>3, <3>4, <3>5 DEF Current
    <3>6. ASSUME Settled', ~Has(calls', visits, {"lists", "catalog"})
          PROVE  view.catalog = Catalogue
      BY <3>3, <3>4, <3>6 DEF Current
    <3> QED
      BY <1>2, <1>3, <2>3, <3>1, <3>5, <3>6 DEF Current
  <2>5. CASE ~Mine(c)
    <3>1. UNCHANGED <<view, missed>>
      BY <1>6, <2>5 DEF ServeSkills
    <3>2. CASE view.open
      <4>1. c.visit # visits
        BY <2>5, <3>2 DEF Mine
      <4>2. \A what : Has(calls, visits, what) => Has(calls', visits, what)
        BY <1>0, <1>1, <2>1, <4>1, HasMoves
      <4> QED
        BY <1>2, <2>3, <3>1, <4>2, CurrentSame DEF Same
    <3>3. CASE ~view.open
      BY <3>1, <3>3 DEF Current, Settled
    <3> QED
      BY <3>2, <3>3
  <2> QED
    BY <2>4, <2>5
<1> QED
  BY <1>1, <1>4, <1>5, <1>6 DEF Serve

LEMMA CurrentStep ==
    ASSUME Types, Types', Current, [Next]_vars
    PROVE  Current'
<1>0. /\ QueueTypes /\ QueueTypes' /\ calls \in Seq(Calls) /\ visits \in Nat
      /\ view \in Pages /\ missed \in BOOLEAN
      /\ 0 \in {0, 1} /\ 1 \in {0, 1} /\ 0 # 1
  BY DEF Types, QueueTypes
(* A change the page will not read of, or an operation still under way.    *)
<1>a. missed' = TRUE => Current'
  BY DEF Current, Settled
<1>b. UNCHANGED visits /\ Has(calls', visits, Commands) => Current'
  BY DEF Current, Settled
<1>c. UNCHANGED visits /\ (\E b \in adds' : b.visit = visits) => Current'
  BY DEF Current, Settled
<1>1. CASE Visit
  BY <1>1, <1>a DEF Visit
<1>2. CASE Leave \/ Crash
  BY <1>2 DEF Leave, Crash, Closed, Fresh, Current, Settled
<1>3. CASE User
  <2>0. UNCHANGED visits
    BY <1>3 DEF User
  <2>1. CASE Refresh
    <3>1. PICK e : e = ReloadAll(FALSE, visits) /\ Reload(e, FALSE, visits)
      BY <1>0, ReloadPosted
    <3>2. /\ Moves(calls, calls', 0, 1, e) /\ e.cmd \in {"lists"}
          /\ e.visit = visits
      BY <1>0, <2>1, <3>1, QueuePosts DEF Refresh, Reload
    <3>3. Has(calls', visits, {"lists"})
      BY <1>0, <3>2, HasMoves
    <3> QED
      BY <2>0, <3>3, CurrentAsked
  <2>2. CASE \E c : Operation(c) /\ RunGuarded(c)
    <3>1. PICK e : Operation(e) /\ RunGuarded(e)
      BY <2>2
    <3>2. Moves(calls, calls', 0, 1, e) /\ e.visit = visits /\ e.cmd \in Commands
      BY <1>0, <3>1, QueuePosts DEF RunGuarded, Operation
    <3>3. Has(calls', visits, Commands)
      BY <1>0, <3>2, HasMoves
    <3> QED
      BY <1>b, <2>0, <3>3
  <2>3. CASE DialogAdd
    <3>1. PICK s \in Sources : adds' = adds \cup {[visit |-> visits,
              source |-> s, at |-> "sent", read |-> <<>>]}
      BY <2>3 DEF DialogAdd
    <3>2. \E b \in adds' : b.visit = visits
      <4>1. PICK b : b = [visit |-> visits, source |-> s, at |-> "sent",
                          read |-> <<>>]
        OBVIOUS
      <4> QED
        BY <3>1, <4>1
    <3> QED
      BY <1>c, <2>0, <3>2
  <2> QED
    BY <1>3, <2>1, <2>2, <2>3, UserCases
<1>4. CASE Serve
  BY <1>4, CurrentServe
<1>5. CASE Refuse \/ PerformFails
  BY <1>5, <1>a DEF Refuse, PerformFails
(* A command of the page ends with a reload; one of an earlier visit makes *)
(* a change the page will not read of.                                     *)
<1>6. CASE Perform
  <2>0. UNCHANGED visits
    BY <1>6 DEF Perform, bounds
  <2>1. PICK c :
             /\ calls # <<>> /\ c = calls[1] /\ c \in Calls /\ WellFormed(c)
             /\ c.cmd \in Commands
             /\ missed' = (missed \/ ~Mine(c))
             /\ \/ \E e : Reload(e, TRUE, c.visit)
                          /\ Moves(calls, calls', 1, 1, e)
                \/ \E next : Advanced(c, next)
    BY <1>6, PerformShape
  <2>2. CASE ~Mine(c)
    <3>1. missed' = TRUE
      BY <2>1, <2>2
    <3> QED
      BY <1>a, <3>1
  <2>3. CASE Mine(c) /\ \E e : Reload(e, TRUE, c.visit)
                               /\ Moves(calls, calls', 1, 1, e)
    <3>1. PICK e : Reload(e, TRUE, c.visit) /\ Moves(calls, calls', 1, 1, e)
      BY <2>3
    <3>2. e.cmd \in {"lists"} /\ e.visit = visits
      BY <2>3, <3>1 DEF Reload, Mine
    <3>3. Has(calls', visits, {"lists"})
      BY <1>0, <2>1, <3>1, <3>2, HasMoves
    <3> QED
      BY <2>0, <3>3, CurrentAsked
  <2>4. CASE Mine(c) /\ \E next : Advanced(c, next)
    <3>1. PICK next : Advanced(c, next)
      BY <2>4
    <3>2. 1 \in DOMAIN calls' /\ calls'[1].cmd \in Commands
          /\ calls'[1].visit = visits
      BY <1>0, <2>1, <2>4, <3>1 DEF Advanced, Mine
    <3>3. Has(calls', visits, Commands)
      BY <3>2 DEF Has
    <3> QED
      BY <1>b, <2>0, <3>3
  <2> QED
    BY <2>1, <2>2, <2>3, <2>4
<1>7. CASE Add
  <2>1. PICK a \in adds :
             /\ a \in Adds
             /\ UNCHANGED <<installed, copies, personal, visits, left, torn>>
             /\ \/ AddStarts(a) /\ UNCHANGED <<view, calls, wanted, markets>>
                \/ AddCloned(a) /\ UNCHANGED <<view, calls, wanted, markets>>
                \/ AddReads(a) /\ UNCHANGED <<view, calls, wanted, markets, clone>>
                \/ AddSaves(a) /\ UNCHANGED clone
                \/ AddFails(a) /\ UNCHANGED <<wanted, markets, clone, calls>>
    BY <1>7, AddShape
  <2>2. ASSUME NEW at \in {"sent", "cloning", "found", "read"},
               NEW read, Becomes(a, at, read)
        PROVE  /\ Mine(a) => Current'
               /\ \A b \in adds : b.visit = visits =>
                      \E z \in adds' : z.visit = visits
    <3>1. PICK z : z = [a EXCEPT !.at = at, !.read = read]
      OBVIOUS
    <3>2. z.visit = a.visit
      BY <2>1, <3>1 DEF Adds
    <3>3. z \in adds' /\ \A b \in adds : b = a \/ b \in adds'
      BY <2>2, <3>1 DEF Becomes
    <3>4. Mine(a) => Current'
      BY <1>c, <2>1, <3>2, <3>3 DEF Mine
    <3> QED
      BY <3>2, <3>3, <3>4
  <2>3. CASE AddStarts(a) /\ UNCHANGED <<view, calls, wanted, markets>>
    <3>1. \E at \in {"cloning", "found"} : Becomes(a, at, <<>>)
      BY <2>3 DEF AddStarts
    <3>2. CASE Mine(a)
      BY <2>2, <3>1, <3>2
    <3>3. CASE ~Mine(a)
      <4>1. missed' = TRUE
        BY <2>3, <3>3 DEF AddStarts
      <4> QED
        BY <1>a, <4>1
    <3> QED
      BY <3>2, <3>3
  <2>4. CASE AddCloned(a) /\ UNCHANGED <<view, calls, wanted, markets>>
    <3>1. Becomes(a, "found", <<>>)
      BY <2>4 DEF AddCloned
    <3>2. CASE Mine(a)
      BY <2>2, <3>1, <3>2
    <3>3. CASE ~Mine(a)
      <4>1. missed' = TRUE
        BY <2>4, <3>3 DEF AddCloned
      <4> QED
        BY <1>a, <4>1
    <3> QED
      BY <3>2, <3>3
  <2>5. CASE AddReads(a) /\ UNCHANGED <<view, calls, wanted, markets, clone>>
    <3>1. Becomes(a, "read", markets) /\ UNCHANGED missed
      BY <2>5 DEF AddReads
    <3>2. \A b \in adds : b.visit = visits => \E z \in adds' : z.visit = visits
      BY <2>2, <3>1
    <3>3. Same
      BY <2>1, <2>5, <3>1, <3>2 DEF Same
    <3> QED
      BY <2>5, <3>3, CurrentSame
  <2>6. CASE AddSaves(a) /\ UNCHANGED clone
    <3>1. missed' = (missed \/ ~Mine(a)) /\ OpDone(a, calls)
      BY <2>6 DEF AddSaves
    <3>2. CASE Mine(a)
      <4>1. a.visit \in Nat /\ TRUE \in BOOLEAN /\ a.visit = visits
        BY <2>1, <3>2 DEF Adds, Mine
      <4>2. PICK e : e = ReloadAll(TRUE, a.visit) /\ Reload(e, TRUE, a.visit)
        BY <4>1, ReloadPosted
      <4>3. /\ Moves(calls, calls', 0, 1, e) /\ e.visit = visits
            /\ e.cmd \in {"lists"}
        BY <1>0, <3>1, <4>1, <4>2, QueuePosts DEF OpDone, Reload
      <4>4. Has(calls', visits, {"lists"})
        BY <1>0, <4>3, HasMoves
      <4> QED
        BY <2>1, <4>4, CurrentAsked
    <3>3. CASE ~Mine(a)
      <4>1. missed' = TRUE
        BY <3>1, <3>3
      <4> QED
        BY <1>a, <4>1
    <3> QED
      BY <3>2, <3>3
  <2>7. CASE AddFails(a) /\ UNCHANGED <<wanted, markets, clone, calls>>
    BY <1>a, <2>7 DEF AddFails
  <2> QED
    BY <2>1, <2>3, <2>4, <2>5, <2>6, <2>7
<1>8. CASE UNCHANGED vars
  <2>1. UNCHANGED <<calls, view>> /\ Same
    BY <1>8 DEF vars, disk, bounds, ghosts, Same
  <2> QED
    BY <2>1, CurrentSame
<1> QED
  BY <1>1, <1>2, <1>3, <1>4, <1>5, <1>6, <1>7, <1>8 DEF Next

-----------------------------------------------------------------------------
(* The files an earlier run may have left, and no page open.               *)
LEMMA InitInv == Init => IndInv
<1> SUFFICES ASSUME Init PROVE IndInv
  OBVIOUS
<1>0. /\ view = Closed /\ calls = <<>> /\ adds = {} /\ visits = 0
      /\ wanted = markets /\ left = FALSE /\ missed = FALSE /\ torn = {}
      /\ Closed \in Pages /\ view.open = FALSE
  BY EmptyBook DEF Init, Closed, Fresh, Pages
<1>1. PICK known \in SUBSET Kept :
          /\ markets = [n \in {NameOf[s] : s \in known} |->
                           CHOOSE s \in known : NameOf[s] = n]
          /\ clone = [d \in Dirs |-> IF \E s \in known \cap Cloned : DirOf[s] = d
                          THEN CHOOSE s \in known \cap Cloned : DirOf[s] = d
                          ELSE None]
          /\ \E on \in SUBSET {i \in Ids : \E s \in known :
                              i[1] = NameOf[s] /\ i[2] \in Offers[s]} :
                 /\ installed = [i \in on |-> TRUE]
                 /\ copies = [i \in Ids |-> IF i \in on THEN "whole" ELSE "none"]
                 /\ personal = on
  BY Zenon DEF Init, MarketInit
<1>2. PICK on \in SUBSET Ids :
          /\ installed = [i \in on |-> TRUE]
          /\ copies = [i \in Ids |-> IF i \in on THEN "whole" ELSE "none"]
          /\ personal = on
  BY <1>1
<1>3. known \subseteq Sources
  BY <1>1, MarketAssumption
<1>4. markets \in Books
  <2>1. DOMAIN markets = {NameOf[s] : s \in known}
    BY <1>1
  <2>2. DOMAIN markets \subseteq Names
    BY <1>3, <2>1 DEF Names
  <2>3. ASSUME NEW n \in DOMAIN markets PROVE markets[n] \in Sources
    <3>1. \E s \in known : NameOf[s] = n
      BY <2>1, <2>3
    <3>2. markets[n] = CHOOSE s \in known : NameOf[s] = n
      BY <1>1, <2>1, <2>3
    <3>3. (CHOOSE s \in known : NameOf[s] = n) \in known
      BY <3>1
    <3> QED
      BY <1>3, <3>2, <3>3
  <2>4. markets = [n \in DOMAIN markets |-> markets[n]]
    BY <1>1, <2>1
  <2> QED
    BY <2>2, <2>3, <2>4, BookFacts
<1>5. clone \in [Dirs -> Sources \cup {None}]
  <2>1. ASSUME NEW d \in Dirs PROVE clone[d] \in Sources \cup {None}
    <3>1. CASE \E s \in known \cap Cloned : DirOf[s] = d
      <4>1. clone[d] = CHOOSE s \in known \cap Cloned : DirOf[s] = d
        BY <1>1, <2>1, <3>1
      <4>2. (CHOOSE s \in known \cap Cloned : DirOf[s] = d) \in known
        BY <3>1
      <4> QED
        BY <1>3, <4>1, <4>2
    <3>2. CASE ~\E s \in known \cap Cloned : DirOf[s] = d
      BY <1>1, <2>1, <3>2
    <3> QED
      BY <3>1, <3>2
  <2>2. clone = [d \in Dirs |-> clone[d]]
    BY <1>1
  <2> QED
    BY <2>1, <2>2
<1>6. installed \in Records /\ DOMAIN installed = on
  <2>1. DOMAIN installed = on
    BY <1>2
  <2> QED
    BY <1>2, <2>1, RecordFacts
<1>7. Types
  <2>1. copies \in [Ids -> {"none", "part", "whole"}]
    BY <1>2
  <2>2. calls \in Seq(Calls) /\ DOMAIN calls = {}
    BY <1>0
  <2> QED
    BY <1>0, <1>4, <1>5, <1>6, <2>1, <2>2 DEF Types, DiskTypes, QueueTypes
<1>8. Files /\ PersonalFollows
  <2>1. \A id \in DOMAIN installed : copies[id] = "whole"
    BY <1>2, <1>6
  <2> QED
    BY <1>0, <1>2, <1>6, <2>1 DEF Files, FilesBehindRecords, PersonalFollows
<1>9. Solo
  <2>1. DOMAIN calls = {}
    BY <1>0
  <2> QED
    BY <1>0, <2>1 DEF Solo
<1>10. Followed /\ Current
  BY <1>0 DEF Followed, Current, Settled
<1> QED
  BY <1>7, <1>8, <1>9, <1>10 DEF IndInv

LEMMA NextInv == IndInv /\ [Next]_vars => IndInv'
<1> SUFFICES ASSUME IndInv, [Next]_vars PROVE IndInv'
  OBVIOUS
<1>1. Types /\ Files /\ PersonalFollows /\ Solo /\ Followed /\ Current
  BY DEF IndInv
<1>2. Types'
  BY <1>1, TypesStep
<1>3. Files' /\ PersonalFollows'
  BY <1>1, <1>2, FilesStep
<1>4. Solo'
  BY <1>1, <1>2, SoloStep
<1>5. Followed'
  BY <1>1, <1>2, FollowedStep
<1>6. Current'
  BY <1>1, <1>2, CurrentStep
<1> QED
  BY <1>2, <1>3, <1>4, <1>5, <1>6 DEF IndInv

LEMMA AlwaysInv == Spec => []IndInv
<1> QED
  BY InitInv, NextInv, PTL DEF Spec

-----------------------------------------------------------------------------
(* market.rs installs into a directory before it writes the record and     *)
(* takes the record out before it removes the directory: a plugin in       *)
(* installed.json has its files behind it, wherever a command fails or the *)
(* process dies, unless it was being installed a second time.              *)
THEOREM FilesAreBehindRecords == Spec => []FilesBehindRecords
<1>1. IndInv => FilesBehindRecords
  BY DEF IndInv, Files
<1> QED
  BY <1>1, AlwaysInv, PTL

(* sync_personal_catalog is the last thing an installation and a removal   *)
(* do: the personal catalogue lists what is installed, unless such         *)
(* a command is under way or was cut short.                                *)
THEOREM PersonalCatalogFollows == Spec => []PersonalFollows
<1>1. IndInv => PersonalFollows
  BY DEF IndInv
<1> QED
  BY <1>1, AlwaysInv, PTL

(* plugin_marketplace_add reads marketplaces.json and writes it with no    *)
(* lock in between; the busy flag of the page is enough to keep the record *)
(* of every other command, as long as no page is left while one is running.*)
THEOREM NoMarketIsLost == Spec => []NoLostMarket
<1>1. IndInv => NoLostMarket
  BY DEF IndInv, Solo, NoLostMarket
<1> QED
  BY <1>1, AlwaysInv, PTL

(* reloadAll's three reads follow one another and several reloads may be   *)
(* under way at once; when the last of them is done and nothing failed, the*)
(* page shows what the files hold and none of its flags is left standing.  *)
THEOREM PageIsCurrent == Spec => []ShownIsCurrent
<1>1. IndInv => ShownIsCurrent
  <2> SUFFICES ASSUME IndInv, view.open, calls = <<>>, adds = {}, ~missed
               PROVE  /\ view.installed = Listed
                      /\ view.markets = DOMAIN markets
                      /\ view.catalog = UNION {Entries(n) : n \in DOMAIN markets}
                      /\ view.skills = Skills
                      /\ ~view.busy /\ ~view.loading
    BY DEF ShownIsCurrent
  <2>1. Followed /\ Current
    BY DEF IndInv
  <2>2. DOMAIN calls = {}
    OBVIOUS
  <2>3. (\A what : ~Has(calls, visits, what)) /\ ~Awaits(calls, visits)
    BY <2>2 DEF Has, Awaits
  <2>4. Settled
    BY <2>3 DEF Settled
  <2>5. ~view.busy /\ ~view.loading
    BY <2>1, <2>3 DEF Followed
  <2> QED
    BY <2>1, <2>3, <2>4, <2>5 DEF Current, Catalogue
<1> QED
  BY <1>1, AlwaysInv, PTL
=============================================================================
