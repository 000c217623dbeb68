------------------------------ MODULE CwdProofs ------------------------------
(***************************************************************************)
(* Proofs about Cwd, for any depth of directories and any numbers of calls *)
(* and of records in the ring.                                             *)
(*                                                                         *)
(* That a context is right once its records are applied is not inductive:  *)
(* most of the time it is behind. The invariant has, for each thread       *)
(* nothing misled the collector about, a witness of how it comes right: a  *)
(* directory before and after each record in the ring, from that of the    *)
(* context to the one the thread is in now, such that every record tells   *)
(* of its step (Replays). Programs make it longer, the collector makes it  *)
(* shorter, and reading /proc replaces it. A witness of the same shape     *)
(* over the threads that had an id one after another tells whose context   *)
(* serves which record (Passes).                                           *)
(***************************************************************************)
EXTENDS Cwd, Integers, SequenceTheorems, FunctionTheorems, TLAPS

Causes ==
  {"lost", "sibling", "unread", "refused", "fd", "ahead", "renewed", "takeover", "unheard"}

-----------------------------------------------------------------------------
(* The types.                                                               *)

Thread == [alive : BOOLEAN, leader : Threads, holder : 0 .. MaxCalls + 1]

ProgramInv ==
  /\ thread \in [Threads -> Thread] /\ thread[Main] = Running(Main, 1)
  /\ thread[Other].alive => thread[Other].holder # 0
  /\ calls \in 0 .. MaxCalls /\ thread[Other].holder <= calls
  /\ cwd \in [Threads -> Levels] /\ root \in [Threads -> Levels]
  /\ \A p \in Threads : root[p] <= cwd[p]

Records ==
  [kind : {"chdir", "fchdir", "open", "chroot", "fork", "exit", "exec"},
   tid : Threads, tgid : Threads, holder : 0 .. MaxCalls + 1,
   name : {"abs", "rel", "up", "none", "here"}, level : Nat,
   success : BOOLEAN, dir : Nat, path : Nat, of : Threads]

\* What the fields of a record have to do with each other.
Sound(r) ==
  /\ r.kind = "fork" => r.tid = Main /\ r.of = Other
  /\ r.kind # "fork" => r.of = r.tid
  /\ r.kind = "chdir" => r.name \in {"abs", "rel", "up"}
  /\ r.kind = "fchdir" => r.name = "none"
  /\ r.kind = "chroot" => r.name = "here"
  /\ r.kind = "open" => r.name = "rel" /\ r.path = r.dir + 1
  /\ r.success /\ r.name = "abs" => r.dir = r.level
  /\ r.success /\ r.kind = "fchdir" => r.dir = r.level

Proper(records) ==
  /\ records \in Seq(Records)
  /\ \A i \in DOMAIN records :
       Sound(records[i]) /\ records[i].holder <= thread[records[i].of].holder

Context == [process : Identities, cwd : Nat, epoch : Nat, holder : Nat]
Tables == UNION {[D -> Nat] : D \in SUBSET Identities}
Cache == [ctx : [Threads -> Context \cup {NoContext}], epochs : Tables, epoch : Nat]
State == [cache : Cache, misled : [Threads -> SUBSET Causes]]

\* A process of unknown start has one thread.
ContextOK(c, t) ==
  c.ctx[t] # NoContext =>
    /\ c.ctx[t].process \in DOMAIN c.epochs
    /\ c.ctx[t].process[2] = 0 => c.ctx[t].process[1] = t
    /\ c.ctx[t].epoch <= c.epoch

CacheOK(c) ==
  /\ \A t \in Threads : ContextOK(c, t)
  /\ \A p \in DOMAIN c.epochs : c.epochs[p] <= c.epoch
  /\ \A p, q \in DOMAIN c.epochs : p[1] = q[1] /\ p[2] # 0 /\ q[2] # 0 => p = q

TypeInv ==
  /\ ProgramInv /\ Proper(ring) /\ Len(ring) <= RingSlots
  /\ Now \in State /\ CacheOK(cache)
  /\ readable \in BOOLEAN
  /\ verdict.said \in {"nothing", "lost", "path"} /\ verdict.causes \subseteq Causes

-----------------------------------------------------------------------------
About(r, t) == t \in {r.tid, r.of}

\* The directory of a thread that has none.
None == -1
Dirs == Nat \cup {None}

\* What r tells of the directory of its thread, which was a before.
Tells(a, r) ==
  /\ ~r.success \/ r.kind \in {"open", "fork", "exec"} => r.dir = a
  /\ r.success /\ r.kind = "chdir" /\ r.name = "rel" => r.dir = a + 1

Leads(r, t, a, b) ==
  IF About(r, t) THEN r.kind = "exit" \/ (b = r.dir /\ (a = None \/ Tells(a, r)))
  ELSE b = a

\* v[i] is the directory of t after i records.
Replays(v, records, t) == \A i \in DOMAIN records : Leads(records[i], t, v[i - 1], v[i])

DirNow(t) == IF thread[t].alive THEN Here(t) ELSE None

\* The records lead from the context of t to directory "now".
Agrees(s, records, t, now) ==
  s.misled[t] \subseteq {"unheard"} =>
    \E v \in [0 .. Len(records) -> Dirs] :
      /\ Replays(v, records, t)
      /\ v[Len(records)] = now
      /\ IsCurrent(s, t) => v[0] = s.cache.ctx[t].cwd

Serves(r, t, a, b) ==
  IF r.of = t THEN r.kind = "exit" \/ (r.holder <= a /\ b = r.holder) ELSE b = a

\* After i records, a context of t is one of holder w[i] or later.
Passes(w, records, t) == \A i \in DOMAIN records : Serves(records[i], t, w[i - 1], w[i])

\* The holder to be heard of next.
Due(t) == IF thread[t].alive THEN thread[t].holder ELSE thread[t].holder + 1

Belongs(s, records, t, due) ==
  ~Unheard(s.misled[t]) =>
    \E w \in [0 .. Len(records) -> 0 .. due] :
      /\ Passes(w, records, t)
      /\ w[Len(records)] = due
      /\ Known(s, t) => w[0] <= s.cache.ctx[t].holder

Fits(s, records) ==
  \A t \in Threads : Agrees(s, records, t, DirNow(t)) /\ Belongs(s, records, t, Due(t))

ContextsInv == Fits(Now, ring)

VerdictInv ==
  /\ verdict.said = "path" /\ verdict.path # verdict.actual => verdict.causes \ {"unheard"} # {}
  /\ verdict.own \/ Unheard(verdict.causes)

IInv == TypeInv /\ ContextsInv /\ VerdictInv

-----------------------------------------------------------------------------
(* Helpers.                                                                 *)

LEMMA Limits ==
  /\ Main # Other /\ Main \in Threads /\ Other \in Threads
  /\ Threads = {Main, Other}
  /\ Depth \in Nat /\ MaxCalls \in Nat /\ RingSlots \in Nat
  /\ Levels = 0 .. Depth /\ Named \subseteq Levels
  BY CwdAssumption DEF Threads, Levels

\* There is no context without a process.
LEMMA NoContextIsNone ==
  /\ NoContext \notin Context
  /\ \A x \in Context \cup {NoContext} : x # NoContext => x \in Context
  <1>1. NoContext.process = <<>>
    BY DEF NoContext
  <1>2. \A x \in Context : x.process \in Identities
    BY DEF Context
  <1>3. \A p \in Identities : p # <<>>
    <2>1. \A p \in Identities : p = <<p[1], p[2]>>
      BY DEF Identities
    <2>2. ASSUME NEW x, NEW y PROVE <<x, y>> # <<>>
      OBVIOUS
    <2> QED
      BY <2>1, <2>2
  <1>4. NoContext \notin Context
    <2> SUFFICES ASSUME NoContext \in Context PROVE FALSE
      OBVIOUS
    <2>1. NoContext.process \in Identities
      BY <1>2
    <2> QED
      BY <1>1, <1>3, <2>1
  <1> QED
    BY <1>4

\* What a record more makes of the way a thread has gone.
LEMMA GrowAgrees ==
  ASSUME NEW s, NEW records \in Seq(Records), NEW r \in Records, NEW t \in Threads,
         NEW now \in Dirs, NEW later \in Dirs,
         Agrees(s, records, t, now), Leads(r, t, now, later)
  PROVE  Agrees(s, Append(records, r), t, later)
  <1> DEFINE n == Len(records)
             m == Append(records, r)
  <1>0. /\ n \in Nat /\ Len(m) = n + 1 /\ m[n + 1] = r
        /\ \A i \in 1 .. n : m[i] = records[i]
        /\ DOMAIN records = 1 .. n /\ DOMAIN m = 1 .. n + 1
    BY LenProperties, AppendProperties
  <1> SUFFICES ASSUME s.misled[t] \subseteq {"unheard"}
               PROVE  \E v \in [0 .. n + 1 -> Dirs] :
                        /\ Replays(v, m, t)
                        /\ v[n + 1] = later
                        /\ IsCurrent(s, t) => v[0] = s.cache.ctx[t].cwd
    BY <1>0 DEF Agrees
  <1>1. PICK v \in [0 .. n -> Dirs] :
          /\ Replays(v, records, t)
          /\ v[n] = now
          /\ IsCurrent(s, t) => v[0] = s.cache.ctx[t].cwd
    BY DEF Agrees
  <1> DEFINE x == [i \in 0 .. n + 1 |-> IF i = n + 1 THEN later ELSE v[i]]
  <1>2. /\ x \in [0 .. n + 1 -> Dirs] /\ x[n + 1] = later /\ x[0] = v[0]
        /\ \A i \in 0 .. n : x[i] = v[i]
    BY <1>0
  <1> HIDE DEF x, n, m
  <1>3. ASSUME NEW i \in DOMAIN m
        PROVE  Leads(m[i], t, x[i - 1], x[i])
    <2>1. CASE i = n + 1
      <3>1. i - 1 = n /\ n \in 0 .. n
        BY <1>0, <2>1
      <3>2. m[i] = r /\ x[i - 1] = now /\ x[i] = later
        BY <1>0, <1>1, <1>2, <2>1, <3>1
      <3> QED
        BY <3>2
    <2>2. CASE i # n + 1
      <3>1. i \in 1 .. n /\ i - 1 \in 0 .. n /\ i \in 0 .. n
        BY <1>0, <2>2
      <3>2. m[i] = records[i] /\ x[i - 1] = v[i - 1] /\ x[i] = v[i] /\ i \in DOMAIN records
        BY <1>0, <1>2, <3>1
      <3>3. Leads(records[i], t, v[i - 1], v[i])
        BY <1>1, <3>2 DEF Replays
      <3> QED
        BY <3>2, <3>3
    <2> QED
      BY <2>1, <2>2
  <1> QED
    BY <1>1, <1>2, <1>3 DEF Replays

LEMMA GrowBelongs ==
  ASSUME NEW s, NEW records \in Seq(Records), NEW r \in Records, NEW t \in Threads,
         NEW due \in Nat, NEW later \in Nat, due <= later,
         Belongs(s, records, t, due), Serves(r, t, due, later)
  PROVE  Belongs(s, Append(records, r), t, later)
  <1> DEFINE n == Len(records)
             m == Append(records, r)
  <1>0. /\ n \in Nat /\ Len(m) = n + 1 /\ m[n + 1] = r
        /\ \A i \in 1 .. n : m[i] = records[i]
        /\ DOMAIN records = 1 .. n /\ DOMAIN m = 1 .. n + 1
    BY LenProperties, AppendProperties
  <1> SUFFICES ASSUME ~Unheard(s.misled[t])
               PROVE  \E w \in [0 .. n + 1 -> 0 .. later] :
                        /\ Passes(w, m, t)
                        /\ w[n + 1] = later
                        /\ Known(s, t) => w[0] <= s.cache.ctx[t].holder
    BY <1>0 DEF Belongs
  <1>1. PICK w \in [0 .. n -> 0 .. due] :
          /\ Passes(w, records, t)
          /\ w[n] = due
          /\ Known(s, t) => w[0] <= s.cache.ctx[t].holder
    BY DEF Belongs
  <1> DEFINE x == [i \in 0 .. n + 1 |-> IF i = n + 1 THEN later ELSE w[i]]
  <1>2. /\ x \in [0 .. n + 1 -> 0 .. later] /\ x[n + 1] = later /\ x[0] = w[0]
        /\ \A i \in 0 .. n : x[i] = w[i]
    BY <1>0
  <1> HIDE DEF x, n, m
  <1>3. ASSUME NEW i \in DOMAIN m
        PROVE  Serves(m[i], t, x[i - 1], x[i])
    <2>1. CASE i = n + 1
      <3>1. i - 1 = n /\ n \in 0 .. n
        BY <1>0, <2>1
      <3>2. m[i] = r /\ x[i - 1] = due /\ x[i] = later
        BY <1>0, <1>1, <1>2, <2>1, <3>1
      <3> QED
        BY <3>2
    <2>2. CASE i # n + 1
      <3>1. i \in 1 .. n /\ i - 1 \in 0 .. n /\ i \in 0 .. n
        BY <1>0, <2>2
      <3>2. m[i] = records[i] /\ x[i - 1] = w[i - 1] /\ x[i] = w[i] /\ i \in DOMAIN records
        BY <1>0, <1>2, <3>1
      <3>3. Serves(records[i], t, w[i - 1], w[i])
        BY <1>1, <3>2 DEF Passes
      <3> QED
        BY <3>2, <3>3
    <2> QED
      BY <2>1, <2>2
  <1> QED
    BY <1>1, <1>2, <1>3 DEF Passes

\* The way that is left after the first record, from where that record leads.
LEMMA ShrinkReplays ==
  ASSUME NEW records \in Seq(Records), records # <<>>, NEW t \in Threads,
         NEW v \in [0 .. Len(records) -> Dirs], Replays(v, records, t)
  PROVE  /\ Leads(Head(records), t, v[0], v[1])
         /\ v[0] \in Dirs /\ v[1] \in Dirs
         /\ \E x \in [0 .. Len(Tail(records)) -> Dirs] :
              /\ Replays(x, Tail(records), t)
              /\ x[0] = v[1]
              /\ x[Len(Tail(records))] = v[Len(records)]
  <1> DEFINE n == Len(records)
             m == Tail(records)
  <1>0. /\ n \in Nat /\ n >= 1 /\ Len(m) = n - 1 /\ Head(records) = records[1]
        /\ \A i \in 1 .. n - 1 : m[i] = records[i + 1]
        /\ DOMAIN records = 1 .. n /\ DOMAIN m = 1 .. n - 1
    BY LenProperties, HeadTailProperties, EmptySeq
  <1> DEFINE x == [i \in 0 .. n - 1 |-> v[i + 1]]
  <1>1. /\ x \in [0 .. n - 1 -> Dirs] /\ x[0] = v[1] /\ x[n - 1] = v[n]
        /\ \A i \in 0 .. n - 1 : x[i] = v[i + 1]
    BY <1>0
  <1>2. 1 \in DOMAIN records /\ 1 - 1 = 0 /\ 0 \in 0 .. n /\ 1 \in 0 .. n
    BY <1>0
  <1> HIDE DEF x, n, m
  <1>3. ASSUME NEW i \in DOMAIN m
        PROVE  Leads(m[i], t, x[i - 1], x[i])
    <2>1. i \in 1 .. n - 1 /\ i - 1 \in 0 .. n - 1 /\ i \in 0 .. n - 1 /\ i + 1 \in DOMAIN records
      BY <1>0
    <2>2. m[i] = records[i + 1] /\ x[i] = v[i + 1]
      BY <1>0, <1>1, <2>1
    <2>3. x[i - 1] = v[i - 1 + 1] /\ i - 1 + 1 = i /\ i + 1 - 1 = i
      BY <1>0, <1>1, <2>1
    <2>4. Leads(records[i + 1], t, v[i + 1 - 1], v[i + 1])
      BY <2>1 DEF Replays
    <2> QED
      BY <2>2, <2>3, <2>4
  <1>4. Replays(x, m, t)
    BY <1>3 DEF Replays
  <1>5. Leads(Head(records), t, v[0], v[1])
    BY <1>0, <1>2 DEF Replays
  <1>6. v[0] \in Dirs /\ v[1] \in Dirs
    BY <1>2 DEF n
  <1> QED
    BY <1>0, <1>1, <1>4, <1>5, <1>6 DEF n, m

LEMMA ShrinkPasses ==
  ASSUME NEW records \in Seq(Records), records # <<>>, NEW t \in Threads, NEW due \in Nat,
         NEW w \in [0 .. Len(records) -> 0 .. due], Passes(w, records, t)
  PROVE  /\ Serves(Head(records), t, w[0], w[1])
         /\ w[0] \in 0 .. due /\ w[1] \in 0 .. due
         /\ \E x \in [0 .. Len(Tail(records)) -> 0 .. due] :
              /\ Passes(x, Tail(records), t)
              /\ x[0] = w[1]
              /\ x[Len(Tail(records))] = w[Len(records)]
  <1> DEFINE n == Len(records)
             m == Tail(records)
  <1>0. /\ n \in Nat /\ n >= 1 /\ Len(m) = n - 1 /\ Head(records) = records[1]
        /\ \A i \in 1 .. n - 1 : m[i] = records[i + 1]
        /\ DOMAIN records = 1 .. n /\ DOMAIN m = 1 .. n - 1
    BY LenProperties, HeadTailProperties, EmptySeq
  <1> DEFINE x == [i \in 0 .. n - 1 |-> w[i + 1]]
  <1>1. /\ x \in [0 .. n - 1 -> 0 .. due] /\ x[0] = w[1] /\ x[n - 1] = w[n]
        /\ \A i \in 0 .. n - 1 : x[i] = w[i + 1]
    BY <1>0
  <1>2. 1 \in DOMAIN records /\ 1 - 1 = 0 /\ 0 \in 0 .. n /\ 1 \in 0 .. n
    BY <1>0
  <1> HIDE DEF x, n, m
  <1>3. ASSUME NEW i \in DOMAIN m
        PROVE  Serves(m[i], t, x[i - 1], x[i])
    <2>1. i \in 1 .. n - 1 /\ i - 1 \in 0 .. n - 1 /\ i \in 0 .. n - 1 /\ i + 1 \in DOMAIN records
      BY <1>0
    <2>2. m[i] = records[i + 1] /\ x[i] = w[i + 1]
      BY <1>0, <1>1, <2>1
    <2>3. x[i - 1] = w[i - 1 + 1] /\ i - 1 + 1 = i /\ i + 1 - 1 = i
      BY <1>0, <1>1, <2>1
    <2>4. Serves(records[i + 1], t, w[i + 1 - 1], w[i + 1])
      BY <2>1 DEF Passes
    <2> QED
      BY <2>2, <2>3, <2>4
  <1>4. Passes(x, m, t)
    BY <1>3 DEF Passes
  <1>5. Serves(Head(records), t, w[0], w[1])
    BY <1>0, <1>2 DEF Passes
  <1>6. w[0] \in 0 .. due /\ w[1] \in 0 .. due
    BY <1>2 DEF n
  <1> QED
    BY <1>0, <1>1, <1>4, <1>5, <1>6 DEF n, m

-----------------------------------------------------------------------------
(* The operations of the cache.                                             *)

Good(s) == s \in State /\ CacheOK(s.cache)

\* An operation on another thread may at most take the context of u away, or date it.
Spared(s, z, u) ==
  /\ z.misled[u] = s.misled[u]
  /\ Known(z, u) => Known(s, u) /\ z.cache.ctx[u] = s.cache.ctx[u]
  /\ IsCurrent(z, u) => IsCurrent(s, u)

LEMMA GoodFields ==
  ASSUME NEW s, Good(s)
  PROVE  /\ s = [cache |-> s.cache, misled |-> s.misled]
         /\ s.misled \in [Threads -> SUBSET Causes]
         /\ s.cache = [ctx |-> s.cache.ctx, epochs |-> s.cache.epochs, epoch |-> s.cache.epoch]
         /\ s.cache.ctx \in [Threads -> Context \cup {NoContext}]
         /\ s.cache.epochs \in [DOMAIN s.cache.epochs -> Nat]
         /\ DOMAIN s.cache.epochs \subseteq Identities
         /\ s.cache.epoch \in Nat
  BY DEF Good, State, Cache, Tables

LEMMA GoodMade ==
  ASSUME NEW ctx \in [Threads -> Context \cup {NoContext}], NEW epochs \in Tables,
         NEW epoch \in Nat, NEW marks \in [Threads -> SUBSET Causes],
         CacheOK([ctx |-> ctx, epochs |-> epochs, epoch |-> epoch])
  PROVE  Good([cache |-> [ctx |-> ctx, epochs |-> epochs, epoch |-> epoch], misled |-> marks])
  BY DEF Good, State, Cache

LEMMA GoodContext ==
  ASSUME NEW s, Good(s), NEW t \in Threads, Known(s, t)
  PROVE  /\ s.cache.ctx[t] \in Context
         /\ s.cache.ctx[t].process \in DOMAIN s.cache.epochs
         /\ s.cache.ctx[t].process \in Identities
         /\ s.cache.ctx[t].process[2] = 0 => s.cache.ctx[t].process[1] = t
         /\ s.cache.ctx[t].epoch <= s.cache.epoch
         /\ s.cache.ctx[t].cwd \in Nat /\ s.cache.ctx[t].epoch \in Nat
         /\ s.cache.ctx[t].holder \in Nat
  <1>1. s.cache.ctx[t] \in Context /\ ContextOK(s.cache, t)
    BY GoodFields, NoContextIsNone DEF Good, CacheOK, Known
  <1> QED
    BY <1>1 DEF Context, ContextOK, Known, Good

\* A table is changed at one process; the others keep their epochs.
LEMMA WithTable ==
  ASSUME NEW table \in Tables, NEW key \in Identities, NEW value \in Nat
  PROVE  /\ With(table, key, value) \in Tables
         /\ DOMAIN With(table, key, value) = DOMAIN table \cup {key}
         /\ With(table, key, value)[key] = value
         /\ \A k \in DOMAIN table : k # key => With(table, key, value)[k] = table[k]
  <1>1. DOMAIN table \in SUBSET Identities /\ table \in [DOMAIN table -> Nat]
    BY DEF Tables
  <1>2. With(table, key, value) \in [DOMAIN table \cup {key} -> Nat]
    BY <1>1 DEF With
  <1>3. DOMAIN table \cup {key} \in SUBSET Identities
    BY <1>1
  <1>4. With(table, key, value) \in Tables
    BY <1>2, <1>3 DEF Tables
  <1> QED
    BY <1>2, <1>4 DEF With

LEMMA ProcessEpochType ==
  ASSUME NEW s, Good(s), NEW p
  PROVE  ProcessEpoch(s, p) \in Nat /\ ProcessEpoch(s, p) <= s.cache.epoch
  <1>1. s.cache.epochs \in [DOMAIN s.cache.epochs -> Nat] /\ s.cache.epoch \in Nat
    BY GoodFields
  <1>2. \A k \in DOMAIN s.cache.epochs : s.cache.epochs[k] <= s.cache.epoch
    BY DEF Good, CacheOK
  <1> QED
    BY <1>1, <1>2 DEF ProcessEpoch

\* insert_context, by what it leaves: "ctx", "epochs" and the marks of the thread.
Inserted(s, z, t, marks) ==
  /\ Good(z)
  /\ IsCurrent(z, t)
  /\ z.cache.ctx[t].cwd = Here(t) /\ z.cache.ctx[t].holder = thread[t].holder
  /\ z.misled[t] = marks
  /\ \A u \in Threads \ {t} : Spared(s, z, u)

LEMMA HereType ==
  ASSUME ProgramInv, NEW t \in Threads
  PROVE  /\ Here(t) \in Nat /\ Dir(t) \in Levels /\ Top(t) \in Levels /\ Top(t) <= Dir(t)
         /\ Levels \subseteq Nat
         /\ thread[t].leader \in Threads /\ thread[t].holder \in 0 .. MaxCalls + 1
         /\ thread[t].alive \in BOOLEAN
         /\ thread[t].alive => thread[t].holder # 0 /\ thread[thread[t].leader].holder # 0
  <1>1. thread[t] \in Thread /\ thread[t].leader \in Threads
    BY DEF ProgramInv, Thread
  <1>2. cwd[thread[t].leader] \in Levels /\ root[thread[t].leader] \in Levels
        /\ root[thread[t].leader] <= cwd[thread[t].leader]
    BY <1>1 DEF ProgramInv
  <1>3. Levels \subseteq Nat
    BY Limits
  <1>4. Here(t) \in Nat
    <2>1. cwd[thread[t].leader] \in Nat /\ root[thread[t].leader] \in Nat
      BY <1>2, <1>3
    <2> QED
      BY <1>2, <2>1 DEF Here, View, Dir, Top
  <1>5. thread[Main].holder = 1 /\ thread[Main].leader = Main
    BY DEF ProgramInv, Running
  <1>6. thread[t].alive => thread[t].holder # 0 /\ thread[thread[t].leader].holder # 0
    BY <1>1, <1>5, Limits DEF ProgramInv
  <1> QED
    BY <1>1, <1>2, <1>3, <1>4, <1>6 DEF Dir, Top, Thread

\* A cache with another table and other contexts.
LEMMA CacheParts ==
  ASSUME NEW c \in Cache
  PROVE  c = [ctx |-> c.ctx, epochs |-> c.epochs, epoch |-> c.epoch]
  BY DEF Cache

LEMMA OtherContexts ==
  ASSUME NEW c \in Cache, NEW epochs, NEW ctx
  PROVE  [c EXCEPT !.epochs = epochs, !.ctx = ctx]
           = [ctx |-> ctx, epochs |-> epochs, epoch |-> c.epoch]
  <1>1. PICK d : d = [c EXCEPT !.epochs = epochs]
    OBVIOUS
  <1>2. d = [ctx |-> c.ctx, epochs |-> epochs, epoch |-> c.epoch]
    BY <1>1, CacheParts
  <1>3. [d EXCEPT !.ctx = ctx] = [ctx |-> ctx, epochs |-> epochs, epoch |-> c.epoch]
    BY <1>2
  <1>4. [c EXCEPT !.epochs = epochs, !.ctx = ctx] = [d EXCEPT !.ctx = ctx]
    BY <1>1
  <1> QED
    BY <1>3, <1>4

OneContext(c, epochs, t, x) == [c EXCEPT !.epochs = epochs, !.ctx[t] = x]

LEMMA OneContextFields ==
  ASSUME NEW c \in Cache, NEW epochs \in Tables, NEW t \in Threads,
         NEW x \in Context \cup {NoContext}
  PROVE  /\ OneContext(c, epochs, t, x) \in Cache
         /\ OneContext(c, epochs, t, x).epochs = epochs
         /\ OneContext(c, epochs, t, x).epoch = c.epoch
         /\ OneContext(c, epochs, t, x).ctx[t] = x
         /\ \A u \in Threads \ {t} : OneContext(c, epochs, t, x).ctx[u] = c.ctx[u]
  <1>1. PICK d : d = [c EXCEPT !.epochs = epochs]
    OBVIOUS
  <1>2. d = [ctx |-> c.ctx, epochs |-> epochs, epoch |-> c.epoch]
    BY <1>1, CacheParts
  <1>3. PICK ctx : ctx = [d.ctx EXCEPT ![t] = x]
    OBVIOUS
  <1>4. [d EXCEPT !.ctx = ctx] = [ctx |-> ctx, epochs |-> epochs, epoch |-> c.epoch]
    BY <1>2
  <1>5. [c EXCEPT !.epochs = epochs, !.ctx[t] = x] = [d EXCEPT !.ctx = ctx]
    BY <1>1, <1>3
  <1>6. PICK y : y = OneContext(c, epochs, t, x)
    OBVIOUS
  <1>7. y = [ctx |-> ctx, epochs |-> epochs, epoch |-> c.epoch]
    BY <1>4, <1>5, <1>6 DEF OneContext
  <1>8. c.ctx \in [Threads -> Context \cup {NoContext}] /\ c.epoch \in Nat
    BY DEF Cache
  <1>9. /\ ctx \in [Threads -> Context \cup {NoContext}]
        /\ ctx[t] = x /\ \A u \in Threads \ {t} : ctx[u] = c.ctx[u]
    BY <1>2, <1>3, <1>8
  <1>10. y \in Cache
    BY <1>7, <1>8, <1>9 DEF Cache
  <1> QED
    BY <1>6, <1>7, <1>9, <1>10

LEMMA OtherEpoch ==
  ASSUME NEW c \in Cache, NEW epochs, NEW epoch
  PROVE  [c EXCEPT !.epoch = epoch, !.epochs = epochs]
           = [ctx |-> c.ctx, epochs |-> epochs, epoch |-> epoch]
  <1>1. PICK d : d = [c EXCEPT !.epoch = epoch]
    OBVIOUS
  <1>2. d = [ctx |-> c.ctx, epochs |-> c.epochs, epoch |-> epoch]
    BY <1>1, CacheParts
  <1>3. [d EXCEPT !.epochs = epochs] = [ctx |-> c.ctx, epochs |-> epochs, epoch |-> epoch]
    BY <1>2
  <1>4. [c EXCEPT !.epoch = epoch, !.epochs = epochs] = [d EXCEPT !.epochs = epochs]
    BY <1>1
  <1> QED
    BY <1>3, <1>4

LEMMA InsertContextEffect ==
  ASSUME ProgramInv, NEW s, Good(s), NEW g \in Threads, NEW t \in Threads,
         thread[g].holder # 0, thread[g].holder \in 0 .. MaxCalls + 1,
         NEW pending
  PROVE  Inserted(s, InsertContext(s, g, t, pending), t,
                  {x \in {"ahead"} : Ahead(t, pending)} \cup
                  {x \in {"unheard"} : Unheard(s.misled[t]) /\ Earlier(t, pending)})
  <1> DEFINE z == InsertContext(s, g, t, pending)
             marks == {x \in {"ahead"} : Ahead(t, pending)} \cup
                      {x \in {"unheard"} : Unheard(s.misled[t]) /\ Earlier(t, pending)}
             p == <<g, thread[g].holder>>
             D == DOMAIN s.cache.epochs
             reused == {i \in D : i[1] = p[1] /\ i # p}
             kept == Restrict(s.cache.epochs, D \ reused)
             ctx == [u \in Threads |-> IF s.cache.ctx[u].process \in reused THEN NoContext
                                       ELSE s.cache.ctx[u]]
  <1>0. /\ s.misled \in [Threads -> SUBSET Causes]
        /\ s.cache = [ctx |-> s.cache.ctx, epochs |-> s.cache.epochs, epoch |-> s.cache.epoch]
        /\ s.cache.ctx \in [Threads -> Context \cup {NoContext}]
        /\ s.cache.epochs \in [D -> Nat]
        /\ D \subseteq Identities
        /\ s.cache.epoch \in Nat
    BY GoodFields
  <1>1. p \in Identities /\ p[1] = g /\ p[2] # 0 /\ p \notin reused
    BY DEF Identities
  <1>2. InsertContext(s, g, t, pending) =
          LET c == RemoveReused(s.cache, p)
              epoch == IF p \in DOMAIN c.epochs THEN c.epochs[p] ELSE c.epoch IN
          [cache |-> [c EXCEPT !.epochs = With(@, p, epoch),
                               !.ctx[t] = [process |-> p, cwd |-> Here(t), epoch |-> epoch,
                                           holder |-> thread[t].holder]],
           misled |-> [s.misled EXCEPT ![t] = marks]]
    BY DEF InsertContext
  <1>3. RemoveReused(s.cache, p) = [s.cache EXCEPT !.epochs = kept, !.ctx = ctx]
    BY DEF RemoveReused
  <1>4. /\ kept \in [D \ reused -> Nat] /\ DOMAIN kept = D \ reused
        /\ \A k \in D \ reused : kept[k] = s.cache.epochs[k]
    BY <1>0 DEF Restrict
  <1>5. ctx \in [Threads -> Context \cup {NoContext}]
        /\ \A u \in Threads : ctx[u] = IF s.cache.ctx[u].process \in reused THEN NoContext
                                       ELSE s.cache.ctx[u]
    BY <1>0
  <1> HIDE DEF kept, ctx, marks
  <1>6. s.cache \in Cache
    BY DEF Good, State
  <1>7. PICK c : c = RemoveReused(s.cache, p)
    OBVIOUS
  <1>8. c = [ctx |-> ctx, epochs |-> kept, epoch |-> s.cache.epoch]
    BY <1>3, <1>6, <1>7, OtherContexts
  <1>9. c \in Cache /\ c.ctx = ctx /\ c.epochs = kept /\ c.epoch = s.cache.epoch
    BY <1>0, <1>4, <1>5, <1>8 DEF Cache, Tables
  <1>10. PICK e : e = IF p \in DOMAIN c.epochs THEN c.epochs[p] ELSE c.epoch
    OBVIOUS
  <1>11. \A k \in D : s.cache.epochs[k] <= s.cache.epoch
    BY DEF Good, CacheOK
  <1>12. e \in Nat /\ e <= s.cache.epoch /\ (p \in D => e = s.cache.epochs[p])
    BY <1>0, <1>1, <1>4, <1>9, <1>10, <1>11
  <1> HIDE DEF reused, p, D
  <1>13. PICK table : table = With(kept, p, e)
    OBVIOUS
  <1>14. kept \in Tables
    BY <1>9 DEF Cache
  <1>15. /\ table \in Tables /\ DOMAIN table = (D \ reused) \cup {p} /\ table[p] = e
         /\ \A k \in D \ reused : k # p => table[k] = kept[k]
    <2>1. kept \in Tables /\ p \in Identities /\ e \in Nat
      BY <1>1, <1>12, <1>14
    <2>2. /\ With(kept, p, e) \in Tables
          /\ DOMAIN With(kept, p, e) = DOMAIN kept \cup {p}
          /\ With(kept, p, e)[p] = e
          /\ \A k \in DOMAIN kept : k # p => With(kept, p, e)[k] = kept[k]
      BY <2>1, WithTable
    <2>3. DOMAIN kept = D \ reused
      BY <1>4
    <2> QED
      BY <1>13, <2>2, <2>3
  <1>16. PICK new : new = [process |-> p, cwd |-> Here(t), epoch |-> e, holder |-> thread[t].holder]
    OBVIOUS
  <1>17. new \in Context
    BY <1>1, <1>12, <1>16, HereType DEF Context
  <1>18. PICK d : d = OneContext(c, table, t, new)
    OBVIOUS
  <1>19. z = [cache |-> d, misled |-> [s.misled EXCEPT ![t] = marks]]
    BY <1>2, <1>7, <1>9, <1>10, <1>13, <1>16, <1>18 DEF OneContext
  <1>20. /\ d \in Cache /\ d.epochs = table /\ d.epoch = s.cache.epoch /\ d.ctx[t] = new
         /\ \A u \in Threads \ {t} : d.ctx[u] = ctx[u]
    BY <1>9, <1>15, <1>17, <1>18, OneContextFields
  <1>21. /\ z.cache = d /\ z.misled \in [Threads -> SUBSET Causes] /\ z.misled[t] = marks
         /\ \A u \in Threads \ {t} : z.misled[u] = s.misled[u]
    <2>1. marks \in SUBSET Causes
      BY DEF marks, Causes
    <2> QED
      BY <1>0, <1>19, <2>1
  <1>22. z \in State
    BY <1>19, <1>20, <1>21 DEF State
  <1> HIDE DEF z
  <1>23. \A k \in D \ reused : table[k] = s.cache.epochs[k] \/ (k = p /\ table[k] = e)
    BY <1>4, <1>15
  <1>24. \A u \in Threads : Known(s, u) =>
           /\ s.cache.ctx[u].process \in D
           /\ s.cache.ctx[u].process[2] = 0 => s.cache.ctx[u].process[1] = u
           /\ s.cache.ctx[u].epoch <= s.cache.epoch
    BY GoodContext DEF D
  <1>25. \A u \in Threads \ {t} : d.ctx[u] # NoContext =>
           /\ d.ctx[u] = s.cache.ctx[u] /\ Known(s, u)
           /\ s.cache.ctx[u].process \in D \ reused
    BY <1>5, <1>20, <1>24 DEF Known
  <1>26. \A u \in Threads : ContextOK(d, u)
    <2> TAKE u \in Threads
    <2>1. CASE u = t
      BY <1>1, <1>12, <1>15, <1>16, <1>20, <2>1 DEF ContextOK
    <2>2. CASE u # t
      BY <1>15, <1>20, <1>24, <1>25, <2>2 DEF ContextOK
    <2> QED
      BY <2>1, <2>2
  <1>27. \A k \in DOMAIN d.epochs : d.epochs[k] <= d.epoch
    BY <1>11, <1>12, <1>15, <1>20, <1>23 DEF D
  <1>28. \A k, l \in DOMAIN d.epochs : k[1] = l[1] /\ k[2] # 0 /\ l[2] # 0 => k = l
    <2> TAKE k, l \in DOMAIN d.epochs
    <2>1. \A i, j \in D : i[1] = j[1] /\ i[2] # 0 /\ j[2] # 0 => i = j
      BY DEF Good, CacheOK, D
    <2>2. \A i \in D \ reused : i[1] = p[1] => i = p
      BY DEF reused
    <2>3. DOMAIN d.epochs = (D \ reused) \cup {p}
      BY <1>15, <1>20
    <2> QED
      BY <2>1, <2>2, <2>3
  <1>29. Good(z)
    BY <1>21, <1>22, <1>26, <1>27, <1>28 DEF Good, CacheOK
  <1>30. /\ IsCurrent(z, t)
         /\ z.cache.ctx[t].cwd = Here(t) /\ z.cache.ctx[t].holder = thread[t].holder
    <2>1. z.cache.ctx[t] = new /\ new # NoContext
      BY <1>17, <1>20, <1>21, NoContextIsNone
    <2>2. new.process = p /\ new.epoch = e /\ new.cwd = Here(t) /\ new.holder = thread[t].holder
      BY <1>16
    <2>3. p \in DOMAIN z.cache.epochs /\ z.cache.epochs[p] = e
      BY <1>15, <1>20, <1>21
    <2> QED
      BY <2>1, <2>2, <2>3 DEF IsCurrent, Known, ProcessEpoch
  <1>31. ASSUME NEW u \in Threads \ {t}
         PROVE  Spared(s, z, u)
    <2>1. Known(z, u) => Known(s, u) /\ z.cache.ctx[u] = s.cache.ctx[u]
      BY <1>21, <1>25 DEF Known
    <2>2. ASSUME IsCurrent(z, u)
          PROVE  IsCurrent(s, u)
      <3>1. /\ Known(s, u) /\ z.cache.ctx[u] = s.cache.ctx[u]
            /\ s.cache.ctx[u].process \in D \ reused
        BY <1>21, <1>25, <2>1, <2>2 DEF IsCurrent, Known
      <3>2. PICK k : k = s.cache.ctx[u].process
        OBVIOUS
      <3>3. k \in D /\ k \in DOMAIN z.cache.epochs /\ z.cache.epochs[k] = s.cache.epochs[k]
        BY <1>12, <1>15, <1>20, <1>21, <1>23, <3>1, <3>2
      <3>4. s.cache.ctx[u].epoch = z.cache.epochs[k]
        BY <2>2, <3>1, <3>2, <3>3 DEF IsCurrent, ProcessEpoch
      <3> QED
        BY <3>1, <3>2, <3>3, <3>4 DEF IsCurrent, ProcessEpoch, D
    <2> QED
      BY <1>21, <2>1, <2>2 DEF Spared
  <1> QED
    BY <1>21, <1>29, <1>30, <1>31 DEF Inserted, marks, z

\* fork_thread, where the parent is known.
Forked(s, z, parent, child, holder) ==
  /\ Good(z)
  /\ Known(z, child)
  /\ z.cache.ctx[child].cwd = s.cache.ctx[parent].cwd /\ z.cache.ctx[child].holder = holder
  /\ z.misled[child] = s.misled[child] \cup s.misled[parent] \cup
                         {x \in {"renewed"} : ~IsCurrent(s, parent)}
  /\ \A u \in Threads \ {child} : Spared(s, z, u)

LEMMA ForkThreadEffect ==
  ASSUME NEW s, Good(s), NEW parent \in Threads, NEW child \in Threads, NEW holder \in Nat,
         Known(s, parent)
  PROVE  Forked(s, ForkThread(s, parent, child, holder), parent, child, holder)
  <1>0. PICK z : z = ForkThread(s, parent, child, holder)
    OBVIOUS
  <1>1. PICK p : p = <<child, 0>>
    OBVIOUS
  <1>2. p \in Identities /\ p[1] = child /\ p[2] = 0
    BY <1>1, Limits DEF Identities
  <1>3. PICK e : e = ProcessEpoch(s, s.cache.ctx[parent].process)
    OBVIOUS
  <1>4. e \in Nat /\ e <= s.cache.epoch
    BY <1>3, ProcessEpochType
  <1>5. PICK new : new = [process |-> p, cwd |-> s.cache.ctx[parent].cwd, epoch |-> e, holder |-> holder]
    OBVIOUS
  <1>6. new \in Context
    BY <1>2, <1>4, <1>5, GoodContext DEF Context
  <1>7. PICK marks : marks = s.misled[child] \cup s.misled[parent] \cup
                               {x \in {"renewed"} : ~IsCurrent(s, parent)}
    OBVIOUS
  <1>8. PICK table : table = With(s.cache.epochs, p, e)
    OBVIOUS
  <1>9. s.cache \in Cache /\ s.cache.epochs \in Tables /\ s.misled \in [Threads -> SUBSET Causes]
    BY DEF Good, State, Cache
  <1>10. /\ table \in Tables /\ DOMAIN table = DOMAIN s.cache.epochs \cup {p} /\ table[p] = e
         /\ \A k \in DOMAIN s.cache.epochs : k # p => table[k] = s.cache.epochs[k]
    <2>1. s.cache.epochs \in Tables /\ p \in Identities /\ e \in Nat
      BY <1>2, <1>4, <1>9
    <2> QED
      BY <1>8, <2>1, WithTable
  <1>11. PICK d : d = OneContext(s.cache, table, child, new)
    OBVIOUS
  <1>12. z = [cache |-> d, misled |-> [s.misled EXCEPT ![child] = marks]]
    <2>1. ForkThread(s, parent, child, holder) =
            LET q == <<child, 0>>
                epoch == ProcessEpoch(s, s.cache.ctx[parent].process) IN
            [cache |-> OneContext(s.cache, With(s.cache.epochs, q, epoch), child,
                         [process |-> q, cwd |-> s.cache.ctx[parent].cwd, epoch |-> epoch,
                          holder |-> holder]),
             misled |-> [s.misled EXCEPT ![child] =
                           s.misled[child] \cup s.misled[parent] \cup
                           {x \in {"renewed"} : ~IsCurrent(s, parent)}]]
      BY DEF ForkThread, OneContext
    <2> QED
      BY <1>0, <1>1, <1>3, <1>5, <1>7, <1>8, <1>11, <2>1
  <1>13. /\ d \in Cache /\ d.epochs = table /\ d.epoch = s.cache.epoch /\ d.ctx[child] = new
         /\ \A u \in Threads \ {child} : d.ctx[u] = s.cache.ctx[u]
    BY <1>6, <1>9, <1>10, <1>11, OneContextFields
  <1>14. /\ z.cache = d /\ z.misled \in [Threads -> SUBSET Causes] /\ z.misled[child] = marks
         /\ \A u \in Threads \ {child} : z.misled[u] = s.misled[u]
    <2>1. marks \in SUBSET Causes
      BY <1>7, <1>9 DEF Causes
    <2> QED
      BY <1>9, <1>12, <2>1
  <1>15. z \in State
    BY <1>12, <1>13, <1>14 DEF State
  <1>16. \A u \in Threads : Known(s, u) =>
           /\ s.cache.ctx[u].process \in DOMAIN s.cache.epochs
           /\ s.cache.ctx[u].process[2] = 0 => s.cache.ctx[u].process[1] = u
           /\ s.cache.ctx[u].epoch <= s.cache.epoch
    BY GoodContext
  <1>17. \A u \in Threads : ContextOK(d, u)
    <2> TAKE u \in Threads
    <2>1. CASE u = child
      BY <1>2, <1>4, <1>5, <1>10, <1>13, <2>1 DEF ContextOK
    <2>2. CASE u # child
      BY <1>10, <1>13, <1>16, <2>2 DEF ContextOK, Known
    <2> QED
      BY <2>1, <2>2
  <1>18. \A k \in DOMAIN d.epochs : d.epochs[k] <= d.epoch
    <2>1. \A k \in DOMAIN s.cache.epochs : s.cache.epochs[k] <= s.cache.epoch
      BY DEF Good, CacheOK
    <2> QED
      BY <1>4, <1>10, <1>13, <2>1
  <1>19. \A k, l \in DOMAIN d.epochs : k[1] = l[1] /\ k[2] # 0 /\ l[2] # 0 => k = l
    <2>1. \A i, j \in DOMAIN s.cache.epochs : i[1] = j[1] /\ i[2] # 0 /\ j[2] # 0 => i = j
      BY DEF Good, CacheOK
    <2> QED
      BY <1>2, <1>10, <1>13, <2>1
  <1>20. Good(z)
    BY <1>14, <1>15, <1>17, <1>18, <1>19 DEF Good, CacheOK
  <1>21. Known(z, child) /\ z.cache.ctx[child].cwd = s.cache.ctx[parent].cwd
         /\ z.cache.ctx[child].holder = holder
    BY <1>5, <1>6, <1>13, <1>14, NoContextIsNone DEF Known
  <1>22. ASSUME NEW u \in Threads \ {child}
         PROVE  Spared(s, z, u)
    <2>1. Known(z, u) => Known(s, u) /\ z.cache.ctx[u] = s.cache.ctx[u]
      BY <1>13, <1>14 DEF Known
    <2>2. ASSUME IsCurrent(z, u)
          PROVE  IsCurrent(s, u)
      <3>1. Known(s, u) /\ z.cache.ctx[u] = s.cache.ctx[u]
        BY <2>1, <2>2 DEF IsCurrent
      <3>2. PICK k : k = s.cache.ctx[u].process
        OBVIOUS
      <3>3. k \in DOMAIN s.cache.epochs /\ k # p
        BY <1>2, <1>16, <3>1, <3>2
      <3>4. k \in DOMAIN z.cache.epochs /\ z.cache.epochs[k] = s.cache.epochs[k]
        BY <1>10, <1>13, <1>14, <3>3
      <3> QED
        BY <2>2, <3>1, <3>2, <3>3, <3>4 DEF IsCurrent, ProcessEpoch
    <2> QED
      BY <1>14, <2>1, <2>2 DEF Spared
  <1> QED
    BY <1>0, <1>7, <1>14, <1>20, <1>21, <1>22 DEF Forked

LEMMA StateParts ==
  ASSUME NEW s \in State
  PROVE  /\ s = [cache |-> s.cache, misled |-> s.misled]
         /\ s.cache \in Cache /\ s.misled \in [Threads -> SUBSET Causes]
         /\ s.cache = [ctx |-> s.cache.ctx, epochs |-> s.cache.epochs, epoch |-> s.cache.epoch]
         /\ s.cache.ctx \in [Threads -> Context \cup {NoContext}]
         /\ s.cache.epochs \in Tables /\ s.cache.epoch \in Nat
  BY DEF State, Cache

LEMMA OtherTables ==
  ASSUME NEW s \in State, NEW ctx, NEW epochs
  PROVE  [s EXCEPT !.cache.ctx = ctx, !.cache.epochs = epochs]
           = [cache |-> [ctx |-> ctx, epochs |-> epochs, epoch |-> s.cache.epoch],
              misled |-> s.misled]
  <1>0. s = [cache |-> s.cache, misled |-> s.misled] /\ s.cache \in Cache
    BY StateParts
  <1>1. PICK x : x = [s EXCEPT !.cache.ctx = ctx]
    OBVIOUS
  <1>2. PICK c : c = [s.cache EXCEPT !.ctx = ctx]
    OBVIOUS
  <1>3. c = [ctx |-> ctx, epochs |-> s.cache.epochs, epoch |-> s.cache.epoch]
    BY <1>0, <1>2, CacheParts
  <1>4. x = [cache |-> c, misled |-> s.misled]
    BY <1>0, <1>1, <1>2
  <1>5. PICK d : d = [c EXCEPT !.epochs = epochs]
    OBVIOUS
  <1>6. d = [ctx |-> ctx, epochs |-> epochs, epoch |-> s.cache.epoch]
    BY <1>3, <1>5
  <1>7. [x EXCEPT !.cache = d] = [cache |-> d, misled |-> s.misled]
    BY <1>4
  <1>8. d = [x.cache EXCEPT !.epochs = epochs]
    BY <1>4, <1>5
  <1>9. [s EXCEPT !.cache.ctx = ctx, !.cache.epochs = epochs] = [x EXCEPT !.cache = d]
    BY <1>1, <1>8
  <1> QED
    BY <1>6, <1>7, <1>9

\* exit_thread: the context goes.
Exited(s, z, t) ==
  /\ Good(z) /\ ~Known(z, t)
  /\ z.misled = s.misled
  /\ \A u \in Threads \ {t} : Spared(s, z, u)

LEMMA ExitThreadEffect ==
  ASSUME NEW s, Good(s), NEW t \in Threads
  PROVE  Exited(s, ExitThread(s, t), t)
  <1>0. PICK z : z = ExitThread(s, t)
    OBVIOUS
  <1>1. CASE ~Known(s, t)
    BY <1>0, <1>1 DEF ExitThread, Exited, Spared
  <1>2. CASE Known(s, t)
    <2>1. PICK p : p = s.cache.ctx[t].process
      OBVIOUS
    <2>2. PICK table : table = IF \A u \in Threads \ {t} : s.cache.ctx[u].process # p
                               THEN Restrict(s.cache.epochs, DOMAIN s.cache.epochs \ {p})
                               ELSE s.cache.epochs
      OBVIOUS
    <2>3. PICK ctx : ctx = [s.cache.ctx EXCEPT ![t] = NoContext]
      OBVIOUS
    <2>4. z = [s EXCEPT !.cache.ctx = ctx, !.cache.epochs = table]
      BY <1>0, <1>2, <2>1, <2>2, <2>3 DEF ExitThread
    <2>5. z = [cache |-> [ctx |-> ctx, epochs |-> table, epoch |-> s.cache.epoch],
               misled |-> s.misled]
      BY <2>4, OtherTables DEF Good
    <2>6. /\ s.cache.ctx \in [Threads -> Context \cup {NoContext}]
          /\ s.cache.epochs \in Tables /\ s.cache.epoch \in Nat
          /\ s.misled \in [Threads -> SUBSET Causes]
      BY StateParts DEF Good
    <2>7. ctx \in [Threads -> Context \cup {NoContext}] /\ ctx[t] = NoContext
          /\ \A u \in Threads \ {t} : ctx[u] = s.cache.ctx[u]
      BY <2>3, <2>6
    <2>8. /\ table \in Tables /\ DOMAIN table \subseteq DOMAIN s.cache.epochs
          /\ \A k \in DOMAIN table : table[k] = s.cache.epochs[k]
          /\ \A k \in DOMAIN s.cache.epochs : k \notin DOMAIN table =>
               \A u \in Threads \ {t} : s.cache.ctx[u].process # k
      <3>1. s.cache.epochs \in [DOMAIN s.cache.epochs -> Nat] /\ DOMAIN s.cache.epochs \subseteq Identities
        BY <2>6 DEF Tables
      <3>2. CASE \A u \in Threads \ {t} : s.cache.ctx[u].process # p
        <4>1. table = [k \in DOMAIN s.cache.epochs \ {p} |-> s.cache.epochs[k]]
          BY <2>2, <3>2 DEF Restrict
        <4>2. table \in [DOMAIN s.cache.epochs \ {p} -> Nat]
              /\ DOMAIN s.cache.epochs \ {p} \in SUBSET Identities
          BY <3>1, <4>1
        <4>3. table \in Tables
          BY <4>2 DEF Tables
        <4> QED
          BY <3>2, <4>1, <4>2, <4>3
      <3>3. CASE ~\A u \in Threads \ {t} : s.cache.ctx[u].process # p
        <4>1. table = s.cache.epochs
          BY <2>2, <3>3
        <4> QED
          BY <2>6, <4>1
      <3> QED
        BY <3>2, <3>3
    <2>9. /\ z.cache.ctx = ctx /\ z.cache.epochs = table /\ z.cache.epoch = s.cache.epoch
          /\ z.misled = s.misled /\ z \in State
      BY <2>5, <2>6, <2>7, <2>8 DEF State, Cache
    <2>10. \A u \in Threads : Known(s, u) =>
             /\ s.cache.ctx[u].process \in DOMAIN s.cache.epochs
             /\ s.cache.ctx[u].process[2] = 0 => s.cache.ctx[u].process[1] = u
             /\ s.cache.ctx[u].epoch <= s.cache.epoch
      BY GoodContext
    <2>11. \A u \in Threads \ {t} : Known(z, u) =>
             /\ Known(s, u) /\ z.cache.ctx[u] = s.cache.ctx[u]
             /\ s.cache.ctx[u].process \in DOMAIN table
      BY <2>7, <2>8, <2>9, <2>10 DEF Known
    <2>12. \A u \in Threads : ContextOK(z.cache, u)
      BY <2>7, <2>9, <2>10, <2>11 DEF ContextOK, Known
    <2>13. /\ \A k \in DOMAIN z.cache.epochs : z.cache.epochs[k] <= z.cache.epoch
           /\ \A k, l \in DOMAIN z.cache.epochs : k[1] = l[1] /\ k[2] # 0 /\ l[2] # 0 => k = l
      BY <2>8, <2>9 DEF Good, CacheOK
    <2>14. Good(z)
      BY <2>9, <2>12, <2>13 DEF Good, CacheOK
    <2>15. ~Known(z, t)
      BY <2>7, <2>9 DEF Known
    <2>16. ASSUME NEW u \in Threads \ {t}, IsCurrent(z, u)
           PROVE  IsCurrent(s, u)
      BY <2>8, <2>9, <2>11, <2>16 DEF IsCurrent, ProcessEpoch
    <2> QED
      BY <1>0, <2>9, <2>11, <2>14, <2>15, <2>16 DEF Exited, Spared
  <1> QED
    BY <1>0, <1>1, <1>2

\* change_cwd: the context of t is another one of the same thread and age.
Turned(s, z, t, path) ==
  /\ Good(z)
  /\ Known(z, t) => /\ Known(s, t)
                    /\ z.cache.ctx[t].cwd = path
                    /\ z.cache.ctx[t].holder = s.cache.ctx[t].holder
  /\ IsCurrent(z, t) => IsCurrent(s, t)
  /\ z.misled = s.misled
  /\ \A u \in Threads \ {t} : Spared(s, z, u)

LEMMA ChangeCwdEffect ==
  ASSUME NEW s, Good(s), NEW t \in Threads, NEW path \in Nat
  PROVE  Turned(s, ChangeCwd(s, t, path), t, path)
  <1>0. PICK z : z = ChangeCwd(s, t, path)
    OBVIOUS
  <1>1. CASE ~Known(s, t)
    BY <1>0, <1>1 DEF ChangeCwd, Turned, Spared, IsCurrent
  <1>2. CASE Known(s, t)
    <2>1. s = [cache |-> s.cache, misled |-> s.misled] /\ s.cache \in Cache
          /\ s.misled \in [Threads -> SUBSET Causes]
      BY StateParts DEF Good
    <2>2. PICK old : old = s.cache.ctx[t]
      OBVIOUS
    <2>3. old \in Context /\ old.process \in DOMAIN s.cache.epochs
          /\ (old.process[2] = 0 => old.process[1] = t) /\ old.epoch <= s.cache.epoch
      BY <1>2, <2>2, GoodContext
    <2>4. PICK new : new = [old EXCEPT !.cwd = path]
      OBVIOUS
    <2>5. new \in Context /\ new.process = old.process /\ new.cwd = path
          /\ new.epoch = old.epoch /\ new.holder = old.holder
      BY <2>3, <2>4 DEF Context
    <2>6. PICK ctx : ctx = [s.cache.ctx EXCEPT ![t] = new]
      OBVIOUS
    <2>7. s.cache.ctx \in [Threads -> Context \cup {NoContext}]
      BY <2>1 DEF Cache
    <2>8. ctx \in [Threads -> Context \cup {NoContext}] /\ ctx[t] = new
          /\ \A u \in Threads \ {t} : ctx[u] = s.cache.ctx[u]
      BY <2>5, <2>6, <2>7
    <2>9. PICK d : d = [s.cache EXCEPT !.ctx = ctx]
      OBVIOUS
    <2>10. d \in Cache /\ d.ctx = ctx /\ d.epochs = s.cache.epochs /\ d.epoch = s.cache.epoch
      BY <2>1, <2>8, <2>9 DEF Cache
    <2>11. z = [s EXCEPT !.cache = d]
      BY <1>0, <1>2, <2>2, <2>4, <2>6, <2>9 DEF ChangeCwd
    <2>12. z \in State /\ z.cache = d /\ z.misled = s.misled
      BY <2>1, <2>10, <2>11 DEF State
    <2>13. \A u \in Threads : ContextOK(z.cache, u)
      BY <2>3, <2>5, <2>8, <2>10, <2>12 DEF ContextOK, Good, CacheOK
    <2>14. Good(z)
      BY <2>10, <2>12, <2>13 DEF Good, CacheOK
    <2>15. /\ IsCurrent(z, t) => IsCurrent(s, t)
           /\ \A u \in Threads \ {t} : IsCurrent(z, u) => IsCurrent(s, u)
      BY <1>2, <2>2, <2>5, <2>8, <2>10, <2>12 DEF IsCurrent, Known, ProcessEpoch
    <2> QED
      BY <1>0, <1>2, <2>2, <2>5, <2>8, <2>10, <2>12, <2>14, <2>15 DEF Turned, Spared, Known
  <1> QED
    BY <1>0, <1>1, <1>2

\* invalidate_process_mounts: whoever it concerns is out of date.
Dated(s, z, t) ==
  /\ Good(z)
  /\ ~IsCurrent(z, t)
  /\ z.cache.ctx = s.cache.ctx /\ z.misled = s.misled
  /\ \A u \in Threads \ {t} : Spared(s, z, u)

LEMMA InvalidateEffect ==
  ASSUME NEW s, Good(s), NEW t \in Threads
  PROVE  Dated(s, Invalidate(s, t), t)
  <1>0. PICK z : z = Invalidate(s, t)
    OBVIOUS
  <1>1. CASE ~Known(s, t)
    BY <1>0, <1>1 DEF Invalidate, Dated, Spared, IsCurrent
  <1>2. CASE Known(s, t)
    <2>1. s = [cache |-> s.cache, misled |-> s.misled] /\ s.cache \in Cache
          /\ s.misled \in [Threads -> SUBSET Causes] /\ s.cache.epoch \in Nat
      BY StateParts DEF Good
    <2>2. PICK p : p = s.cache.ctx[t].process
      OBVIOUS
    <2>3. p \in Identities /\ p \in DOMAIN s.cache.epochs
      BY <1>2, <2>2, GoodContext
    <2>4. PICK e : e = s.cache.epoch + 1
      OBVIOUS
    <2>5. e \in Nat /\ e > s.cache.epoch
      BY <2>1, <2>4
    <2>6. PICK table : table = With(s.cache.epochs, p, e)
      OBVIOUS
    <2>7. /\ table \in Tables /\ DOMAIN table = DOMAIN s.cache.epochs \cup {p} /\ table[p] = e
          /\ \A k \in DOMAIN s.cache.epochs : k # p => table[k] = s.cache.epochs[k]
      <3>1. s.cache.epochs \in Tables /\ p \in Identities /\ e \in Nat
        BY <2>1, <2>3, <2>5 DEF Cache
      <3> QED
        BY <2>6, <3>1, WithTable
    <2>8. PICK c : c = [s.cache EXCEPT !.epoch = e]
      OBVIOUS
    <2>9. c = [ctx |-> s.cache.ctx, epochs |-> s.cache.epochs, epoch |-> e]
      BY <2>1, <2>8, CacheParts
    <2>10. PICK d : d = [c EXCEPT !.epochs = table]
      OBVIOUS
    <2>11. d \in Cache /\ d.ctx = s.cache.ctx /\ d.epochs = table /\ d.epoch = e
      BY <2>1, <2>5, <2>7, <2>9, <2>10 DEF Cache
    <2>12. PICK x : x = [s EXCEPT !.cache = c]
      OBVIOUS
    <2>13. x = [cache |-> c, misled |-> s.misled]
      BY <2>1, <2>12
    <2>14. d = [x.cache EXCEPT !.epochs = table]
      BY <2>10, <2>13
    <2>15. z = [s EXCEPT !.cache.epoch = e, !.cache.epochs = table]
      BY <1>0, <1>2, <2>2, <2>4, <2>6 DEF Invalidate
    <2>16. z = [x EXCEPT !.cache = d]
      BY <2>8, <2>12, <2>14, <2>15
    <2>17. z \in State /\ z.cache = d /\ z.misled = s.misled
      BY <2>1, <2>11, <2>13, <2>16 DEF State
    <2>18. \A u \in Threads : Known(s, u) =>
             /\ s.cache.ctx[u].process \in DOMAIN s.cache.epochs
             /\ s.cache.ctx[u].process[2] = 0 => s.cache.ctx[u].process[1] = u
             /\ s.cache.ctx[u].epoch <= s.cache.epoch /\ s.cache.ctx[u].epoch \in Nat
      BY GoodContext
    <2>19. \A u \in Threads : ContextOK(z.cache, u)
      BY <2>1, <2>5, <2>7, <2>11, <2>17, <2>18 DEF ContextOK, Known
    <2>20. \A k \in DOMAIN z.cache.epochs : z.cache.epochs[k] <= z.cache.epoch
      <3>1. \A k \in DOMAIN s.cache.epochs : s.cache.epochs[k] <= s.cache.epoch
            /\ s.cache.epochs[k] \in Nat
        BY GoodFields DEF Good, CacheOK
      <3> QED
        BY <2>1, <2>5, <2>7, <2>11, <2>17, <3>1
    <2>21. \A k, l \in DOMAIN z.cache.epochs : k[1] = l[1] /\ k[2] # 0 /\ l[2] # 0 => k = l
      BY <2>3, <2>7, <2>11, <2>17 DEF Good, CacheOK
    <2>22. Good(z)
      BY <2>17, <2>19, <2>20, <2>21 DEF Good, CacheOK
    <2>23. \A u \in Threads : IsCurrent(z, u) => IsCurrent(s, u) /\ s.cache.ctx[u].process # p
      <3> SUFFICES ASSUME NEW u \in Threads, IsCurrent(z, u)
                   PROVE  IsCurrent(s, u) /\ s.cache.ctx[u].process # p
        OBVIOUS
      <3>1. Known(s, u) /\ z.cache.ctx[u] = s.cache.ctx[u]
        BY <2>11, <2>17 DEF IsCurrent, Known
      <3>2. PICK k : k = s.cache.ctx[u].process
        OBVIOUS
      <3>3. k \in DOMAIN s.cache.epochs /\ s.cache.ctx[u].epoch <= s.cache.epoch
            /\ s.cache.ctx[u].epoch \in Nat
        BY <2>18, <3>1, <3>2
      <3>4. s.cache.ctx[u].epoch = table[k]
        BY <2>7, <2>11, <2>17, <3>1, <3>2, <3>3 DEF IsCurrent, ProcessEpoch
      <3>5. k # p
        BY <2>1, <2>5, <2>7, <3>3, <3>4
      <3> QED
        BY <2>7, <3>1, <3>2, <3>3, <3>4, <3>5 DEF IsCurrent, ProcessEpoch
    <2> QED
      BY <1>0, <2>2, <2>11, <2>17, <2>22, <2>23 DEF Dated, Spared, Known
  <1> QED
    BY <1>0, <1>1, <1>2

\* The directory of t is not followed any more.
Missed(s, z, t, cause) ==
  /\ Good(z)
  /\ z.cache = s.cache
  /\ z.misled[t] = s.misled[t] \cup {cause}
  /\ \A u \in Threads \ {t} : Spared(s, z, u)

LEMMA MissEffect ==
  ASSUME NEW s, Good(s), NEW t \in Threads, NEW cause \in Causes
  PROVE  Missed(s, Miss(s, t, cause), t, cause)
  <1>0. PICK z : z = Miss(s, t, cause)
    OBVIOUS
  <1>1. s = [cache |-> s.cache, misled |-> s.misled] /\ s.cache \in Cache
        /\ s.misled \in [Threads -> SUBSET Causes]
    BY StateParts DEF Good
  <1>2. PICK marks : marks = [s.misled EXCEPT ![t] = s.misled[t] \cup {cause}]
    OBVIOUS
  <1>3. marks \in [Threads -> SUBSET Causes] /\ marks[t] = s.misled[t] \cup {cause}
        /\ \A u \in Threads \ {t} : marks[u] = s.misled[u]
    BY <1>1, <1>2
  <1>4. z = [s EXCEPT !.misled = marks]
    BY <1>0, <1>2 DEF Miss
  <1>5. z = [cache |-> s.cache, misled |-> marks]
    BY <1>1, <1>4
  <1>6. z \in State /\ z.cache = s.cache /\ z.misled = marks
    BY <1>1, <1>3, <1>5 DEF State
  <1> QED
    BY <1>0, <1>3, <1>6 DEF Missed, Good, Spared, Known, IsCurrent, ProcessEpoch

-----------------------------------------------------------------------------
(* What the operations leave of the way from a context to the present.      *)

LEMMA DueType ==
  ASSUME ProgramInv, NEW t \in Threads
  PROVE  /\ Due(t) \in Nat /\ DirNow(t) \in Dirs
         /\ thread[t].alive => Due(t) = thread[t].holder /\ DirNow(t) = Here(t)
  BY HereType, Limits DEF Due, DirNow, Dirs, None

LEMMA SparedFits ==
  ASSUME NEW s, NEW z, NEW u \in Threads, Spared(s, z, u),
         NEW records, NEW now, NEW due
  PROVE  /\ Agrees(s, records, u, now) => Agrees(z, records, u, now)
         /\ Belongs(s, records, u, due) => Belongs(z, records, u, due)
  <1>1. z.misled[u] = s.misled[u]
    BY DEF Spared
  <1>2. IsCurrent(z, u) => IsCurrent(s, u) /\ z.cache.ctx[u] = s.cache.ctx[u]
    BY DEF Spared, IsCurrent
  <1>3. Known(z, u) => Known(s, u) /\ z.cache.ctx[u] = s.cache.ctx[u]
    BY DEF Spared
  <1>4. ASSUME Agrees(s, records, u, now)
        PROVE  Agrees(z, records, u, now)
    BY <1>1, <1>2, <1>4 DEF Agrees
  <1>5. ASSUME Belongs(s, records, u, due)
        PROVE  Belongs(z, records, u, due)
    BY <1>1, <1>3, <1>5 DEF Belongs
  <1> QED
    BY <1>4, <1>5

\* A record about others says nothing of u.
LEMMA PassesBy ==
  ASSUME NEW s, NEW records \in Seq(Records), records # <<>>, NEW u \in Threads,
         ~About(Head(records), u), NEW now, NEW due \in Nat
  PROVE  /\ Agrees(s, records, u, now) => Agrees(s, Tail(records), u, now)
         /\ Belongs(s, records, u, due) => Belongs(s, Tail(records), u, due)
  <1>1. ASSUME Agrees(s, records, u, now), s.misled[u] \subseteq {"unheard"}
        PROVE  \E v \in [0 .. Len(Tail(records)) -> Dirs] :
                 /\ Replays(v, Tail(records), u)
                 /\ v[Len(Tail(records))] = now
                 /\ IsCurrent(s, u) => v[0] = s.cache.ctx[u].cwd
    <2>1. PICK v \in [0 .. Len(records) -> Dirs] :
            /\ Replays(v, records, u)
            /\ v[Len(records)] = now
            /\ IsCurrent(s, u) => v[0] = s.cache.ctx[u].cwd
      BY <1>1 DEF Agrees
    <2>2. /\ Leads(Head(records), u, v[0], v[1])
          /\ \E x \in [0 .. Len(Tail(records)) -> Dirs] :
               /\ Replays(x, Tail(records), u)
               /\ x[0] = v[1]
               /\ x[Len(Tail(records))] = v[Len(records)]
      BY <2>1, ShrinkReplays
    <2>3. v[1] = v[0]
      BY <2>2 DEF Leads
    <2> QED
      BY <2>1, <2>2, <2>3
  <1>2. ASSUME Belongs(s, records, u, due), ~Unheard(s.misled[u])
        PROVE  \E w \in [0 .. Len(Tail(records)) -> 0 .. due] :
                 /\ Passes(w, Tail(records), u)
                 /\ w[Len(Tail(records))] = due
                 /\ Known(s, u) => w[0] <= s.cache.ctx[u].holder
    <2>1. PICK w \in [0 .. Len(records) -> 0 .. due] :
            /\ Passes(w, records, u)
            /\ w[Len(records)] = due
            /\ Known(s, u) => w[0] <= s.cache.ctx[u].holder
      BY <1>2 DEF Belongs
    <2>2. /\ Serves(Head(records), u, w[0], w[1])
          /\ \E x \in [0 .. Len(Tail(records)) -> 0 .. due] :
               /\ Passes(x, Tail(records), u)
               /\ x[0] = w[1]
               /\ x[Len(Tail(records))] = w[Len(records)]
      BY <2>1, ShrinkPasses
    <2>3. w[1] = w[0]
      BY <2>2 DEF Serves, About
    <2> QED
      BY <2>1, <2>2, <2>3
  <1> QED
    BY <1>1, <1>2 DEF Agrees, Belongs

\* What insert_context may mislead its thread by.
Marks(s, t, pending) ==
  {x \in {"ahead"} : Ahead(t, pending)} \cup
  {x \in {"unheard"} : Unheard(s.misled[t]) /\ Earlier(t, pending)}

\* A new context fits: /proc shows what the records lead to, or they are behind it.
LEMMA InsertFits ==
  ASSUME ProgramInv, NEW s, NEW z, NEW t \in Threads, thread[t].alive,
         NEW pending, Proper(pending), Good(s),
         Inserted(s, z, t, Marks(s, t, pending)), Fits(s, pending)
  PROVE  Fits(z, pending)
  <1>1. /\ IsCurrent(z, t) /\ z.cache.ctx[t].cwd = Here(t)
        /\ z.cache.ctx[t].holder = thread[t].holder
        /\ z.misled[t] = Marks(s, t, pending)
    BY DEF Inserted
  <1>2. /\ Len(pending) \in Nat /\ DOMAIN pending = 1 .. Len(pending)
        /\ \A i \in DOMAIN pending : pending[i] \in Records
    BY LenProperties, ElementOfSeq DEF Proper
  <1>3. /\ Here(t) \in Dirs /\ DirNow(t) = Here(t) /\ Due(t) = thread[t].holder
        /\ Due(t) \in Nat
    BY HereType, DueType DEF Dirs
  <1>4. ASSUME z.misled[t] \subseteq {"unheard"}
        PROVE  \E v \in [0 .. Len(pending) -> Dirs] :
                 /\ Replays(v, pending, t)
                 /\ v[Len(pending)] = DirNow(t)
                 /\ IsCurrent(z, t) => v[0] = z.cache.ctx[t].cwd
    <2>1. ~Ahead(t, pending)
      BY <1>1, <1>4 DEF Marks
    <2>2. \A i \in DOMAIN pending : About(pending[i], t) =>
            /\ pending[i].dir = Here(t)
            /\ ~(pending[i].kind = "chdir" /\ pending[i].name = "rel" /\ pending[i].success)
      BY <2>1 DEF Ahead, About, Range
    <2> DEFINE v == [i \in 0 .. Len(pending) |-> Here(t)]
    <2>3. /\ v \in [0 .. Len(pending) -> Dirs] /\ \A i \in 0 .. Len(pending) : v[i] = Here(t)
      BY <1>3
    <2> HIDE DEF v
    <2>4. ASSUME NEW i \in DOMAIN pending
          PROVE  Leads(pending[i], t, v[i - 1], v[i])
      <3>1. v[i] = Here(t) /\ v[i - 1] = Here(t)
        BY <1>2, <2>3
      <3>2. Leads(pending[i], t, Here(t), Here(t))
        BY <2>2 DEF Leads, Tells
      <3> QED
        BY <3>1, <3>2
    <2>5. v[0] = Here(t) /\ v[Len(pending)] = Here(t)
      BY <1>2, <2>3
    <2> QED
      BY <1>1, <1>3, <2>3, <2>4, <2>5 DEF Replays
  <1>5. ASSUME ~Unheard(z.misled[t])
        PROVE  \E w \in [0 .. Len(pending) -> 0 .. Due(t)] :
                 /\ Passes(w, pending, t)
                 /\ w[Len(pending)] = Due(t)
                 /\ Known(z, t) => w[0] <= z.cache.ctx[t].holder
    <2>1. CASE ~Unheard(s.misled[t])
      <3>1. Belongs(s, pending, t, Due(t))
        BY DEF Fits
      <3>2. PICK w \in [0 .. Len(pending) -> 0 .. Due(t)] :
              Passes(w, pending, t) /\ w[Len(pending)] = Due(t)
        BY <2>1, <3>1 DEF Belongs
      <3>3. w[0] <= Due(t)
        BY <1>2, <1>3
      <3> QED
        BY <1>1, <1>3, <3>2, <3>3
    <2>2. CASE ~Earlier(t, pending)
      <3>1. \A i \in DOMAIN pending : pending[i].of = t => pending[i].holder = thread[t].holder
        <4> TAKE i \in DOMAIN pending
        <4>1. pending[i].holder \in Nat /\ pending[i].holder <= thread[pending[i].of].holder
          BY <1>2, Limits DEF Proper, Records
        <4>2. pending[i].of = t => ~(pending[i].holder < thread[t].holder)
          BY <2>2 DEF Earlier, Range
        <4> QED
          BY <1>3, <4>1, <4>2
      <3> DEFINE w == [i \in 0 .. Len(pending) |-> Due(t)]
      <3>2. w \in [0 .. Len(pending) -> 0 .. Due(t)] /\ \A i \in 0 .. Len(pending) : w[i] = Due(t)
        BY <1>3
      <3> HIDE DEF w
      <3>3. ASSUME NEW i \in DOMAIN pending
            PROVE  Serves(pending[i], t, w[i - 1], w[i])
        <4>1. w[i] = Due(t) /\ w[i - 1] = Due(t)
          BY <1>2, <3>2
        <4>2. Serves(pending[i], t, Due(t), Due(t))
          BY <1>3, <3>1 DEF Serves
        <4> QED
          BY <4>1, <4>2
      <3>4. w[0] = Due(t) /\ w[Len(pending)] = Due(t)
        BY <1>2, <3>2
      <3> QED
        BY <1>1, <1>3, <3>2, <3>3, <3>4 DEF Passes
    <2> QED
      BY <1>1, <1>5, <2>1, <2>2 DEF Marks, Unheard
  <1>6. Agrees(z, pending, t, DirNow(t)) /\ Belongs(z, pending, t, Due(t))
    BY <1>4, <1>5 DEF Agrees, Belongs
  <1>7. \A u \in Threads \ {t} :
          Agrees(z, pending, u, DirNow(u)) /\ Belongs(z, pending, u, Due(u))
    BY SparedFits DEF Inserted, Fits
  <1> QED
    BY <1>6, <1>7 DEF Fits

LEMMA RefreshFits ==
  ASSUME ProgramInv, NEW s, Good(s), NEW r \in Records, NEW pending, Proper(pending),
         Fits(s, pending)
  PROVE  Good(Refresh(s, r, pending)) /\ Fits(Refresh(s, r, pending), pending)
  <1>1. CASE ~CanRead(r.tgid, r.tid)
    BY <1>1 DEF Refresh
  <1>2. CASE CanRead(r.tgid, r.tid)
    <2>1. PICK t \in Threads : t = r.tid
      BY DEF Records
    <2>2. PICK g \in Threads : g = r.tgid
      BY DEF Records
    <2>3. thread[t].alive /\ (g = t \/ g = thread[t].leader)
      BY <1>2, <2>1, <2>2 DEF CanRead
    <2>4. thread[g].holder # 0 /\ thread[g].holder \in 0 .. MaxCalls + 1
      BY <2>3, HereType
    <2>5. PICK z : z = InsertContext(s, g, t, pending)
      OBVIOUS
    <2>6. Inserted(s, z, t, Marks(s, t, pending))
      BY <2>4, <2>5, InsertContextEffect DEF Marks
    <2>7. Fits(z, pending)
      BY <2>3, <2>6, InsertFits
    <2>8. Refresh(s, r, pending) = z
      BY <1>2, <2>1, <2>2, <2>5 DEF Refresh
    <2> QED
      BY <2>6, <2>7, <2>8 DEF Inserted
  <1> QED
    BY <1>1, <1>2

\* A call of t leaves a context of the same thread, if it leaves one, which does not
\* become any younger.
Moved(s, z, t) ==
  /\ Good(z)
  /\ s.misled[t] \subseteq z.misled[t]
  /\ Known(z, t) => Known(s, t) /\ z.cache.ctx[t].holder = s.cache.ctx[t].holder
  /\ IsCurrent(z, t) => IsCurrent(s, t)
  /\ \A u \in Threads \ {t} : Spared(s, z, u)

LEMMA UnmovedMoves ==
  ASSUME NEW s, Good(s), NEW t \in Threads
  PROVE  Moved(s, s, t)
  BY DEF Moved, Spared

LEMMA TurnedMoves ==
  ASSUME NEW s, NEW z, NEW t \in Threads, NEW path, Turned(s, z, t, path)
  PROVE  Moved(s, z, t)
  BY DEF Turned, Moved

LEMMA DatedMoves ==
  ASSUME NEW s, NEW z, NEW t \in Threads, Dated(s, z, t)
  PROVE  Moved(s, z, t)
  BY DEF Dated, Moved, Known

LEMMA MissedMoves ==
  ASSUME NEW s, NEW z, NEW t \in Threads, NEW cause, Missed(s, z, t, cause)
  PROVE  Moved(s, z, t)
  BY DEF Missed, Moved, Known, IsCurrent, ProcessEpoch

\* The directory that the context of t has after a record is that of the record,
\* if it was where the record starts.
Kept(s, z, r) ==
  z.misled[r.tid] \subseteq {"unheard"} /\ IsCurrent(z, r.tid) /\ Tells(s.cache.ctx[r.tid].cwd, r)
    => z.cache.ctx[r.tid].cwd = r.dir

LEMMA MissedKept ==
  ASSUME NEW s, NEW z, NEW r, NEW cause, Missed(s, z, r.tid, cause), cause # "unheard"
  PROVE  Kept(s, z, r)
  BY DEF Missed, Kept

LEMMA EffectMoves ==
  ASSUME ProgramInv, NEW r \in Records, Sound(r), r.kind \in {"chdir", "fchdir", "open", "chroot"},
         NEW s, Good(s), NEW fdKnown \in BOOLEAN, r.success,
         \* Only if the directory was read just before is a name left alone that is not resolved.
         CanRead(r.tgid, r.tid) /\ r.kind = "chdir" /\ Captured(r) /\ ~Resolvable(s, r)
           => (s.misled[r.tid] \subseteq {"unheard"} => s.cache.ctx[r.tid].cwd = r.dir)
  PROVE  Moved(s, Effect(s, r, fdKnown), r.tid) /\ Kept(s, Effect(s, r, fdKnown), r)
  <1> DEFINE t == r.tid
             z == Effect(s, r, fdKnown)
  <1>0. t \in Threads /\ r.level \in Nat /\ r.dir \in Nat
    BY DEF Records
  <1>1. CASE r.kind = "chdir" /\ ~Captured(r)
    <2>1. z = Miss(s, t, "unread")
      BY <1>1 DEF Effect
    <2>2. Missed(s, z, t, "unread")
      BY <1>0, <2>1, MissEffect DEF Causes
    <2> QED
      BY <1>0, <2>2, MissedMoves, MissedKept
  <1>2. CASE r.kind = "chdir" /\ Captured(r) /\ Resolvable(s, r)
    <2>1. z = ChangeCwd(s, t, Resolved(s, r))
      BY <1>2 DEF Effect
    <2>2. CASE r.name = "abs"
      <3>1. Resolved(s, r) = r.level /\ r.dir = r.level
        BY <2>2 DEF Resolved, Sound
      <3>2. Turned(s, z, t, r.level)
        BY <1>0, <2>1, <3>1, ChangeCwdEffect
      <3> QED
        BY <1>0, <3>1, <3>2, TurnedMoves DEF Turned, Kept, IsCurrent
    <2>3. CASE r.name # "abs"
      <3>1. r.name = "rel" /\ IsCurrent(s, t)
        BY <1>2, <2>3 DEF Resolvable, Sound
      <3>2. s.cache.ctx[t].cwd \in Nat
        BY <1>0, <3>1, GoodContext DEF IsCurrent
      <3>3. Resolved(s, r) = s.cache.ctx[t].cwd + 1
        BY <3>1 DEF Resolved
      <3>4. Turned(s, z, t, s.cache.ctx[t].cwd + 1)
        BY <1>0, <2>1, <3>2, <3>3, ChangeCwdEffect
      <3>5. Tells(s.cache.ctx[t].cwd, r) => r.dir = s.cache.ctx[t].cwd + 1
        BY <1>2, <3>1 DEF Tells
      <3> QED
        BY <1>0, <3>4, <3>5, TurnedMoves DEF Turned, Kept, IsCurrent
    <2> QED
      BY <2>2, <2>3
  <1>3. CASE r.kind = "chdir" /\ Captured(r) /\ ~Resolvable(s, r) /\ CanRead(r.tgid, r.tid)
    <2>1. z = s
      BY <1>3 DEF Effect
    <2> QED
      BY <1>0, <1>3, <2>1, UnmovedMoves DEF Kept
  <1>4. CASE r.kind = "chdir" /\ Captured(r) /\ ~Resolvable(s, r) /\ ~CanRead(r.tgid, r.tid)
    <2>1. z = Miss(s, t, "refused")
      BY <1>4 DEF Effect
    <2>2. Missed(s, z, t, "refused")
      BY <1>0, <2>1, MissEffect DEF Causes
    <2> QED
      BY <1>0, <2>2, MissedMoves, MissedKept
  <1>5. CASE r.kind = "fchdir" /\ fdKnown
    <2>1. z = ChangeCwd(s, t, r.level) /\ r.dir = r.level
      BY <1>5 DEF Effect, Sound
    <2>2. Turned(s, z, t, r.level)
      BY <1>0, <2>1, ChangeCwdEffect
    <2> QED
      BY <1>0, <2>1, <2>2, TurnedMoves DEF Turned, Kept, IsCurrent
  <1>6. CASE r.kind = "fchdir" /\ ~fdKnown
    <2>1. z = Miss(s, t, "fd")
      BY <1>6 DEF Effect
    <2>2. Missed(s, z, t, "fd")
      BY <1>0, <2>1, MissEffect DEF Causes
    <2> QED
      BY <1>0, <2>2, MissedMoves, MissedKept
  <1>7. CASE r.kind = "chroot"
    <2>1. z = Invalidate(s, t)
      BY <1>7 DEF Effect
    <2>2. Dated(s, z, t)
      BY <1>0, <2>1, InvalidateEffect
    <2> QED
      BY <1>0, <2>2, DatedMoves DEF Dated, Kept
  <1>8. CASE r.kind = "open"
    <2>1. z = s
      BY <1>8 DEF Effect
    <2>2. Tells(s.cache.ctx[t].cwd, r) => r.dir = s.cache.ctx[t].cwd
      BY <1>8 DEF Tells
    <2> QED
      BY <1>0, <2>1, <2>2, UnmovedMoves DEF Kept
  <1> QED
    BY <1>1, <1>2, <1>3, <1>4, <1>5, <1>6, <1>7, <1>8

LEMMA ApplyMoves ==
  ASSUME ProgramInv, NEW r \in Records, Sound(r), r.kind \in {"chdir", "fchdir", "open", "chroot"},
         NEW s, Good(s), NEW fdKnown \in BOOLEAN,
         r.success /\ CanRead(r.tgid, r.tid) /\ r.kind = "chdir" /\ Captured(r) /\ ~Resolvable(s, r)
           => (s.misled[r.tid] \subseteq {"unheard"} => s.cache.ctx[r.tid].cwd = r.dir)
  PROVE  Moved(s, Apply(s, r, fdKnown), r.tid) /\ Kept(s, Apply(s, r, fdKnown), r)
  <1>0. r.tid \in Threads
    BY DEF Records
  <1>1. CASE r.success
    <2>1. Apply(s, r, fdKnown) = Effect(s, r, fdKnown)
      BY <1>1 DEF Apply
    <2> QED
      BY <1>1, <2>1, EffectMoves
  <1>2. CASE ~r.success
    <2>1. Apply(s, r, fdKnown) = s
      BY <1>2 DEF Apply
    <2>2. Kept(s, s, r)
      BY <1>2 DEF Kept, Tells
    <2>3. Moved(s, s, r.tid)
      BY <1>0, UnmovedMoves
    <2> QED
      BY <2>1, <2>2, <2>3
  <1> QED
    BY <1>1, <1>2

LEMMA RecordParts ==
  ASSUME NEW r \in Records
  PROVE  /\ r.tid \in Threads /\ r.tgid \in Threads /\ r.of \in Threads
         /\ r.holder \in Nat /\ r.holder \in 0 .. MaxCalls + 1
         /\ r.dir \in Nat /\ r.path \in Nat /\ r.level \in Nat
  BY Limits DEF Records

LEMMA HeadRecord ==
  ASSUME NEW records, Proper(records), records # <<>>
  PROVE  /\ Head(records) \in Records /\ Sound(Head(records))
         /\ Head(records).holder <= thread[Head(records).of].holder
         /\ Head(records) \in Range(records)
         /\ Proper(Tail(records)) /\ records \in Seq(Records)
  <1>1. /\ Len(records) \in Nat /\ Len(records) >= 1 /\ Head(records) = records[1]
        /\ DOMAIN records = 1 .. Len(records)
        /\ Tail(records) \in Seq(Records) /\ Len(Tail(records)) = Len(records) - 1
        /\ \A i \in 1 .. Len(Tail(records)) : Tail(records)[i] = records[i + 1]
        /\ DOMAIN Tail(records) = 1 .. Len(Tail(records))
    BY LenProperties, HeadTailProperties, EmptySeq DEF Proper
  <1>2. \A i \in DOMAIN Tail(records) :
          i + 1 \in DOMAIN records /\ Tail(records)[i] = records[i + 1]
    BY <1>1
  <1>3. 1 \in DOMAIN records /\ records[1] \in Records
    BY <1>1, ElementOfSeq DEF Proper
  <1> QED
    BY <1>1, <1>2, <1>3 DEF Proper, Range

\* A call is applied: its record has led from its thread's context to the new one.
LEMMA ApplyFits ==
  ASSUME ProgramInv, NEW records, Proper(records), records # <<>>,
         NEW r, r = Head(records), r.kind \in {"chdir", "fchdir", "open", "chroot"},
         NEW s, Good(s), Fits(s, records),
         NEW z, Moved(s, z, r.tid), Kept(s, z, r)
  PROVE  Good(z) /\ Fits(z, Tail(records))
  <1>0. r \in Records /\ Sound(r) /\ records \in Seq(Records)
    BY HeadRecord
  <1>1. PICK t \in Threads : t = r.tid
    BY <1>0 DEF Records
  <1>2. r.of = t /\ r.dir \in Nat /\ r.holder \in Nat /\ r.kind # "exit"
    BY <1>0, <1>1, RecordParts DEF Sound
  <1>3. /\ Good(z) /\ s.misled[t] \subseteq z.misled[t]
        /\ Known(z, t) => Known(s, t) /\ z.cache.ctx[t].holder = s.cache.ctx[t].holder
        /\ IsCurrent(z, t) => IsCurrent(s, t)
        /\ \A u \in Threads \ {t} : Spared(s, z, u)
    BY <1>1 DEF Moved
  <1>4. Due(t) \in Nat
    BY DueType
  <1>5. ASSUME z.misled[t] \subseteq {"unheard"}
        PROVE  \E v \in [0 .. Len(Tail(records)) -> Dirs] :
                 /\ Replays(v, Tail(records), t)
                 /\ v[Len(Tail(records))] = DirNow(t)
                 /\ IsCurrent(z, t) => v[0] = z.cache.ctx[t].cwd
    <2>1. Agrees(s, records, t, DirNow(t)) /\ s.misled[t] \subseteq {"unheard"}
      BY <1>3, <1>5 DEF Fits
    <2>2. PICK v \in [0 .. Len(records) -> Dirs] :
            /\ Replays(v, records, t)
            /\ v[Len(records)] = DirNow(t)
            /\ IsCurrent(s, t) => v[0] = s.cache.ctx[t].cwd
      BY <2>1 DEF Agrees
    <2>3. /\ Leads(r, t, v[0], v[1])
          /\ \E x \in [0 .. Len(Tail(records)) -> Dirs] :
               /\ Replays(x, Tail(records), t)
               /\ x[0] = v[1]
               /\ x[Len(Tail(records))] = v[Len(records)]
      BY <1>0, <2>2, ShrinkReplays
    <2>4. v[1] = r.dir /\ (v[0] = None \/ Tells(v[0], r))
      BY <1>1, <1>2, <2>3 DEF Leads, About
    <2>5. IsCurrent(z, t) => z.cache.ctx[t].cwd = r.dir
      <3> SUFFICES ASSUME IsCurrent(z, t) PROVE z.cache.ctx[t].cwd = r.dir
        OBVIOUS
      <3>1. IsCurrent(s, t) /\ v[0] = s.cache.ctx[t].cwd
        BY <1>3, <2>2
      <3>2. s.cache.ctx[t].cwd \in Nat
        BY <3>1, GoodContext DEF IsCurrent
      <3>3. Tells(s.cache.ctx[t].cwd, r)
        BY <2>4, <3>1, <3>2 DEF None
      <3> QED
        BY <1>1, <1>5, <3>3 DEF Kept
    <2> QED
      BY <2>2, <2>3, <2>4, <2>5
  <1>6. ASSUME ~Unheard(z.misled[t])
        PROVE  \E w \in [0 .. Len(Tail(records)) -> 0 .. Due(t)] :
                 /\ Passes(w, Tail(records), t)
                 /\ w[Len(Tail(records))] = Due(t)
                 /\ Known(z, t) => w[0] <= z.cache.ctx[t].holder
    <2>1. Belongs(s, records, t, Due(t)) /\ ~Unheard(s.misled[t])
      BY <1>3, <1>6 DEF Fits, Unheard
    <2>2. PICK w \in [0 .. Len(records) -> 0 .. Due(t)] :
            /\ Passes(w, records, t)
            /\ w[Len(records)] = Due(t)
            /\ Known(s, t) => w[0] <= s.cache.ctx[t].holder
      BY <2>1 DEF Belongs
    <2>3. /\ Serves(r, t, w[0], w[1])
          /\ w[0] \in 0 .. Due(t) /\ w[1] \in 0 .. Due(t)
          /\ \E x \in [0 .. Len(Tail(records)) -> 0 .. Due(t)] :
               /\ Passes(x, Tail(records), t)
               /\ x[0] = w[1]
               /\ x[Len(Tail(records))] = w[Len(records)]
      BY <1>0, <1>4, <2>2, ShrinkPasses
    <2>4. w[1] <= w[0]
      BY <1>2, <2>3 DEF Serves
    <2>5. Known(z, t) => w[1] <= z.cache.ctx[t].holder
      <3> SUFFICES ASSUME Known(z, t) PROVE w[1] <= z.cache.ctx[t].holder
        OBVIOUS
      <3>1. Known(s, t) /\ z.cache.ctx[t].holder = s.cache.ctx[t].holder
            /\ w[0] <= s.cache.ctx[t].holder
        BY <1>3, <2>2
      <3>2. s.cache.ctx[t].holder \in Nat
        BY <3>1, GoodContext
      <3> QED
        BY <1>4, <2>3, <2>4, <3>1, <3>2
    <2> QED
      BY <2>2, <2>3, <2>5
  <1>7. Agrees(z, Tail(records), t, DirNow(t)) /\ Belongs(z, Tail(records), t, Due(t))
    BY <1>5, <1>6 DEF Agrees, Belongs
  <1>8. ASSUME NEW u \in Threads \ {t}
        PROVE  Agrees(z, Tail(records), u, DirNow(u)) /\ Belongs(z, Tail(records), u, Due(u))
    <2>1. ~About(r, u) /\ Spared(s, z, u)
      BY <1>1, <1>2, <1>3, <1>8 DEF About
    <2>2. Agrees(s, records, u, DirNow(u)) /\ Belongs(s, records, u, Due(u))
      BY <1>8 DEF Fits
    <2>3. Due(u) \in Nat
      BY <1>8, DueType
    <2>4. Agrees(s, Tail(records), u, DirNow(u)) /\ Belongs(s, Tail(records), u, Due(u))
      BY <1>0, <1>8, <2>1, <2>2, <2>3, PassesBy
    <2> QED
      BY <1>8, <2>1, <2>4, SparedFits
  <1> QED
    BY <1>3, <1>7, <1>8 DEF Fits

-----------------------------------------------------------------------------
(* The collector.                                                           *)

LEMMA LookedFits ==
  ASSUME ProgramInv, Proper(ring), ring # <<>>, Good(Now), Fits(Now, ring),
         NEW r, r = Head(ring)
  PROVE  /\ Good(Looked(r)) /\ Fits(Looked(r), ring)
         /\ CanRead(r.tgid, r.tid) /\ Captured(r) /\ ~Resolvable(Looked(r), r)
              => (Looked(r).misled[r.tid] \subseteq {"unheard"}
                    => Looked(r).cache.ctx[r.tid].cwd = r.dir)
  <1>0. r \in Records /\ r \in Range(ring)
    BY HeadRecord
  <1>1. CASE ~(Captured(r) /\ ~Resolvable(Now, r))
    BY <1>1 DEF Looked
  <1>2. CASE Captured(r) /\ ~Resolvable(Now, r)
    <2>1. Looked(r) = Refresh(Now, r, ring)
      BY <1>2 DEF Looked
    <2>2. Good(Looked(r)) /\ Fits(Looked(r), ring)
      BY <1>0, <2>1, RefreshFits
    <2>3. ASSUME CanRead(r.tgid, r.tid), Looked(r).misled[r.tid] \subseteq {"unheard"}
          PROVE  Looked(r).cache.ctx[r.tid].cwd = r.dir
      <3>1. PICK t \in Threads : t = r.tid
        BY <1>0 DEF Records
      <3>2. PICK g \in Threads : g = r.tgid
        BY <1>0 DEF Records
      <3>3. thread[t].alive /\ (g = t \/ g = thread[t].leader)
        BY <2>3, <3>1, <3>2 DEF CanRead
      <3>4. thread[g].holder # 0 /\ thread[g].holder \in 0 .. MaxCalls + 1
        BY <3>3, HereType
      <3>5. PICK z : z = InsertContext(Now, g, t, ring)
        OBVIOUS
      <3>6. Inserted(Now, z, t, Marks(Now, t, ring))
        BY <3>4, <3>5, InsertContextEffect DEF Marks
      <3>7. Looked(r) = z
        BY <2>1, <2>3, <3>1, <3>2, <3>5 DEF Refresh
      <3>8. z.cache.ctx[t].cwd = Here(t) /\ z.misled[t] = Marks(Now, t, ring)
        BY <3>6 DEF Inserted
      <3>9. ~Ahead(t, ring)
        <4>1. Marks(Now, t, ring) \subseteq {"unheard"}
          BY <2>3, <3>1, <3>7, <3>8
        <4> QED
          BY <4>1 DEF Marks
      <3>10. r.dir = Here(t)
        BY <1>0, <3>1, <3>9 DEF Ahead
      <3> QED
        BY <3>1, <3>7, <3>8, <3>10
    <2> QED
      BY <2>2, <2>3
  <1> QED
    BY <1>1, <1>2

LEMMA UpdatedFits ==
  ASSUME ProgramInv, Proper(ring), ring # <<>>, Good(Now), Fits(Now, ring),
         NEW r, r = Head(ring), r.kind \in {"chdir", "fchdir", "open", "chroot"},
         NEW fdKnown \in BOOLEAN
  PROVE  /\ Good(Updated(Looked(r), r, fdKnown))
         /\ Fits(Updated(Looked(r), r, fdKnown), Tail(ring))
  <1>0. r \in Records /\ Sound(r) /\ Proper(Tail(ring))
    BY HeadRecord
  <1>1. PICK s : s = Looked(r)
    OBVIOUS
  <1>2. /\ Good(s) /\ Fits(s, ring)
        /\ CanRead(r.tgid, r.tid) /\ Captured(r) /\ ~Resolvable(s, r)
             => (s.misled[r.tid] \subseteq {"unheard"} => s.cache.ctx[r.tid].cwd = r.dir)
    BY <1>1, LookedFits
  <1>3. PICK z : z = Apply(s, r, fdKnown)
    OBVIOUS
  <1>4. Moved(s, z, r.tid) /\ Kept(s, z, r)
    BY <1>0, <1>2, <1>3, ApplyMoves
  <1>5. Good(z) /\ Fits(z, Tail(ring))
    BY <1>2, <1>4, ApplyFits
  <1>6. Good(Refresh(z, r, Tail(ring))) /\ Fits(Refresh(z, r, Tail(ring)), Tail(ring))
    BY <1>0, <1>5, RefreshFits
  <1>7. Updated(s, r, fdKnown) = z \/ Updated(s, r, fdKnown) = Refresh(z, r, Tail(ring))
    BY <1>3 DEF Updated
  <1> QED
    BY <1>1, <1>5, <1>6, <1>7

\* A record after which a directory is what it was.
LEMMA StillFits ==
  ASSUME ProgramInv, NEW records, Proper(records), records # <<>>,
         NEW r, r = Head(records), r.kind \in {"fork", "exec"},
         NEW s, Good(s), Fits(s, records)
  PROVE  Fits(s, Tail(records))
  <1>0. r \in Records /\ records \in Seq(Records) /\ r.dir \in Nat /\ r.holder \in Nat
    BY HeadRecord, RecordParts
  <1> SUFFICES ASSUME NEW t \in Threads
               PROVE  /\ Agrees(s, Tail(records), t, DirNow(t))
                      /\ Belongs(s, Tail(records), t, Due(t))
    BY DEF Fits
  <1>1. Agrees(s, records, t, DirNow(t)) /\ Belongs(s, records, t, Due(t)) /\ Due(t) \in Nat
    BY DueType DEF Fits
  <1>2. ASSUME s.misled[t] \subseteq {"unheard"}
        PROVE  \E v \in [0 .. Len(Tail(records)) -> Dirs] :
                 /\ Replays(v, Tail(records), t)
                 /\ v[Len(Tail(records))] = DirNow(t)
                 /\ IsCurrent(s, t) => v[0] = s.cache.ctx[t].cwd
    <2>1. PICK v \in [0 .. Len(records) -> Dirs] :
            /\ Replays(v, records, t)
            /\ v[Len(records)] = DirNow(t)
            /\ IsCurrent(s, t) => v[0] = s.cache.ctx[t].cwd
      BY <1>1, <1>2 DEF Agrees
    <2>2. /\ Leads(r, t, v[0], v[1])
          /\ \E x \in [0 .. Len(Tail(records)) -> Dirs] :
               /\ Replays(x, Tail(records), t)
               /\ x[0] = v[1]
               /\ x[Len(Tail(records))] = v[Len(records)]
      BY <1>0, <2>1, ShrinkReplays
    <2>3. v[1] = v[0] \/ v[0] = None
      BY <2>2 DEF Leads, Tells
    <2>4. IsCurrent(s, t) => v[0] # None
      BY <2>1, GoodContext DEF IsCurrent, None
    <2> QED
      BY <2>1, <2>2, <2>3, <2>4
  <1>3. ASSUME ~Unheard(s.misled[t])
        PROVE  \E w \in [0 .. Len(Tail(records)) -> 0 .. Due(t)] :
                 /\ Passes(w, Tail(records), t)
                 /\ w[Len(Tail(records))] = Due(t)
                 /\ Known(s, t) => w[0] <= s.cache.ctx[t].holder
    <2>1. PICK w \in [0 .. Len(records) -> 0 .. Due(t)] :
            /\ Passes(w, records, t)
            /\ w[Len(records)] = Due(t)
            /\ Known(s, t) => w[0] <= s.cache.ctx[t].holder
      BY <1>1, <1>3 DEF Belongs
    <2>2. /\ Serves(r, t, w[0], w[1])
          /\ w[0] \in 0 .. Due(t) /\ w[1] \in 0 .. Due(t)
          /\ \E x \in [0 .. Len(Tail(records)) -> 0 .. Due(t)] :
               /\ Passes(x, Tail(records), t)
               /\ x[0] = w[1]
               /\ x[Len(Tail(records))] = w[Len(records)]
      BY <1>0, <1>1, <2>1, ShrinkPasses
    <2>3. w[1] <= w[0]
      BY <1>0, <1>1, <2>2 DEF Serves
    <2>4. Known(s, t) => w[1] <= s.cache.ctx[t].holder
      BY <1>1, <2>1, <2>2, <2>3, GoodContext
    <2> QED
      BY <2>1, <2>2, <2>4
  <1> QED
    BY <1>2, <1>3 DEF Agrees, Belongs

\* What a process event makes of the cache.
Event(r) ==
  CASE r.kind = "fork" -> IF CanRead(r.of, r.of) THEN InsertContext(Now, r.of, r.of, Tail(ring))
                          ELSE ForkThread(Now, r.tid, r.of, r.holder)
    [] r.kind = "exec" -> Refresh(Now, r, Tail(ring))
    [] OTHER -> ExitThread(Now, r.tid)

LEMMA ExitFits ==
  ASSUME ProgramInv, NEW records, Proper(records), records # <<>>,
         NEW r, r = Head(records), r.kind = "exit",
         NEW s, Good(s), Fits(s, records)
  PROVE  Good(ExitThread(s, r.tid)) /\ Fits(ExitThread(s, r.tid), Tail(records))
  <1>0. r \in Records /\ Sound(r) /\ records \in Seq(Records)
    BY HeadRecord
  <1>1. PICK t \in Threads : t = r.tid
    BY <1>0 DEF Records
  <1>2. r.of = t
    BY <1>0, <1>1 DEF Sound
  <1>3. PICK z : z = ExitThread(s, t)
    OBVIOUS
  <1>4. Exited(s, z, t)
    BY <1>3, ExitThreadEffect
  <1>5. ~Known(z, t) /\ ~IsCurrent(z, t) /\ z.misled = s.misled
    BY <1>4 DEF Exited, IsCurrent
  <1>6. Due(t) \in Nat
    BY DueType
  <1>7. ASSUME z.misled[t] \subseteq {"unheard"}
        PROVE  \E v \in [0 .. Len(Tail(records)) -> Dirs] :
                 /\ Replays(v, Tail(records), t)
                 /\ v[Len(Tail(records))] = DirNow(t)
    <2>1. Agrees(s, records, t, DirNow(t)) /\ s.misled[t] \subseteq {"unheard"}
      BY <1>5, <1>7 DEF Fits
    <2>2. PICK v \in [0 .. Len(records) -> Dirs] :
            Replays(v, records, t) /\ v[Len(records)] = DirNow(t)
      BY <2>1 DEF Agrees
    <2> QED
      BY <1>0, <2>2, ShrinkReplays
  <1>8. ASSUME ~Unheard(z.misled[t])
        PROVE  \E w \in [0 .. Len(Tail(records)) -> 0 .. Due(t)] :
                 Passes(w, Tail(records), t) /\ w[Len(Tail(records))] = Due(t)
    <2>1. Belongs(s, records, t, Due(t)) /\ ~Unheard(s.misled[t])
      BY <1>5, <1>8 DEF Fits
    <2>2. PICK w \in [0 .. Len(records) -> 0 .. Due(t)] :
            Passes(w, records, t) /\ w[Len(records)] = Due(t)
      BY <2>1 DEF Belongs
    <2> QED
      BY <1>0, <1>6, <2>2, ShrinkPasses
  <1>9. Agrees(z, Tail(records), t, DirNow(t)) /\ Belongs(z, Tail(records), t, Due(t))
    BY <1>5, <1>7, <1>8 DEF Agrees, Belongs
  <1>10. ASSUME NEW u \in Threads \ {t}
         PROVE  Agrees(z, Tail(records), u, DirNow(u)) /\ Belongs(z, Tail(records), u, Due(u))
    <2>1. ~About(r, u) /\ Spared(s, z, u)
      BY <1>1, <1>2, <1>4, <1>10 DEF About, Exited
    <2>2. Agrees(s, records, u, DirNow(u)) /\ Belongs(s, records, u, Due(u)) /\ Due(u) \in Nat
      BY <1>10, DueType DEF Fits
    <2>3. Agrees(s, Tail(records), u, DirNow(u)) /\ Belongs(s, Tail(records), u, Due(u))
      BY <1>0, <1>10, <2>1, <2>2, PassesBy
    <2> QED
      BY <1>10, <2>1, <2>3, SparedFits
  <1> QED
    BY <1>1, <1>3, <1>4, <1>9, <1>10 DEF Fits, Exited

\* A new thread is where its parent was.
LEMMA ForkFits ==
  ASSUME ProgramInv, NEW records, Proper(records), records # <<>>,
         NEW r, r = Head(records), r.kind = "fork",
         NEW s, Good(s), Fits(s, records)
  PROVE  /\ Good(ForkThread(s, r.tid, r.of, r.holder))
         /\ Fits(ForkThread(s, r.tid, r.of, r.holder), Tail(records))
  <1>0. r \in Records /\ Sound(r) /\ records \in Seq(Records) /\ r.dir \in Nat /\ r.holder \in Nat
    BY HeadRecord, RecordParts
  <1>1. r.tid = Main /\ r.of = Other /\ Main \in Threads /\ Other \in Threads /\ Main # Other
    BY <1>0, Limits DEF Sound
  <1>2. Fits(s, Tail(records))
    BY StillFits
  <1>3. PICK z : z = ForkThread(s, Main, Other, r.holder)
    OBVIOUS
  <1>4. CASE ~Known(s, Main)
    BY <1>1, <1>2, <1>4 DEF ForkThread
  <1>5. CASE Known(s, Main)
    <2>1. Forked(s, z, Main, Other, r.holder)
      BY <1>0, <1>1, <1>3, <1>5, ForkThreadEffect
    <2>2. /\ Good(z) /\ z.cache.ctx[Other].cwd = s.cache.ctx[Main].cwd
          /\ z.cache.ctx[Other].holder = r.holder
          /\ s.misled[Other] \subseteq z.misled[Other] /\ s.misled[Main] \subseteq z.misled[Other]
          /\ z.misled[Other] \subseteq {"unheard"} => IsCurrent(s, Main)
          /\ \A u \in Threads \ {Other} : Spared(s, z, u)
      <3>1. ~IsCurrent(s, Main) => "renewed" \in {x \in {"renewed"} : ~IsCurrent(s, Main)}
        OBVIOUS
      <3>2. ~IsCurrent(s, Main) => "renewed" \in z.misled[Other]
        BY <2>1, <3>1 DEF Forked
      <3>3. /\ Good(z) /\ z.cache.ctx[Other].cwd = s.cache.ctx[Main].cwd
            /\ z.cache.ctx[Other].holder = r.holder
            /\ \A u \in Threads \ {Other} : Spared(s, z, u)
        BY <2>1 DEF Forked
      <3>4. s.misled[Other] \subseteq z.misled[Other] /\ s.misled[Main] \subseteq z.misled[Other]
        BY <2>1 DEF Forked
      <3> QED
        BY <3>2, <3>3, <3>4
    <2>3. ASSUME z.misled[Other] \subseteq {"unheard"}
          PROVE  \E v \in [0 .. Len(Tail(records)) -> Dirs] :
                   /\ Replays(v, Tail(records), Other)
                   /\ v[Len(Tail(records))] = DirNow(Other)
                   /\ v[0] = z.cache.ctx[Other].cwd
      <3>1. /\ Agrees(s, records, Main, DirNow(Main)) /\ s.misled[Main] \subseteq {"unheard"}
            /\ Agrees(s, records, Other, DirNow(Other)) /\ s.misled[Other] \subseteq {"unheard"}
            /\ IsCurrent(s, Main)
        BY <1>1, <2>2, <2>3 DEF Fits
      <3>2. PICK a \in [0 .. Len(records) -> Dirs] :
              Replays(a, records, Main) /\ a[0] = s.cache.ctx[Main].cwd
        BY <3>1 DEF Agrees
      <3>3. Leads(r, Main, a[0], a[1])
        BY <1>0, <1>1, <3>2, ShrinkReplays
      <3>4. s.cache.ctx[Main].cwd \in Nat
        BY <1>1, <1>5, GoodContext
      <3>5. r.dir = s.cache.ctx[Main].cwd
        BY <1>1, <3>2, <3>3, <3>4 DEF Leads, About, Tells, None
      <3>6. PICK v \in [0 .. Len(records) -> Dirs] :
              Replays(v, records, Other) /\ v[Len(records)] = DirNow(Other)
        BY <3>1 DEF Agrees
      <3>7. /\ Leads(r, Other, v[0], v[1])
            /\ \E x \in [0 .. Len(Tail(records)) -> Dirs] :
                 /\ Replays(x, Tail(records), Other)
                 /\ x[0] = v[1]
                 /\ x[Len(Tail(records))] = v[Len(records)]
        BY <1>0, <1>1, <3>6, ShrinkReplays
      <3>8. v[1] = r.dir
        BY <1>1, <3>7 DEF Leads, About
      <3> QED
        BY <2>2, <3>5, <3>6, <3>7, <3>8
    <2>4. ASSUME ~Unheard(z.misled[Other])
          PROVE  \E w \in [0 .. Len(Tail(records)) -> 0 .. Due(Other)] :
                   /\ Passes(w, Tail(records), Other)
                   /\ w[Len(Tail(records))] = Due(Other)
                   /\ w[0] <= z.cache.ctx[Other].holder
      <3>1. Belongs(s, records, Other, Due(Other)) /\ ~Unheard(s.misled[Other])
        BY <1>1, <2>2, <2>4 DEF Fits, Unheard
      <3>2. PICK due \in Nat : due = Due(Other)
        BY <1>1, DueType
      <3>3. PICK w \in [0 .. Len(records) -> 0 .. due] :
              Passes(w, records, Other) /\ w[Len(records)] = due
        BY <3>1, <3>2 DEF Belongs
      <3>4. /\ Serves(r, Other, w[0], w[1])
            /\ \E x \in [0 .. Len(Tail(records)) -> 0 .. due] :
                 /\ Passes(x, Tail(records), Other)
                 /\ x[0] = w[1]
                 /\ x[Len(Tail(records))] = w[Len(records)]
        <4>1. /\ records \in Seq(Records) /\ records # <<>> /\ Other \in Threads
              /\ Passes(w, records, Other)
          BY <1>0, <1>1, <3>3
        <4> QED
          BY <4>1, ShrinkPasses
      <3>5. w[1] = r.holder
        BY <1>1, <3>4 DEF Serves
      <3> QED
        BY <1>0, <2>2, <3>2, <3>3, <3>4, <3>5
    <2>5. /\ Agrees(z, Tail(records), Other, DirNow(Other))
          /\ Belongs(z, Tail(records), Other, Due(Other))
      BY <2>3, <2>4 DEF Agrees, Belongs
    <2>6. ASSUME NEW u \in Threads \ {Other}
          PROVE  Agrees(z, Tail(records), u, DirNow(u)) /\ Belongs(z, Tail(records), u, Due(u))
      BY <1>2, <2>2, <2>6, SparedFits DEF Fits
    <2> QED
      BY <1>1, <1>3, <2>2, <2>5, <2>6 DEF Fits
  <1> QED
    BY <1>4, <1>5

LEMMA EventFits ==
  ASSUME ProgramInv, Proper(ring), ring # <<>>, Good(Now), Fits(Now, ring),
         NEW r, r = Head(ring), r.kind \in {"fork", "exit", "exec"}
  PROVE  Good(Event(r)) /\ Fits(Event(r), Tail(ring))
  <1>0. r \in Records /\ Sound(r) /\ Proper(Tail(ring))
    BY HeadRecord
  <1>1. CASE r.kind = "fork" /\ CanRead(r.of, r.of)
    <2>1. Fits(Now, Tail(ring))
      BY <1>1, StillFits
    <2>2. PICK t \in Threads : t = r.of
      BY <1>0 DEF Records
    <2>3. thread[t].alive
      BY <1>1, <2>2 DEF CanRead
    <2>4. thread[t].holder # 0 /\ thread[t].holder \in 0 .. MaxCalls + 1
      BY <2>3, HereType
    <2>5. PICK z : z = InsertContext(Now, t, t, Tail(ring))
      OBVIOUS
    <2>6. Inserted(Now, z, t, Marks(Now, t, Tail(ring)))
      BY <2>4, <2>5, InsertContextEffect DEF Marks
    <2>7. Fits(z, Tail(ring))
      BY <1>0, <2>1, <2>3, <2>6, InsertFits
    <2>8. Event(r) = z
      BY <1>1, <2>2, <2>5 DEF Event
    <2> QED
      BY <2>6, <2>7, <2>8 DEF Inserted
  <1>2. CASE r.kind = "fork" /\ ~CanRead(r.of, r.of)
    BY <1>2, ForkFits DEF Event
  <1>3. CASE r.kind = "exec"
    <2>1. Event(r) = Refresh(Now, r, Tail(ring))
      BY <1>3 DEF Event
    <2>2. Fits(Now, Tail(ring))
      BY <1>3, StillFits
    <2> QED
      BY <1>0, <2>1, <2>2, RefreshFits
  <1>4. CASE r.kind = "exit"
    BY <1>4, ExitFits DEF Event
  <1> QED
    BY <1>1, <1>2, <1>3, <1>4

\* What an open is reported with, where its context serves.
LEMMA OpenTrue ==
  ASSUME ProgramInv, NEW records, Proper(records), records # <<>>,
         NEW r, r = Head(records), r.kind = "open",
         NEW s, Good(s), Fits(s, records), Resolvable(s, r)
  PROVE  /\ Resolved(s, r) # r.path => s.misled[r.tid] \ {"unheard"} # {}
         /\ s.cache.ctx[r.tid].holder >= r.holder \/ Unheard(s.misled[r.tid])
         /\ s.misled[r.tid] \subseteq Causes
  <1>0. r \in Records /\ Sound(r) /\ records \in Seq(Records) /\ r.dir \in Nat /\ r.holder \in Nat
    BY HeadRecord, RecordParts
  <1>1. PICK t \in Threads : t = r.tid
    BY <1>0, RecordParts
  <1>2. r.of = t /\ r.name = "rel" /\ r.path = r.dir + 1
    BY <1>0, <1>1 DEF Sound
  <1>3. IsCurrent(s, t) /\ Known(s, t) /\ Resolved(s, r) = s.cache.ctx[t].cwd + 1
    BY <1>1, <1>2 DEF Resolvable, Resolved, IsCurrent
  <1>4. s.cache.ctx[t].cwd \in Nat /\ s.cache.ctx[t].holder \in Nat
    BY <1>3, GoodContext
  <1>5. Agrees(s, records, t, DirNow(t)) /\ Belongs(s, records, t, Due(t)) /\ Due(t) \in Nat
    BY DueType DEF Fits
  <1>6. ASSUME s.misled[t] \subseteq {"unheard"}
        PROVE  Resolved(s, r) = r.path
    <2>1. PICK v \in [0 .. Len(records) -> Dirs] :
            Replays(v, records, t) /\ v[0] = s.cache.ctx[t].cwd
      BY <1>3, <1>5, <1>6 DEF Agrees
    <2>2. Leads(r, t, v[0], v[1])
      BY <1>0, <2>1, ShrinkReplays
    <2>3. r.dir = s.cache.ctx[t].cwd
      BY <1>1, <1>4, <2>1, <2>2 DEF Leads, About, Tells, None
    <2> QED
      BY <1>2, <1>3, <2>3
  <1>7. ASSUME ~Unheard(s.misled[t])
        PROVE  s.cache.ctx[t].holder >= r.holder
    <2>1. PICK due \in Nat : due = Due(t)
      BY <1>5
    <2>2. PICK w \in [0 .. Len(records) -> 0 .. due] :
            Passes(w, records, t) /\ w[0] <= s.cache.ctx[t].holder
      BY <1>3, <1>5, <1>7, <2>1 DEF Belongs
    <2>3. Serves(r, t, w[0], w[1]) /\ w[0] \in 0 .. due
      BY <1>0, <2>2, ShrinkPasses
    <2>4. r.holder <= w[0]
      BY <1>2, <2>3 DEF Serves
    <2> QED
      BY <1>0, <1>4, <2>2, <2>3, <2>4
  <1>8. s.misled[t] \subseteq Causes
    BY GoodFields
  <1> QED
    BY <1>1, <1>6, <1>7, <1>8

-----------------------------------------------------------------------------
(* Programs.                                                                *)

LEMMA GrowFits ==
  ASSUME NEW s, NEW z, NEW records \in Seq(Records), NEW r \in Records, NEW t \in Threads,
         NEW now \in Dirs, NEW later \in Dirs, NEW due \in Nat, NEW dueLater \in Nat,
         z.cache = s.cache, s.misled[t] \subseteq z.misled[t],
         Agrees(s, records, t, now), Belongs(s, records, t, due),
         z.misled[t] \subseteq {"unheard"} => Leads(r, t, now, later),
         ~Unheard(z.misled[t]) => Serves(r, t, due, dueLater) /\ due <= dueLater
  PROVE  /\ Agrees(z, Append(records, r), t, later)
         /\ Belongs(z, Append(records, r), t, dueLater)
  <1>1. \A u : (IsCurrent(z, u) <=> IsCurrent(s, u)) /\ (Known(z, u) <=> Known(s, u))
    BY DEF IsCurrent, Known, ProcessEpoch
  <1>2. Agrees(z, records, t, now)
    BY <1>1 DEF Agrees
  <1>3. Belongs(z, records, t, due)
    BY <1>1 DEF Belongs, Unheard
  <1>4. Agrees(z, Append(records, r), t, later)
    <2>1. CASE z.misled[t] \subseteq {"unheard"}
      BY <1>2, <2>1, GrowAgrees
    <2> QED
      BY <2>1 DEF Agrees
  <1>5. Belongs(z, Append(records, r), t, dueLater)
    <2>1. CASE ~Unheard(z.misled[t])
      BY <1>3, <2>1, GrowBelongs
    <2> QED
      BY <2>1 DEF Belongs
  <1> QED
    BY <1>4, <1>5

LEMMA SameFits ==
  ASSUME NEW s, NEW z, NEW records, NEW t \in Threads,
         NEW now, NEW later, NEW due, NEW dueLater,
         z.cache = s.cache, s.misled[t] \subseteq z.misled[t],
         Agrees(s, records, t, now), Belongs(s, records, t, due),
         z.misled[t] \subseteq {"unheard"} => later = now,
         ~Unheard(z.misled[t]) => dueLater = due
  PROVE  Agrees(z, records, t, later) /\ Belongs(z, records, t, dueLater)
  <1>1. \A u : (IsCurrent(z, u) <=> IsCurrent(s, u)) /\ (Known(z, u) <=> Known(s, u))
    BY DEF IsCurrent, Known, ProcessEpoch
  <1>2. Agrees(z, records, t, later)
    BY <1>1 DEF Agrees
  <1>3. Belongs(z, records, t, dueLater)
    BY <1>1 DEF Belongs, Unheard
  <1> QED
    BY <1>2, <1>3

LEMMA OutputMarks ==
  ASSUME NEW records, NEW marks \in [Threads -> SUBSET Causes],
         misled \in [Threads -> SUBSET Causes], Output(records, marks)
  PROVE  /\ misled' \in [Threads -> SUBSET Causes]
         /\ \A t \in Threads : misled[t] \cup marks[t] \subseteq misled'[t]
         /\ \A i \in DOMAIN records : i > RingSlots - Len(ring) /\ records[i].of \in Threads
              => "lost" \in misled'[records[i].of]
  <1> DEFINE lost == {records[i].of : i \in {i \in DOMAIN records : i > RingSlots - Len(ring)}}
  <1>1. misled' = [t \in Threads |-> misled[t] \cup marks[t] \cup {x \in {"lost"} : t \in lost}]
    BY DEF Output
  <1>2. \A i \in DOMAIN records : i > RingSlots - Len(ring) => records[i].of \in lost
    OBVIOUS
  <1> HIDE DEF lost
  <1>3. \A t \in Threads : {x \in {"lost"} : t \in lost} \subseteq Causes
    BY DEF Causes
  <1>4. misled' \in [Threads -> SUBSET Causes]
    BY <1>1, <1>3
  <1>5. \A t \in Threads : t \in lost => "lost" \in misled'[t]
    BY <1>1
  <1>6. \A t \in Threads : misled[t] \cup marks[t] \subseteq misled'[t]
    BY <1>1
  <1> QED
    BY <1>2, <1>4, <1>5, <1>6

LEMMA OutputOne ==
  ASSUME NEW r \in Records, NEW marks \in [Threads -> SUBSET Causes],
         misled \in [Threads -> SUBSET Causes],
         ring \in Seq(Records), Len(ring) <= RingSlots, Output(<<r>>, marks)
  PROVE  /\ misled' \in [Threads -> SUBSET Causes]
         /\ \A t \in Threads : misled[t] \cup marks[t] \subseteq misled'[t]
         /\ \/ ring' = Append(ring, r) /\ Len(ring) + 1 <= RingSlots
            \/ ring' = ring /\ "lost" \in misled'[r.of]
  <1>0. Len(ring) \in Nat /\ RingSlots \in Nat /\ r.of \in Threads
    BY LenProperties, Limits, RecordParts
  <1>1. <<r>> \in Seq(Records) /\ Len(<<r>>) = 1 /\ DOMAIN <<r>> = {1} /\ <<r>>[1] = r
    OBVIOUS
  <1>2. PICK one : one = <<r>>
    OBVIOUS
  <1>3. /\ misled' \in [Threads -> SUBSET Causes]
        /\ \A t \in Threads : misled[t] \cup marks[t] \subseteq misled'[t]
        /\ 1 > RingSlots - Len(ring) => "lost" \in misled'[r.of]
    <2>1. \A i \in DOMAIN one : i > RingSlots - Len(ring) /\ one[i].of \in Threads
            => "lost" \in misled'[one[i].of]
      BY <1>2, OutputMarks
    <2>2. 1 \in DOMAIN one /\ one[1] = r
      BY <1>1, <1>2
    <2> QED
      BY <1>0, <2>1, <2>2, OutputMarks
  <1>4. CASE Len(ring) < RingSlots
    <2>1. SubSeq(<<r>>, 1, 1) = <<r>>
      BY <1>1, SubSeqFull
    <2>2. ring' = ring \o SubSeq(<<r>>, 1, 1)
      <3>1. ring' = ring \o SubSeq(<<r>>, 1, IF RingSlots - Len(ring) < 1 THEN RingSlots - Len(ring) ELSE 1)
        BY <1>1 DEF Output
      <3>2. ~(RingSlots - Len(ring) < 1)
        BY <1>0, <1>4
      <3> QED
        BY <3>1, <3>2
    <2>3. ring' = Append(ring, r)
      BY <2>1, <2>2, AppendIsConcat
    <2> QED
      BY <1>0, <1>3, <1>4, <2>3
  <1>5. CASE ~(Len(ring) < RingSlots)
    <2>1. RingSlots - Len(ring) = 0
      BY <1>0, <1>5
    <2>2. SubSeq(<<r>>, 1, 0) = <<>>
      BY SubSeqEmpty
    <2>3. ring' = ring \o SubSeq(<<r>>, 1, 0)
      <3>1. ring' = ring \o SubSeq(<<r>>, 1, IF RingSlots - Len(ring) < 1 THEN RingSlots - Len(ring) ELSE 1)
        BY <1>1 DEF Output
      <3> QED
        BY <2>1, <3>1
    <2>4. ring' = ring
      BY <2>2, <2>3, ConcatEmptySeq
    <2> QED
      BY <1>3, <2>1, <2>4
  <1> QED
    BY <1>4, <1>5

LEMMA OutputTwo ==
  ASSUME NEW a \in Records, NEW b \in Records, NEW marks \in [Threads -> SUBSET Causes],
         misled \in [Threads -> SUBSET Causes],
         ring \in Seq(Records), Len(ring) <= RingSlots, Output(<<a, b>>, marks)
  PROVE  /\ misled' \in [Threads -> SUBSET Causes]
         /\ \A t \in Threads : misled[t] \cup marks[t] \subseteq misled'[t]
         /\ \/ ring' = Append(Append(ring, a), b) /\ Len(ring) + 2 <= RingSlots
            \/ ring' = Append(ring, a) /\ Len(ring) + 1 <= RingSlots /\ "lost" \in misled'[b.of]
            \/ ring' = ring /\ "lost" \in misled'[b.of]
  <1>0. Len(ring) \in Nat /\ RingSlots \in Nat /\ b.of \in Threads
    BY LenProperties, Limits, RecordParts
  <1>1. <<a, b>> \in Seq(Records) /\ Len(<<a, b>>) = 2 /\ DOMAIN <<a, b>> = {1, 2}
        /\ <<a, b>>[1] = a /\ <<a, b>>[2] = b
    OBVIOUS
  <1>2. PICK two : two = <<a, b>>
    OBVIOUS
  <1>3. /\ misled' \in [Threads -> SUBSET Causes]
        /\ \A t \in Threads : misled[t] \cup marks[t] \subseteq misled'[t]
        /\ 2 > RingSlots - Len(ring) => "lost" \in misled'[b.of]
    <2>1. \A i \in DOMAIN two : i > RingSlots - Len(ring) /\ two[i].of \in Threads
            => "lost" \in misled'[two[i].of]
      BY <1>2, OutputMarks
    <2>2. 2 \in DOMAIN two /\ two[2] = b
      BY <1>1, <1>2
    <2> QED
      BY <1>0, <2>1, <2>2, OutputMarks
  <1>4. ring' = ring \o SubSeq(<<a, b>>, 1, IF RingSlots - Len(ring) < 2 THEN RingSlots - Len(ring) ELSE 2)
    BY <1>1 DEF Output
  <1>5. CASE Len(ring) + 2 <= RingSlots
    <2>1. SubSeq(<<a, b>>, 1, 2) = <<a, b>>
      BY <1>1, SubSeqFull
    <2>2. ring' = ring \o <<a, b>>
      BY <1>0, <1>4, <1>5, <2>1
    <2>3. Append(Append(ring, a), b) = ring \o <<a, b>>
      <3>1. Append(ring, a) \in Seq(Records) /\ Append(ring, a) = ring \o <<a>>
        BY AppendIsConcat, AppendProperties
      <3>2. Append(Append(ring, a), b) = (ring \o <<a>>) \o <<b>>
        BY <3>1, AppendIsConcat
      <3>3. <<a>> \in Seq(Records) /\ <<b>> \in Seq(Records) /\ <<a>> \o <<b>> = <<a, b>>
        <4>0. <<a>> \in Seq(Records) /\ <<b>> \in Seq(Records) /\ <<a, b>> \in Seq(Records)
          OBVIOUS
        <4>1. PICK x \in Seq(Records) : x = <<a>>
          BY <4>0
        <4>2. PICK y \in Seq(Records) : y = <<b>>
          BY <4>0
        <4>3. PICK c \in Seq(Records) : c = <<a, b>>
          BY <4>0
        <4>4. /\ x \o y \in Seq(Records) /\ Len(x \o y) = Len(x) + Len(y)
              /\ \A i \in 1 .. Len(x) + Len(y) : (x \o y)[i] =
                   IF i <= Len(x) THEN x[i] ELSE y[i - Len(x)]
          BY ConcatProperties
        <4>5. Len(x) = 1 /\ Len(y) = 1 /\ Len(c) = 2 /\ x[1] = a /\ y[1] = b /\ c[1] = a /\ c[2] = b
          BY <4>1, <4>2, <4>3
        <4>6. Len(x \o y) = Len(c) /\ \A i \in 1 .. Len(x \o y) : (x \o y)[i] = c[i]
          BY <4>4, <4>5
        <4>7. x \o y = c
          BY <4>4, <4>6, SeqEqual
        <4> QED
          BY <4>1, <4>2, <4>3, <4>7
      <3>4. (ring \o <<a>>) \o <<b>> = ring \o (<<a>> \o <<b>>)
        BY <3>3, ConcatAssociative
      <3> QED
        BY <3>2, <3>3, <3>4
    <2> QED
      BY <1>3, <1>5, <2>2, <2>3
  <1>6. CASE Len(ring) + 1 = RingSlots
    <2>1. SubSeq(<<a, b>>, 1, 1) = <<a>>
      <3>1. 1 \in Int /\ \A i \in 1 .. 1 : <<a, b>>[i] \in Records
        BY <1>1
      <3>2. /\ SubSeq(<<a, b>>, 1, 1) \in Seq(Records) /\ Len(SubSeq(<<a, b>>, 1, 1)) = 1
            /\ SubSeq(<<a, b>>, 1, 1)[1] = <<a, b>>[1]
        BY <3>1, SubSeqProperties
      <3>3. PICK x \in Seq(Records) : x = SubSeq(<<a, b>>, 1, 1)
        BY <3>2
      <3>4. PICK y \in Seq(Records) : y = <<a>>
        <4>1. <<a>> \in Seq(Records)
          OBVIOUS
        <4> QED
          BY <4>1
      <3>5. Len(x) = 1 /\ Len(y) = 1 /\ x[1] = a /\ y[1] = a
        BY <1>1, <3>2, <3>3, <3>4
      <3>6. x = y
        BY <3>5, SeqEqual
      <3> QED
        BY <3>3, <3>4, <3>6
    <2>2. ring' = ring \o <<a>>
      BY <1>0, <1>4, <1>6, <2>1
    <2>3. ring' = Append(ring, a)
      BY <2>2, AppendIsConcat
    <2> QED
      BY <1>0, <1>3, <1>6, <2>3
  <1>7. CASE Len(ring) = RingSlots
    <2>1. SubSeq(<<a, b>>, 1, 0) = <<>>
      BY SubSeqEmpty
    <2>2. ring' = ring \o <<>>
      BY <1>0, <1>4, <1>7, <2>1
    <2>3. ring' = ring
      BY <2>2, ConcatEmptySeq
    <2> QED
      BY <1>0, <1>3, <1>7, <2>3
  <1> QED
    BY <1>0, <1>5, <1>6, <1>7

\* What an action makes of the threads goes with the record it submits. Who is marked
\* is not followed any more, nor is the thread a record is about if there is no room.
KeepsUp(r, marks) ==
  \A t \in Threads :
    /\ marks[t] \subseteq {"unheard"} =>
         Leads(r, t, DirNow(t), DirNow(t)') /\ (t # r.of => DirNow(t)' = DirNow(t))
    /\ ~Unheard(marks[t]) =>
         /\ Serves(r, t, Due(t), Due(t)') /\ Due(t) <= Due(t)'
         /\ t # r.of => Due(t)' = Due(t)

HoldersGrow == \A t \in Threads : thread[t].holder <= thread'[t].holder

LEMMA ProperGrows ==
  ASSUME ProgramInv, ProgramInv', Proper(ring), HoldersGrow
  PROVE  \A i \in DOMAIN ring : Sound(ring[i]) /\ ring[i].holder <= thread'[ring[i].of].holder
  <1> SUFFICES ASSUME NEW i \in DOMAIN ring
               PROVE  Sound(ring[i]) /\ ring[i].holder <= thread'[ring[i].of].holder
    OBVIOUS
  <1>1. ring[i] \in Records /\ Sound(ring[i]) /\ ring[i].holder <= thread[ring[i].of].holder
    BY LenProperties, ElementOfSeq DEF Proper
  <1>2. PICK t \in Threads : t = ring[i].of
    BY <1>1, RecordParts
  <1>3. ring[i].holder \in Nat
    BY <1>1, RecordParts
  <1>4. thread[t].holder \in Nat /\ thread'[t].holder \in Nat
    BY Limits DEF ProgramInv, Thread
  <1>5. thread[t].holder <= thread'[t].holder
    BY DEF HoldersGrow
  <1> QED
    BY <1>1, <1>2, <1>3, <1>4, <1>5

LEMMA AppendProper ==
  ASSUME NEW records \in Seq(Records), NEW r \in Records, Sound(r),
         \A i \in DOMAIN records : Sound(records[i]) /\ records[i].holder <= thread[records[i].of].holder,
         r.holder <= thread[r.of].holder
  PROVE  Proper(Append(records, r))
  <1>1. /\ Append(records, r) \in Seq(Records) /\ Len(records) \in Nat
        /\ Len(Append(records, r)) = Len(records) + 1
        /\ \A i \in 1 .. Len(records) : Append(records, r)[i] = records[i]
        /\ Append(records, r)[Len(records) + 1] = r
        /\ DOMAIN records = 1 .. Len(records)
        /\ DOMAIN Append(records, r) = 1 .. Len(Append(records, r))
    BY AppendProperties, LenProperties
  <1>2. \A i \in DOMAIN Append(records, r) : i \in DOMAIN records \/ i = Len(records) + 1
    BY <1>1
  <1>3. ASSUME NEW i \in DOMAIN Append(records, r)
        PROVE  /\ Sound(Append(records, r)[i])
               /\ Append(records, r)[i].holder <= thread[Append(records, r)[i].of].holder
    <2>1. CASE i \in DOMAIN records
      BY <1>1, <2>1
    <2>2. CASE i = Len(records) + 1
      BY <1>1, <2>2
    <2> QED
      BY <1>2, <2>1, <2>2
  <1> QED
    BY <1>1, <1>3 DEF Proper

LEMMA NowParts ==
  /\ Now \in State <=> cache \in Cache /\ misled \in [Threads -> SUBSET Causes]
  /\ Now.cache = cache /\ Now.misled = misled
  BY DEF Now, State

LEMMA ProduceOne ==
  ASSUME TypeInv, ContextsInv, ProgramInv', HoldersGrow,
         NEW r \in Records, Sound(r), r.holder <= thread'[r.of].holder,
         NEW marks \in [Threads -> SUBSET Causes], Output(<<r>>, marks), KeepsUp(r, marks),
         UNCHANGED cache
  PROVE  /\ Proper(ring)' /\ Len(ring') <= RingSlots
         /\ (Now \in State)' /\ CacheOK(cache)' /\ ContextsInv'
  <1>0. /\ ProgramInv /\ ring \in Seq(Records) /\ Len(ring) <= RingSlots /\ Len(ring) \in Nat
        /\ cache \in Cache /\ misled \in [Threads -> SUBSET Causes] /\ CacheOK(cache)
    BY NowParts, LenProperties DEF TypeInv, Proper
  <1>1. /\ misled' \in [Threads -> SUBSET Causes]
        /\ \A t \in Threads : misled[t] \cup marks[t] \subseteq misled'[t]
        /\ \/ ring' = Append(ring, r) /\ Len(ring) + 1 <= RingSlots
           \/ ring' = ring /\ "lost" \in misled'[r.of]
    BY <1>0, OutputOne
  <1>2. \A i \in DOMAIN ring : Sound(ring[i]) /\ ring[i].holder <= thread'[ring[i].of].holder
    BY <1>0, ProperGrows DEF TypeInv
  <1>3. Proper(ring)' /\ Len(ring') <= RingSlots
    <2>1. CASE ring' = Append(ring, r) /\ Len(ring) + 1 <= RingSlots
      <3>1. Len(Append(ring, r)) = Len(ring) + 1
        BY <1>0, AppendProperties
      <3> QED
        BY <1>0, <1>2, <2>1, <3>1, AppendProper DEF Proper
    <2>2. CASE ring' = ring
      BY <1>0, <1>2, <2>2 DEF Proper
    <2> QED
      BY <1>1, <2>1, <2>2
  <1>4. (Now \in State)' /\ CacheOK(cache)'
    <2>1. cache' \in Cache /\ misled' \in [Threads -> SUBSET Causes]
      BY <1>0, <1>1
    <2> QED
      BY <1>0, <2>1 DEF Now, State
  <1>5. PICK s : s = Now
    OBVIOUS
  <1>6. PICK z : z = Now'
    OBVIOUS
  <1>7. /\ s.cache = cache /\ s.misled = misled /\ z.cache = cache /\ z.misled = misled'
    BY <1>5, <1>6 DEF Now
  <1>8. ASSUME NEW t \in Threads
        PROVE  Agrees(z, ring', t, DirNow(t)') /\ Belongs(z, ring', t, Due(t)')
    <2>1. Agrees(s, ring, t, DirNow(t)) /\ Belongs(s, ring, t, Due(t))
      BY <1>5 DEF ContextsInv, Fits
    <2>2. PICK now \in Dirs : now = DirNow(t)
      BY <1>0, DueType
    <2>3. PICK due \in Nat : due = Due(t)
      BY <1>0, DueType
    <2>4. DirNow(t)' \in Dirs /\ Due(t)' \in Nat
      <3>1. thread'[t].holder \in Nat /\ thread'[t].alive \in BOOLEAN
        BY Limits DEF ProgramInv, Thread
      <3>2. Here(t)' \in Nat
        <4>1. thread'[t].leader \in Threads
          BY DEF ProgramInv, Thread
        <4>2. PICK p \in Threads : p = thread'[t].leader
          BY <4>1
        <4>3. cwd'[p] \in Levels /\ root'[p] \in Levels /\ root'[p] <= cwd'[p]
          BY DEF ProgramInv
        <4>4. cwd'[p] \in Nat /\ root'[p] \in Nat
          BY <4>3, Limits
        <4> QED
          BY <4>2, <4>3, <4>4 DEF Here, View, Dir, Top
      <3> QED
        BY <3>1, <3>2 DEF DirNow, Due, Dirs
    <2>5. PICK later \in Dirs : later = DirNow(t)'
      BY <2>4
    <2>6. PICK dueLater \in Nat : dueLater = Due(t)'
      BY <2>4
    <2>7. marks[t] \subseteq z.misled[t] /\ s.misled[t] \subseteq z.misled[t]
      BY <1>1, <1>7
    <2>8. /\ z.misled[t] \subseteq {"unheard"} =>
               Leads(r, t, now, later) /\ (t # r.of => later = now)
          /\ ~Unheard(z.misled[t]) =>
               /\ Serves(r, t, due, dueLater) /\ due <= dueLater
               /\ t # r.of => dueLater = due
      <3>1. ~Unheard(z.misled[t]) => ~Unheard(marks[t])
        BY <2>7 DEF Unheard
      <3> QED
        BY <2>2, <2>3, <2>5, <2>6, <2>7, <3>1 DEF KeepsUp
    <2>9. CASE ring' = Append(ring, r)
      <3>1. /\ Agrees(z, Append(ring, r), t, later)
            /\ Belongs(z, Append(ring, r), t, dueLater)
        BY <1>0, <1>7, <2>1, <2>2, <2>3, <2>7, <2>8, GrowFits
      <3> QED
        BY <2>5, <2>6, <2>9, <3>1
    <2>10. CASE ring' = ring /\ "lost" \in misled'[r.of]
      <3>1. /\ z.misled[t] \subseteq {"unheard"} => later = now
            /\ ~Unheard(z.misled[t]) => dueLater = due
        BY <1>7, <2>8, <2>10 DEF Unheard
      <3>2. Agrees(z, ring, t, later) /\ Belongs(z, ring, t, dueLater)
        BY <1>7, <2>1, <2>2, <2>3, <2>7, <3>1, SameFits
      <3> QED
        BY <2>5, <2>6, <2>10, <3>2
    <2> QED
      BY <1>1, <2>9, <2>10
  <1>9. ContextsInv'
    BY <1>6, <1>8 DEF ContextsInv, Fits
  <1> QED
    BY <1>3, <1>4, <1>9

LEMMA ProduceOneKeeps ==
  ASSUME IInv, ProgramInv', HoldersGrow,
         NEW r \in Records, Sound(r), r.holder <= thread'[r.of].holder,
         NEW marks \in [Threads -> SUBSET Causes], Output(<<r>>, marks), KeepsUp(r, marks),
         UNCHANGED <<readable, cache, verdict>>
  PROVE  IInv'
  <1>1. /\ Proper(ring)' /\ Len(ring') <= RingSlots
        /\ (Now \in State)' /\ CacheOK(cache)' /\ ContextsInv'
    BY ProduceOne DEF IInv
  <1>2. TypeInv'
    BY <1>1 DEF IInv, TypeInv
  <1>3. VerdictInv'
    BY DEF IInv, VerdictInv
  <1> QED
    BY <1>1, <1>2, <1>3 DEF IInv

LEMMA ProcessEventType ==
  ASSUME ProgramInv, NEW kind \in {"fork", "exit", "exec"}, NEW t \in Threads, NEW of \in Threads,
         NEW holder \in 0 .. MaxCalls + 1
  PROVE  /\ ProcessEvent(kind, t, of, holder) \in Records
         /\ ProcessEvent(kind, t, of, holder).kind = kind
         /\ ProcessEvent(kind, t, of, holder).tid = t
         /\ ProcessEvent(kind, t, of, holder).of = of
         /\ ProcessEvent(kind, t, of, holder).holder = holder
         /\ ProcessEvent(kind, t, of, holder).dir = Here(t)
         /\ (kind # "fork" /\ of = t) \/ (kind = "fork" /\ t = Main /\ of = Other)
              => Sound(ProcessEvent(kind, t, of, holder))
  <1>1. thread[t].leader \in Threads /\ Here(t) \in Nat
    BY HereType
  <1>2. ProcessEvent(kind, t, of, holder) \in Records
    BY <1>1 DEF ProcessEvent, Records
  <1> QED
    BY <1>1, <1>2 DEF ProcessEvent, Sound

\* A call is counted, and is one more than Other has been.
LEMMA CallsGrow ==
  ASSUME ProgramInv, calls < MaxCalls
  PROVE  /\ calls + 1 \in 0 .. MaxCalls /\ calls \in Nat
         /\ thread[Other].holder \in Nat /\ thread[Other].holder <= calls
         /\ thread[Other].holder <= calls + 1 /\ thread[Other].holder + 1 <= calls + 1
         /\ thread[Other].holder + 1 \in 0 .. MaxCalls + 1
  <1>1. calls \in 0 .. MaxCalls /\ thread[Other].holder <= calls
    BY DEF ProgramInv
  <1>2. thread[Other].holder \in 0 .. MaxCalls + 1
    BY HereType, Limits
  <1> QED
    BY <1>1, <1>2, Limits

LEMMA UnmarkedType ==
  /\ Unmarked \in [Threads -> SUBSET Causes] /\ \A t \in Threads : Unmarked[t] = {}
  BY DEF Unmarked

LEMMA ExecPreserves ==
  ASSUME IInv, NEW t \in Threads, Exec(t)
  PROVE  IInv'
  <1>0. ProgramInv
    BY DEF IInv, TypeInv
  <1>1. /\ thread[t].alive /\ calls < MaxCalls /\ calls' = calls + 1
        /\ Output(<<ProcessEvent("exec", t, t, thread[t].holder)>>, Unmarked)
        /\ UNCHANGED <<thread, cwd, root, readable, cache, verdict>>
    BY DEF Exec
  <1>2. PICK r : r = ProcessEvent("exec", t, t, thread[t].holder)
    OBVIOUS
  <1>3. thread[t].holder \in 0 .. MaxCalls + 1 /\ thread[t].holder \in Nat
    BY <1>0, HereType, Limits
  <1>4. /\ r \in Records /\ r.kind = "exec" /\ r.tid = t /\ r.of = t
        /\ r.holder = thread[t].holder /\ r.dir = Here(t) /\ Sound(r)
    BY <1>0, <1>2, <1>3, ProcessEventType
  <1>5. ProgramInv'
    BY <1>0, <1>1, CallsGrow DEF ProgramInv
  <1>6. HoldersGrow /\ r.holder <= thread'[r.of].holder
    BY <1>0, <1>1, <1>3, <1>4, HereType DEF HoldersGrow
  <1>7. ASSUME NEW u \in Threads
        PROVE  /\ DirNow(u)' = DirNow(u) /\ Due(u)' = Due(u) /\ Due(u) <= Due(u)'
               /\ Leads(r, u, DirNow(u), DirNow(u)) /\ Serves(r, u, Due(u), Due(u))
    <2>1. DirNow(u)' = DirNow(u) /\ Due(u)' = Due(u) /\ Due(u) \in Nat
      BY <1>0, <1>1, DueType DEF DirNow, Due, Here, View, Top, Dir
    <2>2. u = t => DirNow(u) = Here(t) /\ Due(u) = thread[t].holder
      BY <1>1 DEF DirNow, Due
    <2>3. Leads(r, u, DirNow(u), DirNow(u))
      BY <1>4, <2>2 DEF Leads, About, Tells
    <2>4. Serves(r, u, Due(u), Due(u))
      BY <1>3, <1>4, <2>2 DEF Serves
    <2> QED
      BY <2>1, <2>3, <2>4
  <1>8. KeepsUp(r, Unmarked)
    BY <1>7 DEF KeepsUp
  <1> QED
    BY <1>1, <1>2, <1>4, <1>5, <1>6, <1>8, UnmarkedType, ProduceOneKeeps

LEMMA ExitPreserves ==
  ASSUME IInv, Exit
  PROVE  IInv'
  <1>0. ProgramInv /\ Main \in Threads /\ Other \in Threads /\ Main # Other
    BY Limits DEF IInv, TypeInv
  <1>1. /\ thread[Other].alive /\ thread' = [thread EXCEPT ![Other] = Gone(thread[Other].holder)]
        /\ Output(<<ProcessEvent("exit", Other, Other, thread[Other].holder)>>, Unmarked)
        /\ UNCHANGED <<cwd, root, calls, readable, cache, verdict>>
    BY DEF Exit
  <1>2. PICK r : r = ProcessEvent("exit", Other, Other, thread[Other].holder)
    OBVIOUS
  <1>3. thread[Other].holder \in 0 .. MaxCalls + 1 /\ thread[Other].holder \in Nat
    BY <1>0, HereType, Limits
  <1>4. /\ r \in Records /\ r.kind = "exit" /\ r.tid = Other /\ r.of = Other
        /\ r.holder = thread[Other].holder /\ Sound(r)
    BY <1>0, <1>2, <1>3, ProcessEventType
  <1>5. thread'[Other] = Gone(thread[Other].holder) /\ thread'[Main] = thread[Main]
    BY <1>0, <1>1 DEF ProgramInv
  <1>6. ProgramInv'
    <2>1. Gone(thread[Other].holder) \in Thread
      BY <1>0, <1>3 DEF Gone, Thread
    <2>2. thread' \in [Threads -> Thread]
      BY <1>0, <1>1, <2>1 DEF ProgramInv
    <2> QED
      BY <1>0, <1>1, <1>5, <2>2 DEF ProgramInv, Gone
  <1>7. HoldersGrow /\ r.holder <= thread'[r.of].holder
    <2>1. thread[Main].holder \in Nat
      BY <1>0, HereType, Limits
    <2> QED
      BY <1>3, <1>4, <1>5, <2>1, Limits DEF HoldersGrow, Gone
  <1>8. DirNow(Main)' = DirNow(Main) /\ Due(Main)' = Due(Main) /\ Due(Main) \in Nat
    <2>1. Due(Main) \in Nat
      BY <1>0, DueType
    <2> QED
      BY <1>1, <1>5, <2>1 DEF DirNow, Due, Here, View, Top, Dir
  <1>9. Due(Other) <= Due(Other)'
    BY <1>1, <1>3, <1>5 DEF Due, Gone
  <1>10. KeepsUp(r, Unmarked)
    <2> SUFFICES ASSUME NEW u \in Threads
                 PROVE  /\ Leads(r, u, DirNow(u), DirNow(u)') /\ (u # r.of => DirNow(u)' = DirNow(u))
                        /\ Serves(r, u, Due(u), Due(u)') /\ Due(u) <= Due(u)'
                        /\ u # r.of => Due(u)' = Due(u)
      BY DEF KeepsUp
    <2>1. CASE u = Main
      BY <1>0, <1>4, <1>8, <2>1 DEF Leads, Serves, About
    <2>2. CASE u = Other
      BY <1>4, <1>9, <2>2 DEF Leads, Serves, About
    <2> QED
      BY <2>1, <2>2, Limits
  <1> QED
    BY <1>1, <1>2, <1>4, <1>6, <1>7, <1>10, UnmarkedType, ProduceOneKeeps

LEMMA ClonePreserves ==
  ASSUME IInv, Clone
  PROVE  IInv'
  <1>0. ProgramInv /\ Main \in Threads /\ Other \in Threads /\ Main # Other
    BY Limits DEF IInv, TypeInv
  <1>1. PICK leader \in {Main, Other} :
          /\ thread' = [thread EXCEPT ![Other] = Running(leader, thread[Other].holder + 1)]
          /\ cwd' = [cwd EXCEPT ![leader] = cwd[Main]]
          /\ root' = [root EXCEPT ![leader] = root[Main]]
    BY DEF Clone
  <1>2. /\ thread[Main].alive /\ ~thread[Other].alive /\ calls < MaxCalls /\ calls' = calls + 1
        /\ Output(<<ProcessEvent("fork", Main, Other, thread[Other].holder + 1)>>, Unmarked)
        /\ UNCHANGED <<readable, cache, verdict>>
    BY DEF Clone
  <1>3. PICK h : h = thread[Other].holder
    OBVIOUS
  <1>4. h \in Nat /\ h <= calls /\ h + 1 \in 0 .. MaxCalls + 1 /\ calls \in Nat /\ h + 1 <= calls'
    BY <1>0, <1>2, <1>3, CallsGrow
  <1>5. PICK r : r = ProcessEvent("fork", Main, Other, h + 1)
    OBVIOUS
  <1>6. /\ r \in Records /\ r.kind = "fork" /\ r.tid = Main /\ r.of = Other
        /\ r.holder = h + 1 /\ r.dir = Here(Main) /\ Sound(r)
    BY <1>0, <1>4, <1>5, ProcessEventType
  <1>7. thread'[Other] = Running(leader, h + 1) /\ thread'[Main] = thread[Main]
        /\ thread[Main].leader = Main
    BY <1>0, <1>1, <1>3 DEF ProgramInv, Running
  <1>8. /\ cwd'[Main] = cwd[Main] /\ root'[Main] = root[Main]
        /\ cwd'[leader] = cwd[Main] /\ root'[leader] = root[Main]
        /\ cwd' \in [Threads -> Levels] /\ root' \in [Threads -> Levels]
        /\ \A p \in Threads : root'[p] <= cwd'[p]
    BY <1>0, <1>1, Limits DEF ProgramInv
  <1>9. ProgramInv'
    <2>1. Running(leader, h + 1) \in Thread
      BY <1>1, <1>4, Limits DEF Running, Thread
    <2>2. thread' \in [Threads -> Thread]
      BY <1>0, <1>1, <1>3, <2>1 DEF ProgramInv
    <2>3. calls' \in 0 .. MaxCalls
      BY <1>2, <1>4, Limits
    <2>4. thread'[Other].holder = h + 1 /\ h + 1 # 0
      BY <1>4, <1>7 DEF Running
    <2> QED
      BY <1>0, <1>4, <1>7, <1>8, <2>2, <2>3, <2>4 DEF ProgramInv
  <1>10. HoldersGrow /\ r.holder <= thread'[r.of].holder
    <2>1. thread[Main].holder \in Nat
      BY <1>0, HereType, Limits
    <2> QED
      BY <1>3, <1>4, <1>6, <1>7, <2>1, Limits DEF HoldersGrow, Running
  <1>11. DirNow(Main)' = DirNow(Main) /\ Due(Main)' = Due(Main) /\ Due(Main) \in Nat
         /\ DirNow(Main) = Here(Main)
    <2>1. Due(Main) \in Nat
      BY <1>0, DueType
    <2> QED
      BY <1>2, <1>7, <1>8, <2>1 DEF DirNow, Due, Here, View, Top, Dir
  <1>12. DirNow(Other) = None /\ DirNow(Other)' = Here(Main) /\ Due(Other) = h + 1 /\ Due(Other)' = h + 1
    BY <1>2, <1>3, <1>7, <1>8 DEF DirNow, Due, Here, View, Top, Dir, Running
  <1>13. KeepsUp(r, Unmarked)
    <2> SUFFICES ASSUME NEW u \in Threads
                 PROVE  /\ Leads(r, u, DirNow(u), DirNow(u)') /\ (u # r.of => DirNow(u)' = DirNow(u))
                        /\ Serves(r, u, Due(u), Due(u)') /\ Due(u) <= Due(u)'
                        /\ u # r.of => Due(u)' = Due(u)
      BY DEF KeepsUp
    <2>1. CASE u = Main
      <3>1. Leads(r, Main, Here(Main), Here(Main))
        BY <1>6 DEF Leads, Tells, About
      <3> QED
        BY <1>0, <1>6, <1>11, <2>1, <3>1 DEF Serves
    <2>2. CASE u = Other
      <3>1. Leads(r, Other, None, Here(Main)) /\ Serves(r, Other, h + 1, h + 1)
        BY <1>4, <1>6 DEF Leads, Tells, About, Serves
      <3> QED
        BY <1>4, <1>6, <1>12, <2>2, <3>1
    <2> QED
      BY <2>1, <2>2, Limits
  <1> QED
    BY <1>2, <1>3, <1>5, <1>6, <1>9, <1>10, <1>13, UnmarkedType, ProduceOneKeeps

\* Nothing is claimed of a thread that is not followed.
LEMMA LostFits ==
  ASSUME NEW s, NEW t, "lost" \in s.misled[t] \/ "takeover" \in s.misled[t],
         NEW records, NEW now, NEW due
  PROVE  Agrees(s, records, t, now) /\ Belongs(s, records, t, due)
  BY DEF Agrees, Belongs, Unheard

LEMMA TakeOverPreserves ==
  ASSUME IInv, TakeOver
  PROVE  IInv'
  <1>0. /\ ProgramInv /\ Main \in Threads /\ Other \in Threads /\ Main # Other
        /\ Proper(ring) /\ ring \in Seq(Records) /\ Len(ring) <= RingSlots
        /\ cache \in Cache /\ misled \in [Threads -> SUBSET Causes] /\ CacheOK(cache)
    BY Limits, NowParts DEF IInv, TypeInv, Proper
  <1>1. /\ thread[Other].alive /\ calls < MaxCalls /\ calls' = calls + 1
        /\ thread' = [thread EXCEPT ![Other] = Gone(thread[Other].holder)]
        /\ Output(<<ProcessEvent("exit", Main, Main, 1), ProcessEvent("exec", Main, Main, 1)>>,
                  [Unmarked EXCEPT ![Other] = {"takeover"}])
        /\ UNCHANGED <<cwd, root, readable, cache, verdict>>
    BY DEF TakeOver
  <1>2. PICK a : a = ProcessEvent("exit", Main, Main, 1)
    OBVIOUS
  <1>3. PICK b : b = ProcessEvent("exec", Main, Main, 1)
    OBVIOUS
  <1>4. thread[Main] = Running(Main, 1) /\ thread[Main].holder = 1 /\ thread[Main].alive
        /\ 1 \in 0 .. MaxCalls + 1
    BY <1>0, Limits DEF ProgramInv, Running
  <1>5. /\ a \in Records /\ a.kind = "exit" /\ a.tid = Main /\ a.of = Main /\ a.holder = 1
        /\ Sound(a)
        /\ b \in Records /\ b.kind = "exec" /\ b.tid = Main /\ b.of = Main /\ b.holder = 1
        /\ b.dir = Here(Main) /\ Sound(b)
    BY <1>0, <1>2, <1>3, <1>4, ProcessEventType
  <1>6. PICK marks \in [Threads -> SUBSET Causes] :
          marks = [Unmarked EXCEPT ![Other] = {"takeover"}] /\ "takeover" \in marks[Other]
    <2>1. {"takeover"} \in SUBSET Causes
      BY DEF Causes
    <2>2. PICK marks : marks = [Unmarked EXCEPT ![Other] = {"takeover"}]
      OBVIOUS
    <2>3. marks \in [Threads -> SUBSET Causes] /\ "takeover" \in marks[Other]
      BY <1>0, <2>1, <2>2, UnmarkedType
    <2> QED
      BY <2>2, <2>3
  <1>7. /\ misled' \in [Threads -> SUBSET Causes]
        /\ \A t \in Threads : misled[t] \cup marks[t] \subseteq misled'[t]
        /\ \/ ring' = Append(Append(ring, a), b) /\ Len(ring) + 2 <= RingSlots
           \/ ring' = Append(ring, a) /\ Len(ring) + 1 <= RingSlots /\ "lost" \in misled'[Main]
           \/ ring' = ring /\ "lost" \in misled'[Main]
    <2>1. Output(<<a, b>>, marks)
      BY <1>1, <1>2, <1>3, <1>6
    <2> QED
      BY <1>0, <1>5, <2>1, OutputTwo
  <1>8. thread'[Other] = Gone(thread[Other].holder) /\ thread'[Main] = thread[Main]
    BY <1>0, <1>1 DEF ProgramInv
  <1>9. thread[Other].holder \in 0 .. MaxCalls + 1 /\ thread[Other].holder \in Nat
    BY <1>0, HereType, Limits
  <1>10. ProgramInv'
    <2>1. Gone(thread[Other].holder) \in Thread
      BY <1>0, <1>9 DEF Gone, Thread
    <2>2. thread' \in [Threads -> Thread]
      BY <1>0, <1>1, <2>1 DEF ProgramInv
    <2>3. ~thread'[Other].alive /\ thread'[Other].holder = thread[Other].holder
      BY <1>8 DEF Gone
    <2> QED
      BY <1>0, <1>1, <1>8, <2>2, <2>3, CallsGrow DEF ProgramInv
  <1>11. \A t \in Threads : thread'[t].holder = thread[t].holder
    BY <1>8, Limits DEF Gone
  <1>12. Append(ring, a) \in Seq(Records) /\ Proper(Append(ring, a))
         /\ Len(Append(ring, a)) = Len(ring) + 1
    BY <1>0, <1>4, <1>5, AppendProper, AppendProperties DEF Proper
  <1>13. Proper(Append(Append(ring, a), b))
         /\ Len(Append(Append(ring, a), b)) = Len(ring) + 2
    <2>1. PICK q \in Seq(Records) : q = Append(ring, a) /\ Proper(q) /\ Len(q) = Len(ring) + 1
      BY <1>12
    <2>2. Proper(Append(q, b)) /\ Len(Append(q, b)) = Len(q) + 1
      BY <1>4, <1>5, <2>1, AppendProper, AppendProperties DEF Proper
    <2>3. Len(ring) \in Nat
      BY <1>0, LenProperties
    <2> QED
      BY <2>1, <2>2, <2>3
  <1>14. Proper(ring)' /\ Len(ring') <= RingSlots
    <2>1. PICK q : q = ring'
      OBVIOUS
    <2>2. Proper(q) /\ Len(q) <= RingSlots
      BY <1>0, <1>7, <1>12, <1>13, <2>1
    <2>3. q \in Seq(Records)
      BY <2>2 DEF Proper
    <2>4. \A i \in DOMAIN q : Sound(q[i]) /\ q[i].holder <= thread'[q[i].of].holder
      <3> TAKE i \in DOMAIN q
      <3>1. Sound(q[i]) /\ q[i].holder <= thread[q[i].of].holder /\ q[i] \in Records
        BY <2>2, <2>3, LenProperties, ElementOfSeq DEF Proper
      <3>2. q[i].of \in Threads
        BY <3>1, RecordParts
      <3>3. thread'[q[i].of].holder = thread[q[i].of].holder
        BY <1>11, <3>2
      <3> QED
        BY <3>1, <3>3
    <2> QED
      BY <2>1, <2>2, <2>3, <2>4 DEF Proper
  <1>15. (Now \in State)' /\ CacheOK(cache)'
    <2>1. cache' \in Cache /\ misled' \in [Threads -> SUBSET Causes]
      BY <1>0, <1>1, <1>7
    <2> QED
      BY <1>0, <1>1, <2>1 DEF Now, State
  <1>16. PICK s : s = Now
    OBVIOUS
  <1>17. PICK z : z = Now'
    OBVIOUS
  <1>18. s.cache = cache /\ s.misled = misled /\ z.cache = cache /\ z.misled = misled'
    BY <1>1, <1>16, <1>17 DEF Now
  <1>19. Agrees(z, ring', Other, DirNow(Other)') /\ Belongs(z, ring', Other, Due(Other)')
    <2>1. "takeover" \in z.misled[Other]
      BY <1>0, <1>6, <1>7, <1>18
    <2> QED
      BY <2>1, LostFits
  <1>20. Agrees(z, ring', Main, DirNow(Main)') /\ Belongs(z, ring', Main, Due(Main)')
    <2>1. CASE "lost" \in misled'[Main]
      <3>1. "lost" \in z.misled[Main]
        BY <1>18, <2>1
      <3> QED
        BY <3>1, LostFits
    <2>2. CASE ring' = Append(Append(ring, a), b)
      <3>1. PICK now \in Nat : now = Here(Main)
        BY <1>0, HereType
      <3>2. now \in Dirs /\ DirNow(Main) = now /\ Due(Main) = 1 /\ 1 \in Nat /\ 1 <= 1
        BY <1>4, <3>1 DEF DirNow, Due, Dirs
      <3>3. DirNow(Main)' = now /\ Due(Main)' = 1
        BY <1>1, <1>4, <1>8, <3>1 DEF DirNow, Due, Here, View, Dir, Top
      <3>4. Agrees(s, ring, Main, now) /\ Belongs(s, ring, Main, 1)
        BY <1>0, <1>16, <3>2 DEF IInv, ContextsInv, Fits
      <3>5. s.misled[Main] \subseteq z.misled[Main]
        BY <1>0, <1>7, <1>18
      <3>6. Leads(a, Main, now, now) /\ Serves(a, Main, 1, 1)
        BY <1>5 DEF Leads, Serves, About
      <3>7. Leads(b, Main, now, now) /\ Serves(b, Main, 1, 1)
        BY <1>5, <3>1 DEF Leads, Serves, About, Tells
      <3>8. Agrees(z, Append(ring, a), Main, now) /\ Belongs(z, Append(ring, a), Main, 1)
        BY <1>0, <1>5, <1>18, <3>2, <3>4, <3>5, <3>6, GrowFits
      <3>9. PICK q \in Seq(Records) : q = Append(ring, a)
        BY <1>12
      <3>10. Agrees(z, Append(q, b), Main, now) /\ Belongs(z, Append(q, b), Main, 1)
        BY <1>0, <1>5, <3>2, <3>7, <3>8, <3>9, GrowFits
      <3> QED
        BY <2>2, <3>3, <3>9, <3>10
    <2> QED
      BY <1>7, <2>1, <2>2
  <1>21. ContextsInv'
    BY <1>17, <1>19, <1>20, Limits DEF ContextsInv, Fits
  <1>22. TypeInv'
    BY <1>1, <1>10, <1>14, <1>15 DEF IInv, TypeInv
  <1>23. VerdictInv'
    BY <1>1 DEF IInv, VerdictInv
  <1> QED
    BY <1>21, <1>22, <1>23 DEF IInv

\* The collector's steps leave the programs as they are.
LEMMA CollectorKeeps ==
  ASSUME IInv, NEW z, Good(z), NEW records, Proper(records), Len(records) <= RingSlots,
         Fits(z, records), SetCache(z), ring' = records,
         UNCHANGED programs, readable' \in BOOLEAN,
         verdict'.said \in {"nothing", "lost", "path"}, verdict'.causes \subseteq Causes,
         VerdictInv'
  PROVE  IInv'
  <1>0. /\ ProgramInv /\ thread' = thread /\ cwd' = cwd /\ root' = root /\ calls' = calls
        /\ cache' = z.cache /\ misled' = z.misled
    BY DEF IInv, TypeInv, programs, SetCache
  <1>1. ProgramInv'
    BY <1>0 DEF ProgramInv
  <1>2. Proper(ring)' /\ Len(ring)' <= RingSlots
    BY <1>0 DEF Proper
  <1>3. (Now \in State)' /\ CacheOK(cache)'
    <2>1. cache' \in Cache /\ misled' \in [Threads -> SUBSET Causes] /\ CacheOK(z.cache)
      BY <1>0, GoodFields DEF Good, State
    <2> QED
      BY <1>0, <2>1 DEF Now, State
  <1>4. Now' = z
    BY <1>0, GoodFields DEF Now
  <1>5. \A t \in Threads : DirNow(t)' = DirNow(t) /\ Due(t)' = Due(t)
    BY <1>0 DEF DirNow, Due, Here, View, Dir, Top
  <1>6. ContextsInv'
    <2>1. \A t \in Threads : Agrees(Now', ring', t, DirNow(t)') /\ Belongs(Now', ring', t, Due(t)')
      BY <1>4, <1>5 DEF Fits
    <2> QED
      BY <2>1 DEF ContextsInv, Fits
  <1>7. TypeInv'
    BY <1>1, <1>2, <1>3 DEF TypeInv
  <1> QED
    BY <1>6, <1>7 DEF IInv

LEMMA NowGood ==
  ASSUME IInv
  PROVE  /\ Good(Now) /\ ProgramInv /\ Proper(ring) /\ Len(ring) <= RingSlots
         /\ Fits(Now, ring) /\ readable \in BOOLEAN
         /\ Now.cache = cache /\ Now.misled = misled
  BY NowParts DEF IInv, TypeInv, ContextsInv, Good

LEMMA IdlePreserves ==
  ASSUME IInv, UNCHANGED <<programs, ring, cache, misled, verdict>>, readable' \in BOOLEAN
  PROVE  IInv'
  <1>1. SetCache(Now)
    BY NowGood DEF SetCache
  <1>2. VerdictInv' /\ verdict'.said \in {"nothing", "lost", "path"} /\ verdict'.causes \subseteq Causes
    BY DEF IInv, TypeInv, VerdictInv
  <1> QED
    BY <1>1, <1>2, NowGood, CollectorKeeps

LEMMA TailProper ==
  ASSUME NEW records, Proper(records), records # <<>>, Len(records) <= RingSlots
  PROVE  Proper(Tail(records)) /\ Len(Tail(records)) <= RingSlots
  <1>1. Len(records) \in Nat /\ Len(Tail(records)) = Len(records) - 1
    BY LenProperties, HeadTailProperties DEF Proper
  <1> QED
    BY <1>1, HeadRecord, Limits

LEMMA EventPreserves ==
  ASSUME IInv, ConsumeProcessEvent
  PROVE  IInv'
  <1>1. PICK r : r = Head(ring)
    OBVIOUS
  <1>2. /\ ring # <<>> /\ r.kind \in {"fork", "exit", "exec"}
        /\ ring' = Tail(ring) /\ verdict' = NoVerdict /\ UNCHANGED <<programs, readable>>
    BY <1>1 DEF ConsumeProcessEvent
  <1>3. PICK z : z = Event(r)
    OBVIOUS
  <1>4. SetCache(z)
    BY <1>1, <1>3 DEF ConsumeProcessEvent, Event
  <1>5. Good(z) /\ Fits(z, Tail(ring))
    BY <1>1, <1>2, <1>3, NowGood, EventFits
  <1>6. VerdictInv' /\ verdict'.said \in {"nothing", "lost", "path"} /\ verdict'.causes \subseteq Causes
    BY <1>2 DEF VerdictInv, NoVerdict, Verdict
  <1> QED
    BY <1>2, <1>4, <1>5, <1>6, NowGood, TailProper, CollectorKeeps

LEMMA SyscallRecordPreserves ==
  ASSUME IInv, ConsumeSyscall
  PROVE  IInv'
  <1>1. PICK r : r = Head(ring)
    OBVIOUS
  <1>2. /\ ring # <<>> /\ r.kind \in {"chdir", "fchdir", "open", "chroot"}
        /\ ring' = Tail(ring) /\ UNCHANGED <<programs, readable>>
    BY <1>1 DEF ConsumeSyscall
  <1>3. PICK s : s = Looked(r)
    OBVIOUS
  <1>4. PICK fdKnown \in BOOLEAN : SetCache(Updated(s, r, fdKnown))
    BY <1>1, <1>3 DEF ConsumeSyscall
  <1>5. verdict' =
          IF r.kind # "open" THEN NoVerdict
          ELSE IF ~Resolvable(s, r) THEN Verdict("lost", 0, r.path, TRUE, {})
          ELSE Verdict("path", Resolved(s, r), r.path,
                       s.cache.ctx[r.tid].holder >= r.holder, s.misled[r.tid])
    BY <1>1, <1>3 DEF ConsumeSyscall
  <1>6. PICK z : z = Updated(s, r, fdKnown)
    OBVIOUS
  <1>7. Good(z) /\ Fits(z, Tail(ring))
    BY <1>1, <1>2, <1>3, <1>6, NowGood, UpdatedFits
  <1>8. Good(s) /\ Fits(s, ring)
    BY <1>1, <1>2, <1>3, NowGood, LookedFits
  <1>9. VerdictInv' /\ verdict'.said \in {"nothing", "lost", "path"} /\ verdict'.causes \subseteq Causes
    <2>1. CASE r.kind # "open"
      BY <1>5, <2>1 DEF VerdictInv, NoVerdict, Verdict
    <2>2. CASE r.kind = "open" /\ ~Resolvable(s, r)
      BY <1>5, <2>2 DEF VerdictInv, Verdict
    <2>3. CASE r.kind = "open" /\ Resolvable(s, r)
      <3>1. /\ Resolved(s, r) # r.path => s.misled[r.tid] \ {"unheard"} # {}
            /\ s.cache.ctx[r.tid].holder >= r.holder \/ Unheard(s.misled[r.tid])
            /\ s.misled[r.tid] \subseteq Causes
        BY <1>1, <1>2, <1>8, <2>3, NowGood, OpenTrue
      <3>2. /\ verdict'.said = "path" /\ verdict'.path = Resolved(s, r)
            /\ verdict'.actual = r.path /\ verdict'.causes = s.misled[r.tid]
            /\ verdict'.own = (s.cache.ctx[r.tid].holder >= r.holder)
        BY <1>5, <2>3 DEF Verdict
      <3> QED
        BY <3>1, <3>2 DEF VerdictInv
    <2> QED
      BY <2>1, <2>2, <2>3
  <1> QED
    BY <1>2, <1>4, <1>6, <1>7, <1>9, NowGood, TailProper, CollectorKeeps

-----------------------------------------------------------------------------
(* System calls.                                                            *)

LEMMA RequestsType ==
  ASSUME NEW c \in Requests
  PROVE  /\ c.kind \in {"chdir", "fchdir", "open", "chroot"}
         /\ c.level \in Nat /\ c.level \in Levels \cup {0}
         /\ c.kind = "chdir" => c.name \in {"abs", "rel", "up"}
         /\ c.kind = "fchdir" => c.name = "none"
         /\ c.kind = "open" => c.name = "rel"
         /\ c.kind = "chroot" => c.name = "here"
         /\ c.name \in {"abs", "rel", "up", "none", "here"}
  <1>1. Named \subseteq Levels /\ Levels \subseteq Nat
    BY Limits
  <1>2. CASE c \in {Call("chdir", "abs", level) : level \in Named}
    BY <1>1, <1>2 DEF Call
  <1>3. CASE c \in {Call("chdir", name, 0) : name \in {"rel", "up"}}
    BY <1>3 DEF Call
  <1>4. CASE c \in {Call("fchdir", "none", level) : level \in Named}
    BY <1>1, <1>4 DEF Call
  <1>5. CASE c \in {Call("open", "rel", 0), Call("chroot", "here", 0)}
    BY <1>5 DEF Call
  <1> QED
    BY <1>2, <1>3, <1>4, <1>5 DEF Requests

Moves(t, c) == ~Fails(t, c) /\ c.kind \in {"chdir", "fchdir"}
DirAfter(t, c) == IF Moves(t, c) THEN Target(t, c) ELSE Dir(t)
TopAfter(t, c) == IF c.kind = "chroot" THEN Dir(t) ELSE Top(t)

\* Where a call leaves the process, and what its record tells of it.
LEMMA CallEffect ==
  ASSUME ProgramInv, NEW t \in Threads, NEW c \in Requests
  PROVE  /\ DirAfter(t, c) \in Levels /\ TopAfter(t, c) \in Levels
         /\ TopAfter(t, c) <= DirAfter(t, c)
         /\ Record(t, c, View(TopAfter(t, c), DirAfter(t, c))) \in Records
         /\ Sound(Record(t, c, View(TopAfter(t, c), DirAfter(t, c))))
         /\ Tells(Here(t), Record(t, c, View(TopAfter(t, c), DirAfter(t, c))))
         /\ ~Moves(t, c) /\ c.kind # "chroot" => DirAfter(t, c) = Dir(t) /\ TopAfter(t, c) = Top(t)
  <1>1. /\ c.kind \in {"chdir", "fchdir", "open", "chroot"} /\ c.level \in Nat
        /\ c.kind = "chdir" => c.name \in {"abs", "rel", "up"}
        /\ c.kind = "fchdir" => c.name = "none"
        /\ c.kind = "open" => c.name = "rel"
        /\ c.kind = "chroot" => c.name = "here"
        /\ c.name \in {"abs", "rel", "up", "none", "here"}
    BY RequestsType
  <1>2. PICK dir \in Nat : dir = Dir(t)
    BY HereType
  <1>3. PICK top \in Nat : top = Top(t)
    BY HereType
  <1>4. /\ top <= dir /\ dir <= Depth /\ Depth \in Nat /\ Here(t) = dir - top
        /\ \A n \in Nat : n <= Depth => n \in Levels
    BY <1>2, <1>3, HereType, Limits DEF Here, View
  <1>5. /\ c.name = "abs" => Target(t, c) = top + c.level
        /\ c.name = "rel" => Target(t, c) = dir + 1
        /\ c.name = "up" => Target(t, c) = (IF dir = top THEN dir ELSE dir - 1)
        /\ c.name = "none" => Target(t, c) = top + c.level
        /\ c.name = "here" => Target(t, c) = dir
    BY <1>2, <1>3 DEF Target
  <1>6. Target(t, c) \in Nat /\ top <= Target(t, c)
    BY <1>1, <1>4, <1>5
  <1>7. PICK target \in Nat : target = Target(t, c)
    BY <1>6
  <1>8. Fails(t, c) <=> c.kind # "open" /\ target > Depth
    BY <1>7 DEF Fails
  <1>9. PICK after \in Nat : after = DirAfter(t, c)
    BY <1>2, <1>6 DEF DirAfter
  <1>10. PICK topAfter \in Nat : topAfter = TopAfter(t, c)
    BY <1>2, <1>3 DEF TopAfter
  <1>11. /\ Moves(t, c) => after = target /\ target <= Depth /\ topAfter = top
         /\ ~Moves(t, c) => after = dir
         /\ c.kind = "chroot" => topAfter = dir /\ ~Moves(t, c)
         /\ c.kind # "chroot" => topAfter = top
    BY <1>2, <1>3, <1>4, <1>7, <1>8, <1>9, <1>10 DEF DirAfter, TopAfter, Moves
  <1>12. topAfter <= after /\ after <= Depth /\ topAfter <= Depth
    BY <1>4, <1>6, <1>7, <1>11
  <1>13. PICK here \in Nat : here = View(TopAfter(t, c), DirAfter(t, c)) /\ here = after - topAfter
    BY <1>9, <1>10, <1>12 DEF View
  <1>14. PICK r : r = Record(t, c, here)
    OBVIOUS
  <1>15. /\ r.kind = c.kind /\ r.tid = t /\ r.of = t /\ r.name = c.name /\ r.level = c.level
         /\ r.success = ~Fails(t, c) /\ r.dir = here /\ r.path = Here(t) + 1
    BY <1>14 DEF Record
  <1>16. r \in Records
    <2>1. thread[t].leader \in Threads /\ thread[t].holder \in 0 .. MaxCalls + 1 /\ Here(t) + 1 \in Nat
      BY HereType
    <2>2. (~Fails(t, c)) \in BOOLEAN
      BY DEF Fails
    <2> QED
      BY <1>1, <1>14, <2>1, <2>2 DEF Record, Records
  <1>17. /\ c.kind = "open" => here = dir - top
         /\ ~Moves(t, c) /\ c.kind # "chroot" => here = dir - top
         /\ Moves(t, c) => here = target - top
    <2>1. c.kind = "open" => ~Moves(t, c)
      BY DEF Moves
    <2> QED
      BY <1>11, <1>13, <2>1
  <1>18. Sound(r)
    <2>1. c.kind = "open" => ~Moves(t, c)
      BY DEF Moves
    <2>2. r.success /\ r.kind \in {"chdir", "fchdir"} => Moves(t, c)
      BY <1>15 DEF Moves
    <2>3. Moves(t, c) /\ c.name \in {"abs", "none"} => here = c.level
      BY <1>1, <1>5, <1>7, <1>17
    <2>4. c.name = "abs" => c.kind = "chdir"
      BY <1>1
    <2>5. /\ r.success /\ r.name = "abs" => r.dir = r.level
          /\ r.success /\ r.kind = "fchdir" => r.dir = r.level
      BY <1>1, <1>15, <2>2, <2>3, <2>4
    <2>6. r.kind = "open" => r.path = r.dir + 1
      BY <1>4, <1>15, <1>17
    <2> QED
      BY <1>1, <1>15, <2>5, <2>6 DEF Sound
  <1>19. Tells(Here(t), r)
    <2>1. ~r.success => ~Moves(t, c) /\ c.kind # "chroot"
      <3>1. c.kind = "chroot" => ~Fails(t, c)
        BY <1>1, <1>4, <1>5, <1>7, <1>8
      <3> QED
        BY <1>15, <3>1 DEF Moves
    <2>2. ~r.success \/ r.kind \in {"open", "fork", "exec"} => r.dir = Here(t)
      BY <1>1, <1>4, <1>15, <1>17, <2>1
    <2>3. r.success /\ r.kind = "chdir" /\ r.name = "rel" => r.dir = Here(t) + 1
      <3>1. r.success /\ r.kind = "chdir" => Moves(t, c)
        BY <1>15 DEF Moves
      <3> QED
        BY <1>4, <1>5, <1>7, <1>15, <1>17, <3>1
    <2> QED
      BY <2>2, <2>3 DEF Tells
  <1>20. ~Moves(t, c) /\ c.kind # "chroot" => DirAfter(t, c) = Dir(t) /\ TopAfter(t, c) = Top(t)
    BY DEF DirAfter, TopAfter
  <1>21. DirAfter(t, c) \in Levels /\ TopAfter(t, c) \in Levels /\ TopAfter(t, c) <= DirAfter(t, c)
    BY <1>4, <1>9, <1>10, <1>12
  <1> QED
    BY <1>13, <1>14, <1>16, <1>18, <1>19, <1>20, <1>21

LEMMA SyscallPreserves ==
  ASSUME IInv, NEW t \in Threads, Syscall(t)
  PROVE  IInv'
  <1>0. ProgramInv
    BY DEF IInv, TypeInv
  <1>1. PICK c \in Requests :
          /\ cwd' = [cwd EXCEPT ![thread[t].leader] = DirAfter(t, c)]
          /\ root' = [root EXCEPT ![thread[t].leader] = TopAfter(t, c)]
          /\ Output(<<Record(t, c, View(TopAfter(t, c), DirAfter(t, c)))>>,
                    [u \in Threads |-> {x \in {"sibling"} :
                                          (Moves(t, c) \/ c.kind = "chroot") /\ u \in Siblings(t)}])
    BY DEF Syscall, DirAfter, TopAfter, Moves
  <1>2. /\ thread[t].alive /\ calls < MaxCalls /\ calls' = calls + 1
        /\ UNCHANGED <<thread, readable, cache, verdict>>
    BY DEF Syscall
  <1>3. PICK r : r = Record(t, c, View(TopAfter(t, c), DirAfter(t, c)))
    OBVIOUS
  <1>4. PICK p \in Threads : p = thread[t].leader
    BY <1>0, HereType
  <1>5. PICK dir \in Levels : dir = DirAfter(t, c)
    BY <1>0, CallEffect
  <1>6. PICK top \in Levels : top = TopAfter(t, c)
    BY <1>0, CallEffect
  <1>7. /\ top <= dir /\ r \in Records /\ Sound(r) /\ Tells(Here(t), r)
        /\ ~Moves(t, c) /\ c.kind # "chroot" => dir = Dir(t) /\ top = Top(t)
    BY <1>0, <1>3, <1>5, <1>6, CallEffect
  <1>8. /\ r.tid = t /\ r.of = t /\ r.holder = thread[t].holder /\ r.dir = dir - top
        /\ r.kind = c.kind
    BY <1>3, <1>5, <1>6 DEF Record, View
  <1>9. /\ cwd' = [cwd EXCEPT ![p] = dir] /\ root' = [root EXCEPT ![p] = top]
        /\ cwd \in [Threads -> Levels] /\ root \in [Threads -> Levels]
    BY <1>0, <1>1, <1>4, <1>5, <1>6 DEF ProgramInv
  <1>10. /\ cwd' \in [Threads -> Levels] /\ root' \in [Threads -> Levels]
         /\ cwd'[p] = dir /\ root'[p] = top
         /\ \A q \in Threads : q # p => cwd'[q] = cwd[q] /\ root'[q] = root[q]
    BY <1>9
  <1>11. ProgramInv'
    <2>1. \A q \in Threads : root'[q] <= cwd'[q]
      BY <1>0, <1>7, <1>10 DEF ProgramInv
    <2> QED
      BY <1>0, <1>2, <1>10, <2>1, CallsGrow DEF ProgramInv
  <1>12. HoldersGrow /\ r.holder <= thread'[r.of].holder
    <2>1. \A u \in Threads : thread[u].holder \in Nat
      BY <1>0, HereType, Limits
    <2> QED
      BY <1>2, <1>8, <2>1 DEF HoldersGrow
  <1>13. PICK marks : marks = [u \in Threads |-> {x \in {"sibling"} :
                        (Moves(t, c) \/ c.kind = "chroot") /\ u \in Siblings(t)}]
    OBVIOUS
  <1>14. /\ marks \in [Threads -> SUBSET Causes]
         /\ \A u \in Threads : marks[u] \subseteq {"unheard"} =>
              ~((Moves(t, c) \/ c.kind = "chroot") /\ u \in Siblings(t))
    <2>1. \A u \in Threads : marks[u] = {x \in {"sibling"} :
                        (Moves(t, c) \/ c.kind = "chroot") /\ u \in Siblings(t)}
      BY <1>13
    <2>2. marks \in [Threads -> SUBSET Causes]
      BY <1>13 DEF Causes
    <2> QED
      BY <2>1, <2>2
  <1>15. ASSUME NEW u \in Threads
         PROVE  /\ Serves(r, u, Due(u), Due(u)') /\ Due(u) <= Due(u)' /\ Due(u)' = Due(u)
    <2>1. Due(u)' = Due(u) /\ Due(u) \in Nat
      BY <1>0, <1>2, DueType DEF Due
    <2>2. r.of = u => r.holder = Due(u)
      BY <1>2, <1>8 DEF Due
    <2> QED
      BY <2>1, <2>2 DEF Serves
  <1>16. Leads(r, t, DirNow(t), DirNow(t)')
    <2>1. DirNow(t) = Here(t) /\ DirNow(t)' = dir - top
      BY <1>2, <1>4, <1>10 DEF DirNow, Here, View, Dir, Top
    <2> QED
      BY <1>7, <1>8, <2>1 DEF Leads, About
  <1>17. ASSUME NEW u \in Threads, u # t, marks[u] \subseteq {"unheard"}
         PROVE  DirNow(u)' = DirNow(u)
    <2>1. CASE ~thread[u].alive
      BY <1>2, <2>1 DEF DirNow
    <2>2. CASE thread[u].alive /\ thread[u].leader # p
      <3>1. thread[u].leader \in Threads
        BY <1>0, HereType
      <3>2. cwd'[thread[u].leader] = cwd[thread[u].leader] /\ root'[thread[u].leader] = root[thread[u].leader]
        BY <1>10, <2>2, <3>1
      <3> QED
        BY <1>2, <3>2 DEF DirNow, Here, View, Dir, Top
    <2>3. CASE thread[u].alive /\ thread[u].leader = p
      <3>1. u \in Siblings(t)
        BY <1>4, <1>17, <2>3 DEF Siblings
      <3>2. dir = cwd[p] /\ top = root[p]
        BY <1>4, <1>7, <1>14, <1>17, <3>1 DEF Dir, Top
      <3> QED
        BY <1>2, <1>10, <2>3, <3>2 DEF DirNow, Here, View, Dir, Top
    <2> QED
      BY <2>1, <2>2, <2>3
  <1>18. KeepsUp(r, marks)
    <2> SUFFICES ASSUME NEW u \in Threads
                 PROVE  /\ marks[u] \subseteq {"unheard"} =>
                             /\ Leads(r, u, DirNow(u), DirNow(u)')
                             /\ u # r.of => DirNow(u)' = DirNow(u)
                        /\ Serves(r, u, Due(u), Due(u)') /\ Due(u) <= Due(u)' /\ Due(u)' = Due(u)
      BY DEF KeepsUp
    <2>1. u # t /\ marks[u] \subseteq {"unheard"} => Leads(r, u, DirNow(u), DirNow(u)')
      BY <1>8, <1>17 DEF Leads, About
    <2> QED
      BY <1>8, <1>15, <1>16, <1>17, <2>1
  <1>19. Output(<<r>>, marks)
    BY <1>1, <1>3, <1>13
  <1> QED
    BY <1>2, <1>7, <1>11, <1>12, <1>14, <1>18, <1>19, ProduceOneKeeps

-----------------------------------------------------------------------------
(* The invariant.                                                           *)

LEMMA InitFits ==
  ASSUME Init
  PROVE  ContextsInv
  <1>1. ring = <<>> /\ Len(ring) = 0 /\ DOMAIN ring = {}
    BY EmptySeq DEF Init
  <1>2. thread[Main] = Running(Main, 1) /\ thread[Other] = Gone(0)
    BY Limits DEF Init
  <1>3. \A t \in Threads : Here(t) \in Nat
    <2>1. \A t \in Threads : cwd[t] \in Levels /\ root[t] = 0 /\ thread[t].leader = Main
      BY <1>2, Limits DEF Init, Running, Gone
    <2> QED
      BY <2>1, Limits DEF Here, View, Dir, Top
  <1>4. ASSUME NEW t \in Threads
        PROVE  Agrees(Now, ring, t, DirNow(t))
    <2>1. PICK now \in Dirs : now = DirNow(t)
      BY <1>3 DEF DirNow, Dirs
    <2> DEFINE v == [i \in 0 .. 0 |-> now]
    <2>2. v \in [0 .. Len(ring) -> Dirs] /\ v[0] = now
      BY <1>1
    <2>3. IsCurrent(Now, t) => now = Now.cache.ctx[t].cwd
      <3>1. CASE t = Main
        <4>1. DirNow(Main) = cwd[Main]
          <5>1. cwd[Main] \in Nat /\ root[Main] = 0
            BY Limits DEF Init
          <5> QED
            BY <1>2, <5>1 DEF DirNow, Here, View, Dir, Top, Running
        <4>2. cache.ctx[Main] # NoContext => cache.ctx[Main].cwd = cwd[Main]
          BY Limits DEF Init
        <4> QED
          BY <2>1, <3>1, <4>1, <4>2 DEF IsCurrent, Known, Now
      <3>2. CASE t = Other
        <4>1. cache.ctx[Other] = NoContext
          BY Limits DEF Init
        <4> QED
          BY <3>2, <4>1 DEF IsCurrent, Known, Now
      <3> QED
        BY <3>1, <3>2, Limits
    <2> HIDE DEF v
    <2>4. Replays(v, ring, t)
      BY <1>1 DEF Replays
    <2> QED
      BY <1>1, <2>1, <2>2, <2>3, <2>4 DEF Agrees
  <1>5. ASSUME NEW t \in Threads
        PROVE  Belongs(Now, ring, t, Due(t))
    <2>1. Due(t) = 1
      BY <1>2, Limits DEF Due, Running, Gone
    <2> DEFINE w == [i \in 0 .. 0 |-> 1]
    <2>2. w \in [0 .. Len(ring) -> 0 .. 1] /\ w[0] = 1
      BY <1>1
    <2>3. Known(Now, t) => Now.cache.ctx[t].holder = 1
      BY Limits DEF Init, Known, Now
    <2> HIDE DEF w
    <2>4. Passes(w, ring, t)
      BY <1>1 DEF Passes
    <2> QED
      BY <1>1, <2>1, <2>2, <2>3, <2>4 DEF Belongs
  <1> QED
    BY <1>4, <1>5 DEF ContextsInv, Fits

LEMMA InitTypes ==
  ASSUME Init
  PROVE  TypeInv
  <1>1. ring = <<>> /\ Len(ring) = 0 /\ DOMAIN ring = {} /\ ring \in Seq(Records)
    BY EmptySeq DEF Init
  <1>2. thread[Main] = Running(Main, 1) /\ thread[Other] = Gone(0)
    BY Limits DEF Init
  <1>3. ProgramInv
    <2>1. Running(Main, 1) \in Thread /\ Gone(0) \in Thread
      BY Limits DEF Running, Gone, Thread
    <2>2. thread \in [Threads -> Thread]
      BY <2>1 DEF Init
    <2>3. cwd \in [Threads -> Levels] /\ root \in [Threads -> Levels]
          /\ \A p \in Threads : root[p] <= cwd[p]
      BY Limits DEF Init
    <2>4. calls = 0 /\ calls \in 0 .. MaxCalls
      BY Limits DEF Init
    <2> QED
      BY <1>2, <2>2, <2>3, <2>4 DEF ProgramInv, Gone
  <1>4. Proper(ring) /\ Len(ring) <= RingSlots
    BY <1>1, Limits DEF Proper
  <1>5. PICK ctx : ctx = cache.ctx
    OBVIOUS
  <1>6. PICK table : table = cache.epochs
    OBVIOUS
  <1>7. PICK p : p = <<Main, 1>>
    OBVIOUS
  <1>8. p \in Identities /\ p[1] = Main /\ p[2] = 1
    BY <1>7, Limits DEF Identities
  <1>9. cwd[Main] \in Nat
    BY Limits DEF Init
  <1>10. /\ cache \in Cache /\ CacheOK(cache)
    <2>1. CASE cache = [ctx |-> [t \in Threads |-> NoContext], epochs |-> <<>>, epoch |-> 0]
      <3>1. ctx = [t \in Threads |-> NoContext] /\ table = <<>> /\ cache.epoch = 0
            /\ cache = [ctx |-> ctx, epochs |-> table, epoch |-> 0]
        BY <1>5, <1>6, <2>1
      <3>2. DOMAIN table = {}
        BY <3>1
      <3>3. table \in [{} -> Nat] /\ {} \in SUBSET Identities
        BY <3>1
      <3>4. table \in Tables
        BY <3>3 DEF Tables
      <3>5. cache \in Cache
        BY <3>1, <3>4 DEF Cache
      <3> QED
        BY <1>5, <1>6, <3>1, <3>2, <3>5 DEF CacheOK, ContextOK
    <2>2. CASE cache = [ctx |-> [t \in Threads |->
                          IF t = Main THEN [process |-> p, cwd |-> cwd[Main], epoch |-> 0, holder |-> 1]
                          ELSE NoContext],
                        epochs |-> [q \in {p} |-> 0], epoch |-> 0]
      <3>1. PICK x : x = [process |-> p, cwd |-> cwd[Main], epoch |-> 0, holder |-> 1]
        OBVIOUS
      <3>2. x \in Context /\ x.process = p /\ x.epoch = 0
        BY <1>8, <1>9, <3>1 DEF Context
      <3>3. /\ ctx = [t \in Threads |-> IF t = Main THEN x ELSE NoContext]
            /\ table = [q \in {p} |-> 0] /\ cache.epoch = 0
            /\ cache = [ctx |-> ctx, epochs |-> table, epoch |-> 0]
        BY <1>5, <1>6, <2>2, <3>1
      <3>4. DOMAIN table = {p} /\ table[p] = 0
        BY <3>3
      <3>5. table \in [{p} -> Nat] /\ {p} \in SUBSET Identities
        BY <1>8, <3>3
      <3>6. table \in Tables
        BY <3>5 DEF Tables
      <3>7. ctx \in [Threads -> Context \cup {NoContext}] /\ ctx[Main] = x /\ ctx[Other] = NoContext
        BY <3>2, <3>3, Limits
      <3>8. cache \in Cache
        BY <3>3, <3>6, <3>7 DEF Cache
      <3>9. \A t \in Threads : ContextOK(cache, t)
        BY <1>5, <1>6, <1>8, <3>2, <3>3, <3>4, <3>7, Limits DEF ContextOK
      <3> QED
        BY <1>6, <3>3, <3>4, <3>8, <3>9 DEF CacheOK
    <2> QED
      BY <1>7, <2>1, <2>2 DEF Init
  <1>11. Now \in State
    <2>1. misled \in [Threads -> SUBSET Causes]
      BY DEF Init
    <2> QED
      BY <1>10, <2>1, NowParts
  <1>12. readable \in BOOLEAN /\ verdict.said \in {"nothing", "lost", "path"} /\ verdict.causes \subseteq Causes
    BY DEF Init, NoVerdict, Verdict
  <1> QED
    BY <1>3, <1>4, <1>10, <1>11, <1>12 DEF TypeInv

LEMMA InitIInv ==
  ASSUME Init
  PROVE  IInv
  <1>1. VerdictInv
    BY DEF Init, VerdictInv, NoVerdict, Verdict
  <1> QED
    BY <1>1, InitTypes, InitFits DEF IInv

LEMMA NextPreserves ==
  ASSUME IInv, [Next]_vars
  PROVE  IInv'
  <1>1. ASSUME NEW t \in Threads, Syscall(t) PROVE IInv'
    BY <1>1, SyscallPreserves
  <1>2. ASSUME NEW t \in Threads, Exec(t) PROVE IInv'
    BY <1>2, ExecPreserves
  <1>3. CASE Clone
    BY <1>3, ClonePreserves
  <1>4. CASE Exit
    BY <1>4, ExitPreserves
  <1>5. CASE TakeOver
    BY <1>5, TakeOverPreserves
  <1>6. CASE DropPrivileges
    BY <1>6, IdlePreserves DEF DropPrivileges
  <1>7. CASE ConsumeSyscall
    BY <1>7, SyscallRecordPreserves
  <1>8. CASE ConsumeProcessEvent
    BY <1>8, EventPreserves
  <1>9. CASE UNCHANGED vars
    BY <1>9, NowGood, IdlePreserves DEF vars
  <1> QED
    BY <1>1, <1>2, <1>3, <1>4, <1>5, <1>6, <1>7, <1>8, <1>9 DEF Next

LEMMA Invariance == Spec => []IInv
  <1>1. Init => IInv
    BY InitIInv
  <1>2. IInv /\ [Next]_vars => IInv'
    BY NextPreserves
  <1> QED
    BY <1>1, <1>2, PTL DEF Spec

-----------------------------------------------------------------------------
(* The theorems.                                                            *)

\* The programs, the ring buffer and the cache keep their types; a context the cache has
\* is one of a process it has tables of (ProcessCache).
THEOREM TypeCorrect == Spec => []TypeOK
  <1>1. IInv => TypeOK
    <2> SUFFICES ASSUME IInv PROVE TypeOK
      OBVIOUS
    <2>1. /\ cwd \in [Threads -> Levels] /\ root \in [Threads -> Levels] /\ calls \in 0 .. MaxCalls
          /\ Len(ring) <= RingSlots /\ ProgramInv
          /\ verdict.said \in {"nothing", "lost", "path"}
      BY DEF IInv, TypeInv, ProgramInv
    <2>2. calls <= MaxCalls
      BY <2>1, Limits
    <2>3. \A t \in Threads : thread[t].leader \in Threads /\ thread[t].holder <= MaxCalls + 1
      BY <2>1, HereType, Limits
    <2>4. Good(Now) /\ Now.cache = cache
      BY NowGood
    <2>5. DOMAIN cache.epochs \subseteq Identities
      BY <2>4, GoodFields
    <2>6. \A t \in Threads : cache.ctx[t] = NoContext \/ cache.ctx[t].process \in DOMAIN cache.epochs
      BY <2>4 DEF Good, CacheOK, ContextOK
    <2> QED
      BY <2>1, <2>2, <2>3, <2>5, <2>6 DEF TypeOK
  <1> QED
    BY <1>1, Invariance, PTL

\* Whatever programs do to each other's directories, and however records are lost, delayed
\* and overtaken by what /proc shows, the path reported for a relative name is where it
\* led, or one of the eight things the collector cannot know of is on record as having
\* happened to the thread (resolve_path, apply_syscall_cache_updates, apply_process_event).
THEOREM PathsAreTrue == Spec => []PathIsTrue
  <1>1. IInv => PathIsTrue
    <2> SUFFICES ASSUME IInv, verdict.said = "path", verdict.path # verdict.actual
                 PROVE  \E x \in Causes : x # "unheard" /\ x \in verdict.causes
      BY DEF PathIsTrue, Causes
    <2> QED
      BY DEF IInv, VerdictInv, TypeInv
  <1> QED
    BY <1>1, Invariance, PTL

\* A path is not made from the directory of an earlier thread with the same id, unless the
\* end of one was not heard (exit_thread, fork_thread, remove_reused_process).
THEOREM EarlierThreadsUnused == Spec => []EarlierUnused
  <1>1. IInv => EarlierUnused
    BY DEF IInv, VerdictInv, EarlierUnused
  <1> QED
    BY <1>1, Invariance, PTL

\* With nothing left to apply, a context that is up to date holds the directory its thread
\* is in, unless something the collector cannot know of has happened since /proc was read
\* (change_cwd, invalidate_process_mounts, insert_context).
THEOREM CacheSettles == Spec => []CacheAgrees
  <1>1. IInv => CacheAgrees
    <2> SUFFICES ASSUME IInv, ring = <<>>, NEW t \in Threads, thread[t].alive,
                        IsCurrent(Now, t), misled[t] \subseteq {"unheard"}
                 PROVE  cache.ctx[t].cwd = Here(t)
      BY DEF CacheAgrees
    <2>1. Agrees(Now, ring, t, DirNow(t)) /\ Len(ring) = 0
      BY EmptySeq DEF IInv, ContextsInv, Fits
    <2>2. DirNow(t) = Now.cache.ctx[t].cwd
      BY <2>1, NowGood DEF Agrees
    <2> QED
      BY <2>2, NowGood DEF DirNow
  <1> QED
    BY <1>1, Invariance, PTL

\* An id given to process after process leaves the tables of one of them whose start is
\* known: those of the others are gone (remove_reused_process).
THEOREM TablesGo == Spec => []OldTablesGo
  <1>1. IInv => OldTablesGo
    BY DEF IInv, TypeInv, CacheOK, OldTablesGo
  <1> QED
    BY <1>1, Invariance, PTL
=============================================================================
